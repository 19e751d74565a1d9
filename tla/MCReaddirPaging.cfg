\* Two directories, three names, two entries per page: a listing of a full
\* directory takes two pages and a refused page forces the retry.
CONSTANTS
    d1 = d1
    d2 = d2
    Dirs <- MCDirs
    NumNames = 3
    PageSize = 2
SPECIFICATION Spec
SYMMETRY DirSymmetry
INVARIANT TypeOK
PROPERTY ListingExact
