\* One directory, two names, one entry per page: enough for a listing that
\* pages, a refusal, and a region map read on the same session.  No
\* symmetry: the property is temporal.
CONSTANTS
    d1 = d1
    d2 = d2
    Dirs = {d1}
    NumNames = 2
    PageSize = 1
SPECIFICATION Spec
PROPERTY ReaddirReturns
