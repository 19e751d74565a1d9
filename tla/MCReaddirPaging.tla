-------------------------- MODULE MCReaddirPaging --------------------------
EXTENDS ReaddirPaging, TLC

CONSTANTS d1, d2

MCDirs == {d1, d2}

\* Directory inodes are interchangeable; used only by the safety run.
DirSymmetry == Permutations(MCDirs)
====
