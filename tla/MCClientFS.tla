------------------------------ MODULE MCClientFS ------------------------------
EXTENDS ClientFS

CONSTANTS a, b, c1, c2

MCNames == {a, b}
MCOneName == {a}
MCClients == {c1, c2}
MCOneClient == {c1}

\* the two clients are interchangeable
\* a3 holds whatever the register held: here a negative int
MCRegVals == {-1}

ClientSymmetry == Permutations(MCClients)
==============================================================================
