---------------------------- MODULE MCOpenFileMap ----------------------------
EXTENDS OpenFileMap

\* the descriptor table is the interesting state; threads are interchangeable
ThreadSymmetry == Permutations(Threads)
==============================================================================
