----------------------------- MODULE MCRunFile -----------------------------
(* RunFile for TLC: readers are interchangeable.                            *)
EXTENDS RunFile, TLC

ReaderSymmetry == Permutations(Readers)
=============================================================================
