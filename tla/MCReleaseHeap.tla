--------------------------- MODULE MCReleaseHeap ---------------------------
(***************************************************************************)
(* Small instances of ReleaseHeap.                                         *)
(***************************************************************************)
EXTENDS ReleaseHeap, TLC

\* Threads run the same code and blocks are interchangeable; used only where
\* safety is checked.
Symmetric == Permutations(Threads) \union Permutations(Blocks)

=============================================================================
