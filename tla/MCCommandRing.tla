--------------------------- MODULE MCCommandRing ---------------------------
(***************************************************************************)
(* Small instances of CommandRing.  Two threads are enough for one to hold *)
(* the lock while another waits for it.  Counters that wrap at 2 * NumItems *)
(* put every wrap-around position of a full and of an empty ring in reach, *)
(* and every stale value of the two notify fields.                         *)
(***************************************************************************)
EXTENDS CommandRing, TLC

\* The threads run the same code; used only where safety is checked.
ThreadSymmetry == Permutations(Threads)

=============================================================================
