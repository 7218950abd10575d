------------------------------ MODULE SpiceRing ------------------------------
(***************************************************************************)
(* The ring arithmetic of include/ipc_ring.h.  A ring lives in memory that *)
(* the driver and the device share; prod and cons are uint32_t counters    *)
(* that only ever grow and wrap, and a counter is turned into a slot by    *)
(* masking it with num_items - 1.                                          *)
(*                                                                         *)
(* CounterMod stands for 2^32 and NumItems for the power of two the ring   *)
(* was declared with (32 commands, 32 cursor commands, 8 release entries,  *)
(* qxl_dev.h:257-259).  What the code relies on is only that the counters  *)
(* wrap at a multiple of the ring's size.                                  *)
(***************************************************************************)
EXTENDS Integers

CONSTANTS
    NumItems,    \* num_items: slots in the ring
    CounterMod   \* 2^32 in the code: where prod and cons wrap

ASSUME RingAssumption ==
    /\ NumItems \in Nat \ {0}
    /\ CounterMod \in Nat
    /\ CounterMod > NumItems
    /\ \E k \in 1..CounterMod : CounterMod = k * NumItems

-----------------------------------------------------------------------------

Counter == 0..(CounterMod - 1)
Slots == 0..(NumItems - 1)

\* Mutant of Inc: the counter does not wrap.
IncNeverWraps(c) == c + 1

\* c + 1 and c++ on a uint32_t.
Inc(c) == IF c = CounterMod - 1 THEN 0 ELSE c + 1

\* p - c on uint32_t: how far p is ahead of c.
Gap(p, c) == IF p >= c THEN p - c ELSE (p - c) + CounterMod

\* SPICE_RING_PROD_ITEM and SPICE_RING_CONS_ITEM: counter & INDEX_MASK.
Slot(c) == c % NumItems

\* SPICE_RING_IS_EMPTY and SPICE_RING_IS_FULL.
IsEmpty(prod, cons) == cons = prod
IsFull(prod, cons) == Gap(prod, cons) = NumItems

=============================================================================
