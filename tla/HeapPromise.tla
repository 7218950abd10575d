---------------------------- MODULE HeapPromise ----------------------------
(***************************************************************************)
(* What AllocMem and FreeMem rely on: mspace_malloc hands out an aligned   *)
(* region of the arena that overlaps no region still held, or fails, and   *)
(* it fails only if no run of free memory is clearly larger than the       *)
(* request; mspace_free takes a region back.                               *)
(***************************************************************************)
EXTENDS Integers

CONSTANTS
    Requests,   \* the sizes asked for, in bytes, each at least 1
    Arena,      \* the bytes of the arena that may be handed out
    Alignment,
    Slack       \* what bookkeeping and rounding may cost a request

VARIABLES
    held,      \* the regions handed out: first byte -> size
    refused    \* the size the last call refused, 0 if it did not refuse

vars == <<held, refused>>

Region(m, n) == m..(m + n - 1)
HeldBytes == UNION {Region(m, held[m]) : m \in DOMAIN held}

Init == held = [m \in {} |-> 0] /\ refused = 0

\* A region of n bytes at address m.
Malloc(m, n) ==
    /\ refused' = 0
    /\ held' = [x \in DOMAIN held \union {m} |-> IF x = m THEN n ELSE held[x]]
    /\ m % Alignment = 0
    /\ Region(m, n) \subseteq Arena \ HeldBytes

\* No region: there is no run of free bytes with room to spare.
Refuse(n) ==
    /\ refused' = n
    /\ UNCHANGED held
    /\ \A m \in Arena : ~ Region(m, n + Slack) \subseteq Arena \ HeldBytes

Free(m) ==
    /\ m \in DOMAIN held
    /\ refused' = 0
    /\ held' = [x \in DOMAIN held \ {m} |-> held[x]]

Next ==
    \/ \E n \in Requests : Refuse(n) \/ \E m \in Arena : Malloc(m, n)
    \/ \E m \in DOMAIN held : Free(m)

Spec == Init /\ [][Next]_vars

=============================================================================
