------------------------------ MODULE Doorbell ------------------------------
(***************************************************************************)
(* What a driver thread may assume of the interrupt path: a set of bells,  *)
(* each with an auto-reset event.  A bell that was pressed is owed to its  *)
(* event until the event has been set; pressing it again meanwhile adds    *)
(* nothing.  The path may ring a bell more than once for one press, it may *)
(* not forget one and it may not ring one that nobody pressed.             *)
(***************************************************************************)
CONSTANT Bells

VARIABLES
    owed,   \* pressed, and its event not set for that press yet
    rung    \* the events that are signalled

vars == <<owed, rung>>

Init == owed = {} /\ rung = {}

\* The device raises an interrupt.
Press(b) ==
    /\ owed' = owed \union {b}
    /\ UNCHANGED rung

\* The event is set; the press may be served once more later on.
Ring(b) ==
    /\ b \in owed
    /\ owed' \in {owed, owed \ {b}}
    /\ rung' = rung \union {b}

\* A waiting thread takes the signal.
Answer(b) ==
    /\ b \in rung
    /\ rung' = rung \ {b}
    /\ UNCHANGED owed

Next == \E b \in Bells : Press(b) \/ Ring(b) \/ Answer(b)

\* A bell that is owed does not wait forever for its event.
Fairness == \A b \in Bells : WF_vars(b \notin rung /\ Ring(b))

Safety == Init /\ [][Next]_vars
Spec == Safety /\ Fairness

=============================================================================
