---------------------------- MODULE CommandQueue ----------------------------
(***************************************************************************)
(* What the command ring is for: threads submit commands, a bounded queue  *)
(* carries them to the device in the order in which they entered it.  A    *)
(* command is named by its thread, which waits until it is in the queue.   *)
(***************************************************************************)
EXTENDS Integers, Sequences

CONSTANTS Threads, Capacity, None

VARIABLES
    waiting,   \* threads whose command has not entered the queue
    queue,     \* the commands under way to the device, oldest first
    inHand     \* the command the device reads, or None

vars == <<waiting, queue, inHand>>

Init == waiting = {} /\ queue = <<>> /\ inHand = None

Request(t) ==
    /\ t \notin waiting
    /\ waiting' = waiting \union {t}
    /\ UNCHANGED <<queue, inHand>>

Enqueue(t) ==
    /\ t \in waiting
    /\ Len(queue) < Capacity
    /\ queue' = Append(queue, t)
    /\ waiting' = waiting \ {t}
    /\ UNCHANGED inHand

Read ==
    /\ inHand = None
    /\ queue # <<>>
    /\ inHand' = Head(queue)
    /\ UNCHANGED <<waiting, queue>>

Consume ==
    /\ inHand # None
    /\ queue' = Tail(queue)
    /\ inHand' = None
    /\ UNCHANGED waiting

Next == Read \/ Consume \/ \E t \in Threads : Request(t) \/ Enqueue(t)

Fairness ==
    /\ WF_vars(Read) /\ WF_vars(Consume)
    /\ \A t \in Threads : SF_vars(Enqueue(t))

Safety == Init /\ [][Next]_vars
Spec == Safety /\ Fairness

=============================================================================
