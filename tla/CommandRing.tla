---------------------------- MODULE CommandRing ----------------------------
(***************************************************************************)
(* Driver threads pushing commands to the device over a ring in shared     *)
(* memory: PushDrawable, WaitForCmdRing and PushCmd for the command ring,  *)
(* PushCursorCmd, WaitForCursorRing and PushCursor for the cursor ring.    *)
(*                                                                         *)
(* The driver and the device run on different processors and meet only in  *)
(* the ring's memory, so each read and each write of a ring field is a     *)
(* step of its own.  A thread that finds the ring full asks to be notified *)
(* (notify_on_cons) and sleeps on an event, which the interrupt path sets  *)
(* as module Doorbell promises; the device does the same with              *)
(* notify_on_prod and the doorbell port QXL_IO_NOTIFY_CMD.                 *)
(*                                                                         *)
(* The two rings differ in the event and in how they wait: WaitForCmdRing  *)
(* has no timeout, WaitForCursorRing gives up after a second and looks     *)
(* again.  And m_DisplayEvent has a second kind of waiter,                 *)
(* WaitForReleaseRing, which may take a signal meant for the command ring. *)
(***************************************************************************)
EXTENDS SpiceRing, Sequences

CONSTANTS
    Threads,      \* driver threads that push commands
    RingEvent,    \* m_DisplayEvent (the command ring) or m_CursorEvent
    TimedWait,    \* the wait for ring space has a timeout
    SharedEvent,  \* other threads wait for RingEvent too
    NoThread      \* the value of cmdLock while it is free

ASSUME CommandRingAssumption ==
    /\ TimedWait \in BOOLEAN
    /\ SharedEvent \in BOOLEAN
    /\ NoThread \notin Threads

VARIABLES
    prod, cons, notifyOnProd, notifyOnCons, items,   \* the ring
    cmdLock,     \* who holds m_CmdLock (m_CrsLock)
    pc,          \* where each thread is in PushDrawable (PushCursorCmd)
    readCons,    \* the cons a thread read to compute notify_on_cons, else 0
    hostPc,      \* where the device is in its loop over the ring
    readProd,    \* the prod the device read to compute notify_on_prod, else 0
    taken,       \* the command the device has read and not popped
    kicked,      \* the device has been kicked
    owed,        \* RingEvent is to be set for an interrupt of the device
    rung         \* RingEvent is signalled

ringVars == <<prod, cons, notifyOnProd, notifyOnCons, items>>
threadVars == <<cmdLock, pc, readCons>>
hostVars == <<hostPc, readProd, taken, kicked>>
bellVars == <<owed, rung>>
vars == <<ringVars, threadVars, hostVars, bellVars>>

Bell == INSTANCE Doorbell WITH Bells <- {RingEvent}

\* A command is named by the thread that pushed it.
Commands == Threads \union {NoThread}

ThreadLocations ==
    {"idle", "lock", "check", "read_cons", "arm", "recheck", "wait",
     "store", "bump", "compare", "kick", "unlock"}
HostLocations ==
    {"poll", "read_prod", "arm", "recheck", "sleep", "take", "pop", "compare"}

TypeOK ==
    /\ prod \in Counter /\ cons \in Counter
    /\ notifyOnProd \in Counter /\ notifyOnCons \in Counter
    /\ items \in [Slots -> Commands]
    /\ cmdLock \in Threads \union {NoThread}
    /\ pc \in [Threads -> ThreadLocations]
    /\ readCons \in [Threads -> Counter]
    /\ hostPc \in HostLocations
    /\ readProd \in Counter
    /\ taken \in Commands
    /\ kicked \in BOOLEAN
    /\ owed \subseteq {RingEvent}
    /\ rung \subseteq {RingEvent}

\* SPICE_RING_INIT, done by the device on QXL_IO_RESET.
Init ==
    /\ prod = 0 /\ cons = 0
    /\ notifyOnProd = Inc(0) /\ notifyOnCons = 0
    /\ items = [s \in Slots |-> NoThread]
    /\ cmdLock = NoThread
    /\ pc = [t \in Threads |-> "idle"]
    /\ readCons = [t \in Threads |-> 0]
    /\ hostPc = "poll"
    /\ readProd = 0
    /\ taken = NoThread
    /\ kicked = FALSE
    /\ Bell!Init

Goto(t, location) == pc' = [pc EXCEPT ![t] = location]

-----------------------------------------------------------------------------
(* PushDrawable and PushCursorCmd. *)

\* A thread has a command ready and enters the function.
Submit(t) ==
    /\ pc[t] = "idle"
    /\ Goto(t, "lock")
    /\ UNCHANGED <<ringVars, cmdLock, readCons, hostVars, bellVars>>

\* WaitForObject(&m_CmdLock, NULL).
Lock(t) ==
    /\ pc[t] = "lock"
    /\ cmdLock = NoThread
    /\ cmdLock' = t
    /\ Goto(t, "check")
    /\ UNCHANGED <<ringVars, readCons, hostVars, bellVars>>

\* SPICE_RING_PROD_WAIT: the first look at the ring.
CheckFull(t) ==
    /\ pc[t] = "check"
    /\ Goto(t, IF IsFull(prod, cons) THEN "read_cons" ELSE "store")
    /\ UNCHANGED <<ringVars, cmdLock, readCons, hostVars, bellVars>>

\* SPICE_RING_PROD_WAIT: cons + 1 is computed ...
ReadCons(t) ==
    /\ pc[t] = "read_cons"
    /\ readCons' = [readCons EXCEPT ![t] = cons]
    /\ Goto(t, "arm")
    /\ UNCHANGED <<ringVars, cmdLock, hostVars, bellVars>>

\* ... and stored in notify_on_cons.
ArmNotify(t) ==
    /\ pc[t] = "arm"
    /\ notifyOnCons' = Inc(readCons[t])
    /\ readCons' = [readCons EXCEPT ![t] = 0]
    /\ Goto(t, "recheck")
    /\ UNCHANGED <<prod, cons, notifyOnProd, items, cmdLock, hostVars, bellVars>>

\* Mutant of RecheckFull: no second look after notify_on_cons is stored.
ArmAndWait(t) ==
    /\ pc[t] = "recheck"
    /\ Goto(t, "wait")
    /\ UNCHANGED <<ringVars, cmdLock, readCons, hostVars, bellVars>>

\* SPICE_RING_PROD_WAIT: the second look, after the memory barrier.
RecheckFull(t) ==
    /\ pc[t] = "recheck"
    /\ Goto(t, IF IsFull(prod, cons) THEN "wait" ELSE "store")
    /\ UNCHANGED <<ringVars, cmdLock, readCons, hostVars, bellVars>>

\* Mutant of Wake: the wait is an if, not a loop.
WakeAndStore(t) ==
    /\ pc[t] = "wait"
    /\ Bell!Answer(RingEvent)
    /\ Goto(t, "store")
    /\ UNCHANGED <<ringVars, cmdLock, readCons, hostVars>>

\* WaitForObject returns because the event was signalled: look again.
Wake(t) ==
    /\ pc[t] = "wait"
    /\ Bell!Answer(RingEvent)
    /\ Goto(t, "check")
    /\ UNCHANGED <<ringVars, cmdLock, readCons, hostVars>>

\* WaitForObject returns because its timeout expired.
WaitTimesOut(t) ==
    /\ TimedWait
    /\ pc[t] = "wait"
    /\ Goto(t, "check")
    /\ UNCHANGED <<ringVars, cmdLock, readCons, hostVars, bellVars>>

\* Mutant of StoreItem: the command goes into the slot after prod.
StoreAfterProd(t) ==
    /\ pc[t] = "store"
    /\ items' = [items EXCEPT ![Slot(Inc(prod))] = t]
    /\ Goto(t, "bump")
    /\ UNCHANGED <<prod, cons, notifyOnProd, notifyOnCons, cmdLock, readCons,
                   hostVars, bellVars>>

\* The command is written to the slot at prod.
StoreItem(t) ==
    /\ pc[t] = "store"
    /\ items' = [items EXCEPT ![Slot(prod)] = t]
    /\ Goto(t, "bump")
    /\ UNCHANGED <<prod, cons, notifyOnProd, notifyOnCons, cmdLock, readCons,
                   hostVars, bellVars>>

\* SPICE_RING_PUSH: prod++.
BumpProd(t) ==
    /\ pc[t] = "bump"
    /\ prod' = Inc(prod)
    /\ Goto(t, "compare")
    /\ UNCHANGED <<cons, notifyOnProd, notifyOnCons, items, cmdLock, readCons,
                   hostVars, bellVars>>

\* Mutant of CompareProd: notify_on_prod is compared with the old prod.
CompareOldProd(t) ==
    /\ pc[t] = "compare"
    /\ Goto(t, IF prod = Inc(notifyOnProd) THEN "kick" ELSE "unlock")
    /\ UNCHANGED <<ringVars, cmdLock, readCons, hostVars, bellVars>>

\* SPICE_RING_PUSH: does the device want to hear of this command?
CompareProd(t) ==
    /\ pc[t] = "compare"
    /\ Goto(t, IF prod = notifyOnProd THEN "kick" ELSE "unlock")
    /\ UNCHANGED <<ringVars, cmdLock, readCons, hostVars, bellVars>>

\* SyncIo(QXL_IO_NOTIFY_CMD) or SyncIo(QXL_IO_NOTIFY_CURSOR).
Kick(t) ==
    /\ pc[t] = "kick"
    /\ kicked' = TRUE
    /\ Goto(t, "unlock")
    /\ UNCHANGED <<ringVars, cmdLock, readCons, hostPc, readProd, taken, bellVars>>

\* ReleaseMutex(&m_CmdLock), and the function returns.
Unlock(t) ==
    /\ pc[t] = "unlock"
    /\ cmdLock' = NoThread
    /\ Goto(t, "idle")
    /\ UNCHANGED <<ringVars, readCons, hostVars, bellVars>>

\* Everything a thread does on its own once it is in the function.
Advance(t) ==
    \/ CheckFull(t) \/ ReadCons(t) \/ ArmNotify(t) \/ RecheckFull(t)
    \/ Wake(t) \/ WaitTimesOut(t)
    \/ StoreItem(t) \/ BumpProd(t) \/ CompareProd(t) \/ Kick(t) \/ Unlock(t)

-----------------------------------------------------------------------------
(* The device's side, as ipc_ring.h defines it: SPICE_RING_CONS_WAIT,      *)
(* SPICE_RING_CONS_ITEM and SPICE_RING_POP.                                *)

HostGoto(location) == hostPc' = location

\* SPICE_RING_CONS_WAIT: the first look.
HostPoll ==
    /\ hostPc = "poll"
    /\ HostGoto(IF IsEmpty(prod, cons) THEN "read_prod" ELSE "take")
    /\ UNCHANGED <<ringVars, threadVars, readProd, taken, kicked, bellVars>>

HostReadProd ==
    /\ hostPc = "read_prod"
    /\ readProd' = prod
    /\ HostGoto("arm")
    /\ UNCHANGED <<ringVars, threadVars, taken, kicked, bellVars>>

HostArmNotify ==
    /\ hostPc = "arm"
    /\ notifyOnProd' = Inc(readProd)
    /\ readProd' = 0
    /\ HostGoto("recheck")
    /\ UNCHANGED <<prod, cons, notifyOnCons, items, threadVars, taken, kicked,
                   bellVars>>

\* Mutant of HostRecheck: no second look after notify_on_prod is stored.
HostArmAndSleep ==
    /\ hostPc = "recheck"
    /\ HostGoto("sleep")
    /\ UNCHANGED <<ringVars, threadVars, readProd, taken, kicked, bellVars>>

\* SPICE_RING_CONS_WAIT: the second look.
HostRecheck ==
    /\ hostPc = "recheck"
    /\ HostGoto(IF IsEmpty(prod, cons) THEN "sleep" ELSE "take")
    /\ UNCHANGED <<ringVars, threadVars, readProd, taken, kicked, bellVars>>

\* The device sleeps until it is kicked.
HostWake ==
    /\ hostPc = "sleep"
    /\ kicked
    /\ kicked' = FALSE
    /\ HostGoto("poll")
    /\ UNCHANGED <<ringVars, threadVars, readProd, taken, bellVars>>

\* SPICE_RING_CONS_ITEM: the command is read from the slot at cons.
HostTakeItem ==
    /\ hostPc = "take"
    /\ taken' = items[Slot(cons)]
    /\ HostGoto("pop")
    /\ UNCHANGED <<ringVars, threadVars, readProd, kicked, bellVars>>

\* SPICE_RING_POP: cons++.
HostPop ==
    /\ hostPc = "pop"
    /\ cons' = Inc(cons)
    /\ taken' = NoThread
    /\ HostGoto("compare")
    /\ UNCHANGED <<prod, notifyOnProd, notifyOnCons, items, threadVars, readProd,
                   kicked, bellVars>>

\* SPICE_RING_POP: interrupt the driver if it asked to hear of this one.
HostCompare ==
    /\ hostPc = "compare"
    /\ HostGoto("poll")
    /\ IF cons = notifyOnCons THEN Bell!Press(RingEvent) ELSE UNCHANGED bellVars
    /\ UNCHANGED <<ringVars, threadVars, readProd, taken, kicked>>

\* What the device does without interrupting the driver.
HostAdvance ==
    \/ HostPoll \/ HostReadProd \/ HostArmNotify \/ HostRecheck \/ HostWake
    \/ HostTakeItem \/ HostPop

HostStep == HostAdvance \/ HostCompare

-----------------------------------------------------------------------------
(* The interrupt path, and the other waiters of the event. *)

SetEvent ==
    /\ Bell!Ring(RingEvent)
    /\ UNCHANGED <<ringVars, threadVars, hostVars>>

\* A thread in WaitForReleaseRing waits for the same auto-reset event.
OtherWaiterWakes ==
    /\ SharedEvent
    /\ Bell!Answer(RingEvent)
    /\ UNCHANGED <<ringVars, threadVars, hostVars>>

Next ==
    \/ \E t \in Threads : Submit(t) \/ Lock(t) \/ Advance(t)
    \/ HostStep
    \/ SetEvent
    \/ OtherWaiterWakes

\* The device keeps working; the scheduler runs every thread that can run, and
\* a kernel mutex serves the threads that wait for it in turn.
Fairness ==
    /\ WF_vars(HostStep)
    /\ WF_vars(RingEvent \notin rung /\ SetEvent)
    /\ \A t \in Threads : WF_vars(Advance(t)) /\ SF_vars(Lock(t))

Safety == Init /\ [][Next]_vars
Spec == Safety /\ Fairness

-----------------------------------------------------------------------------
(* Correctness. *)

\* Where a thread holds m_CmdLock.
Holding == ThreadLocations \ {"idle", "lock"}

\* A thread between the lock and its release owns the lock, so prod, the slot
\* at prod and notify_on_cons have a single writer.
LockOwner == \A t \in Threads : pc[t] \in Holding => cmdLock = t

\* The driver never writes to a slot the device has not consumed, and the
\* device never reads one that holds no command, however the counters wrap.
NoOverrun ==
    /\ Gap(prod, cons) <= NumItems
    /\ \A t \in Threads : pc[t] \in {"store", "bump"} => ~IsFull(prod, cons)
    /\ hostPc \in {"take", "pop"} => ~IsEmpty(prod, cons)

\* A wakeup for the thread that waits for ring space is under way.
WakeupComing ==
    \/ hostPc = "compare" /\ cons = notifyOnCons
    \/ RingEvent \in owed
    \/ RingEvent \in rung

\* SPICE_RING_PROD_WAIT and SPICE_RING_POP: a thread asleep in WaitForCmdRing,
\* which waits without a timeout, has either a full ring before it or a wakeup
\* on its way.
NoLostWakeup ==
    \A t \in Threads :
        pc[t] = "wait" => IsFull(prod, cons) \/ WakeupComing

\* The device is kicked, or the thread that must kick it is about to.
KickComing ==
    \/ kicked
    \/ \E t \in Threads : pc[t] = "kick"
    \/ prod = notifyOnProd /\ \E t \in Threads : pc[t] = "compare"

\* SPICE_RING_CONS_WAIT and SPICE_RING_PUSH: while the device sleeps with
\* commands in the ring, it has been kicked or is about to be.
NoLostKick ==
    hostPc = "sleep" => IsEmpty(prod, cons) \/ KickComing

\* Why NoLostWakeup holds: as long as the ring is full, the device has popped
\* nothing since the thread read cons, so the thread waits for the very next
\* pop; and that pop finds notify_on_cons equal to cons.
Armed ==
    \A t \in Threads :
        /\ pc[t] = "arm" /\ IsFull(prod, cons) => readCons[t] = cons
        /\ pc[t] = "recheck" /\ IsFull(prod, cons) => notifyOnCons = Inc(cons)
        /\ pc[t] = "wait" => \/ IsFull(prod, cons) /\ notifyOnCons = Inc(cons)
                            \/ WakeupComing

\* Why NoLostKick holds: the same with the roles exchanged.
HostArmed ==
    /\ hostPc = "arm" /\ IsEmpty(prod, cons) => readProd = prod
    /\ hostPc = "recheck" /\ IsEmpty(prod, cons) => notifyOnProd = Inc(prod)
    /\ hostPc = "sleep" => \/ IsEmpty(prod, cons) /\ notifyOnProd = Inc(prod)
                           \/ KickComing

\* The inductive invariants the proofs use.
RingInv == TypeOK /\ LockOwner /\ NoOverrun
WakeupInv == RingInv /\ Armed
KickInv == RingInv /\ HostArmed

\* The ring as a queue of commands, oldest first.
Contents == [k \in 1..Gap(prod, cons) |-> items[Slot(cons + k - 1)]]

\* The thread has submitted a command that is not in the queue yet.
Submitted == {t \in Threads : pc[t] \in ThreadLocations
                                \ {"idle", "compare", "kick", "unlock"}}

Fifo == INSTANCE CommandQueue
            WITH waiting <- Submitted, queue <- Contents, inHand <- taken,
                 Capacity <- NumItems, None <- NoThread

\* The two counters, the slots and the lock together are a bounded queue: no
\* command is lost, duplicated or reordered, and each carries what was pushed.
IsBoundedQueue == Fifo!Safety

\* Every submitted command reaches the queue and leaves it for the device.
ServesEveryCommand == Fifo!Spec

=============================================================================
