------------------------- MODULE CommandRing_proofs -------------------------
(***************************************************************************)
(* Safety of the command and cursor rings for any number of threads, any   *)
(* ring size and any width of the counters, and their refinement of the    *)
(* bounded queue of module CommandQueue: every step of the driver, the     *)
(* device or the interrupt path is a step of the queue or leaves the queue *)
(* alone.                                                                  *)
(***************************************************************************)
EXTENDS CommandRing, SequenceTheorems, TLAPS

-----------------------------------------------------------------------------
(* The arithmetic of the wrapping counters (module SpiceRing). *)

\* Incrementing a counter stays within its width.
LEMMA IncType ==
    ASSUME NEW c \in Counter
    PROVE  Inc(c) \in Counter
BY RingAssumption DEF Counter, Inc

\* The distance between two counters is zero exactly when they are equal.
LEMMA GapType ==
    ASSUME NEW p \in Counter, NEW c \in Counter
    PROVE  /\ Gap(p, c) \in Nat
           /\ Gap(p, c) = 0 <=> p = c
BY RingAssumption DEF Counter, Gap

\* A push adds one to the distance, across the wrap too, unless the distance
\* is as large as the counter allows.
LEMMA GapPush ==
    ASSUME NEW p \in Counter, NEW c \in Counter, Gap(p, c) < NumItems
    PROVE  Gap(Inc(p), c) = Gap(p, c) + 1
BY RingAssumption DEF Counter, Gap, Inc

\* A pop takes one from the distance, across the wrap too.
LEMMA GapPop ==
    ASSUME NEW p \in Counter, NEW c \in Counter, p # c
    PROVE  Gap(p, Inc(c)) = Gap(p, c) - 1
BY RingAssumption DEF Counter, Gap, Inc

\* A counter's slot is a slot of the ring.
LEMMA SlotType ==
    ASSUME NEW c \in Counter
    PROVE  Slot(c) \in Slots
BY RingAssumption DEF Counter, Slot, Slots

-----------------------------------------------------------------------------
(* Type correctness. *)

USE DEF ThreadLocations, HostLocations

LEMMA InitType == Init => TypeOK
<1>1. 0 \in Counter
  BY RingAssumption DEF Counter
<1>. QED
  BY <1>1, IncType DEF Init, TypeOK, Commands, Bell!Init

LEMMA NextType == TypeOK /\ [Next]_vars => TypeOK'
<1>. SUFFICES ASSUME TypeOK, [Next]_vars
              PROVE  TypeOK'
  OBVIOUS
<1>. USE DEF TypeOK, Commands, Goto, HostGoto, ringVars, threadVars, hostVars,
             bellVars
<1>0. 0 \in Counter
  BY RingAssumption DEF Counter
<1>1. ASSUME NEW t \in Threads, Submit(t) PROVE TypeOK'
  BY <1>1 DEF Submit
<1>2. ASSUME NEW t \in Threads, Lock(t) PROVE TypeOK'
  BY <1>2 DEF Lock
<1>3. ASSUME NEW t \in Threads, Advance(t) PROVE TypeOK'
  <2>1. CASE CheckFull(t)
    BY <2>1 DEF CheckFull
  <2>2. CASE ReadCons(t)
    BY <2>2 DEF ReadCons
  <2>3. CASE ArmNotify(t)
    BY <2>3, <1>0, IncType DEF ArmNotify
  <2>4. CASE RecheckFull(t)
    BY <2>4 DEF RecheckFull
  <2>5. CASE Wake(t)
    BY <2>5 DEF Wake, Bell!Answer
  <2>6. CASE WaitTimesOut(t)
    BY <2>6 DEF WaitTimesOut
  <2>7. CASE StoreItem(t)
    BY <2>7, SlotType DEF StoreItem
  <2>8. CASE BumpProd(t)
    BY <2>8, IncType DEF BumpProd
  <2>9. CASE CompareProd(t)
    BY <2>9 DEF CompareProd
  <2>10. CASE Kick(t)
    BY <2>10 DEF Kick
  <2>11. CASE Unlock(t)
    BY <2>11 DEF Unlock
  <2>. QED
    BY <1>3, <2>1, <2>2, <2>3, <2>4, <2>5, <2>6, <2>7, <2>8, <2>9, <2>10, <2>11
       DEF Advance
<1>4. CASE HostStep
  <2>1. CASE HostPoll
    BY <2>1 DEF HostPoll
  <2>2. CASE HostReadProd
    BY <2>2 DEF HostReadProd
  <2>3. CASE HostArmNotify
    BY <2>3, <1>0, IncType DEF HostArmNotify
  <2>4. CASE HostRecheck
    BY <2>4 DEF HostRecheck
  <2>5. CASE HostWake
    BY <2>5 DEF HostWake
  <2>6. CASE HostTakeItem
    BY <2>6, SlotType DEF HostTakeItem
  <2>7. CASE HostPop
    BY <2>7, IncType DEF HostPop
  <2>8. CASE HostCompare
    BY <2>8 DEF HostCompare, Bell!Press
  <2>. QED
    BY <1>4, <2>1, <2>2, <2>3, <2>4, <2>5, <2>6, <2>7, <2>8
       DEF HostStep, HostAdvance
<1>5. CASE SetEvent
  BY <1>5 DEF SetEvent, Bell!Ring
<1>6. CASE OtherWaiterWakes
  BY <1>6 DEF OtherWaiterWakes, Bell!Answer
<1>7. CASE UNCHANGED vars
  BY <1>7 DEF vars
<1>. QED
  BY <1>1, <1>2, <1>3, <1>4, <1>5, <1>6, <1>7 DEF Next

\* The ring's fields, the threads, the device and the event keep their types:
\* in particular the counters and the notify fields stay within 32 bits.
THEOREM TypeCorrect == Safety => []TypeOK
BY InitType, NextType, PTL DEF Safety

-----------------------------------------------------------------------------
(* The lock and the bounds of the ring. *)

LEMMA InitRing == Init => RingInv
<1>1. 0 \in Counter /\ Gap(0, 0) = 0
  BY RingAssumption DEF Counter, Gap
<1>. QED
  BY <1>1, InitType, RingAssumption
     DEF Init, RingInv, LockOwner, NoOverrun, Holding

LEMMA NextRing == RingInv /\ [Next]_vars => RingInv'
<1>. SUFFICES ASSUME RingInv, [Next]_vars
              PROVE  LockOwner' /\ NoOverrun'
  BY NextType DEF RingInv
<1>. USE DEF RingInv, LockOwner, NoOverrun, Holding, TypeOK, Goto, HostGoto,
             IsFull, IsEmpty, ringVars, threadVars, hostVars, bellVars
<1>0. /\ Gap(prod, cons) \in Nat
      /\ Gap(prod, cons) = 0 <=> prod = cons
  BY GapType
<1>1. ASSUME NEW t \in Threads, Submit(t) PROVE LockOwner' /\ NoOverrun'
  BY <1>1 DEF Submit
<1>2. ASSUME NEW t \in Threads, Lock(t) PROVE LockOwner' /\ NoOverrun'
  BY <1>2, CommandRingAssumption DEF Lock
<1>3. ASSUME NEW t \in Threads, Advance(t) PROVE LockOwner' /\ NoOverrun'
  <2>1. CASE CheckFull(t)
    BY <2>1 DEF CheckFull
  <2>2. CASE ReadCons(t)
    BY <2>2 DEF ReadCons
  <2>3. CASE ArmNotify(t)
    BY <2>3 DEF ArmNotify
  <2>4. CASE RecheckFull(t)
    BY <2>4 DEF RecheckFull
  <2>5. CASE Wake(t)
    BY <2>5 DEF Wake
  <2>6. CASE WaitTimesOut(t)
    BY <2>6 DEF WaitTimesOut
  <2>7. CASE StoreItem(t)
    BY <2>7 DEF StoreItem
  <2>8. CASE BumpProd(t)
    <3>1. Gap(prod, cons) < NumItems
      BY <2>8, <1>0, RingAssumption DEF BumpProd
    <3>2. Gap(prod', cons') = Gap(prod, cons) + 1
      BY <2>8, <3>1, GapPush DEF BumpProd
    <3>3. prod' \in Counter
      BY <2>8, IncType DEF BumpProd
    <3>4. prod' # cons'
      BY <2>8, <3>2, <3>3, <1>0, GapType DEF BumpProd
    <3>5. \A u \in Threads : pc'[u] \in {"store", "bump"} => FALSE
      BY <2>8 DEF BumpProd
    <3>6. LockOwner'
      BY <2>8 DEF BumpProd
    <3>. QED
      BY <2>8, <3>1, <3>2, <3>4, <3>5, <3>6, <1>0, RingAssumption DEF BumpProd
  <2>9. CASE CompareProd(t)
    BY <2>9 DEF CompareProd
  <2>10. CASE Kick(t)
    BY <2>10 DEF Kick
  <2>11. CASE Unlock(t)
    BY <2>11 DEF Unlock
  <2>. QED
    BY <1>3, <2>1, <2>2, <2>3, <2>4, <2>5, <2>6, <2>7, <2>8, <2>9, <2>10, <2>11
       DEF Advance
<1>4. CASE HostStep
  <2>1. CASE HostPoll
    BY <2>1 DEF HostPoll
  <2>2. CASE HostReadProd
    BY <2>2 DEF HostReadProd
  <2>3. CASE HostArmNotify
    BY <2>3 DEF HostArmNotify
  <2>4. CASE HostRecheck
    BY <2>4 DEF HostRecheck
  <2>5. CASE HostWake
    BY <2>5 DEF HostWake
  <2>6. CASE HostTakeItem
    BY <2>6 DEF HostTakeItem
  <2>7. CASE HostPop
    <3>1. Gap(prod', cons') = Gap(prod, cons) - 1
      BY <2>7, GapPop DEF HostPop
    <3>. QED
      BY <2>7, <3>1, <1>0, RingAssumption DEF HostPop
  <2>8. CASE HostCompare
    BY <2>8 DEF HostCompare
  <2>. QED
    BY <1>4, <2>1, <2>2, <2>3, <2>4, <2>5, <2>6, <2>7, <2>8
       DEF HostStep, HostAdvance
<1>5. CASE SetEvent
  BY <1>5 DEF SetEvent
<1>6. CASE OtherWaiterWakes
  BY <1>6 DEF OtherWaiterWakes
<1>7. CASE UNCHANGED vars
  BY <1>7 DEF vars
<1>. QED
  BY <1>1, <1>2, <1>3, <1>4, <1>5, <1>6, <1>7 DEF Next

LEMMA RingInvariant == Safety => []RingInv
BY InitRing, NextRing, PTL DEF Safety

\* Only the owner of m_CmdLock (m_CrsLock) is between its acquisition and its
\* release, so each driver-side field of the ring has one writer at a time.
THEOREM LockExclusion == Safety => []LockOwner
<1>1. RingInv => LockOwner
  BY DEF RingInv
<1>. QED
  BY <1>1, RingInvariant, PTL

\* No slot is written before the device has consumed what it held, and none is
\* read that holds no command, for every ring size and across every wrap.
THEOREM RingNeverOverruns == Safety => []NoOverrun
<1>1. RingInv => NoOverrun
  BY DEF RingInv
<1>. QED
  BY <1>1, RingInvariant, PTL

-----------------------------------------------------------------------------
(* No wakeup of a thread that waits for ring space is lost, provided that  *)
(* nobody else waits for the ring's event.                                 *)

LEMMA InitArmed == Init => WakeupInv
BY InitRing DEF Init, WakeupInv, Armed

LEMMA NextArmed ==
    ASSUME SharedEvent = FALSE
    PROVE  WakeupInv /\ [Next]_vars => WakeupInv'
<1>. SUFFICES ASSUME WakeupInv, [Next]_vars
              PROVE  Armed'
  BY NextRing DEF WakeupInv
<1>. USE DEF WakeupInv, RingInv, LockOwner, NoOverrun, Holding, TypeOK, Goto,
             HostGoto, Armed, WakeupComing, ringVars, threadVars, hostVars,
             bellVars
<1>1. ASSUME NEW t \in Threads, Submit(t) PROVE Armed'
  BY <1>1 DEF Submit
<1>2. ASSUME NEW t \in Threads, Lock(t) PROVE Armed'
  BY <1>2 DEF Lock
<1>3. ASSUME NEW t \in Threads, Advance(t) PROVE Armed'
  \* t owns the lock, so no other thread is at a place Armed speaks of.
  <2>0. \A u \in Threads : u # t => pc[u] \in {"idle", "lock"}
    BY <1>3 DEF Advance, CheckFull, ReadCons, ArmNotify, RecheckFull, Wake,
                WaitTimesOut, StoreItem, BumpProd, CompareProd, Kick, Unlock
  <2>1. CASE CheckFull(t)
    BY <2>1, <2>0 DEF CheckFull
  <2>2. CASE ReadCons(t)
    BY <2>2, <2>0 DEF ReadCons
  <2>3. CASE ArmNotify(t)
    BY <2>3, <2>0 DEF ArmNotify
  <2>4. CASE RecheckFull(t)
    BY <2>4, <2>0 DEF RecheckFull
  <2>5. CASE Wake(t)
    BY <2>5, <2>0 DEF Wake
  <2>6. CASE WaitTimesOut(t)
    BY <2>6, <2>0 DEF WaitTimesOut
  <2>7. CASE StoreItem(t)
    BY <2>7, <2>0 DEF StoreItem
  <2>8. CASE BumpProd(t)
    BY <2>8, <2>0 DEF BumpProd
  <2>9. CASE CompareProd(t)
    BY <2>9, <2>0 DEF CompareProd
  <2>10. CASE Kick(t)
    BY <2>10, <2>0 DEF Kick
  <2>11. CASE Unlock(t)
    BY <2>11, <2>0 DEF Unlock
  <2>. QED
    BY <1>3, <2>1, <2>2, <2>3, <2>4, <2>5, <2>6, <2>7, <2>8, <2>9, <2>10, <2>11
       DEF Advance
<1>4. CASE HostStep
  <2>1. CASE HostPoll
    BY <2>1 DEF HostPoll
  <2>2. CASE HostReadProd
    BY <2>2 DEF HostReadProd
  <2>3. CASE HostArmNotify
    BY <2>3 DEF HostArmNotify
  <2>4. CASE HostRecheck
    BY <2>4 DEF HostRecheck
  <2>5. CASE HostWake
    BY <2>5 DEF HostWake
  <2>6. CASE HostTakeItem
    BY <2>6 DEF HostTakeItem
  <2>7. CASE HostPop
    \* After a pop the ring is not full, whatever it was before.
    <3>1. ~IsFull(prod', cons')
      BY <2>7, GapPop, GapType, RingAssumption DEF HostPop, IsFull, IsEmpty
    <3>. QED
      BY <2>7, <3>1 DEF HostPop
  <2>8. CASE HostCompare
    BY <2>8 DEF HostCompare, Bell!Press
  <2>. QED
    BY <1>4, <2>1, <2>2, <2>3, <2>4, <2>5, <2>6, <2>7, <2>8
       DEF HostStep, HostAdvance
<1>5. CASE SetEvent
  BY <1>5 DEF SetEvent, Bell!Ring
<1>6. CASE OtherWaiterWakes
  BY <1>6 DEF OtherWaiterWakes
<1>7. CASE UNCHANGED vars
  BY <1>7 DEF vars
<1>. QED
  BY <1>1, <1>2, <1>3, <1>4, <1>5, <1>6, <1>7 DEF Next

\* A thread asleep in WaitForCmdRing or WaitForCursorRing with room in the ring
\* has its wakeup on the way: the untimed wait is safe as long as the event has
\* no other waiter.
THEOREM WakeupsAreNotLost ==
    ASSUME SharedEvent = FALSE
    PROVE  Safety => []NoLostWakeup
<1>1. WakeupInv => NoLostWakeup
  BY DEF WakeupInv, Armed, NoLostWakeup
<1>2. WakeupInv /\ [Next]_vars => WakeupInv'
  BY NextArmed
<1>. QED
  BY <1>1, <1>2, InitArmed, PTL DEF Safety

-----------------------------------------------------------------------------
(* No kick of the device is lost, whoever else waits for the event.        *)

LEMMA InitHostArmed == Init => KickInv
BY InitRing DEF Init, KickInv, HostArmed

LEMMA NextHostArmed == KickInv /\ [Next]_vars => KickInv'
<1>. SUFFICES ASSUME KickInv, [Next]_vars
              PROVE  HostArmed'
  BY NextRing DEF KickInv
<1>. USE DEF KickInv, RingInv, LockOwner, NoOverrun, Holding, TypeOK, Goto,
             HostGoto, HostArmed, KickComing, IsEmpty, ringVars, threadVars,
             hostVars, bellVars
<1>1. ASSUME NEW t \in Threads, Submit(t) PROVE HostArmed'
  BY <1>1 DEF Submit
<1>2. ASSUME NEW t \in Threads, Lock(t) PROVE HostArmed'
  BY <1>2 DEF Lock
<1>3. ASSUME NEW t \in Threads, Advance(t) PROVE HostArmed'
  <2>0. \A u \in Threads : u # t => pc[u] \in {"idle", "lock"}
    BY <1>3 DEF Advance, CheckFull, ReadCons, ArmNotify, RecheckFull, Wake,
                WaitTimesOut, StoreItem, BumpProd, CompareProd, Kick, Unlock
  <2>1. CASE CheckFull(t)
    BY <2>1, <2>0 DEF CheckFull
  <2>2. CASE ReadCons(t)
    BY <2>2, <2>0 DEF ReadCons
  <2>3. CASE ArmNotify(t)
    BY <2>3, <2>0 DEF ArmNotify
  <2>4. CASE RecheckFull(t)
    BY <2>4, <2>0 DEF RecheckFull
  <2>5. CASE Wake(t)
    BY <2>5, <2>0 DEF Wake
  <2>6. CASE WaitTimesOut(t)
    BY <2>6, <2>0 DEF WaitTimesOut
  <2>7. CASE StoreItem(t)
    BY <2>7, <2>0 DEF StoreItem
  <2>8. CASE BumpProd(t)
    \* After a push the ring is not empty, whatever it was before.
    <3>1. ~IsEmpty(prod', cons')
      BY <2>8, GapPush, GapType, IncType, RingAssumption DEF BumpProd, IsFull
    <3>. QED
      BY <2>8, <2>0, <3>1 DEF BumpProd
  <2>9. CASE CompareProd(t)
    BY <2>9, <2>0 DEF CompareProd
  <2>10. CASE Kick(t)
    BY <2>10, <2>0 DEF Kick
  <2>11. CASE Unlock(t)
    BY <2>11, <2>0 DEF Unlock
  <2>. QED
    BY <1>3, <2>1, <2>2, <2>3, <2>4, <2>5, <2>6, <2>7, <2>8, <2>9, <2>10, <2>11
       DEF Advance
<1>4. CASE HostStep
  <2>1. CASE HostPoll
    BY <2>1 DEF HostPoll
  <2>2. CASE HostReadProd
    BY <2>2 DEF HostReadProd
  <2>3. CASE HostArmNotify
    BY <2>3 DEF HostArmNotify
  <2>4. CASE HostRecheck
    BY <2>4 DEF HostRecheck
  <2>5. CASE HostWake
    BY <2>5 DEF HostWake
  <2>6. CASE HostTakeItem
    BY <2>6 DEF HostTakeItem
  <2>7. CASE HostPop
    BY <2>7 DEF HostPop
  <2>8. CASE HostCompare
    BY <2>8 DEF HostCompare
  <2>. QED
    BY <1>4, <2>1, <2>2, <2>3, <2>4, <2>5, <2>6, <2>7, <2>8
       DEF HostStep, HostAdvance
<1>5. CASE SetEvent
  BY <1>5 DEF SetEvent
<1>6. CASE OtherWaiterWakes
  BY <1>6 DEF OtherWaiterWakes
<1>7. CASE UNCHANGED vars
  BY <1>7 DEF vars
<1>. QED
  BY <1>1, <1>2, <1>3, <1>4, <1>5, <1>6, <1>7 DEF Next

\* The device never sleeps over a command: while there is one in the ring it
\* has been kicked through QXL_IO_NOTIFY_CMD, or a thread is about to do it.
THEOREM KicksAreNotLost == Safety => []NoLostKick
<1>1. KickInv => NoLostKick
  BY DEF KickInv, HostArmed, NoLostKick
<1>. QED
  BY <1>1, InitHostArmed, NextHostArmed, PTL DEF Safety

-----------------------------------------------------------------------------
(* Slots of a ring whose counters wrap at a multiple of its size.          *)

\* No multiple of n but 0 is closer to 0 than n.
LEMMA SmallMultiple ==
    ASSUME NEW n \in Nat \ {0}, NEW d \in Int, NEW e \in Int,
           e = n * d, -n < e, e < n
    PROVE  e = 0
<1>1. CASE d >= 1
  <2>1. n * d >= n
    BY <1>1
  <2> QED BY <2>1
<1>2. CASE d <= -1
  <2>1. n * d <= -n
    BY <1>2
  <2> QED BY <2>1
<1>3. CASE d = 0
  BY <1>3
<1> QED BY <1>1, <1>2, <1>3

\* A slot is what is left of a counter after whole rounds of the ring.
LEMMA SlotRounds ==
    ASSUME NEW c \in Int
    PROVE  /\ Slot(c) \in Slots
           /\ \E q \in Int : c = NumItems * q + Slot(c)
<1>1. NumItems \in Nat \ {0}
  BY RingAssumption
<1>2. /\ c \div NumItems \in Int
      /\ c = NumItems * (c \div NumItems) + Slot(c)
  BY <1>1 DEF Slot
<1>3. Slot(c) \in Slots
  BY <1>1 DEF Slot, Slots
<1> QED BY <1>2, <1>3

\* Positions less than a round apart have slots of their own.
LEMMA SlotsDiffer ==
    ASSUME NEW a \in Int, NEW b \in Int, 0 < b - a, b - a < NumItems
    PROVE  Slot(a) # Slot(b)
<1> SUFFICES ASSUME Slot(a) = Slot(b) PROVE FALSE
  OBVIOUS
<1>1. NumItems \in Nat \ {0}
  BY RingAssumption
<1>2. PICK p \in Int : a = NumItems * p + Slot(a)
  BY SlotRounds
<1>3. PICK q \in Int : b = NumItems * q + Slot(b)
  BY SlotRounds
<1>4. Slot(a) \in Int
  BY <1>1, SlotRounds DEF Slots
<1>5. b - a = NumItems * (q - p)
  BY <1>1, <1>2, <1>3, <1>4
<1> QED BY <1>1, <1>5, SmallMultiple

\* The wrap of a counter does not move its slot.
LEMMA SlotWraps ==
    ASSUME NEW c \in Int
    PROVE  Slot(c + CounterMod) = Slot(c)
<1>1. NumItems \in Nat \ {0} /\ c + CounterMod \in Int
  BY RingAssumption
<1>2. PICK k \in Int : CounterMod = k * NumItems
  BY RingAssumption
<1>3. PICK p \in Int : c = NumItems * p + Slot(c)
  BY SlotRounds
<1>4. PICK q \in Int : c + CounterMod = NumItems * q + Slot(c + CounterMod)
  BY <1>1, SlotRounds
<1>5. Slot(c) \in Slots /\ Slot(c + CounterMod) \in Slots
  BY <1>1, SlotRounds
<1>6. Slot(c) \in Int /\ Slot(c + CounterMod) \in Int
  BY <1>1, <1>5 DEF Slots
<1>7. Slot(c + CounterMod) - Slot(c) = NumItems * (p + k - q)
  BY <1>1, <1>2, <1>3, <1>4, <1>6
<1>8. Slot(c + CounterMod) - Slot(c) = 0
  BY <1>1, <1>5, <1>7, SmallMultiple DEF Slots
<1> QED BY <1>6, <1>8

\* The slot the producer fills follows the slots in use.
LEMMA SlotOfProd ==
    ASSUME NEW p \in Counter, NEW c \in Counter
    PROVE  Slot(c + Gap(p, c)) = Slot(p)
<1>1. CASE p >= c
  BY <1>1 DEF Counter, Gap
<1>2. CASE p < c
  <2>1. c + Gap(p, c) = p + CounterMod
    BY <1>2, RingAssumption DEF Counter, Gap
  <2> QED BY <2>1, SlotWraps, RingAssumption DEF Counter
<1> QED BY <1>1, <1>2, RingAssumption DEF Counter

\* The slots in use after a pop are those after the first.
LEMMA SlotAfterPop ==
    ASSUME NEW c \in Counter, NEW k \in Nat
    PROVE  Slot(Inc(c) + k) = Slot(c + k + 1)
<1>1. CASE c = CounterMod - 1
  <2>1. c + k + 1 = k + CounterMod /\ Inc(c) + k = k
    BY <1>1, RingAssumption DEF Inc
  <2> QED BY <2>1, SlotWraps
<1>2. CASE c # CounterMod - 1
  <2>1. Inc(c) + k = c + k + 1
    BY <1>2 DEF Counter, Inc
  <2> QED BY <2>1
<1> QED BY <1>1, <1>2

-----------------------------------------------------------------------------
(* The queue the ring's fields stand for. *)

\* The slots in use hold commands of threads; the device holds the oldest one
\* between reading it and popping it; a thread that has filled its slot and
\* not yet moved prod finds its command there.
QueueInv ==
    /\ RingInv
    /\ Contents \in Seq(Threads)
    /\ taken = IF hostPc = "pop" THEN Head(Contents) ELSE NoThread
    /\ \A t \in Threads : pc[t] = "bump" => items[Slot(prod)] = t

\* The queue as a sequence of commands.
LEMMA ContentsType ==
    RingInv => /\ Contents \in Seq(Commands)
               /\ Len(Contents) = Gap(prod, cons)
               /\ Gap(prod, cons) \in 0..NumItems
               /\ \A k \in 1..Gap(prod, cons) : Contents[k] = items[Slot(cons + k - 1)]
               /\ prod = cons <=> Gap(prod, cons) = 0
<1> SUFFICES ASSUME RingInv
             PROVE  /\ Gap(prod, cons) \in 0..NumItems
                    /\ prod = cons <=> Gap(prod, cons) = 0
                    /\ \A k \in 1..Gap(prod, cons) :
                           items[Slot(cons + k - 1)] \in Commands
  BY DEF Contents
<1>1. /\ Gap(prod, cons) \in 0..NumItems /\ cons \in Counter
      /\ prod = cons <=> Gap(prod, cons) = 0
  BY GapType, RingAssumption DEF RingInv, TypeOK, NoOverrun
<1>2. ASSUME NEW k \in 1..Gap(prod, cons)
      PROVE  items[Slot(cons + k - 1)] \in Commands
  <2>1. cons + k - 1 \in Int
    BY <1>1, RingAssumption DEF Counter
  <2>2. Slot(cons + k - 1) \in Slots
    BY <2>1, SlotRounds
  <2> QED BY <2>2 DEF RingInv, TypeOK
<1> QED BY <1>1, <1>2

\* The same in the next state.
LEMMA ContentsTypeNext ==
    ASSUME RingInv'
    PROVE  /\ Contents' \in Seq(Commands)
           /\ Len(Contents') = Gap(prod', cons')
           /\ \A k \in 1..Gap(prod', cons') : Contents'[k] = items'[Slot(cons' + k - 1)]
<1>1. (RingInv => /\ Contents \in Seq(Commands)
                  /\ Len(Contents) = Gap(prod, cons)
                  /\ \A k \in 1..Gap(prod, cons) :
                         Contents[k] = items[Slot(cons + k - 1)])'
  BY ContentsType, PTL
<1> QED BY <1>1

\* A queue that is not empty has its oldest command in the slot at cons.
LEMMA OldestItem ==
    ASSUME RingInv, ~IsEmpty(prod, cons)
    PROVE  /\ Contents # <<>>
           /\ Head(Contents) = items[Slot(cons)]
<1>1. /\ Contents \in Seq(Commands) /\ Len(Contents) > 0
      /\ Contents[1] = items[Slot(cons + 1 - 1)]
  BY ContentsType DEF IsEmpty
<1>2. cons + 1 - 1 = cons
  BY RingAssumption DEF RingInv, TypeOK, Counter
<1> QED BY <1>1, <1>2

\* Writing the slot at prod leaves the queue alone, as long as it is not full.
LEMMA StoreKeepsContents ==
    ASSUME RingInv, RingInv', ~IsFull(prod, cons), UNCHANGED <<prod, cons>>,
           NEW t \in Threads, items' = [items EXCEPT ![Slot(prod)] = t]
    PROVE  /\ Contents' = Contents
           /\ items'[Slot(prod)] = t
<1>1. /\ prod \in Counter /\ cons \in Counter /\ items \in [Slots -> Commands]
      /\ Gap(prod, cons) < NumItems
  BY ContentsType, RingAssumption DEF RingInv, TypeOK, IsFull
<1>2. Slot(prod) \in Slots
  BY <1>1, SlotType
<1>3. ASSUME NEW k \in 1..Gap(prod, cons)
      PROVE  items'[Slot(cons + k - 1)] = items[Slot(cons + k - 1)]
  <2> DEFINE a == cons + k - 1
             b == cons + Gap(prod, cons)
  <2>1. a \in Int /\ b \in Int /\ 0 < b - a /\ b - a < NumItems
    BY <1>1, ContentsType, RingAssumption DEF Counter
  <2>2. Slot(a) # Slot(b)
    BY <2>1, SlotsDiffer
  <2>3. Slot(b) = Slot(prod)
    BY <1>1, SlotOfProd
  <2> QED BY <2>1, <2>2, <2>3, <1>1, SlotRounds
<1>4. Contents' = Contents
  BY <1>3 DEF Contents
<1> QED BY <1>1, <1>2, <1>4

\* Moving prod past a filled slot appends its command to the queue.
LEMMA BumpAppends ==
    ASSUME RingInv, RingInv', ~IsFull(prod, cons), UNCHANGED <<cons, items>>,
           prod' = Inc(prod), NEW t \in Threads, items[Slot(prod)] = t
    PROVE  Contents' = Append(Contents, t)
<1>1. /\ prod \in Counter /\ cons \in Counter
      /\ Gap(prod, cons) \in Nat /\ Gap(prod, cons) < NumItems
  BY ContentsType, RingAssumption DEF RingInv, TypeOK, IsFull
<1>2. Gap(prod', cons') = Gap(prod, cons) + 1
  BY <1>1, GapPush
<1> DEFINE n == Gap(prod, cons)
<1>3. /\ Contents' \in Seq(Commands) /\ Len(Contents') = n + 1
      /\ \A k \in 1..(n + 1) : Contents'[k] = items[Slot(cons + k - 1)]
  BY ContentsTypeNext, <1>2
<1>4. /\ Contents \in Seq(Commands) /\ Len(Contents) = n
      /\ \A k \in 1..n : Contents[k] = items[Slot(cons + k - 1)]
  BY ContentsType
<1>5. Contents'[n + 1] = t
  <2>1. cons + (n + 1) - 1 = cons + n
    BY <1>1, RingAssumption DEF Counter
  <2> QED BY <1>1, <1>3, <2>1, SlotOfProd
<1>6. t \in Commands
  BY DEF Commands
<1> QED BY <1>1, <1>3, <1>4, <1>5, <1>6

\* Moving cons takes the oldest command off the queue.
LEMMA PopTakesOldest ==
    ASSUME RingInv, RingInv', ~IsEmpty(prod, cons), UNCHANGED <<prod, items>>,
           cons' = Inc(cons)
    PROVE  Contents' = Tail(Contents)
<1> DEFINE n == Gap(prod, cons)
<1>1. /\ prod \in Counter /\ cons \in Counter /\ n \in Nat /\ n > 0
  BY ContentsType, RingAssumption DEF RingInv, TypeOK, IsEmpty
<1>2. Gap(prod', cons') = n - 1
  BY <1>1, GapPop DEF IsEmpty
<1>3. /\ Contents' \in Seq(Commands) /\ Len(Contents') = n - 1
      /\ \A k \in 1..(n - 1) : Contents'[k] = items[Slot(Inc(cons) + k - 1)]
  BY ContentsTypeNext, <1>2
<1>4. /\ Contents \in Seq(Commands) /\ Len(Contents) = n
      /\ \A k \in 1..n : Contents[k] = items[Slot(cons + k - 1)]
  BY ContentsType
<1>5. ASSUME NEW k \in 1..(n - 1)
      PROVE  Contents'[k] = Contents[k + 1]
  <2>1. k - 1 \in Nat /\ Inc(cons) + (k - 1) = Inc(cons) + k - 1
    BY <1>1, IncType, RingAssumption DEF Counter
  <2>2. Slot(Inc(cons) + (k - 1)) = Slot(cons + (k - 1) + 1)
    BY <1>1, <2>1, SlotAfterPop
  <2>3. cons + (k - 1) + 1 = cons + (k + 1) - 1
    BY <1>1, RingAssumption DEF Counter
  <2>4. k + 1 \in 1..n
    BY <1>1
  <2> QED BY <2>1, <2>2, <2>3, <2>4, <1>3, <1>4
<1> QED BY <1>1, <1>3, <1>4, <1>5

-----------------------------------------------------------------------------
(* Every step of the ring is a step of the queue or leaves it alone. *)

QueueStep == QueueInv' /\ [Fifo!Next]_Fifo!vars

\* A step that touches neither the counters, the slots nor the command read,
\* and submits nothing, leaves the queue alone.
LEMMA QuietStep ==
    ASSUME QueueInv, RingInv', UNCHANGED <<prod, cons, items, taken, Submitted>>,
           hostPc' = "pop" <=> hostPc = "pop",
           \A t \in Threads : pc'[t] = "bump" => pc[t] = "bump"
    PROVE  QueueStep
<1>1. Contents' = Contents
  BY DEF Contents
<1> QED BY <1>1 DEF QueueStep, QueueInv, Fifo!vars

LEMMA InitQueue == Init => QueueInv /\ Fifo!Init
<1> SUFFICES ASSUME Init PROVE QueueInv /\ Fifo!Init
  OBVIOUS
<1>1. RingInv
  BY InitRing
<1>2. Contents = <<>>
  BY <1>1, ContentsType DEF Init
<1> QED BY <1>1, <1>2 DEF Init, QueueInv, Fifo!Init, Submitted

\* The steps of a thread.
LEMMA ThreadQueue ==
    ASSUME QueueInv, RingInv', NEW t \in Threads, Submit(t) \/ Lock(t) \/ Advance(t)
    PROVE  QueueStep
<1> USE DEF TypeOK, ThreadLocations, Submitted, Goto, ringVars, threadVars, hostVars, bellVars
<1>0. TypeOK /\ RingInv
  BY DEF QueueInv, RingInv
<1>1. CASE Submit(t)
  <2>1. Submitted' = Submitted \union {t} /\ t \notin Submitted
    BY <1>0, <1>1 DEF Submit
  <2>2. Contents' = Contents
    BY <1>1 DEF Submit, Contents
  <2>3. Fifo!Request(t)
    BY <1>1, <2>1, <2>2 DEF Submit, Fifo!Request
  <2>4. QueueInv'
    BY <1>0, <1>1, <2>2 DEF Submit, QueueInv
  <2> QED BY <2>3, <2>4 DEF QueueStep, Fifo!Next
<1>2. CASE Lock(t)
  BY <1>0, <1>2, QuietStep DEF Lock
<1>3. CASE CheckFull(t)
  BY <1>0, <1>3, QuietStep DEF CheckFull
<1>4. CASE ReadCons(t)
  BY <1>0, <1>4, QuietStep DEF ReadCons
<1>5. CASE ArmNotify(t)
  BY <1>0, <1>5, QuietStep DEF ArmNotify
<1>6. CASE RecheckFull(t)
  BY <1>0, <1>6, QuietStep DEF RecheckFull
<1>7. CASE Wake(t)
  BY <1>0, <1>7, QuietStep DEF Wake
<1>8. CASE WaitTimesOut(t)
  BY <1>0, <1>8, QuietStep DEF WaitTimesOut
<1>9. CASE StoreItem(t)
  <2>1. ~IsFull(prod, cons)
    BY <1>0, <1>9 DEF StoreItem, RingInv, NoOverrun
  <2>2. Contents' = Contents /\ items'[Slot(prod)] = t
    BY <1>0, <1>9, <2>1, StoreKeepsContents DEF StoreItem
  <2>3. \A u \in Threads : pc'[u] = "bump" => u = t
    BY <1>0, <1>9 DEF StoreItem, RingInv, LockOwner, Holding
  <2>4. Submitted' = Submitted
    BY <1>0, <1>9 DEF StoreItem
  <2>5. QueueInv'
    BY <1>9, <2>2, <2>3 DEF StoreItem, QueueInv
  <2>6. UNCHANGED Fifo!vars
    BY <1>9, <2>2, <2>4 DEF StoreItem, Fifo!vars
  <2> QED BY <2>5, <2>6 DEF QueueStep
<1>10. CASE BumpProd(t)
  <2>1. ~IsFull(prod, cons) /\ items[Slot(prod)] = t
    BY <1>0, <1>10 DEF BumpProd, RingInv, NoOverrun, QueueInv
  <2>2. Contents' = Append(Contents, t)
    BY <1>0, <1>10, <2>1, BumpAppends DEF BumpProd
  <2>3. \A u \in Threads : pc'[u] # "bump"
    BY <1>0, <1>10 DEF BumpProd, RingInv, LockOwner, Holding
  <2>4. t \in Submitted /\ Submitted' = Submitted \ {t}
    BY <1>0, <1>10 DEF BumpProd
  <2>5. Len(Contents) < NumItems
    BY <1>0, <2>1, ContentsType, RingAssumption DEF IsFull
  <2>6. Fifo!Enqueue(t)
    BY <1>10, <2>2, <2>4, <2>5 DEF BumpProd, Fifo!Enqueue
  <2>7. hostPc = "pop" => Contents # <<>>
    BY <1>0, OldestItem DEF RingInv, NoOverrun
  <2>8. QueueInv'
    <3>1. Contents \in Seq(Threads)
      BY DEF QueueInv
    <3>2. Contents' \in Seq(Threads)
      BY <2>2, <3>1
    <3>3. Contents # <<>> => Head(Contents') = Head(Contents)
      BY <2>2, <3>1
    <3> QED BY <1>10, <2>3, <2>7, <3>2, <3>3 DEF BumpProd, QueueInv
  <2> QED BY <2>6, <2>8 DEF QueueStep, Fifo!Next
<1>11. CASE CompareProd(t)
  BY <1>0, <1>11, QuietStep DEF CompareProd
<1>12. CASE Kick(t)
  BY <1>0, <1>12, QuietStep DEF Kick
<1>13. CASE Unlock(t)
  BY <1>0, <1>13, QuietStep DEF Unlock
<1> QED
  BY <1>1, <1>2, <1>3, <1>4, <1>5, <1>6, <1>7, <1>8, <1>9, <1>10, <1>11, <1>12,
     <1>13 DEF Advance

\* The steps of the device.
LEMMA HostQueue ==
    ASSUME QueueInv, RingInv', HostStep
    PROVE  QueueStep
<1> USE DEF Submitted, HostGoto, ringVars, threadVars, hostVars, bellVars
<1>0. RingInv
  BY DEF QueueInv
<1>1. CASE HostPoll
  BY <1>1, QuietStep DEF HostPoll
<1>2. CASE HostReadProd
  BY <1>2, QuietStep DEF HostReadProd
<1>3. CASE HostArmNotify
  BY <1>3, QuietStep DEF HostArmNotify
<1>4. CASE HostRecheck
  BY <1>4, QuietStep DEF HostRecheck
<1>5. CASE HostWake
  BY <1>5, QuietStep DEF HostWake
<1>6. CASE HostTakeItem
  <2>1. Contents # <<>> /\ Head(Contents) = items[Slot(cons)]
    BY <1>0, <1>6, OldestItem DEF HostTakeItem, RingInv, NoOverrun
  <2>2. Contents' = Contents
    BY <1>6 DEF HostTakeItem, Contents
  <2>3. Fifo!Read
    BY <1>6, <2>1, <2>2 DEF HostTakeItem, QueueInv, Fifo!Read
  <2>4. QueueInv'
    BY <1>6, <2>1, <2>2 DEF HostTakeItem, QueueInv
  <2> QED BY <2>3, <2>4 DEF QueueStep, Fifo!Next
<1>7. CASE HostPop
  <2>1. ~IsEmpty(prod, cons)
    BY <1>0, <1>7 DEF HostPop, RingInv, NoOverrun
  <2>2. Contents # <<>> /\ Contents \in Seq(Threads) /\ taken = Head(Contents)
    BY <1>0, <1>7, <2>1, OldestItem DEF HostPop, QueueInv
  <2>3. Contents' = Tail(Contents)
    BY <1>0, <1>7, <2>1, PopTakesOldest DEF HostPop
  <2>4. taken # NoThread
    BY <2>2, CommandRingAssumption
  <2>5. Fifo!Consume
    BY <1>7, <2>3, <2>4 DEF HostPop, Fifo!Consume
  <2>6. Contents' \in Seq(Threads)
    BY <2>2, <2>3
  <2>7. QueueInv'
    BY <1>7, <2>6 DEF HostPop, QueueInv
  <2> QED BY <2>5, <2>7 DEF QueueStep, Fifo!Next
<1>8. CASE HostCompare
  BY <1>8, QuietStep DEF HostCompare
<1> QED BY <1>1, <1>2, <1>3, <1>4, <1>5, <1>6, <1>7, <1>8 DEF HostStep, HostAdvance

LEMMA NextQueue == QueueInv /\ [Next]_vars => QueueStep
<1> SUFFICES ASSUME QueueInv, [Next]_vars PROVE QueueStep
  OBVIOUS
<1>0. RingInv'
  BY NextRing DEF QueueInv
<1> USE DEF Submitted, ringVars, threadVars, hostVars
<1>1. ASSUME NEW t \in Threads, Submit(t) \/ Lock(t) \/ Advance(t) PROVE QueueStep
  BY <1>0, <1>1, ThreadQueue
<1>2. CASE HostStep
  BY <1>0, <1>2, HostQueue
<1>3. CASE SetEvent
  BY <1>0, <1>3, QuietStep DEF SetEvent
<1>4. CASE OtherWaiterWakes
  BY <1>0, <1>4, QuietStep DEF OtherWaiterWakes
<1>5. CASE UNCHANGED vars
  BY <1>0, <1>5, QuietStep DEF vars
<1> QED BY <1>1, <1>2, <1>3, <1>4, <1>5 DEF Next

\* Whatever the counters do at their wrap, and wherever the threads and the
\* device are between two reads of the ring's fields, no command is lost,
\* duplicated or reordered, and the device is given what was pushed.
THEOREM RingIsBoundedQueue == Safety => IsBoundedQueue
<1>1. Safety => []QueueInv
  <2>1. QueueInv /\ [Next]_vars => QueueInv'
    BY NextQueue DEF QueueStep
  <2> QED BY <2>1, InitQueue, PTL DEF Safety
<1>2. QueueInv /\ [Next]_vars => [Fifo!Next]_Fifo!vars
  BY NextQueue DEF QueueStep
<1> QED BY <1>1, <1>2, InitQueue, PTL DEF Safety, IsBoundedQueue, Fifo!Safety

=============================================================================
