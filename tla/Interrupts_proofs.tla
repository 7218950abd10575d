-------------------------- MODULE Interrupts_proofs --------------------------
(***************************************************************************)
(* Proofs about the interrupt path and the two components that wait for    *)
(* its events: AsyncIo, for any number of threads, settings and            *)
(* interrupts, and DisplayPath, for any number of threads, any ring size   *)
(* and any width of the counters.                                          *)
(*                                                                         *)
(* For AsyncIo the heart of the matter is a balance: what the device has   *)
(* still to complete, and the completions that are on their way through    *)
(* the interrupt path, are never more than the waits that timed out and    *)
(* the one that is under way.  For DisplayPath it is that the path keeps   *)
(* module Doorbell's promise to the command ring, so that what is proved   *)
(* of CommandRing over the idealised bell holds with the real interrupt    *)
(* routines.                                                               *)
(***************************************************************************)
EXTENDS AsyncIo, DisplayPath, TLAPS

-----------------------------------------------------------------------------
(* The interrupt path, for AsyncIo. *)

IntInv == IntTypeOK /\ PendingHasDpc /\ PendingHoldsLine

\* The interrupt path starts with nothing pending.
LEMMA IntInitInv == IntInit => IntInv
<1> SUFFICES ASSUME IntInit PROVE IntInv
  OBVIOUS
<1>1. IntTypeOK
  <2>1. isr \in [pc : IsrLocations, taken : SUBSET Bits, old : SUBSET Bits]
    BY DEF IntInit, IsrIdle, IsrLocations
  <2>2. dpc \in [pc : DpcLocations, bits : SUBSET Bits, next : 1..3]
    BY DEF IntInit, DpcIdle, DpcLocations
  <2> QED BY <2>1, <2>2 DEF IntInit, IntTypeOK
<1>2. PendingHasDpc /\ PendingHoldsLine
  BY DEF IntInit, PendingHasDpc, PendingHoldsLine
<1> QED BY <1>1, <1>2 DEF IntInv

\* An interrupt of the device raises the line with its bit.
LEMMA RaiseKeepsInt ==
    ASSUME IntInv, NEW b \in Bits, RaiseInterrupt(b)
    PROVE  IntInv'
BY DEF RaiseInterrupt, IntInv, IntTypeOK, PendingHasDpc, PendingHoldsLine

\* Each step of the interrupt routine keeps the line up or recomputes it, and
\* leaves what it stored in m_Pending to a DPC.
LEMMA IsrKeepsInt ==
    ASSUME IntInv, IsrStep
    PROVE  IntInv'
<1> USE DEF IntInv, IntTypeOK, PendingHasDpc, PendingHoldsLine, IsrLocations
<1>1. CASE IsrTakePending
  BY <1>1 DEF IsrTakePending
<1>2. CASE IsrLoadPending
  BY <1>2 DEF IsrLoadPending
<1>3. CASE IsrStorePending
  BY <1>3 DEF IsrStorePending
<1>4. CASE IsrUpdateIrq
  BY <1>4 DEF IsrUpdateIrq
<1>5. CASE IsrQueueDpc
  BY <1>5 DEF IsrQueueDpc, IsrIdle
<1> QED BY <1>1, <1>2, <1>3, <1>4, <1>5 DEF IsrStep

\* Each step of the DPC routine leaves what it has not read in m_Pending to
\* itself or to the DPC that is queued.
LEMMA DpcKeepsInt ==
    ASSUME IntInv, DpcStep
    PROVE  IntInv'
<1> USE DEF IntInv, IntTypeOK, PendingHasDpc, PendingHoldsLine, DpcLocations
<1>1. CASE DpcDequeue
  BY <1>1 DEF DpcDequeue
<1>2. CASE DpcExchange
  BY <1>2 DEF DpcExchange
<1>3. CASE DpcTestBit
  BY <1>3 DEF DpcTestBit, EventOrder, IntMask, DpcIdle
<1> QED BY <1>1, <1>2, <1>3 DEF DpcStep

\* A wait takes a signal and nothing else.
LEMMA WaitKeepsInt ==
    ASSUME IntInv, NEW e, WaitSatisfied(e)
    PROVE  IntInv'
BY DEF WaitSatisfied, IntInv, IntTypeOK, PendingHasDpc, PendingHoldsLine

-----------------------------------------------------------------------------
(* The balance of commands and completions. *)

Has(bits) == IF "IO_CMD" \in bits THEN 1 ELSE 0

\* The completions on their way from the device to the thread that waits.
OnTheWay ==
    Has(intPending) + Has(isr.taken) + Has(mPending) + Has(dpc.bits) + Has(events)

Waiting == IF pc[Escape] = "wait" THEN 1 ELSE 0

Balance == ~echoed => device + OnTheWay <= timeouts + Waiting

\* The configuration is the one that was asked for from the moment it is
\* written, and so is what the device shows once it has nothing left to do.
ConfigIsAsked ==
    /\ pc[Escape] = "complete" => config[1] = asked
    /\ pc[Escape] \in {"lock", "issue", "wait", "unlock"} =>
            config[1] = asked /\ config[2] = asked
    /\ pc[Escape] \in {"wait", "unlock"} /\ timeouts = 0 /\ ~echoed /\ device = 0 =>
            shown[1] = asked /\ shown[2] = asked

Inv == TypeOK /\ IntInv /\ Balance /\ ConfigIsAsked

\* A step of the interrupt routine does not add completions, unless it brings
\* one back.
LEMMA IsrKeepsOnTheWay ==
    ASSUME IntTypeOK, IsrStep, ~EchoesIoCmd
    PROVE  OnTheWay \in Nat /\ OnTheWay' \in Nat /\ OnTheWay' <= OnTheWay
<1> USE DEF OnTheWay, Has
<1>1. CASE IsrTakePending
  BY <1>1 DEF IsrTakePending, IntTypeOK
<1>2. CASE IsrLoadPending
  BY <1>2 DEF IsrLoadPending, IntTypeOK
<1>3. CASE IsrStorePending
  BY <1>3 DEF IsrStorePending, IntTypeOK, EchoesIoCmd
<1>4. CASE IsrUpdateIrq
  BY <1>4 DEF IsrUpdateIrq, IntTypeOK
<1>5. CASE IsrQueueDpc
  BY <1>5 DEF IsrQueueDpc, IsrIdle, IntTypeOK
<1> QED BY <1>1, <1>2, <1>3, <1>4, <1>5 DEF IsrStep

\* Neither does a step of the DPC routine.
LEMMA DpcKeepsOnTheWay ==
    ASSUME IntTypeOK, DpcStep
    PROVE  OnTheWay \in Nat /\ OnTheWay' \in Nat /\ OnTheWay' <= OnTheWay
<1> USE DEF OnTheWay, Has
<1>1. CASE DpcDequeue
  BY <1>1 DEF DpcDequeue, IntTypeOK
<1>2. CASE DpcExchange
  BY <1>2 DEF DpcExchange, IntTypeOK
<1>3. CASE DpcTestBit
  <2>1. dpc.next = 1 \/ dpc.next = 2 \/ dpc.next = 3
    BY DEF IntTypeOK
  <2>2. CASE dpc.next = 1
    BY <1>3, <2>2 DEF DpcTestBit, IntTypeOK, EventOrder
  <2>3. CASE dpc.next = 2
    BY <1>3, <2>3 DEF DpcTestBit, IntTypeOK, EventOrder
  <2>4. CASE dpc.next = 3
    BY <1>3, <2>4 DEF DpcTestBit, IntTypeOK, EventOrder, DpcIdle
  <2> QED BY <2>1, <2>2, <2>3, <2>4
<1> QED BY <1>1, <1>2, <1>3 DEF DpcStep

\* Another interrupt of the device is not a completion.
LEMMA RaiseKeepsOnTheWay ==
    ASSUME NEW b \in Bits, b # "IO_CMD", RaiseInterrupt(b)
    PROVE  OnTheWay' = OnTheWay
BY DEF RaiseInterrupt, OnTheWay, Has

\* Nor does the signal of another event matter.
LEMMA WaitKeepsOnTheWay ==
    ASSUME NEW e, e # "IO_CMD", WaitSatisfied(e)
    PROVE  OnTheWay' = OnTheWay
BY DEF WaitSatisfied, OnTheWay, Has

-----------------------------------------------------------------------------
(* The invariant. *)

LEMMA InitInv == Init => Inv
<1> SUFFICES ASSUME Init PROVE Inv
  OBVIOUS
<1>1. IntInv
  BY IntInitInv DEF Init
<1>2. TypeOK
  <2>1. pc \in [Callers -> Locations]
    BY DEF Init, Locations
  <2>2. config \in [1..2 -> Settings] /\ shown \in [1..2 -> Settings]
    BY DEF Init
  <2>3. /\ device \in 0..MaxDevice
        /\ timeouts \in 0..MaxTimeouts
        /\ others \in 0..MaxOthers
    BY AsyncIoAssumption DEF Init
  <2> QED BY <1>1, <2>1, <2>2, <2>3 DEF Init, TypeOK, IntInv
<1>3. Balance
  BY DEF Init, IntInit, IsrIdle, DpcIdle, Balance, OnTheWay, Has, Waiting, Callers
<1>4. ConfigIsAsked
  BY DEF Init, ConfigIsAsked, Callers
<1> QED BY <1>1, <1>2, <1>3, <1>4 DEF Inv

\* The steps of a caller that do not touch the interrupt path keep the
\* interrupts and what is on its way.
LEMMA CallerKeepsInt ==
    ASSUME IntInv, UNCHANGED intVars
    PROVE  IntInv' /\ OnTheWay' = OnTheWay
BY DEF intVars, IntInv, IntTypeOK, PendingHasDpc, PendingHoldsLine, OnTheWay, Has

LEMMA NatOnTheWay == OnTheWay \in Nat
BY DEF OnTheWay, Has

LEMMA NatWaiting ==
    ASSUME TypeOK
    PROVE  /\ device \in Nat /\ timeouts \in Nat /\ Waiting \in Nat
           /\ UNCHANGED pc => Waiting' = Waiting
BY AsyncIoAssumption DEF TypeOK, Waiting

LEMMA NextInv == Inv /\ [Next]_vars => Inv'
<1> SUFFICES ASSUME Inv, [Next]_vars PROVE Inv'
  OBVIOUS
<1> USE DEF Inv
<1>1. ASSUME NEW s \in Settings, StartEscape(s) PROVE Inv'
  <2>1. IntInv' /\ OnTheWay' = OnTheWay
    BY <1>1, CallerKeepsInt DEF StartEscape
  <2>2. TypeOK'
    BY <1>1, <2>1 DEF StartEscape, Goto, TypeOK, IntInv, Callers, Locations
  <2>3. Balance' /\ ConfigIsAsked'
    BY <1>1, <2>1 DEF StartEscape, Goto, TypeOK, Balance, Waiting, ConfigIsAsked, Callers
  <2> QED BY <2>1, <2>2, <2>3
<1>2. CASE Fill
  <2>1. IntInv' /\ OnTheWay' = OnTheWay
    BY <1>2, CallerKeepsInt DEF Fill
  <2>2. TypeOK'
    BY <1>2, <2>1 DEF Fill, Goto, TypeOK, IntInv, Callers, Locations
  <2>3. Balance' /\ ConfigIsAsked'
    BY <1>2, <2>1 DEF Fill, Goto, TypeOK, Balance, Waiting, ConfigIsAsked, Callers
  <2> QED BY <2>1, <2>2, <2>3
<1>3. CASE CompleteFill
  <2>1. IntInv' /\ OnTheWay' = OnTheWay
    BY <1>3, CallerKeepsInt DEF CompleteFill
  <2>2. TypeOK'
    BY <1>3, <2>1 DEF CompleteFill, Goto, TypeOK, IntInv, Callers, Locations
  <2>3. Balance' /\ ConfigIsAsked'
    BY <1>3, <2>1 DEF CompleteFill, Goto, TypeOK, Balance, Waiting, ConfigIsAsked, Callers
  <2> QED BY <2>1, <2>2, <2>3
<1>4. ASSUME NEW k \in Kickers, StartKick(k) \/ IssueSync(k) PROVE Inv'
  <2>0. k # Escape /\ k \in Callers
    BY AsyncIoAssumption DEF Callers
  <2>1. IntInv' /\ OnTheWay' = OnTheWay
    BY <1>4, CallerKeepsInt DEF StartKick, IssueSync
  <2>2. TypeOK'
    BY <1>4, <2>0, <2>1 DEF StartKick, IssueSync, Goto, TypeOK, IntInv, Locations
  <2>3. pc'[Escape] = pc[Escape]
    BY <1>4, <2>0 DEF StartKick, IssueSync, Goto, TypeOK, Callers
  <2>4. Balance' /\ ConfigIsAsked'
    BY <1>4, <2>1, <2>3 DEF StartKick, IssueSync, Balance, Waiting, ConfigIsAsked
  <2> QED BY <2>1, <2>2, <2>4
<1>5. ASSUME NEW c \in Callers, Lock(c) PROVE Inv'
  <2>1. IntInv' /\ OnTheWay' = OnTheWay
    BY <1>5, CallerKeepsInt DEF Lock
  <2>2. TypeOK'
    BY <1>5, <2>1 DEF Lock, Goto, TypeOK, IntInv, Locations
  <2>3. Balance' /\ ConfigIsAsked'
    BY <1>5, <2>1 DEF Lock, Goto, TypeOK, Balance, Waiting, ConfigIsAsked, Callers
  <2> QED BY <2>1, <2>2, <2>3
<1>6. CASE IssueAsync
  <2>1. IntInv' /\ OnTheWay' = OnTheWay
    BY <1>6, CallerKeepsInt DEF IssueAsync
  <2>2. TypeOK'
    BY <1>6, <2>1, AsyncIoAssumption
    DEF IssueAsync, Goto, TypeOK, IntInv, Callers, Locations
  <2>3. Balance' /\ ConfigIsAsked'
    BY <1>6, <2>1, NatOnTheWay, AsyncIoAssumption
    DEF IssueAsync, Goto, TypeOK, Balance, Waiting, ConfigIsAsked, Callers
  <2> QED BY <2>1, <2>2, <2>3
<1>7. CASE WakesUp
  <2>1. IntInv'
    BY <1>7, WaitKeepsInt DEF WakesUp
  <2>2. TypeOK'
    BY <1>7, <2>1 DEF WakesUp, Goto, TypeOK, IntInv, Callers, Locations
  <2>3. OnTheWay' = OnTheWay - 1
    BY <1>7 DEF WakesUp, WaitSatisfied, OnTheWay, Has
  <2>4. Balance'
    BY <1>7, <2>3, NatOnTheWay
    DEF WakesUp, Goto, TypeOK, Balance, Waiting, Callers
  <2>5. ConfigIsAsked'
    BY <1>7 DEF WakesUp, Goto, TypeOK, ConfigIsAsked, Callers
  <2> QED BY <2>1, <2>2, <2>4, <2>5
<1>8. CASE TimesOut
  <2>1. IntInv' /\ OnTheWay' = OnTheWay
    BY <1>8, CallerKeepsInt DEF TimesOut
  <2>2. TypeOK'
    BY <1>8, <2>1, AsyncIoAssumption
    DEF TimesOut, Goto, TypeOK, IntInv, Callers, Locations
  <2>3. Balance' /\ ConfigIsAsked'
    BY <1>8, <2>1, NatOnTheWay, AsyncIoAssumption
    DEF TimesOut, Goto, TypeOK, Balance, Waiting, ConfigIsAsked, Callers
  <2> QED BY <2>1, <2>2, <2>3
<1>9. ASSUME NEW c \in Callers, Unlock(c) PROVE Inv'
  <2>1. IntInv' /\ OnTheWay' = OnTheWay
    BY <1>9, CallerKeepsInt DEF Unlock
  <2>2. TypeOK'
    BY <1>9, <2>1 DEF Unlock, Goto, TypeOK, IntInv, Locations
  <2>3. Balance' /\ ConfigIsAsked'
    BY <1>9, <2>1 DEF Unlock, Goto, TypeOK, Balance, Waiting, ConfigIsAsked, Callers
  <2> QED BY <2>1, <2>2, <2>3
<1>10. CASE CompleteCommand
  <2>1. IntInv'
    BY <1>10, RaiseKeepsInt DEF CompleteCommand, Bits, IntMask
  <2>2. TypeOK'
    BY <1>10, <2>1, AsyncIoAssumption DEF CompleteCommand, TypeOK, IntInv
  <2>3. OnTheWay' <= OnTheWay + 1
    BY <1>10 DEF CompleteCommand, RaiseInterrupt, OnTheWay, Has
  <2>4. Balance'
    BY <1>10, <2>3, NatOnTheWay, AsyncIoAssumption
    DEF CompleteCommand, TypeOK, Balance, Waiting, OnTheWay, Has
  <2>5. ConfigIsAsked'
    BY <1>10, NatOnTheWay, AsyncIoAssumption
    DEF CompleteCommand, TypeOK, ConfigIsAsked, Balance, Waiting
  <2> QED BY <2>1, <2>2, <2>4, <2>5
<1>11. CASE Isr
  <2>1. IntInv'
    BY <1>11, IsrKeepsInt DEF Isr
  <2>2. TypeOK'
    BY <1>11, <2>1 DEF Isr, callVars, TypeOK, IntInv, EchoesIoCmd
  <2>3. echoed' \/ (~echoed /\ ~EchoesIoCmd)
    BY <1>11 DEF Isr, TypeOK
  <2>u. UNCHANGED <<pc, asked, config, device, shown, timeouts>>
    BY <1>11 DEF Isr, callVars
  <2>4. CASE echoed'
    BY <2>1, <2>2, <2>4, <2>u DEF Balance, ConfigIsAsked
  <2>5. CASE ~echoed /\ ~EchoesIoCmd
    <3>1. OnTheWay \in Nat /\ OnTheWay' \in Nat /\ OnTheWay' <= OnTheWay
      BY <1>11, <2>5, IsrKeepsOnTheWay DEF Isr, IntInv
    <3>2. device + OnTheWay <= timeouts + Waiting
      BY <2>5 DEF Balance
    <3>3. device' + OnTheWay' <= timeouts' + Waiting'
      BY <2>u, <3>1, <3>2, NatWaiting
    <3>4. Balance'
      BY <3>3 DEF Balance
    <3>5. ConfigIsAsked'
      BY <2>5, <2>u DEF ConfigIsAsked
    <3> QED BY <2>1, <2>2, <3>4, <3>5
  <2> QED BY <2>1, <2>2, <2>3, <2>4, <2>5
<1>12. CASE Dpc
  <2>1. IntInv'
    BY <1>12, DpcKeepsInt DEF Dpc
  <2>2. TypeOK'
    BY <1>12, <2>1 DEF Dpc, callVars, TypeOK, IntInv
  <2>3. OnTheWay \in Nat /\ OnTheWay' \in Nat /\ OnTheWay' <= OnTheWay
    BY <1>12, DpcKeepsOnTheWay DEF Dpc, IntInv
  <2>u. UNCHANGED <<pc, asked, config, device, shown, timeouts, echoed>>
    BY <1>12 DEF Dpc, callVars
  <2>4. device + OnTheWay <= timeouts + Waiting
            => device' + OnTheWay' <= timeouts' + Waiting'
    BY <2>u, <2>3, NatWaiting
  <2>5. Balance'
    BY <2>u, <2>4 DEF Balance
  <2>6. ConfigIsAsked'
    BY <2>u DEF ConfigIsAsked
  <2> QED BY <2>1, <2>2, <2>5, <2>6
<1>13. CASE OtherInterrupt
  <2> PICK b \in Raised : RaiseInterrupt(b)
    BY <1>13 DEF OtherInterrupt, DeviceRaises
  <2>0. b \in Bits /\ b # "IO_CMD"
    BY AsyncIoAssumption, RaisedAssumption
  <2>1. IntInv' /\ OnTheWay' = OnTheWay
    BY <2>0, RaiseKeepsInt, RaiseKeepsOnTheWay
  <2>2. TypeOK'
    BY <1>13, <2>1, AsyncIoAssumption
    DEF OtherInterrupt, callVars, TypeOK, IntInv
  <2>3. Balance' /\ ConfigIsAsked'
    BY <1>13, <2>1 DEF OtherInterrupt, callVars, Balance, Waiting, ConfigIsAsked
  <2> QED BY <2>1, <2>2, <2>3
<1>14. CASE OtherWaiter
  <2> PICK e \in IntMask \ {"IO_CMD"} : WaitSatisfied(e)
    BY <1>14 DEF OtherWaiter
  <2>1. IntInv' /\ OnTheWay' = OnTheWay
    BY WaitKeepsInt, WaitKeepsOnTheWay
  <2>2. TypeOK'
    BY <1>14, <2>1 DEF OtherWaiter, callVars, TypeOK, IntInv
  <2>3. Balance' /\ ConfigIsAsked'
    BY <1>14, <2>1 DEF OtherWaiter, callVars, Balance, Waiting, ConfigIsAsked
  <2> QED BY <2>1, <2>2, <2>3
<1>15. CASE UNCHANGED vars
  <2>1. IntInv' /\ OnTheWay' = OnTheWay
    BY <1>15, CallerKeepsInt DEF vars
  <2>2. TypeOK' /\ Balance' /\ ConfigIsAsked'
    BY <1>15, <2>1
    DEF vars, callVars, TypeOK, IntInv, Balance, Waiting, ConfigIsAsked
  <2> QED BY <2>1, <2>2
<1> QED
  BY <1>1, <1>2, <1>3, <1>4, <1>5, <1>6, <1>7, <1>8, <1>9, <1>10, <1>11, <1>12,
     <1>13, <1>14, <1>15
  DEF Next, CallStep, Callers

-----------------------------------------------------------------------------

THEOREM Invariance == Spec => []Inv
BY InitInv, NextInv, PTL DEF Spec

\* For any threads, settings and interrupts, the variables keep their types,
\* the DPC routine stays within its tests.
THEOREM TypeCorrect == Spec => []TypeOK
BY Invariance, PTL DEF Inv

\* Bits that InterruptRoutine leaves in m_Pending always have a DPC coming that
\* will read them, although |= is not atomic (QxlDod.cpp:4816).
THEOREM PendingBitsHaveADpc == Spec => []PendingHasDpc
BY Invariance, PTL DEF Inv, IntInv

\* The interrupt line never drops with an enabled bit in int_pending unless the
\* interrupt routine is about to recompute it (QxlDod.cpp:4812).
THEOREM PendingBitsHoldTheLine == Spec => []PendingHoldsLine
BY Invariance, PTL DEF Inv, IntInv

\* AsyncIo lets the device have more than one command only for waits that
\* timed out: the balance bounds what is left over for good.
THEOREM DeviceHasOneCommand == Spec => []OneAtATime
<1>1. Inv => OneAtATime
  <2> SUFFICES ASSUME Inv, ~echoed PROVE device <= timeouts + Waiting
    BY DEF OneAtATime, Waiting
  <2> QED BY NatOnTheWay, AsyncIoAssumption
          DEF Inv, Balance, TypeOK, Waiting
<1> QED BY <1>1, Invariance, PTL

\* When AsyncIo returns without a time-out the device shows what was asked for,
\* though the configuration is written without m_IoLock.
THEOREM EscapeShowsItsSetting == Spec => []ShowsWhatWasAsked
<1>1. Inv => ShowsWhatWasAsked
  <2> SUFFICES ASSUME Inv, pc[Escape] = "unlock", timeouts = 0, ~echoed
               PROVE  \A half \in 1..2 : shown[half] = asked
    BY DEF ShowsWhatWasAsked
  <2>1. device = 0
    BY NatOnTheWay, AsyncIoAssumption DEF Inv, Balance, TypeOK, Waiting
  <2>2. shown[1] = asked /\ shown[2] = asked
    BY <2>1 DEF Inv, ConfigIsAsked
  <2> QED BY <2>2
<1> QED BY <1>1, Invariance, PTL

-----------------------------------------------------------------------------
(* The interrupt path, for DisplayPath. *)

\* Where the routines hold no bits, so that nothing is thrown away when they take
\* more; and the |= of InterruptRoutine overwrites no bit it has not read.
Hands ==
    /\ isr.pc \notin {"load", "store"} => isr.taken = {}
    /\ IF isr.pc = "store" THEN mPending \subseteq isr.old ELSE isr.old = {}
    /\ dpc.pc # "test" => dpc.bits = {}

PathInv == IntTypeOK /\ Hands

\* What CommandRing sees of the path.
Owed == InFlight \intersect {RingEvent}
Rung == events \intersect {RingEvent}

LEMMA InitPath == IntInit => PathInv /\ Owed = {} /\ Rung = {}
<1> SUFFICES ASSUME IntInit PROVE PathInv /\ Owed = {} /\ Rung = {}
  OBVIOUS
<1>1. IntTypeOK
  BY IntInitInv DEF IntInv
<1>2. Hands
  BY DEF IntInit, Hands, IsrIdle, DpcIdle
<1>3. Owed = {} /\ Rung = {}
  BY DEF IntInit, Owed, Rung, InFlight, BitsToTest, IsrIdle, DpcIdle
<1> QED BY <1>1, <1>2, <1>3 DEF PathInv

\* The device's interrupt and a satisfied wait leave the routines alone.
LEMMA OutsideKeepsPath ==
    ASSUME PathInv, NEW b \in Bits, RaiseInterrupt(b) \/ WaitSatisfied(b)
    PROVE  PathInv'
BY DEF RaiseInterrupt, WaitSatisfied, PathInv, IntTypeOK, Hands

\* The event of the command ring is tested first.
LEMMA DisplayIsFirst ==
    IntTypeOK => ("DISPLAY" \in BitsToTest <=> "DISPLAY" \in dpc.bits /\ dpc.next = 1)
<1> SUFFICES ASSUME IntTypeOK
             PROVE  "DISPLAY" \in BitsToTest <=> "DISPLAY" \in dpc.bits /\ dpc.next = 1
  OBVIOUS
<1>1. /\ Len(EventOrder) = 3 /\ EventOrder[1] = "DISPLAY"
      /\ EventOrder[2] # "DISPLAY" /\ EventOrder[3] # "DISPLAY"
  BY DEF EventOrder
<1>2. dpc.next \in 1..3
  BY DEF IntTypeOK
<1>3. (\E i \in dpc.next..Len(EventOrder) : EventOrder[i] = "DISPLAY") <=> dpc.next = 1
  BY <1>1, <1>2
<1> QED BY <1>3 DEF BitsToTest

\* Where the device's interrupt for the command ring may be.
Held ==
    \/ "DISPLAY" \in intPending \union isr.taken \union isr.old \union mPending
    \/ "DISPLAY" \in dpc.bits /\ dpc.next = 1

LEMMA OwedIsHeld == IntTypeOK => Owed = IF Held THEN {RingEvent} ELSE {}
<1> SUFFICES ASSUME IntTypeOK PROVE Owed = IF Held THEN {RingEvent} ELSE {}
  OBVIOUS
<1>1. "DISPLAY" \in InFlight <=> Held
  BY DisplayIsFirst DEF InFlight, Held, IntMask
<1> QED BY <1>1 DEF Owed, RingEvent

LEMMA OwedIsHeldNext == IntTypeOK' => Owed' = IF Held' THEN {RingEvent} ELSE {}
<1>1. (IntTypeOK => Owed = IF Held THEN {RingEvent} ELSE {})'
  BY OwedIsHeld, PTL
<1> QED BY <1>1 DEF RingEvent

\* The interrupt routine moves bits, and neither adds nor drops one.
LEMMA IsrMovesBits ==
    ASSUME PathInv, IsrStep
    PROVE  PathInv' /\ Owed' = Owed /\ Rung' = Rung
<1> USE DEF PathInv, IntTypeOK, Hands, Held, IsrLocations
<1>1. SUFFICES PathInv' /\ (Held' <=> Held) /\ events' = events
  BY OwedIsHeld, OwedIsHeldNext DEF Rung, RingEvent
<1>2. CASE IsrTakePending
  BY <1>2 DEF IsrTakePending
<1>3. CASE IsrLoadPending
  BY <1>3 DEF IsrLoadPending
<1>4. CASE IsrStorePending
  BY <1>4 DEF IsrStorePending
<1>5. CASE IsrUpdateIrq
  BY <1>5 DEF IsrUpdateIrq
<1>6. CASE IsrQueueDpc
  BY <1>6 DEF IsrQueueDpc, IsrIdle
<1> QED BY <1>2, <1>3, <1>4, <1>5, <1>6 DEF IsrStep

\* So does the DPC routine, until it sets the event.
LEMMA DpcMovesBits ==
    ASSUME PathInv, DpcStep
    PROVE  /\ PathInv'
           /\ \/ Owed' = Owed /\ Rung' = Rung
              \/ /\ RingEvent \in Owed /\ Owed' \in {Owed, Owed \ {RingEvent}}
                 /\ Rung' = Rung \union {RingEvent}
<1> USE DEF PathInv, IntTypeOK, Hands, DpcLocations
<1>1. CASE DpcDequeue
  <2>1. PathInv' /\ (Held' <=> Held) /\ events' = events
    BY <1>1 DEF DpcDequeue, Held
  <2> QED BY <2>1, OwedIsHeld, OwedIsHeldNext DEF Rung, RingEvent
<1>2. CASE DpcExchange
  <2>1. PathInv' /\ (Held' <=> Held) /\ events' = events
    BY <1>2 DEF DpcExchange, Held
  <2> QED BY <2>1, OwedIsHeld, OwedIsHeldNext DEF Rung, RingEvent
<1>3. CASE DpcTestBit
  <2>1. PathInv'
    BY <1>3 DEF DpcTestBit, EventOrder, IntMask, DpcIdle
  <2>2. CASE dpc.next = 1 /\ "DISPLAY" \in dpc.bits
    <3>1. Held /\ events' = events \union {"DISPLAY"}
      BY <1>3, <2>2 DEF DpcTestBit, EventOrder, Held
    <3> QED BY <2>1, <3>1, OwedIsHeld, OwedIsHeldNext DEF Rung, RingEvent
  <2>3. CASE ~(dpc.next = 1 /\ "DISPLAY" \in dpc.bits)
    <3>1. dpc'.bits \subseteq dpc.bits /\ (dpc'.next = 1 => dpc'.bits = {})
      BY <1>3 DEF DpcTestBit, EventOrder, DpcIdle
    <3>2. Held' <=> Held
      BY <1>3, <2>3, <3>1 DEF DpcTestBit, Held
    <3>3. "DISPLAY" \in events' <=> "DISPLAY" \in events
      BY <1>3, <2>3 DEF DpcTestBit, EventOrder
    <3>4. Owed' = Owed
      BY <2>1, <3>2, OwedIsHeld, OwedIsHeldNext
    <3>5. Rung' = Rung
      BY <3>3 DEF Rung, RingEvent
    <3> QED BY <2>1, <3>4, <3>5
  <2> QED BY <2>2, <2>3
<1> QED BY <1>1, <1>2, <1>3 DEF DpcStep

-----------------------------------------------------------------------------
(* Each step of the whole path is a step of CommandRing or leaves it alone. *)

LEMMA NextPath == PathInv /\ [PathNext]_pathVars => PathInv' /\ [CR!Next]_CR!vars
<1> SUFFICES ASSUME PathInv, [PathNext]_pathVars
             PROVE  PathInv' /\ [CR!Next]_CR!vars
  OBVIOUS
<1> USE DEF pathVars
<1>1. CASE RingSteps
  <2>1. PathInv'
    BY <1>1 DEF RingSteps, PathInv, IntTypeOK, Hands, intVars
  <2>2. CR!Next
    BY <1>1 DEF RingSteps, CR!Next, CR!HostStep
  <2> QED BY <2>1, <2>2
<1>2. CASE DeviceCompares
  <2>1. PathInv'
    BY <1>2, OutsideKeepsPath
       DEF DeviceCompares, PathInv, IntTypeOK, Hands, intVars, RingEvent, Bits,
           IntMask
  <2>2. CR!Next
    BY <1>2 DEF DeviceCompares, CR!Next, CR!HostStep
  <2> QED BY <2>1, <2>2
<1>3. CASE ThreadWakesUp
  <2>1. PathInv'
    BY <1>3, OutsideKeepsPath DEF ThreadWakesUp, RingEvent, Bits, IntMask
  <2>2. CR!Next
    BY <1>3 DEF ThreadWakesUp, CR!Next, CR!Advance
  <2> QED BY <2>1, <2>2
<1>4. CASE InterruptStep
  <2>1. UNCHANGED ringSide
    BY <1>4 DEF InterruptStep
  <2>2. PathInv' /\ (\/ UNCHANGED <<Owed, Rung>>
                     \/ CR!Bell!Ring(RingEvent))
    BY <1>4, IsrMovesBits, DpcMovesBits DEF InterruptStep, CR!Bell!Ring, Owed, Rung
  <2>3. CASE UNCHANGED <<Owed, Rung>>
    BY <2>1, <2>2, <2>3
       DEF ringSide, Owed, Rung, CR!vars, CR!ringVars, CR!threadVars, CR!hostVars,
           CR!bellVars
  <2>4. CASE CR!Bell!Ring(RingEvent)
    <3>1. CR!SetEvent
      BY <2>1, <2>4 DEF ringSide, CR!SetEvent, CR!ringVars, CR!threadVars, CR!hostVars
    <3> QED BY <2>2, <3>1 DEF CR!Next
  <2> QED BY <2>2, <2>3, <2>4
<1>5. CASE UNCHANGED pathVars
  BY <1>5
     DEF PathInv, IntTypeOK, Hands, intVars, ringSide, InFlight, BitsToTest,
         CR!vars, CR!ringVars, CR!threadVars, CR!hostVars, CR!bellVars
<1> QED BY <1>1, <1>2, <1>3, <1>4, <1>5 DEF PathNext

\* The path from the device's compare through int_pending, InterruptRoutine and
\* DpcRoutine to the event behaves as the idealised bell of CommandRing.
THEOREM PathImplementsRing == PathSpec => ImplementsCommandRing
<1>1. PathInit => PathInv /\ CR!Init
  BY InitPath DEF PathInit
<1> QED BY <1>1, NextPath, PTL DEF PathSpec, ImplementsCommandRing, CR!Safety


-----------------------------------------------------------------------------
(* What is proved of CommandRing, over the real path. *)

Ring == INSTANCE CommandRing_proofs
            WITH pc <- threadPc,
                 owed <- InFlight \intersect {RingEvent},
                 rung <- events \intersect {RingEvent},
                 TimedWait <- FALSE,
                 SharedEvent <- FALSE

LEMMA RingAssumptions == Ring!RingAssumption /\ Ring!CommandRingAssumption
BY DisplayPathAssumption
   DEF CR!RingAssumption, CR!CommandRingAssumption,
       Ring!RingAssumption, Ring!CommandRingAssumption

\* CR and Ring name the same specification: one with the theorems, one without.
LEMMA SameInit == CR!Init => Ring!Init
BY DEF CR!Init, Ring!Init, CR!Bell!Init, Ring!Bell!Init, CR!Inc, Ring!Inc,
       CR!Slots, Ring!Slots

LEMMA SameNext == [CR!Next]_CR!vars => [Ring!Next]_Ring!vars
BY   DEF CR!Next, CR!vars, CR!ringVars, CR!threadVars, CR!hostVars, CR!bellVars,
         CR!Submit, CR!Lock, CR!Advance, CR!CheckFull, CR!ReadCons, CR!ArmNotify,
         CR!RecheckFull, CR!Wake, CR!WaitTimesOut, CR!StoreItem, CR!BumpProd,
         CR!CompareProd, CR!Kick, CR!Unlock, CR!HostStep, CR!HostAdvance,
         CR!HostPoll, CR!HostReadProd, CR!HostArmNotify, CR!HostRecheck,
         CR!HostWake, CR!HostTakeItem, CR!HostPop, CR!HostCompare, CR!SetEvent,
         CR!OtherWaiterWakes, CR!Goto, CR!HostGoto, CR!IsFull, CR!IsEmpty,
         CR!Inc, CR!Gap, CR!Slot, CR!Bell!Press, CR!Bell!Ring, CR!Bell!Answer,
         Ring!Next, Ring!vars, Ring!ringVars, Ring!threadVars, Ring!hostVars,
         Ring!bellVars, Ring!Submit, Ring!Lock, Ring!Advance, Ring!CheckFull,
         Ring!ReadCons, Ring!ArmNotify, Ring!RecheckFull, Ring!Wake,
         Ring!WaitTimesOut, Ring!StoreItem, Ring!BumpProd, Ring!CompareProd,
         Ring!Kick, Ring!Unlock, Ring!HostStep, Ring!HostAdvance, Ring!HostPoll,
         Ring!HostReadProd, Ring!HostArmNotify, Ring!HostRecheck, Ring!HostWake,
         Ring!HostTakeItem, Ring!HostPop, Ring!HostCompare, Ring!SetEvent,
         Ring!OtherWaiterWakes, Ring!Goto, Ring!HostGoto, Ring!IsFull,
         Ring!IsEmpty, Ring!Inc, Ring!Gap, Ring!Slot, Ring!Bell!Press,
         Ring!Bell!Ring, Ring!Bell!Answer

\* Wherever its interrupt is between the device's compare and the event, no
\* thread asleep in WaitForCmdRing with room in the ring is forgotten.
THEOREM WakeupsReachTheThread == PathSpec => []NoLostWakeup
<1>1. CR!Init => Ring!WakeupInv
  BY RingAssumptions, SameInit, Ring!InitArmed
<1>2. Ring!WakeupInv /\ [CR!Next]_CR!vars => Ring!WakeupInv'
  BY RingAssumptions, SameNext, Ring!NextArmed
<1>3. Ring!WakeupInv => NoLostWakeup
  BY DEF Ring!WakeupInv, Ring!Armed, NoLostWakeup, CR!NoLostWakeup,
         CR!WakeupComing, Ring!WakeupComing, CR!IsFull, Ring!IsFull, CR!Gap, Ring!Gap
<1> QED
  BY <1>1, <1>2, <1>3, PathImplementsRing, PTL DEF ImplementsCommandRing, CR!Safety

=============================================================================
