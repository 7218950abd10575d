---------------------------- MODULE DisplayPath ----------------------------
(***************************************************************************)
(* The command ring and the interrupt path together: from the device's     *)
(* SPICE_RING_POP through int_pending, InterruptRoutine and DpcRoutine to  *)
(* m_DisplayEvent and the thread asleep in WaitForCmdRing.  CommandRing    *)
(* sees of the interrupt path only what module Doorbell promises; here the *)
(* real one takes its place.                                               *)
(***************************************************************************)
EXTENDS Interrupts

CONSTANTS NumItems, CounterMod, Threads, NoThread

VARIABLES
    prod, cons, notifyOnProd, notifyOnCons, items,
    cmdLock,
    threadPc,     \* pc of CommandRing
    readCons,
    hostPc, readProd, taken, kicked

RingEvent == "DISPLAY"

CR == INSTANCE CommandRing
        WITH pc <- threadPc,
             owed <- InFlight \intersect {RingEvent},
             rung <- events \intersect {RingEvent},
             TimedWait <- FALSE,
             SharedEvent <- FALSE

\* What module CommandRing assumes of its constants.
ASSUME DisplayPathAssumption == CR!RingAssumption /\ CR!CommandRingAssumption

ringSide == <<prod, cons, notifyOnProd, notifyOnCons, items, cmdLock, threadPc,
              readCons, hostPc, readProd, taken, kicked>>
pathVars == <<ringSide, intVars>>

PathTypeOK == CR!TypeOK /\ IntTypeOK

PathInit == IntInit /\ CR!Init

\* The ring and the device, while the interrupt path does nothing.
RingSteps ==
    /\ UNCHANGED intVars
    /\ \/ \E t \in Threads : CR!Submit(t) \/ CR!Lock(t) \/ CR!Advance(t)
       \/ CR!HostAdvance

\* The device has popped a command and interrupts if it was asked to.
DeviceCompares ==
    /\ IF cons = notifyOnCons THEN RaiseInterrupt(RingEvent)
                              ELSE UNCHANGED intVars
    /\ CR!HostCompare

\* The waiting thread takes the signal.
ThreadWakesUp ==
    /\ WaitSatisfied(RingEvent)
    /\ \E t \in Threads : CR!Wake(t)

InterruptStep ==
    /\ IsrStep \/ DpcStep
    /\ UNCHANGED ringSide

PathNext == RingSteps \/ DeviceCompares \/ ThreadWakesUp \/ InterruptStep

PathSpec == PathInit /\ [][PathNext]_pathVars

\* The whole path behaves as CommandRing does over its idealised bell, so what
\* is shown of CommandRing holds with the real interrupt routines.
ImplementsCommandRing == CR!Safety

\* A thread asleep in WaitForCmdRing with room in the ring has its wakeup
\* somewhere between the device's compare and the event.
NoLostWakeup == CR!NoLostWakeup

=============================================================================
