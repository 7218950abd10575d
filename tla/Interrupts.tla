----------------------------- MODULE Interrupts -----------------------------
(***************************************************************************)
(* How an interrupt of the QXL device becomes a kernel event a driver      *)
(* thread waits for: int_pending and int_mask in the shared RAM header,    *)
(* the interrupt line, QxlDevice::InterruptRoutine, the DPC queued with    *)
(* dxgkrnl and QxlDevice::DpcRoutine.                                      *)
(*                                                                         *)
(* InterruptRoutine merges the bits it takes from int_pending into         *)
(* m_Pending with an ordinary |=, while DpcRoutine empties m_Pending with  *)
(* an InterlockedExchange that may run on another processor in between;    *)
(* the read and the write of |= are therefore separate steps here.         *)
(***************************************************************************)
EXTENDS Integers, Sequences

CONSTANT
    Raised       \* the bits of int_pending the device raises in this instance

VARIABLES
    intPending,  \* m_RamHdr->int_pending, shared with the device
    irqHigh,     \* the level of the interrupt line
    isr,         \* the interrupt routine: where it is, its local values
    mPending,    \* m_Pending
    dpcQueued,   \* the device's DPC object is in the system's queue
    dpc,         \* the DPC routine: where it is, intStatus, the next test
    events       \* the auto-reset events that are signalled

intVars == <<intPending, irqHigh, isr, mPending, dpcQueued, dpc, events>>

\* The tests of DpcRoutine, in the order it makes them; each bit has an event
\* of its own (m_DisplayEvent, m_CursorEvent, m_IoCmdEvent).
EventOrder == <<"DISPLAY", "CURSOR", "IO_CMD">>

\* WIN_QXL_INT_MASK.  ERROR stands for the bits a device may raise besides.
IntMask == {"DISPLAY", "CURSOR", "IO_CMD"}
Bits == IntMask \union {"ERROR"}

ASSUME RaisedAssumption == Raised \subseteq Bits

IsrLocations == {"idle", "load", "store", "update_irq", "queue_dpc"}
DpcLocations == {"idle", "exchange", "test"}

IntTypeOK ==
    /\ intPending \subseteq Bits
    /\ irqHigh \in BOOLEAN
    /\ isr \in [pc : IsrLocations, taken : SUBSET Bits, old : SUBSET Bits]
    /\ mPending \subseteq Bits
    /\ dpcQueued \in BOOLEAN
    /\ dpc \in [pc : DpcLocations, bits : SUBSET Bits, next : 1..3]
    /\ events \subseteq IntMask

IsrIdle == [pc |-> "idle", taken |-> {}, old |-> {}]
DpcIdle == [pc |-> "idle", bits |-> {}, next |-> 1]

\* The constructor clears m_Pending; CreateEvents makes the events unsignalled.
IntInit ==
    /\ intPending = {}
    /\ irqHigh = FALSE
    /\ isr = IsrIdle
    /\ mPending = {}
    /\ dpcQueued = FALSE
    /\ dpc = DpcIdle
    /\ events = {}

-----------------------------------------------------------------------------
(* The device. *)

\* The device sets a bit of int_pending and drives its interrupt line.
RaiseInterrupt(b) ==
    /\ intPending' = intPending \union {b}
    /\ irqHigh' = ((intPending \union {b}) \intersect IntMask # {})
    /\ UNCHANGED <<isr, mPending, dpcQueued, dpc, events>>

-----------------------------------------------------------------------------
(* QxlDevice::InterruptRoutine. *)

\* The line is up and one of the enabled bits is pending: take all the bits,
\* the ones that are not enabled too.
IsrTakePending ==
    /\ irqHigh
    /\ isr.pc = "idle"
    /\ intPending \intersect IntMask # {}
    /\ isr' = [isr EXCEPT !.pc = "load", !.taken = intPending]
    /\ intPending' = {}
    /\ UNCHANGED <<irqHigh, mPending, dpcQueued, dpc, events>>

\* m_Pending |= ..., the read.
IsrLoadPending ==
    /\ isr.pc = "load"
    /\ isr' = [isr EXCEPT !.pc = "store", !.old = mPending]
    /\ UNCHANGED <<intPending, irqHigh, mPending, dpcQueued, dpc, events>>

\* m_Pending |= ..., the write.
IsrStorePending ==
    /\ isr.pc = "store"
    /\ mPending' = isr.old \union isr.taken
    /\ isr' = [isr EXCEPT !.pc = "update_irq", !.taken = {}, !.old = {}]
    /\ UNCHANGED <<intPending, irqHigh, dpcQueued, dpc, events>>

\* Mutant of IsrUpdateIrq: the line is dropped whatever is pending.
IsrDropsLine ==
    /\ isr.pc = "update_irq"
    /\ irqHigh' = FALSE
    /\ isr' = [isr EXCEPT !.pc = "queue_dpc"]
    /\ UNCHANGED <<intPending, mPending, dpcQueued, dpc, events>>

\* Writing QXL_IO_UPDATE_IRQ sets the line from the bits pending now.
IsrUpdateIrq ==
    /\ isr.pc = "update_irq"
    /\ irqHigh' = (intPending \intersect IntMask # {})
    /\ isr' = [isr EXCEPT !.pc = "queue_dpc"]
    /\ UNCHANGED <<intPending, mPending, dpcQueued, dpc, events>>

\* Mutant of IsrQueueDpc: no DPC is queued while one runs.
IsrQueuesIdleDpc ==
    /\ isr.pc = "queue_dpc"
    /\ dpcQueued' = (dpcQueued \/ dpc.pc = "idle")
    /\ isr' = IsrIdle
    /\ UNCHANGED <<intPending, irqHigh, mPending, dpc, events>>

\* DxgkCbQueueDpc; it has no effect when the DPC is queued already.
IsrQueueDpc ==
    /\ isr.pc = "queue_dpc"
    /\ dpcQueued' = TRUE
    /\ isr' = IsrIdle
    /\ UNCHANGED <<intPending, irqHigh, mPending, dpc, events>>

IsrStep ==
    \/ IsrTakePending \/ IsrLoadPending \/ IsrStorePending
    \/ IsrUpdateIrq \/ IsrQueueDpc

-----------------------------------------------------------------------------
(* QxlDevice::DpcRoutine. *)

\* The system takes the DPC off its queue, and may queue it again from here on.
DpcDequeue ==
    /\ dpcQueued
    /\ dpc.pc = "idle"
    /\ dpcQueued' = FALSE
    /\ dpc' = [dpc EXCEPT !.pc = "exchange"]
    /\ UNCHANGED <<intPending, irqHigh, isr, mPending, events>>

\* intStatus = InterlockedExchange(&m_Pending, 0).
DpcExchange ==
    /\ dpc.pc = "exchange"
    /\ dpc' = [pc |-> "test", bits |-> mPending, next |-> 1]
    /\ mPending' = {}
    /\ UNCHANGED <<intPending, irqHigh, isr, dpcQueued, events>>

\* Mutants of DpcTestBit.
\* The tests are an else-if chain: only the first event is set.
DpcElseIf ==
    /\ dpc.pc = "test"
    /\ LET b == EventOrder[dpc.next]
       IN  /\ events' = IF b \in dpc.bits THEN events \union {b} ELSE events
           /\ dpc' = IF b \in dpc.bits \/ dpc.next = Len(EventOrder)
                     THEN DpcIdle
                     ELSE [dpc EXCEPT !.next = @ + 1]
    /\ UNCHANGED <<intPending, irqHigh, isr, mPending, dpcQueued>>

\* m_Pending is cleared at the end of the routine, not when it is read.
DpcClearsLate ==
    /\ dpc.pc = "test"
    /\ LET b == EventOrder[dpc.next]
       IN  events' = IF b \in dpc.bits THEN events \union {b} ELSE events
    /\ IF dpc.next = Len(EventOrder)
       THEN dpc' = DpcIdle /\ mPending' = {}
       ELSE dpc' = [dpc EXCEPT !.next = @ + 1] /\ UNCHANGED mPending
    /\ UNCHANGED <<intPending, irqHigh, isr, dpcQueued>>

\* The bits are not looked at: every event is set.
DpcSetsAllEvents ==
    /\ dpc.pc = "test"
    /\ events' = events \union {EventOrder[dpc.next]}
    /\ dpc' = IF dpc.next = Len(EventOrder)
              THEN DpcIdle
              ELSE [dpc EXCEPT !.next = @ + 1]
    /\ UNCHANGED <<intPending, irqHigh, isr, mPending, dpcQueued>>

\* The tests run past the last event.
DpcRunsOver ==
    /\ dpc.pc = "test"
    /\ dpc' = [dpc EXCEPT !.next = @ + 1]
    /\ UNCHANGED <<intPending, irqHigh, isr, mPending, dpcQueued, events>>

\* One of the three tests of intStatus, with its KeSetEvent.
DpcTestBit ==
    /\ dpc.pc = "test"
    /\ LET b == EventOrder[dpc.next]
       IN  events' = IF b \in dpc.bits THEN events \union {b} ELSE events
    /\ dpc' = IF dpc.next = Len(EventOrder)
              THEN DpcIdle
              ELSE [dpc EXCEPT !.next = @ + 1]
    /\ UNCHANGED <<intPending, irqHigh, isr, mPending, dpcQueued>>

DpcStep == DpcDequeue \/ DpcExchange \/ DpcTestBit

-----------------------------------------------------------------------------
(* A thread that waits for an event. *)

\* KeWaitForSingleObject is satisfied; the event is auto-reset.
WaitSatisfied(e) ==
    /\ e \in events
    /\ events' = events \ {e}
    /\ UNCHANGED <<intPending, irqHigh, isr, mPending, dpcQueued, dpc>>

-----------------------------------------------------------------------------

DeviceRaises == \E b \in Raised : RaiseInterrupt(b)
ThreadWakes == \E e \in IntMask : WaitSatisfied(e)

IntNext == DeviceRaises \/ IsrStep \/ DpcStep \/ ThreadWakes

\* The processor serves a raised line, lets the interrupt routine run to its
\* end, and runs a queued DPC.
IntFairness == WF_intVars(IsrStep) /\ WF_intVars(DpcStep)

IntSpec == IntInit /\ [][IntNext]_intVars /\ IntFairness

-----------------------------------------------------------------------------
(* Correctness. *)

\* The bits that intStatus holds and that DpcRoutine has still to test.
BitsToTest ==
    {b \in dpc.bits : \E i \in dpc.next..Len(EventOrder) : EventOrder[i] = b}

\* The bits on their way from the device to an event.  A bit stays in flight
\* wherever the routines hold it.
InFlight ==
    (intPending \union isr.taken \union isr.old \union mPending
        \union BitsToTest) \intersect IntMask

\* QxlDod.cpp:4816, "DPC already queued and will process m_Pending when
\* called": bits the interrupt routine has left in m_Pending always have a DPC
\* coming that has not read m_Pending yet, or the routine is about to queue one.
PendingHasDpc ==
    mPending # {} =>
        \/ dpcQueued
        \/ dpc.pc = "exchange"
        \/ isr.pc \in {"update_irq", "queue_dpc"}

\* QxlDod.cpp:4812: the line drops only if int_pending was not modified after
\* it was cleared; an enabled bit never sits in int_pending with the line down
\* and no interrupt routine on its way to recompute the line.
PendingHoldsLine ==
    intPending \intersect IntMask # {} =>
        irqHigh \/ isr.pc \in {"load", "store", "update_irq"}

\* What the waiting threads are promised: every interrupt sets its event, and
\* no event is set for an interrupt the device did not raise.
Bell == INSTANCE Doorbell WITH owed <- InFlight, rung <- events, Bells <- IntMask
RingsEveryBell == Bell!Spec

=============================================================================
