------------------------------ MODULE AsyncIo ------------------------------
(***************************************************************************)
(* Commands the QXL device completes later: QxlDevice::AsyncIo writes to   *)
(* an I/O port and waits, with m_IoLock held, for m_IoCmdEvent, which the  *)
(* interrupt path sets when the device raises QXL_INTERRUPT_IO_CMD.  Its   *)
(* caller is SetMonitorConfig, called from Escape; SyncIo, which kicks the *)
(* device from other threads, takes the same lock.  AsyncIo gives up after *)
(* 60 seconds and does not tell its caller; the interrupt of a command it  *)
(* gave up on comes late.                                                  *)
(*                                                                         *)
(* dxgkrnl makes one call of DxgkDdiEscape at a time.  The device is taken *)
(* to serve every command it is given, also one that comes before the last *)
(* is complete, and to read the whole configuration when it does.          *)
(***************************************************************************)
EXTENDS Interrupts

CONSTANTS
    Kickers,      \* threads that write to a port through SyncIo
    Settings,     \* the monitor settings an escape may ask for
    MaxTimeouts,  \* bound on the waits of AsyncIo that time out
    MaxDevice,    \* bound on the commands the device has not completed
    MaxOthers     \* bound on the interrupts raised for other reasons

VARIABLES
    pc,           \* where a caller is
    asked,        \* the setting of the last escape
    config,       \* m_monitor_config, in the two halves it is written in
    ioLock,       \* who holds m_IoLock
    device,       \* how many commands the device has to complete
    shown,        \* the configuration the device has read last
    timeouts,     \* how many waits timed out
    others,       \* how many other interrupts the device has raised
    echoed        \* m_Pending |= has brought back an IO_CMD bit the DPC took

Escape == "escape"
NoOne == "no one"
Callers == Kickers \union {Escape}

ASSUME AsyncIoAssumption ==
    /\ "IO_CMD" \notin Raised
    /\ Escape \notin Kickers /\ NoOne \notin Kickers
    /\ MaxTimeouts \in Nat /\ MaxDevice \in Nat \ {0} /\ MaxOthers \in Nat

callVars == <<pc, asked, config, ioLock, device, shown, timeouts>>
vars == <<intVars, callVars, others, echoed>>

Locations == {"idle", "fill", "complete", "lock", "issue", "wait", "unlock"}

TypeOK ==
    /\ IntTypeOK
    /\ pc \in [Callers -> Locations]
    /\ asked \in Settings
    /\ config \in [1..2 -> Settings] /\ shown \in [1..2 -> Settings]
    /\ ioLock \in Callers \union {NoOne}
    /\ device \in 0..MaxDevice
    /\ timeouts \in 0..MaxTimeouts
    /\ others \in 0..MaxOthers
    /\ echoed \in BOOLEAN

\* After QxlInit: InitMonitorConfig, and nothing under way.
Init ==
    /\ IntInit
    /\ pc = [c \in Callers |-> "idle"]
    /\ asked \in Settings
    /\ config = [half \in 1..2 |-> asked] /\ shown = config
    /\ ioLock = NoOne
    /\ device = 0
    /\ timeouts = 0
    /\ others = 0
    /\ echoed = FALSE

Goto(c, location) == pc' = [pc EXCEPT ![c] = location]

-----------------------------------------------------------------------------
(* QxlDevice::Escape and SetMonitorConfig. *)

\* QXL_ESCAPE_MONITOR_CONFIG.
StartEscape(s) ==
    /\ pc[Escape] = "idle"
    /\ asked' = s
    /\ Goto(Escape, "fill")
    /\ UNCHANGED <<intVars, config, ioLock, device, shown, timeouts, others, echoed>>

\* SetMonitorConfig writes the configuration in place, before it has m_IoLock.
Fill ==
    /\ pc[Escape] = "fill"
    /\ config' = [config EXCEPT ![1] = asked]
    /\ Goto(Escape, "complete")
    /\ UNCHANGED <<intVars, asked, ioLock, device, shown, timeouts, others, echoed>>

CompleteFill ==
    /\ pc[Escape] = "complete"
    /\ config' = [config EXCEPT ![2] = asked]
    /\ Goto(Escape, "lock")
    /\ UNCHANGED <<intVars, asked, ioLock, device, shown, timeouts, others, echoed>>

-----------------------------------------------------------------------------
(* AsyncIo and SyncIo. *)

StartKick(k) ==
    /\ pc[k] = "idle"
    /\ Goto(k, "lock")
    /\ UNCHANGED <<intVars, asked, config, ioLock, device, shown, timeouts, others, echoed>>

\* WaitForObject(&m_IoLock, NULL).
Lock(c) ==
    /\ pc[c] = "lock"
    /\ ioLock = NoOne
    /\ ioLock' = c
    /\ Goto(c, "issue")
    /\ UNCHANGED <<intVars, asked, config, device, shown, timeouts, others, echoed>>

\* Mutant of IssueAsync: AsyncIo returns without waiting.
IssueAndReturn ==
    /\ pc[Escape] = "issue"
    /\ device < MaxDevice
    /\ device' = device + 1
    /\ Goto(Escape, "unlock")
    /\ UNCHANGED <<intVars, asked, config, ioLock, shown, timeouts, others, echoed>>

\* AsyncIo writes to the port.
IssueAsync ==
    /\ pc[Escape] = "issue"
    /\ device < MaxDevice
    /\ device' = device + 1
    /\ Goto(Escape, "wait")
    /\ UNCHANGED <<intVars, asked, config, ioLock, shown, timeouts, others, echoed>>

\* SyncIo writes to the port; the device has done what it was told when the
\* write returns.
IssueSync(k) ==
    /\ pc[k] = "issue"
    /\ Goto(k, "unlock")
    /\ UNCHANGED <<intVars, asked, config, ioLock, device, shown, timeouts, others, echoed>>

\* Mutant of WakesUp: AsyncIo waits for the event of another interrupt.
WakesUpOnDisplay ==
    /\ pc[Escape] = "wait"
    /\ WaitSatisfied("DISPLAY")
    /\ Goto(Escape, "unlock")
    /\ UNCHANGED <<asked, config, ioLock, device, shown, timeouts, others, echoed>>

\* WaitForObject(&m_IoCmdEvent, &timeout) succeeds.
WakesUp ==
    /\ pc[Escape] = "wait"
    /\ WaitSatisfied("IO_CMD")
    /\ Goto(Escape, "unlock")
    /\ UNCHANGED <<asked, config, ioLock, device, shown, timeouts, others, echoed>>

\* Mutant of TimesOut: AsyncIo keeps m_IoLock when its wait fails.
TimesOutLocked ==
    /\ pc[Escape] = "wait"
    /\ "IO_CMD" \notin events
    /\ timeouts < MaxTimeouts
    /\ timeouts' = timeouts + 1
    /\ Goto(Escape, "idle")
    /\ UNCHANGED <<intVars, asked, config, ioLock, device, shown, others, echoed>>

\* ... or its 60 seconds have passed.
TimesOut ==
    /\ pc[Escape] = "wait"
    /\ "IO_CMD" \notin events
    /\ timeouts < MaxTimeouts
    /\ timeouts' = timeouts + 1
    /\ Goto(Escape, "unlock")
    /\ UNCHANGED <<intVars, asked, config, ioLock, device, shown, others, echoed>>

\* ReleaseMutex(&m_IoLock, locked), and back to the caller.
Unlock(c) ==
    /\ pc[c] = "unlock"
    /\ ioLock' = NoOne
    /\ Goto(c, "idle")
    /\ UNCHANGED <<intVars, asked, config, device, shown, timeouts, others, echoed>>

CallStep(c) ==
    \/ c = Escape /\ (Fill \/ CompleteFill \/ IssueAsync \/ WakesUp \/ TimesOut)
    \/ c # Escape /\ IssueSync(c)
    \/ Unlock(c)

-----------------------------------------------------------------------------
(* The device, the interrupt path, the waiters of the other events. *)

\* The device reads the configuration and says that it is done.
CompleteCommand ==
    /\ device > 0
    /\ device' = device - 1
    /\ shown' = config
    /\ RaiseInterrupt("IO_CMD")
    /\ UNCHANGED <<pc, asked, config, ioLock, timeouts, others, echoed>>

\* The |= of InterruptRoutine writes back a bit that DpcRoutine has taken since
\* the |= read it.
EchoesIoCmd ==
    /\ isr.pc = "store"
    /\ "IO_CMD" \in isr.old \ (mPending \union isr.taken)

Isr ==
    /\ IsrStep
    /\ echoed' = (echoed \/ EchoesIoCmd)
    /\ UNCHANGED <<callVars, others>>

Dpc == DpcStep /\ UNCHANGED <<callVars, others, echoed>>

\* The device interrupts for another reason; a thread that waits for another
\* event wakes up.
OtherInterrupt ==
    /\ others < MaxOthers
    /\ others' = others + 1
    /\ DeviceRaises
    /\ UNCHANGED <<callVars, echoed>>

OtherWaiter ==
    /\ \E e \in IntMask \ {"IO_CMD"} : WaitSatisfied(e)
    /\ UNCHANGED <<callVars, others, echoed>>

Next ==
    \/ \E s \in Settings : StartEscape(s)
    \/ \E k \in Kickers : StartKick(k)
    \/ \E c \in Callers : Lock(c) \/ CallStep(c)
    \/ CompleteCommand
    \/ Isr \/ Dpc
    \/ OtherInterrupt \/ OtherWaiter

\* The scheduler runs every thread, a mutex serves those that wait for it in
\* turn, the device completes what it was told, and the processor serves a
\* raised line and a queued DPC.
Fairness ==
    /\ \A c \in Callers : WF_vars(CallStep(c)) /\ SF_vars(Lock(c))
    /\ WF_vars(CompleteCommand)
    /\ WF_vars(Isr) /\ WF_vars(Dpc)

Spec == Init /\ [][Next]_vars /\ Fairness

-----------------------------------------------------------------------------
(* Correctness. *)

\* AsyncIo holds m_IoLock until its command is complete so that the device has
\* one command at a time.  Each wait that timed out may leave one command over
\* for good (the late m_IoCmdEvent ends the next wait too early, and so on),
\* and nothing else does, apart from an event the interrupt path sets twice.
OneAtATime ==
    ~echoed => device <= timeouts + (IF pc[Escape] = "wait" THEN 1 ELSE 0)

\* When AsyncIo returns to SetMonitorConfig the device has read the setting
\* that was asked for, all of it, though it is written without the lock;
\* unless a wait timed out before or an event was set twice.
ShowsWhatWasAsked ==
    pc[Escape] = "unlock" /\ timeouts = 0 /\ ~echoed
        => \A half \in 1..2 : shown[half] = asked

\* Whether the wait succeeds or times out, AsyncIo gives m_IoLock back: every
\* escape returns, and no thread that kicks the device through SyncIo is stuck
\* behind it.
EveryCallReturns == \A c \in Callers : pc[c] = "lock" ~> pc[c] = "idle"

=============================================================================
