---------------------------- MODULE VidPnHandles ----------------------------
(***************************************************************************)
(* What the driver borrows from dxgkrnl while it reads and fills a VidPn:  *)
(* path infos, mode sets, pinned modes and new modes, each of which it     *)
(* must give back exactly once, whatever call fails.  One action per call  *)
(* into dxgkrnl in EnumVidPnCofuncModality, CommitVidPn and                *)
(* AddSingleMonitorMode, with the exits these functions take.              *)
(*                                                                         *)
(* What the sets contain is left out, and so are the calls that borrow     *)
(* nothing, except that their failure takes the early exit.                *)
(***************************************************************************)
EXTENDS Integers, Sequences

CONSTANTS
    MaxPaths,        \* the most paths a topology has
    FailureClears    \* a failed pfnAcquireNextPathInfo sets its result to NULL,
                     \* or else leaves it alone

ASSUME VidPnHandlesAssumption ==
    MaxPaths \in Nat \ {0} /\ FailureClears \in BOOLEAN

VARIABLES
    pc,         \* where the driver is; "Idle" between two calls of dxgkrnl
    ptr,        \* the local variables that hold a handle or a pointer
    held,       \* dxgkrnl: how many of each kind it has lent
    paths,      \* dxgkrnl: the paths not yet enumerated
    pivot,      \* EnumPivotType in an enumeration, or else "none"
    failed,     \* Status is a failure
    refused,    \* dxgkrnl refused to take something back during this call
    misused,    \* something was given back that was not lent, or a mode set
                \* before its pinned mode, or the mode after its set
    cleanup     \* TempStatus: the exit of an enumeration had to release

callVars == <<paths, pivot>>
errorVars == <<refused, misused>>
vars == <<pc, ptr, held, callVars, failed, errorVars, cleanup>>

Kinds == {"path", "sourceSet", "sourceMode", "targetSet", "targetMode", "newMode"}
Pointers == Kinds \union {"lastPath"}
Kind(v) == IF v = "lastPath" THEN "path" ELSE v
Nothing(S) == [x \in S |-> 0]
Null == [v \in Pointers |-> FALSE]

Steps == {"Idle", "AcquireSource", "PinnedSource", "Source", "ReleaseSource",
          "CreateSource", "AddSource", "AddedSource", "AssignSource", "Target",
          "PinnedTarget", "ReleaseTarget", "CreateTarget", "AddTarget",
          "AddedTarget", "AssignTarget", "ReleaseMode", "ReleaseSet", "EndMode",
          "EndSet", "UpdateSupport", "NextPath", "ReleaseLast", "Exit",
          "CommitSource", "CommitPinned", "CommitFrame", "CommitPath", "CommitMode",
          "CommitRelease", "CommitExit", "MonitorFirst", "MonitorFirstAdd",
          "MonitorNext", "MonitorAdd"}

TypeOK ==
    /\ pc \in Steps
    /\ ptr \in [Pointers -> BOOLEAN]
    /\ held \in [Kinds -> 0..2] /\ \A k \in Kinds \ {"path"} : held[k] <= 1
    /\ paths \in 0..MaxPaths
    /\ pivot \in {"source", "target", "other", "none"}
    /\ failed \in BOOLEAN /\ refused \in BOOLEAN /\ misused \in BOOLEAN
    /\ cleanup \in BOOLEAN

Init ==
    /\ pc = "Idle" /\ ptr = Null /\ held = Nothing(Kinds)
    /\ paths = 0 /\ pivot = "none"
    /\ failed = FALSE /\ refused = FALSE /\ misused = FALSE /\ cleanup = FALSE

-----------------------------------------------------------------------------
(* The calls that lend and take back. *)

Goto(next) == pc' = next /\ UNCHANGED failed
FailTo(next) == pc' = next /\ failed' = TRUE

Lend(k) == held' = [held EXCEPT ![k] = @ + 1]
TakeBack(k) == held' = [held EXCEPT ![k] = @ - 1]

\* A mode comes after its set and goes before it.
InOrder(k) ==
    /\ k = "sourceMode" => held.sourceSet > 0
    /\ k = "targetMode" => held.targetSet > 0
    /\ k = "sourceSet" => held.sourceMode = 0
    /\ k = "targetSet" => held.targetMode = 0

Accepted(v) ==
    /\ held[Kind(v)] > 0 /\ InOrder(Kind(v))
    /\ TakeBack(Kind(v)) /\ UNCHANGED errorVars

\* After one refusal dxgkrnl may still hold a mode whose set is released.
Refused(v) ==
    /\ refused' = TRUE
    /\ misused' = (misused \/ held[Kind(v)] = 0 \/ ~(refused \/ InOrder(Kind(v))))
    /\ UNCHANGED held

\* Acquiring a mode set, or creating one.
Acquire(here, v, next, exit) ==
    /\ pc = here
    /\ \/ Lend(v) /\ ptr' = [ptr EXCEPT ![v] = TRUE] /\ Goto(next)
       \/ FailTo(exit) /\ UNCHANGED <<ptr, held>>
    /\ UNCHANGED <<callVars, errorVars, cleanup>>

\* pfnAcquirePinnedModeInfo succeeds with NULL when no mode is pinned.
AcquirePinned(here, v, next, exit) ==
    \/ Acquire(here, v, next, exit)
    \/ pc = here /\ Goto(next) /\ UNCHANGED <<ptr, held, callVars, errorVars, cleanup>>

\* A release inside the loop: the variable is cleared if it succeeded.
Release(here, v, next, exit) ==
    /\ pc = here
    /\ \/ Accepted(v) /\ ptr' = [ptr EXCEPT ![v] = FALSE] /\ Goto(next)
       \/ Refused(v) /\ FailTo(exit) /\ UNCHANGED ptr
    /\ UNCHANGED <<callVars, cleanup>>

\* Mutant of Assign: the handle is kept.
AssignKeepsHandle(here, v, next) ==
    /\ pc = here
    /\ \/ TakeBack(v) /\ UNCHANGED ptr /\ Goto(next)
       \/ FailTo("Exit") /\ UNCHANGED <<ptr, held>>
    /\ UNCHANGED <<callVars, errorVars, cleanup>>

\* pfnAssignSourceModeSet, pfnAssignTargetModeSet: equivalent to releasing.
Assign(here, v, next) ==
    /\ pc = here
    /\ \/ TakeBack(v) /\ ptr' = [ptr EXCEPT ![v] = FALSE] /\ Goto(next)
       \/ FailTo("Exit") /\ UNCHANGED <<ptr, held>>
    /\ UNCHANGED <<callVars, errorVars, cleanup>>

-----------------------------------------------------------------------------
(* AddSingleSourceMode and AddSingleTargetMode: one round per mode.        *)

\* pfnCreateNewModeInfo for the next mode, or none is left.
CreateMode(here, added, done, exit) ==
    \/ Acquire(here, "newMode", added, exit)
    \/ pc = here /\ Goto(done) /\ UNCHANGED <<ptr, held, callVars, errorVars, cleanup>>

\* When the release of a mode that was not added fails too, the mode is lost,
\* as the comments say.
LoseMode == held' = [held EXCEPT !.newMode = 0] /\ refused' = TRUE /\ UNCHANGED misused

\* A mode that was not added is released.
RejectMode ==
    \/ Accepted("newMode")
    \/ LoseMode

\* pfnAddMode makes the mode the set's.  A mode that is in the set already is
\* no error for either set; any other failure is one for the source set only.
AddMode(here, next, error) ==
    /\ pc = here
    /\ ptr' = [ptr EXCEPT !.newMode = FALSE]
    /\ \/ TakeBack("newMode") /\ Goto(next) /\ UNCHANGED errorVars
       \/ RejectMode /\ Goto(next)
       \/ RejectMode /\ error
    /\ UNCHANGED <<callVars, cleanup>>

AddSingleSourceMode ==
    \/ CreateMode("AddSource", "AddedSource", "AssignSource", "Exit")
    \/ AddMode("AddedSource", "AddSource", FailTo("Exit"))

AddSingleTargetMode ==
    \/ CreateMode("AddTarget", "AddedTarget", "AssignTarget", "Exit")
    \/ AddMode("AddedTarget", "AddTarget", Goto("AddTarget"))

-----------------------------------------------------------------------------
(* EnumVidPnCofuncModality. *)

\* The topology and its first path; failing here the function just returns.
StartEnum(n, p) ==
    /\ pc = "Idle"
    /\ paths' = n /\ pivot' = p
    /\ refused' = FALSE /\ cleanup' = FALSE
    /\ \/ /\ ptr' = [Null EXCEPT !.path = TRUE]
          /\ held' = [Nothing(Kinds) EXCEPT !.path = 1]
          /\ pc' = "AcquireSource" /\ failed' = FALSE
       \/ /\ ptr' = Null /\ held' = Nothing(Kinds)
          /\ pc' = "Idle" /\ failed' = TRUE
    /\ UNCHANGED misused

\* Steps that call nothing that lends.
Branch(here, next) ==
    /\ pc = here /\ Goto(next)
    /\ UNCHANGED <<ptr, held, callVars, errorVars, cleanup>>
MayFail(here, exit) ==
    /\ pc = here /\ FailTo(exit)
    /\ UNCHANGED <<ptr, held, callVars, errorVars, cleanup>>

\* A pivot of the source's kind may be this path's or another's.
SourceModes ==
    \/ Acquire("AcquireSource", "sourceSet", "PinnedSource", "Exit")
    \/ AcquirePinned("PinnedSource", "sourceMode", "Source", "Exit")
    \/ pivot = "source" /\ Branch("Source", "Target")
    \/ ptr.sourceMode /\ Branch("Source", "Target")
    \/ ~ptr.sourceMode /\ Branch("Source", "ReleaseSource")
    \/ Release("ReleaseSource", "sourceSet", "CreateSource", "Exit")
    \/ Acquire("CreateSource", "sourceSet", "AddSource", "Exit")
    \/ AddSingleSourceMode
    \/ Assign("AssignSource", "sourceSet", "Target")

TargetModes ==
    \/ pivot = "target" /\ Branch("Target", "EndMode")
    \/ Acquire("Target", "targetSet", "PinnedTarget", "Exit")
    \/ AcquirePinned("PinnedTarget", "targetMode", "ReleaseTarget", "Exit")
    \/ ptr.targetMode /\ Branch("ReleaseTarget", "ReleaseMode")
    \/ ~ptr.targetMode /\ Release("ReleaseTarget", "targetSet", "CreateTarget", "Exit")
    \/ Acquire("CreateTarget", "targetSet", "AddTarget", "Exit")
    \/ AddSingleTargetMode
    \/ Assign("AssignTarget", "targetSet", "EndMode")
    \/ Release("ReleaseMode", "targetMode", "ReleaseSet", "Exit")
    \/ Release("ReleaseSet", "targetSet", "EndMode", "Exit")

\* Mutant of EndSourceModes: a set that was neither filled nor assigned is kept.
EndPinnedMode ==
    \/ ptr.sourceMode /\ Release("EndMode", "sourceMode", "EndSet", "Exit")
    \/ ~ptr.sourceMode /\ Branch("EndMode", "EndSet")
    \/ Branch("EndSet", "UpdateSupport")

\* The pinned mode and the source set, if they are still there.
EndSourceModes ==
    \/ ptr.sourceMode /\ Release("EndMode", "sourceMode", "EndSet", "Exit")
    \/ ~ptr.sourceMode /\ Branch("EndMode", "EndSet")
    \/ ptr.sourceSet /\ Release("EndSet", "sourceSet", "UpdateSupport", "Exit")
    \/ ~ptr.sourceSet /\ Branch("EndSet", "UpdateSupport")

\* pfnUpdatePathSupportInfo, if a support field was changed.
UpdateSupport == Branch("UpdateSupport", "NextPath") \/ MayFail("UpdateSupport", "Exit")

\* pfnAcquireNextPathInfo: the next path, no more elements, or a failure.
NextPath ==
    /\ pc = "NextPath"
    /\ \/ /\ paths > 1 /\ paths' = paths - 1
          /\ Lend("path") /\ ptr' = [ptr EXCEPT !.lastPath = TRUE]
          /\ Goto("ReleaseLast")
       \/ /\ paths = 1 /\ paths' = 0
          /\ ptr' = [ptr EXCEPT !.lastPath = TRUE, !.path = FALSE]
          /\ Goto("ReleaseLast") /\ UNCHANGED held
       \/ /\ ptr' = [ptr EXCEPT !.lastPath = TRUE, !.path = ~FailureClears]
          /\ FailTo("Exit") /\ UNCHANGED <<paths, held>>
    /\ UNCHANGED <<pivot, errorVars, cleanup>>

\* Mutant of ReleaseLast: Status keeps the success of pfnAcquireNextPathInfo.
ReleaseLastIgnoresStatus ==
    /\ pc = "ReleaseLast"
    /\ \/ /\ Accepted("lastPath") /\ ptr' = [ptr EXCEPT !.lastPath = FALSE]
          /\ Goto(IF ptr.path THEN "AcquireSource" ELSE "Exit")
       \/ Refused("lastPath") /\ Goto("Exit") /\ UNCHANGED ptr
    /\ UNCHANGED <<callVars, cleanup>>

\* The last path is released, and the loop ends after the last one.
ReleaseLast ==
    Release("ReleaseLast", "lastPath", IF ptr.path THEN "AcquireSource" ELSE "Exit", "Exit")

\* Mutant of EnumExits: the path that was being left is not looked at.
EnumExitsForgetLast ==
    <<"sourceMode", "targetMode", "path", "sourceSet", "targetSet">>

\* The order in which the exits release what is still there.
EnumExits ==
    <<"sourceMode", "targetMode", "path", "lastPath", "sourceSet", "targetSet">>
CommitExits == <<"sourceMode", "sourceSet", "path">>

ExitWith(here, order) ==
    /\ pc = here
    /\ \E i \in DOMAIN order :
        /\ ptr[order[i]] /\ \A j \in 1..(i - 1) : ~ptr[order[j]]
        /\ Accepted(order[i]) \/ Refused(order[i])
        /\ ptr' = [ptr EXCEPT ![order[i]] = FALSE]
    /\ cleanup' = TRUE
    /\ UNCHANGED <<pc, callVars, failed>>

Return(here, order) ==
    /\ pc = here
    /\ \A i \in DOMAIN order : ~ptr[order[i]]
    /\ pc' = "Idle" /\ ptr' = Null
    /\ UNCHANGED <<held, callVars, failed, errorVars, cleanup>>

EnumVidPnCofuncModality ==
    \/ \E n \in 1..MaxPaths, p \in {"source", "target", "other"} : StartEnum(n, p)
    \/ SourceModes \/ TargetModes \/ EndSourceModes \/ UpdateSupport
    \/ NextPath \/ ReleaseLast
    \/ ExitWith("Exit", EnumExits) \/ Return("Exit", EnumExits)

-----------------------------------------------------------------------------
(* CommitVidPn. *)

\* PathPoweredOff, or the interfaces and the number of paths.  Without a path
\* there is no mode set to look at.
StartCommit(n) ==
    /\ pc = "Idle"
    /\ paths' = n /\ pivot' = "none"
    /\ ptr' = Null /\ held' = Nothing(Kinds)
    /\ refused' = FALSE /\ cleanup' = FALSE
    /\ \/ pc' = "CommitExit" /\ failed' \in BOOLEAN
       \/ pc' = (IF n = 0 THEN "CommitFrame" ELSE "CommitSource") /\ failed' = FALSE
    /\ UNCHANGED misused

\* ReleaseFrameBuffer, the checks of the mode, the number of paths.
CommitFrame ==
    \/ MayFail("CommitFrame", "CommitExit")
    \/ ~ptr.sourceMode /\ Branch("CommitFrame", "CommitExit")
    \/ ptr.sourceMode /\ Branch("CommitFrame", "CommitPath")

\* The checks of the path and SetSourceModeAndPath.
CommitMode ==
    \/ MayFail("CommitMode", "CommitExit")
    \/ /\ pc = "CommitMode" /\ Goto("CommitRelease")
       /\ paths' = paths - 1
       /\ UNCHANGED <<ptr, held, pivot, errorVars, cleanup>>

CommitVidPn ==
    \/ \E n \in 0..MaxPaths : StartCommit(n)
    \/ Acquire("CommitSource", "sourceSet", "CommitPinned", "CommitExit")
    \/ AcquirePinned("CommitPinned", "sourceMode", "CommitFrame", "CommitExit")
    \/ CommitFrame
    \/ paths = 0 /\ Branch("CommitPath", "CommitExit")
    \/ paths > 0 /\ Acquire("CommitPath", "path", "CommitMode", "CommitExit")
    \/ CommitMode
    \/ Release("CommitRelease", "path", "CommitPath", "CommitExit")
    \/ ExitWith("CommitExit", CommitExits) \/ Return("CommitExit", CommitExits)

-----------------------------------------------------------------------------
(* AddSingleMonitorMode, the whole of RecommendMonitorModes. *)

StartMonitor ==
    /\ pc = "Idle"
    /\ pc' = "MonitorFirst" /\ pivot' = "none"
    /\ held' = Nothing(Kinds)
    /\ failed' = FALSE /\ refused' = FALSE /\ cleanup' = FALSE
    /\ UNCHANGED <<ptr, paths, misused>>

\* The preferred mode: when it is not added the function returns.
AddPreferredMode ==
    /\ pc = "MonitorFirstAdd"
    /\ ptr' = [ptr EXCEPT !.newMode = FALSE]
    /\ \/ TakeBack("newMode") /\ Goto("MonitorNext") /\ UNCHANGED errorVars
       \/ RejectMode /\ pc' = "Idle" /\ failed' \in BOOLEAN
    /\ UNCHANGED <<callVars, cleanup>>

\* Every other mode: Status is the result of its release.
AddMonitorMode ==
    /\ pc = "MonitorAdd"
    /\ pc' = "MonitorNext"
    /\ ptr' = [ptr EXCEPT !.newMode = FALSE]
    /\ \/ TakeBack("newMode") /\ failed' = FALSE /\ UNCHANGED errorVars
       \/ Accepted("newMode") /\ failed' = FALSE
       \/ LoseMode /\ failed' = TRUE
    /\ UNCHANGED <<callVars, cleanup>>

RecommendMonitorModes ==
    \/ StartMonitor
    \/ Acquire("MonitorFirst", "newMode", "MonitorFirstAdd", "Idle")
    \/ AddPreferredMode
    \/ CreateMode("MonitorNext", "MonitorAdd", "Idle", "Idle")
    \/ AddMonitorMode

-----------------------------------------------------------------------------

Next == EnumVidPnCofuncModality \/ CommitVidPn \/ RecommendMonitorModes

Spec == Init /\ [][Next]_vars

-----------------------------------------------------------------------------
(* Correctness. *)

\* Whatever fails and wherever, a function that returns has given back all it
\* borrowed, unless dxgkrnl would not take it.
NothingKept == pc = "Idle" /\ ~refused => held = Nothing(Kinds)

\* Nothing is given back twice, although the exits try to give back all that
\* the local variables still name; and a pinned mode goes before its set.
NoMisuse == ~misused

\* QxlDod.cpp:1373, the assertion "TempStatus == STATUS_NOT_FOUND || Status !=
\* STATUS_SUCCESS": an enumeration that found something to release at its exit
\* has failed.
EarlyQuitFails == pc = "Idle" /\ pivot # "none" /\ cleanup => failed

=============================================================================
