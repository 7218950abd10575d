------------------------ MODULE VidPnHandles_proofs ------------------------
(***************************************************************************)
(* Proofs about VidPnHandles, for a topology of any number of paths.       *)
(*                                                                         *)
(* What dxgkrnl has lent is what the local variables name: exactly, until  *)
(* an exit, and from there on as long as nothing was refused.  Which       *)
(* variables hold something follows from where the driver is.              *)
(***************************************************************************)
EXTENDS VidPnHandles, TLAPS

-----------------------------------------------------------------------------
(* The inductive invariant. *)

Number(v) == IF ptr[v] THEN 1 ELSE 0

\* How many of a kind the local variables name.
Named(k) == IF k = "path" THEN Number("path") + Number("lastPath") ELSE Number(k)

Leaving == {"Idle", "Exit", "CommitExit"}

\* What is lent and what is named.
Accounts ==
    \A k \in Kinds :
        /\ Named(k) <= held[k]
        /\ pc \notin Leaving \/ ~refused => held[k] = Named(k)

\* Steps of the loop of an enumeration, by the sets of the path they work on.
SourceSteps == {"PinnedSource", "Source", "ReleaseSource", "AddSource",
                "AddedSource", "AssignSource"}
TargetSteps == {"PinnedTarget", "ReleaseTarget", "AddTarget", "AddedTarget",
                "AssignTarget", "ReleaseMode", "ReleaseSet"}
PathSteps == SourceSteps \union TargetSteps
                \union {"AcquireSource", "CreateSource", "Target", "CreateTarget",
                        "EndMode", "EndSet", "UpdateSupport", "NextPath"}
CommitSteps == {"CommitPinned", "CommitFrame", "CommitPath", "CommitMode",
                "CommitRelease", "CommitExit"}
BetweenSets == {"Target", "CreateTarget", "EndMode"} \union TargetSteps

\* Where each variable must name something, and where it may.
PathIsNamed ==
    /\ pc \in PathSteps \union {"CommitMode", "CommitRelease"} => ptr.path
    /\ ptr.path => pc \in PathSteps \union {"ReleaseLast", "Exit", "CommitMode",
                                             "CommitRelease", "CommitExit"}
    /\ pc = "ReleaseLast" => ptr.lastPath
    /\ ptr.lastPath => pc \in {"ReleaseLast", "Exit"}

SourceIsNamed ==
    /\ pc \in SourceSteps \union {"CommitPinned"} => ptr.sourceSet
    /\ ptr.sourceSet =>
           pc \in SourceSteps \union BetweenSets \union CommitSteps
                      \union {"EndSet", "Exit"}
    /\ ptr.sourceMode =>
           /\ ptr.sourceSet
           /\ pc \in BetweenSets \union CommitSteps \union {"Source", "Exit"}
           /\ pc # "CommitPinned"

TargetIsNamed ==
    /\ pc \in TargetSteps => ptr.targetSet
    /\ ptr.targetSet => pc \in TargetSteps \union {"Exit"}
    /\ pc = "ReleaseMode" => ptr.targetMode
    /\ ptr.targetMode =>
           ptr.targetSet /\ pc \in {"ReleaseTarget", "ReleaseMode", "Exit"}

NewModeIsNamed ==
    ptr.newMode <=> pc \in {"AddedSource", "AddedTarget", "MonitorFirstAdd", "MonitorAdd"}

\* An enumeration that has not failed has nothing to release at its exit.
CleanExit ==
    /\ pc = "Exit" /\ ~failed => ~cleanup /\ \A v \in Pointers : ~ptr[v]
    /\ pc \notin {"Exit", "CommitExit", "Idle"} => ~cleanup
    /\ pc \in CommitSteps \union {"CommitSource"} => pivot = "none"

\* The types of what is not lent.
ControlOK ==
    /\ pc \in Steps
    /\ paths \in 0..MaxPaths /\ (pc = "CommitMode" => paths > 0)
    /\ pivot \in {"source", "target", "other", "none"}
    /\ failed \in BOOLEAN /\ refused \in BOOLEAN /\ cleanup \in BOOLEAN

Books ==
    /\ ptr \in [Pointers -> BOOLEAN]
    /\ held \in [Kinds -> 0..2] /\ \A k \in Kinds \ {"path"} : held[k] <= 1
    /\ misused = FALSE
    /\ Accounts

Where == PathIsNamed /\ SourceIsNamed /\ TargetIsNamed /\ NewModeIsNamed

Inv == ControlOK /\ Books /\ Where /\ CleanExit /\ EarlyQuitFails

-----------------------------------------------------------------------------
(* The books balance, whatever is lent and given back. *)

\* A pinned mode goes before its set.
Timely(v) ==
    /\ v = "sourceSet" => ~ptr.sourceMode
    /\ v = "targetSet" => ~ptr.targetMode
    /\ v = "sourceMode" => ptr.sourceSet
    /\ v = "targetMode" => ptr.targetSet

Leave == pc \in Leaving => pc' \in Leaving

\* Nothing is lent and nothing given back.
LEMMA StillBooks ==
    ASSUME Books, UNCHANGED <<ptr, held, errorVars>>, Leave
    PROVE  Books'
BY DEF Books, Accounts, Named, Number, errorVars, Leave

\* A variable that names nothing gets what is lent.
LEMMA LendBooks ==
    ASSUME Books, pc \notin Leaving, UNCHANGED errorVars,
           NEW v \in Kinds, ~ptr[v], v = "path" => ~ptr.lastPath,
           Lend(v), ptr' = [ptr EXCEPT ![v] = TRUE]
    PROVE  Books'
<1>1. held[v] = 0 /\ v \in Pointers
  BY DEF Books, Accounts, Named, Number, Kinds, Pointers
<1>2. /\ ptr' \in [Pointers -> BOOLEAN] /\ ptr'[v]
      /\ \A w \in Pointers \ {v} : ptr'[w] = ptr[w]
  BY <1>1 DEF Books
<1>3. /\ held' \in [Kinds -> 0..2] /\ held'[v] = 1
      /\ \A k \in Kinds \ {v} : held'[k] = held[k]
  BY <1>1 DEF Books, Lend
<1>4. Accounts'
  <2> SUFFICES ASSUME NEW k \in Kinds PROVE held'[k] = Named(k)'
    BY <1>3 DEF Accounts, Named, Number
  <2>1. held[k] = Named(k)
    BY DEF Books, Accounts
  <2>2. CASE k = v
    BY <1>1, <1>2, <1>3, <2>2 DEF Named, Number, Pointers, Kinds
  <2>3. CASE k # v
    BY <1>1, <1>2, <1>3, <2>1, <2>3 DEF Named, Number, Pointers, Kinds
  <2> QED BY <2>2, <2>3
<1>5. \A k \in Kinds \ {"path"} : held'[k] <= 1
  BY <1>3 DEF Books
<1> QED BY <1>2, <1>3, <1>4, <1>5 DEF Books, errorVars

\* What a variable names has been lent, and may be given back.
LEMMA NamedIsLent ==
    ASSUME Books, NEW v \in Pointers, ptr[v], Timely(v)
    PROVE  /\ Kind(v) \in Kinds /\ held[Kind(v)] > 0
           /\ ~refused => InOrder(Kind(v))
<1>1. Kind(v) \in Kinds
  BY DEF Kind, Kinds, Pointers
<1>2. \A k \in Kinds : held[k] \in 0..2 /\ Named(k) <= held[k]
  BY DEF Books, Accounts
<1>3. held[Kind(v)] > 0
  BY <1>1, <1>2 DEF Kind, Named, Number, Pointers, Kinds
<1>4. ASSUME ~refused PROVE InOrder(Kind(v))
  <2>1. \A k \in Kinds : held[k] = Named(k)
    BY <1>4 DEF Books, Accounts
  <2>2. /\ held.sourceSet = Number("sourceSet") /\ held.sourceMode = Number("sourceMode")
        /\ held.targetSet = Number("targetSet") /\ held.targetMode = Number("targetMode")
    BY <2>1 DEF Named, Kinds
  <2> QED BY <2>2 DEF InOrder, Timely, Kind, Number, Pointers, Kinds
<1> QED BY <1>1, <1>3, <1>4

\* It is taken back.
LEMMA TakeBackBooks ==
    ASSUME Books, Leave, UNCHANGED errorVars,
           NEW v \in Pointers, ptr[v], Timely(v),
           TakeBack(Kind(v)), ptr' = [ptr EXCEPT ![v] = FALSE]
    PROVE  Books'
<1>1. Kind(v) \in Kinds /\ held[Kind(v)] > 0
  BY NamedIsLent
<1>2. /\ ptr' \in [Pointers -> BOOLEAN] /\ ~ptr'[v]
      /\ \A w \in Pointers \ {v} : ptr'[w] = ptr[w]
  BY DEF Books
<1>3. /\ held' \in [Kinds -> 0..2] /\ held'[Kind(v)] = held[Kind(v)] - 1
      /\ \A k \in Kinds \ {Kind(v)} : held'[k] = held[k]
      /\ \A k \in Kinds : held[k] \in 0..2
  BY <1>1 DEF Books, TakeBack
<1>4. \A k \in Kinds : held'[k] - Named(k)' = held[k] - Named(k)
  <2> SUFFICES ASSUME NEW k \in Kinds PROVE held'[k] - Named(k)' = held[k] - Named(k)
    OBVIOUS
  <2>1. CASE k = Kind(v)
    BY <1>1, <1>2, <1>3, <2>1 DEF Kind, Named, Number, Pointers, Kinds
  <2>2. CASE k # Kind(v)
    BY <1>1, <1>2, <1>3, <2>2 DEF Kind, Named, Number, Pointers, Kinds
  <2> QED BY <2>1, <2>2
<1>5. \A k \in Kinds : Named(k) \in 0..2 /\ Named(k)' \in 0..2
  BY DEF Named, Number
<1>6. Accounts'
  <2> SUFFICES ASSUME NEW k \in Kinds
               PROVE  /\ Named(k)' <= held'[k]
                      /\ pc' \notin Leaving \/ ~refused' => held'[k] = Named(k)'
    BY DEF Accounts
  <2>1. /\ Named(k) <= held[k]
        /\ pc \notin Leaving \/ ~refused => held[k] = Named(k)
    BY DEF Books, Accounts
  <2>2. held[k] \in 0..2 /\ held'[k] \in 0..2
    BY <1>3
  <2> QED BY <1>4, <1>5, <2>1, <2>2 DEF Leave, errorVars
<1>7. \A k \in Kinds \ {"path"} : held'[k] <= 1
  BY <1>1, <1>3 DEF Books
<1> QED BY <1>2, <1>3, <1>6, <1>7 DEF Books, errorVars

\* It is refused, and forgotten.
LEMMA RefusedBooks ==
    ASSUME Books, pc' \in Leaving,
           NEW v \in Pointers, ptr[v], Timely(v),
           Refused(v), ptr' = [ptr EXCEPT ![v] = FALSE] \/ ptr' = ptr
    PROVE  Books'
<1>1. /\ Kind(v) \in Kinds /\ held[Kind(v)] > 0
      /\ ~refused => InOrder(Kind(v))
  BY NamedIsLent
<1>2. misused' = FALSE
  <2>1. held[Kind(v)] \in 0..2
    BY <1>1 DEF Books
  <2>2. held[Kind(v)] # 0
    BY <1>1, <2>1
  <2> QED BY <1>1, <2>2, Zenon DEF Books, Refused
<1>3. /\ ptr' \in [Pointers -> BOOLEAN]
      /\ \A w \in Pointers : ptr'[w] => ptr[w]
  BY DEF Books
<1>4. \A k \in Kinds : Named(k)' <= Named(k)
  BY <1>3 DEF Named, Number, Kinds, Pointers
<1>5. \A k \in Kinds : Named(k) \in 0..2 /\ Named(k)' \in 0..2
  BY DEF Named, Number
<1>6. Accounts'
  <2> SUFFICES ASSUME NEW k \in Kinds PROVE Named(k)' <= held'[k]
    BY DEF Accounts, Refused
  <2>1. held'[k] = held[k] /\ held[k] \in 0..2 /\ Named(k) <= held[k]
    BY DEF Refused, Books, Accounts
  <2> QED BY <1>4, <1>5, <2>1
<1> QED BY <1>2, <1>3, <1>6 DEF Books, Refused

\* A mode that was not added may be lost.
LEMMA LoseBooks ==
    ASSUME Books, Leave, LoseMode, ptr' = [ptr EXCEPT !.newMode = FALSE]
    PROVE  Books'
<1>1. /\ ptr' \in [Pointers -> BOOLEAN] /\ ~ptr'.newMode
      /\ \A w \in Pointers \ {"newMode"} : ptr'[w] = ptr[w]
  BY DEF Books, Pointers, Kinds
<1>2. /\ held' \in [Kinds -> 0..2] /\ held'.newMode = 0
      /\ \A k \in Kinds \ {"newMode"} : held'[k] = held[k]
  BY DEF Books, LoseMode, Kinds
<1>3. Accounts'
  <2> SUFFICES ASSUME NEW k \in Kinds
               PROVE  /\ Named(k)' <= held'[k]
                      /\ pc' \notin Leaving => held'[k] = Named(k)'
    BY DEF Accounts, LoseMode
  <2>1. CASE k = "newMode"
    BY <1>1, <1>2, <2>1 DEF Named, Number
  <2>2. CASE k # "newMode"
    <3>1. Named(k)' = Named(k) /\ held'[k] = held[k]
      BY <1>1, <1>2, <2>2 DEF Named, Number, Kinds, Pointers
    <3> QED BY <3>1 DEF Books, Accounts, Leave
  <2> QED BY <2>1, <2>2
<1>4. \A k \in Kinds \ {"path"} : held'[k] <= 1
  BY <1>2 DEF Books
<1> QED BY <1>1, <1>2, <1>3, <1>4 DEF Books, LoseMode

\* A call starts with nothing lent.
LEMMA EmptyBooks ==
    ASSUME held' = Nothing(Kinds), ptr' = Null, misused' = FALSE
    PROVE  Books'
BY DEF Books, Accounts, Named, Number, Nothing, Null, Kinds, Pointers

-----------------------------------------------------------------------------
(* Where the driver is, and what its variables name there. *)

\* CommitVidPn between its start and its exit.
CommitBody ==
    \/ Acquire("CommitSource", "sourceSet", "CommitPinned", "CommitExit")
    \/ AcquirePinned("CommitPinned", "sourceMode", "CommitFrame", "CommitExit")
    \/ CommitFrame
    \/ paths = 0 /\ Branch("CommitPath", "CommitExit")
    \/ paths > 0 /\ Acquire("CommitPath", "path", "CommitMode", "CommitExit")
    \/ CommitMode
    \/ Release("CommitRelease", "path", "CommitPath", "CommitExit")

\* The types of what is not lent.
LEMMA ControlStep ==
    ASSUME Inv, FailureClears, Next
    PROVE  ControlOK'
<1> USE VidPnHandlesAssumption DEF Inv, ControlOK, Steps, Goto, FailTo,
       callVars, errorVars
<1>1. CASE \E n \in 1..MaxPaths, p \in {"source", "target", "other"} : StartEnum(n, p)
  <2>1. PICK n \in 1..MaxPaths, p \in {"source", "target", "other"} : StartEnum(n, p)
    BY <1>1
  <2>2. n \in 0..MaxPaths
    OBVIOUS
  <2> QED BY <2>1, <2>2 DEF StartEnum
<1>2. CASE SourceModes
  <2>1. pc' \in Steps \ {"CommitMode"} /\ failed' \in BOOLEAN
    BY <1>2 DEF SourceModes, AddSingleSourceMode, CreateMode, AddMode, Acquire,
         AcquirePinned, Branch, Release, Assign, MayFail
  <2>2. UNCHANGED <<paths, pivot, cleanup>>
    BY <1>2 DEF SourceModes, AddSingleSourceMode, CreateMode, AddMode, Acquire,
         AcquirePinned, Branch, Release, Assign, MayFail
  <2>3. refused' \in BOOLEAN
    BY <1>2 DEF SourceModes, AddSingleSourceMode, CreateMode, AddMode, Acquire,
         AcquirePinned, Branch, Release, Assign, MayFail,
         LoseMode, RejectMode, Accepted, Refused
  <2> QED BY <2>1, <2>2, <2>3
<1>3. CASE TargetModes
  <2>1. pc' \in Steps \ {"CommitMode"} /\ failed' \in BOOLEAN
    BY <1>3 DEF TargetModes, AddSingleTargetMode, CreateMode, AddMode, Acquire,
         AcquirePinned, Branch, Release, Assign, MayFail
  <2>2. UNCHANGED <<paths, pivot, cleanup>>
    BY <1>3 DEF TargetModes, AddSingleTargetMode, CreateMode, AddMode, Acquire,
         AcquirePinned, Branch, Release, Assign, MayFail
  <2>3. refused' \in BOOLEAN
    BY <1>3 DEF TargetModes, AddSingleTargetMode, CreateMode, AddMode, Acquire,
         AcquirePinned, Branch, Release, Assign, MayFail,
         LoseMode, RejectMode, Accepted, Refused
  <2> QED BY <2>1, <2>2, <2>3
<1>4. CASE EndSourceModes
  BY <1>4 DEF EndSourceModes, Accepted, Refused, Acquire, AcquirePinned, Branch, Release, Assign,
     MayFail
<1>5. CASE UpdateSupport
  BY <1>5 DEF UpdateSupport, Branch, MayFail
<1>6. CASE NextPath
  <2>1. paths' \in 0..MaxPaths
    BY <1>6 DEF NextPath
  <2>2. pc' \in Steps \ {"CommitMode"} /\ failed' \in BOOLEAN
    BY <1>6 DEF NextPath
  <2>3. UNCHANGED <<pivot, refused, cleanup>>
    BY <1>6 DEF NextPath, errorVars
  <2> QED BY <2>1, <2>2, <2>3
<1>7. CASE ReleaseLast
  BY <1>7 DEF ReleaseLast, Release, Accepted, Refused
<1>8. CASE ExitWith("Exit", EnumExits)
  BY <1>8 DEF ExitWith, EnumExits, Accepted, Refused
<1>9. CASE Return("Exit", EnumExits)
  BY <1>9 DEF Return, EnumExits, Null
<1>10. CASE \E n \in 0..MaxPaths : StartCommit(n)
  BY <1>10 DEF StartCommit, Null
<1>11. CASE CommitBody
  <2>1. CASE CommitMode
    <3>1. paths' \in 0..MaxPaths /\ (pc' = "CommitMode" => paths' > 0)
      BY <2>1 DEF CommitMode, MayFail, callVars
    <3> QED BY <2>1, <3>1 DEF CommitMode, MayFail, callVars, errorVars
  <2>2. UNCHANGED paths \/ CommitMode
    BY <1>11 DEF CommitBody, CommitFrame, Acquire, AcquirePinned, Branch, Release,
       MayFail, callVars
  <2>3. CASE ~CommitMode
    BY <1>11, <2>2, <2>3 DEF CommitBody, CommitFrame, Acquire, AcquirePinned,
       Branch, Release, MayFail, callVars, errorVars, Accepted, Refused
  <2> QED BY <2>1, <2>3
<1>12. CASE ExitWith("CommitExit", CommitExits)
  BY <1>12 DEF ExitWith, CommitExits, Accepted, Refused
<1>13. CASE Return("CommitExit", CommitExits)
  BY <1>13 DEF Return, CommitExits, Null
<1>14. CASE RecommendMonitorModes
  BY <1>14 DEF RecommendMonitorModes, LoseMode, RejectMode, Accepted, StartMonitor, AddPreferredMode,
     AddMonitorMode, CreateMode, Acquire, AcquirePinned, Branch, Release, Assign,
     MayFail
<1> QED BY <1>1, <1>2, <1>3, <1>4, <1>5, <1>6, <1>7, <1>8, <1>9, <1>10, <1>11,
   <1>12, <1>13, <1>14 DEF Next, EnumVidPnCofuncModality, CommitVidPn, CommitBody

\* Which variables name something.
LEMMA WhereStep ==
    ASSUME Inv, FailureClears, Next
    PROVE  Where'
<1> USE DEF Inv, Where, PathIsNamed, SourceIsNamed, TargetIsNamed, NewModeIsNamed,
       Books, PathSteps, SourceSteps, TargetSteps, BetweenSets, CommitSteps, Goto,
       FailTo, Kinds, Pointers
<1>1. CASE \E n \in 1..MaxPaths, p \in {"source", "target", "other"} : StartEnum(n, p)
  BY <1>1 DEF StartEnum, Null
<1>2. CASE SourceModes
  BY <1>2 DEF SourceModes, AddSingleSourceMode, CreateMode, AddMode, Acquire,
     AcquirePinned, Branch, Release, Assign, MayFail
<1>3. CASE TargetModes
  BY <1>3 DEF TargetModes, AddSingleTargetMode, CreateMode, AddMode, Acquire,
     AcquirePinned, Branch, Release, Assign, MayFail
<1>4. CASE EndSourceModes
  BY <1>4 DEF EndSourceModes, Acquire, AcquirePinned, Branch, Release, Assign, MayFail
<1>5. CASE UpdateSupport
  BY <1>5 DEF UpdateSupport, Branch, MayFail
<1>6. CASE NextPath
  BY <1>6 DEF NextPath
<1>7. CASE ReleaseLast
  BY <1>7 DEF ReleaseLast, Release
<1>8. CASE ExitWith("Exit", EnumExits)
  BY <1>8 DEF ExitWith, EnumExits
<1>9. CASE Return("Exit", EnumExits)
  BY <1>9 DEF Return, EnumExits, Null
<1>10. CASE \E n \in 0..MaxPaths : StartCommit(n)
  BY <1>10 DEF StartCommit, Null
<1>11. CASE CommitBody
  BY <1>11 DEF CommitBody, CommitFrame, CommitMode, Acquire, AcquirePinned, Branch,
     Release, Assign, MayFail
<1>12. CASE ExitWith("CommitExit", CommitExits)
  BY <1>12 DEF ExitWith, CommitExits
<1>13. CASE Return("CommitExit", CommitExits)
  BY <1>13 DEF Return, CommitExits, Null
<1>14. CASE RecommendMonitorModes
  BY <1>14 DEF RecommendMonitorModes, StartMonitor, AddPreferredMode,
     AddMonitorMode, CreateMode, Acquire, AcquirePinned, Branch, Release, Assign,
     MayFail
<1> QED BY <1>1, <1>2, <1>3, <1>4, <1>5, <1>6, <1>7, <1>8, <1>9, <1>10, <1>11,
   <1>12, <1>13, <1>14 DEF Next, EnumVidPnCofuncModality, CommitVidPn, CommitBody

\* An enumeration that finds something to release at its exit has failed.
LEMMA CleanStep ==
    ASSUME Inv, FailureClears, Next
    PROVE  CleanExit' /\ EarlyQuitFails'
<1> USE VidPnHandlesAssumption DEF Inv, Books, Where, CleanExit, EarlyQuitFails,
       PathIsNamed, PathSteps, SourceSteps, TargetSteps, SourceIsNamed, BetweenSets,
       CommitSteps, TargetIsNamed, NewModeIsNamed, Goto, FailTo, Kinds, Pointers
<1>1. CASE \E n \in 1..MaxPaths, p \in {"source", "target", "other"} : StartEnum(n, p)
  BY <1>1 DEF StartEnum, Null, callVars
<1>2. CASE SourceModes
  BY <1>2 DEF SourceModes, AddSingleSourceMode, CreateMode, AddMode, Acquire,
     AcquirePinned, Branch, Release, Assign, MayFail, callVars
<1>3. CASE TargetModes
  BY <1>3 DEF TargetModes, AddSingleTargetMode, CreateMode, AddMode, Acquire,
     AcquirePinned, Branch, Release, Assign, MayFail, callVars
<1>4. CASE EndSourceModes
  BY <1>4 DEF EndSourceModes, Acquire, AcquirePinned, Branch, Release, Assign,
     MayFail, callVars
<1>5. CASE UpdateSupport
  BY <1>5 DEF UpdateSupport, Branch, MayFail, callVars
<1>6. CASE NextPath
  BY <1>6 DEF NextPath, callVars
<1>7. CASE ReleaseLast
  BY <1>7 DEF ReleaseLast, Release, callVars
<1>8. CASE ExitWith("Exit", EnumExits)
  BY <1>8 DEF ExitWith, EnumExits, callVars
<1>9. CASE Return("Exit", EnumExits)
  BY <1>9 DEF Return, EnumExits, Null, callVars
<1>10. CASE \E n \in 0..MaxPaths : StartCommit(n)
  BY <1>10 DEF StartCommit, Null, callVars
<1>11. CASE CommitBody
  BY <1>11 DEF CommitBody, CommitFrame, CommitMode, Acquire, AcquirePinned, Branch,
     Release, Assign, MayFail, callVars
<1>12. CASE ExitWith("CommitExit", CommitExits)
  BY <1>12 DEF ExitWith, CommitExits, callVars
<1>13. CASE Return("CommitExit", CommitExits)
  BY <1>13 DEF Return, CommitExits, Null, callVars
<1>14. CASE RecommendMonitorModes
  BY <1>14 DEF RecommendMonitorModes, StartMonitor, AddPreferredMode,
     AddMonitorMode, CreateMode, Acquire, AcquirePinned, Branch, Release, Assign,
     MayFail, callVars
<1> QED BY <1>1, <1>2, <1>3, <1>4, <1>5, <1>6, <1>7, <1>8, <1>9, <1>10, <1>11,
   <1>12, <1>13, <1>14 DEF Next, EnumVidPnCofuncModality, CommitVidPn, CommitBody

\* What is acquired, or not.
LEMMA AcquireBooks ==
    ASSUME Books, NEW here, NEW v \in Kinds, NEW next, NEW exit, here \notin Leaving,
           pc = here => ~ptr[v] /\ (v = "path" => ~ptr.lastPath),
           Acquire(here, v, next, exit)
    PROVE  Books'
<1>1. pc \notin Leaving /\ Leave /\ UNCHANGED errorVars
  BY DEF Acquire, Leave
<1>2. CASE Lend(v) /\ ptr' = [ptr EXCEPT ![v] = TRUE]
  BY <1>1, <1>2, LendBooks DEF Acquire
<1>3. CASE UNCHANGED <<ptr, held>>
  BY <1>1, <1>3, StillBooks
<1> QED BY <1>2, <1>3 DEF Acquire

\* A release in the loop, and one that fails and leaves it.
LEMMA ReleaseBooks ==
    ASSUME Books, NEW here, NEW v \in Pointers, NEW next, NEW exit \in Leaving,
           here \notin Leaving, pc = here => ptr[v] /\ Timely(v),
           Release(here, v, next, exit)
    PROVE  Books'
<1>1. pc = here /\ ptr[v] /\ Timely(v) /\ Leave
  BY DEF Release, Leave
<1>2. CASE Accepted(v) /\ ptr' = [ptr EXCEPT ![v] = FALSE]
  BY <1>1, <1>2, TakeBackBooks DEF Accepted
<1>3. CASE Refused(v) /\ FailTo(exit) /\ UNCHANGED ptr
  BY <1>1, <1>3, RefusedBooks DEF FailTo
<1> QED BY <1>2, <1>3 DEF Release

\* A set that is assigned, or not.
LEMMA AssignBooks ==
    ASSUME Books, NEW here, NEW v \in Kinds, NEW next,
           here \notin Leaving, pc = here => ptr[v] /\ Timely(v), Assign(here, v, next)
    PROVE  Books'
<1>1. pc = here /\ ptr[v] /\ Timely(v) /\ Leave /\ UNCHANGED errorVars
  BY DEF Assign, Leave
<1>2. v \in Pointers /\ Kind(v) = v
  BY DEF Pointers, Kind, Kinds
<1>3. CASE TakeBack(v) /\ ptr' = [ptr EXCEPT ![v] = FALSE]
  BY <1>1, <1>2, <1>3, TakeBackBooks
<1>4. CASE UNCHANGED <<ptr, held>>
  BY <1>1, <1>4, StillBooks
<1> QED BY <1>3, <1>4 DEF Assign

\* A new mode is added, given back or lost.
LEMMA NewModeBooks ==
    ASSUME Books, Leave, ptr.newMode, ptr' = [ptr EXCEPT !.newMode = FALSE],
           (TakeBack("newMode") /\ UNCHANGED errorVars) \/ Accepted("newMode") \/ LoseMode
    PROVE  Books'
<1>1. "newMode" \in Pointers /\ Kind("newMode") = "newMode" /\ Timely("newMode")
  BY DEF Pointers, Kinds, Kind, Timely
<1>2. CASE TakeBack("newMode") /\ UNCHANGED errorVars
  BY <1>1, <1>2, TakeBackBooks
<1>3. CASE Accepted("newMode")
  BY <1>1, <1>3, TakeBackBooks DEF Accepted
<1>4. CASE LoseMode
  BY <1>4, LoseBooks
<1> QED BY <1>2, <1>3, <1>4

\* An exit gives back what is named, a mode before its set.
LEMMA ExitBooks ==
    ASSUME Books, NEW here \in Leaving, NEW order \in {EnumExits, CommitExits},
           ptr.sourceMode => ptr.sourceSet, ptr.targetMode => ptr.targetSet,
           order = CommitExits => ~ptr.targetSet,
           ExitWith(here, order)
    PROVE  Books'
<1>1. PICK i \in DOMAIN order :
          /\ ptr[order[i]] /\ \A j \in 1..(i - 1) : ~ptr[order[j]]
          /\ Accepted(order[i]) \/ Refused(order[i])
          /\ ptr' = [ptr EXCEPT ![order[i]] = FALSE]
  BY DEF ExitWith
<1>2. order[i] \in Pointers
  BY <1>1 DEF EnumExits, CommitExits, Pointers, Kinds
<1>3. order[i] = "sourceSet" => ~ptr.sourceMode
  <2>1. CASE order = EnumExits
    BY <1>1, <2>1 DEF EnumExits
  <2>2. CASE order = CommitExits
    BY <1>1, <2>2 DEF CommitExits
  <2> QED BY <2>1, <2>2
<1>4. order[i] = "targetSet" => ~ptr.targetMode
  <2>1. CASE order = EnumExits
    BY <1>1, <2>1 DEF EnumExits
  <2>2. CASE order = CommitExits
    BY <1>1, <2>2 DEF CommitExits
  <2> QED BY <2>1, <2>2
<1>5. Timely(order[i])
  BY <1>1, <1>3, <1>4 DEF Timely
<1>6. pc' = pc /\ pc \in Leaving /\ Leave
  BY DEF ExitWith, Leave
<1>7. CASE Accepted(order[i])
  BY <1>1, <1>2, <1>5, <1>6, <1>7, TakeBackBooks DEF Accepted
<1>8. CASE Refused(order[i])
  BY <1>1, <1>2, <1>5, <1>6, <1>8, RefusedBooks
<1> QED BY <1>1, <1>7, <1>8

-----------------------------------------------------------------------------
(* The books after each step. *)

\* The source set of a path.
LEMMA SourceModesBooks ==
    ASSUME Inv, SourceModes
    PROVE  Books'
<1> USE DEF Inv, Where, Leaving, Kinds, Pointers, Timely,
           PathIsNamed, SourceIsNamed, TargetIsNamed, NewModeIsNamed,
           PathSteps, SourceSteps, TargetSteps, BetweenSets, CommitSteps
<1>1. CASE Acquire("AcquireSource", "sourceSet", "PinnedSource", "Exit")
  BY <1>1, AcquireBooks
<1>2. CASE AcquirePinned("PinnedSource", "sourceMode", "Source", "Exit")
  BY <1>2, AcquireBooks, StillBooks DEF AcquirePinned, CreateMode, Goto, Leave
<1>3. CASE Branch("Source", "Target") \/ Branch("Source", "ReleaseSource")
  BY <1>3, StillBooks DEF CommitFrame, Branch, MayFail, Goto, FailTo, Leave
<1>4. CASE Release("ReleaseSource", "sourceSet", "CreateSource", "Exit") /\ ~ptr.sourceMode
  BY <1>4, ReleaseBooks
<1>5. CASE Acquire("CreateSource", "sourceSet", "AddSource", "Exit")
  BY <1>5, AcquireBooks
<1>6. CASE CreateMode("AddSource", "AddedSource", "AssignSource", "Exit")
  BY <1>6, AcquireBooks, StillBooks DEF AcquirePinned, CreateMode, Goto, Leave
<1>7. CASE AddMode("AddedSource", "AddSource", FailTo("Exit"))
  BY <1>7, NewModeBooks DEF AddMode, RejectMode, Goto, FailTo, Leave
<1>8. CASE Assign("AssignSource", "sourceSet", "Target")
  BY <1>8, AssignBooks
<1> QED BY <1>1, <1>2, <1>3, <1>4, <1>5, <1>6, <1>7, <1>8 DEF SourceModes,
   AddSingleSourceMode, Release

\* The target set of a path.
LEMMA TargetModesBooks ==
    ASSUME Inv, TargetModes
    PROVE  Books'
<1> USE DEF Inv, Where, Leaving, Kinds, Pointers, Timely,
           PathIsNamed, SourceIsNamed, TargetIsNamed, NewModeIsNamed,
           PathSteps, SourceSteps, TargetSteps, BetweenSets, CommitSteps
<1>1. CASE Branch("Target", "EndMode") \/ Branch("ReleaseTarget", "ReleaseMode")
  BY <1>1, StillBooks DEF Branch, MayFail, Goto, FailTo, Leave
<1>2. CASE Acquire("Target", "targetSet", "PinnedTarget", "Exit")
  BY <1>2, AcquireBooks
<1>3. CASE AcquirePinned("PinnedTarget", "targetMode", "ReleaseTarget", "Exit")
  BY <1>3, AcquireBooks, StillBooks DEF AcquirePinned, CreateMode, Goto, Leave
<1>4. CASE ~ptr.targetMode /\ Release("ReleaseTarget", "targetSet", "CreateTarget", "Exit")
  BY <1>4, ReleaseBooks
<1>5. CASE Acquire("CreateTarget", "targetSet", "AddTarget", "Exit")
  BY <1>5, AcquireBooks
<1>6. CASE CreateMode("AddTarget", "AddedTarget", "AssignTarget", "Exit")
  BY <1>6, AcquireBooks, StillBooks DEF AcquirePinned, CreateMode, Goto, Leave
<1>7. CASE AddMode("AddedTarget", "AddTarget", Goto("AddTarget"))
  BY <1>7, NewModeBooks DEF AddMode, RejectMode, Goto, FailTo, Leave
<1>8. CASE Assign("AssignTarget", "targetSet", "EndMode")
  BY <1>8, AssignBooks
<1>9. CASE Release("ReleaseMode", "targetMode", "ReleaseSet", "Exit")
  BY <1>9, ReleaseBooks
<1>10. CASE Release("ReleaseSet", "targetSet", "EndMode", "Exit")
  BY <1>10, ReleaseBooks
<1> QED BY <1>1, <1>2, <1>3, <1>4, <1>5, <1>6, <1>7, <1>8, <1>9, <1>10 DEF
   TargetModes, AddSingleTargetMode

\* What is left of the source set.
LEMMA EndSourceModesBooks ==
    ASSUME Inv, EndSourceModes
    PROVE  Books'
<1> USE DEF Inv, Where, Leaving, Kinds, Pointers, Timely,
           PathIsNamed, SourceIsNamed, TargetIsNamed, NewModeIsNamed,
           PathSteps, SourceSteps, TargetSteps, BetweenSets, CommitSteps
<1>1. CASE ptr.sourceMode /\ Release("EndMode", "sourceMode", "EndSet", "Exit")
  BY <1>1, ReleaseBooks
<1>2. CASE Branch("EndMode", "EndSet") \/ Branch("EndSet", "UpdateSupport")
  BY <1>2, StillBooks DEF Branch, MayFail, Goto, FailTo, Leave
<1>3. CASE ptr.sourceSet /\ Release("EndSet", "sourceSet", "UpdateSupport", "Exit")
  BY <1>3, ReleaseBooks
<1> QED BY <1>1, <1>2, <1>3 DEF EndSourceModes

\* A commit.
LEMMA CommitBooks ==
    ASSUME Inv, CommitBody
    PROVE  Books'
<1> USE DEF Inv, Where, Leaving, Kinds, Pointers, Timely,
           PathIsNamed, SourceIsNamed, TargetIsNamed, NewModeIsNamed,
           PathSteps, SourceSteps, TargetSteps, BetweenSets, CommitSteps
<1>1. CASE Acquire("CommitSource", "sourceSet", "CommitPinned", "CommitExit")
  BY <1>1, AcquireBooks
<1>2. CASE AcquirePinned("CommitPinned", "sourceMode", "CommitFrame", "CommitExit")
  BY <1>2, AcquireBooks, StillBooks DEF AcquirePinned, CreateMode, Goto, Leave
<1>3. CASE CommitFrame
  BY <1>3, StillBooks DEF CommitFrame, Branch, MayFail, Goto, FailTo, Leave
<1>4. CASE Branch("CommitPath", "CommitExit")
  BY <1>4, StillBooks DEF Branch, MayFail, Goto, FailTo, Leave
<1>5. CASE Acquire("CommitPath", "path", "CommitMode", "CommitExit")
  BY <1>5, AcquireBooks
<1>6. CASE CommitMode
  BY <1>6, StillBooks DEF CommitMode, MayFail, Goto, FailTo, Leave
<1>7. CASE Release("CommitRelease", "path", "CommitPath", "CommitExit")
  BY <1>7, ReleaseBooks
<1> QED BY <1>1, <1>2, <1>3, <1>4, <1>5, <1>6, <1>7 DEF CommitBody

\* The modes of the monitor.
LEMMA MonitorBooks ==
    ASSUME Inv, RecommendMonitorModes
    PROVE  Books'
<1> USE DEF Inv, Where, Leaving, Kinds, Pointers, Timely,
           PathIsNamed, SourceIsNamed, TargetIsNamed, NewModeIsNamed,
           PathSteps, SourceSteps, TargetSteps, BetweenSets, CommitSteps
<1>1. CASE StartMonitor
  <2>1. \A v \in Pointers : ~ptr[v]
    BY <1>1 DEF StartMonitor
  <2>2. ptr = Null
    BY <2>1 DEF Books, Null
  <2> QED BY <1>1, <2>2, EmptyBooks DEF StartMonitor, Books
<1>2. CASE Acquire("MonitorFirst", "newMode", "MonitorFirstAdd", "Idle")
  BY <1>2, AcquireBooks
<1>3. CASE AddPreferredMode
  BY <1>3, NewModeBooks DEF AddPreferredMode, RejectMode, Goto, Leave
<1>4. CASE CreateMode("MonitorNext", "MonitorAdd", "Idle", "Idle")
  BY <1>4, AcquireBooks, StillBooks DEF AcquirePinned, CreateMode, Goto, Leave
<1>5. CASE AddMonitorMode
  BY <1>5, NewModeBooks DEF AddMonitorMode, Leave
<1> QED BY <1>1, <1>2, <1>3, <1>4, <1>5 DEF RecommendMonitorModes

\* Every step of the driver and dxgkrnl.
LEMMA BooksStep ==
    ASSUME Inv, FailureClears, Next
    PROVE  Books'
<1> USE DEF Inv
<1>1. CASE \E n \in 1..MaxPaths, p \in {"source", "target", "other"} : StartEnum(n, p)
  <2>1. CASE ptr' = Null /\ held' = Nothing(Kinds) /\ misused' = misused
    BY <2>1, EmptyBooks DEF Books
  <2>2. CASE /\ ptr' = [Null EXCEPT !.path = TRUE] /\ misused' = misused
             /\ held' = [Nothing(Kinds) EXCEPT !.path = 1]
    <3>1. /\ ptr' \in [Pointers -> BOOLEAN] /\ ptr'.path
          /\ \A v \in Pointers \ {"path"} : ~ptr'[v]
      BY <2>2 DEF Null, Pointers, Kinds
    <3>2. /\ held' \in [Kinds -> 0..2] /\ held'.path = 1
          /\ \A k \in Kinds \ {"path"} : held'[k] = 0
      BY <2>2 DEF Nothing, Kinds
    <3>3. \A k \in Kinds : Named(k)' = held'[k]
      BY <3>1, <3>2 DEF Named, Number, Pointers, Kinds
    <3>4. \A k \in Kinds : Named(k)' <= held'[k]
      BY <3>2, <3>3
    <3>5. \A k \in Kinds \ {"path"} : held'[k] <= 1
      BY <3>2
    <3> QED BY <2>2, <3>1, <3>2, <3>3, <3>4, <3>5 DEF Books, Accounts
  <2> QED BY <1>1, <2>1, <2>2 DEF StartEnum
<1>2. CASE NextPath
  <2>1. ptr.path /\ ~ptr.lastPath /\ pc \notin Leaving /\ UNCHANGED errorVars
    BY <1>2 DEF NextPath, Where, PathIsNamed, PathSteps, Leaving
  <2>2. held.path = 1 /\ \A k \in Kinds : held[k] = Named(k)
    BY <2>1 DEF Books, Accounts, Named, Number, Kinds
  <2>3. /\ ptr' \in [Pointers -> BOOLEAN]
        /\ ptr'.lastPath /\ \A v \in Pointers \ {"path", "lastPath"} : ptr'[v] = ptr[v]
    BY <1>2 DEF NextPath, Books, Pointers, Kinds
  <2>4. /\ held' \in [Kinds -> 0..2] /\ \A k \in Kinds \ {"path"} : held'[k] = held[k]
    BY <1>2, <2>2 DEF NextPath, Lend, Books, Kinds
  <2>5. held'.path = Named("path")'
    <3>1. (held' = [held EXCEPT !.path = @ + 1] /\ ptr' = [ptr EXCEPT !.lastPath = TRUE])
          \/ (held' = held /\ ptr'.path = FALSE)
      BY <1>2 DEF NextPath, Lend, Books, Pointers, Kinds
    <3>2. CASE held' = [held EXCEPT !.path = @ + 1] /\ ptr' = [ptr EXCEPT !.lastPath = TRUE]
      <4>1. held'.path = 2
        BY <2>2, <3>2 DEF Books, Kinds
      <4>2. ptr'.path /\ ptr'.lastPath
        BY <2>1, <2>3, <3>2 DEF Books, Pointers, Kinds
      <4> QED BY <4>1, <4>2 DEF Named, Number
    <3>3. CASE held' = held /\ ptr'.path = FALSE
      BY <2>2, <2>3, <3>3 DEF Named, Number
    <3> QED BY <3>1, <3>2, <3>3
  <2>6. \A k \in Kinds \ {"path"} : Named(k)' = Named(k)
    BY <2>3 DEF Named, Number, Kinds, Pointers
  <2>7. \A k \in Kinds : held'[k] = Named(k)' /\ Named(k)' <= held'[k]
    BY <2>2, <2>4, <2>5, <2>6
  <2> QED BY <2>1, <2>3, <2>4, <2>7 DEF Books, Accounts, errorVars
<1>3. CASE ReleaseLast
  <2>1. "lastPath" \in Pointers /\ Timely("lastPath")
    BY DEF Pointers, Kinds, Timely
  <2> QED BY <1>3, <2>1, ReleaseBooks DEF ReleaseLast, Leaving, Where, PathIsNamed
<1>4. CASE ExitWith("Exit", EnumExits)
  <2>1. EnumExits # CommitExits
    BY DEF EnumExits, CommitExits
  <2> QED BY <1>4, <2>1, ExitBooks DEF Leaving, Where, SourceIsNamed, TargetIsNamed
<1>5. CASE ExitWith("CommitExit", CommitExits)
  <2>1. ~ptr.targetSet
    BY <1>5 DEF ExitWith, Where, TargetIsNamed, TargetSteps
  <2> QED BY <1>5, <2>1, ExitBooks DEF Leaving, Where, SourceIsNamed, TargetIsNamed
<1>6. CASE Return("Exit", EnumExits)
  <2>1. \A v \in Pointers : ~ptr[v]
    BY <1>6 DEF Return, EnumExits, Pointers, Kinds, Where, NewModeIsNamed
  <2>2. ptr' = ptr
    BY <1>6, <2>1 DEF Return, Null, Books
  <2> QED BY <1>6, <2>2, StillBooks DEF Return, Leave, Leaving
<1>7. CASE Return("CommitExit", CommitExits)
  <2>1. \A v \in Pointers : ~ptr[v]
    BY <1>7 DEF Return, CommitExits, Pointers, Kinds, Where, PathIsNamed,
       TargetIsNamed,
                NewModeIsNamed, TargetSteps
  <2>2. ptr' = ptr
    BY <1>7, <2>1 DEF Return, Null, Books
  <2> QED BY <1>7, <2>2, StillBooks DEF Return, Leave, Leaving
<1>8. CASE UpdateSupport
  BY <1>8, StillBooks DEF UpdateSupport, Branch, MayFail, Goto, FailTo, Leave, Leaving
<1>9. CASE \E n \in 0..MaxPaths : StartCommit(n)
  BY <1>9, EmptyBooks DEF StartCommit, Books
<1> QED BY <1>1, <1>2, <1>3, <1>4, <1>5, <1>6, <1>7, <1>8, <1>9, SourceModesBooks,
           TargetModesBooks, EndSourceModesBooks, CommitBooks, MonitorBooks
        DEF Next, EnumVidPnCofuncModality, CommitVidPn, CommitBody

-----------------------------------------------------------------------------
(* The theorems. *)

\* Nothing is borrowed before the first call.
LEMMA InitInv == Init => Inv
<1> SUFFICES ASSUME Init PROVE Inv
  OBVIOUS
<1>1. Books
  BY DEF Init, Books, Accounts, Named, Number, Null, Nothing, Kinds, Pointers
<1>2. ControlOK
  <2>1. 0 \in 0..MaxPaths
    BY VidPnHandlesAssumption
  <2> QED BY <2>1 DEF Init, ControlOK, Steps
<1>3. Where
  BY DEF Init, Where, PathIsNamed, SourceIsNamed, TargetIsNamed, NewModeIsNamed,
         PathSteps, SourceSteps, TargetSteps, Null, Pointers, Kinds
<1>4. CleanExit /\ EarlyQuitFails
  BY DEF Init, CleanExit, EarlyQuitFails, CommitSteps
<1> QED BY <1>1, <1>2, <1>3, <1>4 DEF Inv

\* A step that changes nothing changes no part of the invariant.
LEMMA StutterInv == Inv /\ UNCHANGED vars => Inv'
<1> SUFFICES ASSUME Inv, UNCHANGED vars PROVE Inv'
  OBVIOUS
<1>1. UNCHANGED <<pc, ptr, held, paths, pivot, failed, refused, misused, cleanup>>
  BY DEF vars, callVars, errorVars
<1>2. Books'
  BY <1>1, StillBooks DEF Inv, Leave, errorVars
<1>3. ControlOK' /\ CleanExit' /\ EarlyQuitFails'
  BY <1>1 DEF Inv, ControlOK, CleanExit, EarlyQuitFails
<1>4. Where'
  BY <1>1 DEF Inv, Where, PathIsNamed, SourceIsNamed, TargetIsNamed, NewModeIsNamed
<1> QED BY <1>2, <1>3, <1>4 DEF Inv

\* The invariant holds if a failed pfnAcquireNextPathInfo clears its result.
THEOREM Invariance == FailureClears => (Spec => []Inv)
<1>1. ASSUME FailureClears PROVE Inv /\ [Next]_vars => Inv'
  BY <1>1, BooksStep, ControlStep, WhereStep, CleanStep, StutterInv DEF Inv
<1>2. ASSUME FailureClears PROVE Spec => []Inv
  BY <1>1, <1>2, InitInv, PTL DEF Spec
<1>3. QED BY <1>2

\* The types.
THEOREM TypeCorrect == FailureClears => (Spec => []TypeOK)
<1>1. Inv => TypeOK
  BY DEF Inv, ControlOK, Books, TypeOK
<1>2. ASSUME FailureClears PROVE Spec => []TypeOK
  BY <1>1, <1>2, Invariance, PTL
<1>3. QED BY <1>2

\* EnumVidPnCofuncModality, CommitVidPn and AddSingleMonitorMode give back all
\* they borrowed, whichever call failed.
THEOREM EverythingIsGivenBack == FailureClears => (Spec => []NothingKept)
<1>1. Inv => NothingKept
  <2> SUFFICES ASSUME Inv, pc = "Idle", ~refused PROVE held = Nothing(Kinds)
    BY DEF NothingKept
  <2>1. \A v \in Pointers : ~ptr[v]
    BY DEF Inv, Where, PathIsNamed, SourceIsNamed, TargetIsNamed, NewModeIsNamed,
           PathSteps, SourceSteps, TargetSteps, BetweenSets, CommitSteps, Pointers, Kinds
  <2>2. \A k \in Kinds : held[k] = 0
    BY <2>1 DEF Inv, Books, Accounts, Named, Number, Pointers, Kinds
  <2> QED BY <2>2 DEF Inv, Books, Nothing
<1>2. ASSUME FailureClears PROVE Spec => []NothingKept
  BY <1>1, <1>2, Invariance, PTL
<1>3. QED BY <1>2

\* Nothing is given back twice or out of order.
THEOREM NothingIsMisused == FailureClears => (Spec => []NoMisuse)
<1>1. Inv => NoMisuse
  BY DEF Inv, Books, NoMisuse
<1>2. ASSUME FailureClears PROVE Spec => []NoMisuse
  BY <1>1, <1>2, Invariance, PTL
<1>3. QED BY <1>2

\* The assertion at the exit of EnumVidPnCofuncModality (QxlDod.cpp:1373).
THEOREM EarlyQuitsFail == FailureClears => (Spec => []EarlyQuitFails)
<1>1. Inv => EarlyQuitFails
  BY DEF Inv
<1>2. ASSUME FailureClears PROVE Spec => []EarlyQuitFails
  BY <1>1, <1>2, Invariance, PTL
<1>3. QED BY <1>2

=============================================================================
