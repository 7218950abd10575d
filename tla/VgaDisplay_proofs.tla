------------------------- MODULE VgaDisplay_proofs -------------------------
(***************************************************************************)
(* Proofs about VgaDisplay, for every set of modes and every address of    *)
(* the frame buffer.                                                       *)
(*                                                                         *)
(* BlackOutScreen writes only what lies outside the range it remembers as  *)
(* zeroed, from the start of the mapping on.  That this leaves a black     *)
(* screen rests on two facts kept by every step: a committed mode is       *)
(* mapped and, until a power-up reads DispInfo anew, it is what DispInfo   *)
(* describes; and for as long, a remembered range means that the whole     *)
(* screen is black.                                                        *)
(***************************************************************************)
EXTENDS VgaDisplay, FiniteSetTheorems, TLAPS

\* A bounded set of numbers has a greatest element: what lies above one of them
\* shrinks as it grows, and finite sets do not shrink for ever.
LEMMA LastOf ==
    ASSUME NEW n \in Nat, NEW K \in SUBSET (0..n), K # {}
    PROVE  \E k \in K : \A j \in K : j <= k
<1> DEFINE Above(x) == {y \in K : x <= y}
           Parts == {Above(x) : x \in K}
<1>1. IsFiniteSet(K)
    <2>1. 0 \in Int /\ n \in Int
        OBVIOUS
    <2>2. QED BY <2>1, FS_Interval, FS_Subset, Zenon
<1>2. Parts \subseteq FiniteSubsetsOf(K) /\ Parts # {}
    <2>1. \A x \in K : Above(x) \in SUBSET K /\ IsFiniteSet(Above(x))
        BY <1>1, FS_Subset
    <2>2. QED BY <2>1 DEF FiniteSubsetsOf
<1>3. PICK p \in Parts : \A q \in Parts : ~ (<<q, p>> \in StrictSubsetOrdering(K))
    BY <1>1, <1>2, FS_StrictSubsetOrderingWellFounded, WFMin
<1>4. PICK k \in K : p = Above(k)
    OBVIOUS
<1>5. ASSUME NEW j \in K, ~ (j <= k) PROVE FALSE
    <2>1. Above(j) \in Parts /\ Above(j) \in SUBSET K /\ p \in SUBSET K
        BY <1>4
    <2>2. k <= k /\ ~ (j <= k) /\ \A z \in K : j <= z => k <= z
        BY <1>5
    <2>3. Above(j) \subseteq p /\ k \in p /\ k \notin Above(j)
        BY <1>4, <2>2, Zenon
    <2>4. <<Above(j), p>> \in StrictSubsetOrdering(K)
        BY <2>1, <2>3 DEF StrictSubsetOrdering
    <2>5. QED BY <1>3, <2>1, <2>4
<1>6. QED BY <1>5

\* So a non-empty set of sizes has a first and a last one.
LEMMA FirstAndLast ==
    ASSUME NEW n \in Nat, NEW K \in SUBSET (1..n), K # {}
    PROVE  /\ \E k \in K : \A j \in K : k <= j
           /\ \E k \in K : \A j \in K : j <= k
<1>1. PICK M : M = {n - k : k \in K}
    OBVIOUS
<1>2. M \in SUBSET (0..n) /\ M # {}
    <2>1. \A k \in K : n - k \in 0..n
        OBVIOUS
    <2>2. QED BY <1>1, <2>1
<1>3. PICK m \in M : \A j \in M : j <= m
    BY <1>2, LastOf
<1>4. PICK k \in K : m = n - k
    BY <1>1
<1>5. ASSUME NEW j \in K PROVE k <= j
    <2>1. n - j <= n - k
        BY <1>1, <1>3, <1>4
    <2>2. QED BY <2>1
<1>6. K \in SUBSET (0..n)
    OBVIOUS
<1>7. QED BY <1>5, <1>6, LastOf

\* The modes have a smallest and a largest size.
LEMMA SizesHaveBounds ==
    /\ Base \in Nat /\ Base > 0
    /\ Smallest \in Sizes
    /\ Largest \in Sizes
    /\ \A s \in Sizes : s \in Nat /\ s >= 1 /\ s <= Largest
<1>1. Sizes \in SUBSET (1..100) /\ Sizes # {} /\ Base \in Nat
      /\ \A s \in Sizes : s < Base
    BY VgaDisplayAssumption
<1>2. /\ \E s \in Sizes : \A t \in Sizes : s <= t
      /\ \E s \in Sizes : \A t \in Sizes : t <= s
    BY <1>1, FirstAndLast
<1>3. Smallest \in Sizes
    BY <1>2 DEF Smallest
<1>4. Largest \in Sizes /\ \A s \in Sizes : s <= Largest
    BY <1>2 DEF Largest
<1>5. QED BY <1>1, <1>3, <1>4

\* The range that was zeroed may be empty.
LEMMA NothingZeroedType ==
    NothingZeroed \in [start : {0, Base}, end : 0..(Base + Largest)]
<1>1. 0 \in 0..(Base + Largest)
    BY SizesHaveBounds
<1>2. QED BY <1>1 DEF NothingZeroed

-----------------------------------------------------------------------------
(* The inductive invariant. *)

\* Dead code: m_AdapterPowerState is D0 from the constructor on.
AlwaysD0 == adapterPower = "D0"

CommittedIsStarted == committed => started

ZeroedIsBlack ==
    committed /\ ~reacquired /\ zeroed # NothingZeroed => lit \intersect Extent(info) = {}

Inv ==
    /\ TypeOK /\ AlwaysD0
    /\ CommittedIsStarted /\ CommittedIsMapped
    /\ ZeroedIsBlack /\ HiddenIsBlack

\* A black-out with a mapped mode leaves the screen black.
LEMMA BlackOutClears ==
    ASSUME Inv, BlackOutScreen(info), committed, ~reacquired
    PROVE  lit' \intersect Extent(info) = {}
<1>1. info = mapping /\ mapping # NoMapping /\ info.addr = Base /\ info.size \in Sizes
    BY DEF Inv, TypeOK, CommittedIsMapped
<1>2. lit' = lit \ Cleared(info) /\ lit \subseteq Memory
    BY <1>1 DEF BlackOutScreen, Inv, TypeOK
<1>3. CASE zeroed # NothingZeroed
    BY <1>2, <1>3 DEF Inv, ZeroedIsBlack
<1>4. CASE zeroed = NothingZeroed
    <2>1. Base \in Nat /\ Base > 0 /\ info.size \in Nat /\ info.size >= 1
        BY <1>1, SizesHaveBounds
    <2>2. zeroed.start = 0 /\ zeroed.end = 0
        BY <1>4 DEF NothingZeroed
    <2>3. ClearedAfter(info) = info.size
        BY <1>1, <2>1, <2>2 DEF ClearedAfter
    <2>4. \A a \in Memory : a \in Extent(info) => a \in Cleared(info)
        BY <1>1, <2>3 DEF Cleared, Extent
    <2>5. QED BY <1>2, <2>4
<1>5. QED BY <1>3, <1>4

\* A black-out keeps the types of what it changes.
LEMMA BlackOutKeepsTypes ==
    ASSUME Inv, started, BlackOutScreen(info)
    PROVE  /\ lit' \subseteq Memory
           /\ zeroed' \in [start : {0, Base}, end : 0..(Base + Largest)]
<1>1. info.addr \in {0, Base} /\ info.size \in Sizes
    BY DEF Inv, TypeOK
<1>2. info.addr + info.size \in 0..(Base + Largest)
    BY <1>1, SizesHaveBounds
<1>3. lit' \subseteq Memory
    BY DEF BlackOutScreen, Inv, TypeOK
<1>4. QED BY <1>1, <1>2, <1>3 DEF BlackOutScreen

-----------------------------------------------------------------------------
(* Every step keeps the invariant. *)

LEMMA InitInv == Init => Inv
<1> SUFFICES ASSUME Init PROVE Inv
    OBVIOUS
<1>1. TypeOK
    BY NothingZeroedType DEF Init, TypeOK, NoInfo
<1>2. QED
    BY <1>1 DEF Init, Inv, AlwaysD0, CommittedIsStarted, CommittedIsMapped,
                ZeroedIsBlack, HiddenIsBlack

LEMMA StartDeviceKeepsInv ==
    ASSUME Inv, StartDevice
    PROVE  Inv'
<1>1. PICK i \in PostInfo : info' = [i EXCEPT !.addr = Base]
    BY DEF StartDevice
<1>2. info' \in [addr : {Base}, size : Sizes]
    BY <1>1, SizesHaveBounds DEF PostInfo
<1>3. TypeOK'
    <2>1. started' => info'.size # 0
        BY <1>2, SizesHaveBounds
    <2>2. info' \in [addr : {0, Base}, size : {0} \union Sizes]
        BY <1>2
    <2>3. QED BY <2>1, <2>2, NothingZeroedType DEF StartDevice, Inv, TypeOK
<1>4. QED
    BY <1>3 DEF StartDevice, Inv, AlwaysD0, CommittedIsStarted, CommittedIsMapped,
                ZeroedIsBlack, HiddenIsBlack

LEMMA StopDeviceKeepsInv ==
    ASSUME Inv, StopDevice
    PROVE  Inv'
BY DEF StopDevice, powerVars, modeVars, Inv, TypeOK, AlwaysD0, CommittedIsStarted,
       CommittedIsMapped, ZeroedIsBlack, HiddenIsBlack

LEMMA RemoveAndAddDeviceKeepsInv ==
    ASSUME Inv, RemoveAndAddDevice
    PROVE  Inv'
<1>1. TypeOK'
    BY NothingZeroedType DEF RemoveAndAddDevice, Inv, TypeOK, NoInfo
<1>2. QED
    BY <1>1 DEF RemoveAndAddDevice, Inv, AlwaysD0, CommittedIsStarted,
                CommittedIsMapped, ZeroedIsBlack, HiddenIsBlack

\* The branch of QxlDod.cpp:306 is not taken: no black-out, no visibility.  What
\* DispInfo becomes is said to be new.
LEMMA SetPowerStateKeepsInv ==
    ASSUME Inv, NEW d \in {"D0", "D3"}, SetPowerState(d)
    PROVE  Inv'
<1>1. UNCHANGED <<started, mapping, zeroed, notVisible, lit, committed>>
      /\ adapterPower' = "D0" /\ hwPower' \in {"D0", "D3"} /\ started
    BY DEF SetPowerState, powerVars, Inv, TypeOK, AlwaysD0
<1>2. \/ info' \in PostInfo \union {info} /\ reacquired' = TRUE
      \/ UNCHANGED <<info, reacquired>>
    BY DEF SetPowerState, AcquireForPowerState
<1>3. info' \in [addr : {0, Base}, size : Sizes]
    <2>1. info \in [addr : {0, Base}, size : Sizes]
        BY <1>1 DEF Inv, TypeOK
    <2>2. \A i \in PostInfo : i \in [addr : {0, Base}, size : Sizes]
        BY SizesHaveBounds DEF PostInfo
    <2>3. QED BY <1>2, <2>1, <2>2
<1>4. info'.size # 0
    BY <1>3, SizesHaveBounds
<1>5. TypeOK'
    BY <1>1, <1>2, <1>3, <1>4 DEF Inv, TypeOK
<1>6. CASE reacquired' = TRUE
    BY <1>1, <1>5, <1>6 DEF Inv, AlwaysD0, CommittedIsStarted, CommittedIsMapped,
                            ZeroedIsBlack, HiddenIsBlack
<1>7. CASE UNCHANGED <<info, reacquired>>
    BY <1>1, <1>5, <1>7 DEF Inv, AlwaysD0, CommittedIsStarted, CommittedIsMapped,
                            ZeroedIsBlack, HiddenIsBlack, Extent
<1>8. QED BY <1>2, <1>6, <1>7

\* Hiding the source blacks out the screen.
LEMMA SetVidPnSourceVisibilityKeepsInv ==
    ASSUME Inv, NEW visible \in BOOLEAN, SetVidPnSourceVisibility(visible)
    PROVE  Inv'
<1>1. CASE visible
    BY <1>1 DEF SetVidPnSourceVisibility, powerVars, Inv, TypeOK, AlwaysD0,
                CommittedIsStarted, CommittedIsMapped, ZeroedIsBlack,
                HiddenIsBlack
<1>2. CASE ~visible
    <2>1. BlackOutScreen(info) /\ started /\ notVisible' = TRUE
          /\ UNCHANGED <<started, hwPower, adapterPower, info, mapping, committed,
                        reacquired>>
        BY <1>2 DEF SetVidPnSourceVisibility, powerVars
    <2>2. TypeOK'
        BY <2>1, BlackOutKeepsTypes DEF Inv, TypeOK
    <2>3. Extent(info)' = Extent(info)
        BY <2>1 DEF Extent
    <2>4. committed /\ ~reacquired => lit' \intersect Extent(info)' = {}
        BY <2>1, <2>3, BlackOutClears
    <2>5. QED
        BY <2>1, <2>2, <2>4 DEF Inv, AlwaysD0, CommittedIsStarted, CommittedIsMapped,
                                ZeroedIsBlack, HiddenIsBlack
<1>3. QED BY <1>1, <1>2

LEMMA CommitNoModeKeepsInv ==
    ASSUME Inv, CommitNoMode
    PROVE  Inv'
BY DEF CommitNoMode, powerVars, Inv, TypeOK, AlwaysD0, CommittedIsStarted,
       CommittedIsMapped, ZeroedIsBlack, HiddenIsBlack

\* A commit maps what it describes, and a mode set clears what it shows.
LEMMA CommitModeKeepsInv ==
    ASSUME Inv, NEW s \in Sizes, CommitMode(s)
    PROVE  Inv'
<1> DEFINE new == [info EXCEPT !.size = s]
<1>1. /\ started /\ started' /\ info' = new
      /\ \/ mapping' = NoMapping /\ committed' = FALSE /\ UNCHANGED lit
         \/ /\ new.addr # 0 /\ mapping' = new
            /\ \/ committed' = FALSE /\ UNCHANGED lit
               \/ committed' = TRUE /\ lit' = lit \ Extent(new)
      /\ UNCHANGED <<hwPower, adapterPower, zeroed, notVisible>>
      /\ reacquired' = FALSE
    BY DEF CommitMode, powerVars
<1>2. new \in [addr : {0, Base}, size : Sizes] /\ s # 0
    BY SizesHaveBounds DEF Inv, TypeOK
<1>3. TypeOK'
    BY <1>1, <1>2 DEF Inv, TypeOK
<1>4. committed' => lit' \intersect Extent(info)' = {}
    BY <1>1 DEF Extent
<1>5. committed' => mapping' # NoMapping
    BY <1>1, <1>2, VgaDisplayAssumption
<1>6. QED
    BY <1>1, <1>3, <1>4, <1>5 DEF Inv, AlwaysD0, CommittedIsStarted,
            CommittedIsMapped, ZeroedIsBlack, HiddenIsBlack

\* A present is only let through while the source is visible, and forgets the
\* range that was zeroed.
LEMMA PresentKeepsInv ==
    ASSUME Inv, Present
    PROVE  Inv'
<1>1. PICK drawn \in {Extent(info), Memory} :
          \E pixels \in SUBSET (Memory \intersect drawn) :
              lit' = (lit \ drawn) \union pixels
    BY DEF Present, Draw
<1>2. lit' \subseteq Memory
    BY <1>1 DEF Inv, TypeOK
<1>3. TypeOK'
    BY <1>2, NothingZeroedType DEF Present, powerVars, Inv, TypeOK
<1>4. QED
    BY <1>3 DEF Present, powerVars, Inv, AlwaysD0, CommittedIsStarted,
            CommittedIsMapped, ZeroedIsBlack, HiddenIsBlack

LEMMA ReleaseKeepsInv ==
    ASSUME Inv, StopDeviceAndReleasePostDisplayOwnership
    PROVE  Inv'
<1>1. TypeOK'
    BY BlackOutKeepsTypes DEF StopDeviceAndReleasePostDisplayOwnership, powerVars,
                              Inv, TypeOK
<1>2. QED
    BY <1>1 DEF StopDeviceAndReleasePostDisplayOwnership, powerVars, Inv, AlwaysD0,
            CommittedIsStarted, CommittedIsMapped, ZeroedIsBlack,
            HiddenIsBlack

LEMMA StutterKeepsInv ==
    ASSUME Inv, UNCHANGED vars
    PROVE  Inv'
BY DEF vars, powerVars, modeVars, Inv, TypeOK, AlwaysD0, CommittedIsStarted,
       CommittedIsMapped, ZeroedIsBlack, HiddenIsBlack, Extent

THEOREM Invariance == Spec => []Inv
<1>1. Init => Inv
    BY InitInv
<1>2. Inv /\ [Next]_vars => Inv'
    BY StartDeviceKeepsInv, StopDeviceKeepsInv, RemoveAndAddDeviceKeepsInv,
       SetPowerStateKeepsInv, SetVidPnSourceVisibilityKeepsInv, CommitNoModeKeepsInv,
       CommitModeKeepsInv, PresentKeepsInv, ReleaseKeepsInv, StutterKeepsInv
       DEF Next
<1>3. QED BY <1>1, <1>2, PTL DEF Spec

-----------------------------------------------------------------------------
(* What follows from it. *)

\* The state of the display keeps its types.
THEOREM TypeCorrect == Spec => []TypeOK
<1>1. Inv => TypeOK
    BY DEF Inv
<1>2. QED BY <1>1, Invariance, PTL

\* Whenever dxgkrnl may present, a frame buffer is mapped, and it is the one that
\* DispInfo describes until a power-up reads DispInfo anew.
THEOREM PresentsAreMapped == Spec => []CommittedIsMapped
<1>1. Inv => CommittedIsMapped
    BY DEF Inv
<1>2. QED BY <1>1, Invariance, PTL

\* A source that is not visible is black, if its mode was committed since
\* DispInfo was last read anew.
THEOREM HiddenSourceIsBlack == Spec => []HiddenIsBlack
<1>1. Inv => HiddenIsBlack
    BY DEF Inv
<1>2. QED BY <1>1, Invariance, PTL

\* The next driver is handed a black screen, on the same condition.
THEOREM HandsOverBlackScreen == Spec => ReleasesBlackScreen
<1>1. Inv /\ [Next]_vars =>
          [StopDeviceAndReleasePostDisplayOwnership /\ committed /\ ~reacquired
               => lit' \intersect Extent(info) = {}]_vars
    BY BlackOutClears DEF StopDeviceAndReleasePostDisplayOwnership
<1>2. QED BY <1>1, Invariance, PTL DEF Spec, ReleasesBlackScreen

\* The branch of SetPowerState for a return from D3 (QxlDod.cpp:306 to 310),
\* where the comment says that the visibility is off for all targets, is never
\* taken: m_AdapterPowerState is D0 whenever it is tested.
THEOREM ResumeBranchIsDead == Spec => [](adapterPower = "D0")
<1>1. Inv => adapterPower = "D0"
    BY DEF Inv, AlwaysD0
<1>2. QED BY <1>1, Invariance, PTL

=============================================================================
