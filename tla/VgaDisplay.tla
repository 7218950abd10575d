----------------------------- MODULE VgaDisplay -----------------------------
(***************************************************************************)
(* The display of the fallback device: what QxlDod keeps of the current    *)
(* mode in m_CurrentModes[0], and what VgaDevice does to frame buffer      *)
(* memory, over the calls dxgkrnl makes from start to stop.  dxgkrnl makes *)
(* these calls one at a time, so each is one step here.                    *)
(*                                                                         *)
(* Frame buffer memory is a row of cells at physical addresses from Base   *)
(* on; a mode is told apart by how many cells it shows (DispInfo.Height *  *)
(* DispInfo.Pitch), and a cell by whether it is lit (not all zeroes).  A   *)
(* commit that is refused before it touches anything (PathPoweredOff, or a *)
(* dxgkrnl query that fails) changes nothing and has no action.            *)
(***************************************************************************)
EXTENDS Integers

CONSTANTS
    Base,        \* the physical address of the frame buffer
    Sizes,       \* the sizes of the modes
    NoMapping    \* FrameBuffer.Ptr = NULL

ASSUME VgaDisplayAssumption ==
    /\ Sizes # {} /\ Sizes \subseteq 1..100
    /\ Base \in Nat /\ \A s \in Sizes : s < Base
    /\ \A s \in Sizes : NoMapping # [addr |-> Base, size |-> s]

VARIABLES
    started,       \* m_Flags.DriverStarted
    hwPower,       \* the power state the BIOS was last told to set
    adapterPower,  \* m_AdapterPowerState
    info,          \* DispInfo: PhysicAddress, Height * Pitch
    mapping,       \* FrameBuffer.Ptr: what is mapped there
    zeroed,        \* ZeroedOutStart, ZeroedOutEnd
    notVisible,    \* SourceNotVisible
    lit,           \* the addresses whose memory is not zero
    committed,     \* dxgkrnl: the last commit pinned a mode and succeeded
    reacquired     \* history: DispInfo was read anew since the last commit

powerVars == <<hwPower, adapterPower>>
modeVars == <<info, mapping, zeroed, notVisible>>
vars == <<started, powerVars, modeVars, lit, committed, reacquired>>

Smallest == CHOOSE s \in Sizes : \A t \in Sizes : s <= t
Largest == CHOOSE s \in Sizes : \A t \in Sizes : t <= s

Extent(i) == i.addr .. (i.addr + i.size - 1)
Memory == Extent([addr |-> Base, size |-> Largest])

NoInfo == [addr |-> 0, size |-> 0]
NothingZeroed == [start |-> 0, end |-> 0]

TypeOK ==
    /\ started \in BOOLEAN
    /\ hwPower \in {"D0", "D3"} /\ adapterPower \in {"D0", "D3"}
    /\ info \in [addr : {0, Base}, size : {0} \union Sizes]
    /\ started => info.size # 0
    /\ mapping \in {NoMapping} \union [addr : {Base}, size : Sizes]
    /\ zeroed \in [start : {0, Base}, end : 0..(Base + Largest)]
    /\ notVisible \in BOOLEAN
    /\ lit \subseteq Memory
    /\ committed \in BOOLEAN /\ reacquired \in BOOLEAN

\* The constructor zeroes m_CurrentModes; the memory shows what was there.
Init ==
    /\ started = FALSE
    /\ hwPower = "D0" /\ adapterPower = "D0"
    /\ info = NoInfo
    /\ mapping = NoMapping
    /\ zeroed = NothingZeroed
    /\ notVisible = FALSE
    /\ lit \in SUBSET Memory
    /\ committed = FALSE /\ reacquired = FALSE

-----------------------------------------------------------------------------
(* HwDeviceInterface::AcquireDisplayInfo. *)

\* Mutant of PostInfo: no defaults for an absent display.
PostInfoWithoutDefaults ==
    [addr : {Base}, size : Sizes] \union {NoInfo}

\* What DxgkCbAcquirePostDisplayOwnership may leave in DispInfo, with the
\* defaults the driver fills in when it reports no width.
PostInfo ==
    [addr : {Base}, size : Sizes] \union {[addr |-> 0, size |-> Smallest]}

-----------------------------------------------------------------------------
(* StartDevice, StopDevice, RemoveDevice and AddDevice. *)

\* VgaDevice::HWInit takes the address from the PCI resources if need be.
StartDevice ==
    /\ ~started
    /\ started' = TRUE
    /\ \E i \in PostInfo : info' = [i EXCEPT !.addr = Base]
    /\ mapping' = NoMapping
    /\ zeroed' = NothingZeroed
    /\ notVisible' = FALSE
    /\ hwPower' = "D0"
    /\ committed' = FALSE /\ reacquired' = FALSE
    /\ UNCHANGED <<adapterPower, lit>>

StopDevice ==
    /\ started
    /\ started' = FALSE
    /\ committed' = FALSE
    /\ UNCHANGED <<powerVars, modeVars, lit, reacquired>>

\* ~QxlDod unmaps the frame buffer; AddDevice constructs a new QxlDod.
RemoveAndAddDevice ==
    /\ ~started
    /\ info' = NoInfo
    /\ mapping' = NoMapping
    /\ zeroed' = NothingZeroed
    /\ notVisible' = FALSE
    /\ adapterPower' = "D0"
    /\ UNCHANGED <<started, hwPower, lit, committed, reacquired>>

-----------------------------------------------------------------------------
(* VgaDevice::BlackOutScreen, for a screen that DispInfo i describes. *)

\* How many bytes it clears for the part of i before the zeroed range ...
ClearedBefore(i) ==
    CASE i.addr >= zeroed.start -> 0
      [] i.addr < zeroed.start /\ i.addr + i.size < zeroed.start -> i.size
      [] OTHER -> zeroed.start - i.addr

\* ... and for the part after it ...
ClearedAfter(i) ==
    CASE i.addr + i.size <= zeroed.end -> 0
      [] i.addr > zeroed.end -> i.size
      [] OTHER -> i.addr + i.size - zeroed.end

\* ... each of them from the start of the mapping on.
Cleared(i) ==
    {a \in Memory : \E n \in {ClearedBefore(i), ClearedAfter(i)} :
                        a \in mapping.addr .. (mapping.addr + n - 1)}

BlackOutScreen(i) ==
    /\ lit' = IF mapping = NoMapping THEN lit ELSE lit \ Cleared(i)
    /\ zeroed' = [start |-> i.addr, end |-> i.addr + i.size]

-----------------------------------------------------------------------------
(* SetPowerState of the adapter. *)

\* VgaDevice::SetPowerState for D0 reads DispInfo anew, whatever is mapped: the
\* display dxgkrnl then reports, or the default, or DispInfo as it was if
\* dxgkrnl reports an error.
AcquireForPowerState(d) ==
    IF d = "D0" THEN info' \in PostInfo \union {info} /\ reacquired' = TRUE
                ELSE UNCHANGED <<info, reacquired>>

\* The BIOS is called after that, and may fail.  m_AdapterPowerState is stored
\* for D0 only.  dxgkrnl asks for a state the adapter is not in.
SetPowerState(d) ==
    /\ started
    /\ d # hwPower
    /\ AcquireForPowerState(d)
    /\ \/ UNCHANGED <<powerVars, zeroed, notVisible, lit>>
       \/ /\ hwPower' = d
          /\ adapterPower' = IF d = "D0" THEN "D0" ELSE adapterPower
          /\ IF d = "D0" /\ adapterPower = "D3"
             THEN BlackOutScreen(info') /\ notVisible' = TRUE
             ELSE UNCHANGED <<zeroed, notVisible, lit>>
    /\ UNCHANGED <<started, mapping, committed>>

-----------------------------------------------------------------------------
(* SetVidPnSourceVisibility. *)

SetVidPnSourceVisibility(visible) ==
    /\ started
    /\ IF visible THEN UNCHANGED <<zeroed, lit>> ELSE BlackOutScreen(info)
    /\ notVisible' = ~visible
    /\ UNCHANGED <<started, powerVars, info, mapping, committed, reacquired>>

-----------------------------------------------------------------------------
(* CommitVidPn.  dxgkrnl sets modes, and presents, at D0. *)

\* No mode is pinned, or a field of the mode or of the path is refused: the
\* frame buffer has been released all the same.
CommitNoMode ==
    /\ started
    /\ mapping' = NoMapping
    /\ committed' = FALSE
    /\ UNCHANGED <<started, powerVars, info, zeroed, notVisible, lit, reacquired>>

\* Mutant of CommitMode: a frame buffer that is mapped already is kept.
CommitKeepsMapping(s) ==
    LET new == [info EXCEPT !.size = s] IN
    /\ started /\ hwPower = "D0"
    /\ new.addr # 0
    /\ info' = new
    /\ mapping' = IF mapping = NoMapping THEN new ELSE mapping
    /\ committed' = TRUE /\ reacquired' = FALSE
    /\ lit' = lit \ Extent(new)
    /\ UNCHANGED <<started, powerVars, zeroed, notVisible>>

\* SetSourceModeAndPath: DispInfo takes the new size, AcquireFrameBuffer maps
\* it, and the BIOS sets the mode, which clears the memory it shows.
CommitMode(s) ==
    LET new == [info EXCEPT !.size = s]
        mapFails == mapping' = NoMapping /\ committed' = FALSE /\ UNCHANGED lit
        biosFails == mapping' = new /\ committed' = FALSE /\ UNCHANGED lit
        succeeds == mapping' = new /\ committed' = TRUE /\ lit' = lit \ Extent(new)
    IN  /\ started /\ hwPower = "D0"
        /\ info' = new /\ reacquired' = FALSE
        /\ mapFails \/ (new.addr # 0 /\ (biosFails \/ succeeds))
        /\ UNCHANGED <<started, powerVars, zeroed, notVisible>>

-----------------------------------------------------------------------------
(* PresentDisplayOnly.  dxgkrnl presents on a source with a committed mode. *)

\* Rows are written from the start of the mapping on, at the pitch of DispInfo:
\* to the screen while DispInfo describes the mapping, and otherwise anywhere.
Draw ==
    LET drawn == IF info = mapping THEN Extent(info) ELSE Memory
    IN  \E pixels \in SUBSET (Memory \intersect drawn) :
            lit' = (lit \ drawn) \union pixels

\* Mutants of Present.
\* SourceNotVisible is not tested.
PresentWhileHidden ==
    /\ started /\ committed /\ hwPower = "D0"
    /\ zeroed' = NothingZeroed
    /\ Draw
    /\ UNCHANGED <<started, powerVars, info, mapping, notVisible, committed, reacquired>>

\* The zeroed range is not reset.
PresentKeepsZeroed ==
    /\ started /\ committed /\ hwPower = "D0"
    /\ ~notVisible
    /\ Draw
    /\ UNCHANGED <<started, powerVars, modeVars, committed, reacquired>>

Present ==
    /\ started /\ committed /\ hwPower = "D0"
    /\ ~notVisible
    /\ zeroed' = NothingZeroed
    /\ Draw
    /\ UNCHANGED <<started, powerVars, info, mapping, notVisible, committed, reacquired>>

-----------------------------------------------------------------------------

\* The next driver takes over the screen; the monitor is never seen off, for
\* m_MonitorPowerState is never assigned.
StopDeviceAndReleasePostDisplayOwnership ==
    /\ started
    /\ BlackOutScreen(info)
    /\ started' = FALSE
    /\ committed' = FALSE
    /\ UNCHANGED <<powerVars, info, mapping, notVisible, reacquired>>

Next ==
    \/ StartDevice \/ StopDevice \/ RemoveAndAddDevice
    \/ StopDeviceAndReleasePostDisplayOwnership
    \/ \E d \in {"D0", "D3"} : SetPowerState(d)
    \/ \E visible \in BOOLEAN : SetVidPnSourceVisibility(visible)
    \/ CommitNoMode
    \/ \E s \in Sizes : CommitMode(s)
    \/ Present

Spec == Init /\ [][Next]_vars

-----------------------------------------------------------------------------
(* Correctness. *)

\* PresentDisplayOnly does not test FrameBuffer.Ptr before it draws, and steps
\* through the frame buffer with DispInfo: whenever dxgkrnl may present, on the
\* mode it committed, a frame buffer is mapped, and, until DispInfo is read anew
\* at a power-up, it is the one that DispInfo describes.
CommittedIsMapped ==
    committed => mapping # NoMapping /\ (~reacquired => info = mapping)

\* SetVidPnSourceVisibility(FALSE) blacks out the screen, and whatever mode is
\* committed, it is black until the source is visible again: over mode sets,
\* and, once a mode is committed again, after a power-up.
HiddenIsBlack ==
    committed /\ ~reacquired /\ notVisible => lit \intersect Extent(info) = {}

\* The next driver finds a black screen, although BlackOutScreen skips what it
\* believes to be zero already, if a mode was committed since DispInfo was last
\* read anew.
ReleasesBlackScreen ==
    [][StopDeviceAndReleasePostDisplayOwnership /\ committed /\ ~reacquired
           => lit' \intersect Extent(info) = {}]_vars

=============================================================================
