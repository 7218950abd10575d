----------------------------- MODULE QxlDisplay -----------------------------
(***************************************************************************)
(* The display of the QXL device over the calls dxgkrnl makes, one at a    *)
(* time under its adapter lock, from start to removal: the memory slots in *)
(* the driver and in the device, what QxlInit tells the device after it    *)
(* has reset it, the table of modes with its two custom entries, and the   *)
(* primary surface a commit creates.                                       *)
(*                                                                         *)
(* A mode is told apart by its size, a number; modes of the ROM that are   *)
(* too small or not 32 bits deep are filtered out and do not appear.  Pool *)
(* memory is zeroed when it is allocated, as in the release build.         *)
(***************************************************************************)
EXTENDS Integers, Sequences

CONSTANTS
    RomModes,        \* the sizes of the suitable modes in the ROM, in order
    CustomSizes,     \* the sizes an escape call may ask for
    MinSize,         \* MIN_WIDTH_SIZE x MIN_HEIGHT_SIZE
    SurfaceArea,     \* the largest size that fits surface0_area_size
    NoMode,          \* no surface
    ResumeMayFail    \* pool allocations of QxlInit may fail on power-up too

Sizes == {RomModes[k] : k \in DOMAIN RomModes} \union CustomSizes \union {MinSize}

ASSUME QxlDisplayAssumption ==
    /\ RomModes \in Seq(Nat) /\ RomModes # <<>>
    /\ CustomSizes \subseteq Nat /\ MinSize \in Nat /\ SurfaceArea \in Nat
    /\ \A k \in DOMAIN RomModes : RomModes[k] <= SurfaceArea
    /\ NoMode \notin Sizes
    /\ ResumeMayFail \in BOOLEAN

VARIABLES
    hwDevice,     \* m_pHWDevice # NULL
    started,      \* m_Flags.DriverStarted
    power,        \* the power state dxgkrnl last asked for
    mapped,       \* m_IoBase, m_RamStart, m_VRamStart and m_RomHdr are not NULL
    slots,        \* m_MemSlots # NULL
    slotArrays,   \* how many arrays of memory slots are in the pool
    table,        \* m_ModeInfo, m_ModeCount entries of it
    customMode,   \* m_CustomMode
    currentMode,  \* m_CurrentMode
    dispInfo,     \* DispInfo.Width, Height
    host,         \* the device: its primary surface, memory slots, int_mask
    offered,      \* dxgkrnl: the modes it was given when it last enumerated
    asked         \* the sizes of the last two SetCustomDisplay calls since
                  \* GetModeList built the table, refused ones included

resourceVars == <<hwDevice, mapped, slots, slotArrays>>
tableVars == <<table, customMode, currentMode>>
modeVars == <<dispInfo, host>>
dxgkVars == <<started, power, offered, asked>>
vars == <<resourceVars, tableVars, modeVars, dxgkVars>>

HostReset == [primary |-> NoMode, slots |-> {}, intMask |-> "all"]

\* Where the table's indices may point: nowhere before there is a table.
Indices == 0..(Len(RomModes) + 2)

TypeOK ==
    /\ hwDevice \in BOOLEAN /\ started \in BOOLEAN
    /\ power \in {"D0", "D1", "D3"}
    /\ mapped \in BOOLEAN
    /\ slots \in BOOLEAN /\ slotArrays \in 0..2
    /\ table \in Seq(Sizes) /\ Len(table) \in {0, Len(RomModes) + 2}
    /\ customMode \in Indices /\ currentMode \in Indices
    /\ dispInfo \in Sizes \union {NoMode}
    /\ host \in [primary : Sizes \union {NoMode}, slots : SUBSET {1, 2},
                 intMask : {"all", "win"}]
    /\ offered \subseteq Sizes
    /\ asked \in Seq(CustomSizes) /\ Len(asked) <= 2

Init ==
    /\ hwDevice = FALSE /\ started = FALSE /\ power = "D0"
    /\ mapped = FALSE
    /\ slots = FALSE /\ slotArrays = 0
    /\ table = <<>> /\ customMode = 0 /\ currentMode = 0
    /\ dispInfo = NoMode
    /\ host = HostReset
    /\ offered = {} /\ asked = <<>>

-----------------------------------------------------------------------------
(* GetModeList. *)

\* The last mode of the smallest size, or the first mode of the ROM.
DefaultMode ==
    LET smallest == {k \in DOMAIN RomModes : RomModes[k] = MinSize}
    IN  IF smallest = {} THEN 1
        ELSE CHOOSE k \in smallest : \A j \in smallest : j <= k

\* Mutant of GetModeList: m_ModeCount leaves the custom entries out.
GetModeListOfRom ==
    /\ table' = RomModes
    /\ currentMode' = DefaultMode
    /\ customMode' = Len(RomModes) + 1
    /\ asked' = <<>>

\* The ROM's modes, and two copies of the default one for custom modes.
GetModeList ==
    /\ table' = RomModes \o <<RomModes[DefaultMode], RomModes[DefaultMode]>>
    /\ currentMode' = DefaultMode
    /\ customMode' = Len(RomModes) + 1
    /\ asked' = <<>>

\* The old table is deleted before the new one is allocated.  A ROM that is too
\* short for its modes is found before that, at the start: there is no table yet.
GetModeListFails ==
    /\ table' = <<>> /\ asked' = <<>>
    /\ UNCHANGED <<currentMode, customMode>>

-----------------------------------------------------------------------------
(* QxlInit: slots, modes, then the device, which starts from its reset.    *)

\* SetupHWSlot for the main slot and the surface slot.
CreateMemSlots(h) == [h EXCEPT !.slots = {1, 2}]
EnableInterrupts(h) == [h EXCEPT !.intMask = "win"]

\* Mutant of DeviceSetUp: the slots are registered before the reset.
DeviceSetUpSlotsFirst == EnableInterrupts(HostReset)

\* QXL_IO_RESET, int_mask, CreateMemSlots.
DeviceSetUp == CreateMemSlots(EnableInterrupts(HostReset))

\* InitMemSlots.
InitMemSlots == slots' = TRUE /\ slotArrays' = slotArrays + 1

\* Mutant of DestroyMemSlots: the array is not deleted.
ForgetMemSlots ==
    /\ slots' = FALSE
    /\ UNCHANGED slotArrays

DestroyMemSlots ==
    /\ slots' = FALSE
    /\ slotArrays' = IF slots THEN slotArrays - 1 ELSE slotArrays

\* AcquireDisplayInfo: the display dxgkrnl reports when this is the primary
\* device, else the default if no mode was ever set.
AcquiredInfo == Sizes \union IF dispInfo = NoMode THEN {} ELSE {dispInfo}

\* QxlInit returns success.
QxlInit ==
    /\ InitMemSlots
    /\ GetModeList
    /\ host' = DeviceSetUp
    /\ dispInfo' \in AcquiredInfo

\* QxlInit fails: no memory for the slots, no memory for the modes, or
\* AcquireDisplayInfo fails after everything else is done.
QxlInitFails ==
    \/ slots' = FALSE /\ UNCHANGED <<slotArrays, tableVars, modeVars, asked>>
    \/ InitMemSlots /\ GetModeListFails /\ UNCHANGED modeVars
    \/ InitMemSlots /\ GetModeList /\ host' = DeviceSetUp /\ UNCHANGED dispInfo

-----------------------------------------------------------------------------
(* StartDevice, StopDevice, RemoveDevice and AddDevice.                    *)

\* HWInit cannot map a range or finds a wrong magic: UnmapMemory forgets every
\* range, and dxgkrnl removes the device.
StartDeviceUnmapped ==
    /\ ~hwDevice
    /\ hwDevice' = TRUE
    /\ dispInfo' = NoMode
    /\ power' = "D0"
    /\ UNCHANGED <<mapped, slots, slotArrays, tableVars, host, started, offered,
                   asked>>

\* HWInit maps everything and QxlInit, or RegisterHWInfo after it, fails.
StartDeviceFails ==
    /\ ~hwDevice
    /\ hwDevice' = TRUE
    /\ mapped' = TRUE
    /\ QxlInit \/ QxlInitFails
    /\ power' = "D0"
    /\ UNCHANGED <<started, offered>>

StartDevice ==
    /\ ~hwDevice
    /\ hwDevice' = TRUE /\ started' = TRUE
    /\ mapped' = TRUE
    /\ QxlInit
    /\ power' = "D0"
    /\ UNCHANGED offered

\* StopDevice and StopDeviceAndReleasePostDisplayOwnership.
StopDevice ==
    /\ started
    /\ started' = FALSE
    /\ offered' = {}
    /\ UNCHANGED <<resourceVars, tableVars, modeVars, power, asked>>

\* ~QxlDod and ~QxlDevice: HWClose, and the mode table.
RemoveDevice ==
    /\ hwDevice /\ ~started
    /\ hwDevice' = FALSE
    /\ DestroyMemSlots
    /\ mapped' = FALSE
    /\ asked' = <<>>
    /\ table' = <<>> /\ customMode' = 0 /\ currentMode' = 0
    /\ dispInfo' = NoMode
    /\ UNCHANGED <<host, started, power, offered>>

-----------------------------------------------------------------------------
(* SetPowerState.  The result of QxlInit is not looked at. *)

PowerDown(d) ==
    /\ started
    /\ d \in {"D1", "D3"} \ {power}
    /\ power' = d
    /\ DestroyMemSlots
    /\ UNCHANGED <<hwDevice, mapped, tableVars, modeVars, started, offered, asked>>

PowerUp ==
    /\ started
    /\ power # "D0"
    /\ power' = "D0"
    /\ QxlInit \/ (ResumeMayFail /\ QxlInitFails)
    /\ UNCHANGED <<hwDevice, mapped, started, offered>>

-----------------------------------------------------------------------------
(* Escape: SetCustomDisplay. *)

\* Mutant of OtherCustomMode: there is one custom entry.
SameCustomMode == Len(table)

\* Mutant of OtherCustomMode: off by one, it takes the last mode of the ROM.
OtherOrRomMode ==
    IF customMode = Len(table) - 1 THEN Len(table) - 2 ELSE Len(table) - 1

\* The custom entry that is not in use: each call takes the other one.
OtherCustomMode == IF customMode = Len(table) THEN Len(table) - 1 ELSE Len(table)

\* The entry is chosen before the size is checked; UpdateChildStatus then asks
\* dxgkrnl to enumerate again.
SetCustomDisplay(s) ==
    /\ started
    /\ table # <<>>
    /\ asked' = IF Len(asked) < 2 THEN Append(asked, s) ELSE <<asked[2], s>>
    /\ customMode' = OtherCustomMode
    /\ table' = IF s > SurfaceArea THEN table
                ELSE [table EXCEPT ![OtherCustomMode] = s]
    /\ UNCHANGED <<resourceVars, currentMode, modeVars, started, power, offered>>

-----------------------------------------------------------------------------
(* EnumVidPnCofuncModality and CommitVidPn.                                *)

TableModes == {table[k] : k \in DOMAIN table}

\* AddSingleSourceMode offers every mode of the table.
EnumVidPnCofuncModality ==
    /\ started
    /\ offered' = TableModes
    /\ UNCHANGED <<resourceVars, tableVars, modeVars, started, power, asked>>

\* DestroyPrimarySurface, CreatePrimarySurface.
SetCurrentMode(k) == host' = [host EXCEPT !.primary = table[k]]

\* SetSourceModeAndPath looks for the first mode of this size; it succeeds
\* whether it finds one or not.
SetSourceModeAndPath(s) ==
    LET matches == {k \in DOMAIN table : table[k] = s}
        first == CHOOSE k \in matches : \A j \in matches : k <= j
    IN  /\ dispInfo' = s
        /\ IF matches = {} THEN UNCHANGED <<host, currentMode>>
           ELSE SetCurrentMode(first) /\ currentMode' = first

\* dxgkrnl commits modes it was offered when it last enumerated them.  A commit
\* with no mode pinned changes nothing: the QXL device has no frame buffer to
\* release.
CommitMode(s) ==
    /\ started
    /\ power = "D0"
    /\ s \in offered
    /\ SetSourceModeAndPath(s)
    /\ UNCHANGED <<resourceVars, table, customMode, started, power, offered, asked>>

-----------------------------------------------------------------------------

Next ==
    \/ StartDeviceUnmapped \/ StartDeviceFails \/ StartDevice \/ StopDevice \/ RemoveDevice
    \/ \E d \in {"D1", "D3"} : PowerDown(d)
    \/ PowerUp
    \/ \E s \in CustomSizes : SetCustomDisplay(s)
    \/ EnumVidPnCofuncModality
    \/ \E s \in Sizes : CommitMode(s)

Spec == Init /\ [][Next]_vars

-----------------------------------------------------------------------------
(* Correctness. *)

\* However a start fails and whatever the power states in between, the slot
\* array in the pool is the one m_MemSlots points to, and a removed device
\* leaves none.
NothingLeaks ==
    /\ slotArrays = IF slots THEN 1 ELSE 0
    /\ ~hwDevice => ~slots

\* Drawing converts addresses with m_MemSlots (PA) into what the device looks
\* up in its own slots: when dxgkrnl may draw, both exist and interrupts come.
ReadyToDraw ==
    started /\ power = "D0" =>
        mapped /\ slots /\ host.slots = {1, 2} /\ host.intMask = "win"

\* The modes an escape or a power-up may not displace: those of the ROM, and the
\* last two custom sizes that GetModeList has not forgotten.
KeptModes ==
    {RomModes[k] : k \in DOMAIN RomModes}
        \union {asked[k] : k \in {i \in DOMAIN asked : asked[i] <= SurfaceArea}}

\* SetSourceModeAndPath says success whether it finds the mode or not; for these
\* modes it does find it, and the device gets a primary surface of their size,
\* whatever custom sizes were asked for and however often the table was built
\* since dxgkrnl was offered the mode.
CommitsAreSet ==
    [][\A s \in KeptModes : CommitMode(s) => host'.primary = s]_vars

\* Why there are two custom entries: the last two sizes asked for are both in
\* the table, so that the mode in use survives the call that asks for the next
\* one.  A refused call counts: it takes an entry too.
LastTwoOffered ==
    \A k \in DOMAIN asked : asked[k] <= SurfaceArea => asked[k] \in TableModes

=============================================================================
