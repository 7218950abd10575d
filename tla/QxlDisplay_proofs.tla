------------------------- MODULE QxlDisplay_proofs -------------------------
(***************************************************************************)
(* Proofs about QxlDisplay, for every ROM, every set of custom sizes and   *)
(* every surface area.                                                     *)
(***************************************************************************)
EXTENDS QxlDisplay, SequenceTheorems, FiniteSetTheorems, TLAPS

N == Len(RomModes)

\* What the assumptions say of the modes of the ROM.
LEMMA RomFacts ==
    /\ N \in Nat /\ N >= 1 /\ DOMAIN RomModes = 1..N
    /\ RomModes \in Seq(Sizes)
<1>1. RomModes \in Seq(Nat) /\ RomModes # <<>>
    BY QxlDisplayAssumption
<1>2. N \in Nat /\ N # 0 /\ DOMAIN RomModes = 1..N
    BY <1>1, EmptySeq DEF N
<1>3. \A k \in 1..N : RomModes[k] \in Sizes
    BY <1>2 DEF Sizes
<1>4. RomModes \in [1..N -> Sizes]
    BY <1>1, <1>2, <1>3
<1>5. RomModes \in Seq(Sizes)
    BY <1>2, <1>4
<1>6. QED BY <1>2, <1>5

\* A bounded set of numbers has a greatest element: what lies above one of them
\* shrinks as it grows, and finite sets do not shrink for ever.
LEMMA LastOf ==
    ASSUME NEW n \in Nat, NEW K \in SUBSET (0..n), K # {}
    PROVE  \E k \in K : \A j \in K : j <= k
<1> DEFINE Above(x) == {y \in K : x <= y}
           Parts == {Above(x) : x \in K}
<1>1. IsFiniteSet(K)
    <2>1. 0 \in Int /\ n \in Int
        OBVIOUS
    <2>2. QED BY <2>1, FS_Interval, FS_Subset, Zenon
<1>2. Parts \subseteq FiniteSubsetsOf(K) /\ Parts # {}
    <2>1. \A x \in K : Above(x) \in SUBSET K /\ IsFiniteSet(Above(x))
        BY <1>1, FS_Subset
    <2>2. QED BY <2>1 DEF FiniteSubsetsOf
<1>3. PICK p \in Parts : \A q \in Parts : ~ (<<q, p>> \in StrictSubsetOrdering(K))
    BY <1>1, <1>2, FS_StrictSubsetOrderingWellFounded, WFMin
<1>4. PICK k \in K : p = Above(k)
    OBVIOUS
<1>5. ASSUME NEW j \in K, ~ (j <= k) PROVE FALSE
    <2>1. Above(j) \in Parts /\ Above(j) \in SUBSET K /\ p \in SUBSET K
        BY <1>4
    <2>2. k <= k /\ ~ (j <= k) /\ \A z \in K : j <= z => k <= z
        BY <1>5
    <2>3. Above(j) \subseteq p /\ k \in p /\ k \notin Above(j)
        BY <1>4, <2>2, Zenon
    <2>4. <<Above(j), p>> \in StrictSubsetOrdering(K)
        BY <2>1, <2>3 DEF StrictSubsetOrdering
    <2>5. QED BY <1>3, <2>1, <2>4
<1>6. QED BY <1>5

\* A non-empty set of indices of a table has a first and a last element.
LEMMA FirstAndLast ==
    ASSUME NEW n \in Nat, NEW K \in SUBSET (1..n), K # {}
    PROVE  /\ \E k \in K : \A j \in K : k <= j
           /\ \E k \in K : \A j \in K : j <= k
<1>1. PICK M : M = {n - k : k \in K}
    OBVIOUS
<1>2. M \in SUBSET (0..n) /\ M # {}
    <2>1. \A k \in K : n - k \in 0..n
        OBVIOUS
    <2>2. QED BY <1>1, <2>1
<1>3. PICK m \in M : \A j \in M : j <= m
    BY <1>2, LastOf
<1>4. PICK k \in K : m = n - k
    BY <1>1
<1>5. ASSUME NEW j \in K PROVE k <= j
    <2>1. n - j <= n - k
        BY <1>1, <1>3, <1>4
    <2>2. QED BY <2>1
<1>6. K \in SUBSET (0..n)
    OBVIOUS
<1>7. QED BY <1>5, <1>6, LastOf

\* GetModeList falls back on a mode of the ROM.
LEMMA DefaultModeType == DefaultMode \in 1..N
<1> DEFINE smallest == {k \in DOMAIN RomModes : RomModes[k] = MinSize}
<1>1. CASE smallest = {}
    BY <1>1, RomFacts DEF DefaultMode
<1>2. CASE smallest # {}
    <2>1. \E k \in smallest : \A j \in smallest : j <= k
        BY <1>2, RomFacts, FirstAndLast
    <2>2. (CHOOSE k \in smallest : \A j \in smallest : j <= k) \in smallest
        BY <2>1
    <2>3. QED BY <1>2, <2>2, RomFacts DEF DefaultMode
<1>3. QED BY <1>1, <1>2

\* The table GetModeList builds.
LEMMA GetModeListBuilds ==
    ASSUME GetModeList
    PROVE  /\ table' \in Seq(Sizes) /\ Len(table') = N + 2
           /\ \A k \in 1..N : table'[k] = RomModes[k]
           /\ currentMode' \in 1..N
           /\ customMode' = N + 1
           /\ asked' = <<>>
<1>1. RomModes[DefaultMode] \in Sizes
    BY RomFacts, DefaultModeType
<1>2. <<RomModes[DefaultMode], RomModes[DefaultMode]>> \in Seq(Sizes)
    BY <1>1
<1>3. table' \in Seq(Sizes) /\ Len(table') = N + 2
    BY <1>2, RomFacts DEF GetModeList, N
<1>4. \A k \in 1..N : table'[k] = RomModes[k]
    BY <1>2, RomFacts DEF GetModeList, N
<1>5. QED BY <1>3, <1>4, DefaultModeType DEF GetModeList, N

\* The length of a sequence is a number.
LEMMA LenIsNat ==
    ASSUME NEW S, NEW q \in Seq(S), Len(q) <= 2
    PROVE  Len(q) \in 0..2
<1>1. Len(q) \in Nat
    BY LenProperties
<1>2. \A n \in Nat : n <= 2 => n \in 0..2
    OBVIOUS
<1>3. QED BY <1>1, <1>2, Zenon

-----------------------------------------------------------------------------
(* The inductive invariant: what is known of the table ... *)

TableTypeOK ==
    /\ table \in Seq(Sizes) /\ Len(table) \in {0, N + 2}
    /\ customMode \in Indices /\ currentMode \in Indices
    /\ asked \in Seq(CustomSizes) /\ Len(asked) <= 2

\* The entry in use holds the last size asked for, the other the one before.
CustomEntries ==
    /\ Len(table) # 0 => customMode \in {N + 1, N + 2}
    /\ Len(asked) # 0 =>
           /\ Len(table) # 0
           /\ asked[Len(asked)] <= SurfaceArea => table[customMode] = asked[Len(asked)]
    /\ Len(asked) = 2 /\ asked[1] <= SurfaceArea => table[OtherCustomMode] = asked[1]

\* A custom size never takes the place of a mode of the ROM.
RomKept == Len(table) # 0 => \A k \in 1..N : table[k] = RomModes[k]

TableInv == TableTypeOK /\ CustomEntries /\ RomKept

(* ... and of the device. *)

DeviceTypeOK ==
    /\ hwDevice \in BOOLEAN /\ started \in BOOLEAN
    /\ power \in {"D0", "D1", "D3"}
    /\ mapped \in BOOLEAN
    /\ slots \in BOOLEAN
    /\ dispInfo \in Sizes \union {NoMode}
    /\ host \in [primary : Sizes \union {NoMode}, slots : SUBSET {1, 2},
                 intMask : {"all", "win"}]
    /\ offered \subseteq Sizes

\* QxlInit finds no slots: a start has no device before it, and a power-up has
\* a power-down before it.
StartedIsMapped ==
    started => hwDevice /\ mapped /\ (power # "D0" => ~slots)

StartedHasModes == started => Len(table) # 0

DeviceInv ==
    /\ DeviceTypeOK /\ NothingLeaks /\ StartedIsMapped
    /\ ~ResumeMayFail => ReadyToDraw /\ StartedHasModes

Inv == TableInv /\ DeviceInv

-----------------------------------------------------------------------------
(* The table. *)

\* A new table, or none: nothing has been asked for since.
LEMMA NewTableInv ==
    ASSUME TableInv, QxlInit \/ QxlInitFails
    PROVE  TableInv'
<1>1. CASE GetModeList
    <2>1. TableTypeOK'
        BY <1>1, GetModeListBuilds, RomFacts, EmptySeq DEF TableTypeOK, Indices, N
    <2>2. CustomEntries'
        BY <1>1, GetModeListBuilds, RomFacts DEF CustomEntries
    <2>3. RomKept'
        BY <1>1, GetModeListBuilds, RomFacts DEF RomKept, N
    <2>4. QED BY <2>1, <2>2, <2>3 DEF TableInv
<1>2. CASE GetModeListFails
    BY <1>2, EmptySeq DEF GetModeListFails, TableInv, TableTypeOK, CustomEntries, RomKept,
            Indices, N
<1>3. CASE UNCHANGED <<tableVars, asked>>
    BY <1>3 DEF tableVars, TableInv, TableTypeOK, CustomEntries, RomKept,
                OtherCustomMode, Indices, N
<1>4. QED BY <1>1, <1>2, <1>3 DEF QxlInit, QxlInitFails

\* The other entry takes the size, if it fits; the entry in use stays.
LEMMA SetCustomDisplayKeepsTableInv ==
    ASSUME TableInv, NEW s \in CustomSizes, SetCustomDisplay(s)
    PROVE  TableInv'
<1>1. Len(table) = N + 2 /\ table \in Seq(Sizes) /\ N \in Nat
    BY EmptySeq, RomFacts DEF SetCustomDisplay, TableInv, TableTypeOK
<1>2. customMode \in {N + 1, N + 2}
    BY <1>1 DEF TableInv, CustomEntries
<1>3. /\ OtherCustomMode \in {N + 1, N + 2} /\ OtherCustomMode # customMode
      /\ OtherCustomMode \in 1..Len(table) /\ s \in Sizes
    BY <1>1, <1>2 DEF OtherCustomMode, Sizes
<1>4. /\ table' \in Seq(Sizes) /\ Len(table') = N + 2
      /\ table'[customMode] = table[customMode]
      /\ s <= SurfaceArea => table'[OtherCustomMode] = s
      /\ \A k \in 1..N : table'[k] = table[k]
    <2>1. CASE s > SurfaceArea
        BY <1>1, <2>1, QxlDisplayAssumption DEF SetCustomDisplay
    <2>2. CASE ~ (s > SurfaceArea)
        <3>1. table' = [table EXCEPT ![OtherCustomMode] = s]
            BY <2>2 DEF SetCustomDisplay
        <3>2. customMode \in 1..Len(table)
            BY <1>1, <1>2
        <3>3. \A k \in 1..N : k \in 1..Len(table) /\ k # OtherCustomMode
            BY <1>1, <1>3
        <3>4. QED BY <1>1, <1>3, <3>1, <3>2, <3>3, ExceptSeq
    <2>3. QED BY <2>1, <2>2
<1>5. customMode' = OtherCustomMode /\ OtherCustomMode' = customMode
    BY <1>1, <1>2, <1>3, <1>4 DEF SetCustomDisplay, OtherCustomMode
<1>6. /\ asked' \in Seq(CustomSizes) /\ Len(asked') \in 1..2
      /\ asked'[Len(asked')] = s
      /\ Len(asked') = 2 => Len(asked) # 0 /\ asked'[1] = asked[Len(asked)]
    <2>1. asked \in Seq(CustomSizes) /\ Len(asked) \in 0..2
        <3>1. asked \in Seq(CustomSizes) /\ Len(asked) <= 2
            BY DEF TableInv, TableTypeOK
        <3>2. Len(asked) \in 0..2
            BY <3>1, LenIsNat
        <3>3. QED BY <3>1, <3>2
    <2>2. CASE Len(asked) < 2
        BY <2>1, <2>2, AppendProperties DEF SetCustomDisplay
    <2>3. CASE ~ (Len(asked) < 2)
        <3>1. Len(asked) = 2 /\ asked[2] \in CustomSizes /\ asked' = <<asked[2], s>>
            BY <2>1, <2>3 DEF SetCustomDisplay
        <3>2. QED BY <3>1
    <2>4. QED BY <2>2, <2>3
<1>7. TableTypeOK'
    BY <1>1, <1>3, <1>4, <1>5, <1>6 DEF SetCustomDisplay, TableInv, TableTypeOK, Indices, N
<1>8. CustomEntries'
    BY <1>1, <1>2, <1>3, <1>4, <1>5, <1>6 DEF TableInv, CustomEntries
<1>9. RomKept'
    BY <1>1, <1>4 DEF TableInv, RomKept, N
<1>10. QED BY <1>7, <1>8, <1>9 DEF TableInv

\* The first mode of a size, if there is one.
LEMMA CommitLooksUp ==
    ASSUME TableInv, NEW s, SetSourceModeAndPath(s)
    PROVE  \/ s \notin TableModes /\ UNCHANGED <<host, currentMode>>
           \/ /\ s \in TableModes /\ s \in Sizes
              /\ currentMode' \in 1..Len(table)
              /\ host' = [host EXCEPT !.primary = s]
<1> DEFINE matches == {k \in DOMAIN table : table[k] = s}
           first == CHOOSE k \in matches : \A j \in matches : k <= j
<1>1. DOMAIN table = 1..Len(table) /\ Len(table) \in Nat
      /\ \A k \in 1..Len(table) : table[k] \in Sizes
    BY RomFacts DEF TableInv, TableTypeOK
<1>2. CASE matches = {}
    BY <1>2 DEF SetSourceModeAndPath, TableModes
<1>3. CASE matches # {}
    <2>1. \E k \in matches : \A j \in matches : k <= j
        BY <1>1, <1>3, FirstAndLast
    <2>2. first \in matches
        BY <2>1
    <2>3. currentMode' = first /\ host' = [host EXCEPT !.primary = table[first]]
        BY <1>3 DEF SetSourceModeAndPath, SetCurrentMode
    <2>4. table[first] = s /\ first \in 1..Len(table)
        BY <1>1, <2>2
    <2>5. QED BY <1>1, <2>3, <2>4 DEF TableModes
<1>4. QED BY <1>2, <1>3

-----------------------------------------------------------------------------
(* Every step keeps the invariant. *)

LEMMA InitInv == Init => Inv
<1> SUFFICES ASSUME Init PROVE Inv
    OBVIOUS
<1>1. TableInv
    BY RomFacts, EmptySeq DEF Init, TableInv, TableTypeOK, CustomEntries, RomKept,
            Indices, N
<1>2. DeviceInv
    BY DEF Init, HostReset, DeviceInv, DeviceTypeOK, NothingLeaks, StartedIsMapped,
           ReadyToDraw, StartedHasModes
<1>3. QED BY <1>1, <1>2 DEF Inv

\* What a step that leaves the table alone does to the table's invariant.
LEMMA SameTableInv ==
    ASSUME TableInv, UNCHANGED <<table, customMode, asked>>, currentMode' \in Indices
    PROVE  TableInv'
BY DEF TableInv, TableTypeOK, CustomEntries, RomKept, OtherCustomMode, Indices, N

\* QxlInit, whether it succeeds or not, starting without slots.
LEMMA QxlInitKeepsTypes ==
    ASSUME DeviceTypeOK, NothingLeaks, ~slots, QxlInit \/ QxlInitFails
    PROVE  /\ slots' \in BOOLEAN /\ slotArrays' = IF slots' THEN 1 ELSE 0
           /\ dispInfo' \in Sizes \union {NoMode}
           /\ host' \in [primary : Sizes \union {NoMode}, slots : SUBSET {1, 2},
                         intMask : {"all", "win"}]
           /\ QxlInit => slots' /\ host'.slots = {1, 2} /\ host'.intMask = "win"
<1>1. DeviceSetUp = [primary |-> NoMode, slots |-> {1, 2}, intMask |-> "win"]
    <2>1. EnableInterrupts(HostReset) = [primary |-> NoMode, slots |-> {}, intMask |-> "win"]
        BY DEF EnableInterrupts, HostReset
    <2>2. QED BY <2>1 DEF DeviceSetUp, CreateMemSlots
<1>2. slots' \in BOOLEAN /\ slotArrays' = IF slots' THEN 1 ELSE 0
    <2>1. slotArrays = 0
        BY DEF NothingLeaks
    <2>2. (slots' = FALSE /\ slotArrays' = slotArrays) \/ InitMemSlots
        BY DEF QxlInit, QxlInitFails
    <2>3. CASE slots' = FALSE /\ slotArrays' = slotArrays
        BY <2>1, <2>3
    <2>4. CASE InitMemSlots
        BY <2>1, <2>4 DEF InitMemSlots
    <2>5. QED BY <2>2, <2>3, <2>4
<1>3. dispInfo' \in Sizes \union {NoMode}
    BY DEF QxlInit, QxlInitFails, AcquiredInfo, modeVars, DeviceTypeOK
<1>4. host' = DeviceSetUp \/ host' = host
    BY DEF QxlInit, QxlInitFails, modeVars
<1>5. QxlInit => slots' /\ host' = DeviceSetUp
    BY DEF QxlInit, InitMemSlots
<1>6. QED BY <1>1, <1>2, <1>3, <1>4, <1>5 DEF DeviceTypeOK

\* QxlInit, when it succeeds, leaves a table.
LEMMA NewTableHasModes ==
    ASSUME QxlInit
    PROVE  Len(table') # 0
BY GetModeListBuilds, RomFacts DEF QxlInit

LEMMA StartKeepsInv ==
    ASSUME Inv, StartDeviceUnmapped \/ StartDeviceFails \/ StartDevice
    PROVE  Inv'
<1>1. /\ TableInv /\ DeviceTypeOK /\ NothingLeaks
      /\ ~hwDevice /\ ~slots /\ ~started
      /\ hwDevice' = TRUE /\ power' = "D0" /\ UNCHANGED offered
    BY DEF StartDeviceUnmapped, StartDeviceFails, StartDevice, Inv, DeviceInv,
           NothingLeaks, StartedIsMapped
<1>2. CASE StartDeviceUnmapped
    <2>1. TableInv'
        BY <1>1, <1>2, SameTableInv DEF StartDeviceUnmapped, tableVars, TableInv, TableTypeOK
    <2>2. DeviceInv'
        BY <1>1, <1>2 DEF StartDeviceUnmapped, DeviceInv, DeviceTypeOK, NothingLeaks,
                StartedIsMapped, ReadyToDraw, StartedHasModes
    <2>3. QED BY <2>1, <2>2 DEF Inv
<1>3. CASE StartDeviceFails
    <2>1. TableInv'
        BY <1>1, <1>3, NewTableInv DEF StartDeviceFails
    <2>2. DeviceInv'
        BY <1>1, <1>3, QxlInitKeepsTypes DEF StartDeviceFails, DeviceInv, DeviceTypeOK,
                NothingLeaks, StartedIsMapped, ReadyToDraw, StartedHasModes
    <2>3. QED BY <2>1, <2>2 DEF Inv
<1>4. CASE StartDevice
    <2>1. TableInv'
        BY <1>1, <1>4, NewTableInv DEF StartDevice
    <2>2. DeviceInv'
        BY <1>1, <1>4, QxlInitKeepsTypes, NewTableHasModes
           DEF StartDevice, DeviceInv, DeviceTypeOK, NothingLeaks, StartedIsMapped,
           ReadyToDraw, StartedHasModes
    <2>3. QED BY <2>1, <2>2 DEF Inv
<1>5. QED BY <1>2, <1>3, <1>4

LEMMA StopDeviceKeepsInv ==
    ASSUME Inv, StopDevice
    PROVE  Inv'
<1>1. TableInv'
    BY SameTableInv DEF StopDevice, tableVars, Inv, TableInv, TableTypeOK
<1>2. DeviceInv'
    BY DEF StopDevice, resourceVars, tableVars, modeVars, Inv, DeviceInv, DeviceTypeOK,
           NothingLeaks, StartedIsMapped, ReadyToDraw, StartedHasModes
<1>3. QED BY <1>1, <1>2 DEF Inv

\* DestroyMemSlots takes the array out of the pool.
LEMMA NoSlotsLeft ==
    ASSUME NothingLeaks, DestroyMemSlots
    PROVE  slots' = FALSE /\ slotArrays' = 0
<1>1. CASE slots
    <2>1. slotArrays = 1 /\ slotArrays' = slotArrays - 1
        BY <1>1 DEF NothingLeaks, DestroyMemSlots
    <2>2. QED BY <2>1 DEF DestroyMemSlots
<1>2. CASE ~slots
    BY <1>2 DEF NothingLeaks, DestroyMemSlots
<1>3. QED BY <1>1, <1>2

LEMMA RemoveDeviceKeepsInv ==
    ASSUME Inv, RemoveDevice
    PROVE  Inv'
<1>1. TableInv'
    BY RomFacts, EmptySeq DEF RemoveDevice, TableInv, TableTypeOK, CustomEntries, RomKept,
            Indices, N
<1>2. DeviceInv'
    BY NoSlotsLeft DEF RemoveDevice, Inv, DeviceInv, DeviceTypeOK, NothingLeaks,
           StartedIsMapped, ReadyToDraw, StartedHasModes
<1>3. QED BY <1>1, <1>2 DEF Inv

LEMMA PowerDownKeepsInv ==
    ASSUME Inv, NEW d \in {"D1", "D3"}, PowerDown(d)
    PROVE  Inv'
<1>1. TableInv'
    BY SameTableInv DEF PowerDown, tableVars, Inv, TableInv, TableTypeOK
<1>2. DeviceInv'
    BY NoSlotsLeft DEF PowerDown, tableVars, modeVars, Inv, DeviceInv, DeviceTypeOK,
           NothingLeaks, StartedIsMapped, ReadyToDraw, StartedHasModes
<1>3. QED BY <1>1, <1>2 DEF Inv

\* The power-down has destroyed the slots.
LEMMA PowerUpKeepsInv ==
    ASSUME Inv, PowerUp
    PROVE  Inv'
<1>1. /\ TableInv /\ DeviceTypeOK /\ NothingLeaks
      /\ ~slots /\ started /\ hwDevice /\ mapped
    BY DEF PowerUp, Inv, DeviceInv, StartedIsMapped
<1>2. TableInv'
    BY <1>1, NewTableInv DEF PowerUp
<1>3. DeviceInv'
    BY <1>1, QxlInitKeepsTypes, NewTableHasModes DEF PowerUp, DeviceInv, DeviceTypeOK,
            NothingLeaks, StartedIsMapped, ReadyToDraw, StartedHasModes
<1>4. QED BY <1>2, <1>3 DEF Inv

LEMMA SetCustomDisplayKeepsInv ==
    ASSUME Inv, NEW s \in CustomSizes, SetCustomDisplay(s)
    PROVE  Inv'
<1>1. TableInv'
    BY SetCustomDisplayKeepsTableInv DEF Inv
<1>2. Len(table') = Len(table)
    BY DEF SetCustomDisplay, Inv, TableInv, TableTypeOK
<1>3. DeviceInv'
    BY <1>2 DEF SetCustomDisplay, resourceVars, modeVars, Inv, DeviceInv, DeviceTypeOK,
           NothingLeaks, StartedIsMapped, ReadyToDraw, StartedHasModes
<1>4. QED BY <1>1, <1>3 DEF Inv

LEMMA EnumKeepsInv ==
    ASSUME Inv, EnumVidPnCofuncModality
    PROVE  Inv'
<1>1. TableInv'
    BY SameTableInv DEF EnumVidPnCofuncModality, tableVars, Inv, TableInv, TableTypeOK
<1>2. TableModes \subseteq Sizes
    BY DEF TableModes, Inv, TableInv, TableTypeOK
<1>3. DeviceInv'
    BY <1>2 DEF EnumVidPnCofuncModality, resourceVars, tableVars, modeVars, Inv, DeviceInv,
            DeviceTypeOK, NothingLeaks, StartedIsMapped, ReadyToDraw,
            StartedHasModes
<1>4. QED BY <1>1, <1>3 DEF Inv

\* A mode that is in the table becomes the primary surface.
LEMMA CommitModeKeepsInv ==
    ASSUME Inv, NEW s \in Sizes, CommitMode(s)
    PROVE  Inv'
<1>1. \/ s \notin TableModes /\ UNCHANGED <<host, currentMode>>
      \/ currentMode' \in 1..Len(table) /\ host' = [host EXCEPT !.primary = s]
    BY CommitLooksUp DEF CommitMode, Inv
<1>2. /\ started /\ power = "D0" /\ dispInfo' = s
      /\ UNCHANGED <<hwDevice, mapped, slots, slotArrays, table, customMode, started,
                     power, offered, asked>>
    BY DEF CommitMode, SetSourceModeAndPath, resourceVars
<1>3. currentMode' \in Indices
    <2>1. currentMode \in Indices /\ Len(table) \in {0, N + 2}
        BY DEF Inv, TableInv, TableTypeOK
    <2>2. 1..Len(table) \subseteq Indices
        BY <2>1, RomFacts DEF Indices, N
    <2>3. QED BY <1>1, <2>1, <2>2
<1>4. TableInv'
    BY <1>2, <1>3, SameTableInv DEF Inv
<1>5. DeviceInv'
    BY <1>1, <1>2 DEF Inv, DeviceInv, DeviceTypeOK, NothingLeaks, StartedIsMapped,
           ReadyToDraw, StartedHasModes
<1>6. QED BY <1>4, <1>5 DEF Inv

LEMMA StutterKeepsInv ==
    ASSUME Inv, UNCHANGED vars
    PROVE  Inv'
<1>1. TableInv'
    BY SameTableInv DEF vars, dxgkVars, tableVars, Inv, TableInv, TableTypeOK
<1>2. DeviceInv'
    BY DEF vars, dxgkVars, resourceVars, tableVars, modeVars, Inv, DeviceInv, DeviceTypeOK,
           NothingLeaks, StartedIsMapped, ReadyToDraw, StartedHasModes
<1>3. QED BY <1>1, <1>2 DEF Inv

THEOREM Invariance == Spec => []Inv
<1>1. Init => Inv
    BY InitInv
<1>2. Inv /\ [Next]_vars => Inv'
    BY StartKeepsInv, StopDeviceKeepsInv, RemoveDeviceKeepsInv, PowerDownKeepsInv,
       PowerUpKeepsInv, SetCustomDisplayKeepsInv, EnumKeepsInv,
       CommitModeKeepsInv, StutterKeepsInv
       DEF Next
<1>3. QED BY <1>1, <1>2, PTL DEF Spec

-----------------------------------------------------------------------------
(* What follows from it. *)

\* The state of the device and of the table keeps its types.
THEOREM TypeCorrect == Spec => []TypeOK
<1>1. Inv => TypeOK
    BY DEF Inv, TableInv, TableTypeOK, DeviceInv, DeviceTypeOK, NothingLeaks, TypeOK, N
<1>2. QED BY <1>1, Invariance, PTL

\* The pool holds the slots of the driver and no others.
THEOREM SlotsAreNotLeaked == Spec => []NothingLeaks
<1>1. Inv => NothingLeaks
    BY DEF Inv, DeviceInv
<1>2. QED BY <1>1, Invariance, PTL

\* If QxlInit does not fail at power-up, the device is ready whenever dxgkrnl
\* may draw.
THEOREM DeviceIsReady == ~ResumeMayFail => (Spec => []ReadyToDraw)
<1>1. ASSUME ~ResumeMayFail PROVE Inv => ReadyToDraw
    BY <1>1 DEF Inv, DeviceInv
<1>2. ASSUME ~ResumeMayFail PROVE Spec => []ReadyToDraw
    BY <1>1, <1>2, Invariance, PTL
<1>3. QED BY <1>2

\* The last two custom sizes that fit are in the table.
LEMMA AskedAreInTable ==
    ASSUME Inv, NEW k \in DOMAIN asked, asked[k] <= SurfaceArea
    PROVE  asked[k] \in TableModes
<1>1. asked \in Seq(CustomSizes) /\ Len(asked) \in 1..2 /\ k \in 1..Len(asked)
    <2>1. asked \in Seq(CustomSizes) /\ Len(asked) <= 2
        BY DEF Inv, TableInv, TableTypeOK
    <2>2. Len(asked) \in 0..2
        BY <2>1, LenIsNat
    <2>3. QED BY <2>1, <2>2
<1>2. /\ Len(table) = N + 2 /\ DOMAIN table = 1..Len(table) /\ N \in Nat
      /\ customMode \in {N + 1, N + 2}
    BY <1>1, RomFacts DEF Inv, TableInv, TableTypeOK, CustomEntries
<1>3. customMode \in DOMAIN table /\ OtherCustomMode \in DOMAIN table
    BY <1>2 DEF OtherCustomMode
<1>4. asked[k] = table[customMode] \/ asked[k] = table[OtherCustomMode]
    BY <1>1 DEF Inv, TableInv, CustomEntries
<1>5. QED BY <1>3, <1>4 DEF TableModes

\* The last two sizes asked for are still offered.
THEOREM LastTwoAreOffered == Spec => []LastTwoOffered
<1>1. Inv => LastTwoOffered
    BY AskedAreInTable DEF LastTwoOffered
<1>2. QED BY <1>1, Invariance, PTL

\* While there is a table, it holds the modes that are not to be displaced.
LEMMA KeptAreInTable ==
    ASSUME Inv, Len(table) # 0, NEW s \in KeptModes
    PROVE  s \in TableModes
<1>1. CASE s \in {RomModes[k] : k \in DOMAIN RomModes}
    <2>1. PICK k \in 1..N : s = RomModes[k]
        BY <1>1, RomFacts
    <2>2. table[k] = s /\ Len(table) = N + 2 /\ DOMAIN table = 1..Len(table) /\ N \in Nat
        BY <2>1, RomFacts DEF Inv, TableInv, TableTypeOK, RomKept
    <2>3. QED BY <2>2 DEF TableModes
<1>2. CASE s \in {asked[k] : k \in {i \in DOMAIN asked : asked[i] <= SurfaceArea}}
    BY <1>2, AskedAreInTable
<1>3. QED BY <1>1, <1>2 DEF KeptModes

\* If QxlInit does not fail at power-up, a commit of one of these modes creates
\* its primary surface.
THEOREM KeptModesAreSet == ~ResumeMayFail => (Spec => CommitsAreSet)
<1>1. ASSUME ~ResumeMayFail, Inv, NEW s \in KeptModes, CommitMode(s)
      PROVE  host'.primary = s
    <2>1. Len(table) # 0 /\ TableInv /\ SetSourceModeAndPath(s)
        BY <1>1 DEF CommitMode, Inv, DeviceInv, StartedHasModes
    <2>2. s \in TableModes
        BY <1>1, <2>1, KeptAreInTable
    <2>3. host' = [host EXCEPT !.primary = s]
        BY <2>1, <2>2, CommitLooksUp
    <2>4. host \in [primary : Sizes \union {NoMode}, slots : SUBSET {1, 2},
                    intMask : {"all", "win"}]
        BY <1>1 DEF Inv, DeviceInv, DeviceTypeOK
    <2>5. QED BY <2>3, <2>4
<1>2. ASSUME ~ResumeMayFail
      PROVE  Inv => [\A s \in KeptModes : CommitMode(s) => host'.primary = s]_vars
    BY <1>1, <1>2
<1>3. ASSUME ~ResumeMayFail PROVE Spec => CommitsAreSet
    BY <1>2, <1>3, Invariance, PTL DEF CommitsAreSet
<1>4. QED BY <1>3

=============================================================================
