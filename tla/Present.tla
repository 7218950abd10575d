------------------------------ MODULE Present ------------------------------
(***************************************************************************)
(* From the bitmap of the desktop to the screen: what PresentDisplayOnly,  *)
(* ExecutePresentDisplayOnly of either device, SetPointerShape and         *)
(* SystemDisplayWrite do to the pixels, and what they take and give back   *)
(* on the way.                                                             *)
(*                                                                         *)
(* A pixel is told apart by its name.  dxgkrnl changes the desktop, then   *)
(* presents it: what has moved, as moves, and what is new, as dirty        *)
(* rectangles; pixels that were on the screen before are named afresh.     *)
(* When a present has failed, or the path has changed, dxgkrnl presents    *)
(* the whole desktop.  Addresses count pixels of 32 bits.  The screen is   *)
(* visible: presents that change nothing are in VgaDisplay.                *)
(***************************************************************************)
EXTENDS PixelCopy, ImageChunks, FiniteSets

CONSTANTS
    Width, Height,   \* SrcModeWidth, SrcModeHeight, also those of DispInfo
    VgaPads,         \* by how many pixels the rows of the desktop's bitmap
    QxlPads,         \*   are padded, for either device
    BitsBufMax,      \* BITS_BUF_MAX, in pixels
    CursorRoom,      \* the room for data in CURSOR_ALLOC_SIZE
    CursorSizes,     \* the widths and heights of pointers
    MaxFailures      \* bound on the presents that fail

ASSUME PresentAssumption ==
    /\ Width \in Nat \ {0} /\ Height \in Nat \ {0}
    /\ VgaPads \subseteq Nat /\ QxlPads \subseteq Nat
    /\ BitsBufMax \in Nat \ {0} /\ CursorRoom \in Nat
    /\ CursorSizes \subseteq Nat \ {0} /\ MaxFailures \in Nat

VARIABLES
    device,     \* m_pHWDevice: the fallback device or the QXL device
    rotation,   \* m_CurrentModes[0].Rotation
    pc,         \* how far ExecutePresentDisplayOnly is
    frame,      \* its arguments, or what SetPointerShape and SystemDisplayWrite did
    todo,       \* the moves and the dirty rectangles it has still to do
    contexts,   \* how many DoPresentMemory blocks are allocated
    mdl,        \* an MDL for the source is allocated
    locked,     \* its pages are locked
    mapped,     \* how much of the source is mapped
    screen,     \* the frame buffer, or the primary surface
    upToDate,   \* dxgkrnl need not present the whole desktop
    failures    \* how many presents have failed with a context allocated

memoryVars == <<contexts, mdl, locked, mapped, failures>>
vars == <<device, rotation, pc, frame, todo, memoryVars, screen, upToDate>>

None == [is |-> "none"]
FrameBuffer == 0..(Width * Height - 1)

\* The size of a bitmap that is turned into the frame buffer.
WidthOf(r) == IF Sideways(r) THEN Height ELSE Width
HeightOf(r) == IF Sideways(r) THEN Width ELSE Height

\* Where pixel x, y of such a bitmap belongs.
PlaceOf(r, x, y) ==
    LET p == Turned([x |-> x, y |-> y], WidthOf(r), HeightOf(r), Turns(r))
    IN  p.y * Width + p.x

Old(x, y) == <<"old", x, y>>
New(x, y) == <<"new", x, y>>
Fault == <<"fault", 0, 0>>   \* read outside the mapping

Desktop(r) == [x : 0..(WidthOf(r) - 1), y : 0..(HeightOf(r) - 1)]

\* The screen when the desktop has been presented, the pixels named by place.
Named(r) ==
    [a \in FrameBuffer |->
        LET p == CHOOSE q \in Desktop(r) : PlaceOf(r, q.x, q.y) = a
        IN  Old(p.x, p.y)]

\* The pixels of the desktop that frame f presents.
Picture(f, x, y) ==
    LET dirty == \E i \in 1..Len(f.dirty) : Covers(f.dirty[i], x, y)
        moved == {i \in 1..Len(f.moves) : Covers(f.moves[i].dest, x, y)}
        m == f.moves[CHOOSE i \in moved : TRUE]
    IN  CASE dirty -> New(x, y)
          [] ~dirty /\ moved # {} ->
                Old(m.x + (x - m.dest.left), m.y + (y - m.dest.top))
          [] OTHER -> Old(x, y)

\* A bitmap of rows of pixels, the top row first.
RowsOf(kind, w, h) == [y \in 1..h |-> [x \in 1..w |-> <<kind, x - 1, y - 1>>]]

\* Nothing is written outside the frame buffer, nothing is read outside the
\* part of the source that is mapped.
StaysInside ==
    /\ DOMAIN screen = FrameBuffer
    /\ \A a \in FrameBuffer : screen[a] # Fault

TypeOK ==
    /\ device \in {"vga", "qxl"}
    /\ rotation \in {"identity", "rotate90"}
    /\ pc \in {"idle", "allocate", "lock", "map", "copy", "returned", "bugcheck"}
    /\ pc # "copy" => todo = <<>>
    /\ contexts \in 0..(MaxFailures + 1) /\ failures \in 0..MaxFailures
    /\ mdl \in BOOLEAN /\ locked \in BOOLEAN /\ mapped \in Nat
    /\ upToDate \in BOOLEAN
    /\ StaysInside

Init ==
    /\ device \in {"vga", "qxl"}
    /\ rotation = "identity"
    /\ pc = "idle"
    /\ frame = None
    /\ todo = <<>>
    /\ contexts = 0 /\ failures = 0
    /\ mdl = FALSE /\ locked = FALSE /\ mapped = 0
    /\ screen = Named("identity")
    /\ upToDate = FALSE

-----------------------------------------------------------------------------
(* dxgkrnl. *)

\* UpdateActiveVidPnPresentPath accepts these two rotations.
UpdateActiveVidPnPresentPath ==
    /\ pc = "idle"
    /\ rotation' \in {"identity", "rotate90"} \ {rotation}
    /\ upToDate' = FALSE
    /\ frame' = None
    /\ UNCHANGED <<device, pc, todo, memoryVars, screen>>

\* Of a desktop: what may have moved, one rectangle at most, and what may be
\* new; two rectangles at most in all.
Moves(r) ==
    {m \in [dest : RectsOf(WidthOf(r), HeightOf(r)),
            x : 0..(WidthOf(r) - 1), y : 0..(HeightOf(r) - 1)] :
        /\ m.x + RectWidth(m.dest) <= WidthOf(r)
        /\ m.y + RectHeight(m.dest) <= HeightOf(r)}

Changes(r) ==
    LET rects == RectsOf(WidthOf(r), HeightOf(r))
    IN  [moves : {<<>>} \union {<<m>> : m \in Moves(r)},
         dirty : {<<>>} \union {<<d>> : d \in rects}]
        \union [moves : {<<>>}, dirty : {<<d, e>> : d \in rects, e \in rects}]

WholeDesktop(r) ==
    [moves |-> <<>>, dirty |-> <<Whole(WidthOf(r), HeightOf(r))>>]

\* PresentDisplayOnly: the rotation dxgkrnl leaves to the driver.
RotationNeededByFb(rotate) == IF rotate THEN rotation ELSE "identity"

\* DxgkDdiPresentDisplayOnly.  dxgkrnl leaves the rotation to the fallback
\* device only.
PresentDisplayOnly ==
    /\ pc = "idle"
    /\ \E rotate \in BOOLEAN, pad \in IF device = "vga" THEN VgaPads ELSE QxlPads :
         LET r == RotationNeededByFb(rotate)
         IN  /\ device = "qxl" => r = "identity"
             /\ \E c \in IF upToDate THEN Changes(r) ELSE {WholeDesktop(r)} :
                  frame' = [is |-> "desktop", rotation |-> r, pitch |-> WidthOf(r) + pad,
                            moves |-> c.moves, dirty |-> c.dirty]
             /\ screen' = Named(r)
    /\ contexts' = contexts + 1
    /\ pc' = "allocate"
    /\ todo' = <<>>
    /\ UNCHANGED <<device, rotation, mdl, locked, mapped, failures, upToDate>>

\* ExecutePresentDisplayOnly has no memory for a context: nothing is taken.
AllocateContextFails ==
    /\ pc = "idle"
    /\ upToDate' = FALSE
    /\ frame' = None
    /\ UNCHANGED <<device, rotation, pc, todo, memoryVars, screen>>

-----------------------------------------------------------------------------
(* ExecutePresentDisplayOnly, for both devices. *)

\* Mutant of MaxBottom: the height of the highest rectangle.
MaxHeight(rects) == Max({0} \union {RectHeight(rects[i]) : i \in 1..Len(rects)})

\* GetMaxSourceMappingHeight, of the dirty rectangles only.
MaxBottom(rects) == Max({0} \union {rects[i].bottom : i \in 1..Len(rects)})

SizeToMap ==
    IF device = "qxl" THEN frame.pitch * MaxBottom(frame.dirty)
                      ELSE Width * Height

\* The calls that fail return at once; the context stays allocated.
ReturnEarly ==
    /\ failures < MaxFailures
    /\ failures' = failures + 1
    /\ upToDate' = FALSE
    /\ pc' = "idle"
    /\ frame' = None
    /\ UNCHANGED <<device, rotation, todo, contexts, screen>>

\* IoAllocateMdl.
AllocateMdl ==
    /\ pc = "allocate"
    /\ mdl' = TRUE
    /\ pc' = "lock"
    /\ UNCHANGED <<device, rotation, frame, todo, contexts, locked, mapped, screen,
                   upToDate, failures>>

AllocateMdlFails ==
    /\ pc = "allocate"
    /\ ReturnEarly
    /\ UNCHANGED <<mdl, locked, mapped>>

\* MmProbeAndLockPages.
LockPages ==
    /\ pc = "lock"
    /\ locked' = TRUE
    /\ pc' = "map"
    /\ UNCHANGED <<device, rotation, frame, todo, contexts, mdl, mapped, screen,
                   upToDate, failures>>

LockPagesFails ==
    /\ pc = "lock"
    /\ mdl' = FALSE
    /\ ReturnEarly
    /\ UNCHANGED <<locked, mapped>>

\* MmGetSystemAddressForMdlSafe; then the loops begin.
Map ==
    /\ pc = "map"
    /\ mapped' = SizeToMap
    /\ todo' = [i \in 1..Len(frame.moves) |-> [is |-> "move", m |-> frame.moves[i]]]
               \o [i \in 1..Len(frame.dirty) |-> [is |-> "dirty", r |-> frame.dirty[i]]]
    /\ pc' = "copy"
    /\ UNCHANGED <<device, rotation, frame, contexts, mdl, locked, screen, upToDate,
                   failures>>

\* Mutant of MapFails: the pages stay locked.
MapFailsLocked ==
    /\ pc = "map"
    /\ mdl' = FALSE
    /\ ReturnEarly
    /\ UNCHANGED <<locked, mapped>>

MapFails ==
    /\ pc = "map"
    /\ locked' = FALSE
    /\ mdl' = FALSE
    /\ ReturnEarly
    /\ UNCHANGED mapped

\* The bitmap of the desktop, as far as it is mapped.
Source ==
    [a \in Int |->
        LET x == a % frame.pitch
            y == a \div frame.pitch
        IN  IF a \in 0..(mapped - 1) /\ x < WidthOf(frame.rotation)
            THEN Picture(frame, x, y)
            ELSE Fault]

Origin == [x |-> 0, y |-> 0]

DstBltInfo ==
    [bits |-> 0, pitch |-> Width, width |-> Width, height |-> Height,
     offset |-> Origin, rotation |-> frame.rotation]

SrcBltInfo ==
    [bits |-> 0, pitch |-> frame.pitch, width |-> WidthOf(frame.rotation),
     height |-> HeightOf(frame.rotation), offset |-> Origin, rotation |-> "identity"]

\* The fallback device copies a rectangle that has moved as any other.
VgaDraws(item) ==
    LET r == IF item.is = "move" THEN item.m.dest ELSE item.r
    IN  BltBits(screen, DstBltInfo, SrcBltInfo, r, Source)

\* The device, when it is told to copy a rectangle of the screen.
CopiedOnScreen(m) ==
    [a \in FrameBuffer |->
        LET x == a % Width
            y == a \div Width
        IN  IF Covers(m.dest, x, y)
            THEN screen[(m.y + y - m.dest.top) * Width + m.x + x - m.dest.left]
            ELSE screen[a]]

\* QxlDevice::BltBits: the rows of the image, from the last to the first.
SourceRows(r) ==
    [i \in 1..RectHeight(r) |->
        [x \in 1..RectWidth(r) |->
            Source[(r.top + RectHeight(r) - i) * frame.pitch + r.left + x - 1]]]

ImageData(r) ==
    PutRows(ImageCapacity(RectHeight(r), RectWidth(r), BitsBufMax), SourceRows(r))

\* The device, when it is told to draw an image; a bitmap without the flag for
\* top-down begins with its last row.
ImageDrawn(r, chunks) ==
    LET rows == BitmapRows(chunks, RectWidth(r))
    IN  [a \in FrameBuffer |->
            LET x == a % Width
                y == a \div Width
            IN  IF Covers(r, x, y) /\ r.bottom - y <= Len(rows)
                THEN rows[r.bottom - y][x - r.left + 1]
                ELSE screen[a]]

QxlDraws(item) ==
    IF item.is = "move" THEN CopiedOnScreen(item.m)
                        ELSE ImageDrawn(item.r, ImageData(item.r))

\* One turn of the loops: the device draws it before the next.
Draw ==
    /\ pc = "copy"
    /\ todo # <<>>
    /\ screen' = IF device = "vga" THEN VgaDraws(Head(todo)) ELSE QxlDraws(Head(todo))
    /\ todo' = Tail(todo)
    /\ UNCHANGED <<device, rotation, pc, frame, memoryVars, upToDate>>

Return ==
    /\ pc = "copy"
    /\ todo = <<>>
    /\ locked' = FALSE
    /\ mdl' = FALSE
    /\ mapped' = 0
    /\ contexts' = contexts - 1
    /\ upToDate' = TRUE
    /\ pc' = "returned"
    /\ UNCHANGED <<device, rotation, frame, todo, screen, failures>>

\* dxgkrnl goes on; the pixels on the screen are named afresh.
NextCall ==
    /\ pc = "returned"
    /\ pc' = "idle"
    /\ frame' = None
    /\ screen' = Named("identity")
    /\ UNCHANGED <<device, rotation, todo, memoryVars, upToDate>>

-----------------------------------------------------------------------------
(* The pointer, and the screen of a bugcheck. *)

\* QxlDevice::SetPointerShape; a monochrome shape has two images.
SetPointerShape ==
    /\ device = "qxl"
    /\ pc = "idle"
    /\ \E w \in CursorSizes, h \in CursorSizes, images \in {1, 2} :
         LET rows == RowsOf("pointer", w, h * images)
         IN  frame' = [is |-> "pointer", rows |-> rows,
                       shown |-> Bytes(PutRows(CursorRoom, rows))]
    /\ pc' = "returned"
    /\ UNCHANGED <<device, rotation, todo, memoryVars, screen, upToDate>>

\* SystemDisplayEnable: dxgkrnl takes the display over, whatever is going on;
\* it is refused for the QXL device, which has no FrameBuffer.Ptr.
SystemDisplayEnable ==
    /\ device = "vga"
    /\ pc # "bugcheck"
    /\ pc' = "bugcheck"
    /\ frame' = None
    /\ todo' = <<>>
    /\ screen' = Named(rotation)
    /\ UNCHANGED <<device, rotation, memoryVars, upToDate>>

\* SystemDisplayWrite of a bitmap at some place of the screen.
SystemDisplayWrite ==
    /\ pc = "bugcheck"
    /\ \E rect \in RectsOf(WidthOf(rotation), HeightOf(rotation)) :
         LET dst == [bits |-> 0, pitch |-> Width, width |-> Width, height |-> Height,
                     offset |-> Origin, rotation |-> rotation]
             src == [bits |-> 0, pitch |-> RectWidth(rect), width |-> RectWidth(rect),
                     height |-> RectHeight(rect),
                     offset |-> [x |-> -rect.left, y |-> -rect.top],
                     rotation |-> "identity"]
             bits == [a \in Int |-> New(a % RectWidth(rect), a \div RectWidth(rect))]
         IN  /\ frame' = [is |-> "crash", rect |-> rect]
             /\ screen' = BltBits(Named(rotation), dst, src, rect, bits)
    /\ UNCHANGED <<device, rotation, pc, todo, memoryVars, upToDate>>

Next ==
    \/ UpdateActiveVidPnPresentPath
    \/ PresentDisplayOnly \/ AllocateContextFails
    \/ AllocateMdl \/ AllocateMdlFails
    \/ LockPages \/ LockPagesFails
    \/ Map \/ MapFails
    \/ Draw \/ Return \/ NextCall
    \/ SetPointerShape \/ SystemDisplayEnable \/ SystemDisplayWrite

Spec == Init /\ [][Next]_vars

-----------------------------------------------------------------------------
(* Correctness. *)

\* Between two presents no MDL is allocated and no page locked, whichever call
\* failed; a context is left allocated by each present that failed after it
\* had allocated one, and by no other (QxlDod.cpp:3795, 3812, 3824).
NothingKept ==
    pc \in {"idle", "returned"} => ~mdl /\ ~locked /\ mapped = 0 /\ contexts = failures

\* A present that succeeds leaves the desktop on the screen, all of it and
\* turned as the path says: through moves on the screen or copies, through
\* images cut into chunks, and reading nothing of the source that is not
\* mapped.  A pointer's shape, and the part of a bugcheck's bitmap that is
\* written last, come through likewise.
ShowsTheDesktop ==
    pc \in {"returned", "bugcheck"} =>
        CASE frame.is = "desktop" ->
                \A p \in Desktop(frame.rotation) :
                    screen[PlaceOf(frame.rotation, p.x, p.y)] = Picture(frame, p.x, p.y)
          [] frame.is = "pointer" -> frame.shown = FlattenSeq(frame.rows)
          [] frame.is = "crash" ->
                \A p \in Desktop(rotation) :
                    screen[PlaceOf(rotation, p.x, p.y)] =
                        IF Covers(frame.rect, p.x, p.y)
                        THEN New(p.x - frame.rect.left, p.y - frame.rect.top)
                        ELSE Old(p.x, p.y)
          [] frame.is = "none" -> TRUE

=============================================================================
