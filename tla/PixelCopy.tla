----------------------------- MODULE PixelCopy -----------------------------
(***************************************************************************)
(* The software blit of the fallback device, BltBits: CopyBits32_32 and    *)
(* CopyBitsGeneric, the one for a bitmap that is rotated.  Addresses count *)
(* pixels; the conversion between colour formats is left out.              *)
(*                                                                         *)
(* A BLT_INFO is a record: bits (an address), pitch, width, height,        *)
(* offset (a point) and rotation; a RECT excludes its right and bottom.    *)
(***************************************************************************)
EXTENDS Integers

Rotations == {"identity", "rotate90", "rotate180", "rotate270"}

\* The rectangles of a w by h bitmap that are not empty.
RectsOf(w, h) ==
    {r \in [left : 0..(w - 1), top : 0..(h - 1), right : 1..w, bottom : 1..h] :
        r.left < r.right /\ r.top < r.bottom}

Whole(w, h) == [left |-> 0, top |-> 0, right |-> w, bottom |-> h]

RectWidth(r) == r.right - r.left
RectHeight(r) == r.bottom - r.top

Pixels(r) == [x : 0..(RectWidth(r) - 1), y : 0..(RectHeight(r) - 1)]

Covers(r, x, y) == x \in r.left..(r.right - 1) /\ y \in r.top..(r.bottom - 1)

-----------------------------------------------------------------------------

\* GetPitches: how far the next pixel of a row is ...
PixelPitch(b) ==
    CASE b.rotation = "identity"  -> 1
      [] b.rotation = "rotate90"  -> -b.pitch
      [] b.rotation = "rotate180" -> -1
      [] b.rotation = "rotate270" -> b.pitch

\* ... and the next row.
RowPitch(b) ==
    CASE b.rotation = "identity"  -> b.pitch
      [] b.rotation = "rotate90"  -> 1
      [] b.rotation = "rotate180" -> -b.pitch
      [] b.rotation = "rotate270" -> -1

\* The address of the first pixel of r.
GetRowStart(b, r) ==
    LET left == r.left + b.offset.x
        top == r.top + b.offset.y
    IN  b.bits +
        (CASE b.rotation = "identity"  -> top * b.pitch + left
           [] b.rotation = "rotate90"  -> (b.height - 1 - left) * b.pitch + top
           [] b.rotation = "rotate180" ->
                (b.height - 1 - top) * b.pitch + (b.width - 1 - left)
           [] b.rotation = "rotate270" -> left * b.pitch + (b.width - 1 - top))

\* The address of pixel p of r, after p.y rows and p.x pixels.
AddressOf(b, r, p) == GetRowStart(b, r) + p.y * RowPitch(b) + p.x * PixelPitch(b)

\* BltBits with one rectangle: the memory after it, source giving what is at
\* each address of the source.  A write outside the memory makes it larger.
BltBits(memory, dst, src, r, source) ==
    LET written == {AddressOf(dst, r, p) : p \in Pixels(r)}
        from(a) == CHOOSE p \in Pixels(r) : AddressOf(dst, r, p) = a
    IN  [a \in DOMAIN memory \union written |->
            IF a \in written THEN source[AddressOf(src, r, from(a))] ELSE memory[a]]

-----------------------------------------------------------------------------
(* What a rotation is, without addresses. *)

Turns(rotation) ==
    CASE rotation = "identity"  -> 0
      [] rotation = "rotate90"  -> 1
      [] rotation = "rotate180" -> 2
      [] rotation = "rotate270" -> 3

\* A quarter turn counterclockwise of a bitmap w pixels wide: the left column
\* becomes the bottom row.
QuarterTurn(p, w) == [x |-> p.y, y |-> w - 1 - p.x]

\* Where pixel p of a w by h bitmap is after n quarter turns.
Turned(p, w, h, n) ==
    CASE n = 0 -> p
      [] n = 1 -> QuarterTurn(p, w)
      [] n = 2 -> QuarterTurn(QuarterTurn(p, w), h)
      [] n = 3 -> QuarterTurn(QuarterTurn(QuarterTurn(p, w), h), w)

Sideways(rotation) == rotation \in {"rotate90", "rotate270"}

\* In a destination of w by h pixels, the first pixel of a rectangle and the
\* pitches lead to where the rotation takes each pixel (the drivers pass only
\* the first two rotations; TLC evaluates this for all four).
ASSUME AddressesTurn ==
    \A w \in 1..3, h \in 1..3, rotation \in Rotations :
        LET srcWidth == IF Sideways(rotation) THEN h ELSE w
            srcHeight == IF Sideways(rotation) THEN w ELSE h
            dst == [bits |-> 0, pitch |-> w + 1, width |-> w, height |-> h,
                    offset |-> [x |-> 0, y |-> 0], rotation |-> rotation]
        IN  \A r \in RectsOf(srcWidth, srcHeight) : \A p \in Pixels(r) :
                LET q == Turned([x |-> r.left + p.x, y |-> r.top + p.y],
                                srcWidth, srcHeight, Turns(rotation))
                IN  AddressOf(dst, r, p) = q.y * dst.pitch + q.x

=============================================================================
