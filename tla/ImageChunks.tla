---------------------------- MODULE ImageChunks ----------------------------
(***************************************************************************)
(* How the QXL device is handed an image: a list of data chunks, linked by *)
(* next_chunk, into which BltBits and SetPointerShape copy the rows of the *)
(* image with PutBytesAlign.  A chunk is a record: its capacity, up to     *)
(* dest_end, and its data, of which data_size is the length.               *)
(***************************************************************************)
EXTENDS Integers, Sequences, SequencesExt

Smaller(a, b) == IF a <= b THEN a ELSE b

\* Put the row src at the end of the last chunk, and what does not fit into a
\* chunk of its own, of just that size.
PutBytesAlign(chunks, src) ==
    LET last == Last(chunks)
        room == last.capacity - Len(last.data)
        fits == Smaller(room, Len(src))
        rest == SubSeq(src, fits + 1, Len(src))
    IN  Front(chunks)
        \o <<[last EXCEPT !.data = @ \o SubSeq(src, 1, fits)]>>
        \o (IF rest = <<>> THEN <<>> ELSE <<[capacity |-> Len(rest), data |-> rest]>>)

\* The chunks after so many of the rows, from an empty first one.
PutRows(capacity, rows) ==
    LET chunks[n \in 0..Len(rows)] ==
            IF n = 0 THEN <<[capacity |-> capacity, data |-> <<>>]>>
                     ELSE PutBytesAlign(chunks[n - 1], rows[n])
    IN  chunks[Len(rows)]

\* Mutant of ImageCapacity: the first chunk is not cut at a line.
UncutCapacity(rows, line, limit) == Smaller(rows * line, limit)

\* BltBits: the room in the first chunk for an image of so many rows, line
\* long, when a chunk holds no more than limit (BITS_BUF_MAX).
ImageCapacity(rows, line, limit) == Smaller(rows * line, limit - (limit % line))

\* The device gives back a bitmap: the whole lines of every chunk ...
LinesOf(chunk, line) ==
    [i \in 1..(Len(chunk.data) \div line) |->
        SubSeq(chunk.data, (i - 1) * line + 1, i * line)]

BitmapRows(chunks, line) ==
    FlattenSeq([i \in 1..Len(chunks) |-> LinesOf(chunks[i], line)])

\* ... and the shape of a pointer: the bytes of all chunks.
Bytes(chunks) == FlattenSeq([i \in 1..Len(chunks) |-> chunks[i].data])

=============================================================================
