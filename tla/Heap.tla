------------------------------- MODULE Heap -------------------------------
(***************************************************************************)
(* The heap of device memory, mspace.c: boundary tags, bins of free chunks *)
(* and the two special chunks dv (the designated victim, the remainder of  *)
(* the last split) and top (the free end of the arena).  One call at a     *)
(* time: AllocMem and FreeMem hold m_MemLock.                              *)
(*                                                                         *)
(* Sizes and addresses are bytes from the start of the arena, with words   *)
(* of Word bytes.  head is the word of a chunk that holds its size and the *)
(* in-use bits of the chunk (cinuse) and of the one before it (pinuse);    *)
(* foot is the word before it, which repeats the size of the chunk before  *)
(* when that is free and belongs to that chunk's owner when it is not.     *)
(* Words nobody may rely on any more are dropped from the two functions,   *)
(* so reading one stops the model.  A bin is the set of chunks filed in    *)
(* it: which of two chunks of one size is taken is left open, and so is    *)
(* how the tries of treebins find the best fit.                            *)
(***************************************************************************)
EXTENDS Integers

CONSTANTS
    Word,        \* SIZE_T_SIZE, SMALLBIN_WIDTH and MALLOC_ALIGNMENT: 8
    MinChunk,    \* MIN_CHUNK_SIZE: 4 words
    SmallLimit,  \* MIN_LARGE_SIZE: 32 words
    StateSize,   \* the chunk that holds malloc_state
    TopFoot,     \* TOP_FOOT_SIZE
    Capacity,    \* of create_mspace_with_base
    Width,       \* size_t counts modulo Width
    Requests     \* the sizes mspace_malloc is called with

ASSUME HeapAssumption ==
    /\ Word \in Nat \ {0, 1}
    /\ \A s \in {MinChunk, SmallLimit, StateSize, TopFoot, Capacity} :
           s \in Nat /\ s % Word = 0
    /\ 2 * Word <= MinChunk /\ MinChunk < SmallLimit
    /\ MinChunk <= StateSize
    /\ StateSize + TopFoot < Capacity  \* else create_mspace_with_base fails
    /\ Width \in Nat /\ 2 * Capacity < Width
    /\ Requests \subseteq 1..Capacity

VARIABLES
    head,      \* chunk -> its size, cinuse and pinuse
    foot,      \* chunk -> the size of the free chunk before it
    bins,      \* the chunks in smallbins and treebins -> the size filed under
    dv, dvsize,
    top, topsize,
    asked,     \* the chunks in use -> the bytes asked for
    refused    \* the request the last call refused, or 0

vars == <<head, foot, bins, dv, dvsize, top, topsize, asked, refused>>

NoChunk == -1
End == Capacity - TopFoot

Header(s, p, c) == [size |-> s, pinuse |-> p, cinuse |-> c]
InUse(s) == Header(s, TRUE, TRUE)
FreeChunk(s) == Header(s, TRUE, FALSE)

\* Chunk p gets head v, and the next chunk's pinuse follows it.
SetHead(h, p, v) == [h EXCEPT ![p] = v, ![p + v.size].pinuse = v.cinuse]

\* A function with a value more, or with some fewer.
With(f, x, v) == [y \in DOMAIN f \union {x} |-> IF y = x THEN v ELSE f[y]]
Without(f, keys) == [x \in DOMAIN f \ keys |-> f[x]]

\* init_user_mstate: the chunk of malloc_state, then top, then the fake chunk.
Init ==
    /\ head = [p \in {0, StateSize, End} |->
                  IF p = 0 THEN InUse(StateSize)
                  ELSE IF p = StateSize THEN FreeChunk(End - StateSize)
                  ELSE Header(TopFoot, FALSE, FALSE)]
    /\ foot = [p \in {} |-> 0]
    /\ bins = [p \in {} |-> 0]
    /\ dv = NoChunk /\ dvsize = 0
    /\ top = StateSize /\ topsize = End - StateSize
    /\ asked = [p \in {} |-> 0]
    /\ refused = 0

-----------------------------------------------------------------------------
(* Sizes and bins. *)

PadRequest(bytes) == ((bytes + Word + Word - 1) \div Word) * Word
ChunkSizeFor(bytes) ==
    IF bytes < MinChunk - Word - 1 THEN MinChunk ELSE PadRequest(bytes)

IsSmall(s) == s < SmallLimit
IsSmallRequest(bytes) == bytes <= SmallLimit - 1 - (Word - 1) - Word

SmallBin(s) == {p \in DOMAIN bins : bins[p] = s /\ IsSmall(s)}
SmallChunksFrom(s) == {p \in DOMAIN bins : bins[p] >= s /\ IsSmall(bins[p])}
TreeChunks == {p \in DOMAIN bins : ~IsSmall(bins[p])}

\* The first non-empty bin, or the best fit in the tries.
Smallest(chunks) == {p \in chunks : \A q \in chunks : bins[p] <= bins[q]}

-----------------------------------------------------------------------------
(* Handing out chunk p, of size s, for a request of n bytes. *)

\* All of it.
TakeWhole(p, s, n) ==
    /\ head' = SetHead(head, p, InUse(s))
    /\ foot' = Without(foot, {p + s})
    /\ asked' = With(asked, p, n)

\* The front of it; the rest becomes a free chunk of its own.
TakeFront(p, s, n) ==
    LET nb == ChunkSizeFor(n) IN
    /\ head' = With([head EXCEPT ![p] = InUse(nb)], p + nb, FreeChunk(s - nb))
    /\ foot' = [foot EXCEPT ![p + s] = s - nb]
    /\ asked' = With(asked, p, n)

WorthSplitting(p, n) == bins[p] - ChunkSizeFor(n) >= MinChunk

\* A chunk of a bin; what is left of it becomes dv and the old dv is binned
\* (replace_dv).
TakeIntoDv(p, n) ==
    IF WorthSplitting(p, n)
    THEN /\ TakeFront(p, bins[p], n)
         /\ dv' = p + ChunkSizeFor(n) /\ dvsize' = bins[p] - ChunkSizeFor(n)
         /\ bins' = IF dvsize = 0 THEN Without(bins, {p})
                                  ELSE With(Without(bins, {p}), dv, dvsize)
    ELSE /\ TakeWhole(p, bins[p], n)
         /\ bins' = Without(bins, {p})
         /\ UNCHANGED <<dv, dvsize>>

\* A chunk of a treebin for a large request; what is left of it is binned.
TakeIntoBin(p, n) ==
    /\ UNCHANGED <<dv, dvsize>>
    /\ IF WorthSplitting(p, n)
       THEN /\ TakeFront(p, bins[p], n)
            /\ bins' = With(Without(bins, {p}),
                            p + ChunkSizeFor(n), bins[p] - ChunkSizeFor(n))
       ELSE /\ TakeWhole(p, bins[p], n)
            /\ bins' = Without(bins, {p})

-----------------------------------------------------------------------------
(* mspace_malloc, in the order it tries. *)

\* A small bin whose chunks fit without a remainder worth having.
ExactFits(n) ==
    LET nb == ChunkSizeFor(n) IN
    IF SmallBin(nb) # {} THEN SmallBin(nb) ELSE SmallBin(nb + Word)

MallocExact(n) ==
    /\ IsSmallRequest(n)
    /\ \E p \in ExactFits(n) :
           /\ TakeWhole(p, bins[p], n)
           /\ bins' = Without(bins, {p})
    /\ refused' = 0
    /\ UNCHANGED <<dv, dvsize, top, topsize>>

\* dv is too small: the next small bin that is not empty ...
MallocSmallBin(n) ==
    /\ IsSmallRequest(n)
    /\ ExactFits(n) = {} /\ ChunkSizeFor(n) > dvsize
    /\ \E p \in Smallest(SmallChunksFrom(ChunkSizeFor(n))) : TakeIntoDv(p, n)
    /\ refused' = 0
    /\ UNCHANGED <<top, topsize>>

\* ... or the smallest chunk of the treebins (tmalloc_small).
MallocSmallTree(n) ==
    /\ IsSmallRequest(n)
    /\ SmallChunksFrom(ChunkSizeFor(n)) = {} /\ ChunkSizeFor(n) > dvsize
    /\ \E p \in Smallest(TreeChunks) : TakeIntoDv(p, n)
    /\ refused' = 0
    /\ UNCHANGED <<top, topsize>>

\* Mutant of LargeFits: dv is compared by its size, however small it is.
LargeFitsSigned(n) ==
    {p \in Smallest({q \in TreeChunks : bins[q] >= ChunkSizeFor(n)}) : bins[p] < dvsize}

\* tmalloc_large: the best fit, unless dv fits better.  Both comparisons are
\* of unsigned differences: a dv that is too small never fits better, and a
\* chunk that is too small is never taken.
LargeFits(n) ==
    LET nb == ChunkSizeFor(n)
        remainder(size) == (size - nb) % Width
        fits == {p \in TreeChunks : remainder(bins[p]) < (-nb) % Width}
    IN  {p \in Smallest(fits) : remainder(bins[p]) < remainder(dvsize)}

MallocLarge(n) ==
    /\ ~IsSmallRequest(n)
    /\ \E p \in LargeFits(n) : TakeIntoBin(p, n)
    /\ refused' = 0
    /\ UNCHANGED <<top, topsize>>

\* None of the above.
NoBinServes(n) ==
    IF IsSmallRequest(n)
    THEN /\ ExactFits(n) = {}
         /\ ChunkSizeFor(n) > dvsize =>
                SmallChunksFrom(ChunkSizeFor(n)) = {} /\ TreeChunks = {}
    ELSE LargeFits(n) = {}

\* Split dv, or use it up.
MallocDv(n) ==
    LET nb == ChunkSizeFor(n) IN
    /\ NoBinServes(n)
    /\ nb <= dvsize
    /\ IF dvsize - nb >= MinChunk
       THEN TakeFront(dv, dvsize, n) /\ dv' = dv + nb /\ dvsize' = dvsize - nb
       ELSE TakeWhole(dv, dvsize, n) /\ dv' = NoChunk /\ dvsize' = 0
    /\ refused' = 0
    /\ UNCHANGED <<bins, top, topsize>>

\* Split top, which never becomes empty.
MallocTop(n) ==
    LET nb == ChunkSizeFor(n) IN
    /\ NoBinServes(n)
    /\ nb > dvsize /\ nb < topsize
    /\ head' = With([head EXCEPT ![top] = InUse(nb)],
                    top + nb, FreeChunk(topsize - nb))
    /\ top' = top + nb /\ topsize' = topsize - nb
    /\ asked' = With(asked, top, n)
    /\ refused' = 0
    /\ UNCHANGED <<foot, bins, dv, dvsize>>

\* sys_alloc has nowhere to get memory from.
MallocFails(n) ==
    /\ NoBinServes(n)
    /\ ChunkSizeFor(n) > dvsize /\ ChunkSizeFor(n) >= topsize
    /\ refused' = n
    /\ UNCHANGED <<head, foot, bins, dv, dvsize, top, topsize, asked>>

Malloc(n) ==
    \/ MallocExact(n) \/ MallocSmallBin(n) \/ MallocSmallTree(n)
    \/ MallocLarge(n) \/ MallocDv(n) \/ MallocTop(n) \/ MallocFails(n)

-----------------------------------------------------------------------------
(* mspace_free of chunk p: it is joined with the free chunks next to it. *)

NextChunk(p) == p + head[p].size

\* Where the joined chunk starts, and its size up to the next chunk.
Start(p) == IF head[p].pinuse THEN p ELSE p - foot[p]
Joined(p) == NextChunk(p) - Start(p)

\* The joined chunk, of size s, gets a head and, unless it is top, a foot; what
\* is between loses its own.
Join(p, s, absorbed) ==
    LET start == Start(p)
        kept == Without(head, ({p} \ {start}) \union absorbed)
        feet == Without(foot, {p} \union absorbed)
    IN  /\ head' = SetHead(kept, start, FreeChunk(s))
        /\ foot' = IF start + s = End THEN feet ELSE With(feet, start + s, s)
        /\ asked' = Without(asked, {p})
        /\ refused' = 0

\* The bins without the chunk before p, which is unlinked.
BinsBut(p) == Without(bins, {Start(p)})

\* The chunk before is dv, the one after is in use: dv grows.
FreeIntoDv(p) ==
    /\ Start(p) = dv /\ head[NextChunk(p)].cinuse
    /\ dvsize' = Joined(p)
    /\ Join(p, Joined(p), {})
    /\ UNCHANGED <<bins, dv, top, topsize>>

\* The chunk after is in use: the chunk is binned.
FreeIntoBin(p) ==
    /\ Start(p) # dv /\ head[NextChunk(p)].cinuse
    /\ bins' = With(BinsBut(p), Start(p), Joined(p))
    /\ Join(p, Joined(p), {})
    /\ UNCHANGED <<dv, dvsize, top, topsize>>

\* top grows downwards, and swallows dv if that is the chunk before.
FreeIntoTop(p) ==
    /\ NextChunk(p) = top
    /\ top' = Start(p) /\ topsize' = topsize + Joined(p)
    /\ IF Start(p) = dv THEN dv' = NoChunk /\ dvsize' = 0 ELSE UNCHANGED <<dv, dvsize>>
    /\ bins' = BinsBut(p)
    /\ Join(p, Joined(p) + topsize, {top})

\* dv grows downwards.
FreeBeforeDv(p) ==
    /\ NextChunk(p) = dv
    /\ dv' = Start(p) /\ dvsize' = dvsize + Joined(p)
    /\ bins' = BinsBut(p)
    /\ Join(p, Joined(p) + dvsize, {dv})
    /\ UNCHANGED <<top, topsize>>

\* Mutant of FreeBeforeBinned: the chunk after p stays in its bin.
FreeBeforeStillBinned(p) ==
    LET next == NextChunk(p)
        s == Joined(p) + head[next].size
    IN  /\ next \in DOMAIN bins
        /\ IF Start(p) = dv
           THEN dvsize' = s /\ UNCHANGED bins
           ELSE bins' = With(BinsBut(p), Start(p), s) /\ UNCHANGED dvsize
        /\ Join(p, s, {next})
        /\ UNCHANGED <<dv, top, topsize>>

\* The chunk after is free and in a bin: it is unlinked and joined, and the
\* whole is binned, or is dv if the chunk before was.
FreeBeforeBinned(p) ==
    LET next == NextChunk(p)
        s == Joined(p) + head[next].size
        others == Without(BinsBut(p), {next})
    IN  /\ ~head[next].cinuse /\ next \notin {top, dv}
        /\ IF Start(p) = dv
           THEN dvsize' = s /\ bins' = others
           ELSE bins' = With(others, Start(p), s) /\ UNCHANGED dvsize
        /\ Join(p, s, {next})
        /\ UNCHANGED <<dv, top, topsize>>

Free(p) ==
    \/ FreeIntoDv(p) \/ FreeIntoBin(p) \/ FreeIntoTop(p) \/ FreeBeforeDv(p)
    \/ FreeBeforeBinned(p)

Next ==
    \/ \E n \in Requests : Malloc(n)
    \/ \E p \in DOMAIN asked : Free(p)

Spec == Init /\ [][Next]_vars

-----------------------------------------------------------------------------
(* Correctness. *)

Chunks == DOMAIN head \ {End}

\* do_check_inuse_chunk, do_check_malloced_chunk.
CheckInUse(p) ==
    /\ head[NextChunk(p)].pinuse
    /\ ~head[p].pinuse =>
           foot[p] > 0 /\ p - foot[p] \in Chunks /\ NextChunk(p - foot[p]) = p
    /\ p \in DOMAIN asked =>
           head[p].size - ChunkSizeFor(asked[p]) \in 0..(MinChunk - 1)

\* do_check_free_chunk, for a chunk that is not top.
CheckFree(p) ==
    /\ head[p].size >= MinChunk
    /\ head[p].pinuse /\ head[NextChunk(p)].cinuse /\ ~head[NextChunk(p)].pinuse
    /\ foot[NextChunk(p)] = head[p].size

\* do_check_top_chunk.
CheckTop ==
    /\ topsize = head[top].size /\ topsize > 0
    /\ top + topsize = End
    /\ head[top].pinuse /\ ~head[End].pinuse

\* The dv part of do_check_malloc_state.
CheckDv ==
    IF dvsize = 0 THEN dv = NoChunk
    ELSE /\ dv \in Chunks \ {top} /\ ~head[dv].cinuse
         /\ dvsize = head[dv].size /\ dvsize >= MinChunk
         /\ dv \notin DOMAIN bins

\* traverse_and_check: the chunks tile the arena; the free ones are top, dv or
\* in the bin of their size (do_check_smallbin, do_check_tree), the others are
\* not in a bin.
Traverse ==
    /\ \A p \in Chunks : head[p].size % Word = 0 /\ NextChunk(p) \in DOMAIN head
    /\ 0 \in Chunks /\ \A p, q \in DOMAIN head : p < q => NextChunk(p) <= q
    /\ \A p \in Chunks \ {top} :
           IF head[p].cinuse THEN p \notin DOMAIN bins /\ CheckInUse(p)
                             ELSE (p = dv \/ p \in DOMAIN bins) /\ CheckFree(p)
    /\ \A p \in DOMAIN bins : p \in Chunks \ {top} /\ bins[p] = head[p].size

\* The bytes of the callers, and those the heap keeps its own data in.
UserBytes == UNION {(p + 2 * Word)..(p + 2 * Word + asked[p] - 1) : p \in DOMAIN asked}
OwnBytes ==
    0..(StateSize - 1)
        \union (UNION {(p + Word)..(p + 2 * Word - 1) : p \in DOMAIN head})
        \union (UNION {p..(p + Word - 1) : p \in DOMAIN foot})

\* Between calls the heap passes every check mspace.c would make of it in a
\* debug build (do_check_malloc_state), no two free chunks are next to each
\* other, the words that describe it lie outside the memory of the callers,
\* and mspace_free can trust the chunks they hold.
WellFormed ==
    /\ CheckTop /\ CheckDv /\ Traverse
    /\ \A p \in DOMAIN asked : p \in Chunks /\ head[p].cinuse
    /\ \A p \in Chunks \ ({0} \union DOMAIN asked) : ~head[p].cinuse
    /\ UserBytes \intersect OwnBytes = {}

\* How much longer than the request a run of free bytes may be when the request
\* is refused: the end of the chunk before it (a request of one byte in a chunk
\* of MinChunk, and a remainder too small to split off), the words around a
\* chunk, and rounding.
Slack == 2 * MinChunk - 1

Promise == INSTANCE HeapPromise
    WITH held <- [m \in {p + 2 * Word : p \in DOMAIN asked} |-> asked[m - 2 * Word]],
         Arena <- (StateSize + 2 * Word)..(End - 1),
         Alignment <- Word

\* mspace_malloc and mspace_free keep their promise: regions that are disjoint,
\* inside the arena and aligned, and no refusal while there is room.
ImplementsHeap == Promise!Spec

=============================================================================
