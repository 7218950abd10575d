--------------------------- MODULE Present_proofs ---------------------------
(***************************************************************************)
(* What is proved of Present and of the modules it is built from: the rows *)
(* that ImageChunks cuts into chunks come back as they were, addresses in  *)
(* PixelCopy lead where a rotation takes a pixel, a present takes and      *)
(* gives back, stays inside, and shows the desktop.                        *)
(*                                                                         *)
(* Sequences are put together by recursive functions; induction over them  *)
(* is over the set of the lengths for which a fact holds (Reaches).        *)
(***************************************************************************)
EXTENDS Present, FiniteSetTheorems, SequenceTheorems, TLAPS

\* A bounded set of numbers has a greatest element: what lies above one of them
\* shrinks as it grows, and finite sets do not shrink for ever.
LEMMA LastOf ==
    ASSUME NEW n \in Nat, NEW K \in SUBSET (0..n), K # {}
    PROVE  \E k \in K : \A j \in K : j <= k
<1> DEFINE Above(x) == {y \in K : x <= y}
           Parts == {Above(x) : x \in K}
<1>1. IsFiniteSet(K)
    <2>1. 0 \in Int /\ n \in Int
        OBVIOUS
    <2>2. QED BY <2>1, FS_Interval, FS_Subset, Zenon
<1>2. Parts \subseteq FiniteSubsetsOf(K) /\ Parts # {}
    <2>1. \A x \in K : Above(x) \in SUBSET K /\ IsFiniteSet(Above(x))
        BY <1>1, FS_Subset
    <2>2. QED BY <2>1 DEF FiniteSubsetsOf
<1>3. PICK p \in Parts : \A q \in Parts : ~ (<<q, p>> \in StrictSubsetOrdering(K))
    BY <1>1, <1>2, FS_StrictSubsetOrderingWellFounded, WFMin
<1>4. PICK k \in K : p = Above(k)
    OBVIOUS
<1>5. ASSUME NEW j \in K, ~ (j <= k) PROVE FALSE
    <2>1. Above(j) \in Parts /\ Above(j) \in SUBSET K /\ p \in SUBSET K
        BY <1>4
    <2>2. k <= k /\ ~ (j <= k) /\ \A z \in K : j <= z => k <= z
        BY <1>5
    <2>3. Above(j) \subseteq p /\ k \in p /\ k \notin Above(j)
        BY <1>4, <2>2, Zenon
    <2>4. <<Above(j), p>> \in StrictSubsetOrdering(K)
        BY <2>1, <2>3 DEF StrictSubsetOrdering
    <2>5. QED BY <1>3, <2>1, <2>4
<1>6. QED BY <1>5

\* Induction, over the set of the numbers for which a fact holds.
LEMMA Reaches ==
    ASSUME NEW n \in Nat, NEW G, 0 \in G, \A k \in 0..(n - 1) : k \in G => k + 1 \in G
    PROVE  n \in G
<1> DEFINE K == {k \in 0..n : k \in G}
           Upto == {k \in 0..n : \A j \in 0..k : j \in G}
<1>1. 0 \in Upto
    OBVIOUS
<1>2. PICK k \in Upto : \A j \in Upto : j <= k
    BY <1>1, LastOf
<1>3. CASE k < n
    <2>1. k + 1 \in G /\ k + 1 \in 0..n
        BY <1>3
    <2>2. \A j \in 0..(k + 1) : j \in 0..k \/ j = k + 1
        OBVIOUS
    <2>3. k + 1 \in Upto
        BY <2>1, <2>2
    <2>4. QED BY <1>2, <2>3
<1>4. QED BY <1>3

-----------------------------------------------------------------------------
(* FlattenSeq. *)

\* f is the recursive function in FlattenSeq(s), as far as k.
Flattens(f, s, k) ==
    f = [i \in 1..k |-> IF i = 1 THEN s[i] ELSE f[i - 1] \o s[i]]

\* The value of a flattening at one of its arguments.
LEMMA FlattensAt ==
    ASSUME NEW f, NEW s, NEW k \in Nat, Flattens(f, s, k), NEW i \in 1..k
    PROVE  f[i] = IF i = 1 THEN s[i] ELSE f[i - 1] \o s[i]
BY DEF Flattens

\* A flattening of k elements extends to one of k + 1.
LEMMA FlattenStep ==
    ASSUME NEW S, NEW s, NEW k \in Nat, NEW f,
           Flattens(f, s, k), \A i \in 1..k : f[i] \in Seq(S), s[k + 1] \in Seq(S)
    PROVE  \E g : Flattens(g, s, k + 1) /\ \A i \in 1..(k + 1) : g[i] \in Seq(S)
<1>1. PICK e : e = (IF k = 0 THEN s[k + 1] ELSE f[k] \o s[k + 1])
    OBVIOUS
<1>2. e \in Seq(S)
    <2>1. k # 0 => f[k] \in Seq(S)
        OBVIOUS
    <2>2. QED BY <1>1, <2>1, ConcatProperties
<1>3. PICK g : g = [i \in 1..(k + 1) |-> IF i \in 1..k THEN f[i] ELSE e]
    OBVIOUS
<1>4. ASSUME NEW i \in 1..(k + 1)
      PROVE  g[i] = (IF i = 1 THEN s[i] ELSE g[i - 1] \o s[i])
    <2>1. CASE i \in 1..k
        <3>1. g[i] = f[i] /\ f[i] = IF i = 1 THEN s[i] ELSE f[i - 1] \o s[i]
            BY <1>3, <2>1, FlattensAt
        <3>2. i # 1 => g[i - 1] = f[i - 1]
            BY <1>3, <2>1
        <3>3. QED BY <3>1, <3>2
    <2>2. CASE i = k + 1
        <3>1. g[i] = e /\ (k # 0 => g[i - 1] = f[k]) /\ (k = 0 <=> i = 1)
            BY <1>3, <2>2
        <3>2. QED BY <1>1, <2>2, <3>1
    <2>3. QED BY <2>1, <2>2
<1>5. Flattens(g, s, k + 1)
    BY <1>3, <1>4 DEF Flattens
<1>6. \A i \in 1..(k + 1) : g[i] \in Seq(S)
    BY <1>2, <1>3
<1>7. QED BY <1>5, <1>6

\* It exists, and its values are sequences.
LEMMA FlattenExists ==
    ASSUME NEW S, NEW s, NEW n \in Nat, \A i \in 1..n : s[i] \in Seq(S)
    PROVE  \E f : Flattens(f, s, n) /\ \A i \in 1..n : f[i] \in Seq(S)
<1> DEFINE Done(k) == \E f : Flattens(f, s, k) /\ \A i \in 1..k : f[i] \in Seq(S)
           G == {k \in 0..n : Done(k)}
<1>1. 0 \in G
    <2>1. PICK f : f = [i \in 1..0 |-> IF i = 1 THEN s[i] ELSE s[i] \o s[i]]
        OBVIOUS
    <2>2. Flattens(f, s, 0) /\ \A i \in 1..0 : f[i] \in Seq(S)
        BY <2>1 DEF Flattens
    <2>3. QED BY <2>2
<1>2. ASSUME NEW k \in 0..(n - 1), k \in G PROVE k + 1 \in G
    <2>1. PICK f : Flattens(f, s, k) /\ \A i \in 1..k : f[i] \in Seq(S)
        BY <1>2
    <2>2. s[k + 1] \in Seq(S) /\ k \in Nat /\ k + 1 \in 0..n
        OBVIOUS
    <2>3. Done(k + 1)
        BY <2>1, <2>2, FlattenStep
    <2>4. QED BY <2>2, <2>3
<1> HIDE DEF G
<1>3. n \in G
    BY <1>1, <1>2, Reaches
<1>4. QED BY <1>3 DEF G

\* Two of them agree as far as their sequences do.
SameUpto(f, g, n) == \A i \in 1..n : f[i] = g[i]

\* Flattenings of sequences that agree, agree.
LEMMA FlattenAgrees ==
    ASSUME NEW s, NEW t, NEW f, NEW g, NEW n \in Nat, NEW l \in Nat, n <= l,
           Flattens(f, s, n), Flattens(g, t, l), SameUpto(s, t, n)
    PROVE  SameUpto(f, g, n)
<1> DEFINE G == {k \in 0..n : SameUpto(f, g, k)}
<1>1. 0 \in G
    BY DEF SameUpto
<1>2. ASSUME NEW k \in 0..(n - 1), k \in G PROVE k + 1 \in G
    <2>1. k + 1 \in 1..l /\ k + 1 \in 1..n /\ (k + 1) - 1 = k
        OBVIOUS
    <2>2. /\ f[k + 1] = IF k + 1 = 1 THEN s[k + 1] ELSE f[k] \o s[k + 1]
          /\ g[k + 1] = IF k + 1 = 1 THEN t[k + 1] ELSE g[k] \o t[k + 1]
        BY <2>1, FlattensAt
    <2>3. (k # 0 => f[k] = g[k]) /\ s[k + 1] = t[k + 1]
        BY <1>2, <2>1 DEF SameUpto
    <2>4. f[k + 1] = g[k + 1]
        BY <2>1, <2>2, <2>3
    <2>5. \A i \in 1..(k + 1) : i \in 1..k \/ i = k + 1
        OBVIOUS
    <2>6. SameUpto(f, g, k + 1)
        BY <1>2, <2>4, <2>5 DEF SameUpto
    <2>7. QED BY <2>1, <2>6
<1> HIDE DEF G
<1>3. n \in G
    BY <1>1, <1>2, Reaches
<1>4. QED BY <1>3 DEF G

\* What FlattenSeq returns for no sequence, and for one more sequence.
LEMMA FlattenNone == FlattenSeq(<<>>) = <<>>
BY DEF FlattenSeq

\* FlattenSeq is the last value of its recursive function.
LEMMA FlattenLast ==
    ASSUME NEW S, NEW s, Len(s) \in Nat, Len(s) # 0,
           \A i \in 1..Len(s) : s[i] \in Seq(S)
    PROVE  \E f : /\ Flattens(f, s, Len(s)) /\ FlattenSeq(s) = f[Len(s)]
                  /\ \A i \in 1..Len(s) : f[i] \in Seq(S)
<1> DEFINE f == CHOOSE f : Flattens(f, s, Len(s))
<1>1. PICK h : Flattens(h, s, Len(s)) /\ \A i \in 1..Len(s) : h[i] \in Seq(S)
    BY FlattenExists
<1>2. Flattens(f, s, Len(s))
    BY <1>1, Zenon
<1>3. FlattenSeq(s) = f[Len(s)]
    BY Zenon DEF FlattenSeq, Flattens
<1> HIDE DEF f
<1>4. \A i \in 1..Len(s) : f[i] = h[i]
    <2>1. PICK n \in Nat : n = Len(s) /\ n <= n
        OBVIOUS
    <2>2. Flattens(f, s, n) /\ Flattens(h, s, n) /\ SameUpto(s, s, n)
        BY <1>1, <1>2, <2>1 DEF SameUpto
    <2>3. SameUpto(f, h, n)
        BY <2>1, <2>2, FlattenAgrees
    <2>4. QED BY <2>1, <2>3 DEF SameUpto
<1>5. QED BY <1>1, <1>2, <1>3, <1>4

\* An element more is flattened to the end.
LEMMA FlattenAppend ==
    ASSUME NEW S, NEW s \in Seq(Seq(S)), NEW e \in Seq(S)
    PROVE  FlattenSeq(Append(s, e)) = FlattenSeq(s) \o e /\ FlattenSeq(s) \in Seq(S)
<1>1. PICK t : t = Append(s, e)
    OBVIOUS
<1>2. PICK n \in Nat : n = Len(s)
    BY LenProperties
<1>3. /\ Len(t) = n + 1 /\ t[n + 1] = e /\ \A i \in 1..n : t[i] = s[i]
      /\ \A i \in 1..n : s[i] \in Seq(S)
    BY <1>1, <1>2, AppendProperties, ElementOfSeq
<1>4. \A i \in 1..(n + 1) : t[i] \in Seq(S)
    <2>1. \A i \in 1..(n + 1) : i \in 1..n \/ i = n + 1
        OBVIOUS
    <2>2. QED BY <1>3, <2>1, Zenon
<1>5. PICK g : Flattens(g, t, n + 1) /\ FlattenSeq(t) = g[n + 1]
    BY <1>3, <1>4, FlattenLast
<1>6. g[n + 1] = IF n + 1 = 1 THEN t[n + 1] ELSE g[(n + 1) - 1] \o t[n + 1]
    BY <1>5, FlattensAt
<1>7. CASE n = 0
    <2>1. s = <<>> /\ FlattenSeq(s) = <<>>
        <3>1. PICK T : T = Seq(S)
            OBVIOUS
        <3>2. s = <<>>
            BY <1>2, <1>7, <3>1, EmptySeq
        <3>3. QED BY <3>2, FlattenNone
    <2>2. FlattenSeq(t) = e
        BY <1>3, <1>5, <1>6, <1>7
    <2>3. <<>> \o e = e /\ <<>> \in Seq(S)
        BY ConcatEmptySeq, EmptySeq
    <2>4. QED BY <1>1, <2>1, <2>2, <2>3
<1>8. CASE n # 0
    <2>1. PICK f : /\ Flattens(f, s, n) /\ FlattenSeq(s) = f[n]
                   /\ \A i \in 1..n : f[i] \in Seq(S)
        BY <1>2, <1>3, <1>8, FlattenLast
    <2>2. \A i \in 1..n : g[i] = f[i]
        <3>1. n <= n + 1 /\ n + 1 \in Nat /\ SameUpto(s, t, n)
            BY <1>3 DEF SameUpto
        <3>2. SameUpto(f, g, n)
            BY <1>5, <2>1, <3>1, FlattenAgrees
        <3>3. QED BY <3>2 DEF SameUpto
    <2>3. g[(n + 1) - 1] = f[n] /\ f[n] \in Seq(S) /\ n + 1 # 1
        BY <1>8, <2>1, <2>2
    <2>4. QED BY <1>1, <1>3, <1>5, <1>6, <2>1, <2>3
<1>9. QED BY <1>7, <1>8

-----------------------------------------------------------------------------
(* PutBytesAlign. *)

Chunk(S) == [capacity : Nat, data : Seq(S)]
Chunks(S) == Seq(Chunk(S))

\* A chunk more, as Append and as a concatenation.
LEMMA OneMoreChunk ==
    ASSUME NEW S, NEW front \in Chunks(S), NEW c \in Chunk(S)
    PROVE  Append(front, c) = front \o <<c>> /\ Append(front, c) \in Chunks(S)
BY AppendIsConcat, AppendProperties DEF Chunks

\* The last chunk holds no more than it has room for.
Sound(chunks) == Len(Last(chunks).data) <= Last(chunks).capacity

\* A sequence that is not empty is its last element after the others.
LEMMA FrontAndLast ==
    ASSUME NEW T, NEW s \in Seq(T), s # <<>>
    PROVE  Front(s) \in Seq(T) /\ Last(s) \in T /\ s = Append(Front(s), Last(s))
<1>1. PICK n \in Nat : Len(s) = n + 1
    <2>1. Len(s) \in Nat \ {0}
        BY EmptySeq
    <2>2. Len(s) - 1 \in Nat /\ Len(s) = (Len(s) - 1) + 1
        BY <2>1
    <2>3. QED BY <2>2
<1>2. \A i \in 1..(n + 1) : s[i] \in T
    BY <1>1, ElementOfSeq
<1>3. Front(s) = SubSeq(s, 1, n) /\ Last(s) = s[n + 1] /\ Last(s) \in T
    BY <1>1, <1>2 DEF Front, Last
<1>4. /\ Front(s) \in Seq(T) /\ Len(Front(s)) = n
      /\ \A i \in 1..n : Front(s)[i] = s[i]
    BY <1>2, <1>3, SubSeqProperties
<1>5. PICK t : t = Append(Front(s), Last(s))
    OBVIOUS
<1>6. /\ t \in Seq(T) /\ Len(t) = n + 1 /\ t[n + 1] = s[n + 1]
      /\ \A i \in 1..n : t[i] = s[i]
    BY <1>3, <1>4, <1>5, AppendProperties
<1>7. \A i \in 1..(n + 1) : t[i] = s[i]
    BY <1>6
<1>8. t = s
    BY <1>1, <1>6, <1>7, SeqEqual
<1>9. QED BY <1>3, <1>4, <1>5, <1>8

\* The room left in the last chunk, that chunk with more data in it, and a chunk
\* of its own.
Room(chunks) == Last(chunks).capacity - Len(Last(chunks).data)

Filled(chunks, d) ==
    Append(Front(chunks), [capacity |-> Last(chunks).capacity,
                           data |-> Last(chunks).data \o d])

Extra(d) == [capacity |-> Len(d), data |-> d]

\* What PutBytesAlign makes its chunks of.
LEMMA PartsOfChunks ==
    ASSUME NEW S, NEW chunks \in Chunks(S), chunks # <<>>, Sound(chunks),
           NEW d \in Seq(S)
    PROVE  /\ Front(chunks) \in Chunks(S) /\ Last(chunks) \in Chunk(S)
           /\ Room(chunks) \in Nat
           /\ Front(chunks) \o <<[Last(chunks) EXCEPT !.data = @ \o d]>>
                  = Filled(chunks, d)
           /\ Filled(chunks, d) \in Chunks(S) /\ Extra(d) \in Chunk(S)
<1> DEFINE front == Front(chunks)
           last == Last(chunks)
<1>1. front \in Chunks(S) /\ last \in Chunk(S)
    BY FrontAndLast DEF Chunks
<1>2. Room(chunks) \in Nat
    <2>1. Len(last.data) \in Nat /\ last.capacity \in Nat
        BY <1>1, LenProperties DEF Chunk
    <2>2. QED BY <2>1 DEF Sound, Room
<1>3. PICK c : c = [capacity |-> last.capacity, data |-> last.data \o d]
    OBVIOUS
<1>4. c \in Chunk(S)
    BY <1>1, <1>3, ConcatProperties DEF Chunk
<1>5. [last EXCEPT !.data = @ \o d] = c
    <2>1. PICK l : l = last
        OBVIOUS
    <2>2. \A e : [l EXCEPT !.data = e] = [capacity |-> l.capacity, data |-> e]
        BY <1>1, <2>1 DEF Chunk
    <2>3. QED BY <1>3, <2>1, <2>2, Zenon
<1>6. Append(front, c) = front \o <<c>> /\ Append(front, c) \in Chunks(S)
    BY <1>1, <1>4, OneMoreChunk
<1>7. Extra(d) \in Chunk(S)
    BY LenProperties DEF Extra, Chunk
<1>8. Filled(chunks, d) = Append(front, c)
    BY <1>3, Zenon DEF Filled
<1>9. QED BY <1>1, <1>2, <1>5, <1>6, <1>7, <1>8, Zenon

\* What fits goes to the last chunk ...
LEMMA PutFits ==
    ASSUME NEW S, NEW chunks \in Chunks(S), chunks # <<>>, Sound(chunks),
           NEW src \in Seq(S), Len(src) <= Room(chunks)
    PROVE  PutBytesAlign(chunks, src) = Filled(chunks, src)
<1>1. PICK n \in Nat : n = Len(src)
    BY LenProperties
<1>2. Room(chunks) \in Nat
    BY PartsOfChunks
<1>3. Smaller(Room(chunks), Len(src)) = n
    BY <1>1, <1>2 DEF Smaller
<1>4. SubSeq(src, 1, n) = src /\ SubSeq(src, n + 1, Len(src)) = <<>>
    <2>1. n + 1 \in Int /\ Len(src) \in Int /\ Len(src) < n + 1
        BY <1>1
    <2>2. QED BY <1>1, <2>1, SubSeqFull, SubSeqEmpty
<1>5. PutBytesAlign(chunks, src) =
          Front(chunks) \o <<[Last(chunks) EXCEPT !.data = @ \o src]>> \o <<>>
    BY <1>3, <1>4, Zenon DEF PutBytesAlign, Room
<1>6. PutBytesAlign(chunks, src) = Filled(chunks, src) \o <<>>
    BY <1>5, PartsOfChunks, Zenon
<1>7. Filled(chunks, src) \o <<>> = Filled(chunks, src)
    BY PartsOfChunks, ConcatEmptySeq DEF Chunks
<1>8. QED BY <1>6, <1>7

\* ... and the rest into a chunk of its own.
LEMMA PutSplits ==
    ASSUME NEW S, NEW chunks \in Chunks(S), chunks # <<>>, Sound(chunks),
           NEW src \in Seq(S), Len(src) > Room(chunks)
    PROVE  \E put \in Seq(S), rest \in Seq(S) :
              /\ src = put \o rest /\ Len(put) = Room(chunks)
              /\ PutBytesAlign(chunks, src) = Append(Filled(chunks, put), Extra(rest))
<1>1. PICK n \in Nat : n = Len(src)
    BY LenProperties
<1>2. PICK r \in Nat : r = Room(chunks)
    BY PartsOfChunks
<1>3. Smaller(Room(chunks), Len(src)) = r /\ r < n
    BY <1>1, <1>2 DEF Smaller
<1>4. \A i \in 1..n : src[i] \in S
    BY <1>1, ElementOfSeq
<1>5. PICK put, rest : put = SubSeq(src, 1, r) /\ rest = SubSeq(src, r + 1, n)
    OBVIOUS
<1>6. put \in Seq(S) /\ Len(put) = r
    <2>1. \A i \in 1..r : src[i] \in S
        BY <1>3, <1>4
    <2>2. put \in Seq(S) /\ Len(put) = IF 1 <= r THEN r - 1 + 1 ELSE 0
        BY <1>5, <2>1, SubSeqProperties
    <2>3. QED BY <2>2
<1>7. rest \in Seq(S) /\ rest # <<>>
    <2>1. \A i \in (r + 1)..n : src[i] \in S
        BY <1>4
    <2>2. r + 1 \in Int /\ n \in Int /\ r + 1 <= n
        BY <1>3
    <2>3. rest \in Seq(S) /\ Len(rest) = n - (r + 1) + 1
        BY <1>5, <2>1, <2>2, SubSeqProperties
    <2>4. Len(rest) # 0
        BY <2>2, <2>3
    <2>5. QED BY <2>3, <2>4, EmptySeq
<1>8. src = put \o rest
    <2>1. 1 \in 1..(Len(src) + 1) /\ r \in (1 - 1)..Len(src) /\ n \in r..Len(src)
        BY <1>1, <1>3
    <2>2. SubSeq(src, 1, r) \o SubSeq(src, r + 1, n) = SubSeq(src, 1, n)
        BY <2>1, ConcatAdjacentSubSeq
    <2>3. SubSeq(src, 1, n) = src
        BY <1>1, SubSeqFull
    <2>4. QED BY <1>5, <2>2, <2>3
<1>9. PutBytesAlign(chunks, src) =
          Front(chunks) \o <<[Last(chunks) EXCEPT !.data = @ \o put]>> \o <<Extra(rest)>>
    BY <1>1, <1>3, <1>5, <1>7, Zenon DEF PutBytesAlign, Room, Extra
<1>10. PutBytesAlign(chunks, src) = Filled(chunks, put) \o <<Extra(rest)>>
    BY <1>6, <1>9, PartsOfChunks, Zenon
<1>11. Filled(chunks, put) \in Chunks(S) /\ Extra(rest) \in Chunk(S)
    BY <1>6, <1>7, PartsOfChunks
<1>12. PutBytesAlign(chunks, src) = Append(Filled(chunks, put), Extra(rest))
    BY <1>10, <1>11, OneMoreChunk
<1>13. QED BY <1>2, <1>6, <1>7, <1>8, <1>12


-----------------------------------------------------------------------------
(* Rows of w one after the other: the place of x in row y, and what is where. *)

\* A pixel of a row-major bitmap is found again by division.
LEMMA RowAndColumn ==
    ASSUME NEW w \in Nat \ {0}, NEW y \in Nat, NEW x \in 0..(w - 1)
    PROVE  (y * w + x) % w = x /\ (y * w + x) \div w = y
OBVIOUS

\* Division with a rest.
LEMMA QuotientAndRest ==
    ASSUME NEW w \in Nat \ {0}, NEW a \in Nat
    PROVE  /\ a \div w \in Nat /\ a % w \in 0..(w - 1)
           /\ a = (a \div w) * w + (a % w) /\ (a \div w) * w <= a
<1>1. a \div w \in Nat /\ a % w \in 0..(w - 1) /\ a = (a \div w) * w + (a % w)
    OBVIOUS
<1>2. PICK q, r : q = (a \div w) * w /\ r = a % w
    OBVIOUS
<1>3. q \in Int /\ r \in Int /\ r >= 0 /\ a = q + r
    BY <1>1, <1>2
<1>4. q <= a
    BY <1>3
<1>5. QED BY <1>1, <1>2, <1>4

\* The bytes of line i are among those of j lines.
LEMMA LineInside ==
    ASSUME NEW w \in Nat \ {0}, NEW j \in Nat, NEW i \in 1..j
    PROVE  (i - 1) * w + 1 \in 1..(j * w) /\ i * w \in 1..(j * w)
<1>1. i * w <= j * w /\ (i - 1) * w >= 0 /\ (i - 1) * w = i * w - w
    OBVIOUS
<1>2. i * w \in Int /\ j * w \in Int /\ (i - 1) * w \in Int /\ w >= 1
    OBVIOUS
<1>3. QED BY <1>1, <1>2

-----------------------------------------------------------------------------
(* What the device reads. *)

\* A function over 1..n.
Over(g, n) == g = [i \in 1..n |-> g[i]]

\* A sequence one longer that agrees with s before its last element.
LEMMA AppendedBy ==
    ASSUME NEW T, NEW s \in Seq(T), NEW e \in T, NEW n \in Nat, n = Len(s),
           NEW g, Over(g, n + 1), SameUpto(g, s, n), g[n + 1] = e
    PROVE  g = Append(s, e)
<1>1. PICK u : u = Append(s, e)
    OBVIOUS
<1>2. u \in Seq(T) /\ Len(u) = n + 1 /\ u[n + 1] = e /\ \A i \in 1..n : u[i] = s[i]
    BY <1>1, AppendProperties
<1>3. u \in [1..(n + 1) -> T]
    BY <1>2, LenProperties
<1>4. Over(u, n + 1)
    BY <1>3 DEF Over
<1>5. \A i \in 1..(n + 1) : u[i] = g[i]
    BY <1>2 DEF SameUpto
<1>6. [i \in 1..(n + 1) |-> u[i]] = [i \in 1..(n + 1) |-> g[i]]
    BY <1>5
<1>7. QED BY <1>1, <1>4, <1>6, Zenon DEF Over

\* One more chunk, as the device reads it: its data, or its whole lines.
LEMMA OneMoreRead ==
    ASSUME NEW S, NEW front \in Chunks(S), NEW c \in Chunk(S)
    PROVE  Bytes(Append(front, c)) = Bytes(front) \o c.data /\ Bytes(front) \in Seq(S)
<1>1. PICK n \in Nat : n = Len(front)
    BY LenProperties DEF Chunks
<1>2. PICK t : t = Append(front, c)
    OBVIOUS
<1>3. /\ Len(t) = n + 1 /\ t[n + 1] = c /\ \A i \in 1..n : t[i] = front[i]
      /\ \A i \in 1..n : front[i] \in Chunk(S)
    BY <1>1, <1>2, AppendProperties, ElementOfSeq DEF Chunks
<1>4. PICK s : s = [i \in 1..n |-> front[i].data]
    OBVIOUS
<1>5. s \in Seq(Seq(S)) /\ Len(s) = n /\ c.data \in Seq(S)
    <2>1. \A i \in 1..n : front[i].data \in Seq(S)
        BY <1>3 DEF Chunk
    <2>2. s \in Seq(Seq(S)) /\ Len(s) = n
        BY <1>4, <2>1, SMT
    <2>3. QED BY <2>2 DEF Chunk
<1>6. [i \in 1..(n + 1) |-> t[i].data] = Append(s, c.data)
    <2>1. PICK g : g = [i \in 1..(n + 1) |-> t[i].data]
        OBVIOUS
    <2>2. Over(g, n + 1) /\ g[n + 1] = c.data /\ SameUpto(g, s, n)
        BY <1>3, <1>4, <2>1 DEF Over, SameUpto
    <2>3. PICK U, e : U = Seq(S) /\ e = c.data
        OBVIOUS
    <2>4. s \in Seq(U) /\ e \in U /\ g[n + 1] = e
        BY <1>5, <2>2, <2>3
    <2>5. g = Append(s, e)
        BY <1>5, <2>2, <2>4, AppendedBy
    <2>6. QED BY <2>1, <2>3, <2>5
<1>7. Bytes(front) = FlattenSeq(s) /\ Bytes(t) = FlattenSeq(Append(s, c.data))
    BY <1>1, <1>3, <1>4, <1>6 DEF Bytes
<1>8. QED BY <1>2, <1>5, <1>7, FlattenAppend

\* The lines of a chunk are sequences of its bytes.
LEMMA LinesAreSeqs ==
    ASSUME NEW S, NEW c \in Chunk(S), NEW line \in Nat \ {0}
    PROVE  LinesOf(c, line) \in Seq(Seq(S))
<1>1. PICK n, k : n = Len(c.data) /\ k = n \div line
    OBVIOUS
<1>2. /\ n \in Nat /\ k \in Nat /\ k * line <= n
      /\ \A i \in 1..n : c.data[i] \in S
    <2>1. c.data \in Seq(S)
        BY DEF Chunk
    <2>2. n \in Nat /\ \A i \in 1..n : c.data[i] \in S
        BY <1>1, <2>1, LenProperties, ElementOfSeq
    <2>3. k \in Nat /\ k * line <= n
        BY <1>1, <2>2, QuotientAndRest
    <2>4. QED BY <2>2, <2>3
<1>3. ASSUME NEW i \in 1..k PROVE SubSeq(c.data, (i - 1) * line + 1, i * line) \in Seq(S)
    <2>1. PICK a, b : a = (i - 1) * line + 1 /\ b = i * line
        OBVIOUS
    <2>2. a \in Int /\ b \in Int /\ a >= 1 /\ b <= n
        <3>1. a \in 1..(k * line) /\ b \in 1..(k * line)
            BY <1>2, <2>1, LineInside
        <3>2. k * line \in Int
            BY <1>2
        <3>3. QED BY <1>2, <3>1, <3>2
    <2>3. \A j \in a..b : c.data[j] \in S
        BY <1>2, <2>2
    <2>4. QED BY <2>1, <2>2, <2>3, SubSeqProperties
<1>4. PICK T : T = Seq(S)
    OBVIOUS
<1>5. PICK f : f = [i \in 1..k |-> SubSeq(c.data, (i - 1) * line + 1, i * line)]
    OBVIOUS
<1>6. LinesOf(c, line) = f
    BY <1>1, <1>5, Zenon DEF LinesOf
<1>7. f \in [1..k -> T]
    BY <1>3, <1>4, <1>5
<1>8. f \in Seq(T)
    BY <1>2, <1>7
<1>9. QED BY <1>4, <1>6, <1>8

\* A chunk more is drawn below the others.
LEMMA OneMoreDrawn ==
    ASSUME NEW S, NEW front \in Chunks(S), NEW c \in Chunk(S), NEW line \in Nat \ {0}
    PROVE  /\ BitmapRows(Append(front, c), line) =
                  BitmapRows(front, line) \o LinesOf(c, line)
           /\ BitmapRows(front, line) \in Seq(Seq(S))
<1>1. PICK n \in Nat : n = Len(front)
    BY LenProperties DEF Chunks
<1>2. PICK t : t = Append(front, c)
    OBVIOUS
<1>3. /\ Len(t) = n + 1 /\ t[n + 1] = c /\ \A i \in 1..n : t[i] = front[i]
      /\ \A i \in 1..n : front[i] \in Chunk(S)
    BY <1>1, <1>2, AppendProperties, ElementOfSeq DEF Chunks
<1>4. PICK s : s = [i \in 1..n |-> LinesOf(front[i], line)]
    OBVIOUS
<1>5. PICK T : T = Seq(S)
    OBVIOUS
<1>6. s \in Seq(Seq(T)) /\ Len(s) = n /\ LinesOf(c, line) \in Seq(T)
    <2>1. \A i \in 1..n : LinesOf(front[i], line) \in Seq(T)
        BY <1>3, <1>5, LinesAreSeqs
    <2>2. s \in Seq(Seq(T)) /\ Len(s) = n
        BY <1>4, <2>1, SMT
    <2>3. QED BY <1>5, <2>2, LinesAreSeqs
<1>7. [i \in 1..(n + 1) |-> LinesOf(t[i], line)] = Append(s, LinesOf(c, line))
    <2>1. PICK g : g = [i \in 1..(n + 1) |-> LinesOf(t[i], line)]
        OBVIOUS
    <2>2. Over(g, n + 1) /\ g[n + 1] = LinesOf(c, line) /\ SameUpto(g, s, n)
        BY <1>3, <1>4, <2>1 DEF Over, SameUpto
    <2>3. PICK U, e : U = Seq(T) /\ e = LinesOf(c, line)
        OBVIOUS
    <2>4. s \in Seq(U) /\ e \in U /\ g[n + 1] = e
        BY <1>6, <2>2, <2>3
    <2>5. g = Append(s, e)
        BY <1>6, <2>2, <2>4, AppendedBy
    <2>6. QED BY <2>1, <2>3, <2>5
<1>8. /\ BitmapRows(front, line) = FlattenSeq(s)
      /\ BitmapRows(t, line) = FlattenSeq(Append(s, LinesOf(c, line)))
    BY <1>1, <1>3, <1>4, <1>7 DEF BitmapRows
<1>9. /\ FlattenSeq(Append(s, LinesOf(c, line))) = FlattenSeq(s) \o LinesOf(c, line)
      /\ FlattenSeq(s) \in Seq(T)
    BY <1>6, FlattenAppend
<1>10. QED BY <1>2, <1>5, <1>8, <1>9

\* The last element and the front of what was appended to.
LEMMA LastAppended ==
    ASSUME NEW T, NEW s \in Seq(T), NEW e \in T
    PROVE  Last(Append(s, e)) = e /\ Append(s, e) # <<>> /\ Front(Append(s, e)) = s
<1>1. PICK t, n : t = Append(s, e) /\ n = Len(s)
    OBVIOUS
<1>2. /\ t \in Seq(T) /\ Len(t) = n + 1 /\ t[n + 1] = e /\ t # <<>> /\ n \in Nat
      /\ \A i \in 1..n : t[i] = s[i]
    BY <1>1, AppendProperties, LenProperties
<1>3. Front(t) = SubSeq(t, 1, n)
    BY <1>2 DEF Front
<1>4. SubSeq(t, 1, n) = s
    <2>1. \A i \in 1..n : t[i] \in T
        BY <1>1, <1>2, ElementOfSeq
    <2>2. PICK u : u = SubSeq(t, 1, n)
        OBVIOUS
    <2>3. u \in Seq(T) /\ Len(u) = n /\ \A i \in 1..n : u[i] = t[i]
        BY <1>2, <2>1, <2>2, SubSeqProperties
    <2>4. QED BY <1>1, <1>2, <2>2, <2>3, SeqEqual
<1>5. QED BY <1>1, <1>2, <1>3, <1>4 DEF Last

\* A chunk with more data in it, and then a chunk of its own, as they are read.
LEMMA ReadFilled ==
    ASSUME NEW S, NEW chunks \in Chunks(S), chunks # <<>>, Sound(chunks),
           NEW d \in Seq(S)
    PROVE  /\ Bytes(Filled(chunks, d)) = Bytes(chunks) \o d
           /\ Bytes(chunks) \in Seq(S)
           /\ Filled(chunks, d) # <<>>
           /\ Last(Filled(chunks, d)).capacity = Last(chunks).capacity
           /\ Last(Filled(chunks, d)).data = Last(chunks).data \o d
<1>1. /\ Front(chunks) \in Chunks(S) /\ Last(chunks) \in Chunk(S)
      /\ chunks = Append(Front(chunks), Last(chunks))
    BY FrontAndLast DEF Chunks
<1>2. PICK data, b : data = Last(chunks).data /\ b = Bytes(Front(chunks))
    OBVIOUS
<1>3. data \in Seq(S) /\ b \in Seq(S) /\ Bytes(chunks) = b \o data
    BY <1>1, <1>2, OneMoreRead DEF Chunk
<1>4. PICK c : c = [capacity |-> Last(chunks).capacity, data |-> data \o d]
    OBVIOUS
<1>5. c \in Chunk(S)
    BY <1>1, <1>3, <1>4, ConcatProperties DEF Chunk
<1>6. Filled(chunks, d) = Append(Front(chunks), c)
    BY <1>2, <1>4, Zenon DEF Filled
<1>7. Bytes(Filled(chunks, d)) = b \o (data \o d)
    <2>1. Bytes(Append(Front(chunks), c)) = b \o c.data
        BY <1>1, <1>2, <1>5, OneMoreRead
    <2>2. c.data = data \o d
        BY <1>4
    <2>3. QED BY <1>6, <2>1, <2>2
<1>8. b \o (data \o d) = (b \o data) \o d
    BY <1>3, ConcatAssociative
<1>9. Last(Filled(chunks, d)) = c /\ Filled(chunks, d) # <<>>
    <2>1. Front(chunks) \in Seq(Chunk(S))
        BY <1>1, Zenon DEF Chunks
    <2>2. Last(Append(Front(chunks), c)) = c /\ Append(Front(chunks), c) # <<>>
        BY <1>5, <2>1, LastAppended, Zenon
    <2>3. QED BY <1>6, <2>2, Zenon
<1>10. b \o data \in Seq(S)
    BY <1>3, ConcatProperties
<1>11. QED BY <1>2, <1>3, <1>4, <1>7, <1>8, <1>9, <1>10

\* What PutBytesAlign returns are chunks again, and the bytes in them are those
\* that were there, and then the source.
LEMMA PutBytes ==
    ASSUME NEW S, NEW chunks \in Chunks(S), chunks # <<>>, Sound(chunks),
           NEW src \in Seq(S)
    PROVE  LET put == PutBytesAlign(chunks, src)
           IN  /\ put \in Chunks(S) /\ put # <<>> /\ Sound(put)
               /\ Bytes(put) = Bytes(chunks) \o src
<1> DEFINE whole == PutBytesAlign(chunks, src)
<1>1. CASE Len(src) <= Room(chunks)
    <2>1. whole = Filled(chunks, src) /\ Room(chunks) \in Nat /\ whole \in Chunks(S)
        <3>1. whole = Filled(chunks, src)
            BY <1>1, PutFits
        <3>2. Room(chunks) \in Nat /\ Filled(chunks, src) \in Chunks(S)
            BY PartsOfChunks
        <3>3. QED BY <3>1, <3>2, Zenon
    <2>2. Len(Last(whole).data) = Len(Last(chunks).data) + Len(src)
        <3>1. Last(chunks).data \in Seq(S)
            BY PartsOfChunks DEF Chunk
        <3>2. Last(whole).data = Last(chunks).data \o src
            BY <2>1, ReadFilled
        <3>3. QED BY <3>1, <3>2, ConcatProperties
    <2>3. Sound(whole)
        <3>1. Len(Last(chunks).data) \in Nat /\ Last(chunks).capacity \in Nat
              /\ Len(src) \in Nat
            BY PartsOfChunks, LenProperties DEF Chunk
        <3>2. Len(src) <= Last(chunks).capacity - Len(Last(chunks).data)
            BY <1>1 DEF Room
        <3>3. Last(whole).capacity = Last(chunks).capacity
            BY <2>1, ReadFilled
        <3>4. QED BY <2>2, <3>1, <3>2, <3>3 DEF Sound
    <2>4. QED BY <2>1, <2>3, ReadFilled
<1>2. CASE Len(src) > Room(chunks)
    <2>1. PICK put \in Seq(S), rest \in Seq(S) :
              src = put \o rest /\ whole = Append(Filled(chunks, put), Extra(rest))
        BY <1>2, PutSplits
    <2>2. PICK t, e : t = Filled(chunks, put) /\ e = Extra(rest)
        OBVIOUS
    <2>3. /\ t \in Chunks(S) /\ e \in Chunk(S) /\ whole = Append(t, e)
          /\ e.data = rest /\ e.capacity = Len(rest)
        BY <2>1, <2>2, PartsOfChunks DEF Extra
    <2>4. Bytes(t) = Bytes(chunks) \o put /\ Bytes(chunks) \in Seq(S)
        BY <2>2, ReadFilled
    <2>5. whole \in Chunks(S) /\ Bytes(whole) = Bytes(t) \o rest
        BY <2>3, OneMoreRead, OneMoreChunk
    <2>6. whole # <<>> /\ Last(whole) = e
        BY <2>3, LastAppended, Zenon DEF Chunks
    <2>7. Sound(whole)
        <3>1. Len(rest) \in Nat
            BY LenProperties
        <3>2. QED BY <2>3, <2>6, <3>1 DEF Sound
    <2>8. (Bytes(chunks) \o put) \o rest = Bytes(chunks) \o (put \o rest)
        BY <2>4, ConcatAssociative
    <2>9. QED BY <2>1, <2>4, <2>5, <2>6, <2>7, <2>8
<1>3. Len(src) \in Nat /\ Room(chunks) \in Nat
    BY PartsOfChunks, LenProperties
<1>4. QED BY <1>1, <1>2, <1>3

-----------------------------------------------------------------------------
(* The lines of an image. *)

\* One line more, after j lines.
HoldsLines(c, j, line) == Len(c.data) = j * line
Extends(d, c, src) == d.data = c.data \o src

\* A line more in a chunk that holds whole lines.
LEMMA OneMoreLine ==
    ASSUME NEW S, NEW c \in Chunk(S), NEW d \in Chunk(S), NEW src \in Seq(S),
           NEW line \in Nat \ {0}, Len(src) = line, NEW j \in Nat,
           HoldsLines(c, j, line), Extends(d, c, src)
    PROVE  LinesOf(d, line) = Append(LinesOf(c, line), src)
<1>1. PICK s, n : s = c.data /\ n = j * line
    OBVIOUS
<1>2. s \in Seq(S) /\ n \in Nat /\ Len(s) = n
    BY <1>1 DEF Chunk, HoldsLines
<1>3. Len(d.data) = n + line
    <2>1. Len(s \o src) = Len(s) + Len(src)
        BY <1>2, ConcatProperties
    <2>2. d.data = s \o src
        BY <1>1 DEF Extends
    <2>3. QED BY <1>2, <2>1, <2>2, Zenon
<1>4. n \div line = j /\ (n + line) \div line = j + 1
    <2>1. n + line = (j + 1) * line + 0 /\ n = j * line + 0 /\ 0 \in 0..(line - 1)
        BY <1>1
    <2>2. (j * line + 0) \div line = j /\ ((j + 1) * line + 0) \div line = j + 1
        BY <2>1, RowAndColumn
    <2>3. QED BY <2>1, <2>2, Zenon
<1>5. PICK f, g : /\ f = LinesOf(c, line) /\ g = LinesOf(d, line)
    OBVIOUS
<1>6. /\ f = [i \in 1..j |-> SubSeq(s, (i - 1) * line + 1, i * line)]
      /\ g = [i \in 1..(j + 1) |-> SubSeq(s \o src, (i - 1) * line + 1, i * line)]
    BY <1>1, <1>2, <1>3, <1>4, <1>5, Zenon DEF LinesOf, Extends
<1>7. ASSUME NEW i \in 1..j PROVE g[i] = f[i]
    <2>1. PICK a, b : a = (i - 1) * line + 1 /\ b = i * line
        OBVIOUS
    <2>2. a \in 1..Len(s) /\ b \in 1..Len(s)
        BY <1>1, <1>2, <2>1, LineInside
    <2>3. SubSeq(s \o src, a, b) = SubSeq(s, a, b)
        BY <1>2, <2>2, SubSeqOfConcat1
    <2>4. i \in 1..(j + 1)
        OBVIOUS
    <2>5. g[i] = SubSeq(s \o src, a, b) /\ f[i] = SubSeq(s, a, b)
        BY <1>6, <2>1, <2>4
    <2>6. QED BY <2>3, <2>5
<1>8. g[j + 1] = src
    <2>1. ((j + 1) - 1) * line + 1 = n + 1 /\ (j + 1) * line = n + line
        BY <1>1
    <2>2. g[j + 1] = SubSeq(s \o src, n + 1, n + line)
        <3>1. j + 1 \in 1..(j + 1)
            OBVIOUS
        <3>2. g[j + 1] = SubSeq(s \o src, ((j + 1) - 1) * line + 1, (j + 1) * line)
            BY <1>6, <3>1
        <3>3. QED BY <2>1, <3>2
    <2>3. /\ n + 1 \in (Len(s) + 1)..(Len(s) + Len(src))
          /\ n + line \in (Len(s) + 1)..(Len(s) + Len(src))
        BY <1>2
    <2>4. PICK a, b : a = n + 1 /\ b = n + line
        OBVIOUS
    <2>5. SubSeq(s \o src, a, b) = SubSeq(src, a - Len(s), b - Len(s))
        BY <1>2, <2>3, <2>4, SubSeqOfConcat2
    <2>6. a - Len(s) = 1 /\ b - Len(s) = Len(src)
        BY <1>2, <2>4
    <2>7. QED BY <2>2, <2>4, <2>5, <2>6, SubSeqFull
<1>9. f \in Seq(Seq(S))
    BY <1>5, LinesAreSeqs
<1>10. PICK T : T = Seq(S)
    OBVIOUS
<1>11. f \in Seq(T) /\ src \in T /\ j = Len(f)
    <2>1. DOMAIN f = 1..j /\ DOMAIN f = 1..Len(f) /\ Len(f) \in Nat
        BY <1>6, <1>9, LenProperties
    <2>2. QED BY <1>9, <1>10, <2>1
<1>12. Over(g, j + 1) /\ SameUpto(g, f, j)
    BY <1>6, <1>7 DEF Over, SameUpto
<1>13. g = Append(f, src)
    BY <1>8, <1>11, <1>12, AppendedBy
<1>14. QED BY <1>5, <1>13

\* The last chunk has room for whole lines and holds whole lines.
InLines(chunks, line) ==
    \E j \in Nat, k \in Nat :
        /\ j <= k
        /\ Last(chunks).capacity = k * line
        /\ Len(Last(chunks).data) = j * line

\* A line that is put is the next line the device draws.
LEMMA PutLine ==
    ASSUME NEW S, NEW chunks \in Chunks(S), chunks # <<>>,
           NEW line \in Nat \ {0}, InLines(chunks, line),
           NEW src \in Seq(S), Len(src) = line
    PROVE  LET put == PutBytesAlign(chunks, src)
           IN  /\ put \in Chunks(S) /\ put # <<>> /\ InLines(put, line)
               /\ BitmapRows(put, line) = Append(BitmapRows(chunks, line), src)
               /\ BitmapRows(chunks, line) \in Seq(Seq(S))
<1> DEFINE whole == PutBytesAlign(chunks, src)
           last == Last(chunks)
           front == Front(chunks)
<1>1. PICK j \in Nat, k \in Nat :
          j <= k /\ last.capacity = k * line /\ Len(last.data) = j * line
    BY DEF InLines
<1>2. Sound(chunks)
    <2>1. j * line <= k * line
        BY <1>1
    <2>2. QED BY <1>1, <2>1 DEF Sound
<1>3. /\ front \in Chunks(S) /\ last \in Chunk(S) /\ chunks = Append(front, last)
      /\ last.data \in Seq(S)
    <2>1. front \in Chunks(S) /\ last \in Chunk(S) /\ chunks = Append(front, last)
        BY FrontAndLast DEF Chunks
    <2>2. QED BY <2>1 DEF Chunk
<1>4. \A c \in Chunk(S) : LinesOf(c, line) \in Seq(Seq(S))
    BY LinesAreSeqs
<1>5. PICK T, b, a : T = Seq(S) /\ b = BitmapRows(front, line) /\ a = LinesOf(last, line)
    OBVIOUS
<1>6. b \in Seq(T) /\ a \in Seq(T) /\ src \in T /\ BitmapRows(chunks, line) = b \o a
    <2>1. BitmapRows(Append(front, last), line) =
              BitmapRows(front, line) \o LinesOf(last, line)
        BY <1>3, OneMoreDrawn
    <2>2. BitmapRows(front, line) \in Seq(Seq(S))
        BY <1>3, OneMoreDrawn
    <2>3. LinesOf(last, line) \in Seq(Seq(S))
        BY <1>3, <1>4
    <2>4. QED BY <1>3, <1>5, <2>1, <2>2, <2>3, Zenon
<1>7. (b \o a) \o <<src>> = Append(b \o a, src) /\ b \o a \in Seq(T)
    BY <1>6, ConcatProperties, AppendIsConcat
<1>8. Room(chunks) = (k - j) * line
    BY <1>1 DEF Room
<1>9. CASE j < k
    <2>1. Len(src) <= Room(chunks)
        <3>1. (k - j) * line >= line
            BY <1>9
        <3>2. QED BY <1>8, <3>1
    <2>2. whole = Filled(chunks, src)
        BY <1>2, <2>1, PutFits
    <2>3. PICK c : c = [capacity |-> last.capacity, data |-> last.data \o src]
        OBVIOUS
    <2>4. c \in Chunk(S) /\ c.data = last.data \o src /\ c.capacity = last.capacity
        BY <1>3, <2>3, ConcatProperties DEF Chunk
    <2>5. whole = Append(front, c)
        BY <2>2, <2>3, Zenon DEF Filled
    <2>6. LinesOf(c, line) = Append(a, src)
        <3>1. HoldsLines(last, j, line) /\ Extends(c, last, src)
            BY <1>1, <2>4 DEF HoldsLines, Extends
        <3>2. LinesOf(c, line) = Append(LinesOf(last, line), src)
            BY <1>1, <1>3, <2>4, <3>1, OneMoreLine
        <3>3. QED BY <1>5, <3>2
    <2>7. BitmapRows(whole, line) = b \o Append(a, src)
        BY <1>3, <1>5, <2>4, <2>5, <2>6, OneMoreDrawn
    <2>8. b \o Append(a, src) = Append(b \o a, src)
        <3>1. Append(a, src) = a \o <<src>> /\ <<src>> \in Seq(T)
            BY <1>6, AppendIsConcat
        <3>2. b \o (a \o <<src>>) = (b \o a) \o <<src>>
            BY <1>6, <3>1, ConcatAssociative
        <3>3. b \o Append(a, src) = (b \o a) \o <<src>>
            BY <3>1, <3>2, Zenon
        <3>4. QED BY <1>7, <3>3, Zenon
    <2>9. whole \in Chunks(S) /\ whole # <<>> /\ Last(whole) = c
        <3>1. front \in Chunks(S) /\ front \in Seq(Chunk(S)) /\ c \in Chunk(S)
            BY <1>3, <2>4, Zenon DEF Chunks
        <3>2. Append(front, c) \in Chunks(S)
            BY <3>1, OneMoreChunk, Zenon
        <3>3. Last(Append(front, c)) = c /\ Append(front, c) # <<>>
            BY <3>1, LastAppended, Zenon
        <3>4. QED BY <2>5, <3>2, <3>3, Zenon
    <2>10. InLines(whole, line)
        <3>1. Len(c.data) = j * line + line
            <4>1. Len(last.data \o src) = Len(last.data) + Len(src)
                BY <1>3, ConcatProperties
            <4>2. QED BY <1>1, <2>4, <4>1, Zenon
        <3>2. j * line + line = (j + 1) * line /\ j + 1 \in Nat /\ j + 1 <= k
            BY <1>9
        <3>3. QED BY <1>1, <2>4, <2>9, <3>1, <3>2 DEF InLines
    <2>11. QED BY <1>5, <1>6, <1>7, <2>7, <2>8, <2>9, <2>10
<1>10. CASE j = k
    <2>1. Room(chunks) = 0 /\ Len(src) > Room(chunks)
        <3>1. (k - j) * line = 0
            BY <1>10
        <3>2. QED BY <1>8, <3>1
    <2>2. PICK put \in Seq(S), rest \in Seq(S) :
              /\ src = put \o rest /\ Len(put) = Room(chunks)
              /\ whole = Append(Filled(chunks, put), Extra(rest))
        <3>1. Sound(chunks) /\ Len(src) > Room(chunks)
            BY <1>2, <2>1, Zenon
        <3>2. \E put \in Seq(S), rest \in Seq(S) :
                  /\ src = put \o rest /\ Len(put) = Room(chunks)
                  /\ PutBytesAlign(chunks, src) = Append(Filled(chunks, put), Extra(rest))
            BY <3>1, PutSplits
        <3>3. QED BY <3>2
    <2>3. put = <<>> /\ rest = src /\ last.data \o put = last.data
        BY <1>3, <2>1, <2>2, EmptySeq, ConcatEmptySeq
    <2>4. Filled(chunks, put) = chunks
        <3>1. [capacity |-> last.capacity, data |-> last.data \o put] = last
            BY <1>3, <2>3 DEF Chunk
        <3>2. QED BY <1>3, <3>1, Zenon DEF Filled
    <2>5. PICK e : e = Extra(src)
        OBVIOUS
    <2>6. /\ whole = Append(chunks, e) /\ e \in Chunk(S)
          /\ e.data = src /\ e.capacity = line
        BY <1>2, <2>2, <2>3, <2>4, <2>5, PartsOfChunks DEF Extra
    <2>7. LinesOf(e, line) = <<src>>
        <3>1. PICK c : c = [capacity |-> 0, data |-> <<>>]
            OBVIOUS
        <3>2. c \in Chunk(S) /\ c.data = <<>> /\ HoldsLines(c, 0, line)
            BY <3>1, EmptySeq DEF Chunk, HoldsLines
        <3>3. Extends(e, c, src)
            BY <2>6, <3>2, ConcatEmptySeq DEF Extends
        <3>4. LinesOf(e, line) = Append(LinesOf(c, line), src)
            <4>1. 0 \in Nat
                OBVIOUS
            <4>2. QED BY <2>6, <3>2, <3>3, <4>1, OneMoreLine
        <3>5. LinesOf(c, line) = <<>>
            <4>1. 0 \div line = 0
                OBVIOUS
            <4>2. LinesOf(c, line) \in Seq(T) /\ Len(LinesOf(c, line)) = 0
                BY <1>4, <1>5, <3>2, <4>1 DEF LinesOf
            <4>3. QED BY <4>2, EmptySeq
        <3>6. QED BY <3>4, <3>5
    <2>8. BitmapRows(whole, line) = (b \o a) \o <<src>>
        BY <1>6, <2>6, <2>7, OneMoreDrawn
    <2>9. whole \in Chunks(S) /\ whole # <<>> /\ Last(whole) = e
        <3>1. whole \in Chunks(S)
            BY <2>6, OneMoreChunk
        <3>2. QED BY <2>6, <3>1, LastAppended, Zenon DEF Chunks
    <2>10. InLines(whole, line)
        <3>1. 1 * line = line /\ 1 <= 1 /\ 1 \in Nat
            OBVIOUS
        <3>2. QED BY <2>6, <2>9, <3>1 DEF InLines
    <2>11. QED BY <1>5, <1>6, <1>7, <2>8, <2>9, <2>10
<1>11. QED BY <1>1, <1>9, <1>10

-----------------------------------------------------------------------------
(* PutRows. *)

FirstChunk(capacity) == [capacity |-> capacity, data |-> <<>>]

\* f is the recursive function in PutRows, as far as n.
Puts(f, capacity, rows, n) ==
    f = [k \in 0..n |-> IF k = 0 THEN <<FirstChunk(capacity)>>
                                 ELSE PutBytesAlign(f[k - 1], rows[k])]

\* Putting n rows extends to putting n + 1.
LEMMA PutsStep ==
    ASSUME NEW capacity, NEW rows, NEW n \in Nat, NEW f, Puts(f, capacity, rows, n)
    PROVE  \E g : Puts(g, capacity, rows, n + 1)
<1>1. PICK e : e = PutBytesAlign(f[n], rows[n + 1])
    OBVIOUS
<1>2. PICK g : g = [k \in 0..(n + 1) |-> IF k \in 0..n THEN f[k] ELSE e]
    OBVIOUS
<1>3. ASSUME NEW k \in 0..(n + 1)
      PROVE  g[k] = (IF k = 0 THEN <<FirstChunk(capacity)>>
                              ELSE PutBytesAlign(g[k - 1], rows[k]))
    <2>1. CASE k \in 0..n
        <3>1. g[k] = f[k] /\ f[k] = IF k = 0 THEN <<FirstChunk(capacity)>>
                                             ELSE PutBytesAlign(f[k - 1], rows[k])
            BY <1>2, <2>1 DEF Puts
        <3>2. k # 0 => g[k - 1] = f[k - 1]
            BY <1>2, <2>1
        <3>3. QED BY <3>1, <3>2
    <2>2. CASE k = n + 1
        <3>1. g[k] = e /\ g[k - 1] = f[n] /\ k # 0
            BY <1>2, <2>2
        <3>2. QED BY <1>1, <2>2, <3>1
    <2>3. QED BY <2>1, <2>2
<1>4. QED BY <1>2, <1>3 DEF Puts

\* So the recursive function PutRows is built from exists.
LEMMA PutsExists ==
    ASSUME NEW capacity, NEW rows, NEW n \in Nat
    PROVE  \E f : Puts(f, capacity, rows, n)
<1> DEFINE Done(k) == \E f : Puts(f, capacity, rows, k)
           G == {k \in 0..n : Done(k)}
<1>1. 0 \in G
    <2>1. PICK f : f = [k \in 0..0 |-> <<FirstChunk(capacity)>>]
        OBVIOUS
    <2>2. Puts(f, capacity, rows, 0)
        BY <2>1 DEF Puts
    <2>3. QED BY <2>2
<1>2. ASSUME NEW k \in 0..(n - 1), k \in G PROVE k + 1 \in G
    <2>1. PICK f : Puts(f, capacity, rows, k)
        BY <1>2
    <2>2. k \in Nat /\ k + 1 \in 0..n
        OBVIOUS
    <2>3. Done(k + 1)
        BY <2>1, <2>2, PutsStep
    <2>4. QED BY <2>2, <2>3
<1> HIDE DEF G
<1>3. n \in G
    BY <1>1, <1>2, Reaches
<1>4. QED BY <1>3 DEF G

\* The chunk lists after each of n rows.
Steps(f, capacity, rows, n) ==
    /\ f[0] = <<FirstChunk(capacity)>>
    /\ \A k \in 0..(n - 1) : f[k + 1] = PutBytesAlign(f[k], rows[k + 1])

\* PutRows is the last value of that function.
LEMMA PutRowsLast ==
    ASSUME NEW capacity, NEW rows, Len(rows) \in Nat
    PROVE  \E f : PutRows(capacity, rows) = f[Len(rows)]
                  /\ Steps(f, capacity, rows, Len(rows))
<1> DEFINE f == CHOOSE f : Puts(f, capacity, rows, Len(rows))
<1>1. Puts(f, capacity, rows, Len(rows))
    BY PutsExists, Zenon
<1>2. PutRows(capacity, rows) = f[Len(rows)]
    BY Zenon DEF PutRows, Puts, FirstChunk
<1> HIDE DEF f
<1>3. PICK n \in Nat : n = Len(rows)
    OBVIOUS
<1>4. f[0] = <<FirstChunk(capacity)>>
    BY <1>1, <1>3 DEF Puts
<1>5. ASSUME NEW k \in 0..(n - 1) PROVE f[k + 1] = PutBytesAlign(f[k], rows[k + 1])
    <2>1. k + 1 \in 0..n /\ k + 1 # 0 /\ (k + 1) - 1 = k
        OBVIOUS
    <2>2. f[k + 1] = PutBytesAlign(f[(k + 1) - 1], rows[k + 1])
        BY <1>1, <1>3, <2>1 DEF Puts
    <2>3. QED BY <2>1, <2>2
<1>6. QED BY <1>2, <1>3, <1>4, <1>5 DEF Steps

\* The rows one after the other.
LEMMA OneMoreRow ==
    ASSUME NEW T, NEW rows \in Seq(T), NEW k \in 0..(Len(rows) - 1)
    PROVE  /\ SubSeq(rows, 1, k) \in Seq(T)
           /\ SubSeq(rows, 1, k + 1) = Append(SubSeq(rows, 1, k), rows[k + 1])
           /\ rows[k + 1] \in T
<1>1. PICK n \in Nat : n = Len(rows)
    BY LenProperties
<1>2. \A i \in 1..n : rows[i] \in T
    BY <1>1, ElementOfSeq
<1>3. PICK s, t : s = SubSeq(rows, 1, k) /\ t = SubSeq(rows, 1, k + 1)
    OBVIOUS
<1>4. s \in Seq(T) /\ Len(s) = k /\ \A i \in 1..k : s[i] = rows[i]
    <2>1. \A i \in 1..k : rows[i] \in T
        BY <1>1, <1>2
    <2>2. QED BY <1>3, <2>1, SubSeqProperties
<1>5. t \in Seq(T) /\ Len(t) = k + 1 /\ \A i \in 1..(k + 1) : t[i] = rows[i]
    <2>1. \A i \in 1..(k + 1) : rows[i] \in T
        BY <1>1, <1>2
    <2>2. QED BY <1>3, <2>1, SubSeqProperties
<1>6. rows[k + 1] \in T
    BY <1>1, <1>2
<1>7. Over(t, k + 1) /\ SameUpto(t, s, k) /\ t[k + 1] = rows[k + 1]
    <2>1. t \in [1..(k + 1) -> T]
        BY <1>5, LenProperties
    <2>2. QED BY <1>4, <1>5, <2>1 DEF Over, SameUpto
<1>8. t = Append(s, rows[k + 1])
    <2>1. k \in Nat
        OBVIOUS
    <2>2. QED BY <1>4, <1>6, <1>7, <2>1, AppendedBy
<1>9. QED BY <1>3, <1>4, <1>6, <1>8

\* The chunk list begins with one chunk, empty.
LEMMA FirstIsEmpty ==
    ASSUME NEW S, NEW capacity \in Nat, NEW line \in Nat \ {0}
    PROVE  LET chunks == <<FirstChunk(capacity)>>
           IN  /\ chunks \in Chunks(S) /\ chunks # <<>>
               /\ Last(chunks) = FirstChunk(capacity) /\ Sound(chunks)
               /\ Bytes(chunks) = <<>> /\ BitmapRows(chunks, line) = <<>>
<1>1. PICK c : c = FirstChunk(capacity)
    OBVIOUS
<1>2. c \in Chunk(S) /\ c.data = <<>> /\ c.capacity = capacity /\ Len(c.data) = 0
    BY <1>1, EmptySeq DEF FirstChunk, Chunk
<1>3. <<>> \in Chunks(S) /\ Append(<<>>, c) = <<c>>
    BY EmptySeq DEF Chunks
<1>4. <<c>> \in Chunks(S) /\ <<c>> # <<>> /\ Last(<<c>>) = c
    BY <1>2 DEF Chunks, Last
<1>5. Sound(<<c>>)
    BY <1>2, <1>4 DEF Sound
<1>6. Bytes(<<c>>) = <<>>
    <2>1. Bytes(<<>>) = <<>>
        BY DEF Bytes, FlattenSeq
    <2>2. Bytes(Append(<<>>, c)) = Bytes(<<>>) \o c.data
        BY <1>2, <1>3, OneMoreRead
    <2>3. QED BY <1>2, <1>3, <2>1, <2>2
<1>7. BitmapRows(<<c>>, line) = <<>>
    <2>1. BitmapRows(<<>>, line) = <<>>
        <3>1. PICK e : e = [i \in 1..Len(<<>>) |-> LinesOf(<<>>[i], line)]
            OBVIOUS
        <3>2. e = <<>>
            <4>1. Len(<<>>) = 0 /\ 1..0 = {}
                OBVIOUS
            <4>2. QED BY <3>1, <4>1
        <3>3. BitmapRows(<<>>, line) = FlattenSeq(e)
            BY <3>1, Zenon DEF BitmapRows
        <3>4. QED BY <3>2, <3>3, FlattenNone, Zenon
    <2>2. BitmapRows(Append(<<>>, c), line) = BitmapRows(<<>>, line) \o LinesOf(c, line)
        <3>1. PICK front \in Chunks(S) : front = <<>>
            BY <1>3, Zenon
        <3>2. c \in Chunk(S)
            BY <1>2
        <3>4. BitmapRows(Append(front, c), line) = BitmapRows(front, line) \o LinesOf(c, line)
            BY <3>2, OneMoreDrawn
        <3>3. QED BY <3>1, <3>4, Zenon
    <2>3. LinesOf(c, line) = <<>>
        <3>1. 0 \div line = 0
            OBVIOUS
        <3>2. QED BY <1>2, <3>1 DEF LinesOf
    <2>4. QED BY <1>3, <2>1, <2>2, <2>3
<1>8. QED BY <1>1, <1>4, <1>5, <1>6, <1>7

\* The shape of a pointer: whatever the room, the bytes of its rows.
LEMMA PutRowsBytes ==
    ASSUME NEW S, NEW capacity \in Nat, NEW rows \in Seq(Seq(S))
    PROVE  Bytes(PutRows(capacity, rows)) = FlattenSeq(rows)
<1>1. PICK n \in Nat : n = Len(rows)
    BY LenProperties
<1>2. PICK f : PutRows(capacity, rows) = f[n] /\ Steps(f, capacity, rows, n)
    BY <1>1, PutRowsLast
<1> DEFINE Put(k) == /\ f[k] \in Chunks(S) /\ f[k] # <<>> /\ Sound(f[k])
                     /\ Bytes(f[k]) = FlattenSeq(SubSeq(rows, 1, k))
           G == {k \in 0..n : Put(k)}
<1>3. 0 \in G
    <2>1. SubSeq(rows, 1, 0) = <<>>
        BY SubSeqEmpty
    <2>2. 1 \in Nat \ {0}
        OBVIOUS
    <2>3. Put(0)
        BY <1>2, <2>1, <2>2, FirstIsEmpty, FlattenNone DEF Steps
    <2>4. QED BY <2>3
<1>4. ASSUME NEW k \in 0..(n - 1), k \in G PROVE k + 1 \in G
    <2>1. Put(k)
        BY <1>4
    <2>2. f[k + 1] = PutBytesAlign(f[k], rows[k + 1])
        BY <1>2 DEF Steps
    <2>3. PICK s, src : s = SubSeq(rows, 1, k) /\ src = rows[k + 1]
        OBVIOUS
    <2>4. s \in Seq(Seq(S)) /\ src \in Seq(S) /\ SubSeq(rows, 1, k + 1) = Append(s, src)
        BY <1>1, <2>3, OneMoreRow
    <2>5. /\ f[k + 1] \in Chunks(S) /\ f[k + 1] # <<>> /\ Sound(f[k + 1])
          /\ Bytes(f[k + 1]) = Bytes(f[k]) \o src
        BY <2>1, <2>2, <2>3, <2>4, PutBytes
    <2>6. FlattenSeq(Append(s, src)) = FlattenSeq(s) \o src
        BY <2>4, FlattenAppend
    <2>7. Put(k + 1)
        BY <2>1, <2>3, <2>4, <2>5, <2>6
    <2>8. k + 1 \in 0..n
        OBVIOUS
    <2>9. QED BY <2>7, <2>8
<1> HIDE DEF G
<1>5. n \in G
    BY <1>3, <1>4, Reaches
<1>6. Put(n)
    BY <1>5 DEF G
<1>7. QED BY <1>1, <1>2, <1>6, SubSeqFull

\* The rows of an image: the device draws them all when the first chunk has room
\* for whole lines only.
LEMMA PutRowsLines ==
    ASSUME NEW S, NEW line \in Nat \ {0}, NEW room \in Nat,
           NEW rows \in Seq(Seq(S)), \A i \in 1..Len(rows) : Len(rows[i]) = line
    PROVE  BitmapRows(PutRows(room * line, rows), line) = rows
<1>1. PICK n \in Nat : n = Len(rows)
    BY LenProperties
<1>2. PICK capacity \in Nat : capacity = room * line
    OBVIOUS
<1>3. PICK f : PutRows(capacity, rows) = f[n] /\ Steps(f, capacity, rows, n)
    BY <1>1, PutRowsLast
<1> DEFINE Put(k) == /\ f[k] \in Chunks(S) /\ f[k] # <<>> /\ InLines(f[k], line)
                     /\ BitmapRows(f[k], line) = SubSeq(rows, 1, k)
           G == {k \in 0..n : Put(k)}
<1>4. 0 \in G
    <2>1. SubSeq(rows, 1, 0) = <<>>
        BY SubSeqEmpty
    <2>2. InLines(<<FirstChunk(capacity)>>, line)
        <3>1. /\ Last(<<FirstChunk(capacity)>>).capacity = room * line
              /\ Len(Last(<<FirstChunk(capacity)>>).data) = 0 * line
              /\ 0 \in Nat /\ 0 <= room
            BY <1>2, EmptySeq DEF FirstChunk, Last
        <3>2. QED BY <3>1 DEF InLines
    <2>3. Put(0)
        BY <1>3, <2>1, <2>2, FirstIsEmpty DEF Steps
    <2>4. QED BY <2>3
<1>5. ASSUME NEW k \in 0..(n - 1), k \in G PROVE k + 1 \in G
    <2>1. Put(k)
        BY <1>5
    <2>2. f[k + 1] = PutBytesAlign(f[k], rows[k + 1])
        BY <1>3 DEF Steps
    <2>3. PICK s, src : s = SubSeq(rows, 1, k) /\ src = rows[k + 1]
        OBVIOUS
    <2>4. s \in Seq(Seq(S)) /\ src \in Seq(S) /\ SubSeq(rows, 1, k + 1) = Append(s, src)
        BY <1>1, <2>3, OneMoreRow
    <2>5. Len(src) = line
        BY <1>1, <2>3
    <2>6. /\ f[k + 1] \in Chunks(S) /\ f[k + 1] # <<>> /\ InLines(f[k + 1], line)
          /\ BitmapRows(f[k + 1], line) = Append(BitmapRows(f[k], line), src)
        <3>1. PICK chunks : chunks = f[k]
            OBVIOUS
        <3>2. chunks \in Chunks(S) /\ chunks # <<>> /\ InLines(chunks, line)
            BY <2>1, <3>1
        <3>3. LET put == PutBytesAlign(chunks, src)
              IN  /\ put \in Chunks(S) /\ put # <<>> /\ InLines(put, line)
                  /\ BitmapRows(put, line) = Append(BitmapRows(chunks, line), src)
            BY <2>4, <2>5, <3>2, PutLine
        <3>4. QED BY <2>2, <2>3, <3>1, <3>3
    <2>7. Put(k + 1)
        BY <2>1, <2>3, <2>4, <2>6
    <2>8. k + 1 \in 0..n
        OBVIOUS
    <2>9. QED BY <2>7, <2>8
<1> HIDE DEF G
<1>6. n \in G
    BY <1>4, <1>5, Reaches
<1>7. Put(n)
    BY <1>6 DEF G
<1>8. QED BY <1>1, <1>2, <1>3, <1>7, SubSeqFull

\* BltBits cuts the first chunk at a line.
LEMMA CapacityInLines ==
    ASSUME NEW rows \in Nat, NEW line \in Nat \ {0}, NEW limit \in Nat
    PROVE  \E room \in Nat : ImageCapacity(rows, line, limit) = room * line
<1>1. PICK q, r : q = limit \div line /\ r = limit % line
    OBVIOUS
<1>2. q \in Nat /\ r \in Nat /\ limit = q * line + r
    BY <1>1, QuotientAndRest
<1>3. limit - r = q * line /\ q * line \in Int /\ rows * line \in Int
    BY <1>2
<1>4. ImageCapacity(rows, line, limit) = rows * line
      \/ ImageCapacity(rows, line, limit) = q * line
    BY <1>1, <1>3 DEF ImageCapacity, Smaller
<1>5. QED BY <1>2, <1>4

-----------------------------------------------------------------------------
(* Rotations. *)

\* A BLT_INFO of a whole bitmap.
Bitmap(w, h, pitch, rotation_) ==
    [bits |-> 0, pitch |-> pitch, width |-> w, height |-> h, offset |-> Origin,
     rotation |-> rotation_]

\* Each rotation as so many quarter turns.
LEMMA TurnsOf ==
    ASSUME NEW p, NEW w, NEW h
    PROVE  /\ Turned(p, w, h, Turns("identity")) = p
           /\ Turned(p, w, h, Turns("rotate90")) = QuarterTurn(p, w)
           /\ Turned(p, w, h, Turns("rotate180")) = QuarterTurn(QuarterTurn(p, w), h)
           /\ Turned(p, w, h, Turns("rotate270"))
                  = QuarterTurn(QuarterTurn(QuarterTurn(p, w), h), w)
<1>1. /\ Turns("identity") = 0 /\ Turns("rotate90") = 1
      /\ Turns("rotate180") = 2 /\ Turns("rotate270") = 3
    BY Zenon DEF Turns
<1>2. 0 # 1 /\ 0 # 2 /\ 0 # 3 /\ 1 # 2 /\ 1 # 3 /\ 2 # 3
    OBVIOUS
<1>3. QED BY <1>1, <1>2, Zenon DEF Turned

\* The steps from pixel to pixel and from row to row (GetPitches).
LEMMA Pitches ==
    ASSUME NEW w, NEW h, NEW pitch \in Int
    PROVE  /\ PixelPitch(Bitmap(w, h, pitch, "identity")) = 1
           /\ PixelPitch(Bitmap(w, h, pitch, "rotate90")) = -pitch
           /\ PixelPitch(Bitmap(w, h, pitch, "rotate180")) = -1
           /\ PixelPitch(Bitmap(w, h, pitch, "rotate270")) = pitch
           /\ RowPitch(Bitmap(w, h, pitch, "identity")) = pitch
           /\ RowPitch(Bitmap(w, h, pitch, "rotate90")) = 1
           /\ RowPitch(Bitmap(w, h, pitch, "rotate180")) = -pitch
           /\ RowPitch(Bitmap(w, h, pitch, "rotate270")) = -1
<1>1. \A r : Bitmap(w, h, pitch, r).rotation = r /\ Bitmap(w, h, pitch, r).pitch = pitch
    BY DEF Bitmap
<1>2. QED BY <1>1 DEF PixelPitch, RowPitch

\* The first pixel of a rectangle (GetRowStart).
LEMMA RowStarts ==
    ASSUME NEW w \in Int, NEW h \in Int, NEW pitch \in Int,
           NEW r, r.left \in Int, r.top \in Int
    PROVE  /\ GetRowStart(Bitmap(w, h, pitch, "identity"), r) = r.top * pitch + r.left
           /\ GetRowStart(Bitmap(w, h, pitch, "rotate90"), r)
                  = (h - 1 - r.left) * pitch + r.top
           /\ GetRowStart(Bitmap(w, h, pitch, "rotate180"), r)
                  = (h - 1 - r.top) * pitch + (w - 1 - r.left)
           /\ GetRowStart(Bitmap(w, h, pitch, "rotate270"), r)
                  = r.left * pitch + (w - 1 - r.top)
<1>1. \A t : /\ Bitmap(w, h, pitch, t).rotation = t /\ Bitmap(w, h, pitch, t).pitch = pitch
             /\ Bitmap(w, h, pitch, t).width = w /\ Bitmap(w, h, pitch, t).height = h
             /\ Bitmap(w, h, pitch, t).bits = 0
             /\ Bitmap(w, h, pitch, t).offset.x = 0 /\ Bitmap(w, h, pitch, t).offset.y = 0
    BY DEF Bitmap, Origin
<1>2. ASSUME NEW b
      PROVE  LET left == r.left + b.offset.x
                 top == r.top + b.offset.y
             IN  /\ b.rotation = "identity" =>
                        GetRowStart(b, r) = b.bits + (top * b.pitch + left)
                 /\ b.rotation = "rotate90" =>
                        GetRowStart(b, r) = b.bits + ((b.height - 1 - left) * b.pitch + top)
                 /\ b.rotation = "rotate180" =>
                        GetRowStart(b, r) = b.bits + ((b.height - 1 - top) * b.pitch
                                                + (b.width - 1 - left))
                 /\ b.rotation = "rotate270" =>
                        GetRowStart(b, r) = b.bits + (left * b.pitch
                                                + (b.width - 1 - top))
    BY Zenon DEF GetRowStart
<1>3. r.left + 0 = r.left /\ r.top + 0 = r.top
    OBVIOUS
<1>4. /\ GetRowStart(Bitmap(w, h, pitch, "identity"), r) = 0 + (r.top * pitch + r.left)
      /\ GetRowStart(Bitmap(w, h, pitch, "rotate90"), r)
             = 0 + ((h - 1 - r.left) * pitch + r.top)
      /\ GetRowStart(Bitmap(w, h, pitch, "rotate180"), r)
             = 0 + ((h - 1 - r.top) * pitch + (w - 1 - r.left))
      /\ GetRowStart(Bitmap(w, h, pitch, "rotate270"), r)
             = 0 + (r.left * pitch + (w - 1 - r.top))
    BY <1>1, <1>2, <1>3
<1>5. QED BY <1>4

\* Where rotation t takes pixel x, y, into a bitmap of w by h pixels.
TurnedInto(w, h, t, x, y) ==
    Turned([x |-> x, y |-> y], IF Sideways(t) THEN h ELSE w, IF Sideways(t) THEN w ELSE h,
           Turns(t))

\* The first pixel of a rectangle and the pitches lead to where each of the four
\* rotations takes each of its pixels, in a bitmap of any size.
THEOREM AddressesTurnEverywhere ==
    ASSUME NEW w \in Nat, NEW h \in Nat, NEW pitch \in Nat, NEW t \in Rotations,
           NEW r, r.left \in Int, r.top \in Int, NEW x \in Int, NEW y \in Int
    PROVE  AddressOf(Bitmap(w, h, pitch, t), r, [x |-> x, y |-> y])
               = TurnedInto(w, h, t, r.left + x, r.top + y).y * pitch
                 + TurnedInto(w, h, t, r.left + x, r.top + y).x
<1> DEFINE q == TurnedInto(w, h, t, r.left + x, r.top + y)
           a == AddressOf(Bitmap(w, h, pitch, t), r, [x |-> x, y |-> y])
<1>1. a = GetRowStart(Bitmap(w, h, pitch, t), r) + y * RowPitch(Bitmap(w, h, pitch, t))
              + x * PixelPitch(Bitmap(w, h, pitch, t))
    BY DEF AddressOf
<1>2. PICK c \in Int, d \in Int : c = r.left /\ d = r.top
    OBVIOUS
<1>3. PICK e \in Int, g \in Int : e = c + x /\ g = d + y
    OBVIOUS
<1> DEFINE Turn(u, v) == Turned([x |-> e, y |-> g], u, v, Turns(t))
<1>9. /\ ~ Sideways(t) => q = Turn(w, h)
      /\ Sideways(t) => q = Turn(h, w)
    BY <1>2, <1>3, Zenon DEF TurnedInto
<1>10. w \in Int /\ h \in Int
    OBVIOUS
<1>4. CASE t = "identity"
    <2>5. ~ Sideways(t)
        BY <1>4 DEF Sideways
    <2>6. q = Turn(w, h)
        BY <1>9, <2>5, Zenon
    <2>7. Turned([x |-> e, y |-> g], w, h, Turns("identity")) = [x |-> e, y |-> g]
        BY <1>10, TurnsOf DEF QuarterTurn
    <2>1. q = [x |-> e, y |-> g]
        BY <1>4, <2>6, <2>7, Zenon
    <2>2. a = d * pitch + c + y * pitch + x * 1
        BY <1>1, <1>2, <1>4, RowStarts, Pitches
    <2>3. (d + y) * pitch = d * pitch + y * pitch
        OBVIOUS
    <2>4. QED BY <1>1, <1>3, <2>1, <2>2, <2>3
<1>5. CASE t = "rotate90"
    <2>5. Sideways(t)
        BY <1>5 DEF Sideways
    <2>6. q = Turn(h, w)
        BY <1>9, <2>5, Zenon
    <2>7. Turned([x |-> e, y |-> g], h, w, Turns("rotate90")) = [x |-> g, y |-> h - 1 - e]
        BY <1>10, TurnsOf DEF QuarterTurn
    <2>1. q = [x |-> g, y |-> h - 1 - e]
        BY <1>5, <2>6, <2>7, Zenon
    <2>2. a = (h - 1 - c) * pitch + d + y * 1 + x * (-pitch)
        BY <1>1, <1>2, <1>5, RowStarts, Pitches
    <2>3. (h - 1 - (c + x)) * pitch = (h - 1 - c) * pitch + x * (-pitch)
        OBVIOUS
    <2>4. QED BY <1>1, <1>3, <2>1, <2>2, <2>3
<1>6. CASE t = "rotate180"
    <2>5. ~ Sideways(t)
        BY <1>6 DEF Sideways
    <2>6. q = Turn(w, h)
        BY <1>9, <2>5, Zenon
    <2>7. Turned([x |-> e, y |-> g], w, h, Turns("rotate180")) =
              [x |-> w - 1 - e, y |-> h - 1 - g]
        BY <1>10, TurnsOf DEF QuarterTurn
    <2>1. q = [x |-> w - 1 - e, y |-> h - 1 - g]
        BY <1>6, <2>6, <2>7, Zenon
    <2>2. a = (h - 1 - d) * pitch + (w - 1 - c) + y * (-pitch) + x * (-1)
        BY <1>1, <1>2, <1>6, RowStarts, Pitches
    <2>3. (h - 1 - (d + y)) * pitch = (h - 1 - d) * pitch + y * (-pitch)
        OBVIOUS
    <2>4. QED BY <1>1, <1>3, <2>1, <2>2, <2>3
<1>7. CASE t = "rotate270"
    <2>5. Sideways(t)
        BY <1>7 DEF Sideways
    <2>6. q = Turn(h, w)
        BY <1>9, <2>5, Zenon
    <2>7. Turned([x |-> e, y |-> g], h, w, Turns("rotate270")) = [x |-> w - 1 - g, y |-> e]
        BY <1>10, TurnsOf DEF QuarterTurn
    <2>1. q = [x |-> w - 1 - g, y |-> e]
        BY <1>7, <2>6, <2>7, Zenon
    <2>2. a = c * pitch + (w - 1 - d) + y * (-1) + x * pitch
        BY <1>1, <1>2, <1>7, RowStarts, Pitches
    <2>3. (c + x) * pitch = c * pitch + x * pitch
        OBVIOUS
    <2>4. QED BY <1>1, <1>3, <2>1, <2>2, <2>3
<1>8. QED BY <1>4, <1>5, <1>6, <1>7 DEF Rotations

-----------------------------------------------------------------------------
(* The places of the desktop on the screen. *)

\* The rotations of a path.
PathRotations == {"identity", "rotate90"}

Inside(r, x, y) == x \in 0..(WidthOf(r) - 1) /\ y \in 0..(HeightOf(r) - 1)

\* The desktop is as large as the screen, or its sides are swapped.
LEMMA Sizes ==
    /\ WidthOf("identity") = Width /\ HeightOf("identity") = Height
    /\ WidthOf("rotate90") = Height /\ HeightOf("rotate90") = Width
    /\ \A r \in PathRotations : WidthOf(r) \in Nat \ {0} /\ HeightOf(r) \in Nat \ {0}
<1>1. ~ Sideways("identity") /\ Sideways("rotate90")
    BY DEF Sideways
<1>2. QED BY <1>1, PresentAssumption DEF WidthOf, HeightOf, PathRotations

\* The place of a pixel, by arithmetic alone.
LEMMA Places ==
    ASSUME NEW x \in Int, NEW y \in Int
    PROVE  /\ PlaceOf("identity", x, y) = y * Width + x
           /\ PlaceOf("rotate90", x, y) = (Height - 1 - x) * Width + y
<1>1. PICK p : p = [x |-> x, y |-> y]
    OBVIOUS
<1>2. /\ PlaceOf("identity", x, y) = p.y * Width + p.x
      /\ PlaceOf("rotate90", x, y) = QuarterTurn(p, Height).y * Width
                                          + QuarterTurn(p, Height).x
    <2>1. ASSUME NEW r
          PROVE  PlaceOf(r, x, y) =
                     Turned(p, WidthOf(r), HeightOf(r), Turns(r)).y * Width
                     + Turned(p, WidthOf(r), HeightOf(r), Turns(r)).x
        BY <1>1, Zenon DEF PlaceOf
    <2>2. /\ Turned(p, WidthOf("identity"), HeightOf("identity"), Turns("identity")) = p
          /\ Turned(p, WidthOf("rotate90"), HeightOf("rotate90"), Turns("rotate90"))
                 = QuarterTurn(p, Height)
        <3>1. Turned(p, WidthOf("rotate90"), HeightOf("rotate90"), Turns("rotate90"))
                  = QuarterTurn(p, WidthOf("rotate90"))
            BY TurnsOf
        <3>2. Turned(p, WidthOf("identity"), HeightOf("identity"), Turns("identity")) = p
            BY TurnsOf
        <3>3. QED BY <3>1, <3>2, Sizes, Zenon
    <2>3. QED BY <2>1, <2>2, Zenon
<1>3. p.x = x /\ p.y = y
    BY <1>1
<1>4. QuarterTurn(p, Height).y = Height - 1 - x /\ QuarterTurn(p, Height).x = y
    BY <1>3 DEF QuarterTurn
<1>5. QED BY <1>2, <1>3, <1>4

\* Rows one after the other do not overlap.
LEMMA RowsApart ==
    ASSUME NEW w \in Nat \ {0}, NEW h \in Nat,
           NEW x \in 0..(w - 1), NEW y \in 0..(h - 1)
    PROVE  y * w + x \in 0..(w * h - 1)
<1>1. y * w \in Nat /\ y * w <= (h - 1) * w /\ (h - 1) * w = w * h - w
    OBVIOUS
<1>2. w * h \in Int
    OBVIOUS
<1>3. QED BY <1>1, <1>2

\* A pixel of the desktop is shown inside the frame buffer ...
LEMMA PlaceInside ==
    ASSUME NEW r \in PathRotations, NEW x, NEW y, Inside(r, x, y)
    PROVE  PlaceOf(r, x, y) \in FrameBuffer
<1>1. Width \in Nat \ {0} /\ Height \in Nat \ {0}
    BY PresentAssumption
<1>2. CASE r = "identity"
    <2>1. x \in 0..(Width - 1) /\ y \in 0..(Height - 1)
        BY <1>2, Sizes DEF Inside
    <2>2. y * Width + x \in 0..(Width * Height - 1)
        BY <1>1, <2>1, RowsApart
    <2>3. PlaceOf("identity", x, y) = y * Width + x
        BY <1>1, <2>1, Places
    <2>4. QED BY <1>2, <2>2, <2>3, Zenon DEF FrameBuffer
<1>3. CASE r = "rotate90"
    <2>1. x \in 0..(Height - 1) /\ y \in 0..(Width - 1)
        BY <1>3, Sizes DEF Inside
    <2>2. Height - 1 - x \in 0..(Height - 1)
        BY <1>1, <2>1
    <2>3. (Height - 1 - x) * Width + y \in 0..(Width * Height - 1)
        BY <1>1, <2>1, <2>2, RowsApart
    <2>4. PlaceOf("rotate90", x, y) = (Height - 1 - x) * Width + y
        BY <1>1, <2>1, Places
    <2>5. QED BY <1>3, <2>3, <2>4, Zenon DEF FrameBuffer
<1>4. QED BY <1>2, <1>3 DEF PathRotations

\* ... and no other pixel at the same place.
LEMMA PlaceUnique ==
    ASSUME NEW r \in PathRotations, NEW x, NEW y, NEW u, NEW v,
           Inside(r, x, y), Inside(r, u, v), PlaceOf(r, x, y) = PlaceOf(r, u, v)
    PROVE  x = u /\ y = v
<1>1. Width \in Nat \ {0} /\ Height \in Nat \ {0}
    BY PresentAssumption
<1>2. CASE r = "identity"
    <2>1. /\ x \in 0..(Width - 1) /\ y \in 0..(Height - 1)
          /\ u \in 0..(Width - 1) /\ v \in 0..(Height - 1)
        BY <1>2, Sizes DEF Inside
    <2>5. x \in Int /\ y \in Nat /\ u \in Int /\ v \in Nat
        BY <1>1, <2>1
    <2>6. /\ PlaceOf("identity", x, y) = y * Width + x
          /\ PlaceOf("identity", u, v) = v * Width + u
        BY <2>5, Places
    <2>2. y * Width + x = v * Width + u
        BY <1>2, <2>6, Zenon
    <2>3. (y * Width + x) % Width = x /\ (y * Width + x) \div Width = y
        BY <1>1, <2>1, <2>5, RowAndColumn
    <2>4. (v * Width + u) % Width = u /\ (v * Width + u) \div Width = v
        BY <1>1, <2>1, <2>5, RowAndColumn
    <2>7. QED BY <2>2, <2>3, <2>4, Zenon
<1>3. CASE r = "rotate90"
    <2>1. /\ x \in 0..(Height - 1) /\ y \in 0..(Width - 1)
          /\ u \in 0..(Height - 1) /\ v \in 0..(Width - 1)
        BY <1>3, Sizes DEF Inside
    <2>8. x \in Int /\ y \in Int /\ u \in Int /\ v \in Int
        BY <1>1, <2>1
    <2>9. /\ PlaceOf("rotate90", x, y) = (Height - 1 - x) * Width + y
          /\ PlaceOf("rotate90", u, v) = (Height - 1 - u) * Width + v
        BY <2>8, Places
    <2>2. (Height - 1 - x) * Width + y = (Height - 1 - u) * Width + v
        BY <1>3, <2>9, Zenon
    <2>3. PICK i \in 0..(Height - 1), j \in 0..(Height - 1) :
              i = Height - 1 - x /\ j = Height - 1 - u
        BY <1>1, <2>1
    <2>4. /\ (i * Width + y) % Width = y /\ (i * Width + y) \div Width = i
          /\ (j * Width + v) % Width = v /\ (j * Width + v) \div Width = j
        <3>1. i \in Nat /\ j \in Nat
            BY <1>1, <2>3
        <3>2. y \in 0..(Width - 1) /\ v \in 0..(Width - 1)
            BY <2>1
        <3>3. (i * Width + y) % Width = y /\ (i * Width + y) \div Width = i
            BY <1>1, <3>1, <3>2, RowAndColumn
        <3>4. (j * Width + v) % Width = v /\ (j * Width + v) \div Width = j
            BY <1>1, <3>1, <3>2, RowAndColumn
        <3>5. QED BY <3>3, <3>4
    <2>5. i * Width + y = j * Width + v
        BY <2>2, <2>3, Zenon
    <2>6. y = v /\ i = j
        BY <2>4, <2>5, Zenon
    <2>7. QED BY <1>1, <2>1, <2>3, <2>6
<1>4. QED BY <1>2, <1>3 DEF PathRotations

\* The pixels of the desktop as records and as coordinates.
LEMMA DesktopPixels ==
    ASSUME NEW r \in PathRotations
    PROVE  /\ \A p \in Desktop(r) : Inside(r, p.x, p.y) /\ p = [x |-> p.x, y |-> p.y]
           /\ \A x, y : Inside(r, x, y) => [x |-> x, y |-> y] \in Desktop(r)
BY DEF Desktop, Inside

\* The screen before a present names its pixels.
LEMMA NamedOld ==
    ASSUME NEW r \in PathRotations
    PROVE  /\ DOMAIN Named(r) = FrameBuffer
           /\ \A a \in FrameBuffer : Named(r)[a] # Fault
           /\ \A x, y : Inside(r, x, y) => Named(r)[PlaceOf(r, x, y)] = Old(x, y)
<1> DEFINE At(a) == CHOOSE q \in Desktop(r) : PlaceOf(r, q.x, q.y) = a
<1>1. DOMAIN Named(r) = FrameBuffer
    BY DEF Named
<1>2. \A a \in FrameBuffer : Named(r)[a] = Old(At(a).x, At(a).y)
    BY Zenon DEF Named
<1>3. \A i, j : Old(i, j) # Fault
    BY DEF Old, Fault
<1>4. ASSUME NEW x, NEW y, Inside(r, x, y)
      PROVE  Named(r)[PlaceOf(r, x, y)] = Old(x, y)
    <2>1. PICK q : q = [x |-> x, y |-> y]
        OBVIOUS
    <2>2. q \in Desktop(r) /\ q.x = x /\ q.y = y
        BY <1>4, <2>1, DesktopPixels
    <2>3. PICK a : a = PlaceOf(r, x, y)
        OBVIOUS
    <2>4. At(a) \in Desktop(r) /\ PlaceOf(r, At(a).x, At(a).y) = a
        BY <2>2, <2>3, Zenon
    <2>5. Inside(r, At(a).x, At(a).y)
        BY <2>4, DesktopPixels, Zenon
    <2>6. At(a).x = x /\ At(a).y = y
        BY <1>4, <2>3, <2>4, <2>5, PlaceUnique
    <2>7. QED BY <1>2, <1>4, <2>3, <2>6, PlaceInside
<1>5. QED BY <1>1, <1>2, <1>3, <1>4

-----------------------------------------------------------------------------
(* Blits to the screen. *)

RectOf(r, rect) == rect \in RectsOf(WidthOf(r), HeightOf(r))

\* The whole screen as a destination.
Screen(r) == Bitmap(Width, Height, Width, r)

\* A rectangle of the desktop lies inside it and is not empty.
LEMMA RectBounds ==
    ASSUME NEW w \in Nat \ {0}, NEW h \in Nat \ {0}, NEW rect \in RectsOf(w, h)
    PROVE  /\ rect.left \in 0..(w - 1) /\ rect.top \in 0..(h - 1)
           /\ rect.right \in 1..w /\ rect.bottom \in 1..h
           /\ rect.left < rect.right /\ rect.top < rect.bottom
           /\ RectWidth(rect) \in 1..w /\ RectHeight(rect) \in 1..h
<1>1. /\ rect.left \in 0..(w - 1) /\ rect.top \in 0..(h - 1)
      /\ rect.right \in 1..w /\ rect.bottom \in 1..h
      /\ rect.left < rect.right /\ rect.top < rect.bottom
    BY DEF RectsOf
<1>2. QED BY <1>1 DEF RectWidth, RectHeight

\* The same of a rectangle, by the rotation of the path.
LEMMA RectInside ==
    ASSUME NEW r \in PathRotations, NEW rect, RectOf(r, rect)
    PROVE  /\ rect.left \in Nat /\ rect.top \in Nat
           /\ rect.right \in Nat /\ rect.bottom \in Nat
           /\ rect.left < rect.right /\ rect.top < rect.bottom
           /\ rect.right <= WidthOf(r) /\ rect.bottom <= HeightOf(r)
           /\ RectWidth(rect) \in Nat \ {0} /\ RectHeight(rect) \in Nat \ {0}
           /\ RectWidth(rect) = rect.right - rect.left
           /\ RectHeight(rect) = rect.bottom - rect.top
<1>1. PICK w \in Nat \ {0}, h \in Nat \ {0} : w = WidthOf(r) /\ h = HeightOf(r)
    BY Sizes
<1>2. rect \in RectsOf(w, h)
    BY <1>1, Zenon DEF RectOf
<1>3. /\ rect.left \in 0..(w - 1) /\ rect.top \in 0..(h - 1)
      /\ rect.right \in 1..w /\ rect.bottom \in 1..h
      /\ rect.left < rect.right /\ rect.top < rect.bottom
      /\ RectWidth(rect) \in 1..w /\ RectHeight(rect) \in 1..h
    BY <1>2, RectBounds
<1>4. QED BY <1>1, <1>3 DEF RectWidth, RectHeight

\* The pixels of a rectangle are the pixels it covers.
LEMMA CoveredPixels ==
    ASSUME NEW r \in PathRotations, NEW rect, RectOf(r, rect)
    PROVE  /\ \A x, y : Covers(rect, x, y) =>
                  /\ Inside(r, x, y)
                  /\ [x |-> x - rect.left, y |-> y - rect.top] \in Pixels(rect)
           /\ \A p \in Pixels(rect) :
                  /\ p.x \in Int /\ p.y \in Int /\ p = [x |-> p.x, y |-> p.y]
                  /\ Covers(rect, rect.left + p.x, rect.top + p.y)
                  /\ Inside(r, rect.left + p.x, rect.top + p.y)
<1>1. PICK w \in Nat \ {0}, h \in Nat \ {0} : w = WidthOf(r) /\ h = HeightOf(r)
    BY Sizes
<1>2. /\ rect.left \in Nat /\ rect.top \in Nat
      /\ rect.right \in Nat /\ rect.bottom \in Nat
      /\ rect.right <= w /\ rect.bottom <= h
    BY <1>1, RectInside
<1>3. ASSUME NEW x, NEW y, Covers(rect, x, y)
      PROVE  /\ Inside(r, x, y)
             /\ [x |-> x - rect.left, y |-> y - rect.top] \in Pixels(rect)
    <2>1. x \in rect.left..(rect.right - 1) /\ y \in rect.top..(rect.bottom - 1)
        BY <1>3 DEF Covers
    <2>2. x \in 0..(w - 1) /\ y \in 0..(h - 1)
        BY <1>2, <2>1
    <2>3. x - rect.left \in 0..((rect.right - rect.left) - 1)
          /\ y - rect.top \in 0..((rect.bottom - rect.top) - 1)
        BY <1>2, <2>1
    <2>4. QED BY <1>1, <2>2, <2>3 DEF Inside, Pixels, RectWidth, RectHeight
<1>4. ASSUME NEW p \in Pixels(rect)
      PROVE  /\ p.x \in Int /\ p.y \in Int /\ p = [x |-> p.x, y |-> p.y]
             /\ Covers(rect, rect.left + p.x, rect.top + p.y)
             /\ Inside(r, rect.left + p.x, rect.top + p.y)
    <2>1. /\ p.x \in 0..((rect.right - rect.left) - 1)
          /\ p.y \in 0..((rect.bottom - rect.top) - 1)
          /\ p = [x |-> p.x, y |-> p.y]
        BY DEF Pixels, RectWidth, RectHeight
    <2>2. p.x \in Int /\ p.y \in Int
        BY <1>2, <2>1
    <2>3. /\ rect.left + p.x \in rect.left..(rect.right - 1)
          /\ rect.top + p.y \in rect.top..(rect.bottom - 1)
        BY <1>2, <2>1
    <2>4. rect.left + p.x \in 0..(w - 1) /\ rect.top + p.y \in 0..(h - 1)
        BY <1>2, <2>3
    <2>5. QED BY <1>1, <2>1, <2>2, <2>3, <2>4 DEF Covers, Inside
<1>5. QED BY <1>3, <1>4

\* Where BltBits writes a pixel of a rectangle is where the rotation puts it.
LEMMA ScreenAddress ==
    ASSUME NEW r \in PathRotations, NEW rect, rect.left \in Int, rect.top \in Int,
           NEW x \in Int, NEW y \in Int
    PROVE  AddressOf(Screen(r), rect, [x |-> x, y |-> y])
               = PlaceOf(r, rect.left + x, rect.top + y)
<1> DEFINE q == TurnedInto(Width, Height, r, rect.left + x, rect.top + y)
<1>1. Width \in Nat /\ Height \in Nat /\ r \in Rotations
    BY PresentAssumption DEF PathRotations, Rotations
<1>2. AddressOf(Bitmap(Width, Height, Width, r), rect, [x |-> x, y |-> y])
          = q.y * Width + q.x
    BY <1>1, AddressesTurnEverywhere
<1>3. PlaceOf(r, rect.left + x, rect.top + y) = q.y * Width + q.x
    BY Zenon DEF PlaceOf, WidthOf, HeightOf, TurnedInto
<1>4. QED BY <1>2, <1>3, Zenon DEF Screen

\* What BltBits leaves on the screen.
BlitShows(after, before, r, src, rect, source) ==
    /\ DOMAIN after = FrameBuffer
    /\ \A x, y : Inside(r, x, y) =>
           after[PlaceOf(r, x, y)] =
               IF Covers(rect, x, y)
               THEN source[AddressOf(src, rect, [x |-> x - rect.left, y |-> y - rect.top])]
               ELSE before[PlaceOf(r, x, y)]
    /\ \A a \in FrameBuffer :
           \/ after[a] = before[a]
           \/ \E x, y : /\ Covers(rect, x, y)
                        /\ after[a] = source[AddressOf(src, rect,
                                          [x |-> x - rect.left, y |-> y - rect.top])]

\* BltBits writes each pixel of the rectangle once, and nothing else.
LEMMA BltBitsShows ==
    ASSUME NEW r \in PathRotations, NEW rect, RectOf(r, rect),
           NEW before, DOMAIN before = FrameBuffer, NEW src, NEW source
    PROVE  BlitShows(BltBits(before, Screen(r), src, rect, source),
                     before, r, src, rect, source)
<1> DEFINE after == BltBits(before, Screen(r), src, rect, source)
           Written == {AddressOf(Screen(r), rect, p) : p \in Pixels(rect)}
           From(a) == CHOOSE p \in Pixels(rect) : AddressOf(Screen(r), rect, p) = a
           Shown(x, y) == source[AddressOf(src, rect,
                                          [x |-> x - rect.left, y |-> y - rect.top])]
<1>1. after = [a \in FrameBuffer \union Written |->
                  IF a \in Written THEN source[AddressOf(src, rect, From(a))] ELSE before[a]]
    BY Zenon DEF BltBits
<1>2. rect.left \in Nat /\ rect.top \in Nat /\ rect.left \in Int /\ rect.top \in Int
    BY RectInside
<1>3. ASSUME NEW p \in Pixels(rect)
      PROVE  /\ AddressOf(Screen(r), rect, p) = PlaceOf(r, rect.left + p.x, rect.top + p.y)
             /\ Inside(r, rect.left + p.x, rect.top + p.y)
             /\ Covers(rect, rect.left + p.x, rect.top + p.y)
             /\ p = [x |-> (rect.left + p.x) - rect.left, y |-> (rect.top + p.y) - rect.top]
    <2>1. /\ p.x \in Int /\ p.y \in Int /\ p = [x |-> p.x, y |-> p.y]
          /\ Covers(rect, rect.left + p.x, rect.top + p.y)
          /\ Inside(r, rect.left + p.x, rect.top + p.y)
        BY CoveredPixels
    <2>2. AddressOf(Screen(r), rect, [x |-> p.x, y |-> p.y])
              = PlaceOf(r, rect.left + p.x, rect.top + p.y)
        BY <1>2, <2>1, ScreenAddress
    <2>3. (rect.left + p.x) - rect.left = p.x /\ (rect.top + p.y) - rect.top = p.y
        BY <1>2, <2>1
    <2>4. QED BY <2>1, <2>2, <2>3, Zenon
<1>4. Written \subseteq FrameBuffer
    <2>1. ASSUME NEW p \in Pixels(rect)
          PROVE  AddressOf(Screen(r), rect, p) \in FrameBuffer
        <3>1. Inside(r, rect.left + p.x, rect.top + p.y)
            BY <1>3, Zenon
        <3>2. PlaceOf(r, rect.left + p.x, rect.top + p.y) \in FrameBuffer
            BY <3>1, PlaceInside
        <3>3. QED BY <1>3, <3>2, Zenon
    <2>2. QED BY <2>1, Zenon
<1>5. DOMAIN after = FrameBuffer
    <2>1. FrameBuffer \union Written = FrameBuffer
        BY <1>4, Zenon
    <2>2. QED BY <1>1, <2>1, Zenon
<1>6. \A a \in FrameBuffer : after[a] =
          IF a \in Written THEN source[AddressOf(src, rect, From(a))] ELSE before[a]
    BY <1>1, Zenon
<1>7. ASSUME NEW a \in Written
      PROVE  /\ From(a) \in Pixels(rect)
             /\ AddressOf(Screen(r), rect, From(a)) = a
    BY Zenon
<1>8. ASSUME NEW a \in FrameBuffer
      PROVE  \/ after[a] = before[a]
             \/ \E x, y : Covers(rect, x, y) /\ after[a] = Shown(x, y)
    <2>1. CASE a \in Written
        <3>1. PICK p \in Pixels(rect) : p = From(a)
            BY <1>7, <2>1, Zenon
        <3>2. after[a] = Shown(rect.left + p.x, rect.top + p.y)
            BY <1>3, <1>6, <2>1, <3>1, Zenon
        <3>3. Covers(rect, rect.left + p.x, rect.top + p.y)
            BY <1>3, Zenon
        <3>4. QED BY <3>2, <3>3, Zenon
    <2>2. CASE a \notin Written
        BY <1>6, <2>2, Zenon
    <2>3. QED BY <2>1, <2>2, Zenon
<1>9. ASSUME NEW x, NEW y, Inside(r, x, y)
      PROVE  after[PlaceOf(r, x, y)] =
                 IF Covers(rect, x, y) THEN Shown(x, y) ELSE before[PlaceOf(r, x, y)]
    <2>1. PICK a \in FrameBuffer : a = PlaceOf(r, x, y)
        BY <1>9, PlaceInside, Zenon
    <2>2. CASE a \in Written
        <3>1. PICK p \in Pixels(rect) : p = From(a) /\ AddressOf(Screen(r), rect, p) = a
            BY <1>7, <2>2, Zenon
        <3>2. rect.left + p.x = x /\ rect.top + p.y = y
            <4>1. Inside(r, rect.left + p.x, rect.top + p.y)
                BY <1>3, Zenon
            <4>2. PlaceOf(r, rect.left + p.x, rect.top + p.y) = PlaceOf(r, x, y)
                BY <1>3, <2>1, <3>1, Zenon
            <4>3. QED BY <1>9, <4>1, <4>2, PlaceUnique
        <3>3. Covers(rect, x, y) /\ p = [x |-> x - rect.left, y |-> y - rect.top]
            BY <1>3, <3>2, Zenon
        <3>4. after[a] = source[AddressOf(src, rect, p)]
            BY <1>6, <2>2, <3>1, Zenon
        <3>5. after[a] = Shown(x, y)
            BY <3>3, <3>4, Zenon
        <3>6. QED BY <2>1, <3>3, <3>5, Zenon
    <2>3. CASE a \notin Written
        <3>1. ~ Covers(rect, x, y)
            <4>1. SUFFICES ASSUME Covers(rect, x, y) PROVE FALSE
                OBVIOUS
            <4>2. PICK p \in Pixels(rect) : p = [x |-> x - rect.left, y |-> y - rect.top]
                BY <4>1, CoveredPixels
            <4>3. x \in Int /\ y \in Int
                BY <1>2, <4>1 DEF Covers
            <4>4. p.x = x - rect.left /\ p.y = y - rect.top
                BY <4>2
            <4>5. rect.left + p.x = x /\ rect.top + p.y = y
                BY <1>2, <4>3, <4>4
            <4>6. a \in Written
                BY <1>3, <2>1, <4>5, Zenon
            <4>7. QED BY <2>3, <4>6
        <3>2. QED BY <1>6, <2>1, <2>3, <3>1, Zenon
    <2>4. QED BY <2>2, <2>3, Zenon
<1> HIDE DEF after, Shown
<1>10. QED BY <1>5, <1>8, <1>9, Zenon DEF BlitShows, after, Shown

-----------------------------------------------------------------------------
(* What is read of the source. *)

\* The rows of the bitmap are not padded, or the device allows for it.
RowsFit == device = "vga" => VgaPads \subseteq {0}

\* The frame while the desktop is presented.
DesktopFrame ==
    /\ frame.is = "desktop"
    /\ frame.rotation \in PathRotations
    /\ device = "qxl" => frame.rotation = "identity"
    /\ frame.pitch \in Nat /\ WidthOf(frame.rotation) <= frame.pitch
    /\ (RowsFit /\ device = "vga") => frame.pitch = WidthOf(frame.rotation)
    /\ Len(frame.moves) \in {0, 1}
    /\ \A i \in 1..Len(frame.moves) : frame.moves[i] \in Moves(frame.rotation)
    /\ Len(frame.dirty) \in Nat
    /\ \A i \in 1..Len(frame.dirty) : RectOf(frame.rotation, frame.dirty[i])

\* The bottom of the source that the QXL device maps (QxlDod.cpp:3790).
LEMMA MaxBottomBounds ==
    ASSUME NEW r \in PathRotations, NEW rects, Len(rects) \in Nat,
           \A i \in 1..Len(rects) : RectOf(r, rects[i])
    PROVE  /\ MaxBottom(rects) \in Nat
           /\ \A i \in 1..Len(rects) : rects[i].bottom <= MaxBottom(rects)
<1> DEFINE bottoms == {0} \union {rects[i].bottom : i \in 1..Len(rects)}
<1>1. PICK h \in Nat : h = HeightOf(r)
    BY Sizes
<1>2. \A i \in 1..Len(rects) : rects[i].bottom \in 0..h
    BY <1>1, RectInside
<1>3. bottoms \subseteq 0..h /\ 0 \in bottoms
    BY <1>2
<1>4. PICK b \in bottoms : \A c \in bottoms : c <= b
    BY <1>3, LastOf
<1>5. \A c \in bottoms : b >= c
    BY <1>3, <1>4
<1>6. /\ Max(bottoms) \in bottoms
      /\ \A c \in bottoms : Max(bottoms) >= c
    BY <1>4, <1>5, Zenon DEF Max
<1>7. MaxBottom(rects) = Max(bottoms)
    BY Zenon DEF MaxBottom
<1>8. \A i \in 1..Len(rects) : rects[i].bottom \in bottoms
    BY Zenon
<1> HIDE DEF bottoms
<1>9. PICK m \in 0..h : m = MaxBottom(rects) /\ \A c \in bottoms : m >= c
    BY <1>3, <1>6, <1>7, Zenon
<1>10. \A i \in 1..Len(rects) : m >= rects[i].bottom
    BY <1>8, <1>9, Zenon
<1>11. \A i \in 1..Len(rects) : rects[i].bottom <= m
    BY <1>2, <1>10
<1>12. QED BY <1>9, <1>11

\* A pixel of the desktop is never a fault.
LEMMA PictureIsNamed ==
    \A x, y : Picture(frame, x, y) # Fault
<1>1. \A i, j : Old(i, j) # Fault /\ New(i, j) # Fault
    BY DEF Old, New, Fault
<1>2. QED BY <1>1, Zenon DEF Picture

\* A pixel that is mapped.
LEMMA SourceReads ==
    ASSUME DesktopFrame, mapped \in Nat, NEW x, NEW y, Inside(frame.rotation, x, y),
           y * frame.pitch + x < mapped
    PROVE  Source[y * frame.pitch + x] = Picture(frame, x, y)
<1>1. PICK pitch \in Nat \ {0}, w \in Nat \ {0}, h \in Nat \ {0} :
          /\ pitch = frame.pitch /\ w = WidthOf(frame.rotation)
          /\ h = HeightOf(frame.rotation) /\ w <= pitch
    BY Sizes DEF DesktopFrame
<1>2. x \in 0..(w - 1) /\ y \in 0..(h - 1)
    BY <1>1 DEF Inside
<1>3. x \in 0..(pitch - 1) /\ y \in Nat
    BY <1>1, <1>2
<1>4. (y * pitch + x) % pitch = x /\ (y * pitch + x) \div pitch = y
    BY <1>3, RowAndColumn
<1>5. PICK a \in Nat : a = y * pitch + x
    BY <1>3
<1>6. a \in 0..(mapped - 1) /\ a \in Int /\ x < w
    BY <1>1, <1>2, <1>5
<1>7. Source[a] = IF a \in 0..(mapped - 1) /\ a % pitch < w
                  THEN Picture(frame, a % pitch, a \div pitch) ELSE Fault
    BY <1>1, <1>6, Zenon DEF Source
<1>8. QED BY <1>1, <1>4, <1>5, <1>6, <1>7, Zenon

\* All that is drawn of the source is mapped.
LEMMA SourceIsMapped ==
    ASSUME DesktopFrame, device \in {"vga", "qxl"}, RowsFit,
           mapped = SizeToMap, NEW x, NEW y, Inside(frame.rotation, x, y),
           device = "qxl" => y < MaxBottom(frame.dirty)
    PROVE  Source[y * frame.pitch + x] = Picture(frame, x, y)
<1>1. PICK pitch \in Nat \ {0}, w \in Nat \ {0}, h \in Nat \ {0} :
          /\ pitch = frame.pitch /\ w = WidthOf(frame.rotation)
          /\ h = HeightOf(frame.rotation) /\ w <= pitch
    BY Sizes DEF DesktopFrame
<1>2. x \in 0..(w - 1) /\ y \in 0..(h - 1)
    BY <1>1 DEF Inside
<1>3. x \in 0..(pitch - 1) /\ y \in Nat
    BY <1>1, <1>2
<1>4. PICK b \in Nat : b = MaxBottom(frame.dirty)
    BY MaxBottomBounds DEF DesktopFrame
<1>5. CASE device = "vga"
    <2>1. pitch = w
        BY <1>1, <1>5 DEF DesktopFrame
    <2>2. Width \in Nat /\ Height \in Nat
        BY PresentAssumption
    <2>3. w * h = Width * Height
        <3>1. CASE frame.rotation = "identity"
            BY <1>1, <3>1, Sizes
        <3>2. CASE frame.rotation = "rotate90"
            BY <1>1, <2>2, <3>2, Sizes
        <3>3. QED BY <3>1, <3>2 DEF DesktopFrame, PathRotations
    <2>4. mapped = w * h
        BY <1>5, <2>3 DEF SizeToMap
    <2>5. y * w + x \in 0..(w * h - 1)
        BY <1>2, RowsApart
    <2>6. w * h \in Nat
        OBVIOUS
    <2>7. mapped \in Nat /\ y * frame.pitch + x < mapped
        BY <1>1, <2>1, <2>4, <2>5, <2>6
    <2>8. QED BY <2>7, SourceReads
<1>6. CASE device = "qxl"
    <2>1. mapped = pitch * b
        BY <1>1, <1>4, <1>6 DEF SizeToMap
    <2>2. y \in 0..(b - 1)
        BY <1>3, <1>4, <1>6
    <2>3. y * pitch + x \in 0..(pitch * b - 1)
        BY <1>3, <2>2, RowsApart
    <2>4. pitch * b \in Nat
        OBVIOUS
    <2>5. mapped \in Nat /\ y * frame.pitch + x < mapped
        BY <1>1, <2>1, <2>3, <2>4
    <2>6. QED BY <2>5, SourceReads
<1>7. QED BY <1>5, <1>6

-----------------------------------------------------------------------------
(* One turn of the loops. *)

\* A rectangle of the desktop's picture is drawn on the screen.
Shows(after, rect) ==
    /\ DOMAIN after = FrameBuffer
    /\ \A x, y : Inside(frame.rotation, x, y) =>
           after[PlaceOf(frame.rotation, x, y)] =
               IF Covers(rect, x, y) THEN Picture(frame, x, y)
                                     ELSE screen[PlaceOf(frame.rotation, x, y)]
    /\ \A a \in FrameBuffer : after[a] = screen[a] \/ after[a] # Fault

\* Where BltBits reads a pixel of the desktop.
LEMMA SourceAddress ==
    ASSUME DesktopFrame, NEW rect, rect.left \in Int, rect.top \in Int,
           NEW x \in Int, NEW y \in Int
    PROVE  AddressOf(SrcBltInfo, rect, [x |-> x - rect.left, y |-> y - rect.top])
               = y * frame.pitch + x
<1>1. PICK w \in Nat, h \in Nat, pitch \in Nat :
          /\ pitch = frame.pitch /\ w = WidthOf(frame.rotation)
          /\ h = HeightOf(frame.rotation)
    BY Sizes DEF DesktopFrame
<1>2. SrcBltInfo = Bitmap(w, h, pitch, "identity")
    BY <1>1 DEF SrcBltInfo, Bitmap
<1>3. PICK u \in Int, v \in Int : u = x - rect.left /\ v = y - rect.top
    OBVIOUS
<1>4. "identity" \in Rotations
    BY DEF Rotations
<1> DEFINE q == TurnedInto(w, h, "identity", rect.left + u, rect.top + v)
<1>5. AddressOf(Bitmap(w, h, pitch, "identity"), rect, [x |-> u, y |-> v])
          = q.y * pitch + q.x
    BY <1>4, AddressesTurnEverywhere
<1>6. q = [x |-> rect.left + u, y |-> rect.top + v]
    <2>1. PICK p : p = [x |-> rect.left + u, y |-> rect.top + v]
        OBVIOUS
    <2>2. PICK i, j : q = Turned(p, i, j, Turns("identity"))
        BY <2>1, Zenon DEF TurnedInto
    <2>3. Turned(p, i, j, Turns("identity")) = p
        BY TurnsOf
    <2>4. QED BY <2>1, <2>2, <2>3, Zenon
<1>7. q.x = x /\ q.y = y
    BY <1>3, <1>6
<1>8. QED BY <1>1, <1>2, <1>3, <1>5, <1>7, Zenon

\* A dirty rectangle that the fallback device copies shows the desktop.
LEMMA VgaShows ==
    ASSUME DesktopFrame, device = "vga", RowsFit, mapped = SizeToMap,
           DOMAIN screen = FrameBuffer, NEW rect, RectOf(frame.rotation, rect)
    PROVE  Shows(BltBits(screen, DstBltInfo, SrcBltInfo, rect, Source), rect)
<1>1. PICK r \in PathRotations : r = frame.rotation
    BY DEF DesktopFrame
<1>2. PICK after : after = BltBits(screen, Screen(r), SrcBltInfo, rect, Source)
    OBVIOUS
<1>3. DstBltInfo = Screen(r)
    BY <1>1 DEF DstBltInfo, Screen, Bitmap
<1>4. BlitShows(after, screen, r, SrcBltInfo, rect, Source)
    BY <1>1, <1>2, BltBitsShows
<1>5. rect.left \in Int /\ rect.top \in Int /\ rect.right \in Int /\ rect.bottom \in Int
    BY <1>1, RectInside
<1>6. ASSUME NEW x, NEW y, Covers(rect, x, y)
      PROVE  Source[AddressOf(SrcBltInfo, rect, [x |-> x - rect.left, y |-> y - rect.top])]
                 = Picture(frame, x, y)
    <2>1. x \in Int /\ y \in Int
        BY <1>5, <1>6 DEF Covers
    <2>2. Inside(frame.rotation, x, y)
        BY <1>1, <1>6, CoveredPixels
    <2>3. Source[y * frame.pitch + x] = Picture(frame, x, y)
        <3>1. device \in {"vga", "qxl"} /\ (device = "qxl" => y < MaxBottom(frame.dirty))
            OBVIOUS
        <3>2. QED BY <2>2, <3>1, SourceIsMapped
    <2>4. QED BY <1>5, <2>1, <2>3, SourceAddress, Zenon
<1>7. DOMAIN after = FrameBuffer
    BY <1>4, Zenon DEF BlitShows
<1>8. ASSUME NEW x, NEW y, Inside(frame.rotation, x, y)
      PROVE  after[PlaceOf(frame.rotation, x, y)] =
                 IF Covers(rect, x, y) THEN Picture(frame, x, y)
                                       ELSE screen[PlaceOf(frame.rotation, x, y)]
    <2>1. after[PlaceOf(r, x, y)] =
              IF Covers(rect, x, y)
              THEN Source[AddressOf(SrcBltInfo, rect,
                                    [x |-> x - rect.left, y |-> y - rect.top])]
              ELSE screen[PlaceOf(r, x, y)]
        <3>1. Inside(r, x, y)
            BY <1>1, <1>8
        <3>2. QED BY <1>4, <3>1 DEF BlitShows
    <2>2. Covers(rect, x, y) => after[PlaceOf(r, x, y)] = Picture(frame, x, y)
        <3>1. SUFFICES ASSUME Covers(rect, x, y)
                       PROVE  after[PlaceOf(r, x, y)] = Picture(frame, x, y)
            OBVIOUS
        <3>2. Source[AddressOf(SrcBltInfo, rect, [x |-> x - rect.left, y |-> y - rect.top])]
                  = Picture(frame, x, y)
            BY <1>6, <3>1
        <3>3. after[PlaceOf(r, x, y)] =
                  Source[AddressOf(SrcBltInfo, rect,
                                   [x |-> x - rect.left, y |-> y - rect.top])]
            BY <2>1, <3>1
        <3>4. QED BY <3>2, <3>3, Zenon
    <2>3. ~ Covers(rect, x, y) => after[PlaceOf(r, x, y)] = screen[PlaceOf(r, x, y)]
        BY <2>1
    <2>4. QED BY <1>1, <2>2, <2>3, Zenon
<1>9. ASSUME NEW a \in FrameBuffer
      PROVE  after[a] = screen[a] \/ after[a] # Fault
    <2>1. CASE after[a] # screen[a]
        <3>1. PICK x, y : /\ Covers(rect, x, y)
                          /\ after[a] = Source[AddressOf(SrcBltInfo, rect,
                                           [x |-> x - rect.left, y |-> y - rect.top])]
            BY <1>4, <2>1, Zenon DEF BlitShows
        <3>2. after[a] = Picture(frame, x, y)
            BY <1>6, <3>1, Zenon
        <3>3. QED BY <3>2, PictureIsNamed, Zenon
    <2>2. QED BY <2>1, Zenon
<1>10. Shows(after, rect)
    BY <1>7, <1>8, <1>9, Zenon DEF Shows
<1>11. QED BY <1>2, <1>3, <1>10, Zenon

\* The QXL device.  It is never asked to turn a picture: the place of a pixel is
\* its row and its column.
LEMMA PlacesBack ==
    ASSUME NEW x, NEW y, Inside("identity", x, y)
    PROVE  /\ PlaceOf("identity", x, y) \in FrameBuffer
           /\ PlaceOf("identity", x, y) % Width = x
           /\ PlaceOf("identity", x, y) \div Width = y
<1>1. "identity" \in PathRotations /\ Width \in Nat \ {0} /\ Height \in Nat \ {0}
    BY PresentAssumption DEF PathRotations
<1>2. x \in 0..(Width - 1) /\ y \in 0..(Height - 1)
    BY Sizes DEF Inside
<1>3. x \in Int /\ y \in Nat
    BY <1>1, <1>2
<1>4. PlaceOf("identity", x, y) = y * Width + x
    BY <1>3, Places
<1>5. (y * Width + x) % Width = x /\ (y * Width + x) \div Width = y
    BY <1>1, <1>2, <1>3, RowAndColumn
<1>6. QED BY <1>1, <1>4, <1>5, PlaceInside

\* The rows of a rectangle are as long as it is wide.
LEMMA SourceRowsLines ==
    ASSUME NEW r, RectWidth(r) \in Nat, RectHeight(r) \in Nat
    PROVE  \E S : /\ SourceRows(r) \in Seq(Seq(S))
                  /\ Len(SourceRows(r)) = RectHeight(r)
                  /\ \A i \in 1..RectHeight(r) : Len(SourceRows(r)[i]) = RectWidth(r)
<1> DEFINE Pixel(i, x) == Source[(r.top + RectHeight(r) - i) * frame.pitch + r.left + x - 1]
<1>1. PICK w \in Nat, h \in Nat : w = RectWidth(r) /\ h = RectHeight(r)
    OBVIOUS
<1> DEFINE S == {Pixel(i, x) : i \in 1..h, x \in 1..w}
<1>2. SourceRows(r) = [i \in 1..h |-> [x \in 1..w |-> Pixel(i, x)]]
    BY <1>1, Zenon DEF SourceRows
<1>3. \A i \in 1..h, x \in 1..w : Pixel(i, x) \in S
    OBVIOUS
<1> HIDE DEF Pixel, S
<1>4. \A i \in 1..h : [x \in 1..w |-> Pixel(i, x)] \in Seq(S)
    BY <1>3
<1>5. SourceRows(r) \in Seq(Seq(S)) /\ Len(SourceRows(r)) = h
    BY <1>2, <1>4
<1>6. \A i \in 1..h : Len(SourceRows(r)[i]) = w
    <2>1. \A i \in 1..h : SourceRows(r)[i] = [x \in 1..w |-> Pixel(i, x)]
        BY <1>2
    <2>2. \A i \in 1..h : Len([x \in 1..w |-> Pixel(i, x)]) = w
        BY <1>1
    <2>3. QED BY <2>1, <2>2, Zenon
<1>7. QED BY <1>1, <1>5, <1>6

\* So does one that the QXL device draws from its chunks.
LEMMA ImageShows ==
    ASSUME DesktopFrame, device = "qxl", mapped = SizeToMap,
           DOMAIN screen = FrameBuffer, NEW k \in 1..Len(frame.dirty)
    PROVE  Shows(ImageDrawn(frame.dirty[k], ImageData(frame.dirty[k])), frame.dirty[k])
<1>1. PICK rect : rect = frame.dirty[k]
    OBVIOUS
<1>2. frame.rotation = "identity" /\ RectOf("identity", rect)
      /\ "identity" \in PathRotations
    BY <1>1 DEF DesktopFrame, PathRotations
<1>3. PICK w \in Nat \ {0}, h \in Nat \ {0}, left \in Nat, top \in Nat, pitch \in Nat :
          /\ w = RectWidth(rect) /\ h = RectHeight(rect) /\ left = rect.left
          /\ top = rect.top /\ pitch = frame.pitch
          /\ w = rect.right - left /\ h = rect.bottom - top
    BY <1>2, RectInside DEF DesktopFrame
<1>4. rect.right = left + w /\ rect.bottom = top + h
    <2>1. PICK right \in Nat, bottom \in Nat : right = rect.right /\ bottom = rect.bottom
        BY <1>2, RectInside, Zenon
    <2>2. w = right - left /\ h = bottom - top
        BY <1>3, <2>1, Zenon
    <2>3. right = left + w /\ bottom = top + h
        BY <2>2
    <2>4. QED BY <2>1, <2>3
<1>5. PICK rows : rows = SourceRows(rect)
    OBVIOUS
<1>6. PICK S : /\ rows \in Seq(Seq(S)) /\ Len(rows) = h
               /\ \A i \in 1..h : Len(rows[i]) = w
    BY <1>3, <1>5, SourceRowsLines
<1>7. BitmapRows(ImageData(rect), w) = rows
    <2>1. BitsBufMax \in Nat
        BY PresentAssumption
    <2>2. PICK room \in Nat : ImageCapacity(h, w, BitsBufMax) = room * w
        BY <2>1, CapacityInLines
    <2>3. \A i \in 1..Len(rows) : Len(rows[i]) = w
        BY <1>6
    <2>4. BitmapRows(PutRows(room * w, rows), w) = rows
        BY <1>6, <2>3, PutRowsLines
    <2>5. QED BY <1>3, <1>5, <2>2, <2>4, Zenon DEF ImageData
<1>8. ASSUME NEW x, NEW y, Covers(rect, x, y)
      PROVE  /\ rect.bottom - y <= Len(rows)
             /\ rows[rect.bottom - y][x - rect.left + 1] = Picture(frame, x, y)
    <2>1. x \in left..(left + w - 1) /\ y \in top..(top + h - 1)
        <3>1. x \in rect.left..(rect.right - 1) /\ y \in rect.top..(rect.bottom - 1)
            BY <1>8, Zenon DEF Covers
        <3>2. (left + w) - 1 = left + w - 1 /\ (top + h) - 1 = top + h - 1
            OBVIOUS
        <3>3. QED BY <1>3, <1>4, <3>1, <3>2, Zenon
    <2>2. PICK i \in 1..h, j \in 1..w : i = top + h - y /\ j = x - left + 1
        BY <2>1
    <2>3. x \in Int /\ y \in Int /\ i \in Int /\ j \in Int
        BY <2>1, <2>2
    <2>4. top + h - i = y /\ y * pitch + left + j - 1 = y * pitch + x
        BY <2>2, <2>3
    <2>5. rows[i][j] = Source[(top + h - i) * pitch + left + j - 1]
        <3>1. rows = [n \in 1..h |-> [m \in 1..w |->
                         Source[(top + h - n) * pitch + left + m - 1]]]
            BY <1>3, <1>5, Zenon DEF SourceRows
        <3>2. QED BY <3>1, Zenon
    <2>6. rows[i][j] = Source[y * pitch + x]
        BY <2>4, <2>5, Zenon
    <2>7. Inside("identity", x, y)
        BY <1>2, <1>8, CoveredPixels
    <2>8. PICK b \in Nat : b = MaxBottom(frame.dirty) /\ rect.bottom <= b
        BY <1>1, MaxBottomBounds DEF DesktopFrame
    <2>9. y < MaxBottom(frame.dirty)
        BY <1>4, <2>1, <2>8
    <2>10. Source[y * frame.pitch + x] = Picture(frame, x, y)
        <3>1. device \in {"vga", "qxl"} /\ RowsFit /\ Inside(frame.rotation, x, y)
            BY <1>2, <2>7 DEF RowsFit
        <3>2. QED BY <2>9, <3>1, SourceIsMapped
    <2>11. rect.bottom - y = i /\ x - rect.left + 1 = j
        <3>1. (top + h) - y = top + h - y
            BY <2>3
        <3>2. QED BY <1>3, <1>4, <2>2, <3>1, Zenon
    <2>12. i <= Len(rows)
        BY <1>6
    <2>13. QED BY <1>3, <2>6, <2>10, <2>11, <2>12, Zenon
<1>9. PICK after : after = ImageDrawn(rect, ImageData(rect))
    OBVIOUS
<1>10. after = [a \in FrameBuffer |->
                   IF /\ Covers(rect, a % Width, a \div Width)
                      /\ rect.bottom - (a \div Width) <= Len(rows)
                   THEN rows[rect.bottom - (a \div Width)][(a % Width) - rect.left + 1]
                   ELSE screen[a]]
    BY <1>3, <1>7, <1>9, Zenon DEF ImageDrawn
<1>11. DOMAIN after = FrameBuffer
    BY <1>10
<1>12. ASSUME NEW a \in FrameBuffer
       PROVE  after[a] = IF Covers(rect, a % Width, a \div Width)
                         THEN Picture(frame, a % Width, a \div Width) ELSE screen[a]
    BY <1>8, <1>10, Zenon
<1>13. ASSUME NEW x, NEW y, Inside(frame.rotation, x, y)
       PROVE  after[PlaceOf(frame.rotation, x, y)] =
                  IF Covers(rect, x, y) THEN Picture(frame, x, y)
                                        ELSE screen[PlaceOf(frame.rotation, x, y)]
    <2>1. /\ PlaceOf(frame.rotation, x, y) \in FrameBuffer
          /\ PlaceOf(frame.rotation, x, y) % Width = x
          /\ PlaceOf(frame.rotation, x, y) \div Width = y
        BY <1>2, <1>13, PlacesBack
    <2>2. QED BY <1>12, <2>1, Zenon
<1>14. \A a \in FrameBuffer : after[a] = screen[a] \/ after[a] # Fault
    BY <1>12, PictureIsNamed, Zenon
<1>15. QED BY <1>1, <1>9, <1>11, <1>13, <1>14, Zenon DEF Shows

\* A rectangle of the screen is copied.
LEMMA CopyShows ==
    ASSUME DesktopFrame, device = "qxl", NEW m \in Moves("identity"),
           screen = Named("identity")
    PROVE  LET after == CopiedOnScreen(m)
           IN  /\ DOMAIN after = FrameBuffer
               /\ \A x, y : Inside("identity", x, y) =>
                      after[PlaceOf("identity", x, y)] =
                          IF Covers(m.dest, x, y)
                          THEN Old(m.x + (x - m.dest.left), m.y + (y - m.dest.top))
                          ELSE Old(x, y)
               /\ \A a \in FrameBuffer : after[a] = screen[a] \/ after[a] # Fault
<1>1. "identity" \in PathRotations /\ RectOf("identity", m.dest)
    BY DEF PathRotations, Moves, RectOf
<1>2. PICK w \in Nat \ {0}, h \in Nat \ {0} :
          /\ w = WidthOf("identity") /\ h = HeightOf("identity") /\ w = Width
    BY <1>1, Sizes
<1>3. /\ m.x \in 0..(w - 1) /\ m.y \in 0..(h - 1)
      /\ m.x + RectWidth(m.dest) <= w /\ m.y + RectHeight(m.dest) <= h
    BY <1>2 DEF Moves
<1>4. PICK left \in Nat, top \in Nat, right \in Nat, bottom \in Nat :
          /\ left = m.dest.left /\ top = m.dest.top
          /\ right = m.dest.right /\ bottom = m.dest.bottom
          /\ RectWidth(m.dest) = right - left /\ RectHeight(m.dest) = bottom - top
    BY <1>1, RectInside
<1>5. PICK after : after = CopiedOnScreen(m)
    OBVIOUS
<1>6. ASSUME NEW x, NEW y, Covers(m.dest, x, y)
      PROVE  screen[(m.y + y - m.dest.top) * Width + m.x + x - m.dest.left]
                 = Old(m.x + (x - m.dest.left), m.y + (y - m.dest.top))
    <2>1. x \in left..(right - 1) /\ y \in top..(bottom - 1)
        BY <1>4, <1>6 DEF Covers
    <2>2. PICK u \in Nat, v \in Nat : u = m.x + (x - left) /\ v = m.y + (y - top)
        BY <1>2, <1>3, <2>1
    <2>3. u \in 0..(w - 1) /\ v \in 0..(h - 1)
        BY <1>2, <1>3, <1>4, <2>1, <2>2
    <2>4. Inside("identity", u, v)
        BY <1>2, <2>3 DEF Inside
    <2>5. screen[PlaceOf("identity", u, v)] = Old(u, v)
        BY <1>1, <2>4, NamedOld, Zenon
    <2>6. PlaceOf("identity", u, v) = v * w + u
        BY <1>2, Places
    <2>7. m.y + y - top = v /\ v * w + m.x + x - left = v * w + u
        BY <1>2, <1>3, <2>1, <2>2
    <2>8. QED BY <1>2, <1>4, <2>2, <2>5, <2>6, <2>7, Zenon
<1>7. after = [a \in FrameBuffer |->
                  IF Covers(m.dest, a % Width, a \div Width)
                  THEN screen[(m.y + (a \div Width) - m.dest.top) * Width + m.x
                              + (a % Width) - m.dest.left]
                  ELSE screen[a]]
    BY <1>5, Zenon DEF CopiedOnScreen
<1>8. DOMAIN after = FrameBuffer
    BY <1>7
<1>9. ASSUME NEW a \in FrameBuffer
      PROVE  after[a] =
                 IF Covers(m.dest, a % Width, a \div Width)
                 THEN Old(m.x + ((a % Width) - m.dest.left),
                          m.y + ((a \div Width) - m.dest.top))
                 ELSE screen[a]
    BY <1>6, <1>7, Zenon
<1>10. ASSUME NEW x, NEW y, Inside("identity", x, y)
       PROVE  after[PlaceOf("identity", x, y)] =
                  IF Covers(m.dest, x, y)
                  THEN Old(m.x + (x - m.dest.left), m.y + (y - m.dest.top))
                  ELSE Old(x, y)
    <2>1. /\ PlaceOf("identity", x, y) \in FrameBuffer
          /\ PlaceOf("identity", x, y) % Width = x
          /\ PlaceOf("identity", x, y) \div Width = y
        BY <1>10, PlacesBack
    <2>2. screen[PlaceOf("identity", x, y)] = Old(x, y)
        BY <1>1, <1>10, NamedOld, Zenon
    <2>3. QED BY <1>9, <2>1, <2>2, Zenon
<1>11. \A a \in FrameBuffer : after[a] = screen[a] \/ after[a] # Fault
    <2>1. \A i, j : Old(i, j) # Fault
        BY DEF Old, Fault
    <2>2. QED BY <1>9, <2>1, Zenon
<1>12. QED BY <1>5, <1>8, <1>10, <1>11, Zenon

-----------------------------------------------------------------------------
(* The loops. *)

\* The moves, then the dirty rectangles: what Map leaves in todo.
Loops ==
    [i \in 1..Len(frame.moves) |-> [is |-> "move", m |-> frame.moves[i]]]
    \o [i \in 1..Len(frame.dirty) |-> [is |-> "dirty", r |-> frame.dirty[i]]]

RectIn(item) == IF item.is = "move" THEN item.m.dest ELSE item.r

\* Every pixel that none of the turns after the first ones draws is as the
\* desktop's picture has it.
ShownBut(done) ==
    \A x, y :
        (/\ Inside(frame.rotation, x, y)
         /\ \A i \in (done + 1)..Len(Loops) : ~ Covers(RectIn(Loops[i]), x, y))
        => screen[PlaceOf(frame.rotation, x, y)] = Picture(frame, x, y)

\* The first turns are done.
DoneFirst(done) ==
    /\ todo = SubSeq(Loops, done + 1, Len(Loops))
    /\ done = 0 => screen = Named(frame.rotation)
    /\ ShownBut(done)

\* The loops of a present: the moves, then the dirty rectangles.
LEMMA LoopItems ==
    ASSUME DesktopFrame
    PROVE  /\ Len(Loops) = Len(frame.moves) + Len(frame.dirty)
           /\ Len(Loops) \in Nat
           /\ \E S : Loops \in Seq(S)
           /\ \A i \in 1..Len(Loops) : i <= Len(frame.moves) =>
                  /\ i \in 1..Len(frame.moves)
                  /\ Loops[i] = [is |-> "move", m |-> frame.moves[i]]
                  /\ RectIn(Loops[i]) = frame.moves[i].dest
           /\ \A i \in 1..Len(Loops) : i > Len(frame.moves) =>
                  /\ i - Len(frame.moves) \in 1..Len(frame.dirty)
                  /\ Loops[i] = [is |-> "dirty", r |-> frame.dirty[i - Len(frame.moves)]]
                  /\ RectIn(Loops[i]) = frame.dirty[i - Len(frame.moves)]
<1> DEFINE Move(i) == [is |-> "move", m |-> frame.moves[i]]
           Dirty(i) == [is |-> "dirty", r |-> frame.dirty[i]]
<1>1. PICK m \in Nat, n \in Nat : m = Len(frame.moves) /\ n = Len(frame.dirty)
    BY DEF DesktopFrame
<1> DEFINE S == {Move(i) : i \in 1..m} \union {Dirty(i) : i \in 1..n}
           s == [i \in 1..m |-> Move(i)]
           t == [i \in 1..n |-> Dirty(i)]
<1>2. Loops = s \o t
    BY <1>1, Zenon DEF Loops
<1>3. (\A i \in 1..m : Move(i) \in S) /\ (\A i \in 1..n : Dirty(i) \in S)
    BY Zenon
<1>4. /\ \A i : Move(i).is = "move" /\ Move(i).m = frame.moves[i]
      /\ \A i : Dirty(i).is = "dirty" /\ Dirty(i).r = frame.dirty[i]
    OBVIOUS
<1> HIDE DEF Move, Dirty, S
<1>5. s \in Seq(S) /\ t \in Seq(S) /\ Len(s) = m /\ Len(t) = n
    BY <1>3
<1>6. s \o t \in Seq(S) /\ Len(s \o t) = m + n
    BY <1>5
<1>7. \A i \in 1..(m + n) : (s \o t)[i] = IF i <= m THEN s[i] ELSE t[i - m]
    BY <1>5
<1>8. ASSUME NEW i \in 1..(m + n), i <= m
      PROVE  /\ i \in 1..m /\ Loops[i] = Move(i) /\ RectIn(Loops[i]) = frame.moves[i].dest
    <2>1. i \in 1..m
        BY <1>8
    <2>2. Loops[i] = Move(i)
        BY <1>2, <1>7, <1>8, <2>1
    <2>3. QED BY <1>4, <2>1, <2>2, Zenon DEF RectIn
<1>9. ASSUME NEW i \in 1..(m + n), i > m
      PROVE  /\ i - m \in 1..n /\ Loops[i] = Dirty(i - m)
             /\ RectIn(Loops[i]) = frame.dirty[i - m]
    <2>1. i - m \in 1..n /\ ~ (i <= m)
        BY <1>9
    <2>2. Loops[i] = Dirty(i - m)
        BY <1>2, <1>7, <2>1
    <2>3. "move" # "dirty"
        OBVIOUS
    <2>4. QED BY <1>4, <2>1, <2>2, <2>3, Zenon DEF RectIn
<1>10. m + n \in Nat
    OBVIOUS
<1>11. QED BY <1>1, <1>2, <1>6, <1>8, <1>9, <1>10, Zenon DEF Move, Dirty

\* The other half: every rectangle is drawn in some turn.
LEMMA LoopTurns ==
    ASSUME DesktopFrame
    PROVE  /\ \A k \in 1..Len(frame.moves) :
                  /\ k \in 1..Len(Loops) /\ RectIn(Loops[k]) = frame.moves[k].dest
           /\ \A k \in 1..Len(frame.dirty) :
                  /\ k + Len(frame.moves) \in 1..Len(Loops)
                  /\ RectIn(Loops[k + Len(frame.moves)]) = frame.dirty[k]
<1>1. PICK m \in Nat, n \in Nat : m = Len(frame.moves) /\ n = Len(frame.dirty)
    BY DEF DesktopFrame
<1>2. Len(Loops) = m + n
    BY <1>1, LoopItems
<1>3. ASSUME NEW k \in 1..m
      PROVE  k \in 1..Len(Loops) /\ RectIn(Loops[k]) = frame.moves[k].dest
    <2>1. k \in 1..Len(Loops) /\ k <= m
        BY <1>2
    <2>2. QED BY <1>1, <2>1, LoopItems, Zenon
<1>4. ASSUME NEW k \in 1..n
      PROVE  k + m \in 1..Len(Loops) /\ RectIn(Loops[k + m]) = frame.dirty[k]
    <2>1. k + m \in 1..Len(Loops) /\ k + m > m /\ (k + m) - m = k
        BY <1>2
    <2>2. RectIn(Loops[k + m]) = frame.dirty[(k + m) - m]
        BY <1>1, <2>1, LoopItems, Zenon
    <2>3. QED BY <2>1, <2>2, Zenon
<1>5. QED BY <1>1, <1>3, <1>4, Zenon

\* A pixel that no turn draws has not changed.
LEMMA PictureUntouched ==
    ASSUME DesktopFrame, NEW x, NEW y,
           \A i \in 1..Len(Loops) : ~ Covers(RectIn(Loops[i]), x, y)
    PROVE  Picture(frame, x, y) = Old(x, y)
<1>1. /\ \A k \in 1..Len(frame.moves) : ~ Covers(frame.moves[k].dest, x, y)
      /\ \A k \in 1..Len(frame.dirty) : ~ Covers(frame.dirty[k], x, y)
    BY LoopTurns, Zenon
<1>2. {i \in 1..Len(frame.moves) : Covers(frame.moves[i].dest, x, y)} = {}
    BY <1>1
<1>3. QED BY <1>1, <1>2, Zenon DEF Picture

\* One that the move draws, and no dirty rectangle, has moved.
LEMMA PictureMoved ==
    ASSUME DesktopFrame, Len(frame.moves) = 1, NEW x, NEW y,
           \A k \in 1..Len(frame.dirty) : ~ Covers(frame.dirty[k], x, y)
    PROVE  Picture(frame, x, y) =
               IF Covers(frame.moves[1].dest, x, y)
               THEN Old(frame.moves[1].x + (x - frame.moves[1].dest.left),
                        frame.moves[1].y + (y - frame.moves[1].dest.top))
               ELSE Old(x, y)
<1> DEFINE moved == {i \in 1..Len(frame.moves) : Covers(frame.moves[i].dest, x, y)}
<1>1. CASE Covers(frame.moves[1].dest, x, y)
    <2>1. moved = {1}
        BY <1>1
    <2>2. moved # {} /\ (CHOOSE i \in moved : TRUE) = 1
        BY <2>1
    <2>3. QED BY <1>1, <2>2, Zenon DEF Picture
<1>2. CASE ~ Covers(frame.moves[1].dest, x, y)
    <2>1. moved = {}
        BY <1>2
    <2>2. QED BY <1>2, <2>1, Zenon DEF Picture
<1>3. QED BY <1>1, <1>2

\* Before the loops nothing is done.
LEMMA NoneDone ==
    ASSUME DesktopFrame, screen = Named(frame.rotation)
    PROVE  SubSeq(Loops, 0 + 1, Len(Loops)) = Loops /\ ShownBut(0)
<1>1. PICK S : Loops \in Seq(S)
    BY LoopItems
<1>2. SubSeq(Loops, 1, Len(Loops)) = Loops
    BY <1>1
<1>3. 0 + 1 = 1
    OBVIOUS
<1>4. ASSUME NEW x, NEW y, Inside(frame.rotation, x, y),
             \A i \in (0 + 1)..Len(Loops) : ~ Covers(RectIn(Loops[i]), x, y)
      PROVE  screen[PlaceOf(frame.rotation, x, y)] = Picture(frame, x, y)
    <2>1. frame.rotation \in PathRotations
        BY DEF DesktopFrame
    <2>2. screen[PlaceOf(frame.rotation, x, y)] = Old(x, y)
        BY <1>4, <2>1, NamedOld, Zenon
    <2>3. \A i \in 1..Len(Loops) : ~ Covers(RectIn(Loops[i]), x, y)
        BY <1>3, <1>4
    <2>4. QED BY <2>2, <2>3, PictureUntouched
<1>5. QED BY <1>2, <1>3, <1>4, Zenon DEF ShownBut

\* After the loops the screen shows the desktop.
LEMMA AllDone ==
    ASSUME DesktopFrame, NEW done \in 0..Len(Loops), DoneFirst(done), todo = <<>>
    PROVE  \A x, y : Inside(frame.rotation, x, y) =>
               screen[PlaceOf(frame.rotation, x, y)] = Picture(frame, x, y)
<1>1. PICK S : Loops \in Seq(S)
    BY LoopItems
<1>2. PICK n \in Nat : n = Len(Loops)
    BY LoopItems
<1>3. done = n
    <2>1. SubSeq(Loops, done + 1, n) = <<>>
        BY <1>2 DEF DoneFirst
    <2>2. Len(SubSeq(Loops, done + 1, n)) = IF done + 1 <= n THEN n - (done + 1) + 1 ELSE 0
        BY <1>1, <1>2
    <2>3. Len(<<>>) = 0
        OBVIOUS
    <2>4. Len(SubSeq(Loops, done + 1, n)) = 0
        BY <2>1, <2>3, Zenon
    <2>5. QED BY <1>2, <2>2, <2>4
<1>4. (done + 1)..n = {}
    BY <1>3
<1>5. QED BY <1>2, <1>4, Zenon DEF DoneFirst, ShownBut

\* One turn: the first of the items that are left.
AfterDraw == IF device = "vga" THEN VgaDraws(Head(todo)) ELSE QxlDraws(Head(todo))

\* What AfterDraw is on the pixels that no later turn draws.
DrawsFirst(done) ==
    /\ DOMAIN AfterDraw = FrameBuffer
    /\ \A a \in FrameBuffer : AfterDraw[a] = screen[a] \/ AfterDraw[a] # Fault
    /\ \A x, y :
          (/\ Inside(frame.rotation, x, y)
           /\ \A i \in (done + 2)..Len(Loops) : ~ Covers(RectIn(Loops[i]), x, y))
          => AfterDraw[PlaceOf(frame.rotation, x, y)] = Picture(frame, x, y)

\* Until then there is a next item.
LEMMA ItemIsLeft ==
    ASSUME DesktopFrame, NEW done \in 0..Len(Loops), DoneFirst(done), todo # <<>>
    PROVE  /\ done + 1 \in 1..Len(Loops)
           /\ Head(todo) = Loops[done + 1]
           /\ Tail(todo) = SubSeq(Loops, done + 2, Len(Loops))
<1>1. PICK S : Loops \in Seq(S)
    BY LoopItems
<1>2. PICK n \in Nat : n = Len(Loops)
    BY LoopItems
<1>3. PICK k \in 1..(n + 1) : k = done + 1
    BY <1>2
<1>4. todo = SubSeq(Loops, k, n)
    BY <1>2, <1>3, Zenon DEF DoneFirst
<1>5. k <= n
    <2>1. SUFFICES ASSUME ~ (k <= n) PROVE FALSE
        OBVIOUS
    <2>2. Len(todo) = 0 /\ todo \in Seq(S)
        BY <1>1, <1>2, <1>3, <1>4, <2>1
    <2>3. todo = <<>>
        BY <2>2
    <2>4. QED BY <2>3
<1>6. /\ todo \in Seq(S) /\ Len(todo) = n - k + 1
      /\ \A i \in 1..(n - k + 1) : todo[i] = Loops[k + i - 1]
    BY <1>1, <1>2, <1>3, <1>4, <1>5
<1>7. Head(todo) = Loops[k]
    BY <1>3, <1>5, <1>6
<1>8. Tail(todo) = SubSeq(Loops, k + 1, n)
    BY <1>1, <1>2, <1>3, <1>4, <1>5
<1>9. k + 1 = done + 2
    BY <1>3
<1>10. QED BY <1>2, <1>3, <1>5, <1>7, <1>8, <1>9

\* A rectangle that is drawn from the picture.
LEMMA ShowsFirst ==
    ASSUME DesktopFrame, NEW done \in 0..Len(Loops), DoneFirst(done), todo # <<>>,
           Shows(AfterDraw, RectIn(Loops[done + 1]))
    PROVE  DrawsFirst(done)
<1>1. PICK n \in Nat : n = Len(Loops)
    BY LoopItems
<1>2. ASSUME NEW x, NEW y, Inside(frame.rotation, x, y),
             \A i \in (done + 2)..n : ~ Covers(RectIn(Loops[i]), x, y)
      PROVE  AfterDraw[PlaceOf(frame.rotation, x, y)] = Picture(frame, x, y)
    <2>1. CASE Covers(RectIn(Loops[done + 1]), x, y)
        BY <1>2, <2>1, Zenon DEF Shows
    <2>2. CASE ~ Covers(RectIn(Loops[done + 1]), x, y)
        <3>1. ASSUME NEW i \in (done + 1)..n
              PROVE  ~ Covers(RectIn(Loops[i]), x, y)
            <4>1. i = done + 1 \/ i \in (done + 2)..n
                BY <1>1
            <4>2. QED BY <1>2, <2>2, <4>1, Zenon
        <3>2. screen[PlaceOf(frame.rotation, x, y)] = Picture(frame, x, y)
            BY <1>1, <1>2, <3>1, Zenon DEF DoneFirst, ShownBut
        <3>3. QED BY <1>2, <2>2, <3>2, Zenon DEF Shows
    <2>3. QED BY <2>1, <2>2
<1>3. QED BY <1>1, <1>2, Zenon DEF DrawsFirst, Shows

\* Drawing one item more keeps what the items before it have drawn.
LEMMA DrawStep ==
    ASSUME DesktopFrame, device \in {"vga", "qxl"}, RowsFit,
           mapped = SizeToMap, DOMAIN screen = FrameBuffer,
           NEW done \in 0..Len(Loops), DoneFirst(done), todo # <<>>
    PROVE  DrawsFirst(done)
<1>1. PICK n \in Nat, k \in Nat, moves \in {0, 1} :
          /\ n = Len(Loops) /\ k = done + 1 /\ moves = Len(frame.moves)
    <2>1. Len(Loops) \in Nat
        BY LoopItems
    <2>2. done + 1 \in Nat
        BY <2>1
    <2>3. Len(frame.moves) \in {0, 1}
        BY DEF DesktopFrame
    <2>4. QED BY <2>1, <2>2, <2>3
<1>2. k \in 1..n /\ Head(todo) = Loops[k]
    BY <1>1, ItemIsLeft
<1>3. PICK rect : rect = RectIn(Loops[k])
    OBVIOUS
<1>4. RectOf(frame.rotation, rect)
    <2>1. CASE k <= moves
        <3>1. k \in 1..Len(frame.moves) /\ rect = frame.moves[k].dest
            BY <1>1, <1>2, <1>3, <2>1, LoopItems, Zenon
        <3>2. frame.moves[k] \in Moves(frame.rotation)
            BY <3>1 DEF DesktopFrame
        <3>3. frame.moves[k].dest \in
                  RectsOf(WidthOf(frame.rotation), HeightOf(frame.rotation))
            BY <3>2 DEF Moves
        <3>4. QED BY <3>1, <3>3 DEF RectOf
    <2>2. CASE k > moves
        <3>1. k - moves \in 1..Len(frame.dirty) /\ rect = frame.dirty[k - moves]
            BY <1>1, <1>2, <1>3, <2>2, LoopItems, Zenon
        <3>2. QED BY <3>1 DEF DesktopFrame
    <2>3. QED BY <1>1, <2>1, <2>2
<1>5. CASE device = "vga"
    <2>1. AfterDraw = BltBits(screen, DstBltInfo, SrcBltInfo, rect, Source)
        BY <1>2, <1>3, <1>5, Zenon DEF AfterDraw, VgaDraws, RectIn
    <2>2. Shows(AfterDraw, rect)
        BY <1>4, <1>5, <2>1, VgaShows
    <2>3. QED BY <1>1, <1>3, <2>2, ShowsFirst
<1>6. CASE device = "qxl" /\ k > moves
    <2>1. PICK j \in 1..Len(frame.dirty) :
              /\ rect = frame.dirty[j]
              /\ Loops[k] = [is |-> "dirty", r |-> frame.dirty[j]]
        BY <1>1, <1>2, <1>3, <1>6, LoopItems, Zenon
    <2>2. Head(todo).is # "move" /\ Head(todo).r = frame.dirty[j]
        BY <1>2, <2>1
    <2>3. device # "vga"
        BY <1>6
    <2>4. AfterDraw = ImageDrawn(frame.dirty[j], ImageData(frame.dirty[j]))
        BY <2>2, <2>3, Zenon DEF AfterDraw, QxlDraws
    <2>5. Shows(AfterDraw, frame.dirty[j])
        BY <1>6, <2>4, ImageShows
    <2>6. QED BY <1>1, <1>3, <2>1, <2>5, ShowsFirst
<1>7. CASE device = "qxl" /\ k <= moves
    <2>1. k = 1 /\ moves = 1 /\ done = 0
        <3>6. k \in 1..n /\ k <= moves
            BY <1>2, <1>7, Zenon
        <3>7. moves = 0 \/ moves = 1
            OBVIOUS
        <3>1. k = 1 /\ moves = 1
            BY <3>6, <3>7
        <3>2. done \in 0..n
            BY <1>1
        <3>4. 1 = done + 1
            BY <1>1, <3>1
        <3>5. done = 0
            BY <1>1, <3>2, <3>4
        <3>3. QED BY <3>1, <3>5
    <2>2. PICK m \in Moves(frame.rotation) : m = frame.moves[1]
        BY <1>1, <2>1 DEF DesktopFrame
    <2>3. Loops[1] = [is |-> "move", m |-> m]
        <3>1. 1 \in 1..n /\ 1 <= moves
            BY <1>2, <2>1
        <3>2. Loops[1] = [is |-> "move", m |-> frame.moves[1]]
            BY <1>1, <3>1, LoopItems, Zenon
        <3>3. QED BY <2>2, <3>2, Zenon
    <2>4. Head(todo).is = "move" /\ Head(todo).m = m
        BY <1>2, <2>1, <2>3
    <2>5. device # "vga"
        BY <1>7
    <2>6. AfterDraw = CopiedOnScreen(m)
        BY <2>4, <2>5, Zenon DEF AfterDraw, QxlDraws
    <2>7. frame.rotation = "identity" /\ screen = Named("identity")
        BY <1>7, <2>1, Zenon DEF DesktopFrame, DoneFirst
    <2>8. /\ DOMAIN AfterDraw = FrameBuffer
          /\ \A x, y : Inside("identity", x, y) =>
                 AfterDraw[PlaceOf("identity", x, y)] =
                     IF Covers(m.dest, x, y)
                     THEN Old(m.x + (x - m.dest.left), m.y + (y - m.dest.top))
                     ELSE Old(x, y)
          /\ \A a \in FrameBuffer : AfterDraw[a] = screen[a] \/ AfterDraw[a] # Fault
        <3>1. m \in Moves("identity")
            BY <2>2, <2>7
        <3>2. QED BY <1>7, <2>6, <2>7, <3>1, CopyShows
    <2>9. ASSUME NEW x, NEW y, Inside(frame.rotation, x, y),
                 \A i \in 2..n : ~ Covers(RectIn(Loops[i]), x, y)
          PROVE  AfterDraw[PlaceOf(frame.rotation, x, y)] = Picture(frame, x, y)
        <3>1. ASSUME NEW j \in 1..Len(frame.dirty)
              PROVE  ~ Covers(frame.dirty[j], x, y)
            <4>1. /\ j + moves \in 1..n
                  /\ RectIn(Loops[j + moves]) = frame.dirty[j]
                BY <1>1, LoopTurns, Zenon
            <4>2. j \in Int
                BY DEF DesktopFrame
            <4>3. j + moves \in 2..n
                BY <2>1, <4>1, <4>2
            <4>4. QED BY <2>9, <4>1, <4>3, Zenon
        <3>2. Picture(frame, x, y) =
                  IF Covers(m.dest, x, y)
                  THEN Old(m.x + (x - m.dest.left), m.y + (y - m.dest.top))
                  ELSE Old(x, y)
            BY <1>1, <2>1, <2>2, <3>1, PictureMoved
        <3>3. QED BY <2>7, <2>8, <2>9, <3>2, Zenon
    <2>10. done + 2 = 2
        BY <2>1
    <2>11. QED BY <1>1, <2>8, <2>9, <2>10, Zenon DEF DrawsFirst
<1>8. QED BY <1>1, <1>5, <1>6, <1>7

-----------------------------------------------------------------------------
(* The bitmap of a bugcheck, and the shape of a pointer. *)

CrashBltInfo(rect) ==
    [bits |-> 0, pitch |-> RectWidth(rect), width |-> RectWidth(rect),
     height |-> RectHeight(rect), offset |-> [x |-> -rect.left, y |-> -rect.top],
     rotation |-> "identity"]

CrashBits(rect) == [a \in Int |-> New(a % RectWidth(rect), a \div RectWidth(rect))]

\* Where SystemDisplayWrite reads its source.
LEMMA CrashAddress ==
    ASSUME NEW rect, rect.left \in Int, rect.top \in Int, RectWidth(rect) \in Int,
           NEW x \in Int, NEW y \in Int
    PROVE  AddressOf(CrashBltInfo(rect), rect, [x |-> x, y |-> y])
               = y * RectWidth(rect) + x
<1>1. PICK w \in Int, left \in Int, top \in Int :
          w = RectWidth(rect) /\ left = rect.left /\ top = rect.top
    OBVIOUS
<1>2. PICK b : b = CrashBltInfo(rect)
    OBVIOUS
<1>3. /\ b.bits = 0 /\ b.pitch = w /\ b.offset.x = -left /\ b.offset.y = -top
      /\ b.rotation = "identity"
    BY <1>1, <1>2 DEF CrashBltInfo
<1>4. GetRowStart(b, rect) = 0 + ((top + -top) * w + (left + -left))
    BY <1>1, <1>3, Zenon DEF GetRowStart
<1>5. RowPitch(b) = w /\ PixelPitch(b) = 1
    BY <1>3, Zenon DEF RowPitch, PixelPitch
<1>6. AddressOf(b, rect, [x |-> x, y |-> y]) = GetRowStart(b, rect) + y * w + x * 1
    BY <1>5 DEF AddressOf
<1>7. 0 + ((top + -top) * w + (left + -left)) = 0
    OBVIOUS
<1>8. y * w \in Int
    OBVIOUS
<1>9. GetRowStart(b, rect) + y * w + x * 1 = y * w + x
    BY <1>4, <1>7, <1>8
<1>10. QED BY <1>1, <1>2, <1>6, <1>9

\* It shows its rectangle on the rotated screen and nothing else.
LEMMA CrashShows ==
    ASSUME NEW r \in PathRotations, NEW rect, RectOf(r, rect)
    PROVE  LET after == BltBits(Named(r), Screen(r), CrashBltInfo(rect), rect,
                                CrashBits(rect))
           IN  /\ DOMAIN after = FrameBuffer
               /\ \A a \in FrameBuffer : after[a] # Fault
               /\ \A x, y : Inside(r, x, y) =>
                      after[PlaceOf(r, x, y)] =
                          IF Covers(rect, x, y) THEN New(x - rect.left, y - rect.top)
                                                ELSE Old(x, y)
<1>1. PICK after : after = BltBits(Named(r), Screen(r), CrashBltInfo(rect), rect,
                                   CrashBits(rect))
    OBVIOUS
<1>2. DOMAIN Named(r) = FrameBuffer
    BY NamedOld
<1>3. BlitShows(after, Named(r), r, CrashBltInfo(rect), rect, CrashBits(rect))
    BY <1>1, <1>2, BltBitsShows
<1>4. PICK w \in Nat \ {0}, h \in Nat \ {0}, left \in Nat, top \in Nat :
          /\ w = RectWidth(rect) /\ h = RectHeight(rect)
          /\ left = rect.left /\ top = rect.top
    BY RectInside
<1>5. ASSUME NEW x, NEW y, Covers(rect, x, y)
      PROVE  CrashBits(rect)[AddressOf(CrashBltInfo(rect), rect,
                                       [x |-> x - rect.left, y |-> y - rect.top])]
                 = New(x - rect.left, y - rect.top)
    <2>1. PICK u, v : u = x - left /\ v = y - top
        OBVIOUS
    <2>2. [x |-> u, y |-> v] \in Pixels(rect)
        BY <1>4, <1>5, <2>1, CoveredPixels
    <2>3. u \in 0..(w - 1) /\ v \in 0..(h - 1)
        BY <1>4, <2>2 DEF Pixels
    <2>4. u \in Int /\ v \in Nat /\ v \in Int /\ w \in Int /\ left \in Int /\ top \in Int
        BY <1>4, <2>3
    <2>5. AddressOf(CrashBltInfo(rect), rect, [x |-> u, y |-> v]) = v * w + u
        BY <1>4, <2>4, CrashAddress
    <2>6. (v * w + u) % w = u /\ (v * w + u) \div w = v
        BY <1>4, <2>3, <2>4, RowAndColumn
    <2>7. PICK a \in Int : a = v * w + u
        BY <2>4
    <2>8. CrashBits(rect)[a] = New(a % w, a \div w)
        BY <1>4, Zenon DEF CrashBits
    <2>9. QED BY <1>4, <2>1, <2>5, <2>6, <2>7, <2>8, Zenon
<1>6. DOMAIN after = FrameBuffer
    BY <1>3, Zenon DEF BlitShows
<1>7. ASSUME NEW a \in FrameBuffer
      PROVE  after[a] # Fault
    <2>1. CASE after[a] = Named(r)[a]
        BY <2>1, NamedOld
    <2>2. CASE after[a] # Named(r)[a]
        <3>4. PICK x, y :
                  /\ Covers(rect, x, y)
                  /\ after[a] = CrashBits(rect)[AddressOf(CrashBltInfo(rect), rect,
                                    [x |-> x - rect.left, y |-> y - rect.top])]
            BY <1>3, <2>2, Zenon DEF BlitShows
        <3>1. after[a] = New(x - rect.left, y - rect.top)
            BY <1>5, <3>4, Zenon
        <3>2. \A i, j : New(i, j) # Fault
            BY DEF New, Fault
        <3>3. QED BY <3>1, <3>2, Zenon
    <2>3. QED BY <2>1, <2>2
<1>8. ASSUME NEW x, NEW y, Inside(r, x, y)
      PROVE  after[PlaceOf(r, x, y)] =
                 IF Covers(rect, x, y) THEN New(x - rect.left, y - rect.top) ELSE Old(x, y)
    <2>1. Named(r)[PlaceOf(r, x, y)] = Old(x, y)
        BY <1>8, NamedOld, Zenon
    <2>2. QED BY <1>3, <1>5, <1>8, <2>1, Zenon DEF BlitShows
<1>9. QED BY <1>1, <1>6, <1>7, <1>8, Zenon

\* The device reads a pointer shape as it was given.
LEMMA PointerShows ==
    ASSUME NEW w \in Nat, NEW h \in Nat, NEW capacity \in Nat
    PROVE  Bytes(PutRows(capacity, RowsOf("pointer", w, h)))
               = FlattenSeq(RowsOf("pointer", w, h))
<1> DEFINE Pixel(x, y) == <<"pointer", x - 1, y - 1>>
           S == {Pixel(x, y) : x \in 1..w, y \in 1..h}
<1>1. RowsOf("pointer", w, h) = [y \in 1..h |-> [x \in 1..w |-> Pixel(x, y)]]
    BY DEF RowsOf
<1>2. \A x \in 1..w, y \in 1..h : Pixel(x, y) \in S
    OBVIOUS
<1> HIDE DEF Pixel, S
<1>3. \A y \in 1..h : [x \in 1..w |-> Pixel(x, y)] \in Seq(S)
    BY <1>2
<1>4. RowsOf("pointer", w, h) \in Seq(Seq(S))
    BY <1>1, <1>3
<1>5. QED BY <1>4, PutRowsBytes

-----------------------------------------------------------------------------
(* What is allocated, locked and mapped. *)

\* What each stage of ExecutePresentDisplayOnly holds.
Holds ==
    /\ pc \in {"idle", "allocate", "lock", "map", "copy", "returned", "bugcheck"}
    /\ failures \in 0..MaxFailures
    /\ contexts \in {failures, failures + 1}
    /\ mdl \in BOOLEAN /\ locked \in BOOLEAN
    /\ pc \in {"idle", "returned"} => contexts = failures
    /\ pc \in {"allocate", "lock", "map", "copy"} => contexts = failures + 1
    /\ pc \in {"idle", "returned", "allocate"} => ~ mdl
    /\ pc \in {"idle", "returned", "allocate", "lock"} => ~ locked
    /\ pc \in {"idle", "returned", "allocate", "lock", "map"} => mapped = 0

\* Nothing is held at first.
LEMMA InitHolds == Init => Holds
<1>1. SUFFICES ASSUME Init PROVE Holds
    OBVIOUS
<1>2. /\ pc = "idle" /\ failures = 0 /\ contexts = 0 /\ mapped = 0
      /\ mdl = FALSE /\ locked = FALSE
    BY <1>1 DEF Init
<1>3. failures \in 0..MaxFailures /\ contexts = failures
    BY <1>2, PresentAssumption
<1>4. QED BY <1>2, <1>3 DEF Holds

\* Every step takes and gives back in the order of the stages.
LEMMA NextHolds ==
    ASSUME Holds, [Next]_vars
    PROVE  Holds'
<1>1. MaxFailures \in Nat
    BY PresentAssumption
<1> USE DEF Holds, memoryVars
<1>2. CASE UpdateActiveVidPnPresentPath \/ AllocateContextFails
    BY <1>2 DEF UpdateActiveVidPnPresentPath, AllocateContextFails
<1>3. CASE PresentDisplayOnly
    BY <1>3 DEF PresentDisplayOnly
<1>4. CASE AllocateMdl
    BY <1>4 DEF AllocateMdl
<1>5. CASE AllocateMdlFails
    <2>1. /\ pc' = "idle" /\ failures' = failures + 1 /\ contexts' = contexts
          /\ failures < MaxFailures /\ pc = "allocate" /\ mapped' = mapped
          /\ ~ mdl' /\ ~ locked' /\ mdl' \in BOOLEAN /\ locked' \in BOOLEAN
        BY <1>5 DEF AllocateMdlFails, ReturnEarly
    <2>2. failures' \in 0..MaxFailures
        BY <1>1, <2>1
    <2>3. QED BY <2>1, <2>2
<1>6. CASE LockPages
    BY <1>6 DEF LockPages
<1>7. CASE LockPagesFails
    <2>1. /\ pc' = "idle" /\ failures' = failures + 1 /\ contexts' = contexts
          /\ failures < MaxFailures /\ pc = "lock" /\ mapped' = mapped
          /\ ~ mdl' /\ ~ locked' /\ mdl' \in BOOLEAN /\ locked' \in BOOLEAN
        BY <1>7 DEF LockPagesFails, ReturnEarly
    <2>2. failures' \in 0..MaxFailures
        BY <1>1, <2>1
    <2>3. QED BY <2>1, <2>2
<1>8. CASE Map
    BY <1>8 DEF Map
<1>9. CASE MapFails
    <2>1. /\ pc' = "idle" /\ failures' = failures + 1 /\ contexts' = contexts
          /\ failures < MaxFailures /\ pc = "map" /\ mapped' = mapped
          /\ ~ mdl' /\ ~ locked' /\ mdl' \in BOOLEAN /\ locked' \in BOOLEAN
        BY <1>9 DEF MapFails, ReturnEarly
    <2>2. failures' \in 0..MaxFailures
        BY <1>1, <2>1
    <2>3. QED BY <2>1, <2>2
<1>10. CASE Draw
    BY <1>10 DEF Draw
<1>11. CASE Return
    <2>1. /\ pc' = "returned" /\ failures' = failures /\ contexts' = contexts - 1
          /\ pc = "copy" /\ mapped' = 0 /\ mdl' = FALSE /\ locked' = FALSE
        BY <1>11 DEF Return
    <2>2. contexts' = failures
        BY <1>1, <2>1
    <2>3. QED BY <2>1, <2>2
<1>12. CASE NextCall
    BY <1>12 DEF NextCall
<1>13. CASE SetPointerShape
    BY <1>13 DEF SetPointerShape
<1>14. CASE SystemDisplayEnable
    BY <1>14 DEF SystemDisplayEnable
<1>15. CASE SystemDisplayWrite
    BY <1>15 DEF SystemDisplayWrite
<1>16. CASE UNCHANGED vars
    BY <1>16 DEF vars
<1>17. QED
    BY <1>2, <1>3, <1>4, <1>5, <1>6, <1>7, <1>8, <1>9, <1>10, <1>11, <1>12, <1>13,
       <1>14, <1>15, <1>16 DEF Next

\* Whichever call of a present failed, no MDL is left allocated, no page locked
\* and nothing mapped; a context is left for each present that failed.
THEOREM NothingIsKept == Spec => []NothingKept
<1>1. Holds => NothingKept
    BY DEF Holds, NothingKept
<1>2. QED BY <1>1, InitHolds, NextHolds, PTL DEF Spec

-----------------------------------------------------------------------------
(* The inductive invariant. *)

\* What the device has drawn, and what it has still to draw.
Presents ==
    /\ device \in {"vga", "qxl"} /\ rotation \in PathRotations
    /\ upToDate \in BOOLEAN /\ mapped \in Nat
    /\ pc # "copy" => todo = <<>>
    /\ pc \in {"allocate", "lock", "map", "copy"} => DesktopFrame
    /\ pc \in {"allocate", "lock", "map"} => screen = Named(frame.rotation)
    /\ pc = "copy" => mapped = SizeToMap /\ \E done \in 0..Len(Loops) : DoneFirst(done)
    /\ StaysInside
    /\ ShowsTheDesktop

\* The moves and rectangles a present may be given.
LEMMA FramesOfDesktop ==
    ASSUME NEW r \in PathRotations, NEW c, c \in Changes(r) \/ c = WholeDesktop(r)
    PROVE  /\ Len(c.moves) \in {0, 1}
           /\ \A i \in 1..Len(c.moves) : c.moves[i] \in Moves(r)
           /\ Len(c.dirty) \in Nat
           /\ \A i \in 1..Len(c.dirty) : RectOf(r, c.dirty[i])
<1> DEFINE rects == RectsOf(WidthOf(r), HeightOf(r))
<1>1. CASE c = WholeDesktop(r)
    <2>1. PICK w \in Nat \ {0}, h \in Nat \ {0} : w = WidthOf(r) /\ h = HeightOf(r)
        BY Sizes
    <2>2. Whole(w, h) \in RectsOf(w, h)
        BY DEF Whole, RectsOf
    <2>3. c.moves = <<>> /\ c.dirty = <<Whole(w, h)>>
        BY <1>1, <2>1 DEF WholeDesktop
    <2>4. RectOf(r, Whole(w, h))
        BY <2>1, <2>2, Zenon DEF RectOf
    <2>5. QED BY <2>3, <2>4
<1>2. CASE c \in Changes(r)
    <2>1. \/ c \in [moves : {<<>>} \union {<<m>> : m \in Moves(r)},
                    dirty : {<<>>} \union {<<d>> : d \in rects}]
          \/ c \in [moves : {<<>>}, dirty : {<<d, e>> : d \in rects, e \in rects}]
        BY <1>2 DEF Changes
    <2>2. /\ c.moves = <<>> \/ \E m \in Moves(r) : c.moves = <<m>>
          /\ \/ c.dirty = <<>>
             \/ \E d \in rects : c.dirty = <<d>>
             \/ \E d \in rects, e \in rects : c.dirty = <<d, e>>
        BY <2>1
    <2>3. Len(c.moves) \in {0, 1} /\ \A i \in 1..Len(c.moves) : c.moves[i] \in Moves(r)
        <3>1. CASE c.moves = <<>>
            BY <3>1
        <3>2. CASE \E m \in Moves(r) : c.moves = <<m>>
            BY <3>2
        <3>3. QED BY <2>2, <3>1, <3>2
    <2>4. Len(c.dirty) \in Nat /\ \A i \in 1..Len(c.dirty) : c.dirty[i] \in rects
        <3>1. CASE c.dirty = <<>>
            BY <3>1
        <3>2. CASE \E d \in rects : c.dirty = <<d>>
            BY <3>2
        <3>3. CASE \E d \in rects, e \in rects : c.dirty = <<d, e>>
            <4>1. PICK d \in rects, e \in rects : c.dirty = <<d, e>>
                BY <3>3
            <4>2. Len(c.dirty) = 2 /\ c.dirty[1] = d /\ c.dirty[2] = e
                BY <4>1
            <4>3. \A i \in 1..2 : i = 1 \/ i = 2
                OBVIOUS
            <4>4. QED BY <4>2, <4>3
        <3>4. QED BY <2>2, <3>1, <3>2, <3>3
    <2>5. QED BY <2>3, <2>4, Zenon DEF RectOf
<1>3. QED BY <1>1, <1>2

\* The size of the source is a number.
LEMMA SizeIsNat ==
    ASSUME DesktopFrame
    PROVE  SizeToMap \in Nat
<1>1. MaxBottom(frame.dirty) \in Nat
    BY MaxBottomBounds DEF DesktopFrame
<1>2. frame.pitch \in Nat /\ Width \in Nat /\ Height \in Nat
    BY PresentAssumption DEF DesktopFrame
<1>3. QED BY <1>1, <1>2 DEF SizeToMap

\* A screen that names its pixels has no fault in it.
LEMMA NamedInside ==
    ASSUME NEW r \in PathRotations, screen' = Named(r)
    PROVE  StaysInside'
BY NamedOld, Zenon DEF StaysInside

\* Nothing is promised before a present returns.
LEMMA NotShownYet ==
    ASSUME pc' \notin {"returned", "bugcheck"}
    PROVE  ShowsTheDesktop'
BY Zenon DEF ShowsTheDesktop

\* What depends on the frame and the device alone.
LEMMA SameFrame ==
    ASSUME device' = device, frame' = frame
    PROVE  /\ DesktopFrame' <=> DesktopFrame
           /\ SizeToMap' = SizeToMap
           /\ Loops' = Loops
BY DEF DesktopFrame, RowsFit, SizeToMap, Loops

\* The steps that draw nothing.
LEMMA StagesPresent ==
    ASSUME Presents,
           \/ UpdateActiveVidPnPresentPath \/ AllocateContextFails
           \/ AllocateMdl \/ AllocateMdlFails \/ LockPages \/ LockPagesFails \/ MapFails
    PROVE  Presents'
<1> USE DEF memoryVars
<1>1. /\ device' = device /\ screen' = screen /\ todo' = todo /\ mapped' = mapped
      /\ upToDate' \in BOOLEAN /\ rotation' \in PathRotations
    BY DEF Presents, UpdateActiveVidPnPresentPath, AllocateContextFails, AllocateMdl,
           AllocateMdlFails, LockPages, LockPagesFails, MapFails, ReturnEarly,
           PathRotations
<1>2. /\ pc # "copy"
      /\ \/ pc' = "idle"
         \/ /\ pc \in {"allocate", "lock"} /\ pc' \in {"lock", "map"} /\ frame' = frame
    BY DEF UpdateActiveVidPnPresentPath, AllocateContextFails, AllocateMdl,
           AllocateMdlFails, LockPages, LockPagesFails, MapFails, ReturnEarly
<1>3. StaysInside'
    BY <1>1 DEF StaysInside, Presents
<1>4. ShowsTheDesktop'
    BY <1>2, NotShownYet
<1>5. CASE pc' = "idle"
    BY <1>1, <1>2, <1>3, <1>4, <1>5 DEF Presents
<1>6. CASE pc' # "idle"
    <2>1. DesktopFrame' /\ screen' = Named(frame'.rotation)
        BY <1>1, <1>2, <1>6, SameFrame DEF Presents
    <2>2. QED BY <1>1, <1>2, <1>3, <1>4, <1>6, <2>1 DEF Presents
<1>7. QED BY <1>5, <1>6

\* A present starts from the screen as it was.
LEMMA PresentDisplayOnlyPresents ==
    ASSUME Presents, PresentDisplayOnly
    PROVE  Presents'
<1>1. PICK rotate \in BOOLEAN, pad \in IF device = "vga" THEN VgaPads ELSE QxlPads :
          LET r == RotationNeededByFb(rotate)
          IN  /\ device = "qxl" => r = "identity"
              /\ \E c \in IF upToDate THEN Changes(r) ELSE {WholeDesktop(r)} :
                   frame' = [is |-> "desktop", rotation |-> r, pitch |-> WidthOf(r) + pad,
                             moves |-> c.moves, dirty |-> c.dirty]
              /\ screen' = Named(r)
    BY Zenon DEF PresentDisplayOnly
<1>2. PICK r : r = RotationNeededByFb(rotate)
    OBVIOUS
<1>3. r \in PathRotations
    BY <1>2 DEF RotationNeededByFb, Presents, PathRotations
<1>4. PICK c : /\ c \in Changes(r) \/ c = WholeDesktop(r)
               /\ frame' = [is |-> "desktop", rotation |-> r, pitch |-> WidthOf(r) + pad,
                            moves |-> c.moves, dirty |-> c.dirty]
    BY <1>1, <1>2
<1>5. /\ device = "qxl" => r = "identity"
      /\ screen' = Named(r)
    BY <1>1, <1>2, Zenon
<1>6. /\ pc' = "allocate" /\ todo' = <<>>
      /\ UNCHANGED <<device, rotation, mapped, upToDate>>
    BY DEF PresentDisplayOnly
<1>7. /\ frame'.is = "desktop" /\ frame'.rotation = r /\ frame'.pitch = WidthOf(r) + pad
      /\ frame'.moves = c.moves /\ frame'.dirty = c.dirty
    BY <1>4
<1>8. /\ Len(c.moves) \in {0, 1}
      /\ \A i \in 1..Len(c.moves) : c.moves[i] \in Moves(r)
      /\ Len(c.dirty) \in Nat
      /\ \A i \in 1..Len(c.dirty) : RectOf(r, c.dirty[i])
    BY <1>3, <1>4, FramesOfDesktop
<1>9. /\ WidthOf(r) + pad \in Nat /\ WidthOf(r) <= WidthOf(r) + pad
      /\ (RowsFit' /\ device' = "vga") => WidthOf(r) + pad = WidthOf(r)
    <2>1. WidthOf(r) \in Nat /\ pad \in Nat
        BY <1>3, Sizes, PresentAssumption
    <2>2. (RowsFit' /\ device' = "vga") => pad = 0
        BY <1>6 DEF RowsFit
    <2>3. QED BY <2>1, <2>2
<1>10. DesktopFrame'
    BY <1>3, <1>5, <1>6, <1>7, <1>8, <1>9, Zenon DEF DesktopFrame
<1>11. StaysInside' /\ ShowsTheDesktop'
    BY <1>3, <1>5, <1>6, NamedInside, NotShownYet
<1>12. QED BY <1>5, <1>6, <1>7, <1>10, <1>11 DEF Presents

\* The loops start when the source is mapped.
LEMMA MapPresents ==
    ASSUME Presents, Map
    PROVE  Presents'
<1>1. /\ pc = "map" /\ pc' = "copy" /\ mapped' = SizeToMap /\ todo' = Loops
      /\ UNCHANGED <<device, rotation, frame, screen, upToDate>>
    BY DEF Map, Loops
<1>2. DesktopFrame /\ screen = Named(frame.rotation)
    BY <1>1 DEF Presents
<1>3. DesktopFrame' /\ mapped' = SizeToMap' /\ Loops' = Loops /\ todo' = Loops'
    BY <1>1, <1>2, SameFrame
<1>4. DoneFirst(0)'
    <2>1. SubSeq(Loops, 0 + 1, Len(Loops)) = Loops /\ ShownBut(0)
        BY <1>2, NoneDone
    <2>2. ShownBut(0)'
        BY <1>1, <1>3, <2>1, Zenon DEF ShownBut
    <2>3. screen' = Named(frame'.rotation)
        BY <1>1, <1>2
    <2>4. QED BY <1>3, <2>1, <2>2, <2>3, Zenon DEF DoneFirst
<1>5. mapped' \in Nat
    BY <1>1, <1>2, SizeIsNat
<1>6. StaysInside'
    BY <1>1 DEF StaysInside, Presents
<1>7. ShowsTheDesktop'
    BY <1>1, NotShownYet
<1>8. 0 \in 0..Len(Loops')
    BY <1>2, <1>3, LoopItems
<1>9. QED BY <1>1, <1>3, <1>4, <1>5, <1>6, <1>7, <1>8 DEF Presents

\* One item of the loops.
LEMMA DrawPresents ==
    ASSUME Presents, Draw, RowsFit
    PROVE  Presents'
<1>1. /\ pc = "copy" /\ todo # <<>> /\ screen' = AfterDraw /\ todo' = Tail(todo)
      /\ UNCHANGED <<device, rotation, pc, frame, mapped, upToDate>>
    BY DEF Draw, memoryVars, AfterDraw
<1>2. /\ DesktopFrame /\ mapped = SizeToMap /\ DOMAIN screen = FrameBuffer
      /\ device \in {"vga", "qxl"} /\ \A a \in FrameBuffer : screen[a] # Fault
    BY <1>1 DEF Presents, StaysInside
<1>3. PICK done \in 0..Len(Loops) : DoneFirst(done)
    BY <1>1 DEF Presents
<1>4. DrawsFirst(done)
    BY <1>1, <1>2, <1>3, DrawStep
<1>5. PICK n \in Nat, later \in Nat : n = Len(Loops) /\ later = done + 1
    <2>1. Len(Loops) \in Nat
        BY <1>2, LoopItems
    <2>2. done + 1 \in Nat
        BY <2>1
    <2>3. QED BY <2>1, <2>2
<1>6. later \in 1..n /\ todo' = SubSeq(Loops, done + 2, n)
    BY <1>1, <1>2, <1>3, <1>5, ItemIsLeft
<1>7. done + 2 = later + 1 /\ later # 0 /\ later \in 0..n
    BY <1>5, <1>6
<1>8. DesktopFrame' /\ mapped' = SizeToMap' /\ Loops' = Loops
    BY <1>1, <1>2, SameFrame
<1>9. DoneFirst(later)'
    <2>1. ShownBut(later)'
        BY <1>1, <1>4, <1>5, <1>7, <1>8, Zenon DEF ShownBut, DrawsFirst
    <2>2. QED BY <1>5, <1>6, <1>7, <1>8, <2>1, Zenon DEF DoneFirst
<1>10. StaysInside'
    BY <1>1, <1>2, <1>4, Zenon DEF StaysInside, DrawsFirst
<1>11. ShowsTheDesktop'
    BY <1>1, NotShownYet
<1>12. \E k \in 0..Len(Loops') : DoneFirst(k)'
    BY <1>5, <1>7, <1>8, <1>9, Zenon
<1>13. QED BY <1>1, <1>8, <1>10, <1>11, <1>12 DEF Presents

\* A return finds all of them done, or has failed.
LEMMA ReturnPresents ==
    ASSUME Presents, Return
    PROVE  Presents'
<1>1. /\ pc = "copy" /\ todo = <<>> /\ pc' = "returned" /\ mapped' = 0
      /\ upToDate' = TRUE
      /\ UNCHANGED <<device, rotation, todo, frame, screen>>
    BY DEF Return
<1>2. DesktopFrame
    BY <1>1 DEF Presents
<1>3. PICK done \in 0..Len(Loops) : DoneFirst(done)
    BY <1>1 DEF Presents
<1>4. frame.is = "desktop" /\ frame.rotation \in PathRotations
    BY <1>2 DEF DesktopFrame
<1>5. \A p \in Desktop(frame.rotation) :
          screen[PlaceOf(frame.rotation, p.x, p.y)] = Picture(frame, p.x, p.y)
    <2>1. \A p \in Desktop(frame.rotation) : Inside(frame.rotation, p.x, p.y)
        BY <1>4, DesktopPixels, Zenon
    <2>2. \A x, y : Inside(frame.rotation, x, y) =>
              screen[PlaceOf(frame.rotation, x, y)] = Picture(frame, x, y)
        BY <1>1, <1>2, <1>3, AllDone
    <2>3. QED BY <2>1, <2>2, Zenon
<1>6. ShowsTheDesktop'
    BY <1>1, <1>4, <1>5, Zenon DEF ShowsTheDesktop
<1>7. StaysInside'
    BY <1>1 DEF StaysInside, Presents
<1>8. QED BY <1>1, <1>6, <1>7 DEF Presents

\* The next call forgets the last.
LEMMA NextCallPresents ==
    ASSUME Presents, NextCall
    PROVE  Presents'
<1>1. /\ pc' = "idle" /\ pc # "copy" /\ screen' = Named("identity")
      /\ UNCHANGED <<device, rotation, todo, mapped, upToDate>>
    BY DEF NextCall, memoryVars
<1>2. StaysInside' /\ ShowsTheDesktop'
    BY <1>1, NamedInside, NotShownYet DEF PathRotations
<1>3. QED BY <1>1, <1>2 DEF Presents

\* A pointer shape goes through chunks as an image does.
LEMMA SetPointerShapePresents ==
    ASSUME Presents, SetPointerShape
    PROVE  Presents'
<1>1. /\ pc = "idle" /\ pc' = "returned"
      /\ UNCHANGED <<device, rotation, todo, mapped, screen, upToDate>>
    BY DEF SetPointerShape, memoryVars
<1>2. PICK w \in CursorSizes, h \in CursorSizes, images \in {1, 2} :
          frame' = [is |-> "pointer", rows |-> RowsOf("pointer", w, h * images),
                    shown |-> Bytes(PutRows(CursorRoom,
                                            RowsOf("pointer", w, h * images)))]
    BY Zenon DEF SetPointerShape
<1>3. PICK rows : rows = RowsOf("pointer", w, h * images)
    OBVIOUS
<1>4. /\ frame'.is = "pointer" /\ frame'.rows = rows
      /\ frame'.shown = Bytes(PutRows(CursorRoom, rows))
    BY <1>2, <1>3
<1>5. Bytes(PutRows(CursorRoom, rows)) = FlattenSeq(rows)
    <2>1. w \in Nat /\ h * images \in Nat /\ CursorRoom \in Nat
        BY PresentAssumption
    <2>2. QED BY <1>3, <2>1, PointerShows
<1>6. ShowsTheDesktop'
    <2>1. "pointer" # "desktop"
        OBVIOUS
    <2>2. frame'.shown = FlattenSeq(frame'.rows)
        BY <1>4, <1>5, Zenon
    <2>3. QED BY <1>4, <2>1, <2>2, Zenon DEF ShowsTheDesktop
<1>7. StaysInside'
    BY <1>1 DEF StaysInside, Presents
<1>8. QED BY <1>1, <1>6, <1>7 DEF Presents

\* A bugcheck takes the screen over ...
LEMMA SystemDisplayEnablePresents ==
    ASSUME Presents, SystemDisplayEnable
    PROVE  Presents'
<1>1. /\ pc' = "bugcheck" /\ frame' = None /\ todo' = <<>> /\ screen' = Named(rotation)
      /\ UNCHANGED <<device, rotation, mapped, upToDate>>
    BY DEF SystemDisplayEnable, memoryVars
<1>2. rotation \in PathRotations
    BY DEF Presents
<1>3. StaysInside'
    BY <1>1, <1>2, NamedInside
<1>4. ShowsTheDesktop'
    <2>1. frame'.is = "none"
        BY <1>1 DEF None
    <2>2. "none" # "desktop" /\ "none" # "pointer" /\ "none" # "crash"
        OBVIOUS
    <2>3. QED BY <2>1, <2>2, Zenon DEF ShowsTheDesktop
<1>5. QED BY <1>1, <1>3, <1>4 DEF Presents

\* ... and draws on it.
LEMMA SystemDisplayWritePresents ==
    ASSUME Presents, SystemDisplayWrite
    PROVE  Presents'
<1>1. /\ pc = "bugcheck" /\ pc' = "bugcheck"
      /\ UNCHANGED <<device, rotation, todo, mapped, upToDate>>
    BY DEF SystemDisplayWrite, memoryVars
<1>2. rotation \in PathRotations
    BY DEF Presents
<1>3. PICK rect \in RectsOf(WidthOf(rotation), HeightOf(rotation)) :
          /\ frame' = [is |-> "crash", rect |-> rect]
          /\ screen' = BltBits(Named(rotation), Screen(rotation), CrashBltInfo(rect),
                               rect, CrashBits(rect))
    BY DEF SystemDisplayWrite, Screen, Bitmap, CrashBltInfo, CrashBits
<1>4. RectOf(rotation, rect)
    BY DEF RectOf
<1>5. frame'.is = "crash" /\ frame'.rect = rect
    BY <1>3
<1>6. /\ DOMAIN screen' = FrameBuffer
      /\ \A a \in FrameBuffer : screen'[a] # Fault
      /\ \A x, y : Inside(rotation, x, y) =>
             screen'[PlaceOf(rotation, x, y)] =
                 IF Covers(rect, x, y) THEN New(x - rect.left, y - rect.top)
                                       ELSE Old(x, y)
    BY <1>2, <1>3, <1>4, CrashShows
<1>7. StaysInside'
    BY <1>6, Zenon DEF StaysInside
<1>8. ShowsTheDesktop'
    <2>1. "crash" # "desktop" /\ "crash" # "pointer"
        OBVIOUS
    <2>2. \A p \in Desktop(rotation) : Inside(rotation, p.x, p.y)
        BY <1>2, DesktopPixels, Zenon
    <2>3. \A p \in Desktop(rotation) :
              screen'[PlaceOf(rotation, p.x, p.y)] =
                  IF Covers(rect, p.x, p.y) THEN New(p.x - rect.left, p.y - rect.top)
                                            ELSE Old(p.x, p.y)
        BY <1>6, <2>2, Zenon
    <2>4. rotation' = rotation
        BY <1>1
    <2>5. QED BY <1>5, <2>1, <2>3, <2>4, Zenon DEF ShowsTheDesktop
<1>9. QED BY <1>1, <1>7, <1>8 DEF Presents

\* A stuttering step changes nothing.
LEMMA StutterPresents ==
    ASSUME Presents, UNCHANGED vars
    PROVE  Presents'
<1>1. UNCHANGED <<device, rotation, pc, frame, todo, mapped, screen, upToDate>>
    BY DEF vars, memoryVars
<1>2. StaysInside' /\ ShowsTheDesktop'
    BY <1>1 DEF StaysInside, ShowsTheDesktop, Presents
<1>3. /\ DesktopFrame' <=> DesktopFrame
      /\ SizeToMap' = SizeToMap /\ Loops' = Loops
    BY <1>1, SameFrame
<1>4. ASSUME NEW k, DoneFirst(k)
      PROVE  DoneFirst(k)'
    BY <1>1, <1>3, <1>4, Zenon DEF DoneFirst, ShownBut
<1>5. QED BY <1>1, <1>2, <1>3, <1>4 DEF Presents

\* No frame at first.
LEMMA InitPresents == Init => Presents
<1>1. SUFFICES ASSUME Init PROVE Presents
    OBVIOUS
<1>2. /\ device \in {"vga", "qxl"} /\ rotation = "identity" /\ pc = "idle"
      /\ todo = <<>> /\ mapped = 0 /\ screen = Named("identity") /\ upToDate = FALSE
    BY <1>1 DEF Init
<1>3. StaysInside
    BY <1>2, NamedOld, Zenon DEF StaysInside, PathRotations
<1>4. ShowsTheDesktop
    BY <1>2, Zenon DEF ShowsTheDesktop
<1>5. QED BY <1>2, <1>3, <1>4 DEF Presents, PathRotations

\* Every step keeps the invariant.
LEMMA NextPresents ==
    ASSUME RowsFit, Presents, [Next]_vars
    PROVE  Presents'
<1>1. CASE \/ UpdateActiveVidPnPresentPath \/ AllocateContextFails
           \/ AllocateMdl \/ AllocateMdlFails \/ LockPages \/ LockPagesFails \/ MapFails
    BY <1>1, StagesPresent
<1>2. CASE PresentDisplayOnly
    BY <1>2, PresentDisplayOnlyPresents
<1>3. CASE Map
    BY <1>3, MapPresents
<1>4. CASE Draw
    BY <1>4, DrawPresents
<1>5. CASE Return
    BY <1>5, ReturnPresents
<1>6. CASE NextCall
    BY <1>6, NextCallPresents
<1>7. CASE SetPointerShape
    BY <1>7, SetPointerShapePresents
<1>8. CASE SystemDisplayEnable
    BY <1>8, SystemDisplayEnablePresents
<1>9. CASE SystemDisplayWrite
    BY <1>9, SystemDisplayWritePresents
<1>10. CASE UNCHANGED vars
    BY <1>10, StutterPresents
<1>11. QED
    BY <1>1, <1>2, <1>3, <1>4, <1>5, <1>6, <1>7, <1>8, <1>9, <1>10, Zenon DEF Next

\* The device stays the one the driver has found.
LEMMA SameDevice ==
    ASSUME [Next]_vars
    PROVE  RowsFit' <=> RowsFit
<1> SUFFICES device' = device
    BY DEF RowsFit
<1>1. QED
    BY DEF Next, vars, memoryVars, ReturnEarly, UpdateActiveVidPnPresentPath,
           PresentDisplayOnly, AllocateContextFails, AllocateMdl, AllocateMdlFails, LockPages, LockPagesFails,
           Map, MapFails, Draw, Return, NextCall, SetPointerShape, SystemDisplayEnable,
           SystemDisplayWrite

\* The inductive invariant holds; its second part where the rows fit.
LEMMA InvariantHolds == Spec => [](Holds /\ (RowsFit => Presents))
<1>1. Init => Holds /\ (RowsFit => Presents)
    BY InitHolds, InitPresents
<1>2. Holds /\ (RowsFit => Presents) /\ [Next]_vars => Holds' /\ (RowsFit' => Presents')
    BY NextHolds, NextPresents, SameDevice
<1>3. QED BY <1>1, <1>2, PTL DEF Spec

\* It gives every variable its type.
LEMMA PresentsTyped == Holds /\ Presents => TypeOK
<1>1. ASSUME Holds PROVE contexts \in 0..(MaxFailures + 1)
    BY <1>1, PresentAssumption DEF Holds
<1>2. QED BY <1>1 DEF Holds, Presents, TypeOK, PathRotations

\* The types of all variables; nothing is written outside the frame buffer, and
\* nothing is read outside the part of the source that is mapped.  The fallback
\* device maps width times height pixels, which is the bitmap only when its rows
\* are not padded.
THEOREM TypeCorrect ==
    ASSUME VgaPads \subseteq {0}
    PROVE  Spec => []TypeOK
<1>1. RowsFit
    BY DEF RowsFit
<1>2. Holds /\ (RowsFit => Presents) => TypeOK
    BY <1>1, PresentsTyped
<1>3. QED BY <1>2, InvariantHolds, PTL

\* What a present that succeeds, a pointer and a bugcheck leave is what they were
\* given: all of the desktop, turned as the path says, whatever the sizes, the
\* moves, the dirty rectangles and the sizes of the chunks.
THEOREM PresentsAreShown ==
    ASSUME VgaPads \subseteq {0}
    PROVE  Spec => []ShowsTheDesktop
<1>1. RowsFit
    BY DEF RowsFit
<1>2. Holds /\ (RowsFit => Presents) => ShowsTheDesktop
    BY <1>1 DEF Presents
<1>3. QED BY <1>2, InvariantHolds, PTL

\* On the QXL device both hold however the rows are padded: it maps whole rows.
THEOREM PaddedPresentsAreShown ==
    Spec => [](device = "qxl" => TypeOK /\ ShowsTheDesktop)
<1>1. device = "qxl" => RowsFit
    BY DEF RowsFit
<1>2. Holds /\ (RowsFit => Presents) => (device = "qxl" => TypeOK /\ ShowsTheDesktop)
    BY <1>1, PresentsTyped DEF Presents
<1>3. QED BY <1>2, InvariantHolds, PTL

=============================================================================
