---------------------------- MODULE Heap_proofs ----------------------------
(***************************************************************************)
(* Proofs about Heap, for arenas and chunks of any size and for any set of *)
(* requests: between calls the heap is well formed, and the regions it     *)
(* hands out keep HeapPromise.                                             *)
(*                                                                         *)
(* The state is seen in layers.  Tiled, Aligned and Tagged speak of the    *)
(* heads alone: the chunks lie end to end, and each one's bits agree with  *)
(* its neighbours'.  Footed adds the feet, Filed the three places a free   *)
(* chunk may be filed in, and Held what the callers hold.  A call splits a *)
(* free chunk, takes one whole or joins a run of them; a lemma says what   *)
(* each of the three does to the heads, and the steps do the filing.       *)
(***************************************************************************)
EXTENDS Heap, FiniteSetTheorems, TLAPS

Heads == [size : Nat, pinuse : BOOLEAN, cinuse : BOOLEAN]

\* The chunks of heads h, and where the next one starts.
ChunksOf(h) == DOMAIN h \ {End}
After(h, p) == p + h[p].size
Prior(h, q) == \E p \in ChunksOf(h) : After(h, p) = q

Tiled(h) ==
    /\ h \in [DOMAIN h -> Heads]
    /\ DOMAIN h \subseteq 0..End
    /\ 0 \in ChunksOf(h) /\ End \in DOMAIN h
    /\ \A p \in ChunksOf(h) : h[p].size > 0 /\ After(h, p) \in DOMAIN h
    /\ \A p, q \in DOMAIN h : p < q => After(h, p) <= q
    /\ \A q \in DOMAIN h \ {0} : Prior(h, q)

Aligned(h) == \A p \in ChunksOf(h) : p % Word = 0 /\ h[p].size % Word = 0

\* The chunk of malloc_state is in use, a free chunk follows one in use.
Tagged(h) ==
    /\ h[0] = InUse(StateSize) /\ ~h[End].cinuse
    /\ \A p \in ChunksOf(h) : h[After(h, p)].pinuse <=> h[p].cinuse
    /\ \A p \in ChunksOf(h) : ~h[p].cinuse => h[p].pinuse

Arena(h) == Tiled(h) /\ Aligned(h) /\ Tagged(h)

\* A free chunk that is not the last repeats its size at its end.
Footed(h, f) ==
    /\ f \in [DOMAIN f -> Nat]
    /\ DOMAIN f = {q \in ChunksOf(h) : ~h[q].pinuse}
    /\ \A p \in ChunksOf(h) :
           ~h[p].cinuse /\ After(h, p) # End => f[After(h, p)] = h[p].size

FreeOf(h) == {p \in ChunksOf(h) : ~h[p].cinuse}

\* A free chunk is top, dv or in a bin.
TopInv ==
    /\ top \in FreeOf(head) /\ topsize = head[top].size
    /\ After(head, top) = End
DvInv ==
    /\ dvsize \in Nat
    /\ dvsize = 0 => dv = NoChunk
    /\ dvsize # 0 => dv \in FreeOf(head) \ {top} /\ dvsize = head[dv].size
BinsInv ==
    /\ bins \in [DOMAIN bins -> Nat]
    /\ DOMAIN bins = FreeOf(head) \ {top, dv}
    /\ \A p \in DOMAIN bins : bins[p] = head[p].size
Filed == TopInv /\ DvInv /\ BinsInv

\* The callers hold the chunks in use; no other chunk but top is too small.
Fits(s, n) == s - ChunkSizeFor(n) \in 0..(MinChunk - 1)
HeldInv ==
    /\ asked \in [DOMAIN asked -> Requests]
    /\ DOMAIN asked = ChunksOf(head) \ ({0} \union FreeOf(head))
    /\ \A p \in DOMAIN asked : Fits(head[p].size, asked[p])
    /\ \A p \in FreeOf(head) \ {top} : head[p].size >= MinChunk

HeapInv == Arena(head) /\ Footed(head, foot) /\ Filed /\ HeldInv

-----------------------------------------------------------------------------
(* Arithmetic. *)

LEMMA Constants ==
    /\ Word \in Nat /\ Word >= 2 /\ MinChunk \in Nat /\ 2 * Word <= MinChunk
    /\ SmallLimit \in Nat /\ MinChunk < SmallLimit
    /\ StateSize \in Nat /\ MinChunk <= StateSize
    /\ Capacity \in Nat /\ TopFoot \in Nat /\ 2 * Capacity < Width
    /\ StateSize + TopFoot < Capacity
    /\ MinChunk % Word = 0 /\ StateSize % Word = 0 /\ SmallLimit % Word = 0
    /\ Capacity % Word = 0 /\ TopFoot % Word = 0
    /\ Requests \subseteq 1..Capacity
<1>1. \A s \in {MinChunk, SmallLimit, StateSize, TopFoot, Capacity} :
          s \in Nat /\ s % Word = 0
  BY HeapAssumption
<1>2. /\ MinChunk \in Nat /\ MinChunk % Word = 0
      /\ SmallLimit \in Nat /\ SmallLimit % Word = 0
      /\ StateSize \in Nat /\ StateSize % Word = 0
  BY <1>1
<1>3. /\ TopFoot \in Nat /\ TopFoot % Word = 0
      /\ Capacity \in Nat /\ Capacity % Word = 0
  BY <1>1
<1>4. Word \in Nat /\ Word >= 2
  BY HeapAssumption
<1>5. /\ 2 * Word <= MinChunk /\ MinChunk < SmallLimit /\ MinChunk <= StateSize
      /\ StateSize + TopFoot < Capacity /\ 2 * Capacity < Width
      /\ Requests \subseteq 1..Capacity
  BY HeapAssumption
<1> QED BY <1>2, <1>3, <1>4, <1>5

\* Sums and differences of whole words are whole words.
LEMMA Multiples ==
    ASSUME NEW a \in Int, NEW b \in Int, NEW w \in Nat, w > 0,
           a % w = 0, b % w = 0
    PROVE  (a + b) % w = 0 /\ (a - b) % w = 0
<1>1. PICK j \in Int : a = w * j
  BY SMT
<1>2. PICK k \in Int : b = w * k
  BY SMT
<1>3. a + b = w * (j + k) /\ a - b = w * (j - k)
  BY <1>1, <1>2, SMT
<1>4. ASSUME NEW i \in Int PROVE (w * i) % w = 0
  BY SMT
<1> QED BY <1>3, <1>4

LEMMA LeastMultiple ==
    ASSUME NEW a \in Nat, NEW w \in Nat, w > 0, a % w = 0, a > 0
    PROVE  a >= w
BY SMT

\* What a request is padded to.
LEMMA ChunkSizeIs ==
    ASSUME NEW n \in Requests
    PROVE  /\ n \in Nat /\ n > 0 /\ ChunkSizeFor(n) \in Nat
           /\ ChunkSizeFor(n) >= MinChunk /\ ChunkSizeFor(n) >= n + Word
           /\ ChunkSizeFor(n) % Word = 0
           /\ ChunkSizeFor(n) < 2 * Capacity
           /\ ChunkSizeFor(n) = MinChunk \/ ChunkSizeFor(n) < n + 2 * Word
<1> DEFINE x == n + Word + Word - 1
           q == x \div Word
<1>1. n \in Nat /\ n > 0 /\ n <= Capacity
  BY Constants
<1>2. Word \in Nat /\ Word >= 2 /\ MinChunk \in Nat /\ 2 * Word <= MinChunk
      /\ Capacity \in Nat /\ MinChunk < Capacity
  BY Constants
<1>3. x \in Nat
  BY <1>1, <1>2
<1>4. q \in Nat /\ Word * q <= x /\ x < Word * q + Word
  BY <1>2, <1>3
<1>5. PadRequest(n) = Word * q
  BY <1>2, <1>4 DEF PadRequest
<1>6. PadRequest(n) \in Nat /\ PadRequest(n) % Word = 0
  <2>1. ASSUME NEW i \in Int PROVE (Word * i) % Word = 0
    BY <1>2
  <2>2. Word * q \in Nat
    BY <1>2, <1>4
  <2> QED BY <1>4, <1>5, <2>1, <2>2
<1>7. PadRequest(n) >= n + Word /\ PadRequest(n) < 2 * Capacity
      /\ PadRequest(n) < n + 2 * Word
  <2> HIDE DEF q
  <2>1. Word * q \in Nat
    BY <1>5, <1>6
  <2> QED BY <1>1, <1>2, <1>4, <1>5, <2>1
<1>8. ASSUME ~ n < MinChunk - Word - 1 PROVE PadRequest(n) >= MinChunk
  <2>1. PICK k \in Int : MinChunk = Word * k
    BY <1>2, Constants
  <2> HIDE DEF q
  <2>2. x >= MinChunk
    BY <1>1, <1>2, <1>8
  <2>3. CASE q >= k
    <3>1. Word * q >= Word * k
      BY <1>2, <1>4, <2>1, <2>3
    <3> QED BY <1>5, <2>1, <3>1
  <2>4. CASE q <= k - 1
    <3>1. Word * q <= Word * (k - 1)
      BY <1>2, <1>4, <2>1, <2>4
    <3>2. Word * (k - 1) = MinChunk - Word
      BY <1>2, <2>1
    <3>3. Word * q \in Nat
      BY <1>5, <1>6
    <3> QED BY <1>1, <1>2, <1>3, <1>4, <2>2, <3>1, <3>2, <3>3
  <2> QED BY <1>4, <2>1, <2>3, <2>4
<1>9. CASE n < MinChunk - Word - 1
  BY <1>1, <1>2, <1>9, Constants DEF ChunkSizeFor
<1>10. CASE ~ n < MinChunk - Word - 1
  BY <1>1, <1>2, <1>6, <1>7, <1>8, <1>10 DEF ChunkSizeFor
<1> QED BY <1>9, <1>10

-----------------------------------------------------------------------------
(* The heads. *)

LEMMA ChunkFacts ==
    ASSUME NEW h, Tiled(h)
    PROVE  /\ 0 \in Nat /\ End \in Nat /\ 0 < End
           /\ \A p \in DOMAIN h : /\ p \in Nat /\ 0 <= p /\ p <= End
                                  /\ h[p].size \in Nat
                                  /\ h[p].pinuse \in BOOLEAN /\ h[p].cinuse \in BOOLEAN
           /\ \A p \in ChunksOf(h) : /\ p \in DOMAIN h /\ p < End /\ h[p].size > 0
                                     /\ After(h, p) \in DOMAIN h /\ After(h, p) \in Nat
                                     /\ p < After(h, p) /\ After(h, p) <= End
           /\ \A p, q \in DOMAIN h : p < q => After(h, p) <= q
<1>1. End \in Nat /\ 0 < End
  BY Constants DEF End
<1>2. \A p \in DOMAIN h : p \in 0..End /\ h[p] \in Heads
  BY DEF Tiled
<1>3. \A p \in DOMAIN h : /\ p \in Nat /\ 0 <= p /\ p <= End /\ h[p].size \in Nat
                          /\ h[p].pinuse \in BOOLEAN /\ h[p].cinuse \in BOOLEAN
  BY <1>1, <1>2 DEF Heads
<1>4. ASSUME NEW p \in ChunksOf(h)
      PROVE  /\ p \in DOMAIN h /\ p < End /\ h[p].size > 0
             /\ After(h, p) \in DOMAIN h /\ After(h, p) \in Nat
             /\ p < After(h, p) /\ After(h, p) <= End
  <2>1. p \in DOMAIN h /\ p # End /\ h[p].size > 0 /\ After(h, p) \in DOMAIN h
    BY DEF Tiled, ChunksOf
  <2> QED BY <1>1, <1>3, <2>1 DEF After
<1> QED BY <1>1, <1>3, <1>4 DEF Tiled

\* The start of a chunk decides its place: no two chunks end together.
LEMMA OnePrior ==
    ASSUME NEW h, Tiled(h), NEW p \in ChunksOf(h), NEW q \in ChunksOf(h),
           After(h, p) = After(h, q)
    PROVE  p = q
BY ChunkFacts

\* Free chunk p becomes a chunk in use of size s and a free one: heads g.
IsSplit(h, p, s, g) ==
    /\ p + s \notin DOMAIN h /\ p + s \in Nat
    /\ DOMAIN g = DOMAIN h \union {p + s}
    /\ ChunksOf(g) = ChunksOf(h) \union {p + s}
    /\ FreeOf(g) = (FreeOf(h) \ {p}) \union {p + s}
    /\ g[p] = InUse(s) /\ g[p + s] = FreeChunk(h[p].size - s)
    /\ \A q \in DOMAIN h \ {p} : g[q] = h[q]

LEMMA SplitHeads ==
    ASSUME NEW h, Arena(h), NEW p \in FreeOf(h), NEW s \in Nat, NEW g,
           0 < s, s < h[p].size, s % Word = 0,
           g = With([h EXCEPT ![p] = InUse(s)], p + s, FreeChunk(h[p].size - s))
    PROVE  Arena(g) /\ IsSplit(h, p, s, g)
<1> DEFINE r == p + s
           t == After(h, p)
<1>1. p \in ChunksOf(h) /\ ~h[p].cinuse /\ Tiled(h) /\ Aligned(h) /\ Tagged(h)
  BY DEF FreeOf, Arena
<1>2. p \in DOMAIN h /\ p # End /\ p \in Nat /\ r \in Nat /\ t \in DOMAIN h /\ t \in Nat
      /\ p < r /\ r < t /\ t <= End /\ End \in Nat /\ t = p + h[p].size
      /\ h[p].size \in Nat
  BY <1>1, ChunkFacts DEF ChunksOf, After
<1>3. r \notin DOMAIN h
  BY <1>1, <1>2, ChunkFacts
<1>4. DOMAIN g = DOMAIN h \union {r}
  BY <1>2 DEF With
<1>5. /\ g[p] = InUse(s) /\ g[r] = FreeChunk(h[p].size - s)
      /\ \A q \in DOMAIN h \ {p} : g[q] = h[q]
  BY <1>2, <1>3 DEF With
<1>6. p # 0
  BY <1>1 DEF Tagged, InUse, Header
<1>7. ChunksOf(g) = ChunksOf(h) \union {r}
  BY <1>2, <1>4 DEF ChunksOf
<1>8. /\ After(g, p) = r /\ After(g, r) = t
      /\ \A q \in DOMAIN h \ {p} : After(g, q) = After(h, q)
  <2>1. g[p].size = s /\ g[r].size = h[p].size - s
    BY <1>5 DEF InUse, FreeChunk, Header
  <2>2. r + (h[p].size - s) = t
    BY <1>2
  <2>3. \A q \in DOMAIN h \ {p} : q + g[q].size = q + h[q].size
    BY <1>5
  <2> QED BY <2>1, <2>2, <2>3 DEF After
<1>9. Tiled(g)
  <2>1. g \in [DOMAIN g -> Heads]
    <3>1. InUse(s) \in Heads /\ FreeChunk(h[p].size - s) \in Heads
      BY <1>2 DEF InUse, FreeChunk, Header, Heads
    <3>2. \A q \in DOMAIN h : h[q] \in Heads
      BY <1>1 DEF Tiled
    <3>3. \A q \in DOMAIN g : g[q] \in Heads
      BY <1>4, <1>5, <3>1, <3>2
    <3>4. g = [q \in DOMAIN g |-> g[q]]
      BY DEF With
    <3> QED BY <3>3, <3>4
  <2>2. DOMAIN g \subseteq 0..End
    BY <1>1, <1>2, <1>4 DEF Tiled
  <2>3. 0 \in ChunksOf(g) /\ End \in DOMAIN g
    BY <1>1, <1>4, <1>7 DEF Tiled
  <2>4. ASSUME NEW q \in ChunksOf(g) PROVE g[q].size > 0 /\ After(g, q) \in DOMAIN g
    <3>1. CASE q \in {p, r}
      BY <1>2, <1>4, <1>5, <1>8, <3>1 DEF InUse, FreeChunk, Header
    <3>2. CASE q \notin {p, r}
      BY <1>1, <1>4, <1>5, <1>7, <1>8, <3>2 DEF Tiled, ChunksOf
    <3> QED BY <3>1, <3>2
  <2>5. ASSUME NEW a \in DOMAIN g, NEW b \in DOMAIN g, a < b PROVE After(g, a) <= b
    <3>1. CASE a = p
      <4>1. CASE b = r
        BY <1>8, <1>2, <3>1, <4>1
      <4>2. CASE b # r
        <5>1. b \in DOMAIN h /\ t <= b /\ b \in Nat
          BY <1>1, <1>2, <1>4, <2>5, <3>1, <4>2, ChunkFacts
        <5> QED BY <1>2, <1>8, <3>1, <5>1
      <4> QED BY <4>1, <4>2
    <3>2. CASE a = r
      <4>1. b \in DOMAIN h /\ p < b
        BY <1>1, <1>2, <1>4, <2>5, <3>2, ChunkFacts
      <4>2. t <= b
        BY <1>1, <1>2, <4>1, ChunkFacts
      <4> QED BY <1>8, <3>2, <4>2
    <3>3. CASE a \notin {p, r} /\ b = r
      <4>1. a \in DOMAIN h /\ a \in Nat /\ After(g, a) = After(h, a)
        BY <1>1, <1>4, <1>8, <3>3, ChunkFacts
      <4>2. a < p
        BY <1>1, <1>2, <2>5, <3>3, <4>1, ChunkFacts
      <4>3. After(h, a) <= p /\ After(h, a) \in Nat
        BY <1>1, <1>2, <4>1, <4>2, ChunkFacts DEF After
      <4> QED BY <1>2, <3>3, <4>1, <4>3
    <3>4. CASE a \notin {p, r} /\ b # r
      BY <1>1, <1>4, <1>8, <2>5, <3>4, ChunkFacts
    <3> QED BY <3>1, <3>2, <3>3, <3>4
  <2>6. ASSUME NEW q \in DOMAIN g \ {0} PROVE Prior(g, q)
    <3>1. CASE q = r
      BY <1>1, <1>7, <1>8, <3>1 DEF Prior
    <3>2. CASE q # r
      <4>1. PICK o \in ChunksOf(h) : After(h, o) = q
        BY <1>1, <1>4, <3>2 DEF Tiled, Prior
      <4>2. CASE o = p
        BY <1>7, <1>8, <4>1, <4>2 DEF Prior
      <4>3. CASE o # p
        BY <1>7, <1>8, <4>1, <4>3 DEF Prior, ChunksOf
      <4> QED BY <4>2, <4>3
    <3> QED BY <3>1, <3>2
  <2> QED BY <2>1, <2>2, <2>3, <2>4, <2>5, <2>6 DEF Tiled
<1>10. Aligned(g)
  <2>1. p % Word = 0 /\ h[p].size % Word = 0
    BY <1>1 DEF Aligned
  <2>2. r % Word = 0 /\ (h[p].size - s) % Word = 0
    <3>1. p \in Int /\ s \in Int /\ h[p].size \in Int /\ Word \in Nat /\ Word > 0
      BY <1>2, Constants
    <3> QED BY <2>1, <3>1, Multiples
  <2>3. \A q \in ChunksOf(h) \ {p} : g[q] = h[q]
    BY <1>5 DEF ChunksOf
  <2>4. g[p].size % Word = 0 /\ g[r].size % Word = 0
    BY <1>5, <2>2 DEF InUse, FreeChunk, Header
  <2>5. \A q \in ChunksOf(h) \ {p} : q % Word = 0 /\ g[q].size % Word = 0
    BY <1>1, <2>3 DEF Aligned
  <2> QED BY <1>7, <2>1, <2>2, <2>4, <2>5 DEF Aligned
<1>11. Tagged(g)
  <2>1. g[0] = InUse(StateSize) /\ ~g[End].cinuse
    BY <1>1, <1>2, <1>5, <1>6 DEF Tagged, Tiled, ChunksOf
  <2>2. ASSUME NEW q \in ChunksOf(g) PROVE g[After(g, q)].pinuse <=> g[q].cinuse
    <3>1. CASE q = p
      BY <1>5, <1>8, <3>1 DEF InUse, FreeChunk, Header
    <3>2. CASE q = r
      <4>1. g[t] = h[t] /\ ~h[t].pinuse
        BY <1>1, <1>2, <1>5 DEF Tagged
      <4> QED BY <1>5, <1>8, <3>2, <4>1 DEF FreeChunk, Header
    <3>3. CASE q \notin {p, r}
      <4>1. q \in ChunksOf(h) /\ g[q] = h[q] /\ After(g, q) = After(h, q)
            /\ After(h, q) \in DOMAIN h
        BY <1>1, <1>5, <1>7, <1>8, <3>3, ChunkFacts DEF ChunksOf
      <4>2. CASE After(h, q) = p
        <5>1. h[p].pinuse /\ h[q].cinuse
          BY <1>1, <4>1, <4>2 DEF Tagged
        <5> QED BY <1>5, <4>1, <4>2, <5>1 DEF InUse, Header
      <4>3. CASE After(h, q) # p
        BY <1>1, <1>5, <4>1, <4>3 DEF Tagged
      <4> QED BY <4>2, <4>3
    <3> QED BY <3>1, <3>2, <3>3
  <2>3. ASSUME NEW q \in ChunksOf(g), ~g[q].cinuse PROVE g[q].pinuse
    <3>1. CASE q \in {p, r}
      BY <1>5, <2>3, <3>1 DEF InUse, FreeChunk, Header
    <3>2. CASE q \notin {p, r}
      BY <1>1, <1>5, <1>7, <2>3, <3>2 DEF Tagged, ChunksOf
    <3> QED BY <3>1, <3>2
  <2> QED BY <2>1, <2>2, <2>3 DEF Tagged
<1>12. FreeOf(g) = (FreeOf(h) \ {p}) \union {r}
  <2>1. \A q \in ChunksOf(h) \ {p} : g[q] = h[q]
    BY <1>5 DEF ChunksOf
  <2>2. p \in ChunksOf(h) /\ g[p].cinuse /\ ~g[r].cinuse
    BY <1>1, <1>5 DEF InUse, FreeChunk, Header
  <2>3. r \notin ChunksOf(h) /\ r # p
    BY <1>2, <1>3 DEF ChunksOf
  <2> QED BY <1>7, <2>1, <2>2, <2>3 DEF FreeOf
<1> QED BY <1>2, <1>3, <1>4, <1>5, <1>7, <1>9, <1>10, <1>11, <1>12 DEF Arena, IsSplit

\* What SetHead changes.
LEMMA SetHeadIs ==
    ASSUME NEW h, h \in [DOMAIN h -> Heads], NEW p \in DOMAIN h, p \in Int,
           NEW v \in Heads, NEW t \in DOMAIN h, t = p + v.size, v.size > 0,
           NEW g, g = SetHead(h, p, v)
    PROVE  /\ g \in [DOMAIN h -> Heads] /\ DOMAIN g = DOMAIN h
           /\ g[p] = v
           /\ g[t].size = h[t].size
           /\ (g[t].pinuse <=> v.cinuse) /\ (g[t].cinuse <=> h[t].cinuse)
           /\ \A q \in DOMAIN h \ {p, t} : g[q] = h[q]
<1> DEFINE b == v.cinuse
<1>1. t # p /\ b \in BOOLEAN
  BY DEF Heads
<1>2. g = [h EXCEPT ![p] = v, ![t].pinuse = b]
  BY DEF SetHead
<1> HIDE DEF b
<1>3. /\ g[p] = v /\ g[t] = [h[t] EXCEPT !.pinuse = b]
      /\ \A q \in DOMAIN h \ {p, t} : g[q] = h[q]
  BY <1>1, <1>2
<1>4. h[t] \in Heads
  OBVIOUS
<1>5. /\ g[t] \in Heads /\ g[t].size = h[t].size
      /\ g[t].pinuse = b /\ (g[t].cinuse <=> h[t].cinuse)
  BY <1>1, <1>3, <1>4 DEF Heads
<1>6. g \in [DOMAIN h -> Heads] /\ DOMAIN g = DOMAIN h
  <2>1. \A q \in DOMAIN h : g[q] \in Heads
    BY <1>3, <1>5
  <2>2. g = [q \in DOMAIN h |-> g[q]]
    BY <1>2
  <2> QED BY <2>1, <2>2
<1> QED BY <1>3, <1>5, <1>6 DEF b

\* Free chunk p is taken whole.
LEMMA WholeHeads ==
    ASSUME NEW h, Arena(h), NEW p \in FreeOf(h), NEW g,
           g = SetHead(h, p, InUse(h[p].size))
    PROVE  /\ Arena(g)
           /\ After(h, p) \in DOMAIN h \ {p}
           /\ DOMAIN g = DOMAIN h /\ ChunksOf(g) = ChunksOf(h)
           /\ FreeOf(g) = FreeOf(h) \ {p}
           /\ g[p] = InUse(h[p].size)
           /\ \A q \in DOMAIN h \ {p, After(h, p)} : g[q] = h[q]
           /\ \A q \in DOMAIN h : g[q].size = h[q].size
           /\ \A q \in DOMAIN h \ {p} : g[q].cinuse <=> h[q].cinuse
           /\ g[After(h, p)].pinuse
           /\ After(h, p) \notin FreeOf(h)
<1> DEFINE t == After(h, p)
<1>1. p \in ChunksOf(h) /\ ~h[p].cinuse /\ Tiled(h) /\ Aligned(h) /\ Tagged(h)
  BY DEF FreeOf, Arena
<1>2. p \in DOMAIN h /\ p # End /\ p \in Nat /\ t \in DOMAIN h /\ t \in Nat
      /\ p < t /\ t <= End /\ End \in Nat /\ t = p + h[p].size
      /\ h[p].size \in Nat
  BY <1>1, ChunkFacts DEF ChunksOf, After
<1>3. h \in [DOMAIN h -> Heads]
  BY <1>1 DEF Tiled
<1>4. InUse(h[p].size) \in Heads /\ InUse(h[p].size).size = h[p].size
      /\ InUse(h[p].size).cinuse
  BY <1>2 DEF InUse, Header, Heads
<1>5. /\ g \in [DOMAIN h -> Heads] /\ DOMAIN g = DOMAIN h
      /\ g[p] = InUse(h[p].size)
      /\ g[t].size = h[t].size /\ g[t].pinuse /\ (g[t].cinuse <=> h[t].cinuse)
      /\ \A q \in DOMAIN h \ {p, t} : g[q] = h[q]
  <2>1. p \in DOMAIN h /\ p \in Int /\ t \in DOMAIN h /\ h[p].size > 0
        /\ t = p + InUse(h[p].size).size
    BY <1>2, <1>4
  <2> HIDE DEF t
  <2> QED BY <1>3, <1>4, <2>1, SetHeadIs
<1>6. g[t].pinuse
  BY <1>5
<1>7. g[p].size = h[p].size /\ g[p].pinuse /\ g[p].cinuse
  BY <1>5 DEF InUse, Header
<1>8. p # 0
  BY <1>1 DEF Tagged, InUse, Header
<1>9. /\ \A q \in DOMAIN h : g[q].size = h[q].size
      /\ \A q \in DOMAIN h \ {p} : g[q].cinuse <=> h[q].cinuse
  BY <1>5, <1>7
<1>10. ChunksOf(g) = ChunksOf(h)
  BY <1>5 DEF ChunksOf
<1>11. \A q \in DOMAIN h : After(g, q) = After(h, q)
  BY <1>9 DEF After
<1>12. Tiled(g)
  <2>1. g \in [DOMAIN g -> Heads]
    BY <1>5
  <2>2. \A q \in ChunksOf(g) : g[q].size > 0 /\ After(g, q) \in DOMAIN g
    BY <1>1, <1>5, <1>9, <1>10, <1>11 DEF Tiled, ChunksOf
  <2>3. \A a, b \in DOMAIN g : a < b => After(g, a) <= b
    BY <1>1, <1>5, <1>11 DEF Tiled
  <2>4. \A q \in DOMAIN g \ {0} : Prior(g, q)
    <3> SUFFICES ASSUME NEW q \in DOMAIN g \ {0} PROVE Prior(g, q)
      OBVIOUS
    <3>1. PICK o \in ChunksOf(h) : After(h, o) = q
      BY <1>1, <1>5 DEF Tiled, Prior
    <3> QED BY <1>10, <1>11, <3>1 DEF Prior, ChunksOf
  <2> QED BY <1>1, <1>5, <1>10, <2>1, <2>2, <2>3, <2>4 DEF Tiled
<1>13. Aligned(g)
  BY <1>1, <1>9, <1>10 DEF Aligned, ChunksOf
<1>14. t \notin FreeOf(h)
  <2>1. ~h[t].pinuse
    BY <1>1 DEF Tagged
  <2> QED BY <1>1, <2>1 DEF Tagged, FreeOf
<1>15. Tagged(g)
  <2>1. g[0] = InUse(StateSize)
    <3>1. CASE t = 0
      BY <1>2, <3>1
    <3>2. CASE t # 0
      BY <1>1, <1>5, <1>8, <3>2 DEF Tagged, Tiled, ChunksOf
    <3> QED BY <3>1, <3>2
  <2>2. ~g[End].cinuse
    BY <1>1, <1>2, <1>9 DEF Tagged, Tiled
  <2>3. ASSUME NEW q \in ChunksOf(g) PROVE g[After(g, q)].pinuse <=> g[q].cinuse
    <3>1. q \in ChunksOf(h) /\ q \in DOMAIN h /\ After(g, q) = After(h, q)
          /\ After(h, q) \in DOMAIN h
      BY <1>1, <1>10, <1>11, ChunkFacts DEF ChunksOf
    <3>2. CASE q = p
      BY <1>6, <1>7, <3>1, <3>2
    <3>3. CASE q # p
      <4>1. After(h, q) # t
        BY <1>1, <3>1, <3>3, OnePrior
      <4>2. h[After(h, q)].pinuse <=> g[q].cinuse
        BY <1>1, <1>9, <3>1, <3>3 DEF Tagged
      <4>3. CASE After(h, q) = p
        <5>1. h[p].pinuse
          BY <1>1 DEF Tagged
        <5> QED BY <1>7, <3>1, <4>2, <4>3, <5>1
      <4>4. CASE After(h, q) # p
        <5>1. g[After(h, q)] = h[After(h, q)]
          BY <1>5, <3>1, <4>1, <4>4
        <5> QED BY <3>1, <4>2, <5>1
      <4> QED BY <4>3, <4>4
    <3> QED BY <3>2, <3>3
  <2>4. ASSUME NEW q \in ChunksOf(g), ~g[q].cinuse PROVE g[q].pinuse
    <3>1. q # p /\ q \in ChunksOf(h) /\ q \in DOMAIN h
      BY <1>7, <1>10, <2>4 DEF ChunksOf
    <3>2. CASE q = t
      BY <1>6, <3>2
    <3>3. CASE q # t
      <4>1. g[q] = h[q]
        BY <1>5, <3>1, <3>3
      <4> QED BY <1>1, <2>4, <3>1, <4>1 DEF Tagged
    <3> QED BY <3>2, <3>3
  <2> QED BY <2>1, <2>2, <2>3, <2>4 DEF Tagged
<1>16. FreeOf(g) = FreeOf(h) \ {p}
  <2>1. \A q \in ChunksOf(h) \ {p} : g[q].cinuse <=> h[q].cinuse
    BY <1>9 DEF ChunksOf
  <2> QED BY <1>7, <1>10, <2>1 DEF FreeOf
<1>17. t \in DOMAIN h \ {p}
  BY <1>2
<1> QED BY <1>5, <1>6, <1>9, <1>10, <1>12, <1>13, <1>14, <1>15, <1>16, <1>17 DEF Arena

\* The run of chunks from start to stop becomes one free chunk: heads g.
Between(h, start, stop) == {q \in DOMAIN h : start < q /\ q < stop}
Joins(h, start, stop, g) ==
    g = SetHead(Without(h, Between(h, start, stop)), start, FreeChunk(stop - start))

IsJoin(h, start, stop, G, g) ==
    /\ DOMAIN g = DOMAIN h \ G /\ ChunksOf(g) = ChunksOf(h) \ G
    /\ start \in DOMAIN g /\ stop \in DOMAIN g
    /\ FreeOf(g) = (FreeOf(h) \ G) \union {start}
    /\ g[start] = FreeChunk(stop - start) /\ After(g, start) = stop
    /\ ~g[stop].pinuse
    /\ \A q \in DOMAIN g \ {start} :
           /\ g[q].size = h[q].size /\ (g[q].cinuse <=> h[q].cinuse)
           /\ After(g, q) = After(h, q)
    /\ \A q \in DOMAIN g \ {start, stop} : g[q] = h[q]

LEMMA JoinHeads ==
    ASSUME NEW h, Arena(h), NEW start \in ChunksOf(h), start # 0, h[start].pinuse,
           NEW stop \in DOMAIN h, start < stop, stop # End => h[stop].cinuse,
           NEW G, G = Between(h, start, stop),
           NEW g, Joins(h, start, stop, g)
    PROVE  Arena(g) /\ IsJoin(h, start, stop, G, g)
<1>k. PICK k : k = Without(h, G)
  OBVIOUS
<1>v. PICK v : v = FreeChunk(stop - start)
  OBVIOUS
<1>1. Tiled(h) /\ Aligned(h) /\ Tagged(h) /\ h \in [DOMAIN h -> Heads]
  BY DEF Arena, Tiled
<1>2. /\ start \in DOMAIN h /\ start \in Nat /\ stop \in Nat /\ End \in Nat
      /\ stop <= End /\ start < End
  BY <1>1, ChunkFacts DEF ChunksOf
<1>3. /\ DOMAIN k = DOMAIN h \ G /\ k \in [DOMAIN k -> Heads]
      /\ \A q \in DOMAIN k : k[q] = h[q]
  <2>1. DOMAIN k = DOMAIN h \ G /\ \A q \in DOMAIN k : k[q] = h[q]
    BY <1>k DEF Without
  <2>2. \A q \in DOMAIN k : h[q] \in Heads
    BY <1>1, <2>1
  <2> QED BY <1>k, <2>1, <2>2 DEF Without
<1>4. start \in DOMAIN k /\ stop \in DOMAIN k
  BY <1>2, <1>3 DEF Between
<1>5. v \in Heads /\ v.size = stop - start /\ ~v.cinuse /\ v.size > 0
      /\ stop = start + v.size
  BY <1>v, <1>2 DEF FreeChunk, Header, Heads
<1>6. /\ g \in [DOMAIN g -> Heads] /\ DOMAIN g = DOMAIN h \ G
      /\ g[start] = v
      /\ g[stop].size = h[stop].size /\ ~g[stop].pinuse
      /\ (g[stop].cinuse <=> h[stop].cinuse)
      /\ \A q \in DOMAIN g \ {start, stop} : g[q] = h[q]
  <2>1. g = SetHead(k, start, v) /\ start \in Int
    BY <1>k, <1>v, <1>2 DEF Joins
  <2>2. k \in [DOMAIN k -> Heads]
    BY <1>3
  <2>3. g \in [DOMAIN k -> Heads] /\ DOMAIN g = DOMAIN k /\ g[start] = v
    BY <1>4, <1>5, <2>1, <2>2, SetHeadIs
  <2>4. g[stop].size = k[stop].size /\ (g[stop].pinuse <=> v.cinuse)
    BY <1>4, <1>5, <2>1, <2>2, SetHeadIs
  <2>5. /\ g[stop].cinuse <=> k[stop].cinuse
        /\ \A q \in DOMAIN k \ {start, stop} : g[q] = k[q]
    BY <1>4, <1>5, <2>1, <2>2, SetHeadIs
  <2> QED BY <1>3, <1>4, <1>5, <2>3, <2>4, <2>5
<1>7. start \in DOMAIN g /\ stop \in DOMAIN g /\ start # stop
  BY <1>2, <1>3, <1>4, <1>6
<1>8. \A q \in DOMAIN g \ {start} :
          /\ q \in DOMAIN h /\ q \notin G
          /\ g[q].size = h[q].size /\ (g[q].cinuse <=> h[q].cinuse)
          /\ After(g, q) = After(h, q)
  BY <1>6, <1>7 DEF After
<1>9. After(g, start) = stop
  BY <1>5, <1>6 DEF After
<1>10. ChunksOf(g) = ChunksOf(h) \ G
  BY <1>6 DEF ChunksOf
<1>11. \A q \in DOMAIN g : q \in Nat /\ (q <= start \/ stop <= q)
  BY <1>1, <1>2, <1>6, ChunkFacts DEF Between
<1>12. ASSUME NEW q \in DOMAIN h, After(h, q) \in DOMAIN g, q \in G \/ q = start
       PROVE  After(h, q) = stop
  <2>1. q \in ChunksOf(h) /\ q < stop /\ start <= q
    BY <1>1, <1>2, <1>12, ChunkFacts DEF ChunksOf, Between
  <2>2. After(h, q) <= stop /\ start < After(h, q) /\ After(h, q) \in Nat
    BY <1>1, <1>2, <2>1, ChunkFacts
  <2> QED BY <1>2, <1>11, <1>12, <2>2
<1>13. Tiled(g)
  <2>1. DOMAIN g \subseteq 0..End
    BY <1>1, <1>6 DEF Tiled
  <2>2. 0 \in ChunksOf(g) /\ End \in DOMAIN g
    BY <1>1, <1>2, <1>6, <1>10 DEF Tiled, Between, ChunksOf
  <2>3. ASSUME NEW q \in ChunksOf(g) PROVE g[q].size > 0 /\ After(g, q) \in DOMAIN g
    <3>1. CASE q = start
      BY <1>5, <1>6, <1>7, <1>9, <3>1
    <3>2. CASE q # start
      <4>1. q \in DOMAIN g /\ q \in ChunksOf(h) /\ q \in Nat
        BY <1>2, <1>10, <1>11 DEF ChunksOf
      <4>2. After(g, q) = After(h, q) /\ g[q].size > 0 /\ After(h, q) \in DOMAIN h
            /\ q < After(h, q) /\ After(h, q) \in Nat
        BY <1>1, <1>8, <3>2, <4>1, ChunkFacts
      <4>3. After(h, q) <= start \/ stop < After(h, q)
        <5>1. CASE q < start
          BY <1>1, <1>2, <4>1, <5>1, ChunkFacts
        <5>2. CASE stop <= q
          BY <1>2, <4>1, <4>2, <5>2
        <5> QED BY <1>2, <1>11, <3>2, <4>1, <5>1, <5>2
      <4> QED BY <1>2, <1>6, <4>2, <4>3 DEF Between
    <3> QED BY <3>1, <3>2
  <2>4. ASSUME NEW a \in DOMAIN g, NEW b \in DOMAIN g, a < b PROVE After(g, a) <= b
    <3>1. CASE a = start
      BY <1>2, <1>9, <1>11, <2>4, <3>1
    <3>2. CASE a # start
      BY <1>1, <1>6, <1>8, <2>4, <3>2, ChunkFacts
    <3> QED BY <3>1, <3>2
  <2>5. ASSUME NEW q \in DOMAIN g \ {0} PROVE Prior(g, q)
    <3>1. CASE q = stop
      <4>1. start \in ChunksOf(g)
        BY <1>2, <1>7 DEF ChunksOf
      <4> QED BY <1>9, <3>1, <4>1 DEF Prior
    <3>2. CASE q # stop
      <4>1. PICK o \in ChunksOf(h) : After(h, o) = q
        BY <1>1, <1>6 DEF Tiled, Prior
      <4>2. o \in DOMAIN h /\ o \notin G /\ o # start
        BY <1>12, <3>2, <4>1 DEF ChunksOf
      <4>3. o \in ChunksOf(g) /\ o \in DOMAIN g
        BY <1>6, <1>10, <4>1, <4>2
      <4> QED BY <1>8, <4>1, <4>2, <4>3 DEF Prior
    <3> QED BY <3>1, <3>2
  <2> QED BY <1>6, <2>1, <2>2, <2>3, <2>4, <2>5 DEF Tiled
<1>14. Aligned(g)
  <2>1. start % Word = 0 /\ Word \in Nat /\ Word > 0
    BY <1>1, Constants DEF Aligned
  <2>2. stop % Word = 0
    <3>1. CASE stop = End
      <4>1. /\ Capacity \in Int /\ TopFoot \in Int
            /\ Capacity % Word = 0 /\ TopFoot % Word = 0
        BY Constants
      <4> QED BY <2>1, <3>1, <4>1, Multiples DEF End
    <3>2. CASE stop # End
      BY <1>1, <3>2 DEF Aligned, ChunksOf
    <3> QED BY <3>1, <3>2
  <2>3. g[start].size % Word = 0
    BY <1>2, <1>5, <1>6, <2>1, <2>2, Multiples
  <2>4. ASSUME NEW q \in ChunksOf(g), q # start PROVE q % Word = 0 /\ g[q].size % Word = 0
    <3>1. q \in ChunksOf(h) /\ q \in DOMAIN g
      BY <1>10 DEF ChunksOf
    <3> QED BY <1>1, <1>8, <2>4, <3>1 DEF Aligned
  <2> QED BY <2>1, <2>3, <2>4 DEF Aligned
<1>15. Tagged(g)
  <2>1. g[0] = InUse(StateSize)
    <3>1. 0 \in DOMAIN g /\ 0 # stop
      BY <1>2, <1>13 DEF Tiled, ChunksOf
    <3> QED BY <1>1, <1>6, <3>1 DEF Tagged
  <2>2. ~g[End].cinuse
    BY <1>1, <1>2, <1>8, <1>13 DEF Tagged, Tiled
  <2>3. ASSUME NEW q \in ChunksOf(g) PROVE g[After(g, q)].pinuse <=> g[q].cinuse
    <3>1. CASE q = start
      BY <1>5, <1>6, <1>9, <3>1
    <3>2. CASE q # start
      <4>1. q \in DOMAIN g /\ q \in ChunksOf(h) /\ After(g, q) = After(h, q)
            /\ (g[q].cinuse <=> h[q].cinuse) /\ After(g, q) \in DOMAIN g
        BY <1>8, <1>10, <1>13, <3>2 DEF ChunksOf, Tiled
      <4>2. h[After(h, q)].pinuse <=> g[q].cinuse
        BY <1>1, <4>1 DEF Tagged
      <4>3. After(g, q) # stop
        <5>1. start \in ChunksOf(g)
          BY <1>2, <1>7 DEF ChunksOf
        <5> QED BY <1>9, <1>13, <3>2, <5>1, OnePrior
      <4>4. CASE After(g, q) = start
        <5>1. g[start].pinuse
          BY <1>v, <1>6 DEF FreeChunk, Header
        <5> QED BY <4>1, <4>2, <4>4, <5>1
      <4>5. CASE After(g, q) # start
        <5>1. g[After(g, q)] = h[After(g, q)]
          BY <1>6, <4>1, <4>3, <4>5
        <5> QED BY <4>1, <4>2, <5>1
      <4> QED BY <4>4, <4>5
    <3> QED BY <3>1, <3>2
  <2>4. ASSUME NEW q \in ChunksOf(g), ~g[q].cinuse PROVE g[q].pinuse
    <3>1. CASE q = start
      BY <1>6, <3>1, <1>v DEF FreeChunk, Header
    <3>2. CASE q # start
      <4>1. q \in DOMAIN g /\ q \in ChunksOf(h) /\ q # End
        BY <1>10 DEF ChunksOf
      <4>2. q # stop /\ ~h[q].cinuse
        BY <1>8, <2>4, <3>2, <4>1
      <4> QED BY <1>1, <1>6, <3>2, <4>1, <4>2 DEF Tagged
    <3> QED BY <3>1, <3>2
  <2> QED BY <2>1, <2>2, <2>3, <2>4 DEF Tagged
<1>16. FreeOf(g) = (FreeOf(h) \ G) \union {start}
  <2>1. start \in ChunksOf(g) /\ ~g[start].cinuse
    BY <1>2, <1>5, <1>6, <1>7 DEF ChunksOf
  <2>2. \A q \in ChunksOf(g) \ {start} : g[q].cinuse <=> h[q].cinuse
    BY <1>8 DEF ChunksOf
  <2> QED BY <1>10, <2>1, <2>2 DEF FreeOf
<1>17. g[start] = FreeChunk(stop - start)
  BY <1>v, <1>6
<1> QED BY <1>6, <1>7, <1>8, <1>9, <1>10, <1>13, <1>14, <1>15, <1>16, <1>17 DEF Arena, IsJoin

-----------------------------------------------------------------------------
(* Handing out a chunk. *)

\* No chunk but top ends at the end of the arena.
LEMMA OnlyTopIsLast ==
    ASSUME HeapInv, NEW p \in ChunksOf(head), p # top
    PROVE  After(head, p) \in ChunksOf(head)
<1>1. Tiled(head) /\ top \in ChunksOf(head) /\ After(head, top) = End
  BY DEF HeapInv, Arena, Filed, TopInv, FreeOf
<1>2. After(head, p) # End
  BY <1>1, OnePrior
<1> QED BY <1>1, <1>2, ChunkFacts DEF ChunksOf

LEMMA WholeStep ==
    ASSUME HeapInv, NEW p \in FreeOf(head) \ {top}, NEW n \in Requests,
           Fits(head[p].size, n), top' = top, TakeWhole(p, head[p].size, n)
    PROVE  /\ Arena(head)' /\ Footed(head, foot)' /\ HeldInv'
           /\ FreeOf(head)' = FreeOf(head) \ {p}
           /\ ChunksOf(head)' = ChunksOf(head)
           /\ \A q \in ChunksOf(head) : head'[q].size = head[q].size
<1> DEFINE t == After(head, p)
<1>1. /\ Arena(head) /\ Tiled(head) /\ Tagged(head) /\ Footed(head, foot) /\ HeldInv
      /\ p \in FreeOf(head) /\ p \in ChunksOf(head) /\ p \in DOMAIN head /\ ~head[p].cinuse
      /\ p # 0
  BY DEF HeapInv, Arena, FreeOf, ChunksOf, Tagged, InUse, Header
<1>2. /\ head' = SetHead(head, p, InUse(head[p].size))
      /\ foot' = Without(foot, {t}) /\ asked' = With(asked, p, n)
  BY DEF TakeWhole, After
<1>3. /\ Arena(head')
      /\ t \in DOMAIN head \ {p}
      /\ DOMAIN head' = DOMAIN head /\ ChunksOf(head') = ChunksOf(head)
      /\ FreeOf(head') = FreeOf(head) \ {p}
      /\ head'[p] = InUse(head[p].size)
      /\ \A q \in DOMAIN head \ {p, t} : head'[q] = head[q]
      /\ \A q \in DOMAIN head : head'[q].size = head[q].size
      /\ \A q \in DOMAIN head \ {p} : head'[q].cinuse <=> head[q].cinuse
      /\ head'[t].pinuse
  BY <1>1, <1>2, WholeHeads
<1>4. \A q \in ChunksOf(head) : q \in DOMAIN head /\ After(head', q) = After(head, q)
  BY <1>3 DEF After, ChunksOf
<1>5. Footed(head', foot')
  <2>1. head[p].pinuse /\ head'[p].pinuse
    BY <1>1, <1>3 DEF Tagged, InUse, Header
  <2>2. DOMAIN foot' = DOMAIN foot \ {t} /\ \A q \in DOMAIN foot' : foot'[q] = foot[q]
    BY <1>2 DEF Without
  <2>3. foot' \in [DOMAIN foot' -> Nat]
    <3>1. \A q \in DOMAIN foot' : foot'[q] \in Nat
      BY <1>1, <2>2 DEF Footed
    <3> QED BY <1>2, <3>1 DEF Without
  <2>4. DOMAIN foot' = {q \in ChunksOf(head') : ~head'[q].pinuse}
    <3>1. \A q \in ChunksOf(head) \ {p, t} : head'[q] = head[q]
      BY <1>3 DEF ChunksOf
    <3>2. DOMAIN foot = {q \in ChunksOf(head) : ~head[q].pinuse}
      BY <1>1 DEF Footed
    <3> QED BY <1>3, <2>1, <2>2, <3>1, <3>2
  <2>5. ASSUME NEW q \in ChunksOf(head'), ~head'[q].cinuse, After(head', q) # End
        PROVE  foot'[After(head', q)] = head'[q].size
    <3>1. q \in ChunksOf(head) /\ q # p /\ q \in DOMAIN head
      BY <1>3, <2>5 DEF InUse, Header, ChunksOf
    <3>2. ~head[q].cinuse /\ After(head', q) = After(head, q) /\ After(head, q) # t
      BY <1>1, <1>3, <1>4, <2>5, <3>1, OnePrior
    <3>3. After(head, q) \in ChunksOf(head) /\ ~head[After(head, q)].pinuse
      BY <1>1, <1>4, <2>5, <3>1, <3>2, ChunkFacts DEF Tagged, ChunksOf
    <3>4. After(head, q) \in DOMAIN foot /\ foot[After(head, q)] = head[q].size
      BY <1>1, <2>5, <3>1, <3>2, <3>3 DEF Footed
    <3> QED BY <1>3, <2>2, <3>1, <3>2, <3>4
  <2> QED BY <2>3, <2>4, <2>5 DEF Footed
<1>6. HeldInv'
  <2>1. DOMAIN asked' = DOMAIN asked \union {p}
        /\ asked'[p] = n /\ \A q \in DOMAIN asked \ {p} : asked'[q] = asked[q]
    BY <1>2 DEF With
  <2>2. asked' \in [DOMAIN asked' -> Requests]
    <3>1. \A q \in DOMAIN asked' : asked'[q] \in Requests
      BY <1>1, <2>1 DEF HeldInv
    <3> QED BY <1>2, <3>1 DEF With
  <2>3. DOMAIN asked' = ChunksOf(head') \ ({0} \union FreeOf(head'))
    BY <1>1, <1>3, <2>1 DEF HeldInv
  <2>4. \A q \in DOMAIN asked' : Fits(head'[q].size, asked'[q])
    BY <1>1, <1>3, <2>1 DEF HeldInv, ChunksOf
  <2>5. \A q \in FreeOf(head') \ {top'} : head'[q].size >= MinChunk
    BY <1>1, <1>3 DEF HeldInv, FreeOf, ChunksOf
  <2> QED BY <2>2, <2>3, <2>4, <2>5 DEF HeldInv
<1> QED BY <1>3, <1>4, <1>5, <1>6

LEMMA FrontStep ==
    ASSUME HeapInv, NEW p \in FreeOf(head) \ {top}, NEW n \in Requests,
           head[p].size - ChunkSizeFor(n) >= MinChunk, top' = top,
           TakeFront(p, head[p].size, n)
    PROVE  LET r == p + ChunkSizeFor(n)
           IN  /\ Arena(head)' /\ Footed(head, foot)' /\ HeldInv'
               /\ r \notin DOMAIN head /\ r \in Nat
               /\ FreeOf(head)' = (FreeOf(head) \ {p}) \union {r}
               /\ ChunksOf(head)' = ChunksOf(head) \union {r}
               /\ \A q \in ChunksOf(head) \ {p} : head'[q] = head[q]
               /\ head'[r].size = head[p].size - ChunkSizeFor(n)
<1> DEFINE s == ChunkSizeFor(n)
           r == p + s
           t == After(head, p)
<1>1. /\ Arena(head) /\ Tiled(head) /\ Tagged(head) /\ Footed(head, foot) /\ HeldInv
      /\ p \in FreeOf(head) /\ p \in ChunksOf(head) /\ p \in DOMAIN head /\ ~head[p].cinuse
      /\ p # 0
  BY DEF HeapInv, Arena, FreeOf, ChunksOf, Tagged, InUse, Header
<1>2. s \in Nat /\ s >= MinChunk /\ s % Word = 0 /\ 0 < s /\ MinChunk > 0 /\ MinChunk \in Nat
  BY ChunkSizeIs, Constants
<1>3. p \in Nat /\ head[p].size \in Nat /\ s < head[p].size
  BY <1>1, <1>2, ChunkFacts
<1>4. /\ head' = With([head EXCEPT ![p] = InUse(s)], r, FreeChunk(head[p].size - s))
      /\ foot' = [foot EXCEPT ![t] = head[p].size - s] /\ asked' = With(asked, p, n)
  BY DEF TakeFront, After
<1> HIDE DEF s
<1>5. /\ Arena(head') /\ r \notin DOMAIN head /\ r \in Nat
      /\ DOMAIN head' = DOMAIN head \union {r}
      /\ ChunksOf(head') = ChunksOf(head) \union {r}
      /\ FreeOf(head') = (FreeOf(head) \ {p}) \union {r}
      /\ head'[p] = InUse(s) /\ head'[r] = FreeChunk(head[p].size - s)
      /\ \A q \in DOMAIN head \ {p} : head'[q] = head[q]
  <2>1. /\ Arena(head) /\ p \in FreeOf(head) /\ s \in Nat /\ 0 < s
        /\ s < head[p].size /\ s % Word = 0
        /\ head' = With([head EXCEPT ![p] = InUse(s)], p + s,
                        FreeChunk(head[p].size - s))
    BY <1>1, <1>2, <1>3, <1>4
  <2>2. Arena(head') /\ IsSplit(head, p, s, head')
    BY <2>1, SplitHeads
  <2> QED BY <2>2 DEF IsSplit
<1>6. t \in ChunksOf(head) /\ t # p /\ ~head[t].pinuse /\ t \in DOMAIN foot
  <2>1. t \in ChunksOf(head) /\ t # p
    BY <1>1, <1>3, OnlyTopIsLast, ChunkFacts
  <2>2. ~head[t].pinuse
    BY <1>1 DEF Tagged
  <2> QED BY <1>1, <2>1, <2>2 DEF Footed
<1>7. /\ head'[p].size = s /\ head'[p].pinuse /\ head'[p].cinuse
      /\ head'[r].size = head[p].size - s /\ head'[r].pinuse /\ ~head'[r].cinuse
  BY <1>5 DEF InUse, FreeChunk, Header
<1>8. \A q \in ChunksOf(head) \ {p} : head'[q] = head[q] /\ After(head', q) = After(head, q)
  BY <1>5 DEF ChunksOf, After
<1>9. After(head', r) = t
  BY <1>3, <1>2, <1>7 DEF After
<1>10. Footed(head', foot')
  <2>1. DOMAIN foot' = DOMAIN foot /\ foot'[t] = head[p].size - s
        /\ \A q \in DOMAIN foot \ {t} : foot'[q] = foot[q]
    BY <1>4, <1>6
  <2>2. foot' \in [DOMAIN foot' -> Nat]
    <3>1. head[p].size - s \in Nat
      BY <1>2, <1>3
    <3> QED BY <1>1, <1>4, <3>1 DEF Footed
  <2>3. DOMAIN foot' = {q \in ChunksOf(head') : ~head'[q].pinuse}
    <3>1. DOMAIN foot = {q \in ChunksOf(head) : ~head[q].pinuse}
      BY <1>1 DEF Footed
    <3>2. head[p].pinuse
      BY <1>1 DEF Tagged
    <3>3. r \notin ChunksOf(head)
      BY <1>5 DEF ChunksOf
    <3> QED BY <1>5, <1>7, <1>8, <2>1, <3>1, <3>2, <3>3
  <2>4. ASSUME NEW q \in ChunksOf(head'), ~head'[q].cinuse, After(head', q) # End
        PROVE  foot'[After(head', q)] = head'[q].size
    <3>1. CASE q = r
      BY <1>7, <1>9, <2>1, <3>1
    <3>2. CASE q # r
      <4>1. q \in ChunksOf(head) /\ q # p
        BY <1>5, <1>7, <2>4, <3>2
      <4>2. head'[q] = head[q] /\ After(head', q) = After(head, q) /\ After(head, q) # t
        BY <1>1, <1>8, <4>1, OnePrior
      <4>3. After(head, q) \in DOMAIN foot /\ foot[After(head, q)] = head[q].size
        <5>1. After(head, q) \in ChunksOf(head)
          BY <1>1, <2>4, <4>1, <4>2, ChunkFacts DEF ChunksOf
        <5>2. ~head[After(head, q)].pinuse
          BY <1>1, <2>4, <4>1, <4>2 DEF Tagged
        <5> QED BY <1>1, <2>4, <4>1, <4>2, <5>1, <5>2 DEF Footed
      <4> QED BY <2>1, <4>2, <4>3
    <3> QED BY <3>1, <3>2
  <2> QED BY <2>2, <2>3, <2>4 DEF Footed
<1>11. HeldInv'
  <2>1. DOMAIN asked' = DOMAIN asked \union {p}
        /\ asked'[p] = n /\ \A q \in DOMAIN asked \ {p} : asked'[q] = asked[q]
    BY <1>4 DEF With
  <2>2. asked' \in [DOMAIN asked' -> Requests]
    <3>1. \A q \in DOMAIN asked' : asked'[q] \in Requests
      BY <1>1, <2>1 DEF HeldInv
    <3> QED BY <1>4, <3>1 DEF With
  <2>3. DOMAIN asked' = ChunksOf(head') \ ({0} \union FreeOf(head'))
    <3>1. r # 0 /\ r # p /\ r \notin ChunksOf(head)
      BY <1>2, <1>3, <1>5 DEF ChunksOf
    <3> QED BY <1>1, <1>5, <2>1, <3>1 DEF HeldInv
  <2>4. \A q \in DOMAIN asked' : Fits(head'[q].size, asked'[q])
    <3>1. Fits(s, n)
      BY <1>2 DEF Fits, s
    <3>2. \A q \in DOMAIN asked : q # p /\ q \in ChunksOf(head)
      BY <1>1 DEF HeldInv
    <3> QED BY <1>1, <1>7, <1>8, <2>1, <3>1, <3>2 DEF HeldInv
  <2>5. \A q \in FreeOf(head') \ {top'} : head'[q].size >= MinChunk
    <3>1. head'[r].size >= MinChunk
      BY <1>7 DEF s
    <3>2. \A q \in FreeOf(head) \ {p} : head'[q] = head[q]
      BY <1>8 DEF FreeOf
    <3> QED BY <1>1, <1>5, <3>1, <3>2 DEF HeldInv
  <2> QED BY <2>2, <2>3, <2>4, <2>5 DEF HeldInv
<1> QED BY <1>5, <1>7, <1>8, <1>10, <1>11 DEF s

\* What the heads say of the chunks that are filed.
LEMMA FiledFacts ==
    ASSUME HeapInv
    PROVE  /\ top \in FreeOf(head) /\ top \in Nat /\ topsize = head[top].size
           /\ \A p \in FreeOf(head) : p \in ChunksOf(head) /\ p \in DOMAIN head /\ p \in Nat
                                      /\ head[p].size \in Nat
           /\ \A p \in DOMAIN bins : /\ p \in FreeOf(head) \ {top, dv}
                                     /\ bins[p] = head[p].size
           /\ dvsize # 0 => dv \in FreeOf(head) \ {top} /\ dvsize = head[dv].size
           /\ dvsize = 0 => dv \notin FreeOf(head)
           /\ dvsize \in Nat
<1>1. Tiled(head) /\ TopInv /\ DvInv /\ BinsInv
  BY DEF HeapInv, Arena, Filed
<1>2. \A p \in FreeOf(head) : p \in ChunksOf(head) /\ p \in DOMAIN head /\ p \in Nat
                              /\ head[p].size \in Nat
  BY <1>1, ChunkFacts DEF FreeOf
<1>3. NoChunk \notin Nat
  BY DEF NoChunk
<1>4. /\ top \in FreeOf(head) /\ topsize = head[top].size
      /\ dvsize # 0 => dv \in FreeOf(head) \ {top} /\ dvsize = head[dv].size
      /\ dvsize = 0 => dv = NoChunk
      /\ dvsize \in Nat
  BY <1>1 DEF TopInv, DvInv
<1>5. \A p \in DOMAIN bins : p \in FreeOf(head) \ {top, dv} /\ bins[p] = head[p].size
  BY <1>1 DEF BinsInv
<1> QED BY <1>2, <1>3, <1>4, <1>5

\* top and what is filed elsewhere stay as they are while a chunk is handed out.
LEMMA TopKept ==
    ASSUME HeapInv, UNCHANGED <<top, topsize>>, top \in FreeOf(head)',
           head'[top].size = head[top].size
    PROVE  TopInv'
BY DEF HeapInv, Filed, TopInv, After

\* A chunk of a bin is taken whole.
LEMMA BinnedWhole ==
    ASSUME HeapInv, NEW p \in DOMAIN bins, NEW n \in Requests, Fits(bins[p], n),
           TakeWhole(p, bins[p], n), bins' = Without(bins, {p}),
           UNCHANGED <<dv, dvsize, top, topsize>>
    PROVE  HeapInv'
<1>1. /\ p \in FreeOf(head) \ {top} /\ p # dv /\ bins[p] = head[p].size
      /\ top \in FreeOf(head) /\ \A q \in FreeOf(head) : q \in ChunksOf(head)
  BY FiledFacts
<1>2. /\ Arena(head)' /\ Footed(head, foot)' /\ HeldInv'
      /\ FreeOf(head)' = FreeOf(head) \ {p}
      /\ \A q \in ChunksOf(head) : head'[q].size = head[q].size
  BY <1>1, WholeStep
<1>3. TopInv'
  BY <1>1, <1>2, TopKept
<1>4. DvInv'
  BY <1>1, <1>2, FiledFacts DEF HeapInv, Filed, DvInv
<1>5. BinsInv'
  <2>1. BinsInv
    BY DEF HeapInv, Filed
  <2>2. DOMAIN bins' = DOMAIN bins \ {p} /\ \A q \in DOMAIN bins' : bins'[q] = bins[q]
    BY DEF Without
  <2>3. bins' \in [DOMAIN bins' -> Nat]
    <3>1. \A q \in DOMAIN bins' : bins'[q] \in Nat
      BY <2>1, <2>2 DEF BinsInv
    <3> QED BY <3>1 DEF Without
  <2>4. DOMAIN bins' = FreeOf(head)' \ {top', dv'}
    BY <1>2, <2>1, <2>2 DEF BinsInv
  <2>5. \A q \in DOMAIN bins' : bins'[q] = head'[q].size
    BY <1>1, <1>2, <2>1, <2>2 DEF BinsInv
  <2> QED BY <2>3, <2>4, <2>5 DEF BinsInv
<1> QED BY <1>2, <1>3, <1>4, <1>5 DEF HeapInv, Filed

\* What is left over from a chunk that is not worth splitting.
LEMMA RemainderFits ==
    ASSUME NEW n \in Requests, NEW s \in Nat, ChunkSizeFor(n) <= s,
           ~ s - ChunkSizeFor(n) >= MinChunk
    PROVE  Fits(s, n)
BY ChunkSizeIs, Constants DEF Fits

LEMMA IntoDv ==
    ASSUME HeapInv, NEW p \in DOMAIN bins, NEW n \in Requests,
           ChunkSizeFor(n) <= bins[p], TakeIntoDv(p, n), UNCHANGED <<top, topsize>>
    PROVE  HeapInv'
<1>1. /\ p \in FreeOf(head) \ {top} /\ p # dv /\ bins[p] = head[p].size
      /\ bins[p] \in Nat
  BY FiledFacts
<1>2. CASE WorthSplitting(p, n)
  <2> DEFINE r == p + ChunkSizeFor(n)
  <2>1. /\ TakeFront(p, head[p].size, n)
        /\ dv' = r /\ dvsize' = head[p].size - ChunkSizeFor(n)
        /\ bins' = IF dvsize = 0 THEN Without(bins, {p})
                                 ELSE With(Without(bins, {p}), dv, dvsize)
        /\ head[p].size - ChunkSizeFor(n) >= MinChunk
    BY <1>1, <1>2 DEF TakeIntoDv, WorthSplitting
  <2>2. /\ Arena(head)' /\ Footed(head, foot)' /\ HeldInv'
        /\ r \notin DOMAIN head /\ r \in Nat
        /\ FreeOf(head)' = (FreeOf(head) \ {p}) \union {r}
        /\ \A q \in ChunksOf(head) \ {p} : head'[q] = head[q]
        /\ head'[r].size = head[p].size - ChunkSizeFor(n)
    BY <1>1, <2>1, FrontStep
  <2> HIDE DEF r
  <2>3. \A q \in FreeOf(head) \ {p} : head'[q] = head[q] /\ q # r
    BY <2>2, FiledFacts
  <2>4. TopInv'
    BY <1>1, <2>2, <2>3, FiledFacts, TopKept
  <2>5. DvInv'
    <3>1. dvsize' \in Nat /\ dvsize' # 0
      BY <1>1, <2>1, ChunkSizeIs, Constants
    <3>2. r \in FreeOf(head)' \ {top'} /\ dvsize' = head'[r].size
      BY <2>1, <2>2, <2>3, <1>1, FiledFacts
    <3> QED BY <2>1, <3>1, <3>2 DEF DvInv
  <2>6. BinsInv'
    <3>1. BinsInv
      BY DEF HeapInv, Filed
    <3>2. CASE dvsize = 0
      <4>1. DOMAIN bins' = DOMAIN bins \ {p} /\ \A q \in DOMAIN bins' : bins'[q] = bins[q]
        BY <2>1, <3>2 DEF Without
      <4>2. bins' \in [DOMAIN bins' -> Nat]
        <5>1. \A q \in DOMAIN bins' : bins'[q] \in Nat
          BY <3>1, <4>1 DEF BinsInv
        <5> QED BY <2>1, <3>2, <5>1 DEF Without
      <4>3. DOMAIN bins' = FreeOf(head)' \ {top', dv'}
        <5>1. dv \notin FreeOf(head) /\ r \notin FreeOf(head)
          BY <2>3, <3>2, <2>2, FiledFacts
        <5> QED BY <2>1, <2>2, <3>1, <4>1, <5>1 DEF BinsInv
      <4>4. \A q \in DOMAIN bins' : bins'[q] = head'[q].size
        BY <2>3, <3>1, <4>1 DEF BinsInv
      <4> QED BY <4>2, <4>3, <4>4 DEF BinsInv
    <3>3. CASE dvsize # 0
      <4>1. /\ DOMAIN bins' = (DOMAIN bins \ {p}) \union {dv}
            /\ bins'[dv] = dvsize
            /\ \A q \in DOMAIN bins' \ {dv} : bins'[q] = bins[q]
        BY <2>1, <3>3 DEF Without, With
      <4>2. dv \in FreeOf(head) \ {top} /\ dvsize = head[dv].size /\ dvsize \in Nat
        BY <3>3, FiledFacts
      <4>3. bins' \in [DOMAIN bins' -> Nat]
        <5>1. \A q \in DOMAIN bins' : bins'[q] \in Nat
          BY <3>1, <4>1, <4>2 DEF BinsInv
        <5> QED BY <2>1, <3>3, <5>1 DEF Without, With
      <4>4. DOMAIN bins' = FreeOf(head)' \ {top', dv'}
        <5>1. r \notin FreeOf(head)
          BY <2>2, FiledFacts
        <5> QED BY <1>1, <2>1, <2>2, <3>1, <4>1, <4>2, <5>1 DEF BinsInv
      <4>5. \A q \in DOMAIN bins' : bins'[q] = head'[q].size
        BY <1>1, <2>3, <3>1, <4>1, <4>2 DEF BinsInv
      <4> QED BY <4>3, <4>4, <4>5 DEF BinsInv
    <3> QED BY <3>2, <3>3
  <2> QED BY <2>2, <2>4, <2>5, <2>6 DEF HeapInv, Filed
<1>3. CASE ~WorthSplitting(p, n)
  <2>1. Fits(bins[p], n)
    BY <1>1, <1>3, RemainderFits DEF WorthSplitting
  <2> QED BY <1>3, <2>1, BinnedWhole DEF TakeIntoDv
<1> QED BY <1>2, <1>3

LEMMA IntoBin ==
    ASSUME HeapInv, NEW p \in DOMAIN bins, NEW n \in Requests,
           ChunkSizeFor(n) <= bins[p], TakeIntoBin(p, n), UNCHANGED <<top, topsize>>
    PROVE  HeapInv'
<1>1. /\ p \in FreeOf(head) \ {top} /\ p # dv /\ bins[p] = head[p].size
      /\ bins[p] \in Nat
  BY FiledFacts
<1>2. CASE WorthSplitting(p, n)
  <2> DEFINE r == p + ChunkSizeFor(n)
  <2>1. /\ TakeFront(p, head[p].size, n)
        /\ dv' = dv /\ dvsize' = dvsize
        /\ bins' = With(Without(bins, {p}), r, head[p].size - ChunkSizeFor(n))
        /\ head[p].size - ChunkSizeFor(n) >= MinChunk
    BY <1>1, <1>2 DEF TakeIntoBin, WorthSplitting
  <2>2. /\ Arena(head)' /\ Footed(head, foot)' /\ HeldInv'
        /\ r \notin DOMAIN head /\ r \in Nat
        /\ FreeOf(head)' = (FreeOf(head) \ {p}) \union {r}
        /\ \A q \in ChunksOf(head) \ {p} : head'[q] = head[q]
        /\ head'[r].size = head[p].size - ChunkSizeFor(n)
    BY <1>1, <2>1, FrontStep
  <2> HIDE DEF r
  <2>3. \A q \in FreeOf(head) \ {p} : head'[q] = head[q] /\ q # r
    BY <2>2, FiledFacts
  <2>4. TopInv'
    BY <1>1, <2>2, <2>3, FiledFacts, TopKept
  <2>5. DvInv'
    BY <1>1, <2>1, <2>2, <2>3, FiledFacts DEF HeapInv, Filed, DvInv
  <2>6. BinsInv'
    <3>1. BinsInv
      BY DEF HeapInv, Filed
    <3>2. /\ DOMAIN bins' = (DOMAIN bins \ {p}) \union {r}
          /\ bins'[r] = head[p].size - ChunkSizeFor(n)
          /\ \A q \in DOMAIN bins' \ {r} : bins'[q] = bins[q]
      BY <2>1 DEF Without, With
    <3>3. bins' \in [DOMAIN bins' -> Nat]
      <4>1. head[p].size - ChunkSizeFor(n) \in Nat
        BY <1>1, <2>1, ChunkSizeIs, Constants
      <4>2. \A q \in DOMAIN bins' : bins'[q] \in Nat
        BY <3>1, <3>2, <4>1 DEF BinsInv
      <4> QED BY <2>1, <4>2 DEF With
    <3>4. DOMAIN bins' = FreeOf(head)' \ {top', dv'}
      <4>1. r \notin FreeOf(head) /\ r # top /\ r # dv
        <5>1. r # NoChunk
          BY <2>2 DEF NoChunk
        <5>2. dv = NoChunk \/ dv \in FreeOf(head)
          BY DEF HeapInv, Filed, DvInv
        <5> QED BY <2>2, <5>1, <5>2, FiledFacts
      <4> QED BY <1>1, <2>1, <2>2, <3>1, <3>2, <4>1 DEF BinsInv
    <3>5. \A q \in DOMAIN bins' : bins'[q] = head'[q].size
      BY <1>1, <2>2, <2>3, <3>1, <3>2 DEF BinsInv
    <3> QED BY <3>3, <3>4, <3>5 DEF BinsInv
  <2> QED BY <2>2, <2>4, <2>5, <2>6 DEF HeapInv, Filed
<1>3. CASE ~WorthSplitting(p, n)
  <2>1. Fits(bins[p], n)
    BY <1>1, <1>3, RemainderFits DEF WorthSplitting
  <2> QED BY <1>3, <2>1, BinnedWhole DEF TakeIntoBin
<1> QED BY <1>2, <1>3

-----------------------------------------------------------------------------
(* mspace_malloc. *)

LEMMA ExactStep ==
    ASSUME HeapInv, NEW n \in Requests, MallocExact(n)
    PROVE  HeapInv'
<1>1. PICK p \in ExactFits(n) :
          /\ TakeWhole(p, bins[p], n) /\ bins' = Without(bins, {p})
          /\ UNCHANGED <<dv, dvsize, top, topsize>>
  BY DEF MallocExact
<1>2. /\ p \in DOMAIN bins
      /\ bins[p] = ChunkSizeFor(n) \/ bins[p] = ChunkSizeFor(n) + Word
  BY DEF ExactFits, SmallBin
<1>3. Fits(bins[p], n)
  BY <1>2, ChunkSizeIs, Constants DEF Fits
<1> QED BY <1>1, <1>2, <1>3, BinnedWhole

LEMMA SmallBinStep ==
    ASSUME HeapInv, NEW n \in Requests, MallocSmallBin(n)
    PROVE  HeapInv'
<1>1. PICK p \in SmallChunksFrom(ChunkSizeFor(n)) :
          TakeIntoDv(p, n) /\ UNCHANGED <<top, topsize>>
  BY DEF MallocSmallBin, Smallest
<1>2. p \in DOMAIN bins /\ bins[p] >= ChunkSizeFor(n)
  BY DEF SmallChunksFrom
<1>3. bins[p] \in Nat
  BY <1>2 DEF HeapInv, Filed, BinsInv
<1> QED BY <1>1, <1>2, <1>3, IntoDv, ChunkSizeIs

\* Every chunk of a treebin is large enough for a small request.
LEMMA SmallTreeStep ==
    ASSUME HeapInv, NEW n \in Requests, MallocSmallTree(n)
    PROVE  HeapInv'
<1>1. PICK p \in TreeChunks : TakeIntoDv(p, n) /\ UNCHANGED <<top, topsize>>
  BY DEF MallocSmallTree, Smallest
<1>2. p \in DOMAIN bins /\ ~ bins[p] < SmallLimit
  BY DEF TreeChunks, IsSmall
<1>3. bins[p] \in Nat
  BY <1>2 DEF HeapInv, Filed, BinsInv
<1>4. n <= SmallLimit - 1 - (Word - 1) - Word
  BY DEF MallocSmallTree, IsSmallRequest
<1>5. ChunkSizeFor(n) < SmallLimit
  BY <1>4, ChunkSizeIs, Constants
<1>6. ChunkSizeFor(n) <= bins[p]
  BY <1>2, <1>3, <1>5, ChunkSizeIs, Constants
<1> QED BY <1>1, <1>2, <1>6, IntoDv

\* The unsigned comparison of tmalloc_large keeps out chunks that are too small.
LEMMA UnsignedRemainder ==
    ASSUME NEW s \in Nat, NEW nb \in Nat, NEW w \in Nat, s < w, nb < w, 0 < nb,
           (s - nb) % w < (-nb) % w
    PROVE  nb <= s
<1> SUFFICES ASSUME s < nb PROVE FALSE
  OBVIOUS
<1>1. ASSUME NEW d \in Int, -w <= d, d < 0 PROVE d % w = d + w
  BY <1>1
<1>2. (s - nb) % w = s - nb + w /\ (-nb) % w = -nb + w
  BY <1>1
<1> QED BY <1>2

LEMMA LargeStep ==
    ASSUME HeapInv, NEW n \in Requests, MallocLarge(n)
    PROVE  HeapInv'
<1>1. PICK p \in LargeFits(n) : TakeIntoBin(p, n) /\ UNCHANGED <<top, topsize>>
  BY DEF MallocLarge
<1>2. /\ p \in DOMAIN bins
      /\ (bins[p] - ChunkSizeFor(n)) % Width < (-ChunkSizeFor(n)) % Width
  BY DEF LargeFits, Smallest, TreeChunks
<1>3. bins[p] \in Nat /\ bins[p] < Width
  <2>1. p \in ChunksOf(head) /\ bins[p] = head[p].size /\ bins[p] \in Nat
    BY <1>2, FiledFacts
  <2>2. p \in Nat /\ After(head, p) <= End /\ After(head, p) = p + bins[p]
    BY <2>1, ChunkFacts DEF HeapInv, Arena, After
  <2> QED BY <2>1, <2>2, Constants, HeapAssumption DEF End
<1>4. /\ ChunkSizeFor(n) \in Nat /\ 0 < ChunkSizeFor(n) /\ ChunkSizeFor(n) < Width
      /\ Width \in Nat
  BY ChunkSizeIs, Constants, HeapAssumption
<1>5. ChunkSizeFor(n) <= bins[p]
  BY <1>2, <1>3, <1>4, UnsignedRemainder
<1> QED BY <1>1, <1>2, <1>5, IntoBin

LEMMA DvStep ==
    ASSUME HeapInv, NEW n \in Requests, MallocDv(n)
    PROVE  HeapInv'
<1> DEFINE s == ChunkSizeFor(n)
           r == dv + s
<1>1. s \in Nat /\ s >= MinChunk /\ MinChunk \in Nat /\ MinChunk > 0
  BY ChunkSizeIs, Constants
<1>2. s <= dvsize /\ UNCHANGED <<bins, top, topsize>>
  BY DEF MallocDv
<1>3. dvsize \in Nat /\ dvsize # 0
  BY <1>1, <1>2, FiledFacts
<1>4. dv \in FreeOf(head) \ {top} /\ dvsize = head[dv].size
  BY <1>3, FiledFacts
<1>5. BinsInv
  BY DEF HeapInv, Filed
<1>6. CASE dvsize - s >= MinChunk
  <2>1. TakeFront(dv, head[dv].size, n) /\ dv' = r /\ dvsize' = dvsize - s
    BY <1>4, <1>6 DEF MallocDv
  <2>2. /\ Arena(head)' /\ Footed(head, foot)' /\ HeldInv'
        /\ r \notin DOMAIN head /\ r \in Nat
        /\ FreeOf(head)' = (FreeOf(head) \ {dv}) \union {r}
        /\ \A q \in ChunksOf(head) \ {dv} : head'[q] = head[q]
        /\ head'[r].size = head[dv].size - s
    BY <1>2, <1>4, <1>6, <2>1, FrontStep
  <2> HIDE DEF r, s
  <2>3. \A q \in FreeOf(head) \ {dv} : head'[q] = head[q] /\ q # r
    BY <2>2, FiledFacts
  <2>4. TopInv'
    BY <1>2, <1>4, <2>2, <2>3, FiledFacts, TopKept
  <2>5. DvInv'
    <3>1. dvsize' \in Nat /\ dvsize' # 0
      BY <1>1, <1>3, <1>6, <2>1
    <3>2. r \in FreeOf(head)' \ {top'} /\ dvsize' = head'[r].size
      BY <1>2, <1>4, <2>1, <2>2, FiledFacts
    <3> QED BY <2>1, <3>1, <3>2 DEF DvInv
  <2>6. BinsInv'
    <3>1. r \notin FreeOf(head)
      BY <2>2, FiledFacts
    <3>2. DOMAIN bins' = FreeOf(head)' \ {top', dv'}
      BY <1>2, <1>5, <2>1, <2>2, <3>1 DEF BinsInv
    <3>3. \A q \in DOMAIN bins' : bins'[q] = head'[q].size
      BY <1>2, <1>5, <2>3 DEF BinsInv
    <3> QED BY <1>2, <1>5, <3>2, <3>3 DEF BinsInv
  <2> QED BY <2>2, <2>4, <2>5, <2>6 DEF HeapInv, Filed
<1>7. CASE ~ dvsize - s >= MinChunk
  <2>1. TakeWhole(dv, head[dv].size, n) /\ dv' = NoChunk /\ dvsize' = 0
    BY <1>4, <1>7 DEF MallocDv
  <2>2. Fits(head[dv].size, n)
    BY <1>2, <1>3, <1>4, <1>7, RemainderFits
  <2>3. /\ Arena(head)' /\ Footed(head, foot)' /\ HeldInv'
        /\ FreeOf(head)' = FreeOf(head) \ {dv}
        /\ \A q \in ChunksOf(head) : head'[q].size = head[q].size
    BY <1>2, <1>4, <2>1, <2>2, WholeStep
  <2>4. TopInv'
    BY <1>2, <1>4, <2>3, FiledFacts, TopKept
  <2>5. DvInv'
    BY <2>1 DEF DvInv
  <2>6. BinsInv'
    <3>1. NoChunk \notin FreeOf(head)
      BY FiledFacts DEF NoChunk
    <3>2. DOMAIN bins' = FreeOf(head)' \ {top', dv'}
      BY <1>2, <1>5, <2>1, <2>3, <3>1 DEF BinsInv
    <3>3. \A q \in DOMAIN bins' : bins'[q] = head'[q].size
      BY <1>2, <1>5, <2>3, FiledFacts DEF BinsInv
    <3> QED BY <1>2, <1>5, <3>2, <3>3 DEF BinsInv
  <2> QED BY <2>3, <2>4, <2>5, <2>6 DEF HeapInv, Filed
<1> QED BY <1>6, <1>7

LEMMA TopStep ==
    ASSUME HeapInv, NEW n \in Requests, MallocTop(n)
    PROVE  HeapInv'
<1> DEFINE s == ChunkSizeFor(n)
           r == top + s
<1>1. s \in Nat /\ s >= MinChunk /\ s % Word = 0 /\ 0 < s
  BY ChunkSizeIs, Constants
<1>2. /\ s < topsize
      /\ head' = With([head EXCEPT ![top] = InUse(s)], r, FreeChunk(topsize - s))
      /\ top' = r /\ topsize' = topsize - s
      /\ asked' = With(asked, top, n)
      /\ UNCHANGED <<foot, bins, dv, dvsize>>
  BY DEF MallocTop
<1>3. /\ top \in FreeOf(head) /\ topsize = head[top].size /\ top \in Nat
      /\ top \in ChunksOf(head) /\ top \in DOMAIN head /\ After(head, top) = End
      /\ topsize \in Nat
  BY FiledFacts DEF HeapInv, Filed, TopInv
<1>4. /\ Arena(head) /\ Tiled(head) /\ Tagged(head) /\ Footed(head, foot) /\ HeldInv
      /\ DvInv /\ BinsInv
  BY DEF HeapInv, Filed, Arena
<1> HIDE DEF s
<1>5. Arena(head') /\ IsSplit(head, top, s, head')
  <2>1. head' = With([head EXCEPT ![top] = InUse(s)], top + s,
                     FreeChunk(head[top].size - s))
    BY <1>2, <1>3
  <2>2. s < head[top].size
    BY <1>2, <1>3
  <2> QED BY <1>1, <1>3, <1>4, <2>1, <2>2, SplitHeads
<1>6. /\ r \notin DOMAIN head /\ r \in Nat
      /\ DOMAIN head' = DOMAIN head \union {r}
      /\ ChunksOf(head') = ChunksOf(head) \union {r}
      /\ FreeOf(head') = (FreeOf(head) \ {top}) \union {r}
      /\ head'[top] = InUse(s) /\ head'[r] = FreeChunk(topsize - s)
      /\ \A q \in DOMAIN head \ {top} : head'[q] = head[q]
  BY <1>3, <1>5 DEF IsSplit
<1>7. /\ head'[top].size = s /\ head'[top].pinuse /\ head'[top].cinuse
      /\ head'[r].size = topsize - s /\ head'[r].pinuse /\ ~head'[r].cinuse
  BY <1>6 DEF InUse, FreeChunk, Header
<1>8. \A q \in ChunksOf(head) \ {top} : head'[q] = head[q] /\ After(head', q) = After(head, q)
  BY <1>6 DEF ChunksOf, After
<1>9. After(head', r) = End
  BY <1>1, <1>3, <1>7 DEF After
<1>10. Footed(head', foot')
  <2>1. DOMAIN foot' = {q \in ChunksOf(head') : ~head'[q].pinuse}
    <3>1. head[top].pinuse
      BY <1>3, <1>4 DEF Tagged, FreeOf
    <3>2. DOMAIN foot' = {q \in ChunksOf(head) : ~head[q].pinuse}
      BY <1>2, <1>4 DEF Footed
    <3>3. \A q \in ChunksOf(head) : head'[q].pinuse <=> head[q].pinuse
      BY <1>7, <1>8, <3>1
    <3> QED BY <1>6, <1>7, <3>2, <3>3
  <2>2. ASSUME NEW q \in ChunksOf(head'), ~head'[q].cinuse, After(head', q) # End
        PROVE  foot'[After(head', q)] = head'[q].size
    <3>1. q \in ChunksOf(head) /\ q # top
      BY <1>6, <1>7, <1>9, <2>2
    <3> QED BY <1>2, <1>4, <1>8, <2>2, <3>1 DEF Footed
  <2> QED BY <1>2, <1>4, <2>1, <2>2 DEF Footed
<1>11. HeldInv'
  <2>1. DOMAIN asked' = DOMAIN asked \union {top}
        /\ asked'[top] = n /\ \A q \in DOMAIN asked \ {top} : asked'[q] = asked[q]
    BY <1>2 DEF With
  <2>2. asked' \in [DOMAIN asked' -> Requests]
    <3>1. \A q \in DOMAIN asked' : asked'[q] \in Requests
      BY <1>4, <2>1 DEF HeldInv
    <3> QED BY <1>2, <3>1 DEF With
  <2>3. DOMAIN asked' = ChunksOf(head') \ ({0} \union FreeOf(head'))
    <3>1. r # 0 /\ r # top /\ r \notin ChunksOf(head) /\ top # 0
      <4>1. top # 0
        BY <1>3, <1>4 DEF Tagged, FreeOf, InUse, Header
      <4> QED BY <1>1, <1>3, <1>6, <4>1 DEF ChunksOf
    <3> QED BY <1>3, <1>4, <1>6, <2>1, <3>1 DEF HeldInv
  <2>4. \A q \in DOMAIN asked' : Fits(head'[q].size, asked'[q])
    <3>1. Fits(s, n)
      BY <1>1, Constants DEF Fits, s
    <3>2. \A q \in DOMAIN asked : q # top /\ q \in ChunksOf(head)
      BY <1>3, <1>4 DEF HeldInv
    <3> QED BY <1>4, <1>7, <1>8, <2>1, <3>1, <3>2 DEF HeldInv
  <2>5. \A q \in FreeOf(head') \ {top'} : head'[q].size >= MinChunk
    <3>1. \A q \in FreeOf(head) \ {top} : head'[q] = head[q]
      BY <1>8 DEF FreeOf
    <3> QED BY <1>2, <1>4, <1>6, <3>1 DEF HeldInv
  <2> QED BY <2>2, <2>3, <2>4, <2>5 DEF HeldInv
<1>12. TopInv'
  BY <1>2, <1>6, <1>7, <1>9 DEF TopInv
<1>13. \A q \in FreeOf(head) \ {top} : head'[q] = head[q] /\ q # r /\ q \in FreeOf(head')
  BY <1>6, FiledFacts
<1>14. DvInv'
  BY <1>2, <1>4, <1>13 DEF DvInv
<1>15. BinsInv'
  <2>1. r \notin FreeOf(head) /\ r # dv
    <3>1. r # NoChunk
      BY <1>6 DEF NoChunk
    <3>2. dv = NoChunk \/ dv \in FreeOf(head)
      BY <1>4 DEF DvInv
    <3> QED BY <1>6, <3>1, <3>2, FiledFacts
  <2>2. DOMAIN bins' = FreeOf(head') \ {top', dv'}
    BY <1>2, <1>4, <1>6, <2>1 DEF BinsInv
  <2>3. \A q \in DOMAIN bins' : bins'[q] = head'[q].size
    BY <1>2, <1>4, <1>13 DEF BinsInv
  <2> QED BY <1>2, <1>4, <2>2, <2>3 DEF BinsInv
<1> QED BY <1>5, <1>10, <1>11, <1>12, <1>14, <1>15 DEF HeapInv, Filed

LEMMA MallocStep ==
    ASSUME HeapInv, NEW n \in Requests, Malloc(n)
    PROVE  HeapInv'
<1>1. CASE MallocFails(n)
  BY <1>1 DEF MallocFails, HeapInv, Arena, Tiled, Aligned, Tagged, Prior, After, ChunksOf,
     FreeOf, Footed, Filed, TopInv, DvInv, BinsInv, HeldInv
<1> QED BY <1>1, ExactStep, SmallBinStep, SmallTreeStep, LargeStep, DvStep, TopStep
        DEF Malloc

-----------------------------------------------------------------------------
(* Taking a chunk back. *)

\* The foot of a chunk leads to the free chunk before it.
LEMMA Before ==
    ASSUME HeapInv, NEW p \in ChunksOf(head), ~head[p].pinuse
    PROVE  /\ foot[p] \in Nat /\ foot[p] > 0
           /\ p - foot[p] \in FreeOf(head) \ {top} /\ p - foot[p] # 0
           /\ p - foot[p] \in ChunksOf(head)
           /\ head[p - foot[p]].pinuse /\ After(head, p - foot[p]) = p
<1>1. /\ Tiled(head) /\ Tagged(head) /\ Footed(head, foot) /\ TopInv
  BY DEF HeapInv, Arena, Filed
<1>2. p \in DOMAIN head /\ p \in Nat /\ p # 0 /\ p # End
  BY <1>1, ChunkFacts DEF Tagged, InUse, Header, ChunksOf
<1>3. PICK o \in ChunksOf(head) : After(head, o) = p
  BY <1>1, <1>2 DEF Tiled, Prior
<1>4. ~head[o].cinuse /\ head[o].pinuse
  BY <1>1, <1>3 DEF Tagged
<1>5. o # 0
  BY <1>1, <1>4 DEF Tagged, InUse, Header
<1>6. foot[p] = head[o].size
  BY <1>1, <1>2, <1>3, <1>4 DEF Footed
<1>7. o \in Nat /\ head[o].size \in Nat /\ head[o].size > 0
  BY <1>1, <1>3, ChunkFacts
<1>8. p - foot[p] = o
  BY <1>2, <1>3, <1>6, <1>7 DEF After
<1>9. o \in FreeOf(head) \ {top}
  BY <1>1, <1>2, <1>3, <1>4 DEF FreeOf, TopInv
<1> QED BY <1>3, <1>4, <1>5, <1>6, <1>7, <1>8, <1>9

\* What a held chunk knows of itself and of the chunk before it.
LEMMA StartIs ==
    ASSUME HeapInv, NEW p \in DOMAIN asked
    PROVE  /\ p \in ChunksOf(head) \ FreeOf(head) /\ p # 0
           /\ p \in DOMAIN head /\ p \in Nat /\ head[p].size \in Nat
           /\ head[p].size >= MinChunk
           /\ Start(p) \in ChunksOf(head) /\ Start(p) # 0 /\ head[Start(p)].pinuse
           /\ Start(p) # p => /\ Start(p) \in FreeOf(head) \ {top}
                              /\ After(head, Start(p)) = p
<1>1. Tiled(head) /\ HeldInv
  BY DEF HeapInv, Arena
<1>2. p \in ChunksOf(head) \ FreeOf(head) /\ p # 0 /\ p \in DOMAIN head /\ p \in Nat
      /\ head[p].size \in Nat
  BY <1>1, ChunkFacts DEF HeldInv
<1>3. head[p].size >= MinChunk
  <2>1. Fits(head[p].size, asked[p]) /\ asked[p] \in Requests
    BY <1>1 DEF HeldInv
  <2>2. ChunkSizeFor(asked[p]) \in Nat /\ ChunkSizeFor(asked[p]) >= MinChunk /\ MinChunk \in Nat
    BY <2>1, ChunkSizeIs, Constants
  <2>3. head[p].size - ChunkSizeFor(asked[p]) >= 0
    BY <1>2, <2>1, <2>2 DEF Fits
  <2> QED BY <1>2, <2>2, <2>3
<1>4. CASE head[p].pinuse
  BY <1>2, <1>3, <1>4 DEF Start
<1>5. CASE ~head[p].pinuse
  <2>1. Start(p) = p - foot[p]
    BY <1>5 DEF Start
  <2> QED BY <1>2, <1>3, <1>5, <2>1, Before
<1> QED BY <1>4, <1>5

\* Freeing p swallows the chunks of absorbed, and reaches to stop.
Absorbs(p, absorbed, stop) ==
    \/ absorbed = {} /\ stop = After(head, p) /\ head[stop].cinuse
    \/ \E x \in FreeOf(head) :
           absorbed = {x} /\ x = After(head, p) /\ stop = After(head, x)

LEMMA Swallowed ==
    ASSUME HeapInv, NEW p \in DOMAIN asked, NEW absorbed, NEW stop,
           Absorbs(p, absorbed, stop)
    PROVE  /\ absorbed \subseteq FreeOf(head)
           /\ Start(p) \in Nat /\ Start(p) <= p
           /\ stop \in DOMAIN head /\ stop \in Nat
           /\ stop >= p + head[p].size
           /\ stop # End => head[stop].cinuse
           /\ Between(head, Start(p), stop) = ({p} \ {Start(p)}) \union absorbed
<1> DEFINE start == Start(p)
           t == After(head, p)
<1>1. Tiled(head) /\ Tagged(head)
  BY DEF HeapInv, Arena
<1>2. /\ p \in ChunksOf(head) /\ p \in DOMAIN head /\ p \in Nat
      /\ start \in ChunksOf(head) /\ (start # p => After(head, start) = p)
  BY StartIs
<1>3. /\ t \in DOMAIN head /\ t \in Nat /\ p < t /\ t = p + head[p].size
      /\ start \in DOMAIN head /\ start \in Nat
  <2>1. t \in DOMAIN head /\ t \in Nat /\ p < t
    BY <1>1, <1>2, ChunkFacts
  <2>2. start \in DOMAIN head /\ start \in Nat
    BY <1>1, <1>2, ChunkFacts
  <2> QED BY <2>1, <2>2 DEF After
<1> HIDE DEF start, t
<1>4. start <= p
  <2>1. CASE start = p
    BY <1>2, <2>1
  <2>2. CASE start # p
    <3>1. start < After(head, start)
      BY <1>1, <1>2, ChunkFacts
    <3> QED BY <1>2, <1>3, <2>2, <3>1
  <2> QED BY <2>1, <2>2
<1>5. \A q \in DOMAIN head : q \in Nat /\ (start < q => p <= q) /\ (p < q => t <= q)
  <2> SUFFICES ASSUME NEW q \in DOMAIN head
               PROVE  q \in Nat /\ (start < q => p <= q) /\ (p < q => t <= q)
    OBVIOUS
  <2>1. q \in Nat
    BY <1>1, ChunkFacts
  <2>2. p < q => t <= q
    BY <1>1, <1>2, ChunkFacts DEF t
  <2>3. start < q => After(head, start) <= q
    BY <1>1, <1>3, ChunkFacts
  <2> QED BY <1>2, <1>3, <2>1, <2>2, <2>3
<1>6. CASE absorbed = {} /\ stop = t /\ head[stop].cinuse
  <2>1. \A q \in DOMAIN head : start < q /\ q < stop <=> q = p /\ start # p
    BY <1>2, <1>3, <1>4, <1>5, <1>6
  <2>2. Between(head, start, stop) = {p} \ {start}
    BY <1>2, <2>1 DEF Between
  <2> QED BY <1>3, <1>4, <1>6, <2>2 DEF start
<1>7. ASSUME NEW x \in FreeOf(head), absorbed = {x}, x = t, stop = After(head, x)
      PROVE  /\ absorbed \subseteq FreeOf(head)
             /\ start \in Nat /\ start <= p
             /\ stop \in DOMAIN head /\ stop \in Nat
             /\ stop >= p + head[p].size
             /\ stop # End => head[stop].cinuse
             /\ Between(head, start, stop) = ({p} \ {start}) \union absorbed
  <2>1. x \in ChunksOf(head) /\ ~head[x].cinuse
    BY DEF FreeOf
  <2>2. stop \in DOMAIN head /\ stop \in Nat /\ t < stop
    BY <1>1, <1>7, <2>1, ChunkFacts
  <2>3. stop # End => head[stop].cinuse
    <3>1. ~head[stop].pinuse
      BY <1>1, <1>7, <2>1 DEF Tagged
    <3> QED BY <1>1, <2>2, <3>1 DEF Tagged, ChunksOf
  <2>4. \A q \in DOMAIN head : t < q => stop <= q
    BY <1>1, <1>3, <1>7, ChunkFacts
  <2>5. \A q \in DOMAIN head : start < q /\ q < stop <=> (q = p /\ start # p) \/ q = t
    BY <1>2, <1>3, <1>4, <1>5, <2>2, <2>4
  <2>6. Between(head, start, stop) = ({p} \ {start}) \union {t}
    BY <1>2, <1>3, <2>5 DEF Between
  <2> QED BY <1>3, <1>4, <1>7, <2>2, <2>3, <2>6
<1> QED BY <1>6, <1>7 DEF Absorbs, start, t

\* What freeing p does to the heads, the feet and the callers' chunks.
Merges(p, absorbed, stop) ==
    /\ Arena(head)' /\ Footed(head, foot)'
    /\ FreeOf(head)' = (FreeOf(head) \ absorbed) \union {Start(p)}
    /\ head'[Start(p)].size = stop - Start(p)
    /\ After(head', Start(p)) = stop
    /\ \A q \in FreeOf(head)' \ {Start(p)} : head'[q].size = head[q].size
    /\ top' = top \/ top \in absorbed => HeldInv'

LEMMA JoinStep ==
    ASSUME HeapInv, NEW p \in DOMAIN asked, NEW absorbed, NEW stop,
           Absorbs(p, absorbed, stop), Join(p, stop - Start(p), absorbed)
    PROVE  Merges(p, absorbed, stop)
<1>s. PICK start : start = Start(p)
  OBVIOUS
<1>g. PICK G : G = ({p} \ {start}) \union absorbed
  OBVIOUS
<1>1. /\ Arena(head) /\ Footed(head, foot) /\ HeldInv
  BY DEF HeapInv
<1>2. /\ p \in ChunksOf(head) \ FreeOf(head) /\ p # 0
      /\ p \in DOMAIN head /\ p \in Nat /\ head[p].size \in Nat
      /\ head[p].size >= MinChunk
      /\ start \in ChunksOf(head) /\ start # 0 /\ head[start].pinuse
      /\ (start # p => start \in FreeOf(head))
  BY <1>s, StartIs
<1>3. /\ absorbed \subseteq FreeOf(head) /\ start \in Nat /\ start <= p
      /\ stop \in DOMAIN head /\ stop \in Nat /\ stop >= p + head[p].size
      /\ stop # End => head[stop].cinuse
      /\ Between(head, start, stop) = G
  BY <1>s, <1>g, Swallowed
<1>4. MinChunk \in Nat /\ MinChunk > 0
  BY Constants
<1>5. start < stop /\ stop - start >= MinChunk /\ stop - start \in Nat
      /\ start + (stop - start) = stop
  BY <1>2, <1>3, <1>4
<1>6. Arena(head') /\ IsJoin(head, start, stop, G, head')
  <2>1. head' = SetHead(Without(head, G), start, FreeChunk(stop - start))
    BY <1>s, <1>g DEF Join
  <2>2. Joins(head, start, stop, head')
    BY <1>3, <2>1 DEF Joins
  <2> QED BY <1>1, <1>2, <1>3, <1>5, <2>2, JoinHeads
<1>7. /\ DOMAIN head' = DOMAIN head \ G /\ ChunksOf(head') = ChunksOf(head) \ G
      /\ start \in DOMAIN head' /\ stop \in DOMAIN head'
      /\ FreeOf(head') = (FreeOf(head) \ G) \union {start}
      /\ head'[start] = FreeChunk(stop - start) /\ After(head', start) = stop
      /\ ~head'[stop].pinuse
      /\ \A q \in DOMAIN head' \ {start} :
             /\ head'[q].size = head[q].size /\ (head'[q].cinuse <=> head[q].cinuse)
             /\ After(head', q) = After(head, q)
      /\ \A q \in DOMAIN head' \ {start, stop} : head'[q] = head[q]
  BY <1>6 DEF IsJoin
<1>8. /\ head'[start].size = stop - start /\ head'[start].pinuse /\ ~head'[start].cinuse
  BY <1>7 DEF FreeChunk, Header
<1>9. FreeOf(head') = (FreeOf(head) \ absorbed) \union {start}
  BY <1>g, <1>2, <1>7
<1>10. /\ foot' = IF stop = End THEN Without(foot, {p} \union absorbed)
                  ELSE With(Without(foot, {p} \union absorbed), stop, stop - start)
       /\ asked' = Without(asked, {p})
  BY <1>s, <1>5 DEF Join
<1>11. /\ DOMAIN foot' = (DOMAIN foot \ ({p} \union absorbed))
                             \union IF stop = End THEN {} ELSE {stop}
       /\ stop # End => foot'[stop] = stop - start
       /\ \A q \in DOMAIN foot' \ {stop} : foot'[q] = foot[q]
  <2>0. stop # End => stop \notin absorbed \union {p}
    BY <1>2, <1>3, <1>4 DEF FreeOf
  <2>1. CASE stop = End
    <3>1. DOMAIN foot' = DOMAIN foot \ ({p} \union absorbed)
          /\ \A q \in DOMAIN foot' : foot'[q] = foot[q]
      BY <1>10, <2>1 DEF Without
    <3> QED BY <2>1, <3>1
  <2>2. CASE stop # End
    BY <1>10, <2>2 DEF Without, With
  <2> QED BY <2>1, <2>2
<1>12. End \notin ChunksOf(head) /\ DOMAIN foot = {q \in ChunksOf(head) : ~head[q].pinuse}
       /\ \A q \in DOMAIN foot : foot[q] \in Nat
  BY <1>1 DEF ChunksOf, Footed
<1>13. Tiled(head) /\ Tagged(head) /\ Tiled(head') /\ Tagged(head')
  BY <1>1, <1>6 DEF Arena
<1>14. Footed(head', foot')
  <2>1. foot' \in [DOMAIN foot' -> Nat]
    <3>1. \A q \in DOMAIN foot' : foot'[q] \in Nat
      BY <1>5, <1>11, <1>12
    <3>2. foot' = [q \in DOMAIN foot' |-> foot'[q]]
      BY <1>10 DEF Without, With
    <3> QED BY <3>1, <3>2
  <2>2. DOMAIN foot' = {q \in ChunksOf(head') : ~head'[q].pinuse}
    <3>1. ASSUME NEW q PROVE q \in DOMAIN foot' <=> q \in ChunksOf(head') /\ ~head'[q].pinuse
      <4>1. CASE q = stop
        <5>1. stop \in ChunksOf(head') <=> stop # End
          BY <1>7 DEF ChunksOf
        <5> QED BY <1>7, <1>11, <1>12, <4>1, <5>1
      <4>2. CASE q = start
        <5>1. start \notin DOMAIN foot /\ start # stop
          BY <1>2, <1>3, <1>5, <1>12
        <5> QED BY <1>8, <1>11, <4>2, <5>1
      <4>3. CASE q \notin {start, stop}
        <5>1. q \in DOMAIN foot' <=> q \in DOMAIN foot /\ q \notin G
          BY <1>g, <1>11, <4>3
        <5>2. q \in ChunksOf(head') => q \in DOMAIN head' /\ head'[q] = head[q]
          BY <1>7, <4>3 DEF ChunksOf
        <5> QED BY <1>7, <1>12, <5>1, <5>2
      <4> QED BY <4>1, <4>2, <4>3
    <3> QED BY <3>1
  <2>3. ASSUME NEW q \in ChunksOf(head'), ~head'[q].cinuse, After(head', q) # End
        PROVE  foot'[After(head', q)] = head'[q].size
    <3>1. CASE q = start
      BY <1>7, <1>8, <1>11, <2>3, <3>1
    <3>2. CASE q # start
      <4>1. q \in DOMAIN head' /\ q \in ChunksOf(head) /\ start \in ChunksOf(head')
        BY <1>2, <1>7 DEF ChunksOf
      <4>2. After(head', q) # stop
        BY <1>7, <1>13, <3>2, <4>1, OnePrior
      <4>3. After(head', q) = After(head, q) /\ ~head[q].cinuse
            /\ head'[q].size = head[q].size
        BY <1>7, <2>3, <3>2, <4>1
      <4>4. After(head', q) \in ChunksOf(head') /\ ~head'[After(head', q)].pinuse
        BY <1>13, <2>3, ChunkFacts DEF Tagged, ChunksOf
      <4>5. After(head', q) \in DOMAIN foot'
        BY <2>2, <4>4
      <4>6. foot[After(head, q)] = head[q].size
        BY <1>1, <2>3, <4>1, <4>3 DEF Footed
      <4> QED BY <1>11, <4>2, <4>3, <4>5, <4>6
    <3> QED BY <3>1, <3>2
  <2> QED BY <2>1, <2>2, <2>3 DEF Footed
<1>15. \A q \in FreeOf(head') \ {start} : q \in FreeOf(head) /\ head'[q].size = head[q].size
  <2>1. \A q \in FreeOf(head') : q \in DOMAIN head'
    BY DEF FreeOf, ChunksOf
  <2> QED BY <1>7, <1>9, <2>1
<1>16. ASSUME top' = top \/ top \in absorbed PROVE HeldInv'
  <2>1. DOMAIN asked' = DOMAIN asked \ {p} /\ \A q \in DOMAIN asked' : asked'[q] = asked[q]
    BY <1>10 DEF Without
  <2>2. asked' \in [DOMAIN asked' -> Requests]
    <3>1. \A q \in DOMAIN asked' : asked'[q] \in Requests
      BY <1>1, <2>1 DEF HeldInv
    <3> QED BY <1>10, <3>1 DEF Without
  <2>3. DOMAIN asked' = ChunksOf(head') \ ({0} \union FreeOf(head'))
    <3>1. DOMAIN asked = ChunksOf(head) \ ({0} \union FreeOf(head))
      BY <1>1 DEF HeldInv
    <3>2. FreeOf(head) \subseteq ChunksOf(head)
      BY DEF FreeOf
    <3> QED BY <1>g, <1>2, <1>3, <1>7, <1>9, <2>1, <3>1, <3>2
  <2>4. ASSUME NEW q \in DOMAIN asked' PROVE Fits(head'[q].size, asked'[q])
    <3>1. q \in DOMAIN head' /\ q # start /\ q \in DOMAIN asked
      BY <1>9, <2>1, <2>3 DEF ChunksOf
    <3> QED BY <1>1, <1>7, <2>1, <3>1 DEF HeldInv
  <2>5. ASSUME NEW q \in FreeOf(head') \ {top'} PROVE head'[q].size >= MinChunk
    <3>1. CASE q = start
      BY <1>5, <1>8, <3>1
    <3>2. CASE q # start
      <4>1. q \in FreeOf(head) \ absorbed /\ q # top
        BY <1>9, <1>16, <3>2
      <4> QED BY <1>1, <1>15, <3>2, <4>1 DEF HeldInv
    <3> QED BY <3>1, <3>2
  <2> QED BY <2>2, <2>3, <2>4, <2>5 DEF HeldInv
<1>17. /\ Arena(head)' /\ Footed(head, foot)'
       /\ FreeOf(head)' = (FreeOf(head) \ absorbed) \union {start}
       /\ head'[start].size = stop - start
       /\ After(head', start) = stop
       /\ \A q \in FreeOf(head)' \ {start} : head'[q].size = head[q].size
  BY <1>6, <1>7, <1>8, <1>9, <1>14, <1>15
<1> QED BY <1>s, <1>16, <1>17 DEF Merges

\* The bins after a chunk was taken back: B is what is left in them.
LEMMA Refiled ==
    ASSUME HeapInv, NEW p \in DOMAIN asked, NEW absorbed, NEW stop,
           Merges(p, absorbed, stop), stop - Start(p) \in Nat,
           NEW B, B \in [DOMAIN B -> Nat],
           DOMAIN B = DOMAIN bins \ ({Start(p)} \union absorbed),
           \A q \in DOMAIN B : B[q] = bins[q],
           \A q \in FreeOf(head) \ absorbed :
               q # Start(p) => (q \in {top, dv} <=> q \in {top', dv'}),
           \/ bins' = B /\ Start(p) \in {top', dv'}
           \/ bins' = With(B, Start(p), stop - Start(p)) /\ Start(p) \notin {top', dv'}
    PROVE  BinsInv'
<1>s. PICK start : start = Start(p)
  OBVIOUS
<1>1. /\ FreeOf(head') = (FreeOf(head) \ absorbed) \union {start}
      /\ head'[start].size = stop - start
      /\ \A q \in FreeOf(head') \ {start} : head'[q].size = head[q].size
  BY <1>s DEF Merges
<1>2. /\ DOMAIN bins = FreeOf(head) \ {top, dv}
      /\ \A q \in DOMAIN bins : bins[q] = head[q].size
  BY DEF HeapInv, Filed, BinsInv
<1>3. CASE bins' = B /\ start \in {top', dv'}
  <2>1. DOMAIN bins' = FreeOf(head') \ {top', dv'}
    BY <1>s, <1>1, <1>2, <1>3
  <2>2. \A q \in DOMAIN bins' : bins'[q] = head'[q].size
    BY <1>s, <1>1, <1>2, <1>3, <2>1
  <2> QED BY <1>3, <2>1, <2>2 DEF BinsInv
<1>4. CASE bins' = With(B, start, stop - start) /\ start \notin {top', dv'}
  <2>1. /\ DOMAIN bins' = DOMAIN B \union {start}
        /\ bins'[start] = stop - start
        /\ \A q \in DOMAIN bins' \ {start} : bins'[q] = B[q]
    BY <1>4 DEF With
  <2>2. DOMAIN bins' = FreeOf(head') \ {top', dv'}
    BY <1>s, <1>1, <1>2, <1>4, <2>1
  <2>3. \A q \in DOMAIN bins' : bins'[q] = head'[q].size
    BY <1>s, <1>1, <1>2, <2>1, <2>2
  <2>4. bins' \in [DOMAIN bins' -> Nat]
    <3>1. \A q \in DOMAIN bins' : bins'[q] \in Nat
      BY <1>s, <2>1
    <3> QED BY <1>4, <3>1 DEF With
  <2> QED BY <2>2, <2>3, <2>4 DEF BinsInv
<1> QED BY <1>s, <1>3, <1>4

\* What stays in the bins without the chunk before p.
LEMMA Unlinked ==
    ASSUME HeapInv, NEW p, NEW B, B = BinsBut(p)
    PROVE  /\ B \in [DOMAIN B -> Nat] /\ DOMAIN B = DOMAIN bins \ {Start(p)}
           /\ \A q \in DOMAIN B : B[q] = bins[q]
<1>1. DOMAIN B = DOMAIN bins \ {Start(p)} /\ \A q \in DOMAIN B : B[q] = bins[q]
  BY DEF BinsBut, Without
<1>2. \A q \in DOMAIN bins : bins[q] \in Nat
  BY DEF HeapInv, Filed, BinsInv
<1>3. \A q \in DOMAIN B : B[q] \in Nat
  BY <1>1, <1>2
<1>4. B = [q \in DOMAIN B |-> B[q]]
  BY DEF BinsBut, Without
<1> QED BY <1>1, <1>3, <1>4

\* The chunk before a held one is not top, and the one after is filed.
LEMMA Around ==
    ASSUME HeapInv, NEW p \in DOMAIN asked
    PROVE  /\ Start(p) # top /\ Start(p) \in Nat
           /\ Start(p) = dv => Start(p) \in FreeOf(head) /\ dvsize # 0
           /\ NextChunk(p) = After(head, p) /\ NextChunk(p) \in ChunksOf(head)
           /\ NextChunk(p) \in Nat /\ NextChunk(p) > p
           /\ NextChunk(p) = dv => dv \in FreeOf(head) \ {top} /\ dvsize = head[dv].size
           /\ dv = NoChunk \/ dv \in FreeOf(head)
           /\ NoChunk \notin FreeOf(head)
<1>1. Tiled(head) /\ DvInv
  BY DEF HeapInv, Arena, Filed
<1>2. /\ p \in ChunksOf(head) \ FreeOf(head) /\ p \in Nat
      /\ Start(p) \in ChunksOf(head) /\ (Start(p) # p => Start(p) \in FreeOf(head) \ {top})
  BY StartIs
<1>3. top \in FreeOf(head)
  BY FiledFacts
<1>4. Start(p) # top /\ Start(p) \in Nat
  BY <1>1, <1>2, <1>3, ChunkFacts
<1>5. NextChunk(p) = After(head, p)
  BY DEF NextChunk, After
<1>6. After(head, p) \in ChunksOf(head) /\ After(head, p) \in Nat /\ After(head, p) > p
  <2>1. After(head, p) \in ChunksOf(head)
    BY <1>2, <1>3, OnlyTopIsLast
  <2> QED BY <1>1, <1>2, <2>1, ChunkFacts
<1>7. NoChunk \notin Nat /\ NoChunk \notin FreeOf(head)
  BY FiledFacts DEF NoChunk
<1>8. dv \in Nat => dv \in FreeOf(head) \ {top} /\ dvsize = head[dv].size /\ dvsize # 0
  BY <1>1, <1>7 DEF DvInv
<1>9. dv = NoChunk \/ dv \in FreeOf(head)
  BY <1>1 DEF DvInv
<1> QED BY <1>4, <1>5, <1>6, <1>7, <1>8, <1>9

LEMMA FreeIntoDvStep ==
    ASSUME HeapInv, NEW p \in DOMAIN asked, FreeIntoDv(p)
    PROVE  HeapInv'
<1>1. PICK stop : stop = After(head, p)
  OBVIOUS
<1>2. /\ Start(p) = dv /\ dvsize' = stop - Start(p)
      /\ Join(p, stop - Start(p), {}) /\ Absorbs(p, {}, stop)
      /\ UNCHANGED <<bins, dv, top, topsize>>
  BY <1>1, Around DEF FreeIntoDv, Joined, Absorbs
<1>3. Merges(p, {}, stop)
  BY <1>2, JoinStep
<1>4. Start(p) \in FreeOf(head) /\ Start(p) # top /\ top \in FreeOf(head)
  BY <1>2, Around, FiledFacts
<1>5. stop - Start(p) \in Nat /\ stop - Start(p) # 0
  <2>1. /\ Start(p) \in Nat /\ Start(p) <= p /\ stop \in Nat /\ p \in Nat /\ p < stop
    BY <1>1, <1>2, Swallowed, StartIs, Around
  <2> QED BY <2>1
<1>6. /\ Arena(head)' /\ Footed(head, foot)' /\ HeldInv'
      /\ FreeOf(head)' = FreeOf(head)
      /\ head'[Start(p)].size = stop - Start(p)
      /\ \A q \in FreeOf(head) \ {Start(p)} : head'[q].size = head[q].size
  BY <1>2, <1>3, <1>4 DEF Merges
<1>7. TopInv'
  BY <1>2, <1>4, <1>6, TopKept
<1>8. DvInv'
  BY <1>2, <1>4, <1>5, <1>6 DEF DvInv
<1>9. BinsInv'
  <2>1. BinsInv
    BY DEF HeapInv, Filed
  <2> QED BY <1>2, <1>6, <2>1 DEF BinsInv
<1> QED BY <1>6, <1>7, <1>8, <1>9 DEF HeapInv, Filed

LEMMA FreeIntoBinStep ==
    ASSUME HeapInv, NEW p \in DOMAIN asked, FreeIntoBin(p)
    PROVE  HeapInv'
<1>1. PICK stop : stop = After(head, p)
  OBVIOUS
<1>2. /\ Start(p) # dv /\ bins' = With(BinsBut(p), Start(p), stop - Start(p))
      /\ Join(p, stop - Start(p), {}) /\ Absorbs(p, {}, stop)
      /\ UNCHANGED <<dv, dvsize, top, topsize>>
  BY <1>1, Around DEF FreeIntoBin, Joined, Absorbs
<1>3. Merges(p, {}, stop)
  BY <1>2, JoinStep
<1>4. Start(p) # top /\ top \in FreeOf(head)
  BY Around, FiledFacts
<1>5. stop - Start(p) \in Nat
  <2>1. /\ Start(p) \in Nat /\ Start(p) <= p /\ stop \in Nat /\ p \in Nat /\ p < stop
    BY <1>1, <1>2, Swallowed, StartIs, Around
  <2> QED BY <2>1
<1>6. /\ Arena(head)' /\ Footed(head, foot)' /\ HeldInv'
      /\ FreeOf(head)' = FreeOf(head) \union {Start(p)}
      /\ \A q \in FreeOf(head) \ {Start(p)} : head'[q].size = head[q].size
  BY <1>2, <1>3 DEF Merges
<1>7. TopInv'
  BY <1>2, <1>4, <1>6, TopKept
<1>8. DvInv'
  BY <1>2, <1>6 DEF HeapInv, Filed, DvInv
<1>9. BinsInv'
  <2>1. PICK B : B = BinsBut(p)
    OBVIOUS
  <2>2. /\ B \in [DOMAIN B -> Nat] /\ DOMAIN B = DOMAIN bins \ {Start(p)}
        /\ \A q \in DOMAIN B : B[q] = bins[q]
    BY <2>1, Unlinked
  <2>3. DOMAIN B = DOMAIN bins \ ({Start(p)} \union {})
    BY <2>2
  <2>4. \A q \in FreeOf(head) \ {} :
            q # Start(p) => (q \in {top, dv} <=> q \in {top', dv'})
    BY <1>2
  <2>5. bins' = With(B, Start(p), stop - Start(p)) /\ Start(p) \notin {top', dv'}
    BY <1>2, <1>4, <2>1
  <2> QED BY <1>3, <1>5, <2>2, <2>3, <2>4, <2>5, Refiled
<1> QED BY <1>6, <1>7, <1>8, <1>9 DEF HeapInv, Filed

LEMMA FreeIntoTopStep ==
    ASSUME HeapInv, NEW p \in DOMAIN asked, FreeIntoTop(p)
    PROVE  HeapInv'
<1>1. /\ top \in FreeOf(head) /\ topsize = head[top].size /\ top \in Nat /\ topsize \in Nat
      /\ After(head, top) = End /\ End = top + topsize
  <2>1. top \in FreeOf(head) /\ topsize = head[top].size /\ top \in Nat /\ topsize \in Nat
    BY FiledFacts
  <2>2. After(head, top) = End
    BY DEF HeapInv, Filed, TopInv
  <2> QED BY <2>1, <2>2 DEF After
<1>2. /\ NextChunk(p) = top /\ top = After(head, p) /\ Absorbs(p, {top}, End)
      /\ Start(p) # top /\ Start(p) \in Nat
  BY <1>1, Around DEF FreeIntoTop, Absorbs
<1>3. /\ Start(p) <= p /\ p < top /\ p \in Nat
  BY <1>2, Swallowed, StartIs, Around
<1>4. /\ End - Start(p) \in Nat /\ Joined(p) + topsize = End - Start(p)
      /\ topsize + Joined(p) = End - Start(p)
  BY <1>1, <1>2, <1>3 DEF Joined
<1>5. /\ top' = Start(p) /\ topsize' = End - Start(p)
      /\ IF Start(p) = dv THEN dv' = NoChunk /\ dvsize' = 0 ELSE UNCHANGED <<dv, dvsize>>
      /\ bins' = BinsBut(p)
      /\ Join(p, End - Start(p), {top})
  BY <1>4 DEF FreeIntoTop
<1>6. Merges(p, {top}, End)
  BY <1>2, <1>5, JoinStep
<1>7. /\ Arena(head)' /\ Footed(head, foot)' /\ HeldInv'
      /\ FreeOf(head)' = (FreeOf(head) \ {top}) \union {Start(p)}
      /\ head'[Start(p)].size = End - Start(p) /\ After(head', Start(p)) = End
      /\ \A q \in FreeOf(head)' \ {Start(p)} : head'[q].size = head[q].size
  BY <1>6 DEF Merges
<1>8. TopInv'
  BY <1>5, <1>7 DEF TopInv
<1>9. DvInv'
  <2>1. DvInv
    BY DEF HeapInv, Filed
  <2> QED BY <1>5, <1>7, <2>1 DEF DvInv
<1>10. BinsInv'
  <2>1. PICK B : B = BinsBut(p)
    OBVIOUS
  <2>2. /\ B \in [DOMAIN B -> Nat] /\ DOMAIN B = DOMAIN bins \ {Start(p)}
        /\ \A q \in DOMAIN B : B[q] = bins[q]
    BY <2>1, Unlinked
  <2>3. top \notin DOMAIN bins
    BY FiledFacts
  <2>4. DOMAIN B = DOMAIN bins \ ({Start(p)} \union {top})
    BY <2>2, <2>3
  <2>5. \A q \in FreeOf(head) \ {top} :
            q # Start(p) => (q \in {top, dv} <=> q \in {top', dv'})
    BY <1>5, Around
  <2>6. bins' = B /\ Start(p) \in {top', dv'}
    BY <1>5, <2>1
  <2> QED BY <1>4, <1>6, <2>2, <2>4, <2>5, <2>6, Refiled
<1> QED BY <1>7, <1>8, <1>9, <1>10 DEF HeapInv, Filed

LEMMA FreeBeforeDvStep ==
    ASSUME HeapInv, NEW p \in DOMAIN asked, FreeBeforeDv(p)
    PROVE  HeapInv'
<1>1. PICK stop : stop = After(head, dv)
  OBVIOUS
<1>2. /\ NextChunk(p) = dv /\ dv = After(head, p) /\ dv \in FreeOf(head) \ {top}
      /\ dvsize = head[dv].size /\ dv \in Nat /\ dv > p
      /\ Absorbs(p, {dv}, stop)
      /\ Start(p) # top /\ Start(p) \in Nat
  BY <1>1, Around DEF FreeBeforeDv, Absorbs
<1>3. /\ Start(p) <= p /\ p \in Nat /\ dvsize \in Nat /\ dvsize # 0 /\ stop = dv + dvsize
  <2>1. dvsize \in Nat /\ dvsize # 0
    BY <1>2, FiledFacts
  <2> QED BY <1>1, <1>2, <2>1, Swallowed, StartIs DEF After
<1>4. /\ stop - Start(p) \in Nat /\ stop - Start(p) # 0
      /\ Joined(p) + dvsize = stop - Start(p) /\ dvsize + Joined(p) = stop - Start(p)
  BY <1>2, <1>3 DEF Joined
<1>5. /\ dv' = Start(p) /\ dvsize' = stop - Start(p)
      /\ bins' = BinsBut(p)
      /\ Join(p, stop - Start(p), {dv})
      /\ UNCHANGED <<top, topsize>>
  BY <1>4 DEF FreeBeforeDv
<1>6. Merges(p, {dv}, stop)
  BY <1>2, <1>5, JoinStep
<1>7. /\ Arena(head)' /\ Footed(head, foot)' /\ HeldInv'
      /\ FreeOf(head)' = (FreeOf(head) \ {dv}) \union {Start(p)}
      /\ head'[Start(p)].size = stop - Start(p)
      /\ \A q \in FreeOf(head)' \ {Start(p)} : head'[q].size = head[q].size
  BY <1>5, <1>6 DEF Merges
<1>8. TopInv'
  <2>1. top \in FreeOf(head)
    BY FiledFacts
  <2> QED BY <1>2, <1>5, <1>7, <2>1, TopKept
<1>9. DvInv'
  BY <1>2, <1>4, <1>5, <1>7 DEF DvInv
<1>10. BinsInv'
  <2>1. PICK B : B = BinsBut(p)
    OBVIOUS
  <2>2. /\ B \in [DOMAIN B -> Nat] /\ DOMAIN B = DOMAIN bins \ {Start(p)}
        /\ \A q \in DOMAIN B : B[q] = bins[q]
    BY <2>1, Unlinked
  <2>3. dv \notin DOMAIN bins
    BY FiledFacts
  <2>4. DOMAIN B = DOMAIN bins \ ({Start(p)} \union {dv})
    BY <2>2, <2>3
  <2>5. \A q \in FreeOf(head) \ {dv} :
            q # Start(p) => (q \in {top, dv} <=> q \in {top', dv'})
    BY <1>5
  <2>6. bins' = B /\ Start(p) \in {top', dv'}
    BY <1>5, <2>1
  <2> QED BY <1>4, <1>6, <2>2, <2>4, <2>5, <2>6, Refiled
<1> QED BY <1>7, <1>8, <1>9, <1>10 DEF HeapInv, Filed

LEMMA FreeBeforeBinnedStep ==
    ASSUME HeapInv, NEW p \in DOMAIN asked, FreeBeforeBinned(p)
    PROVE  HeapInv'
<1>n. PICK next : next = NextChunk(p)
  OBVIOUS
<1>1. PICK stop : stop = After(head, next)
  OBVIOUS
<1>2. /\ next = After(head, p) /\ next \in FreeOf(head) /\ next \notin {top, dv}
      /\ next \in Nat /\ next > p /\ Absorbs(p, {next}, stop)
      /\ Start(p) # top /\ Start(p) \in Nat
  <2>1. next \in ChunksOf(head) /\ ~head[next].cinuse /\ next \notin {top, dv}
    BY <1>n, Around DEF FreeBeforeBinned
  <2>2. next \in FreeOf(head)
    BY <2>1 DEF FreeOf
  <2> QED BY <1>n, <1>1, <2>1, <2>2, Around DEF Absorbs
<1>3. /\ Start(p) <= p /\ p \in Nat /\ head[next].size \in Nat
      /\ stop = next + head[next].size
  BY <1>1, <1>2, Swallowed, StartIs, FiledFacts DEF After
<1>4. /\ stop - Start(p) \in Nat /\ stop - Start(p) # 0
      /\ Joined(p) + head[next].size = stop - Start(p)
  BY <1>n, <1>2, <1>3 DEF Joined
<1>5. PICK B : B = Without(BinsBut(p), {next})
  OBVIOUS
<1>6. /\ IF Start(p) = dv
         THEN dvsize' = stop - Start(p) /\ bins' = B
         ELSE bins' = With(B, Start(p), stop - Start(p)) /\ UNCHANGED dvsize
      /\ Join(p, stop - Start(p), {next})
      /\ UNCHANGED <<dv, top, topsize>>
  BY <1>n, <1>4, <1>5 DEF FreeBeforeBinned
<1>7. Merges(p, {next}, stop)
  BY <1>2, <1>6, JoinStep
<1>8. /\ Arena(head)' /\ Footed(head, foot)' /\ HeldInv'
      /\ FreeOf(head)' = (FreeOf(head) \ {next}) \union {Start(p)}
      /\ head'[Start(p)].size = stop - Start(p)
      /\ \A q \in FreeOf(head)' \ {Start(p)} : head'[q].size = head[q].size
  BY <1>6, <1>7 DEF Merges
<1>9. TopInv'
  <2>1. top \in FreeOf(head)
    BY FiledFacts
  <2> QED BY <1>2, <1>6, <1>8, <2>1, TopKept
<1>10. DvInv'
  <2>1. DvInv
    BY DEF HeapInv, Filed
  <2>2. CASE Start(p) = dv
    BY <1>2, <1>4, <1>6, <1>8, <2>2 DEF DvInv
  <2>3. CASE Start(p) # dv
    BY <1>2, <1>6, <1>8, <2>1, <2>3 DEF DvInv
  <2> QED BY <2>2, <2>3
<1>11. BinsInv'
  <2>1. PICK C : C = BinsBut(p)
    OBVIOUS
  <2>2. /\ C \in [DOMAIN C -> Nat] /\ DOMAIN C = DOMAIN bins \ {Start(p)}
        /\ \A q \in DOMAIN C : C[q] = bins[q]
    BY <2>1, Unlinked
  <2>3. /\ DOMAIN B = DOMAIN bins \ ({Start(p)} \union {next})
        /\ \A q \in DOMAIN B : B[q] = bins[q] /\ B[q] \in Nat
    BY <1>5, <2>1, <2>2 DEF Without
  <2>4. B \in [DOMAIN B -> Nat]
    BY <1>5, <2>3 DEF Without
  <2>5. \A q \in FreeOf(head) \ {next} :
            q # Start(p) => (q \in {top, dv} <=> q \in {top', dv'})
    BY <1>6
  <2>6. \/ bins' = B /\ Start(p) \in {top', dv'}
        \/ bins' = With(B, Start(p), stop - Start(p)) /\ Start(p) \notin {top', dv'}
    <3>1. CASE Start(p) = dv
      BY <1>6, <3>1
    <3>2. CASE Start(p) # dv
      BY <1>2, <1>6, <3>2
    <3> QED BY <3>1, <3>2
  <2>7. HeapInv /\ p \in DOMAIN asked /\ stop - Start(p) \in Nat
    BY <1>4
  <2> QED BY ONLY <1>7, <2>3, <2>4, <2>5, <2>6, <2>7, Refiled
<1> QED BY <1>8, <1>9, <1>10, <1>11 DEF HeapInv, Filed

LEMMA FreeStep ==
    ASSUME HeapInv, NEW p \in DOMAIN asked, Free(p)
    PROVE  HeapInv'
BY FreeIntoDvStep, FreeIntoBinStep, FreeIntoTopStep, FreeBeforeDvStep,
   FreeBeforeBinnedStep DEF Free

-----------------------------------------------------------------------------
(* The invariant. *)

LEMMA InitHeap == Init => HeapInv
<1> SUFFICES ASSUME Init PROVE HeapInv
  OBVIOUS
<1>1. /\ 0 < StateSize /\ StateSize < End /\ StateSize \in Nat /\ End \in Nat
      /\ TopFoot \in Nat /\ MinChunk \in Nat /\ StateSize % Word = 0
      /\ Word \in Nat /\ Word > 0
  BY Constants DEF End
<1>2. End % Word = 0 /\ (End - StateSize) % Word = 0 /\ 0 % Word = 0
  <2>1. /\ Capacity \in Int /\ TopFoot \in Int
        /\ Capacity % Word = 0 /\ TopFoot % Word = 0
    BY Constants
  <2>2. End % Word = 0
    BY <1>1, <2>1, Multiples DEF End
  <2>3. StateSize \in Int /\ End \in Int
    BY <1>1
  <2>4. (End - StateSize) % Word = 0
    BY <1>1, <2>2, <2>3, Multiples
  <2>5. 0 % Word = 0
    BY <1>1
  <2> QED BY <2>2, <2>4, <2>5
<1>3. /\ DOMAIN head = {0, StateSize, End}
      /\ head[0] = InUse(StateSize) /\ head[StateSize] = FreeChunk(End - StateSize)
      /\ head[End] = Header(TopFoot, FALSE, FALSE)
  <2>1. StateSize # 0 /\ End # 0 /\ End # StateSize
    BY <1>1
  <2>2. DOMAIN head = {0, StateSize, End}
    BY DEF Init
  <2>3. \A p \in {0, StateSize, End} :
            head[p] = IF p = 0 THEN InUse(StateSize)
                      ELSE IF p = StateSize THEN FreeChunk(End - StateSize)
                      ELSE Header(TopFoot, FALSE, FALSE)
    BY DEF Init
  <2>4. head[0] = InUse(StateSize)
    BY <2>3
  <2>5. head[StateSize] = FreeChunk(End - StateSize)
    BY <2>1, <2>3
  <2>6. head[End] = Header(TopFoot, FALSE, FALSE)
    BY <2>1, <2>3
  <2> QED BY <2>2, <2>4, <2>5, <2>6
<1>4. /\ head[0].size = StateSize /\ head[0].pinuse /\ head[0].cinuse
      /\ head[StateSize].size = End - StateSize
      /\ head[StateSize].pinuse /\ ~head[StateSize].cinuse
      /\ ~head[End].pinuse /\ ~head[End].cinuse
  BY <1>3 DEF InUse, FreeChunk, Header
<1>5. ChunksOf(head) = {0, StateSize}
  BY <1>1, <1>3 DEF ChunksOf
<1>6. After(head, 0) = StateSize /\ After(head, StateSize) = End
  BY <1>1, <1>4 DEF After
<1>7. FreeOf(head) = {StateSize}
  BY <1>4, <1>5 DEF FreeOf
<1>8. Tiled(head)
  <2>1. head \in [DOMAIN head -> Heads]
    <3>1. /\ InUse(StateSize) \in Heads /\ FreeChunk(End - StateSize) \in Heads
          /\ Header(TopFoot, FALSE, FALSE) \in Heads
      BY <1>1 DEF InUse, FreeChunk, Header, Heads
    <3>2. \A q \in DOMAIN head : head[q] \in Heads
      BY <1>3, <3>1
    <3> QED BY <3>2 DEF Init
  <2>2. DOMAIN head \subseteq 0..End
    BY <1>1, <1>3
  <2>3. \A p \in ChunksOf(head) : head[p].size > 0 /\ After(head, p) \in DOMAIN head
    BY <1>1, <1>3, <1>4, <1>5, <1>6
  <2>4. \A p, q \in DOMAIN head : p < q => After(head, p) <= q
    BY <1>1, <1>3, <1>6
  <2>5. \A q \in DOMAIN head \ {0} : Prior(head, q)
    BY <1>3, <1>5, <1>6 DEF Prior
  <2> QED BY <1>3, <1>5, <2>1, <2>2, <2>3, <2>4, <2>5 DEF Tiled
<1>9. Aligned(head) /\ Tagged(head)
  BY <1>1, <1>2, <1>3, <1>4, <1>5, <1>6 DEF Aligned, Tagged
<1>10. Footed(head, foot)
  BY <1>4, <1>5, <1>6 DEF Init, Footed
<1>11. Filed
  BY <1>4, <1>6, <1>7 DEF Init, Filed, TopInv, DvInv, BinsInv
<1>12. HeldInv
  BY <1>5, <1>7 DEF Init, HeldInv
<1> QED BY <1>8, <1>9, <1>10, <1>11, <1>12 DEF HeapInv, Arena

LEMMA NextHeap == HeapInv /\ [Next]_vars => HeapInv'
<1> SUFFICES ASSUME HeapInv, [Next]_vars PROVE HeapInv'
  OBVIOUS
<1>1. ASSUME NEW n \in Requests, Malloc(n) PROVE HeapInv'
  BY <1>1, MallocStep
<1>2. ASSUME NEW p \in DOMAIN asked, Free(p) PROVE HeapInv'
  BY <1>2, FreeStep
<1>3. CASE UNCHANGED vars
  BY <1>3 DEF vars, HeapInv, Arena, Tiled, Aligned, Tagged, Prior, After, ChunksOf,
     FreeOf, Footed, Filed, TopInv, DvInv, BinsInv, HeldInv
<1> QED BY <1>1, <1>2, <1>3 DEF Next

\* Between calls the chunks tile the arena, their bits and feet agree, each
\* free chunk is filed once, and the callers hold the others.
THEOREM HeapInvariant == Spec => []HeapInv
BY InitHeap, NextHeap, PTL DEF Spec

-----------------------------------------------------------------------------
(* The checks of do_check_malloc_state. *)

LEMMA TraverseHolds == HeapInv => Traverse
<1> SUFFICES ASSUME HeapInv PROVE Traverse
  OBVIOUS
<1>1. /\ Tiled(head) /\ Aligned(head) /\ Tagged(head) /\ Footed(head, foot)
      /\ TopInv /\ BinsInv /\ HeldInv
  BY DEF HeapInv, Arena, Filed
<1>2. Chunks = ChunksOf(head) /\ \A p : NextChunk(p) = After(head, p)
  BY DEF Chunks, ChunksOf, NextChunk, After
<1>3. /\ \A p \in Chunks : head[p].size % Word = 0 /\ NextChunk(p) \in DOMAIN head
      /\ 0 \in Chunks /\ \A p, q \in DOMAIN head : p < q => NextChunk(p) <= q
  BY <1>1, <1>2 DEF Tiled, Aligned
<1>4. ASSUME NEW p \in Chunks \ {top}, head[p].cinuse
      PROVE  p \notin DOMAIN bins /\ CheckInUse(p)
  <2>1. p \in ChunksOf(head) /\ p \notin FreeOf(head)
    BY <1>2, <1>4 DEF FreeOf
  <2>2. head[NextChunk(p)].pinuse
    BY <1>1, <1>2, <1>4, <2>1 DEF Tagged
  <2>3. ~head[p].pinuse =>
            foot[p] > 0 /\ p - foot[p] \in Chunks /\ NextChunk(p - foot[p]) = p
    BY <1>2, <2>1, Before
  <2>4. p \in DOMAIN asked => head[p].size - ChunkSizeFor(asked[p]) \in 0..(MinChunk - 1)
    BY <1>1 DEF HeldInv, Fits
  <2> QED BY <1>1, <2>1, <2>2, <2>3, <2>4 DEF BinsInv, CheckInUse
<1>5. ASSUME NEW p \in Chunks \ {top}, ~head[p].cinuse
      PROVE  (p = dv \/ p \in DOMAIN bins) /\ CheckFree(p)
  <2>1. p \in ChunksOf(head) /\ p \in FreeOf(head)
    BY <1>2, <1>5 DEF FreeOf
  <2>2. After(head, p) \in ChunksOf(head) /\ ~head[After(head, p)].pinuse
    BY <1>1, <1>5, <2>1, OnlyTopIsLast DEF Tagged
  <2>3. head[After(head, p)].cinuse /\ head[p].pinuse
    BY <1>1, <1>5, <2>1, <2>2 DEF Tagged
  <2>4. foot[After(head, p)] = head[p].size
    BY <1>1, <1>5, <2>1, <2>2 DEF Footed, ChunksOf
  <2>5. head[p].size >= MinChunk
    BY <1>1, <2>1 DEF HeldInv
  <2>6. p = dv \/ p \in DOMAIN bins
    BY <1>1, <2>1 DEF BinsInv
  <2> QED BY <1>2, <2>2, <2>3, <2>4, <2>5, <2>6 DEF CheckFree
<1>6. \A p \in DOMAIN bins : p \in Chunks \ {top} /\ bins[p] = head[p].size
  BY <1>1, <1>2 DEF BinsInv, FreeOf
<1>7. \A p \in Chunks \ {top} :
          IF head[p].cinuse THEN p \notin DOMAIN bins /\ CheckInUse(p)
                            ELSE (p = dv \/ p \in DOMAIN bins) /\ CheckFree(p)
  BY <1>4, <1>5
<1> QED BY <1>3, <1>6, <1>7 DEF Traverse

\* The bytes of a caller end before the next chunk's size word.
LEMMA HeldBytes ==
    ASSUME HeapInv, NEW p \in DOMAIN asked
    PROVE  /\ asked[p] \in Nat /\ p \in Nat /\ After(head, p) \in Nat
           /\ p + Word + asked[p] <= After(head, p)
<1>1. Tiled(head) /\ HeldInv
  BY DEF HeapInv, Arena
<1>2. p \in ChunksOf(head) /\ Fits(head[p].size, asked[p]) /\ asked[p] \in Requests
  BY <1>1 DEF HeldInv
<1>3. /\ p \in Nat /\ head[p].size \in Nat /\ After(head, p) \in Nat
      /\ After(head, p) = p + head[p].size
  BY <1>1, <1>2, ChunkFacts DEF After
<1>4. /\ asked[p] \in Nat /\ ChunkSizeFor(asked[p]) \in Nat /\ Word \in Nat
      /\ ChunkSizeFor(asked[p]) >= asked[p] + Word /\ MinChunk \in Nat
  BY <1>2, ChunkSizeIs, Constants
<1>5. head[p].size - ChunkSizeFor(asked[p]) >= 0
  BY <1>2, <1>3, <1>4 DEF Fits
<1> QED BY <1>3, <1>4, <1>5

LEMMA BytesApart == HeapInv => UserBytes \intersect OwnBytes = {}
<1> SUFFICES ASSUME HeapInv, NEW p \in DOMAIN asked,
                    NEW x \in (p + 2 * Word)..(p + 2 * Word + asked[p] - 1)
             PROVE  x \notin OwnBytes
  BY DEF UserBytes
<1> DEFINE t == After(head, p)
<1>1. Tiled(head) /\ Aligned(head) /\ Tagged(head) /\ Footed(head, foot) /\ HeldInv
  BY DEF HeapInv, Arena
<1>2. /\ p \in ChunksOf(head) /\ p \in DOMAIN head /\ p # 0 /\ head[p].cinuse
      /\ t \in DOMAIN head /\ p < t
  BY <1>1, ChunkFacts DEF HeldInv, FreeOf
<1>3. /\ x \in Int /\ p \in Nat /\ t \in Nat /\ Word \in Nat /\ Word >= 2
      /\ x >= p + 2 * Word /\ x < t + Word
  <2>1. asked[p] \in Nat /\ p \in Nat /\ t \in Nat /\ p + Word + asked[p] <= t
    BY HeldBytes
  <2>2. Word \in Nat /\ Word >= 2
    BY Constants
  <2> QED BY <2>1, <2>2
<1> HIDE DEF t
<1>4. x \notin 0..(StateSize - 1)
  <2>1. StateSize <= p /\ StateSize \in Nat
    <3>1. 0 \in DOMAIN head /\ head[0].size = StateSize /\ StateSize \in Nat
      BY <1>1, Constants DEF Tiled, ChunksOf, Tagged, InUse, Header
    <3>2. 0 + head[0].size <= p
      BY <1>1, <1>2, <1>3, <3>1, ChunkFacts DEF After
    <3> QED BY <3>1, <3>2
  <2> QED BY <1>3, <2>1
<1>5. ASSUME NEW q \in DOMAIN head PROVE x \notin (q + Word)..(q + 2 * Word - 1)
  <2>1. q \in Nat /\ (p < q => t <= q)
    BY <1>1, <1>2, ChunkFacts DEF t
  <2> QED BY <1>3, <2>1
<1>6. ASSUME NEW q \in DOMAIN foot PROVE x \notin q..(q + Word - 1)
  <2>1. q \in ChunksOf(head) /\ ~head[q].pinuse /\ q \in DOMAIN head /\ q \in Nat /\ q < End
    BY <1>1, ChunkFacts DEF Footed
  <2>2. p < q => t <= q
    BY <1>1, <1>2, <2>1, ChunkFacts DEF t
  <2>3. q # t
    BY <1>1, <1>2, <2>1 DEF Tagged, t
  <2>4. ASSUME t < q PROVE t + Word <= q
    <3>1. t \in ChunksOf(head) /\ End \in Nat
      BY <1>1, <1>2, <1>3, <2>1, <2>4, ChunkFacts DEF ChunksOf
    <3>2. head[t].size % Word = 0 /\ head[t].size \in Nat /\ head[t].size > 0
      BY <1>1, <3>1, ChunkFacts DEF Aligned
    <3>3. head[t].size >= Word
      BY <1>3, <3>2, LeastMultiple
    <3>4. t + head[t].size <= q
      BY <1>1, <1>2, <2>1, <2>4, ChunkFacts DEF After
    <3> QED BY <1>3, <2>1, <3>2, <3>3, <3>4
  <2> QED BY <1>3, <2>1, <2>2, <2>3, <2>4
<1>7. ASSUME x \in OwnBytes
      PROVE  \/ x \in 0..(StateSize - 1)
             \/ \E q \in DOMAIN head : x \in (q + Word)..(q + 2 * Word - 1)
             \/ \E q \in DOMAIN foot : x \in q..(q + Word - 1)
  BY <1>7 DEF OwnBytes
<1> QED BY <1>4, <1>5, <1>6, <1>7

\* Between calls the heap passes every check of do_check_malloc_state, and the
\* words it describes itself with lie outside the memory of the callers.
THEOREM WellFormedHeap == Spec => []WellFormed
<1>1. HeapInv => WellFormed
  <2> SUFFICES ASSUME HeapInv PROVE WellFormed
    OBVIOUS
  <2>1. /\ Tiled(head) /\ Tagged(head) /\ TopInv /\ DvInv /\ BinsInv /\ HeldInv
    BY DEF HeapInv, Arena, Filed
  <2>2. CheckTop
    <3>1. top \in ChunksOf(head) /\ ~head[top].cinuse
      BY <2>1 DEF TopInv, FreeOf
    <3>2. head[top].size > 0 /\ head[top].pinuse /\ ~head[End].pinuse
      BY <2>1, <3>1 DEF Tiled, Tagged, TopInv
    <3> QED BY <2>1, <3>2 DEF CheckTop, TopInv, After
  <2>3. CheckDv
    <3>1. CASE dvsize = 0
      BY <2>1, <3>1 DEF CheckDv, DvInv
    <3>2. CASE dvsize # 0
      <4>1. dv \in FreeOf(head) \ {top} /\ dvsize = head[dv].size
        BY <2>1, <3>2 DEF DvInv
      <4>2. dv \in Chunks \ {top} /\ ~head[dv].cinuse
        BY <4>1 DEF FreeOf, Chunks, ChunksOf
      <4>3. head[dv].size >= MinChunk /\ dv \notin DOMAIN bins
        BY <2>1, <4>1 DEF HeldInv, BinsInv
      <4> QED BY <3>2, <4>1, <4>2, <4>3 DEF CheckDv
    <3> QED BY <3>1, <3>2
  <2>4. /\ \A p \in DOMAIN asked : p \in Chunks /\ head[p].cinuse
        /\ \A p \in Chunks \ ({0} \union DOMAIN asked) : ~head[p].cinuse
    BY <2>1 DEF HeldInv, FreeOf, Chunks, ChunksOf
  <2> QED BY <2>2, <2>3, <2>4, TraverseHolds, BytesApart DEF WellFormed
<1> QED BY <1>1, HeapInvariant, PTL

-----------------------------------------------------------------------------
(* The room in front of top. *)

\* A held chunk that is larger than its request needs lies next to top only
\* after a free made top larger than the smallest chunk.
TopRoom ==
    topsize > MinChunk \/ \A p \in DOMAIN asked :
        After(head, p) = top => head[p].size = ChunkSizeFor(asked[p])

\* A request is served from dv or a bin: whole, or from the front.
Serves(p, n) ==
    /\ asked' = With(asked, p, n) /\ refused' = 0
    /\ UNCHANGED <<top, topsize>>
    /\ \/ TakeWhole(p, head[p].size, n)
       \/ /\ TakeFront(p, head[p].size, n)
          /\ head[p].size - ChunkSizeFor(n) >= MinChunk

LEMMA BinServes ==
    ASSUME HeapInv, NEW n \in Requests, NEW p \in DOMAIN bins,
           refused' = 0, UNCHANGED <<top, topsize>>,
           TakeWhole(p, bins[p], n) \/ TakeIntoDv(p, n) \/ TakeIntoBin(p, n)
    PROVE  p \in FreeOf(head) \ {top} /\ Serves(p, n)
<1>1. p \in FreeOf(head) \ {top} /\ bins[p] = head[p].size
  BY FiledFacts
<1>2. \/ TakeWhole(p, head[p].size, n)
      \/ TakeFront(p, head[p].size, n) /\ head[p].size - ChunkSizeFor(n) >= MinChunk
  BY <1>1 DEF TakeIntoDv, TakeIntoBin, WorthSplitting
<1>3. asked' = With(asked, p, n)
  BY <1>2 DEF TakeWhole, TakeFront
<1> QED BY <1>1, <1>2, <1>3 DEF Serves

LEMMA MallocServes ==
    ASSUME HeapInv, NEW n \in Requests, Malloc(n)
    PROVE  \/ MallocFails(n) \/ MallocTop(n)
           \/ \E p \in FreeOf(head) \ {top} : Serves(p, n)
<1>1. CASE MallocExact(n)
  <2>1. PICK p \in ExactFits(n) : TakeWhole(p, bins[p], n)
    BY <1>1 DEF MallocExact
  <2>2. p \in DOMAIN bins
    BY <2>1 DEF ExactFits, SmallBin
  <2>3. refused' = 0 /\ UNCHANGED <<top, topsize>>
    BY <1>1 DEF MallocExact
  <2> QED BY <2>1, <2>2, <2>3, BinServes
<1>2. CASE MallocSmallBin(n)
  <2>1. PICK p \in DOMAIN bins : TakeIntoDv(p, n)
    BY <1>2 DEF MallocSmallBin, Smallest, SmallChunksFrom
  <2>2. refused' = 0 /\ UNCHANGED <<top, topsize>>
    BY <1>2 DEF MallocSmallBin
  <2> QED BY <2>1, <2>2, BinServes
<1>3. CASE MallocSmallTree(n)
  <2>1. PICK p \in DOMAIN bins : TakeIntoDv(p, n)
    BY <1>3 DEF MallocSmallTree, Smallest, TreeChunks
  <2>2. refused' = 0 /\ UNCHANGED <<top, topsize>>
    BY <1>3 DEF MallocSmallTree
  <2> QED BY <2>1, <2>2, BinServes
<1>4. CASE MallocLarge(n)
  <2>1. PICK p \in LargeFits(n) : TakeIntoBin(p, n)
    BY <1>4 DEF MallocLarge
  <2>2. p \in DOMAIN bins
    BY <2>1 DEF LargeFits, Smallest, TreeChunks
  <2>3. refused' = 0 /\ UNCHANGED <<top, topsize>>
    BY <1>4 DEF MallocLarge
  <2> QED BY <2>1, <2>2, <2>3, BinServes
<1>5. CASE MallocDv(n)
  <2>1. ChunkSizeFor(n) \in Nat /\ ChunkSizeFor(n) > 0
    BY ChunkSizeIs, Constants
  <2>2. ChunkSizeFor(n) <= dvsize /\ refused' = 0 /\ UNCHANGED <<top, topsize>>
    BY <1>5 DEF MallocDv
  <2>3. dv \in FreeOf(head) \ {top} /\ dvsize = head[dv].size
    BY <2>1, <2>2, FiledFacts
  <2>4. \/ TakeWhole(dv, head[dv].size, n)
        \/ TakeFront(dv, head[dv].size, n) /\ head[dv].size - ChunkSizeFor(n) >= MinChunk
    BY <1>5, <2>3 DEF MallocDv
  <2>5. asked' = With(asked, dv, n)
    BY <2>4 DEF TakeWhole, TakeFront
  <2> QED BY <2>2, <2>3, <2>4, <2>5 DEF Serves
<1> QED BY <1>1, <1>2, <1>3, <1>4, <1>5 DEF Malloc

\* A chunk handed out from dv or a bin lies next to no free chunk it was not
\* cut from, and the others keep their sizes.
LEMMA ServedHeads ==
    ASSUME HeapInv, NEW n \in Requests, NEW p \in FreeOf(head) \ {top}, Serves(p, n)
    PROVE  /\ p \notin DOMAIN asked /\ After(head', p) # top
           /\ \A q \in DOMAIN asked : head'[q].size = head[q].size
<1>1. /\ Arena(head) /\ top \in FreeOf(head) /\ top \in DOMAIN head
      /\ p \in DOMAIN head /\ p \in Nat /\ head[p].size \in Nat
  BY FiledFacts DEF HeapInv
<1>2. p \notin DOMAIN asked /\ DOMAIN asked \subseteq DOMAIN head
  BY DEF HeapInv, HeldInv, FreeOf, ChunksOf
<1>3. CASE TakeWhole(p, head[p].size, n)
  <2>1. head' = SetHead(head, p, InUse(head[p].size))
    BY <1>3 DEF TakeWhole
  <2>2. After(head, p) \notin FreeOf(head) /\ \A q \in DOMAIN head : head'[q].size = head[q].size
    BY <1>1, <2>1, WholeHeads
  <2> QED BY <1>1, <1>2, <2>2 DEF After
<1>4. CASE TakeFront(p, head[p].size, n) /\ head[p].size - ChunkSizeFor(n) >= MinChunk
  <2>1. PICK s \in Nat : /\ s = ChunkSizeFor(n) /\ 0 < s /\ s < head[p].size
                         /\ s % Word = 0
    <3>1. /\ ChunkSizeFor(n) \in Nat /\ ChunkSizeFor(n) >= MinChunk
          /\ ChunkSizeFor(n) % Word = 0 /\ MinChunk \in Nat /\ MinChunk > 0
      BY ChunkSizeIs, Constants
    <3> QED BY <1>1, <1>4, <3>1
  <2>2. head' = With([head EXCEPT ![p] = InUse(s)], p + s, FreeChunk(head[p].size - s))
    BY <1>4, <2>1 DEF TakeFront
  <2>3. IsSplit(head, p, s, head')
    BY <1>1, <2>1, <2>2, SplitHeads
  <2>4. /\ p + s \notin DOMAIN head /\ head'[p].size = s
        /\ \A q \in DOMAIN head \ {p} : head'[q] = head[q]
    BY <2>3 DEF IsSplit, InUse, Header
  <2> QED BY <1>1, <1>2, <2>4 DEF After
<1> QED BY <1>3, <1>4 DEF Serves

\* Joining free chunks leaves the held ones as they are.
LEMMA JoinKeeps ==
    ASSUME HeapInv, NEW p \in DOMAIN asked, NEW s, NEW absorbed \in SUBSET FreeOf(head),
           Join(p, s, absorbed)
    PROVE  \A q \in DOMAIN asked \ {p} : head'[q].size = head[q].size
<1> SUFFICES ASSUME NEW q \in DOMAIN asked \ {p} PROVE head'[q].size = head[q].size
  OBVIOUS
<1>s. PICK start : start = Start(p)
  OBVIOUS
<1>k. PICK k : k = Without(head, ({p} \ {start}) \union absorbed)
  OBVIOUS
<1>v. PICK v, t, b : v = FreeChunk(s) /\ t = start + v.size /\ b = v.cinuse
  OBVIOUS
<1>1. q \in DOMAIN head /\ q \notin FreeOf(head) /\ head[q] \in Heads
  BY DEF HeapInv, HeldInv, Arena, Tiled, ChunksOf
<1>2. q # start
  BY <1>s, <1>1, StartIs
<1>3. q \in DOMAIN k /\ k[q] = head[q]
  BY <1>k, <1>1 DEF Without
<1>4. head' = [k EXCEPT ![start] = v, ![t].pinuse = b]
  BY <1>s, <1>k, <1>v DEF Join, SetHead
<1>5. head'[q] = k[q] \/ head'[q] = [k[q] EXCEPT !.pinuse = b]
  BY <1>2, <1>3, <1>4
<1> QED BY <1>1, <1>3, <1>5 DEF Heads

LEMMA MallocKeepsRoom ==
    ASSUME HeapInv, TopRoom, NEW n \in Requests, Malloc(n)
    PROVE  TopRoom'
<1>1. CASE MallocFails(n)
  BY <1>1 DEF MallocFails, TopRoom, After
<1>2. CASE MallocTop(n)
  <2>1. PICK s \in Nat : /\ s = ChunkSizeFor(n) /\ 0 < s /\ s % Word = 0
    <3>1. /\ ChunkSizeFor(n) \in Nat /\ ChunkSizeFor(n) >= MinChunk
          /\ ChunkSizeFor(n) % Word = 0 /\ MinChunk \in Nat /\ MinChunk > 0
      BY ChunkSizeIs, Constants
    <3> QED BY <3>1
  <2>2. /\ Arena(head) /\ Tiled(head) /\ top \in FreeOf(head) /\ topsize = head[top].size
        /\ s < head[top].size
        /\ head' = With([head EXCEPT ![top] = InUse(s)], top + s,
                        FreeChunk(head[top].size - s))
        /\ top' = top + s /\ asked' = With(asked, top, n)
    BY <1>2, <2>1, FiledFacts DEF MallocTop, HeapInv, Arena
  <2>3. IsSplit(head, top, s, head')
    BY <2>1, <2>2, SplitHeads
  <2>4. /\ top + s \notin DOMAIN head /\ head'[top].size = s
        /\ \A q \in DOMAIN head \ {top} : head'[q] = head[q]
    BY <2>3 DEF IsSplit, InUse, Header
  <2>5. ASSUME NEW q \in DOMAIN asked', After(head', q) = top'
        PROVE  head'[q].size = ChunkSizeFor(asked'[q])
    <3>1. DOMAIN asked' = DOMAIN asked \union {top} /\ asked'[top] = n
      BY <2>2 DEF With
    <3>2. CASE q = top
      BY <2>1, <2>4, <3>1, <3>2
    <3>3. CASE q # top
      <4>1. q \in ChunksOf(head)
        BY <3>1, <3>3 DEF HeapInv, HeldInv
      <4>2. After(head, q) \in DOMAIN head /\ q \in DOMAIN head
        BY <2>2, <4>1, ChunkFacts
      <4>3. After(head', q) = After(head, q)
        BY <2>4, <3>3, <4>2 DEF After
      <4> QED BY <2>2, <2>4, <2>5, <4>2, <4>3
    <3> QED BY <3>2, <3>3
  <2> QED BY <2>5 DEF TopRoom
<1>3. ASSUME NEW p \in FreeOf(head) \ {top}, Serves(p, n) PROVE TopRoom'
  <2>1. /\ p \notin DOMAIN asked /\ After(head', p) # top
        /\ \A q \in DOMAIN asked : head'[q].size = head[q].size
    BY <1>3, ServedHeads
  <2>2. /\ DOMAIN asked' = DOMAIN asked \union {p} /\ top' = top /\ topsize' = topsize
        /\ \A q \in DOMAIN asked : asked'[q] = asked[q]
    BY <1>3, <2>1 DEF Serves, With
  <2>3. \A q \in DOMAIN asked : After(head', q) = After(head, q)
    BY <2>1 DEF After
  <2> QED BY <2>1, <2>2, <2>3 DEF TopRoom
<1> QED BY <1>1, <1>2, <1>3, MallocServes

LEMMA FreeKeepsRoom ==
    ASSUME HeapInv, TopRoom, NEW p \in DOMAIN asked, Free(p)
    PROVE  TopRoom'
<1>1. CASE FreeIntoTop(p)
  <2>1. /\ topsize \in Nat /\ topsize > 0
    <3>1. top \in ChunksOf(head) /\ topsize = head[top].size /\ Tiled(head)
      BY FiledFacts DEF HeapInv, Arena
    <3> QED BY <3>1, ChunkFacts
  <2>2. /\ NextChunk(p) = p + head[p].size /\ head[p].size \in Nat /\ p \in Nat
        /\ head[p].size >= MinChunk /\ Start(p) \in Nat /\ Start(p) <= p
        /\ MinChunk \in Nat
    <3>1. Absorbs(p, {top}, After(head, top))
      BY <1>1, FiledFacts DEF FreeIntoTop, Absorbs, NextChunk, After
    <3> QED BY <3>1, Swallowed, StartIs, Constants DEF NextChunk
  <2>3. topsize' = topsize + Joined(p)
    BY <1>1 DEF FreeIntoTop
  <2>4. topsize' > MinChunk
    BY <2>1, <2>2, <2>3 DEF Joined
  <2> QED BY <2>4 DEF TopRoom
<1>2. ASSUME NEW s, NEW absorbed \in SUBSET FreeOf(head), Join(p, s, absorbed),
             UNCHANGED <<top, topsize>>
      PROVE  TopRoom'
  <2>1. \A q \in DOMAIN asked \ {p} : head'[q].size = head[q].size
    BY <1>2, JoinKeeps
  <2>2. /\ DOMAIN asked' = DOMAIN asked \ {p} /\ top' = top /\ topsize' = topsize
        /\ \A q \in DOMAIN asked' : asked'[q] = asked[q]
    BY <1>2 DEF Join, Without
  <2>3. \A q \in DOMAIN asked \ {p} : After(head', q) = After(head, q)
    BY <2>1 DEF After
  <2> QED BY <2>1, <2>2, <2>3 DEF TopRoom
<1>3. CASE FreeIntoDv(p)
  BY <1>2, <1>3 DEF FreeIntoDv
<1>4. CASE FreeIntoBin(p)
  BY <1>2, <1>4 DEF FreeIntoBin
<1>5. CASE FreeBeforeDv(p)
  <2>1. {dv} \in SUBSET FreeOf(head)
    BY <1>5, Around DEF FreeBeforeDv
  <2> QED BY <1>2, <1>5, <2>1 DEF FreeBeforeDv
<1>6. CASE FreeBeforeBinned(p)
  <2>1. {NextChunk(p)} \in SUBSET FreeOf(head)
    BY <1>6, Around DEF FreeBeforeBinned, FreeOf
  <2> QED BY <1>2, <1>6, <2>1 DEF FreeBeforeBinned
<1> QED BY <1>1, <1>3, <1>4, <1>5, <1>6 DEF Free

LEMMA RoomKept == HeapInv /\ TopRoom /\ [Next]_vars => TopRoom'
<1> SUFFICES ASSUME HeapInv, TopRoom, [Next]_vars PROVE TopRoom'
  OBVIOUS
<1>1. ASSUME NEW n \in Requests, Malloc(n) PROVE TopRoom'
  BY <1>1, MallocKeepsRoom
<1>2. ASSUME NEW p \in DOMAIN asked, Free(p) PROVE TopRoom'
  BY <1>2, FreeKeepsRoom
<1>3. CASE UNCHANGED vars
  BY <1>3 DEF vars, TopRoom, After
<1> QED BY <1>1, <1>2, <1>3 DEF Next

-----------------------------------------------------------------------------
(* A request is refused only if no free chunk would do. *)

\* A bounded set of numbers has a greatest element: what lies above one of them
\* shrinks as it grows, and finite sets do not shrink for ever.
LEMMA LastOf ==
    ASSUME NEW n \in Nat, NEW K \in SUBSET (0..n), K # {}
    PROVE  \E k \in K : \A j \in K : j <= k
<1> DEFINE Above(x) == {y \in K : x <= y}
           Parts == {Above(x) : x \in K}
<1>1. IsFiniteSet(K)
    <2>1. 0 \in Int /\ n \in Int
        OBVIOUS
    <2>2. QED BY <2>1, FS_Interval, FS_Subset, Zenon
<1>2. Parts \subseteq FiniteSubsetsOf(K) /\ Parts # {}
    <2>1. \A x \in K : Above(x) \in SUBSET K /\ IsFiniteSet(Above(x))
        BY <1>1, FS_Subset
    <2>2. QED BY <2>1 DEF FiniteSubsetsOf
<1>3. PICK p \in Parts : \A q \in Parts : ~ (<<q, p>> \in StrictSubsetOrdering(K))
    BY <1>1, <1>2, FS_StrictSubsetOrderingWellFounded, WFMin
<1>4. PICK k \in K : p = Above(k)
    OBVIOUS
<1>5. ASSUME NEW j \in K, ~ (j <= k) PROVE FALSE
    <2>1. Above(j) \in Parts /\ Above(j) \in SUBSET K /\ p \in SUBSET K
        BY <1>4
    <2>2. k <= k /\ ~ (j <= k) /\ \A z \in K : j <= z => k <= z
        BY <1>5
    <2>3. Above(j) \subseteq p /\ k \in p /\ k \notin Above(j)
        BY <1>4, <2>2, Zenon
    <2>4. <<Above(j), p>> \in StrictSubsetOrdering(K)
        BY <2>1, <2>3 DEF StrictSubsetOrdering
    <2>5. QED BY <1>3, <2>1, <2>4
<1>6. QED BY <1>5

\* tmalloc_large finds a chunk if one of the bins is large enough.
LEMMA LargeFound ==
    ASSUME HeapInv, NEW n \in Requests, NEW p \in TreeChunks,
           ChunkSizeFor(n) <= bins[p], dvsize < ChunkSizeFor(n)
    PROVE  LargeFits(n) # {}
<1>n. PICK nb \in Nat : nb = ChunkSizeFor(n) /\ 0 < nb /\ nb < Width
  BY ChunkSizeIs, Constants, HeapAssumption
<1> DEFINE Rem(size) == (size - nb) % Width
<1>f. PICK fits : fits = {q \in TreeChunks : Rem(bins[q]) < (-nb) % Width}
  OBVIOUS
<1>1. Width \in Nat /\ Capacity \in Nat /\ Capacity < Width /\ dvsize \in Nat /\ dvsize < nb
  BY <1>n, Constants, HeapAssumption, FiledFacts
<1>2. \A q \in TreeChunks : bins[q] \in Nat /\ bins[q] <= Capacity
  <2> SUFFICES ASSUME NEW q \in TreeChunks PROVE bins[q] \in Nat /\ bins[q] <= Capacity
    OBVIOUS
  <2>1. q \in ChunksOf(head) /\ bins[q] = head[q].size /\ bins[q] \in Nat
    BY FiledFacts DEF TreeChunks
  <2>2. q \in Nat /\ After(head, q) <= End /\ After(head, q) = q + bins[q] /\ End \in Nat
    BY <2>1, ChunkFacts DEF HeapInv, Arena, After
  <2> QED BY <2>1, <2>2, Constants DEF End
<1>3. ASSUME NEW d \in Int, -Width <= d, d < Width
      PROVE  d % Width = IF d < 0 THEN d + Width ELSE d
  BY <1>1, <1>3
<1>4. (-nb) % Width = Width - nb /\ Rem(dvsize) = dvsize - nb + Width
  BY <1>n, <1>1, <1>3
<1>5. p \in fits
  <2>1. bins[p] \in Nat /\ bins[p] <= Capacity /\ nb <= bins[p]
    BY <1>n, <1>2
  <2>2. Rem(bins[p]) = bins[p] - nb
    BY <1>n, <1>1, <1>3, <2>1
  <2> QED BY <1>n, <1>f, <1>1, <1>4, <2>1, <2>2
<1>6. PICK q \in fits : \A r \in fits : bins[q] <= bins[r]
  <2>1. PICK K : K = {Capacity - bins[r] : r \in fits}
    OBVIOUS
  <2>2. K \in SUBSET (0..Capacity) /\ K # {}
    <3>1. \A r \in fits : Capacity - bins[r] \in 0..Capacity
      BY <1>f, <1>1, <1>2
    <3> QED BY <1>5, <2>1, <3>1
  <2>3. PICK k \in K : \A j \in K : j <= k
    BY <1>1, <2>2, LastOf
  <2>4. PICK q \in fits : k = Capacity - bins[q]
    BY <2>1
  <2>5. ASSUME NEW r \in fits PROVE bins[q] <= bins[r]
    <3>1. Capacity - bins[r] <= Capacity - bins[q]
      BY <2>1, <2>3, <2>4
    <3> QED BY <1>f, <1>1, <1>2, <3>1
  <2> QED BY <2>5
<1>7. bins[q] \in Nat /\ bins[q] <= Capacity /\ q \in TreeChunks
      /\ Rem(bins[q]) < (-nb) % Width
  BY <1>f, <1>2
<1>8. nb <= bins[q]
  <2>1. PICK s \in Nat : s = bins[q] /\ s < Width /\ (s - nb) % Width < (-nb) % Width
    BY <1>1, <1>7
  <2>2. nb <= s
    BY <1>n, <1>1, <2>1, UnsignedRemainder
  <2> QED BY <2>1, <2>2
<1>9. Rem(bins[q]) < Rem(dvsize)
  <2>1. Rem(bins[q]) = bins[q] - nb
    BY <1>n, <1>1, <1>3, <1>7, <1>8
  <2> QED BY <1>n, <1>1, <1>4, <1>7, <2>1
<1>10. q \in Smallest(fits)
  BY <1>6 DEF Smallest
<1> QED BY <1>n, <1>f, <1>9, <1>10 DEF LargeFits

\* A request served from the tree bins needs a chunk of a tree bin.
LEMMA LargeRequest ==
    ASSUME NEW n \in Requests, ~IsSmallRequest(n)
    PROVE  ChunkSizeFor(n) >= SmallLimit
<1>1. /\ n \in Nat /\ ChunkSizeFor(n) \in Nat /\ ChunkSizeFor(n) >= n + Word
      /\ ChunkSizeFor(n) % Word = 0 /\ Word \in Nat /\ Word > 0
      /\ SmallLimit \in Nat /\ SmallLimit % Word = 0
  BY ChunkSizeIs, Constants
<1>2. n > SmallLimit - 2 * Word
  BY <1>1 DEF IsSmallRequest
<1>c. PICK c \in Nat : c = ChunkSizeFor(n) /\ c % Word = 0 /\ c > SmallLimit - Word
  BY <1>1, <1>2
<1>3. PICK d \in Int : d = c - SmallLimit /\ d % Word = 0 /\ d > -Word
  <2>1. (c - SmallLimit) % Word = 0
    BY <1>1, <1>c, Multiples
  <2> QED BY <1>1, <1>c, <2>1
<1>4. (d + Word) % Word = 0
  <2>1. d \in Int /\ d % Word = 0 /\ Word \in Int /\ Word % Word = 0
        /\ Word \in Nat /\ Word > 0
    BY <1>1, <1>3
  <2> QED BY ONLY <2>1, Multiples
<1>5. d + Word >= Word
  BY <1>1, <1>3, <1>4, LeastMultiple
<1> QED BY <1>1, <1>c, <1>3, <1>5

LEMMA NothingFits ==
    ASSUME HeapInv, NEW n \in Requests, MallocFails(n)
    PROVE  /\ topsize <= ChunkSizeFor(n)
           /\ \A p \in FreeOf(head) \ {top} : head[p].size < ChunkSizeFor(n)
<1>1. /\ NoBinServes(n) /\ dvsize < ChunkSizeFor(n) /\ topsize <= ChunkSizeFor(n)
  BY DEF MallocFails
<1>2. /\ ChunkSizeFor(n) \in Nat /\ SmallLimit \in Nat
  BY ChunkSizeIs, Constants
<1>3. ASSUME NEW p \in DOMAIN bins, ~ bins[p] < ChunkSizeFor(n) PROVE FALSE
  <2>1. bins[p] \in Nat /\ bins[p] >= ChunkSizeFor(n)
    BY <1>2, <1>3, FiledFacts
  <2>2. CASE IsSmallRequest(n)
    <3>1. SmallChunksFrom(ChunkSizeFor(n)) = {} /\ TreeChunks = {}
      BY <1>1, <2>2 DEF NoBinServes
    <3> QED BY <2>1, <3>1 DEF SmallChunksFrom, TreeChunks
  <2>3. CASE ~IsSmallRequest(n)
    <3>1. LargeFits(n) = {}
      BY <1>1, <2>3 DEF NoBinServes
    <3>2. p \in TreeChunks
      BY <1>2, <2>1, <2>3, LargeRequest DEF TreeChunks, IsSmall
    <3> QED BY <1>1, <2>1, <3>1, <3>2, LargeFound
  <2> QED BY <2>2, <2>3
<1>4. ASSUME NEW p \in FreeOf(head) \ {top} PROVE head[p].size < ChunkSizeFor(n)
  <2>1. CASE p = dv
    BY <1>1, <2>1, FiledFacts
  <2>2. CASE p # dv
    <3>1. p \in DOMAIN bins /\ bins[p] = head[p].size
      BY <2>2 DEF HeapInv, Filed, BinsInv
    <3> QED BY <1>3, <3>1
  <2> QED BY <2>1, <2>2
<1> QED BY <1>1, <1>4

-----------------------------------------------------------------------------
(* The promise: regions. *)

\* The memory of a caller, from its first byte to the one after its last.
From(p) == p + 2 * Word
Upto(p) == From(p) + asked[p]

\* The memory of the callers is aligned, inside the arena and disjoint.
RegionsApart ==
    \A p \in DOMAIN asked :
        /\ p \in Nat /\ asked[p] \in Nat /\ asked[p] > 0
        /\ p % Word = 0 /\ StateSize <= p /\ Upto(p) <= End
        /\ \A q \in DOMAIN asked : p < q => Upto(p) <= From(q)

LEMMA Apart == HeapInv => RegionsApart
<1> SUFFICES ASSUME HeapInv, NEW p \in DOMAIN asked
             PROVE  /\ p \in Nat /\ asked[p] \in Nat /\ asked[p] > 0
                    /\ p % Word = 0 /\ StateSize <= p /\ Upto(p) <= End
                    /\ \A q \in DOMAIN asked : p < q => Upto(p) <= From(q)
  BY DEF RegionsApart
<1> DEFINE t == After(head, p)
<1>1. Tiled(head) /\ Aligned(head) /\ Tagged(head) /\ HeldInv
  BY DEF HeapInv, Arena
<1>2. p \in ChunksOf(head) /\ p # 0 /\ p # top /\ p \in DOMAIN head /\ asked[p] \in Requests
  BY <1>1, FiledFacts, ChunkFacts DEF HeldInv
<1>3. /\ asked[p] \in Nat /\ asked[p] > 0 /\ p \in Nat /\ t \in Nat
      /\ p + Word + asked[p] <= t /\ Word \in Nat /\ Word >= 2
  BY <1>2, HeldBytes, ChunkSizeIs, Constants
<1>4. p % Word = 0
  BY <1>1, <1>2 DEF Aligned
<1>5. StateSize <= p
  <2>1. 0 \in DOMAIN head /\ head[0].size = StateSize /\ StateSize \in Nat
    BY <1>1, Constants DEF Tiled, ChunksOf, Tagged, InUse, Header
  <2>2. 0 + head[0].size <= p
    BY <1>1, <1>2, <1>3, <2>1, ChunkFacts DEF After
  <2> QED BY <2>1, <2>2
<1>6. t + Word <= End
  <2>1. t \in ChunksOf(head)
    BY <1>2, OnlyTopIsLast
  <2>2. /\ head[t].size \in Nat /\ head[t].size > 0 /\ head[t].size % Word = 0
        /\ t + head[t].size <= End /\ End \in Nat
    BY <1>1, <2>1, ChunkFacts DEF Aligned, After
  <2>3. head[t].size >= Word
    BY <1>3, <2>2, LeastMultiple
  <2> QED BY <1>3, <2>2, <2>3
<1>7. Upto(p) <= End
  <2>1. End \in Nat
    BY <1>1, ChunkFacts
  <2> QED BY <1>3, <1>6, <2>1 DEF Upto, From
<1>8. ASSUME NEW q \in DOMAIN asked, p < q PROVE Upto(p) <= From(q)
  <2>1. q \in DOMAIN head /\ q \in Nat
    BY <1>1, ChunkFacts DEF HeldInv
  <2>2. t <= q
    BY <1>1, <1>2, <1>8, <2>1, ChunkFacts
  <2> QED BY <1>3, <2>1, <2>2 DEF Upto, From
<1> QED BY <1>3, <1>4, <1>5, <1>7, <1>8

\* The regions of HeapPromise are the callers' memory.
LEMMA RegionsAre ==
    ASSUME HeapInv
    PROVE  /\ UserBytes = Promise!HeldBytes
           /\ \A x : x \in UserBytes <=> \E p \in DOMAIN asked : x \in From(p)..(Upto(p) - 1)
<1> DEFINE D == {p + 2 * Word : p \in DOMAIN asked}
           held == [m \in D |-> asked[m - 2 * Word]]
<1>1. \A x : x \in UserBytes <=> \E p \in DOMAIN asked : x \in From(p)..(Upto(p) - 1)
  <2> DEFINE R(p) == (p + 2 * Word)..(p + 2 * Word + asked[p] - 1)
  <2>1. UserBytes = UNION {R(p) : p \in DOMAIN asked}
    BY DEF UserBytes
  <2>2. \A p \in DOMAIN asked : R(p) = From(p)..(Upto(p) - 1)
    <3> SUFFICES ASSUME NEW p \in DOMAIN asked PROVE R(p) = From(p)..(Upto(p) - 1)
      OBVIOUS
    <3>1. p \in Nat /\ asked[p] \in Nat /\ Word \in Nat
      BY Apart, Constants DEF RegionsApart
    <3> QED BY <3>1 DEF From, Upto
  <2> HIDE DEF R
  <2> QED BY <2>1, <2>2
<1>2. \A p \in DOMAIN asked : p \in Nat /\ From(p) \in D /\ held[From(p)] = asked[p]
  <2> SUFFICES ASSUME NEW p \in DOMAIN asked
               PROVE  p \in Nat /\ From(p) \in D /\ held[From(p)] = asked[p]
    OBVIOUS
  <2>1. p \in Nat /\ Word \in Nat
    BY Apart, Constants DEF RegionsApart
  <2>2. From(p) \in D /\ From(p) - 2 * Word = p
    BY <2>1 DEF From
  <2> QED BY <2>1, <2>2
<1>3. Promise!HeldBytes = UNION {m..(m + held[m] - 1) : m \in D}
  BY DEF Promise!HeldBytes, Promise!Region
<1> HIDE DEF held
<1>4. \A m \in D : \E p \in DOMAIN asked : m = From(p)
  BY DEF From
<1> HIDE DEF D
<1>5. \A x : x \in Promise!HeldBytes <=> \E m \in D : x \in m..(m + held[m] - 1)
  BY <1>3
<1>6. ASSUME NEW x PROVE x \in UserBytes <=> x \in Promise!HeldBytes
  <2>1. ASSUME NEW p \in DOMAIN asked, x \in From(p)..(Upto(p) - 1)
        PROVE  x \in Promise!HeldBytes
    <3>1. /\ From(p) \in D /\ held[From(p)] = asked[p]
      BY <1>2
    <3>2. x \in From(p)..(From(p) + held[From(p)] - 1)
      <4>1. Upto(p) = From(p) + held[From(p)]
        BY <3>1 DEF Upto
      <4>2. Upto(p) \in Nat /\ From(p) \in Nat /\ held[From(p)] \in Nat
        BY <3>1, Apart, Constants DEF RegionsApart, From, Upto
      <4>3. From(p) + held[From(p)] - 1 = Upto(p) - 1
        BY <4>1, <4>2
      <4> QED BY <2>1, <4>3, Zenon
    <3> QED BY <1>5, <3>1, <3>2
  <2>2. ASSUME NEW m \in D, x \in m..(m + held[m] - 1)
        PROVE  x \in UserBytes
    <3>1. PICK p \in DOMAIN asked : m = From(p)
      BY ONLY <1>4
    <3>2. held[m] = asked[p]
      BY <1>2, <3>1
    <3>3. x \in From(p)..(Upto(p) - 1)
      <4>1. Upto(p) = m + held[m]
        BY <3>1, <3>2 DEF Upto
      <4>2. Upto(p) \in Nat /\ From(p) \in Nat /\ held[m] \in Nat
        BY <3>2, Apart, Constants DEF RegionsApart, From, Upto
      <4>3. m + held[m] - 1 = Upto(p) - 1
        BY <3>1, <4>1, <4>2
      <4> QED BY <2>2, <3>1, <4>3, Zenon
    <3> QED BY <1>1, <3>3
  <2> QED BY <1>1, <1>5, <2>1, <2>2
<1> QED BY <1>1, <1>6

-----------------------------------------------------------------------------
(* The promise: refusals. *)

\* How much longer than its request a held chunk may be.
LEMMA Excess ==
    ASSUME HeapInv, NEW p \in DOMAIN asked
    PROVE  /\ head[p].size + Word + 1 <= asked[p] + 2 * MinChunk
           /\ head[p].size = ChunkSizeFor(asked[p]) => head[p].size + 1 <= asked[p] + MinChunk
<1>1. p \in ChunksOf(head) /\ Fits(head[p].size, asked[p]) /\ asked[p] \in Requests
  BY DEF HeapInv, HeldInv
<1>2. /\ head[p].size \in Nat /\ head[p].size % Word = 0
  BY <1>1, ChunkFacts DEF HeapInv, Arena, Aligned
<1>3. PICK c \in Nat : /\ c = ChunkSizeFor(asked[p]) /\ c % Word = 0
                       /\ c = MinChunk \/ c < asked[p] + 2 * Word
  BY <1>1, ChunkSizeIs
<1>4. /\ Word \in Nat /\ Word >= 2 /\ MinChunk \in Nat /\ 2 * Word <= MinChunk
      /\ MinChunk % Word = 0 /\ asked[p] \in Nat /\ asked[p] > 0
  BY <1>1, ChunkSizeIs, Constants
<1>5. c + 1 <= asked[p] + MinChunk
  BY <1>3, <1>4
<1>6. PICK d \in Nat : d = head[p].size - c /\ d < MinChunk
  BY <1>1, <1>2, <1>3, <1>4 DEF Fits
<1>7. (MinChunk - d) % Word = 0
  <2>1. d % Word = 0
    BY <1>2, <1>3, <1>4, <1>6, Multiples
  <2> QED BY <1>4, <2>1, Multiples
<1>8. MinChunk - d >= Word
  BY <1>4, <1>6, <1>7, LeastMultiple
<1> QED BY <1>2, <1>3, <1>4, <1>5, <1>6, <1>8

\* A run of free bytes that starts before a held chunk's memory ends there.
LEMMA EndsBefore ==
    ASSUME HeapInv, NEW u \in ChunksOf(head) \ FreeOf(head), u # 0,
           NEW m \in Nat, NEW k \in Nat, m < From(u),
           \A x \in m..(m + k - 1) : x \notin UserBytes
    PROVE  m + k <= From(u)
<1>1. u \in DOMAIN asked
  BY DEF HeapInv, HeldInv
<1>2. u \in Nat /\ asked[u] \in Nat /\ asked[u] > 0 /\ Word \in Nat
  BY <1>1, Apart, Constants DEF RegionsApart
<1>3. From(u) \in Nat /\ From(u) \in From(u)..(Upto(u) - 1)
  BY <1>2 DEF From, Upto
<1>4. From(u) \in UserBytes
  BY <1>1, <1>3, RegionsAre
<1>5. From(u) \notin m..(m + k - 1)
  BY <1>4
<1> QED BY <1>3, <1>5

\* The free bytes after the last held chunk before m.
Behind(p, m) ==
    /\ p \in ChunksOf(head) \ FreeOf(head) /\ From(p) <= m
    /\ \A q \in ChunksOf(head) \ FreeOf(head) : From(q) <= m => q <= p

LEMMA SomeBehind ==
    ASSUME HeapInv, NEW m \in Nat, StateSize + 2 * Word <= m
    PROVE  \E p : Behind(p, m)
<1> DEFINE K == {q \in ChunksOf(head) \ FreeOf(head) : From(q) <= m}
<1>1. Tiled(head) /\ Tagged(head) /\ End \in Nat
  BY ChunkFacts DEF HeapInv, Arena
<1>2. K \in SUBSET (0..End)
  BY <1>1, ChunkFacts
<1>3. 0 \in K
  BY <1>1, Constants DEF Tiled, Tagged, InUse, Header, FreeOf, From
<1>4. K # {}
  BY <1>3
<1>5. PICK p \in K : \A q \in K : q <= p
  BY <1>1, <1>2, <1>4, LastOf
<1> QED BY <1>5 DEF Behind

\* They start before the next chunk by no more than the chunk is too long.
LEMMA StartsAfter ==
    ASSUME HeapInv, NEW m \in Nat, StateSize + 2 * Word <= m, m \notin UserBytes,
           NEW p, Behind(p, m), NEW t \in Nat, t = After(head, p)
    PROVE  /\ t + 3 * Word + 1 <= m + 2 * MinChunk
           /\ p # 0 /\ head[p].size = ChunkSizeFor(asked[p]) =>
                  t + 2 * Word + 1 <= m + MinChunk
           /\ p = 0 => t + 2 * Word <= m
<1>c. /\ Word \in Nat /\ Word >= 2 /\ MinChunk \in Nat /\ 2 * Word <= MinChunk
      /\ StateSize \in Nat
  BY Constants
<1>1. CASE p = 0
  <2>1. t = StateSize
    BY <1>1, <1>c DEF HeapInv, Arena, Tagged, InUse, Header, After
  <2> QED BY <1>1, <1>c, <2>1
<1>2. CASE p # 0
  <2>1. p \in DOMAIN asked
    BY <1>2 DEF Behind, HeapInv, HeldInv
  <2>2. /\ p \in Nat /\ asked[p] \in Nat /\ From(p) <= m
    BY <2>1, Apart DEF RegionsApart, Behind
  <2>3. m \notin From(p)..(Upto(p) - 1)
    BY <2>1, RegionsAre
  <2>4. Upto(p) <= m /\ From(p) \in Nat
    BY <1>c, <2>2, <2>3 DEF From, Upto
  <2>5. t = p + head[p].size /\ head[p].size \in Nat
    BY <2>1, StartIs DEF After
  <2>6. /\ head[p].size + Word + 1 <= asked[p] + 2 * MinChunk
        /\ head[p].size = ChunkSizeFor(asked[p]) => head[p].size + 1 <= asked[p] + MinChunk
    BY <2>1, Excess
  <2> QED BY <1>2, <1>c, <2>2, <2>4, <2>5, <2>6 DEF From, Upto
<1> QED BY <1>1, <1>2

\* A request is refused only if no run of free bytes is longer than it by Slack.
LEMMA Refusal ==
    ASSUME HeapInv, TopRoom, NEW n \in Requests, MallocFails(n), NEW m \in Nat,
           StateSize + 2 * Word <= m, m + n + Slack <= End,
           \A x \in m..(m + (n + Slack) - 1) : x \notin UserBytes
    PROVE  FALSE
<1>c. /\ Word \in Nat /\ Word >= 2 /\ MinChunk \in Nat /\ 2 * Word <= MinChunk
      /\ n \in Nat /\ n > 0 /\ MinChunk % Word = 0 /\ End \in Nat
  BY ChunkSizeIs, Constants DEF End
<1>n. PICK nb \in Nat : /\ nb = ChunkSizeFor(n) /\ nb % Word = 0
                        /\ nb = MinChunk \/ nb < n + 2 * Word
  BY ChunkSizeIs
<1>k. PICK k \in Nat : k = n + Slack /\ k = n + 2 * MinChunk - 1
  BY <1>c DEF Slack
<1>1. m \notin UserBytes
  <2>1. m \in m..(m + (n + Slack) - 1)
    BY <1>c, <1>k
  <2> QED BY <2>1
<1>2. \A x \in m..(m + k - 1) : x \notin UserBytes
  BY <1>k
<1>3. PICK p : Behind(p, m)
  BY SomeBehind
<1>4. /\ p \in ChunksOf(head) \ FreeOf(head) /\ p \in Nat /\ p < After(head, p)
      /\ After(head, p) \in ChunksOf(head)
      /\ \A q \in ChunksOf(head) \ FreeOf(head) : From(q) <= m => q <= p
  BY <1>3, FiledFacts, OnlyTopIsLast, ChunkFacts DEF Behind, HeapInv, Arena
<1>t. PICK t \in ChunksOf(head) : t = After(head, p) /\ t \in Nat /\ p < t
  BY <1>4, ChunkFacts DEF HeapInv, Arena
<1>5. /\ t + 3 * Word + 1 <= m + 2 * MinChunk
      /\ p # 0 /\ head[p].size = ChunkSizeFor(asked[p]) =>
             t + 2 * Word + 1 <= m + MinChunk
      /\ p = 0 => t + 2 * Word <= m
  BY <1>1, <1>3, <1>t, StartsAfter
<1>6. ASSUME NEW u \in ChunksOf(head) \ FreeOf(head), u \in Nat, p < u
      PROVE  m + k <= From(u)
  <2>1. m < From(u)
    BY <1>c, <1>4, <1>6 DEF From
  <2>2. u # 0
    BY <1>4, <1>6
  <2> QED BY <1>2, <2>1, <2>2, EndsBefore
<1>7. CASE t \notin FreeOf(head)
  <2>1. m + k <= t + 2 * Word
    BY <1>t, <1>6, <1>7 DEF From
  <2> QED BY <1>c, <1>k, <1>t, <1>5, <2>1
<1>8. CASE t \in FreeOf(head) \ {top}
  <2>1. PICK s \in Nat : s = head[t].size /\ s % Word = 0 /\ s < nb /\ s >= MinChunk
    <3>1. head[t].size < nb
      BY <1>n, <1>8, NothingFits
    <3>2. head[t].size >= MinChunk /\ head[t].size \in Nat /\ head[t].size % Word = 0
      BY <1>8, <1>t, FiledFacts DEF HeapInv, HeldInv, Arena, Aligned
    <3> QED BY <3>1, <3>2
  <2>2. s + Word <= nb
    <3>1. (nb - s) % Word = 0
      BY <1>n, <1>c, <2>1, Multiples
    <3>2. nb - s >= Word
      BY <1>n, <1>c, <2>1, <3>1, LeastMultiple
    <3> QED BY <1>n, <1>c, <2>1, <3>2
  <2>3. PICK u \in ChunksOf(head) \ FreeOf(head) : u = t + s /\ u \in Nat /\ p < u
    <3>1. Tiled(head) /\ Tagged(head)
      BY DEF HeapInv, Arena
    <3>2. After(head, t) \in ChunksOf(head)
      BY <1>8, <1>t, OnlyTopIsLast
    <3>3. head[After(head, t)].cinuse
      BY <1>8, <1>t, <3>1, <3>2 DEF Tagged, FreeOf
    <3>4. After(head, t) = t + s
      BY <2>1 DEF After
    <3> QED BY <1>t, <1>4, <2>1, <3>2, <3>3, <3>4 DEF FreeOf
  <2>4. m + k <= t + s + 2 * Word
    BY <1>6, <2>3 DEF From
  <2>5. s + 1 <= n + Word
    BY <1>c, <1>n, <2>1, <2>2
  <2> QED BY <1>c, <1>k, <1>t, <1>5, <2>1, <2>4, <2>5
<1>9. CASE t = top
  <2>1. PICK s \in Nat : s = topsize /\ s <= nb /\ End = t + s
    <3>1. topsize <= nb /\ topsize \in Nat
      BY <1>n, NothingFits, FiledFacts
    <3>2. After(head, top) = End /\ topsize = head[top].size
      BY DEF HeapInv, Filed, TopInv
    <3> QED BY <1>9, <3>1, <3>2 DEF After
  <2>2. m + k <= t + s
    <3>1. m + n + Slack = m + k
      BY <1>c, <1>k DEF Slack
    <3> QED BY <2>1, <3>1
  <2>3. CASE s > MinChunk
    <3>1. s + 1 <= n + 2 * Word
      BY <1>c, <1>n, <2>1, <2>3
    <3> QED BY <1>c, <1>k, <1>t, <1>5, <2>1, <2>2, <3>1
  <2>4. CASE ~ s > MinChunk
    <3>1. p # 0 => head[p].size = ChunkSizeFor(asked[p])
      BY <1>4, <1>t, <1>9, <2>1, <2>4 DEF TopRoom, HeapInv, HeldInv
    <3>2. t + 2 * Word + 1 <= m + MinChunk
      BY <1>c, <1>t, <1>5, <3>1
    <3> QED BY <1>c, <1>k, <1>t, <2>1, <2>2, <2>4, <3>2
  <2> QED BY <2>3, <2>4
<1> QED BY <1>7, <1>8, <1>9

-----------------------------------------------------------------------------
(* Every step of the heap is one of HeapPromise, or leaves it alone. *)

\* The regions held, as HeapPromise sees a map f of the chunks in use.
Regions(f) == [m \in {p + 2 * Word : p \in DOMAIN f} |-> f[m - 2 * Word]]

\* The map and the regions have the same entries.
LEMMA RegionOf ==
    ASSUME NEW f, DOMAIN f \subseteq Nat
    PROVE  /\ Regions(f) \in [DOMAIN Regions(f) -> {f[p] : p \in DOMAIN f}]
           /\ DOMAIN Regions(f) = {From(p) : p \in DOMAIN f}
           /\ \A p \in DOMAIN f : Regions(f)[From(p)] = f[p]
<1> DEFINE D == {p + 2 * Word : p \in DOMAIN f}
<1>1. \A p \in DOMAIN f : From(p) \in D /\ From(p) - 2 * Word = p
  BY Constants DEF From
<1>2. \A m \in D : \E p \in DOMAIN f : m = From(p)
  BY DEF From
<1>3. \A p \in DOMAIN f : Regions(f)[From(p)] = f[p]
  BY <1>1 DEF Regions
<1>4. DOMAIN Regions(f) = D
  BY DEF Regions
<1>5. D = {From(p) : p \in DOMAIN f}
  BY DEF From
<1>6. \A m \in D : Regions(f)[m] \in {f[p] : p \in DOMAIN f}
  BY <1>2, <1>3
<1>7. Regions(f) = [m \in DOMAIN Regions(f) |-> Regions(f)[m]]
  BY DEF Regions
<1> QED BY <1>3, <1>4, <1>5, <1>6, <1>7

\* A chunk more is a region more.
LEMMA RegionMore ==
    ASSUME NEW f, DOMAIN f \subseteq Nat, NEW p \in Nat, NEW n
    PROVE  Regions(With(f, p, n)) = With(Regions(f), From(p), n)
<1> DEFINE g == With(f, p, n)
           r == With(Regions(f), From(p), n)
<1>1. /\ DOMAIN g = DOMAIN f \union {p} /\ DOMAIN g \subseteq Nat
      /\ g[p] = n /\ \A q \in DOMAIN f \ {p} : g[q] = f[q]
  BY DEF With
<1>2. \A q \in Nat : From(q) = From(p) => q = p
  BY Constants DEF From
<1>r. /\ DOMAIN r = DOMAIN Regions(f) \union {From(p)} /\ r[From(p)] = n
      /\ \A m \in DOMAIN Regions(f) : m # From(p) => r[m] = Regions(f)[m]
      /\ r = [m \in DOMAIN r |-> r[m]]
  BY DEF With
<1> HIDE DEF g, r
<1>3. /\ Regions(g) = [m \in DOMAIN Regions(g) |-> Regions(g)[m]]
      /\ DOMAIN Regions(g) = {From(q) : q \in DOMAIN g}
      /\ \A q \in DOMAIN g : Regions(g)[From(q)] = g[q]
  BY <1>1, RegionOf
<1>4. /\ DOMAIN Regions(f) = {From(q) : q \in DOMAIN f}
      /\ \A q \in DOMAIN f : Regions(f)[From(q)] = f[q]
  BY RegionOf
<1>5. DOMAIN Regions(g) = DOMAIN r
  BY <1>1, <1>3, <1>4, <1>r
<1>6. ASSUME NEW q \in DOMAIN g PROVE Regions(g)[From(q)] = r[From(q)]
  <2>1. Regions(g)[From(q)] = g[q] /\ From(q) \in DOMAIN r
    BY <1>3, <1>5
  <2>2. CASE q = p
    BY <1>1, <1>r, <2>1, <2>2
  <2>3. CASE q # p
    <3>1. q \in DOMAIN f /\ From(q) # From(p) /\ g[q] = f[q]
      BY <1>1, <1>2, <2>3
    <3> QED BY <1>4, <1>r, <2>1, <3>1
  <2> QED BY <2>2, <2>3
<1>7. \A m \in DOMAIN Regions(g) : Regions(g)[m] = r[m]
  BY <1>3, <1>6
<1> QED BY <1>3, <1>5, <1>7, <1>r DEF g, r

\* A chunk less is a region less.
LEMMA RegionLess ==
    ASSUME NEW f, DOMAIN f \subseteq Nat, NEW p \in DOMAIN f
    PROVE  Regions(Without(f, {p})) = Without(Regions(f), {From(p)})
<1> DEFINE g == Without(f, {p})
           r == Without(Regions(f), {From(p)})
<1>1. /\ DOMAIN g = DOMAIN f \ {p} /\ DOMAIN g \subseteq Nat
      /\ \A q \in DOMAIN g : g[q] = f[q]
  BY DEF Without
<1>2. \A q \in DOMAIN f : From(q) = From(p) => q = p
  BY Constants DEF From
<1>r. /\ DOMAIN r = DOMAIN Regions(f) \ {From(p)}
      /\ \A m \in DOMAIN r : r[m] = Regions(f)[m]
      /\ r = [m \in DOMAIN r |-> r[m]]
  BY DEF Without
<1> HIDE DEF g, r
<1>3. /\ Regions(g) = [m \in DOMAIN Regions(g) |-> Regions(g)[m]]
      /\ DOMAIN Regions(g) = {From(q) : q \in DOMAIN g}
      /\ \A q \in DOMAIN g : Regions(g)[From(q)] = g[q]
  BY <1>1, RegionOf
<1>4. /\ DOMAIN Regions(f) = {From(q) : q \in DOMAIN f}
      /\ \A q \in DOMAIN f : Regions(f)[From(q)] = f[q]
  BY RegionOf
<1>5. DOMAIN Regions(g) = DOMAIN r
  BY <1>1, <1>2, <1>3, <1>4, <1>r
<1>6. ASSUME NEW m \in DOMAIN Regions(g) PROVE Regions(g)[m] = r[m]
  <2>1. PICK q \in DOMAIN g : m = From(q)
    BY <1>3
  <2>2. q \in DOMAIN f /\ g[q] = f[q]
    BY <1>1
  <2>3. Regions(g)[m] = g[q] /\ Regions(f)[m] = f[q]
    BY <1>3, <1>4, <2>1, <2>2
  <2>4. r[m] = Regions(f)[m]
    BY <1>5, <1>r
  <2> QED BY <2>2, <2>3, <2>4
<1> QED BY <1>3, <1>5, <1>6, <1>r DEF g, r

\* The state HeapPromise sees.
LEMMA PromiseState ==
    ASSUME HeapInv
    PROVE  DOMAIN asked \subseteq Nat /\ Promise!HeldBytes = UserBytes
BY Apart, RegionsAre DEF RegionsApart

\* Chunk p, which was free, is handed out for n bytes.
LEMMA Handed ==
    ASSUME HeapInv, RegionsApart', NEW n \in Requests, NEW p, p \notin DOMAIN asked,
           asked' = With(asked, p, n), refused' = 0
    PROVE  Promise!Next
<1>1. /\ DOMAIN asked' = DOMAIN asked \union {p} /\ asked'[p] = n
      /\ \A q \in DOMAIN asked : asked'[q] = asked[q]
  BY DEF With
<1>2. /\ p \in Nat /\ n \in Nat /\ n > 0 /\ p % Word = 0 /\ StateSize <= p
      /\ From(p) + n <= End
      /\ \A q \in DOMAIN asked : p < q => From(p) + n <= From(q)
  BY <1>1 DEF RegionsApart, Upto
<1>3. \A q \in DOMAIN asked : /\ q \in Nat /\ asked[q] \in Nat
                              /\ q < p => Upto(q) <= From(p)
  BY <1>1 DEF RegionsApart, Upto
<1>c. Word \in Nat /\ Word >= 2 /\ StateSize \in Nat /\ End \in Nat
  BY Constants DEF End
<1>4. From(p) \in (StateSize + 2 * Word)..(End - 1)
  BY <1>2, <1>c DEF From
<1>5. From(p) % Word = 0
  <2>1. (p + Word) % Word = 0 /\ p + Word \in Int /\ Word % Word = 0 /\ Word > 0
    BY <1>2, <1>c, Multiples
  <2>2. ((p + Word) + Word) % Word = 0
    BY <1>c, <2>1, Multiples
  <2>3. From(p) = (p + Word) + Word
    BY <1>2, <1>c DEF From
  <2> QED BY <2>2, <2>3
<1>6. ASSUME NEW x \in From(p)..(From(p) + n - 1)
      PROVE  x \in (StateSize + 2 * Word)..(End - 1) /\ x \notin UserBytes
  <2>1. x \in Int /\ From(p) <= x /\ x < From(p) + n /\ From(p) \in Nat
    BY <1>2, <1>c DEF From
  <2>2. x \in (StateSize + 2 * Word)..(End - 1)
    BY <1>2, <1>4, <1>c, <2>1
  <2>3. ASSUME NEW q \in DOMAIN asked, x \in From(q)..(Upto(q) - 1) PROVE FALSE
    <3>1. /\ q \in Nat /\ asked[q] \in Nat /\ q # p
          /\ p < q => From(p) + n <= From(q)
          /\ q < p => Upto(q) <= From(p)
      BY <1>2, <1>3
    <3>2. From(q) <= x /\ x < Upto(q) /\ From(q) \in Nat /\ Upto(q) \in Nat
      BY <1>c, <2>3, <3>1 DEF From, Upto
    <3> QED BY <1>2, <2>1, <3>1, <3>2
  <2> QED BY <2>2, <2>3, RegionsAre
<1>7. Promise!Region(From(p), n) \subseteq
          ((StateSize + 2 * Word)..(End - 1)) \ Promise!HeldBytes
  BY <1>6, PromiseState DEF Promise!Region
<1>8. Regions(asked') = With(Regions(asked), From(p), n)
  BY <1>2, PromiseState, RegionMore
<1>9. Promise!Malloc(From(p), n)
  BY <1>5, <1>7, <1>8 DEF Promise!Malloc, Regions, With
<1> QED BY <1>4, <1>9 DEF Promise!Next

\* The region of chunk p is given back.
LEMMA Returned ==
    ASSUME HeapInv, NEW p \in DOMAIN asked,
           asked' = Without(asked, {p}), refused' = 0
    PROVE  Promise!Next
<1>1. DOMAIN asked \subseteq Nat
  BY PromiseState
<1>2. From(p) \in DOMAIN Regions(asked)
  BY <1>1, RegionOf
<1>3. Regions(asked') = Without(Regions(asked), {From(p)})
  BY <1>1, RegionLess
<1>4. Promise!Free(From(p))
  BY <1>2, <1>3 DEF Promise!Free, Regions, Without
<1> QED BY <1>2, <1>4 DEF Promise!Next, Regions

\* A request is refused.
LEMMA Refused ==
    ASSUME HeapInv, TopRoom, NEW n \in Requests, MallocFails(n)
    PROVE  Promise!Next
<1>c. /\ StateSize \in Nat /\ Word \in Nat /\ End \in Nat /\ MinChunk \in Nat
      /\ Word >= 2 /\ 2 * Word <= MinChunk /\ n \in Nat /\ n > 0
      /\ Slack \in Nat
  BY ChunkSizeIs, Constants DEF End, Slack
<1> DEFINE A == (StateSize + 2 * Word)..(End - 1)
<1>1. ASSUME NEW m \in A, Promise!Region(m, n + Slack) \subseteq A \ Promise!HeldBytes
      PROVE  FALSE
  <2>1. m \in Nat /\ StateSize + 2 * Word <= m
    BY <1>c
  <2>2. \A x \in m..(m + (n + Slack) - 1) : x \in A /\ x \notin UserBytes
    BY <1>1, PromiseState DEF Promise!Region
  <2>3. m + (n + Slack) - 1 \in m..(m + (n + Slack) - 1)
    BY <1>c, <2>1
  <2>4. m + n + Slack <= End
    BY <1>c, <2>1, <2>2, <2>3
  <2> QED BY <2>1, <2>2, <2>4, Refusal
<1>2. Promise!Refuse(n)
  BY <1>1 DEF Promise!Refuse, MallocFails
<1> QED BY <1>2 DEF Promise!Next

LEMMA PromiseStep ==
    HeapInv /\ TopRoom /\ RegionsApart' /\ [Next]_vars => [Promise!Next]_(Promise!vars)
<1> SUFFICES ASSUME HeapInv, TopRoom, RegionsApart', [Next]_vars
             PROVE  [Promise!Next]_(Promise!vars)
  OBVIOUS
<1>1. ASSUME NEW n \in Requests, Malloc(n) PROVE Promise!Next
  <2>1. CASE MallocFails(n)
    BY <2>1, Refused
  <2>2. CASE MallocTop(n)
    <3>1. top \notin DOMAIN asked
      BY FiledFacts DEF HeapInv, HeldInv
    <3>2. asked' = With(asked, top, n) /\ refused' = 0
      BY <2>2 DEF MallocTop
    <3> QED BY <3>1, <3>2, Handed
  <2>3. ASSUME NEW p \in FreeOf(head) \ {top}, Serves(p, n) PROVE Promise!Next
    <3>1. p \notin DOMAIN asked
      BY <2>3, ServedHeads
    <3>2. asked' = With(asked, p, n) /\ refused' = 0
      BY <2>3 DEF Serves
    <3> QED BY <3>1, <3>2, Handed
  <2> QED BY <1>1, <2>1, <2>2, <2>3, MallocServes
<1>2. ASSUME NEW p \in DOMAIN asked, Free(p) PROVE Promise!Next
  <2>1. asked' = Without(asked, {p}) /\ refused' = 0
    BY <1>2 DEF Free, FreeIntoDv, FreeIntoBin, FreeIntoTop, FreeBeforeDv,
       FreeBeforeBinned, Join
  <2> QED BY <2>1, Returned
<1>3. CASE UNCHANGED vars
  BY <1>3 DEF vars, Promise!vars
<1> QED BY <1>1, <1>2, <1>3 DEF Next

\* Whatever the callers ask for and give back, in whatever order, mspace_malloc
\* and mspace_free hand out aligned, disjoint regions of the arena, and refuse a
\* request only if no run of free bytes is longer than it by Slack.
THEOREM HeapKeepsPromise == Spec => ImplementsHeap
<1>1. Init => HeapInv /\ TopRoom
  <2>1. Init => TopRoom
    BY DEF Init, TopRoom
  <2> QED BY <2>1, InitHeap
<1>2. HeapInv /\ TopRoom /\ [Next]_vars => (HeapInv /\ TopRoom)'
  BY NextHeap, RoomKept
<1>3. Init => Promise!Init
  BY DEF Init, Promise!Init
<1>4. Spec => [](HeapInv /\ TopRoom)
  BY <1>1, <1>2, PTL DEF Spec
<1> QED BY <1>3, <1>4, Apart, PromiseStep, PTL DEF Spec, ImplementsHeap, Promise!Spec

=============================================================================
