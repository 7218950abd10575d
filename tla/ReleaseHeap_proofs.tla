------------------------- MODULE ReleaseHeap_proofs -------------------------
(***************************************************************************)
(* Nothing the driver allocates for a command is lost, freed twice or read *)
(* by the device after it is freed, for any number of threads, any heap,   *)
(* any release ring and any batch of releases.                             *)
(***************************************************************************)
EXTENDS ReleaseHeap, SequenceTheorems, TLAPS

-----------------------------------------------------------------------------
(* Chains of outputs. *)

Links == [Blocks -> Pointers]

\* A chain holds its first output and is closed under the links.
LEMMA ChainHolds ==
    ASSUME NEW link \in Links, NEW o \in Pointers
    PROVE  /\ ChainOf(link, o) \subseteq Blocks
           /\ o \in Blocks => o \in ChainOf(link, o)
           /\ Closed(link, ChainOf(link, o))
<1>1. ASSUME NEW b \in ChainOf(link, o), link[b] # None
      PROVE  link[b] \in ChainOf(link, o)
  <2>1. b \in Blocks /\ link[b] \in Blocks
    BY <1>1 DEF ChainOf, Links, Pointers
  <2>2. ASSUME NEW S \in SUBSET Blocks, Closed(link, S), o \in S \union {None}
        PROVE  link[b] \in S
    <3>1. b \in S
      BY <2>2 DEF ChainOf
    <3> QED BY <2>2, <3>1, <1>1 DEF Closed
  <2> QED BY <2>1, <2>2 DEF ChainOf
<1>2. o \in Blocks => o \in ChainOf(link, o)
  BY ReleaseHeapAssumption DEF ChainOf
<1> QED BY <1>1, <1>2 DEF ChainOf, Closed

\* It is the least set that does.
LEMMA ChainIsLeast ==
    ASSUME NEW link, NEW o, NEW S \in SUBSET Blocks,
           Closed(link, S), o \in S \union {None}
    PROVE  ChainOf(link, o) \subseteq S
BY DEF ChainOf

\* The null pointer starts no chain.
LEMMA EmptyChain ==
    ASSUME NEW link
    PROVE  ChainOf(link, None) = {}
<1>1. {} \in SUBSET Blocks /\ Closed(link, {}) /\ None \in {} \union {None}
  BY DEF Closed
<1> QED BY <1>1 DEF ChainOf

\* A chain is its first output and the chain that starts at the next one.
LEMMA ChainUnfolds ==
    ASSUME NEW link \in Links, NEW o \in Blocks
    PROVE  /\ link[o] \in Pointers
           /\ ChainOf(link, o) = {o} \union ChainOf(link, link[o])
<1> DEFINE rest == ChainOf(link, link[o])
<1>1. link[o] \in Pointers /\ o \in Pointers
  BY DEF Links, Pointers
<1>2. /\ rest \subseteq Blocks /\ Closed(link, rest)
      /\ link[o] \in rest \union {None}
  BY <1>1, ChainHolds DEF Pointers
<1>3. ChainOf(link, o) \subseteq {o} \union rest
  <2>1. Closed(link, {o} \union rest)
    BY <1>2 DEF Closed
  <2> QED BY <1>2, <2>1, ChainIsLeast
<1>4. /\ ChainOf(link, o) \subseteq Blocks /\ Closed(link, ChainOf(link, o))
      /\ o \in ChainOf(link, o)
  BY <1>1, ChainHolds
<1>5. rest \subseteq ChainOf(link, o)
  <2>1. link[o] \in ChainOf(link, o) \union {None}
    BY <1>4 DEF Closed
  <2> QED BY <1>4, <2>1, ChainIsLeast
<1> QED BY <1>1, <1>3, <1>4, <1>5

\* No output of the chain is reached again from the one after it.
Straight(link, o) ==
    \A b \in ChainOf(link, o) : b \notin ChainOf(link, link[b])

\* A chain whose links do not change stays what it is.
LEMMA ChainFrame ==
    ASSUME NEW link \in Links, NEW link2 \in Links, NEW o \in Pointers,
           \A b \in ChainOf(link, o) : link2[b] = link[b]
    PROVE  /\ ChainOf(link2, o) = ChainOf(link, o)
           /\ Straight(link, o) => Straight(link2, o)
<1>1. ASSUME NEW l \in Links, NEW m \in Links, NEW x \in Pointers,
             \A b \in ChainOf(l, x) : m[b] = l[b]
      PROVE  ChainOf(m, x) \subseteq ChainOf(l, x)
  <2>1. /\ ChainOf(l, x) \subseteq Blocks /\ Closed(l, ChainOf(l, x))
        /\ x \in ChainOf(l, x) \union {None}
    BY ChainHolds DEF Pointers
  <2>2. Closed(m, ChainOf(l, x))
    BY <1>1, <2>1 DEF Closed
  <2> QED BY <2>1, <2>2, ChainIsLeast
<1>2. ASSUME NEW x \in Pointers, \A b \in ChainOf(link, x) : link2[b] = link[b]
      PROVE  ChainOf(link2, x) = ChainOf(link, x)
  <2>1. ChainOf(link2, x) \subseteq ChainOf(link, x)
    BY <1>1, <1>2
  <2>2. \A b \in ChainOf(link2, x) : link[b] = link2[b]
    BY <1>2, <2>1
  <2>3. ChainOf(link, x) \subseteq ChainOf(link2, x)
    BY <1>1, <2>2
  <2> QED BY <2>1, <2>3
<1>3. ASSUME NEW b \in ChainOf(link, o)
      PROVE  /\ link2[b] = link[b]
             /\ ChainOf(link2, link[b]) = ChainOf(link, link[b])
  <2>1. /\ ChainOf(link, o) \subseteq Blocks
        /\ Closed(link, ChainOf(link, o))
    BY ChainHolds
  <2>2. b \in Blocks /\ link[b] \in ChainOf(link, o) \union {None}
    BY <2>1 DEF Closed
  <2>3. link[b] \in Pointers /\ ChainOf(link, link[b]) \subseteq ChainOf(link, o)
    BY <2>1, <2>2, ChainIsLeast DEF Links
  <2> QED BY <2>3, <1>2
<1> QED BY <1>2, <1>3 DEF Straight

\* Linking output o, of no chain so far, behind the last output of a straight
\* chain makes a straight chain with one more output.
LEMMA ChainAppend ==
    ASSUME NEW link \in Links, NEW link2 \in Links,
           NEW head \in Blocks, NEW last \in Blocks, NEW o \in Blocks,
           last \in ChainOf(link, head), link[last] = None,
           o \notin ChainOf(link, head),
           link2[last] = o, link2[o] = None,
           \A b \in ChainOf(link, head) : b # last => link2[b] = link[b]
    PROVE  /\ ChainOf(link2, head) = ChainOf(link, head) \union {o}
           /\ Straight(link, head) => Straight(link2, head)
<1> DEFINE old == ChainOf(link, head)
           new == ChainOf(link2, head)
<1>1. /\ head \in Pointers /\ o \in Pointers
      /\ old \subseteq Blocks /\ Closed(link, old) /\ head \in old
      /\ new \subseteq Blocks /\ Closed(link2, new) /\ head \in new
  BY ChainHolds DEF Pointers
\* Behind o nothing, elsewhere at most o more than before.
<1>2. ASSUME NEW x \in old
      PROVE  ChainOf(link2, x) \subseteq ChainOf(link, x) \union {o}
  <2>1. /\ x \in Pointers /\ x \in Blocks
        /\ ChainOf(link, x) \subseteq old
        /\ Closed(link, ChainOf(link, x)) /\ x \in ChainOf(link, x)
    BY <1>1, ChainIsLeast, ChainHolds DEF Pointers
  <2>2. Closed(link2, ChainOf(link, x) \union {o})
    BY <2>1 DEF Closed
  <2> QED BY <1>1, <2>1, <2>2, ChainIsLeast
<1>3. old \subseteq new
  <2> DEFINE common == {b \in old : b \in new}
  <2>1. Closed(link, common)
    <3> SUFFICES ASSUME NEW b \in common, link[b] # None PROVE link[b] \in common
      BY DEF Closed
    <3>1. b # last /\ link2[b] = link[b]
      BY DEF Closed
    <3> QED BY <1>1, <3>1 DEF Closed
  <2>2. old \subseteq common
    BY <1>1, <2>1, ChainIsLeast
  <2> QED BY <2>2
<1>4. o \in new
  BY <1>1, <1>3, ReleaseHeapAssumption DEF Closed
<1>5. new = old \union {o}
  BY <1>1, <1>2, <1>3, <1>4
<1>6. ASSUME Straight(link, head), NEW b \in new
      PROVE  b \notin ChainOf(link2, link2[b])
  <2>1. CASE b = o
    BY <2>1, EmptyChain
  <2>2. CASE b = last
    <3>1. ChainOf(link2, o) = {o} \union {}
      BY ChainUnfolds, EmptyChain
    <3> QED BY <2>2, <3>1
  <2>3. CASE b \in old /\ b # last /\ link[b] = None
    BY <2>3, EmptyChain
  <2>4. CASE b \in old /\ b # last /\ link[b] # None
    <3>1. link[b] \in old /\ link2[b] = link[b]
      BY <2>4, <1>1 DEF Closed
    <3>2. b \notin ChainOf(link, link[b])
      BY <2>4, <1>6 DEF Straight
    <3> QED BY <2>4, <3>1, <3>2, <1>2
  <2> QED BY <1>5, <2>1, <2>2, <2>3, <2>4
<1> QED BY <1>5, <1>6 DEF Straight

-----------------------------------------------------------------------------
(* The inductive invariant. *)

Allocating == {"lock", "flush", "pop", "malloc", "wait"}

\* m_MemLock is held from the flush to the allocation, and while it waits.
LockHeld ==
    /\ \A t \in Threads : memLock = t <=> pc[t] \in Allocating \ {"lock"}
    /\ \A t \in Threads : pc[t] = "flush" => cursor # None

\* What thread t holds at each point of building its command.
Shape(t) ==
    /\ pc[t] = "idle" =>
           stage[t] = "output" /\ out[t] = None /\ img[t] = None
    /\ pc[t] \in Allocating =>
           /\ stage[t] \in {"output", "config"} => out[t] = None /\ img[t] = None
           /\ stage[t] \in {"image", "chunk"} =>
                  out[t] # None /\ image[out[t]] = None
           /\ stage[t] = "image" => img[t] = None /\ plan[t] > 1
           /\ stage[t] = "chunk" =>
                  img[t] # None /\ refs[img[t]] = 1 /\ chunk[img[t]] = None
    /\ pc[t] = "add_res" =>
           /\ out[t] # None /\ image[out[t]] = None
           /\ img[t] # None /\ refs[img[t]] = 1
    /\ pc[t] = "release_res" =>
           /\ out[t] # None /\ image[out[t]] = img[t]
           /\ img[t] # None /\ refs[img[t]] = 2
    /\ pc[t] = "push" =>
           /\ out[t] # None /\ img[t] = None
           /\ image[out[t]] # None => refs[image[out[t]]] = 1

\* A pushed output holds the only reference to its image.
OneReference ==
    \A p \in Pushed : image[p] # None => refs[image[p]] = 1

\* The chain the device is collecting ends at hostTail.
HostChain ==
    /\ hostHead = None <=> hostTail = None
    /\ hostHead # None => hostTail \in Chain(hostHead) /\ next[hostTail] = None

\* The places of Places, one by one.
Index == 1..(3 + Len(releaseRing))
At(k) ==
    CASE k = 1 -> atHost
      [] k = 2 -> Chain(hostHead)
      [] k = 3 -> Chain(Leftover)
      [] OTHER -> Chain(releaseRing[k - 3])

Apart == \A j, k \in Index : j # k => At(j) \intersect At(k) = {}

\* No chain comes back to an output it has passed.
NoCycle ==
    /\ Straight(next, hostHead)
    /\ Straight(next, Leftover)
    /\ \A k \in 1..Len(releaseRing) : Straight(next, releaseRing[k])

\* Blocks A are allocated, each to one owner: a pushed output p of P has the
\* blocks cmd[p], a thread t has the blocks bld[t].
OneOwner(A, P, cmd, bld) ==
    /\ \A b \in Blocks :
           b \in A <=> \/ \E p \in P : b \in cmd[p]
                       \/ \E t \in Threads : b \in bld[t]
    /\ \A b \in Blocks, p, q \in P : b \in cmd[p] /\ b \in cmd[q] => p = q
    /\ \A b \in Blocks, p \in P, t \in Threads : ~ (b \in cmd[p] /\ b \in bld[t])
    /\ \A b \in Blocks, t, u \in Threads : b \in bld[t] /\ b \in bld[u] => t = u

Commands == [p \in Blocks |-> Command(p)]
Buildings == [t \in Threads |-> Building(t)]
Owners == OneOwner(allocated, Pushed, Commands, Buildings)

ControlInv == LockHeld /\ \A t \in Threads : Shape(t)
MemoryInv == OneReference /\ HostChain /\ Apart /\ NoCycle /\ Owners
HeapInv == TypeOK /\ ControlInv /\ MemoryInv

\* Every power cycle finds m_FreeOutputs null.
NothingLeftOver == [][powerCycles' # powerCycles => freeOutputs = None]_vars

-----------------------------------------------------------------------------
(* Places and owners. *)

LEMMA LeftoverType == TypeOK => Leftover \in Pointers
BY DEF TypeOK, Leftover

\* The places are those At enumerates.
LEMMA PlacesAre ==
    TypeOK => /\ DOMAIN Places = Index
              /\ \A k \in Index : Places[k] = At(k) /\ At(k) \subseteq Blocks
<1> SUFFICES ASSUME TypeOK
             PROVE  /\ DOMAIN Places = Index
                    /\ \A k \in Index : Places[k] = At(k) /\ At(k) \subseteq Blocks
  OBVIOUS
<1> DEFINE first == <<atHost, Chain(hostHead), Chain(Leftover)>>
           ring == [k \in 1..Len(releaseRing) |-> Chain(releaseRing[k])]
           n == Len(releaseRing)
<1>1. /\ next \in Links /\ hostHead \in Pointers /\ Leftover \in Pointers
      /\ releaseRing \in Seq(Blocks) /\ n \in Nat /\ atHost \subseteq Blocks
      /\ \A k \in 1..n : releaseRing[k] \in Blocks /\ releaseRing[k] \in Pointers
  BY LeftoverType DEF TypeOK, Links, Pointers
<1>2. /\ Chain(hostHead) \in SUBSET Blocks /\ Chain(Leftover) \in SUBSET Blocks
      /\ \A k \in 1..n : Chain(releaseRing[k]) \in SUBSET Blocks
  BY <1>1, ChainHolds DEF Chain
<1>3. first \in Seq(SUBSET Blocks) /\ Len(first) = 3
  BY <1>1, <1>2
<1>4. ring \in Seq(SUBSET Blocks) /\ Len(ring) = n
  BY <1>1, <1>2
<1>5. Places = first \o ring
  BY DEF Places
<1> HIDE DEF first, ring
<1>6. /\ Places \in Seq(SUBSET Blocks) /\ Len(Places) = 3 + n
      /\ \A k \in 1..(3 + n) : Places[k] = IF k <= 3 THEN first[k] ELSE ring[k - 3]
  <2>1. /\ first \o ring \in Seq(SUBSET Blocks)
        /\ Len(first \o ring) = Len(first) + Len(ring)
        /\ \A k \in 1..(Len(first) + Len(ring)) :
               (first \o ring)[k] = IF k <= Len(first) THEN first[k]
                                                    ELSE ring[k - Len(first)]
    <3>1. first \in Seq(SUBSET Blocks) /\ ring \in Seq(SUBSET Blocks)
      BY <1>3, <1>4
    <3> QED BY <3>1, ConcatProperties
  <2> QED BY <1>3, <1>4, <1>5, <2>1, Zenon
<1>7. DOMAIN Places = Index
  BY <1>6 DEF Index
<1>8. ASSUME NEW k \in Index
      PROVE  Places[k] = At(k) /\ At(k) \subseteq Blocks
  <2>1. k \in 1..(3 + n) /\ (k = 1 \/ k = 2 \/ k = 3 \/ (k > 3 /\ k - 3 \in 1..n))
    BY <1>1 DEF Index
  <2>2. CASE k = 1 \/ k = 2 \/ k = 3
    <3>1. Places[k] = first[k]
      BY <1>6, <2>1, <2>2
    <3> QED BY <1>1, <1>2, <2>2, <3>1 DEF At, first
  <2>3. CASE k > 3 /\ k - 3 \in 1..n
    <3>1. Places[k] = ring[k - 3]
      BY <1>6, <2>1, <2>3
    <3>2. ring[k - 3] = Chain(releaseRing[k - 3])
      BY <2>3 DEF ring
    <3> QED BY <1>1, <1>2, <2>3, <3>1, <3>2 DEF At
  <2> QED BY <2>1, <2>2, <2>3
<1> QED BY <1>7, <1>8

\* What is pushed is what the places hold.
LEMMA PushedIs ==
    TypeOK => /\ Pushed \subseteq Blocks
              /\ \A p : p \in Pushed <=> \E k \in Index : p \in At(k)
BY PlacesAre, Zenon DEF Pushed

\* Commands and the blocks of a thread are blocks of the heap; a command holds
\* its output and its image.
LEMMA CommandType ==
    TypeOK => /\ \A p \in Blocks : /\ Command(p) \subseteq Blocks
                                   /\ p \in Command(p)
                                   /\ image[p] # None => image[p] \in Command(p)
              /\ \A t \in Threads : Building(t) \subseteq Blocks
BY ReleaseHeapAssumption DEF TypeOK, Command, Building, ImageBlocks, Pointers

\* OneOwner says of the state what EveryBlockHasOneOwner says.
LEMMA OwnersAre == TypeOK => (Owners <=> EveryBlockHasOneOwner)
<1> SUFFICES ASSUME TypeOK PROVE Owners <=> EveryBlockHasOneOwner
  OBVIOUS
<1>1. /\ allocated \subseteq Blocks /\ Pushed \subseteq Blocks
      /\ \A p \in Pushed : Command(p) \subseteq Blocks
      /\ \A t \in Threads : Building(t) \subseteq Blocks
  <2>1. allocated \subseteq Blocks
    BY DEF TypeOK
  <2>2. Pushed \subseteq Blocks
    BY PushedIs
  <2>3. /\ \A p \in Blocks : Command(p) \subseteq Blocks
        /\ \A t \in Threads : Building(t) \subseteq Blocks
    BY CommandType
  <2> QED BY <2>1, <2>2, <2>3
<1>2. /\ \A p \in Pushed : Commands[p] = Command(p)
      /\ \A t \in Threads : Buildings[t] = Building(t)
  BY <1>1 DEF Commands, Buildings
<1> DEFINE owned == [p \in Pushed |-> Command(p)]
<1>3. \A p \in Pushed : owned[p] = Command(p)
  OBVIOUS
<1> HIDE DEF owned
<1>4. (allocated = (UNION {owned[p] : p \in Pushed})
                       \union (UNION {Building(t) : t \in Threads}))
        <=> \A b \in Blocks :
                b \in allocated <=> \/ \E p \in Pushed : b \in Command(p)
                                    \/ \E t \in Threads : b \in Building(t)
  <2> DEFINE all == (UNION {owned[p] : p \in Pushed})
                        \union (UNION {Building(t) : t \in Threads})
  <2>1. \A b : b \in all <=> \/ \E p \in Pushed : b \in Command(p)
                             \/ \E t \in Threads : b \in Building(t)
    BY <1>3
  <2>2. all \subseteq Blocks
    BY <1>1, <2>1
  <2> HIDE DEF all
  <2>3. allocated = all <=> \A b \in Blocks : b \in allocated <=> b \in all
    BY <1>1, <2>2
  <2> QED BY <2>1, <2>3 DEF all
<1>5. EveryBlockHasOneOwner <=>
        /\ \A b \in Blocks :
                b \in allocated <=> \/ \E p \in Pushed : b \in Command(p)
                                    \/ \E t \in Threads : b \in Building(t)
        /\ \A p, q \in Pushed : p # q => Command(p) \intersect Command(q) = {}
        /\ \A p \in Pushed, t \in Threads : Command(p) \intersect Building(t) = {}
        /\ \A t, u \in Threads : t # u => Building(t) \intersect Building(u) = {}
  BY <1>3, <1>4 DEF EveryBlockHasOneOwner, owned
<1>6. Owners <=>
        /\ \A b \in Blocks :
                b \in allocated <=> \/ \E p \in Pushed : b \in Command(p)
                                    \/ \E t \in Threads : b \in Building(t)
        /\ \A b \in Blocks, p, q \in Pushed :
                b \in Command(p) /\ b \in Command(q) => p = q
        /\ \A b \in Blocks, p \in Pushed, t \in Threads :
                ~ (b \in Command(p) /\ b \in Building(t))
        /\ \A b \in Blocks, t, u \in Threads :
                b \in Building(t) /\ b \in Building(u) => t = u
  BY <1>2 DEF Owners, OneOwner
<1>7. (\A p, q \in Pushed : p # q => Command(p) \intersect Command(q) = {})
        <=> \A b \in Blocks, p, q \in Pushed :
                b \in Command(p) /\ b \in Command(q) => p = q
  BY <1>1
<1>8. (\A p \in Pushed, t \in Threads : Command(p) \intersect Building(t) = {})
        <=> \A b \in Blocks, p \in Pushed, t \in Threads :
                ~ (b \in Command(p) /\ b \in Building(t))
  BY <1>1
<1>9. (\A t, u \in Threads : t # u => Building(t) \intersect Building(u) = {})
        <=> \A b \in Blocks, t, u \in Threads :
                b \in Building(t) /\ b \in Building(u) => t = u
  BY <1>1
<1> QED BY <1>5, <1>6, <1>7, <1>8, <1>9

\* A thread is given block b, which nobody had.
LEMMA OwnerGains ==
    ASSUME NEW A, NEW P, NEW cmd, NEW bld, NEW cmd2, NEW bld2,
           OneOwner(A, P, cmd, bld), NEW t \in Threads, NEW b \in Blocks,
           b \notin A,
           \A p \in P : cmd2[p] = cmd[p],
           bld2[t] = bld[t] \union {b},
           \A u \in Threads : u # t => bld2[u] = bld[u]
    PROVE  OneOwner(A \union {b}, P, cmd2, bld2)
BY DEF OneOwner

\* Thread t pushes output o: what it held is the command's.
LEMMA OwnerPushes ==
    ASSUME NEW A, NEW P, NEW cmd, NEW bld, NEW cmd2, NEW bld2,
           OneOwner(A, P, cmd, bld), NEW t \in Threads, NEW o, o \notin P,
           \A p \in P : cmd2[p] = cmd[p],
           cmd2[o] = bld[t], bld2[t] = {},
           \A u \in Threads : u # t => bld2[u] = bld[u]
    PROVE  OneOwner(A, P \union {o}, cmd2, bld2)
BY DEF OneOwner

\* Output o and what belongs to it are freed.
LEMMA OwnerFrees ==
    ASSUME NEW A, NEW P, NEW cmd, NEW bld, NEW cmd2, NEW bld2,
           OneOwner(A, P, cmd, bld), NEW o \in P,
           \A p \in P \ {o} : cmd2[p] = cmd[p],
           \A u \in Threads : bld2[u] = bld[u]
    PROVE  OneOwner(A \ cmd[o], P \ {o}, cmd2, bld2)
BY DEF OneOwner

\* Nobody's blocks change.
LEMMA OwnerKeeps ==
    ASSUME NEW A, NEW P, NEW cmd, NEW bld, NEW cmd2, NEW bld2,
           OneOwner(A, P, cmd, bld),
           \A p \in P : cmd2[p] = cmd[p],
           \A u \in Threads : bld2[u] = bld[u]
    PROVE  OneOwner(A, P, cmd2, bld2)
BY DEF OneOwner

\* What each owner has, block by block.
LEMMA OwnerFacts ==
    ASSUME TypeOK, Owners
    PROVE  /\ \A p \in Pushed : /\ p \in Blocks /\ p \in Command(p)
                                /\ Command(p) \subseteq allocated
                                /\ image[p] # None => image[p] \in Command(p)
           /\ \A t \in Threads : Building(t) \subseteq allocated
           /\ \A p, q \in Pushed, b \in Blocks :
                  b \in Command(p) /\ b \in Command(q) => p = q
           /\ \A p \in Pushed, t \in Threads, b \in Blocks :
                  ~ (b \in Command(p) /\ b \in Building(t))
           /\ \A t, u \in Threads, b \in Blocks :
                  b \in Building(t) /\ b \in Building(u) => t = u
<1>1. Pushed \subseteq Blocks
  BY PushedIs
<1>2. /\ \A p \in Blocks : /\ Command(p) \subseteq Blocks
                           /\ p \in Command(p)
                           /\ image[p] # None => image[p] \in Command(p)
      /\ \A t \in Threads : Building(t) \subseteq Blocks
  BY CommandType
<1>3. /\ \A p \in Pushed : Commands[p] = Command(p)
      /\ \A t \in Threads : Buildings[t] = Building(t)
  BY <1>1 DEF Commands, Buildings
<1>4. OneOwner(allocated, Pushed, Commands, Buildings)
  BY DEF Owners
<1>5. /\ \A p \in Pushed : \A b \in Command(p) : b \in allocated
      /\ \A t \in Threads : \A b \in Building(t) : b \in allocated
  BY <1>1, <1>2, <1>3, <1>4 DEF OneOwner
<1>6. /\ \A p, q \in Pushed, b \in Blocks :
             b \in Command(p) /\ b \in Command(q) => p = q
      /\ \A p \in Pushed, t \in Threads, b \in Blocks :
             ~ (b \in Command(p) /\ b \in Building(t))
      /\ \A t, u \in Threads, b \in Blocks :
             b \in Building(t) /\ b \in Building(u) => t = u
  BY <1>1, <1>3, <1>4 DEF OneOwner
<1> QED BY <1>1, <1>2, <1>5, <1>6

\* What a thread builds: its output, its image, the chunks of the images.
LEMMA BuildingFacts ==
    ASSUME TypeOK, NEW t \in Threads
    PROVE  /\ out[t] # None => out[t] \in Blocks /\ out[t] \in Building(t)
           /\ out[t] # None /\ image[out[t]] # None =>
                  image[out[t]] \in Blocks /\ image[out[t]] \in Building(t)
           /\ img[t] # None => img[t] \in Blocks /\ img[t] \in Building(t)
BY DEF TypeOK, Pointers, Building, Command, ImageBlocks

\* The shape of a thread whose blocks are left alone.
LEMMA ShapeKept ==
    ASSUME NEW u \in Threads, Shape(u),
           pc'[u] = pc[u], stage'[u] = stage[u], plan'[u] = plan[u],
           out'[u] = out[u], img'[u] = img[u],
           out[u] # None => image'[out[u]] = image[out[u]],
           out[u] # None /\ image[out[u]] # None =>
               refs'[image[out[u]]] = refs[image[out[u]]],
           img[u] # None => refs'[img[u]] = refs[img[u]] /\ chunk'[img[u]] = chunk[img[u]]
    PROVE  Shape(u)'
BY DEF Shape

-----------------------------------------------------------------------------
(* Steps that leave the device memory and the chains alone. *)

\* m_FreeOutputs is the chain left over while nobody flushes.
LEMMA NotFlushing ==
    ASSUME LockHeld, \A u \in Threads : pc[u] \in {"flush", "pop"} => memLock # u
    PROVE  Leftover = freeOutputs
BY DEF LockHeld, Leftover, Flushing, Allocating

memory == <<allocated, image, chunk, refs, next, atHost, hostHead, hostTail,
            releaseRing, out, img>>

LEMMA MemoryKept ==
    ASSUME MemoryInv, UNCHANGED memory, Leftover' = Leftover
    PROVE  MemoryInv'
<1> USE DEF memory
<1>1. /\ \A x : Chain(x)' = ChainOf(next, x)
      /\ \A x : Command(x)' = Command(x)
      /\ \A t : Building(t)' = Building(t)
  BY DEF Chain, Command, Building, ImageBlocks
<1>2. /\ Places' = Places /\ Pushed' = Pushed
      /\ Index' = Index
  BY DEF Places, Pushed, Index, Chain
<1>3. \A k : At(k)' = At(k)
  BY DEF At, Chain
<1>4. OneReference' /\ HostChain' /\ NoCycle'
  BY <1>2 DEF MemoryInv, OneReference, HostChain, NoCycle, Chain
<1>5. Apart'
  BY <1>2, <1>3 DEF MemoryInv, Apart
<1>6. Commands' = Commands /\ Buildings' = Buildings
  BY DEF Commands, Buildings, Command, Building, ImageBlocks
<1>7. Owners'
  BY <1>2, <1>6 DEF MemoryInv, Owners
<1> QED BY <1>4, <1>5, <1>7 DEF MemoryInv

\* The other threads keep their shape when the memory is left alone.
LEMMA ControlKept ==
    ASSUME ControlInv, NEW t \in Threads, UNCHANGED <<image, chunk, refs>>,
           \A u \in Threads \ {t} :
               /\ pc'[u] = pc[u] /\ stage'[u] = stage[u] /\ plan'[u] = plan[u]
               /\ out'[u] = out[u] /\ img'[u] = img[u],
           LockHeld', Shape(t)'
    PROVE  ControlInv'
<1>1. ASSUME NEW u \in Threads \ {t} PROVE Shape(u)'
  BY ShapeKept DEF ControlInv
<1> QED BY <1>1 DEF ControlInv

LEMMA QuietStep ==
    ASSUME HeapInv, NEW t \in Threads,
           \/ \E n \in 1..MaxPlan : Begin(t, n)
           \/ EnterAlloc(t) \/ EndFlush(t) \/ MallocConfig(t) \/ MallocRetry(t)
           \/ MallocWait(t) \/ NotifyOom(t) \/ EndWait(t)
    PROVE  HeapInv'
<1> USE DEF Goto, memory, memoryVars, threadVars, flushVars, hostVars
<1>0. TypeOK /\ LockHeld /\ Shape(t) /\ ControlInv /\ MemoryInv
  BY DEF HeapInv, ControlInv
<1>1. ASSUME TypeOK', ControlInv', UNCHANGED memory, Leftover' = Leftover
      PROVE  HeapInv'
  BY <1>0, <1>1, MemoryKept DEF HeapInv
<1>2. CASE \E n \in 1..MaxPlan : Begin(t, n)
  <2>1. TypeOK'
    BY <1>0, <1>2 DEF Begin, TypeOK, Locations
  <2>2. LockHeld'
    BY <1>0, <1>2 DEF Begin, LockHeld, TypeOK, Allocating
  <2>3. Shape(t)'
    BY <1>0, <1>2 DEF Begin, Shape, TypeOK, Allocating
  <2>4. ControlInv'
    BY <1>0, <1>2, <2>2, <2>3, ControlKept DEF Begin, TypeOK
  <2>5. Leftover' = Leftover
    BY <1>0, <1>2 DEF Begin, TypeOK, Leftover, Flushing
  <2> QED BY <1>1, <1>2, <2>1, <2>4, <2>5 DEF Begin
<1>3. ASSUME StartFlush(t), pc[t] \in Allocating,
             \A u \in Threads : memLock = u => u = t /\ pc[u] \notin {"flush", "pop"},
             memLock' = t,
             UNCHANGED <<memoryVars, stage, plan, out, img, releaseRing, atHost,
                         hostHead, hostTail, powerCycles>>,
             oom' \in BOOLEAN
      PROVE  HeapInv'
  <2>1. TypeOK'
    BY <1>0, <1>3, ReleaseHeapAssumption DEF StartFlush, TypeOK, Locations
  <2>2. LockHeld'
    BY <1>0, <1>3 DEF StartFlush, LockHeld, TypeOK, Allocating
  <2>3. Shape(t)'
    BY <1>0, <1>3 DEF StartFlush, Shape, TypeOK, Allocating
  <2>4. ControlInv'
    BY <1>0, <1>3, <2>2, <2>3, ControlKept DEF StartFlush, TypeOK
  <2>5. Leftover = freeOutputs
    BY <1>0, <1>3, NotFlushing
  <2>6. Leftover' = freeOutputs
    BY <1>0, <1>3 DEF StartFlush, TypeOK, Leftover, Flushing
  <2> QED BY <1>1, <1>3, <2>1, <2>4, <2>5, <2>6
<1>4. CASE EnterAlloc(t)
  BY <1>0, <1>3, <1>4, ReleaseHeapAssumption DEF EnterAlloc, TypeOK, Allocating
<1>5. CASE MallocRetry(t) \/ EndWait(t)
  <2>1. memLock = t
    BY <1>0, <1>5 DEF MallocRetry, EndWait, LockHeld, Allocating
  <2> QED BY <1>0, <1>3, <1>5, <2>1 DEF MallocRetry, EndWait, TypeOK, Allocating
<1>6. CASE EndFlush(t)
  <2>1. TypeOK'
    BY <1>0, <1>6, ReleaseHeapAssumption DEF EndFlush, TypeOK, Locations, Pointers
  <2>2. LockHeld'
    BY <1>0, <1>6 DEF EndFlush, LockHeld, TypeOK, Allocating
  <2>3. Shape(t)'
    BY <1>0, <1>6 DEF EndFlush, Shape, TypeOK, Allocating
  <2>4. ControlInv'
    BY <1>0, <1>6, <2>2, <2>3, ControlKept DEF EndFlush, TypeOK
  <2>5. memLock = t /\ Leftover = cursor
    BY <1>0, <1>6 DEF EndFlush, LockHeld, Leftover, Flushing, Allocating
  <2>6. \A u \in Threads : pc'[u] \notin {"flush", "pop"}
    BY <1>0, <1>6, <2>5 DEF EndFlush, LockHeld, TypeOK, Allocating
  <2>7. Leftover' = cursor
    BY <1>6, <2>6 DEF EndFlush, Leftover, Flushing
  <2> QED BY <1>1, <1>6, <2>1, <2>4, <2>5, <2>7 DEF EndFlush
<1>7. CASE MallocConfig(t)
  <2>1. pc' = [pc EXCEPT ![t] = "idle"] /\ stage' = [stage EXCEPT ![t] = "output"]
    BY <1>7 DEF MallocConfig, AfterAlloc
  <2>2. TypeOK'
    BY <1>0, <1>7, <2>1 DEF MallocConfig, TypeOK, Locations, Stages
  <2>3. LockHeld'
    BY <1>0, <1>7, <2>1, ReleaseHeapAssumption
       DEF MallocConfig, LockHeld, TypeOK, Allocating
  <2>4. Shape(t)'
    BY <1>0, <1>7, <2>1 DEF MallocConfig, Shape, TypeOK, Allocating
  <2>5. ControlInv'
    BY <1>0, <1>7, <2>1, <2>3, <2>4, ControlKept DEF MallocConfig, TypeOK
  <2>6. Leftover' = Leftover
    BY <1>0, <1>7, <2>1 DEF MallocConfig, TypeOK, Leftover, Flushing
  <2> QED BY <1>1, <1>7, <2>2, <2>5, <2>6 DEF MallocConfig
<1>8. CASE MallocWait(t) \/ NotifyOom(t)
  <2>1. TypeOK'
    BY <1>0, <1>8 DEF MallocWait, NotifyOom, TypeOK, Locations
  <2>2. LockHeld'
    BY <1>0, <1>8 DEF MallocWait, NotifyOom, LockHeld, TypeOK, Allocating
  <2>3. Shape(t)'
    BY <1>0, <1>8 DEF MallocWait, NotifyOom, Shape, TypeOK, Allocating
  <2>4. ControlInv'
    BY <1>0, <1>8, <2>2, <2>3, ControlKept DEF MallocWait, NotifyOom, TypeOK
  <2>5. Leftover' = Leftover
    BY <1>0, <1>8 DEF MallocWait, NotifyOom, TypeOK, Leftover, Flushing
  <2> QED BY <1>1, <1>8, <2>1, <2>4, <2>5 DEF MallocWait, NotifyOom
<1> QED BY <1>2, <1>4, <1>5, <1>6, <1>7, <1>8

-----------------------------------------------------------------------------
(* Steps that move outputs from one place to another. *)

LEMMA PushedIsNext ==
    ASSUME TypeOK'
    PROVE  /\ Pushed' \subseteq Blocks
           /\ \A p : p \in Pushed' <=> \E k \in Index' : p \in At(k)'
<1>1. (TypeOK => /\ Pushed \subseteq Blocks
                 /\ \A p : p \in Pushed <=> \E k \in Index : p \in At(k))'
  BY PushedIs, PTL
<1> QED BY <1>1

\* The places, as long as the types are right.
LEMMA AtFacts ==
    ASSUME TypeOK
    PROVE  /\ Len(releaseRing) \in Nat
           /\ \A k \in Index : At(k) \subseteq Blocks
           /\ At(1) = atHost /\ At(2) = Chain(hostHead) /\ At(3) = Chain(Leftover)
           /\ \A k \in 1..Len(releaseRing) :
                  /\ releaseRing[k] \in Blocks
                  /\ k + 3 \in Index /\ At(k + 3) = Chain(releaseRing[k])
           /\ \A k \in Index : k = 1 \/ k = 2 \/ k = 3 \/ k - 3 \in 1..Len(releaseRing)
<1>1. /\ Len(releaseRing) \in Nat
      /\ \A k \in 1..Len(releaseRing) : releaseRing[k] \in Blocks
  BY DEF TypeOK
<1>2. \A k \in Index : At(k) \subseteq Blocks
  BY PlacesAre
<1> QED BY <1>1, <1>2 DEF At, Index

\* Outputs that only change places keep their owner.
LEMMA OwnersMoved ==
    ASSUME MemoryInv, UNCHANGED <<allocated, image, chunk, refs, out, img>>,
           Pushed' = Pushed
    PROVE  OneReference' /\ Owners'
<1>1. Commands' = Commands /\ Buildings' = Buildings
  BY DEF Commands, Buildings, Command, Building, ImageBlocks
<1>2. OneReference'
  BY DEF MemoryInv, OneReference
<1> QED BY <1>1, <1>2 DEF MemoryInv, Owners

LEMMA PopChainStep ==
    ASSUME HeapInv, NEW t \in Threads, PopChain(t)
    PROVE  HeapInv'
<1> USE DEF Goto, memoryVars
<1>0. TypeOK /\ LockHeld /\ Shape(t) /\ ControlInv /\ MemoryInv
  BY DEF HeapInv, ControlInv
<1> DEFINE n == Len(releaseRing)
<1>1. /\ n \in Nat \ {0} /\ releaseRing' \in Seq(Blocks) /\ Len(releaseRing') = n - 1
      /\ Head(releaseRing) = releaseRing[1] /\ releaseRing[1] \in Blocks
      /\ \A k \in 1..(n - 1) : releaseRing'[k] = releaseRing[k + 1]
  <2>1. releaseRing \in Seq(Blocks) /\ releaseRing # <<>>
    BY <1>0 DEF PopChain, TypeOK
  <2>2. releaseRing' = Tail(releaseRing)
    BY DEF PopChain
  <2> QED BY <2>1, <2>2, HeadTailProperties, EmptySeq
<1>2. TypeOK'
  <2>1. releaseRing' \in Seq(Blocks) /\ Len(releaseRing') <= ReleaseRingSize
    BY <1>0, <1>1, ReleaseHeapAssumption DEF TypeOK
  <2>2. pc' \in [Threads -> Locations] /\ cursor' \in Pointers
    BY <1>0, <1>1 DEF PopChain, TypeOK, Locations, Pointers
  <2> QED BY <1>0, <2>1, <2>2 DEF PopChain, TypeOK
<1>3. LockHeld'
  BY <1>0, <1>1, ReleaseHeapAssumption DEF PopChain, LockHeld, TypeOK, Allocating
<1>4. Shape(t)'
  BY <1>0 DEF PopChain, Shape, TypeOK, Allocating
<1>5. ControlInv'
  BY <1>0, <1>3, <1>4, ControlKept DEF PopChain, TypeOK
<1>6. Leftover = None /\ Leftover' = releaseRing[1]
  BY <1>0, <1>1 DEF PopChain, TypeOK, Leftover, Flushing
<1>7. \A x : Chain(x)' = Chain(x)
  BY DEF PopChain, Chain
<1>8. /\ At(1)' = At(1) /\ At(2)' = At(2) /\ At(3) = {}
      /\ At(3)' = At(4) /\ 4 \in Index
      /\ Index' = 1..(n + 2)
      /\ \A k \in 4..(n + 2) : k \in Index' /\ At(k)' = At(k + 1) /\ k + 1 \in Index
      /\ \A k \in Index' : k = 1 \/ k = 2 \/ k = 3 \/ k \in 4..(n + 2)
      /\ \A k \in Index : k = 1 \/ k = 2 \/ k = 3 \/ k = 4 \/ k - 1 \in 4..(n + 2)
  <2>1. At(1)' = At(1) /\ At(2)' = At(2)
    BY <1>7 DEF At, PopChain, Chain
  <2>2. At(3) = {}
    BY <1>6, EmptyChain DEF At, Chain
  <2>3. At(3)' = At(4)
    BY <1>6, <1>7 DEF At
  <2>4. ASSUME NEW k \in 4..(n + 2) PROVE At(k)' = At(k + 1)
    <3>1. /\ releaseRing'[k - 3] = releaseRing[k + 1 - 3]
          /\ k > 3 /\ k + 1 > 3
      BY <1>1
    <3> QED BY <3>1, <1>7 DEF At
  <2>5. 4 \in Index /\ Index' = 1..(n + 2) /\ Index = 1..(n + 3)
    BY <1>1 DEF Index
  <2>6. \A k \in 4..(n + 2) : k \in Index' /\ k + 1 \in Index
    BY <1>1, <2>5
  <2>7. \A k \in Index' : k = 1 \/ k = 2 \/ k = 3 \/ k \in 4..(n + 2)
    BY <1>1, <2>5
  <2>8. \A k \in Index : k = 1 \/ k = 2 \/ k = 3 \/ k = 4 \/ k - 1 \in 4..(n + 2)
    BY <1>1, <2>5
  <2> QED BY <2>1, <2>2, <2>3, <2>4, <2>5, <2>6, <2>7, <2>8
<1>9. Pushed' = Pushed
  <2>0. 1 \in Index /\ 2 \in Index
    BY <1>1 DEF Index
  <2>1. ASSUME NEW k \in Index' PROVE \E j \in Index : At(k)' = At(j)
    <3>1. CASE k = 1 \/ k = 2
      BY <1>8, <2>0, <3>1
    <3>2. CASE k = 3
      BY <1>8, <3>2
    <3>3. CASE k \in 4..(n + 2)
      BY <1>8, <3>3
    <3> QED BY <1>8, <3>1, <3>2, <3>3
  <2>2. \A j \in Index : At(j) = {} \/ \E k \in Index' : At(k)' = At(j)
    <3> SUFFICES ASSUME NEW j \in Index
                 PROVE  At(j) = {} \/ \E k \in Index' : At(k)' = At(j)
      OBVIOUS
    <3>1. CASE j = 1 \/ j = 2 \/ j = 3
      BY <1>1, <1>8, <3>1
    <3>2. CASE j = 4
      BY <1>1, <1>8, <3>2
    <3>3. CASE j - 1 \in 4..(n + 2)
      <4>1. At(j - 1)' = At(j - 1 + 1) /\ j - 1 \in Index' /\ j - 1 + 1 = j
        BY <1>1, <1>8, <3>3 DEF Index
      <4> QED BY <4>1
    <3> QED BY <1>8, <3>1, <3>2, <3>3
  <2>3. \A p : p \in Pushed <=> p \in Pushed'
    BY <1>0, <1>2, <2>1, <2>2, PushedIs, PushedIsNext
  <2> QED BY <2>3
<1>10. Apart'
  <2> SUFFICES ASSUME NEW j \in Index', NEW k \in Index', j # k
               PROVE  At(j)' \intersect At(k)' = {}
    BY DEF Apart
  <2> DEFINE was(i) == IF i < 3 THEN i ELSE i + 1
  <2>1. \A i \in Index' : At(i)' = At(was(i)) /\ was(i) \in Index
    BY <1>1, <1>8 DEF Index
  <2>2. was(j) # was(k)
    BY <1>1 DEF Index
  <2> QED BY <1>0, <2>1, <2>2 DEF MemoryInv, Apart
<1>11. NoCycle'
  <2>1. /\ Straight(next, hostHead)
        /\ \A k \in 1..n : Straight(next, releaseRing[k])
    BY <1>0 DEF MemoryInv, NoCycle
  <2>2. next' = next /\ hostHead' = hostHead
    BY DEF PopChain
  <2> QED BY <1>1, <1>6, <2>1, <2>2 DEF NoCycle
<1>12. HostChain'
  BY <1>0, <1>7 DEF MemoryInv, HostChain, PopChain
<1>13. OneReference' /\ Owners'
  BY <1>0, <1>9, OwnersMoved DEF PopChain
<1> QED BY <1>2, <1>5, <1>10, <1>11, <1>12, <1>13 DEF HeapInv, MemoryInv

\* The device's steps leave the threads alone.
LEMMA HostLeavesThreads ==
    ASSUME ControlInv, UNCHANGED <<image, chunk, refs, threadVars, flushVars>>
    PROVE  ControlInv' /\ Leftover' = Leftover
<1> USE DEF threadVars, flushVars
<1>1. LockHeld'
  BY DEF ControlInv, LockHeld
<1>2. \A u \in Threads : Shape(u)'
  BY ShapeKept DEF ControlInv
<1>3. Leftover' = Leftover
  BY DEF Leftover, Flushing
<1> QED BY <1>1, <1>2, <1>3 DEF ControlInv

LEMMA HostReleaseStep ==
    ASSUME HeapInv, HostRelease
    PROVE  HeapInv'
<1> USE DEF memoryVars, threadVars, flushVars
<1>0. TypeOK /\ ControlInv /\ MemoryInv
  BY DEF HeapInv
<1> DEFINE n == Len(releaseRing)
<1>1. /\ n \in Nat /\ releaseRing' \in Seq(Blocks) /\ Len(releaseRing') = n + 1
      /\ \A k \in 1..n : releaseRing'[k] = releaseRing[k]
      /\ releaseRing'[n + 1] = hostHead
      /\ n + 1 <= ReleaseRingSize
  <2>1. releaseRing \in Seq(Blocks) /\ hostHead \in Blocks
    BY <1>0 DEF HostRelease, TypeOK, Pointers
  <2>2. releaseRing' = Append(releaseRing, hostHead)
    BY DEF HostRelease
  <2>3. n \in Nat /\ n < ReleaseRingSize
    BY <2>1 DEF HostRelease
  <2> QED BY <2>1, <2>2, <2>3, AppendProperties, ReleaseHeapAssumption
<1>last. PICK last \in Nat : last = n + 4
  BY <1>1
<1>2. TypeOK'
  <2>1. hostHead' \in Pointers /\ hostTail' \in Pointers /\ oom' \in BOOLEAN
    BY DEF HostRelease, Pointers
  <2> QED BY <1>0, <1>1, <2>1 DEF HostRelease, TypeOK
<1>3. ControlInv' /\ Leftover' = Leftover
  BY <1>0, HostLeavesThreads DEF HostRelease
<1>4. \A x : Chain(x)' = Chain(x)
  BY DEF HostRelease, Chain
<1>5. /\ At(1)' = At(1) /\ At(2)' = {} /\ At(3)' = At(3)
      /\ \A k \in 4..(n + 3) : k \in Index /\ At(k)' = At(k)
      /\ At(last)' = At(2)
      /\ 1 \in Index /\ 2 \in Index /\ 3 \in Index
      /\ \A k \in Index' : k = 1 \/ k = 2 \/ k = 3 \/ k \in 4..(n + 3) \/ k = last
      /\ \A k \in Index : k = 1 \/ k = 2 \/ k = 3 \/ k \in 4..(n + 3)
      /\ Index \subseteq Index' /\ last \in Index'
  <2>1. At(1)' = At(1) /\ At(3)' = At(3)
    BY <1>3, <1>4 DEF At, HostRelease
  <2>2. At(2)' = {}
    <3>1. hostHead' = None
      BY DEF HostRelease
    <3> QED BY <3>1, EmptyChain DEF At, Chain
  <2>3. ASSUME NEW k \in 4..(n + 3) PROVE At(k)' = At(k)
    <3>1. releaseRing'[k - 3] = releaseRing[k - 3] /\ k > 3
      BY <1>1
    <3> QED BY <3>1, <1>4 DEF At
  <2>4. At(last)' = At(2)
    <3>1. releaseRing'[last - 3] = hostHead /\ last \notin {1, 2, 3}
      BY <1>1, <1>last
    <3> QED BY <3>1, <1>4 DEF At
  <2> QED BY <1>1, <1>last, <2>1, <2>2, <2>3, <2>4 DEF Index
<1>6. Pushed' = Pushed
  <2>1. ASSUME NEW k \in Index'
        PROVE  At(k)' = {} \/ \E j \in Index : At(k)' = At(j)
    <3>1. CASE k \in 4..(n + 3)
      BY <1>5, <3>1
    <3> QED BY <1>5, <3>1
  <2>2. ASSUME NEW j \in Index PROVE \E k \in Index' : At(k)' = At(j)
    <3>1. CASE j \in 4..(n + 3)
      BY <1>5, <3>1
    <3> QED BY <1>5, <3>1
  <2>3. \A p : p \in Pushed <=> p \in Pushed'
    BY <1>0, <1>2, <2>1, <2>2, PushedIs, PushedIsNext
  <2> QED BY <2>3
<1>7. Apart'
  <2> SUFFICES ASSUME NEW j \in Index', NEW k \in Index', j # k
               PROVE  At(j)' \intersect At(k)' = {}
    BY DEF Apart
  <2> DEFINE was(i) == IF i = last THEN 2 ELSE i
  <2>1. ASSUME NEW i \in Index', i # 2
        PROVE  At(i)' = At(was(i)) /\ was(i) \in Index
    <3>1. CASE i \in 4..(n + 3)
      <4>1. i # last
        BY <1>last, <1>1, <3>1
      <4> QED BY <1>5, <3>1, <4>1
    <3>2. CASE i = 1 \/ i = 3
      <4>1. i # last
        BY <1>last, <1>1, <3>2
      <4> QED BY <1>5, <3>2, <4>1
    <3>3. CASE i = last
      BY <1>5, <3>3
    <3> QED BY <1>5, <2>1, <3>1, <3>2, <3>3
  <2>2. was(j) # was(k) \/ j = 2 \/ k = 2
    OBVIOUS
  <2> QED BY <1>0, <1>5, <2>1, <2>2 DEF MemoryInv, Apart
<1>8. NoCycle'
  <2>1. /\ Straight(next, hostHead) /\ Straight(next, Leftover)
        /\ \A k \in 1..n : Straight(next, releaseRing[k])
    BY <1>0 DEF MemoryInv, NoCycle
  <2>2. next' = next /\ hostHead' = None
    BY DEF HostRelease
  <2>3. Straight(next, None)
    BY EmptyChain DEF Straight
  <2>4. \A k \in 1..(n + 1) : Straight(next, releaseRing'[k])
    BY <1>1, <2>1
  <2> QED BY <1>1, <1>3, <2>1, <2>2, <2>3, <2>4 DEF NoCycle
<1>9. HostChain'
  BY DEF HostChain, HostRelease
<1>10. OneReference' /\ Owners'
  BY <1>0, <1>6, OwnersMoved DEF HostRelease
<1> QED BY <1>2, <1>3, <1>7, <1>8, <1>9, <1>10 DEF HeapInv, MemoryInv

LEMMA HostFinishStep ==
    ASSUME HeapInv, NEW o \in atHost, HostFinish(o)
    PROVE  HeapInv'
<1> USE DEF threadVars, flushVars
<1>0. TypeOK /\ ControlInv /\ MemoryInv
  BY DEF HeapInv
<1>1. /\ next \in Links /\ next' \in Links /\ o \in Blocks
      /\ hostHead \in Pointers /\ hostTail \in Pointers /\ Leftover \in Pointers
      /\ next'[o] = None
      /\ hostTail \in Blocks /\ hostTail # o => next'[hostTail] = o
      /\ \A b \in Blocks : b # o /\ b # hostTail => next'[b] = next[b]
  BY <1>0, LeftoverType DEF HostFinish, TypeOK, Links, Pointers
<1>2. TypeOK'
  BY <1>0, <1>1 DEF HostFinish, TypeOK, Links, Pointers
<1>3. ControlInv' /\ Leftover' = Leftover
  BY <1>0, HostLeavesThreads DEF HostFinish
<1>4. \A k \in Index : k # 1 => o \notin At(k)
  BY <1>0, AtFacts DEF MemoryInv, Apart, Index
<1>5. \A k \in Index : k # 2 => hostTail \notin At(k)
  <2>1. 2 \in Index /\ hostTail # None => hostTail \in At(2)
    BY <1>0, AtFacts DEF MemoryInv, HostChain, Index
  <2>2. hostTail = None => \A k \in Index : hostTail \notin At(k)
    BY <1>0, AtFacts, ReleaseHeapAssumption
  <2>3. 2 \in Index
    BY <1>0, AtFacts DEF Index
  <2> QED BY <1>0, <2>1, <2>2, <2>3 DEF MemoryInv, Apart
\* Only the device's own chain changes.
<1>6. ASSUME NEW k \in Index, k # 1, k # 2, NEW x \in Pointers, At(k) = Chain(x)
      PROVE  /\ Chain(x)' = Chain(x)
             /\ Straight(next, x) => Straight(next', x)
  <2>1. ChainOf(next, x) \subseteq Blocks
    BY <1>1, ChainHolds
  <2>2. \A b \in ChainOf(next, x) : next'[b] = next[b]
    BY <1>1, <1>4, <1>5, <1>6, <2>1 DEF Chain
  <2> QED BY <1>1, <2>2, ChainFrame DEF Chain
<1>7. /\ Chain(hostHead)' = Chain(hostHead) \union {o}
      /\ Straight(next', hostHead')
  <2>1. CASE hostHead = None
    <3>1. hostHead' = o
      BY <2>1 DEF HostFinish
    <3>2. ChainOf(next', o) = {o} /\ ChainOf(next, hostHead) = {}
      BY <1>1, <2>1, ChainUnfolds, EmptyChain
    <3>3. Straight(next', o)
      BY <1>1, <3>2, EmptyChain DEF Straight
    <3> QED BY <3>1, <3>2, <3>3 DEF Chain
  <2>2. CASE hostHead # None
    <3>1. /\ hostHead \in Blocks /\ hostTail \in Blocks
          /\ hostTail \in ChainOf(next, hostHead) /\ next[hostTail] = None
      BY <1>0, <1>1, <2>2 DEF MemoryInv, HostChain, Chain, Pointers
    <3>2. o \notin ChainOf(next, hostHead)
      BY <1>0, <1>4, AtFacts DEF Chain, Index
    <3>3. ChainOf(next, hostHead) \subseteq Blocks
      BY <1>1, ChainHolds
    <3>4. hostTail # o
      BY <3>1, <3>2
    <3>5. /\ ChainOf(next', hostHead) = ChainOf(next, hostHead) \union {o}
          /\ Straight(next, hostHead) => Straight(next', hostHead)
      BY <1>1, <3>1, <3>2, <3>3, <3>4, ChainAppend
    <3>6. hostHead' = hostHead
      BY <2>2 DEF HostFinish
    <3> QED BY <1>0, <3>5, <3>6 DEF MemoryInv, NoCycle, Chain
  <2> QED BY <2>1, <2>2
<1>8. /\ Index' = Index
      /\ 1 \in Index /\ 2 \in Index
      /\ At(1)' = At(1) \ {o} /\ o \in At(1)
      /\ At(2)' = At(2) \union {o}
      /\ \A k \in Index : k # 1 /\ k # 2 => At(k)' = At(k)
  <2>1. Index' = Index /\ releaseRing' = releaseRing
    BY DEF HostFinish, Index
  <2>2. 1 \in Index /\ 2 \in Index /\ 3 \in Index
    BY <1>0, AtFacts DEF Index
  <2>3. At(1)' = At(1) \ {o} /\ o \in At(1)
    BY DEF At, HostFinish
  <2>4. At(2)' = At(2) \union {o}
    BY <1>7 DEF At
  <2>5. At(3)' = At(3)
    <3>1. At(3) = Chain(Leftover)
      BY <1>0, AtFacts
    <3>2. Chain(Leftover)' = ChainOf(next', Leftover)
      BY <1>3 DEF Chain
    <3>3. Chain(Leftover)' = Chain(Leftover)
      BY <1>1, <1>6, <2>2, <3>1, <3>2 DEF Chain
    <3> QED BY <3>3 DEF At
  <2>6. ASSUME NEW k \in Index, k # 1, k # 2, k # 3 PROVE At(k)' = At(k)
    <3>1. k - 3 \in 1..Len(releaseRing) /\ k - 3 + 3 = k
      BY <1>0, <2>6, AtFacts DEF Index
    <3>2. At(k) = Chain(releaseRing[k - 3]) /\ releaseRing[k - 3] \in Pointers
      BY <1>0, <3>1, AtFacts DEF Pointers
    <3>3. ChainOf(next', releaseRing[k - 3]) = ChainOf(next, releaseRing[k - 3])
      BY <1>6, <2>6, <3>2 DEF Chain
    <3> QED BY <2>1, <2>6, <3>3 DEF At, Chain
  <2> QED BY <2>1, <2>2, <2>3, <2>4, <2>5, <2>6
<1>9. Pushed' = Pushed
  <2>1. \A p : (\E k \in Index : p \in At(k)) <=> \E k \in Index' : p \in At(k)'
    BY <1>8
  <2>2. \A p : p \in Pushed <=> p \in Pushed'
    BY <1>0, <1>2, <2>1, PushedIs, PushedIsNext
  <2> QED BY <2>2
<1>10. Apart'
  BY <1>0, <1>4, <1>8 DEF MemoryInv, Apart
<1>11. NoCycle'
  <2>1. Straight(next', Leftover')
    BY <1>0, <1>1, <1>3, <1>6, AtFacts DEF MemoryInv, NoCycle, Index
  <2>2. ASSUME NEW k \in 1..Len(releaseRing) PROVE Straight(next', releaseRing[k])
    <3>1. k + 3 \in Index /\ k + 3 # 1 /\ k + 3 # 2
      BY <1>0, AtFacts
    <3>2. releaseRing[k] \in Pointers /\ At(k + 3) = Chain(releaseRing[k])
      BY <1>0, AtFacts DEF Pointers
    <3> QED BY <1>0, <1>6, <3>1, <3>2 DEF MemoryInv, NoCycle
  <2>3. releaseRing' = releaseRing
    BY DEF HostFinish
  <2> QED BY <1>7, <2>1, <2>2, <2>3 DEF NoCycle
<1>12. HostChain'
  <2>1. hostTail' = o /\ o \in Chain(hostHead)' /\ o # None /\ hostHead' # None
    BY <1>1, <1>7, ReleaseHeapAssumption DEF HostFinish, Pointers
  <2> QED BY <1>1, <2>1 DEF HostChain
<1>13. OneReference' /\ Owners'
  BY <1>0, <1>9, OwnersMoved DEF HostFinish
<1> QED BY <1>2, <1>3, <1>10, <1>11, <1>12, <1>13 DEF HeapInv, MemoryInv

-----------------------------------------------------------------------------
(* Steps of a thread that builds and pushes a command. *)

\* The places stay what they are.
LEMMA PlacesKept ==
    ASSUME MemoryInv, UNCHANGED <<next, atHost, hostHead, hostTail, releaseRing>>,
           Leftover' = Leftover
    PROVE  Pushed' = Pushed /\ HostChain' /\ Apart' /\ NoCycle'
<1>1. Pushed' = Pushed /\ Index' = Index
  BY DEF Places, Pushed, Index, Chain
<1>2. \A k : At(k)' = At(k)
  BY DEF At, Chain
<1>3. HostChain' /\ NoCycle'
  BY DEF MemoryInv, HostChain, NoCycle, Chain
<1> QED BY <1>1, <1>2, <1>3 DEF MemoryInv, Apart

\* What the other threads hold is out of thread t's reach.
LEMMA OthersApart ==
    ASSUME TypeOK, Owners, NEW t \in Threads, NEW u \in Threads, u # t
    PROVE  /\ out[u] # None => out[u] \notin Building(t)
           /\ out[u] # None /\ image[out[u]] # None => image[out[u]] \notin Building(t)
           /\ img[u] # None => img[u] \notin Building(t)
BY OwnerFacts, BuildingFacts

\* And so is what is pushed.
LEMMA PushedApart ==
    ASSUME TypeOK, Owners, NEW t \in Threads, NEW p \in Pushed
    PROVE  /\ p \in Blocks /\ p \notin Building(t)
           /\ image[p] # None => image[p] \in Blocks /\ image[p] \notin Building(t)
<1>1. /\ p \in Blocks /\ p \in Command(p) /\ Command(p) \subseteq allocated
      /\ image[p] # None => image[p] \in Command(p)
      /\ \A b \in Blocks : ~ (b \in Command(p) /\ b \in Building(t))
  BY OwnerFacts
<1>2. allocated \subseteq Blocks
  BY DEF TypeOK
<1> QED BY <1>1, <1>2

\* The owners, from what a step does to the commands and to the threads.
LEMMA OwnersKept ==
    ASSUME TypeOK, Owners, allocated' = allocated, Pushed' = Pushed,
           \A p \in Pushed : Command(p)' = Command(p),
           \A u \in Threads : Building(u)' = Building(u)
    PROVE  Owners'
<1>1. Pushed \subseteq Blocks
  BY PushedIs
<1>2. /\ \A p \in Pushed : Commands'[p] = Commands[p]
      /\ \A u \in Threads : Buildings'[u] = Buildings[u]
  BY <1>1 DEF Commands, Buildings
<1> QED BY <1>2, OwnerKeeps DEF Owners

LEMMA AddResStep ==
    ASSUME HeapInv, NEW t \in Threads, AddRes(t)
    PROVE  HeapInv'
<1> USE DEF Goto, flushVars, hostVars
<1>0. TypeOK /\ LockHeld /\ Shape(t) /\ ControlInv /\ MemoryInv /\ Owners /\ OneReference
  BY DEF HeapInv, ControlInv, MemoryInv
<1> DEFINE o == out[t]
           i == img[t]
<1>1. /\ o \in Blocks /\ i \in Blocks /\ image[o] = None /\ refs[i] = 1
      /\ o \in Building(t) /\ i \in Building(t)
  BY <1>0, BuildingFacts DEF AddRes, Shape
<1>2. /\ refs' = [refs EXCEPT ![i] = 2]
      /\ image' = [image EXCEPT ![o] = i]
  BY <1>0, <1>1 DEF AddRes, TypeOK
<1>3. TypeOK'
  BY <1>0, <1>1, <1>2 DEF AddRes, TypeOK, Locations, Pointers
<1>4. ASSUME NEW u \in Threads, u # t PROVE Shape(u)'
  <2>1. /\ out[u] # None => image'[out[u]] = image[out[u]]
        /\ out[u] # None /\ image[out[u]] # None =>
               refs'[image[out[u]]] = refs[image[out[u]]]
        /\ img[u] # None => refs'[img[u]] = refs[img[u]]
    BY <1>0, <1>1, <1>2, <1>4, OthersApart DEF TypeOK, Pointers
  <2>2. Shape(u) /\ pc'[u] = pc[u]
    BY <1>0, <1>4 DEF ControlInv, AddRes, TypeOK
  <2> QED BY <2>1, <2>2, ShapeKept DEF AddRes
<1>5. Shape(t)'
  BY <1>0, <1>1, <1>2, ReleaseHeapAssumption DEF AddRes, Shape, TypeOK, Allocating
<1>6. ControlInv'
  <2>1. LockHeld'
    BY <1>0 DEF AddRes, LockHeld, TypeOK, Allocating
  <2> QED BY <1>4, <1>5, <2>1 DEF ControlInv
<1>7. Pushed' = Pushed /\ HostChain' /\ Apart' /\ NoCycle'
  <2>1. Leftover' = Leftover
    BY <1>0 DEF AddRes, TypeOK, Leftover, Flushing
  <2> QED BY <1>0, <2>1, PlacesKept DEF AddRes
<1>8. ASSUME NEW p \in Pushed
      PROVE  /\ image'[p] = image[p]
             /\ image[p] # None => refs'[image[p]] = refs[image[p]]
  BY <1>0, <1>1, <1>2, PushedApart DEF TypeOK
<1>9. OneReference'
  BY <1>0, <1>7, <1>8 DEF OneReference
<1>10. Owners'
  <2>1. \A p \in Pushed : Command(p)' = Command(p)
    BY <1>8 DEF Command, ImageBlocks, AddRes
  <2>2. Building(t)' = Building(t)
    BY <1>1, <1>2, <1>0, ReleaseHeapAssumption
       DEF Building, Command, ImageBlocks, AddRes, TypeOK
  <2>3. \A u \in Threads : u # t => Building(u)' = Building(u)
    BY <1>0, <1>1, <1>2, OthersApart DEF Building, Command, ImageBlocks, AddRes, TypeOK, Pointers
  <2> QED BY <1>0, <1>7, <2>1, <2>2, <2>3, OwnersKept DEF AddRes
<1> QED BY <1>3, <1>6, <1>7, <1>9, <1>10 DEF HeapInv, MemoryInv

LEMMA ReleaseResStep ==
    ASSUME HeapInv, NEW t \in Threads, ReleaseRes(t)
    PROVE  HeapInv'
<1> USE DEF Goto, flushVars, hostVars
<1>0. TypeOK /\ LockHeld /\ Shape(t) /\ ControlInv /\ MemoryInv /\ Owners /\ OneReference
  BY DEF HeapInv, ControlInv, MemoryInv
<1> DEFINE o == out[t]
           i == img[t]
<1>1. /\ o \in Blocks /\ i \in Blocks /\ image[o] = i /\ refs[i] = 2
      /\ o \in Building(t) /\ i \in Building(t)
  BY <1>0, BuildingFacts DEF ReleaseRes, Shape
\* The output holds a reference of its own, so nothing is freed.
<1>2. /\ allocated' = allocated /\ image' = image /\ chunk' = chunk /\ next' = next
      /\ refs' = [refs EXCEPT ![i] = 1]
  <2>1. Released(i) = {}
    BY <1>1 DEF Released
  <2> QED BY <1>0, <1>1, <2>1 DEF ReleaseRes, Free, TypeOK
<1>3. TypeOK'
  BY <1>0, <1>1, <1>2 DEF ReleaseRes, TypeOK, Locations, Pointers
<1>4. ASSUME NEW u \in Threads, u # t PROVE Shape(u)'
  <2>1. /\ out[u] # None /\ image[out[u]] # None =>
               refs'[image[out[u]]] = refs[image[out[u]]]
        /\ img[u] # None => refs'[img[u]] = refs[img[u]]
    BY <1>0, <1>1, <1>2, <1>4, OthersApart DEF TypeOK, Pointers
  <2>2. Shape(u) /\ pc'[u] = pc[u] /\ img'[u] = img[u]
    BY <1>0, <1>4 DEF ControlInv, ReleaseRes, TypeOK
  <2> QED BY <1>2, <2>1, <2>2, ShapeKept DEF ReleaseRes
<1>5. Shape(t)'
  BY <1>0, <1>1, <1>2, ReleaseHeapAssumption DEF ReleaseRes, Shape, TypeOK, Allocating
<1>6. ControlInv'
  <2>1. LockHeld'
    BY <1>0 DEF ReleaseRes, LockHeld, TypeOK, Allocating
  <2> QED BY <1>4, <1>5, <2>1 DEF ControlInv
<1>7. Pushed' = Pushed /\ HostChain' /\ Apart' /\ NoCycle'
  <2>1. Leftover' = Leftover
    BY <1>0 DEF ReleaseRes, TypeOK, Leftover, Flushing
  <2> QED BY <1>0, <1>2, <2>1, PlacesKept DEF ReleaseRes
<1>8. OneReference'
  <2>1. \A p \in Pushed : image[p] # None => refs'[image[p]] = refs[image[p]]
    BY <1>0, <1>1, <1>2, PushedApart DEF TypeOK
  <2> QED BY <1>0, <1>2, <1>7, <2>1 DEF OneReference
<1>9. Owners'
  <2>1. \A p \in Pushed : Command(p)' = Command(p)
    BY <1>2 DEF Command, ImageBlocks
  <2>2. Building(t)' = Building(t)
    BY <1>1, <1>2, <1>0, ReleaseHeapAssumption
       DEF Building, Command, ImageBlocks, ReleaseRes, TypeOK
  <2>3. \A u \in Threads : u # t => Building(u)' = Building(u)
    BY <1>0, <1>2 DEF Building, Command, ImageBlocks, ReleaseRes, TypeOK
  <2> QED BY <1>0, <1>2, <1>7, <2>1, <2>2, <2>3, OwnersKept
<1> QED BY <1>3, <1>6, <1>7, <1>8, <1>9 DEF HeapInv, MemoryInv

LEMMA PushStep ==
    ASSUME HeapInv, NEW t \in Threads, Push(t)
    PROVE  HeapInv'
<1> USE DEF Goto, memoryVars, flushVars
<1>0. TypeOK /\ LockHeld /\ Shape(t) /\ ControlInv /\ MemoryInv /\ Owners /\ OneReference
  BY DEF HeapInv, ControlInv, MemoryInv
<1> DEFINE o == out[t]
<1>1. /\ o \in Blocks /\ o \in Building(t) /\ img[t] = None
      /\ image[o] # None => refs[image[o]] = 1
  BY <1>0, BuildingFacts DEF Push, Shape
<1>2. TypeOK'
  BY <1>0, <1>1, ReleaseHeapAssumption DEF Push, TypeOK, Locations, Stages, Pointers
<1>3. ControlInv'
  <2>1. LockHeld'
    BY <1>0 DEF Push, LockHeld, TypeOK, Allocating
  <2>2. Shape(t)'
    BY <1>0, <1>1 DEF Push, Shape, TypeOK, Allocating
  <2> QED BY <1>0, <2>1, <2>2, ControlKept DEF Push, TypeOK
<1>4. Leftover' = Leftover
  BY <1>0 DEF Push, TypeOK, Leftover, Flushing
<1>5. o \notin Pushed
  BY <1>0, <1>1, PushedApart
<1>output. PICK p0 \in Blocks : p0 = o
  BY <1>1
<1>6. /\ Index' = Index /\ 1 \in Index
      /\ At(1)' = At(1) \union {p0}
      /\ \A k : k # 1 => At(k)' = At(k)
  <2>1. 1 \in Index
    BY <1>0, AtFacts DEF Index
  <2> QED BY <1>4, <1>output, <2>1 DEF At, Index, Chain, Push
<1>7. Pushed' = Pushed \union {p0}
  <2>1. \A p : p \in Pushed' <=> p \in Pushed \/ p = p0
    BY <1>0, <1>2, <1>6, PushedIs, PushedIsNext
  <2> QED BY <2>1
<1>8. Apart'
  <2>1. \A k \in Index : p0 \notin At(k)
    BY <1>0, <1>5, <1>output, PushedIs
  <2> QED BY <1>0, <1>6, <2>1 DEF MemoryInv, Apart
<1>9. HostChain' /\ NoCycle'
  BY <1>0, <1>4 DEF MemoryInv, HostChain, NoCycle, Chain, Push
<1>10. OneReference'
  BY <1>0, <1>1, <1>7, <1>output DEF OneReference, Push
<1>11. Owners'
  <2>1. Commands' = Commands
    BY DEF Commands, Command, ImageBlocks, Push
  <2>2. Commands[p0] = Building(t)
    BY <1>1, <1>output, ReleaseHeapAssumption, CommandType, <1>0 DEF Commands, Building
  <2>3. Building(t)' = {}
    BY <1>0, <1>1 DEF Building, Command, ImageBlocks, Push, TypeOK
  <2>4. \A u \in Threads : u # t => Building(u)' = Building(u)
    BY <1>0 DEF Building, Command, ImageBlocks, Push, TypeOK
  <2>5. /\ Commands'[p0] = Buildings[t] /\ Buildings'[t] = {}
        /\ \A u \in Threads : u # t => Buildings'[u] = Buildings[u]
    BY <2>1, <2>2, <2>3, <2>4 DEF Buildings
  <2>6. OneOwner(allocated, Pushed \union {p0}, Commands', Buildings')
    BY <1>0, <1>5, <1>output, <2>1, <2>5, OwnerPushes DEF Owners
  <2> QED BY <1>7, <2>6 DEF Owners, Push
<1> QED BY <1>2, <1>3, <1>8, <1>9, <1>10, <1>11 DEF HeapInv, MemoryInv

-----------------------------------------------------------------------------
(* Steps that allocate and free. *)

\* A chain among the places, as long as the links of its outputs stay.
LEMMA ChainStays ==
    ASSUME TypeOK, TypeOK', NEW k \in Index, NEW x \in Pointers, At(k) = Chain(x),
           \A p \in At(k) : next'[p] = next[p]
    PROVE  /\ ChainOf(next', x) = At(k)
           /\ Straight(next, x) => Straight(next', x)
<1>1. next \in Links /\ next' \in Links
  BY DEF TypeOK, Links, Pointers
<1> QED BY <1>1, ChainFrame DEF Chain

\* The places stay what they are when the links of the pushed outputs do.
LEMMA PlacesFramed ==
    ASSUME TypeOK, TypeOK', MemoryInv, Leftover' = Leftover,
           UNCHANGED <<atHost, hostHead, hostTail, releaseRing>>,
           \A p \in Pushed : next'[p] = next[p]
    PROVE  Pushed' = Pushed /\ HostChain' /\ Apart' /\ NoCycle'
<1>1. Index' = Index /\ 2 \in Index /\ 3 \in Index
  BY AtFacts DEF Index
<1>2. hostHead \in Pointers /\ Leftover \in Pointers
  BY LeftoverType DEF TypeOK
<1>3. \A k \in Index : \A p \in At(k) : next'[p] = next[p]
  BY PushedIs
<1>4. At(2) = Chain(hostHead) /\ At(3) = Chain(Leftover)
  BY AtFacts
<1>5. /\ ChainOf(next', hostHead) = At(2)
      /\ Straight(next, hostHead) => Straight(next', hostHead)
      /\ ChainOf(next', Leftover) = At(3)
      /\ Straight(next, Leftover) => Straight(next', Leftover)
  BY <1>1, <1>2, <1>3, <1>4, ChainStays
<1>6. ASSUME NEW k \in 1..Len(releaseRing)
      PROVE  /\ ChainOf(next', releaseRing[k]) = At(k + 3)
             /\ Straight(next, releaseRing[k]) => Straight(next', releaseRing[k])
  <2>1. /\ k + 3 \in Index /\ At(k + 3) = Chain(releaseRing[k])
        /\ releaseRing[k] \in Pointers
    BY AtFacts DEF Pointers
  <2> QED BY <1>3, <2>1, ChainStays
<1>7. ASSUME NEW k \in Index PROVE At(k)' = At(k)
  <2>1. CASE k = 1
    BY <2>1 DEF At
  <2>2. CASE k = 2
    BY <1>4, <1>5, <2>2 DEF At, Chain
  <2>3. CASE k = 3
    BY <1>4, <1>5, <2>3 DEF At, Chain
  <2>4. CASE k - 3 \in 1..Len(releaseRing)
    <3>1. k \notin {1, 2, 3} /\ k - 3 + 3 = k
      BY <2>4, AtFacts DEF Index
    <3>2. ChainOf(next', releaseRing[k - 3]) = At(k)
      BY <1>6, <2>4, <3>1
    <3> QED BY <3>1, <3>2 DEF At, Chain
  <2> QED BY <2>1, <2>2, <2>3, <2>4, AtFacts
<1>8. Pushed' = Pushed
  <2>1. \A p : p \in Pushed <=> p \in Pushed'
    BY <1>1, <1>7, PushedIs, PushedIsNext
  <2> QED BY <2>1
<1>9. Apart'
  BY <1>1, <1>7 DEF MemoryInv, Apart
<1>10. NoCycle'
  BY <1>5, <1>6 DEF MemoryInv, NoCycle
<1>11. HostChain'
  <2>1. hostHead # None => hostTail \in At(2) /\ hostTail \in Pushed
    BY <1>1, <1>4, PushedIs DEF MemoryInv, HostChain
  <2>2. Chain(hostHead)' = At(2)
    BY <1>5 DEF Chain
  <2> QED BY <2>1, <2>2 DEF MemoryInv, HostChain
<1> QED BY <1>8, <1>9, <1>10, <1>11

\* The block a thread is given becomes its output, its image or the image's
\* second chunk; the others do not notice.
LEMMA MallocMemory ==
    ASSUME HeapInv, NEW t \in Threads, NEW b \in Blocks, Malloc(t, b)
    PROVE  /\ allocated' = allocated \union {b}
           /\ Building(t)' = Building(t) \union {b}
           /\ \A x \in Blocks : x # b =>
                  /\ image'[x] = image[x] /\ refs'[x] = refs[x] /\ next'[x] = next[x]
                  /\ x \notin Building(t) => chunk'[x] = chunk[x]
           /\ image' \in [Blocks -> Pointers] /\ chunk' \in [Blocks -> Pointers]
           /\ refs' \in [Blocks -> 0..2] /\ next' \in [Blocks -> Pointers]
           /\ out' \in [Threads -> Pointers] /\ img' \in [Threads -> Pointers]
           /\ \A u \in Threads : u # t => out'[u] = out[u] /\ img'[u] = img[u]
<1>0. TypeOK /\ Shape(t)
  BY DEF HeapInv, ControlInv
<1>1. pc[t] = "malloc" /\ allocated' = allocated \union {b}
  BY DEF Malloc
<1> USE DEF TypeOK, Building, Command, ImageBlocks, Pointers
<1>2. CASE stage[t] = "output"
  <2>1. out[t] = None /\ img[t] = None
    BY <1>0, <1>1, <1>2 DEF Shape, Allocating
  <2>2. /\ out' = [out EXCEPT ![t] = b] /\ image' = [image EXCEPT ![b] = None]
        /\ next' = [next EXCEPT ![b] = b] /\ img' = img /\ chunk' = chunk /\ refs' = refs
    BY <1>2 DEF Malloc
  <2>3. Building(t)' = Building(t) \union {b}
    BY <1>0, <2>1, <2>2, ReleaseHeapAssumption
  <2>4. refs' \in [Blocks -> 0..2]
    BY <1>0, <2>2
  <2> HIDE DEF Building
  <2> QED BY <1>0, <1>1, <2>2, <2>3, <2>4
<1>3. CASE stage[t] = "image"
  <2>1. out[t] \in Blocks /\ image[out[t]] = None /\ img[t] = None
    BY <1>0, <1>1, <1>3 DEF Shape, Allocating
  <2>2. /\ img' = [img EXCEPT ![t] = b] /\ chunk' = [chunk EXCEPT ![b] = None]
        /\ refs' = [refs EXCEPT ![b] = 1] /\ out' = out /\ image' = image /\ next' = next
    BY <1>3 DEF Malloc
  <2>3. Building(t)' = Building(t) \union {b}
    BY <1>0, <2>1, <2>2, ReleaseHeapAssumption
  <2>4. refs' \in [Blocks -> 0..2]
    BY <1>0, <2>2
  <2> HIDE DEF Building
  <2> QED BY <1>0, <1>1, <2>2, <2>3, <2>4
<1>4. CASE stage[t] = "chunk"
  <2>1. /\ out[t] \in Blocks /\ image[out[t]] = None
        /\ img[t] \in Blocks /\ chunk[img[t]] = None
    BY <1>0, <1>1, <1>4 DEF Shape, Allocating
  <2>2. /\ chunk' = [chunk EXCEPT ![img[t]] = b]
        /\ out' = out /\ img' = img /\ image' = image /\ refs' = refs /\ next' = next
    BY <1>4 DEF Malloc
  <2>3. Building(t)' = Building(t) \union {b} /\ img[t] \in Building(t)
    BY <1>0, <2>1, <2>2, ReleaseHeapAssumption
  <2>4. chunk' \in [Blocks -> Pointers]
    BY <1>0, <2>1, <2>2
  <2>5. \A x \in Blocks : x \notin Building(t) => chunk'[x] = chunk[x]
    BY <1>0, <2>1, <2>2, <2>3
  <2> HIDE DEF Building
  <2> QED BY <1>0, <1>1, <2>2, <2>3, <2>4, <2>5
<1> QED BY <1>0, <1>2, <1>3, <1>4 DEF Malloc, Stages

\* Where the thread goes on, and what it holds there.
LEMMA MallocControl ==
    ASSUME TypeOK, NEW t \in Threads, Shape(t), NEW b \in Blocks, Malloc(t, b)
    PROVE  /\ Shape(t)'
           /\ pc' \in [Threads -> Locations] /\ stage' \in [Threads -> Stages]
           /\ pc'[t] \in {"lock", "push", "add_res"}
           /\ \A u \in Threads : u # t => pc'[u] = pc[u] /\ stage'[u] = stage[u]
<1> USE DEF Goto, Locations, Stages
<1>1. pc[t] = "malloc" /\ plan' = plan
  BY DEF Malloc
<1>2. plan[t] \in 1..3
  BY ReleaseHeapAssumption DEF TypeOK
<1>3. CASE stage[t] = "output"
  <2>1. out[t] = None /\ img[t] = None
    BY <1>1, <1>3 DEF Shape, Allocating
  <2>2. /\ out' = [out EXCEPT ![t] = b] /\ image' = [image EXCEPT ![b] = None]
        /\ img' = img
    BY <1>3 DEF Malloc
  <2>3. out'[t] = b /\ image'[b] = None /\ img'[t] = None /\ b # None
    BY <2>1, <2>2, ReleaseHeapAssumption DEF TypeOK
  <2>4. CASE plan[t] = 1
    <3>1. pc' = [pc EXCEPT ![t] = "push"] /\ stage' = stage
      BY <1>3, <2>4 DEF Malloc, AfterAlloc
    <3> QED BY <1>1, <1>3, <2>3, <3>1 DEF TypeOK, Shape, Allocating
  <2>5. CASE plan[t] > 1
    <3>1. AfterAlloc(t) /\ plan[t] # 1 /\ plan[t] > 1
      BY <1>2, <2>5 DEF Malloc
    <3>2. pc' = [pc EXCEPT ![t] = "lock"] /\ stage' = [stage EXCEPT ![t] = "image"]
      BY <1>3, <3>1 DEF AfterAlloc
    <3> QED BY <1>1, <1>3, <2>3, <2>5, <3>2 DEF TypeOK, Shape, Allocating
  <2> QED BY <1>2, <2>4, <2>5
<1>4. CASE stage[t] = "image"
  <2>1. out[t] # None /\ image[out[t]] = None /\ img[t] = None /\ plan[t] > 1
    BY <1>1, <1>4 DEF Shape, Allocating
  <2>2. /\ img' = [img EXCEPT ![t] = b] /\ chunk' = [chunk EXCEPT ![b] = None]
        /\ refs' = [refs EXCEPT ![b] = 1] /\ out' = out /\ image' = image
    BY <1>4 DEF Malloc
  <2>3. img'[t] = b /\ chunk'[b] = None /\ refs'[b] = 1 /\ b # None
    BY <2>2, ReleaseHeapAssumption DEF TypeOK
  <2>4. CASE plan[t] = 2
    <3>1. pc' = [pc EXCEPT ![t] = "add_res"] /\ stage' = stage
      BY <1>4, <2>4 DEF Malloc, AfterAlloc
    <3> QED BY <1>1, <1>4, <2>1, <2>2, <2>3, <3>1 DEF TypeOK, Shape, Allocating
  <2>5. CASE plan[t] = 3
    <3>1. pc' = [pc EXCEPT ![t] = "lock"] /\ stage' = [stage EXCEPT ![t] = "chunk"]
      BY <1>4, <2>5 DEF Malloc, AfterAlloc
    <3> QED BY <1>1, <1>4, <2>1, <2>2, <2>3, <3>1 DEF TypeOK, Shape, Allocating
  <2> QED BY <1>2, <2>1, <2>4, <2>5
<1>5. CASE stage[t] = "chunk"
  <2>1. /\ out[t] # None /\ image[out[t]] = None
        /\ img[t] # None /\ refs[img[t]] = 1
    BY <1>1, <1>5 DEF Shape, Allocating
  <2>2. out' = out /\ img' = img /\ image' = image /\ refs' = refs
    BY <1>5 DEF Malloc
  <2>3. pc' = [pc EXCEPT ![t] = "add_res"] /\ stage' = stage
    BY <1>5 DEF Malloc, AfterAlloc
  <2> QED BY <1>1, <1>5, <2>1, <2>2, <2>3 DEF TypeOK, Shape, Allocating
<1> QED BY <1>3, <1>4, <1>5 DEF Malloc, TypeOK

LEMMA MallocStep ==
    ASSUME HeapInv, NEW t \in Threads, NEW b \in Blocks, Malloc(t, b)
    PROVE  HeapInv'
<1> USE DEF flushVars, hostVars
<1>0. TypeOK /\ LockHeld /\ Shape(t) /\ ControlInv /\ MemoryInv /\ Owners /\ OneReference
  BY DEF HeapInv, ControlInv, MemoryInv
<1>1. /\ allocated' = allocated \union {b} /\ b \notin allocated
      /\ Building(t)' = Building(t) \union {b}
      /\ \A x \in Blocks : x # b =>
             /\ image'[x] = image[x] /\ refs'[x] = refs[x] /\ next'[x] = next[x]
             /\ x \notin Building(t) => chunk'[x] = chunk[x]
      /\ \A u \in Threads : u # t => out'[u] = out[u] /\ img'[u] = img[u]
  BY MallocMemory DEF Malloc
<1>2. /\ Shape(t)' /\ pc'[t] \in {"lock", "push", "add_res"}
      /\ \A u \in Threads : u # t => pc'[u] = pc[u] /\ stage'[u] = stage[u]
  BY <1>0, MallocControl
<1>3. TypeOK'
  <2>1. /\ image' \in [Blocks -> Pointers] /\ chunk' \in [Blocks -> Pointers]
        /\ refs' \in [Blocks -> 0..2] /\ next' \in [Blocks -> Pointers]
        /\ out' \in [Threads -> Pointers] /\ img' \in [Threads -> Pointers]
    BY MallocMemory
  <2>2. pc' \in [Threads -> Locations] /\ stage' \in [Threads -> Stages]
    BY <1>0, MallocControl
  <2>3. allocated' \subseteq Blocks /\ memLock' \in Threads \union {None}
    BY <1>0, <1>1 DEF Malloc, TypeOK
  <2> QED BY <1>0, <2>1, <2>2, <2>3 DEF Malloc, TypeOK
<1>4. ASSUME NEW u \in Threads
      PROVE  /\ Building(u) \subseteq allocated
             /\ out[u] # None => out[u] \in Blocks /\ out[u] # b
             /\ out[u] # None /\ image[out[u]] # None =>
                    image[out[u]] \in Blocks /\ image[out[u]] # b
             /\ img[u] # None => img[u] \in Blocks /\ img[u] # b
  BY <1>0, <1>1, OwnerFacts, BuildingFacts
<1>5. ASSUME NEW u \in Threads, u # t
      PROVE  /\ out[u] # None => image'[out[u]] = image[out[u]]
             /\ out[u] # None /\ image[out[u]] # None =>
                    /\ refs'[image[out[u]]] = refs[image[out[u]]]
                    /\ chunk'[image[out[u]]] = chunk[image[out[u]]]
             /\ img[u] # None => refs'[img[u]] = refs[img[u]] /\ chunk'[img[u]] = chunk[img[u]]
  <2>1. /\ out[u] # None /\ image[out[u]] # None => image[out[u]] \notin Building(t)
        /\ img[u] # None => img[u] \notin Building(t)
    BY <1>0, <1>5, OthersApart
  <2> QED BY <1>1, <1>4, <2>1
<1>6. ControlInv'
  <2>1. LockHeld'
    <3>1. memLock = t /\ memLock' = None /\ pc[t] = "malloc" /\ cursor' = cursor
      BY <1>0 DEF Malloc, LockHeld, Allocating
    <3> QED BY <1>0, <1>2, <3>1, ReleaseHeapAssumption DEF LockHeld, Allocating
  <2>2. ASSUME NEW u \in Threads, u # t PROVE Shape(u)'
    <3>1. plan' = plan /\ Shape(u)
      BY <1>0 DEF Malloc, ControlInv
    <3> QED BY <1>1, <1>2, <1>5, <2>2, <3>1, ShapeKept
  <2> QED BY <1>2, <2>1, <2>2 DEF ControlInv
<1>7. ASSUME NEW p \in Pushed
      PROVE  /\ p \in Blocks /\ p # b /\ image'[p] = image[p] /\ next'[p] = next[p]
             /\ image[p] # None =>
                    /\ refs'[image[p]] = refs[image[p]]
                    /\ chunk'[image[p]] = chunk[image[p]]
  <2>1. /\ p \in Blocks /\ p \in allocated
        /\ image[p] # None => image[p] \in allocated
    BY <1>0, OwnerFacts
  <2>2. image[p] # None => image[p] \in Blocks /\ image[p] \notin Building(t)
    BY <1>0, PushedApart
  <2> QED BY <1>1, <2>1, <2>2
<1>8. Pushed' = Pushed /\ HostChain' /\ Apart' /\ NoCycle'
  <2>1. Leftover' = Leftover
    <3>1. pc[t] = "malloc" /\ cursor' = cursor /\ freeOutputs' = freeOutputs
      BY DEF Malloc
    <3> QED BY <1>2, <3>1 DEF Leftover, Flushing
  <2> QED BY <1>0, <1>3, <1>7, <2>1, PlacesFramed DEF Malloc
<1>9. OneReference'
  BY <1>0, <1>7, <1>8 DEF OneReference
<1>10. Owners'
  <2>1. \A p \in Pushed : Command(p)' = Command(p)
    BY <1>7 DEF Command, ImageBlocks
  <2>2. \A u \in Threads : u # t => Building(u)' = Building(u)
    BY <1>1, <1>5 DEF Building, Command, ImageBlocks
  <2>3. /\ \A p \in Pushed : Commands'[p] = Commands[p]
        /\ Buildings'[t] = Buildings[t] \union {b}
        /\ \A u \in Threads : u # t => Buildings'[u] = Buildings[u]
    BY <1>1, <1>7, <2>1, <2>2 DEF Commands, Buildings
  <2>4. OneOwner(allocated \union {b}, Pushed, Commands', Buildings')
    BY <1>0, <1>1, <2>3, OwnerGains DEF Owners
  <2> QED BY <1>1, <1>8, <2>4 DEF Owners
<1> QED BY <1>3, <1>6, <1>8, <1>9, <1>10 DEF HeapInv, MemoryInv

LEMMA ReleaseOutputStep ==
    ASSUME HeapInv, NEW t \in Threads, ReleaseOutput(t)
    PROVE  HeapInv'
<1> USE DEF hostVars
<1>0. TypeOK /\ LockHeld /\ Shape(t) /\ ControlInv /\ MemoryInv /\ Owners /\ OneReference
  BY DEF HeapInv, ControlInv, MemoryInv
<1>1. PICK o \in Blocks : o = cursor
  BY <1>0 DEF ReleaseOutput, LockHeld, TypeOK, Pointers
<1>2. /\ 3 \in Index /\ 2 \in Index /\ 1 \in Index
      /\ At(3) = ChainOf(next, o) /\ Leftover = o /\ o \in At(3) /\ o \in Pushed
  <2>1. Leftover = o
    BY <1>1 DEF ReleaseOutput, Leftover, Flushing
  <2>2. 3 \in Index /\ 2 \in Index /\ 1 \in Index /\ At(3) = ChainOf(next, o)
    BY <1>0, <2>1, AtFacts DEF Index, Chain
  <2>3. o \in ChainOf(next, o)
    BY <1>0, ChainHolds DEF TypeOK, Links, Pointers
  <2> QED BY <1>0, <2>1, <2>2, <2>3, PushedIs
<1>3. PICK rest \in Pointers : rest = next[o]
  BY <1>0 DEF TypeOK
<1> DEFINE i == image[o]
           freed == {o} \union Released(i)
\* The output holds the only reference to its image: all its blocks are freed.
<1>4. PICK F \in SUBSET Blocks : F = freed
  <2>1. freed \subseteq Blocks
    BY <1>0 DEF TypeOK, Released, ImageBlocks, Pointers
  <2> QED BY <2>1
<1>5. /\ F = Command(o) /\ o \in F
      /\ i # None => i \in F /\ refs[i] = 1
  BY <1>0, <1>2, <1>4, ReleaseHeapAssumption
     DEF OneReference, Command, Released, ImageBlocks
<1>6. /\ allocated' = allocated \ F
      /\ image' = [b \in Blocks |-> IF b \in F THEN None ELSE image[b]]
      /\ chunk' = [b \in Blocks |-> IF b \in F THEN None ELSE chunk[b]]
      /\ next' = [b \in Blocks |-> IF b \in F THEN None ELSE next[b]]
      /\ refs' = IF i = None THEN refs ELSE [refs EXCEPT ![i] = @ - 1]
      /\ cursor' = rest /\ freeOutputs' = freeOutputs
      /\ pc' = [pc EXCEPT ![t] = IF rest = None \/ BudgetLeft = 0 THEN "pop" ELSE "flush"]
  BY <1>1, <1>3, <1>4 DEF ReleaseOutput, Free, Goto
<1>7. \A b \in Blocks : b \notin F =>
          image'[b] = image[b] /\ chunk'[b] = chunk[b] /\ next'[b] = next[b]
                               /\ refs'[b] = refs[b]
  BY <1>0, <1>5, <1>6 DEF TypeOK
<1>8. TypeOK'
  <2>1. /\ image' \in [Blocks -> Pointers] /\ chunk' \in [Blocks -> Pointers]
        /\ next' \in [Blocks -> Pointers]
    BY <1>0, <1>6 DEF TypeOK, Pointers
  <2>2. refs' \in [Blocks -> 0..2]
    BY <1>0, <1>5, <1>6 DEF TypeOK
  <2>3. pc' \in [Threads -> Locations] /\ cursor' \in Pointers
    BY <1>0, <1>6 DEF TypeOK, Locations
  <2>4. budget' \in -1..ReleaseBatch
    BY <1>0, ReleaseHeapAssumption DEF ReleaseOutput, BudgetLeft, TypeOK
  <2>5. allocated' \subseteq Blocks
    BY <1>0, <1>6 DEF TypeOK
  <2> QED BY <1>0, <1>6, <2>1, <2>2, <2>3, <2>4, <2>5 DEF ReleaseOutput, TypeOK
<1>9. /\ \A u \in Threads, b \in Blocks : b \in Building(u) => b \notin F
      /\ \A p \in Pushed, b \in Blocks : p # o /\ b \in Command(p) => b \notin F
  BY <1>0, <1>2, <1>5, OwnerFacts
<1>10. ASSUME NEW u \in Threads
       PROVE  /\ out[u] # None => image'[out[u]] = image[out[u]]
              /\ out[u] # None /\ image[out[u]] # None =>
                     /\ refs'[image[out[u]]] = refs[image[out[u]]]
                     /\ chunk'[image[out[u]]] = chunk[image[out[u]]]
              /\ img[u] # None => refs'[img[u]] = refs[img[u]] /\ chunk'[img[u]] = chunk[img[u]]
  BY <1>0, <1>7, <1>9, BuildingFacts
<1>11. ControlInv'
  <2>1. LockHeld'
    BY <1>0, <1>6 DEF ReleaseOutput, LockHeld, TypeOK, Allocating
  <2>2. ASSUME NEW u \in Threads, u # t PROVE Shape(u)'
    <3>1. Shape(u) /\ pc'[u] = pc[u]
      BY <1>0, <1>6, <2>2 DEF ControlInv, TypeOK
    <3> QED BY <1>10, <3>1, ShapeKept DEF ReleaseOutput
  <2>3. Shape(t)'
    <3>1. pc[t] = "flush" /\ pc'[t] \in {"pop", "flush"}
      BY <1>0, <1>6 DEF ReleaseOutput, TypeOK
    <3>2. UNCHANGED <<stage, plan, out, img>>
      BY DEF ReleaseOutput
    <3> QED BY <1>0, <1>10, <3>1, <3>2 DEF Shape, Allocating
  <2> QED BY <2>1, <2>2, <2>3 DEF ControlInv
\* The chain loses its first output, the other places nothing.
<1>12. Leftover' = rest
  BY <1>0, <1>6 DEF ReleaseOutput, TypeOK, Leftover, Flushing
<1>13. \A p \in Pushed : p # o =>
           p \in Blocks /\ p \notin F /\ image'[p] = image[p] /\ next'[p] = next[p]
  BY <1>0, <1>7, <1>9, OwnerFacts
<1>14. /\ At(3) = {o} \union ChainOf(next, rest)
       /\ o \notin ChainOf(next, rest)
       /\ Straight(next, rest)
  <2>1. At(3) = {o} \union ChainOf(next, rest)
    BY <1>0, <1>2, <1>3, ChainUnfolds DEF TypeOK, Links
  <2>2. Straight(next, o)
    BY <1>0, <1>2 DEF MemoryInv, NoCycle
  <2> QED BY <1>2, <1>3, <2>1, <2>2 DEF Straight
<1>15. /\ ChainOf(next', rest) = At(3) \ {o}
       /\ Straight(next', rest)
  <2>1. \A p \in ChainOf(next, rest) : next'[p] = next[p]
    BY <1>0, <1>2, <1>13, <1>14, PushedIs
  <2>2. next \in Links /\ next' \in Links
    BY <1>0, <1>8 DEF TypeOK, Links
  <2> QED BY <1>14, <2>1, <2>2, ChainFrame
<1>16. ASSUME NEW k \in Index, k # 3, NEW x \in Pointers, At(k) = Chain(x)
       PROVE  /\ ChainOf(next', x) = At(k)
              /\ Straight(next, x) => Straight(next', x)
  <2>1. o \notin At(k)
    BY <1>0, <1>2, <1>16 DEF MemoryInv, Apart
  <2>2. \A p \in At(k) : next'[p] = next[p]
    BY <1>0, <1>13, <2>1, PushedIs
  <2> QED BY <1>0, <1>8, <1>16, <2>2, ChainStays
<1>17. /\ At(2) = Chain(hostHead) /\ hostHead \in Pointers
       /\ ChainOf(next', hostHead) = At(2)
       /\ Straight(next, hostHead) => Straight(next', hostHead)
  <2>1. At(2) = Chain(hostHead) /\ hostHead \in Pointers
    BY <1>0, AtFacts DEF TypeOK
  <2> QED BY <1>2, <1>16, <2>1
<1>18. ASSUME NEW k \in 1..Len(releaseRing)
       PROVE  /\ ChainOf(next', releaseRing[k]) = At(k + 3)
              /\ Straight(next, releaseRing[k]) => Straight(next', releaseRing[k])
  <2>1. /\ k + 3 \in Index /\ At(k + 3) = Chain(releaseRing[k]) /\ k + 3 # 3
        /\ releaseRing[k] \in Pointers
    BY <1>0, AtFacts DEF Pointers
  <2> QED BY <1>16, <2>1
<1>19. /\ Index' = Index /\ At(3)' = At(3) \ {o}
       /\ \A k \in Index : k # 3 => At(k)' = At(k)
  <2>1. Index' = Index /\ UNCHANGED <<releaseRing, atHost, hostHead>>
    BY DEF Index, ReleaseOutput
  <2>2. At(3)' = At(3) \ {o}
    BY <1>12, <1>15 DEF At, Chain
  <2>3. ASSUME NEW k \in Index, k # 3 PROVE At(k)' = At(k)
    <3>1. CASE k = 1
      BY <2>1, <3>1 DEF At
    <3>2. CASE k = 2
      BY <1>17, <2>1, <3>2 DEF At, Chain
    <3>3. CASE k - 3 \in 1..Len(releaseRing)
      <4>1. k \notin {1, 2, 3} /\ k - 3 + 3 = k
        BY <1>0, <3>3, AtFacts DEF Index
      <4>2. ChainOf(next', releaseRing[k - 3]) = At(k)
        BY <1>18, <3>3, <4>1
      <4> QED BY <2>1, <4>1, <4>2 DEF At, Chain
    <3> QED BY <1>0, <2>3, <3>1, <3>2, <3>3, AtFacts
  <2> QED BY <2>1, <2>2, <2>3
<1>20. Pushed' = Pushed \ {o}
  <2>1. \A k \in Index : k # 3 => o \notin At(k)
    BY <1>0, <1>2 DEF MemoryInv, Apart
  <2>2. \A p : p \in Pushed' <=> p \in Pushed /\ p # o
    BY <1>0, <1>2, <1>8, <1>19, <2>1, PushedIs, PushedIsNext
  <2> QED BY <2>2
<1>21. Apart'
  BY <1>0, <1>19 DEF MemoryInv, Apart
<1>22. NoCycle'
  <2>1. UNCHANGED <<releaseRing, hostHead>>
    BY DEF ReleaseOutput
  <2> QED BY <1>0, <1>12, <1>15, <1>17, <1>18, <2>1 DEF MemoryInv, NoCycle
<1>23. HostChain'
  <2>1. hostHead # None => hostTail \in At(2) /\ hostTail \in Pushed /\ hostTail # o
    BY <1>0, <1>2, <1>17, PushedIs DEF MemoryInv, HostChain, Apart
  <2>2. UNCHANGED <<hostHead, hostTail>> /\ Chain(hostHead)' = At(2)
    BY <1>17 DEF ReleaseOutput, Chain
  <2> QED BY <1>0, <1>13, <2>1, <2>2 DEF MemoryInv, HostChain
<1>24. ASSUME NEW p \in Pushed, p # o
       PROVE  image[p] # None => /\ image[p] \in Blocks /\ image[p] \notin F
                                 /\ refs'[image[p]] = refs[image[p]]
                                 /\ chunk'[image[p]] = chunk[image[p]]
  <2>1. p \in Blocks
    BY <1>13, <1>24
  <2>2. image[p] # None => image[p] \in Blocks /\ image[p] \in Command(p)
    BY <1>0, <2>1, CommandType DEF TypeOK, Pointers
  <2> QED BY <1>7, <1>9, <1>24, <2>2
<1>25. OneReference'
  BY <1>0, <1>13, <1>20, <1>24 DEF OneReference
<1>26. Owners'
  <2>1. \A p \in Pushed : p # o => Command(p)' = Command(p)
    BY <1>13, <1>24 DEF Command, ImageBlocks
  <2>2. \A u \in Threads : Building(u)' = Building(u)
    <3>1. UNCHANGED <<out, img>>
      BY DEF ReleaseOutput
    <3> QED BY <1>10, <3>1 DEF Building, Command, ImageBlocks
  <2>3. /\ \A p \in Pushed \ {o} : Commands'[p] = Commands[p]
        /\ \A u \in Threads : Buildings'[u] = Buildings[u]
        /\ Commands[o] = F
    BY <1>5, <1>13, <2>1, <2>2 DEF Commands, Buildings
  <2>4. OneOwner(allocated \ F, Pushed \ {o}, Commands', Buildings')
    BY <1>0, <1>2, <2>3, OwnerFrees DEF Owners
  <2> QED BY <1>6, <1>20, <2>4 DEF Owners
<1> QED BY <1>8, <1>11, <1>21, <1>22, <1>23, <1>25, <1>26 DEF HeapInv, MemoryInv

-----------------------------------------------------------------------------
(* Before the first command, and after a power cycle, the places are empty *)
(* and nobody has a block.                                                 *)

NobodyHasAnything ==
    /\ allocated = {} /\ atHost = {} /\ releaseRing = <<>>
    /\ hostHead = None /\ hostTail = None /\ Leftover = None
    /\ \A t \in Threads : out[t] = None /\ img[t] = None

LEMMA NothingYet == TypeOK /\ NobodyHasAnything => MemoryInv
<1> SUFFICES ASSUME TypeOK, NobodyHasAnything PROVE MemoryInv
  OBVIOUS
<1> USE DEF NobodyHasAnything
<1>1. ChainOf(next, None) = {} /\ Straight(next, None)
  BY EmptyChain DEF Straight
<1>2. Len(releaseRing) = 0
  OBVIOUS
<1>3. \A k \in Index : At(k) = {}
  BY <1>1, <1>2 DEF Index, At, Chain
<1>4. Pushed = {}
  BY <1>3, PushedIs
<1>5. \A t \in Threads : Buildings[t] = {}
  BY DEF Buildings, Building, Command
<1>6. Owners
  BY <1>4, <1>5 DEF Owners, OneOwner
<1>7. NoCycle
  BY <1>1, <1>2 DEF NoCycle
<1>8. OneReference /\ HostChain /\ Apart
  BY <1>3, <1>4 DEF OneReference, HostChain, Apart
<1> QED BY <1>6, <1>7, <1>8 DEF MemoryInv

LEMMA InitHeap == Init => HeapInv
<1> SUFFICES ASSUME Init PROVE HeapInv
  OBVIOUS
<1>1. TypeOK
  <2>1. releaseRing \in Seq(Blocks) /\ Len(releaseRing) <= ReleaseRingSize
    BY ReleaseHeapAssumption DEF Init
  <2>2. /\ budget \in -1..ReleaseBatch /\ powerCycles \in 0..MaxPowerCycles
        /\ plan \in [Threads -> 1..MaxPlan] /\ refs \in [Blocks -> 0..2]
    BY ReleaseHeapAssumption DEF Init
  <2>3. /\ image \in [Blocks -> Pointers] /\ chunk \in [Blocks -> Pointers]
        /\ next \in [Blocks -> Pointers]
        /\ out \in [Threads -> Pointers] /\ img \in [Threads -> Pointers]
        /\ pc \in [Threads -> Locations] /\ stage \in [Threads -> Stages]
    BY DEF Init, Locations, Stages, Pointers
  <2> QED BY <2>1, <2>2, <2>3 DEF Init, TypeOK, Pointers
<1>2. ControlInv
  BY ReleaseHeapAssumption DEF Init, ControlInv, LockHeld, Shape, Allocating
<1>3. Leftover = None
  BY DEF Init, Leftover
<1>4. MemoryInv
  BY <1>1, <1>3, NothingYet DEF Init, NobodyHasAnything
<1> QED BY <1>1, <1>2, <1>4 DEF HeapInv

LEMMA PowerCycleStep ==
    ASSUME HeapInv, NEW t \in Threads, PowerCycle(t), freeOutputs = None
    PROVE  HeapInv'
<1> USE DEF Goto, flushVars
<1>0. TypeOK /\ LockHeld /\ ControlInv
  BY DEF HeapInv, ControlInv
<1>1. TypeOK'
  <2>1. /\ image' \in [Blocks -> Pointers] /\ chunk' \in [Blocks -> Pointers]
        /\ next' \in [Blocks -> Pointers] /\ allocated' = {}
    BY <1>0 DEF PowerCycle, Free, TypeOK, Pointers
  <2>2. powerCycles' \in 0..MaxPowerCycles
    BY <1>0, ReleaseHeapAssumption DEF PowerCycle, TypeOK
  <2>3. releaseRing' \in Seq(Blocks) /\ Len(releaseRing') <= ReleaseRingSize
    BY ReleaseHeapAssumption DEF PowerCycle
  <2>4. hostHead' \in Pointers /\ hostTail' \in Pointers /\ atHost' \subseteq Blocks
    BY DEF PowerCycle, Pointers
  <2>5. pc' \in [Threads -> Locations] /\ stage' \in [Threads -> Stages]
    BY <1>0 DEF PowerCycle, TypeOK, Locations, Stages
  <2>6. refs' \in [Blocks -> 0..2] /\ oom' \in BOOLEAN
    <3>1. refs' = [b \in Blocks |-> 0] /\ oom' = FALSE
      BY DEF PowerCycle
    <3>2. refs' \in [Blocks -> 0..2]
      BY <3>1
    <3> QED BY <3>1, <3>2
  <2>7. UNCHANGED <<memLock, plan, out, img, cursor, budget, freeOutputs>>
    BY DEF PowerCycle
  <2> QED BY <1>0, <2>1, <2>2, <2>3, <2>4, <2>5, <2>6, <2>7 DEF TypeOK
<1>2. \A u \in Threads : pc[u] = "idle" /\ out[u] = None /\ img[u] = None
  BY <1>0 DEF PowerCycle, ControlInv, Shape
<1>3. ControlInv'
  <2>1. LockHeld'
    BY <1>0, <1>2 DEF PowerCycle, LockHeld, TypeOK, Allocating
  <2>2. ASSUME NEW u \in Threads PROVE Shape(u)'
    BY <1>0, <1>2 DEF PowerCycle, ControlInv, Shape, TypeOK, Allocating
  <2> QED BY <2>1, <2>2 DEF ControlInv
<1>4. Leftover' = None
  BY <1>0, <1>2 DEF PowerCycle, TypeOK, Leftover, Flushing
<1>5. MemoryInv'
  <2>1. /\ allocated' = {} /\ atHost' = {} /\ hostHead' = None /\ hostTail' = None
        /\ releaseRing' = <<>> /\ out' = out /\ img' = img
    BY <1>0 DEF PowerCycle, Free, TypeOK
  <2>2. (TypeOK /\ NobodyHasAnything => MemoryInv)'
    BY NothingYet, PTL
  <2>3. NobodyHasAnything'
    BY <1>2, <1>4, <2>1 DEF NobodyHasAnything
  <2> QED BY <1>1, <2>2, <2>3
<1> QED BY <1>1, <1>3, <1>5 DEF HeapInv

-----------------------------------------------------------------------------
(* The theorems. *)

\* A power cycle that finds no outputs left over; every other step.
LEMMA NextHeap ==
    HeapInv /\ [Next]_vars /\ [powerCycles' # powerCycles => freeOutputs = None]_vars
        => HeapInv'
<1> SUFFICES ASSUME HeapInv, [Next]_vars,
                    [powerCycles' # powerCycles => freeOutputs = None]_vars
             PROVE  HeapInv'
  OBVIOUS
<1>1. ASSUME NEW t \in Threads, NEW n \in 1..MaxPlan, Begin(t, n)
      PROVE  HeapInv'
  BY <1>1, QuietStep
<1>2. ASSUME NEW t \in Threads, AllocStep(t) PROVE HeapInv'
  <2>1. CASE \/ EnterAlloc(t) \/ EndFlush(t) \/ MallocConfig(t) \/ MallocRetry(t)
             \/ MallocWait(t) \/ NotifyOom(t) \/ EndWait(t)
    BY <2>1, QuietStep
  <2>2. CASE ReleaseOutput(t)
    BY <2>2, ReleaseOutputStep
  <2>3. CASE PopChain(t)
    BY <2>3, PopChainStep
  <2>4. CASE \E b \in Blocks : Malloc(t, b)
    BY <2>4, MallocStep
  <2> QED BY <1>2, <2>1, <2>2, <2>3, <2>4 DEF AllocStep
<1>3. ASSUME NEW t \in Threads, BuildStep(t) PROVE HeapInv'
  BY <1>3, AddResStep, ReleaseResStep, PushStep DEF BuildStep
<1>4. ASSUME NEW t \in Threads, PowerCycle(t) PROVE HeapInv'
  <2>1. powerCycles \in Nat /\ powerCycles' = powerCycles + 1
    BY <1>4, ReleaseHeapAssumption DEF PowerCycle, HeapInv, TypeOK
  <2>2. freeOutputs = None
    BY <2>1 DEF vars
  <2> QED BY <1>4, <2>2, PowerCycleStep
<1>5. CASE HostStep
  BY <1>5, HostReleaseStep, HostFinishStep DEF HostStep
<1>6. CASE UNCHANGED vars
  <2> USE DEF vars, memoryVars, threadVars, flushVars, hostVars, memory
  <2>1. TypeOK' /\ ControlInv' /\ Leftover' = Leftover
    BY <1>6 DEF HeapInv, TypeOK, ControlInv, LockHeld, Shape, Leftover, Flushing
  <2>2. MemoryInv'
    BY <1>6, <2>1, MemoryKept DEF HeapInv
  <2> QED BY <2>1, <2>2 DEF HeapInv
<1> QED BY <1>1, <1>2, <1>3, <1>4, <1>5, <1>6 DEF Next

LEMMA HeapInvariant == Safety /\ NothingLeftOver => []HeapInv
BY InitHeap, NextHeap, PTL DEF Safety, NothingLeftOver

\* What the driver keeps about its device memory is always of the right type;
\* a reference counter stays between 0 and 2.
THEOREM TypeCorrect == Safety /\ NothingLeftOver => []TypeOK
BY HeapInvariant, PTL DEF HeapInv

\* No block is lost, shared or freed while the device may read it, whatever
\* the threads and the device do between two steps of each other.
THEOREM OneOwnerEach == Safety /\ NothingLeftOver => []EveryBlockHasOneOwner
<1>1. HeapInv => EveryBlockHasOneOwner
  BY OwnersAre DEF HeapInv, MemoryInv
<1> QED BY <1>1, HeapInvariant, PTL

\* A pushed output is with the device, in one chain of the release ring or in
\* the chain being freed, never in two of them and never still with a thread.
THEOREM OnePlaceEach == Safety /\ NothingLeftOver => []EveryOutputIsInOnePlace
<1>1. HeapInv => EveryOutputIsInOnePlace
  <2> SUFFICES ASSUME HeapInv PROVE EveryOutputIsInOnePlace
    OBVIOUS
  <2>1. TypeOK /\ Apart /\ Owners
    BY DEF HeapInv, MemoryInv
  <2>2. \A j, k \in DOMAIN Places : j # k => Places[j] \intersect Places[k] = {}
    BY <2>1, PlacesAre DEF Apart
  <2>3. ASSUME NEW t \in Threads, out[t] \in Pushed PROVE FALSE
    <3>1. out[t] \in Blocks /\ out[t] \notin Building(t)
      BY <2>1, <2>3, PushedApart
    <3> QED BY <2>1, <3>1, BuildingFacts, ReleaseHeapAssumption
  <2> QED BY <2>2, <2>3 DEF EveryOutputIsInOnePlace
<1> QED BY <1>1, HeapInvariant, PTL

\* FlushReleaseRing only frees what the heap has handed out and not yet got
\* back: the output at its cursor and, with the last reference, its image.
THEOREM FreesAllocated == Safety /\ NothingLeftOver => []FreesOnlyAllocated
<1>1. HeapInv => FreesOnlyAllocated
  <2> SUFFICES ASSUME HeapInv, NEW t \in Threads, pc[t] = "flush"
               PROVE  {cursor} \union Released(image[cursor]) \subseteq allocated
    BY DEF FreesOnlyAllocated
  <2>1. TypeOK /\ LockHeld /\ Owners
    BY DEF HeapInv, ControlInv, MemoryInv
  <2>2. cursor \in Blocks /\ Leftover = cursor
    BY <2>1 DEF LockHeld, TypeOK, Pointers, Leftover, Flushing
  <2>3. cursor \in Pushed
    <3>1. cursor \in Chain(Leftover)
      BY <2>1, <2>2, ChainHolds DEF TypeOK, Links, Pointers, Chain
    <3>2. 3 \in Index /\ At(3) = Chain(Leftover)
      BY <2>1, AtFacts DEF Index
    <3> QED BY <2>1, <3>1, <3>2, PushedIs
  <2>4. cursor \in Command(cursor) /\ Command(cursor) \subseteq allocated
    BY <2>1, <2>3, OwnerFacts
  <2>5. Released(image[cursor]) \subseteq Command(cursor)
    BY <2>2, ReleaseHeapAssumption DEF Released, Command
  <2> QED BY <2>4, <2>5
<1> QED BY <1>1, HeapInvariant, PTL

\* Until the adapter is first powered down there is nothing to assume.
THEOREM OnePowerPeriod ==
    ASSUME MaxPowerCycles = 0
    PROVE  Safety => NothingLeftOver
<1> DEFINE NoCycles == powerCycles = 0
<1>1. Init => NoCycles
  BY DEF Init
<1>2. NoCycles /\ [Next]_vars => NoCycles' /\ powerCycles' = powerCycles
  <2> SUFFICES ASSUME NoCycles, [Next]_vars PROVE powerCycles' = powerCycles
    OBVIOUS
  <2> USE DEF vars, memoryVars, threadVars, flushVars, hostVars
  <2>1. ASSUME NEW t \in Threads, PowerCycle(t) PROVE FALSE
    BY <2>1 DEF PowerCycle
  <2>2. CASE HostStep
    BY <2>2 DEF HostStep, HostRelease, HostFinish
  <2>3. ASSUME NEW t \in Threads, AllocStep(t) PROVE powerCycles' = powerCycles
    BY <2>3 DEF AllocStep, EnterAlloc, ReleaseOutput, PopChain, EndFlush, Malloc,
         MallocConfig, MallocRetry, MallocWait, NotifyOom, EndWait
  <2>4. ASSUME NEW t \in Threads, BuildStep(t) PROVE powerCycles' = powerCycles
    BY <2>4 DEF BuildStep, AddRes, ReleaseRes, Push
  <2>5. ASSUME NEW t \in Threads, NEW n \in 1..MaxPlan, Begin(t, n)
        PROVE  powerCycles' = powerCycles
    BY <2>5 DEF Begin
  <2> QED BY <2>1, <2>2, <2>3, <2>4, <2>5 DEF Next
<1>3. NoCycles /\ [Next]_vars => [powerCycles' # powerCycles => freeOutputs = None]_vars
  BY <1>2
<1> QED BY <1>1, <1>2, <1>3, PTL DEF Safety, NothingLeftOver

=============================================================================
