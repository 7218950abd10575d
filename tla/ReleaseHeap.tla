---------------------------- MODULE ReleaseHeap ----------------------------
(***************************************************************************)
(* Who owns the device memory the driver allocates for commands.           *)
(*                                                                         *)
(* A command is an output (QXLOutput: the command and the resources it     *)
(* refers to), allocated from the VRAM heap together with its image and    *)
(* the image's further data chunks, and pushed to the device.  The device  *)
(* gives finished outputs back in linked chains through the release ring;  *)
(* AllocMem frees them, under m_MemLock, before it allocates.  When the    *)
(* heap is exhausted AllocMem asks the device for memory and waits.        *)
(*                                                                         *)
(* The heap (mspace.c) is modelled by what it promises: mspace_malloc      *)
(* returns a block that is not allocated, or fails if there is none, and   *)
(* mspace_free overwrites the block it is given.  A block is big enough    *)
(* for an output, an image or a chunk.                                     *)
(***************************************************************************)
EXTENDS Integers, Sequences

CONSTANTS
    Threads,           \* driver threads that draw or move the pointer
    Blocks,            \* the blocks of the VRAM heap
    None,              \* the null pointer
    MaxPlan,           \* most blocks one command takes (3: output, image, chunk)
    ReleaseBatch,      \* num_to_release, 50 in the code
    ReleaseRingSize,   \* QXL_RELEASE_RING_SIZE, 8
    MaxPowerCycles     \* bound on the number of D3 -> D0 transitions explored

ASSUME ReleaseHeapAssumption ==
    /\ None \notin Blocks /\ None \notin Threads
    /\ MaxPlan \in 1..3
    /\ ReleaseBatch \in Nat \ {0}
    /\ ReleaseRingSize \in Nat \ {0}
    /\ MaxPowerCycles \in Nat

VARIABLES
    \* device memory
    allocated,    \* the blocks the heap has handed out
    image,        \* output -> resources[0], None while num_res is 0
    chunk,        \* image -> next_chunk
    refs,         \* image -> refs
    next,         \* output -> release_info, the next output of its chain
    \* driver threads
    memLock,      \* who holds m_MemLock
    pc,           \* where a thread is
    stage,        \* what the AllocMem call under way is for
    plan,         \* how many blocks the thread's command takes
    out, img,     \* the thread's output and image, before the push
    cursor,       \* local variable output of FlushReleaseRing
    budget,       \* local variable num_to_release of FlushReleaseRing
    freeOutputs,  \* m_FreeOutputs
    \* shared with the device, and the device
    releaseRing,  \* the heads of the chains in the release ring
    atHost,       \* the outputs pushed and not finished
    hostHead, hostTail,  \* the chain of finished outputs under construction
    oom,          \* QXL_IO_NOTIFY_OOM was written and not yet served
    powerCycles   \* power cycles so far

memoryVars == <<allocated, image, chunk, refs, next>>
threadVars == <<memLock, pc, stage, plan, out, img>>
flushVars == <<cursor, budget, freeOutputs>>
hostVars == <<releaseRing, atHost, hostHead, hostTail, oom>>
vars == <<memoryVars, threadVars, flushVars, hostVars, powerCycles>>

Pointers == Blocks \union {None}

Locations == {"idle", "lock", "flush", "pop", "malloc", "wait",
              "add_res", "release_res", "push"}
Stages == {"output", "image", "chunk", "config"}

TypeOK ==
    /\ allocated \subseteq Blocks
    /\ image \in [Blocks -> Pointers]
    /\ chunk \in [Blocks -> Pointers]
    /\ refs \in [Blocks -> 0..2]
    /\ next \in [Blocks -> Pointers]
    /\ memLock \in Threads \union {None}
    /\ pc \in [Threads -> Locations]
    /\ stage \in [Threads -> Stages]
    /\ plan \in [Threads -> 1..MaxPlan]
    /\ out \in [Threads -> Pointers] /\ img \in [Threads -> Pointers]
    /\ cursor \in Pointers /\ freeOutputs \in Pointers
    /\ budget \in -1..ReleaseBatch
    /\ releaseRing \in Seq(Blocks) /\ Len(releaseRing) <= ReleaseRingSize
    /\ atHost \subseteq Blocks
    /\ hostHead \in Pointers /\ hostTail \in Pointers
    /\ oom \in BOOLEAN
    /\ powerCycles \in 0..MaxPowerCycles

Init ==
    /\ allocated = {}
    /\ image = [b \in Blocks |-> None]
    /\ chunk = [b \in Blocks |-> None]
    /\ refs = [b \in Blocks |-> 0]
    /\ next = [b \in Blocks |-> None]
    /\ memLock = None
    /\ pc = [t \in Threads |-> "idle"]
    /\ stage = [t \in Threads |-> "output"]
    /\ plan = [t \in Threads |-> 1]
    /\ out = [t \in Threads |-> None] /\ img = [t \in Threads |-> None]
    /\ cursor = None /\ freeOutputs = None
    /\ budget = ReleaseBatch
    /\ releaseRing = <<>>
    /\ atHost = {}
    /\ hostHead = None /\ hostTail = None
    /\ oom = FALSE
    /\ powerCycles = 0

Goto(t, location) == pc' = [pc EXCEPT ![t] = location]

-----------------------------------------------------------------------------
(* A thread builds a command: BltBits, CopyBits, BlackOutScreen,           *)
(* SetPointerShape, SetPointerPosition.                                    *)

\* A drawing of n blocks: 1 for a fill, a move or a pointer move, 2 or 3 with
\* an image or a pointer shape.  Drawable and CursorCmd allocate the output.
Begin(t, n) ==
    /\ pc[t] = "idle"
    /\ plan' = [plan EXCEPT ![t] = n]
    /\ Goto(t, "lock")
    /\ UNCHANGED <<memoryVars, memLock, stage, out, img, flushVars, hostVars, powerCycles>>

\* Mutant of AddRes: the output does not take a reference of its own.
AddResWithoutRef(t) ==
    /\ pc[t] = "add_res"
    /\ image' = [image EXCEPT ![out[t]] = img[t]]
    /\ Goto(t, "release_res")
    /\ UNCHANGED <<allocated, chunk, refs, next, memLock, stage, plan, out, img,
                   flushVars, hostVars, powerCycles>>

\* DrawableAddRes and CursorCmdAddRes.
AddRes(t) ==
    /\ pc[t] = "add_res"
    /\ refs' = [refs EXCEPT ![img[t]] = @ + 1]
    /\ image' = [image EXCEPT ![out[t]] = img[t]]
    /\ Goto(t, "release_res")
    /\ UNCHANGED <<allocated, chunk, next, memLock, stage, plan, out, img,
                   flushVars, hostVars, powerCycles>>

\* The image and the chunks that FreeBitmapImage (FreeCursor) frees with it,
\* when the last reference to it is dropped.
ImageBlocks(i) == {i, chunk[i]} \ {None}

\* What RELEASE_RES of image i frees.
Released(i) == IF i # None /\ refs[i] = 1 THEN ImageBlocks(i) ELSE {}

\* mspace_free of a set of blocks; what they held is lost.
Free(freed) ==
    /\ allocated' = allocated \ freed
    /\ image' = [b \in Blocks |-> IF b \in freed THEN None ELSE image[b]]
    /\ chunk' = [b \in Blocks |-> IF b \in freed THEN None ELSE chunk[b]]
    /\ next' = [b \in Blocks |-> IF b \in freed THEN None ELSE next[b]]

\* RELEASE_RES: the thread gives up its own reference.  FreeMem takes m_MemLock.
ReleaseRes(t) ==
    /\ pc[t] = "release_res"
    /\ Released(img[t]) # {} => memLock = None
    /\ Free(Released(img[t]))
    /\ refs' = [refs EXCEPT ![img[t]] = @ - 1]
    /\ img' = [img EXCEPT ![t] = None]
    /\ Goto(t, "push")
    /\ UNCHANGED <<memLock, stage, plan, out, flushVars, hostVars, powerCycles>>

\* PushDrawable and PushCursorCmd (module CommandRing): the device has it.
Push(t) ==
    /\ pc[t] = "push"
    /\ atHost' = atHost \union {out[t]}
    /\ out' = [out EXCEPT ![t] = None]
    /\ stage' = [stage EXCEPT ![t] = "output"]
    /\ plan' = [plan EXCEPT ![t] = 1]
    /\ Goto(t, "idle")
    /\ UNCHANGED <<memoryVars, memLock, img, flushVars, releaseRing, hostHead,
                   hostTail, oom, powerCycles>>

-----------------------------------------------------------------------------
(* AllocMem.  Its caller always forces: it waits rather than fails.        *)

\* Entering FlushReleaseRing.
StartFlush(t) ==
    /\ cursor' = freeOutputs
    /\ budget' = ReleaseBatch
    /\ Goto(t, IF freeOutputs = None THEN "pop" ELSE "flush")
    /\ UNCHANGED freeOutputs

\* WaitForObject(&m_MemLock), then the first round of the loop.
EnterAlloc(t) ==
    /\ pc[t] = "lock"
    /\ memLock = None
    /\ memLock' = t
    /\ StartFlush(t)
    /\ UNCHANGED <<memoryVars, stage, plan, out, img, hostVars, powerCycles>>

\* --num_to_release; once it has passed zero nothing stops the loop any more.
BudgetLeft == IF budget > 0 THEN budget - 1 ELSE -1

\* One call of ReleaseOutput: the references of the output, then the output.
ReleaseOutput(t) ==
    /\ pc[t] = "flush"
    /\ LET i == image[cursor] IN
       /\ Free({cursor} \union Released(i))
       /\ refs' = IF i = None THEN refs ELSE [refs EXCEPT ![i] = @ - 1]
    /\ cursor' = next[cursor]
    /\ budget' = BudgetLeft
    /\ Goto(t, IF next[cursor] = None \/ BudgetLeft = 0 THEN "pop" ELSE "flush")
    /\ UNCHANGED <<memLock, stage, plan, out, img, freeOutputs, hostVars,
                   powerCycles>>

\* Mutant of PopChain: the chain is not taken off the ring.
PeekChain(t) ==
    /\ pc[t] = "pop"
    /\ cursor = None
    /\ releaseRing # <<>>
    /\ cursor' = Head(releaseRing)
    /\ Goto(t, "flush")
    /\ UNCHANGED <<memoryVars, memLock, stage, plan, out, img, budget,
                   freeOutputs, hostVars, powerCycles>>

\* Take the next chain off the release ring ...
PopChain(t) ==
    /\ pc[t] = "pop"
    /\ cursor = None
    /\ releaseRing # <<>>
    /\ cursor' = Head(releaseRing)
    /\ releaseRing' = Tail(releaseRing)
    /\ Goto(t, "flush")
    /\ UNCHANGED <<memoryVars, memLock, stage, plan, out, img, budget,
                   freeOutputs, atHost, hostHead, hostTail, oom, powerCycles>>

\* Mutant of EndFlush: m_FreeOutputs is stored only when something is left.
EndFlushKeepsOld(t) ==
    /\ pc[t] = "pop"
    /\ cursor # None \/ releaseRing = <<>>
    /\ freeOutputs' = IF cursor # None THEN cursor ELSE freeOutputs
    /\ cursor' = None
    /\ budget' = ReleaseBatch
    /\ Goto(t, "malloc")
    /\ UNCHANGED <<memoryVars, memLock, stage, plan, out, img, hostVars, powerCycles>>

\* ... or stop, and remember what is left of the chain.
EndFlush(t) ==
    /\ pc[t] = "pop"
    /\ cursor # None \/ releaseRing = <<>>
    /\ freeOutputs' = cursor
    /\ cursor' = None
    /\ budget' = ReleaseBatch
    /\ Goto(t, "malloc")
    /\ UNCHANGED <<memoryVars, memLock, stage, plan, out, img, hostVars, powerCycles>>

\* Where a thread goes on when it has got the block it asked for.
AfterAlloc(t) ==
    LET again(s) == Goto(t, "lock") /\ stage' = [stage EXCEPT ![t] = s]
        goOn(location) == Goto(t, location) /\ UNCHANGED stage
    IN  CASE stage[t] = "output" /\ plan[t] = 1 -> goOn("push")
          [] stage[t] = "output" /\ plan[t] > 1 -> again("image")
          [] stage[t] = "image" /\ plan[t] = 3 -> again("chunk")
          [] stage[t] = "image" /\ plan[t] = 2 -> goOn("add_res")
          [] stage[t] = "chunk" -> goOn("add_res")
          [] stage[t] = "config" -> Goto(t, "idle") /\ stage' = [stage EXCEPT ![t] = "output"]

\* mspace_malloc returns block b; the caller initialises it.
\*   output: GetDrawable, CursorCmd       num_res = 0, release_info.id = itself
\*   image:  BltBits, SetPointerShape     refs = 1, no next_chunk
\*   chunk:  PutBytesAlign                linked to the chunk before it
Malloc(t, b) ==
    /\ pc[t] = "malloc"
    /\ stage[t] # "config"
    /\ b \notin allocated
    /\ allocated' = allocated \union {b}
    /\ CASE stage[t] = "output" ->
                /\ out' = [out EXCEPT ![t] = b]
                /\ image' = [image EXCEPT ![b] = None]
                /\ next' = [next EXCEPT ![b] = b]
                /\ UNCHANGED <<img, chunk, refs>>
         [] stage[t] = "image" ->
                /\ img' = [img EXCEPT ![t] = b]
                /\ chunk' = [chunk EXCEPT ![b] = None]
                /\ refs' = [refs EXCEPT ![b] = 1]
                /\ UNCHANGED <<out, image, next>>
         [] stage[t] = "chunk" ->
                /\ chunk' = [chunk EXCEPT ![img[t]] = b]
                /\ UNCHANGED <<out, img, image, refs, next>>
    /\ memLock' = None
    /\ AfterAlloc(t)
    /\ UNCHANGED <<plan, flushVars, hostVars, powerCycles>>

\* InitMonitorConfig allocates from the other heap, which is never exhausted.
MallocConfig(t) ==
    /\ pc[t] = "malloc"
    /\ stage[t] = "config"
    /\ memLock' = None
    /\ AfterAlloc(t)
    /\ UNCHANGED <<memoryVars, plan, out, img, flushVars, hostVars, powerCycles>>

\* mspace_malloc fails and there is more to free: once more.
MallocRetry(t) ==
    /\ pc[t] = "malloc"
    /\ stage[t] # "config"
    /\ allocated = Blocks
    /\ freeOutputs # None \/ releaseRing # <<>>
    /\ StartFlush(t)
    /\ UNCHANGED <<memoryVars, memLock, stage, plan, out, img, hostVars, powerCycles>>

\* mspace_malloc fails and there is nothing to free: WaitForReleaseRing.
MallocWait(t) ==
    /\ pc[t] = "malloc"
    /\ stage[t] # "config"
    /\ allocated = Blocks
    /\ freeOutputs = None /\ releaseRing = <<>>
    /\ Goto(t, "wait")
    /\ UNCHANGED <<memoryVars, memLock, stage, plan, out, img, flushVars, hostVars,
                   powerCycles>>

\* Mutant of NotifyOom: the thread waits without asking the device.
WaitSilently(t) ==
    /\ pc[t] = "wait"
    /\ releaseRing = <<>>
    /\ UNCHANGED vars

\* WaitForReleaseRing: the ring is empty, so it writes QXL_IO_NOTIFY_OOM.  Its
\* waits have timeouts (10 and 30 ms), so it comes back here by itself.
NotifyOom(t) ==
    /\ pc[t] = "wait"
    /\ releaseRing = <<>>
    /\ oom' = TRUE
    /\ UNCHANGED <<memoryVars, threadVars, flushVars, releaseRing, atHost, hostHead,
                   hostTail, powerCycles>>

\* WaitForReleaseRing returns, and AllocMem goes round its loop.
EndWait(t) ==
    /\ pc[t] = "wait"
    /\ releaseRing # <<>>
    /\ StartFlush(t)
    /\ UNCHANGED <<memoryVars, memLock, stage, plan, out, img, hostVars, powerCycles>>

-----------------------------------------------------------------------------
(* The device. *)

\* It has finished an output and links it to the chain it is collecting.
HostFinish(o) ==
    /\ o \in atHost
    /\ atHost' = atHost \ {o}
    /\ next' = [b \in Blocks |->
                    CASE b = o -> None
                      [] b # o /\ b = hostTail -> o
                      [] OTHER -> next[b]]
    /\ hostHead' = IF hostHead = None THEN o ELSE hostHead
    /\ hostTail' = o
    /\ UNCHANGED <<allocated, image, chunk, refs, threadVars, flushVars, releaseRing,
                   oom, powerCycles>>

\* It gives the chain back, on its own account or because it was asked to.
HostRelease ==
    /\ hostHead # None
    /\ Len(releaseRing) < ReleaseRingSize
    /\ releaseRing' = Append(releaseRing, hostHead)
    /\ hostHead' = None /\ hostTail' = None
    /\ oom' = FALSE
    /\ UNCHANGED <<memoryVars, threadVars, flushVars, atHost, powerCycles>>

-----------------------------------------------------------------------------
(* SetPowerState to D3 and back to D0, with no drawing under way: QxlClose *)
(* and QxlInit.  QXL_IO_RESET makes the device forget its commands and     *)
(* re-initialise the rings, InitDeviceMemoryResources makes an empty heap, *)
(* InitMonitorConfig calls AllocMem.  m_FreeOutputs is not assigned.  What *)
(* the old heap's blocks held is forgotten with them.                      *)

PowerCycle(t) ==
    /\ \A u \in Threads : pc[u] = "idle"
    /\ powerCycles < MaxPowerCycles
    /\ powerCycles' = powerCycles + 1
    /\ Free(Blocks)
    /\ refs' = [b \in Blocks |-> 0]
    /\ releaseRing' = <<>>
    /\ atHost' = {}
    /\ hostHead' = None /\ hostTail' = None
    /\ oom' = FALSE
    /\ stage' = [stage EXCEPT ![t] = "config"]
    /\ Goto(t, "lock")
    /\ UNCHANGED <<memLock, plan, out, img, flushVars>>

-----------------------------------------------------------------------------

\* What a thread does inside AllocMem.
AllocStep(t) ==
    \/ EnterAlloc(t) \/ ReleaseOutput(t) \/ PopChain(t) \/ EndFlush(t)
    \/ \E b \in Blocks : Malloc(t, b)
    \/ MallocConfig(t) \/ MallocRetry(t) \/ MallocWait(t)
    \/ NotifyOom(t) \/ EndWait(t)

BuildStep(t) == AddRes(t) \/ ReleaseRes(t) \/ Push(t)

HostStep == HostRelease \/ \E o \in atHost : HostFinish(o)

Next ==
    \/ \E t \in Threads :
           \/ \E n \in 1..MaxPlan : Begin(t, n)
           \/ AllocStep(t) \/ BuildStep(t)
           \/ PowerCycle(t)
    \/ HostStep

\* A device that was told it is out of memory finishes its commands and gives
\* them back; the scheduler runs the threads, the mutex is fair.
Fairness ==
    /\ WF_vars(oom /\ HostRelease)
    /\ \A o \in Blocks : WF_vars(oom /\ HostFinish(o))
    /\ \A t \in Threads : SF_vars(AllocStep(t)) /\ WF_vars(BuildStep(t))

Safety == Init /\ [][Next]_vars
Spec == Safety /\ Fairness

-----------------------------------------------------------------------------
(* Correctness. *)

\* The outputs of the chain that starts at o: what every set holds that has o
\* and, with an output, the next one.
Closed(link, S) == \A b \in S : link[b] \in S \union {None}
ChainOf(link, o) ==
    {b \in Blocks : \A S \in SUBSET Blocks :
        Closed(link, S) /\ o \in S \union {None} => b \in S}
Chain(o) == ChainOf(next, o)

\* The blocks of one command.
Command(o) ==
    {o} \union IF o = None \/ image[o] = None THEN {} ELSE ImageBlocks(image[o])

\* The chain AllocMem is about to free, or left to be freed next time.
Flushing == \E t \in Threads : pc[t] \in {"flush", "pop"}
Leftover == IF Flushing THEN cursor ELSE freeOutputs

\* Every place an output can be in once it is pushed, with what is there.
Places ==
    <<atHost, Chain(hostHead), Chain(Leftover)>>
        \o [k \in 1..Len(releaseRing) |-> Chain(releaseRing[k])]
Pushed == UNION {Places[k] : k \in DOMAIN Places}

\* The blocks a thread holds while it builds its command.
Building(t) ==
    (Command(out[t]) \union IF img[t] = None THEN {} ELSE ImageBlocks(img[t]))
        \ {None}

\* No memory is lost and none is shared: each allocated block belongs to one
\* command under construction or to one pushed command, and each block of
\* those is allocated; so the device never reads memory the driver has freed.
EveryBlockHasOneOwner ==
    LET owned == [p \in Pushed |-> Command(p)]
    IN  /\ allocated = (UNION {owned[p] : p \in Pushed})
                            \union (UNION {Building(t) : t \in Threads})
        /\ \A p, q \in Pushed : p # q => owned[p] \intersect owned[q] = {}
        /\ \A p \in Pushed, t \in Threads : owned[p] \intersect Building(t) = {}
        /\ \A t, u \in Threads : t # u => Building(t) \intersect Building(u) = {}

\* Each pushed output is in one place: with the device, in one chain of the
\* release ring, or in the chain the driver is freeing.
EveryOutputIsInOnePlace ==
    /\ \A j, k \in DOMAIN Places : j # k => Places[j] \intersect Places[k] = {}
    /\ \A t \in Threads : out[t] \notin Pushed

\* mspace_free is only called on blocks in use (mspace.c:2271 checks it, and
\* USAGE_ERROR_ACTION, "triggered on detected bad frees", aborts): what
\* ReleaseOutput is about to free has been allocated from this heap.
FreesOnlyAllocated ==
    \A t \in Threads :
        pc[t] = "flush" =>
            {cursor} \union Released(image[cursor]) \subseteq allocated

\* An AllocMem call that waits for memory gets it, and the command it is for
\* reaches the device, as long as the unfinished commands of all threads leave
\* room for one more block.
EveryCommandIsPushed ==
    \A t \in Threads : pc[t] = "lock" ~> pc[t] = "idle"

=============================================================================
