# A TLA+ model of the QXL display-only driver

`qxldod` is a Windows kernel-mode display-only driver (KMDOD) for the QXL
paravirtual graphics device, with a plain VGA/VBE adapter as fallback. dxgkrnl
calls its DDIs; it draws by pushing commands to the device over rings in shared
memory, and the device gives memory back over a ring of its own and raises
interrupts. This directory holds TLA+ models of the parts where order matters,
the configurations TLC checks them with, and TLAPS proofs.

Source references are `file:line` in `src/qxldod/` unless they say otherwise.

## 1. Inventory

| Component | State it keeps | Operations | Talks to |
|---|---|---|---|
| **Ring protocol** (`include/ipc_ring.h`) | `prod`, `cons` (free-running 32-bit counters), `notify_on_prod`, `notify_on_cons`, `items[]` | the macros `SPICE_RING_*` | shared memory between driver and device |
| **Command and cursor submission** (`PushDrawable`, `WaitForCmdRing`, `PushCmd`; `PushCursorCmd`, `WaitForCursorRing`, `PushCursor`) | `m_CmdLock`, `m_CrsLock`, `m_DisplayEvent`, `m_CursorEvent` | push a command, wait for room, kick the device | ring, ports `QXL_IO_NOTIFY_CMD/CURSOR` |
| **Interrupt path** (`InterruptRoutine`, `DpcRoutine`) | `int_pending`, the line, `m_Pending`, the DPC object, three events | ISR, DPC | the device, waiting threads |
| **Device memory and release ring** (`AllocMem`, `FreeMem`, `FlushReleaseRing`, `WaitForReleaseRing`, `ReleaseOutput`, `AddRes`, `RELEASE_RES`) | VRAM heap, reference counts, `m_FreeOutputs`, `m_MemLock` | allocate, free finished outputs, ask the device for memory | release ring, port `QXL_IO_NOTIFY_OOM`, heap |
| **Adapter life cycle and display state** (`QxlDod`) | `m_Flags`, power states, `m_CurrentModes[0]` | Start/Stop/RemoveDevice, `SetPowerState`, `CommitVidPn`, visibility, Present | dxgkrnl, the hardware device object |
| **VGA fallback device** (`VgaDevice`) | `DispInfo`, `FrameBuffer.Ptr`, zeroed range | map, set mode, black out, copy pixels | BIOS (`x86BiosCall`), frame buffer |
| **VidPn topology and mode enumeration** (`EnumVidPnCofuncModality`, `Add*Mode`, `IsSupportedVidPn`) | handles borrowed from dxgkrnl | acquire, read, add, release | dxgkrnl's VidPn interfaces |
| **Mode table and custom display** (`GetModeList`, `SetCustomDisplay`, `SetCurrentMode`, primary surface) | `m_ModeInfo`, `m_ModeNumbers`, `m_CustomMode`, `m_CurrentMode` | build the list, replace the custom entry, set | QXL ROM, registry escape |
| **Memory slots and addresses** (`SetupMemSlot`, `PA`, `VA`) | `m_MemSlots` | start/end, address conversion with generation bits | device, port `QXL_IO_MEMSLOT_ADD` |
| **Asynchronous I/O, monitor configuration** (`AsyncIo`, `SyncIo`, `SetMonitorConfig`, `Escape`) | `m_IoLock`, `m_IoCmdEvent`, `m_monitor_config` | issue, wait for completion with a timeout | ports, interrupt path |
| **Present** (`ExecutePresentDisplayOnly`) | context, MDL, locked pages, mapped source | map, blit, unmap | dxgkrnl, device |
| **Image chunks and blits** (`BltBits`, `PutBytesAlign`, `SetPointerShape`, `CopyBits*`) | chunk list of an image | copy rows into chunks, copy and rotate pixels | heap |
| **Heap** (`mspace.c`) | boundary tags, bins, `dv`, `top` | `mspace_malloc`, `mspace_free`, creation | `AllocMem`, `FreeMem` |
| **Children, EDID, registry, vsync simulation, DDI thunks** | almost none | queries, dispatch | dxgkrnl |

### What is hard, and what makes each part correct

* *Rings.* Two processors share five fields without a lock. A consumer that
  decides to sleep races a producer that decides whether to wake it, and the
  counters wrap. Correct: no slot is overwritten or read early; the ring is a
  FIFO; no wakeup and no kick is lost. The driver waits for ring space with
  **no timeout** (`WaitForCmdRing`), so a lost wakeup is a hang.
* *Interrupts.* The ISR merges into `m_Pending` with a plain `|=` while the DPC
  empties it with an interlocked exchange on another processor
  (QxlDod.cpp:4810, 4834). Correct: every bit raised becomes its event, and no
  event is set without one, which the comments at 4812 and 4816 argue.
* *Asynchronous I/O.* A completion arrives through that interrupt path, perhaps
  after the wait for it timed out (3639), and the setting the device reads is
  written without the lock (4674). Correct: one command at a time, the whole
  setting shown when the call returns, no caller stuck on `m_IoLock`.
* *Device memory.* Each block passes from heap to thread to device to a linked
  chain to the heap. Correct: one owner at a time, nothing freed twice or while
  the device may read it, nothing leaked, and a thread waiting for memory gets it.
  A chain left unfinished is remembered across calls – and across power cycles.
* *Heap.* A chunk's size is stored at both its ends, its state in a bit of its
  neighbour, and freeing merges in both directions with three kinds of
  neighbour. Correct: regions are aligned, do not overlap, and a request is
  refused only when nothing large enough is free.
* *Display state.* `m_CurrentModes[0]` describes a mapping that several DDIs
  replace; a remembered zeroed range lets `BlackOutScreen` skip work. Correct:
  pixels are drawn only to mapped memory, what is mapped is what `DispInfo`
  describes unless a power-up has overwritten it, what is hidden is black, the
  next driver finds a black screen; a mode that dxgkrnl was offered and commits
  is set, though escapes and power-ups rewrite the mode table in between.
* *Presents.* A source is locked and mapped by steps that may each fail, images
  are cut at line boundaries into chunks of bounded size, moves overlap, and a
  path may be rotated. Correct: after a present that succeeds the screen is the
  desktop, and what was taken is given back.

`PROJECT.json` lists every hazard with its line and the properties aimed at it.

## 2. Modules

```
SpiceRing ──┐                       Doorbell (abstract: an event per interrupt)
            ├─> CommandRing <─INSTANCE─┘  ▲
CommandQueue┘   (abstract queue)          │ refinement
     ▲ refinement   │                     │
     └──────────────┤               Interrupts <──EXTENDS── AsyncIo
                    └── DisplayPath ──────┘   (real ring + real interrupt path,
                                               refines CommandRing)
ReleaseHeap          memory as AllocMem sees it
Heap ──refinement──> HeapPromise         mspace.c and what AllocMem relies on
VgaDisplay, QxlDisplay                   display state of either device
PixelCopy, ImageChunks ─> Present        from the desktop to the screen
VidPnHandles                             borrowed handles
*_proofs (CommandRing, Interrupts, VgaDisplay, QxlDisplay, VidPnHandles,
   ReleaseHeap, Heap, Present)                          TLAPS
MCCommandRing, MCReleaseHeap, MCQxlDisplay        symmetry, a ROM for TLC
```

**SpiceRing** – the counters modulo their width (`CounterMod` stands for
2^32) and the macros over them. Its assumption `CounterMod % NumItems = 0` is
what the ring's power-of-two sizes give; without it `Slot` would jump at a wrap.

**CommandRing** – one action per access to shared memory. A thread's `pc`
follows `PushDrawable`: lock, `SPICE_RING_PROD_WAIT` in four steps (look, read
`cons`, store `notify_on_cons`, look again), store the item, `prod++`, compare,
kick, unlock. The device's `hostPc` follows the consumer macros of the same
header. `TimedWait` selects the cursor ring's wait (`WaitForCursorRing`, one
second) or the command ring's (none). `SharedEvent` adds the other waiter of
`m_DisplayEvent` (`WaitForReleaseRing`).

**CommandQueue** – what the ring promises: a bounded FIFO into which submitted
commands go once each, and from which the device takes the oldest.

**Doorbell** – what the interrupt path promises: a press is owed until the bell
rings; a waiter answers.

**Interrupts** – ISR, DPC queue, DPC and events; the read and the write
of `m_Pending |=` are two steps, the DPC's three tests are three steps.
With waiters it refines Doorbell, `owed` being every place a bit can be in flight.

**AsyncIo** – extends Interrupts by the callers of `AsyncIo` (through `Escape`
and `SetMonitorConfig`) and of `SyncIo`, `m_IoLock`, the device's commands, and
the configuration, written in two halves. `echoed` records that the ISR's `|=`
wrote back an `IO_CMD` bit the DPC had taken, which sets the event twice.

**DisplayPath** – CommandRing with Interrupts in place of the bell. As in
Interrupts, its operators carry a prefix (`PathSpec`), so that Interrupts_proofs
can extend it together with AsyncIo.

**ReleaseHeap** – threads in `AllocMem` and the drawing functions, the heap by
what it promises, the device finishing outputs in any order and chaining them
through `release_info`, and the D3/D0 power cycle. `stage` says which of a
command's blocks is being allocated: output, image, chunk.

**HeapPromise** – regions held and a refusal: what ReleaseHeap's heap stands for,
with sizes.

**Heap** – `mspace.c`. `head` and `foot` are the words of the boundary tags that
someone may rely on; a word that is no longer maintained leaves the function's
domain, so a read of it stops TLC. Each branch of `mspace_malloc` (exact small
bin, larger small bin, tree bins, `dv`, `top`, failure) and of `mspace_free`
(merge backwards, into `top`, into `dv`, forwards) is a named operator or
disjunct. A bin is a set: its links and the tries are abstracted.

**VgaDisplay** – one action per DDI; a frame buffer cell is lit or not.
`BlackOutScreen`'s two clears are modelled with the offsets the code computes.
`SetPowerState` for D0 overwrites `DispInfo` with any display dxgkrnl may report,
whatever is mapped; `reacquired` remembers that this happened since the last
commit.

**QxlDisplay** – the QXL device from start to removal: the memory slots in the
driver and in the device, what `QxlInit` tells the device after `QXL_IO_RESET`,
the mode table with its two custom entries, the primary surface. One action per
DDI, plus the ways `StartDevice` fails. A mode is its size. `offered` is what
dxgkrnl last enumerated, from which it commits however the table has changed
since. `asked` remembers the last two custom sizes, to state what the two entries
are for.

**PixelCopy** – the addresses of `CopyBits32_32` and `CopyBitsGeneric`, for every
rotation. **ImageChunks** – `PutBytesAlign`, its repetition over the rows of an
image (`PutRows`, a recursive function), and what the device reads back from the
chunks.

**Present** – `ExecutePresentDisplayOnly` of both devices, step by step with each
way it fails; `UpdateActiveVidPnPresentPath`, `SetPointerShape` and
`SystemDisplayWrite`. A pixel is a name, so the screen after a present can be
compared with the desktop.

**VidPnHandles** – one action per call into dxgkrnl in `EnumVidPnCofuncModality`,
`CommitVidPn` and `AddSingleMonitorMode`, each of which may fail. `ptr` is which
local variables are not NULL, `held` how many of each kind dxgkrnl has lent;
the exits release what `ptr` still names, in the code's order.

*Mutants.* A definition commented "Mutant of X" is X with a plausible mistake.
It is used nowhere; put in X's place, it breaks a property, and `PROJECT.json`
says which. So each property is known to depend on the code it is about.

## 3. Runs

| Run | Question | Bounds |
|---|---|---|
| `CommandRing_safety` | types, no overrun, no lost kick, refinement of the queue, also when waits time out (cursor ring) and signals are stolen | 2 threads, 2 slots, counters mod 4 |
| `CommandRing_live` | no wakeup is lost, every submitted command is queued and consumed | 2 threads, 1 slot, mod 2 |
| `DisplayPath` | the real interrupt path implements the bell the ring assumes | 1 thread, 1 slot, mod 2 |
| `AsyncIo` | no interrupt lost, one command at a time, what the escape asked for is shown, every call returns, with late completions | 1 thread kicking, 2 settings, 1 timeout, 2 commands in the device, 1 other interrupt; the bits DISPLAY, IO_CMD and ERROR, which is outside the mask |
| `ReleaseHeap_safety` | ownership across push, release, free, power cycle | 2 threads, 4 blocks, commands of up to 3 blocks, 1 power cycle |
| `ReleaseHeap_live` | a thread waiting for memory gets it | 2 threads, 3 blocks, commands of up to 2, a batch of 1 |
| `ReleaseHeap_stale` | *violated*: `m_FreeOutputs` survives the heap | 3 blocks, 1 power cycle |
| `Heap` | boundary tags, bins, `dv` and `top` agree; the heap keeps its promise | an arena of 58 bytes with words of 2: 24 words to hand out, the smallest chunk 4 words as in the code; requests of 1, 8, 13, 20 |
| `VgaDisplay_safety` | mapping, black-out and visibility, over power-ups that report any display | 3 mode sizes |
| `QxlDisplay_safety` | slots, modes and primary surface over failed starts, power cycles and custom modes, and commits of modes offered before them | 3 ROM modes, 4 custom sizes (one a ROM mode's, one too large) |
| `Present` | the screen shows the desktop after every present, and what a present takes it gives back | 4 by 2 pixels, images of 3 pixels a chunk, rows padded by 0 or 1, 1 failure |
| `VidPnHandles` | all that is borrowed is given back once, whatever fails | up to 2 paths |

*Why the bounds are enough.* A ring of one or two slots is full and empty as
often as can be, and counters that wrap after two to four increments wrap
in every interesting state. Two threads are one holding the lock and one
contending; the ring's other actor is the device. One timeout leaves one late
completion, and two commands in the device let the next call overtake it.
`ReleaseBatch` is 50 in the
code; with 1 the remainder `m_FreeOutputs` occurs after every free, and with 4
never, so the two heap runs cover both sides of the boundary. Two threads with
two or three blocks each exhaust three or four blocks. In `Heap`, a request of 1 leaves
most of a smallest chunk unused, 8 needs a word more than the smallest chunk, 13
and 20 are large requests, served from the tree bins; what 8 leaves of a chunk
of 13 is too small to split off. The arena holds up to six chunks, enough for a
free chunk between two others of every kind. `Present`'s lines are longer than
a chunk (4 against 3) for wide rectangles, fill it exactly (3), and leave a
remainder (2). Three mode sizes give a
smaller, an equal and a larger next mode. Custom sizes replace both custom
entries and come back to the first. This build has one source and one target,
so one path (`MAX_CHILDREN`, QxlDod.h:17); the loops are written for any number,
and with two paths every variable is reused once.

*Deadlock* is checked in every run.

## 4. Assumptions about what is outside the source

* **The device** follows the consumer's half of `ipc_ring.h`, raises an interrupt
  by setting a bit of `int_pending` and recomputing its line, drives the line from
  `int_pending & int_mask` on `QXL_IO_UPDATE_IRQ`, and pushes finished commands
  as chains. On `QXL_IO_NOTIFY_OOM` it finishes commands and gives them back.
  It serves every asynchronous command it is given, also one that comes before the
  last is complete, and reads the whole monitor configuration when it does.
* **dxgkrnl** makes one call of `DxgkDdiEscape` at a time, serialises the DDIs
  modelled in VgaDisplay, presents only on a source whose mode was committed,
  sets modes and presents at D0, and asks only for power states the adapter is
  not in. At a start and at a power-up it may report any display, or none, or an
  error; a display it reports has 32 bits a pixel.
  For QxlDisplay: it calls under its adapter lock (driver.cpp:431), removes a
  device that was stopped or failed to start before it starts it again, asks
  only for power states the adapter is not in (otherwise `QxlInit` would replace
  `m_MemSlots` without freeing it), commits modes it was offered when it last
  enumerated them, and need not enumerate again after a power-up, of which the
  driver does not tell it that the modes have changed (an escape does, 4664).
  Pool allocations succeed at
  power-up (`ResumeMayFail = FALSE`): `SetPowerState` ignores the result of
  `QxlInit`, and with a failure `ReadyToDraw` does not hold.
  For VidPnHandles: a failed `pfnAcquireNextPathInfo` sets its result to NULL
  (`FailureClears`); if it leaves it alone, the exit releases one path twice
  through two variables (1351, 1357) and `NoMisuse` does not hold.
  For Present: it rotates the path of the fallback device only (the QXL device
  ignores the rotation it is given, 4351, 3855), commits a mode of the size
  `DispInfo` has, so that `UpdateActiveVidPnPresentPath` centres nothing, presents
  the whole desktop after a present that failed or a path that changed, and hands
  the fallback device rows that are not padded: the code sizes the mapping as
  width times height and leaves `SrcPitch` out of it (2815). A bugcheck screen
  is drawn on the fallback device only; the QXL device maps no frame buffer and
  refuses `SystemDisplayEnable`.
* **The BIOS** clears the memory a mode shows when it sets it (function 4F02 with
  bit 15 clear), and memory is retained over D3. The first matters: BlackOutScreen
  remembers the screen as zeroed (2982) even with no frame buffer mapped, and
  clears the tail of the screen from the start of the buffer (2977); the
  clearing done by the next mode set is what keeps `HiddenIsBlack` true.
* **The heap**, in ReleaseHeap, returns blocks that are free and corrupts those it
  is handed back. Module Heap shows the first for `mspace.c`, one call at a time,
  which `m_MemLock` ensures, and for frees of what was handed out and requests
  no larger than the arena; so requests of `MAX_REQUEST` bytes and more, close to
  2^64, which `mspace_malloc` refuses by another test (`mspace.c:2204`), are not modelled.

*Fairness.* Weak fairness for threads inside a function (the scheduler runs
them), for the device's loop, the ISR and the DPC; strong fairness for taking a
mutex, which the kernel grants in order of arrival. Submitting is never fair:
the system may be idle. The device owes progress on memory only after
`QXL_IO_NOTIFY_OOM`, and owes the completion of an asynchronous command.
`ReleaseHeap_live` assumes that the unfinished commands of
all threads leave room for one more block (two threads, two blocks each, three
blocks): otherwise threads holding half-built commands wait for each other, as
they would in the driver on a heap that small.

*Known limits.* With `SharedEvent = TRUE` and `TimedWait = FALSE` the ring can
hang: `WaitForReleaseRing` may consume the auto-reset signal of
`m_DisplayEvent` that a thread in `WaitForCmdRing` (no timeout) needs. No
text of the repository says otherwise, so it is recorded here and as a hazard
(QxlDod.cpp:3945). `CommandRing_safety`, which allows both timeouts and stolen
signals, shows that safety is unaffected.

`OneAtATime` and `ShowsWhatWasAsked` are stated for runs in which no event was
set twice (`~echoed`): if the DPC's exchange falls between the read and the write
of the ISR's `|=`, the DPC signals the bit, the ISR writes it back and a second
DPC signals it again. An `AsyncIo` issued in between returns early.

## 5. What is proved

For every value of the constants that satisfies the modules' assumptions, by
TLAPS. `Spec`/`Safety` is the specification the run of that module uses.

| Module | Theorem | States |
|---|---|---|
| `CommandRing_proofs` | `TypeCorrect` | types |
| | `LockExclusion` | `LockOwner`: a thread inside the lock's section owns it |
| | `RingNeverOverruns` | `NoOverrun` |
| | `WakeupsAreNotLost` | `NoLostWakeup`, if `m_DisplayEvent` is not shared |
| | `KicksAreNotLost` | `NoLostKick` |
| | `RingIsBoundedQueue` | `IsBoundedQueue`: every step is one of CommandQueue or leaves it alone |
| `Interrupts_proofs` | `PathImplementsRing` | `ImplementsCommandRing`: the real interrupt routines keep the bell's promise (its safety) |
| | `WakeupsReachTheThread` | `NoLostWakeup`, with the real interrupt routines (both of DisplayPath) |
| (AsyncIo) | `TypeCorrect` | types |
| | `PendingBitsHaveADpc`, `PendingBitsHoldTheLine` | `PendingHasDpc`, `PendingHoldsLine`: the interrupt path drops nothing |
| | `DeviceHasOneCommand` | `OneAtATime` |
| | `EscapeShowsItsSetting` | `ShowsWhatWasAsked`, which speaks of the time before any wait has timed out or any event was set twice |
| `VgaDisplay_proofs` | `TypeCorrect` | types |
| | `PresentsAreMapped` | `CommittedIsMapped` |
| | `HiddenSourceIsBlack`, `HandsOverBlackScreen` | `HiddenIsBlack`, and `ReleasesBlackScreen` of every step |
| | `ResumeBranchIsDead` | `m_AdapterPowerState` is D0 for ever (see 6) |
| `QxlDisplay_proofs` | `TypeCorrect` | types |
| | `SlotsAreNotLeaked` | `NothingLeaks` |
| | `DeviceIsReady` | `ReadyToDraw`, if `QxlInit` does not fail at power-up |
| | `KeptModesAreSet` | `CommitsAreSet` of every step, under the same condition |
| | `LastTwoAreOffered` | `LastTwoOffered` |
| `VidPnHandles_proofs` | `TypeCorrect` | types |
| | `EverythingIsGivenBack`, `NothingIsMisused` | `NothingKept`, `NoMisuse`, if `FailureClears` |
| | `EarlyQuitsFail` | `EarlyQuitFails`, if `FailureClears` |
| `ReleaseHeap_proofs` | `TypeCorrect` | types, if `NothingLeftOver` |
| | `OneOwnerEach` | `EveryBlockHasOneOwner`, if `NothingLeftOver` |
| | `OnePlaceEach`, `FreesAllocated` | `EveryOutputIsInOnePlace`, `FreesOnlyAllocated`, if `NothingLeftOver` |
| | `OnePowerPeriod` | `NothingLeftOver` holds when the adapter is never power-cycled |
| `Heap_proofs` | `HeapInvariant` | `HeapInv`: the chunks tile the arena, agree with their neighbours, and each free one is filed once |
| | `WellFormedHeap` | `WellFormed` |
| | `HeapKeepsPromise` | `ImplementsHeap`: every call is one of HeapPromise, refusals included |
| `Present_proofs` | `NothingIsKept` | `NothingKept` |
| | `TypeCorrect` | types: nothing is written outside the frame buffer or read outside the mapping, if `VgaPads` holds no more than 0 |
| | `PresentsAreShown` | `ShowsTheDesktop`, under the same hypothesis |
| | `PaddedPresentsAreShown` | both on the QXL device, without it |
| | `AddressesTurnEverywhere` | `CopyBitsGeneric` finds the place of every pixel, for all four rotations and bitmaps of any size |
| | `PutRowsBytes` | the device reads the bytes of the rows it was given, wherever the chunks were cut |

*Arguments.*

* **CommandRing.** Lemmas `GapPush` and `GapPop` settle the wrapping arithmetic once.
  `NoOverrun` is inductive together with `TypeOK` and `LockOwner` (`RingInv`): a
  thread that has seen room holds the lock, so only the device moves before it
  stores, and the device only makes room. `NoLostWakeup` is not inductive: it does
  not say why the sleeping thread's `notify_on_cons` is the right one. `Armed`
  adds that, while the ring stays full, the device has popped nothing since the
  thread read `cons`, so the value the thread stores is that of the very next pop
  (`WakeupInv`). `KickInv` is the mirror image.
* **CommandRing, refinement.** `QueueInv` reads the queue off the slots from `cons`
  to `prod`. Two facts of arithmetic carry it: slots less than a round apart
  differ (`SlotsDiffer`), so a push does not touch the queue before `prod++`; and
  a counter's wrap does not move its slot (`SlotWraps`), because 2^32 is a
  multiple of the ring's size.
* **DisplayPath.** The device's bit is in one of five places (`Held`). The
  routines overwrite a place only when it is empty, or after they have read it
  (`Hands`), so each step of `InterruptRoutine` and `DpcRoutine` keeps the bell
  owed, and the one test that sets `m_DisplayEvent` rings it. `NoLostWakeup` then
  follows from the lemmas about CommandRing, instantiated over the real path.
* **AsyncIo.** `OneAtATime` says nothing of completions the device has sent and
  nobody has seen. The inductive invariant counts them: the `IO_CMD` bits in
  `int_pending`, in the ISR's hands, in `m_Pending`, in the DPC's hands and in the
  event, together with the device's commands, are at most the waits that timed
  out plus the one under way. A place holds one bit at most, and each step
  of the interrupt path moves a bit or merges two, but for the echo.
* **VgaDisplay.** The range remembered as zeroed is right only while a mode is
  committed, because a mode set clears the screen behind its back; and it is
  compared with the screen, so it needs `DispInfo` to describe what is mapped.
  A power-up breaks both, and the next commit restores both, since it maps anew
  and clears what it shows. `Inv` joins the two, each until `reacquired`, and
  that a committed source is started.
* **QxlDisplay.** `TableInv` says what each entry of the mode table is (the
  modes of the ROM in order, then the two custom entries, of which the one last
  replaced is known), `DeviceInv` how the device's state follows from the power
  state. `FirstAndLast` gives the CHOOSE of the default mode its
  witness: a bounded set of numbers has a least and a greatest element.
  `KeptModesAreSet` follows from `RomKept`, that a custom size never displaces a
  mode of the ROM, `CustomEntries`, and `StartedHasModes`: whenever the table was
  last built, what the commit looks up is in it.
* **VidPnHandles.** `NothingKept` speaks of the state after the exit and nothing
  before it. The invariant keeps accounts: until an exit, what dxgkrnl has lent
  of each kind is exactly what the local variables name (`Accounts`), at the exit
  that holds unless a release was refused; and each step says which variables
  name something (`PathIsNamed` and its three companions), so that no step gives
  back what was not lent.
* **ReleaseHeap.** A chain is the least set that holds its head and is closed
  under `next`, so the proofs need no induction: `ChainUnfolds` takes the head
  off, `ChainAppend` adds a tail, and `ChainFrame` says that a link written
  outside a chain leaves it alone. The properties are joined by what makes them
  inductive (`HeapInv`). `Shape` says what a thread holds at each point of
  building a command, and `LockHeld` that only the owner of `m_MemLock` frees or
  allocates. `OneReference` says that the output holds the one reference to a
  pushed command's image, so that `ReleaseOutput` frees the command's blocks and
  no others. `NoCycle` and `HostChain` say that a chain ends, and where the
  device appends to it; without them taking off the head might leave it in the
  chain. `Owners` names each block's owner. The theorems assume
  `NothingLeftOver`: a power cycle finds `m_FreeOutputs` null. What happens
  otherwise is the first finding of section 6, and the code does nothing to
  rule it out; within one power period it holds (`OnePowerPeriod`).
* **Heap.** `HeapInv` is built in layers. `Tiled`, `Aligned` and `Tagged` speak of
  the heads alone, `Footed` adds the feet, `Filed` the place of each free chunk,
  `HeldInv` the callers. Every branch of `mspace_malloc` and `mspace_free` does
  one of three things to the heads: it splits a free chunk, takes one whole, or
  joins a run of chunks. `SplitHeads`, `WholeHeads` and `JoinHeads` settle
  these once, over any function of heads, so that a branch only has to account
  for its filing (`Refiled`). `Tiled` also says that each chunk but the first has
  one before it (`Prior`): `WellFormed` never looks backwards, but
  `mspace_free` does, through `foot`, and `Before` shows what it finds there.
  `tmalloc_large` compares differences of `size_t`; `UnsignedRemainder` shows
  that they never choose a chunk that is too small, and `LargeFound` that a
  `dv` too small is never preferred to a chunk that would do.
* **Heap, refinement.** That a region handed out is new follows from `Apart`,
  which the invariant gives after the step. A refusal needs more. `NothingFits`
  says that every free chunk is too small; `Refusal` takes a run of free bytes,
  the last held chunk before it (`Behind`) and the free chunk after that one, and
  adds up what the run may cover: the unused end of the held chunk, the free
  chunk, and the words in between. The sum would exceed `Slack` in one case: a
  chunk larger than its request needs, next to a top as small as the request.
  `TopRoom` rules it out: such a chunk is a bin chunk or `dv` handed out whole,
  whose neighbour was in use then, so top reached it by swallowing a freed chunk
  and is larger than the smallest chunk. `TopRoom` is kept by every step, given
  `HeapInv`.

* **Present.** The inductive invariant has two parts. `Holds` says what each stage
  of `ExecutePresentDisplayOnly` has taken (context, MDL, lock, mapping), and is
  enough for `NothingKept`. `Presents` follows the pixels. Before the loops the
  screen names its own pixels; after `done` items of `Loops`, the moves and then
  the dirty rectangles, every pixel that no later item covers shows the desktop
  (`DoneFirst`). `ShowsTheDesktop`, which speaks of the screen after the last
  item, is the case in which nothing is left. That an item keeps it
  (`DrawStep`) rests on the blits: each place of a rectangle is written once, with
  the pixel the rotation puts there, and no other place is (`BltBitsShows`, from
  `PlaceUnique` and `ScreenAddress`); a move reads the screen as it was before
  any item, for a present has one move and it comes first.
* **Present, images.** `PutLine` shows that a line put into chunks whose room is
  whole lines is the next line the device draws, whether it still fits or opens
  a chunk of its own, and `PutRowsLines` repeats it for all rows. `CapacityInLines`
  shows that `BltBits` cuts its first chunk that way, also when a single line is
  longer than `BITS_BUF_MAX`. A pointer's chunks may be cut anywhere, as the
  device reads them as bytes (`PutRowsBytes`). These are inductions over the
  number of rows: the set of the numbers for which the fact holds contains 0, and
  with each number the next, and its greatest element (`LastOf`) can then only be
  the last (`Reaches`). The functions that `FlattenSeq` and `PutRows` are
  computed by are shown to exist in the same way (`FlattenStep`, `PutsStep`).

*Assumptions on the constants* are what the code gives: a ring's size divides
2^32 (SpiceRing); for Heap, sizes are whole words (the arena is a number of pages
or a PCI range, 3703), a smallest chunk holds two of
them, large chunks are larger than the smallest, `malloc_state` is itself a chunk
and no smaller than the smallest (mspace.c:2103), a request is no larger than
the arena, and the arena smaller than half of `size_t`. Of Present, two theorems
assume `VgaPads \subseteq {0}`: dxgkrnl hands the fallback device rows without
padding. The code relies on it: it sizes the mapping as width times height (2815)
and steps through it by `SrcPitch`, so with padded rows the last ones are read
past its end, as TLC shows with `VgaPads = {0, 1}`. The QXL device maps
whole rows, and needs no such hypothesis (`PaddedPresentsAreShown`).

Only model-checked: liveness (TLAPS 1.4.5 has no ENABLED reasoning) and the
refinement `RingsEveryBell` (it includes fairness). Every other property of a
passing run is a theorem.

Reproduce: `tlc -config CommandRing_safety.cfg MCCommandRing.tla` and alike;
`tlapm CommandRing_proofs.tla` and alike.

## 6. Findings

**`m_FreeOutputs` survives its heap** (QxlDod.cpp:3444; run `ReleaseHeap_stale`).
After D3→D0 the heap
is new, but the chain left over from before is freed into it by the first
allocation. Reached when more than `num_to_release` outputs of one chain are
finished before a suspend.

Noticed on the way:

* The display may be released with pixels on it (2719). At D0
  `VgaDevice::SetPowerState` overwrites `DispInfo` with the display dxgkrnl reports,
  while the frame buffer of the committed mode stays mapped and the range last
  zeroed is remembered. If the display reported is larger than that range,
  `BlackOutScreen` clears as many bytes as it is larger by, from the start of the
  old mapping (2977), and leaves the rest; and presents draw through the old
  mapping with the new pitch. Both last until the next commit: this is what
  `~reacquired` in `CommittedIsMapped`, `HiddenIsBlack` and `ReleasesBlackScreen`
  leaves open. Without that condition TLC finds the lit screen at once.
* A commit that sets nothing succeeds (1620). `SetSourceModeAndPath` looks the
  size up in the mode table and returns success when it is not there. A custom
  mode leaves the table when `GetModeList` rebuilds it at power-up (3455), or when
  two more custom displays are asked for; committed after that, because it was
  offered before, it creates no primary surface, nor is the old one replaced.
  `CommitMode` has this step; `CommitsAreSet` says for which modes it cannot be
  taken, and does not hold for every offered mode.
* The comment at 305 promises that the source is invisible after D3;
  `m_AdapterPowerState` is never set to D3, so the branch that does it is dead
  (`ResumeBranchIsDead`).
* Three failing returns of `ExecutePresentDisplayOnly` (3795, 3812, 3824) do not
  free the context; `NothingKept` states it as `contexts = failures`.
* The condition on rotation support (1276) tests `!=` where the comment above it
  and the condition on scaling (1260) say `==`.
* A custom display refused for its size still switches `m_CustomMode` (4656), so
  the next one overwrites the mode in use.
* A memory range after the ROM is mapped and forgotten (3397), and `UnmapMemory`
  passes `DxgkCbUnmapMemory` the address of each pointer rather than the pointer
  (3479-3504).
* `InitMspace` does not act on a NULL mspace (3723).
* `Flags.FullscreenPresent` (QxlDod.h:206) is set (1619, 1730) and never read.
* A present on the QXL device that carries moves only maps no byte of the
  source (3790), rightly, as moves are done on the surface.

## 7. Not modelled, and why

Colour conversion in the pixel copies and the contents of mode sets (data, no
order to get wrong); the enumeration of BIOS modes (a loop over firmware calls
that fills the table VgaDisplay's `Sizes` stands for); the bit arithmetic of
`PA` and `VA` (two shifts and an addition, on slots that never change after
`SetupMemSlot`); of `mspace.c` the functions the driver does not call
(realloc, calloc, memalign, trim, footprint, mallinfo) and the tries of the tree
bins, whose induction over data belongs to another method; EDID, registry and
child queries (stateless); the vsync timer (`g_bSupportVSync` is never set, so it
never starts); DDI thunks (dispatch).

## 8. Plan

1. *Done*: all modules of section 2; proofs of CommandRing with its refinement of
   CommandQueue, DisplayPath, AsyncIo (and with it the interrupt path),
   VgaDisplay, QxlDisplay, VidPnHandles, ReleaseHeap, Heap with its refinement
   of HeapPromise, and Present with the chunks and addresses below it.
2. *Next models*: address conversion with generation bits, the BIOS mode
   enumeration, EmptyReleaseRing should it ever be called.
