# A TLA+ verification of GOATos

GOATos is a bare-metal 32-bit x86 kernel: a boot sector in assembly, a Rust
kernel with its own allocators, paging, interrupts, drivers, a small read-only
file system, a cooperative scheduler and a shell. This directory holds TLA+
modules that model it, TLC configurations that check small instances of them,
and TLAPS proofs of the results that matter most for instances of any size.

`PROJECT.json` is the index: components, runs, the source lines behind every
definition (`map`), a mutation of the code for every property, the hazards the
code is exposed to, and the theorems.

## 1. The system

One CPU, no preemption. Concurrency comes from four places: interrupts between
any two instructions while IF is set, tasks that call `yield_now`, devices that
change state on their own (8259, 8042, ATA drive, UART), and the firmware's
answers at boot. Nothing is persisted by the kernel, so there is no crash
recovery; there are no messages to lose except scancodes, serial bytes and
interrupt edges.

| Part | State | Operations | Talks to |
|---|---|---|---|
| Boot sector (`boot/boot.asm`) | handoff block, CHS geometry, load counters | `detect_memory`, `get_disk_geometry`, `load_kernel` | BIOS, kernel entry |
| Memory map (`memory/map.rs`) | regions, `reported` | `load` | boot block, frame allocator |
| Frame allocator (`memory/frame.rs`) | cursor, intrusive free list, `in_use` | `new`, `allocate`, `allocate_contiguous`, `free`, `self_test` | map, paging, heap |
| Paging (`memory/paging.rs`) | directory, tables, CR3, PG | `init` | frame allocator, TSSes |
| Exceptions (`exceptions.rs`, `tss.rs`, `gdt.rs`, `entry.s`) | gates, TSSes, stacks, guard page | `init`s, handlers, double-fault task, catch-all | CPU, every other part |
| Heap (`memory/heap.rs`) | headers and links inside the heap, `used` | `init`, `allocate`, `deallocate` | everything that allocates |
| IRQ mutex (`sync.rs`) | one flag per lock, IF | `with` | VGA, serial, input queue |
| Interrupts (`idt.rs`, `interrupts.rs`, `pic.rs`) | gates, masks, in-service bits, `REPORTED` | `init`, `set_handler`, `unmask`, `end_of_interrupt`, catch-all | drivers |
| Timer (`pit.rs`) | `TICKS` | IRQ0 handler, `seconds` | tasks |
| Keyboard and input queue (`keyboard.rs`, `input.rs`) | `EXTENDED`, `SHIFT`, event ring | drain, IRQ1 handler, `push`, `pop` | shell |
| Scheduler (`task/mod.rs`, `switch.s`) | task table, ready ring, saved stacks | `init`, `spawn`, `yield_now` | all tasks |
| ATA and GOATFS (`ata.rs`, `fs.rs`, `build-goatfs.py`) | `present`, `MOUNTED`, directory | probe, `mount`, `read_file`, `self_test`; the builder's `pack` | drive, shell |
| Serial (`serial.rs`) | the UART slot | `init`, `_print` | shell |
| VGA text and shell (`vga.rs`, `shell.rs`) | cells, cursor, line buffer | print, scroll, `backspace`, line editing, commands | keyboard, tasks |

What makes these hard to test is listed, line by line, under `hazards`. The
main families are: free lists whose links live in memory that owners write to;
state read before an interrupt or an unlock and used after it; spurious and
cascaded interrupts; a level that is high before its edge can be seen; bounded
waits against devices that may stop at any poll; partial failure (frames
exhausted half-way, a directory found bad half-way, a sector that cannot be
read); and arithmetic at limits (rounding to frames, saturating ends, byte-wide
registers, counters that wrap).

## 2. Modules

| Module | Models | Composition |
|---|---|---|
| `FrameAllocator`, `FrameSelfTest`, `MCFrameAllocator`, `FrameAllocatorProofs` | the allocator, any caller, and `self_test` as one of them | its pool is what `MemoryMap` builds |
| `MemoryMap`, `Bootloader`, `Boot`, `MCBoot`, `BootProofs` | E820 walk, loader, `map::load`, `FrameAllocator::new` | `Boot` runs the three in order |
| `Paging` | `paging::init`, step by step | allocator replaced by its specification: any free frame |
| `Faults`, `MCFaults`, `FaultsProofs` | exceptions, the double-fault task, stacks and guard page | over `Paging`: a fault may come at each of its steps; the proofs are about both |
| `Heap`, `HeapProofs` | the kernel heap | |
| `Scheduler`, `RoundRobin` | tasks, ring, context switch | implements `RoundRobin` |
| `Clock`, `ClockProofs` | tick counter, the spawns of `kernel_main` and the three task loops | over `Scheduler`: its operations are the only way tasks take turns; the proofs are about both |
| `IrqMutex` | `IrqMutex::with` under nested interrupts | justifies the atomic prints and pushes elsewhere; its proofs are in `InterruptsProofs` |
| `Interrupts`, `MCInterrupts`, `InterruptsProofs` | 8259s, IDT, boot order, catch-all | the proofs are about it and about `IrqMutex` |
| `Input`, `LossyQueue`, `MCInput`, `InputProofs` | 8042, keyboard driver, ring, shell loop | the ring implements `LossyQueue`; the proofs are about it and about `Terminal`, where the events go |
| `Terminal`, `MCTerminal` | line editor, commands, VGA text, demo output | its proofs are in `InputProofs` |
| `Goatfs`, `Disk`, `Serial`, `Cat`, `MCCat`, `CatProofs` | the image and its builder, ATA + GOATFS, COM1, and boot and `cat` over them | `Cat` runs all of them under the shell |

Conventions. Variables and actions keep the source's names where TLA+ allows;
a definition named `X_something` or commented "Mutant:" just before another is a
plausible bug in the latter and is used by no specification. Data is abstract:
a sector is its address, a byte of output is its place in its piece, a key is a
name. Widths and sizes are constants, so that a small instance meets every
limit.

### How state and actions correspond to the code

*FrameAllocator.* `cursor_region`, `cursor_frame`, `free_list`, `free_count` and
`in_use` are the struct's fields. `link[f]` is the first word of frame `f`,
which holds the next index while `f` is free and whatever its owner writes
otherwise (`OwnerWrites`). The bump loops of `allocate` and
`allocate_contiguous` are replaced by what they find: the first run of
unreserved frames at or after the cursor (`FirstRun`); the cursor ends behind
it, also when the loop stepped over a short tail. `Free` may be called with any
frame by anyone, twice if they like. History variables say who owns what
(`owners`), what was ever handed out (`ever`), and which frames were freed
though nobody had been given them (`stray`). `FrameSelfTest` adds `self_test`,
one action per phase; it may start after any history, not only at boot.

*Boot.* `detect_entry` and `detect_carry` are the turns of `detect_memory`;
`get_disk_geometry`, `read_loop` and `enter_kernel` the loader, with 8-bit head
counts and split cylinder numbers. `load` and `new`, the kernel's side, take
their loops a turn at a time (`load_entry` for the entries, `new_region` for the
regions, `count_allocatable` for the ranges); `index` counts the turns. The BIOS
may have no E820 service, end by carry or by a zero continuation, leave the
attributes of an entry unwritten, report any small geometry and fail any read.

*Faults.* `tss_init` to `interrupts_init` are steps of `kernel_main`, and
`paging_init` runs the steps of `Paging`. Between any two of them the kernel or a
handler may `call`, `ret` or `fault`; the double-fault task may fault; `int_n` is
the software interrupts of the test builds, once boot is over. `deliver` is the
CPU (external): it pushes a frame, with an error code or without, through the
gate that is there, escalates, switches to the double-fault task or resets.
`report_exception`, `mark_reported`, `dispatch` and `double_fault_entry` are the
handlers. Stack pointers are counted in words over the layout of `entry.s`, so
that an overflow reaches the guard page by arithmetic.

*Heap.* `size` and `next` are the two header words at every aligned address.
`AllocateWalk` and `InsertWalk` are single turns of the loops, `AllocateTake`
and `InsertSplice` their last turns with the split, unlink and both merges.
Owners scribble over their payloads. The pointer passed to `deallocate` is a
live one: that is the `GlobalAlloc` contract.

*Scheduler.* `yield_now` is two steps, because the lock is released between the
decision (`YieldDecide`) and the switch of stacks (`YieldSwitch`). `context[t]`
says whether the saved stack pointer of slot `t` leads to the trampoline, back
into `yield_now`, or nowhere (`"stale"`). `flags[t]` is the IF bit on its stack.

*IrqMutex.* `stack` is the call stack of activations of `with` and of handlers;
each instruction of `with` that matters (read EFLAGS, cli, exchange, body,
release, sti) is a step, and a hardware interrupt may come wherever IF is set, a
software interrupt anywhere. IF is set by `enable_interrupts` at boot, by
`restore` at the end of a `with` and by `return_from_interrupt`.

*Interrupts.* Requests, masks and in-service bits of both controllers, an
acknowledge cycle in two halves, and devices that raise and drop lines at any
moment, so that both controllers' spurious interrupts arise by themselves. The
IDT gate of a driver is written in two stores with interrupts on.

*Input.* The 8042 holds one byte and raises an edge only when it goes from empty
to full. `keyboard_interrupt` is the handler with `handle_scancode` and `push`;
`pop`, `drained`, `yield_out`, `yield_back`, `hlt` are the shell's loop.

*Clock.* `spawn_demos` is the end of `kernel_main`; then each task reads the
time, compares, reports and yields, as in `main.rs`. `yield_now` and `switch` are
the two halves of `yield_now` of `Scheduler`, with its ring, stacks and flags.
The timer interrupt comes wherever the CPU has IF set, so only in the shell.

*Terminal.* `write_byte`, `new_line`, `scroll`, `backspace` and `clear_screen`
act on a record [screen, row, column]; `write_string` is the loop over the bytes
of a text, each made `representable` first. `line_buf` is the used part of the
editor's buffer. `Char`, `Backspace` and `Enter` are the three arms of the line
editor, `Enter` with the whole command and the new prompt.

*Cat.* `Goatfs` is `build-goatfs.py`: which lists of files it refuses, and
`pack_file`, one turn of its loop; images nothing packed are mounted too. `build`
runs it before the machine is switched on. `Disk` polls a
drive that may answer, fail or vanish at every poll;
`Serial` offers pieces of a message to a UART that may take some, be full or lack
clear-to-send at every poll; `Cat` orders them: mount, `self_test` and the echo
of its file at boot, then commands.

## 3. What the runs check

Eleven runs pass, one shows a disagreement between the code and its comments.
Run one with `tlc -config <cfg> <module>`. Deadlock is checked in all of them.

| Run | Distinct states | Shows |
|---|---|---|
| `frames` | 225,350 | no frame has two owners; only usable, unreserved frames are handed out; the list inside the free frames is exactly `free_count` distinct unowned frames; the accounts are exact until a frame is freed that nobody had been given; `self_test` fails only for want of frames, and puts everything back when it succeeds |
| `scheduler` | 29,312 | the ring holds every task but the current one; a switch only enters a saved stack; only task 0 runs with interrupts on; the ring is a FIFO round robin; every task runs again and again |
| `heap` | 92,196 | blocks tile the heap and `used` is their live part; two holes never touch; null only when nothing fits; a block holds what was asked for, sizes next to `usize::MAX` included; nothing but its owner changes a live payload; every call returns |
| `irq_mutex` | 123,990 | a lock reads as held exactly while one activation holds it; no hardware interrupt inside a critical section; `with` gives back the interrupt flag; nothing waits for ever |
| `interrupts` | 39,694 | nothing is left in service after a handler, spurious ones included; no delivery meets a missing or half-written gate; every request is taken |
| `input` | 30,586 | scancodes are translated by the last Shift and prefix; the ring is a lossy FIFO that counts what it drops; the keyboard never wedges; every event reaches the shell |
| `faults` | 465,473 | the map is the identity but for the guard page, whatever memory held, with every frame below the cap in it; once `exceptions::init` has run, a fault at any later step of boot, of `paging::init` or of a handler ends in a report, but for the two cases `FaultsAreReported` names; what a report says is true; with paging on no code of the main task runs on below its stack, unless it was there before |
| `clock` | 5,391 | no second is counted twice or early; the turn counts stay within one of each other; every task notices that time has passed |
| `terminal` | 57,899 | nothing stale after the cursor; the row of the cursor is the prompt and the line until another task prints |
| `boot` | 239,240 | the pool is what a byte-by-byte reading of the firmware's map allows; the ranges and the total are what the allocator assumes; the kernel is entered only when wholly loaded; the boot ends |
| `cat` | 80,826 | a read that succeeds is exact, and gives back what the builder packed; the mount is all or nothing, and finds no fault with what the builder packs, names apart; serial output is in order and lost only where the UART refused it; every command returns |
| `clock_wrap` | violation | after the tick counter has wrapped, no second is later than the last one reported, and the reports stop |

### Bounds

- `frames`: ten frames, two regions listed out of order, a reservation inside
  one of them and two outside; runs of two and three frames, so that a run fits,
  is cut by the reservation, or is cut by the end of a region. Initial memory
  looks like a long list, so a walk that leaves the list does not stop by luck.
  `self_test` takes three frames, the fewest its phases need.
  The state space is finite with no bound on the number of calls.
- `scheduler`: the code's own table size, four. `TURNS` counts modulo five.
- `heap`: seven cells, headers of one cell, so three blocks at most with holes
  between them: splitting, exact fit, a remainder too small for a payload, and
  merging left, right and both ways all happen. `usize` has 32 values and
  requests of 29 and 31 overflow at the rounding and at the header.
- `irq_mutex`: two locks, two interrupts at any depth (`MAX_INTERRUPTS`); the
  proofs remove the bound.
- `interrupts`: five lines (timer, keyboard, both spurious lines, another slave
  line) and three edges (`MAX_EDGES`): one can be in service, one spurious and
  one waiting.
- `input`: four bytes (`MAX_BYTES`) plus one the firmware left, a ring of two:
  enough to fill it, lose an event and wrap both indices.
- `faults`: three entries per table, frames of two bytes; no usable memory, pools
  that run out before the directory, the first and the second table, and one just
  large enough for memory that reaches beyond the cap. Pages of four words, a
  stack of one page, calls of two and of five words, the latter larger than a
  page. Eight vectors: with and without error code, owned and left to the
  catch-all. Two exceptions or software interrupts (`MAX_FAULTS`), so that a
  handler can fault.
- `clock`: the three tasks in a table of four, two ticks a second, seven ticks
  (`MAX_TICKS`) counted; after that ticks still wake the CPU. `TURNS` wraps at
  five. `clock_wrap`: a counter of seven values that wraps without end.
- `terminal`: three rows of four cells, seven keys or lines (`MAX_EVENTS`): the
  line fills up, wraps and scrolls.
- `boot`: frames of four bytes, a 24-byte "32-bit" space in a 40-byte "64-bit"
  one, a block of two entries; all maps of up to three out of twelve awkward
  entries and every single region; bytes of four values, so that a cylinder
  number needs its high bits and a head count overflows. Maps and geometries are
  not multiplied with each other: the two halves share no state.
- `cat`: sectors of two bytes, files of up to three sectors, ten images good
  and bad and those packed from twelve lists of files, two polls per wait; the
  number of commands is not bounded.

No symmetry is used: the values that could be permuted are too few to matter.

### Fairness

- `Scheduler`: weak fairness of the two halves of `yield_now`. Every task's loop
  in `main.rs` yields on each turn, and nothing blocks in between.
- `Heap`, `IrqMutex`, `Interrupts` (boot and CPU), `Input` (kernel), `Clock`
  (tasks), `Boot`, `Cat`: weak fairness of the next instruction of the code that
  has the CPU. Nothing is assumed of callers, devices or the person typing.
- `Faults`: weak fairness of delivery and of the handlers: the CPU executes the
  handler it has entered, and none of them waits for anything.
- `Interrupts`: the CPU takes an interrupt that stays requested (in `Cpu`).
- `Input`: strong fairness of entering IRQ1. IF goes on and off as tasks are
  switched; the 8259 keeps the edge latched and the CPU looks at it at each
  instruction boundary with IF set. Weak fairness of a timer tick that finds the
  CPU halted: the PIT is periodic.
- `Clock`: weak fairness of the timer. `PromptSpec`, used by `clock_wrap` only,
  adds that the shell reads each value of the clock each time round: without it
  the reports could stop merely because the shell slept through them.

### Disagreements with comments

`clock_wrap` is the one kept as a run. `main.rs` compares seconds with
`second > last_second`, while `pit.rs` says of the counter behind them that
"Wrapping is fine".

Others met while modelling are not runs; the models follow the code, and the
properties are stated so as to be true of it:

- `allocate_contiguous` leaves frames it steps over behind the cursor. They are
  not handed out again, though the pool counts them; and `free` accepts them,
  although nobody was given them. `Accounting` is therefore conditional on
  `stray = {}`.
- A task started by `spawn` runs with IF clear for good; the comment in
  `yield_now` speaks of restoring it. `OnlyTaskZeroIsInterruptible`, a conjunct of
  `SwitchesAreSound`, states what happens; `Clock` inherits it and `Input` relies
  on it.
- `detect_memory` stores the number of entries kept, so
  `MemoryMap::truncated` is never true; and the signature is written without
  E820 too, so `available` is true with no map.
- The map of `paging::init` ends one directory entry below 4 GiB, while frames
  are allocated up to 4 GiB ("every usable frame below 4 GiB").
- One `SHIFT` flag stands for two keys: with both held, releasing one clears it.
- `ata.rs` turns every error of `wait_for_drq` into `Timeout`.
- `serial.rs` goes on with the next piece of a message after giving one up.
- `idt.rs` says of the table that it "is only mutated with interrupts masked";
  the drivers register after `interrupts::enable`. What makes that sound is that
  their own lines are still masked (`DeliveredGatesAreWhole`).
- `interrupts.rs` says that a stray interrupt on a missing gate would escalate to
  a double fault, `main.rs` "straight to a double fault". By the CPU's rules it is
  a general protection fault, for which `exceptions::init` has a gate.
- The catch-all claims the report of a vector before it prints it. An exception
  that recurs inside its own report halts in silence; `FaultsAreReported` names
  the case.
- `entry.s` says that an overflow "faults instead of scribbling into the DF
  stack". Functions with 4096 bytes of locals (`fs.rs`, `shell.rs`, the echo in
  `main.rs`) have frames larger than the guard page, so that the first write of
  one may land below it. `OverflowStopsAtGuard` says that such a call still does
  not go on.
- `frame.rs` says that `self_test` "returns everything"; when the pool runs out
  half way it keeps what it has. `SelfTestIsTrue` asks for it back on success only.
- `build-goatfs.py` packs names with blanks or control characters, which `mount`
  refuses.
- The tick in the shell's report may be later than the second beside it.
- A demo's line may land in the middle of the line being typed; `EditIsShown`
  is about the time until it does.

## 4. What is proved

Eight modules hold proofs, all checked by `tlapm` to the last leaf, for every
value of the constants that satisfies the `ASSUME`s of the component's module.
Every safety invariant of a passing run is among the theorems.

**`FrameAllocatorProofs`.** Assumptions: `FrameAssumption` (frame numbers, a
sentinel that is no frame, memory holding any words) and `RegionsAssumption`
(ranges non-empty, below the limit and disjoint; `BootProofs` shows that
`FrameAllocator::new` delivers this when the firmware's regions are disjoint).
The inductive invariant `IInv` adds to the type invariant, `SingleOwner` and
`OwnedIsManaged` the existence of a *chain*: an injective sequence of
`free_count` frames, spelled out by `free_list` and the links inside the frames,
each managed, passed by the cursor and unowned. The chain is needed because
nothing else says that a walk through memory that owners write to ends where
`free_count` says. `WalkIsChain` shows that the walk of `on_free_list` visits
exactly the chain, so a frame `free` accepts is not on it; an owner's write is
outside it; a frame at the cursor has not been passed, so it is neither owned
nor on it. From `IInv` follow `TypeCorrect`, `FramesHaveOneOwner`,
`FreeListStaysSound` and `CursorNeverMovesBack`.
`AccountingIsExact` strengthens it: while `stray` is empty, `in_use` is the
number of owned frames and what was ever handed out is what is owned or in the
chain.
`SelfTestIsACaller` shows that every step of `self_test` is a step of the
allocator's callers or a stutter, so all of this holds while it runs.
`SelfTestVerdict` is about its answer, from any state its callers left, and for
three frames or more (`SelfTestAssumption`). `Verdict` keeps its books: what is
owned is what was owned before and the frames the test holds, `in_use` counts
them, those it gave back are the head of the list, newest first, and while it
takes frames those still to be had (`Available`: in the list or ahead of the
cursor) and those it took make up what there was. So it runs out only when
there were too few, and its two frees, the reuse and the refused third free
come out as it expects.

**`HeapProofs`.** Assumptions: sizes and addresses are multiples of the
alignment, and the heap ends below `usize::MAX`. `HeapInv` says that the links
spell out the holes in address order (`List`), that holes, live blocks and the
block being freed tile the heap (`Tiles`), that no two holes touch, that a live
block has room for what was asked (`Fitted`), and where a walk is: every hole
that fits is still ahead of `allocate`, and `insert_free` is before its place
(`Walk`). `HeapIsTiled`, `HeapIsCoalesced`, `NullMeansFull` and
`HeapKeepsPayloads` follow. `HeapIsAccounted` adds that `used` is the number of
bytes in live blocks. A sum over the blocks would need induction; the number of
their bytes does not, since the blocks of a tiling share none, so that one more
block adds exactly its size (`BytesAdd`).
`WalksEnd`: a turn of a walk goes on at a hole further up, since `Walk` puts it in
the list and `List` orders that. So each walk ends; what `CallsReturn` adds is that
its turns are taken.

**`ClockProofs`.** First the scheduler. Assumption: at least one slot. `IInv`
relates the ring to the table (`QueueHoldsTheRest`, `TASK_COUNT` is the ring's
length plus one and the number of tasks), the CPU to the table (`on_cpu` is
`current` except inside a switch; every other task has a saved stack) and the
flags to the tasks (all saved flags but task 0's are clear). The counting
conjunct is what shows that there is room in the ring. `NoTaskIsLost`,
`EverySwitchIsSound` and `TypeCorrect` follow; `RefinesRoundRobin` shows that
each step is a spawn, a yield or a stutter of `RoundRobin` under the mapping
that reads the ring from its head.
Then the clock. Assumptions: the tasks fit in the table.
`ClockUsesTheScheduler`: the composition implements `Scheduler`, so
what is proved of that holds here. `TurnInv` says that either the demos are still
being spawned, or the queue is the ring behind the current task and there is a
number `T` such that the tasks this round has reached have had one turn more than
`T` and the others `T`; the order of the queue is what makes the counts
inductive. `TurnsAreFair` follows, for any number of tasks and width of the
counters. `CountInv` orders what each task has counted, reported and read;
`CountsAreRight` follows as long as the tick counter does not wrap
(`MAX_TICKS < U32`), the case `clock_wrap` is about.

**`InputProofs`.** First the queue and the driver. Assumptions: a ring of at
least one slot; letters, other keys, Shift and the prefix are different bytes.
`RingInv` says that `head` is `tail + len` modulo the capacity (`IndicesAgree`).
With it each step of driver and shell is a push, a pop, a drop or a stutter of
`LossyQueue` (`RingRefinesQueue`).
`TranslationIsCorrect`: `KeysInv` says that `EXTENDED` is set exactly behind a
prefix and that `SHIFT` is what the last unprefixed Shift byte left, whatever
came in between. The property speaks of positions in the bytes seen, so that one
byte more changes nothing for the earlier ones and no fold has to be unfolded.
Then the terminal. Assumptions (`TerminalAssumption`): a screen of any size, on
whose rows the prompt and a full line fit; keys are not newlines, the prompt is
printable, and what `help`, `about` and `cat` print ends in a newline, as
everything in `shell.rs` that goes through `vga_println!` does.
`TheLineIsOnTheScreen`: `TerminalInv` says that the writer is in its rectangle
with nothing behind the cursor (`Good`), that the line fits its buffer, and that
until another task prints the row of the cursor reads the prompt and the line.
What is not an induction over steps here is `write_string`, which handles a text
of any length, wrapping and scrolling anywhere in it, in one step. `LoopRuns` and
`LoopIsOne` show that the loop has exactly one run, by looking at the least
length for which it would not, and that all of that run is in `Good`; `Prints`
that a text ending in a newline leaves the cursor at the left edge; and
`PromptIsRead` that from there the prompt stands on one row.

**`InterruptsProofs`.** First the controllers and the table. Assumptions: drivers
have lines of their own, none a controller's last. `Inv` says what is in service
at each stage of an acknowledge cycle, spurious ones included (`InService`), and
that a gate may be half written only while its line is masked (`Gates`).
`NothingStaysInService` and `GatesAreWhole` follow for any lines, drivers and
number of edges.
Then the lock that keeps handlers and the code they interrupt apart. Assumption:
a set of locks, of any size, and any number of interrupts. `IInv` adds to
`LockedWhileHeld` where IF can be set (`IFSet`: only with nothing on the stack,
or below a `with` that has not yet masked) and what each activation has recorded
of IF (`FlagsOK`). `LockIsHeldByOne`, `CriticalSectionsAreMasked` and
`InterruptFlagIsRestored` follow for any depth of nesting.

**`FaultsProofs`.** First `paging::init` alone. Assumptions: the pool is usable
memory and the guard page is not in it. `Inv` says that the first `table_index`
entries of the directory name finished tables that are neither free nor the
directory, that the others are absent, and that the TSSes and then CR3 get the
directory only after the last table. `PagingIsIdentity` follows for every size
of table and memory map, and `TaskSegmentsFollow`: with paging on, both TSSes
carry its directory.
Then with faults between any two steps. Assumptions: the guard page and the
stack above it lie below the first table's end and outside the pool; the five
vectors the code names exist. `FaultsKeepTheMap`: each step of `Faults` is one of
`Paging`, or leaves its state alone; the task switch of a double fault loads the
directory that is there already. `ReportsTellTheTruth`: `ReportInv` says what
every handler on the stack knows of its fault, that the gates have the shape
their vectors need (an error code is popped exactly where the CPU pushes one),
that while a vector is delivered the code and stack it was raised with are still
the CPU's, and that the double-fault task finds them in the main TSS.
`GuardPageHolds`: `StackInv` says that with paging on the main task's own code,
the software interrupt it raises and the handler that will return to it are
above the guard page, unless they were below before paging was on.

**`BootProofs`.** Assumptions: the firmware's entries are 64-bit numbers, in any
order, overlapping or not; reserved ranges are not empty; the last frame is
within 64 bits. `MapWay` follows the map stage by stage: the block holds the
entries told, with attributes preset (`BlockInv`); the map exactly those that
`load` keeps (`MapInv`); the pool exactly the ranges of the usable ones
(`PoolInv`); `total` is the number of frames of the ranges counted so far, if the
firmware's regions are disjoint (`CountInv`). The rest is rounding: a frame lies
in `inside` of a region exactly if each of its bytes lies in the region, and in
`covering` of a reserved range exactly if one of them does, the saturated ends
included. `PoolIsRight` follows.
`KernelIsComplete`. Assumptions: heads fit in a byte plus one, sectors in a byte,
the kernel within the cylinders that ten bits can name, and within memory
(`BootloaderAssumption`). `LoadInv` says that the sectors read are in their
places and that the next address is the one behind them; what it needs is that
the quotients and remainders computed through bytes name the same sector as the
block address. A head count that does not fit is what stops the loader in a
divide fault, and no kernel is entered then.

**`CatProofs`.** Assumptions: sizes, limits and the types of files and images;
no image has to be a good one. `PackInv`: each entry packed is placed behind
the ones before it, and the data there is its file's. `TransferInv`: what the
driver has and what the drive will still deliver make up the command; `FileInv`:
which file is being read. `FilesAreExact` follows, for a drive that may fail or
vanish at each poll. `MountInv` gives `MountIsAtomic`.
`PrintsAreFaithful`: `RestInv` says that what remains of a piece is its end and
the rest of it has gone out, `PieceInv` that nothing of a later piece has and, if
the UART refused nothing, all of the earlier ones, `OrderInv` that bytes go out in
order, each behind the one before it in its piece.
`WaitsAreBounded` is why commands return. `Work` is what the kernel has still to
do: its phase, then sectors, steps and polls of the read, then pieces, bytes and
polls of the print, compared in that order. `FlowInv` says that the polls counted
are below their limits and that drive and UART are only waited for in the phases
that do; with it and the invariants above each step of the kernel lowers `Work`,
no step of the drive touches it, and a command is typed only at the prompt.
`WorkIsFinite` and `WorkIsWellFounded` say that this cannot go on for ever. What
`CommandsReturn` adds is that the kernel has a next step until then, and takes it.

The library's induction theorems cannot be used, since they take an operator as
a parameter. Where a proof needs a least element it uses `WFMin` on the natural
numbers: for the first frame of a chain or byte of a text with some property, and
for the least number of turns after which a loop would go wrong. Other loops are modelled a turn at a time, so
that the induction is the one over the steps.

### Only model-checked

- Liveness (`EveryTaskRuns`, `BodiesFinish`, `CallsReturn`, `RequestsAreTaken`,
  `BytesAreRead`, `EventsReachTheShell`, `SecondsAreNoticed`, `BootEnds`,
  `CommandsReturn`, `FaultsAreReported`), and the fairness half of
  `ImplementsRoundRobin`: TLAPS does not reason about fairness here. Of
  `CallsReturn` and `CommandsReturn` the part without fairness is proved, as
  `WalksGoForward` and `WorkRunsOut`. These two, and `CursorMovesForward`, are
  proved for every instance and left out of the runs.

## 5. What is not modelled

- `framebuffer.rs`, `graphics.rs`: each fills a buffer with one value.
- `memory/layout.rs`: no module of the kernel includes it.
- The self-test of the heap: a fixed sequence of calls that `Heap` makes in every
  order. Those of the frame allocator and of GOATFS are modelled.
- Wording, colours, banners and `Display` implementations.
- A20, the video mode and the switch to protected mode in `boot.asm`, the divisor
  of the PIT, the flat segments, the bit layout of gates and descriptors:
  constants and straight-line code.
- Interrupts inside exception handlers, and how deep the kernel's own calls go:
  `Faults` lets any code call to any depth instead.
- Makefile, test scripts and web demo, which run on the host.

## 6. Plan

Done in this order: frame allocator and its proofs; scheduler, its abstract
round robin and proofs; heap; IRQ mutex and proofs; interrupts; input; boot and
map; paging; storage and serial under `cat`; clock; terminal; faults over paging;
the clock over the scheduler; the self-tests of frames and GOATFS and the image
builder; proofs for paging, interrupts, heap, clock and input; proofs of the
self-test's verdict, the heap's accounts, the keyboard's translation, the fault
reports and the guard page, the boot's pool and kernel, and of storage and serial;
the proofs that the line being edited is on the screen, and that the heap's walks
and the kernel's waits end.

Left:

1. `Input` over `Scheduler`, as `Clock` is, so that the flag with which the
   shell's loop resumes comes from one specification.
2. `Terminal` behind `Input`, so that the keys typed are the events the queue
   delivered.
