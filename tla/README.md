# Verification of the hdh operating system simulator

TLA+ models, TLC runs and TLAPS proofs for the simulator in `src/` (C, pthreads):
CPU threads that run small programs, a loader, a multi-level queue scheduler, a timer
that paces all of them slot by slot, and a paged memory behind a system call.
The build that is modelled is the one of `include/os-cfg.h`: `MLQ_SCHED`, `MM_PAGING`,
`MM64`, compiled without optimisation (`Makefile`, `CFLAGS`), so that each read of a
shared variable in the source is a read of memory.

Paths below are relative to the repository; `os.c` is `src/os.c`, and so on.
`PROJECT.json` names, for each definition, the lines it stands for.

## 1. Inventory

| part | code | state | operations | used by |
|---|---|---|---|---|
| timer | `timer.c` | device list; per device `done`, `fsh`, two mutexes, two condition variables; `_time` | `attach_event`, `start_timer`, `next_slot`, `detach_event`, `current_time`, `stop_timer` | main, CPUs, loader |
| scheduler | `sched.c`, `queue.c` | `mlq_ready_queue[140]`, `slot[140]`, `running_list`, `queue_lock` | `get_proc`, `put_proc`, `add_proc` | CPUs, loader, system call 17 (reads) |
| CPU thread | `os.c` `cpu_routine` | `proc`, `time_left` | fetch, run one instruction, put back, free, stop | timer, scheduler, interpreter |
| loader thread | `os.c` `ld_routine`, `loader.c` | `i`, the flag `done` | load, wait for the start time, add | timer, scheduler |
| interpreter | `cpu.c` `run` | `pc` of the process | calc, alloc, free, read, write, syscall | CPU threads |
| system calls | `syscall.c`, `libstd.c`, `sys_mem.c` | none of its own | 0 lists, 17 is `__sys_memmap` | programs, `__alloc` |
| regions | `libmem.c`, `mm-vm.c` | `symrgtbl`, `vm_freerg_list`, `sbrk`, `vm_end`, `mmvm_lock` | `__alloc`, `__free`, `inc_vma_limit` | interpreter |
| page table | `mm64.c`, `mm.h`, `bitops.h` | five levels of tables, 64-bit entries | `pte_get_entry`, `pte_set_fpn`, `pte_set_swap`, `vmap_page_range`, `vmap_pgd_memset`, `print_pgtbl` | pages, system call 17 |
| pages | `mm64.c`, `libmem.c` | FIFO of the pages in RAM | `vm_map_ram`, `pg_getpage`, `find_victim_page` | regions, `__read`, `__write` |
| devices | `mm-memphy.c` | storage, `free_fp_list` | format, get and put a frame, read, write | pages |

All threads share one scheduler and, in this build, **one `mm`**: the regions, the page
table and the FIFO belong to all processes together (`os.c:247`).

What is hard here: the handshake of the timer uses one flag under two mutexes; a CPU
gives a process back and fetches the next one in two critical sections; its decision to
stop reads a flag without a lock; system call 17 scans the scheduler's list without the
scheduler's lock, and programs can make it without the memory lock, so that walks of the
page table and changes of the frame lists overlap; page numbers of two page sizes share one
page table; several results are never looked at.

What makes each part correct:

* timer: lockstep, no lost wake-up, nothing freed that is in use, every wait ends;
* scheduler, CPUs and loader: no process lost, duplicated or starved; one instruction
  per slot; no CPU idle next to work; nobody stops too early; everybody stops;
* look-up of the caller: a running process is found;
* regions: no byte with two owners, none lost, the break within the limit;
* pages: a frame or swap frame has one page; what is written is read back;
* page table: the tree of tables is one entry per page; no table is lost, no page gets
  another's entry.

## 2. Modules

| module | models | built on |
|---|---|---|
| `SlotBarrier` | what the timer promises: an abstract barrier | |
| `Timer` | `timer.c` and main's use of it, per critical section | implements `SlotBarrier` |
| `Queue` | `queue.c`, as operators on sequences | |
| `Sched` | `sched.c` | `Queue` |
| `ProcessLife` | what the system promises about a process | |
| `OS` | `os.c`: CPU threads and loader; the ways `load` ends | `Sched`, `SlotBarrier`; implements `ProcessLife` |
| `Memmap` | `sys_mem.c`: the look-up, entry by entry, against `purgequeue` | |
| `Heap` | what an allocator of named regions promises | |
| `Regions` | allocation: `libmem.c`, `mm-vm.c` | implements `Heap` |
| `Entries` | a page table entry as a record of flags and numbers | |
| `Words` | the 64-bit words, their masks and `SETVAL`, `GETVAL`, `SETBIT`, `CLRBIT` | |
| `FlatTable` | what a page table promises: one entry per page | `Entries` |
| `PageTable` | the walks of `mm64.c` over the levels of tables, slot by slot | `Words`; implements `FlatTable` |
| `Pages` | entries, frames, swapping: `vm_map_ram` and `pg_getpage` as one step each | `Entries` |
| `Memory` | alloc, free, read, write and the operations of system call 17 | `Regions`, `Pages` |
| `Mapping` | `vm_map_ram` and `pg_getpage` access by access, without and with the lock | `Entries` |
| `MC*` | constants for TLC | |
| `SeqLemmas` | lemmas about sequences | |
| `TimerProofs`, `OSProofs`, `MemmapProofs`, `RegionsProofs`, `PageTableProofs`, `MemoryProofs`, `MappingProofs` | the theorems | the module they name |

Definitions whose comment begins "Faulty variant" are changed forms of the definition
that follows; they are used by no specification. They show that the property a run
checks notices the mistake.

### Timer

`mpc`, `tpc` and `dpc` are the places of main, the timer thread and the devices. A thread
never holds two mutexes, so the code from a lock to its unlock (or to the wait that gives
the mutex up) is one action: `NextSlot` sets `done` under `event_lock`, `TestDone` tests
it under `timer_lock`, `TimerCount` and `TimerSleep` are the two ways through the scan,
`TimerRelease` clears `done`. Waits may end spuriously (`TimerSpurious`,
`DeviceSpurious`). `fsh` and `done` of a device are read by the timer under one mutex and
`done` written under another: the actions interleave freely.

### Scheduler and OS

`GetProc`, `GetNone`, `PutProc` and `AddProc` are the three calls, each under
`queue_lock` from end to end. `GetProc(p)` resets the budgets when no queue with
processes has slots, serves the lowest-numbered queue with both, and takes the first of
its processes with the lowest `priority`. In `OS` a CPU is at the `"top"` of its loop, at
the second `"get"`, at the re-`"check"`, or `"stopped"`. The recheck and the run that
follow a `get_proc` touch only the thread's own variables and the flag `done`, so `Stop`,
`Skip` and `Run` each include the barrier step that ends the round. `Run` is `run(proc)`,
`time_left--` and `next_slot`. `Finish` keeps the process in `running_list`, as the code
does. The slot barrier is the module `Timer` implements; the clock saturates at the last
start time, since the loader only compares it with start times.

`time_slot` is one of the values of the configuration, 0 among them: then `time_left`
falls below zero at the first instruction and is never 0 again. `missing` is the first
program that `load` cannot read, if any: `LoaderExit` is the `exit(1)` of the loader
thread, after which nothing happens (`exited`). `used` counts the calls of `run` since a
CPU got its process (history).

### Look-up of the caller

`Memmap` keeps `running_list` as array and size. `PurgeSearch`, `PurgeShift` and `PutEnd`
are the turns of `purgequeue` under the lock; `LookupTest` and `LookupRead` those of the
scan, which takes no lock. An entry of a freed PCB is read too (`LookupStale`): any value
can come back, so the look-up may stop there. Which process a CPU gets is left open.

### Regions

`Regions` has the names (`symrgtbl`), the free list, the break and the limit. `__alloc`
either reuses a freed region (`AllocReuse`: first fit, and the copying of the next node
into the one that is used up, with the empty last node) or makes the system call
(`AllocGrow`, then `IncRead`, `IncAdd`, `IncWrite`, `IncMap`, then `AllocEnd`, which
ignores the result). Programs may call it themselves, without `mmvm_lock`: `UserInc`.
`LookupMisses` says whether `Memmap`'s failure can occur (`NotFound`).

### Page table

`Words` takes a word as the set of its bits and the masks as sets of the lower 32, because
they are `unsigned int`: `CLRBIT` and `SETVAL` clear the upper half of an entry.
`PageTable` has the tables by number, `slot[t][i]` (0 for a null pointer, `Wild` for what
`malloc` has left) and `word[t][i]` of the last level. A walk looks at a slot
(`SlotSet`, `SlotZero`), allocates a table, clears it and follows the slot, each an
action of its own; so two walks without the lock can both allocate the table of one slot.
`malloc` may give nothing (`MaxTables`); a walk that follows null or `Wild` is the action
`Crash`, behind which the walk does not go on. A program's INC and MAP come without the
lock (`UserCalls`), the walks of `pg_getpage`, of `__alloc` and of `print_pgtbl` with it.
The histories are `raced` (two walks have overlapped) and `part` (which pages a table was
allocated for, which `PageTableProofs` needs). `TableOf`, `WordOf` and `Decode` are the
refinement mapping to `FlatTable`: a slot whose table is not cleared yet counts as zero.

### Memory

`Entries` keeps of an entry the flags PRESENT and SWAPPED and the bits 0..25, where the
frame number (bits 0..12) and the swap offset (bits 5..25) overlap: that is how a page
that was swapped out is afterwards read at a frame that is not its own. `Pages` takes one
entry per page, which `PageTable` implements as long as no two walks overlap. `MapRam` maps
in pages of `PageSz` bytes, the access divides by `FrameSz`. Addresses beyond the bus read
as low ones (`BusPgns`, the 22 bits of `PAGING_PGN`). `Memory` puts regions and pages
together and adds SYSMEM_MAP_OP (`UserMap`) and SYSMEM_IO_WRITE (`UserIoWrite`).
SYSMEM_SWP_OP and the swapping write the storage of the swap device, but no code reads it
into RAM, so that it has no variable. `last` and `regular` are the histories: what was
written last, and whether the use was such that the program can keep its promises.

Left out of `Memory`: the registers (`proc->regs` only mirror the addresses and nothing
reads them in this build) and printing.

### Mapping

`Mapping` takes `vm_map_ram` and `pg_getpage` apart. A list of free frames or of pages is
a linked list; nodes do not change except for the last of the FIFO, so a pointer is the
list from that node on, and a process that has read the head holds such a list (`hold`).
`ReadFree` and `Take` are the two halves of `MEMPHY_get_freefp`, `FreeNode` its `free`;
`PutRead` and `PutBack` those of `MEMPHY_put_freefp`; `Enlist` and `Link` those of
`enlist_pgn_node`; `ReadFifo` and `Unlink` those of `find_victim_page`; `Evict` and `Give`
the two entries. `raced` names what two processes have been at, at once: `"frames"` or
`"fifo"`, the head of a list, and `"page"`, a fault for a page that a growth has still to
map. `undefined` is set when a node is freed that another process or a list still has;
there the exploration stops. The change of `vm_end` is atomic here (`Grow`): `Regions` has
its accesses, `PageTable` those of the entries.

## 3. Runs

| run | instance | distinct states | shows |
|---|---|---|---|
| `timer` | 2 CPUs and the loader, 2 slots each | 19 thousand | every property of `Timer`, and both halves of the barrier |
| `os` | 3 processes, 2 CPUs, 2 priority levels, `time_slot` 0 or 2, programs of 0 and 4 instructions, start times 0 and 1, a program that cannot be read | 470 thousand | every property of `OS` |
| `memmap` | 2 CPUs, 3 processes, an array of 3 | 650 thousand | the look-up |
| `regions` | 2 processes, 2 names, sizes 1..3, growth by programs, failing calls | 1.7 million | overlap, loss, `Heap` |
| `memory` | 2 names, allocations of half a frame, a whole one and more, 3 frames of RAM and 2 of swap, a bus of 3 pages, 7 bytes of 2 values, growths of 2 and 4 pages, MAP and IO_WRITE by the program, failing calls | 2.9 million | data kept, pages backed, frames and swap frames accounted for |
| `pagetable` | 2 processes, 3 levels of 2 slots, 4 tables, 2 pages and their successors (one beyond the bus), 3 calls | 1.0 million | `FlatTable`, no lost table, no wild pointer, no shared entry |
| `mapping` | 3 processes, 2 frames of RAM, 2 of swap, 5 pages, growths of up to 3 pages, 5 calls | 1.5 million | each frame at one place, victims, freed nodes |

Each of these passes. Why the bounds are enough: with three devices the timer has a head,
a middle and a tail to wait for, and two slots let one device be a whole slot ahead; three
processes on two CPUs are the least with both a preempted and a waiting process, and a
program of four instructions takes two quanta; three entries let a purge shift two; two
names and a free list that splits and joins reach every branch of `get_free_vmrg_area`.
Three levels have a first, a middle and a last table; four tables are one more than the
way to a page takes, so that two walks that race for a slot both get one, and a walk
elsewhere then finds no memory. In `mapping` a third process can come between the two halves
of two others, and a growth of three pages finds only two frames and gives both back.

In `memory`, the area is mapped in pages of two frames (`PageSz` 4, `FrameSz` 2; 4096 and 256
in the code). Three frames hold three growths of a whole frame each within the condition of
`DataKept` and `Backed`. Regions then lie on three pages, straddle two, take a whole frame or
half of one, are freed and cut again; bytes 2 to 5 are on another page than their address
divided by `PageSz`, and bytes 4 and 5 on the last page of the bus. A growth of two pages by the
program enters its frames in the reverse order. Two mutants need that much: one maps under the
page number of the accesses, which differs from the right one only from the second growth on,
the other loses the last page of the bus. Beyond the condition, a growth of two pages finds one
frame and gives it back, one of four pages fails where three frames are free, and the allocations
behind it map pages 4 to 6 while the accesses fault on pages 0 to 2: they take both swap
frames, then fail and take pages off the FIFO. Byte 6 is page 3 and, on the bus of three, page
0. All of this happens while `regular` holds. `MCMemory` keeps the instance small with two bounds
of its own: one-byte regions start at address 0 (`OneByteFirst`), so that what follows straddles
frames, and data are written while `DataKept` has something to say of them (`WritesObserved`):
the other properties do not depend on data, and a write does to pages and frames what a read
does.

The bound `MaxSbrk` stops allocation, `MaxEnd` the growth of the area, `MaxSlots` the
calls of `next_slot`, `LastStart` the clock, `MaxPgn` the entries of the page table (the
area grows over the pages there are, `Room`),
`MaxCalls` the calls of `PageTable` and `Mapping`, `MaxRange` the pages of one of them.
Deadlock is checked in every run: a CPU that has nothing to do goes on skipping slots,
`Timer!Finished`, `OS!Exited` and the two `Stopped` stand for the end.

`DataKept`, `Backed` and `FramesAccounted` have the
condition `regular`: no allocation of more than `FrameSz` bytes, no failed system call in
an allocation, no MAP or IO_WRITE by a program. It is not a convenience: without the first
`RangeMapped` (below) fails, and `DataKept` and `Backed` with it; MAP writes a pattern that
names any frame. The first two also ask for a frame for every page (`RamSuffices`); the
third does not, and the instance goes beyond it.

In the same way `PageTable`'s properties but `EntryOfPage` exclude walks that have
overlapped, and those of `Mapping` the overlaps each of them names: without the exclusion
TLC finds each violated by two programs that make system call 17 at once, or by one next
to an instruction under the lock. So these properties say when the races do no harm, and do
not catch the races themselves: the entries and tables lost in them, the wild pointer that
`print_pgtbl` may meet, a `malloc` without memory. Nor does `EntryOfPage` tell pages apart
that differ only beyond the bus. The hazards in PROJECT.json say for each what is left.

### What the repository says and the program does not do

| run | source | what happens |
|---|---|---|
| `os_stops` | `os.c:265` | a CPU that idles when the last process ends never looks at `done` again; main waits for ever |
| `memmap_miss` | `sys_mem.c:30` | the shift of another purge hides the caller from the scan |
| `regions_page` | `libmem.c:131` | pages passed for bytes: the region ends beyond the limit |
| `memory_swapin` | `libmem.c:376` | a swapped page counts as present and is not swapped in |
| `memory_range` | `mm64.c:392` | a mapped range is found only at a sixteenth of its addresses' pages |

Each of these runs checks one property and ends with its counterexample. Seen in the
models without a run of their own:

* `sched.c:70` bounds a budget by MAX_PRIO - prio. `put_mlq_proc` gives a slot back also
  when the budgets were reset since it was taken; `SlotBound` is what holds instead, and
  with one CPU the two agree.
* A finished process is freed but stays in `running_list` (`os.c:68`): `OSProofs`
  proves that the list is exactly the processes that run and those that were freed.
* `enqueue` drops the process when the queue is full (`queue.c:12`): with more processes
  than MAX_QUEUE_SIZE `OneHome` fails.
* A program's own growth of the area (`libstd.c:36`), without `mmvm_lock`, next to an
  allocation loses one of two updates of `vm_end` (`mm-vm.c:155`-`162`), and one that
  others overtake sets the limit back below theirs: with `UserIncs` not empty and two
  processes `WithinLimit` fails. `NoOverlap` and `Heap` do not depend on `vm_end` and hold.
* A growth for which RAM has too few frames is not rolled back, as `mm-vm.c:181` means it
  to be: the results are unsigned and compared with `< 0` (`mm64.c:520`), so that the limit
  stays raised over pages that have no frame.
* A victim for which swap has no frame is off the FIFO for good (`libmem.c:272`): `passed`
  in `EveryPageListed`.

## 4. Fairness

Every thread that can go on does (weak fairness per thread): the operating system
schedules it, its mutexes are held for a bounded time, and it waits only on condition
variables. In `Timer` the devices' half is an assumption about the client: a thread in a
slot ends it. In `OS` the timer's half (`SlotBarrier!Fairness`) is what `Timer` is checked
to implement (`ImplementsBarrierFair`); it asks nothing after `exit` has ended the
program. Spurious wake-ups have no fairness. `LookupEnds` needs only the looking thread
and its peers to go on. `Regions`, `Memory`, `PageTable` and `Mapping` state safety only:
their loops are bounded by their inputs.

## 5. Proofs

`tlapm` checks every theorem for all values of the constants; the assumptions are the
named ASSUMEs and what a theorem states itself.

* **Timer** (any set of devices). The inductive invariant `IInv` joins the types, what
  main's place says of the threads and the list, the flags against the place of the
  thread that owns them, what the timer's pointer has passed in either of its two scans
  (`PassInv`), and for each device the slots it has called against the clock, depending
  on `done` and on whether the pointer has passed it (`CallsInv`): `Lockstep` alone is
  not inductive, because it says nothing of devices that wait. From it follow `Lockstep`,
  `NoLostWakeup`, `FreedIsUnused`, `TickAtBarrier` and, step by step, that each action is
  a step of `SlotBarrier` or a stutter (`TimerRefinesBarrier`).
* **OS** (any number of processes, CPUs, priorities, any `time_slot`; N <= MaxQueueSize
  for all but the types and the quantum). The invariant adds to `OneHome` that
  `running_list` is the processes held and freed, each once, so that every queue has room
  for whatever is put in it (`HomeInv`); that queued processes always have a CPU left that
  will take them, given what each CPU last saw (`WorkInv`, for `NoneAbandoned`); and that a
  process that ran in this slot is held by a CPU through with it (`RanInv`, for
  `OnePerSlot`). `SlotBound` needs the balance of budgets and held processes on top.
  `QuantumIsFull` rests on an equation between `time_left` and the calls used.
  `OSImplementsLife` maps each call to the step of the one process it moves; that the
  others keep their status is `HomeInv` again. `WorkIsConserved` is about the end of a
  slot, and needs a count that holds inside it (`IdleInv`): next to a CPU that has found
  nothing there wait at most as many processes as CPUs are on their way from `put_proc` to
  `get_proc`, and the one the loader has added in this slot.
  `TypeCorrect` needs no bound: it also holds when queues overflow.
* **Look-up** (any number of CPUs, processes, entries). A purge moves the entries one by
  one, so that between two of its turns the list has an entry twice and one too many: the
  invariant speaks of the entries that count, `Live`, which are all but the hole of the
  purge (`PurgeInv`). `ListedAlways` follows; that there is room for the next process, by
  the pigeonhole of `SeqLemmas`; and `MissesOnlyByRace`, because without a purge what the
  scan has passed stays passed (`LookInv`).
* **Regions** (any processes, names, sizes). `NoOverlap` is inductive together with the
  types and `AllocInv`: while a process is between `AllocGrow` and `AllocEnd` it holds
  `mmvm_lock` and its `old_sbrk` is the break. It needs neither a bound on the sizes nor
  a working system call: regions never overlap even when they lie beyond the limit.
  `RegionsImplementHeap` follows. `NoByteDisappears` looks at the two rewritings of the
  free list: the one that enters a freed region in front, and the one of
  `get_free_vmrg_area`, which copies the next node into the one that is used up and so
  shifts all behind it. `BreakWithinLimit` needs what the code does not
  guarantee: no allocation above a page, no call without the lock, a look-up that
  succeeds; the run `regions_page` shows the first at work, section 3 the second.
* **Page table** (any number of levels, slots, tables and processes). `FpnReadBack` and
  `SwapReadBack` are about the words alone. `IInv` has the level of each table
  (`LevelInv`), that a pointer leads to a table of the next level allocated for the part
  of the pages its slot stands for (`TreeInv`), and that each walk is in a table of its
  page's part (`WalkInv`); it needs no lock, since also a lost table keeps its part, and
  `PagesApart` follows by division. `RaceInv` adds, while no two walks have overlapped, that
  one process walks (`AloneInv`), what its stage says of the slot (`StageInv`), that every
  other slot is a table or zero (`WildInv`) and that each table is at one slot (`Listed`):
  `NoCrashWithoutRace` and `TablesAreATree`.
* **Memory** (any page sizes, devices, names and sizes). Every step is a step of `Regions`,
  so its invariant is at hand. A system call is alone (`CallsInv`: one process with
  programs that make the call, else the lock), which says what it has read and how many
  pages `vm_map_ram` has been asked for (`Asked`). The two page sizes meet in
  `BreakInv`: a growth brings at least one page (the count of pages that passes for bytes
  is never 0), and no region is larger than a frame, so the break stays within as many
  *frames* as *pages* were asked for; this is what `regular` is needed for. `FrameInv`
  has each frame free or at one page, and the pages in RAM below `Asked`, so that
  `vm_map_ram` never maps over one; it yields `FramesAccounted` also when RAM runs out.
  While it does not, all pages asked for are in RAM (`CoverInv`, for `Backed`). `DataKept`
  joins these with `NoOverlap`: two bytes at one cell would have one frame, so one page,
  so one address (`BytesInv`). `SwapOwned` (`SwapInv`) needs no condition.
* **Frames and FIFO** (any number of processes, frames, pages and calls). The properties
  speak of the lists; between the read of a head and the write that follows, what counts
  is what each process has read and got. So `IInv` has what a process holds at each place
  of its call (`LocalInv`), that the list a process has read is still the list, unless
  another was at its head (`FreeHead`, `FifoHead`), that a frame is in the list once or
  one growth has it (`FreeInv`), that the pages still to be entered are nobody else's and
  not present (`PageInv`), and where the frames of the mapped pages are (`FrameInv`).
  `VictimsInRam` holds also when two change the FIFO at once, which needs most: every
  version of the list that some process has read agrees with the others on what follows a
  page (`SameNext` in `ListInv`), so that the page unlinked from one is the last of all the
  others that have it.

The lemmas on `RemoveAt`, `RemoveFirst`, injective sequences and `ToSet` are in
`SeqLemmas`; those on the scheduler's operators come first in `OSProofs`.

What a recursive function is (`TableOf` level by level, `Num` bit by bit) is proved with
`GoesOn`: a function may be defined by its first value and how it goes on.

Only model-checked: every liveness property (`MainEnds`, `EveryProcessFinishes`,
`MissingProgramEnds`, `LookupEnds`, `ImplementsBarrierFair`), which the prover does not
reach.

## 6. Not modelled

* Undefined behaviour whose outcomes have no bound: names of 30 and above, `prio` of
  MAX_PRIO and above, the pointer `init_mm` never sets (`mm64.c:593`; the models take the
  list as empty behind it), devices of fewer than two frames, `vmaid` other than 0, what
  follows the use of a freed node or of a null pointer.
* The races of two system calls in `Memory`, which takes one process as soon as programs
  make the call themselves (`MemoryAssumption`): they are in `Regions` for `vm_end`, in
  `PageTable` for the tables, in `Mapping` for the frames and the FIFO.
* The branch at `libmem.c:289` (a victim that is not present): no step clears PRESENT.
* The storage of the swap devices, which is written and never read; the sequential mode of
  a device (`rdmflg` is 1 in every call of `init_memphy`), and the dump.
* Integer widths: addresses stay far below the limits of `int` that `__alloc` uses.
* Parsing of the configuration and the programs, printing.
* Code this build does not reach: `mem.c` (only without `MM_PAGING`), `mm.c` (only without
  `MM64`), `paging.c` (a program of its own that the target `os` does not link), the
  scheduler without `MLQ_SCHED`, and functions nobody calls (`free_pcb_memph`,
  `get_vm_area_node_at_brk`, `init_pte`, `pte_set_entry`, `print_list_*`).

## 7. Plan

Done, in this order: timer and barrier; queues, scheduler, CPUs and loader with the life
of a process; look-up of the caller; regions and heap; pages and memory; proofs of the
timer, the OS and the regions; the configuration's `time_slot` and programs that cannot be
read; the page table with its words, levels and races; the frame lists and the FIFO access
by access; the other operations of system call 17; proofs of the look-up, the page
table and the frame lists; proofs of the memory, of the life of a process and of
`WorkConserving`; the refinement of `FlatTable`.

To come: `Mapping` as a refinement of the one step that `Pages` takes for `vm_map_ram` and
`pg_getpage`, for calls under the lock.
