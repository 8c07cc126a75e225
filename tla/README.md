# TLA+ models of the xv6 kernel

This directory holds TLA+ models of the concurrent core of the xv6 kernel in
`src/`. The core is the process table, the per-CPU schedulers, sleep/wakeup,
the process lifecycle system calls and the timer path of `trap()`. The models
are checked with TLC. `PROJECT.json` lists the components, the runs, the
mutants, the source lines each definition translates, the findings and the
hazards.

## The system

| part | source | state | operations |
|------|--------|-------|------------|
| process table | `proc.c` `ptable`, `include/proc.h` `struct proc` | `state`, `pid`, `parent`, `chan`, `killed` of NPROC slots; `nextpid` | `allocproc`, `userinit`, `fork`, `exit`, `wait`, `kill` |
| scheduler | `proc.c` `scheduler`, `sched`, `yield`, `forkret`; `swtch.S` | `c->proc` of each CPU, the scan position of each scheduler loop | one loop per CPU: acquire `ptable.lock`, scan for RUNNABLE, `swtch`, release |
| sleep/wakeup | `proc.c` `sleep`, `wakeup1`, `wakeup` | `p->chan`, `p->state` | sleep on a channel with a lock `lk`; wake every sleeper on a channel |
| timer and traps | `trap.c` `trap`; `sysproc.c` `sys_sleep` | `ticks`, `tickslock` | CPU 0 increments `ticks` and wakes `&ticks`; a timer interrupt in user mode yields; an exception kills; checkpoints exit killed processes |
| spinlocks | `spinlock.c` (not in the repository) | holder of each lock | `acquire`/`release` |
| IDE driver | `unnamed/part_003` | request queue `idequeue`, `idelock` | `iderw`, `idestart`, `ideintr` |
| page allocator | `kalloc.c` | `kmem.freelist`, `kmem.lock` | `kalloc`, `kfree` |
| virtual memory | `vm.c`, `proc.c` `growproc`/`fork`/`wait`, `sysproc.c` `sys_sbrk` | page directories and tables of each process | `walkpgdir`, `mappages`, `setupkvm`, `allocuvm`, `deallocuvm`, `freevm`, `copyuvm`, `inituvm`, `switchuvm`, `loaduvm`, `uva2ka`, `copyout` |
| boot | `bootmain.c`; `trap.c` `main`, `mpenter`, `mpmain`, `startothers`, kernel.ld | memory the loader fills; the order of `main()`'s steps, `c->started` | `readseg`, `readsect`; `kinit1`, `kvmalloc`, `startothers`, `kinit2`, `userinit` |
| keyboard | `kbd.c` | `kbdgetc`'s static `shift` | `kbdgetc`, `kbdintr` |
| other devices, boot assembly | `picirq.c`, `unnamed/part_001`, `part_002`, `bootasm.S`, `entry.S` | device registers | register-level |

These parts interact through two mechanisms:
- **`ptable.lock`.** It protects every `struct proc` field the model tracks. It is held across `swtch`:
  - the scheduler acquires it and the process it switches to releases it (in `forkret`, `yield`, `sleep` or `wait`);
  - a process acquires it before `sched()` and the scheduler releases it at the end of its scan.
- **Wakeups and `killed`.**
  - `exit` wakes a parent sleeping in `wait`.
  - The timer wakes `sys_sleep` callers.
  - `kill` sets `killed` and wakes the target. A killed process exits only at the checkpoints of `trap()` (`trap.c:55,59,119,129`) or when a sleep loop re-tests `killed`.

These behaviours are hard to test:
- the interleavings of two CPUs' scans;
- the lock hand-off across `swtch`;
- a lost wakeup between releasing `lk` and sleeping;
- the unlocked `state = UNUSED` writes on fork's failure paths;
- `kill` matching a slot that is not a live process;
- the `uint` arithmetic of `sys_sleep`;
- liveness of scheduling, killing and sleeping.

## Modules

### `Proc.tla`: process table, scheduler, sleep/wakeup, lifecycle calls and timer

Constants:
- `CPUS` and `TickCpu`, the CPU whose `cpuid()` is 0;
- `NPROC`;
- the bound `MaxPid`;
- the arguments user programs pass (`KillPids`, `SleepTicks`);
- `TickWidth`, the width of the `ticks` counter;
- the model value `NoCpu`.

Variables:
- `state`, `pid`, `parent`, `chan`, `killed`: the `struct proc` fields;
- `kpc`: where each process's kernel thread executes or resumes;
- `np`, `ticks0`, `sleepn`: locals live across a lock step;
- `cproc` (`c->proc`) and `sidx`, the scan position of each CPU's scheduler (0 at the top of the loop);
- `ptlock` and `tickslock`, the lock holders;
- `ticks` and `nextpid`;
- the history variable `killedFor`, the pid argument that set `killed`.

Granularity: one action is one spinlock critical section or one lock-free stretch.
- An acquiring action is enabled only when the lock is free.
- `sched()` followed by the scheduler's code after its `swtch` is a single step, `SwitchToScheduler`, because `ptable.lock` is held throughout.

Actions and the code they model:

| action | code |
|--------|------|
| `SchedAcquire`, `SchedDispatch`, `SchedRelease` | `scheduler` (`proc.c:376-428`) |
| `TickIdle` | the timer interrupt the idle scheduler takes after `sti()` |
| `ForkAlloc` | `allocproc`'s critical section |
| `ForkFail` | the `kalloc`/`copyuvm` failure paths: unlocked `state = UNUSED` |
| `ForkDone` | the rest of `fork` |
| `Exit` | `exit` |
| `SysWait`, `WaitResume` (both through `WaitScan`) | `wait` |
| `SysKill` | `kill` |
| `SysSleep`, `SleepReacquire` (both through `SleepCheck`) | `sys_sleep`'s loop |
| `SleepEnter`, `SleepWake` | `sleep(&ticks, &tickslock)` |
| `TimerYield`, `YieldReturn` | the timer path of `trap()` into `yield` |
| `TimerExit` | a timer interrupt of a killed process |
| `Fault` | an exception from user mode |
| `ForkRet` | `forkret` |

`Init` is the state `main()` leaves:
- `userinit` has made slot 1 RUNNABLE, with pid 1 and context at `forkret`;
- every CPU is at the top of its scheduler loop.

The program of `initproc` (`init.c`) is not in the repository. In the model it only forks and waits: it does not exit, kill or sleep.

`MCProc.tla` instantiates `Proc` with two CPUs as model values (`MCCPUS`), or with one of them (`MCCPUS1`) for the round-robin run.

## Runs

| run | cfg | expect | what it shows |
|-----|-----|--------|---------------|
| `proc_safety` | `MCProc.cfg` | pass | see below |
| `kill_unused_slot` | `MCProcKill.cfg` | violation | see below |
| `proc_liveness` | `MCProcLive.cfg` | pass | see below |
| `kill_liveness` | `MCProcKillLive.cfg` | pass | see below |
| `pid_wrap` | `MCProcPidWrap.cfg` | violation | `nextpid++` wraps to a negative pid |
| `init_killed` | `MCProcInitKill.cfg` | violation | `kill(1)` leads to the "init exiting" panic |

**`proc_safety`** uses 2 CPUs, 3 slots, pids up to 4, `kill(0)` and `kill(3)`, `sleep(1)` and a 1-bit `ticks`. It checks these invariants:
- `PtableLockHandoff`: `ptable.lock` is held by CPU c exactly when c scans or runs a process between `sched()` and its release.
- `RunsOnOneCpu`: RUNNING means on exactly one CPU.
- `WaitWakeupNotLost`: a parent asleep in `wait` has no ZOMBIE child.
- `TicksWakeupNotLost`: a `&ticks` sleeper still has ticks to wait.
- `ParentIsLive`: a started process's parent is a live process.

It also checks the property `ImplementsLifecycle` (below). This run reaches about 317,000 distinct states in about 60 s.

**`kill_unused_slot`** checks `KilledOnlyByRequest`, which says a live process is killed only by a `kill` of its own pid or its own fault. TLC finds this trace:
1. `kill(0)` matches an UNUSED slot and sets its `killed`.
2. `fork` allocates that slot.
3. The child starts out killed.

This is a finding, because `allocproc` does not reset `killed`.

**`proc_liveness`** uses 1 CPU, 3 slots, pids up to 3, `kill(0)` and `kill(2)`, `sleep(1)` and a 2-bit `ticks`. It checks:
- `RunnableEventuallyRuns`: a RUNNABLE process eventually runs;
- `TickSleeperEventuallyWoken`: a process asleep on `&ticks` is eventually woken.

One CPU makes every RUNNABLE process compete for the same scan. A process that keeps yielding is RUNNABLE again at once, so the other slots run only because `scheduler()` goes on after the slot it last ran instead of starting over. With two CPUs and two slots a runnable process would always find an idle CPU, and the scan order would never matter. The run takes about 2.5 minutes.

**`kill_liveness`** uses 2 CPUs, 3 slots, `kill(2)`, no `sleep` and a 1-bit `ticks`. It checks `KilledEventuallyExits`: a killed process eventually becomes a ZOMBIE. The case that matters needs three slots:
- process 2 sleeps in `wait` on a child;
- that child computes in user space forever;
- so only the wakeup done by `kill` gets process 2 out of `wait`.

Every property of a passing run has a mutant in `PROJECT.json`. A mutant is a plausible bug in the mapped code, defined in `Proc.tla` just before the definition it replaces, and TLC finds the property violated with it:
- `allocproc`'s scan going one slot past the table (`p <= &ptable.proc[NPROC]`), which hands out a slot outside `1..NPROC` when the table is full;
- `forkret` not releasing `ptable.lock`;
- the scan not skipping RUNNING slots;
- `exit` not waking its parent;
- the timer not waking `&ticks`;
- `exit` not reparenting;
- the scan restarting at `ptable.proc` after every switch back, which starves the later slots;
- `kill` not waking its target;
- the idle tick not waking.

**Refinement.** `proc_safety` checks `ImplementsLifecycle`, the `Spec` of `ProcLifecycle.tla` under the mapping in `Proc.tla` (`Life == INSTANCE ProcLifecycle WITH ...`):
- `st`, `par` and `run` are `state`, `parent` and `cproc`;
- `pid` is `pid` of every slot that is not UNUSED and 0 otherwise (a reaped or abandoned slot keeps its old pid in the code);
- the identifiers a new process may get are `1..MaxPid`.

`ProcLifecycle` states what spec.md promises of the table, with no locks or scheduler loops: a new process gets a pid no live process has, only a running process forks, exits or reaps, exit wakes only the parent and initproc and hands its children to initproc, initproc never exits, and a sleeper becomes RUNNABLE only by a wakeup. Every step of `Proc` is one of its steps or leaves the mapped state alone (the lock and scan steps). The mutant drops the `++` of `nextpid++`, so `nextpid` stays at 2 and the second fork gives its child pid 2, the pid of the first child.

**`pid_wrap`** gives `nextpid` a 3-bit width (`PidWidth = 3`) and checks the same refinement. `p->pid = nextpid++` is a signed `int`; its overflow is undefined in C, and the build's add wraps it. TLC forks three times: pids 2, 3, then -4, which is outside the pids `ProcLifecycle` allows. With 32 bits this takes 2^31 forks: `fork` then returns a negative pid, which callers take for failure, and the pids that follow repeat those of live processes. Finding at `proc.c:100`. The passing runs use `PidWidth = 4`, wide enough that `MaxPid` is reached first.

**`init_killed`** adds `kill(1)` and checks `InitNeverExits`. Any process may `kill(1)`, since `kill` checks no permission; initproc's next pass through a `trap()` checkpoint calls `exit()`, whose first test panics with "init exiting" (`proc.c:279`). Finding: any user program can crash the kernel.

### Bounds

- Two CPUs are enough for every race the properties are about: two scans, or a scan against a process step.
- Three slots give initproc, a child and a grandchild. That covers reparenting to initproc, a ZOMBIE handed to initproc, and a parent sleeping while a child exits.
- `MaxPid = 4` allows a slot to be reused after a reap, so a stale pid can exist.
- `kill(0)` reaches UNUSED slots and `kill(3)` reaches a live child.
- A 1-bit `ticks` already wraps (0, 1, 0), which is what `TypeOK` and `TicksWakeupNotLost` need; a 2-bit counter made the refinement check twice as long without reaching a new case of either.
- `proc_liveness` uses 2 slots so that TLC's liveness check fits in memory and time. Its cases (a yielding process, a tick sleeper) need only one process besides initproc.
- `kill_liveness` has 3 slots and drops `sleep` to stay small.

### Fairness

The fairness conditions (`Fairness` in `Proc.tla`):
- A step that needs no lock is weakly fair: a CPU keeps executing.
- A step that spins in `acquire` is strongly fair. The `xchg` loop gives no such guarantee, so the liveness results hold under the assumption that no CPU is starved on a spinlock forever.
- The timer interrupt is strongly fair: the local APIC latches it and the CPU takes it the next time interrupts are enabled.
- User programs get no fairness: a process may compute forever or never call anything.

## Observations

- **Tick wrap.** `sys_sleep` may not return at a finite counter width. While a woken sleeper waits for `tickslock`, `ticks` can advance by a multiple of 2^width back to `ticks0`, and the `uint` test `ticks - ticks0 < n` then sends it back to sleep. With 32 bits this needs 2^32 ticks between two steps of one thread. The liveness run therefore checks that the sleeper is woken (`TickSleeperEventuallyWoken`), not that `sys_sleep` returns. The hazard is listed at `sysproc.c:77`.
- **Killing initproc.** `kill(1)` makes initproc exit and panic with "init exiting" (run `init_killed`). The other runs exclude 1 from `KillPids`.

## `Ide.tla`: the IDE driver

`Ide.tla` models `unnamed/part_003`: the request queue `idequeue`, `iderw`,
`idestart` and `ideintr`, with the disk controller as a concurrent actor.

- Every access to `idequeue` and `b->flags` is under `idelock`, which `iderw`
  gives up only inside `sleep(b, &idelock)`. Each critical section is one
  step, so the lock needs no variable.
- A buffer stands for a distinct block held through its sleeplock by one
  thread; a thread is named by its buffer (`pc`: idle, sleeping, woken).
- Actions:
  - `Bread`, `Bwrite`: the callers of `iderw`, which append and start the disk if the queue was empty;
  - `Recycle`: `bget` reusing a clean buffer;
  - `DiskDone`: the controller finishing a command (with an error if `DiskErrors`);
  - `IdeIntr`: `ideintr`;
  - `IdeRwWake`: the `while` test after `sleep` returns.
- `MCIde.tla` gives three buffers and two values as model values.

| run | cfg | expect | what it shows |
|-----|-----|--------|---------------|
| `ide_driver` | `MCIde.cfg` | pass | 34,240 states. `DiskServesHead` (the invariant stated above `iderw`), `QueueMatchesSleepers`, `ValidIsSynced` and, under weak fairness of the controller, `ideintr` and woken threads, `RequestCompletes` |
| `ide_disk_error` | `MCIdeErr.cfg` | violation | a command that ends with `IDE_ERR` still sets `B_VALID` and clears `B_DIRTY`: `ValidIsSynced` fails (finding at `part_003:174`) |

## `Kalloc.tla`: the page allocator and boot order

`Kalloc.tla` models `kalloc.c` and the part of `main()` that sets it up.

- The free list is `head` and `nxt`.
- `kalloc` and `kfree` are each split at the point where a second CPU can
  interleave while `kmem.use_lock` is 0.
- `main()`'s order is the sequence `MainOrder`:
  - `kinit1` frees the low pages;
  - `kvmalloc` takes `KvmPages`;
  - `startothers` allocates each AP's stack and starts it;
  - `kinit2` frees the high pages and sets `use_lock`;
  - `userinit` runs.
- Once a CPU has entered `mpmain`, processes may call `kalloc` and `kfree` on it.

Before `main()`, the boot CPU runs the boot loader. `Bootmain.tla` models
`bootmain.c`, and `Kalloc` instantiates it (`Loader == INSTANCE Bootmain`).
`Kinit1` is enabled only once the loader has jumped to the kernel.
- Memory is a function from scaled addresses to byte values. A byte of the
  kernel file has its file offset as its value, so a loaded byte says where it
  came from. `Zero` is what `stosb` writes, and `Junk` is memory before boot.
- The disk is `xv6.img` as the Makefile writes it: the boot block in sector 0,
  the kernel from sector 1 (`DiskByte`).
- `ReadSect` and `ReadSeg` are operators. `ReadLoop` (RECURSIVE) is readseg's
  loop over whole sectors. `LoadSeg` is one pass of the program-header loop:
  `readseg`, then the 0-fill.
- The input is the kernel's program header table, chosen in `Init` from
  `Images`. These are the layouts kernel.ld produces (`trap.c:327-373`):
  - text and rodata at 0x100000, from file offset one page;
  - the data segment page-aligned after them, with `.bss` as memsz beyond
    filesz;
  - with or without an empty GNU_STACK header, which bootmain loads too,
    since it ignores ph flags.
- Sizes are scaled. `SECTSIZE = 2` and `PGSIZE = 4`, so a segment of odd size
  ends in a partial sector. `MaxSz = 2` bounds filesz and memsz. That gives
  24 layouts, among them a data segment whose last sector spills into its bss.

Run `kalloc_boot` (`MCKalloc.cfg`, 3 CPUs, 4 low and 2 high pages, the 24
kernel layouts; about 205,000 states in 80 s) checks five invariants and two
temporal properties:
- `ImageLoaded`: when bootmain jumps to the kernel, each segment's file bytes
  are at its paddr, and zeros fill it up to memsz. `readseg` writes whole
  sectors, so it writes past what it was asked for. The property therefore
  depends on the 0-fill coming after the read, on segments being loaded in
  increasing order, and on the sector number being `offset/SECTSIZE + 1`.
  The mutant that 0-fills before reading breaks it.
- `NoDoubleAlloc`: no page is both free and allocated.
- `ImplementsAllocator`: the `Spec` of `PageAllocator.tla` under the mapping
  `Abs == INSTANCE PageAllocator WITH free <- FreeSet, given <- Given`.
  `PageAllocator` is what the comments of `kalloc.c` promise, with no list,
  lock or CPUs. It has a set of free pages and a set of pages handed out:
  - `Add` is freerange over memory the allocator never had;
  - `Take` is kalloc handing out free pages;
  - `Release` is kfree of a page that was handed out.

  `FreeSet` is the set of pages reachable from `kmem.freelist`. `Given` is:
  - the kalloc results that process code holds;
  - `kpgdir`'s pages and the AP stacks;
  - a page that a process's kfree has linked but not yet pushed.

  The two halves of kalloc and kfree stutter until the write of
  `kmem.freelist`, which is the abstract step. The property covers more than
  `NoDoubleAlloc`: no page drops off the list (a leak) and no page reappears
  on it without being freed. The mutant leaves out kfree's
  `kmem.freelist = r`. It breaks this property, and `NoDoubleAlloc` still
  holds under it.
- `UnlockedAlone`: while `use_lock` is 0, only one CPU is inside the allocator.
- `APStackLow`: AP stacks come from the memory `entrypgdir` maps.
- `TypeOK`, which includes the loader's variables.
- `BootCompletes`: boot reaches the end of `main()` with every CPU started.
  This holds under weak fairness of the loader, of `main()`'s steps and of
  each AP's `mpenter`/`mpmain`: they wait on nothing but `c->started`. The
  loader's fairness is over its own variables and the kernel's over theirs
  (`WF_bvars`, `WF_kvars`).

Every layout the linker produces has page-aligned file offsets. So
`readseg`'s round-down of `pa` by `offset % SECTSIZE` never moves it, and
the ELF magic check always passes. A bad image would return to bootasm.S's
spin loop, and no image the Makefile builds has one.

## `Vm.tla`: page tables and user memory

`Vm.tla` models `vm.c` over a scaled-down two-level page table. The constants are:
- `PG`, the page size;
- `NPTE`, the entries per table;
- `NUPDE` user and `NKPDE` kernel directory entries;
- `NPages` physical pages.

`KERNBASE = PG*NPTE*NUPDE`, and `uint` arithmetic is taken modulo `2*KERNBASE`.

- `mem.free` is `kmem.freelist`, a LIFO sequence.
- `mem.ent[pg]` gives the entries of page `pg` when it is read as a table:
  - 0;
  - a page;
  - `KMAP`, a kernel mapping;
  - `JUNK`, `kfree`'s `0x01` fill, which has `PTE_P` set.
- The vm.c functions are operators that return `[mm, ret, pan]`: the memory, the return value, and a panic. The result of each call is passed as a parameter to the operator for the code that follows it.
- The recursive operators are the loops of:
  - `mappages` for `kmap`;
  - `deallocuvm`;
  - `freevm`;
  - `allocuvm`;
  - `copyuvm`.
- `exec`'s helpers `uva2ka`, `copyout` and `loaduvm` (`vm.c:254-276`, `429-472`) change no page-table entry, only bytes of user pages. They are operators returning the set of bytes written, as `<<page, offset, value>>`. A byte of `copyout`'s buffer has its index as its value, and a byte of the file has its file offset. `uva2ka` gives 0 for a PTE without `PTE_P` or `PTE_U`: a user page has both, `kfree`'s `0x01010101` only `PTE_P`, and a `kmap` entry no `PTE_U`. Its unchecked dereference of a missing PTE is the panic `"nullpte"`. `readi` (`fs.c`, not in the repository) is modelled from its contract over a file of `FileSz` bytes: -1 past the end, otherwise the bytes up to `n` or up to the end.
- `exec` itself is not in the repository, so no action calls these operators. Instead two invariants apply them to every range of every live address space that the processes reach.

The actions are:
- `SysSbrk`: `sys_sbrk`, then `growproc`, then `allocuvm` or `deallocuvm`, then `switchuvm`;
- `Fork`: `allocproc`'s `kstack`, then `copyuvm`; on failure it `kfree`s the kstack;
- `Reap`: `wait` freeing a ZOMBIE's kstack and `pgdir`.

`Init` is the state `userinit` leaves:
- the free list as `kinit1`/`kinit2` build it;
- `setupkvm` and `inituvm` for slot 1.

| run | cfg | expect | what it shows |
|-----|-----|--------|---------------|
| `vm_pages` | `MCVm.cfg` | pass | two slots, 10 pages, `sbrk(3)`, `sbrk(-1)`, `sbrk(-5)`, 59,882 states; see below |
| `sbrk_shrink_to_zero` | `MCVmShrink.cfg` | violation | `SizeIsMapped` fails; see below |

The `vm_pages` run checks five invariants besides `TypeOK`:
- `PagesOwnedOnce`: each page is free, a kstack, a directory, a table, or a mapped user page, exactly once. This covers the failure paths of `allocuvm`, `copyuvm`, `setupkvm` and `fork`.
- `PageTablesSound`: no walk meets junk, no remap happens, and `switchuvm` never panics.
- `MappedWithinSz`: no page at or above `p->sz` is mapped.
- `CopyoutLands`: `copyout` to any range below `p->sz`, from any start:
  - writes each byte of the buffer at the page and offset the MMU translates its address to;
  - never meets a missing page table;
  - returns -1 only when some page of the range is unmapped, after writing exactly the bytes before it.

  The unmapped pages come from the `sbrk(-sz)` finding below. A mutant that starts the next chunk at `va + PGSIZE` instead of `va0 + PGSIZE` breaks it.
- `LoaduvmLands`: `loaduvm` to a mapped, page-aligned range puts file byte `i` at `addr + i` for as much of the file as there is. It returns 0 exactly when the file held all `sz` bytes (`FileSz = 3`, so loads of 1 to 3 bytes succeed and longer ones come up short). A mutant that reads every page from `offset`, not `offset + i`, breaks it.

`MCVm.tla` supplies the negative deltas. The cfg runs with `CHECK_DEADLOCK FALSE`, because a kernel panic halts the machine and is the only state with no successor.

The bounds are chosen so that:
- 10 pages run out in the middle of an `allocuvm` or a `copyuvm`, so every `kalloc` failure path is taken;
- `sbrk(3)` spans pages in two page tables;
- `sbrk(-5)` wraps `sz + n` below zero.

**Finding at `proc.c:203`.** `growproc` takes `deallocuvm`'s return value 0 for failure. But `deallocuvm` returns `newsz`, and `sbrk(-sz)` makes `newsz` 0. The pages are freed, `p->sz` keeps its old value, and `sbrk` returns -1. The next `fork`'s `copyuvm` then panics with "page not present".

## `Kbd.tla`: the keyboard driver

`kbdgetc()` (`kbd.c:69-109`) is called by `consoleintr` from the keyboard interrupt (`kbdintr`) until the controller has no byte. Each call reads one byte and decodes it with the static `shift`, a bitmask of the modifiers (SHIFT, CTL, ALT), the locks (CAPSLOCK, NUMLOCK, SCROLLLOCK) and E0ESC, which marks the first byte of an extended key. The model has two actors:
- the keyboard: it presses, repeats (typematic repeat of the last key pressed) and releases six keys, sending scan code set 1 bytes into a buffer of `MaxBytes`; the two ctrl keys share make code 0x1D, the right one prefixed by 0xE0;
- `Kbdgetc`: one call that finds a byte, with the three branches of the code (0xE0, a break code, a make code) and the table look-ups of `kbd.h`.

`kbd.h` and `console.c` are not in the repository. The tables are given for the keys the model presses, with their standard values; characters are their codes (97 'a', 65 'A', 1 for C('A')).

| run | cfg | expect | properties |
|-----|-----|--------|------------|
| `kbd_decode` | `MCKbd.cfg` | pass | `TypeOK`, `EscapePending`, `NoStuckModifier` |

- `EscapePending`: E0ESC is set exactly when the last byte read was 0xE0; the escape never outlives the next byte, press or release. A mutant that leaves E0ESC set on an extended make code breaks it.
- `NoStuckModifier`: with every key up and every byte read, no modifier bit is set. A mutant that does not mask the 0x80 bit of a plain break code breaks it.
- `TypeOK` includes the characters returned; a mutant that swaps the case adjustment of caps lock breaks it.
- Not a run: a property that SHIFT says, once every byte is read, whether a shift key is down is violated when both shift keys are pressed and one is released; `shift &= ~shiftcode[data]` (`kbd.c:90`) clears SHIFT while the other key is held, and the next letter comes out unshifted.

`MaxBytes = 3` lets a press, a release and an extended key's two bytes be pending at once, so the keyboard and `kbdgetc` interleave at every byte (about 323,000 states, 8 s). Holding caps lock toggles the lock on every repeat; no property says what the lock should then be.

## Not modelled

- **Spinlock internals (`pushcli`/`popcli`, `ncli`, `intena`) and `sched()`'s panics.**
  - `spinlock.c` is not in the repository.
  - A lock is modelled as its holder.
- **Interrupts taken in kernel mode.** Under a spinlock, interrupts are off.
  - The stretches of `fork`, `exit` and the system calls that run with interrupts on are lock-free single steps here.
  - A kernel-mode timer yield in them is therefore not modelled.
- **Sleeplocks, the buffer cache and the file system.** They are not in the repository. `Ide` abstracts a caller holding `b->lock` as the thread owning the buffer.
- **`exec` and `clearpteu`.** `exec` is not in the repository; its helpers `loaduvm`, `uva2ka` and `copyout` are checked as operators (see `Vm.tla`). `clearpteu` only clears `PTE_U`, and the model keeps no permission bits beyond what `PTE_P`/`PTE_U` imply for each entry value. The register loads of `switchuvm`/`switchkvm` are also not modelled.
- **Devices other than the keyboard, the boot assembly and segment setup.** `picirq.c`, the UART, IOAPIC and LAPIC code, `bootasm.S` and `entry.S` program registers once, with no state the kernel reads back; there is nothing for an invariant to relate.

## Plan

1. **Kernel-mode preemption.** A timer yield in the interrupt-enabled stretches of `fork`, `exit` and the system calls.
2. **Composing `Vm` with `Proc`**, so that `fork` and `wait` share one process table.
