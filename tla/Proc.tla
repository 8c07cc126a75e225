-------------------------------- MODULE Proc --------------------------------
(***************************************************************************)
(* The process table, the per-CPU scheduler loop, the lock hand-off across *)
(* swtch, sleep/wakeup, the process lifecycle system calls (fork, exit,    *)
(* wait, kill, sleep) and the timer path of trap() of xv6                  *)
(* (src/kernel/proc.c, src/kernel/trap.c, src/kernel/sysproc.c).           *)
(*                                                                         *)
(* Granularity: one step is one critical section of a spinlock, or one    *)
(* lock-free stretch of code.  A step that acquires a spinlock is enabled  *)
(* only when the lock is free (xchg in acquire); a CPU holding a lock owns *)
(* it until a step of the same CPU releases it.  swtch is a change of the  *)
(* thread a CPU executes: cproc[c] = 0 means CPU c runs its scheduler.     *)
(***************************************************************************)
EXTENDS Integers, FiniteSets, FiniteSetsExt

CONSTANTS
  CPUS,        \* the processors, cpus[0..ncpu-1]
  TickCpu,     \* the CPU whose cpuid() is 0: the only one that advances ticks
  NPROC,       \* number of slots of ptable.proc
  MaxPid,      \* bound: allocproc hands out pids 1..MaxPid only
  KillPids,    \* pid arguments user programs pass to kill()
  SleepTicks,  \* int arguments user programs pass to sleep()
  TickWidth,   \* width in bits of the uint counter ticks
  PidWidth,    \* width in bits of the int counter nextpid
  NoCpu        \* model value: a spinlock held by no CPU

ASSUME TickCpu \in CPUS /\ NPROC >= 2 /\ TickWidth >= 1 /\ PidWidth >= 2
ASSUME KillPids \subseteq Int /\ SleepTicks \subseteq Int

Slots    == 1..NPROC           \* &ptable.proc[i-1]; 0 is the null pointer
InitProc == 1                  \* userinit() allocates the first slot
TicksChan == NPROC + 1         \* the channel &ticks, distinct from every slot
Chans    == {0, TicksChan} \cup Slots
TickMod  == 2^TickWidth

\* enum procstate
UNUSED == "UNUSED"
EMBRYO == "EMBRYO"
SLEEPING == "SLEEPING"
RUNNABLE == "RUNNABLE"
RUNNING == "RUNNING"
ZOMBIE == "ZOMBIE"
States == {UNUSED, EMBRYO, SLEEPING, RUNNABLE, RUNNING, ZOMBIE}

(* Where a process's kernel thread executes, or resumes when switched to.  *)
KPcs == {"none",        \* UNUSED slot: no thread
         "forkret",     \* context->eip = forkret (allocproc)
         "user",        \* in user space (trapret done)
         "fork_copy",   \* fork(): after allocproc, building the child
         "exit",        \* about to run exit()
         "wait_sleep",  \* in sleep(curproc, &ptable.lock) called by wait()
         "sleep_lk",    \* sys_sleep holding tickslock, about to call sleep()
         "sleep_ret",   \* in sleep(&ticks, &tickslock), after sched()
         "sleep_reacq", \* in sleep(), ptable.lock released, acquire(tickslock)
         "yield_ret",   \* in yield() called by trap(), after sched()
         "zombie"}      \* after exit()'s sched(): never runs again

VARIABLES
  state, pid, parent, chan, killed,  \* fields of struct proc
  kpc,        \* kernel thread position of each slot's process
  np,         \* fork(): local np, the child being built
  ticks0,     \* sys_sleep(): local ticks0
  sleepn,     \* sys_sleep(): argument n
  cproc,      \* c->proc for each CPU
  sidx,       \* scheduler(): 0 at the top of the loop, else the slot p the scan is at
  ptlock,     \* holder of ptable.lock
  tickslock,  \* holder of tickslock
  ticks,      \* uint ticks
  nextpid,    \* int nextpid
  killedFor   \* history: the pid argument that set killed (0 when not killed)

vars == <<state, pid, parent, chan, killed, kpc, np, ticks0, sleepn, cproc,
          sidx, ptlock, tickslock, ticks, nextpid, killedFor>>

-----------------------------------------------------------------------------
(* Helpers *)

OnCpu(p)  == \E c \in CPUS : cproc[c] = p
CpuOf(p)  == CHOOSE c \in CPUS : cproc[c] = p

\* wakeup1(chan): every SLEEPING process on chan becomes RUNNABLE
Wakeup1(st, ch) ==
  [q \in Slots |-> IF st[q] = SLEEPING /\ chan[q] = ch THEN RUNNABLE ELSE st[q]]

\* sched() switches to c->scheduler; scheduler() resumes after its swtch,
\* sets c->proc = 0 and goes on with the next slot.  ptable.lock stays held.
\* mutant: the scan restarts at ptable.proc after every switch back
SwitchToSchedulerRestart(c) ==
  /\ cproc' = [cproc EXCEPT ![c] = 0]
  /\ sidx'  = [sidx EXCEPT ![c] = 1]
SwitchToScheduler(c) ==
  /\ cproc' = [cproc EXCEPT ![c] = 0]
  /\ sidx'  = [sidx EXCEPT ![c] = @ + 1]

\* trap(): after a system call returns, a killed process exits
RetUser(p, kl) == IF kl[p] THEN "exit" ELSE "user"

\* uint arithmetic of sys_sleep: ticks - ticks0 < n, n converted to uint
Elapsed(p)   == (ticks - ticks0[p]) % TickMod
AsUint(n)    == n % TickMod

\* int arithmetic of nextpid: the build's two's-complement wrap of signed
\* overflow (undefined in C, an add instruction in the compiled code)
IntWrap(x) == ((x + 2^(PidWidth - 1)) % 2^PidWidth) - 2^(PidWidth - 1)

\* mutant: the ++ of nextpid++ left out
NextPidSame(n) == n

\* allocproc: p->pid = nextpid++
NextPid(n) == IntWrap(n + 1)

-----------------------------------------------------------------------------
(* Scheduler, one loop per CPU *)

\* sti(); acquire(&ptable.lock)
SchedAcquire(c) ==
  /\ cproc[c] = 0 /\ sidx[c] = 0
  /\ ptlock = NoCpu
  /\ ptlock' = c
  /\ sidx' = [sidx EXCEPT ![c] = 1]
  /\ UNCHANGED <<state, pid, parent, chan, killed, kpc, np, ticks0, sleepn,
                 cproc, tickslock, ticks, nextpid, killedFor>>

\* mutant: the scan does not skip a slot some other CPU is RUNNING
RunnableFromAny(i) == {q \in i..NPROC : state[q] \in {RUNNABLE, RUNNING}}

RunnableFrom(i) == {q \in i..NPROC : state[q] = RUNNABLE}

\* the scan reaches the first RUNNABLE slot: c->proc = p; p->state = RUNNING;
\* swtch(&c->scheduler, p->context)
SchedDispatch(c) ==
  /\ cproc[c] = 0 /\ sidx[c] >= 1
  /\ RunnableFrom(sidx[c]) # {}
  /\ LET q == Min(RunnableFrom(sidx[c])) IN
       /\ cproc' = [cproc EXCEPT ![c] = q]
       /\ state' = [state EXCEPT ![q] = RUNNING]
       /\ sidx'  = [sidx EXCEPT ![c] = q]
  /\ UNCHANGED <<pid, parent, chan, killed, kpc, np, ticks0, sleepn, ptlock,
                 tickslock, ticks, nextpid, killedFor>>

\* the scan ends with no RUNNABLE slot left: release(&ptable.lock)
SchedRelease(c) ==
  /\ cproc[c] = 0 /\ sidx[c] >= 1
  /\ RunnableFrom(sidx[c]) = {}
  /\ ptlock' = NoCpu
  /\ sidx' = [sidx EXCEPT ![c] = 0]
  /\ UNCHANGED <<state, pid, parent, chan, killed, kpc, np, ticks0, sleepn,
                 cproc, tickslock, ticks, nextpid, killedFor>>

\* mutant: the idle tick forgets wakeup(&ticks)
TickIdleNoWake(c) ==
  /\ c = TickCpu /\ cproc[c] = 0 /\ sidx[c] = 0
  /\ tickslock = NoCpu /\ ptlock = NoCpu
  /\ ticks' = (ticks + 1) % TickMod
  /\ UNCHANGED <<state, pid, parent, chan, killed, kpc, np, ticks0, sleepn,
                 cproc, sidx, ptlock, tickslock, nextpid, killedFor>>

(* The timer interrupt taken by the idle scheduler between sti() and       *)
(* acquire(): on CPU 0, ticks++ and wakeup(&ticks); myproc() is 0, no yield.*)
TickIdle(c) ==
  /\ c = TickCpu /\ cproc[c] = 0 /\ sidx[c] = 0
  /\ tickslock = NoCpu /\ ptlock = NoCpu
  /\ ticks' = (ticks + 1) % TickMod
  /\ state' = Wakeup1(state, TicksChan)
  /\ UNCHANGED <<pid, parent, chan, killed, kpc, np, ticks0, sleepn, cproc,
                 sidx, ptlock, tickslock, nextpid, killedFor>>

-----------------------------------------------------------------------------
(* Steps of a process's kernel thread.  p runs on CPU CpuOf(p). *)

\* mutant: forkret() returns without releasing ptable.lock
ForkRetKeep(p) ==
  /\ kpc[p] = "forkret" /\ OnCpu(p)
  /\ kpc' = [kpc EXCEPT ![p] = "user"]
  /\ UNCHANGED <<state, pid, parent, chan, killed, np, ticks0, sleepn, cproc,
                 sidx, ptlock, tickslock, ticks, nextpid, killedFor>>

\* forkret(): release the ptable.lock the scheduler acquired; trapret
ForkRet(p) ==
  /\ kpc[p] = "forkret" /\ OnCpu(p)
  /\ ptlock' = NoCpu
  /\ kpc' = [kpc EXCEPT ![p] = "user"]
  /\ UNCHANGED <<state, pid, parent, chan, killed, np, ticks0, sleepn, cproc,
                 sidx, tickslock, ticks, nextpid, killedFor>>

\* mutant: the scan runs one slot past the table (p <= &ptable.proc[NPROC])
FreeSlotsPastEnd == {q \in Slots : state[q] = UNUSED} \cup {NPROC + 1}
\* allocproc(): the slots the scan of ptable.proc finds UNUSED
FreeSlots == {q \in Slots : state[q] = UNUSED}

\* fork() -> allocproc(): the critical section on ptable.lock
ForkAlloc(p) ==
  /\ kpc[p] = "user" /\ ~killed[p] /\ OnCpu(p)
  /\ nextpid <= MaxPid
  /\ ptlock = NoCpu
  /\ \/ /\ FreeSlots = {}                         \* return -1
        /\ UNCHANGED <<state, pid, kpc, np, nextpid>>
     \/ /\ FreeSlots # {}
        /\ LET q == Min(FreeSlots) IN
             /\ state' = [state EXCEPT ![q] = EMBRYO]
             /\ pid' = [pid EXCEPT ![q] = nextpid]
             /\ nextpid' = NextPid(nextpid)
             /\ kpc' = [kpc EXCEPT ![q] = "forkret", ![p] = "fork_copy"]
             /\ np' = [np EXCEPT ![p] = q]
  /\ UNCHANGED <<parent, chan, killed, ticks0, sleepn, cproc, sidx, ptlock,
                 tickslock, ticks, killedFor>>

\* fork(): kalloc() of the kernel stack or copyuvm() fails: the slot goes
\* back to UNUSED, without ptable.lock; fork returns -1
ForkFail(p) ==
  /\ kpc[p] = "fork_copy" /\ OnCpu(p)
  /\ state' = [state EXCEPT ![np[p]] = UNUSED]
  /\ kpc' = [kpc EXCEPT ![np[p]] = "none", ![p] = RetUser(p, killed)]
  /\ np' = [np EXCEPT ![p] = 0]
  /\ UNCHANGED <<pid, parent, chan, killed, ticks0, sleepn, cproc, sidx,
                 ptlock, tickslock, ticks, nextpid, killedFor>>

\* fork(): np->parent = curproc; copy; acquire; np->state = RUNNABLE; release
ForkDone(p) ==
  /\ kpc[p] = "fork_copy" /\ OnCpu(p)
  /\ ptlock = NoCpu
  /\ parent' = [parent EXCEPT ![np[p]] = p]
  /\ state' = [state EXCEPT ![np[p]] = RUNNABLE]
  /\ kpc' = [kpc EXCEPT ![p] = RetUser(p, killed)]
  /\ np' = [np EXCEPT ![p] = 0]
  /\ UNCHANGED <<pid, chan, killed, ticks0, sleepn, cproc, sidx, ptlock,
                 tickslock, ticks, nextpid, killedFor>>

\* mutant: exit() does not wake its parent
ExitWakeupsNoParent(p) ==
  IF \E k \in Slots : parent[k] = p /\ state[k] = ZOMBIE
    THEN Wakeup1(state, InitProc) ELSE state

\* exit(): wakeup1(curproc->parent), then wakeup1(initproc) if a child passed
\* to initproc is a ZOMBIE
ExitWakeups(p) ==
  LET st1 == Wakeup1(state, parent[p]) IN
  IF \E k \in Slots : parent[k] = p /\ state[k] = ZOMBIE
    THEN Wakeup1(st1, InitProc) ELSE st1

\* mutant: exit() leaves its children's parent pointers alone
ReparentNone(p) == parent

\* exit(): every child's parent becomes initproc
Reparent(p) == [q \in Slots |-> IF parent[q] = p THEN InitProc ELSE parent[q]]

(* exit(), from sys_exit or a killed-process checkpoint of trap():         *)
(* acquire; wakeup1(parent); pass children to initproc, waking it if one   *)
(* is a ZOMBIE; state = ZOMBIE; sched() never to return.  initproc never   *)
(* reaches it (its program only forks and waits; "init exiting" panic).    *)
Exit(p) ==
  /\ p # InitProc /\ OnCpu(p)
  /\ kpc[p] \in {"user", "exit"}
  /\ ptlock = NoCpu
  /\ state' = [ExitWakeups(p) EXCEPT ![p] = ZOMBIE]
  /\ parent' = Reparent(p)
  /\ kpc' = [kpc EXCEPT ![p] = "zombie"]
  /\ ptlock' = CpuOf(p)
  /\ SwitchToScheduler(CpuOf(p))
  /\ UNCHANGED <<pid, chan, killed, np, ticks0, sleepn, tickslock, ticks,
                 nextpid, killedFor>>

(* One pass of wait()'s loop, ptable.lock held by CPU c: reap the first    *)
(* ZOMBIE child and return its pid; return -1 when there are no children   *)
(* or curproc->killed; else sleep(curproc, &ptable.lock).                 *)
WaitScan(p, c) ==
  LET kids == {q \in Slots : parent[q] = p}
      zs   == {q \in kids : state[q] = ZOMBIE}
  IN \/ /\ zs # {}
        /\ LET q == Min(zs) IN
             /\ state' = [state EXCEPT ![q] = UNUSED]
             /\ pid' = [pid EXCEPT ![q] = 0]
             /\ parent' = [parent EXCEPT ![q] = 0]
             /\ killed' = [killed EXCEPT ![q] = FALSE]
             /\ killedFor' = [killedFor EXCEPT ![q] = 0]
             /\ kpc' = [kpc EXCEPT ![q] = "none", ![p] = RetUser(p, killed)]
        /\ chan' = [chan EXCEPT ![p] = 0]
        /\ ptlock' = NoCpu
        /\ UNCHANGED <<cproc, sidx>>
     \/ /\ zs = {} /\ (kids = {} \/ killed[p])
        /\ chan' = [chan EXCEPT ![p] = 0]
        /\ kpc' = [kpc EXCEPT ![p] = RetUser(p, killed)]
        /\ ptlock' = NoCpu
        /\ UNCHANGED <<state, pid, parent, killed, killedFor, cproc, sidx>>
     \/ /\ zs = {} /\ kids # {} /\ ~killed[p]
        /\ chan' = [chan EXCEPT ![p] = p]
        /\ state' = [state EXCEPT ![p] = SLEEPING]
        /\ kpc' = [kpc EXCEPT ![p] = "wait_sleep"]
        /\ ptlock' = c
        /\ SwitchToScheduler(c)
        /\ UNCHANGED <<pid, parent, killed, killedFor>>

\* wait(): acquire(&ptable.lock), then the loop
SysWait(p) ==
  /\ kpc[p] = "user" /\ ~killed[p] /\ OnCpu(p)
  /\ ptlock = NoCpu
  /\ WaitScan(p, CpuOf(p))
  /\ UNCHANGED <<np, ticks0, sleepn, tickslock, ticks, nextpid>>

\* wait(): back from sleep() (p->chan = 0; lk is ptable.lock), loop again
WaitResume(p) ==
  /\ kpc[p] = "wait_sleep" /\ OnCpu(p)
  /\ WaitScan(p, CpuOf(p))
  /\ UNCHANGED <<np, ticks0, sleepn, tickslock, ticks, nextpid>>

\* mutant: kill() marks the process but does not wake it
SysKillNoWake(p, k) ==
  /\ p # InitProc /\ kpc[p] = "user" /\ ~killed[p] /\ OnCpu(p)
  /\ ptlock = NoCpu
  /\ LET ms == {q \in Slots : pid[q] = k} IN
       \/ /\ ms # {}
          /\ killed' = [killed EXCEPT ![Min(ms)] = TRUE]
          /\ killedFor' = [killedFor EXCEPT ![Min(ms)] = k]
          /\ kpc' = [kpc EXCEPT ![p] = RetUser(p, killed')]
       \/ /\ ms = {}
          /\ UNCHANGED <<killed, killedFor, kpc>>
  /\ UNCHANGED <<state, pid, parent, chan, np, ticks0, sleepn, cproc, sidx,
                 ptlock, tickslock, ticks, nextpid>>

(* kill(pid): the first slot in table order whose pid matches is marked    *)
(* killed and, if SLEEPING, made RUNNABLE; -1 when no slot matches.        *)
SysKill(p, k) ==
  /\ p # InitProc /\ kpc[p] = "user" /\ ~killed[p] /\ OnCpu(p)
  /\ ptlock = NoCpu
  /\ LET ms == {q \in Slots : pid[q] = k} IN
       \/ /\ ms # {}
          /\ LET q == Min(ms) IN
               /\ killed' = [killed EXCEPT ![q] = TRUE]
               /\ killedFor' = [killedFor EXCEPT ![q] = k]
               /\ state' = IF state[q] = SLEEPING
                             THEN [state EXCEPT ![q] = RUNNABLE] ELSE state
               /\ kpc' = [kpc EXCEPT ![p] = RetUser(p, killed')]
       \/ /\ ms = {}
          /\ UNCHANGED <<killed, killedFor, state, kpc>>
  /\ UNCHANGED <<pid, parent, chan, np, ticks0, sleepn, cproc, sidx, ptlock,
                 tickslock, ticks, nextpid>>

(* The test of sys_sleep's loop, tickslock held by c: return 0 once        *)
(* ticks - ticks0 >= n, return -1 if killed, else call sleep().            *)
SleepCheck(p, c, t0, n) ==
  LET elapsed == (ticks - t0) % TickMod IN
  \/ /\ elapsed >= AsUint(n)
     /\ tickslock' = NoCpu
     /\ kpc' = [kpc EXCEPT ![p] = RetUser(p, killed)]
  \/ /\ elapsed < AsUint(n) /\ killed[p]
     /\ tickslock' = NoCpu
     /\ kpc' = [kpc EXCEPT ![p] = "exit"]
  \/ /\ elapsed < AsUint(n) /\ ~killed[p]
     /\ tickslock' = c
     /\ kpc' = [kpc EXCEPT ![p] = "sleep_lk"]

\* sys_sleep(): acquire(&tickslock); ticks0 = ticks; the loop test
SysSleep(p, n) ==
  /\ p # InitProc /\ kpc[p] = "user" /\ ~killed[p] /\ OnCpu(p)
  /\ tickslock = NoCpu
  /\ ticks0' = [ticks0 EXCEPT ![p] = ticks]
  /\ sleepn' = [sleepn EXCEPT ![p] = n]
  /\ SleepCheck(p, CpuOf(p), ticks, n)
  /\ UNCHANGED <<state, pid, parent, chan, killed, np, cproc, sidx, ptlock,
                 ticks, nextpid, killedFor>>

(* sleep(&ticks, &tickslock): acquire ptable.lock before releasing          *)
(* tickslock; chan = &ticks; state = SLEEPING; sched().                    *)
SleepEnter(p) ==
  /\ kpc[p] = "sleep_lk" /\ OnCpu(p)
  /\ ptlock = NoCpu
  /\ ptlock' = CpuOf(p)
  /\ tickslock' = NoCpu
  /\ chan' = [chan EXCEPT ![p] = TicksChan]
  /\ state' = [state EXCEPT ![p] = SLEEPING]
  /\ kpc' = [kpc EXCEPT ![p] = "sleep_ret"]
  /\ SwitchToScheduler(CpuOf(p))
  /\ UNCHANGED <<pid, parent, killed, np, ticks0, sleepn, ticks, nextpid,
                 killedFor>>

\* sleep(), back from sched(): chan = 0; release(&ptable.lock)
SleepWake(p) ==
  /\ kpc[p] = "sleep_ret" /\ OnCpu(p)
  /\ chan' = [chan EXCEPT ![p] = 0]
  /\ ptlock' = NoCpu
  /\ kpc' = [kpc EXCEPT ![p] = "sleep_reacq"]
  /\ UNCHANGED <<state, pid, parent, killed, np, ticks0, sleepn, cproc, sidx,
                 tickslock, ticks, nextpid, killedFor>>

\* sleep(): acquire(lk), back in sys_sleep's loop test
SleepReacquire(p) ==
  /\ kpc[p] = "sleep_reacq" /\ OnCpu(p)
  /\ tickslock = NoCpu
  /\ SleepCheck(p, CpuOf(p), ticks0[p], sleepn[p])
  /\ UNCHANGED <<state, pid, parent, chan, killed, np, ticks0, sleepn, cproc,
                 sidx, ptlock, ticks, nextpid, killedFor>>

-----------------------------------------------------------------------------
(* trap() for interrupts and exceptions taken in user mode *)

\* case T_IRQ0 + IRQ_TIMER: on CPU 0, ticks++ and wakeup(&ticks) under tickslock
TimerGuard(c) == c = TickCpu => tickslock = NoCpu /\ ptlock = NoCpu
TimerTicks(c) == IF c = TickCpu THEN (ticks + 1) % TickMod ELSE ticks
\* mutant: the tick forgets wakeup(&ticks)
TimerStateNoWake(c) == state
TimerState(c) == IF c = TickCpu THEN Wakeup1(state, TicksChan) ELSE state

\* timer interrupt of a killed process: the first checkpoint calls exit()
TimerExit(p) ==
  /\ kpc[p] = "user" /\ killed[p] /\ OnCpu(p)
  /\ TimerGuard(CpuOf(p))
  /\ ticks' = TimerTicks(CpuOf(p))
  /\ state' = TimerState(CpuOf(p))
  /\ kpc' = [kpc EXCEPT ![p] = "exit"]
  /\ UNCHANGED <<pid, parent, chan, killed, np, ticks0, sleepn, cproc, sidx,
                 ptlock, tickslock, nextpid, killedFor>>

\* timer interrupt of a RUNNING process: yield(): acquire; RUNNABLE; sched()
TimerYield(p) ==
  /\ kpc[p] = "user" /\ ~killed[p] /\ OnCpu(p)
  /\ TimerGuard(CpuOf(p))
  /\ ptlock = NoCpu
  /\ ticks' = TimerTicks(CpuOf(p))
  /\ state' = [TimerState(CpuOf(p)) EXCEPT ![p] = RUNNABLE]
  /\ kpc' = [kpc EXCEPT ![p] = "yield_ret"]
  /\ ptlock' = CpuOf(p)
  /\ SwitchToScheduler(CpuOf(p))
  /\ UNCHANGED <<pid, parent, chan, killed, np, ticks0, sleepn, tickslock,
                 nextpid, killedFor>>

\* yield(): release(&ptable.lock); trap()'s second checkpoint
YieldReturn(p) ==
  /\ kpc[p] = "yield_ret" /\ OnCpu(p)
  /\ ptlock' = NoCpu
  /\ kpc' = [kpc EXCEPT ![p] = RetUser(p, killed)]
  /\ UNCHANGED <<state, pid, parent, chan, killed, np, ticks0, sleepn, cproc,
                 sidx, tickslock, ticks, nextpid, killedFor>>

\* default: an exception from user mode marks the process killed; checkpoint
Fault(p) ==
  /\ p # InitProc /\ kpc[p] = "user" /\ OnCpu(p)
  /\ killed' = [killed EXCEPT ![p] = TRUE]
  /\ killedFor' = [killedFor EXCEPT ![p] = pid[p]]
  /\ kpc' = [kpc EXCEPT ![p] = "exit"]
  /\ UNCHANGED <<state, pid, parent, chan, np, ticks0, sleepn, cproc, sidx,
                 ptlock, tickslock, ticks, nextpid>>

-----------------------------------------------------------------------------
(* After main(): userinit() made initproc RUNNABLE with pid 1, its context *)
(* at forkret; every CPU is at the top of its scheduler loop.              *)
Init ==
  /\ state = [q \in Slots |-> IF q = InitProc THEN RUNNABLE ELSE UNUSED]
  /\ pid = [q \in Slots |-> IF q = InitProc THEN 1 ELSE 0]
  /\ parent = [q \in Slots |-> 0]
  /\ chan = [q \in Slots |-> 0]
  /\ killed = [q \in Slots |-> FALSE]
  /\ kpc = [q \in Slots |-> IF q = InitProc THEN "forkret" ELSE "none"]
  /\ np = [q \in Slots |-> 0]
  /\ ticks0 = [q \in Slots |-> 0]
  /\ sleepn = [q \in Slots |-> 0]
  /\ cproc = [c \in CPUS |-> 0]
  /\ sidx = [c \in CPUS |-> 0]
  /\ ptlock = NoCpu
  /\ tickslock = NoCpu
  /\ ticks = 0
  /\ nextpid = 2
  /\ killedFor = [q \in Slots |-> 0]

SchedStep(c) ==
  SchedAcquire(c) \/ SchedDispatch(c) \/ SchedRelease(c)

KernelStep(p) ==
  \/ ForkRet(p) \/ ForkDone(p) \/ ForkFail(p) \/ Exit(p) \/ WaitResume(p)
  \/ SleepEnter(p) \/ SleepWake(p) \/ SleepReacquire(p) \/ YieldReturn(p)

UserStep(p) ==
  \/ ForkAlloc(p) \/ SysWait(p) \/ Fault(p)
  \/ \E k \in KillPids : SysKill(p, k)
  \/ \E n \in SleepTicks : SysSleep(p, n)

Next ==
  \/ \E c \in CPUS : SchedStep(c) \/ TickIdle(c)
  \/ \E p \in Slots : KernelStep(p) \/ UserStep(p) \/ TimerExit(p) \/ TimerYield(p)

Spec == Init /\ [][Next]_vars

(* Fairness.  A CPU keeps executing: a step that needs no lock is weakly   *)
(* fair.  A step that spins in acquire() is strongly fair, which assumes    *)
(* the xchg spin is not starved forever by other CPUs (the code does not    *)
(* guarantee it; the liveness results are conditional on it).  The timer    *)
(* interrupt is latched by the local APIC and taken at the next point       *)
(* interrupts are enabled: strong fairness.  User programs get none: a     *)
(* process may compute in user space forever.  The steps of one thread are  *)
(* enabled at distinct kernel positions, so one SF condition per thread     *)
(* covers all of its acquiring steps.                                       *)
LockedStep(p) ==
  \/ ForkDone(p) \/ (Exit(p) /\ kpc[p] = "exit") \/ SleepEnter(p)
  \/ SleepReacquire(p) \/ TimerYield(p) \/ TimerExit(p)

Fairness ==
  /\ \A c \in CPUS :
       /\ SF_vars(SchedAcquire(c))
       /\ WF_vars(SchedDispatch(c) \/ SchedRelease(c))
       /\ SF_vars(TickIdle(c))
  /\ \A p \in Slots :
       /\ WF_vars(ForkRet(p) \/ WaitResume(p) \/ SleepWake(p) \/ YieldReturn(p))
       /\ SF_vars(LockedStep(p))

FairSpec == Spec /\ Fairness

-----------------------------------------------------------------------------
TypeOK ==
  /\ state \in [Slots -> States]
  /\ pid \in [Slots -> 0..MaxPid]
  /\ parent \in [Slots -> 0..NPROC]
  /\ chan \in [Slots -> Chans]
  /\ killed \in [Slots -> BOOLEAN]
  /\ kpc \in [Slots -> KPcs]
  /\ np \in [Slots -> 0..NPROC]
  /\ ticks0 \in [Slots -> 0..(TickMod - 1)]
  /\ sleepn \in [Slots -> SleepTicks \cup {0}]
  /\ cproc \in [CPUS -> 0..NPROC]
  /\ sidx \in [CPUS -> 0..(NPROC + 1)]
  /\ ptlock \in CPUS \cup {NoCpu}
  /\ tickslock \in CPUS \cup {NoCpu}
  /\ ticks \in 0..(TickMod - 1)
  /\ nextpid \in 2..(MaxPid + 1)
  /\ killedFor \in [Slots -> KillPids \cup 0..MaxPid]

(* ptable.lock is handed across swtch: it is held by CPU c exactly while c *)
(* runs its scheduler's scan, or runs a process between the sched() (or    *)
(* first dispatch) and the release in forkret, yield, sleep or wait.       *)
LockedPcs == {"forkret", "wait_sleep", "sleep_ret", "yield_ret"}
PtableLockHandoff ==
  \A c \in CPUS :
    ptlock = c <=> \/ cproc[c] = 0 /\ sidx[c] >= 1
                   \/ cproc[c] # 0 /\ kpc[cproc[c]] \in LockedPcs

(* A process is RUNNING exactly when one CPU, and only one, executes it:   *)
(* the scheduler's RUNNABLE test and the state change made before every    *)
(* sched() keep two CPUs from resuming the same saved context.            *)
RunsOnOneCpu ==
  /\ \A c, d \in CPUS : c # d /\ cproc[c] # 0 => cproc[c] # cproc[d]
  /\ \A p \in Slots : state[p] = RUNNING <=> OnCpu(p)

(* No lost wakeup in wait(): a parent asleep on itself has no ZOMBIE child *)
(* (exit() wakes the parent, and initproc when it inherits a ZOMBIE).      *)
WaitWakeupNotLost ==
  \A p \in Slots :
    state[p] = SLEEPING /\ chan[p] = p =>
      \A q \in Slots : parent[q] = p => state[q] # ZOMBIE

(* No lost wakeup in sys_sleep(): a process asleep on &ticks still has     *)
(* ticks to wait; every tick wakes it to re-test ticks - ticks0 < n.       *)
TicksWakeupNotLost ==
  \A p \in Slots :
    state[p] = SLEEPING /\ chan[p] = TicksChan => Elapsed(p) < AsUint(sleepn[p])

(* A started process's parent pointer names a live process: exit() passes *)
(* the children to initproc before its slot can be reaped and reused.      *)
ParentIsLive ==
  \A q \in Slots \ {InitProc} :
    state[q] \notin {UNUSED, EMBRYO} =>
      parent[q] \in Slots /\ state[parent[q]] \notin {UNUSED, ZOMBIE}

(* A live process is marked killed only by a kill() of its own pid (or its *)
(* own fault): kill() and the UNUSED slots it may match must not doom a    *)
(* process allocated later in the slot.                                    *)
KilledOnlyByRequest ==
  \A p \in Slots :
    killed[p] /\ state[p] # UNUSED => killedFor[p] = pid[p]

(* Round robin: a RUNNABLE process is eventually dispatched by some CPU's  *)
(* scan (the scan resumes after the slot it last ran).                     *)
RunnableEventuallyRuns ==
  \A p \in Slots : state[p] = RUNNABLE ~> state[p] = RUNNING

(* Cooperative kill: a live process marked killed eventually becomes a     *)
(* ZOMBIE: kill() wakes it, and every path out of sleep() or back to user   *)
(* space re-tests p->killed.                                               *)
KilledEventuallyExits ==
  \A p \in Slots :
    killed[p] /\ state[p] \notin {UNUSED, ZOMBIE} ~> state[p] \in {UNUSED, ZOMBIE}

(* A process asleep on &ticks is eventually woken: CPU 0 keeps taking     *)
(* timer interrupts and each one runs wakeup(&ticks).  (That sys_sleep()   *)
(* then returns is not stated: with a finite counter, ticks can wrap back  *)
(* to ticks0 while the sleeper waits for tickslock, see README.)           *)
TickSleeperEventuallyWoken ==
  \A p \in Slots :
    state[p] = SLEEPING /\ chan[p] = TicksChan ~> state[p] # SLEEPING
(* initproc never reaches exit(): exit() panics with "init exiting", and   *)
(* it would be the reaper of every orphan.  A kill() of its pid, or a      *)
(* fault, sends it there at the next trap() checkpoint.                    *)
InitNeverExits == kpc[InitProc] # "exit"

-----------------------------------------------------------------------------
(* Refinement: the process table implements ProcLifecycle.  A slot's       *)
(* state, parent and the process each CPU runs are the abstract ones; the  *)
(* pid of an UNUSED slot (left behind by a failed fork) is hidden.  Locks, *)
(* kernel-thread positions, killed and the tick counter are internal.      *)
AbsPid == [q \in Slots |-> IF state[q] = UNUSED THEN 0 ELSE pid[q]]

Life == INSTANCE ProcLifecycle
          WITH st <- state, par <- parent, pid <- AbsPid, run <- cproc,
               Pids <- 1..MaxPid

(* Every step of the scheduler loops, the lifecycle calls and trap() is a  *)
(* step of the abstract lifecycle, or leaves it unchanged: in particular,  *)
(* allocproc's nextpid++ gives each new process a pid no live process has. *)
ImplementsLifecycle == Life!Spec
=============================================================================
