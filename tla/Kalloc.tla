-------------------------------- MODULE Kalloc --------------------------------
(***************************************************************************)
(* The physical page allocator of xv6 (src/kernel/kalloc.c) and the boot   *)
(* sequence that initialises it and starts the other CPUs (main, mpenter,  *)
(* mpmain and startothers in src/kernel/trap.c), after the boot loader     *)
(* (Bootmain) has loaded the kernel and jumped to it.                      *)
(*                                                                         *)
(* Pages are numbered by address: 1..NLow lie in the first 4 MB, the only   *)
(* memory entrypgdir maps; NLow+1..NLow+NHigh lie above it.  The free list *)
(* is the linked list kmem.freelist -> r->next, kept as head and nxt.      *)
(* kalloc() and kfree() are each split at the point where another CPU can  *)
(* interleave when kmem.use_lock is 0: after reading kmem.freelist, before *)
(* writing it.                                                             *)
(***************************************************************************)
EXTENDS Naturals, Sequences, FiniteSets

CONSTANTS
  NCPU,      \* cpus[0..NCPU-1]
  BootCpu,   \* the CPU that runs main()
  NLow,      \* pages between end and 4 MB, freed by kinit1()
  NHigh,     \* pages between 4 MB and PHYSTOP, freed by kinit2()
  KvmPages,  \* pages setupkvm() takes for kpgdir and its page tables
  SECTSIZE, PGSIZE, MaxSz   \* the boot loader's scaled sizes (Bootmain)

CPUS  == 0..(NCPU - 1)
APs   == CPUS \ {BootCpu}
Pages == 1..(NLow + NHigh)
NoCpu == NCPU                 \* a kmem.lock held by no CPU

ASSUME NCPU >= 2 /\ BootCpu \in CPUS /\ KvmPages + NCPU - 1 <= NLow

VARIABLES
  head,     \* kmem.freelist (0 is the null pointer)
  nxt,      \* r->next of every page
  uselock,  \* kmem.use_lock
  kmlock,   \* holder of kmem.lock
  kpc,      \* each CPU: "idle", in kalloc after the read ("a_got"), in kfree
            \* after r->next = freelist ("f_linked")
  r,        \* kalloc/kfree local r of each CPU
  phase,    \* index in MainOrder of the step main() is at
  cur,      \* startothers: the cpu it is starting
  freed,    \* kinit2: pages of its range freed so far
  started,  \* c->started
  stack,    \* the kernel stack startothers() allocated for each AP
  apc,      \* each AP: "off", "entry" (lapicstartap sent), "sched"
  kern,     \* pages kalloc() gave to kpgdir and AP stacks, never freed
  alloc,    \* number of outstanding kalloc() results of each page held by
            \* process code
  bpc, elf, ph, mem   \* the boot loader's, see Bootmain

kvars == <<head, nxt, uselock, kmlock, kpc, r, phase, cur, freed, started,
           stack, apc, kern, alloc>>

Loader == INSTANCE Bootmain

bvars == <<bpc, elf, ph, mem>>
vars == <<kvars, bvars>>

\* mutant: kinit2() moved before startothers()
MainOrderKinit2First ==
  <<"kinit1", "kvmalloc", "kinit2", "startothers", "userinit", "up">>
\* mutant: userinit() moved before kinit2()
MainOrderUserinitFirst ==
  <<"kinit1", "kvmalloc", "startothers", "userinit", "kinit2", "up">>

\* the allocator and CPU set-up calls of main(), in their order
MainOrder == <<"kinit1", "kvmalloc", "startothers", "kinit2", "userinit", "up">>

Phase == MainOrder[phase]
Done(step) == \E i \in 1..(phase - 1) : MainOrder[i] = step
Advance == phase' = phase + 1

\* mutant: freerange's loop test p + PGSIZE <= vend written p <= vend
FreeRangeInclusive(lo, hi) == lo..hi

\* freerange(vstart, vend): the pages of [vstart, vend), in increasing order
FreeRange(lo, hi) == lo..(hi - 1)

LowRange  == FreeRange(1, NLow + 1)
HighRange == FreeRange(NLow + 1, NLow + NHigh + 1)

\* the pages on the free list (stopping at a cycle)
RECURSIVE Reach(_, _)
Reach(h, seen) == IF h = 0 \/ h \in seen THEN seen ELSE Reach(nxt[h], seen \cup {h})
FreeSet == Reach(head, {})

-----------------------------------------------------------------------------
(* kalloc(): if(use_lock) acquire; r = kmem.freelist.  kfree(v): the same  *)
(* acquire; r = v; r->next = kmem.freelist.                                *)
LockIfUsed(c) ==
  IF uselock THEN kmlock = NoCpu /\ kmlock' = c ELSE UNCHANGED kmlock
ReleaseIfUsed == IF uselock THEN kmlock' = NoCpu ELSE UNCHANGED kmlock

KallocBegin(c) ==
  /\ kpc[c] = "idle"
  /\ LockIfUsed(c)
  /\ r' = [r EXCEPT ![c] = head]
  /\ kpc' = [kpc EXCEPT ![c] = "a_got"]

\* mutant: kmem.freelist = r->next left out
KallocEndNoPop(c) ==
  /\ kpc[c] = "a_got"
  /\ ReleaseIfUsed
  /\ kpc' = [kpc EXCEPT ![c] = "idle"]
  /\ UNCHANGED head

(* kalloc(): if(r) kmem.freelist = r->next; if(use_lock) release; return r *)
KallocEnd(c) ==
  /\ kpc[c] = "a_got"
  /\ head' = IF r[c] # 0 THEN nxt[r[c]] ELSE head
  /\ ReleaseIfUsed
  /\ kpc' = [kpc EXCEPT ![c] = "idle"]

KfreeBegin(c, v) ==
  /\ kpc[c] = "idle"
  /\ LockIfUsed(c)
  /\ nxt' = [nxt EXCEPT ![v] = head]
  /\ r' = [r EXCEPT ![c] = v]
  /\ kpc' = [kpc EXCEPT ![c] = "f_linked"]

\* mutant: kmem.freelist = r left out
KfreeEndNoPush(c) ==
  /\ kpc[c] = "f_linked"
  /\ ReleaseIfUsed
  /\ kpc' = [kpc EXCEPT ![c] = "idle"]
  /\ UNCHANGED head

(* kfree(): kmem.freelist = r; if(use_lock) release *)
KfreeEnd(c) ==
  /\ kpc[c] = "f_linked"
  /\ head' = r[c]
  /\ ReleaseIfUsed
  /\ kpc' = [kpc EXCEPT ![c] = "idle"]

-----------------------------------------------------------------------------
(* main() on the boot CPU *)

\* kinit1(end, 4MB): use_lock = 0; freerange: each kfree pushes on the head
Kinit1 ==
  /\ bpc = "kernel" /\ Phase = "kinit1"
  /\ uselock' = FALSE
  /\ head' = IF LowRange = {} THEN head ELSE NLow
  /\ nxt' = [p \in Pages |-> IF p \in LowRange
                               THEN (IF p - 1 \in LowRange THEN p - 1 ELSE head)
                               ELSE nxt[p]]
  /\ Advance
  /\ UNCHANGED <<kmlock, kpc, r, cur, freed, started, stack, apc, kern, alloc>>

\* kvmalloc(): setupkvm() kallocs kpgdir and its page tables; one CPU runs
RECURSIVE Skip(_, _)
Skip(h, k) == IF k = 0 \/ h = 0 THEN h ELSE Skip(nxt[h], k - 1)
RECURSIVE Taken(_, _)
Taken(h, k) == IF k = 0 \/ h = 0 THEN {} ELSE {h} \cup Taken(nxt[h], k - 1)

Kvmalloc ==
  /\ Phase = "kvmalloc"
  /\ head' = Skip(head, KvmPages)
  /\ kern' = kern \cup Taken(head, KvmPages)
  /\ Advance
  /\ UNCHANGED <<nxt, uselock, kmlock, kpc, r, cur, freed, started, stack, apc,
                 alloc>>

(* startothers(): for each cpu other than this one, stack = kalloc(); then *)
(* lapicstartap() and spin until c->started.                               *)
StartOthersAlloc ==
  /\ Phase = "startothers" /\ cur \in APs /\ apc[cur] = "off"
  /\ kpc[BootCpu] = "idle"
  /\ KallocBegin(BootCpu)
  /\ UNCHANGED <<head, nxt, uselock, phase, cur, freed, started, stack, apc,
                 kern, alloc>>

StartOthersStart ==
  /\ Phase = "startothers" /\ cur \in APs /\ apc[cur] = "off"
  /\ KallocEnd(BootCpu)
  /\ stack' = [stack EXCEPT ![cur] = r[BootCpu]]
  /\ apc' = [apc EXCEPT ![cur] = "entry"]
  /\ kern' = IF r[BootCpu] # 0 THEN kern \cup {r[BootCpu]} ELSE kern
  /\ UNCHANGED <<nxt, uselock, r, phase, cur, freed, started, alloc>>

NextCpu(c) == IF c + 1 = BootCpu THEN c + 2 ELSE c + 1

StartOthersWait ==
  /\ Phase = "startothers"
  /\ cur \in APs /\ started[cur]
  /\ IF NextCpu(cur) < NCPU THEN cur' = NextCpu(cur) /\ UNCHANGED phase
                            ELSE cur' = NCPU /\ Advance
  /\ UNCHANGED <<head, nxt, uselock, kmlock, kpc, r, freed, started, stack, apc,
                 kern, alloc>>

\* kinit2(4MB, PHYSTOP): freerange with use_lock still 0, page by page
Kinit2Free ==
  /\ Phase = "kinit2" /\ NLow + 1 + freed \in HighRange
  /\ KfreeBegin(BootCpu, NLow + 1 + freed)
  /\ UNCHANGED <<head, uselock, phase, cur, freed, started, stack, apc, kern,
                 alloc>>

Kinit2Push ==
  /\ Phase = "kinit2" /\ kpc[BootCpu] = "f_linked"
  /\ KfreeEnd(BootCpu)
  /\ freed' = freed + 1
  /\ UNCHANGED <<nxt, uselock, r, phase, cur, started, stack, apc, kern, alloc>>

\* kinit2(): kmem.use_lock = 1 once the range is freed
Kinit2Lock ==
  /\ Phase = "kinit2" /\ NLow + 1 + freed \notin HighRange
  /\ kpc[BootCpu] = "idle"
  /\ uselock' = TRUE
  /\ Advance
  /\ UNCHANGED <<head, nxt, kmlock, kpc, r, cur, freed, started, stack, apc,
                 kern, alloc>>

\* userinit(): the first process exists; kernel code of processes may now
\* kalloc and kfree on every CPU running its scheduler
Userinit ==
  /\ Phase = "userinit" /\ kpc[BootCpu] = "idle"
  /\ Advance
  /\ UNCHANGED <<head, nxt, uselock, kmlock, kpc, r, cur, freed, started,
                 stack, apc, kern, alloc>>

\* mutant: mpmain() forgets xchg(&started, 1)
ApEnterNoStarted(c) ==
  /\ apc[c] = "entry"
  /\ apc' = [apc EXCEPT ![c] = "sched"]
  /\ UNCHANGED <<head, nxt, uselock, kmlock, kpc, r, phase, cur, freed,
                 started, stack, kern, alloc>>

\* an AP on its new stack: mpenter(); mpmain(): xchg(&started, 1); scheduler()
ApEnter(c) ==
  /\ apc[c] = "entry"
  /\ started' = [started EXCEPT ![c] = TRUE]
  /\ apc' = [apc EXCEPT ![c] = "sched"]
  /\ UNCHANGED <<head, nxt, uselock, kmlock, kpc, r, phase, cur, freed, stack,
                 kern, alloc>>

-----------------------------------------------------------------------------
(* kalloc() and kfree() called by process code (fork, exec, sbrk, pipes,   *)
(* page tables) on a CPU running its scheduler, once userinit() has run.   *)
Running(c) ==
  /\ Done("userinit")
  /\ IF c = BootCpu THEN Phase = "up" ELSE apc[c] = "sched"

ProcKalloc(c) ==
  /\ Running(c)
  /\ KallocBegin(c)
  /\ UNCHANGED <<head, nxt, uselock, phase, cur, freed, started, stack, apc,
                 kern, alloc>>

ProcKallocEnd(c) ==
  /\ Running(c)
  /\ KallocEnd(c)
  /\ alloc' = IF r[c] # 0 THEN [alloc EXCEPT ![r[c]] = @ + 1] ELSE alloc
  /\ UNCHANGED <<nxt, uselock, r, phase, cur, freed, started, stack, apc, kern>>

ProcKfree(c, v) ==
  /\ Running(c) /\ alloc[v] > 0
  /\ KfreeBegin(c, v)
  /\ alloc' = [alloc EXCEPT ![v] = @ - 1]
  /\ UNCHANGED <<head, uselock, phase, cur, freed, started, stack, apc, kern>>

ProcKfreeEnd(c) ==
  /\ Running(c)
  /\ KfreeEnd(c)
  /\ UNCHANGED <<nxt, uselock, r, phase, cur, freed, started, stack, apc, kern,
                 alloc>>

-----------------------------------------------------------------------------
KernelInit ==
  /\ head = 0 /\ nxt = [p \in Pages |-> 0]
  /\ uselock = FALSE /\ kmlock = NoCpu
  /\ kpc = [c \in CPUS |-> "idle"] /\ r = [c \in CPUS |-> 0]
  /\ phase = 1 /\ cur = (IF BootCpu = 0 THEN 1 ELSE 0) /\ freed = 0
  /\ started = [c \in CPUS |-> c = BootCpu]
  /\ stack = [c \in CPUS |-> 0]
  /\ apc = [c \in CPUS |-> IF c = BootCpu THEN "sched" ELSE "off"]
  /\ kern = {} /\ alloc = [p \in Pages |-> 0]

KernelNext ==
  \/ Kinit1 \/ Kvmalloc \/ StartOthersAlloc \/ StartOthersStart
  \/ StartOthersWait \/ Kinit2Free \/ Kinit2Push \/ Kinit2Lock \/ Userinit
  \/ \E c \in APs : ApEnter(c)
  \/ \E c \in CPUS : \/ ProcKalloc(c) \/ ProcKallocEnd(c) \/ ProcKfreeEnd(c)
                     \/ \E v \in Pages : ProcKfree(c, v)

(* The boot CPU runs bootmain, then entry.S and main(); the other CPUs wait *)
(* for startothers().                                                      *)
Init == Loader!Init /\ KernelInit

Next ==
  \/ Loader!Next /\ UNCHANGED kvars
  \/ KernelNext /\ UNCHANGED bvars

Spec == Init /\ [][Next]_vars

(* Boot code runs without waiting on anything but c->started: weakly fair. *)
FairSpec ==
  /\ Spec
  /\ WF_bvars(Loader!Next)
  /\ WF_kvars(Kinit1) /\ WF_kvars(Kvmalloc) /\ WF_kvars(StartOthersAlloc)
  /\ WF_kvars(StartOthersStart) /\ WF_kvars(StartOthersWait)
  /\ WF_kvars(Kinit2Free) /\ WF_kvars(Kinit2Push) /\ WF_kvars(Kinit2Lock)
  /\ WF_kvars(Userinit)
  /\ \A c \in APs : WF_kvars(ApEnter(c))

-----------------------------------------------------------------------------
TypeOK ==
  /\ head \in Pages \cup {0}
  /\ nxt \in [Pages -> Pages \cup {0}]
  /\ uselock \in BOOLEAN /\ kmlock \in CPUS \cup {NoCpu}
  /\ kpc \in [CPUS -> {"idle", "a_got", "f_linked"}]
  /\ r \in [CPUS -> Pages \cup {0}]
  /\ phase \in 1..Len(MainOrder) /\ cur \in 0..NCPU /\ freed \in 0..NHigh
  /\ started \in [CPUS -> BOOLEAN]
  /\ stack \in [CPUS -> Pages \cup {0}]
  /\ apc \in [CPUS -> {"off", "entry", "sched"}]
  /\ kern \subseteq Pages
  /\ alloc \in [Pages -> Nat]
  /\ Loader!BootTypeOK

(* No page is handed out twice: a page is at most one of on the free list, *)
(* being pushed by a kfree(), or returned by a kalloc() not yet freed.     *)
NoDoubleAlloc ==
  \A p \in Pages :
    alloc[p] + (IF p \in kern THEN 1 ELSE 0) + (IF p \in FreeSet THEN 1 ELSE 0)
      + Cardinality({c \in CPUS : kpc[c] = "f_linked" /\ r[c] = p}) <= 1

(* kmem.use_lock = 0 is safe only while one CPU uses the allocator: no two *)
(* CPUs are ever inside kalloc()/kfree() while it is 0.                    *)
UnlockedAlone ==
  ~uselock => Cardinality({c \in CPUS : kpc[c] # "idle"}) <= 1

(* "kinit2 must come after startothers": every AP's boot stack is a page   *)
(* below 4 MB, the only memory entrypgdir maps when it starts.             *)
APStackLow ==
  \A c \in APs : apc[c] # "off" => stack[c] \in 1..NLow

(* When bootmain jumps to the kernel, every segment of the kernel ELF is   *)
(* at its paddr with its bss zeroed, although readseg() writes whole       *)
(* sectors past the bytes it was asked for (Bootmain's ImageLoaded).       *)
ImageLoaded == Loader!ImageLoaded

(* The pages handed out: kalloc() results held by process code, kpgdir's   *)
(* and the AP stacks, and a page whose kfree() by process code has linked *)
(* it but not yet pushed it.  kinit2's kfree()s push memory the allocator *)
(* never had; they run before userinit().                                 *)
Given ==
  {p \in Pages : alloc[p] > 0} \cup kern
    \cup {r[c] : c \in {d \in CPUS : kpc[d] = "f_linked" /\ Done("userinit")}}

Abs == INSTANCE PageAllocator WITH free <- FreeSet, given <- Given

(* The linked free list with its two-step kalloc() and kfree() on several  *)
(* CPUs implements the abstract allocator: each step is a freerange() of   *)
(* new memory, a kalloc() taking free pages, a kfree() returning a page    *)
(* handed out, or changes neither set.  Beyond NoDoubleAlloc this says no *)
(* page drops off the list (a leak) and none reappears on it unfreed.      *)
ImplementsAllocator == Abs!Spec

(* Boot finishes: main() reaches mpmain() with every AP started. *)
BootCompletes == <>(Phase = "up" /\ \A c \in CPUS : started[c])
==============================================================================
