---------------------------------- MODULE Vm ----------------------------------
(***************************************************************************)
(* The two-level x86 page tables of xv6 (src/kernel/vm.c) and the calls    *)
(* of process code that build and tear them down: growproc (sbrk), fork    *)
(* (allocproc's kernel stack and copyuvm) and wait (freevm), in            *)
(* src/kernel/proc.c.                                                      *)
(*                                                                         *)
(* The address space is scaled down: a page is PG bytes, a page table has  *)
(* NPTE entries, the user half has NUPDE directory entries and the kernel  *)
(* half NKPDE, so KERNBASE = NUPDE * NPTE * PG and uint arithmetic is      *)
(* modulo 2 * KERNBASE, as 2^32 = 2 * 0x80000000.  Physical pages are      *)
(* 1..NPages; 0 is the null pointer.  A page's contents are its entries,   *)
(* read as a directory or a table.  Every vm.c function runs on one CPU    *)
(* for the process it is called for and touches only that process's page  *)
(* tables and the allocator, whose lock makes kalloc/kfree atomic: each    *)
(* call is one step, computed by recursive operators that follow the C     *)
(* loops and thread the memory through them.                               *)
(***************************************************************************)
EXTENDS Integers, Sequences, FiniteSets

CONSTANTS
  PG,        \* PGSIZE
  NPTE,      \* NPTENTRIES
  NUPDE,     \* directory entries below KERNBASE
  NKPDE,     \* directory entries the kmap[] mappings of setupkvm() fill
  NPages,    \* physical pages kinit1/kinit2 put on the free list
  Procs,     \* process table slots
  InitProc,  \* the slot userinit() fills
  Deltas,    \* arguments user programs pass to sbrk()
  FileSz     \* bytes of the file loaduvm reads from

NPDE     == NUPDE + NKPDE
KERNBASE == NUPDE * NPTE * PG
UintMod  == 2 * KERNBASE
Pages    == 1..NPages
Idx      == 0..((IF NPDE > NPTE THEN NPDE ELSE NPTE) - 1)

ASSUME PG >= 2 /\ NUPDE >= 2 /\ InitProc \in Procs

(* Entry values besides 0 and a page: a kmap[] mapping of the kernel half, *)
(* and the 0x01010101 kfree() fills a page with, whose PTE_P bit is set.   *)
KMAP == -1
JUNK == -2

PDX(va) == (va \div (NPTE * PG)) % NPDE
PTX(va) == (va \div PG) % NPTE
PGADDR(d, t, o) == d * NPTE * PG + t * PG + o
PgRoundUp(a) == ((a + PG - 1) \div PG) * PG

VARIABLES
  mem,     \* [free |-> kmem.freelist, ent |-> the entries held in each page]
  pgdir,   \* p->pgdir of each slot (0: none)
  kstack,  \* p->kstack of each slot
  sz,      \* p->sz of each slot
  pan      \* "" or the reason the kernel stopped

vars == <<mem, pgdir, kstack, sz, pan>>

-----------------------------------------------------------------------------
(* Results of the vm.c operators: the memory after the call, the return    *)
(* value, and a panic (or a wild access through a junk entry) if any.  A   *)
(* call's result is handed to the operator for the code after it as a     *)
(* parameter.                                                              *)
R(mm, ret) == [mm |-> mm, ret |-> ret, pan |-> ""]
Panic(mm, why) == [mm |-> mm, ret |-> 0, pan |-> why]
Returning(res, v) == IF res.pan # "" THEN res ELSE R(res.mm, v)
Failed(res) == Returning(res, 0)

JunkPage == [i \in Idx |-> JUNK]
NoPte    == <<>>      \* walkpgdir's 0
KernTable == [i \in Idx |-> IF i < NPTE THEN KMAP ELSE 0]

(* kalloc(): pop kmem.freelist *)
Kalloc(mm) ==
  IF mm.free = <<>> THEN R(mm, 0)
                    ELSE R([mm EXCEPT !.free = Tail(@)], Head(mm.free))

(* kfree(v): memset(v, 1, PGSIZE) and push v *)
Kfree(mm, v) == [mm EXCEPT !.free = <<v>> \o @, !.ent[v] = JunkPage]

Zeroed(mm, p) == [mm EXCEPT !.ent[p] = [i \in Idx |-> 0]]

PteOf(mm, w) == mm.ent[w[1]][w[2]]

\* mutant: the memset(pgtab, 0, PGSIZE) of a new page table left out
NewTableNoZero(pd, va, k) ==
  R([k.mm EXCEPT !.ent[pd][PDX(va)] = k.ret], <<k.ret, PTX(va)>>)

(* walkpgdir: the page k from kalloc, zeroed, becomes va's page table *)
NewTable(pd, va, k) ==
  R([Zeroed(k.mm, k.ret) EXCEPT !.ent[pd][PDX(va)] = k.ret], <<k.ret, PTX(va)>>)

(* walkpgdir(pgdir, va, alloc) given the directory entry e: the address   *)
(* <<table, index>> of va's PTE, allocating a page table if alloc; NoPte  *)
(* if there is none.  A junk entry has PTE_P set and sends the walk to a   *)
(* page the directory does not own.                                        *)
WalkEntry(mm, pd, va, alloc, e) ==
  IF e = JUNK THEN Panic(mm, "wild")
  ELSE IF e # 0 THEN R(mm, <<e, PTX(va)>>)
  ELSE IF ~alloc \/ mm.free = <<>> THEN R(mm, NoPte)
  ELSE NewTable(pd, va, Kalloc(mm))

Walk(mm, pd, va, alloc) == WalkEntry(mm, pd, va, alloc, mm.ent[pd][PDX(va)])

(* mappages(pgdir, a, PGSIZE, pa, perm) for one aligned page, given the   *)
(* walk w: -1 if no page table, panic("remap") if the PTE is present.      *)
SetPte(w, pa) ==
  IF w.pan # "" THEN w
  ELSE IF w.ret = NoPte THEN R(w.mm, -1)
  ELSE IF PteOf(w.mm, w.ret) # 0 THEN Panic(w.mm, "remap")
  ELSE R([w.mm EXCEPT !.ent[w.ret[1]][w.ret[2]] = pa], 0)

MapPage(mm, pd, a, pa) == SetPte(Walk(mm, pd, a, TRUE), pa)

(* setupkvm()'s mappages calls for kmap[]: each kernel directory entry d   *)
(* gets a page table whose entries all map kernel memory.                  *)
RECURSIVE MapKernel(_, _, _)
MapKernelTable(w, pd, d) ==
  IF w.pan # "" THEN w
  ELSE IF w.ret = NoPte THEN R(w.mm, -1)
  ELSE MapKernel([w.mm EXCEPT !.ent[w.ret[1]] = KernTable], pd, d + 1)

MapKernel(mm, pd, d) ==
  IF d = NPDE THEN R(mm, 0)
  ELSE MapKernelTable(Walk(mm, pd, PGADDR(d, 0, 0), TRUE), pd, d)

(* deallocuvm(pgdir, oldsz, newsz): from PGROUNDUP(newsz) up to oldsz,     *)
(* kfree every present page and clear its PTE; a missing page table skips  *)
(* to the next directory entry.                                            *)
RECURSIVE DeallocLoop(_, _, _, _)
DeallocPte(w, pd, a, oldsz) ==
  IF w.pan # "" THEN w
  ELSE IF w.ret = NoPte THEN DeallocLoop(w.mm, pd, PGADDR(PDX(a) + 1, 0, 0), oldsz)
  ELSE IF PteOf(w.mm, w.ret) = 0 THEN DeallocLoop(w.mm, pd, a + PG, oldsz)
  ELSE IF PteOf(w.mm, w.ret) \notin Pages THEN Panic(w.mm, "wild")
  ELSE DeallocLoop([Kfree(w.mm, PteOf(w.mm, w.ret))
                      EXCEPT !.ent[w.ret[1]][w.ret[2]] = 0], pd, a + PG, oldsz)

DeallocLoop(mm, pd, a, oldsz) ==
  IF a >= oldsz THEN R(mm, 0) ELSE DeallocPte(Walk(mm, pd, a, FALSE), pd, a, oldsz)

Deallocuvm(mm, pd, oldsz, newsz) ==
  IF newsz >= oldsz THEN R(mm, oldsz)
  ELSE Returning(DeallocLoop(mm, pd, PgRoundUp(newsz), oldsz), newsz)

(* freevm(pgdir): deallocuvm(pgdir, KERNBASE, 0), kfree every present     *)
(* directory entry's page table, then the directory.                       *)
RECURSIVE FreeTables(_, _, _)
FreeTables(mm, pd, i) ==
  IF i = NPDE THEN R(mm, 0)
  ELSE IF mm.ent[pd][i] = 0 THEN FreeTables(mm, pd, i + 1)
  ELSE IF mm.ent[pd][i] \notin Pages THEN Panic(mm, "wild")
  ELSE FreeTables(Kfree(mm, mm.ent[pd][i]), pd, i + 1)

FreeDir(f, pd) == IF f.pan # "" THEN f ELSE R(Kfree(f.mm, pd), 0)

FreevmTables(d, pd) == IF d.pan # "" THEN d ELSE FreeDir(FreeTables(d.mm, pd, 0), pd)

Freevm(mm, pd) ==
  IF pd = 0 THEN Panic(mm, "freevm")
  ELSE FreevmTables(Deallocuvm(mm, pd, KERNBASE, 0), pd)

(* setupkvm(): a zeroed directory from kalloc, kmap[] mapped into it;     *)
(* freevm(pgdir) if a mapping fails.                                       *)
SetupKernel(mk, pd) ==
  IF mk.pan # "" THEN mk
  ELSE IF mk.ret < 0 THEN Failed(Freevm(mk.mm, pd))
  ELSE R(mk.mm, pd)

SetupDir(k) == SetupKernel(MapKernel(Zeroed(k.mm, k.ret), k.ret, NUPDE), k.ret)

Setupkvm(mm) == IF mm.free = <<>> THEN R(mm, 0) ELSE SetupDir(Kalloc(mm))

(* allocuvm's loop from a = PGROUNDUP(oldsz): kalloc, zero and map a page; *)
(* if kalloc fails, deallocuvm(newsz, oldsz); if mappages fails, the same  *)
(* and kfree(mem).                                                         *)
RECURSIVE AllocLoop(_, _, _, _, _)
AllocUndo(d, m) == IF d.pan # "" THEN d ELSE R(Kfree(d.mm, m), 0)

AllocMap(mp, m, pd, a, oldsz, newsz) ==
  IF mp.pan # "" THEN mp
  ELSE IF mp.ret < 0 THEN AllocUndo(Deallocuvm(mp.mm, pd, newsz, oldsz), m)
  ELSE AllocLoop(mp.mm, pd, a + PG, oldsz, newsz)

\* mutant: allocuvm returns 0 on kalloc failure without deallocuvm
AllocLoopNoUndo(mm, pd, a, oldsz, newsz) ==
  LET k == Kalloc(mm) IN
  IF a >= newsz THEN R(mm, newsz)
  ELSE IF k.ret = 0 THEN R(mm, 0)
  ELSE AllocMap(MapPage(Zeroed(k.mm, k.ret), pd, a, k.ret), k.ret, pd, a, oldsz, newsz)

AllocLoop(mm, pd, a, oldsz, newsz) ==
  LET k == Kalloc(mm) IN
  IF a >= newsz THEN R(mm, newsz)
  ELSE IF k.ret = 0 THEN Failed(Deallocuvm(mm, pd, newsz, oldsz))
  ELSE AllocMap(MapPage(Zeroed(k.mm, k.ret), pd, a, k.ret), k.ret, pd, a, oldsz, newsz)

\* mutant: the newsz >= KERNBASE test of allocuvm left out
AllocuvmNoLimit(mm, pd, oldsz, newsz) ==
  IF newsz < oldsz THEN R(mm, oldsz)
  ELSE AllocLoop(mm, pd, PgRoundUp(oldsz), oldsz, newsz)

(* allocuvm(pgdir, oldsz, newsz): 0 for a size reaching KERNBASE, oldsz    *)
(* for a shrink, else grow page by page.                                   *)
Allocuvm(mm, pd, oldsz, newsz) ==
  IF newsz >= KERNBASE THEN R(mm, 0)
  ELSE IF newsz < oldsz THEN R(mm, oldsz)
  ELSE AllocLoop(mm, pd, PgRoundUp(oldsz), oldsz, newsz)

(* copyuvm's loop over the parent's pages below sz: the PTE must exist and *)
(* be present (else panic), kalloc a page m, copy page pa into it, map it  *)
(* in d; on a failure kfree(m) if it was allocated, and freevm(d).         *)
RECURSIVE CopyLoop(_, _, _, _, _)

\* mutant: copyuvm's kfree(mem) on a mappages failure left out
CopyMappedLeak(mp, m, pd, d, i, sz0) ==
  IF mp.pan # "" THEN mp
  ELSE IF mp.ret < 0 THEN Failed(Freevm(mp.mm, d))
  ELSE CopyLoop(mp.mm, pd, d, i + PG, sz0)

CopyMapped(mp, m, pd, d, i, sz0) ==
  IF mp.pan # "" THEN mp
  ELSE IF mp.ret < 0 THEN Failed(Freevm(Kfree(mp.mm, m), d))
  ELSE CopyLoop(mp.mm, pd, d, i + PG, sz0)

CopyPage(k, pa, pd, d, i, sz0) ==
  CopyMapped(MapPage([k.mm EXCEPT !.ent[k.ret] = k.mm.ent[pa]], d, i, k.ret),
             k.ret, pd, d, i, sz0)

CopyPte(w, pd, d, i, sz0) ==
  IF w.pan # "" THEN w
  ELSE IF w.ret = NoPte THEN Panic(w.mm, "copyuvm")
  ELSE IF PteOf(w.mm, w.ret) = 0 THEN Panic(w.mm, "copyuvm")
  ELSE IF PteOf(w.mm, w.ret) \notin Pages THEN Panic(w.mm, "wild")
  ELSE IF w.mm.free = <<>> THEN Failed(Freevm(w.mm, d))
  ELSE CopyPage(Kalloc(w.mm), PteOf(w.mm, w.ret), pd, d, i, sz0)

CopyLoop(mm, pd, d, i, sz0) ==
  IF i >= sz0 THEN R(mm, d) ELSE CopyPte(Walk(mm, pd, i, FALSE), pd, d, i, sz0)

CopyInto(s, pd, sz0) ==
  IF s.pan # "" \/ s.ret = 0 THEN s ELSE CopyLoop(s.mm, pd, s.ret, 0, sz0)

Copyuvm(mm, pd, sz0) == CopyInto(Setupkvm(mm), pd, sz0)

(* inituvm(pgdir, init, sz): kalloc, zero and map one page at address 0;  *)
(* neither the kalloc nor the mappages result is checked.                  *)
Inituvm(mm, pd) ==
  LET k == Kalloc(mm) IN MapPage(Zeroed(k.mm, k.ret), pd, 0, k.ret).mm

(* The helpers exec() uses to fill a new image.  They change no entry,     *)
(* only bytes of user pages, so their result is the set of bytes written:  *)
(* <<page, offset in the page, value>>, with ret and pan as above.         *)
Wrote(ret, why, w) == [ret |-> ret, pan |-> why, w |-> w]

(* uva2ka(pgdir, uva) given the walk w: walkpgdir's 0 is dereferenced     *)
(* unchecked ("nullpte"); a PTE without PTE_P or PTE_U gives 0.  A user   *)
(* page's PTE has both; kfree's 0x01010101 has PTE_P only, a kmap[] entry *)
(* no PTE_U.                                                               *)
Uva2kaPte(w) ==
  IF w.pan # "" THEN w
  ELSE IF w.ret = NoPte THEN Panic(w.mm, "nullpte")
  ELSE IF PteOf(w.mm, w.ret) \in Pages THEN R(w.mm, PteOf(w.mm, w.ret))
  ELSE R(w.mm, 0)

Uva2ka(mm, pd, uva) == Uva2kaPte(Walk(mm, pd, uva, FALSE))

(* copyout(pgdir, va, p, len), the loop from byte k of buf: per page, the *)
(* chunk from va to the page end or to len, then va = va0 + PGSIZE.       *)
RECURSIVE CopyoutLoop(_, _, _, _, _, _)

\* mutant: the next chunk starts at va + PGSIZE, not at va0 + PGSIZE
CopyoutChunkSkew(pa0, mm, pd, va, k, len, w) ==
  LET n == IF PG - (va % PG) > len THEN len ELSE PG - (va % PG) IN
  IF pa0.pan # "" THEN Wrote(0, pa0.pan, w)
  ELSE IF pa0.ret = 0 THEN Wrote(-1, "", w)
  ELSE CopyoutLoop(mm, pd, va + PG, k + n, len - n,
                   w \cup {<<pa0.ret, (va % PG) + j, k + j>> : j \in 0..(n - 1)})

CopyoutChunk(pa0, mm, pd, va, k, len, w) ==
  LET n == IF PG - (va % PG) > len THEN len ELSE PG - (va % PG) IN
  IF pa0.pan # "" THEN Wrote(0, pa0.pan, w)
  ELSE IF pa0.ret = 0 THEN Wrote(-1, "", w)
  ELSE CopyoutLoop(mm, pd, va - (va % PG) + PG, k + n, len - n,
                   w \cup {<<pa0.ret, (va % PG) + j, k + j>> : j \in 0..(n - 1)})

CopyoutLoop(mm, pd, va, k, len, w) ==
  IF len = 0 THEN Wrote(0, "", w)
  ELSE CopyoutChunk(Uva2ka(mm, pd, va - (va % PG)), mm, pd, va, k, len, w)

Copyout(mm, pd, va, len) == CopyoutLoop(mm, pd, va, 0, len, {})

(* readi(ip, dst, off, n) of a file of FileSz bytes, whose byte at offset *)
(* o is o: -1 past the end, else the bytes up to n or the end, their count.*)
Readi(pa, off, n) ==
  IF off > FileSz THEN [cnt |-> -1, w |-> {}]
  ELSE LET m == IF off + n > FileSz THEN FileSz - off ELSE n IN
       [cnt |-> m, w |-> {<<pa, j, off + j>> : j \in 0..(m - 1)}]

(* loaduvm(pgdir, addr, ip, offset, sz), the loop from i: the PTE must    *)
(* exist (else panic), its page gets readi's bytes, a short read is -1.   *)
RECURSIVE LoadLoop(_, _, _, _, _, _, _)
LoadRead(rd, n, mm, pd, addr, offset, sz0, i, w) ==
  IF rd.cnt # n THEN Wrote(-1, "", w \cup rd.w)
  ELSE LoadLoop(mm, pd, addr, offset, sz0, i + PG, w \cup rd.w)

\* mutant: every page read from the segment's start, offset for offset + i
LoadPteNoAdvance(wk, mm, pd, addr, offset, sz0, i, w) ==
  IF wk.pan # "" THEN Wrote(0, wk.pan, w)
  ELSE IF wk.ret = NoPte THEN Wrote(0, "loaduvm", w)
  ELSE LoadRead(Readi(PteOf(mm, wk.ret), offset, IF sz0 - i < PG THEN sz0 - i ELSE PG),
                IF sz0 - i < PG THEN sz0 - i ELSE PG, mm, pd, addr, offset, sz0, i, w)

LoadPte(wk, mm, pd, addr, offset, sz0, i, w) ==
  IF wk.pan # "" THEN Wrote(0, wk.pan, w)
  ELSE IF wk.ret = NoPte THEN Wrote(0, "loaduvm", w)
  ELSE LoadRead(Readi(PteOf(mm, wk.ret), offset + i, IF sz0 - i < PG THEN sz0 - i ELSE PG),
                IF sz0 - i < PG THEN sz0 - i ELSE PG, mm, pd, addr, offset, sz0, i, w)

LoadLoop(mm, pd, addr, offset, sz0, i, w) ==
  IF i >= sz0 THEN Wrote(0, "", w)
  ELSE LoadPte(Walk(mm, pd, addr + i, FALSE), mm, pd, addr, offset, sz0, i, w)

Loaduvm(mm, pd, addr, offset, sz0) ==
  IF addr % PG # 0 THEN Wrote(0, "loaduvm", {})
  ELSE LoadLoop(mm, pd, addr, offset, sz0, 0, {})

-----------------------------------------------------------------------------
(* The memory and panic of a call's result g *)
SetMem(g) == mem' = g.mm /\ pan' = g.pan

(* switchuvm(p): its panics; loading the TSS and %cr3 is not modelled *)
Switchuvm(p) == IF kstack[p] = 0 \/ pgdir[p] = 0 THEN "switchuvm" ELSE ""

(* growproc's `if(sz == 0) return -1`, else proc->sz = sz and switchuvm *)
GrowTo(p, g) ==
  IF g.ret = 0 THEN SetMem(g) /\ UNCHANGED sz
  ELSE /\ mem' = g.mm
       /\ pan' = IF g.pan # "" THEN g.pan ELSE Switchuvm(p)
       /\ sz' = [sz EXCEPT ![p] = g.ret]

(* growproc(n): sz + n in uint; allocuvm for n > 0, deallocuvm for n < 0; *)
(* a result of 0 is failure and leaves p->sz.                            *)
Growproc(p, n) ==
  /\ IF n > 0 THEN GrowTo(p, Allocuvm(mem, pgdir[p], sz[p], (sz[p] + n) % UintMod))
              ELSE GrowTo(p, Deallocuvm(mem, pgdir[p], sz[p], (sz[p] + n) % UintMod))
  /\ UNCHANGED <<pgdir, kstack>>

(* sys_sbrk(): by a live process p, growproc(n); its return value (the    *)
(* old p->sz, or -1) is left out.                                          *)
SysSbrk(p, n) ==
  /\ pan = "" /\ pgdir[p] # 0
  /\ Growproc(p, n)

(* fork() after allocproc's kstack ks: copyuvm's result c; if it is 0,     *)
(* kfree(np->kstack), else np gets the copy, the stack and p's sz.        *)
ForkCopy(p, np, ks, c) ==
  IF c.pan = "" /\ c.ret = 0
  THEN /\ mem' = Kfree(c.mm, ks) /\ pan' = ""
       /\ UNCHANGED <<pgdir, kstack, sz>>
  ELSE /\ SetMem(c)
       /\ pgdir' = [pgdir EXCEPT ![np] = c.ret]
       /\ kstack' = [kstack EXCEPT ![np] = ks]
       /\ sz' = [sz EXCEPT ![np] = sz[p]]

(* allocproc's p->kstack = kalloc() for fork's child np: if it is 0 the   *)
(* slot goes back to UNUSED and fork returns -1, changing nothing here.    *)
AllocprocStack(p, np, k) ==
  /\ k.ret # 0
  /\ ForkCopy(p, np, k.ret, Copyuvm(k.mm, pgdir[p], sz[p]))

(* fork() by p into the UNUSED slot np: allocproc, then copyuvm *)
Fork(p, np) ==
  /\ pan = "" /\ pgdir[p] # 0 /\ kstack[np] = 0
  /\ AllocprocStack(p, np, Kalloc(mem))

(* wait() reaping the ZOMBIE in slot p: kfree(p->kstack), freevm(p->pgdir)*)
(* and the slot is UNUSED; p->sz is left as it was.                        *)
Reap(p) ==
  /\ pan = "" /\ pgdir[p] # 0 /\ p # InitProc
  /\ SetMem(Freevm(Kfree(mem, kstack[p]), pgdir[p]))
  /\ pgdir' = [pgdir EXCEPT ![p] = 0]
  /\ kstack' = [kstack EXCEPT ![p] = 0]
  /\ UNCHANGED sz

(* After kinit1/kinit2 freed the pages in increasing order, userinit():    *)
(* allocproc's kstack k, setupkvm's directory s, inituvm, sz = PGSIZE.     *)
BootUser(k, s) == [mem |-> Inituvm(s.mm, s.ret), pgdir |-> s.ret, kstack |-> k.ret]

BootDir(k) == BootUser(k, Setupkvm(k.mm))

Boot ==
  BootDir(Kalloc([free |-> [i \in 1..NPages |-> NPages + 1 - i],
                  ent  |-> [q \in Pages |-> JunkPage]]))

Init ==
  /\ mem = Boot.mem
  /\ pgdir = [q \in Procs |-> IF q = InitProc THEN Boot.pgdir ELSE 0]
  /\ kstack = [q \in Procs |-> IF q = InitProc THEN Boot.kstack ELSE 0]
  /\ sz = [q \in Procs |-> IF q = InitProc THEN PG ELSE 0]
  /\ pan = ""

Next ==
  \E p \in Procs :
    \/ \E n \in Deltas : SysSbrk(p, n)
    \/ \E np \in Procs \ {p} : Fork(p, np)
    \/ Reap(p)

Spec == Init /\ [][Next]_vars

-----------------------------------------------------------------------------
Live == {q \in Procs : pgdir[q] # 0}
UPdx == 0..(NUPDE - 1)
Ptx  == 0..(NPTE - 1)
TableOf(q, d) == mem.ent[pgdir[q]][d]
Mapped(q, d, i) == TableOf(q, d) \in Pages /\ mem.ent[TableOf(q, d)][i] \in Pages

TypeOK ==
  /\ mem.free \in Seq(Pages)
  /\ mem.ent \in [Pages -> [Idx -> Pages \cup {0, KMAP, JUNK}]]
  /\ pgdir \in [Procs -> Pages \cup {0}] /\ kstack \in [Procs -> Pages \cup {0}]
  /\ sz \in [Procs -> 0..(KERNBASE - 1)]
  /\ pan \in {"", "wild", "remap", "freevm", "copyuvm", "switchuvm"}

(* Every physical page is accounted for exactly once: it is on the free   *)
(* list, or a kernel stack, a directory, a page table of a live directory, *)
(* or a user page mapped by one of those tables.  Zero is a leak, two a    *)
(* page handed out twice; the failure paths of allocuvm, copyuvm,          *)
(* setupkvm and fork are where this is easy to get wrong.                  *)
Refs(pg) ==
  Cardinality({i \in 1..Len(mem.free) : mem.free[i] = pg})
  + Cardinality({q \in Procs : pgdir[q] = pg})
  + Cardinality({q \in Procs : kstack[q] = pg})
  + Cardinality({<<q, d>> \in Live \X (0..(NPDE - 1)) : TableOf(q, d) = pg})
  + Cardinality({<<q, d, i>> \in Live \X UPdx \X Ptx :
                   TableOf(q, d) \in Pages /\ mem.ent[TableOf(q, d)][i] = pg})

PagesOwnedOnce == pan = "" => \A pg \in Pages : Refs(pg) = 1

(* No walk of a live page directory ever meets kfree()'s junk: every user *)
(* directory entry and PTE is 0 or a page, and no call panicked on remap   *)
(* or dereferenced a junk entry, and switchuvm never found p without its *)
(* kstack or pgdir.                                                        *)
PageTablesSound ==
  /\ pan \notin {"wild", "remap", "freevm", "switchuvm"}
  /\ \A q \in Live, d \in UPdx :
       /\ TableOf(q, d) \in Pages \cup {0}
       /\ TableOf(q, d) \in Pages => \A i \in Ptx : mem.ent[TableOf(q, d)][i] \in Pages \cup {0}

(* A process can reach no page at or above p->sz: every mapped user page  *)
(* lies below sz, also after a growproc that failed half-way.              *)
MappedWithinSz ==
  \A q \in Live, d \in UPdx, i \in Ptx : Mapped(q, d, i) => PGADDR(d, i, 0) < sz[q]

(* Every page below p->sz is mapped: the precondition of copyuvm, whose   *)
(* loop panics on a missing page, and of the user program's accesses.      *)
SizeIsMapped ==
  \A q \in Live, d \in UPdx, i \in Ptx : PGADDR(d, i, 0) < sz[q] => Mapped(q, d, i)

(* The byte a user address a of q is held in: its page and offset, by the *)
(* MMU's translation through q's directory and table; page 0 if unmapped. *)
Frame(q, a) ==
  IF TableOf(q, PDX(a)) \in Pages /\ mem.ent[TableOf(q, PDX(a))][PTX(a)] \in Pages
  THEN mem.ent[TableOf(q, PDX(a))][PTX(a)] ELSE 0
UserRange(q) == {r \in (0..(sz[q] - 1)) \X (1..sz[q]) : r[1] + r[2] <= sz[q]}

(* copyout() to any range below a live process's p->sz, as exec() does to *)
(* the new stack, writes the bytes of buf in order to the pages the MMU    *)
(* translates those addresses to, crossing page boundaries from any start; *)
(* it never dereferences a missing page table there, and returns -1 only  *)
(* if some page of the range is unmapped, having written the bytes before  *)
(* the first such page.                                                   *)
CopyoutLands ==
  pan = "" =>
    \A q \in Live : \A r \in UserRange(q) :
      LET c == Copyout(mem, pgdir[q], r[1], r[2])
          ok == {k \in 0..(r[2] - 1) : \A j \in 0..k : Frame(q, r[1] + j) # 0} IN
      /\ c.pan = ""
      /\ c.ret = IF Cardinality(ok) = r[2] THEN 0 ELSE -1
      /\ c.w = {<<Frame(q, r[1] + k), (r[1] + k) % PG, k>> : k \in ok}

(* loaduvm() of sz bytes from file offset 0 to a page-aligned addr whose  *)
(* pages are mapped, page by page: byte i of the file lands at addr + i,   *)
(* for as much of the file as there is, and the result is 0 exactly when  *)
(* the file held all sz bytes.                                             *)
LoaduvmLands ==
  pan = "" =>
    \A q \in Live : \A r \in UserRange(q) :
      (r[1] % PG = 0 /\ \A j \in 0..(r[2] - 1) : Frame(q, r[1] + j) # 0) =>
        LET l == Loaduvm(mem, pgdir[q], r[1], 0, r[2]) IN
        /\ l.pan = ""
        /\ l.ret = IF r[2] <= FileSz THEN 0 ELSE -1
        /\ l.w = {<<Frame(q, r[1] + i), (r[1] + i) % PG, i>> :
                    i \in 0..(r[2] - 1) \cap 0..(FileSz - 1)}
==============================================================================
