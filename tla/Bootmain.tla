------------------------------- MODULE Bootmain -------------------------------
(***************************************************************************)
(* The boot loader's C half (src/kernel/bootmain.c): read the first page   *)
(* of the kernel ELF file into the scratch space at 0x10000, then every    *)
(* program header's segment to its paddr with readseg(), zero-filling      *)
(* memsz beyond filesz, and jump to the entry point.                       *)
(*                                                                         *)
(* Sizes are scaled: SECTSIZE bytes a sector, PGSIZE bytes a page.  Memory *)
(* is a function from addresses to byte values; the value of a byte of    *)
(* the kernel file is its offset in the file, so a loaded byte says where  *)
(* it came from.  Address 0 is the first page, the scratch page is the     *)
(* second (0x10000) and the kernel is loaded from the third (0x100000).    *)
(***************************************************************************)
EXTENDS Integers, Sequences

CONSTANTS
  SECTSIZE,  \* bytes of a disk sector (512)
  PGSIZE,    \* bytes of a page, the ELF page alignment (4096)
  MaxSz      \* largest filesz or memsz of a kernel segment in the model

ASSUME PGSIZE % SECTSIZE = 0 /\ MaxSz >= 1

ELFHDR  == PGSIZE        \* elf = (struct elfhdr*)0x10000
KERNPA  == 2 * PGSIZE    \* AT(0x100000) of kernel.ld
MEMTOP  == KERNPA + 2 * PGSIZE * ((MaxSz + SECTSIZE + PGSIZE - 1) \div PGSIZE)
Addrs   == 0..(MEMTOP - 1)

\* byte values other than a byte of the kernel file
Zero      == -1   \* written by stosb
Junk      == -2   \* whatever memory held before the loader ran
BootBlock == -3   \* a byte of sector 0, the boot block itself

PgRoundUp(a) == ((a + PGSIZE - 1) \div PGSIZE) * PGSIZE

(* The program headers the linker produces from kernel.ld: text and rodata *)
(* at 0x100000 (file offset one page), the data segment page-aligned after *)
(* them with .bss as its memsz beyond filesz, and an empty GNU_STACK       *)
(* header (all zero) that bootmain loads too, since it ignores ph flags.   *)
Seg(pa, off, fsz, msz) == [paddr |-> pa, off |-> off, filesz |-> fsz, memsz |-> msz]
GnuStack == Seg(0, 0, 0, 0)
DataSizes == {s \in (0..MaxSz) \X (0..MaxSz) : s[1] + s[2] <= MaxSz}
Images ==
  { <<Seg(KERNPA, PGSIZE, t, t),
      Seg(PgRoundUp(KERNPA + t), PGSIZE + PgRoundUp(KERNPA + t) - KERNPA,
          db[1], db[1] + db[2])>> \o tail :
      t \in 1..MaxSz, db \in DataSizes, tail \in {<<>>, <<GnuStack>>} }

VARIABLES
  bpc,   \* "hdr": bootmain starts; "load": in the ph loop; "kernel": jumped to entry
  elf,   \* the program header table of the kernel file on the disk
  ph,    \* the loop's ph, as an index into elf
  mem    \* physical memory

bvars == <<bpc, elf, ph, mem>>

\* xv6.img: the boot block in sector 0, `dd if=kernel seek=1`
DiskByte(sec, i) == IF sec = 0 THEN BootBlock ELSE (sec - 1) * SECTSIZE + i

\* readsect(dst, offset): waitdisk, one-sector read command, insl into dst
ReadSect(m, dst, sec) ==
  [a \in Addrs |-> IF dst <= a /\ a < dst + SECTSIZE THEN DiskByte(sec, a - dst)
                   ELSE m[a]]

\* for(; pa < epa; pa += SECTSIZE, offset++) readsect(pa, offset);
RECURSIVE ReadLoop(_, _, _, _)
ReadLoop(m, pa, epa, sec) ==
  IF pa < epa THEN ReadLoop(ReadSect(m, pa, sec), pa + SECTSIZE, epa, sec + 1)
  ELSE m

\* mutant: the kernel's sector 1 start forgotten (offset / SECTSIZE)
ReadSegNoSkip(m, pa, count, offset) ==
  ReadLoop(m, pa - (offset % SECTSIZE), pa + count, offset \div SECTSIZE)

\* readseg(pa, count, offset): round pa down to the sector boundary, turn
\* the byte offset into a sector number (the kernel starts at sector 1)
ReadSeg(m, pa, count, offset) ==
  ReadLoop(m, pa - (offset % SECTSIZE), pa + count, offset \div SECTSIZE + 1)

\* stosb(addr, 0, n)
Stosb(m, addr, n) == [a \in Addrs |-> IF addr <= a /\ a < addr + n THEN Zero ELSE m[a]]

Init ==
  /\ bpc = "hdr" /\ elf \in Images /\ ph = 0
  /\ mem = [a \in Addrs |-> Junk]

(* readseg(elf, 4096, 0) into the scratch page.  The image is the kernel  *)
(* this Makefile builds, so elf->magic is ELF_MAGIC and the loop starts   *)
(* at ph[0].                                                               *)
ReadHdr ==
  /\ bpc = "hdr"
  /\ mem' = ReadSeg(mem, ELFHDR, PGSIZE, 0)
  /\ bpc' = "load" /\ ph' = 1
  /\ UNCHANGED elf

\* mutant: stosb of the bss before readseg of the segment
LoadSegZeroFirst ==
  /\ bpc = "load" /\ ph <= Len(elf)
  /\ LET p == elf[ph] IN
     mem' = ReadSeg(IF p.memsz > p.filesz
                    THEN Stosb(mem, p.paddr + p.filesz, p.memsz - p.filesz)
                    ELSE mem, p.paddr, p.filesz, p.off)
  /\ ph' = ph + 1
  /\ UNCHANGED <<bpc, elf>>

(* One iteration of for(; ph < eph; ph++): readseg(pa, filesz, off), then  *)
(* the 0-fill of memsz - filesz bytes.                                     *)
LoadSeg ==
  /\ bpc = "load" /\ ph <= Len(elf)
  /\ LET p == elf[ph]
         m1 == ReadSeg(mem, p.paddr, p.filesz, p.off) IN
     mem' = IF p.memsz > p.filesz THEN Stosb(m1, p.paddr + p.filesz, p.memsz - p.filesz)
            ELSE m1
  /\ ph' = ph + 1
  /\ UNCHANGED <<bpc, elf>>

\* entry = elf->entry; entry();
Entry ==
  /\ bpc = "load" /\ ph > Len(elf)
  /\ bpc' = "kernel"
  /\ UNCHANGED <<elf, ph, mem>>

Next == ReadHdr \/ LoadSeg \/ Entry

Spec == Init /\ [][Next]_bvars

-----------------------------------------------------------------------------
BootTypeOK ==
  /\ bpc \in {"hdr", "load", "kernel"} /\ elf \in Images
  /\ ph \in 0..(Len(elf) + 1)
  /\ mem \in [Addrs -> Int]

\* the byte a loaded segment p should hold at address a
Want(p, a) == IF a - p.paddr < p.filesz THEN p.off + (a - p.paddr) ELSE Zero

(* When bootmain jumps to the kernel, memory holds the kernel as its       *)
(* program headers describe it: each segment's file bytes at its paddr and *)
(* zeros up to memsz, although readseg reads whole sectors and so writes   *)
(* past the end of what it was asked for into the next bytes.              *)
ImageLoaded ==
  bpc = "kernel" =>
    \A i \in 1..Len(elf) :
      \A a \in elf[i].paddr..(elf[i].paddr + elf[i].memsz - 1) : mem[a] = Want(elf[i], a)
==============================================================================
