---------------------------- MODULE PageAllocator ----------------------------
(***************************************************************************)
(* What the physical page allocator promises (the comments of             *)
(* src/kernel/kalloc.c), with no list, no lock and no CPUs: a set of free  *)
(* pages and a set of pages handed out.  Memory is given to the allocator *)
(* once (kinit1, kinit2); kalloc() hands out free pages, and kfree() takes *)
(* back a page "which normally should have been returned by a call to      *)
(* kalloc()".  No page is lost, made up or handed out while handed out.    *)
(***************************************************************************)
CONSTANT Pages

VARIABLES
  free,   \* the pages kalloc() may return
  given   \* the pages kalloc() returned and kfree() has not taken back

avars == <<free, given>>

Init == free = {} /\ given = {}

(* freerange() over memory the allocator has never seen *)
Add(S) ==
  /\ S # {} /\ S \cap (free \cup given) = {}
  /\ free' = free \cup S
  /\ UNCHANGED given

(* kalloc(), once or a few times in a row: free pages change hands *)
Take(S) ==
  /\ S # {} /\ S \subseteq free
  /\ free' = free \ S
  /\ given' = given \cup S

(* kfree(p) of a page kalloc() returned *)
Release(p) ==
  /\ p \in given
  /\ given' = given \ {p}
  /\ free' = free \cup {p}

Next ==
  \/ \E S \in SUBSET Pages : Add(S) \/ Take(S)
  \/ \E p \in Pages : Release(p)

Spec == Init /\ [][Next]_avars
==============================================================================
