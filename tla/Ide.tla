--------------------------------- MODULE Ide ---------------------------------
(***************************************************************************)
(* The IDE disk driver of xv6 (src/unnamed/part_003): the request queue   *)
(* idequeue, iderw() called by the threads that hold a buffer's sleeplock, *)
(* the disk controller working on one request at a time, and ideintr().   *)
(*                                                                         *)
(* Every access to idequeue and to b->flags happens with idelock held, and *)
(* iderw() gives idelock up only inside sleep(b, &idelock), which takes    *)
(* ptable.lock first: each idelock critical section is one atomic step,    *)
(* so idelock itself needs no variable.  The disk runs concurrently with   *)
(* all of them.  Each buffer is a distinct block owned, through its        *)
(* sleeplock, by one thread at a time; a thread is named by its buffer.    *)
(***************************************************************************)
EXTENDS Naturals, Sequences, FiniteSets

CONSTANTS
  Bufs,        \* struct buf, each caching its own disk block
  Vals,        \* contents a block can hold
  DiskErrors,  \* TRUE: a command may end with IDE_ERR or IDE_DF set
  NoBuf        \* model value: the controller has no command

VALID == "B_VALID"
DIRTY == "B_DIRTY"

VARIABLES
  queue,   \* idequeue, following qnext
  flags,   \* b->flags, as a set of bits
  data,    \* b->data
  disk,    \* the block on the disk
  devst,   \* controller: "idle", "busy" on a command, "done" with IRQ 14 raised
  devbuf,  \* the buffer of the command the controller was given
  deverr,  \* status of the finished command has IDE_ERR/IDE_DF
  pc       \* the thread of each buffer: "idle", or in iderw "sleeping"/"woken"

vars == <<queue, flags, data, disk, devst, devbuf, deverr, pc>>

Queued(b) == \E i \in 1..Len(queue) : queue[i] = b

-----------------------------------------------------------------------------
(* idestart(b): program the controller with b's block; a write sends       *)
(* b->data with the command (outsl).                                       *)
IdeStart(b) ==
  /\ devst' = "busy"
  /\ devbuf' = b

\* mutant: the `if(idequeue == b)` test dropped: idestart(b) every time
IdeRwAlwaysStart(b) ==
  /\ queue' = Append(queue, b)
  /\ IdeStart(b)
  /\ pc' = [pc EXCEPT ![b] = "sleeping"]

(* iderw(b) after acquire(&idelock): append b to idequeue; start the disk  *)
(* if b is now the head; b is not yet synced, so sleep(b, &idelock).       *)
IdeRw(b) ==
  /\ queue' = Append(queue, b)
  /\ IF queue = <<>> THEN IdeStart(b) ELSE UNCHANGED <<devst, devbuf>>
  /\ pc' = [pc EXCEPT ![b] = "sleeping"]

(* bread(): a buffer without B_VALID is read through iderw() *)
Bread(b) ==
  /\ pc[b] = "idle" /\ VALID \notin flags[b]
  /\ IdeRw(b)
  /\ UNCHANGED <<flags, data, disk, deverr>>

(* bwrite(): the holder changes b->data, sets B_DIRTY and calls iderw() *)
Bwrite(b, v) ==
  /\ pc[b] = "idle"
  /\ data' = [data EXCEPT ![b] = v]
  /\ flags' = [flags EXCEPT ![b] = @ \cup {DIRTY}]
  /\ IdeRw(b)
  /\ UNCHANGED <<disk, deverr>>

(* bget() recycles a clean buffer for another block: flags = 0, the data   *)
(* is whatever the previous block held.                                    *)
Recycle(b, v) ==
  /\ pc[b] = "idle" /\ DIRTY \notin flags[b]
  /\ flags' = [flags EXCEPT ![b] = {}]
  /\ data' = [data EXCEPT ![b] = v]
  /\ UNCHANGED <<queue, disk, devst, devbuf, deverr, pc>>

(* The controller finishes its command and raises IRQ 14.  A write stores  *)
(* the data it was sent, unless the command fails.                         *)
DiskDone ==
  /\ devst = "busy"
  /\ \E err \in IF DiskErrors THEN BOOLEAN ELSE {FALSE} :
       /\ deverr' = err
       /\ disk' = IF DIRTY \in flags[devbuf] /\ ~err
                    THEN [disk EXCEPT ![devbuf] = data[devbuf]] ELSE disk
  /\ devst' = "done"
  /\ UNCHANGED <<queue, flags, data, devbuf, pc>>

\* mutant: the `if(idequeue != 0)` test dropped: idestart(0) on an empty queue
IdeIntrStartNull ==
  /\ devst = "done" /\ queue # <<>>
  /\ LET b == Head(queue) IN
       /\ queue' = Tail(queue)
       /\ data' = IF DIRTY \notin flags[b] /\ ~deverr
                    THEN [data EXCEPT ![b] = disk[b]] ELSE data
       /\ flags' = [flags EXCEPT ![b] = (@ \cup {VALID}) \ {DIRTY}]
       /\ pc' = [pc EXCEPT ![b] = IF @ = "sleeping" THEN "woken" ELSE @]
  /\ IdeStart(IF Tail(queue) # <<>> THEN Head(Tail(queue)) ELSE NoBuf)
  /\ UNCHANGED <<disk, deverr>>

\* mutant: the insl() of a read is left out
IdeIntrNoRead ==
  /\ devst = "done" /\ queue # <<>>
  /\ LET b == Head(queue) IN
       /\ queue' = Tail(queue)
       /\ flags' = [flags EXCEPT ![b] = (@ \cup {VALID}) \ {DIRTY}]
       /\ pc' = [pc EXCEPT ![b] = IF @ = "sleeping" THEN "woken" ELSE @]
  /\ IF Tail(queue) # <<>> THEN IdeStart(Head(Tail(queue)))
                           ELSE devst' = "idle" /\ UNCHANGED devbuf
  /\ UNCHANGED <<data, disk, deverr>>

\* mutant: the next buffer in the queue is never started
IdeIntrNoStart ==
  /\ devst = "done" /\ queue # <<>>
  /\ LET b == Head(queue) IN
       /\ queue' = Tail(queue)
       /\ data' = IF DIRTY \notin flags[b] /\ ~deverr
                    THEN [data EXCEPT ![b] = disk[b]] ELSE data
       /\ flags' = [flags EXCEPT ![b] = (@ \cup {VALID}) \ {DIRTY}]
       /\ pc' = [pc EXCEPT ![b] = IF @ = "sleeping" THEN "woken" ELSE @]
  /\ devst' = "idle"
  /\ UNCHANGED <<disk, devbuf, deverr>>

\* mutant: idequeue = b->qnext left out
IdeIntrNoPop ==
  /\ devst = "done" /\ queue # <<>>
  /\ LET b == Head(queue) IN
       /\ data' = IF DIRTY \notin flags[b] /\ ~deverr
                    THEN [data EXCEPT ![b] = disk[b]] ELSE data
       /\ flags' = [flags EXCEPT ![b] = (@ \cup {VALID}) \ {DIRTY}]
       /\ pc' = [pc EXCEPT ![b] = IF @ = "sleeping" THEN "woken" ELSE @]
  /\ IF Tail(queue) # <<>> THEN IdeStart(Head(Tail(queue)))
                           ELSE devst' = "idle" /\ UNCHANGED devbuf
  /\ UNCHANGED <<queue, disk, deverr>>

(* ideintr(): take the head b off idequeue; for a read whose idewait(1)    *)
(* reports no error, insl the block into b->data; set B_VALID, clear       *)
(* B_DIRTY, wakeup(b); start the disk on the next buffer.                  *)
IdeIntr ==
  /\ devst = "done" /\ queue # <<>>
  /\ LET b == Head(queue) IN
       /\ queue' = Tail(queue)
       /\ data' = IF DIRTY \notin flags[b] /\ ~deverr
                    THEN [data EXCEPT ![b] = disk[b]] ELSE data
       /\ flags' = [flags EXCEPT ![b] = (@ \cup {VALID}) \ {DIRTY}]
       /\ pc' = [pc EXCEPT ![b] = IF @ = "sleeping" THEN "woken" ELSE @]
  /\ IF Tail(queue) # <<>> THEN IdeStart(Head(Tail(queue)))
                           ELSE devst' = "idle" /\ UNCHANGED devbuf
  /\ UNCHANGED <<disk, deverr>>

(* iderw(): back from sleep() with idelock reacquired: return (releasing   *)
(* idelock) once b->flags is exactly B_VALID, else sleep again.            *)
IdeRwWake(b) ==
  /\ pc[b] = "woken"
  /\ pc' = [pc EXCEPT ![b] = IF flags[b] = {VALID} THEN "idle" ELSE "sleeping"]
  /\ UNCHANGED <<queue, flags, data, disk, devst, devbuf, deverr>>

-----------------------------------------------------------------------------
(* After ideinit() and binit(): an empty queue, an idle controller, every  *)
(* buffer unused (flags = 0) with arbitrary contents.                      *)
Init ==
  /\ queue = <<>>
  /\ flags = [b \in Bufs |-> {}]
  /\ data \in [Bufs -> Vals]
  /\ disk \in [Bufs -> Vals]
  /\ devst = "idle" /\ devbuf = NoBuf /\ deverr = FALSE
  /\ pc = [b \in Bufs |-> "idle"]

Next ==
  \/ \E b \in Bufs : \/ Bread(b) \/ IdeRwWake(b)
                     \/ \E v \in Vals : Bwrite(b, v) \/ Recycle(b, v)
  \/ DiskDone
  \/ IdeIntr

Spec == Init /\ [][Next]_vars

(* The controller and the interrupt handler always progress (IRQ 14 is     *)
(* latched and idelock is never held across a step); a woken thread is     *)
(* eventually scheduled.  Callers of bread/bwrite get no fairness.         *)
FairSpec ==
  /\ Spec
  /\ WF_vars(DiskDone) /\ WF_vars(IdeIntr)
  /\ \A b \in Bufs : WF_vars(IdeRwWake(b))

-----------------------------------------------------------------------------
TypeOK ==
  /\ queue \in Seq(Bufs)
  /\ flags \in [Bufs -> SUBSET {VALID, DIRTY}]
  /\ data \in [Bufs -> Vals] /\ disk \in [Bufs -> Vals]
  /\ devst \in {"idle", "busy", "done"}
  /\ devbuf \in Bufs \cup {NoBuf}
  /\ devst # "idle" => devbuf \in Bufs      \* idestart(0) panics
  /\ deverr \in BOOLEAN
  /\ pc \in [Bufs -> {"idle", "sleeping", "woken"}]

(* The invariant the comment above iderw() states: the controller has been *)
(* given the buffer at the front of idequeue, and is idle only when the    *)
(* queue is empty, whichever of iderw() and ideintr() started it.          *)
DiskServesHead ==
  /\ (queue = <<>>) <=> (devst = "idle")
  /\ queue # <<>> => devbuf = Head(queue)

(* A thread asleep in iderw() is exactly one whose buffer is queued, and   *)
(* a buffer is queued once: the wakeup(b) of ideintr() reaches every       *)
(* sleeper, and no request is lost or served twice.                        *)
QueueMatchesSleepers ==
  /\ \A b \in Bufs : pc[b] = "sleeping" <=> Queued(b)
  /\ \A i, j \in 1..Len(queue) : i # j => queue[i] # queue[j]

(* When iderw() has returned, a B_VALID buffer holds what its block holds  *)
(* on the disk (the comment above iderw(): a read sets B_VALID after       *)
(* reading, a write after writing).                                        *)
ValidIsSynced ==
  \A b \in Bufs : pc[b] = "idle" /\ VALID \in flags[b] => data[b] = disk[b]

(* Every call of iderw() returns. *)
RequestCompletes ==
  \A b \in Bufs : pc[b] # "idle" ~> pc[b] = "idle"
==============================================================================
