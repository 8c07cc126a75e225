---------------------------- MODULE ProcLifecycle ----------------------------
(***************************************************************************)
(* What the process table promises (spec.md, sections 3 and 4.7), with no *)
(* locks, kernel threads or scheduler loops: the life of each slot        *)
(*                                                                         *)
(*   UNUSED -> EMBRYO -> RUNNABLE <-> RUNNING -> SLEEPING -> RUNNABLE ...  *)
(*                                   RUNNING -> ZOMBIE -> UNUSED           *)
(*   EMBRYO -> UNUSED (a fork that fails)                                  *)
(*                                                                         *)
(* which CPU runs which process, the parent of each process and its pid.  *)
(* A CPU runs at most one process and a process on at most one CPU; a new  *)
(* process gets an identifier no live process has; only a running process *)
(* creates, exits or reaps; exit wakes only its parent and the reaper and  *)
(* hands its children to the reaper; a sleeper becomes RUNNABLE only by a  *)
(* wakeup.                                                                 *)
(***************************************************************************)
EXTENDS Naturals

CONSTANTS
  Slots,     \* process slots
  CPUS,      \* processors
  InitProc,  \* the reaper, the slot of the first process
  Pids       \* the identifiers a new process may get

UNUSED == "UNUSED"
EMBRYO == "EMBRYO"
SLEEPING == "SLEEPING"
RUNNABLE == "RUNNABLE"
RUNNING == "RUNNING"
ZOMBIE == "ZOMBIE"

VARIABLES
  st,    \* lifecycle state of each slot
  par,   \* parent slot of each slot (0: none)
  pid,   \* identifier of each slot that is not UNUSED (0 for UNUSED)
  run    \* the slot each CPU runs (0: none)

vars == <<st, par, pid, run>>

Sleepers  == {q \in Slots : st[q] = SLEEPING}
LivePids  == {pid[q] : q \in {r \in Slots : st[r] # UNUSED}}
Running(p) == st[p] = RUNNING
CpuRuns(c, p) == run[c] = p /\ p # 0

\* the state after a wakeup of the sleepers W
Woken(W) == [q \in Slots |-> IF q \in W THEN RUNNABLE ELSE st[q]]

Init ==
  /\ st  = [q \in Slots |-> IF q = InitProc THEN RUNNABLE ELSE UNUSED]
  /\ par = [q \in Slots |-> 0]
  /\ pid = [q \in Slots |-> IF q = InitProc THEN 1 ELSE 0]
  /\ run = [c \in CPUS |-> 0]

(* The running process p claims the UNUSED slot q with a fresh pid n. *)
Alloc(p, q, n) ==
  /\ Running(p) /\ st[q] = UNUSED /\ n \notin LivePids
  /\ st' = [st EXCEPT ![q] = EMBRYO]
  /\ pid' = [pid EXCEPT ![q] = n]
  /\ UNCHANGED <<par, run>>

(* A slot being built goes back to UNUSED. *)
Abandon(q) ==
  /\ st[q] = EMBRYO
  /\ st' = [st EXCEPT ![q] = UNUSED]
  /\ pid' = [pid EXCEPT ![q] = 0]
  /\ UNCHANGED <<par, run>>

(* The running process p makes the slot it built RUNNABLE as its child. *)
Start(p, q) ==
  /\ Running(p) /\ st[q] = EMBRYO
  /\ st' = [st EXCEPT ![q] = RUNNABLE]
  /\ par' = [par EXCEPT ![q] = p]
  /\ UNCHANGED <<pid, run>>

(* An idle CPU c starts running the RUNNABLE process q. *)
Dispatch(c, q) ==
  /\ run[c] = 0 /\ st[q] = RUNNABLE
  /\ st' = [st EXCEPT ![q] = RUNNING]
  /\ run' = [run EXCEPT ![c] = q]
  /\ UNCHANGED <<par, pid>>

(* Sleepers W become RUNNABLE. *)
Wakeup(W) ==
  /\ W \subseteq Sleepers
  /\ st' = Woken(W)
  /\ UNCHANGED <<par, pid, run>>

(* The process on CPU c gives it up, RUNNABLE, while sleepers W wake. *)
Yield(c, W) ==
  /\ run[c] # 0 /\ W \subseteq Sleepers
  /\ st' = [Woken(W) EXCEPT ![run[c]] = RUNNABLE]
  /\ run' = [run EXCEPT ![c] = 0]
  /\ UNCHANGED <<par, pid>>

(* The process on CPU c goes to sleep. *)
Block(c) ==
  /\ run[c] # 0
  /\ st' = [st EXCEPT ![run[c]] = SLEEPING]
  /\ run' = [run EXCEPT ![c] = 0]
  /\ UNCHANGED <<par, pid>>

(* The process p on CPU c exits: it may wake its parent and the reaper (W), *)
(* its children become the reaper's, and it is a ZOMBIE.  The reaper       *)
(* itself never exits.                                                     *)
Exit(c, W) ==
  LET p == run[c] IN
  /\ p # 0 /\ p # InitProc
  /\ W \subseteq Sleepers \cap {par[p], InitProc}
  /\ st' = [Woken(W) EXCEPT ![p] = ZOMBIE]
  /\ par' = [q \in Slots |-> IF par[q] = p THEN InitProc ELSE par[q]]
  /\ run' = [run EXCEPT ![c] = 0]
  /\ UNCHANGED pid

(* The running process p reaps its ZOMBIE child q. *)
Reap(p, q) ==
  /\ Running(p) /\ par[q] = p /\ st[q] = ZOMBIE
  /\ st' = [st EXCEPT ![q] = UNUSED]
  /\ par' = [par EXCEPT ![q] = 0]
  /\ pid' = [pid EXCEPT ![q] = 0]
  /\ UNCHANGED run

Next ==
  \/ \E p, q \in Slots :
       \/ \E n \in Pids : Alloc(p, q, n)
       \/ Start(p, q)
       \/ Reap(p, q)
  \/ \E q \in Slots : Abandon(q)
  \/ \E W \in SUBSET Slots : Wakeup(W)
  \/ \E c \in CPUS :
       \/ \E q \in Slots : Dispatch(c, q)
       \/ Block(c)
       \/ \E W \in SUBSET Slots : Yield(c, W) \/ Exit(c, W)

Spec == Init /\ [][Next]_vars
=============================================================================
