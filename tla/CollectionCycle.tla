--------------------------- MODULE CollectionCycle ---------------------------
(***************************************************************************)
(* The collection cycle of pkg/exporter/exporter.go: the background loop   *)
(* and CollectNow run cycles under collectMu, a cycle probes the server    *)
(* and spawns one task per metric group behind a semaphore of its own, and *)
(* it returns when its tasks are done or its deadline passes - in that     *)
(* case while tasks still run, beside the cycles that follow.  Close stops *)
(* the loop without waiting for it.                                        *)
(*                                                                         *)
(* What a task does between its start and its end belongs to the module    *)
(* that extends this one.                                                  *)
(***************************************************************************)
EXTENDS Naturals, FiniteSets, Sequences

CONSTANTS
  GroupOrder,              \* metric groups, in the order of their tasks
  Filters,                 \* MetricsInclude and MetricsExclude, if set
  MaxTasks,                \* bound: groups that a filter may admit
  Callers,                 \* goroutines that call CollectNow
  None,                    \* collectMu is free
  MaxConcurrentCollectors, \* size of the semaphore of a cycle
  MaxCycles                \* bound: cycles that are run

(* Config.ShouldCollectMetric: a list of groups to include goes before one *)
(* of groups to exclude.                                                   *)
ShouldCollectMetric(f, g) ==
  IF f.include # {} THEN g \in f.include ELSE g \notin f.exclude

Admitted(f) == SelectSeq(GroupOrder, LAMBDA g : ShouldCollectMetric(f, g))
TaskLists == {Admitted(f) : f \in Filters}

ASSUME CycleAssumption ==
  /\ IsFiniteSet(Callers)
  /\ "loop" \notin Callers /\ None \notin Callers \cup {"loop"}
  /\ MaxTasks \in Nat
  /\ \A l \in TaskLists : Len(l) <= MaxTasks
  /\ MaxConcurrentCollectors \in Nat \ {0}
  /\ MaxCycles \in Nat

Runners == Callers \cup {"loop"}
Cycles == 1..MaxCycles

\* A task is the n-th one of the list of a cycle.
Tasks == Cycles \X (1..MaxTasks)

VARIABLES
  enabled,    \* groups that shouldCollectMetric admits, in their order
  pc,         \* of each runner: where it is in collectOnce / runCollection
  cyc,        \* the cycle a runner is in
  cycle,      \* cycles started so far
  collecting, \* atomic guard of collectOnce
  collectMu,  \* the runner that holds it, or None
  expired,    \* cycles whose context is done, by deadline or by cancel
  base,       \* base context of the client: a cycle, or 0 for the background
  task,       \* control state of each task
  errors,     \* cycles whose collectErrors is not empty
  up,         \* the Up gauge
  upBy,       \* history: the cycle that set it last, 0 for none
  shut,       \* history: cycles begun after the client was closed
  closing     \* progress of Close

cycleVars == <<enabled, pc, cyc, cycle, collecting, collectMu, expired, base,
               task, errors, up, upBy, shut, closing>>

\* Task states in which t.fn runs.
FnStates == {"ready", "search"}

\* Runner states within runCollection.
CycleStates == {"connect", "probe", "wait"}

Group(t) == enabled[t[2]]
Running(t) == task[t] \in FnStates
ClientOpen == closing = "open"
InCycle(r, c) == pc[r] \in CycleStates /\ cyc[r] = c
CycleRuns(c) == \E r \in Runners : InCycle(r, c)

CycleInit ==
  /\ enabled \in TaskLists
  /\ pc = [r \in Runners |-> "idle"]
  /\ cyc = [r \in Runners |-> 0]
  /\ cycle = 0
  /\ collecting = FALSE
  /\ collectMu = None
  /\ expired = {}
  /\ base = 0
  /\ task = [t \in Tasks |-> "absent"]
  /\ errors = {}
  /\ up = 1
  /\ upBy = 0
  /\ shut = {}
  /\ closing = "open"

(* The bound on the cycles, those that wait for collectMu included. *)
CyclesLeft == cycle + Cardinality({r \in Runners : pc[r] = "lock"}) < MaxCycles

-----------------------------------------------------------------------------
(* The first round of collectLoop, and every tick: collectOnce.  The loop  *)
(* is the only caller of collectOnce, so that the guard is always free and *)
(* no tick is ever skipped by it.                                          *)
CollectOnce ==
  /\ pc["loop"] = "idle"
  /\ ~collecting
  /\ CyclesLeft
  /\ collecting' = TRUE
  /\ pc' = [pc EXCEPT !["loop"] = "lock"]
  /\ UNCHANGED <<enabled, cyc, cycle, collectMu, expired, base, task, errors, up, upBy,
                 shut, closing>>

CollectNow(r) ==
  /\ pc[r] = "idle"
  /\ CyclesLeft
  /\ pc' = [pc EXCEPT ![r] = "lock"]
  /\ UNCHANGED <<enabled, cyc, cycle, collecting, collectMu, expired, base, task, errors,
                 up, upBy, shut, closing>>

(* The select of collectLoop may also choose a tick that is ready.  *)
LoopStops ==
  /\ pc["loop"] = "idle"
  /\ closing # "open"
  /\ pc' = [pc EXCEPT !["loop"] = "stopped"]
  /\ UNCHANGED <<enabled, cyc, cycle, collecting, collectMu, expired, base, task, errors,
                 up, upBy, shut, closing>>

(* Mutant: collectMu is not waited for. *)
MutexIgnored == TRUE

MutexFree == collectMu = None

(* runCollection takes collectMu and installs the context of the cycle. *)
RunCollection(r) ==
  /\ pc[r] = "lock"
  /\ MutexFree
  /\ collectMu' = r
  /\ cycle' = cycle + 1
  /\ cyc' = [cyc EXCEPT ![r] = cycle + 1]
  /\ base' = cycle + 1
  /\ pc' = [pc EXCEPT ![r] = "connect"]
  /\ shut' = IF ClientOpen THEN shut ELSE shut \cup {cycle + 1}
  /\ UNCHANGED <<enabled, collecting, expired, task, errors, up, upBy, closing>>

(* The end of runCollection: the gauge, then the deferred calls.  *)
EndCycle(r, ok) ==
  /\ up' = IF ok THEN 1 ELSE 0
  /\ upBy' = cyc[r]
  /\ base' = 0
  /\ expired' = expired \cup {cyc[r]}
  /\ collectMu' = None
  /\ collecting' = (collecting /\ r # "loop")
  /\ pc' = [pc EXCEPT ![r] = "idle"]
  /\ cyc' = [cyc EXCEPT ![r] = 0]

(* One task for every group that the configuration admits. *)
Spawned(c) == {c} \X DOMAIN enabled

(* Mutant: the pool lends a connection although it is closed. *)
ProbeRegardless(r) ==
  /\ pc[r] = "connect"
  /\ pc' = [pc EXCEPT ![r] = "probe"]
  /\ UNCHANGED <<enabled, cyc, cycle, collecting, collectMu, expired, base, task, errors,
                 up, upBy, shut, closing>>

(* ensureConnection: the search passes the pool's check for closed.  From  *)
(* here on it is in flight, and neither Close, which leaves lent           *)
(* connections alone, nor the context can stop it.                         *)
IssueProbe(r) ==
  /\ pc[r] = "connect"
  /\ ClientOpen
  /\ pc' = [pc EXCEPT ![r] = "probe"]
  /\ UNCHANGED <<enabled, cyc, cycle, collecting, collectMu, expired, base, task, errors,
                 up, upBy, shut, closing>>

(* ensureConnection is answered, be it after the deadline or after Close:  *)
(* the tasks of the cycle are spawned.                                     *)
Connected(r) ==
  /\ pc[r] = "probe"
  /\ pc' = [pc EXCEPT ![r] = "wait"]
  /\ task' = [t \in Tasks |-> IF t \in Spawned(cyc[r]) THEN "queued" ELSE task[t]]
  /\ UNCHANGED <<enabled, cyc, cycle, collecting, collectMu, expired, base, errors, up,
                 upBy, shut, closing>>

(* ensureConnection fails: refused by the breaker, by the pool, by the     *)
(* server, or after the timeout of the connection.                         *)
NotConnected(r) ==
  /\ pc[r] \in {"connect", "probe"}
  /\ EndCycle(r, FALSE)
  /\ UNCHANGED <<enabled, cycle, task, errors, shut, closing>>

TasksDone(c) == \A t \in Spawned(c) : task[t] = "done"

AllDone(r) ==
  /\ pc[r] = "wait"
  /\ TasksDone(cyc[r])
  /\ EndCycle(r, cyc[r] \notin errors)
  /\ UNCHANGED <<enabled, cycle, task, errors, shut, closing>>

(* Mutant: the timeout is reported like the end of the tasks. *)
TimedOutSilently(r) ==
  /\ pc[r] = "wait"
  /\ cyc[r] \in expired
  /\ EndCycle(r, cyc[r] \notin errors)
  /\ UNCHANGED <<enabled, cycle, task, errors, shut, closing>>

(* Mutant: the cycle waits for its tasks only. *)
NeverTimesOut(r) == FALSE /\ EndCycle(r, FALSE)

TimedOut(r) ==
  /\ pc[r] = "wait"
  /\ cyc[r] \in expired
  /\ EndCycle(r, FALSE)
  /\ UNCHANGED <<enabled, cycle, task, errors, shut, closing>>

(* The timeout of a running cycle elapses. *)
Deadline(c) ==
  /\ CycleRuns(c)
  /\ c \notin expired
  /\ expired' = expired \cup {c}
  /\ UNCHANGED <<enabled, pc, cyc, cycle, collecting, collectMu, base, task, errors, up,
                 upBy, shut, closing>>

-----------------------------------------------------------------------------
(* The goroutine of a task around t.fn. *)

SlotFree(c) ==
  Cardinality({n \in 1..MaxTasks : Running(<<c, n>>)}) < MaxConcurrentCollectors

(* The task has a slot and its context is alive: t.fn is entered. *)
MayStart(t) == task[t] = "queued" /\ SlotFree(t[1]) /\ t[1] \notin expired

(* The context is done before t.fn starts, with or without a slot. *)
CancelTask(t) ==
  /\ task[t] = "queued"
  /\ t[1] \in expired
  /\ task' = [task EXCEPT ![t] = "done"]
  /\ errors' = errors \cup {t[1]}
  /\ UNCHANGED <<enabled, pc, cyc, cycle, collecting, collectMu, expired, base, up, upBy,
                 shut, closing>>

(* t.fn panics and the recovery records the error. *)
PanicTask(t) ==
  /\ Running(t)
  /\ task' = [task EXCEPT ![t] = "done"]
  /\ errors' = errors \cup {t[1]}
  /\ UNCHANGED <<enabled, pc, cyc, cycle, collecting, collectMu, expired, base, up, upBy,
                 shut, closing>>

(* A step of t.fn, to its next state or to its return. *)
TaskTo(t, state) ==
  /\ task' = [task EXCEPT ![t] = state]
  /\ UNCHANGED <<enabled, pc, cyc, cycle, collecting, collectMu, expired, base, errors,
                 up, upBy, shut, closing>>

-----------------------------------------------------------------------------
(* Close: stopChan and the client are closed, then the Up gauge is set. *)

CloseStep(from, to) ==
  /\ closing = from
  /\ closing' = to
  /\ UNCHANGED <<enabled, pc, cyc, cycle, collecting, collectMu, expired, base,
                 task, errors, shut>>

CloseClient == CloseStep("open", "client") /\ UNCHANGED <<up, upBy>>
CloseUp     == CloseStep("client", "closed") /\ up' = 0 /\ upBy' = 0

Close == CloseClient \/ CloseUp

-----------------------------------------------------------------------------
RunnerStep(r) ==
  \/ RunCollection(r) \/ IssueProbe(r) \/ Connected(r) \/ NotConnected(r)
  \/ AllDone(r) \/ TimedOut(r)

CycleStep ==
  \/ CollectOnce \/ LoopStops
  \/ \E r \in Callers : CollectNow(r)
  \/ \E r \in Runners : RunnerStep(r)
  \/ \E c \in Cycles : Deadline(c)
  \/ Close

-----------------------------------------------------------------------------
(* Types of the runners, the cycles and the tasks. *)
CycleTypeOK ==
  /\ enabled \in TaskLists
  /\ pc \in [Runners -> {"idle", "lock", "stopped"} \cup CycleStates]
  /\ cyc \in [Runners -> 0..MaxCycles]
  /\ cycle \in 0..MaxCycles
  /\ collecting \in BOOLEAN
  /\ collectMu \in Runners \cup {None}
  /\ expired \subseteq Cycles
  /\ base \in 0..MaxCycles
  /\ task \in [Tasks -> {"absent", "queued", "done"} \cup FnStates]
  /\ errors \subseteq Cycles
  /\ up \in {0, 1} /\ upBy \in 0..MaxCycles
  /\ shut \subseteq Cycles
  /\ closing \in {"open", "client", "closed"}

(* exporter.go:387-402: a cycle that set Up to 1 has no task left that     *)
(* could still write a metric; only a cycle that reported a failure leaves *)
(* tasks behind.                                                           *)
SuccessMeansComplete == (up = 1 /\ upBy # 0) => TasksDone(upBy)

(* Where a cycle is: the runner that holds collectMu is in the latest      *)
(* cycle, whose context is the base context; no task runs for a cycle that *)
(* has not begun or has not been answered; and Up speaks of a cycle that   *)
(* is over, and that had begun before the client was closed if Up is 1.    *)
Waiting == {r \in Runners : pc[r] = "lock"}
MutexControl ==
  /\ \A r \in Runners :
       /\ pc[r] \in CycleStates <=> collectMu = r
       /\ cyc[r] = IF collectMu = r THEN cycle ELSE 0
  /\ base = IF collectMu = None THEN 0 ELSE cycle
  /\ collectMu # None => cycle > upBy
  /\ cycle >= upBy
  /\ cycle + Cardinality(Waiting) <= MaxCycles
TaskControl ==
  \A t \in Tasks : task[t] # "absent" =>
    /\ t[1] <= cycle
    /\ t[2] \in DOMAIN enabled
    /\ \A r \in Runners : pc[r] \in {"connect", "probe"} => t[1] # cycle
UpControl ==
  /\ \A c \in shut : c <= cycle /\ ~ClientOpen
  /\ \A r \in Runners : pc[r] \in {"probe", "wait"} => cycle \notin shut
  /\ up = 1 => upBy \notin shut
  /\ up = 1 /\ upBy = 0 => closing # "closed"

(* exporter.go:428: the gauge may be 1 after Close, by a cycle that was    *)
(* under way when the client was closed and ended late.  A cycle that      *)
(* begins afterwards - the loop may take one more tick, CollectNow is not  *)
(* stopped at all - does not get past its probe and never sets it.         *)
UpAfterCloseIsLate ==
  (closing = "closed" /\ up = 1) => upBy # 0 /\ upBy \notin shut

(* exporter.go:387: a cycle ends and lets the next one in, even when none  *)
(* of its tasks ever returns; so that after Close the background loop,     *)
(* which leaves only between two cycles, ends as well.  Close is never     *)
(* undone and the loop does not come back: the conjunction holds again and *)
(* again just when both halves do.                                         *)
CycleEnds == []<>(collectMu = None /\ (closing = "open" \/ pc["loop"] = "stopped"))
=============================================================================
