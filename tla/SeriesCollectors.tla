--------------------------- MODULE SeriesCollectors ---------------------------
(***************************************************************************)
(* The gauge collectors of pkg/exporter/collectors_*.go as tasks of the    *)
(* collection cycle.  A collector is a short program over metric vectors:  *)
(* it resets a vector, searches the server, and publishes one series per   *)
(* object its search found (an overlay, a backend, a user, ...).  The      *)
(* order of these steps, and what a failed search does, differ from one    *)
(* collector to the next and decide what becomes of the series of removed  *)
(* objects.  Labels and values are left out.                               *)
(***************************************************************************)
EXTENDS CollectionCycle

CONSTANTS Objects   \* what the server may contain

VARIABLES
  objects,    \* what the server contains
  published,  \* series of each vector
  at,         \* step of its program a task is at
  found,      \* objects of its last answer a task has yet to publish
  answer,     \* history: all objects of that answer
  ctx,        \* base context that the search of a task captured
  late,       \* history: that search was issued after the cycle had ended
  alone,      \* history: no other task of the group ran beside this one
  expect      \* history: what an undisturbed collector left, or None

seriesVars == <<objects, published, at, found, answer, ctx, late, alone, expect>>
vars == <<cycleVars, seriesVars>>

-----------------------------------------------------------------------------
(* Steps of a program.  A failed search ends the collector, or lets it go  *)
(* on with nothing found.                                                  *)
ResetStep(v)   == [op |-> "reset", vec |-> v]
SearchOrReturn == [op |-> "search", must |-> TRUE]
SearchOrGoOn   == [op |-> "search", must |-> FALSE]
Publish(v)     == [op |-> "publish", vec |-> v]

Rebuild(v) == <<ResetStep(v), SearchOrReturn, Publish(v)>>
Refresh(v) == <<SearchOrReturn, Publish(v)>>

collectOverlaysMetrics  == Rebuild("OverlaysInfo")
collectBackendsMetrics  == Rebuild("BackendsInfo")
collectListenersMetrics == Rebuild("ListenersInfo")
collectLogMetrics       == Rebuild("LogLevels")
collectSASLMetrics      == Rebuild("SaslInfo")

collectTLSCertMetrics == Rebuild("TlsCertNotAfter")
collectTLSMetrics ==
  <<ResetStep("TlsInfo"), SearchOrGoOn, Publish("TlsInfo")>>
    \o collectTLSCertMetrics

collectSupportedControlsMetrics == Rebuild("SupportedControlInfo")
collectServerInfoMetrics ==
  Refresh("ServerInfo") \o collectSupportedControlsMetrics

collectIndividualConnections == Rebuild("ConnectionsByProtocol")
collectConnectionsMetrics ==
  Refresh("ConnectionsCurrent") \o collectIndividualConnections

collectThreadsState ==
  <<SearchOrReturn, ResetStep("ThreadsState"), Publish("ThreadsState")>>
collectThreadsMetrics == Refresh("ThreadsCounts") \o collectThreadsState

collectTimeMetrics     == Refresh("ServerTime")
collectWaitersMetrics  == Refresh("Waiters")
collectDatabaseMetrics == Refresh("DatabaseInfo")
collectHealthMetrics   == <<SearchOrGoOn, Publish("HealthStatus")>>

(* The naming contexts, then the users of one naming context. *)
collectPpolicyForSuffix == <<SearchOrGoOn, Publish("Ppolicy")>>
collectPpolicyMetrics ==
  <<ResetStep("Ppolicy"), SearchOrReturn>> \o collectPpolicyForSuffix

(* The naming contexts, the contextCSN of one of them, the topology. *)
collectReplicationTopology == Refresh("ReplicationTopology")
collectReplicationMetrics ==
  <<SearchOrReturn, SearchOrGoOn, Publish("ReplicationCSN")>>
    \o collectReplicationTopology

Collectors ==
  [connections |-> collectConnectionsMetrics,
   threads     |-> collectThreadsMetrics,
   time        |-> collectTimeMetrics,
   waiters     |-> collectWaitersMetrics,
   overlays    |-> collectOverlaysMetrics,
   tls         |-> collectTLSMetrics,
   backends    |-> collectBackendsMetrics,
   listeners   |-> collectListenersMetrics,
   health      |-> collectHealthMetrics,
   database    |-> collectDatabaseMetrics,
   server      |-> collectServerInfoMetrics,
   log         |-> collectLogMetrics,
   sasl        |-> collectSASLMetrics,
   replication |-> collectReplicationMetrics,
   ppolicy     |-> collectPpolicyMetrics]

(* The tasks of collectAllMetricsWithContext; the groups that feed counters *)
(* are the subject of CounterTracking and AccesslogScan.                    *)
TaskOrder ==
  <<"connections", "threads", "time", "waiters", "overlays", "tls", "backends",
    "listeners", "health", "database", "server", "log", "sasl", "replication",
    "ppolicy">>

\* Every group has its collector, and no filter admits it twice.
ASSUME GroupAssumption ==
  \A l \in TaskLists :
    /\ l \in Seq(DOMAIN Collectors)
    /\ \A i, j \in DOMAIN l : l[i] = l[j] => i = j

Program(t) == Collectors[Group(t)]

(* Vectors that the enabled collectors publish, and those they rebuild. *)
VecOf(g, op) ==
  {Collectors[g][i].vec : i \in {j \in DOMAIN Collectors[g] :
                                   Collectors[g][j].op = op}}
Labelled == UNION {VecOf(enabled[n], "publish") : n \in DOMAIN enabled}
Rebuilt  == UNION {VecOf(enabled[n], "reset") : n \in DOMAIN enabled}

-----------------------------------------------------------------------------
Init ==
  /\ CycleInit
  /\ objects \in SUBSET Objects
  /\ published = [v \in Labelled |-> {}]
  /\ at = [t \in Tasks |-> 0]
  /\ found = [t \in Tasks |-> {}]
  /\ answer = [t \in Tasks |-> {}]
  /\ ctx = [t \in Tasks |-> 0]
  /\ late = [t \in Tasks |-> FALSE]
  /\ alone = [t \in Tasks |-> FALSE]
  /\ expect = [v \in Labelled |-> None]

(* An overlay is loaded or removed, a listener opens, a certificate is     *)
(* renewed, a user is created or deleted.                                  *)
ServerChanges(o) ==
  /\ objects' = IF o \in objects THEN objects \ {o} ELSE objects \cup {o}
  /\ UNCHANGED <<cycleVars, published, at, found, answer, ctx, late, alone,
                 expect>>

Beside(t) == {s \in Tasks : s # t /\ s[2] = t[2] /\ Running(s)}

(* t.fn is entered, possibly beside a straggler of the same group. *)
StartTask(t) ==
  /\ MayStart(t)
  /\ TaskTo(t, "ready")
  /\ at' = [at EXCEPT ![t] = 1]
  /\ alone' = [s \in Tasks |-> IF s = t THEN Beside(t) = {}
                                ELSE alone[s] /\ s \notin Beside(t)]
  /\ UNCHANGED <<objects, published, found, answer, ctx, late, expect>>

Canceled(t) == CancelTask(t) /\ UNCHANGED seriesVars

-----------------------------------------------------------------------------
AtStep(t, op) ==
  task[t] = "ready" /\ Program(t)[at[t]].op = op

Vec(t) == Program(t)[at[t]].vec

(* The collector returns. *)
Leave(t) ==
  /\ at' = [at EXCEPT ![t] = 0]
  /\ alone' = [alone EXCEPT ![t] = FALSE]

(* The collector goes on to its next step, or returns after the last one. *)
Advance(t) ==
  IF at[t] = Len(Program(t))
  THEN TaskTo(t, "done") /\ Leave(t)
  ELSE TaskTo(t, "ready") /\ at' = [at EXCEPT ![t] = @ + 1] /\ UNCHANGED alone

(* Mutant: the vector is not reset. *)
AfterNoReset(v) == published

AfterReset(v) == [published EXCEPT ![v] = {}]

(* GaugeVec.Reset *)
Reset(t) ==
  /\ AtStep(t, "reset")
  /\ published' = AfterReset(Vec(t))
  /\ expect' = [expect EXCEPT ![Vec(t)] = IF alone[t] THEN {} ELSE None]
  /\ Advance(t)
  /\ UNCHANGED <<objects, found, answer, ctx, late>>

(* The search captures the base context of the client. *)
IssueSearch(t) ==
  /\ AtStep(t, "search")
  /\ ClientOpen
  /\ TaskTo(t, "search")
  /\ ctx' = [ctx EXCEPT ![t] = base]
  /\ late' = [late EXCEPT ![t] = ~CycleRuns(t[1])]
  /\ UNCHANGED <<objects, published, at, found, answer, alone, expect>>

Forget(t) ==
  /\ ctx' = [ctx EXCEPT ![t] = 0]
  /\ late' = [late EXCEPT ![t] = FALSE]

SearchAnswered(t) ==
  /\ task[t] = "search"
  /\ found' = [found EXCEPT ![t] = objects]
  /\ answer' = [answer EXCEPT ![t] = objects]
  /\ Forget(t)
  /\ Advance(t)
  /\ UNCHANGED <<objects, published, expect>>

(* It fails, at once when the client is closed. *)
SearchFails(t) ==
  /\ task[t] = "search" \/ (AtStep(t, "search") /\ ~ClientOpen)
  /\ found' = [found EXCEPT ![t] = {}]
  /\ answer' = [answer EXCEPT ![t] = {}]
  /\ Forget(t)
  /\ IF Program(t)[at[t]].must
     THEN TaskTo(t, "done") /\ Leave(t)
     ELSE Advance(t)
  /\ UNCHANGED <<objects, published, expect>>

(* One With(labels).Set of the loop over the entries found. *)
PublishOne(t) ==
  /\ AtStep(t, "publish")
  /\ \E o \in found[t] :
       /\ published' = [published EXCEPT ![Vec(t)] = @ \cup {o}]
       /\ found' = [found EXCEPT ![t] = @ \ {o}]
  /\ UNCHANGED <<cycleVars, objects, at, answer, ctx, late, alone, expect>>

PublishEnds(t) ==
  /\ AtStep(t, "publish")
  /\ found[t] = {}
  /\ expect' = [expect EXCEPT ![Vec(t)] =
                  IF alone[t] /\ @ # None THEN answer[t] ELSE None]
  /\ answer' = [answer EXCEPT ![t] = {}]
  /\ Advance(t)
  /\ UNCHANGED <<objects, published, found, ctx, late>>

Panics(t) ==
  /\ PanicTask(t)
  /\ Leave(t)
  /\ found' = [found EXCEPT ![t] = {}]
  /\ answer' = [answer EXCEPT ![t] = {}]
  /\ Forget(t)
  /\ expect' = [v \in Labelled |-> IF v \in VecOf(Group(t), "publish")
                                   THEN None ELSE expect[v]]
  /\ UNCHANGED <<objects, published>>

TaskStep(t) ==
  \/ StartTask(t) \/ Canceled(t) \/ Panics(t)
  \/ Reset(t) \/ IssueSearch(t) \/ SearchAnswered(t) \/ SearchFails(t)
  \/ PublishOne(t) \/ PublishEnds(t)

Next ==
  \/ CycleStep /\ UNCHANGED seriesVars
  \/ \E t \in Tasks : TaskStep(t)
  \/ \E o \in Objects : ServerChanges(o)

Spec == Init /\ [][Next]_vars

(* Runners are scheduled and timeouts elapse.  The loop leaves its select  *)
(* through stopChan sooner or later although ticks keep coming.  Nothing   *)
(* is assumed of the tasks: a search may hang.                             *)
Fairness ==
  /\ WF_vars(UNCHANGED seriesVars /\ \E r \in Runners : RunnerStep(r))
  /\ WF_vars(UNCHANGED seriesVars /\ \E c \in Cycles : Deadline(c))
  /\ SF_vars(UNCHANGED seriesVars /\ LoopStops)

FairSpec == Spec /\ Fairness

-----------------------------------------------------------------------------
(* Types of the cycle, the vectors and the collectors. *)
TypeOK ==
  /\ CycleTypeOK
  /\ objects \subseteq Objects
  /\ published \in [Labelled -> SUBSET Objects]
  /\ at \in [Tasks -> Nat]
  /\ \A t \in Tasks :
       at[t] \in IF Running(t) THEN DOMAIN Program(t) ELSE {0}
  /\ found \in [Tasks -> SUBSET Objects]
  /\ answer \in [Tasks -> SUBSET Objects]
  /\ ctx \in [Tasks -> 0..MaxCycles]
  /\ late \in [Tasks -> BOOLEAN]
  /\ alone \in [Tasks -> BOOLEAN]
  /\ expect \in [Labelled -> (SUBSET Objects) \cup {None}]

(* What a collector that runs alone has made of a vector: nothing between  *)
(* the reset and the loop over the entries, a part of its answer within    *)
(* the loop; and a vector nobody writes is as the last of them left it.    *)
Publishing(t, v) == AtStep(t, "publish") /\ Vec(t) = v
Between(t, v) ==
  \E i, j \in DOMAIN Program(t) :
    /\ i < at[t] /\ Program(t)[i] = ResetStep(v)
    /\ j >= at[t] /\ Program(t)[j] = Publish(v)
ProgressControl ==
  \A t \in Tasks :
    /\ task[t] = "search" => Program(t)[at[t]].op = "search"
    /\ alone[t] => Running(t) /\ Beside(t) = {}
    /\ AtStep(t, "publish") \/ found[t] = answer[t]
SeriesControl ==
  \A v \in Labelled : expect[v] # None =>
    /\ v \in Rebuilt
    /\ (\E t \in Tasks : Publishing(t, v)) \/ published[v] = expect[v]
    /\ \A t \in Tasks : alone[t] =>
         /\ Publishing(t, v) => published[v] \cup found[t] = answer[t]
         /\ Between(t, v) => expect[v] = {}

(* Types, one cycle at a time, and exporter.go:387: Up is 1 only for a     *)
(* cycle that left no task behind.                                         *)
CollectionInv ==
  /\ TypeOK
  /\ MutexControl
  /\ TaskControl
  /\ UpControl
  /\ SuccessMeansComplete
  /\ ProgressControl
  /\ SeriesControl

(* exporter.go:257: a search issued while its cycle runs is issued with    *)
(* the context of that cycle, whatever other runners do; only a task that  *)
(* outlived its cycle searches with another one.  The context bounds how   *)
(* long the search waits for a connection, not the search itself.          *)
SearchCarriesContext ==
  \A t \in Tasks : task[t] = "search" => ctx[t] = t[1] \/ late[t]

(* collectors_info.go:23: once a collector ran with no other of its group  *)
(* beside it, each vector that it rebuilds shows exactly what its search   *)
(* found and nothing of a removed object - also when stragglers of earlier *)
(* cycles had filled it with stale series before.                          *)
SeriesMatchAnswer ==
  (\A t \in Tasks : ~Running(t)) =>
    \A v \in Rebuilt : expect[v] # None => published[v] = expect[v]
=============================================================================
