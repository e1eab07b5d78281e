----------------------- MODULE SeriesCollectorsProofs -----------------------
(***************************************************************************)
(* The collection cycle and its collectors for every set of callers of     *)
(* CollectNow, every filter, every size of the semaphore and any number of *)
(* cycles and stragglers.                                                  *)
(***************************************************************************)
EXTENDS SeriesCollectors, FiniteSetTheorems, SequenceTheorems, TLAPS

(* The programs of the collectors, with the nested calls spelt out.        *)
LEMMA ConcatIs ==
  ASSUME NEW X, NEW s \in Seq(X), NEW t \in Seq(X), NEW u \in Seq(X),
         Len(u) = Len(s) + Len(t),
         \A i \in 1 .. Len(s) : u[i] = s[i],
         \A i \in 1 .. Len(t) : u[Len(s) + i] = t[i]
  PROVE  s \o t = u
<1>1. /\ s \o t \in Seq(X) /\ Len(s \o t) = Len(s) + Len(t)
      /\ \A i \in 1 .. Len(s) + Len(t) :
           (s \o t)[i] = IF i <= Len(s) THEN s[i] ELSE t[i - Len(s)]
  BY ConcatProperties
<1>2. Len(s) \in Nat /\ Len(t) \in Nat
  BY LenProperties
<1>3. ASSUME NEW i \in 1 .. Len(s) + Len(t) PROVE (s \o t)[i] = u[i]
  <2>1. CASE i <= Len(s)
    BY <1>1, <1>2, <2>1
  <2>2. CASE ~(i <= Len(s))
    <3>1. PICK k \in 1 .. Len(t) : i = Len(s) + k /\ i - Len(s) = k
      <4>1. i - Len(s) \in 1 .. Len(t) /\ i = Len(s) + (i - Len(s))
        BY <1>2, <2>2
      <4> QED
        BY <4>1
    <3> QED
      BY <1>1, <2>2, <3>1
  <2> QED
    BY <2>1, <2>2
<1> QED
  BY <1>1, <1>3, SeqEqual

LEMMA Concat22 ==
  ASSUME NEW a, NEW b, NEW c, NEW d
  PROVE  <<a, b>> \o <<c, d>> = <<a, b, c, d>>
<1> DEFINE X == {a, b, c, d}
<1>1. ASSUME NEW s, NEW t, NEW u, s = <<a, b>>, t = <<c, d>>, u = <<a, b, c, d>>
      PROVE  s \o t = u
  <2>1. /\ s \in Seq(X) /\ t \in Seq(X) /\ u \in Seq(X)
        /\ Len(s) = 2 /\ Len(t) = 2 /\ Len(u) = 4
    BY <1>1
  <2>2. \A i \in 1 .. 2 : u[i] = s[i] /\ u[2 + i] = t[i]
    BY <1>1
  <2>3. /\ Len(u) = Len(s) + Len(t)
        /\ \A i \in 1 .. Len(s) : u[i] = s[i]
        /\ \A i \in 1 .. Len(t) : u[Len(s) + i] = t[i]
    BY <2>1, <2>2
  <2> HIDE DEF X
  <2>4. s \in Seq(X) /\ t \in Seq(X) /\ u \in Seq(X)
    BY <2>1
  <2> QED
    BY <2>3, <2>4, ConcatIs, Zenon
<1> QED
  BY <1>1

LEMMA Concat23 ==
  ASSUME NEW a, NEW b, NEW c, NEW d, NEW e
  PROVE  <<a, b>> \o <<c, d, e>> = <<a, b, c, d, e>>
<1> DEFINE X == {a, b, c, d, e}
<1>1. ASSUME NEW s, NEW t, NEW u, s = <<a, b>>, t = <<c, d, e>>, u = <<a, b, c, d, e>>
      PROVE  s \o t = u
  <2>1. /\ s \in Seq(X) /\ t \in Seq(X) /\ u \in Seq(X)
        /\ Len(s) = 2 /\ Len(t) = 3 /\ Len(u) = 5
    BY <1>1
  <2>2. /\ \A i \in 1 .. 2 : u[i] = s[i]
        /\ \A i \in 1 .. 3 : u[2 + i] = t[i]
    BY <1>1
  <2>3. /\ Len(u) = Len(s) + Len(t)
        /\ \A i \in 1 .. Len(s) : u[i] = s[i]
        /\ \A i \in 1 .. Len(t) : u[Len(s) + i] = t[i]
    BY <2>1, <2>2
  <2> HIDE DEF X
  <2>4. s \in Seq(X) /\ t \in Seq(X) /\ u \in Seq(X)
    BY <2>1
  <2> QED
    BY <2>3, <2>4, ConcatIs, Zenon
<1> QED
  BY <1>1

LEMMA Concat32 ==
  ASSUME NEW a, NEW b, NEW c, NEW d, NEW e
  PROVE  <<a, b, c>> \o <<d, e>> = <<a, b, c, d, e>>
<1> DEFINE X == {a, b, c, d, e}
<1>1. ASSUME NEW s, NEW t, NEW u, s = <<a, b, c>>, t = <<d, e>>, u = <<a, b, c, d, e>>
      PROVE  s \o t = u
  <2>1. /\ s \in Seq(X) /\ t \in Seq(X) /\ u \in Seq(X)
        /\ Len(s) = 3 /\ Len(t) = 2 /\ Len(u) = 5
    BY <1>1
  <2>2. /\ \A i \in 1 .. 3 : u[i] = s[i]
        /\ \A i \in 1 .. 2 : u[3 + i] = t[i]
    BY <1>1
  <2>3. /\ Len(u) = Len(s) + Len(t)
        /\ \A i \in 1 .. Len(s) : u[i] = s[i]
        /\ \A i \in 1 .. Len(t) : u[Len(s) + i] = t[i]
    BY <2>1, <2>2
  <2> HIDE DEF X
  <2>4. s \in Seq(X) /\ t \in Seq(X) /\ u \in Seq(X)
    BY <2>1
  <2> QED
    BY <2>3, <2>4, ConcatIs, Zenon
<1> QED
  BY <1>1

LEMMA Concat33 ==
  ASSUME NEW a, NEW b, NEW c, NEW d, NEW e, NEW f
  PROVE  <<a, b, c>> \o <<d, e, f>> = <<a, b, c, d, e, f>>
<1> DEFINE X == {a, b, c, d, e, f}
<1>1. ASSUME NEW s, NEW t, NEW u, s = <<a, b, c>>, t = <<d, e, f>>,
             u = <<a, b, c, d, e, f>>
      PROVE  s \o t = u
  <2>1. /\ s \in Seq(X) /\ t \in Seq(X) /\ u \in Seq(X)
        /\ Len(s) = 3 /\ Len(t) = 3 /\ Len(u) = 6
    BY <1>1
  <2>2. \A i \in 1 .. 3 : u[i] = s[i] /\ u[3 + i] = t[i]
    BY <1>1
  <2>3. /\ Len(u) = Len(s) + Len(t)
        /\ \A i \in 1 .. Len(s) : u[i] = s[i]
        /\ \A i \in 1 .. Len(t) : u[Len(s) + i] = t[i]
    BY <2>1, <2>2
  <2> HIDE DEF X
  <2>4. s \in Seq(X) /\ t \in Seq(X) /\ u \in Seq(X)
    BY <2>1
  <2> QED
    BY <2>3, <2>4, ConcatIs, Zenon
<1> QED
  BY <1>1


(* The group whose collector writes a vector.                              *)
HomeOf ==
  [OverlaysInfo |-> "overlays", BackendsInfo |-> "backends",
   ListenersInfo |-> "listeners", LogLevels |-> "log", SaslInfo |-> "sasl",
   TlsInfo |-> "tls", TlsCertNotAfter |-> "tls",
   ServerInfo |-> "server", SupportedControlInfo |-> "server",
   ConnectionsCurrent |-> "connections", ConnectionsByProtocol |-> "connections",
   ThreadsCounts |-> "threads", ThreadsState |-> "threads",
   ServerTime |-> "time", Waiters |-> "waiters", DatabaseInfo |-> "database",
   HealthStatus |-> "health", Ppolicy |-> "ppolicy",
   ReplicationCSN |-> "replication", ReplicationTopology |-> "replication"]

(* What the proofs use of a program: it writes its own vectors only, and a *)
(* vector it resets is published once, after the reset.                    *)
StepOK(p, g, i) ==
  /\ p[i].op \in {"reset", "publish"} => HomeOf[p[i].vec] = g
  /\ p[i].op = "reset" =>
       /\ p[i] = ResetStep(p[i].vec)
       /\ \E j \in DOMAIN p : p[j] = Publish(p[i].vec)
       /\ \A j \in DOMAIN p : p[j].op = "publish" /\ p[j].vec = p[i].vec => i < j
  /\ p[i].op = "publish" =>
       /\ p[i] = Publish(p[i].vec)
       /\ \A j \in DOMAIN p : p[j].op = "publish" /\ p[j].vec = p[i].vec => i = j
GoodProgram(p, g) ==
  /\ Len(p) \in Nat \ {0} /\ DOMAIN p = 1 .. Len(p)
  /\ \A i \in DOMAIN p : StepOK(p, g, i)

LEMMA RebuildGood ==
  ASSUME NEW v, NEW g, HomeOf[v] = g
  PROVE  GoodProgram(Rebuild(v), g)
BY DEF GoodProgram, StepOK, Rebuild, ResetStep, SearchOrReturn, Publish

LEMMA RefreshGood ==
  ASSUME NEW v, NEW g, HomeOf[v] = g
  PROVE  GoodProgram(Refresh(v), g)
BY DEF GoodProgram, StepOK, Refresh, SearchOrReturn, Publish

LEMMA RefreshRebuildGood ==
  ASSUME NEW v, NEW w, NEW g, HomeOf[v] = g, HomeOf[w] = g, v # w
  PROVE  GoodProgram(Refresh(v) \o Rebuild(w), g)
<1>1. Refresh(v) \o Rebuild(w)
        = <<SearchOrReturn, Publish(v), ResetStep(w), SearchOrReturn, Publish(w)>>
  BY Concat23 DEF Refresh, Rebuild
<1> QED
  BY <1>1 DEF GoodProgram, StepOK, SearchOrReturn, ResetStep, Publish

LEMMA ThreadsGood == GoodProgram(collectThreadsMetrics, "threads")
<1>1. collectThreadsMetrics
        = <<SearchOrReturn, Publish("ThreadsCounts"), SearchOrReturn,
            ResetStep("ThreadsState"), Publish("ThreadsState")>>
  BY Concat23 DEF collectThreadsMetrics, collectThreadsState, Refresh
<1> QED
  BY <1>1 DEF GoodProgram, StepOK, SearchOrReturn, ResetStep, Publish, HomeOf

LEMMA TLSGood == GoodProgram(collectTLSMetrics, "tls")
<1>1. collectTLSMetrics
        = <<ResetStep("TlsInfo"), SearchOrGoOn, Publish("TlsInfo"),
            ResetStep("TlsCertNotAfter"), SearchOrReturn, Publish("TlsCertNotAfter")>>
  BY Concat33 DEF collectTLSMetrics, collectTLSCertMetrics, Rebuild
<1> QED
  BY <1>1 DEF GoodProgram, StepOK, SearchOrReturn, SearchOrGoOn, ResetStep, Publish, HomeOf

LEMMA PpolicyGood == GoodProgram(collectPpolicyMetrics, "ppolicy")
<1>1. collectPpolicyMetrics
        = <<ResetStep("Ppolicy"), SearchOrReturn, SearchOrGoOn, Publish("Ppolicy")>>
  BY Concat22 DEF collectPpolicyMetrics, collectPpolicyForSuffix
<1> QED
  BY <1>1 DEF GoodProgram, StepOK, SearchOrReturn, SearchOrGoOn, ResetStep, Publish, HomeOf

LEMMA ReplicationGood == GoodProgram(collectReplicationMetrics, "replication")
<1>1. collectReplicationMetrics
        = <<SearchOrReturn, SearchOrGoOn, Publish("ReplicationCSN"),
            SearchOrReturn, Publish("ReplicationTopology")>>
  BY Concat32 DEF collectReplicationMetrics, collectReplicationTopology, Refresh
<1> QED
  BY <1>1 DEF GoodProgram, StepOK, SearchOrReturn, SearchOrGoOn, Publish, HomeOf

LEMMA HealthGood == GoodProgram(collectHealthMetrics, "health")
BY DEF collectHealthMetrics, GoodProgram, StepOK, SearchOrGoOn, Publish, HomeOf

LEMMA ProgramsGood ==
  ASSUME NEW g \in DOMAIN Collectors
  PROVE  GoodProgram(Collectors[g], g)
<1>1. CASE g \in {"overlays", "backends", "listeners", "log", "sasl"}
  <2>1. /\ HomeOf["OverlaysInfo"] = "overlays" /\ HomeOf["BackendsInfo"] = "backends"
        /\ HomeOf["ListenersInfo"] = "listeners" /\ HomeOf["LogLevels"] = "log"
        /\ HomeOf["SaslInfo"] = "sasl"
    BY DEF HomeOf
  <2> QED
    BY <1>1, <2>1, RebuildGood
    DEF Collectors, collectOverlaysMetrics, collectBackendsMetrics,
        collectListenersMetrics, collectLogMetrics, collectSASLMetrics
<1>2. CASE g \in {"time", "waiters", "database"}
  <2>1. /\ HomeOf["ServerTime"] = "time" /\ HomeOf["Waiters"] = "waiters"
        /\ HomeOf["DatabaseInfo"] = "database"
    BY DEF HomeOf
  <2> QED
    BY <1>2, <2>1, RefreshGood
    DEF Collectors, collectTimeMetrics, collectWaitersMetrics, collectDatabaseMetrics
<1>3. CASE g \in {"server", "connections"}
  <2>1. /\ HomeOf["ServerInfo"] = "server" /\ HomeOf["SupportedControlInfo"] = "server"
        /\ HomeOf["ConnectionsCurrent"] = "connections"
        /\ HomeOf["ConnectionsByProtocol"] = "connections"
    BY DEF HomeOf
  <2>2. "ServerInfo" # "SupportedControlInfo" /\ "ConnectionsCurrent" # "ConnectionsByProtocol"
    OBVIOUS
  <2>3. GoodProgram(Refresh("ServerInfo") \o Rebuild("SupportedControlInfo"), "server")
    BY <2>1, <2>2, RefreshRebuildGood, Zenon
  <2>4. GoodProgram(Refresh("ConnectionsCurrent") \o Rebuild("ConnectionsByProtocol"),
                    "connections")
    BY <2>1, <2>2, RefreshRebuildGood, Zenon
  <2>5. /\ Collectors["server"] = collectServerInfoMetrics
        /\ Collectors["connections"] = collectConnectionsMetrics
    BY DEF Collectors
  <2>6. CASE g = "server"
    BY <2>3, <2>5, <2>6, Zenon DEF collectServerInfoMetrics, collectSupportedControlsMetrics
  <2>7. CASE g = "connections"
    BY <2>4, <2>5, <2>7, Zenon DEF collectConnectionsMetrics, collectIndividualConnections
  <2> QED
    BY <1>3, <2>6, <2>7
<1>4. CASE g \in {"threads", "tls", "ppolicy", "replication", "health"}
  BY <1>4, ThreadsGood, TLSGood, PpolicyGood, ReplicationGood, HealthGood DEF Collectors
<1>5. g \in {"overlays", "backends", "listeners", "log", "sasl", "time", "waiters",
             "database", "server", "connections", "threads", "tls", "ppolicy",
             "replication", "health"}
  BY DEF Collectors
<1> QED
  BY <1>1, <1>2, <1>3, <1>4, <1>5


-----------------------------------------------------------------------------
(* The groups of the tasks.                                                *)
LEMMA GroupFacts ==
  ASSUME CycleTypeOK, TaskControl, NEW t \in Tasks, task[t] # "absent"
  PROVE  /\ t[2] \in DOMAIN enabled
         /\ Group(t) \in DOMAIN Collectors
         /\ GoodProgram(Program(t), Group(t))
<1>1. t[2] \in DOMAIN enabled
  BY DEF TaskControl
<1>2. enabled \in Seq(DOMAIN Collectors)
  BY GroupAssumption DEF CycleTypeOK
<1>3. Group(t) \in DOMAIN Collectors
  <2> DEFINE D == DOMAIN Collectors
  <2>1. enabled \in Seq(D)
    BY <1>2
  <2> HIDE DEF D
  <2>2. enabled[t[2]] \in D
    BY <1>1, <2>1
  <2> QED
    BY <2>2 DEF D, Group
<1> QED
  BY <1>1, <1>3, ProgramsGood DEF Program

(* Two tasks of one group are at one place of the list.                    *)
LEMMA OneGroup ==
  ASSUME CycleTypeOK, NEW n \in DOMAIN enabled, NEW m \in DOMAIN enabled,
         enabled[n] = enabled[m]
  PROVE  n = m
BY GroupAssumption DEF CycleTypeOK

(* A step of a task as the cycle sees it.                                  *)
LEMMA TaskStepEffect ==
  ASSUME CycleTypeOK, NEW t \in Tasks, TaskStep(t)
  PROVE  /\ UNCHANGED <<enabled, pc, cyc, cycle, collecting, collectMu, expired, base,
                        up, upBy, shut, closing>>
         /\ errors' = errors \/ errors' = errors \cup {t[1]}
         /\ task[t] \in {"queued", "ready", "search"}
         /\ \E s \in {"ready", "search", "done"} : task' = [task EXCEPT ![t] = s]
<1> DEFINE Goal ==
         /\ UNCHANGED <<enabled, pc, cyc, cycle, collecting, collectMu, expired, base,
                        up, upBy, shut, closing>>
         /\ errors' = errors \/ errors' = errors \cup {t[1]}
         /\ task[t] \in {"queued", "ready", "search"}
         /\ \E s \in {"ready", "search", "done"} : task' = [task EXCEPT ![t] = s]
<1>1. ASSUME StartTask(t) \/ Canceled(t) \/ Panics(t) PROVE Goal
  BY <1>1 DEF StartTask, Canceled, Panics, MayStart, CancelTask, PanicTask, TaskTo,
              Running, FnStates
<1>2. ASSUME Reset(t) \/ SearchAnswered(t) \/ PublishEnds(t) PROVE Goal
  BY <1>2 DEF Reset, SearchAnswered, PublishEnds, AtStep, Advance, TaskTo
<1>3. ASSUME IssueSearch(t) \/ SearchFails(t) PROVE Goal
  BY <1>3 DEF IssueSearch, SearchFails, AtStep, Advance, TaskTo
<1>4. ASSUME PublishOne(t) PROVE Goal
  <2>1. task' = task /\ task[t] = "ready"
    BY <1>4 DEF PublishOne, AtStep, cycleVars
  <2>2. task' = [task EXCEPT ![t] = "ready"]
    BY <2>1 DEF CycleTypeOK
  <2> QED
    BY <1>4, <2>1, <2>2 DEF PublishOne, cycleVars
<1> HIDE DEF Goal
<1>5. Goal
  BY <1>1, <1>2, <1>3, <1>4, Zenon DEF TaskStep
<1> QED
  BY <1>5 DEF Goal

LEMMA ServerChangesEffect ==
  ASSUME NEW o, ServerChanges(o)
  PROVE  UNCHANGED cycleVars
BY DEF ServerChanges


-----------------------------------------------------------------------------
(* The runners and the cycles.                                             *)
USE DEF CycleStates

CycleInv ==
  /\ CycleTypeOK
  /\ MutexControl
  /\ TaskControl
  /\ UpControl
  /\ SuccessMeansComplete

LEMMA RunnersFacts ==
  /\ IsFiniteSet(Runners)
  /\ "loop" \in Runners
  /\ Callers \subseteq Runners
  /\ None \notin Runners
BY CycleAssumption, FS_AddElement DEF Runners

LEMMA WaitingFinite ==
  IsFiniteSet(Waiting) /\ Cardinality(Waiting) \in Nat
BY RunnersFacts, FS_Subset, FS_CardinalityType DEF Waiting

(* A runner that asks for collectMu is counted, so that its cycle has room.*)
LEMMA WaitingGrows ==
  ASSUME CycleTypeOK, NEW r \in Runners, pc[r] = "idle",
         pc' = [pc EXCEPT ![r] = "lock"]
  PROVE  Cardinality(Waiting') = Cardinality(Waiting) + 1
<1>1. Waiting' = Waiting \cup {r} /\ r \notin Waiting
  BY DEF Waiting, CycleTypeOK
<1> QED
  BY <1>1, WaitingFinite, FS_AddElement

LEMMA WaitingShrinks ==
  ASSUME CycleTypeOK, NEW r \in Runners, pc[r] = "lock",
         pc' = [pc EXCEPT ![r] = "connect"]
  PROVE  Cardinality(Waiting') = Cardinality(Waiting) - 1 /\ Cardinality(Waiting) > 0
<1>1. Waiting' = Waiting \ {r} /\ r \in Waiting
  BY DEF Waiting, CycleTypeOK
<1>2. Cardinality(Waiting') = Cardinality(Waiting) - 1 /\ Cardinality(Waiting') \in Nat
  BY <1>1, WaitingFinite, FS_RemoveElement, FS_CardinalityType
<1> QED
  BY <1>2, WaitingFinite

LEMMA WaitingStays ==
  ASSUME CycleTypeOK, NEW r \in Runners, NEW q, pc[r] # "lock", q # "lock",
         pc' = [pc EXCEPT ![r] = q]
  PROVE  Waiting' = Waiting
BY DEF Waiting, CycleTypeOK

LEMMA CollectAsked ==
  ASSUME CycleInv, NEW r \in Runners, pc[r] = "idle", CyclesLeft,
         pc' = [pc EXCEPT ![r] = "lock"], collecting' \in BOOLEAN,
         UNCHANGED <<enabled, cyc, cycle, collectMu, expired, base, task, errors, up,
                     upBy, shut, closing>>
  PROVE  CycleInv'
<1>1. CycleTypeOK'
  BY DEF CycleInv, CycleTypeOK
<1>2. MutexControl'
  <2>1. cycle + Cardinality(Waiting') <= MaxCycles
    <3>1. Cardinality(Waiting') = Cardinality(Waiting) + 1
      BY WaitingGrows DEF CycleInv
    <3>2. cycle + Cardinality(Waiting) < MaxCycles
      BY DEF CyclesLeft, Waiting
    <3>3. cycle \in Nat /\ MaxCycles \in Nat /\ Cardinality(Waiting) \in Nat
      BY CycleAssumption, WaitingFinite DEF CycleInv, CycleTypeOK
    <3> QED
      BY <3>1, <3>2, <3>3
  <2>2. \A s \in Runners : pc'[s] \in CycleStates <=> pc[s] \in CycleStates
    BY DEF CycleInv, CycleTypeOK
  <2> QED
    BY <2>1, <2>2 DEF CycleInv, MutexControl
<1>3. TaskControl' /\ UpControl' /\ SuccessMeansComplete'
  <2>1. \A s \in Runners : pc'[s] \in CycleStates => pc'[s] = pc[s]
    BY DEF CycleInv, CycleTypeOK
  <2> QED
    BY <2>1 DEF CycleInv, TaskControl, UpControl, ClientOpen, SuccessMeansComplete,
                TasksDone, Spawned
<1> QED
  BY <1>1, <1>2, <1>3 DEF CycleInv

LEMMA LoopStopsInv ==
  ASSUME CycleInv, LoopStops
  PROVE  CycleInv'
<1>1. "loop" \in Runners
  BY RunnersFacts
<1>2. CycleTypeOK'
  BY <1>1 DEF LoopStops, CycleInv, CycleTypeOK
<1>3. MutexControl'
  <2>1. Waiting' = Waiting
    <3>1. pc["loop"] # "lock" /\ "stopped" # "lock"
      BY DEF LoopStops
    <3> QED
      BY <1>1, <3>1, WaitingStays DEF LoopStops, CycleInv
  <2>2. \A s \in Runners : pc'[s] \in CycleStates <=> pc[s] \in CycleStates
    BY <1>1 DEF LoopStops, CycleInv, CycleTypeOK
  <2> QED
    BY <2>1, <2>2 DEF LoopStops, CycleInv, MutexControl
<1>4. TaskControl' /\ UpControl' /\ SuccessMeansComplete'
  <2>1. \A s \in Runners : pc'[s] \in CycleStates => pc'[s] = pc[s]
    BY <1>1 DEF LoopStops, CycleInv, CycleTypeOK
  <2> QED
    BY <2>1 DEF LoopStops, CycleInv, TaskControl, UpControl, ClientOpen, SuccessMeansComplete,
                TasksDone, Spawned
<1> QED
  BY <1>2, <1>3, <1>4 DEF CycleInv

(* collectMu serialises the cycles: the runner that takes it opens the     *)
(* next one, of which there is no task yet.                                *)
LEMMA RunCollectionInv ==
  ASSUME CycleInv, NEW r \in Runners, RunCollection(r)
  PROVE  CycleInv'
<1>0. /\ cycle \in Nat /\ MaxCycles \in Nat /\ Cardinality(Waiting) \in Nat
      /\ cycle <= MaxCycles /\ upBy \in Nat /\ upBy <= MaxCycles
  BY CycleAssumption, WaitingFinite DEF CycleInv, CycleTypeOK
<1>1. /\ Cardinality(Waiting') = Cardinality(Waiting) - 1 /\ Cardinality(Waiting) > 0
      /\ cycle + Cardinality(Waiting) <= MaxCycles
  BY WaitingShrinks DEF RunCollection, CycleInv, MutexControl
<1>2. cycle + 1 \in 0 .. MaxCycles /\ cycle' = cycle + 1
  BY <1>0, <1>1 DEF RunCollection
<1>3. CycleTypeOK'
  <2>1. cycle + 1 \in Cycles
    BY <1>0, <1>2 DEF Cycles
  <2>2. shut' \subseteq Cycles
    BY <2>1 DEF RunCollection, CycleInv, CycleTypeOK
  <2> QED
    BY <1>2, <2>2 DEF RunCollection, CycleInv, CycleTypeOK
<1>4. /\ collectMu = None /\ None \notin Runners
      /\ \A s \in Runners : pc[s] \notin CycleStates /\ cyc[s] = 0
  BY RunnersFacts DEF RunCollection, MutexFree, CycleInv, MutexControl
<1>5. \A s \in Runners : /\ pc'[s] = (IF s = r THEN "connect" ELSE pc[s])
                         /\ cyc'[s] = (IF s = r THEN cycle + 1 ELSE cyc[s])
  BY DEF RunCollection, CycleInv, CycleTypeOK
<1>6. MutexControl'
  <2>1. cycle' + Cardinality(Waiting') <= MaxCycles
    BY <1>0, <1>1, <1>2
  <2>2. cycle' > upBy' /\ cycle' >= upBy'
    BY <1>0, <1>2 DEF RunCollection, CycleInv, MutexControl
  <2>3. collectMu' = r /\ base' = cycle + 1
    BY DEF RunCollection
  <2> QED
    BY <1>2, <1>4, <1>5, <2>1, <2>2, <2>3 DEF MutexControl
<1>7. TaskControl'
  <2>1. ASSUME NEW t \in Tasks, task'[t] # "absent"
        PROVE  t[1] <= cycle' /\ t[2] \in DOMAIN enabled' /\ t[1] # cycle'
    <3>1. t[1] <= cycle /\ t[2] \in DOMAIN enabled
      BY <2>1 DEF RunCollection, CycleInv, TaskControl
    <3>2. t[1] \in Nat
      BY DEF Tasks, Cycles
    <3> QED
      BY <1>0, <1>2, <3>1, <3>2 DEF RunCollection
  <2> QED
    BY <2>1 DEF TaskControl
<1>8. UpControl'
  <2>1. \A s \in Runners : pc'[s] \notin {"probe", "wait"}
    BY <1>4, <1>5
  <2>2. up = 1 => upBy \notin shut'
    BY <1>0, <1>2 DEF RunCollection, CycleInv, UpControl, MutexControl
  <2>3. \A c \in shut' : c <= cycle' /\ ~ClientOpen'
    <3>1. \A c \in shut : c \in Nat /\ c <= cycle /\ ~ClientOpen
      BY DEF CycleInv, CycleTypeOK, UpControl, Cycles
    <3> QED
      BY <1>0, <1>2, <3>1 DEF RunCollection, ClientOpen
  <2> QED
    BY <2>1, <2>2, <2>3 DEF RunCollection, CycleInv, UpControl
<1>9. SuccessMeansComplete'
  BY DEF RunCollection, CycleInv, SuccessMeansComplete, TasksDone, Spawned
<1> QED
  BY <1>3, <1>6, <1>7, <1>8, <1>9 DEF CycleInv

(* A probe is issued only while the client is open, hence by a cycle that  *)
(* began before it was closed.                                             *)
LEMMA IssueProbeInv ==
  ASSUME CycleInv, NEW r \in Runners, IssueProbe(r)
  PROVE  CycleInv'
<1>1. /\ \A s \in Runners : pc'[s] = (IF s = r THEN "probe" ELSE pc[s])
      /\ pc[r] = "connect"
  BY DEF IssueProbe, CycleInv, CycleTypeOK
<1>2. CycleTypeOK'
  BY DEF IssueProbe, CycleInv, CycleTypeOK
<1>3. MutexControl'
  <2>1. Waiting' = Waiting
    <3>1. pc[r] # "lock" /\ "probe" # "lock"
      BY <1>1
    <3> QED
      BY <3>1, WaitingStays DEF IssueProbe, CycleInv
  <2>2. \A s \in Runners : pc'[s] \in CycleStates <=> pc[s] \in CycleStates
    BY <1>1
  <2> QED
    BY <2>1, <2>2 DEF IssueProbe, CycleInv, MutexControl
<1>4. TaskControl' /\ SuccessMeansComplete'
  BY <1>1 DEF IssueProbe, CycleInv, TaskControl, SuccessMeansComplete, TasksDone, Spawned
<1>5. UpControl'
  BY <1>1 DEF IssueProbe, CycleInv, UpControl, ClientOpen
<1> QED
  BY <1>2, <1>3, <1>4, <1>5 DEF CycleInv

LEMMA SpawnedTasks ==
  ASSUME CycleTypeOK, NEW c \in Cycles, NEW t \in Spawned(c)
  PROVE  t \in Tasks /\ t[1] = c /\ t[2] \in DOMAIN enabled
<1>1. t[1] = c /\ t[2] \in DOMAIN enabled /\ t = <<t[1], t[2]>>
  BY DEF Spawned
<1>2. DOMAIN enabled = 1 .. Len(enabled) /\ Len(enabled) \in Nat
  <2>1. enabled \in Seq(DOMAIN Collectors)
    BY GroupAssumption DEF CycleTypeOK
  <2> QED
    BY <2>1, LenProperties
<1>3. Len(enabled) <= MaxTasks /\ MaxTasks \in Nat
  BY CycleAssumption DEF CycleTypeOK
<1>4. t[2] \in 1 .. MaxTasks
  BY <1>1, <1>2, <1>3
<1> QED
  BY <1>1, <1>4 DEF Tasks

(* The tasks of a cycle are absent until its probe is answered, so that    *)
(* spawning them disturbs no task of an earlier cycle.                     *)
LEMMA ConnectedEffect ==
  ASSUME CycleInv, NEW r \in Runners, Connected(r)
  PROVE  /\ cyc[r] = cycle /\ cycle \in Cycles
         /\ \A t \in Tasks :
              \/ task'[t] = task[t]
              \/ task[t] = "absent" /\ task'[t] = "queued" /\ t[1] = cycle
                 /\ t[2] \in DOMAIN enabled
<1>1. cyc[r] = cycle /\ cycle \in Cycles
  <2>1. collectMu = r /\ cycle > upBy /\ cyc[r] = cycle
    BY RunnersFacts DEF Connected, CycleInv, MutexControl
  <2> QED
    BY <2>1, CycleAssumption DEF CycleInv, CycleTypeOK, Cycles
<1>2. ASSUME NEW t \in Tasks, task'[t] # task[t]
      PROVE  /\ task[t] = "absent" /\ task'[t] = "queued" /\ t[1] = cycle
             /\ t[2] \in DOMAIN enabled
  <2>1. t \in Spawned(cycle) /\ task'[t] = "queued"
    BY <1>1, <1>2 DEF Connected
  <2>2. t[1] = cycle /\ t[2] \in DOMAIN enabled
    BY <1>1, <2>1, SpawnedTasks DEF CycleInv
  <2>3. task[t] = "absent"
    BY <2>2 DEF Connected, CycleInv, TaskControl
  <2> QED
    BY <2>1, <2>2, <2>3
<1> QED
  BY <1>1, <1>2

LEMMA ConnectedInv ==
  ASSUME CycleInv, NEW r \in Runners, Connected(r)
  PROVE  CycleInv'
<1>1. /\ cyc[r] = cycle /\ cycle \in Cycles
      /\ \A t \in Tasks :
           \/ task'[t] = task[t]
           \/ task[t] = "absent" /\ task'[t] = "queued" /\ t[1] = cycle
              /\ t[2] \in DOMAIN enabled
  BY ConnectedEffect
<1>2. /\ collectMu = r /\ cycle > upBy
      /\ \A s \in Runners : pc[s] \in CycleStates => s = r
  BY RunnersFacts DEF Connected, CycleInv, MutexControl
<1>3. \A s \in Runners : pc'[s] = (IF s = r THEN "wait" ELSE pc[s])
  BY DEF Connected, CycleInv, CycleTypeOK
<1>4. CycleTypeOK'
  <2>1. task' \in [Tasks -> {"absent", "queued", "done"} \cup FnStates]
    BY DEF Connected, CycleInv, CycleTypeOK
  <2> QED
    BY <1>1, <2>1 DEF Connected, CycleInv, CycleTypeOK
<1>5. MutexControl'
  <2>1. Waiting' = Waiting
    <3>1. pc[r] # "lock" /\ "wait" # "lock"
      BY DEF Connected
    <3> QED
      BY <3>1, WaitingStays DEF Connected, CycleInv
  <2> QED
    BY <1>2, <1>3, <2>1 DEF Connected, CycleInv, MutexControl
<1>6. TaskControl'
  <2>1. \A s \in Runners : pc'[s] \notin {"connect", "probe"}
    BY <1>2, <1>3
  <2>2. \A t \in Tasks : task'[t] # "absent" => t[1] <= cycle /\ t[2] \in DOMAIN enabled
    <3>1. cycle \in Nat
      BY <1>1 DEF Cycles
    <3> QED
      BY <1>1, <3>1 DEF CycleInv, TaskControl
  <2> QED
    BY <2>1, <2>2 DEF Connected, TaskControl
<1>7. UpControl'
  BY <1>1, <1>2, <1>3 DEF Connected, CycleInv, UpControl, ClientOpen
<1>8. SuccessMeansComplete'
  <2>1. ASSUME up = 1, upBy # 0, NEW t \in Spawned(upBy)
        PROVE  task'[t] = "done"
    <3>1. upBy \in Cycles
      BY <2>1 DEF CycleInv, CycleTypeOK, Cycles
    <3>2. t \in Tasks /\ t[1] = upBy
      BY <3>1, SpawnedTasks DEF CycleInv
    <3>3. task[t] = "done"
      BY <2>1 DEF CycleInv, SuccessMeansComplete, TasksDone
    <3> QED
      BY <1>1, <3>2, <3>3
  <2> QED
    BY <2>1 DEF Connected, SuccessMeansComplete, TasksDone, Spawned
<1> QED
  BY <1>4, <1>5, <1>6, <1>7, <1>8 DEF CycleInv

LEMMA EndCycleInv ==
  ASSUME CycleInv, NEW r \in Runners, NEW ok \in BOOLEAN, pc[r] \in CycleStates,
         EndCycle(r, ok), ok => pc[r] = "wait" /\ TasksDone(cyc[r]),
         UNCHANGED <<enabled, cycle, task, errors, shut, closing>>
  PROVE  CycleInv'
<1>1. /\ collectMu = r /\ cycle > upBy /\ cyc[r] = cycle
      /\ \A s \in Runners : pc[s] \in CycleStates => s = r
      /\ \A s \in Runners : s # r => cyc[s] = 0
  BY RunnersFacts DEF CycleInv, MutexControl
<1>2. \A s \in Runners : /\ pc'[s] = (IF s = r THEN "idle" ELSE pc[s])
                         /\ cyc'[s] = (IF s = r THEN 0 ELSE cyc[s])
  BY DEF EndCycle, CycleInv, CycleTypeOK
<1>3. /\ cycle \in 1 .. MaxCycles /\ cycle \in 0 .. MaxCycles /\ cycle # 0
      /\ 0 \in 0 .. MaxCycles
  BY <1>1, CycleAssumption DEF CycleInv, CycleTypeOK
<1>4. CycleTypeOK'
  <2>1. collecting' \in BOOLEAN
    BY DEF EndCycle
  <2>2. up' \in {0, 1} /\ upBy' \in 0 .. MaxCycles /\ base' \in 0 .. MaxCycles
    BY <1>1, <1>3 DEF EndCycle
  <2>3. /\ pc' \in [Runners -> {"idle", "lock", "stopped"} \cup CycleStates]
        /\ cyc' \in [Runners -> 0 .. MaxCycles]
    BY <1>3 DEF EndCycle, CycleInv, CycleTypeOK
  <2>4. expired' \subseteq Cycles /\ collectMu' \in Runners \cup {None}
    BY <1>1, <1>3 DEF EndCycle, CycleInv, CycleTypeOK, Cycles
  <2> QED
    BY <2>1, <2>2, <2>3, <2>4 DEF CycleInv, CycleTypeOK
<1>5. MutexControl'
  <2>1. Waiting' = Waiting
    <3>1. pc[r] # "lock" /\ "idle" # "lock"
      OBVIOUS
    <3> QED
      BY <3>1, WaitingStays DEF EndCycle, CycleInv
  <2>2. collectMu' = None /\ base' = 0 /\ upBy' = cycle /\ cycle' = cycle /\ cycle >= upBy'
    BY <1>1, <1>3 DEF EndCycle
  <2>3. \A s \in Runners : /\ pc'[s] \notin CycleStates /\ collectMu' # s
                           /\ cyc'[s] = 0
    BY <1>1, <1>2, <2>2, RunnersFacts
  <2> QED
    BY <2>1, <2>2, <2>3 DEF CycleInv, MutexControl
<1>6. TaskControl'
  BY <1>2 DEF CycleInv, TaskControl
<1>7. UpControl'
  <2>1. \A s \in Runners : pc'[s] \notin {"probe", "wait"}
    BY <1>1, <1>2
  <2>2. upBy' = cycle /\ (up' = 1 => pc[r] = "wait")
    BY <1>1 DEF EndCycle
  <2> QED
    BY <1>3, <2>1, <2>2 DEF CycleInv, UpControl, ClientOpen
<1>8. SuccessMeansComplete'
  BY <1>1 DEF EndCycle, SuccessMeansComplete, TasksDone, Spawned
<1> QED
  BY <1>4, <1>5, <1>6, <1>7, <1>8 DEF CycleInv

LEMMA DeadlineInv ==
  ASSUME CycleInv, NEW c \in Cycles, Deadline(c)
  PROVE  CycleInv'
<1>1. CycleTypeOK'
  BY DEF Deadline, CycleInv, CycleTypeOK
<1>2. MutexControl' /\ TaskControl' /\ UpControl' /\ SuccessMeansComplete'
  BY DEF Deadline, CycleInv, MutexControl, Waiting, TaskControl, UpControl, ClientOpen,
         SuccessMeansComplete, TasksDone, Spawned
<1> QED
  BY <1>1, <1>2 DEF CycleInv

LEMMA CloseInv ==
  ASSUME CycleInv, Close
  PROVE  CycleInv'
<1>0. /\ UNCHANGED <<enabled, pc, cyc, cycle, collecting, collectMu, expired, base,
                     task, errors, shut>>
      /\ closing' \in {"client", "closed"}
      /\ \/ UNCHANGED <<up, upBy>> /\ closing' # "closed"
         \/ up' = 0 /\ upBy' = 0
  BY DEF Close, CloseClient, CloseUp, CloseStep
<1>1. CycleTypeOK'
  BY <1>0, CycleAssumption DEF CycleInv, CycleTypeOK
<1>2. MutexControl'
  BY <1>0 DEF CycleInv, CycleTypeOK, MutexControl, Waiting
<1>3. TaskControl'
  BY <1>0 DEF CycleInv, TaskControl
<1>4. UpControl' /\ SuccessMeansComplete'
  BY <1>0 DEF CycleInv, UpControl, ClientOpen, SuccessMeansComplete, TasksDone, Spawned
<1> QED
  BY <1>1, <1>2, <1>3, <1>4 DEF CycleInv

LEMMA CycleStepInv ==
  ASSUME CycleInv, CycleStep
  PROVE  CycleInv'
<1>1. ASSUME CollectOnce PROVE CycleInv'
  <2>1. "loop" \in Runners
    BY RunnersFacts
  <2>2. collecting' \in BOOLEAN
    BY <1>1 DEF CollectOnce
  <2> QED
    BY <1>1, <2>1, <2>2, CollectAsked DEF CollectOnce
<1>2. ASSUME NEW r \in Callers, CollectNow(r) PROVE CycleInv'
  <2>1. r \in Runners
    BY RunnersFacts
  <2>2. collecting' \in BOOLEAN
    BY <1>2 DEF CollectNow, CycleInv, CycleTypeOK
  <2> QED
    BY <1>2, <2>1, <2>2, CollectAsked DEF CollectNow
<1>3. ASSUME NEW r \in Runners, NotConnected(r) PROVE CycleInv'
  <2>1. pc[r] \in CycleStates
    BY <1>3 DEF NotConnected
  <2> QED
    BY <1>3, <2>1, EndCycleInv DEF NotConnected
<1>4. ASSUME NEW r \in Runners, AllDone(r) PROVE CycleInv'
  <2> DEFINE ok == cyc[r] \notin errors
  <2>1. pc[r] \in CycleStates /\ ok \in BOOLEAN
    BY <1>4 DEF AllDone
  <2>2. EndCycle(r, ok) /\ (ok => pc[r] = "wait" /\ TasksDone(cyc[r]))
    BY <1>4 DEF AllDone
  <2>3. UNCHANGED <<enabled, cycle, task, errors, shut, closing>>
    BY <1>4 DEF AllDone
  <2> HIDE DEF ok
  <2> QED
    BY <2>1, <2>2, <2>3, EndCycleInv
<1>5. ASSUME NEW r \in Runners, TimedOut(r) PROVE CycleInv'
  <2>1. pc[r] \in CycleStates
    BY <1>5 DEF TimedOut
  <2> QED
    BY <1>5, <2>1, EndCycleInv DEF TimedOut
<1>6. ASSUME NEW r \in Runners, RunnerStep(r) PROVE CycleInv'
  BY <1>3, <1>4, <1>5, <1>6, RunCollectionInv, IssueProbeInv, ConnectedInv, Zenon DEF RunnerStep
<1> QED
  BY <1>1, <1>2, <1>6, LoopStopsInv, DeadlineInv, CloseInv, Zenon DEF CycleStep

LEMMA TaskStepInv ==
  ASSUME CycleInv, NEW t \in Tasks, TaskStep(t)
  PROVE  CycleInv'
<1>1. /\ UNCHANGED <<enabled, pc, cyc, cycle, collecting, collectMu, expired, base,
                     up, upBy, shut, closing>>
      /\ errors' = errors \/ errors' = errors \cup {t[1]}
      /\ task[t] \in {"queued", "ready", "search"}
  BY TaskStepEffect DEF CycleInv
<1>2. PICK s \in {"ready", "search", "done"} : task' = [task EXCEPT ![t] = s]
  BY TaskStepEffect DEF CycleInv
<1>3. CycleTypeOK'
  <2>1. errors' \subseteq Cycles
    BY <1>1 DEF CycleInv, CycleTypeOK, Tasks
  <2>2. task' \in [Tasks -> {"absent", "queued", "done"} \cup FnStates]
    BY <1>2 DEF CycleInv, CycleTypeOK, FnStates
  <2> QED
    BY <1>1, <2>1, <2>2 DEF CycleInv, CycleTypeOK
<1>4. MutexControl' /\ UpControl'
  BY <1>1 DEF CycleInv, MutexControl, Waiting, UpControl, ClientOpen
<1>5. TaskControl'
  <2>1. \A u \in Tasks : task'[u] # "absent" => task[u] # "absent"
    BY <1>1, <1>2 DEF CycleInv, CycleTypeOK
  <2> QED
    BY <1>1, <2>1 DEF CycleInv, TaskControl
<1>6. SuccessMeansComplete'
  <2>1. ASSUME up = 1, upBy # 0, NEW u \in Spawned(upBy)
        PROVE  task'[u] = "done"
    <3>1. upBy \in Cycles
      BY <2>1 DEF CycleInv, CycleTypeOK, Cycles
    <3>2. u \in Tasks
      BY <3>1, SpawnedTasks DEF CycleInv
    <3>3. task[u] = "done"
      BY <2>1 DEF CycleInv, SuccessMeansComplete, TasksDone
    <3> QED
      BY <1>1, <1>2, <3>2, <3>3 DEF CycleInv, CycleTypeOK
  <2> QED
    BY <1>1, <2>1 DEF SuccessMeansComplete, TasksDone, Spawned
<1> QED
  BY <1>3, <1>4, <1>5, <1>6 DEF CycleInv

LEMMA CycleStutter ==
  ASSUME CycleInv, UNCHANGED cycleVars
  PROVE  CycleInv'
BY DEF cycleVars, CycleInv, CycleTypeOK, MutexControl, Waiting, TaskControl, UpControl, ClientOpen,
       SuccessMeansComplete, TasksDone, Spawned


-----------------------------------------------------------------------------
(* The collectors.                                                         *)
VecOK(v) ==
  expect[v] # None =>
    /\ v \in Rebuilt
    /\ (\E t \in Tasks : Publishing(t, v)) \/ published[v] = expect[v]
    /\ \A t \in Tasks : alone[t] =>
         /\ Publishing(t, v) => published[v] \cup found[t] = answer[t]
         /\ Between(t, v) => expect[v] = {}

SeriesInv == TypeOK /\ TaskControl /\ ProgressControl /\ SeriesControl

LEMMA SameVectors ==
  ASSUME enabled' = enabled
  PROVE  /\ Labelled' = Labelled /\ Rebuilt' = Rebuilt
         /\ \A t : Program(t)' = Program(t)
BY DEF Labelled, Rebuilt, VecOf, Program, Group

(* A collector writes a vector of its own group.                           *)
LEMMA Writes ==
  ASSUME CycleTypeOK, TaskControl, NEW t \in Tasks, task[t] # "absent",
         NEW i \in DOMAIN Program(t), NEW op \in {"reset", "publish"},
         Program(t)[i].op = op
  PROVE  /\ Program(t)[i].vec \in VecOf(Group(t), op)
         /\ Program(t)[i].vec \in VecOf(Group(t), "publish")
         /\ Program(t)[i].vec \in Labelled
         /\ op = "reset" => Program(t)[i].vec \in Rebuilt
         /\ HomeOf[Program(t)[i].vec] = Group(t)
<1>1. GoodProgram(Program(t), Group(t)) /\ t[2] \in DOMAIN enabled
  BY GroupFacts
<1>2. StepOK(Program(t), Group(t), i)
  BY <1>1 DEF GoodProgram
<1>3. HomeOf[Program(t)[i].vec] = Group(t)
  BY <1>2 DEF StepOK
<1>4. Program(t)[i].vec \in VecOf(Group(t), op)
  BY DEF VecOf, Program
<1>5. PICK j \in DOMAIN Program(t) :
        Program(t)[j].op = "publish" /\ Program(t)[j].vec = Program(t)[i].vec
  BY <1>2 DEF StepOK, Publish
<1>6. Program(t)[i].vec \in VecOf(Group(t), "publish")
  BY <1>5 DEF VecOf, Program
<1> QED
  BY <1>1, <1>3, <1>4, <1>6 DEF Labelled, Rebuilt, Group

(* A vector that some collector rebuilds is reset by every collector that  *)
(* publishes it, before it publishes.                                      *)
LEMMA ResetBefore ==
  ASSUME CycleTypeOK, TaskControl, NEW t \in Tasks, task[t] # "absent",
         NEW i \in DOMAIN Program(t), Program(t)[i].op = "publish",
         Program(t)[i].vec \in Rebuilt
  PROVE  \E k \in DOMAIN Program(t) :
           k < i /\ Program(t)[k] = ResetStep(Program(t)[i].vec)
<1> DEFINE v == Program(t)[i].vec
<1>1. t[2] \in DOMAIN enabled /\ GoodProgram(Program(t), Group(t))
  BY GroupFacts
<1>2. PICK n \in DOMAIN enabled : v \in VecOf(enabled[n], "reset")
  BY DEF Rebuilt
<1>3. PICK k \in DOMAIN Collectors[enabled[n]] :
        Collectors[enabled[n]][k].op = "reset" /\ Collectors[enabled[n]][k].vec = v
  BY <1>2 DEF VecOf
<1>4. GoodProgram(Collectors[enabled[n]], enabled[n])
  <2> DEFINE D == DOMAIN Collectors
  <2>1. enabled \in Seq(D)
    BY GroupAssumption DEF CycleTypeOK
  <2> HIDE DEF D
  <2>2. enabled[n] \in D
    BY <1>2, <2>1
  <2> QED
    BY <2>2, ProgramsGood DEF D
<1>5. HomeOf[v] = enabled[n]
  BY <1>3, <1>4 DEF GoodProgram, StepOK
<1>6. HomeOf[v] = enabled[t[2]]
  <2>1. HomeOf[v] = Group(t)
    BY Writes
  <2> QED
    BY <2>1 DEF Group
<1>7. enabled[n] = Group(t)
  BY <1>5, <1>6 DEF Group
<1>8. k \in DOMAIN Program(t) /\ Program(t)[k].op = "reset" /\ Program(t)[k].vec = v
  BY <1>3, <1>7 DEF Program
<1>9. Program(t)[k] = ResetStep(v) /\ k < i
  <2>1. StepOK(Program(t), Group(t), k)
    BY <1>1, <1>8 DEF GoodProgram
  <2> QED
    BY <1>8, <2>1 DEF StepOK
<1> QED
  BY <1>8, <1>9

(* Two collectors that write one vector are of one group, so that a        *)
(* collector that runs alone is the only writer of its vectors.            *)
LEMMA OnlyWriter ==
  ASSUME CycleTypeOK, TaskControl, ProgressControl,
         NEW t \in Tasks, NEW u \in Tasks, alone[t], Running(u),
         NEW i \in DOMAIN Program(t), NEW k \in DOMAIN Program(u),
         Program(t)[i].op \in {"reset", "publish"},
         Program(u)[k].op \in {"reset", "publish"},
         Program(t)[i].vec = Program(u)[k].vec
  PROVE  t = u
<1>1. Running(t) /\ Beside(t) = {}
  BY DEF ProgressControl
<1>2. task[t] # "absent" /\ task[u] # "absent"
  BY <1>1 DEF Running, FnStates
<1>3. Group(t) = Group(u)
  BY <1>2, Writes
<1>4. t[2] = u[2]
  BY <1>2, <1>3, GroupFacts, OneGroup DEF Group
<1> QED
  BY <1>1, <1>4 DEF Beside

LEMMA StepFacts ==
  ASSUME TypeOK, TaskControl, NEW t \in Tasks, Running(t)
  PROVE  /\ task[t] # "absent"
         /\ at[t] \in DOMAIN Program(t)
         /\ GoodProgram(Program(t), Group(t))
<1>1. task[t] # "absent"
  BY DEF Running, FnStates
<1> QED
  BY <1>1, GroupFacts DEF TypeOK


(* A step that leaves every collector where it is: one of the runners, of  *)
(* a task that never enters t.fn, or of the server.                        *)
LEMMA QuietInv ==
  ASSUME SeriesInv, CycleTypeOK', TaskControl', enabled' = enabled, objects' \subseteq Objects,
         UNCHANGED <<published, at, found, answer, ctx, late, alone, expect>>,
         \A t \in Tasks : \/ task'[t] = task[t]
                          \/ task[t] \notin FnStates /\ task'[t] \notin FnStates
  PROVE  SeriesInv'
<1>1. /\ Labelled' = Labelled /\ Rebuilt' = Rebuilt
      /\ \A t : Program(t)' = Program(t)
  BY SameVectors
<1>2. \A t \in Tasks : /\ Running(t)' <=> Running(t)
                       /\ task'[t] = "ready" <=> task[t] = "ready"
                       /\ task'[t] = "search" <=> task[t] = "search"
  BY DEF Running, FnStates
<1>3. TypeOK'
  BY <1>1, <1>2 DEF SeriesInv, TypeOK
<1>4. ProgressControl'
  BY <1>1, <1>2 DEF SeriesInv, ProgressControl, AtStep, Beside
<1>5. SeriesControl'
  <2>1. ASSUME NEW v \in Labelled', expect'[v] # None
        PROVE  /\ v \in Rebuilt'
               /\ (\E t \in Tasks : Publishing(t, v)') \/ published'[v] = expect'[v]
               /\ \A t \in Tasks : alone'[t] =>
                    /\ Publishing(t, v)' => published'[v] \cup found'[t] = answer'[t]
                    /\ Between(t, v)' => expect'[v] = {}
    <3>1. \A t \in Tasks : Publishing(t, v)' <=> Publishing(t, v)
      BY <1>1, <1>2 DEF Publishing, AtStep, Vec
    <3>2. \A t \in Tasks : Between(t, v)' <=> Between(t, v)
      BY <1>1 DEF Between
    <3> QED
      BY <1>1, <2>1, <3>1, <3>2 DEF SeriesInv, SeriesControl
  <2> QED
    BY <2>1 DEF SeriesControl
<1> QED
  BY <1>3, <1>4, <1>5 DEF SeriesInv

(* The other tasks while one goes on to its next step or leaves.           *)
Others(t) ==
  /\ enabled' = enabled
  /\ \A u \in Tasks : u # t =>
       /\ task'[u] = task[u] /\ at'[u] = at[u] /\ found'[u] = found[u]
       /\ answer'[u] = answer[u] /\ (alone'[u] <=> alone[u])
Moves(t) ==
  \/ /\ task'[t] = "ready" /\ at'[t] = at[t] + 1 /\ at[t] + 1 \in DOMAIN Program(t)
     /\ alone'[t] <=> alone[t]
  \/ /\ task'[t] = "done" /\ at'[t] = 0
     /\ ~alone'[t]

LEMMA AdvanceMoves ==
  ASSUME TypeOK, TaskControl, NEW t \in Tasks, Running(t),
         Advance(t) \/ (TaskTo(t, "done") /\ Leave(t))
  PROVE  /\ Moves(t)
         /\ enabled' = enabled /\ at' \in [Tasks -> Nat] /\ alone' \in [Tasks -> BOOLEAN]
         /\ \A u \in Tasks : u # t =>
              task'[u] = task[u] /\ at'[u] = at[u] /\ (alone'[u] <=> alone[u])
<1>1. /\ at[t] \in DOMAIN Program(t) /\ DOMAIN Program(t) = 1 .. Len(Program(t))
      /\ Len(Program(t)) \in Nat
  BY StepFacts DEF GoodProgram
<1>2. /\ at \in [Tasks -> Nat] /\ alone \in [Tasks -> BOOLEAN]
      /\ task \in [Tasks -> {"absent", "queued", "done"} \cup FnStates]
  BY DEF TypeOK, CycleTypeOK
<1>3. CASE /\ at[t] # Len(Program(t))
           /\ TaskTo(t, "ready") /\ at' = [at EXCEPT ![t] = @ + 1] /\ UNCHANGED alone
  <2>1. at[t] + 1 \in DOMAIN Program(t) /\ at[t] + 1 \in Nat
    BY <1>1, <1>3
  <2> QED
    BY <1>2, <1>3, <2>1 DEF TaskTo, Moves
<1>4. CASE TaskTo(t, "done") /\ Leave(t)
  BY <1>2, <1>4 DEF TaskTo, Leave, Moves
<1> QED
  BY <1>3, <1>4 DEF Advance

LEMMA MovesProgress ==
  ASSUME SeriesInv, NEW t \in Tasks, Running(t), Others(t), Moves(t),
         found'[t] = answer'[t]
  PROVE  ProgressControl'
<1>1. \A u : Program(u)' = Program(u)
  BY SameVectors DEF Others
<1>2. \A u \in Tasks : Running(u)' => Running(u)
  BY DEF Others, Running
<1>3. \A u \in Tasks : Beside(u)' \subseteq Beside(u)
  BY <1>2 DEF Beside
<1>4. ASSUME NEW u \in Tasks
      PROVE  /\ task'[u] = "search" => Program(u)'[at'[u]].op = "search"
             /\ alone'[u] => Running(u)' /\ Beside(u)' = {}
             /\ (task'[u] = "ready" /\ Program(u)'[at'[u]].op = "publish")
                  \/ found'[u] = answer'[u]
  <2>1. CASE u = t
    <3>1. task'[t] # "search" /\ (alone'[t] => task'[t] = "ready" /\ alone[t])
      BY DEF Moves
    <3>2. alone'[t] => Running(t)' /\ Beside(t)' = {}
      BY <1>3, <3>1 DEF SeriesInv, ProgressControl, Running, FnStates
    <3> QED
      BY <2>1, <3>1, <3>2
  <2>2. CASE u # t
    <3>1. /\ task'[u] = task[u] /\ at'[u] = at[u] /\ found'[u] = found[u]
          /\ answer'[u] = answer[u] /\ (alone'[u] <=> alone[u])
      BY <2>2 DEF Others
    <3> QED
      BY <1>1, <1>3, <3>1 DEF SeriesInv, ProgressControl, Running, AtStep
  <2> QED
    BY <2>1, <2>2
<1> QED
  BY <1>4 DEF ProgressControl, AtStep

(* A collector that runs alone enters the loop over the entries after it   *)
(* reset the vector and before it published anything.                      *)
LEMMA MovesVec ==
  ASSUME SeriesInv, NEW t \in Tasks, Running(t), Others(t), Moves(t),
         found'[t] = answer'[t],
         NEW v \in Labelled, expect'[v] = expect[v], published'[v] = published[v],
         ~Publishing(t, v),
         task'[t] = "ready" => /\ Program(t)[at[t]] # ResetStep(v)
                               /\ Program(t)[at[t]] # Publish(v)
  PROVE  VecOK(v)'
<1>0. SUFFICES ASSUME expect[v] # None
      PROVE  /\ v \in Rebuilt'
             /\ (\E u \in Tasks : Publishing(u, v)') \/ published[v] = expect[v]
             /\ \A u \in Tasks : alone'[u] =>
                  /\ Publishing(u, v)' => published[v] \cup found'[u] = answer'[u]
                  /\ Between(u, v)' => expect[v] = {}
  BY DEF VecOK
<1>1. /\ Rebuilt' = Rebuilt /\ \A u : Program(u)' = Program(u)
  BY SameVectors DEF Others
<1>2. /\ v \in Rebuilt
      /\ (\E u \in Tasks : Publishing(u, v)) \/ published[v] = expect[v]
      /\ \A u \in Tasks : alone[u] =>
           /\ Publishing(u, v) => published[v] \cup found[u] = answer[u]
           /\ Between(u, v) => expect[v] = {}
  BY <1>0 DEF SeriesInv, SeriesControl
<1>3. \A u \in Tasks : u # t => /\ Publishing(u, v)' <=> Publishing(u, v)
                                /\ Between(u, v)' <=> Between(u, v)
  BY <1>1 DEF Others, Publishing, AtStep, Vec, Between
<1>4. (\E u \in Tasks : Publishing(u, v)') \/ published[v] = expect[v]
  BY <1>2, <1>3
<1>5. ASSUME NEW u \in Tasks, u # t, alone'[u]
      PROVE  /\ Publishing(u, v)' => published[v] \cup found'[u] = answer'[u]
             /\ Between(u, v)' => expect[v] = {}
  BY <1>2, <1>3, <1>5 DEF Others
<1>6. ASSUME alone'[t]
      PROVE  /\ Publishing(t, v)' => published[v] \cup found'[t] = answer'[t]
             /\ Between(t, v)' => expect[v] = {}
  <2> DEFINE p == Program(t)
  <2>1. /\ task'[t] = "ready" /\ at'[t] = at[t] + 1 /\ at[t] + 1 \in DOMAIN p /\ alone[t]
        /\ p[at[t]] # ResetStep(v) /\ p[at[t]] # Publish(v)
    BY <1>6 DEF Moves
  <2>2. at[t] \in DOMAIN p /\ DOMAIN p = 1 .. Len(p) /\ Len(p) \in Nat
    BY StepFacts DEF SeriesInv, GoodProgram
  <2>3. ASSUME Between(t, v)' PROVE Between(t, v)
    <3>1. PICK i \in DOMAIN p, j \in DOMAIN p :
            i < at[t] + 1 /\ p[i] = ResetStep(v) /\ j >= at[t] + 1 /\ p[j] = Publish(v)
      BY <1>1, <2>1, <2>3 DEF Between
    <3>2. i # at[t]
      BY <2>1, <3>1
    <3>3. i < at[t] /\ j >= at[t]
      BY <2>2, <3>1, <3>2
    <3> QED
      BY <3>1, <3>3 DEF Between
  <2>4. ASSUME Publishing(t, v)'
        PROVE  published[v] \cup found'[t] = answer'[t]
    <3>1. p[at[t] + 1].op = "publish" /\ p[at[t] + 1].vec = v
      BY <1>1, <2>1, <2>4 DEF Publishing, AtStep, Vec
    <3>2. task[t] # "absent"
      BY StepFacts DEF SeriesInv
    <3>3. PICK k \in DOMAIN p : k < at[t] + 1 /\ p[k] = ResetStep(v)
      BY <1>2, <2>1, <3>1, <3>2, ResetBefore DEF SeriesInv, TypeOK
    <3>4. p[at[t] + 1] = Publish(v)
      <4>1. StepOK(p, Group(t), at[t] + 1)
        BY <2>1, StepFacts DEF SeriesInv, GoodProgram
      <4> QED
        BY <3>1, <4>1 DEF StepOK
    <3>5. k < at[t]
      <4>1. k # at[t]
        BY <2>1, <3>3
      <4> QED
        BY <2>2, <3>3, <4>1
    <3>6. Between(t, v)
      <4>1. at[t] + 1 >= at[t]
        BY <2>2
      <4> QED
        BY <2>1, <3>3, <3>4, <3>5, <4>1 DEF Between
    <3>7. expect[v] = {}
      BY <1>2, <2>1, <3>6
    <3>8. \A u \in Tasks : ~Publishing(u, v)
      <4>1. ASSUME NEW u \in Tasks, Publishing(u, v) PROVE FALSE
        <5>1. /\ Running(u) /\ at[u] \in DOMAIN Program(u)
              /\ Program(u)[at[u]].op = "publish" /\ Program(u)[at[u]].vec = v
          BY <4>1, StepFacts DEF SeriesInv, Publishing, AtStep, Vec, Running, FnStates
        <5>2. t = u
          BY <2>1, <3>1, <5>1, OnlyWriter DEF SeriesInv, TypeOK
        <5> QED
          BY <4>1, <5>2
      <4> QED
        BY <4>1
    <3> QED
      BY <1>2, <3>7, <3>8
  <2> QED
    BY <1>2, <2>1, <2>3, <2>4
<1> QED
  BY <1>1, <1>2, <1>4, <1>5, <1>6


LEMMA MovesType ==
  ASSUME SeriesInv, NEW t \in Tasks, Running(t), Others(t), Moves(t)
  PROVE  \A u \in Tasks : at'[u] \in IF Running(u)' THEN DOMAIN Program(u)' ELSE {0}
<1>1. \A u : Program(u)' = Program(u)
  BY SameVectors DEF Others
<1>2. ASSUME NEW u \in Tasks, u # t
      PROVE  at'[u] \in IF Running(u)' THEN DOMAIN Program(u)' ELSE {0}
  BY <1>1, <1>2 DEF SeriesInv, TypeOK, Others, Running
<1>3. at'[t] \in IF Running(t)' THEN DOMAIN Program(t)' ELSE {0}
  BY <1>1 DEF Moves, Running, FnStates
<1> QED
  BY <1>2, <1>3

LEMMA SeriesByVec ==
  ASSUME \A v \in Labelled : VecOK(v)', enabled' = enabled
  PROVE  SeriesControl'
<1>1. Labelled' = Labelled
  BY SameVectors
<1> QED
  BY <1>1 DEF SeriesControl, VecOK

LEMMA ResetInv ==
  ASSUME SeriesInv, NEW t \in Tasks, Reset(t), CycleTypeOK', TaskControl'
  PROVE  SeriesInv'
<1> DEFINE p == Program(t)
           w == Vec(t)
<1>1. /\ Running(t) /\ task[t] = "ready" /\ p[at[t]].op = "reset" /\ w = p[at[t]].vec
  BY DEF Reset, AtStep, Vec, Running, FnStates
<1>2. /\ task[t] # "absent" /\ at[t] \in DOMAIN p /\ GoodProgram(p, Group(t))
  BY <1>1, StepFacts DEF SeriesInv
<1>3. w \in Labelled /\ w \in Rebuilt
  BY <1>1, <1>2, Writes DEF SeriesInv, TypeOK
<1>4. p[at[t]] = ResetStep(w)
  <2>1. StepOK(p, Group(t), at[t])
    BY <1>2 DEF GoodProgram
  <2> QED
    BY <1>1, <2>1 DEF StepOK
<1>5. /\ Moves(t) /\ enabled' = enabled
      /\ at' \in [Tasks -> Nat] /\ alone' \in [Tasks -> BOOLEAN]
      /\ \A u \in Tasks : u # t =>
           task'[u] = task[u] /\ at'[u] = at[u] /\ (alone'[u] <=> alone[u])
  BY <1>1, AdvanceMoves DEF SeriesInv, Reset
<1>6. Others(t)
  BY <1>5 DEF Others, Reset
<1>7. /\ \A v \in Labelled : /\ published'[v] = (IF v = w THEN {} ELSE published[v])
                             /\ v # w => expect'[v] = expect[v]
      /\ expect'[w] # None => alone[t] /\ expect'[w] = {}
      /\ published' \in [Labelled -> SUBSET Objects]
      /\ expect' \in [Labelled -> (SUBSET Objects) \cup {None}]
  <2>1. /\ published \in [Labelled -> SUBSET Objects]
        /\ expect \in [Labelled -> (SUBSET Objects) \cup {None}]
    BY DEF SeriesInv, TypeOK
  <2>2. /\ published' = [published EXCEPT ![w] = {}]
        /\ expect' = [expect EXCEPT ![w] = IF alone[t] THEN {} ELSE None]
    BY DEF Reset, AfterReset
  <2> HIDE DEF w
  <2> QED
    BY <1>3, <2>1, <2>2
<1>8. found'[t] = found[t] /\ answer'[t] = answer[t] /\ found[t] = answer[t]
  <2>1. ~AtStep(t, "publish")
    BY <1>1 DEF AtStep
  <2> QED
    BY <2>1 DEF Reset, SeriesInv, ProgressControl
<1>9. TypeOK'
  <2>1. \A u \in Tasks : at'[u] \in IF Running(u)' THEN DOMAIN Program(u)' ELSE {0}
    BY <1>1, <1>5, <1>6, MovesType
  <2>2. Labelled' = Labelled
    BY <1>5, SameVectors
  <2> QED
    BY <1>5, <1>7, <2>1, <2>2 DEF Reset, SeriesInv, TypeOK
<1>10. ProgressControl'
  BY <1>1, <1>5, <1>6, <1>8, MovesProgress
<1>11. SeriesControl'
  <2>1. ASSUME NEW v \in Labelled, v # w PROVE VecOK(v)'
    <3>1. ~Publishing(t, v)
      BY <1>1 DEF Publishing, AtStep
    <3>2. p[at[t]] # ResetStep(v) /\ p[at[t]] # Publish(v)
      BY <1>4, <2>1 DEF ResetStep, Publish
    <3> QED
      BY <1>1, <1>5, <1>6, <1>7, <1>8, <2>1, <3>1, <3>2, MovesVec
  <2>2. ASSUME NEW v \in Labelled, v = w PROVE VecOK(v)'
    <3>1. SUFFICES ASSUME expect'[v] # None PROVE VecOK(v)'
      BY DEF VecOK
    <3>2. alone[t] /\ expect'[v] = {} /\ published'[v] = {}
      BY <1>3, <1>7, <2>2, <3>1
    <3>3. v \in Rebuilt'
      BY <1>3, <1>5, <2>2, SameVectors
    <3>4. ASSUME NEW u \in Tasks, alone'[u], Publishing(u, v)'
          PROVE  u = t
      <4>1. SUFFICES ASSUME u # t PROVE FALSE
        OBVIOUS
      <4>2. Publishing(u, v)
        BY <1>5, <3>4, <4>1, SameVectors DEF Publishing, AtStep, Vec
      <4>3. /\ Running(u) /\ at[u] \in DOMAIN Program(u)
            /\ Program(u)[at[u]].op = "publish" /\ Program(u)[at[u]].vec = v
        BY <4>2, StepFacts DEF SeriesInv, Publishing, AtStep, Vec, Running, FnStates
      <4>4. t = u
        BY <1>1, <1>2, <2>2, <3>2, <4>3, OnlyWriter DEF SeriesInv, TypeOK
      <4> QED
        BY <4>1, <4>4
    <3> QED
      BY <1>8, <3>2, <3>3, <3>4 DEF VecOK
  <2> QED
    BY <1>5, <2>1, <2>2, SeriesByVec
<1> QED
  BY <1>9, <1>10, <1>11 DEF SeriesInv

(* A search that ends, with or without an answer.                          *)
LEMMA SearchedInv ==
  ASSUME SeriesInv, NEW t \in Tasks, CycleTypeOK', TaskControl', Running(t),
         Program(t)[at[t]].op = "search", NEW A \in SUBSET Objects,
         found' = [found EXCEPT ![t] = A], answer' = [answer EXCEPT ![t] = A],
         Forget(t), Advance(t) \/ (TaskTo(t, "done") /\ Leave(t)),
         UNCHANGED <<objects, published, expect>>
  PROVE  SeriesInv'
<1>1. /\ Moves(t) /\ enabled' = enabled
      /\ at' \in [Tasks -> Nat] /\ alone' \in [Tasks -> BOOLEAN]
      /\ \A u \in Tasks : u # t =>
           task'[u] = task[u] /\ at'[u] = at[u] /\ (alone'[u] <=> alone[u])
  BY AdvanceMoves DEF SeriesInv
<1>2. found \in [Tasks -> SUBSET Objects] /\ answer \in [Tasks -> SUBSET Objects]
  BY DEF SeriesInv, TypeOK
<1>3. Others(t) /\ found'[t] = answer'[t]
  BY <1>1, <1>2 DEF Others
<1>4. TypeOK'
  <2>1. \A u \in Tasks : at'[u] \in IF Running(u)' THEN DOMAIN Program(u)' ELSE {0}
    BY <1>1, <1>3, MovesType
  <2>2. Labelled' = Labelled
    BY <1>1, SameVectors
  <2>3. found' \in [Tasks -> SUBSET Objects] /\ answer' \in [Tasks -> SUBSET Objects]
    BY <1>2
  <2>4. ctx' \in [Tasks -> 0 .. MaxCycles] /\ late' \in [Tasks -> BOOLEAN]
    BY CycleAssumption DEF Forget, SeriesInv, TypeOK
  <2> QED
    BY <1>1, <2>1, <2>2, <2>3, <2>4 DEF SeriesInv, TypeOK
<1>5. ProgressControl'
  BY <1>1, <1>3, MovesProgress
<1>6. ASSUME NEW v \in Labelled PROVE VecOK(v)'
  <2>1. ~Publishing(t, v)
    BY DEF Publishing, AtStep
  <2>2. Program(t)[at[t]] # ResetStep(v) /\ Program(t)[at[t]] # Publish(v)
    BY DEF ResetStep, Publish
  <2> QED
    BY <1>1, <1>3, <2>1, <2>2, MovesVec
<1> QED
  BY <1>1, <1>4, <1>5, <1>6, SeriesByVec DEF SeriesInv

LEMMA SearchAnsweredInv ==
  ASSUME SeriesInv, NEW t \in Tasks, SearchAnswered(t), CycleTypeOK', TaskControl'
  PROVE  SeriesInv'
<1>1. Running(t) /\ Program(t)[at[t]].op = "search" /\ objects \in SUBSET Objects
  BY DEF SearchAnswered, SeriesInv, TypeOK, ProgressControl, Running, FnStates
<1> QED
  BY <1>1, SearchedInv DEF SearchAnswered

LEMMA SearchFailsInv ==
  ASSUME SeriesInv, NEW t \in Tasks, SearchFails(t), CycleTypeOK', TaskControl'
  PROVE  SeriesInv'
<1>1. Running(t) /\ Program(t)[at[t]].op = "search" /\ {} \in SUBSET Objects
  BY DEF SearchFails, AtStep, SeriesInv, ProgressControl, Running, FnStates
<1> QED
  BY <1>1, SearchedInv DEF SearchFails

LEMMA IssueSearchInv ==
  ASSUME SeriesInv, MutexControl, NEW t \in Tasks, IssueSearch(t), CycleTypeOK', TaskControl'
  PROVE  SeriesInv'
<1>1. /\ task[t] = "ready" /\ Program(t)[at[t]].op = "search" /\ enabled' = enabled
      /\ task' = [task EXCEPT ![t] = "search"]
  BY DEF IssueSearch, AtStep, TaskTo
<1>2. \A u \in Tasks : task'[u] = (IF u = t THEN "search" ELSE task[u])
  BY <1>1 DEF SeriesInv, TypeOK, CycleTypeOK
<1>3. /\ Labelled' = Labelled /\ Rebuilt' = Rebuilt
      /\ \A u : Program(u)' = Program(u)
  BY <1>1, SameVectors
<1>4. \A u \in Tasks : Running(u)' <=> Running(u)
  BY <1>1, <1>2 DEF Running, FnStates
<1>5. TypeOK'
  <2>1. ctx' \in [Tasks -> 0 .. MaxCycles]
    BY DEF IssueSearch, SeriesInv, TypeOK, CycleTypeOK
  <2>2. late' \in [Tasks -> BOOLEAN]
    <3>1. late \in [Tasks -> BOOLEAN]
      BY DEF SeriesInv, TypeOK
    <3>2. PICK b \in BOOLEAN : late' = [late EXCEPT ![t] = b]
      BY Zenon DEF IssueSearch
    <3> QED
      BY <3>1, <3>2
  <2> QED
    BY <1>3, <1>4, <2>1, <2>2 DEF IssueSearch, SeriesInv, TypeOK
<1>6. ProgressControl'
  <2>1. \A u \in Tasks : Beside(u)' = Beside(u)
    BY <1>4 DEF Beside
  <2>2. UNCHANGED <<at, found, answer, alone>>
    BY DEF IssueSearch
  <2>3. ASSUME NEW u \in Tasks
        PROVE  /\ task'[u] = "search" => Program(u)'[at'[u]].op = "search"
               /\ alone'[u] => Running(u)' /\ Beside(u)' = {}
               /\ (task'[u] = "ready" /\ Program(u)'[at'[u]].op = "publish")
                    \/ found'[u] = answer'[u]
    BY <1>1, <1>2, <1>3, <1>4, <2>1, <2>2 DEF SeriesInv, ProgressControl, AtStep
  <2> QED
    BY <2>3 DEF ProgressControl, AtStep
<1>7. ASSUME NEW v \in Labelled PROVE VecOK(v)'
  <2>1. \A u \in Tasks : Publishing(u, v)' <=> Publishing(u, v)
    BY <1>1, <1>2, <1>3 DEF IssueSearch, Publishing, AtStep, Vec
  <2>2. \A u \in Tasks : Between(u, v)' <=> Between(u, v)
    BY <1>3 DEF IssueSearch, Between
  <2> QED
    BY <1>3, <2>1, <2>2 DEF IssueSearch, SeriesInv, SeriesControl, VecOK
<1> QED
  BY <1>1, <1>5, <1>6, <1>7, SeriesByVec DEF SeriesInv


LEMMA PublishOneInv ==
  ASSUME SeriesInv, NEW t \in Tasks, PublishOne(t), CycleTypeOK', TaskControl'
  PROVE  SeriesInv'
<1> DEFINE w == Vec(t)
<1>1. /\ Running(t) /\ task[t] = "ready" /\ Program(t)[at[t]].op = "publish"
      /\ w = Program(t)[at[t]].vec
  BY DEF PublishOne, AtStep, Vec, Running, FnStates
<1>2. /\ at[t] \in DOMAIN Program(t) /\ w \in Labelled
  BY <1>1, StepFacts, Writes DEF SeriesInv, TypeOK
<1>3. PICK o \in found[t] : /\ published' = [published EXCEPT ![w] = @ \cup {o}]
                            /\ found' = [found EXCEPT ![t] = @ \ {o}]
  BY DEF PublishOne
<1>4. UNCHANGED <<enabled, task, objects, at, answer, ctx, late, alone, expect>>
  BY DEF PublishOne, cycleVars
<1>5. /\ Labelled' = Labelled /\ Rebuilt' = Rebuilt
      /\ \A u : Program(u)' = Program(u)
  BY <1>4, SameVectors
<1>6. /\ found[t] \subseteq Objects
      /\ \A u \in Tasks : found'[u] = (IF u = t THEN found[t] \ {o} ELSE found[u])
      /\ found' \in [Tasks -> SUBSET Objects]
  BY <1>3 DEF SeriesInv, TypeOK
<1>7. /\ \A v \in Labelled :
           published'[v] = (IF v = w THEN published[v] \cup {o} ELSE published[v])
      /\ published' \in [Labelled -> SUBSET Objects]
  <2>1. published \in [Labelled -> SUBSET Objects]
    BY DEF SeriesInv, TypeOK
  <2> HIDE DEF w
  <2> QED
    BY <1>2, <1>3, <1>6, <2>1
<1>8. TypeOK'
  BY <1>4, <1>5, <1>6, <1>7 DEF SeriesInv, TypeOK, Running
<1>9. ProgressControl'
  <2>1. \A u \in Tasks : Beside(u)' = Beside(u) /\ (Running(u)' <=> Running(u))
    BY <1>4 DEF Beside, Running
  <2>2. ASSUME NEW u \in Tasks
        PROVE  /\ task'[u] = "search" => Program(u)'[at'[u]].op = "search"
               /\ alone'[u] => Running(u)' /\ Beside(u)' = {}
               /\ (task'[u] = "ready" /\ Program(u)'[at'[u]].op = "publish")
                    \/ found'[u] = answer'[u]
    BY <1>1, <1>4, <1>5, <1>6, <2>1 DEF SeriesInv, ProgressControl, AtStep
  <2> QED
    BY <2>2 DEF ProgressControl, AtStep
<1>10. ASSUME NEW v \in Labelled PROVE VecOK(v)'
  <2>1. \A u \in Tasks : /\ Publishing(u, v)' <=> Publishing(u, v)
                         /\ Between(u, v)' <=> Between(u, v)
    BY <1>4, <1>5 DEF Publishing, AtStep, Vec, Between
  <2>2. SUFFICES ASSUME expect[v] # None PROVE VecOK(v)'
    BY <1>4 DEF VecOK
  <2>3. /\ v \in Rebuilt
        /\ (\E u \in Tasks : Publishing(u, v)) \/ published[v] = expect[v]
        /\ \A u \in Tasks : alone[u] =>
             /\ Publishing(u, v) => published[v] \cup found[u] = answer[u]
             /\ Between(u, v) => expect[v] = {}
    BY <2>2 DEF SeriesInv, SeriesControl
  <2>4. CASE v = w
    <3>1. Publishing(t, v)
      BY <1>1, <2>4 DEF Publishing, AtStep, Vec
    <3>2. ASSUME NEW u \in Tasks, alone[u], Publishing(u, v)
          PROVE  published'[v] \cup found'[u] = answer[u]
      <4>1. /\ Running(u) /\ at[u] \in DOMAIN Program(u)
            /\ Program(u)[at[u]].op = "publish" /\ Program(u)[at[u]].vec = v
        BY <3>2, StepFacts DEF SeriesInv, Publishing, AtStep, Vec, Running, FnStates
      <4>2. u = t
        BY <1>1, <1>2, <2>4, <3>2, <4>1, OnlyWriter DEF SeriesInv, TypeOK
      <4>3. published[v] \cup found[t] = answer[t]
        BY <2>3, <3>2, <4>2
      <4>4. published'[v] = published[v] \cup {o} /\ found'[t] = found[t] \ {o}
        BY <1>6, <1>7, <2>4
      <4> QED
        BY <1>3, <4>2, <4>3, <4>4
    <3> QED
      BY <1>4, <1>5, <2>1, <2>3, <3>1, <3>2 DEF VecOK
  <2>5. CASE v # w
    <3>1. published'[v] = published[v] /\ ~Publishing(t, v)
      BY <1>7, <2>5 DEF Publishing
    <3>2. \A u \in Tasks : Publishing(u, v) => found'[u] = found[u]
      BY <1>6, <3>1
    <3> QED
      BY <1>4, <1>5, <2>1, <2>3, <3>1, <3>2 DEF VecOK
  <2> QED
    BY <2>4, <2>5
<1> QED
  BY <1>4, <1>8, <1>9, <1>10, SeriesByVec DEF SeriesInv

LEMMA PublishEndsInv ==
  ASSUME SeriesInv, NEW t \in Tasks, PublishEnds(t), CycleTypeOK', TaskControl'
  PROVE  SeriesInv'
<1> DEFINE p == Program(t)
           w == Vec(t)
<1>1. /\ Running(t) /\ task[t] = "ready" /\ p[at[t]].op = "publish" /\ w = p[at[t]].vec
      /\ found[t] = {}
  BY DEF PublishEnds, AtStep, Vec, Running, FnStates
<1>2. /\ task[t] # "absent" /\ at[t] \in DOMAIN p /\ GoodProgram(p, Group(t))
      /\ DOMAIN p = 1 .. Len(p) /\ Len(p) \in Nat
  BY <1>1, StepFacts DEF SeriesInv, GoodProgram
<1>3. w \in Labelled
  <2>1. CycleTypeOK /\ TaskControl /\ "publish" \in {"reset", "publish"}
    BY DEF SeriesInv, TypeOK
  <2> QED
    BY <1>1, <1>2, <2>1, Writes, Zenon
<1>4. /\ p[at[t]] = Publish(w)
      /\ \A j \in DOMAIN p : p[j].op = "publish" /\ p[j].vec = w => at[t] = j
  <2>1. StepOK(p, Group(t), at[t])
    BY <1>2 DEF GoodProgram
  <2> QED
    BY <1>1, <2>1 DEF StepOK
<1>5. /\ Moves(t) /\ enabled' = enabled
      /\ at' \in [Tasks -> Nat] /\ alone' \in [Tasks -> BOOLEAN]
      /\ \A u \in Tasks : u # t =>
           task'[u] = task[u] /\ at'[u] = at[u] /\ (alone'[u] <=> alone[u])
  BY <1>1, AdvanceMoves DEF SeriesInv, PublishEnds
<1>6. /\ answer' \in [Tasks -> SUBSET Objects] /\ answer'[t] = {} /\ found' = found
      /\ \A u \in Tasks : u # t => answer'[u] = answer[u]
  BY DEF PublishEnds, SeriesInv, TypeOK
<1>7. Others(t) /\ found'[t] = answer'[t]
  BY <1>1, <1>5, <1>6 DEF Others
<1>8. /\ \A v \in Labelled : v # w => expect'[v] = expect[v]
      /\ expect'[w] # None => alone[t] /\ expect[w] # None /\ expect'[w] = answer[t]
      /\ expect' \in [Labelled -> (SUBSET Objects) \cup {None}]
  <2>1. expect \in [Labelled -> (SUBSET Objects) \cup {None}] /\ answer[t] \in SUBSET Objects
    BY DEF SeriesInv, TypeOK
  <2>2. expect' = [expect EXCEPT ![w] = IF alone[t] /\ @ # None THEN answer[t] ELSE None]
    BY DEF PublishEnds
  <2> HIDE DEF w
  <2> QED
    BY <1>3, <2>1, <2>2
<1>9. TypeOK'
  <2>1. \A u \in Tasks : at'[u] \in IF Running(u)' THEN DOMAIN Program(u)' ELSE {0}
    BY <1>1, <1>5, <1>7, MovesType
  <2>2. Labelled' = Labelled
    BY <1>5, SameVectors
  <2> QED
    BY <1>5, <1>6, <1>8, <2>1, <2>2 DEF PublishEnds, SeriesInv, TypeOK
<1>10. ProgressControl'
  BY <1>1, <1>5, <1>7, MovesProgress
<1>11. ASSUME NEW v \in Labelled, v # w PROVE VecOK(v)'
  <2>1. ~Publishing(t, v)
    BY <1>11 DEF Publishing
  <2>2. p[at[t]] # ResetStep(v) /\ p[at[t]] # Publish(v)
    BY <1>4, <1>11 DEF ResetStep, Publish
  <2>3. expect'[v] = expect[v] /\ published'[v] = published[v]
    BY <1>8, <1>11 DEF PublishEnds
  <2> QED
    BY <1>1, <1>5, <1>7, <2>1, <2>2, <2>3, MovesVec
<1>12. ASSUME NEW v \in Labelled, v = w PROVE VecOK(v)'
  <2>1. SUFFICES ASSUME expect'[v] # None PROVE VecOK(v)'
    BY DEF VecOK
  <2>2. alone[t] /\ expect[v] # None /\ expect'[v] = answer[t] /\ published' = published
    BY <1>8, <1>12, <2>1 DEF PublishEnds
  <2>3. Publishing(t, v)
    BY <1>1, <1>12 DEF Publishing, AtStep, Vec
  <2>4. v \in Rebuilt /\ published[v] = answer[t]
    <3>1. v \in Rebuilt /\ published[v] \cup found[t] = answer[t]
      BY <2>2, <2>3, Zenon DEF SeriesInv, SeriesControl
    <3> QED
      BY <1>1, <3>1
  <2>5. v \in Rebuilt'
    BY <1>5, <2>4, SameVectors
  <2>6. ASSUME NEW u \in Tasks, alone'[u], Publishing(u, v)' \/ Between(u, v)'
        PROVE  FALSE
    <3>1. CASE u = t
      <4>1. at'[t] = at[t] + 1
        BY <1>5, <2>6, <3>1 DEF Moves
      <4>2. PICK j \in DOMAIN p : j >= at[t] + 1 /\ p[j].op = "publish" /\ p[j].vec = v
        <5>1. Program(t)' = p
          BY <1>5, SameVectors
        <5>2. CASE Publishing(t, v)'
          <6>1. p[at[t] + 1].op = "publish" /\ p[at[t] + 1].vec = v
            BY <4>1, <5>1, <5>2 DEF Publishing, AtStep, Vec
          <6>2. at[t] + 1 \in DOMAIN p /\ at[t] + 1 >= at[t] + 1
            BY <1>2, <1>5, <2>6, <3>1 DEF Moves
          <6> QED
            BY <6>1, <6>2
        <5>3. CASE Between(t, v)'
          BY <4>1, <5>1, <5>3 DEF Between, Publish
        <5> QED
          BY <2>6, <3>1, <5>2, <5>3
      <4>3. at[t] = j
        BY <1>4, <1>12, <4>2
      <4> QED
        BY <1>2, <4>2, <4>3
    <3>2. CASE u # t
      <4>1. alone[u] /\ (Publishing(u, v) \/ Between(u, v))
        BY <1>5, <2>6, <3>2, SameVectors DEF Publishing, AtStep, Vec, Between
      <4>2. Running(u)
        BY <4>1 DEF SeriesInv, ProgressControl
      <4>3. PICK k \in DOMAIN Program(u) :
              Program(u)[k].op = "publish" /\ Program(u)[k].vec = v
        BY <4>1, <4>2, StepFacts DEF SeriesInv, Publishing, AtStep, Vec, Between, Publish
      <4>4. t = u
        BY <1>1, <1>2, <1>12, <2>2, <4>2, <4>3, OnlyWriter DEF SeriesInv, TypeOK
      <4> QED
        BY <3>2, <4>4
    <3> QED
      BY <3>1, <3>2
  <2> QED
    BY <2>2, <2>4, <2>5, <2>6 DEF VecOK
<1> QED
  BY <1>5, <1>9, <1>10, <1>11, <1>12, SeriesByVec DEF SeriesInv


LEMMA PanicsInv ==
  ASSUME SeriesInv, NEW t \in Tasks, Panics(t), CycleTypeOK', TaskControl'
  PROVE  SeriesInv'
<1> DEFINE V == VecOf(Group(t), "publish")
<1>1. /\ Running(t) /\ enabled' = enabled /\ task' = [task EXCEPT ![t] = "done"]
      /\ at' = [at EXCEPT ![t] = 0] /\ alone' = [alone EXCEPT ![t] = FALSE]
      /\ found' = [found EXCEPT ![t] = {}] /\ answer' = [answer EXCEPT ![t] = {}]
      /\ UNCHANGED <<objects, published>>
  BY DEF Panics, PanicTask, Leave
<1>2. /\ Moves(t) /\ Others(t) /\ found'[t] = answer'[t]
      /\ at' \in [Tasks -> Nat] /\ alone' \in [Tasks -> BOOLEAN]
      /\ found' \in [Tasks -> SUBSET Objects] /\ answer' \in [Tasks -> SUBSET Objects]
  BY <1>1 DEF SeriesInv, TypeOK, CycleTypeOK, Moves, Others
<1>3. task'[t] = "done"
  BY <1>1 DEF SeriesInv, TypeOK, CycleTypeOK
<1>4. /\ expect' \in [Labelled -> (SUBSET Objects) \cup {None}]
      /\ \A v \in Labelled : expect'[v] = IF v \in V THEN None ELSE expect[v]
  <2>1. expect \in [Labelled -> (SUBSET Objects) \cup {None}]
    BY DEF SeriesInv, TypeOK
  <2>2. expect' = [v \in Labelled |-> IF v \in V THEN None ELSE expect[v]]
    BY DEF Panics
  <2> HIDE DEF V
  <2> QED
    BY <2>1, <2>2
<1>5. TypeOK'
  <2>1. \A u \in Tasks : at'[u] \in IF Running(u)' THEN DOMAIN Program(u)' ELSE {0}
    BY <1>1, <1>2, MovesType
  <2>2. Labelled' = Labelled
    BY <1>1, SameVectors
  <2>3. ctx' \in [Tasks -> 0 .. MaxCycles] /\ late' \in [Tasks -> BOOLEAN]
    BY CycleAssumption DEF Panics, Forget, SeriesInv, TypeOK
  <2> QED
    BY <1>1, <1>2, <1>4, <2>1, <2>2, <2>3 DEF SeriesInv, TypeOK
<1>6. ProgressControl'
  BY <1>1, <1>2, MovesProgress
<1>7. ASSUME NEW v \in Labelled PROVE VecOK(v)'
  <2>1. CASE v \in V
    BY <1>4, <2>1 DEF VecOK
  <2>2. CASE v \notin V
    <3>1. expect'[v] = expect[v] /\ published'[v] = published[v]
      BY <1>1, <1>4, <2>2
    <3>2. ~Publishing(t, v)
      <4>1. SUFFICES ASSUME Publishing(t, v) PROVE FALSE
        OBVIOUS
      <4>2. Program(t)[at[t]].op = "publish" /\ Program(t)[at[t]].vec = v
        BY <4>1 DEF Publishing, AtStep, Vec
      <4>3. at[t] \in DOMAIN Program(t)
        BY <1>1, StepFacts DEF SeriesInv
      <4>4. v \in V
        BY <4>2, <4>3 DEF VecOf, Program
      <4> QED
        BY <2>2, <4>4
    <3>3. task'[t] # "ready"
      BY <1>3
    <3> QED
      BY <1>1, <1>2, <3>1, <3>2, <3>3, MovesVec
  <2> QED
    BY <2>1, <2>2
<1> QED
  BY <1>1, <1>5, <1>6, <1>7, SeriesByVec DEF SeriesInv

LEMMA StartTaskInv ==
  ASSUME SeriesInv, NEW t \in Tasks, StartTask(t), CycleTypeOK', TaskControl'
  PROVE  SeriesInv'
<1>1. /\ task[t] = "queued" /\ enabled' = enabled /\ task' = [task EXCEPT ![t] = "ready"]
      /\ at' = [at EXCEPT ![t] = 1]
      /\ UNCHANGED <<objects, published, found, answer, ctx, late, expect>>
  BY DEF StartTask, MayStart, TaskTo
<1>2. /\ \A u \in Tasks : u # t => task'[u] = task[u] /\ at'[u] = at[u]
      /\ task'[t] = "ready" /\ at'[t] = 1 /\ at' \in [Tasks -> Nat]
  BY <1>1 DEF SeriesInv, TypeOK, CycleTypeOK
<1>3. /\ \A u \in Tasks : u # t => (alone'[u] <=> alone[u] /\ u \notin Beside(t))
      /\ alone'[t] <=> Beside(t) = {}
      /\ alone' \in [Tasks -> BOOLEAN]
  <2>1. alone' = [s \in Tasks |-> IF s = t THEN Beside(t) = {}
                                  ELSE alone[s] /\ s \notin Beside(t)]
    BY DEF StartTask
  <2> QED
    BY <2>1, Zenon
<1>4. /\ Labelled' = Labelled /\ Rebuilt' = Rebuilt
      /\ \A u : Program(u)' = Program(u)
  BY <1>1, SameVectors
<1>5. ~Running(t) /\ Running(t)' /\ \A u \in Tasks : u # t => (Running(u)' <=> Running(u))
  BY <1>1, <1>2 DEF Running, FnStates
<1>6. 1 \in DOMAIN Program(t) /\ DOMAIN Program(t) = 1 .. Len(Program(t))
  BY <1>1, GroupFacts DEF SeriesInv, TypeOK, GoodProgram
<1>7. TypeOK'
  <2>1. \A u \in Tasks : at'[u] \in IF Running(u)' THEN DOMAIN Program(u)' ELSE {0}
    BY <1>2, <1>4, <1>5, <1>6 DEF SeriesInv, TypeOK
  <2> QED
    BY <1>1, <1>2, <1>3, <1>4, <2>1 DEF SeriesInv, TypeOK
<1>8. ProgressControl'
  <2>1. ASSUME NEW u \in Tasks, u # t, alone'[u] PROVE Running(u)' /\ Beside(u)' = {}
    <3>1. alone[u] /\ u \notin Beside(t)
      BY <1>3, <2>1
    <3>2. Running(u) /\ Beside(u) = {}
      BY <3>1 DEF SeriesInv, ProgressControl
    <3>3. u[2] # t[2]
      BY <2>1, <3>1, <3>2 DEF Beside
    <3> QED
      BY <1>5, <2>1, <3>2, <3>3 DEF Beside
  <2>2. ASSUME alone'[t] PROVE Running(t)' /\ Beside(t)' = {}
    BY <1>3, <1>5, <2>2 DEF Beside
  <2>3. found[t] = answer[t]
    BY <1>1 DEF SeriesInv, ProgressControl, AtStep
  <2>4. ASSUME NEW u \in Tasks
        PROVE  /\ task'[u] = "search" => Program(u)'[at'[u]].op = "search"
               /\ (task'[u] = "ready" /\ Program(u)'[at'[u]].op = "publish")
                    \/ found'[u] = answer'[u]
    BY <1>1, <1>2, <1>4, <2>3 DEF SeriesInv, ProgressControl, AtStep
  <2> QED
    BY <2>1, <2>2, <2>4 DEF ProgressControl, AtStep
<1>9. ASSUME NEW v \in Labelled PROVE VecOK(v)'
  <2>1. SUFFICES ASSUME expect[v] # None PROVE VecOK(v)'
    BY <1>1 DEF VecOK
  <2>2. /\ v \in Rebuilt
        /\ (\E u \in Tasks : Publishing(u, v)) \/ published[v] = expect[v]
        /\ \A u \in Tasks : alone[u] =>
             /\ Publishing(u, v) => published[v] \cup found[u] = answer[u]
             /\ Between(u, v) => expect[v] = {}
    BY <2>1 DEF SeriesInv, SeriesControl
  <2>3. \A u \in Tasks : u # t => /\ Publishing(u, v)' <=> Publishing(u, v)
                                  /\ Between(u, v)' <=> Between(u, v)
    BY <1>2, <1>4 DEF Publishing, AtStep, Vec, Between
  <2>4. ~Publishing(t, v)
    BY <1>1 DEF Publishing, AtStep
  <2>5. ~Publishing(t, v)'
    <3>1. SUFFICES ASSUME Program(t)[1].op = "publish", Program(t)[1].vec = v PROVE FALSE
      BY <1>2, <1>4 DEF Publishing, AtStep, Vec
    <3>2. PICK k \in DOMAIN Program(t) : k < 1
      BY <1>1, <1>6, <2>2, <3>1, ResetBefore DEF SeriesInv, TypeOK
    <3> QED
      BY <1>6, <3>2
  <2>6. ~Between(t, v)'
    BY <1>2, <1>4, <1>6 DEF Between
  <2> QED
    BY <1>1, <1>3, <1>4, <2>2, <2>3, <2>4, <2>5, <2>6 DEF VecOK
<1> QED
  BY <1>1, <1>7, <1>8, <1>9, SeriesByVec DEF SeriesInv

-----------------------------------------------------------------------------
LEMMA CollectionParts == CollectionInv <=> CycleInv /\ SeriesInv
BY DEF CollectionInv, CycleInv, SeriesInv, TypeOK

LEMMA CollectionInitially == Init => CollectionInv
<1> SUFFICES ASSUME Init PROVE CollectionInv
  OBVIOUS
<1>1. Cardinality(Waiting) = 0
  <2>1. Waiting = {}
    BY DEF Init, CycleInit, Waiting
  <2> QED
    BY <2>1, FS_EmptySet
<1>2. CycleTypeOK
  <2>1. /\ enabled \in TaskLists
        /\ pc \in [Runners -> {"idle", "lock", "stopped"} \cup CycleStates]
        /\ task \in [Tasks -> {"absent", "queued", "done"} \cup FnStates]
        /\ collecting \in BOOLEAN /\ collectMu \in Runners \cup {None}
        /\ closing \in {"open", "client", "closed"}
    BY Zenon DEF Init, CycleInit
  <2>2. /\ cyc \in [Runners -> 0 .. MaxCycles] /\ cycle \in 0 .. MaxCycles
        /\ base \in 0 .. MaxCycles /\ up \in {0, 1} /\ upBy \in 0 .. MaxCycles
        /\ expired \subseteq Cycles /\ errors \subseteq Cycles /\ shut \subseteq Cycles
    BY CycleAssumption DEF Init, CycleInit
  <2> QED
    BY <2>1, <2>2, Zenon DEF CycleTypeOK
<1>3. MutexControl
  BY <1>1, CycleAssumption, RunnersFacts DEF Init, CycleInit, MutexControl
<1>4. TaskControl /\ UpControl /\ SuccessMeansComplete
  BY DEF Init, CycleInit, TaskControl, UpControl, SuccessMeansComplete
<1>5. TypeOK
  BY <1>2, CycleAssumption DEF Init, CycleInit, TypeOK, Running, FnStates
<1>6. ProgressControl /\ SeriesControl
  BY DEF Init, CycleInit, ProgressControl, SeriesControl, AtStep
<1> QED
  BY <1>3, <1>4, <1>5, <1>6 DEF CollectionInv

(* What the runners do to the tasks: none, but for the spawning of absent  *)
(* ones.                                                                   *)
LEMMA CycleStepTasks ==
  ASSUME CycleInv, CycleStep
  PROVE  /\ enabled' = enabled
         /\ \A t \in Tasks : \/ task'[t] = task[t]
                             \/ task[t] = "absent" /\ task'[t] = "queued"
<1> DEFINE Goal == /\ enabled' = enabled
                   /\ \A t \in Tasks : \/ task'[t] = task[t]
                                       \/ task[t] = "absent" /\ task'[t] = "queued"
<1>1. ASSUME CollectOnce \/ LoopStops \/ (\E r \in Callers : CollectNow(r))
               \/ (\E c \in Cycles : Deadline(c)) \/ Close
      PROVE  Goal
  BY <1>1 DEF CollectOnce, LoopStops, CollectNow, Deadline, Close, CloseClient, CloseUp,
              CloseStep
<1>2. ASSUME NEW r \in Runners,
             RunCollection(r) \/ IssueProbe(r) \/ NotConnected(r) \/ AllDone(r) \/ TimedOut(r)
      PROVE  Goal
  BY <1>2 DEF RunCollection, IssueProbe, NotConnected, AllDone, TimedOut
<1>3. ASSUME NEW r \in Runners, Connected(r) PROVE Goal
  <2>1. enabled' = enabled
    BY <1>3 DEF Connected
  <2> QED
    BY <1>3, <2>1, ConnectedEffect
<1> HIDE DEF Goal
<1>4. Goal
  BY <1>1, <1>2, <1>3, Zenon DEF CycleStep, RunnerStep
<1> QED
  BY <1>4 DEF Goal

LEMMA CollectionStep ==
  CollectionInv /\ [Next]_vars => CollectionInv'
<1> SUFFICES ASSUME CollectionInv, [Next]_vars PROVE CollectionInv'
  OBVIOUS
<1>0. CycleInv /\ SeriesInv
  BY CollectionParts
<1>1. ASSUME CycleInv', SeriesInv' PROVE CollectionInv'
  BY <1>1 DEF CollectionInv, CycleInv, SeriesInv, TypeOK
<1>2. ASSUME NEW t \in Tasks, TaskStep(t) PROVE CollectionInv'
  <2>1. CycleInv'
    BY <1>0, <1>2, TaskStepInv
  <2>2. CycleTypeOK' /\ TaskControl' /\ MutexControl
    BY <1>0, <2>1 DEF CycleInv
  <2>3. ASSUME Canceled(t) PROVE SeriesInv'
    <3>1. /\ enabled' = enabled /\ UNCHANGED seriesVars /\ task[t] = "queued"
          /\ task' = [task EXCEPT ![t] = "done"]
      BY <2>3 DEF Canceled, CancelTask
    <3>2. \A u \in Tasks : \/ task'[u] = task[u]
                           \/ task[u] \notin FnStates /\ task'[u] \notin FnStates
      BY <1>0, <3>1 DEF CycleInv, CycleTypeOK, FnStates
    <3>3. objects' \subseteq Objects
      BY <1>0, <3>1 DEF seriesVars, SeriesInv, TypeOK
    <3> QED
      BY <1>0, <2>2, <3>1, <3>2, <3>3, QuietInv DEF seriesVars
  <2>4. SeriesInv'
    BY <1>0, <1>2, <2>2, <2>3, StartTaskInv, PanicsInv, ResetInv, IssueSearchInv,
       SearchAnsweredInv, SearchFailsInv, PublishOneInv, PublishEndsInv, Zenon
    DEF TaskStep
  <2> QED
    BY <1>1, <2>1, <2>4
<1>3. ASSUME CycleStep, UNCHANGED seriesVars PROVE CollectionInv'
  <2>1. CycleInv'
    BY <1>0, <1>3, CycleStepInv
  <2>2. CycleTypeOK' /\ TaskControl'
    BY <2>1 DEF CycleInv
  <2>3. /\ enabled' = enabled
        /\ \A t \in Tasks : \/ task'[t] = task[t]
                            \/ task[t] = "absent" /\ task'[t] = "queued"
    BY <1>0, <1>3, CycleStepTasks
  <2>4. \A t \in Tasks : \/ task'[t] = task[t]
                         \/ task[t] \notin FnStates /\ task'[t] \notin FnStates
    BY <2>3 DEF FnStates
  <2>5. objects' \subseteq Objects
    BY <1>0, <1>3 DEF seriesVars, SeriesInv, TypeOK
  <2>6. SeriesInv'
    BY <1>0, <1>3, <2>2, <2>3, <2>4, <2>5, QuietInv DEF seriesVars
  <2> QED
    BY <1>1, <2>1, <2>6
<1>4. ASSUME NEW o \in Objects, ServerChanges(o) PROVE CollectionInv'
  <2>1. UNCHANGED cycleVars
    BY <1>4, ServerChangesEffect
  <2>2. CycleInv'
    BY <1>0, <2>1, CycleStutter
  <2>3. CycleTypeOK' /\ TaskControl'
    BY <2>2 DEF CycleInv
  <2>4. objects' \subseteq Objects
    BY <1>0, <1>4 DEF ServerChanges, SeriesInv, TypeOK
  <2>5. enabled' = enabled /\ task' = task
    BY <2>1 DEF cycleVars
  <2>6. SeriesInv'
    BY <1>0, <1>4, <2>3, <2>4, <2>5, QuietInv DEF ServerChanges
  <2> QED
    BY <1>1, <2>2, <2>6
<1>5. ASSUME UNCHANGED vars PROVE CollectionInv'
  <2>1. UNCHANGED cycleVars /\ UNCHANGED seriesVars
    BY <1>5 DEF vars
  <2>2. CycleInv'
    BY <1>0, <2>1, CycleStutter
  <2>3. CycleTypeOK' /\ TaskControl'
    BY <2>2 DEF CycleInv
  <2>4. objects' \subseteq Objects
    BY <1>0, <2>1 DEF seriesVars, SeriesInv, TypeOK
  <2>5. enabled' = enabled /\ task' = task
    BY <2>1 DEF cycleVars
  <2>6. SeriesInv'
    BY <1>0, <2>1, <2>3, <2>4, <2>5, QuietInv DEF seriesVars
  <2> QED
    BY <1>1, <2>2, <2>6
<1> QED
  BY <1>2, <1>3, <1>4, <1>5, Zenon DEF Next


(* The conjuncts of CollectionInv hold of every behaviour: collectMu       *)
(* admits one cycle at a time and its context is the base context, tasks   *)
(* belong to a cycle whose probe was answered, Up is 1 only for a cycle    *)
(* without tasks left, and a collector that runs alone owns its vectors.   *)
THEOREM CollectionInvariant == Spec => []CollectionInv
<1>1. Init => CollectionInv
  BY CollectionInitially
<1>2. CollectionInv /\ [Next]_vars => CollectionInv'
  BY CollectionStep
<1> QED
  BY <1>1, <1>2, PTL DEF Spec

(* exporter.go:428: after Close, Up is 1 only because of a cycle that had  *)
(* begun before the client was closed; it may have been answered later.    *)
THEOREM UpStaysLate == Spec => []UpAfterCloseIsLate
<1>1. CollectionInv => UpAfterCloseIsLate
  BY DEF CollectionInv, UpControl, UpAfterCloseIsLate
<1> QED
  BY <1>1, CollectionInvariant, PTL

(* collectors_info.go:23: whenever no collector runs, each vector that an  *)
(* undisturbed collector rebuilt shows exactly the objects its search      *)
(* found.                                                                  *)
THEOREM SeriesStayMatched == Spec => []SeriesMatchAnswer
<1>1. CollectionInv => SeriesMatchAnswer
  <2> SUFFICES ASSUME CollectionInv, \A t \in Tasks : ~Running(t),
                      NEW v \in Rebuilt, expect[v] # None
               PROVE  published[v] = expect[v]
    BY DEF SeriesMatchAnswer
  <2>1. v \in Labelled
    <3>1. PICK n \in DOMAIN enabled : v \in VecOf(enabled[n], "reset")
      BY DEF Rebuilt
    <3>2. PICK k \in DOMAIN Collectors[enabled[n]] :
            Collectors[enabled[n]][k].op = "reset" /\ Collectors[enabled[n]][k].vec = v
      BY <3>1 DEF VecOf
    <3>3. GoodProgram(Collectors[enabled[n]], enabled[n])
      <4> DEFINE D == DOMAIN Collectors
      <4>1. enabled \in Seq(D)
        BY GroupAssumption DEF CollectionInv, TypeOK, CycleTypeOK
      <4> HIDE DEF D
      <4>2. enabled[n] \in D
        BY <3>1, <4>1
      <4> QED
        BY <4>2, ProgramsGood DEF D
    <3>4. PICK j \in DOMAIN Collectors[enabled[n]] :
            Collectors[enabled[n]][j].op = "publish" /\ Collectors[enabled[n]][j].vec = v
      <4>1. StepOK(Collectors[enabled[n]], enabled[n], k)
        BY <3>2, <3>3 DEF GoodProgram
      <4> QED
        BY <3>2, <4>1 DEF StepOK, Publish
    <3> QED
      BY <3>1, <3>4 DEF Labelled, VecOf
  <2>2. \A t \in Tasks : ~Publishing(t, v)
    BY DEF Publishing, AtStep, Running, FnStates
  <2> QED
    BY <2>1, <2>2 DEF CollectionInv, SeriesControl
<1> QED
  BY <1>1, CollectionInvariant, PTL

(* exporter.go:257: a search issued while its cycle runs carries the       *)
(* context of that cycle.                                                  *)
THEOREM ContextStaysCarried == Spec => []SearchCarriesContext
<1>1. Init => SearchCarriesContext
  BY DEF Init, CycleInit, SearchCarriesContext
<1>2. ASSUME CollectionInv, SearchCarriesContext, [Next]_vars PROVE SearchCarriesContext'
  <2>0. CycleInv /\ SeriesInv
    BY <1>2, CollectionParts
  <2>1. ASSUME UNCHANGED <<ctx, late>>,
               \A t \in Tasks : task'[t] = "search" => task[t] = "search"
        PROVE  SearchCarriesContext'
    BY <1>2, <2>1 DEF SearchCarriesContext
  <2>2. ASSUME CycleStep, UNCHANGED seriesVars PROVE SearchCarriesContext'
    <3>1. \A t \in Tasks : task'[t] = "search" => task[t] = "search"
      BY <2>0, <2>2, CycleStepTasks
    <3> QED
      BY <2>1, <2>2, <3>1 DEF seriesVars
  <2>3. ASSUME (\E o \in Objects : ServerChanges(o)) \/ UNCHANGED vars PROVE SearchCarriesContext'
    BY <2>1, <2>3 DEF ServerChanges, vars, cycleVars, seriesVars
  <2>4. ASSUME NEW t \in Tasks, TaskStep(t) PROVE SearchCarriesContext'
    <3>0. /\ task \in [Tasks -> {"absent", "queued", "done"} \cup FnStates]
          /\ ctx \in [Tasks -> 0 .. MaxCycles] /\ late \in [Tasks -> BOOLEAN]
      BY <2>0 DEF SeriesInv, TypeOK, CycleTypeOK
    <3>1. ASSUME StartTask(t) \/ Canceled(t) \/ Reset(t) \/ PublishOne(t) \/ PublishEnds(t)
          PROVE  SearchCarriesContext'
      <4>1. UNCHANGED <<ctx, late>>
        BY <3>1 DEF StartTask, Canceled, Reset, PublishOne, PublishEnds, seriesVars
      <4>2. task' = task \/ \E s \in {"ready", "done"} : task' = [task EXCEPT ![t] = s]
        BY <3>1 DEF StartTask, Canceled, CancelTask, Reset, PublishOne, PublishEnds,
                    Advance, TaskTo, cycleVars
      <4>3. \A u \in Tasks : task'[u] = "search" => task[u] = "search"
        BY <3>0, <4>2
      <4> QED
        BY <2>1, <4>1, <4>3
    <3>2. ASSUME Panics(t) \/ SearchAnswered(t) \/ SearchFails(t)
          PROVE  SearchCarriesContext'
      <4>1. Forget(t)
        BY <3>2 DEF Panics, SearchAnswered, SearchFails
      <4>2. PICK s \in {"ready", "done"} : task' = [task EXCEPT ![t] = s]
        BY <3>2 DEF Panics, PanicTask, SearchAnswered, SearchFails, Advance, TaskTo
      <4>3. \A u \in Tasks : task'[u] = "search" =>
              u # t /\ task[u] = "search" /\ ctx'[u] = ctx[u] /\ (late'[u] <=> late[u])
        BY <3>0, <4>1, <4>2 DEF Forget
      <4> QED
        BY <1>2, <4>3 DEF SearchCarriesContext
    <3>3. ASSUME IssueSearch(t) PROVE SearchCarriesContext'
      <4>1. \A u \in Tasks : u # t =>
              task'[u] = task[u] /\ ctx'[u] = ctx[u] /\ (late'[u] <=> late[u])
        BY <3>0, <3>3 DEF IssueSearch, TaskTo
      <4>2. ctx'[t] = base
        BY <3>0, <3>3 DEF IssueSearch
      <4>3. late'[t] <=> ~CycleRuns(t[1])
        BY <3>0, <3>3, Zenon DEF IssueSearch
      <4>4. ASSUME CycleRuns(t[1]) PROVE base = t[1]
        <5>1. PICK r \in Runners : pc[r] \in CycleStates /\ cyc[r] = t[1]
          BY <4>4 DEF CycleRuns, InCycle
        <5> QED
          BY <2>0, <5>1, RunnersFacts DEF CycleInv, MutexControl
      <4> QED
        BY <1>2, <4>1, <4>2, <4>3, <4>4 DEF SearchCarriesContext
    <3> QED
      BY <2>4, <3>1, <3>2, <3>3, Zenon DEF TaskStep
  <2> QED
    BY <1>2, <2>2, <2>3, <2>4, Zenon DEF Next
<1> QED
  BY <1>1, <1>2, CollectionInvariant, PTL DEF Spec
=============================================================================
