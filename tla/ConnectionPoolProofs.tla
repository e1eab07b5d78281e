------------------------ MODULE ConnectionPoolProofs ------------------------
(***************************************************************************)
(* Safety of the connection pool for every number of clients, every        *)
(* maxConnections and every interleaving of Get, Put, Discard, maintenance *)
(* and Close.                                                              *)
(***************************************************************************)
EXTENDS ConnectionPool, FiniteSetTheorems, SequenceTheorems, TLAPS

(* The agents of the pool are finitely many.                               *)
LEMMA AgentsFinite == IsFiniteSet(Agents)
<1>1. IsFiniteSet(Clients \cup {Maintainer})
  BY PoolAssumption, FS_AddElement
<1>2. IsFiniteSet((Clients \cup {Maintainer}) \cup {Closer})
  BY <1>1, FS_AddElement
<1>3. Agents = (Clients \cup {Maintainer}) \cup {Closer}
  BY DEF Agents
<1> QED
  BY <1>2, <1>3

(* What a receive from the channel takes and what it leaves.               *)
LEMMA ReceiveFacts ==
  ASSUME NEW s \in Seq(Conns), s # <<>>
  PROVE  /\ Head(s) \in Conns
         /\ 1 \in DOMAIN s
         /\ Head(s) = s[1]
         /\ Tail(s) \in Seq(Conns)
         /\ \A i \in DOMAIN Tail(s) :
              i \in Nat /\ i # 0 /\ i + 1 \in DOMAIN s /\ Tail(s)[i] = s[i + 1]
<1>1. /\ Len(s) \in Nat \ {0}
      /\ DOMAIN s = 1 .. Len(s)
  BY EmptySeq, LenProperties
<1>2. /\ Head(s) \in Conns
      /\ Tail(s) \in Seq(Conns)
      /\ Len(Tail(s)) = Len(s) - 1
      /\ \A i \in 1 .. Len(Tail(s)) : Tail(s)[i] = s[i + 1]
  BY HeadTailProperties
<1>3. DOMAIN Tail(s) = 1 .. Len(Tail(s))
  BY <1>2, LenProperties
<1>4. Head(s) = s[1]
  OBVIOUS
<1> QED
  BY <1>1, <1>2, <1>3, <1>4

(* What a send leaves in the channel.                                      *)
LEMMA SendFacts ==
  ASSUME NEW s \in Seq(Conns), NEW n \in Conns
  PROVE  /\ Append(s, n) \in Seq(Conns)
         /\ \A i \in DOMAIN Append(s, n) :
              \/ i \in DOMAIN s /\ Append(s, n)[i] = s[i]
              \/ i = Len(s) + 1 /\ Append(s, n)[i] = n
         /\ Len(s) + 1 \notin DOMAIN s
<1>1. /\ Append(s, n) \in Seq(Conns)
      /\ Len(Append(s, n)) = Len(s) + 1
      /\ \A i \in 1 .. Len(s) : Append(s, n)[i] = s[i]
      /\ Append(s, n)[Len(s) + 1] = n
  BY AppendProperties
<1>2. /\ Len(s) \in Nat
      /\ DOMAIN s = 1 .. Len(s)
      /\ DOMAIN Append(s, n) = 1 .. Len(Append(s, n))
  BY <1>1, LenProperties
<1> QED
  BY <1>1, <1>2

-----------------------------------------------------------------------------
(* The only agents are the clients, the maintenance goroutine and Close.   *)
LEMMA AgentFacts ==
  /\ \A c \in Clients : c \in Agents /\ c # Maintainer /\ c # Closer
  /\ Maintainer \in Agents
  /\ Closer \in Agents
BY PoolAssumption DEF Agents

(* Moving one goroutine keeps the program counters well typed.             *)
LEMMA GoToType ==
  ASSUME PoolTypeOK, NEW a \in Agents, NEW p \in Points, GoTo(a, p)
  PROVE  pc' \in [Agents -> Points]
BY DEF PoolTypeOK, GoTo

(* Every return address is a program point.                                *)
LEMMA ReturnIsPoint == ReturnPoints \subseteq Points
BY DEF ReturnPoints, Points, ClientPoints, MaintainerPoints, CloserPoints,
       GetPoints, PutPoints, ClosePoints, MetricPoints

(* Entering a nested call keeps them and the return addresses well typed.  *)
LEMMA CallType ==
  ASSUME PoolTypeOK, NEW a \in Agents, NEW p \in Points, NEW r \in ReturnPoints,
         GoTo(a, p), after' = [after EXCEPT ![a] = r]
  PROVE  pc' \in [Agents -> Points] /\ after' \in [Agents -> ReturnPoints]
BY DEF PoolTypeOK, GoTo

(* A return from a nested call keeps them and the return addresses well    *)
(* typed.                                                                  *)
LEMMA ReturnType ==
  ASSUME PoolTypeOK, NEW a \in Agents, ReturnFromCall(a)
  PROVE  pc' \in [Agents -> Points] /\ after' \in [Agents -> ReturnPoints]
<1>1. after[a] \in ReturnPoints
  BY DEF PoolTypeOK
<1>2. after[a] \in Points
  BY <1>1, ReturnIsPoint
<1>3. "idle" \in ReturnPoints
  BY DEF ReturnPoints
<1> QED
  BY <1>2, <1>3 DEF PoolTypeOK, ReturnFromCall, GoTo

(* So does updateMetrics, taken or skipped.                                *)
LEMMA UpdateMetricsType ==
  ASSUME PoolTypeOK, NEW a \in Agents, NEW r \in ReturnPoints, UpdateMetricsThen(a, r)
  PROVE  pc' \in [Agents -> Points] /\ after' \in [Agents -> ReturnPoints]
<1>1. "load" \in Points /\ r \in Points /\ "idle" \in ReturnPoints
  BY ReturnIsPoint DEF Points, ClientPoints, MetricPoints, ReturnPoints
<1>2. CASE Monitored
  BY <1>1, <1>2, CallType DEF UpdateMetricsThen
<1>3. CASE ~Monitored
  BY <1>1, <1>3, CallType DEF UpdateMetricsThen
<1> QED
  BY <1>2, <1>3

(* Every step keeps the pool's variables within their types.               *)
LEMMA PoolTypeStep ==
  ASSUME PoolTypeOK, ControlInv, ExclusiveOwnership, [PoolNext]_poolVars
  PROVE  PoolTypeOK'
<1> USE PoolAssumption, AgentFacts, ReturnIsPoint
<1> USE DEF GoTo, ReturnFromCall, StartClose, LetGo, PoolTypeOK
<1>p. /\ GetPoints \cup PutPoints \cup ClosePoints \cup MetricPoints \subseteq Points
      /\ {"idle", "holding", "discarded", "failed", "exited", "drain", "size",
          "reinsert", "inc", "join", "done", "try", "ctx", "reserve", "cas",
          "dial", "delay", "wait", "check", "send", "close", "dec", "load",
          "gauges"} \subseteq Points
  BY DEF Points, ClientPoints, MaintainerPoints, CloserPoints,
         GetPoints, PutPoints, ClosePoints, MetricPoints
<1>1. ASSUME NEW a \in Agents, CloseSocket(a) PROVE PoolTypeOK'
  BY <1>1, <1>p DEF CloseSocket
<1>2. ASSUME NEW a \in Agents, ReleaseBudget(a) PROVE PoolTypeOK'
  <2>1. pc' \in [Agents -> Points] /\ after' \in [Agents -> ReturnPoints]
    BY <1>2, ReturnType DEF ReleaseBudget
  <2>2. held' \in [Agents -> Conns \cup {NoConn}]
    BY <1>2 DEF ReleaseBudget
  <2> QED
    BY <1>2, <2>1, <2>2 DEF ReleaseBudget
<1>3. ASSUME NEW c \in Clients, LoadActive(c) PROVE PoolTypeOK'
  BY <1>3, <1>p DEF LoadActive
<1>4. ASSUME NEW c \in Clients, SetGauges(c) PROVE PoolTypeOK'
  <2>1. pc' \in [Agents -> Points] /\ after' \in [Agents -> ReturnPoints]
    BY <1>4, ReturnType DEF SetGauges
  <2>2. gauge' \in [active : Int, idle : Int, total : Int]
    BY <1>4 DEF SetGauges, IdleGauge, Floor0
  <2> QED
    BY <1>4, <2>1, <2>2 DEF SetGauges
<1>5. ASSUME NEW c \in Clients, Get(c) PROVE PoolTypeOK'
  BY <1>5, <1>p DEF Get
<1>6. ASSUME NEW c \in Clients, CheckContext(c) PROVE PoolTypeOK'
  BY <1>6, <1>p DEF CheckContext
<1>7. ASSUME NEW c \in Clients, LoadBudget(c) PROVE PoolTypeOK'
  <2>1. pc' \in [Agents -> Points]
    BY <1>7, <1>p DEF LoadBudget
  <2>2. seen' \in [Clients -> Int]
    BY <1>7 DEF LoadBudget
  <2> QED
    BY <1>7, <2>1, <2>2 DEF LoadBudget
<1>8. ASSUME NEW c \in Clients, ReserveBudget(c) PROVE PoolTypeOK'
  <2>1. pc' \in [Agents -> Points]
    BY <1>8, <1>p DEF ReserveBudget
  <2>2. activeConns' \in Int
    BY <1>8 DEF ReserveBudget
  <2> QED
    BY <1>8, <2>1, <2>2 DEF ReserveBudget
<1>9. ASSUME NEW a \in Agents, NEW next \in ReturnPoints, Receive(a, next)
      PROVE  /\ pool' \in Seq(Conns)
             /\ held' \in [Agents -> Conns \cup {NoConn}]
             /\ after' \in [Agents -> ReturnPoints]
             /\ pc' \in [Agents -> Points]
  <2>1. Head(pool) \in Conns /\ Tail(pool) \in Seq(Conns)
    BY <1>9, ReceiveFacts DEF Receive
  <2> QED
    BY <1>9, <2>1, <1>p DEF Receive
<1>r. {"idle", "ctx", "failed", "holding", "discarded", "drain", "reinsert"}
        \subseteq ReturnPoints
  BY DEF ReturnPoints
<1>10. ASSUME NEW c \in Clients, TryGetExistingConnection(c) PROVE PoolTypeOK'
  <2>1. CASE Receive(c, "ctx")
    BY <1>10, <1>9, <1>r, <2>1 DEF TryGetExistingConnection
  <2>2. CASE GoTo(c, "ctx") /\ UNCHANGED <<pool, held, after>>
    BY <1>10, <1>p, <2>2 DEF TryGetExistingConnection
  <2> QED
    BY <1>10, <2>1, <2>2 DEF TryGetExistingConnection
<1>11. ASSUME NEW c \in Clients, WaitForConnection(c) PROVE PoolTypeOK'
  <2>1. CASE Receive(c, "failed")
    BY <1>11, <1>9, <1>r, <2>1 DEF WaitForConnection
  <2>2. CASE GoTo(c, "failed") /\ UNCHANGED <<pool, held, after>>
    BY <1>11, <1>p, <2>2 DEF WaitForConnection
  <2> QED
    BY <1>11, <2>1, <2>2 DEF WaitForConnection
<1>12. ASSUME NEW c \in Clients, ValidateAndPrepareConnection(c) PROVE PoolTypeOK'
  <2>1. pc' \in [Agents -> Points] /\ after' \in [Agents -> ReturnPoints]
    <3>1. after[c] \in ReturnPoints
      OBVIOUS
    <3>2. CASE GoTo(c, "holding") /\ after' = [after EXCEPT ![c] = "idle"]
      BY <1>p, <1>r, <3>2, CallType
    <3>3. CASE StartClose(c, after[c])
      BY <1>p, <3>1, <3>3, CallType
    <3> QED
      BY <1>12, <3>2, <3>3 DEF ValidateAndPrepareConnection
  <2> QED
    BY <1>12, <2>1 DEF ValidateAndPrepareConnection
<1>13. ASSUME NEW c \in Clients, NEW n \in Conns, DialSucceeds(c, n)
       PROVE  PoolTypeOK'
  <2>1. pc' \in [Agents -> Points] /\ after' \in [Agents -> ReturnPoints]
    BY <1>13, <1>p, <1>r, UpdateMetricsType DEF DialSucceeds
  <2> QED
    BY <1>13, <2>1 DEF DialSucceeds
<1>14. ASSUME NEW c \in Clients, DialFails(c) PROVE PoolTypeOK'
  BY <1>14, <1>p DEF DialFails
<1>15. ASSUME NEW c \in Clients, RetryDelay(c) PROVE PoolTypeOK'
  <2>1. attempt' \in [Clients -> 0 .. MaxRetries - 1]
    <3>1. ~LastAttempt(c)
      BY <1>15 DEF RetryDelay, ControlInv
    <3>2. attempt[c] \in 0 .. MaxRetries - 1 /\ attempt[c] + 1 \in 0 .. MaxRetries - 1
      BY <3>1 DEF LastAttempt
    <3> QED
      BY <1>15, <3>2 DEF RetryDelay
  <2>2. pc' \in [Agents -> Points]
    BY <1>15, <1>p DEF RetryDelay
  <2> QED
    BY <1>15, <2>1, <2>2 DEF RetryDelay
<1>16. ASSUME NEW c \in Clients, Put(c) PROVE PoolTypeOK'
  <2>1. pc' \in [Agents -> Points]
    BY <1>16, <1>p DEF Put
  <2>2. held' \in [Agents -> Conns \cup {NoConn}]
    BY <1>16 DEF Put
  <2> QED
    BY <1>16, <2>1, <2>2 DEF Put
<1>17. ASSUME NEW c \in Clients, PutCheckClosed(c) PROVE PoolTypeOK'
  <2>1. CASE closed
    BY <1>17, <1>p, <1>r, <2>1, CallType DEF PutCheckClosed
  <2>2. CASE ~closed
    BY <1>17, <1>p, <2>2 DEF PutCheckClosed
  <2> QED
    BY <2>1, <2>2
<1>18. ASSUME NEW a \in Agents, NEW n \in Conns, NEW next \in ReturnPoints,
              SendOrClose(a, n, next)
       PROVE  /\ pool' \in Seq(Conns)
              /\ held' \in [Agents -> Conns \cup {NoConn}]
              /\ after' \in [Agents -> ReturnPoints]
              /\ pc' \in [Agents -> Points]
  <2>1. Append(pool, n) \in Seq(Conns)
    BY SendFacts
  <2>2. CASE Len(pool) < MaxConnections
    <3>1. pc' \in [Agents -> Points] /\ after' \in [Agents -> ReturnPoints]
      BY <1>18, <1>p, <2>2, CallType DEF SendOrClose
    <3> QED
      BY <1>18, <2>1, <2>2, <3>1 DEF SendOrClose
  <2>3. CASE ~(Len(pool) < MaxConnections)
    <3>1. pc' \in [Agents -> Points] /\ after' \in [Agents -> ReturnPoints]
      BY <1>18, <1>p, <2>3, CallType DEF SendOrClose
    <3> QED
      BY <1>18, <2>3, <3>1 DEF SendOrClose
  <2> QED
    BY <2>2, <2>3
<1>19. ASSUME NEW c \in Clients, PutSend(c) PROVE PoolTypeOK'
  <2>0. held[c] \in Conns
    BY <1>19 DEF PutSend, ExclusiveOwnership, OwnedOnce, Owns
  <2>1. CASE SendOrClose(c, held[c], "idle")
    BY <1>18, <1>19, <1>r, <2>0, <2>1 DEF PutSend
  <2>2. CASE StartClose(c, "idle") /\ UNCHANGED <<pool, held>>
    BY <1>19, <1>p, <1>r, <2>2, CallType DEF PutSend
  <2> QED
    BY <1>19, <2>1, <2>2 DEF PutSend
<1>20. ASSUME NEW c \in Clients, PutCount(c) PROVE PoolTypeOK'
  <2>1. pc' \in [Agents -> Points] /\ after' \in [Agents -> ReturnPoints]
    BY <1>20, <1>r, UpdateMetricsType DEF PutCount
  <2> QED
    BY <1>20, <2>1 DEF PutCount
<1>21. ASSUME NEW c \in Clients, Discard(c) PROVE PoolTypeOK'
  <2>1. CASE AlreadyDiscarded(held[c])
    <3>1. pc' \in [Agents -> Points]
      BY <1>21, <1>p, <2>1 DEF Discard
    <3> QED
      BY <1>21, <2>1, <3>1 DEF Discard
  <2>2. CASE ~AlreadyDiscarded(held[c])
    <3>1. pc' \in [Agents -> Points] /\ after' \in [Agents -> ReturnPoints]
      BY <1>21, <1>p, <1>r, <2>2, CallType DEF Discard
    <3>2. held[c] \in Conns
      BY <1>21, <2>2
      DEF Discard, ExclusiveOwnership, OwnedOnce, Owns, ControlInv, AlreadyDiscarded
    <3> QED
      BY <1>21, <2>2, <3>1, <3>2 DEF Discard
  <2> QED
    BY <2>1, <2>2
<1>22. ASSUME NEW c \in Clients, ContextDone(c) \/ NewRequest(c) PROVE PoolTypeOK'
  <2>1. CASE ContextDone(c)
    BY <2>1 DEF ContextDone
  <2>2. CASE NewRequest(c)
    BY <1>p, <2>2 DEF NewRequest
  <2> QED
    BY <1>22, <2>1, <2>2
<1>23. CASE MaintainConnections
  BY <1>23, <1>p DEF MaintainConnections
<1>24. CASE MaintainDrain
  <2>1. CASE Receive(Maintainer, "drain")
    BY <1>24, <1>9, <1>r, <2>1 DEF MaintainDrain
  <2>2. CASE GoTo(Maintainer, "reinsert") /\ UNCHANGED <<pool, held, after>>
    BY <1>24, <1>p, <2>2 DEF MaintainDrain
  <2> QED
    BY <1>24, <2>1, <2>2 DEF MaintainDrain
<1>25. CASE MaintainCheck
  <2>0. held[Maintainer] \in Conns
    BY <1>25 DEF MaintainCheck, ExclusiveOwnership, OwnedOnce, Owns
  <2>1. CASE /\ validConns' = Append(validConns, held[Maintainer])
             /\ held' = [held EXCEPT ![Maintainer] = NoConn]
             /\ ReturnFromCall(Maintainer)
    <3>1. pc' \in [Agents -> Points] /\ after' \in [Agents -> ReturnPoints]
      BY <2>1, ReturnType
    <3>2. Append(validConns, held[Maintainer]) \in Seq(Conns)
      BY <2>0, SendFacts
    <3> QED
      BY <1>25, <2>1, <3>1, <3>2 DEF MaintainCheck
  <2>2. CASE StartClose(Maintainer, "drain") /\ UNCHANGED <<held, validConns>>
    <3>1. pc' \in [Agents -> Points] /\ after' \in [Agents -> ReturnPoints]
      BY <1>p, <1>r, <2>2, CallType
    <3> QED
      BY <1>25, <2>2, <3>1 DEF MaintainCheck
  <2> QED
    BY <1>25, <2>1, <2>2 DEF MaintainCheck
<1>26. CASE MaintainReinsert
  <2>1. CASE validConns = <<>>
    <3>1. /\ GoTo(Maintainer, "idle")
          /\ UNCHANGED <<pool, held, after, validConns>>
      BY <1>26, <2>1 DEF MaintainReinsert
    <3>2. UNCHANGED <<activeConns, poolSize, closed, open, broken, attempt, seen,
                      ctxDone, gauge>>
      BY <1>26 DEF MaintainReinsert
    <3> QED
      BY <1>p, <3>1, <3>2
  <2>2. CASE validConns # <<>>
    <3>1. Head(validConns) \in Conns /\ Tail(validConns) \in Seq(Conns)
      BY <2>2, ReceiveFacts
    <3>2. SendOrClose(Maintainer, Head(validConns), "reinsert")
      BY <1>26, <2>2 DEF MaintainReinsert
    <3> QED
      BY <1>18, <1>26, <1>r, <2>2, <3>1, <3>2 DEF MaintainReinsert
  <2> QED
    BY <2>1, <2>2
<1>27. CASE MaintainCount
  <2>1. pc' \in [Agents -> Points] /\ after' \in [Agents -> ReturnPoints]
    BY <1>27, ReturnType DEF MaintainCount
  <2> QED
    BY <1>27, <2>1 DEF MaintainCount
<1>28. CASE Close \/ JoinMaintainer
  <2>1. CASE Close
    BY <1>p, <2>1 DEF Close
  <2>2. CASE JoinMaintainer
    BY <1>p, <2>2 DEF JoinMaintainer
  <2> QED
    BY <1>28, <2>1, <2>2
<1>29. CASE CloseDrain
  <2>1. CASE Receive(Closer, "drain")
    BY <1>29, <1>9, <1>r, <2>1 DEF CloseDrain
  <2>2. CASE GoTo(Closer, "done") /\ UNCHANGED <<pool, held, after>>
    BY <1>29, <1>p, <2>2 DEF CloseDrain
  <2> QED
    BY <1>29, <2>1, <2>2 DEF CloseDrain
<1>30. CASE CloseCount
  <2>1. pc' \in [Agents -> Points] /\ after' \in [Agents -> ReturnPoints]
    BY <1>30, <1>p, CallType DEF CloseCount
  <2> QED
    BY <1>30, <2>1 DEF CloseCount
<1>31. CASE UNCHANGED poolVars
  BY <1>31 DEF poolVars
<1> QED
  <2>1. ASSUME NEW c \in Clients, ClientStep(c) PROVE PoolTypeOK'
    BY <2>1, <1>1, <1>2, <1>3, <1>4, <1>6, <1>7, <1>8, <1>10, <1>11, <1>12,
       <1>13, <1>14, <1>15, <1>17, <1>19, <1>20, Zenon DEF ClientStep
  <2>2. ASSUME NEW c \in Clients, CallerStep(c) PROVE PoolTypeOK'
    BY <2>2, <1>5, <1>16, <1>21, <1>22, Zenon DEF CallerStep
  <2>3. CASE MaintainStep
    BY <2>3, <1>1, <1>2, <1>23, <1>24, <1>25, <1>26, <1>27, Zenon DEF MaintainStep
  <2>4. CASE CloseStep
    BY <2>4, <1>1, <1>2, <1>28, <1>29, <1>30, Zenon DEF CloseStep
  <2> QED
    BY <2>1, <2>2, <2>3, <2>4, <1>28, <1>31, Zenon DEF PoolNext

-----------------------------------------------------------------------------
(* The sets the budget counts are finite.                                  *)
LEMMA BudgetSetsFinite ==
  ASSUME PoolTypeOK
  PROVE  /\ IsFiniteSet(open)
         /\ IsFiniteSet(Owing)
         /\ Cardinality(open) \in Nat
         /\ Cardinality(Owing) \in Nat
<1>1. IsFiniteSet(open)
  BY PoolAssumption, FS_Subset DEF PoolTypeOK
<1>2. Owing \in SUBSET Agents
  BY DEF Owing
<1>3. IsFiniteSet(Owing)
  BY <1>2, AgentsFinite, FS_Subset
<1> QED
  BY <1>1, <1>3, FS_CardinalityType

(* Every step keeps the budget exact: a reservation, a socket that opens   *)
(* or closes and a decrement move one unit between activeConns, the open   *)
(* sockets and the slots owed.                                             *)
LEMMA BudgetStep ==
  ASSUME PoolInv, [PoolNext]_poolVars
  PROVE  BudgetExact' /\ activeConns' <= MaxConnections
<1> USE PoolAssumption, AgentFacts
<1> DEFINE Goal == BudgetExact' /\ activeConns' <= MaxConnections
<1>f. /\ IsFiniteSet(open)
      /\ IsFiniteSet(Owing)
      /\ Cardinality(open) \in Nat
      /\ Cardinality(Owing) \in Nat
  BY BudgetSetsFinite DEF PoolInv
<1>i. /\ activeConns = Cardinality(open) + Cardinality(Owing)
      /\ activeConns <= MaxConnections
      /\ activeConns \in Int
      /\ pc \in [Agents -> Points]
      /\ \A a \in Agents : after[a] \notin {"dial", "dec"}
  BY DEF PoolInv, BudgetExact, PoolTypeOK, ReturnPoints
<1>k. ASSUME Owing' = Owing, UNCHANGED <<open, activeConns>>
      PROVE  Goal
  BY <1>i, <1>k DEF BudgetExact
<1> USE DEF GoTo, ReturnFromCall, StartClose, LetGo, Receive, SendOrClose,
            UpdateMetricsThen
<1>1. ASSUME NEW a \in Agents, CloseSocket(a) PROVE Goal
  <2>1. held[a] \in open
    BY <1>1 DEF CloseSocket, PoolInv, ExclusiveOwnership, OwnedOnce, Owns
  <2>2. Owing' = Owing \cup {a} /\ a \notin Owing
    BY <1>1, <1>i DEF CloseSocket, Owing
  <2>3. Cardinality(Owing') = Cardinality(Owing) + 1
    BY <1>f, <2>2, FS_AddElement
  <2>4. Cardinality(open') = Cardinality(open) - 1
    BY <1>1, <1>f, <2>1, FS_RemoveElement DEF CloseSocket
  <2>5. activeConns' = activeConns
    BY <1>1 DEF CloseSocket
  <2> QED
    BY <1>f, <1>i, <2>3, <2>4, <2>5 DEF BudgetExact
<1>2. ASSUME NEW a \in Agents, ReleaseBudget(a) PROVE Goal
  <2>1. Owing' = Owing \ {a} /\ a \in Owing
    BY <1>2, <1>i DEF ReleaseBudget, Owing
  <2>2. Cardinality(Owing') = Cardinality(Owing) - 1
    BY <1>f, <2>1, FS_RemoveElement
  <2>3. activeConns' = activeConns - 1 /\ open' = open
    BY <1>2 DEF ReleaseBudget
  <2> QED
    BY <1>f, <1>i, <2>2, <2>3 DEF BudgetExact
<1>3. ASSUME NEW c \in Clients, ReserveBudget(c) PROVE Goal
  <2>1. CASE CompareAndSwap(c)
    <3>1. Owing' = Owing \cup {c} /\ c \notin Owing
      BY <1>3, <1>i, <2>1 DEF ReserveBudget, Owing
    <3>2. Cardinality(Owing') = Cardinality(Owing) + 1
      BY <1>f, <3>1, FS_AddElement
    <3>3. activeConns' = activeConns + 1 /\ open' = open
      BY <1>3, <2>1 DEF ReserveBudget, CompareAndSwap
    <3>4. activeConns < MaxConnections
      BY <1>3, <2>1 DEF ReserveBudget, CompareAndSwap, PoolInv, ControlInv
    <3> QED
      BY <1>f, <1>i, <3>2, <3>3, <3>4 DEF BudgetExact
  <2>2. CASE ~CompareAndSwap(c)
    BY <1>3, <1>i, <1>k, <2>2 DEF ReserveBudget, Owing
  <2> QED
    BY <2>1, <2>2
<1>4. ASSUME NEW c \in Clients, NEW n \in Conns, DialSucceeds(c, n) PROVE Goal
  <2>1. Owing' = Owing \ {c} /\ c \in Owing
    BY <1>4, <1>i DEF DialSucceeds, Owing
  <2>2. Cardinality(Owing') = Cardinality(Owing) - 1
    BY <1>f, <2>1, FS_RemoveElement
  <2>3. Cardinality(open') = Cardinality(open) + 1
    BY <1>4, <1>f, FS_AddElement DEF DialSucceeds, Fresh
  <2>4. activeConns' = activeConns
    BY <1>4 DEF DialSucceeds
  <2> QED
    BY <1>f, <1>i, <2>2, <2>3, <2>4 DEF BudgetExact
<1>5. ASSUME NEW c \in Clients, DialFails(c) PROVE Goal
  <2>1. Owing' = Owing \ {c} /\ c \in Owing
    BY <1>5, <1>i DEF DialFails, Owing
  <2>2. Cardinality(Owing') = Cardinality(Owing) - 1
    BY <1>f, <2>1, FS_RemoveElement
  <2>3. activeConns' = activeConns - 1 /\ open' = open
    BY <1>5 DEF DialFails
  <2> QED
    BY <1>f, <1>i, <2>2, <2>3 DEF BudgetExact
<1>6. ASSUME NEW c \in Clients,
             \/ TryGetExistingConnection(c) \/ ValidateAndPrepareConnection(c)
             \/ WaitForConnection(c)
      PROVE  Goal
  BY <1>6, <1>i, <1>k
  DEF Owing, TryGetExistingConnection, ValidateAndPrepareConnection,
      WaitForConnection
<1>7. ASSUME NEW c \in Clients,
             Get(c) \/ CheckContext(c) \/ LoadBudget(c) \/ RetryDelay(c)
      PROVE  Goal
  BY <1>7, <1>i, <1>k DEF Owing, Get, CheckContext, LoadBudget, RetryDelay
<1>8. ASSUME NEW c \in Clients,
             Put(c) \/ PutCheckClosed(c) \/ PutSend(c) \/ PutCount(c)
      PROVE  Goal
  BY <1>8, <1>i, <1>k DEF Owing, Put, PutCheckClosed, PutSend, PutCount
<1>9. ASSUME NEW c \in Clients,
             Discard(c) \/ LoadActive(c) \/ SetGauges(c) \/ NewRequest(c)
      PROVE  Goal
  BY <1>9, <1>i, <1>k DEF Owing, Discard, LoadActive, SetGauges, NewRequest
<1>10. CASE \/ MaintainConnections \/ MaintainDrain \/ MaintainCheck
            \/ MaintainCount
  BY <1>10, <1>i, <1>k
  DEF Owing, MaintainConnections, MaintainDrain, MaintainCheck, MaintainCount
<1>11. CASE MaintainReinsert
  BY <1>11, <1>i, <1>k DEF Owing, MaintainReinsert
<1>12. CASE Close \/ JoinMaintainer \/ CloseDrain \/ CloseCount
  BY <1>12, <1>i, <1>k DEF Owing, Close, JoinMaintainer, CloseDrain, CloseCount
<1>13. CASE UNCHANGED poolVars \/ \E c \in Clients : ContextDone(c)
  BY <1>13, <1>k DEF Owing, poolVars, ContextDone
<1> QED
  <2>1. ASSUME NEW c \in Clients, ClientStep(c) PROVE Goal
    BY <2>1, <1>1, <1>2, <1>3, <1>4, <1>5, <1>6, <1>7, <1>8, <1>9, Zenon
    DEF ClientStep
  <2>2. ASSUME NEW c \in Clients, CallerStep(c) PROVE Goal
    BY <2>2, <1>7, <1>8, <1>9, <1>13, Zenon DEF CallerStep
  <2>3. CASE MaintainStep
    BY <2>3, <1>1, <1>2, <1>10, <1>11, Zenon DEF MaintainStep
  <2>4. CASE CloseStep
    BY <2>4, <1>1, <1>2, <1>12, Zenon DEF CloseStep
  <2> QED
    BY <2>1, <2>2, <2>3, <2>4, <1>12, <1>13, Zenon DEF PoolNext

-----------------------------------------------------------------------------
(* Every step keeps the return addresses and the broken flags in order.    *)
LEMMA ControlStep ==
  ASSUME PoolInv, [PoolNext]_poolVars
  PROVE  ControlInv'
<1> USE PoolAssumption, AgentFacts
<1>i. PoolTypeOK /\ ControlInv /\ OwnedOnce /\ NoBrokenPooled
  BY DEF PoolInv, ExclusiveOwnership
<1>t. /\ pc \in [Agents -> Points]
      /\ held \in [Agents -> Conns \cup {NoConn}]
      /\ after \in [Agents -> ReturnPoints]
      /\ seen \in [Clients -> Int]
      /\ attempt \in [Clients -> 0 .. MaxRetries - 1]
  BY <1>i DEF PoolTypeOK
<1> USE DEF GoTo, ReturnFromCall, StartClose, LetGo, ReturnPoints, ControlInv,
            Owns, ClosePoints, MetricPoints, LastAttempt
<1>1. ASSUME NEW a \in Agents, CloseSocket(a) PROVE ControlInv'
  BY <1>1, <1>i, <1>t DEF CloseSocket
<1>2. ASSUME NEW a \in Agents, ReleaseBudget(a) PROVE ControlInv'
  BY <1>2, <1>i, <1>t DEF ReleaseBudget
<1>3. ASSUME NEW c \in Clients, LoadActive(c) PROVE ControlInv'
  BY <1>3, <1>i, <1>t DEF LoadActive
<1>4. ASSUME NEW c \in Clients, SetGauges(c) PROVE ControlInv'
  BY <1>4, <1>i, <1>t DEF SetGauges
<1>5. ASSUME NEW c \in Clients, Get(c) PROVE ControlInv'
  BY <1>5, <1>i, <1>t DEF Get
<1>6. ASSUME NEW c \in Clients, CheckContext(c) PROVE ControlInv'
  BY <1>6, <1>i, <1>t DEF CheckContext
<1>7. ASSUME NEW c \in Clients, LoadBudget(c) PROVE ControlInv'
  <2>1. activeConns \in Int
    BY <1>i DEF PoolTypeOK
  <2> QED
    BY <1>7, <1>i, <1>t, <2>1 DEF LoadBudget
<1>8. ASSUME NEW c \in Clients, ReserveBudget(c) PROVE ControlInv'
  BY <1>8, <1>i, <1>t DEF ReserveBudget
<1>9. ASSUME NEW a \in Agents, NEW next \in ReturnPoints \ {"holding", "discarded"},
             Receive(a, next), UNCHANGED <<broken, seen, attempt>>
      PROVE  ControlInv'
  <2>1. Head(pool) \notin broken
    BY <1>9, <1>i, ReceiveFacts DEF Receive, NoBrokenPooled, PoolTypeOK
  <2> QED
    BY <1>9, <1>i, <1>t, <2>1 DEF Receive
<1>10. ASSUME NEW c \in Clients, TryGetExistingConnection(c) PROVE ControlInv'
  <2>1. CASE Receive(c, "ctx")
    BY <1>9, <1>10, <2>1 DEF TryGetExistingConnection
  <2>2. CASE GoTo(c, "ctx") /\ UNCHANGED <<pool, held, after>>
    BY <1>10, <1>i, <1>t, <2>2 DEF TryGetExistingConnection
  <2> QED
    BY <1>10, <2>1, <2>2 DEF TryGetExistingConnection
<1>11. ASSUME NEW c \in Clients, WaitForConnection(c) PROVE ControlInv'
  <2>1. CASE Receive(c, "failed")
    BY <1>9, <1>11, <2>1 DEF WaitForConnection
  <2>2. CASE GoTo(c, "failed") /\ UNCHANGED <<pool, held, after>>
    BY <1>11, <1>i, <1>t, <2>2 DEF WaitForConnection
  <2> QED
    BY <1>11, <2>1, <2>2 DEF WaitForConnection
<1>12. ASSUME NEW c \in Clients, ValidateAndPrepareConnection(c) PROVE ControlInv'
  BY <1>12, <1>i, <1>t DEF ValidateAndPrepareConnection
<1>13. ASSUME NEW c \in Clients, NEW n \in Conns, DialSucceeds(c, n)
       PROVE  ControlInv'
  BY <1>13, <1>i, <1>t DEF DialSucceeds, UpdateMetricsThen, Fresh
<1>14. ASSUME NEW c \in Clients, DialFails(c) PROVE ControlInv'
  BY <1>14, <1>i, <1>t DEF DialFails
<1>15. ASSUME NEW c \in Clients, RetryDelay(c) PROVE ControlInv'
  BY <1>15, <1>i, <1>t DEF RetryDelay
<1>16. ASSUME NEW c \in Clients, Put(c) PROVE ControlInv'
  BY <1>16, <1>i, <1>t DEF Put, AlreadyDiscarded
<1>17. ASSUME NEW c \in Clients, PutCheckClosed(c) PROVE ControlInv'
  BY <1>17, <1>i, <1>t DEF PutCheckClosed
<1>18. ASSUME NEW c \in Clients, PutSend(c) PROVE ControlInv'
  BY <1>18, <1>i, <1>t DEF PutSend, SendOrClose
<1>19. ASSUME NEW c \in Clients, PutCount(c) PROVE ControlInv'
  BY <1>19, <1>i, <1>t DEF PutCount, UpdateMetricsThen
<1>20. ASSUME NEW c \in Clients, Discard(c) PROVE ControlInv'
  BY <1>20, <1>i, <1>t DEF Discard, AlreadyDiscarded, OwnedOnce
<1>21. ASSUME NEW c \in Clients, ContextDone(c) \/ NewRequest(c) PROVE ControlInv'
  BY <1>21, <1>i, <1>t DEF ContextDone, NewRequest
<1>22. CASE MaintainConnections \/ Close \/ JoinMaintainer
  BY <1>22, <1>i, <1>t DEF MaintainConnections, Close, JoinMaintainer
<1>23. CASE MaintainDrain
  <2>1. CASE Receive(Maintainer, "drain")
    BY <1>9, <1>23, <2>1 DEF MaintainDrain
  <2>2. CASE GoTo(Maintainer, "reinsert") /\ UNCHANGED <<pool, held, after>>
    BY <1>23, <1>i, <1>t, <2>2 DEF MaintainDrain
  <2> QED
    BY <1>23, <2>1, <2>2 DEF MaintainDrain
<1>24. CASE MaintainCheck
  BY <1>24, <1>i, <1>t DEF MaintainCheck
<1>25. CASE MaintainReinsert
  <2>1. CASE validConns = <<>>
    BY <1>25, <1>i, <1>t, <2>1 DEF MaintainReinsert
  <2>2. CASE validConns # <<>>
    BY <1>25, <1>i, <1>t, <2>2 DEF MaintainReinsert, SendOrClose
  <2> QED
    BY <2>1, <2>2
<1>26. CASE MaintainCount
  BY <1>26, <1>i, <1>t DEF MaintainCount
<1>27. CASE CloseDrain
  <2>1. CASE Receive(Closer, "drain")
    BY <1>9, <1>27, <2>1 DEF CloseDrain
  <2>2. CASE GoTo(Closer, "done") /\ UNCHANGED <<pool, held, after>>
    BY <1>27, <1>i, <1>t, <2>2 DEF CloseDrain
  <2> QED
    BY <1>27, <2>1, <2>2 DEF CloseDrain
<1>28. CASE CloseCount
  BY <1>28, <1>i, <1>t DEF CloseCount
<1>29. CASE UNCHANGED poolVars
  BY <1>29, <1>i DEF poolVars
<1> QED
  <2>1. ASSUME NEW c \in Clients, ClientStep(c) PROVE ControlInv'
    BY <2>1, <1>1, <1>2, <1>3, <1>4, <1>6, <1>7, <1>8, <1>10, <1>11, <1>12,
       <1>13, <1>14, <1>15, <1>17, <1>18, <1>19, Zenon DEF ClientStep
  <2>2. ASSUME NEW c \in Clients, CallerStep(c) PROVE ControlInv'
    BY <2>2, <1>5, <1>16, <1>20, <1>21, Zenon DEF CallerStep
  <2>3. CASE MaintainStep
    BY <2>3, <1>1, <1>2, <1>22, <1>23, <1>24, <1>25, <1>26, Zenon DEF MaintainStep
  <2>4. CASE CloseStep
    BY <2>4, <1>1, <1>2, <1>22, <1>27, <1>28, Zenon DEF CloseStep
  <2> QED
    BY <2>1, <2>2, <2>3, <2>4, <1>22, <1>29, Zenon DEF PoolNext

-----------------------------------------------------------------------------
(* Only the owner of a connection discards it, and a connection that is    *)
(* discarded is in neither the channel nor the list of the tick.           *)
LEMMA NoBrokenStep ==
  ASSUME PoolInv, [PoolNext]_poolVars
  PROVE  NoBrokenPooled'
<1> USE PoolAssumption, AgentFacts
<1>i. /\ PoolTypeOK /\ ControlInv /\ NoBrokenPooled
      /\ OwnedOnce /\ PooledOnce(pool) /\ PooledOnce(validConns)
      /\ pool \in Seq(Conns) /\ validConns \in Seq(Conns)
  BY DEF PoolInv, ExclusiveOwnership, PoolTypeOK
<1>k. ASSUME UNCHANGED <<pool, validConns>>, broken' \subseteq broken
      PROVE  NoBrokenPooled'
  BY <1>i, <1>k DEF NoBrokenPooled
<1>1. ASSUME NEW a \in Agents, NEW next, Receive(a, next),
             UNCHANGED <<validConns, broken>>
      PROVE  NoBrokenPooled'
  BY <1>1, <1>i, ReceiveFacts DEF Receive, NoBrokenPooled
<1>2. ASSUME NEW a \in Agents, CloseSocket(a) \/ ReleaseBudget(a)
      PROVE  NoBrokenPooled'
  BY <1>2, <1>k DEF CloseSocket, ReleaseBudget
<1>3. ASSUME NEW c \in Clients, TryGetExistingConnection(c) \/ WaitForConnection(c)
      PROVE  NoBrokenPooled'
  BY <1>3, <1>1, <1>k DEF TryGetExistingConnection, WaitForConnection
<1>4. ASSUME NEW c \in Clients, NEW n \in Conns, DialSucceeds(c, n)
      PROVE  NoBrokenPooled'
  BY <1>4, <1>k DEF DialSucceeds
<1>5. ASSUME NEW c \in Clients, PutSend(c) PROVE NoBrokenPooled'
  <2>1. held[c] \in Conns /\ held[c] \notin broken
    BY <1>5, <1>i DEF PutSend, OwnedOnce, Owns, ControlInv, PoolTypeOK
  <2>2. CASE pool' = Append(pool, held[c])
    BY <1>5, <1>i, <2>1, <2>2, SendFacts DEF PutSend, NoBrokenPooled
  <2>3. CASE pool' = pool
    BY <1>5, <1>k, <2>3 DEF PutSend
  <2> QED
    BY <1>5, <2>2, <2>3 DEF PutSend, SendOrClose
<1>6. ASSUME NEW c \in Clients, Discard(c) PROVE NoBrokenPooled'
  <2>1. CASE AlreadyDiscarded(held[c])
    BY <1>6, <1>k, <2>1 DEF Discard
  <2>2. CASE ~AlreadyDiscarded(held[c])
    <3>1. Owns(c)
      BY <1>6, <1>i, <2>2 DEF Discard, AlreadyDiscarded, Owns, ControlInv
    <3>2. broken' = broken \cup {held[c]} /\ UNCHANGED <<pool, validConns>>
      BY <1>6, <2>2 DEF Discard
    <3> QED
      BY <1>i, <3>1, <3>2 DEF PooledOnce, NoBrokenPooled
  <2> QED
    BY <2>1, <2>2
<1>7. ASSUME NEW c \in Clients,
             \/ ValidateAndPrepareConnection(c) \/ CheckContext(c)
             \/ LoadBudget(c) \/ ReserveBudget(c) \/ DialFails(c)
             \/ RetryDelay(c) \/ PutCheckClosed(c) \/ PutCount(c)
             \/ LoadActive(c) \/ SetGauges(c) \/ Get(c) \/ Put(c)
             \/ NewRequest(c) \/ ContextDone(c)
      PROVE  NoBrokenPooled'
  BY <1>7, <1>k
  DEF ValidateAndPrepareConnection, CheckContext, LoadBudget, ReserveBudget,
      DialFails, RetryDelay, PutCheckClosed, PutCount, LoadActive, SetGauges,
      Get, Put, NewRequest, ContextDone
<1>8. CASE MaintainDrain \/ CloseDrain
  BY <1>8, <1>1, <1>k DEF MaintainDrain, CloseDrain
<1>9. CASE MaintainCheck
  <2>1. held[Maintainer] \in Conns /\ held[Maintainer] \notin broken
    BY <1>9, <1>i DEF MaintainCheck, OwnedOnce, Owns, ControlInv, PoolTypeOK
  <2>2. CASE validConns' = Append(validConns, held[Maintainer])
    BY <1>9, <1>i, <2>1, <2>2, SendFacts DEF MaintainCheck, NoBrokenPooled
  <2>3. CASE validConns' = validConns
    BY <1>9, <1>k, <2>3 DEF MaintainCheck
  <2> QED
    BY <1>9, <2>2, <2>3 DEF MaintainCheck
<1>10. CASE MaintainReinsert
  <2>1. CASE validConns = <<>>
    BY <1>10, <1>k, <2>1 DEF MaintainReinsert
  <2>2. CASE validConns # <<>>
    <3>1. /\ Head(validConns) \in Conns
          /\ Head(validConns) \notin broken
          /\ validConns' = Tail(validConns)
          /\ broken' = broken
      BY <1>10, <1>i, <2>2, ReceiveFacts DEF MaintainReinsert, NoBrokenPooled
    <3>2. \A i \in DOMAIN validConns' : validConns'[i] \notin broken
      BY <1>i, <2>2, <3>1, ReceiveFacts DEF NoBrokenPooled
    <3>3. CASE pool' = Append(pool, Head(validConns))
      BY <1>i, <3>1, <3>2, <3>3, SendFacts DEF NoBrokenPooled
    <3>4. CASE pool' = pool
      BY <1>i, <3>1, <3>2, <3>4 DEF NoBrokenPooled
    <3> QED
      BY <1>10, <2>2, <3>3, <3>4 DEF MaintainReinsert, SendOrClose
  <2> QED
    BY <2>1, <2>2
<1>11. CASE \/ MaintainConnections \/ MaintainCount \/ Close \/ JoinMaintainer
            \/ CloseCount \/ UNCHANGED poolVars
  BY <1>11, <1>k
  DEF MaintainConnections, MaintainCount, Close, JoinMaintainer, CloseCount, poolVars
<1> QED
  <2>1. ASSUME NEW c \in Clients, ClientStep(c) PROVE NoBrokenPooled'
    BY <2>1, <1>2, <1>3, <1>4, <1>5, <1>7, AgentFacts, Zenon DEF ClientStep
  <2>2. ASSUME NEW c \in Clients, CallerStep(c) PROVE NoBrokenPooled'
    BY <2>2, <1>6, <1>7, Zenon DEF CallerStep
  <2>3. CASE MaintainStep
    BY <2>3, <1>2, <1>8, <1>9, <1>10, <1>11, AgentFacts, Zenon DEF MaintainStep
  <2>4. CASE CloseStep
    BY <2>4, <1>2, <1>8, <1>11, AgentFacts, Zenon DEF CloseStep
  <2> QED
    BY <2>1, <2>2, <2>3, <2>4, <1>11, Zenon DEF PoolNext

-----------------------------------------------------------------------------
(* A channel without duplicates, less its head, no longer holds the head.  *)
LEMMA TailPooledOnce ==
  ASSUME NEW s \in Seq(Conns), s # <<>>, PooledOnce(s)
  PROVE  /\ PooledOnce(Tail(s))
         /\ \A i \in DOMAIN Tail(s) : Tail(s)[i] # Head(s)
         /\ Head(s) \in open
         /\ \A a \in Agents : Owns(a) => held[a] # Head(s)
         /\ \A x : (\A i \in DOMAIN s : s[i] # x)
              => (\A i \in DOMAIN Tail(s) : Tail(s)[i] # x)
<1>1. /\ 1 \in DOMAIN s
      /\ Head(s) = s[1]
      /\ \A i \in DOMAIN Tail(s) :
           i \in Nat /\ i # 0 /\ i + 1 \in DOMAIN s /\ Tail(s)[i] = s[i + 1]
  BY ReceiveFacts
<1>2. \A i, j \in DOMAIN Tail(s) : i # j => Tail(s)[i] # Tail(s)[j]
  BY <1>1 DEF PooledOnce
<1>3. \A i \in DOMAIN Tail(s) : Tail(s)[i] # Head(s)
  BY <1>1 DEF PooledOnce
<1> QED
  BY <1>1, <1>2, <1>3 DEF PooledOnce

(* A send of a connection that is not in the channel creates no duplicate. *)
LEMMA AppendNoDuplicates ==
  ASSUME NEW s \in Seq(Conns), NEW n \in Conns,
         \A i, j \in DOMAIN s : i # j => s[i] # s[j],
         \A i \in DOMAIN s : s[i] # n
  PROVE  \A i, j \in DOMAIN Append(s, n) :
           i # j => Append(s, n)[i] # Append(s, n)[j]
BY SendFacts

(* A step that moves no connection and lets no goroutine begin to own one  *)
(* keeps ownership exclusive.                                              *)
LEMMA OwnershipKept ==
  ASSUME ExclusiveOwnership, UNCHANGED <<pool, validConns, open>>,
         \A b \in Agents : Owns(b)' => Owns(b) /\ held'[b] = held[b]
  PROVE  ExclusiveOwnership'
BY DEF ExclusiveOwnership, OwnedOnce, PooledOnce

(* A receive hands the head of the channel to the goroutine that receives. *)
LEMMA OwnershipReceived ==
  ASSUME PoolInv, NEW a \in Agents, ~Owns(a), NEW next, Receive(a, next),
         UNCHANGED <<validConns, open>>
  PROVE  ExclusiveOwnership'
<1> DEFINE n == Head(pool)
<1>1. /\ PooledOnce(Tail(pool))
      /\ \A i \in DOMAIN Tail(pool) : Tail(pool)[i] # n
      /\ n \in open
      /\ \A b \in Agents : Owns(b) => held[b] # n
      /\ \A x : (\A i \in DOMAIN pool : pool[i] # x)
           => (\A i \in DOMAIN Tail(pool) : Tail(pool)[i] # x)
  BY TailPooledOnce DEF PoolInv, PoolTypeOK, ExclusiveOwnership, Receive
<1>2. \A j \in DOMAIN validConns : validConns[j] # n
  BY ReceiveFacts DEF PoolInv, PoolTypeOK, ExclusiveOwnership, Receive
<1>3. /\ held' = [held EXCEPT ![a] = n]
      /\ pool' = Tail(pool)
      /\ \A b \in Agents : b # a => (Owns(b)' <=> Owns(b))
      /\ held \in [Agents -> Conns \cup {NoConn}]
  BY DEF Receive, GoTo, Owns, PoolInv, PoolTypeOK
<1>4. OwnedOnce'
  BY <1>1, <1>3 DEF PoolInv, ExclusiveOwnership, OwnedOnce
<1>5. PooledOnce(pool)'
  BY <1>1, <1>3 DEF PooledOnce
<1>6. PooledOnce(validConns)'
  BY <1>2, <1>3 DEF PoolInv, ExclusiveOwnership, PooledOnce
<1>7. \A i \in DOMAIN pool', j \in DOMAIN validConns' : pool'[i] # validConns'[j]
  <2>1. ASSUME NEW j \in DOMAIN validConns
        PROVE  \A i \in DOMAIN Tail(pool) : Tail(pool)[i] # validConns[j]
    <3>1. \A i \in DOMAIN pool : pool[i] # validConns[j]
      BY <2>1 DEF PoolInv, ExclusiveOwnership
    <3> QED
      BY <1>1, <3>1
  <2> QED
    BY <1>3, <2>1
<1> QED
  BY <1>4, <1>5, <1>6, <1>7 DEF ExclusiveOwnership

(* A goroutine that sends the connection it owns, or one taken from the    *)
(* list of the tick, stops owning it.  The connection n is owned by nobody *)
(* else and is in no other place.                                          *)
LEMMA OwnershipSent ==
  ASSUME PoolTypeOK, OwnedOnce, PooledOnce(pool),
         NEW a \in Agents, NEW n \in open,
         \A b \in Agents \ {a} : Owns(b) => held[b] # n,
         \A i \in DOMAIN pool : pool[i] # n,
         pool' = Append(pool, n), open' = open,
         held' = [held EXCEPT ![a] = NoConn], ~Owns(a)',
         \A b \in Agents \ {a} : Owns(b)' => Owns(b)
  PROVE  OwnedOnce' /\ PooledOnce(pool)'
<1>1. /\ n \in Conns
      /\ pool \in Seq(Conns)
      /\ held \in [Agents -> Conns \cup {NoConn}]
  BY DEF PoolTypeOK
<1>2. OwnedOnce'
  BY <1>1 DEF OwnedOnce
<1>3. \A i \in DOMAIN pool' : pool'[i] = n \/ \E j \in DOMAIN pool : pool'[i] = pool[j]
  BY <1>1, SendFacts
<1>4. \A i, j \in DOMAIN pool' : i # j => pool'[i] # pool'[j]
  BY <1>1, AppendNoDuplicates DEF PooledOnce
<1>5. \A i \in DOMAIN pool' : pool'[i] \in open'
  BY <1>3 DEF PooledOnce
<1>6. \A i \in DOMAIN pool', b \in Agents : Owns(b)' => held'[b] # pool'[i]
  BY <1>1, <1>3 DEF PooledOnce
<1> QED
  BY <1>2, <1>4, <1>5, <1>6 DEF PooledOnce

(* Every step keeps ownership exclusive.                                   *)
LEMMA OwnershipStep ==
  ASSUME PoolInv, [PoolNext]_poolVars
  PROVE  ExclusiveOwnership'
<1> USE PoolAssumption, AgentFacts
<1>i. /\ PoolTypeOK /\ ControlInv /\ ExclusiveOwnership
      /\ OwnedOnce /\ PooledOnce(pool) /\ PooledOnce(validConns)
  BY DEF PoolInv, ExclusiveOwnership
<1>t. /\ pool \in Seq(Conns) /\ validConns \in Seq(Conns)
      /\ pc \in [Agents -> Points]
      /\ held \in [Agents -> Conns \cup {NoConn}]
      /\ after \in [Agents -> ReturnPoints]
      /\ open \subseteq Conns
  BY <1>i DEF PoolTypeOK
<1>1. ASSUME NEW a \in Agents, CloseSocket(a) PROVE ExclusiveOwnership'
  <2>1. /\ Owns(a)
        /\ open' = open \ {held[a]}
        /\ UNCHANGED <<pool, validConns, held>>
        /\ \A b \in Agents : Owns(b)' => Owns(b) /\ b # a
    BY <1>1, <1>t DEF CloseSocket, GoTo, Owns, MetricPoints
  <2> QED
    BY <1>i, <2>1 DEF ExclusiveOwnership, OwnedOnce, PooledOnce
<1>2. ASSUME NEW a \in Agents, ReleaseBudget(a) PROVE ExclusiveOwnership'
  <2>1. \A b \in Agents : Owns(b)' => Owns(b) /\ held'[b] = held[b]
    BY <1>2, <1>i, <1>t
    DEF ReleaseBudget, ReturnFromCall, GoTo, Owns, MetricPoints, ReturnPoints,
        ControlInv
  <2> QED
    BY <1>2, <1>i, <2>1, OwnershipKept DEF ReleaseBudget
<1>3. ASSUME NEW c \in Clients, NEW n \in Conns, DialSucceeds(c, n)
      PROVE  ExclusiveOwnership'
  <2>1. /\ n \notin open
        /\ open' = open \cup {n}
        /\ UNCHANGED <<pool, validConns>>
        /\ held' = [held EXCEPT ![c] = n]
        /\ \A b \in Agents : b # c /\ Owns(b)' => Owns(b)
    BY <1>3, <1>t DEF DialSucceeds, Fresh, UpdateMetricsThen, GoTo, Owns
  <2>2. OwnedOnce'
    BY <1>i, <1>t, <2>1 DEF OwnedOnce
  <2>3. PooledOnce(pool)' /\ PooledOnce(validConns)'
    BY <1>i, <1>t, <2>1 DEF PooledOnce
  <2> QED
    BY <1>i, <2>1, <2>2, <2>3 DEF ExclusiveOwnership
<1>4. ASSUME NEW c \in Clients, TryGetExistingConnection(c) \/ WaitForConnection(c)
      PROVE  ExclusiveOwnership'
  <2>1. ~Owns(c) /\ UNCHANGED <<validConns, open>>
    BY <1>4 DEF TryGetExistingConnection, WaitForConnection, Owns, MetricPoints
  <2>2. CASE Receive(c, "ctx") \/ Receive(c, "failed")
    BY <2>1, <2>2, OwnershipReceived
  <2>3. CASE /\ GoTo(c, "ctx") \/ GoTo(c, "failed")
             /\ UNCHANGED <<pool, held, after>>
    <3>1. \A b \in Agents : Owns(b)' => Owns(b)
      BY <1>t, <2>3 DEF GoTo, Owns, MetricPoints
    <3> QED
      BY <1>i, <2>1, <2>3, <3>1, OwnershipKept
  <2> QED
    BY <1>4, <2>2, <2>3 DEF TryGetExistingConnection, WaitForConnection
<1>5. CASE MaintainDrain \/ CloseDrain
  <2>1. PICK a \in {Maintainer, Closer} :
          /\ pc[a] = "drain"
          /\ \/ Receive(a, "drain")
             \/ /\ GoTo(a, "reinsert") \/ GoTo(a, "done")
                /\ UNCHANGED <<pool, held, after>>
    BY <1>5 DEF MaintainDrain, CloseDrain
  <2>2. ~Owns(a) /\ UNCHANGED <<validConns, open>>
    BY <1>5, <2>1 DEF MaintainDrain, CloseDrain, Owns, MetricPoints
  <2>3. CASE Receive(a, "drain")
    BY <2>2, <2>3, OwnershipReceived
  <2>4. CASE /\ GoTo(a, "reinsert") \/ GoTo(a, "done")
             /\ UNCHANGED <<pool, held, after>>
    <3>1. \A b \in Agents : Owns(b)' => Owns(b)
      BY <1>t, <2>4 DEF GoTo, Owns, MetricPoints
    <3> QED
      BY <1>i, <2>2, <2>4, <3>1, OwnershipKept
  <2> QED
    BY <2>1, <2>3, <2>4
<1>6. ASSUME NEW c \in Clients,
             \/ ValidateAndPrepareConnection(c) \/ CheckContext(c)
             \/ LoadBudget(c) \/ ReserveBudget(c) \/ DialFails(c)
             \/ RetryDelay(c) \/ PutCheckClosed(c)
      PROVE  ExclusiveOwnership'
  <2>1. \A b \in Agents : Owns(b)' => Owns(b) /\ held'[b] = held[b]
    BY <1>6, <1>t
    DEF ValidateAndPrepareConnection, CheckContext, LoadBudget, ReserveBudget,
        DialFails, RetryDelay, PutCheckClosed, StartClose, GoTo, Owns,
        MetricPoints
  <2>2. UNCHANGED <<pool, validConns, open>>
    BY <1>6
    DEF ValidateAndPrepareConnection, CheckContext, LoadBudget, ReserveBudget,
        DialFails, RetryDelay, PutCheckClosed
  <2> QED
    BY <1>i, <2>1, <2>2, OwnershipKept
<1>7. ASSUME NEW c \in Clients,
             \/ PutCount(c) \/ LoadActive(c) \/ SetGauges(c)
             \/ Get(c) \/ Put(c) \/ Discard(c) \/ NewRequest(c) \/ ContextDone(c)
      PROVE  ExclusiveOwnership'
  <2>1. \A b \in Agents : Owns(b)' => Owns(b) /\ held'[b] = held[b]
    BY <1>7, <1>i, <1>t
    DEF PutCount, LoadActive, SetGauges, Get, Put, Discard, NewRequest,
        ContextDone, UpdateMetricsThen, StartClose, LetGo, ReturnFromCall, GoTo,
        Owns, MetricPoints, ReturnPoints, ControlInv, AlreadyDiscarded
  <2>2. UNCHANGED <<pool, validConns, open>>
    BY <1>7
    DEF PutCount, LoadActive, SetGauges, Get, Put, Discard, NewRequest,
        ContextDone
  <2> QED
    BY <1>i, <2>1, <2>2, OwnershipKept
<1>8. ASSUME NEW c \in Clients, PutSend(c) PROVE ExclusiveOwnership'
  <2>1. Owns(c) /\ UNCHANGED <<validConns, open>>
    BY <1>8 DEF PutSend, Owns
  <2>2. CASE pool' = Append(pool, held[c])
             /\ held' = [held EXCEPT ![c] = NoConn] /\ GoTo(c, "inc")
             /\ after' = [after EXCEPT ![c] = "idle"]
    <3>1. /\ held[c] \in open
          /\ \A b \in Agents \ {c} : Owns(b) => held[b] # held[c]
          /\ \A i \in DOMAIN pool : pool[i] # held[c]
          /\ \A i \in DOMAIN validConns : validConns[i] # held[c]
      BY <1>i, <2>1 DEF OwnedOnce, PooledOnce
    <3>2. ~Owns(c)' /\ \A b \in Agents \ {c} : Owns(b)' => Owns(b)
      BY <1>t, <2>2 DEF GoTo, Owns, MetricPoints
    <3>3. OwnedOnce' /\ PooledOnce(pool)'
      BY <1>i, <2>1, <2>2, <3>1, <3>2, OwnershipSent
    <3>4. PooledOnce(validConns)'
      BY <1>i, <1>t, <2>1, <2>2, <3>2 DEF PooledOnce
    <3>5. \A i \in DOMAIN pool', j \in DOMAIN validConns' : pool'[i] # validConns'[j]
      BY <1>i, <1>t, <2>1, <2>2, <3>1, SendFacts DEF ExclusiveOwnership
    <3> QED
      BY <3>3, <3>4, <3>5 DEF ExclusiveOwnership
  <2>3. CASE /\ pool' = pool
             /\ held' = [held EXCEPT ![c] = held[c]] \/ held' = held
             /\ StartClose(c, "idle")
    <3>1. \A b \in Agents : Owns(b)' => Owns(b) /\ held'[b] = held[b]
      BY <1>t, <2>1, <2>3 DEF StartClose, GoTo, Owns, MetricPoints
    <3> QED
      BY <1>i, <2>1, <2>3, <3>1, OwnershipKept
  <2> QED
    BY <1>8, <2>2, <2>3 DEF PutSend, SendOrClose
<1>9. CASE MaintainCheck
  <2>1. /\ pc[Maintainer] = "size"
        /\ Owns(Maintainer)
        /\ UNCHANGED <<pool, open>>
    BY <1>9 DEF MaintainCheck, Owns
  <2>2. CASE validConns' = Append(validConns, held[Maintainer])
             /\ held' = [held EXCEPT ![Maintainer] = NoConn]
             /\ ReturnFromCall(Maintainer)
    <3> DEFINE n == held[Maintainer]
    <3>1. /\ n \in open
          /\ \A b \in Agents \ {Maintainer} : Owns(b) => held[b] # n
          /\ \A i \in DOMAIN pool : pool[i] # n
          /\ \A i \in DOMAIN validConns : validConns[i] # n
      BY <1>i, <2>1 DEF OwnedOnce, PooledOnce
    <3>2. ~Owns(Maintainer)' /\ \A b \in Agents \ {Maintainer} : Owns(b)' => Owns(b)
      BY <1>i, <1>t, <2>1, <2>2
      DEF ReturnFromCall, GoTo, Owns, MetricPoints, ReturnPoints, ControlInv
    <3>3. OwnedOnce' /\ PooledOnce(pool)'
      BY <1>i, <1>t, <2>1, <2>2, <3>2 DEF OwnedOnce, PooledOnce
    <3>4. \A i \in DOMAIN validConns' :
            \/ validConns'[i] = n
            \/ \E j \in DOMAIN validConns : validConns'[i] = validConns[j]
      BY <1>t, <2>2, <3>1, SendFacts
    <3>5. \A i, j \in DOMAIN validConns' : i # j => validConns'[i] # validConns'[j]
      BY <1>i, <1>t, <2>2, <3>1, AppendNoDuplicates DEF PooledOnce
    <3>6. PooledOnce(validConns)'
      BY <1>i, <1>t, <2>1, <2>2, <3>1, <3>2, <3>4, <3>5 DEF PooledOnce
    <3>7. \A i \in DOMAIN pool', j \in DOMAIN validConns' : pool'[i] # validConns'[j]
      BY <1>i, <2>1, <3>1, <3>4 DEF ExclusiveOwnership
    <3> QED
      BY <3>3, <3>6, <3>7 DEF ExclusiveOwnership
  <2>3. CASE StartClose(Maintainer, "drain") /\ UNCHANGED <<held, validConns>>
    <3>1. \A b \in Agents : Owns(b)' => Owns(b) /\ held'[b] = held[b]
      BY <1>t, <2>1, <2>3 DEF StartClose, GoTo, Owns, MetricPoints
    <3> QED
      BY <1>i, <2>1, <2>3, <3>1, OwnershipKept
  <2> QED
    BY <1>9, <2>2, <2>3 DEF MaintainCheck
<1>10. CASE MaintainReinsert
  <2>1. /\ pc[Maintainer] = "reinsert"
        /\ ~Owns(Maintainer)
        /\ open' = open
    BY <1>10 DEF MaintainReinsert, Owns, MetricPoints
  <2>2. CASE validConns = <<>>
    <3>1. GoTo(Maintainer, "idle") /\ UNCHANGED <<pool, held, after, validConns>>
      BY <1>10, <2>2 DEF MaintainReinsert
    <3>2. \A b \in Agents : Owns(b)' => Owns(b) /\ held'[b] = held[b]
      BY <1>t, <3>1 DEF GoTo, Owns, MetricPoints
    <3> QED
      BY <1>i, <2>1, <3>1, <3>2, OwnershipKept
  <2>3. CASE validConns # <<>>
    <3> DEFINE n == Head(validConns)
    <3>1. /\ PooledOnce(Tail(validConns))
          /\ \A i \in DOMAIN Tail(validConns) : Tail(validConns)[i] # n
          /\ n \in open
          /\ \A b \in Agents : Owns(b) => held[b] # n
      BY <1>i, <1>t, <2>3, TailPooledOnce
    <3>2. \A i \in DOMAIN pool : pool[i] # n
      BY <1>i, <1>t, <2>3, ReceiveFacts DEF ExclusiveOwnership
    <3>3. \A i \in DOMAIN pool, j \in DOMAIN Tail(validConns) :
            pool[i] # Tail(validConns)[j]
      BY <1>i, <1>t, <2>3, ReceiveFacts DEF ExclusiveOwnership
    <3>4. /\ validConns' = Tail(validConns)
          /\ SendOrClose(Maintainer, n, "reinsert")
      BY <1>10, <2>3 DEF MaintainReinsert
    <3>5. CASE Len(pool) < MaxConnections
      <4>1. /\ pool' = Append(pool, n)
            /\ held' = [held EXCEPT ![Maintainer] = NoConn]
            /\ ~Owns(Maintainer)'
            /\ \A b \in Agents \ {Maintainer} : Owns(b)' => Owns(b)
        BY <1>t, <3>4, <3>5 DEF SendOrClose, GoTo, Owns, MetricPoints
      <4>2. OwnedOnce' /\ PooledOnce(pool)'
        BY <1>i, <2>1, <3>1, <3>2, <4>1, OwnershipSent
      <4>3. PooledOnce(validConns)'
        BY <1>t, <2>1, <3>1, <3>4, <4>1 DEF PooledOnce
      <4>4. \A i \in DOMAIN pool', j \in DOMAIN validConns' : pool'[i] # validConns'[j]
        BY <1>t, <3>1, <3>3, <3>4, <4>1, SendFacts
      <4> QED
        BY <4>2, <4>3, <4>4 DEF ExclusiveOwnership
    <3>6. CASE ~(Len(pool) < MaxConnections)
      <4>1. /\ pool' = pool
            /\ held' = [held EXCEPT ![Maintainer] = n]
            /\ \A b \in Agents \ {Maintainer} : Owns(b)' => Owns(b)
        BY <1>t, <3>4, <3>6 DEF SendOrClose, StartClose, GoTo, Owns
      <4>2. OwnedOnce'
        BY <1>i, <1>t, <2>1, <3>1, <4>1 DEF OwnedOnce
      <4>3. PooledOnce(pool)'
        BY <1>i, <1>t, <2>1, <3>2, <4>1 DEF PooledOnce
      <4>4. PooledOnce(validConns)'
        BY <1>t, <2>1, <3>1, <3>4, <4>1 DEF PooledOnce
      <4> QED
        BY <3>3, <3>4, <4>1, <4>2, <4>3, <4>4 DEF ExclusiveOwnership
    <3> QED
      BY <3>5, <3>6
  <2> QED
    BY <2>2, <2>3
<1>11. CASE \/ MaintainConnections \/ MaintainCount \/ Close \/ JoinMaintainer
            \/ CloseCount \/ UNCHANGED poolVars
  <2>1. \A b \in Agents : Owns(b)' => Owns(b) /\ held'[b] = held[b]
    BY <1>11, <1>i, <1>t
    DEF MaintainConnections, MaintainCount, Close, JoinMaintainer, CloseCount,
        poolVars, StartClose, ReturnFromCall, GoTo, Owns, MetricPoints, ReturnPoints,
        ControlInv
  <2>2. UNCHANGED <<pool, validConns, open>>
    BY <1>11
    DEF MaintainConnections, MaintainCount, Close, JoinMaintainer, CloseCount,
        poolVars
  <2> QED
    BY <1>i, <2>1, <2>2, OwnershipKept
<1> QED
  <2>1. ASSUME NEW c \in Clients, ClientStep(c) PROVE ExclusiveOwnership'
    BY <2>1, <1>1, <1>2, <1>3, <1>4, <1>6, <1>7, <1>8, Zenon DEF ClientStep
  <2>2. ASSUME NEW c \in Clients, CallerStep(c) PROVE ExclusiveOwnership'
    BY <2>2, <1>7, Zenon DEF CallerStep
  <2>3. CASE MaintainStep
    BY <2>3, <1>1, <1>2, <1>5, <1>9, <1>10, <1>11, Zenon DEF MaintainStep
  <2>4. CASE CloseStep
    BY <2>4, <1>1, <1>2, <1>5, <1>11, Zenon DEF CloseStep
  <2> QED
    BY <2>1, <2>2, <2>3, <2>4, <1>11, Zenon DEF PoolNext

(* Every step keeps the hands of those who own nothing empty.              *)
LEMMA HandsStep ==
  ASSUME PoolInv, [PoolNext]_poolVars
  PROVE  EmptyHands'
<1> USE PoolAssumption, AgentFacts
<1>i. PoolTypeOK /\ ControlInv /\ OwnedOnce /\ EmptyHands
  BY DEF PoolInv, ExclusiveOwnership
<1>t. /\ pc \in [Agents -> Points]
      /\ held \in [Agents -> Conns \cup {NoConn}]
      /\ after \in [Agents -> ReturnPoints]
      /\ open \subseteq Conns
  BY <1>i DEF PoolTypeOK
<1>k. ASSUME NEW a \in Agents, open' \subseteq open,
             \A b \in Agents \ {a} : pc'[b] = pc[b] /\ held'[b] = held[b]
                                       /\ after'[b] = after[b],
             \/ Owns(a)'
             \/ held'[a] = NoConn
             \/ pc'[a] \in {"dec", "discarded"} /\ held'[a] \notin open'
      PROVE  EmptyHands'
  BY <1>i, <1>k DEF EmptyHands, Owns
<1> USE DEF GoTo
<1>1. ASSUME NEW a \in Agents, CloseSocket(a) PROVE EmptyHands'
  <2>1. /\ pc'[a] = "dec" /\ held' = held /\ held'[a] \notin open' /\ open' \subseteq open
        /\ after' = after /\ \A b \in Agents \ {a} : pc'[b] = pc[b]
    BY <1>1, <1>t DEF CloseSocket
  <2> QED
    BY <1>k, <2>1
<1>2. ASSUME NEW a \in Agents, ReleaseBudget(a) PROVE EmptyHands'
  <2>1. /\ pc[a] = "dec" /\ open' = open
        /\ pc' = [pc EXCEPT ![a] = after[a]]
        /\ after' = [after EXCEPT ![a] = "idle"]
        /\ held' = [held EXCEPT ![a] = IF after[a] = "discarded" THEN held[a] ELSE NoConn]
    BY <1>2 DEF ReleaseBudget, ReturnFromCall
  <2>2. held[a] \notin open
    BY <1>i, <1>t, <2>1 DEF EmptyHands, Owns, MetricPoints
  <2>3. held'[a] = NoConn \/ (pc'[a] = "discarded" /\ held'[a] \notin open')
    BY <1>t, <2>1, <2>2
  <2>4. \A b \in Agents \ {a} : pc'[b] = pc[b] /\ held'[b] = held[b] /\ after'[b] = after[b]
    BY <1>t, <2>1
  <2> QED
    BY <1>k, <2>1, <2>3, <2>4
<1>3. ASSUME NEW c \in Clients, NEW n \in Conns, DialSucceeds(c, n) PROVE EmptyHands'
  <2>1. /\ \A b \in Agents : held[b] # n
        /\ open' = open \cup {n}
        /\ held' = [held EXCEPT ![c] = n]
        /\ \A b \in Agents \ {c} : pc'[b] = pc[b] /\ after'[b] = after[b]
        /\ pc'[c] = "holding" \/ (pc'[c] = "load" /\ after'[c] = "holding")
    BY <1>3, <1>t DEF DialSucceeds, Fresh, UpdateMetricsThen
  <2>2. Owns(c)'
    BY <2>1 DEF Owns, MetricPoints
  <2> QED
    BY <1>i, <1>t, <2>1, <2>2 DEF EmptyHands, Owns
<1>4. ASSUME NEW a \in Agents, NEW next, Receive(a, next), open' = open PROVE EmptyHands'
  <2>1. /\ Owns(a)'
        /\ \A b \in Agents \ {a} : pc'[b] = pc[b] /\ held'[b] = held[b] /\ after'[b] = after[b]
    BY <1>4, <1>t DEF Receive, Owns
  <2> QED
    BY <1>4, <1>k, <2>1
<1>5. ASSUME NEW a \in Agents, NEW p, GoTo(a, p), UNCHANGED <<open, held, after>>,
             held[a] = NoConn
      PROVE  EmptyHands'
  BY <1>5, <1>k, <1>t
<1>6. ASSUME NEW c \in Clients, TryGetExistingConnection(c) \/ WaitForConnection(c)
      PROVE  EmptyHands'
  <2>1. held[c] = NoConn /\ open' = open
    BY <1>6, <1>i DEF TryGetExistingConnection, WaitForConnection, EmptyHands, Owns,
                      MetricPoints
  <2> QED
    BY <1>4, <1>5, <1>6, <2>1 DEF TryGetExistingConnection, WaitForConnection
<1>7. CASE MaintainDrain \/ CloseDrain
  <2>1. PICK a \in {Maintainer, Closer} :
          /\ pc[a] = "drain"
          /\ \/ Receive(a, "drain")
             \/ /\ GoTo(a, "reinsert") \/ GoTo(a, "done")
                /\ UNCHANGED <<pool, held, after>>
    BY <1>7 DEF MaintainDrain, CloseDrain
  <2>2. held[a] = NoConn /\ open' = open
    BY <1>7, <1>i, <2>1 DEF MaintainDrain, CloseDrain, EmptyHands, Owns, MetricPoints
  <2> QED
    BY <1>4, <1>5, <2>1, <2>2
<1>8. ASSUME NEW c \in Clients,
             \/ CheckContext(c) \/ LoadBudget(c) \/ ReserveBudget(c) \/ DialFails(c)
             \/ RetryDelay(c)
      PROVE  EmptyHands'
  <2>1. held[c] = NoConn /\ UNCHANGED <<open, held, after>> /\ \E p : GoTo(c, p)
    BY <1>8, <1>i
    DEF CheckContext, LoadBudget, ReserveBudget, DialFails, RetryDelay, EmptyHands,
        Owns, MetricPoints
  <2> QED
    BY <1>5, <2>1
<1>9. ASSUME NEW c \in Clients, ValidateAndPrepareConnection(c) \/ PutCheckClosed(c)
      PROVE  EmptyHands'
  <2>1. /\ UNCHANGED <<open, held>> /\ pc'[c] \in {"holding", "close", "send"}
        /\ \A b \in Agents \ {c} : pc'[b] = pc[b] /\ after'[b] = after[b]
    BY <1>9, <1>t DEF ValidateAndPrepareConnection, PutCheckClosed, StartClose
  <2>2. Owns(c)'
    BY <2>1 DEF Owns
  <2> QED
    BY <1>k, <2>1, <2>2
<1>10. ASSUME NEW c \in Clients, PutSend(c) PROVE EmptyHands'
  <2>1. /\ open' = open
        /\ \/ held'[c] = NoConn
           \/ pc'[c] = "close"
        /\ \A b \in Agents \ {c} : pc'[b] = pc[b] /\ held'[b] = held[b] /\ after'[b] = after[b]
    BY <1>10, <1>t DEF PutSend, SendOrClose, StartClose
  <2>2. Owns(c)' \/ held'[c] = NoConn
    BY <2>1 DEF Owns
  <2> QED
    BY <1>k, <2>1, <2>2
<1>11. ASSUME NEW c \in Clients, PutCount(c) \/ LoadActive(c) \/ SetGauges(c)
       PROVE  EmptyHands'
  <2>1. /\ UNCHANGED <<open, held>>
        /\ \A b \in Agents \ {c} : pc'[b] = pc[b] /\ after'[b] = after[b]
    BY <1>11, <1>t
    DEF PutCount, LoadActive, SetGauges, UpdateMetricsThen, ReturnFromCall
  <2>2. CASE PutCount(c)
    <3>1. held[c] = NoConn
      BY <1>i, <2>2 DEF PutCount, EmptyHands, Owns, MetricPoints
    <3> QED
      BY <1>k, <2>1, <3>1
  <2>3. CASE LoadActive(c) \/ SetGauges(c)
    <3>1. pc[c] \in MetricPoints
      BY <2>3 DEF LoadActive, SetGauges, MetricPoints
    <3>2. CASE after[c] = "holding"
      <4>1. Owns(c)'
        BY <1>t, <2>3, <3>2 DEF LoadActive, SetGauges, ReturnFromCall, Owns, MetricPoints
      <4> QED
        BY <1>k, <2>1, <4>1
    <3>3. CASE after[c] # "holding"
      <4>1. held[c] = NoConn
        BY <1>i, <3>1, <3>3 DEF EmptyHands, Owns, MetricPoints
      <4> QED
        BY <1>k, <2>1, <4>1
    <3> QED
      BY <3>2, <3>3
  <2> QED
    BY <1>11, <2>2, <2>3
<1>12. ASSUME NEW c \in Clients, Get(c) \/ NewRequest(c) PROVE EmptyHands'
  <2>1. /\ open' = open /\ held'[c] = NoConn
        /\ \A b \in Agents \ {c} : pc'[b] = pc[b] /\ held'[b] = held[b] /\ after'[b] = after[b]
    BY <1>12, <1>t DEF Get, NewRequest, LetGo
  <2> QED
    BY <1>k, <2>1
<1>13. ASSUME NEW c \in Clients, Put(c) \/ Discard(c) PROVE EmptyHands'
  <2>1. /\ open' = open
        /\ \/ held'[c] = NoConn
           \/ pc'[c] \in {"check", "close"}
        /\ \A b \in Agents \ {c} : pc'[b] = pc[b] /\ held'[b] = held[b] /\ after'[b] = after[b]
    BY <1>13, <1>t DEF Put, Discard, LetGo, StartClose
  <2>2. Owns(c)' \/ held'[c] = NoConn
    BY <2>1 DEF Owns
  <2> QED
    BY <1>k, <2>1, <2>2
<1>14. CASE MaintainCheck
  <2>1. /\ open' = open
        /\ held'[Maintainer] = NoConn \/ pc'[Maintainer] = "close"
        /\ \A b \in Agents \ {Maintainer} :
             pc'[b] = pc[b] /\ held'[b] = held[b] /\ after'[b] = after[b]
    BY <1>14, <1>t DEF MaintainCheck, ReturnFromCall, StartClose
  <2>2. Owns(Maintainer)' \/ held'[Maintainer] = NoConn
    BY <2>1 DEF Owns
  <2> QED
    BY <1>k, <2>1, <2>2
<1>15. CASE MaintainReinsert
  <2>1. pc[Maintainer] = "reinsert" /\ open' = open
    BY <1>15 DEF MaintainReinsert
  <2>2. held[Maintainer] = NoConn
    BY <1>i, <2>1 DEF EmptyHands, Owns, MetricPoints
  <2>3. /\ held'[Maintainer] = NoConn \/ pc'[Maintainer] = "close"
        /\ \A b \in Agents \ {Maintainer} :
             pc'[b] = pc[b] /\ held'[b] = held[b] /\ after'[b] = after[b]
    BY <1>15, <1>t, <2>2 DEF MaintainReinsert, SendOrClose, StartClose
  <2>4. Owns(Maintainer)' \/ held'[Maintainer] = NoConn
    BY <2>3 DEF Owns
  <2> QED
    BY <1>k, <2>1, <2>3, <2>4
<1>16. CASE MaintainConnections \/ MaintainCount
  <2>1. /\ UNCHANGED <<open, held>>
        /\ \A b \in Agents \ {Maintainer} : pc'[b] = pc[b] /\ after'[b] = after[b]
    BY <1>16, <1>t DEF MaintainConnections, MaintainCount, ReturnFromCall
  <2>2. held[Maintainer] = NoConn
    BY <1>16, <1>i
    DEF MaintainConnections, MaintainCount, EmptyHands, Owns, MetricPoints
  <2> QED
    BY <1>k, <2>1, <2>2
<1>17. CASE Close \/ JoinMaintainer
  <2>1. held[Closer] = NoConn /\ UNCHANGED <<open, held, after>> /\ \E p : GoTo(Closer, p)
    BY <1>17, <1>i DEF Close, JoinMaintainer, EmptyHands, Owns, MetricPoints
  <2> QED
    BY <1>5, <2>1
<1>18. CASE CloseCount
  <2>1. /\ UNCHANGED <<open, held>> /\ pc'[Closer] = "close"
        /\ \A b \in Agents \ {Closer} : pc'[b] = pc[b] /\ after'[b] = after[b]
    BY <1>18, <1>t DEF CloseCount, StartClose
  <2>2. Owns(Closer)'
    BY <2>1 DEF Owns
  <2> QED
    BY <1>k, <2>1, <2>2
<1>19. CASE UNCHANGED poolVars \/ \E c \in Clients : ContextDone(c)
  <2>1. UNCHANGED <<open, held, pc, after>>
    BY <1>19 DEF poolVars, ContextDone
  <2> QED
    BY <1>i, <2>1 DEF EmptyHands, Owns
<1> QED
  <2>1. ASSUME NEW c \in Clients, ClientStep(c) PROVE EmptyHands'
    BY <2>1, <1>1, <1>2, <1>3, <1>6, <1>8, <1>9, <1>10, <1>11, Zenon DEF ClientStep
  <2>2. ASSUME NEW c \in Clients, CallerStep(c) PROVE EmptyHands'
    BY <2>2, <1>12, <1>13, <1>19, Zenon DEF CallerStep
  <2>3. CASE MaintainStep
    BY <2>3, <1>1, <1>2, <1>7, <1>14, <1>15, <1>16, Zenon DEF MaintainStep
  <2>4. CASE CloseStep
    BY <2>4, <1>1, <1>2, <1>7, <1>17, <1>18, Zenon DEF CloseStep
  <2> QED
    BY <2>1, <2>2, <2>3, <2>4, <1>17, <1>19, Zenon DEF PoolNext

(* A channel holds its head and its tail.                                  *)
LEMMA HeadOrTail ==
  ASSUME NEW s \in Seq(Conns), s # <<>>, NEW i \in DOMAIN s
  PROVE  s[i] = Head(s) \/ \E j \in DOMAIN Tail(s) : Tail(s)[j] = s[i]
<1>1. /\ Len(s) \in Nat /\ DOMAIN s = 1 .. Len(s) /\ Head(s) = s[1]
      /\ Tail(s) \in Seq(Conns) /\ Len(Tail(s)) = Len(s) - 1
      /\ \A j \in 1 .. Len(Tail(s)) : Tail(s)[j] = s[j + 1]
  BY EmptySeq, LenProperties, HeadTailProperties
<1>2. DOMAIN Tail(s) = 1 .. Len(Tail(s))
  BY <1>1, LenProperties
<1>3. CASE i = 1
  BY <1>1, <1>3
<1>4. CASE i # 1
  <2>1. i - 1 \in 1 .. Len(Tail(s)) /\ (i - 1) + 1 = i
    BY <1>1, <1>4
  <2> QED
    BY <1>1, <1>2, <2>1
<1> QED
  BY <1>3, <1>4

(* A send adds its connection to the channel and keeps the others.         *)
LEMMA AppendKeeps ==
  ASSUME NEW s \in Seq(Conns), NEW n \in Conns
  PROVE  /\ \E j \in DOMAIN Append(s, n) : Append(s, n)[j] = n
         /\ \A i \in DOMAIN s : \E j \in DOMAIN Append(s, n) : Append(s, n)[j] = s[i]
<1>1. /\ Append(s, n) \in Seq(Conns)
      /\ Len(Append(s, n)) = Len(s) + 1
      /\ \A i \in 1 .. Len(s) : Append(s, n)[i] = s[i]
      /\ Append(s, n)[Len(s) + 1] = n
  BY AppendProperties
<1>2. /\ Len(s) \in Nat /\ DOMAIN s = 1 .. Len(s)
      /\ DOMAIN Append(s, n) = 1 .. (Len(s) + 1)
  BY <1>1, LenProperties
<1> QED
  BY <1>1, <1>2

(* Every step leaves each open connection with an owner, in the channel or *)
(* on the list of the tick.                                                *)
LEMMA LostStep ==
  ASSUME PoolInv, [PoolNext]_poolVars
  PROVE  NothingLost'
<1> USE PoolAssumption, AgentFacts
<1>i. /\ PoolTypeOK /\ ControlInv /\ OwnedOnce /\ NothingLost
      /\ PooledOnce(pool) /\ PooledOnce(validConns)
  BY DEF PoolInv, ExclusiveOwnership
<1>t. /\ pool \in Seq(Conns) /\ validConns \in Seq(Conns)
      /\ pc \in [Agents -> Points]
      /\ held \in [Agents -> Conns \cup {NoConn}]
      /\ after \in [Agents -> ReturnPoints]
      /\ open \subseteq Conns
  BY <1>i DEF PoolTypeOK
<1>k. ASSUME open' \subseteq open, UNCHANGED <<pool, validConns>>,
             \A b \in Agents : Owns(b) /\ held[b] \in open' => Owns(b)' /\ held'[b] = held[b]
      PROVE  NothingLost'
  BY <1>i, <1>k DEF NothingLost
<1>m. ASSUME NEW a \in Agents, NEW n \in Conns,
             \/ Owns(a)' /\ held'[a] = n
             \/ \E i \in DOMAIN pool' : pool'[i] = n
             \/ \E i \in DOMAIN validConns' : validConns'[i] = n,
             open' \subseteq open \cup {n},
             Owns(a) => held[a] = n,
             \A b \in Agents \ {a} : pc'[b] = pc[b] /\ held'[b] = held[b]
                                       /\ after'[b] = after[b],
             \A i \in DOMAIN pool : pool[i] = n \/ \E j \in DOMAIN pool' : pool'[j] = pool[i],
             \A i \in DOMAIN validConns :
               validConns[i] = n \/ \E j \in DOMAIN validConns' : validConns'[j] = validConns[i]
      PROVE  NothingLost'
  <2> SUFFICES ASSUME NEW x \in open', x # n
               PROVE  \/ \E b \in Agents : Owns(b)' /\ held'[b] = x
                      \/ \E i \in DOMAIN pool' : pool'[i] = x
                      \/ \E i \in DOMAIN validConns' : validConns'[i] = x
    BY <1>m DEF NothingLost
  <2>1. CASE \E b \in Agents : Owns(b) /\ held[b] = x
    <3>1. PICK b \in Agents \ {a} : Owns(b) /\ held[b] = x
      BY <1>m, <2>1
    <3>2. Owns(b)' /\ held'[b] = x
      BY <1>m, <3>1 DEF Owns
    <3> QED
      BY <3>2
  <2>2. CASE \E i \in DOMAIN pool : pool[i] = x
    BY <1>m, <2>2
  <2>3. CASE \E i \in DOMAIN validConns : validConns[i] = x
    BY <1>m, <2>3
  <2> QED
    BY <1>i, <1>m, <2>1, <2>2, <2>3 DEF NothingLost
<1> USE DEF GoTo
<1>1. ASSUME NEW a \in Agents, CloseSocket(a) PROVE NothingLost'
  <2>1. /\ Owns(a) /\ open' = open \ {held[a]}
        /\ UNCHANGED <<pool, validConns, held, after>>
        /\ \A b \in Agents \ {a} : pc'[b] = pc[b]
    BY <1>1, <1>t DEF CloseSocket, Owns
  <2>2. \A b \in Agents : Owns(b) /\ held[b] \in open' => Owns(b)' /\ held'[b] = held[b]
    BY <2>1 DEF Owns
  <2> QED
    BY <1>k, <2>1, <2>2
<1>2. ASSUME NEW a \in Agents, ReleaseBudget(a) PROVE NothingLost'
  <2>1. /\ ~Owns(a) /\ UNCHANGED <<open, pool, validConns>>
        /\ \A b \in Agents \ {a} : pc'[b] = pc[b] /\ held'[b] = held[b] /\ after'[b] = after[b]
    BY <1>2, <1>t DEF ReleaseBudget, ReturnFromCall, Owns, MetricPoints
  <2>2. \A b \in Agents : Owns(b) => Owns(b)' /\ held'[b] = held[b]
    BY <2>1 DEF Owns
  <2> QED
    BY <1>k, <2>1, <2>2
<1>3. ASSUME NEW c \in Clients, NEW n \in Conns, DialSucceeds(c, n) PROVE NothingLost'
  <2>1. /\ ~Owns(c) /\ open' = open \cup {n} /\ UNCHANGED <<pool, validConns>>
        /\ \A b \in Agents \ {c} : pc'[b] = pc[b] /\ held'[b] = held[b] /\ after'[b] = after[b]
        /\ held'[c] = n
        /\ pc'[c] = "holding" \/ (pc'[c] = "load" /\ after'[c] = "holding")
    BY <1>3, <1>t DEF DialSucceeds, UpdateMetricsThen, Owns, MetricPoints
  <2>2. Owns(c)'
    BY <2>1 DEF Owns, MetricPoints
  <2> QED
    BY <1>m, <2>1, <2>2
<1>4. ASSUME NEW a \in Agents, ~Owns(a), NEW next, Receive(a, next),
             UNCHANGED <<open, validConns>>
      PROVE  NothingLost'
  <2> DEFINE n == Head(pool)
  <2>1. /\ n \in Conns /\ pool' = Tail(pool)
        /\ \A i \in DOMAIN pool : pool[i] = n \/ \E j \in DOMAIN pool' : pool'[j] = pool[i]
    BY <1>4, <1>t, ReceiveFacts, HeadOrTail DEF Receive
  <2>2. /\ Owns(a)' /\ held'[a] = n
        /\ \A b \in Agents \ {a} : pc'[b] = pc[b] /\ held'[b] = held[b] /\ after'[b] = after[b]
    BY <1>4, <1>t DEF Receive, Owns
  <2> HIDE DEF n
  <2> QED
    BY <1>4, <1>m, <2>1, <2>2
<1>5. ASSUME NEW a \in Agents, ~Owns(a), NEW p, GoTo(a, p),
             UNCHANGED <<open, validConns, pool, held, after>>
      PROVE  NothingLost'
  <2>1. \A b \in Agents : Owns(b) => Owns(b)' /\ held'[b] = held[b]
    BY <1>5, <1>t DEF Owns
  <2> QED
    BY <1>5, <1>k, <2>1
<1>6. ASSUME NEW c \in Clients, TryGetExistingConnection(c) \/ WaitForConnection(c)
      PROVE  NothingLost'
  <2>1. ~Owns(c) /\ UNCHANGED <<open, validConns>>
    BY <1>6 DEF TryGetExistingConnection, WaitForConnection, Owns, MetricPoints
  <2> QED
    BY <1>4, <1>5, <1>6, <2>1 DEF TryGetExistingConnection, WaitForConnection
<1>7. CASE MaintainDrain \/ CloseDrain
  <2>1. PICK a \in {Maintainer, Closer} :
          /\ pc[a] = "drain"
          /\ \/ Receive(a, "drain")
             \/ /\ GoTo(a, "reinsert") \/ GoTo(a, "done")
                /\ UNCHANGED <<pool, held, after>>
    BY <1>7 DEF MaintainDrain, CloseDrain
  <2>2. ~Owns(a) /\ UNCHANGED <<open, validConns>>
    BY <1>7, <2>1 DEF MaintainDrain, CloseDrain, Owns, MetricPoints
  <2> QED
    BY <1>4, <1>5, <2>1, <2>2
<1>8. ASSUME NEW c \in Clients,
             \/ CheckContext(c) \/ LoadBudget(c) \/ ReserveBudget(c) \/ DialFails(c)
             \/ RetryDelay(c)
      PROVE  NothingLost'
  <2>1. /\ ~Owns(c) /\ UNCHANGED <<open, validConns, pool, held, after>>
        /\ \E p : GoTo(c, p)
    BY <1>8
    DEF CheckContext, LoadBudget, ReserveBudget, DialFails, RetryDelay, Owns,
        MetricPoints
  <2> QED
    BY <1>5, <2>1
<1>9. ASSUME NEW c \in Clients,
             ValidateAndPrepareConnection(c) \/ PutCheckClosed(c)
      PROVE  NothingLost'
  <2>1. /\ UNCHANGED <<open, held, pool, validConns>>
        /\ pc'[c] \in {"holding", "close", "send"}
        /\ \A b \in Agents \ {c} : pc'[b] = pc[b] /\ after'[b] = after[b]
    BY <1>9, <1>t DEF ValidateAndPrepareConnection, PutCheckClosed, StartClose
  <2>2. \A b \in Agents : Owns(b) => Owns(b)' /\ held'[b] = held[b]
    BY <2>1 DEF Owns
  <2> QED
    BY <1>k, <2>1, <2>2
<1>10. ASSUME NEW c \in Clients, PutSend(c) PROVE NothingLost'
  <2>1. Owns(c) /\ UNCHANGED <<validConns, open>> /\ held[c] \in open /\ held[c] \in Conns
    BY <1>10, <1>i, <1>t DEF PutSend, Owns, OwnedOnce
  <2>2. CASE /\ pool' = Append(pool, held[c])
             /\ \A b \in Agents \ {c} : pc'[b] = pc[b] /\ held'[b] = held[b] /\ after'[b] = after[b]
    <3> DEFINE n == held[c]
    <3>1. /\ \E j \in DOMAIN pool' : pool'[j] = n
          /\ \A i \in DOMAIN pool : \E j \in DOMAIN pool' : pool'[j] = pool[i]
      <4>1. n \in Conns /\ pool \in Seq(Conns) /\ pool' = Append(pool, n)
        BY <1>t, <2>1, <2>2
      <4> HIDE DEF n
      <4> QED
        BY <4>1, AppendKeeps
    <3>2. n \in Conns /\ open' \subseteq open \cup {n} /\ held[c] = n
      BY <2>1
    <3> HIDE DEF n
    <3> QED
      BY <1>m, <2>1, <2>2, <3>1, <3>2
  <2>3. CASE /\ pool' = pool /\ held'[c] = held[c] /\ pc'[c] = "close"
             /\ \A b \in Agents \ {c} : pc'[b] = pc[b] /\ held'[b] = held[b] /\ after'[b] = after[b]
    <3>1. \A b \in Agents : Owns(b) => Owns(b)' /\ held'[b] = held[b]
      BY <2>3 DEF Owns
    <3> QED
      BY <1>k, <2>1, <2>3, <3>1
  <2> QED
    BY <1>10, <1>t, <2>2, <2>3 DEF PutSend, SendOrClose, StartClose
<1>11. ASSUME NEW c \in Clients, PutCount(c) \/ LoadActive(c) \/ SetGauges(c)
       PROVE  NothingLost'
  <2>1. /\ UNCHANGED <<open, held, pool, validConns>>
        /\ \A b \in Agents \ {c} : pc'[b] = pc[b] /\ after'[b] = after[b]
    BY <1>11, <1>t
    DEF PutCount, LoadActive, SetGauges, UpdateMetricsThen, ReturnFromCall
  <2>2. Owns(c) => Owns(c)'
    BY <1>11, <1>t
    DEF PutCount, LoadActive, SetGauges, ReturnFromCall, Owns, MetricPoints
  <2>3. \A b \in Agents : Owns(b) => Owns(b)' /\ held'[b] = held[b]
    BY <2>1, <2>2 DEF Owns
  <2> QED
    BY <1>k, <2>1, <2>3
<1>12. ASSUME NEW c \in Clients, Get(c) \/ NewRequest(c) PROVE NothingLost'
  <2>1. /\ ~Owns(c) /\ UNCHANGED <<open, pool, validConns>>
        /\ \A b \in Agents \ {c} : pc'[b] = pc[b] /\ held'[b] = held[b] /\ after'[b] = after[b]
    BY <1>12, <1>t DEF Get, NewRequest, LetGo, Owns, MetricPoints
  <2>2. \A b \in Agents : Owns(b) => Owns(b)' /\ held'[b] = held[b]
    BY <2>1 DEF Owns
  <2> QED
    BY <1>k, <2>1, <2>2
<1>13. ASSUME NEW c \in Clients, Put(c) \/ Discard(c) PROVE NothingLost'
  <2>1. /\ UNCHANGED <<open, pool, validConns>> /\ pc[c] \in {"holding", "discarded"}
        /\ \/ AlreadyDiscarded(held[c])
           \/ pc'[c] \in {"check", "close"} /\ held'[c] = held[c]
        /\ \A b \in Agents \ {c} : pc'[b] = pc[b] /\ held'[b] = held[b] /\ after'[b] = after[b]
    BY <1>13, <1>t DEF Put, Discard, LetGo, StartClose
  <2>2. Owns(c) => ~AlreadyDiscarded(held[c])
    BY <1>i, <2>1 DEF ControlInv, AlreadyDiscarded
  <2>3. \A b \in Agents : Owns(b) => Owns(b)' /\ held'[b] = held[b]
    BY <2>1, <2>2 DEF Owns
  <2> QED
    BY <1>k, <2>1, <2>3
<1>14. CASE MaintainCheck
  <2>1. Owns(Maintainer) /\ UNCHANGED <<pool, open>> /\ held[Maintainer] \in open
    BY <1>14, <1>i DEF MaintainCheck, Owns, OwnedOnce
  <2>2. CASE validConns' = Append(validConns, held[Maintainer])
             /\ held' = [held EXCEPT ![Maintainer] = NoConn]
             /\ ReturnFromCall(Maintainer)
    <3> DEFINE n == held[Maintainer]
    <3>1. /\ \E j \in DOMAIN validConns' : validConns'[j] = n
          /\ \A i \in DOMAIN validConns :
               \E j \in DOMAIN validConns' : validConns'[j] = validConns[i]
      <4>1. n \in Conns /\ validConns \in Seq(Conns) /\ validConns' = Append(validConns, n)
        BY <1>t, <2>1, <2>2
      <4> HIDE DEF n
      <4> QED
        BY <4>1, AppendKeeps
    <3>2. \A b \in Agents \ {Maintainer} :
            pc'[b] = pc[b] /\ held'[b] = held[b] /\ after'[b] = after[b]
      BY <1>t, <2>2 DEF ReturnFromCall
    <3>3. n \in Conns /\ open' \subseteq open \cup {n} /\ held[Maintainer] = n
      BY <1>t, <2>1
    <3> HIDE DEF n
    <3> QED
      BY <1>m, <2>1, <3>1, <3>2, <3>3
  <2>3. CASE StartClose(Maintainer, "drain") /\ UNCHANGED <<held, validConns>>
    <3>1. \A b \in Agents : Owns(b) => Owns(b)' /\ held'[b] = held[b]
      BY <1>t, <2>3 DEF StartClose, Owns
    <3> QED
      BY <1>k, <2>1, <2>3, <3>1
  <2> QED
    BY <1>14, <2>2, <2>3 DEF MaintainCheck
<1>15. CASE MaintainReinsert
  <2>1. pc[Maintainer] = "reinsert" /\ ~Owns(Maintainer) /\ open' = open
    BY <1>15 DEF MaintainReinsert, Owns, MetricPoints
  <2>2. CASE validConns = <<>>
    <3>1. GoTo(Maintainer, "idle") /\ UNCHANGED <<pool, held, after, validConns>>
      BY <1>15, <2>2 DEF MaintainReinsert
    <3> QED
      BY <1>5, <2>1, <3>1
  <2>3. CASE validConns # <<>>
    <3> DEFINE n == Head(validConns)
    <3>1. /\ n \in Conns /\ validConns' = Tail(validConns)
          /\ \A i \in DOMAIN validConns :
               validConns[i] = n \/ \E j \in DOMAIN validConns' : validConns'[j] = validConns[i]
      BY <1>15, <1>t, <2>3, ReceiveFacts, HeadOrTail DEF MaintainReinsert
    <3>2. SendOrClose(Maintainer, n, "reinsert")
      BY <1>15, <2>3 DEF MaintainReinsert
    <3> HIDE DEF n
    <3>3. /\ \A b \in Agents \ {Maintainer} :
               pc'[b] = pc[b] /\ held'[b] = held[b] /\ after'[b] = after[b]
          /\ \/ pool' = Append(pool, n)
             \/ pool' = pool /\ held'[Maintainer] = n /\ pc'[Maintainer] = "close"
      BY <1>t, <3>1, <3>2 DEF SendOrClose, StartClose
    <3>4. /\ \/ Owns(Maintainer)' /\ held'[Maintainer] = n
             \/ \E i \in DOMAIN pool' : pool'[i] = n
          /\ \A i \in DOMAIN pool : \E j \in DOMAIN pool' : pool'[j] = pool[i]
      <4>1. CASE pool' = Append(pool, n)
        <5>1. /\ \E j \in DOMAIN Append(pool, n) : Append(pool, n)[j] = n
              /\ \A i \in DOMAIN pool :
                   \E j \in DOMAIN Append(pool, n) : Append(pool, n)[j] = pool[i]
          BY <1>t, <3>1, AppendKeeps
        <5> QED
          BY <4>1, <5>1
      <4>2. CASE pool' = pool /\ held'[Maintainer] = n /\ pc'[Maintainer] = "close"
        BY <4>2 DEF Owns
      <4> QED
        BY <3>3, <4>1, <4>2
    <3> QED
      BY <1>m, <2>1, <3>1, <3>3, <3>4
  <2> QED
    BY <2>2, <2>3
<1>16. CASE MaintainConnections \/ MaintainCount
  <2>1. /\ ~Owns(Maintainer) /\ UNCHANGED <<open, held, pool, validConns>>
        /\ \A b \in Agents \ {Maintainer} : pc'[b] = pc[b] /\ after'[b] = after[b]
    BY <1>16, <1>t
    DEF MaintainConnections, MaintainCount, ReturnFromCall, Owns, MetricPoints
  <2>2. \A b \in Agents : Owns(b) => Owns(b)' /\ held'[b] = held[b]
    BY <2>1 DEF Owns
  <2> QED
    BY <1>k, <2>1, <2>2
<1>17. CASE Close \/ JoinMaintainer
  <2>1. /\ ~Owns(Closer) /\ UNCHANGED <<open, validConns, pool, held, after>>
        /\ \E p : GoTo(Closer, p)
    BY <1>17 DEF Close, JoinMaintainer, Owns, MetricPoints
  <2> QED
    BY <1>5, <2>1
<1>18. CASE CloseCount
  <2>1. /\ UNCHANGED <<open, held, pool, validConns>> /\ pc'[Closer] = "close"
        /\ \A b \in Agents \ {Closer} : pc'[b] = pc[b] /\ after'[b] = after[b]
    BY <1>18, <1>t DEF CloseCount, StartClose
  <2>2. \A b \in Agents : Owns(b) => Owns(b)' /\ held'[b] = held[b]
    BY <2>1 DEF Owns
  <2> QED
    BY <1>k, <2>1, <2>2
<1>19. CASE UNCHANGED poolVars \/ \E c \in Clients : ContextDone(c)
  <2>1. UNCHANGED <<open, held, pc, after, pool, validConns>>
    BY <1>19 DEF poolVars, ContextDone
  <2> QED
    BY <1>i, <2>1 DEF NothingLost, Owns
<1> QED
  <2>1. ASSUME NEW c \in Clients, ClientStep(c) PROVE NothingLost'
    BY <2>1, <1>1, <1>2, <1>3, <1>6, <1>8, <1>9, <1>10, <1>11, Zenon DEF ClientStep
  <2>2. ASSUME NEW c \in Clients, CallerStep(c) PROVE NothingLost'
    BY <2>2, <1>12, <1>13, <1>19, Zenon DEF CallerStep
  <2>3. CASE MaintainStep
    BY <2>3, <1>1, <1>2, <1>7, <1>14, <1>15, <1>16, Zenon DEF MaintainStep
  <2>4. CASE CloseStep
    BY <2>4, <1>1, <1>2, <1>7, <1>17, <1>18, Zenon DEF CloseStep
  <2> QED
    BY <2>1, <2>2, <2>3, <2>4, <1>17, <1>19, Zenon DEF PoolNext

(* Every step leaves the list of the tick empty when the tick is over.     *)
LEMMA TickStep ==
  ASSUME PoolInv, [PoolNext]_poolVars
  PROVE  TickEndsEmpty'
<1> USE PoolAssumption, AgentFacts
<1>i. /\ TickEndsEmpty /\ pc \in [Agents -> Points] /\ after \in [Agents -> ReturnPoints]
  BY DEF PoolInv, PoolTypeOK
<1>k. ASSUME UNCHANGED validConns, pc'[Maintainer] = pc[Maintainer],
             after'[Maintainer] = after[Maintainer]
      PROVE  TickEndsEmpty'
  BY <1>i, <1>k DEF TickEndsEmpty
<1> USE DEF GoTo, ReturnFromCall, StartClose, LetGo, Receive, SendOrClose,
            UpdateMetricsThen
<1>1. ASSUME NEW a \in Agents, CloseSocket(a) \/ ReleaseBudget(a) PROVE TickEndsEmpty'
  <2>1. CASE a = Maintainer
    BY <1>1, <1>i, <2>1 DEF CloseSocket, ReleaseBudget, TickEndsEmpty, ClosePoints
  <2>2. CASE a # Maintainer
    BY <1>1, <1>i, <1>k, <2>2 DEF CloseSocket, ReleaseBudget
  <2> QED
    BY <2>1, <2>2
<1>2. ASSUME NEW c \in Clients,
             \/ TryGetExistingConnection(c) \/ ValidateAndPrepareConnection(c)
             \/ CheckContext(c) \/ LoadBudget(c) \/ ReserveBudget(c)
             \/ (\E n \in Conns : DialSucceeds(c, n)) \/ DialFails(c)
      PROVE  TickEndsEmpty'
  BY <1>2, <1>i, <1>k
  DEF TryGetExistingConnection, ValidateAndPrepareConnection, CheckContext, LoadBudget,
      ReserveBudget, DialSucceeds, DialFails
<1>3. ASSUME NEW c \in Clients,
             \/ RetryDelay(c) \/ WaitForConnection(c) \/ PutCheckClosed(c) \/ PutSend(c)
             \/ PutCount(c) \/ LoadActive(c) \/ SetGauges(c)
      PROVE  TickEndsEmpty'
  BY <1>3, <1>i, <1>k
  DEF RetryDelay, WaitForConnection, PutCheckClosed, PutSend, PutCount, LoadActive,
      SetGauges
<1>4. ASSUME NEW c \in Clients, CallerStep(c) PROVE TickEndsEmpty'
  BY <1>4, <1>i, <1>k DEF CallerStep, NewRequest, ContextDone, Get, Put, Discard
<1>5. CASE MaintainConnections \/ MaintainDrain \/ MaintainCheck
  BY <1>5, <1>i
  DEF MaintainConnections, MaintainDrain, MaintainCheck, TickEndsEmpty, ClosePoints
<1>6. CASE MaintainReinsert
  BY <1>6, <1>i DEF MaintainReinsert, TickEndsEmpty, ClosePoints
<1>7. CASE MaintainCount
  BY <1>7, <1>i DEF MaintainCount, TickEndsEmpty, ClosePoints
<1>8. CASE Close \/ JoinMaintainer \/ CloseDrain \/ CloseCount \/ UNCHANGED poolVars
  BY <1>8, <1>i, <1>k DEF Close, JoinMaintainer, CloseDrain, CloseCount, poolVars
<1> QED
  <2>1. ASSUME NEW c \in Clients, ClientStep(c) PROVE TickEndsEmpty'
    BY <2>1, <1>1, <1>2, <1>3, Zenon DEF ClientStep
  <2>2. CASE MaintainStep
    BY <2>2, <1>1, <1>5, <1>6, <1>7, Zenon DEF MaintainStep
  <2>3. CASE CloseStep
    BY <2>3, <1>1, <1>8, Zenon DEF CloseStep
  <2> QED
    BY <2>1, <2>2, <2>3, <1>4, <1>8, Zenon DEF PoolNext

-----------------------------------------------------------------------------
(* The pool starts empty, with nothing owed and nothing owned.             *)
LEMMA InitPoolInv == PoolInit => PoolInv
<1> SUFFICES ASSUME PoolInit PROVE PoolInv
  OBVIOUS
<1> USE PoolAssumption
<1>1. PoolTypeOK
  <2>1. closed \in BOOLEAN /\ ctxDone \in [Clients -> BOOLEAN]
    BY Zenon DEF PoolInit
  <2>2. /\ pc \in [Agents -> Points]
        /\ held \in [Agents -> Conns \cup {NoConn}]
        /\ after \in [Agents -> ReturnPoints]
    BY DEF PoolInit, Points, ClientPoints, ReturnPoints
  <2>3. pool \in Seq(Conns) /\ validConns \in Seq(Conns)
    BY DEF PoolInit
  <2>4. /\ attempt \in [Clients -> 0 .. MaxRetries - 1]
        /\ seen \in [Clients -> Int]
        /\ gauge \in [active : Int, idle : Int, total : Int]
    BY DEF PoolInit
  <2> QED
    BY <2>1, <2>2, <2>3, <2>4 DEF PoolInit, PoolTypeOK
<1>2. \A a \in Agents : pc[a] = "idle" /\ ~Owns(a)
  BY DEF PoolInit, Owns, MetricPoints
<1>3. ControlInv
  BY <1>2 DEF ControlInv, MetricPoints, ClosePoints
<1>4. ExclusiveOwnership /\ NoBrokenPooled
  <2>1. DOMAIN pool = {} /\ DOMAIN validConns = {}
    BY DEF PoolInit
  <2> QED
    BY <1>2, <2>1 DEF ExclusiveOwnership, OwnedOnce, PooledOnce, NoBrokenPooled
<1>5. BudgetExact /\ activeConns <= MaxConnections
  <2>1. open = {} /\ Owing = {} /\ activeConns = 0
    BY <1>2 DEF PoolInit, Owing
  <2>2. Cardinality({}) = 0
    BY FS_EmptySet
  <2> QED
    BY <2>1, <2>2 DEF BudgetExact
<1>6. EmptyHands /\ NothingLost /\ TickEndsEmpty
  BY <1>2 DEF PoolInit, EmptyHands, NothingLost, TickEndsEmpty, ClosePoints, Agents
<1> QED
  BY <1>1, <1>3, <1>4, <1>5, <1>6 DEF PoolInv

(* PoolInv is inductive: no operation of a client, of the maintenance      *)
(* goroutine or of Close breaks types, control, ownership or budget.       *)
THEOREM PoolInvariant == PoolSpec => []PoolInv
<1>1. PoolInit => PoolInv
  BY InitPoolInv
<1>2. PoolInv /\ [PoolNext]_poolVars => PoolInv'
  <2> SUFFICES ASSUME PoolInv, [PoolNext]_poolVars PROVE PoolInv'
    OBVIOUS
  <2>1. PoolTypeOK'
    BY PoolTypeStep DEF PoolInv
  <2>2. ControlInv'
    BY ControlStep
  <2>3. ExclusiveOwnership'
    BY OwnershipStep
  <2>4. NoBrokenPooled'
    BY NoBrokenStep
  <2>5. BudgetExact' /\ activeConns' <= MaxConnections
    BY BudgetStep
  <2>6. EmptyHands'
    BY HandsStep
  <2>7. NothingLost'
    BY LostStep
  <2>8. TickEndsEmpty'
    BY TickStep
  <2> QED
    BY <2>1, <2>2, <2>3, <2>4, <2>5, <2>6, <2>7, <2>8 DEF PoolInv
<1> QED
  BY <1>1, <1>2, PTL DEF PoolSpec

(* The pool's variables keep their types; in particular the attempt        *)
(* counter of Get stays below MaxRetries, so that its loop ends.           *)
THEOREM PoolTypeCorrect == PoolSpec => []PoolTypeOK
<1>1. PoolInv => PoolTypeOK
  BY DEF PoolInv
<1> QED
  BY <1>1, PoolInvariant, PTL

(* activeConns never drifts from the sockets it stands for.                *)
THEOREM BudgetStaysExact == PoolSpec => []BudgetExact
<1>1. PoolInv => BudgetExact
  BY DEF PoolInv
<1> QED
  BY <1>1, PoolInvariant, PTL

(* The reservation loop of tryCreateNewConnection is a correct semaphore:  *)
(* there are never more than MaxConnections sockets, counting those that   *)
(* are on their way to being closed.                                       *)
THEOREM BudgetNeverExceeded == PoolSpec => []BudgetRespected
<1>1. PoolInv => BudgetRespected
  <2> SUFFICES ASSUME PoolInv PROVE BudgetRespected
    OBVIOUS
  <2>1. Cardinality(open) \in Nat /\ Cardinality(Owing) \in Nat
    BY BudgetSetsFinite DEF PoolInv
  <2> QED
    BY <2>1, PoolAssumption DEF PoolInv, BudgetExact, BudgetRespected
<1> QED
  BY <1>1, PoolInvariant, PTL

(* No LDAP connection is ever in two hands, in a hand and in the channel,  *)
(* or twice in the channel.                                                *)
THEOREM OwnershipStaysExclusive == PoolSpec => []ExclusiveOwnership
<1>1. PoolInv => ExclusiveOwnership
  BY DEF PoolInv
<1> QED
  BY <1>1, PoolInvariant, PTL

(* Neither the channel nor a client that Get has returned to ever has a    *)
(* connection that is closed or was discarded.                             *)
THEOREM DeadConnectionsNeverLent == PoolSpec => []NoDeadConnection
<1>1. PoolInv => NoDeadConnection
  <2> SUFFICES ASSUME PoolInv PROVE NoDeadConnection
    OBVIOUS
  <2>1. \A i \in DOMAIN pool : pool[i] \in open \ broken
    BY DEF PoolInv, ExclusiveOwnership, PooledOnce, NoBrokenPooled
  <2>2. ASSUME NEW c \in Clients, pc[c] = "holding"
        PROVE  held[c] \in open \ broken
    <3>1. c \in Agents /\ Owns(c)
      BY <2>2, AgentFacts DEF Owns
    <3> QED
      BY <2>2, <3>1 DEF PoolInv, ExclusiveOwnership, OwnedOnce, ControlInv
  <2> QED
    BY <2>1, <2>2 DEF NoDeadConnection
<1> QED
  BY <1>1, PoolInvariant, PTL

(* A pool whose connections are all open and different, and not the open   *)
(* connection n, has a free slot.                                          *)
LEMMA RoomInChannel ==
  ASSUME PoolInv, NEW n \in open, \A i \in DOMAIN pool : pool[i] # n
  PROVE  Len(pool) < MaxConnections
<1> DEFINE rest == open \ {n}
<1>1. /\ Len(pool) \in Nat
      /\ pool \in [1 .. Len(pool) -> Conns]
      /\ DOMAIN pool = 1 .. Len(pool)
  BY LenProperties DEF PoolInv, PoolTypeOK
<1>2. /\ IsFiniteSet(open)
      /\ Cardinality(open) \in Nat
      /\ Cardinality(Owing) \in Nat
  BY BudgetSetsFinite DEF PoolInv
<1>3. IsFiniteSet(rest) /\ Cardinality(rest) = Cardinality(open) - 1
  BY <1>2, FS_RemoveElement
<1>4. \A i \in DOMAIN pool : pool[i] \in rest
  BY DEF PoolInv, ExclusiveOwnership, PooledOnce
<1>5. pool \in Injection(1 .. Len(pool), rest)
  <2>1. pool \in [1 .. Len(pool) -> rest]
    BY <1>1, <1>4
  <2>2. \A i, j \in 1 .. Len(pool) : pool[i] = pool[j] => i = j
    BY <1>1 DEF PoolInv, ExclusiveOwnership, PooledOnce
  <2> QED
    BY <2>1, <2>2 DEF Injection, IsInjective
<1>6. Cardinality(1 .. Len(pool)) <= Cardinality(rest)
  BY <1>3, <1>5, FS_Injection
<1>7. Cardinality(1 .. Len(pool)) = Len(pool)
  BY <1>1, FS_Interval
<1>8. Cardinality(open) <= MaxConnections
  BY <1>2, PoolAssumption DEF PoolInv, BudgetExact
<1> QED
  BY <1>1, <1>2, <1>3, <1>6, <1>7, <1>8, PoolAssumption

(* A send never finds the channel full, so Put and the maintenance tick    *)
(* never close a healthy connection for want of room.                      *)
THEOREM SendAlwaysHasRoom == PoolSpec => []ChannelNeverFull
<1>1. PoolInv => ChannelNeverFull
  <2> SUFFICES ASSUME PoolInv PROVE ChannelNeverFull
    OBVIOUS
  <2>1. ASSUME NEW c \in Clients, pc[c] = "send"
        PROVE  Len(pool) < MaxConnections
    <3>1. c \in Agents /\ Owns(c)
      BY <2>1, AgentFacts DEF Owns
    <3>2. held[c] \in open /\ \A i \in DOMAIN pool : pool[i] # held[c]
      BY <3>1 DEF PoolInv, ExclusiveOwnership, OwnedOnce, PooledOnce
    <3> QED
      BY <3>2, RoomInChannel
  <2>2. ASSUME validConns # <<>>
        PROVE  Len(pool) < MaxConnections
    <3>1. 1 \in DOMAIN validConns
      BY <2>2, ReceiveFacts DEF PoolInv, PoolTypeOK
    <3>2. validConns[1] \in open /\ \A i \in DOMAIN pool : pool[i] # validConns[1]
      BY <3>1 DEF PoolInv, ExclusiveOwnership, PooledOnce
    <3> QED
      BY <3>2, RoomInChannel
  <2> QED
    BY <2>1, <2>2 DEF ChannelNeverFull
<1> QED
  BY <1>1, PoolInvariant, PTL

-----------------------------------------------------------------------------
(* Two sets of goroutines that differ on one of them at most.              *)
LEMMA PointCount ==
  ASSUME NEW a \in Agents, NEW old \in SUBSET Agents, NEW new \in SUBSET Agents,
         \A b \in Agents \ {a} : b \in new <=> b \in old
  PROVE  /\ Cardinality(old) \in Nat
         /\ a \in new /\ a \notin old => Cardinality(new) = Cardinality(old) + 1
         /\ a \notin new /\ a \in old => Cardinality(new) = Cardinality(old) - 1
         /\ (a \in new <=> a \in old) => Cardinality(new) = Cardinality(old)
<1>2. IsFiniteSet(old) /\ Cardinality(old) \in Nat
  BY AgentsFinite, FS_Subset, FS_CardinalityType
<1>3. ASSUME a \in new, a \notin old PROVE Cardinality(new) = Cardinality(old) + 1
  <2>1. new = old \cup {a}
    BY <1>3
  <2> QED
    BY <1>2, <1>3, <2>1, FS_AddElement
<1>4. ASSUME a \notin new, a \in old PROVE Cardinality(new) = Cardinality(old) - 1
  <2>1. new = old \ {a}
    BY <1>4
  <2> QED
    BY <1>2, <1>4, <2>1, FS_RemoveElement
<1>5. ASSUME a \in new <=> a \in old PROVE Cardinality(new) = Cardinality(old)
  <2>1. new = old
    BY <1>5
  <2> QED
    BY <2>1
<1> QED
  BY <1>2, <1>3, <1>4, <1>5

(* A step of one goroutine to point p keeps the equation when poolSize and *)
(* the length of the channel change with the points it leaves and enters.  *)
LEMMA SizeMoves ==
  ASSUME PoolTypeOK, PoolSizeExact, NEW a \in Agents, NEW p, GoTo(a, p),
         \/ /\ p = "inc" /\ pc[a] \notin {"inc", "size"}
            /\ poolSize' = poolSize /\ Len(pool') = Len(pool) + 1
         \/ /\ p = "size" /\ pc[a] \notin {"inc", "size"}
            /\ poolSize' = poolSize /\ Len(pool') = Len(pool) - 1
         \/ /\ p \notin {"inc", "size"} /\ pc[a] = "inc"
            /\ poolSize' = poolSize + 1 /\ Len(pool') = Len(pool)
         \/ /\ p \notin {"inc", "size"} /\ pc[a] = "size"
            /\ poolSize' = poolSize - 1 /\ Len(pool') = Len(pool)
         \/ /\ p \notin {"inc", "size"} /\ pc[a] \notin {"inc", "size"}
            /\ poolSize' = poolSize /\ Len(pool') = Len(pool)
  PROVE  PoolSizeExact'
<1> DEFINE inc == {b \in Agents : pc[b] = "inc"}
           incNext == {b \in Agents : pc'[b] = "inc"}
           size == {b \in Agents : pc[b] = "size"}
           sizeNext == {b \in Agents : pc'[b] = "size"}
<1>0. pc'[a] = p /\ \A b \in Agents \ {a} : pc'[b] = pc[b]
  BY DEF PoolTypeOK, GoTo
<1>1. /\ inc \in SUBSET Agents /\ incNext \in SUBSET Agents
      /\ \A b \in Agents \ {a} : b \in incNext <=> b \in inc
      /\ a \in inc <=> pc[a] = "inc"
      /\ a \in incNext <=> p = "inc"
  BY <1>0
<1>2. /\ size \in SUBSET Agents /\ sizeNext \in SUBSET Agents
      /\ \A b \in Agents \ {a} : b \in sizeNext <=> b \in size
      /\ a \in size <=> pc[a] = "size"
      /\ a \in sizeNext <=> p = "size"
  BY <1>0
<1>3. poolSize \in Int /\ Len(pool) \in Nat
  BY LenProperties DEF PoolTypeOK
<1>4. poolSize + Cardinality(inc) = Len(pool) + Cardinality(size)
  BY DEF PoolSizeExact
<1>5. PoolSizeExact' <=> poolSize' + Cardinality(incNext) = Len(pool') + Cardinality(sizeNext)
  BY DEF PoolSizeExact
<1> HIDE DEF inc, incNext, size, sizeNext
<1>6. /\ Cardinality(inc) \in Nat
      /\ a \in incNext /\ a \notin inc => Cardinality(incNext) = Cardinality(inc) + 1
      /\ a \notin incNext /\ a \in inc => Cardinality(incNext) = Cardinality(inc) - 1
      /\ (a \in incNext <=> a \in inc) => Cardinality(incNext) = Cardinality(inc)
  BY <1>1, PointCount
<1>7. /\ Cardinality(size) \in Nat
      /\ a \in sizeNext /\ a \notin size => Cardinality(sizeNext) = Cardinality(size) + 1
      /\ a \notin sizeNext /\ a \in size => Cardinality(sizeNext) = Cardinality(size) - 1
      /\ (a \in sizeNext <=> a \in size) => Cardinality(sizeNext) = Cardinality(size)
  BY <1>2, PointCount
<1>8. poolSize' + Cardinality(incNext) = Len(pool') + Cardinality(sizeNext)
  BY <1>1, <1>2, <1>3, <1>4, <1>6, <1>7
<1> QED
  BY <1>5, <1>8

(* Every step keeps poolSize exact up to the operations under way.         *)
LEMMA SizeStep ==
  ASSUME PoolInv, PoolSizeExact, [PoolNext]_poolVars
  PROVE  PoolSizeExact'
<1> USE PoolAssumption, AgentFacts
<1>i. /\ PoolTypeOK /\ pool \in Seq(Conns) /\ poolSize \in Int /\ Len(pool) \in Nat
      /\ \A a \in Agents : after[a] \notin {"inc", "size"}
  BY LenProperties DEF PoolInv, PoolTypeOK, ReturnPoints
<1>k. ASSUME NEW a \in Agents, NEW p, GoTo(a, p), UNCHANGED <<pool, poolSize>>,
             p \notin {"inc", "size"}, pc[a] \notin {"inc", "size"}
      PROVE  PoolSizeExact'
  <2>1. poolSize' = poolSize /\ Len(pool') = Len(pool)
    BY <1>i, <1>k
  <2> QED
    BY <1>i, <1>k, <2>1, SizeMoves
<1>r. ASSUME NEW a \in Agents, NEW next, Receive(a, next), poolSize' = poolSize,
             pc[a] \notin {"inc", "size"}
      PROVE  PoolSizeExact'
  <2>1. Len(pool') = Len(pool) - 1 /\ poolSize' = poolSize
    <3>1. pool # <<>> /\ pool' = Tail(pool)
      BY <1>r DEF Receive
    <3>2. Tail(pool) \in Seq(Conns) /\ Len(Tail(pool)) = Len(pool) - 1
      BY <1>i, <3>1, HeadTailProperties
    <3> QED
      BY <1>i, <1>r, <3>1, <3>2
  <2>2. GoTo(a, "size")
    BY <1>r DEF Receive
  <2> QED
    BY <1>i, <1>r, <2>1, <2>2, SizeMoves
<1>s. ASSUME NEW a \in Agents, NEW n \in Conns, NEW next, SendOrClose(a, n, next),
             poolSize' = poolSize, pc[a] \notin {"inc", "size"}
      PROVE  PoolSizeExact'
  <2>1. CASE Len(pool) < MaxConnections
    <3>1. pool' = Append(pool, n) /\ GoTo(a, "inc")
      BY <1>s, <2>1 DEF SendOrClose
    <3>2. Len(pool') = Len(pool) + 1 /\ poolSize' = poolSize
      BY <1>i, <1>s, <3>1, AppendProperties
    <3> QED
      BY <1>i, <1>s, <3>1, <3>2, SizeMoves
  <2>2. CASE ~(Len(pool) < MaxConnections)
    <3>1. pool' = pool /\ GoTo(a, "close")
      BY <1>s, <2>2 DEF SendOrClose, StartClose
    <3> QED
      BY <1>k, <1>s, <3>1
  <2> QED
    BY <2>1, <2>2
<1>d. ASSUME NEW a \in Agents, NEW p, GoTo(a, p), pool' = pool, poolSize' = poolSize - 1,
             pc[a] = "size", p \notin {"inc", "size"}
      PROVE  PoolSizeExact'
  <2>1. poolSize' = poolSize - 1 /\ Len(pool') = Len(pool)
    BY <1>d, <1>i
  <2> QED
    BY <1>d, <1>i, <2>1, SizeMoves
<1>e. ASSUME NEW a \in Agents, NEW p, GoTo(a, p), pool' = pool, poolSize' = poolSize + 1,
             pc[a] = "inc", p \notin {"inc", "size"}
      PROVE  PoolSizeExact'
  <2>1. poolSize' = poolSize + 1 /\ Len(pool') = Len(pool)
    BY <1>e, <1>i
  <2> QED
    BY <1>e, <1>i, <2>1, SizeMoves
<1>1. ASSUME NEW a \in Agents, CloseSocket(a) \/ ReleaseBudget(a) PROVE PoolSizeExact'
  BY <1>1, <1>i, <1>k DEF CloseSocket, ReleaseBudget, ReturnFromCall
<1>2. ASSUME NEW c \in Clients, TryGetExistingConnection(c) \/ WaitForConnection(c)
      PROVE  PoolSizeExact'
  BY <1>2, <1>k, <1>r DEF TryGetExistingConnection, WaitForConnection
<1>3. ASSUME NEW c \in Clients, ValidateAndPrepareConnection(c) PROVE PoolSizeExact'
  BY <1>3, <1>d DEF ValidateAndPrepareConnection, StartClose
<1>4. ASSUME NEW c \in Clients,
             \/ CheckContext(c) \/ LoadBudget(c) \/ ReserveBudget(c)
             \/ (\E n \in Conns : DialSucceeds(c, n)) \/ DialFails(c) \/ RetryDelay(c)
      PROVE  PoolSizeExact'
  <2>1. /\ pc[c] \notin {"inc", "size"} /\ UNCHANGED <<pool, poolSize>>
        /\ \E p : GoTo(c, p) /\ p \notin {"inc", "size"}
    BY <1>4
    DEF CheckContext, LoadBudget, ReserveBudget, DialSucceeds, DialFails, RetryDelay,
        UpdateMetricsThen
  <2> QED
    BY <1>k, <2>1
<1>5. ASSUME NEW c \in Clients, PutCheckClosed(c) PROVE PoolSizeExact'
  BY <1>5, <1>k DEF PutCheckClosed, StartClose
<1>6. ASSUME NEW c \in Clients, PutSend(c) PROVE PoolSizeExact'
  <2>1. held[c] \in Conns /\ pc[c] = "send" /\ poolSize' = poolSize
    BY <1>6 DEF PutSend, PoolInv, PoolTypeOK, ExclusiveOwnership, OwnedOnce, Owns
  <2> QED
    BY <1>6, <1>k, <1>s, <2>1 DEF PutSend, StartClose
<1>7. ASSUME NEW c \in Clients, PutCount(c) PROVE PoolSizeExact'
  BY <1>7, <1>e DEF PutCount, UpdateMetricsThen
<1>8. ASSUME NEW c \in Clients, LoadActive(c) \/ SetGauges(c) PROVE PoolSizeExact'
  BY <1>8, <1>i, <1>k DEF LoadActive, SetGauges, ReturnFromCall
<1>9. ASSUME NEW c \in Clients, Get(c) \/ NewRequest(c) \/ Put(c) \/ Discard(c)
      PROVE  PoolSizeExact'
  <2>1. /\ pc[c] \notin {"inc", "size"} /\ UNCHANGED <<pool, poolSize>>
        /\ \E p : GoTo(c, p) /\ p \notin {"inc", "size"}
    BY <1>9 DEF Get, NewRequest, Put, Discard, LetGo, StartClose
  <2> QED
    BY <1>k, <2>1
<1>10. CASE MaintainConnections \/ MaintainDrain
  BY <1>10, <1>k, <1>r DEF MaintainConnections, MaintainDrain
<1>11. CASE MaintainCheck
  BY <1>11, <1>d, <1>i DEF MaintainCheck, ReturnFromCall, StartClose
<1>12. CASE MaintainReinsert
  <2>1. pc[Maintainer] = "reinsert" /\ poolSize' = poolSize
    BY <1>12 DEF MaintainReinsert
  <2>2. CASE validConns = <<>>
    BY <1>12, <1>k, <2>1, <2>2 DEF MaintainReinsert
  <2>3. CASE validConns # <<>>
    <3>1. SendOrClose(Maintainer, Head(validConns), "reinsert")
      BY <1>12, <2>3 DEF MaintainReinsert
    <3>2. Head(validConns) \in Conns
      BY <2>3, ReceiveFacts DEF PoolInv, PoolTypeOK
    <3> QED
      BY <1>s, <2>1, <3>1, <3>2
  <2> QED
    BY <2>2, <2>3
<1>13. CASE MaintainCount
  BY <1>13, <1>e, <1>i DEF MaintainCount, ReturnFromCall
<1>14. CASE Close \/ JoinMaintainer \/ CloseDrain
  BY <1>14, <1>k, <1>r DEF Close, JoinMaintainer, CloseDrain
<1>15. CASE CloseCount
  BY <1>15, <1>d DEF CloseCount, StartClose
<1>16. CASE UNCHANGED poolVars \/ \E c \in Clients : ContextDone(c)
  BY <1>16 DEF PoolSizeExact, poolVars, ContextDone
<1> QED
  <2>1. ASSUME NEW c \in Clients, ClientStep(c) PROVE PoolSizeExact'
    BY <2>1, <1>1, <1>2, <1>3, <1>4, <1>5, <1>6, <1>7, <1>8, Zenon DEF ClientStep
  <2>2. ASSUME NEW c \in Clients, CallerStep(c) PROVE PoolSizeExact'
    BY <2>2, <1>9, <1>16, Zenon DEF CallerStep
  <2>3. CASE MaintainStep
    BY <2>3, <1>1, <1>10, <1>11, <1>12, <1>13, Zenon DEF MaintainStep
  <2>4. CASE CloseStep
    BY <2>4, <1>1, <1>14, <1>15, Zenon DEF CloseStep
  <2> QED
    BY <2>1, <2>2, <2>3, <2>4, <1>14, <1>16, Zenon DEF PoolNext

(* pool_operations.go:108: the reported size never drifts from the channel *)
(* it describes: it is off by the operations between their channel step    *)
(* and their counter step, and by nothing else.                            *)
THEOREM SizeStaysExact == PoolSpec => []PoolSizeExact
<1>1. PoolInit => PoolSizeExact
  <2> SUFFICES ASSUME PoolInit PROVE PoolSizeExact
    OBVIOUS
  <2>1. /\ {a \in Agents : pc[a] = "inc"} = {} /\ {a \in Agents : pc[a] = "size"} = {}
        /\ poolSize = 0 /\ Len(pool) = 0
    BY DEF PoolInit
  <2> QED
    BY <2>1 DEF PoolSizeExact
<1>2. PoolInv /\ PoolSizeExact /\ [PoolNext]_poolVars => PoolSizeExact'
  BY SizeStep
<1> QED
  BY <1>1, <1>2, PoolInvariant, PTL DEF PoolSpec

-----------------------------------------------------------------------------
(* The pool implements ConnectionLending.  What a client has on loan it    *)
(* owns; loans are exclusive and never of a condemned connection.          *)
LEMMA LoanFacts ==
  ASSUME PoolInv
  PROVE  /\ NoConn \notin open /\ open \in SUBSET Conns
         /\ Condemned \subseteq open
         /\ \A c \in Clients : LentTo(c) # NoConn
              => /\ Owns(c) /\ pc[c] # "close" /\ held[c] = LentTo(c)
                 /\ LentTo(c) \in open \ Condemned
         /\ \A c, d \in Clients : c # d /\ LentTo(c) # NoConn => LentTo(d) # LentTo(c)
<1> USE PoolAssumption, AgentFacts
<1>1. NoConn \notin open /\ open \in SUBSET Conns
  BY DEF PoolInv, PoolTypeOK
<1>2. Condemned \subseteq open
  BY DEF Condemned, PoolInv, ExclusiveOwnership, OwnedOnce, Owns
<1>3. ASSUME NEW c \in Clients, LentTo(c) # NoConn
      PROVE  /\ Owns(c) /\ pc[c] # "close" /\ held[c] = LentTo(c)
             /\ LentTo(c) \in open \ Condemned
  <2>1. /\ pc[c] \in {"holding", "load", "gauges", "check", "send"}
        /\ held[c] = LentTo(c)
    BY <1>3 DEF LentTo, LoanPoints, MetricPoints
  <2>2. Owns(c)
    BY <1>3, <2>1 DEF PoolInv, EmptyHands
  <2>3. held[c] \in open
    BY <2>2 DEF PoolInv, ExclusiveOwnership, OwnedOnce
  <2>4. held[c] \notin Condemned
    BY <2>1, <2>2 DEF Condemned, PoolInv, ExclusiveOwnership, OwnedOnce, Owns
  <2> QED
    BY <2>1, <2>2, <2>3, <2>4
<1>4. ASSUME NEW c \in Clients, NEW d \in Clients, c # d, LentTo(c) # NoConn
      PROVE  LentTo(d) # LentTo(c)
  <2>1. Owns(c) /\ held[c] = LentTo(c)
    BY <1>3, <1>4
  <2>2. CASE LentTo(d) # NoConn
    <3>1. Owns(d) /\ held[d] = LentTo(d)
      BY <1>3, <2>2
    <3> QED
      BY <1>4, <2>1, <3>1 DEF PoolInv, ExclusiveOwnership, OwnedOnce
  <2> QED
    BY <1>4, <2>2
<1> QED
  BY <1>1, <1>2, <1>3, <1>4

(* Membership in the set of idle connections, before and after a step.     *)
LEMMA IdleIs ==
  /\ \A n : n \in IdleConns <=>
       n \in open /\ n \notin Condemned /\ \A c \in Clients : LentTo(c) # n
  /\ \A n : n \in IdleConns' <=>
       n \in open' /\ n \notin Condemned' /\ \A c \in Clients : LentTo(c)' # n
BY DEF IdleConns

(* The loan map changes for one client.                                    *)
LEMMA LoanMoves ==
  ASSUME NEW c \in Clients, NEW n, LentTo(c)' = n,
         \A d \in Clients \ {c} : LentTo(d)' = LentTo(d)
  PROVE  /\ LentConns[c] = LentTo(c)
         /\ LentConns' = [LentConns EXCEPT ![c] = n]
BY DEF LentConns

LEMMA LoansKept ==
  ASSUME \A d \in Clients : LentTo(d)' = LentTo(d)
  PROVE  LentConns' = LentConns
BY DEF LentConns

(* The steps of the lending specification, from what the pool does to the  *)
(* loans, the open sockets and the condemned connections.                  *)
LEMMA StepReturn ==
  ASSUME PoolInv, NEW c \in Clients, LentTo(c) # NoConn, LentTo(c)' = NoConn,
         \A d \in Clients \ {c} : LentTo(d)' = LentTo(d),
         open' = open, Condemned' = Condemned
  PROVE  Lending!Return(c)
<1>1. LentConns[c] = LentTo(c) /\ LentConns' = [LentConns EXCEPT ![c] = NoConn]
  BY LoanMoves
<1>2. IdleConns' = IdleConns \cup {LentTo(c)}
  <2>1. \A n : n \in IdleConns' <=> n \in IdleConns \cup {LentTo(c)}
    BY LoanFacts, IdleIs
  <2> QED
    BY <2>1
<1> QED
  BY <1>1, <1>2 DEF Lending!Return

LEMMA StepDrop ==
  ASSUME PoolInv, NEW c \in Clients, LentTo(c) # NoConn, LentTo(c)' = NoConn,
         \A d \in Clients \ {c} : LentTo(d)' = LentTo(d),
         open' = open, Condemned' = Condemned \cup {LentTo(c)}
  PROVE  Lending!Drop(c)
<1>1. LentConns[c] = LentTo(c) /\ LentConns' = [LentConns EXCEPT ![c] = NoConn]
  BY LoanMoves
<1>2. IdleConns' = IdleConns
  <2>1. \A n : n \in IdleConns' <=> n \in IdleConns
    BY LoanFacts, IdleIs
  <2> QED
    BY <2>1
<1> QED
  BY <1>1, <1>2 DEF Lending!Drop

LEMMA StepLend ==
  ASSUME PoolInv, NEW c \in Clients, NEW n \in IdleConns,
         LentTo(c) = NoConn, LentTo(c)' = n,
         \A d \in Clients \ {c} : LentTo(d)' = LentTo(d),
         open' = open, Condemned' = Condemned
  PROVE  Lending!Lend(c, n)
<1>1. LentConns[c] = LentTo(c) /\ LentConns' = [LentConns EXCEPT ![c] = n]
  BY LoanMoves
<1>2. IdleConns' = IdleConns \ {n}
  <2>1. \A m : m \in IdleConns' <=> m \in IdleConns \ {n}
    BY LoanFacts, IdleIs
  <2> QED
    BY <2>1
<1> QED
  BY <1>1, <1>2 DEF Lending!Lend

LEMMA StepEvict ==
  ASSUME PoolInv, NEW n \in IdleConns, \A d \in Clients : LentTo(d)' = LentTo(d),
         open' = open, Condemned' = Condemned \cup {n}
  PROVE  Lending!Evict(n)
<1>1. LentConns' = LentConns
  BY LoansKept
<1>2. IdleConns' = IdleConns \ {n}
  <2>1. \A m : m \in IdleConns' <=> m \in IdleConns \ {n}
    BY IdleIs
  <2> QED
    BY <2>1
<1> QED
  BY <1>1, <1>2 DEF Lending!Evict

LEMMA StepShut ==
  ASSUME PoolInv, NEW n \in Condemned, \A d \in Clients : LentTo(d)' = LentTo(d),
         open' = open \ {n}, Condemned' = Condemned \ {n}
  PROVE  Lending!Shut(n)
<1>1. LentConns' = LentConns
  BY LoansKept
<1>2. IdleConns' = IdleConns
  <2>1. \A m : m \in IdleConns' <=> m \in IdleConns
    BY IdleIs
  <2> QED
    BY <2>1
<1> QED
  BY <1>1, <1>2 DEF Lending!Shut

LEMMA StepOpen ==
  ASSUME PoolInv, NEW c \in Clients, NEW n \in Conns \ open,
         LentTo(c) = NoConn, LentTo(c)' = n,
         \A d \in Clients \ {c} : LentTo(d)' = LentTo(d),
         open' = open \cup {n}, Condemned' = Condemned,
         Cardinality(open) < MaxConnections
  PROVE  Lending!Open(c, n)
<1>1. LentConns[c] = LentTo(c) /\ LentConns' = [LentConns EXCEPT ![c] = n]
  BY LoanMoves
<1>2. IdleConns' = IdleConns
  <2>1. \A m : m \in IdleConns' <=> m \in IdleConns
    BY LoanFacts, IdleIs
  <2> QED
    BY <2>1
<1>3. Lending!Existing = open
  <2>1. \A m : m \in Lending!Existing <=>
          \/ m \in IdleConns \/ m \in Condemned
          \/ m # NoConn /\ \E d \in Clients : m = LentTo(d)
    BY DEF Lending!Existing, Lending!Lent, LentConns
  <2>2. \A m : m \in Lending!Existing <=> m \in open
    BY <2>1, LoanFacts, IdleIs
  <2> QED
    BY <2>2
<1>4. Lending!Cardinality(open) = Cardinality(open)
  BY Zenon DEF Lending!Cardinality, Cardinality
<1> QED
  BY <1>1, <1>2, <1>3, <1>4 DEF Lending!Open

LEMMA StepStutter ==
  ASSUME \A d \in Clients : LentTo(d)' = LentTo(d), open' = open, Condemned' = Condemned
  PROVE  UNCHANGED Lending!lendingVars
<1>1. LentConns' = LentConns
  BY LoansKept
<1>2. IdleConns' = IdleConns
  <2>1. \A m : m \in IdleConns' <=> m \in IdleConns
    BY IdleIs
  <2> QED
    BY <2>1
<1> QED
  BY <1>1, <1>2 DEF Lending!lendingVars


(* A step of one goroutine changes the loan of no other.                   *)
LEMMA LoanOfMover ==
  ASSUME PoolTypeOK, NEW a \in Agents, NEW p, GoTo(a, p),
         \A b \in Agents \ {a} : held'[b] = held[b]
  PROVE  /\ \A d \in Clients \ {a} : LentTo(d)' = LentTo(d)
         /\ p \in LoanPoints => LentTo(a)' = held'[a]
         /\ p \notin LoanPoints => LentTo(a)' = NoConn
         /\ pc[a] \in LoanPoints => LentTo(a) = held[a]
         /\ pc[a] \notin LoanPoints => LentTo(a) = NoConn
<1>1. pc'[a] = p /\ \A b \in Agents \ {a} : pc'[b] = pc[b]
  BY DEF PoolTypeOK, GoTo
<1> QED
  BY <1>1, AgentFacts DEF LentTo

(* The condemned connections change with the goroutine that enters or      *)
(* leaves closeConnectionWithReason.                                       *)
LEMMA CondemnedOfMover ==
  ASSUME PoolInv, NEW a \in Agents, NEW p, GoTo(a, p),
         \A b \in Agents \ {a} : held'[b] = held[b]
  PROVE  /\ pc[a] # "close" /\ p # "close" => Condemned' = Condemned
         /\ pc[a] # "close" /\ p = "close" => Condemned' = Condemned \cup {held'[a]}
         /\ pc[a] = "close" /\ p # "close" => Condemned' = Condemned \ {held[a]}
<1>1. pc'[a] = p /\ \A b \in Agents \ {a} : pc'[b] = pc[b]
  BY DEF PoolInv, PoolTypeOK, GoTo
<1>2. \A n : n \in Condemned <=> \E b \in Agents : pc[b] = "close" /\ held[b] = n
  BY DEF Condemned
<1>3. \A n : n \in Condemned' <=> \E b \in Agents : pc'[b] = "close" /\ held'[b] = n
  BY DEF Condemned
<1>4. \A b \in Agents \ {a} : pc[a] = "close" /\ pc[b] = "close" => held[b] # held[a]
  BY DEF PoolInv, ExclusiveOwnership, OwnedOnce, Owns
<1> HIDE DEF Condemned
<1>5. ASSUME pc[a] # "close", p # "close" PROVE Condemned' = Condemned
  <2>1. \A n : n \in Condemned' <=> n \in Condemned
    BY <1>1, <1>2, <1>3, <1>5
  <2> QED
    BY <2>1
<1>6. ASSUME pc[a] # "close", p = "close" PROVE Condemned' = Condemned \cup {held'[a]}
  <2>1. \A n : n \in Condemned' <=> n \in Condemned \cup {held'[a]}
    BY <1>1, <1>2, <1>3, <1>6
  <2> QED
    BY <2>1
<1>7. ASSUME pc[a] = "close", p # "close" PROVE Condemned' = Condemned \ {held[a]}
  <2>1. \A n : n \in Condemned' <=> n \in Condemned \ {held[a]}
    BY <1>1, <1>2, <1>3, <1>4, <1>7
  <2> QED
    BY <2>1
<1> QED
  BY <1>5, <1>6, <1>7

(* A connection just received, and one on the list of the tick, is idle.   *)
LEMMA IdleWhenReceived ==
  ASSUME PoolInv, NEW a \in Agents, pc[a] = "size"
  PROVE  held[a] \in IdleConns
<1>1. Owns(a) /\ held[a] \in open
  BY DEF Owns, PoolInv, ExclusiveOwnership, OwnedOnce
<1>2. held[a] \notin Condemned
  BY <1>1 DEF Condemned, Owns, PoolInv, ExclusiveOwnership, OwnedOnce
<1>3. ASSUME NEW c \in Clients, LentTo(c) = held[a] PROVE FALSE
  <2>1. LentTo(c) # NoConn
    BY <1>1, <1>3, LoanFacts
  <2>2. Owns(c) /\ held[c] = held[a]
    BY <1>3, <2>1, LoanFacts
  <2>3. c # a
    BY <2>1 DEF LentTo, LoanPoints, MetricPoints
  <2> QED
    BY <1>1, <2>2, <2>3, AgentFacts DEF PoolInv, ExclusiveOwnership, OwnedOnce
<1> QED
  BY <1>1, <1>2, <1>3, IdleIs

LEMMA IdleWhenListed ==
  ASSUME PoolInv, NEW i \in DOMAIN validConns
  PROVE  validConns[i] \in IdleConns
<1>1. /\ validConns[i] \in open
      /\ \A a \in Agents : Owns(a) => held[a] # validConns[i]
  BY DEF PoolInv, ExclusiveOwnership, PooledOnce
<1>2. validConns[i] \notin Condemned
  BY <1>1 DEF Condemned, Owns
<1>3. \A c \in Clients : LentTo(c) # validConns[i]
  BY <1>1, LoanFacts, AgentFacts
<1> QED
  BY <1>1, <1>2, <1>3, IdleIs


(* Every step of the pool is a step of the lending specification or leaves *)
(* its state alone.                                                        *)
LEMMA LendingStep ==
  ASSUME PoolInv, [PoolNext]_poolVars
  PROVE  [Lending!LendingNext]_(Lending!lendingVars)
<1> USE PoolAssumption, AgentFacts
<1> DEFINE Goal == Lending!LendingNext \/ UNCHANGED Lending!lendingVars
<1>i. /\ PoolTypeOK
      /\ held \in [Agents -> Conns \cup {NoConn}] /\ pc \in [Agents -> Points]
      /\ \A a \in Agents : after[a] \in ReturnPoints
  BY DEF PoolInv, PoolTypeOK
<1>p. LoanPoints = {"holding", "check", "send", "load", "gauges"}
  BY DEF LoanPoints, MetricPoints
<1>q. ASSUME NEW a \in Agents, NEW p, GoTo(a, p), p # "close", pc[a] # "close",
             \A b \in Agents \ {a} : held'[b] = held[b], open' = open,
             a \in Clients =>
               \/ p \in LoanPoints /\ pc[a] \in LoanPoints /\ held'[a] = held[a]
               \/ p \notin LoanPoints /\ pc[a] \notin LoanPoints
               \/ p \notin LoanPoints /\ held[a] = NoConn
      PROVE  Goal
  <2>1. Condemned' = Condemned
    BY <1>q, CondemnedOfMover
  <2>2. /\ \A d \in Clients \ {a} : LentTo(d)' = LentTo(d)
        /\ p \in LoanPoints => LentTo(a)' = held'[a]
        /\ p \notin LoanPoints => LentTo(a)' = NoConn
        /\ pc[a] \in LoanPoints => LentTo(a) = held[a]
        /\ pc[a] \notin LoanPoints => LentTo(a) = NoConn
    BY <1>i, <1>q, LoanOfMover
  <2>3. a \in Clients => LentTo(a)' = LentTo(a)
    BY <1>q, <2>2
  <2>4. \A d \in Clients : LentTo(d)' = LentTo(d)
    BY <2>2, <2>3
  <2> QED
    BY <1>q, <2>1, <2>4, StepStutter
<1>e. ASSUME NEW a \in Agents, GoTo(a, "close"), pc[a] \notin LoanPoints, pc[a] # "close",
             \A b \in Agents \ {a} : held'[b] = held[b], open' = open,
             held'[a] \in IdleConns
      PROVE  Goal
  <2>1. Condemned' = Condemned \cup {held'[a]}
    BY <1>e, CondemnedOfMover
  <2>2. \A d \in Clients : LentTo(d)' = LentTo(d)
    <3>1. /\ \A d \in Clients \ {a} : LentTo(d)' = LentTo(d)
          /\ "close" \notin LoanPoints => LentTo(a)' = NoConn
          /\ pc[a] \notin LoanPoints => LentTo(a) = NoConn
      BY <1>e, <1>i, LoanOfMover
    <3> QED
      BY <1>e, <1>p, <3>1
  <2>3. PICK n : n = held'[a]
    OBVIOUS
  <2>4. n \in IdleConns /\ n \in Conns /\ Condemned' = Condemned \cup {n}
    BY <1>e, <2>1, <2>3, IdleIs, LoanFacts
  <2>5. Lending!Evict(n)
    BY <1>e, <2>2, <2>4, StepEvict
  <2> QED
    BY <2>4, <2>5 DEF Lending!LendingNext
<1>d. ASSUME NEW c \in Clients, GoTo(c, "close"), pc[c] \in {"holding", "check", "send"},
             held' = held, open' = open
      PROVE  Goal
  <2>1. Owns(c) /\ held[c] \in open
    BY <1>d DEF Owns, PoolInv, ExclusiveOwnership, OwnedOnce
  <2>2. Condemned' = Condemned \cup {held[c]}
    BY <1>d, CondemnedOfMover
  <2>3. /\ \A d \in Clients \ {c} : LentTo(d)' = LentTo(d)
        /\ LentTo(c)' = NoConn /\ LentTo(c) = held[c]
    <3>1. /\ \A d \in Clients \ {c} : LentTo(d)' = LentTo(d)
          /\ "close" \notin LoanPoints => LentTo(c)' = NoConn
          /\ pc[c] \in LoanPoints => LentTo(c) = held[c]
      BY <1>d, <1>i, LoanOfMover
    <3> QED
      BY <1>d, <1>p, <3>1
  <2>4. LentTo(c) # NoConn /\ Condemned' = Condemned \cup {LentTo(c)}
    BY <2>1, <2>2, <2>3, LoanFacts
  <2>5. Lending!Drop(c)
    BY <1>d, <2>3, <2>4, StepDrop
  <2> QED
    BY <2>5 DEF Lending!LendingNext
<1>1. ASSUME NEW a \in Agents, CloseSocket(a) PROVE Goal
  <2>1. pc[a] = "close" /\ GoTo(a, "dec") /\ held' = held /\ open' = open \ {held[a]}
    BY <1>1 DEF CloseSocket
  <2>2. Condemned' = Condemned \ {held[a]}
    BY <2>1, CondemnedOfMover
  <2>3. \A d \in Clients : LentTo(d)' = LentTo(d)
    <3>1. /\ \A d \in Clients \ {a} : LentTo(d)' = LentTo(d)
          /\ "dec" \notin LoanPoints => LentTo(a)' = NoConn
          /\ pc[a] \notin LoanPoints => LentTo(a) = NoConn
      BY <1>i, <2>1, LoanOfMover
    <3> QED
      BY <1>p, <2>1, <3>1
  <2>4. held[a] \in Condemned /\ held[a] \in Conns
    BY <2>1 DEF Condemned, PoolInv, PoolTypeOK, ExclusiveOwnership, OwnedOnce, Owns
  <2>5. Lending!Shut(held[a])
    BY <2>1, <2>2, <2>3, <2>4, StepShut
  <2> QED
    BY <2>4, <2>5 DEF Lending!LendingNext
<1>2. ASSUME NEW a \in Agents, ReleaseBudget(a) PROVE Goal
  <2>1. /\ pc[a] = "dec" /\ GoTo(a, after[a]) /\ open' = open
        /\ \A b \in Agents \ {a} : held'[b] = held[b]
    BY <1>2, <1>i DEF ReleaseBudget, ReturnFromCall
  <2>2. after[a] \notin LoanPoints /\ after[a] # "close"
    BY <1>i, <1>p, <2>1 DEF ReturnPoints, PoolInv, ControlInv
  <2> QED
    BY <1>p, <1>q, <2>1, <2>2
<1>3. ASSUME NEW a \in Agents, NEW next, Receive(a, next), open' = open,
             pc[a] \notin LoanPoints \cup {"close"}
      PROVE  Goal
  BY <1>3, <1>i, <1>p, <1>q DEF Receive
<1>4. ASSUME NEW c \in Clients, TryGetExistingConnection(c) \/ WaitForConnection(c)
      PROVE  Goal
  <2>1. pc[c] \in {"try", "wait"} /\ open' = open
    BY <1>4 DEF TryGetExistingConnection, WaitForConnection
  <2>2. \/ \E next : Receive(c, next)
        \/ held' = held /\ \E p \in {"ctx", "failed"} : GoTo(c, p)
    BY <1>4 DEF TryGetExistingConnection, WaitForConnection
  <2>3. CASE \E next : Receive(c, next)
    BY <1>3, <1>p, <2>1, <2>3
  <2>4. CASE held' = held /\ \E p \in {"ctx", "failed"} : GoTo(c, p)
    BY <1>p, <1>q, <2>1, <2>4
  <2> QED
    BY <2>2, <2>3, <2>4
<1>5. ASSUME NEW c \in Clients, ValidateAndPrepareConnection(c) PROVE Goal
  <2>1. pc[c] = "size" /\ held' = held /\ open' = open /\ held[c] \in IdleConns
    BY <1>5, IdleWhenReceived DEF ValidateAndPrepareConnection
  <2>2. CASE GoTo(c, "holding")
    <3>1. Condemned' = Condemned
      BY <2>1, <2>2, CondemnedOfMover
    <3>2. /\ \A d \in Clients \ {c} : LentTo(d)' = LentTo(d)
          /\ "holding" \in LoanPoints => LentTo(c)' = held'[c]
          /\ pc[c] \notin LoanPoints => LentTo(c) = NoConn
      BY <1>i, <2>1, <2>2, LoanOfMover
    <3>3. LentTo(c)' = held[c] /\ LentTo(c) = NoConn /\ held[c] \in Conns
      BY <1>p, <2>1, <3>2, IdleIs, LoanFacts
    <3>4. Lending!Lend(c, held[c])
      BY <2>1, <3>1, <3>2, <3>3, StepLend
    <3> QED
      BY <3>3, <3>4 DEF Lending!LendingNext
  <2>3. CASE GoTo(c, "close")
    BY <1>e, <1>p, <2>1, <2>3
  <2> QED
    BY <1>5, <2>2, <2>3 DEF ValidateAndPrepareConnection, StartClose
<1>6. ASSUME NEW c \in Clients,
             \/ CheckContext(c) \/ LoadBudget(c) \/ ReserveBudget(c)
             \/ DialFails(c) \/ RetryDelay(c)
      PROVE  Goal
  <2>1. /\ pc[c] \in {"ctx", "reserve", "cas", "dial", "delay"}
        /\ held' = held /\ open' = open
        /\ \E p \in {"failed", "reserve", "wait", "delay", "cas", "dial", "try"} : GoTo(c, p)
    BY <1>6 DEF CheckContext, LoadBudget, ReserveBudget, DialFails, RetryDelay
  <2> QED
    BY <1>p, <1>q, <2>1
<1>7. ASSUME NEW c \in Clients, NEW n \in Conns, DialSucceeds(c, n) PROVE Goal
  <2>1. /\ pc[c] = "dial" /\ n \notin open /\ open' = open \cup {n}
        /\ held' = [held EXCEPT ![c] = n]
        /\ \E p \in {"holding", "load"} : GoTo(c, p)
    BY <1>7 DEF DialSucceeds, Fresh, UpdateMetricsThen
  <2>2. PICK p \in {"holding", "load"} : GoTo(c, p)
    BY <2>1
  <2>3. held'[c] = n /\ \A b \in Agents \ {c} : held'[b] = held[b]
    BY <1>i, <2>1
  <2>4. Condemned' = Condemned
    BY <2>1, <2>2, <2>3, CondemnedOfMover
  <2>5. /\ \A d \in Clients \ {c} : LentTo(d)' = LentTo(d)
        /\ p \in LoanPoints => LentTo(c)' = held'[c]
        /\ pc[c] \notin LoanPoints => LentTo(c) = NoConn
    BY <1>i, <2>2, <2>3, LoanOfMover
  <2>6. LentTo(c)' = n /\ LentTo(c) = NoConn
    BY <1>p, <2>1, <2>2, <2>3, <2>5
  <2>7. Cardinality(open) < MaxConnections
    <3>1. c \in Owing
      BY <2>1 DEF Owing
    <3>2. /\ IsFiniteSet(open) /\ Cardinality(open) \in Nat
          /\ IsFiniteSet(Owing) /\ Cardinality(Owing) \in Nat
      BY BudgetSetsFinite DEF PoolInv
    <3>3. Cardinality(Owing) # 0
      BY <3>1, <3>2, FS_EmptySet
    <3>4. /\ activeConns = Cardinality(open) + Cardinality(Owing)
          /\ activeConns <= MaxConnections
      BY DEF PoolInv, BudgetExact
    <3> QED
      BY <3>2, <3>3, <3>4
  <2>8. Lending!Open(c, n)
    BY <2>1, <2>4, <2>5, <2>6, <2>7, StepOpen
  <2> QED
    BY <2>8 DEF Lending!LendingNext
<1>8. ASSUME NEW c \in Clients, PutCheckClosed(c) PROVE Goal
  BY <1>8, <1>d, <1>p, <1>q DEF PutCheckClosed, StartClose
<1>9. ASSUME NEW c \in Clients, PutSend(c) PROVE Goal
  <2>1. pc[c] = "send" /\ open' = open
    BY <1>9 DEF PutSend
  <2>2. CASE GoTo(c, "inc") /\ held' = [held EXCEPT ![c] = NoConn]
    <3>1. held'[c] = NoConn /\ \A b \in Agents \ {c} : held'[b] = held[b]
      BY <1>i, <2>2
    <3>2. Condemned' = Condemned
      BY <2>1, <2>2, <3>1, CondemnedOfMover
    <3>3. /\ \A d \in Clients \ {c} : LentTo(d)' = LentTo(d)
          /\ "inc" \notin LoanPoints => LentTo(c)' = NoConn
          /\ pc[c] \in LoanPoints => LentTo(c) = held[c]
      BY <1>i, <2>2, <3>1, LoanOfMover
    <3>4. held[c] \in open
      BY <2>1 DEF Owns, PoolInv, ExclusiveOwnership, OwnedOnce
    <3>5. LentTo(c)' = NoConn /\ LentTo(c) # NoConn
      BY <1>p, <2>1, <3>3, <3>4, LoanFacts
    <3>6. Lending!Return(c)
      BY <2>1, <3>2, <3>3, <3>5, StepReturn
    <3> QED
      BY <3>6 DEF Lending!LendingNext
  <2>3. CASE GoTo(c, "close") /\ held' = held
    BY <1>d, <2>1, <2>3
  <2>4. [held EXCEPT ![c] = held[c]] = held
    BY <1>i
  <2> QED
    BY <1>9, <2>2, <2>3, <2>4 DEF PutSend, SendOrClose, StartClose
<1>10. ASSUME NEW c \in Clients, PutCount(c) PROVE Goal
  <2>1. /\ pc[c] = "inc" /\ held' = held /\ open' = open
        /\ \E p \in {"idle", "load"} : GoTo(c, p)
    BY <1>10 DEF PutCount, UpdateMetricsThen
  <2>2. held[c] = NoConn
    BY <2>1 DEF PoolInv, EmptyHands, Owns, MetricPoints
  <2>3. \A d \in Clients : LentTo(d)' = LentTo(d)
    <3>1. PICK p \in {"idle", "load"} : GoTo(c, p)
      BY <2>1
    <3>2. /\ \A d \in Clients \ {c} : LentTo(d)' = LentTo(d)
          /\ p \in LoanPoints => LentTo(c)' = held'[c]
          /\ p \notin LoanPoints => LentTo(c)' = NoConn
          /\ pc[c] \notin LoanPoints => LentTo(c) = NoConn
      BY <1>i, <2>1, <3>1, LoanOfMover
    <3> QED
      BY <1>p, <2>1, <2>2, <3>2
  <2>4. Condemned' = Condemned
    BY <2>1, CondemnedOfMover
  <2> QED
    BY <2>1, <2>3, <2>4, StepStutter
<1>11. ASSUME NEW c \in Clients, LoadActive(c) PROVE Goal
  BY <1>11, <1>p, <1>q DEF LoadActive
<1>12. ASSUME NEW c \in Clients, SetGauges(c) PROVE Goal
  <2>1. pc[c] = "gauges" /\ held' = held /\ open' = open /\ GoTo(c, after[c])
    BY <1>12 DEF SetGauges, ReturnFromCall
  <2>2. after[c] = "holding" \/ held[c] = NoConn
    BY <2>1 DEF PoolInv, EmptyHands, Owns, MetricPoints
  <2>3. after[c] # "close" /\ (after[c] # "holding" => after[c] \notin LoanPoints)
    BY <1>i, <1>p DEF ReturnPoints
  <2> QED
    BY <1>p, <1>q, <2>1, <2>2, <2>3
<1>13. ASSUME NEW c \in Clients, Get(c) \/ NewRequest(c) PROVE Goal
  <2>1. /\ pc[c] \in {"idle", "discarded", "failed"} /\ open' = open
        /\ held' = [held EXCEPT ![c] = NoConn]
        /\ \E p \in {"idle", "failed", "try"} : GoTo(c, p)
    BY <1>13 DEF Get, NewRequest, LetGo
  <2> QED
    BY <1>i, <1>p, <1>q, <2>1
<1>14. ASSUME NEW c \in Clients, Put(c) \/ Discard(c) PROVE Goal
  <2>1. pc[c] \in {"holding", "discarded"} /\ open' = open
    BY <1>14 DEF Put, Discard
  <2>2. pc[c] = "holding" => ~AlreadyDiscarded(held[c])
    BY DEF PoolInv, ControlInv, Owns, AlreadyDiscarded
  <2>3. pc[c] = "discarded" => AlreadyDiscarded(held[c])
    BY DEF PoolInv, ControlInv, AlreadyDiscarded
  <2>4. CASE pc[c] = "holding"
    <3>1. held' = held /\ (GoTo(c, "check") \/ GoTo(c, "close"))
      BY <1>14, <2>2, <2>4 DEF Put, Discard, StartClose
    <3> QED
      BY <1>d, <1>p, <1>q, <2>1, <2>4, <3>1
  <2>5. CASE pc[c] = "discarded"
    <3>1. GoTo(c, "idle") /\ held' = [held EXCEPT ![c] = NoConn]
      BY <1>14, <2>3, <2>5 DEF Put, Discard, LetGo
    <3> QED
      BY <1>i, <1>p, <1>q, <2>1, <2>5, <3>1
  <2> QED
    BY <2>1, <2>4, <2>5
<1>15. ASSUME UNCHANGED poolVars \/ \E c \in Clients : ContextDone(c) PROVE Goal
  <2>1. open' = open /\ pc' = pc /\ held' = held
    BY <1>15 DEF poolVars, ContextDone
  <2>2. Condemned' = Condemned /\ \A d \in Clients : LentTo(d)' = LentTo(d)
    BY <2>1 DEF Condemned, LentTo
  <2> QED
    BY <2>1, <2>2, StepStutter
<1>16. ASSUME \/ MaintainConnections \/ MaintainDrain \/ MaintainCount
              \/ Close \/ JoinMaintainer \/ CloseDrain
       PROVE  Goal
  <2>1. CASE \/ MaintainConnections \/ Close \/ JoinMaintainer
    <3>1. /\ held' = held /\ open' = open
          /\ \E b \in {Maintainer, Closer} :
               /\ pc[b] \in {"idle", "join"}
               /\ \E p \in {"exited", "drain", "join"} : GoTo(b, p)
      BY <2>1 DEF MaintainConnections, Close, JoinMaintainer
    <3> QED
      BY <1>p, <1>q, <3>1
  <2>2. CASE MaintainDrain \/ CloseDrain
    <3>1. /\ open' = open
          /\ \E b \in {Maintainer, Closer} :
               /\ pc[b] = "drain"
               /\ \/ Receive(b, "drain")
                  \/ held' = held /\ \E p \in {"reinsert", "done"} : GoTo(b, p)
      BY <2>2 DEF MaintainDrain, CloseDrain
    <3> QED
      BY <1>3, <1>p, <1>q, <3>1
  <2>3. CASE MaintainCount
    <3>1. /\ held' = held /\ open' = open /\ pc[Maintainer] = "inc"
          /\ GoTo(Maintainer, after[Maintainer])
      BY <2>3 DEF MaintainCount, ReturnFromCall
    <3>2. after[Maintainer] # "close"
      BY <1>i DEF ReturnPoints
    <3> QED
      BY <1>q, <3>1, <3>2
  <2> QED
    BY <1>16, <2>1, <2>2, <2>3
<1>17. ASSUME MaintainCheck \/ CloseCount PROVE Goal
  <2>1. PICK a \in {Maintainer, Closer} :
          /\ pc[a] = "size" /\ open' = open
          /\ \/ GoTo(a, "close") /\ held' = held
             \/ GoTo(a, after[a]) /\ held' = [held EXCEPT ![a] = NoConn]
    BY <1>17 DEF MaintainCheck, CloseCount, ReturnFromCall, StartClose
  <2>2. held[a] \in IdleConns
    BY <2>1, IdleWhenReceived
  <2>3. CASE GoTo(a, "close") /\ held' = held
    BY <1>e, <1>p, <2>1, <2>2, <2>3
  <2>4. CASE GoTo(a, after[a]) /\ held' = [held EXCEPT ![a] = NoConn]
    <3>1. after[a] # "close"
      BY <1>i DEF ReturnPoints
    <3> QED
      BY <1>i, <1>q, <2>1, <2>4, <3>1
  <2> QED
    BY <2>1, <2>3, <2>4
<1>18. ASSUME MaintainReinsert PROVE Goal
  <2>1. pc[Maintainer] = "reinsert" /\ open' = open
    BY <1>18 DEF MaintainReinsert
  <2>2. CASE validConns = <<>>
    <3>1. GoTo(Maintainer, "idle") /\ held' = held
      BY <1>18, <2>2 DEF MaintainReinsert
    <3> QED
      BY <1>q, <2>1, <3>1
  <2>3. CASE validConns # <<>>
    <3>1. Head(validConns) \in IdleConns
      <4>1. 1 \in DOMAIN validConns /\ Head(validConns) = validConns[1]
        BY <2>3, ReceiveFacts DEF PoolInv, PoolTypeOK
      <4> QED
        BY <4>1, IdleWhenListed
    <3>2. \/ GoTo(Maintainer, "inc") /\ held' = [held EXCEPT ![Maintainer] = NoConn]
          \/ GoTo(Maintainer, "close")
             /\ held' = [held EXCEPT ![Maintainer] = Head(validConns)]
      BY <1>18, <2>3 DEF MaintainReinsert, SendOrClose, StartClose
    <3>3. CASE GoTo(Maintainer, "inc") /\ held' = [held EXCEPT ![Maintainer] = NoConn]
      BY <1>i, <1>q, <2>1, <3>3
    <3>4. CASE GoTo(Maintainer, "close")
               /\ held' = [held EXCEPT ![Maintainer] = Head(validConns)]
      <4>1. /\ held'[Maintainer] \in IdleConns
            /\ \A b \in Agents \ {Maintainer} : held'[b] = held[b]
        BY <1>i, <3>1, <3>4
      <4> QED
        BY <1>e, <1>p, <2>1, <3>4, <4>1
    <3> QED
      BY <3>2, <3>3, <3>4
  <2> QED
    BY <2>2, <2>3
<1>19. Goal
  <2> HIDE DEF Goal
  <2>1. ASSUME NEW c \in Clients, ClientStep(c) PROVE Goal
    BY <2>1, <1>1, <1>2, <1>4, <1>5, <1>6, <1>7, <1>8, <1>9, <1>10, <1>11, <1>12, Zenon
    DEF ClientStep
  <2>2. ASSUME NEW c \in Clients, CallerStep(c) PROVE Goal
    BY <2>2, <1>13, <1>14, <1>15, Zenon DEF CallerStep
  <2>3. CASE MaintainStep
    BY <2>3, <1>1, <1>2, <1>16, <1>17, <1>18, Zenon DEF MaintainStep
  <2>4. CASE CloseStep
    BY <2>4, <1>1, <1>2, <1>16, <1>17, Zenon DEF CloseStep
  <2> QED
    BY <2>1, <2>2, <2>3, <2>4, <1>15, <1>16, Zenon DEF PoolNext
<1> QED
  BY <1>19

(* pool.go, pool_operations.go and pool_maintenance.go implement           *)
(* ConnectionLending: whatever the interleaving, no connection is lent to  *)
(* two clients, opened beyond the budget, or lent once it is condemned.    *)
THEOREM PoolImplementsLending == PoolSpec => LendingRefined
<1>1. PoolInit => Lending!LendingInit
  <2> SUFFICES ASSUME PoolInit PROVE Lending!LendingInit
    OBVIOUS
  <2>1. open = {} /\ \A a \in Agents : pc[a] = "idle"
    BY DEF PoolInit
  <2>2. Condemned = {}
    BY <2>1 DEF Condemned
  <2>3. \A c \in Clients : LentTo(c) = NoConn
    BY <2>1, AgentFacts DEF LentTo, LoanPoints, MetricPoints
  <2>4. IdleConns = {}
    BY <2>1 DEF IdleConns
  <2>5. LentConns = [c \in Clients |-> NoConn]
    BY <2>3 DEF LentConns
  <2> QED
    BY <2>2, <2>4, <2>5 DEF Lending!LendingInit
<1>2. PoolInv /\ [PoolNext]_poolVars => [Lending!LendingNext]_(Lending!lendingVars)
  BY LendingStep
<1> QED
  BY <1>1, <1>2, PoolInvariant, PTL DEF PoolSpec, LendingRefined, Lending!LendingSpec
=============================================================================
