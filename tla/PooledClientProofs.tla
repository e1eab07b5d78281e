------------------------- MODULE PooledClientProofs -------------------------
(***************************************************************************)
(* The pooled client for every number of goroutines that search at once:   *)
(* it uses the pool and the breaker as their own specifications say, so    *)
(* that the theorems about those hold of it, and no path through runSearch *)
(* and circuitBreaker.Call keeps a connection or a slot of the budget.     *)
(***************************************************************************)
EXTENDS PooledClient, ConnectionPoolProofs, CircuitBreakerProofs

(* Each kind of request begins with an admission and a new context.        *)
LEMMA BeginIsStart ==
  ASSUME NEW c \in Clients, Begin(c)
  PROVE  \E kind \in {"search", "peer"}, n \in {1, 2} : StartCall(c, kind, n)
BY DEF Begin, Search, SearchContextCSN, SearchSuffix, SearchAccessLog, SearchConfig,
       SearchRootDSE, PeerCertificates, SearchAttempts

(* pooled_client.go: what the client does to the pool, the pool's own      *)
(* specification allows.                                                   *)
THEOREM ClientImplementsPool == Spec => PoolRefined
<1>1. Init => PoolInit
  BY DEF Init
<1>2. ASSUME [Next]_vars PROVE [PoolNext]_poolVars
  <2> DEFINE Goal == PoolNext \/ UNCHANGED poolVars
  <2>1. ASSUME NEW c \in Clients, ClientStep(c) \/ CallerStep(c) PROVE Goal
    BY <2>1 DEF PoolNext
  <2>2. ASSUME NEW c \in Clients, Begin(c) PROVE Goal
    <3>1. NewRequest(c)
      BY <2>2, BeginIsStart DEF StartCall
    <3> QED
      BY <2>1, <3>1 DEF CallerStep
  <2>3. ASSUME NEW c \in Clients, CallStep(c) PROVE Goal
    <3>1. Get(c) \/ Put(c) \/ Discard(c) \/ ClientStep(c) \/ UNCHANGED poolVars
      BY <2>3, Zenon
      DEF CallStep, GetConnection, AnswerArrives, ConnectionFails, FinishCall,
          PoolOperation
    <3> QED
      BY <2>1, <3>1, Zenon DEF CallerStep
  <2>4. ASSUME NEW c \in Clients, CallContextDone(c) PROVE Goal
    <3>1. ContextDone(c)
      BY <2>4, Zenon DEF CallContextDone
    <3> QED
      BY <2>1, <3>1 DEF CallerStep
  <2>5. ASSUME ClientClose \/ PoolStep PROVE Goal
    <3>1. Close \/ MaintainStep \/ CloseStep
      BY <2>5, Zenon DEF ClientClose, PoolStep
    <3> QED
      BY <3>1, Zenon DEF PoolNext
  <2>6. ASSUME BreakerStep \/ UNCHANGED vars PROVE Goal
    BY <2>6, Zenon DEF BreakerStep, vars
  <2>7. Goal
    <3> HIDE DEF Goal
    <3> QED
      BY <1>2, <2>2, <2>3, <2>4, <2>5, <2>6, Zenon DEF Next
  <2> QED
    BY <2>7
<1> QED
  BY <1>1, <1>2, PTL DEF Spec, PoolRefined, PoolSpec

(* circuitbreaker.go: every admission the client asks for and every       *)
(* result it records is one the breaker's own specification allows.        *)
THEOREM ClientImplementsBreaker == Spec => BreakerRefined
<1>1. Init => BreakerInit
  BY DEF Init
<1>2. ASSUME [Next]_vars PROVE [BreakerNext]_breakerVars
  <2> DEFINE Goal == BreakerNext \/ UNCHANGED breakerVars
  <2>1. ASSUME NEW c \in Clients, Admit(c) \/ RecordResult(c) PROVE Goal
    BY <2>1, ClientAssumption DEF BreakerNext
  <2>2. ASSUME NEW c \in Clients, Begin(c) PROVE Goal
    <3>1. Admit(c)
      BY <2>2, BeginIsStart DEF StartCall
    <3> QED
      BY <2>1, <3>1
  <2>3. ASSUME NEW c \in Clients, CallStep(c) PROVE Goal
    <3>1. RecordSuccess(c) \/ RecordFailure(c) \/ UNCHANGED breakerVars
      BY <2>3, Zenon
      DEF CallStep, GetConnection, AnswerArrives, ConnectionFails, FinishCall,
          PoolOperation
    <3> QED
      BY <2>1, <3>1, Zenon DEF RecordResult
  <2>4. ASSUME NEW c \in Clients, CallContextDone(c) PROVE Goal
    BY <2>4, Zenon DEF CallContextDone
  <2>5. ASSUME ClientClose \/ PoolStep \/ UNCHANGED vars PROVE Goal
    BY <2>5, Zenon DEF ClientClose, PoolStep, vars
  <2>6. ASSUME BreakerStep PROVE Goal
    <3>1. TimeoutElapses \/ \E s \in States : RunCallback(s)
      BY <2>6, Zenon DEF BreakerStep
    <3> QED
      BY <3>1, Zenon DEF BreakerNext
  <2>7. Goal
    <3> HIDE DEF Goal
    <3> QED
      BY <1>2, <2>2, <2>3, <2>4, <2>5, <2>6, Zenon DEF Next
  <2> QED
    BY <2>7
<1> QED
  BY <1>1, <1>2, PTL DEF Spec, BreakerRefined, BreakerSpec

(* What is proved of the pool and of the breaker holds of the client.      *)
THEOREM ClientInherits ==
  Spec => /\ []PoolInv /\ []PoolSizeExact /\ LendingRefined
          /\ []BreakerTypeOK /\ []ClosedBelowLimit /\ []NoLeakedSlot
BY ClientImplementsPool, ClientImplementsBreaker, PoolInvariant, SizeStaysExact,
   PoolImplementsLending, BreakerTypeCorrect, ClosedStaysBelowLimit, SlotsNeverLeak, PTL
DEF PoolRefined, BreakerRefined


-----------------------------------------------------------------------------
(* An operation of the pool moves the goroutine that runs it and no other. *)
OnlyMoves(c) ==
  \A d \in Clients \ {c} : pc'[d] = pc[d] /\ after'[d] = after[d] /\ held'[d] = held[d]

LEMMA CallerMoves ==
  ASSUME PoolTypeOK, NEW c \in Clients, CallerStep(c)
  PROVE  OnlyMoves(c)
<1> USE AgentFacts
<1>1. /\ pc \in [Agents -> Points] /\ after \in [Agents -> ReturnPoints]
      /\ held \in [Agents -> Conns \cup {NoConn}]
  BY DEF PoolTypeOK
<1>2. CASE NewRequest(c) \/ Get(c) \/ ContextDone(c)
  BY <1>1, <1>2 DEF OnlyMoves, NewRequest, Get, ContextDone, LetGo, GoTo
<1>3. CASE Put(c)
  BY <1>1, <1>3 DEF OnlyMoves, Put, LetGo, GoTo
<1>4. CASE Discard(c)
  BY <1>1, <1>4 DEF OnlyMoves, Discard, LetGo, GoTo, StartClose
<1> QED
  BY <1>2, <1>3, <1>4 DEF CallerStep

(* What happens around a call whose own pool operation goes on.            *)
LEMMA OthersKeepControl ==
  ASSUME NEW d \in Clients, CallControl(d), pc'[d] = pc[d], after'[d] = after[d],
         result'[d] = result[d], tries'[d] = tries[d],
         (calls'[d] # "idle") <=> (calls[d] # "idle")
  PROVE  CallControl(d)'
BY DEF CallControl, InCall, Rests, GivesBack, Asks, GetsAgain

(* The breaker's record of the other callers changes from probing to       *)
(* running at most.                                                        *)
LEMMA OthersStayInCall ==
  ASSUME NEW c \in Clients, BreakerTypeOK, Admit(c) \/ RecordResult(c)
  PROVE  /\ \A d \in Clients \ {c} : (calls'[d] # "idle") <=> (calls[d] # "idle")
         /\ Admit(c) => calls[c] = "idle" /\ calls'[c] # "idle"
         /\ RecordResult(c) => calls[c] # "idle" /\ calls'[c] = "idle"
<1> USE ClientAssumption
<1>1. CASE Admit(c)
  <2>1. /\ calls[c] = "idle"
        /\ \E what \in {"running", "probing"}, new \in States : calls' = CallsAfter(c, what, new)
    BY <1>1 DEF Admit, AdmitClosed, AdmitFirstProbe, AdmitProbe, States
  <2> QED
    BY <2>1 DEF CallsAfter, RecordResult, RecordFailure, RecordSuccess
<1>2. CASE RecordResult(c)
  <2>1. calls[c] # "idle" /\ \E new : calls' = CallsAfter(c, "idle", new)
    BY <1>2 DEF RecordResult, RecordFailure, RecordSuccess
  <2> QED
    BY <2>1 DEF CallsAfter, Admit, AdmitClosed, AdmitFirstProbe, AdmitProbe
<1> QED
  BY <1>1, <1>2

(* The pool operations a client runs keep the relation between where the   *)
(* call is and what it has to show.                                        *)
LEMMA OperationKeepsControl ==
  ASSUME PoolInv, NEW c \in Clients, CallControl(c), ClientStep(c),
         result'[c] = result[c], tries'[c] = tries[c], calls' = calls
  PROVE  CallControl(c)' /\ OnlyMoves(c)
<1> USE AgentFacts
<1>i. /\ pc \in [Agents -> Points] /\ after \in [Agents -> ReturnPoints]
      /\ held \in [Agents -> Conns \cup {NoConn}]
  BY DEF PoolInv, PoolTypeOK
<1>m. ASSUME NEW p, NEW q, ~Rests(c), OnlyMoves(c), pc'[c] = p, after'[c] = q,
             result[c] # "none" =>
               \/ p \in {"check", "send", "inc", "idle", "discarded"}
               \/ p \in {"close", "dec"} /\ q \in {"idle", "discarded"}
               \/ p \in {"load", "gauges"} /\ q = "idle",
             result[c] = "none" =>
               /\ p \notin {"check", "send", "inc", "idle"}
               /\ p = "size" => q \in {"ctx", "failed"}
               /\ p \in {"close", "dec"} => q \in {"ctx", "failed", "discarded"}
               /\ p \in {"load", "gauges"} => q = "holding"
               /\ p = "discarded" \/ (p \in {"close", "dec"} /\ q = "discarded")
                    => GetsAgain(c)
      PROVE  CallControl(c)' /\ OnlyMoves(c)
  <2>1. InCall(c) /\ (InCall(c)' <=> InCall(c))
    BY <1>m DEF CallControl, InCall
  <2>2. (result[c] # "none" => GivesBack(c)') /\ (result[c] = "none" => Asks(c)')
    BY <1>m DEF GivesBack, Asks, PutPoints, ClosePoints, MetricPoints
  <2>3. GetsAgain(c)' => p \in {"idle", "discarded"} \/ (p \in {"close", "dec"} /\ q = "discarded")
    BY <1>m DEF GetsAgain, ClosePoints
  <2>4. result[c] = "none" /\ GetsAgain(c)' => GetsAgain(c)
    BY <1>m, <2>3
  <2>5. result[c] = "none" /\ GetsAgain(c)' => tries[c] > 0
    BY <2>1, <2>4 DEF CallControl
  <2> QED
    BY <1>m, <2>1, <2>2, <2>5 DEF CallControl
<1>p. /\ PutPoints = {"check", "send", "inc"} /\ ClosePoints = {"close", "dec"}
      /\ MetricPoints = {"load", "gauges"}
  BY DEF PutPoints, ClosePoints, MetricPoints
<1>c. /\ pc[c] \in {"try", "size", "ctx", "reserve", "cas", "dial", "delay", "wait"}
           => result[c] = "none"
      /\ pc[c] = "size" => after[c] \in {"ctx", "failed"}
      /\ pc[c] \in {"check", "send", "inc"} => result[c] # "none"
      /\ pc[c] \in {"close", "dec"} /\ result[c] # "none" => after[c] \in {"idle", "discarded"}
      /\ pc[c] \in {"close", "dec"} /\ result[c] = "none"
           => after[c] \in {"ctx", "failed", "discarded"}
      /\ pc[c] \in {"load", "gauges"} /\ result[c] # "none" => after[c] = "idle"
      /\ pc[c] \in {"load", "gauges"} /\ result[c] = "none" => after[c] = "holding"
      /\ pc[c] \in {"close", "dec"} /\ after[c] = "discarded" => GetsAgain(c)
  BY <1>p DEF CallControl, GivesBack, Asks, GetsAgain
<1>1. CASE TryGetExistingConnection(c) \/ WaitForConnection(c)
  <2>1. /\ pc[c] \in {"try", "wait"} /\ OnlyMoves(c)
        /\ \/ pc'[c] = "size" /\ after'[c] \in {"ctx", "failed"}
           \/ pc'[c] \in {"ctx", "failed"}
    BY <1>1, <1>i
    DEF TryGetExistingConnection, WaitForConnection, Receive, GoTo, OnlyMoves
  <2> QED
    BY <1>c, <1>m, <2>1 DEF Rests
<1>2. CASE ValidateAndPrepareConnection(c)
  <2>1. /\ pc[c] = "size" /\ OnlyMoves(c)
        /\ \/ pc'[c] = "close" /\ after'[c] = after[c]
           \/ pc'[c] = "holding"
    BY <1>2, <1>i DEF ValidateAndPrepareConnection, StartClose, GoTo, OnlyMoves
  <2> QED
    BY <1>c, <1>m, <2>1 DEF Rests
<1>3. CASE CheckContext(c) \/ LoadBudget(c) \/ ReserveBudget(c) \/ DialFails(c) \/ RetryDelay(c)
  <2>1. /\ pc[c] \in {"ctx", "reserve", "cas", "dial", "delay"} /\ OnlyMoves(c)
        /\ pc'[c] \in {"failed", "reserve", "wait", "delay", "cas", "dial", "try"}
    BY <1>3, <1>i
    DEF CheckContext, LoadBudget, ReserveBudget, DialFails, RetryDelay, GoTo, OnlyMoves
  <2> QED
    BY <1>c, <1>m, <2>1 DEF Rests
<1>4. CASE \E n \in Conns : DialSucceeds(c, n)
  <2>1. /\ pc[c] = "dial" /\ OnlyMoves(c)
        /\ pc'[c] = "holding" \/ (pc'[c] = "load" /\ after'[c] = "holding")
    BY <1>4, <1>i DEF DialSucceeds, UpdateMetricsThen, GoTo, OnlyMoves
  <2> QED
    BY <1>c, <1>m, <2>1 DEF Rests
<1>5. CASE PutCheckClosed(c)
  <2>1. /\ pc[c] = "check" /\ OnlyMoves(c)
        /\ pc'[c] = "send" \/ (pc'[c] = "close" /\ after'[c] = "idle")
    BY <1>5, <1>i DEF PutCheckClosed, StartClose, GoTo, OnlyMoves
  <2> QED
    BY <1>c, <1>m, <2>1 DEF Rests
<1>6. CASE PutSend(c)
  <2>1. /\ pc[c] = "send" /\ OnlyMoves(c)
        /\ pc'[c] = "inc" \/ (pc'[c] = "close" /\ after'[c] = "idle")
    BY <1>6, <1>i DEF PutSend, SendOrClose, StartClose, GoTo, OnlyMoves
  <2> QED
    BY <1>c, <1>m, <2>1 DEF Rests
<1>7. CASE PutCount(c)
  <2>1. /\ pc[c] = "inc" /\ OnlyMoves(c)
        /\ pc'[c] = "idle" \/ (pc'[c] = "load" /\ after'[c] = "idle")
    BY <1>7, <1>i DEF PutCount, UpdateMetricsThen, GoTo, OnlyMoves
  <2> QED
    BY <1>c, <1>m, <2>1 DEF Rests
<1>8. CASE CloseSocket(c)
  <2>1. pc[c] = "close" /\ OnlyMoves(c) /\ pc'[c] = "dec" /\ after'[c] = after[c]
    BY <1>8, <1>i DEF CloseSocket, GoTo, OnlyMoves
  <2> QED
    BY <1>c, <1>m, <2>1 DEF Rests
<1>9. CASE ReleaseBudget(c)
  <2>1. pc[c] = "dec" /\ OnlyMoves(c) /\ pc'[c] = after[c]
    BY <1>9, <1>i DEF ReleaseBudget, ReturnFromCall, GoTo, OnlyMoves
  <2> QED
    BY <1>c, <1>m, <2>1 DEF Rests
<1>10. CASE LoadActive(c)
  <2>1. pc[c] = "load" /\ OnlyMoves(c) /\ pc'[c] = "gauges" /\ after'[c] = after[c]
    BY <1>10, <1>i DEF LoadActive, GoTo, OnlyMoves
  <2> QED
    BY <1>c, <1>m, <2>1 DEF Rests
<1>11. CASE SetGauges(c)
  <2>1. pc[c] = "gauges" /\ OnlyMoves(c) /\ pc'[c] = after[c]
    BY <1>11, <1>i DEF SetGauges, ReturnFromCall, GoTo, OnlyMoves
  <2> QED
    BY <1>c, <1>m, <2>1 DEF Rests
<1> QED
  BY <1>1, <1>2, <1>3, <1>4, <1>5, <1>6, <1>7, <1>8, <1>9, <1>10, <1>11, Zenon
  DEF ClientStep


(* Every step of the client keeps ClientInv.                               *)
LEMMA CallTypeStep ==
  ASSUME ClientInv, PoolInv', BreakerTypeOK', [Next]_vars
  PROVE  TypeOK'
<1>i. /\ op \in [Clients -> {"search", "peer"}]
      /\ tries \in [Clients -> 0 .. 2]
      /\ result \in [Clients -> {"none", "ok", "error"}]
  BY DEF ClientInv, TypeOK, SearchAttempts
<1> DEFINE CallVars == /\ op \in [Clients -> {"search", "peer"}]
                       /\ tries \in [Clients -> 0 .. 2]
                       /\ result \in [Clients -> {"none", "ok", "error"}]
<1>1. ASSUME NEW c \in Clients, Begin(c) PROVE CallVars'
  BY <1>1, <1>i, BeginIsStart DEF StartCall
<1>2. ASSUME NEW c \in Clients, GetConnection(c) PROVE CallVars'
  <2>1. /\ pc[c] \in {"idle", "discarded"} /\ InCall(c) /\ result[c] = "none"
        /\ tries' = [tries EXCEPT ![c] = @ - 1] /\ UNCHANGED <<op, result>>
    BY <1>2 DEF GetConnection, Get
  <2>2. tries[c] > 0
    BY <2>1 DEF ClientInv, CallControl, GetsAgain
  <2> QED
    BY <1>i, <2>1, <2>2
<1>3. ASSUME NEW c \in Clients, AnswerArrives(c) \/ ConnectionFails(c) PROVE CallVars'
  BY <1>3, <1>i DEF AnswerArrives, ConnectionFails, NetworkErrorResult
<1>4. ASSUME NEW c \in Clients, FinishCall(c) PROVE CallVars'
  BY <1>4, <1>i DEF FinishCall
<1>5. ASSUME UNCHANGED callVars PROVE CallVars'
  BY <1>5, <1>i DEF callVars
<1>6. CallVars'
  <2> HIDE DEF CallVars
  <2>1. ASSUME NEW c \in Clients, CallStep(c) PROVE CallVars'
    <3>1. CASE PoolOperation(c)
      BY <1>5, <3>1, Zenon DEF PoolOperation
    <3> QED
      BY <1>2, <1>3, <1>4, <2>1, <3>1, Zenon DEF CallStep
  <2>2. ASSUME NEW c \in Clients, CallContextDone(c) PROVE CallVars'
    BY <1>5, <2>2, Zenon DEF CallContextDone
  <2>3. ASSUME ClientClose \/ PoolStep \/ BreakerStep \/ UNCHANGED vars PROVE CallVars'
    BY <1>5, <2>3, Zenon DEF ClientClose, PoolStep, BreakerStep, vars
  <2> QED
    BY <1>1, <2>1, <2>2, <2>3, Zenon DEF Next
<1> QED
  BY <1>6 DEF TypeOK, PoolInv, SearchAttempts

LEMMA ControlKept ==
  ASSUME ClientInv, PoolInv, [Next]_vars, NEW d \in Clients
  PROVE  CallControl(d)'
<1> USE AgentFacts
<1>i. /\ op \in [Clients -> {"search", "peer"}]
      /\ tries \in [Clients -> 0 .. 2]
      /\ result \in [Clients -> {"none", "ok", "error"}]
      /\ pc \in [Agents -> Points] /\ after \in [Agents -> ReturnPoints]
      /\ held \in [Agents -> Conns \cup {NoConn}]
      /\ PoolTypeOK /\ BreakerTypeOK
      /\ \A c \in Clients : CallControl(c)
  BY DEF ClientInv, TypeOK, SearchAttempts, PoolTypeOK
<1>c. ASSUME calls' = calls
      PROVE  \A c \in Clients : (calls'[c] # "idle") <=> (calls[c] # "idle")
  BY <1>c
<1>1. ASSUME NEW c \in Clients, Begin(c) PROVE CallControl(d)'
  <2>1. PICK kind \in {"search", "peer"}, n \in {1, 2} : StartCall(c, kind, n)
    BY <1>1, BeginIsStart
  <2>2. /\ Admit(c) /\ NewRequest(c) /\ tries' = [tries EXCEPT ![c] = n]
        /\ result' = result
    BY <2>1 DEF StartCall
  <2>3. /\ \A e \in Clients \ {c} : (calls'[e] # "idle") <=> (calls[e] # "idle")
        /\ calls[c] = "idle" /\ calls'[c] # "idle"
    BY <1>i, <2>2, OthersStayInCall
  <2>4. CASE d # c
    <3>1. OnlyMoves(c)
      BY <1>i, <2>2, CallerMoves DEF CallerStep
    <3> QED
      BY <1>i, <2>2, <2>3, <2>4, <3>1, OthersKeepControl DEF OnlyMoves
  <2>5. CASE d = c
    <3>1. pc'[c] = "idle"
      BY <1>i, <2>2 DEF NewRequest, LetGo, GoTo
    <3>2. result'[c] = "none" /\ tries'[c] > 0
      BY <1>i, <2>2, <2>3 DEF CallControl, InCall
    <3>3. Asks(c)' /\ InCall(c)'
      BY <2>3, <3>1 DEF Asks, InCall, PutPoints, ClosePoints, MetricPoints
    <3> QED
      BY <2>5, <3>2, <3>3 DEF CallControl
  <2> QED
    BY <2>4, <2>5
<1>2. ASSUME NEW c \in Clients, GetConnection(c) PROVE CallControl(d)'
  <2>1. /\ InCall(c) /\ result[c] = "none" /\ Get(c) /\ calls' = calls
        /\ tries' = [tries EXCEPT ![c] = @ - 1] /\ result' = result
    BY <1>2 DEF GetConnection, breakerVars
  <2>2. CASE d # c
    <3>1. OnlyMoves(c)
      BY <1>i, <2>1, CallerMoves DEF CallerStep
    <3> QED
      BY <1>c, <1>i, <2>1, <2>2, <3>1, OthersKeepControl DEF OnlyMoves
  <2>3. CASE d = c
    <3>1. pc'[c] \in {"try", "failed"}
      BY <1>i, <2>1 DEF Get, GoTo
    <3>2. InCall(c)' /\ result'[c] = "none"
      BY <2>1 DEF InCall
    <3>3. Asks(c)' /\ ~GetsAgain(c)'
      BY <3>1 DEF Asks, GetsAgain, PutPoints, ClosePoints, MetricPoints
    <3> QED
      BY <2>3, <3>2, <3>3 DEF CallControl
  <2> QED
    BY <2>2, <2>3
<1>3. ASSUME NEW c \in Clients, AnswerArrives(c) \/ ConnectionFails(c)
      PROVE  CallControl(d)'
  <2>1. /\ pc[c] = "holding" /\ result[c] = "none" /\ calls' = calls /\ tries' = tries
        /\ Put(c) \/ Discard(c)
        /\ \E r \in {"none", "ok", "error"} : result' = [result EXCEPT ![c] = r]
    BY <1>3, <1>i DEF AnswerArrives, ConnectionFails, NetworkErrorResult, breakerVars
  <2>2. CASE d # c
    <3>1. OnlyMoves(c)
      BY <1>i, <2>1, CallerMoves DEF CallerStep
    <3> QED
      BY <1>c, <1>i, <2>1, <2>2, <3>1, OthersKeepControl DEF OnlyMoves
  <2>3. CASE d = c
    <3>1. InCall(c) /\ InCall(c)'
      BY <1>i, <2>1 DEF CallControl, InCall, Rests
    <3>2. ~AlreadyDiscarded(held[c])
      BY <2>1 DEF PoolInv, ControlInv, Owns, AlreadyDiscarded
    <3>3. CASE AnswerArrives(c)
      <4>1. pc'[c] = "check" /\ result'[c] \in {"ok", "error"}
        BY <1>i, <3>2, <3>3 DEF AnswerArrives, Put, GoTo
      <4>2. GivesBack(c)'
        BY <4>1 DEF GivesBack, PutPoints
      <4> QED
        BY <2>3, <3>1, <4>1, <4>2 DEF CallControl
    <3>4. CASE ConnectionFails(c)
      <4>1. /\ pc'[c] = "close" /\ after'[c] = "discarded"
            /\ result'[c] = IF tries[c] = 0 THEN "error" ELSE "none"
        BY <1>i, <3>2, <3>4 DEF ConnectionFails, Discard, StartClose, GoTo, NetworkErrorResult
      <4>2. GivesBack(c)' /\ Asks(c)'
        BY <4>1 DEF GivesBack, Asks, PutPoints, ClosePoints, MetricPoints
      <4>3. result'[c] = "none" => tries'[c] > 0
        BY <1>i, <2>1, <4>1
      <4> QED
        BY <2>3, <3>1, <4>2, <4>3 DEF CallControl
    <3> QED
      BY <1>3, <3>3, <3>4
  <2> QED
    BY <2>2, <2>3
<1>4. ASSUME NEW c \in Clients, FinishCall(c) PROVE CallControl(d)'
  <2>1. /\ pc' = pc /\ after' = after /\ tries' = [tries EXCEPT ![c] = 0]
        /\ result' = [result EXCEPT ![c] = "none"] /\ RecordResult(c) /\ Rests(c)
    BY <1>4 DEF FinishCall, Succeeded, Failed, RecordResult, Rests, poolVars
  <2>2. /\ \A e \in Clients \ {c} : (calls'[e] # "idle") <=> (calls[e] # "idle")
        /\ calls'[c] = "idle"
    BY <1>i, <2>1, OthersStayInCall
  <2>3. CASE d # c
    BY <1>i, <2>1, <2>2, <2>3, OthersKeepControl
  <2>4. CASE d = c
    <3>1. ~InCall(c)' /\ result'[c] = "none"
      BY <1>i, <2>1, <2>2 DEF InCall
    <3>2. Rests(c)' /\ Asks(c)'
      BY <2>1 DEF Rests, Asks, PutPoints, ClosePoints, MetricPoints
    <3> QED
      BY <2>4, <3>1, <3>2 DEF CallControl
  <2> QED
    BY <2>3, <2>4
<1>5. ASSUME NEW c \in Clients, PoolOperation(c) PROVE CallControl(d)'
  <2>1. ClientStep(c) /\ calls' = calls /\ tries' = tries /\ result' = result
    BY <1>5 DEF PoolOperation, breakerVars, callVars
  <2>2. CallControl(c)' /\ OnlyMoves(c)
    BY <1>i, <2>1, OperationKeepsControl
  <2>3. CASE d # c
    BY <1>c, <1>i, <2>1, <2>2, <2>3, OthersKeepControl DEF OnlyMoves
  <2> QED
    BY <2>2, <2>3
<1>6. ASSUME pc'[d] = pc[d], after'[d] = after[d], calls' = calls, UNCHANGED callVars
      PROVE  CallControl(d)'
  BY <1>6, <1>c, <1>i, OthersKeepControl DEF callVars
<1>7. ASSUME NEW c \in Clients, CallContextDone(c) PROVE CallControl(d)'
  BY <1>6, <1>7 DEF CallContextDone, ContextDone, breakerVars
<1>8. ASSUME ClientClose \/ PoolStep PROVE CallControl(d)'
  <2>1. UNCHANGED callVars /\ calls' = calls /\ (Close \/ MaintainStep \/ CloseStep)
    BY <1>8 DEF ClientClose, PoolStep, breakerVars
  <2>2. ASSUME NEW a \in {Maintainer, Closer}, CloseSocket(a) \/ ReleaseBudget(a)
        PROVE  pc'[d] = pc[d] /\ after'[d] = after[d]
    BY <1>i, <2>2 DEF CloseSocket, ReleaseBudget, ReturnFromCall, GoTo
  <2>3. CASE Close \/ JoinMaintainer \/ CloseDrain \/ CloseCount
    <3>1. pc'[d] = pc[d] /\ after'[d] = after[d]
      BY <1>i, <2>3 DEF Close, JoinMaintainer, CloseDrain, CloseCount, Receive, StartClose, GoTo
    <3> QED
      BY <1>6, <2>1, <3>1
  <2>4. CASE \/ MaintainConnections \/ MaintainDrain \/ MaintainCheck
             \/ MaintainReinsert \/ MaintainCount
    <3>1. pc'[d] = pc[d] /\ after'[d] = after[d]
      BY <1>i, <2>4
      DEF MaintainConnections, MaintainDrain, MaintainCheck, MaintainReinsert,
          MaintainCount, Receive, SendOrClose, StartClose, ReturnFromCall, GoTo
    <3> QED
      BY <1>6, <2>1, <3>1
  <2>5. CASE \E a \in {Maintainer, Closer} : CloseSocket(a) \/ ReleaseBudget(a)
    BY <1>6, <2>1, <2>2, <2>5
  <2> QED
    BY <2>1, <2>3, <2>4, <2>5 DEF MaintainStep, CloseStep
<1>9. ASSUME BreakerStep \/ UNCHANGED vars PROVE CallControl(d)'
  <2>1. calls' = calls
    BY <1>9 DEF BreakerStep, vars, breakerVars, TimeoutElapses, RunCallback
  <2>2. pc' = pc /\ after' = after /\ UNCHANGED callVars
    BY <1>9 DEF BreakerStep, vars, poolVars
  <2> QED
    BY <1>6, <2>1, <2>2
<1> QED
  <2>1. ASSUME NEW c \in Clients, CallStep(c) PROVE CallControl(d)'
    BY <1>2, <1>3, <1>4, <1>5, <2>1, Zenon DEF CallStep
  <2> QED
    BY <1>1, <1>7, <1>8, <1>9, <2>1, Zenon DEF Next

(* Between calls the client's hands are empty.                             *)
LEMMA RestingHoldsNothing ==
  ASSUME PoolInv, \A c \in Clients : CallControl(c)
  PROVE  NothingHeldAfterCall
<1> SUFFICES ASSUME NEW c \in Clients, ~InCall(c) PROVE held[c] \notin open
  BY DEF NothingHeldAfterCall
<1>1. ~Owns(c)
  BY DEF CallControl, Rests, Owns, MetricPoints
<1>2. held[c] = NoConn \/ held[c] \notin open
  BY <1>1, AgentFacts DEF PoolInv, EmptyHands
<1>3. NoConn \notin open
  BY PoolAssumption DEF PoolInv, PoolTypeOK
<1> QED
  BY <1>2, <1>3

(* pooled_client.go: on every path through runSearch and PeerCertificates, *)
(* and whatever the breaker, the pool and Close do meanwhile, a call makes *)
(* at most SearchAttempts attempts and returns with nothing in its hand.   *)
THEOREM ClientInvariant == Spec => []ClientInv
<1>1. Init /\ PoolInv /\ BreakerTypeOK => ClientInv
  <2> SUFFICES ASSUME Init, PoolInv, BreakerTypeOK PROVE ClientInv
    OBVIOUS
  <2>1. TypeOK
    BY DEF Init, TypeOK, PoolInv, SearchAttempts
  <2>2. ASSUME NEW c \in Clients PROVE CallControl(c)
    <3>1. pc[c] = "idle" /\ calls[c] = "idle" /\ result[c] = "none"
      BY ClientAssumption, AgentFacts DEF Init, PoolInit, BreakerInit
    <3> QED
      BY <3>1
      DEF CallControl, Rests, Asks, InCall, PutPoints, ClosePoints, MetricPoints
  <2> QED
    BY <2>1, <2>2, RestingHoldsNothing DEF ClientInv
<1>2. /\ ClientInv /\ PoolInv /\ PoolInv' /\ BreakerTypeOK' /\ [Next]_vars
      => ClientInv'
  <2> SUFFICES ASSUME ClientInv, PoolInv, PoolInv', BreakerTypeOK', [Next]_vars
               PROVE  ClientInv'
    OBVIOUS
  <2>1. TypeOK'
    BY CallTypeStep
  <2>2. \A c \in Clients : CallControl(c)'
    BY ControlKept
  <2>3. NothingHeldAfterCall'
    <3> SUFFICES ASSUME NEW c \in Clients, ~InCall(c)' PROVE held'[c] \notin open'
      BY DEF NothingHeldAfterCall
    <3>1. CallControl(c)'
      BY <2>2
    <3>2. ~Owns(c)'
      BY <3>1 DEF CallControl, Rests, Owns, MetricPoints
    <3>3. held'[c] = NoConn \/ held'[c] \notin open'
      BY <3>2, AgentFacts DEF PoolInv, EmptyHands
    <3>4. NoConn \notin open'
      BY PoolAssumption DEF PoolInv, PoolTypeOK
    <3> QED
      BY <3>3, <3>4
  <2> QED
    BY <2>1, <2>2, <2>3 DEF ClientInv
<1> QED
  BY <1>1, <1>2, ClientInherits, PTL DEF Spec

(* Over any history, once the calls have returned and the goroutines of    *)
(* the pool are idle, every slot of the budget is a connection that waits  *)
(* in the channel and the reported size is the size of the channel.        *)
THEOREM BudgetNeverLeaks == Spec => []NoBudgetLeak
<1>1. PoolInv /\ PoolSizeExact /\ ClientInv => NoBudgetLeak
  <2> SUFFICES ASSUME PoolInv, PoolSizeExact, ClientInv, AtRest
               PROVE  activeConns = Len(pool) /\ poolSize = Len(pool)
    BY DEF NoBudgetLeak
  <2>1. \A a \in Agents :
          pc[a] \in {"idle", "failed", "discarded", "exited", "join", "done"}
    <3>1. \A c \in Clients : Rests(c)
      BY DEF AtRest, ClientInv, CallControl
    <3> QED
      BY <3>1 DEF Agents, AtRest, Rests
  <2>2. validConns = <<>>
    BY DEF AtRest, PoolInv, TickEndsEmpty
  <2>3. /\ Len(pool) \in Nat /\ DOMAIN pool = 1 .. Len(pool)
        /\ pool \in [1 .. Len(pool) -> Conns] /\ poolSize \in Int
    BY LenProperties DEF PoolInv, PoolTypeOK
  <2>4. \A a \in Agents : ~Owns(a)
    BY <2>1 DEF Owns, MetricPoints
  <2>5. \A n \in open : \E i \in 1 .. Len(pool) : pool[i] = n
    BY <2>2, <2>3, <2>4 DEF PoolInv, NothingLost
  <2>6. /\ \A i \in 1 .. Len(pool) : pool[i] \in open
        /\ \A i, j \in 1 .. Len(pool) : pool[i] = pool[j] => i = j
    BY <2>3 DEF PoolInv, ExclusiveOwnership, PooledOnce
  <2>7. Cardinality(open) = Len(pool)
    <3>1. pool \in [1 .. Len(pool) -> open]
      BY <2>3, <2>6
    <3>2. pool \in Bijection(1 .. Len(pool), open)
      BY <2>5, <2>6, <3>1 DEF Bijection, Injection, Surjection, IsInjective
    <3>3. ExistsBijection(1 .. Len(pool), open)
      BY <3>2 DEF ExistsBijection
    <3> QED
      BY <2>3, <3>3, FS_CountingElements
  <2>8. Owing = {}
    BY <2>1 DEF Owing
  <2>9. activeConns = Len(pool)
    BY <2>3, <2>7, <2>8, FS_EmptySet DEF PoolInv, BudgetExact
  <2>10. {a \in Agents : pc[a] = "inc"} = {} /\ {a \in Agents : pc[a] = "size"} = {}
    BY <2>1
  <2>11. poolSize = Len(pool)
    <3> DEFINE inc == Cardinality({a \in Agents : pc[a] = "inc"})
               size == Cardinality({a \in Agents : pc[a] = "size"})
    <3>1. inc = 0 /\ size = 0
      BY <2>10, FS_EmptySet
    <3>2. poolSize + inc = Len(pool) + size
      BY DEF PoolSizeExact
    <3> HIDE DEF inc, size
    <3>3. poolSize \in Int /\ Len(pool) \in Int
      BY <2>3
    <3> QED
      BY <3>1, <3>2, <3>3
  <2> QED
    BY <2>9, <2>11
<1> QED
  BY <1>1, ClientInherits, ClientInvariant, PTL

=============================================================================
