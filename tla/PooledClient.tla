---------------------------- MODULE PooledClient ----------------------------
(***************************************************************************)
(* PooledLDAPClient: every Search method and PeerCertificates goes through *)
(* the circuit breaker and, once admitted, borrows a connection from the   *)
(* pool.  The module composes CircuitBreaker and ConnectionPool the way    *)
(* runSearch and circuitBreaker.Call use them; the LDAP answer and its     *)
(* error class (isNetworkError) are nondeterministic.                      *)
(***************************************************************************)
EXTENDS ConnectionPool, CircuitBreaker

CONSTANTS UseTLS,       \* config.TLS, without which PeerCertificates is empty
          Background    \* whether the maintenance tick and Close take part

\* Those who call through the breaker are those who borrow connections.
ASSUME ClientAssumption == Callers = Clients

VARIABLES
  \* the protected function of each client
  op,     \* which kind of request it is
  tries,  \* connections runSearch may still ask for
  result  \* what it will return, once known

callVars == <<op, tries, result>>
vars == <<poolVars, breakerVars, callVars>>

SearchAttempts == 2     \* the attempts of runSearch

TypeOK ==
  /\ PoolTypeOK
  /\ BreakerTypeOK
  /\ op \in [Clients -> {"search", "peer"}]
  /\ tries \in [Clients -> 0 .. SearchAttempts]
  /\ result \in [Clients -> {"none", "ok", "error"}]

(* newMonitoredClient *)
Init ==
  /\ PoolInit
  /\ BreakerInit
  /\ op = [c \in Clients |-> "search"]
  /\ tries = [c \in Clients |-> 0]
  /\ result = [c \in Clients |-> "none"]

-----------------------------------------------------------------------------
(* The requests.  Invalid parameters are refused before the breaker and    *)
(* leave no trace; a call the breaker refuses returns at once.             *)

InCall(c) == calls[c] # "idle"

(* checkCanExecute, and a new context derived from the base context.       *)
StartCall(c, kind, connections) ==
  /\ Admit(c)
  /\ NewRequest(c)
  /\ op' = [op EXCEPT ![c] = kind]
  /\ tries' = [tries EXCEPT ![c] = connections]
  /\ UNCHANGED result

Search(c) == StartCall(c, "search", SearchAttempts)
SearchContextCSN(c) == StartCall(c, "search", SearchAttempts)
SearchSuffix(c) == StartCall(c, "search", SearchAttempts)
SearchAccessLog(c) == StartCall(c, "search", SearchAttempts)
SearchConfig(c) == StartCall(c, "search", SearchAttempts)
SearchRootDSE(c) == StartCall(c, "search", SearchAttempts)
PeerCertificates(c) == UseTLS /\ StartCall(c, "peer", 1)

-----------------------------------------------------------------------------
(* runSearch, and the single Get and Put of PeerCertificates. *)

GetConnection(c) ==
  /\ InCall(c)
  /\ result[c] = "none"
  /\ Get(c)
  /\ tries' = [tries EXCEPT ![c] = @ - 1]
  /\ UNCHANGED <<breakerVars, op, result>>

(* Mutant: a search that ends with a result code skips the Put.            *)
AnswerWithoutPut(c) ==
  /\ pc[c] = "holding"
  /\ result[c] = "none"
  /\ \E r \in {"ok", "error"} :
       /\ r = "error" => op[c] = "search"
       /\ result' = [result EXCEPT ![c] = r]
       /\ r = "ok" => Put(c)
       /\ r = "error" => /\ LetGo(c)
                         /\ UNCHANGED <<pool, activeConns, poolSize, closed, open,
                                        broken, after, attempt, seen, ctxDone,
                                        validConns, gauge>>
  /\ UNCHANGED <<breakerVars, op, tries>>

(* The server answers, with entries or, to a search, with a result code.   *)
AnswerArrives(c) ==
  /\ pc[c] = "holding"
  /\ result[c] = "none"
  /\ \E r \in {"ok", "error"} :
       /\ r = "error" => op[c] = "search"
       /\ result' = [result EXCEPT ![c] = r]
  /\ Put(c)
  /\ UNCHANGED <<breakerVars, op, tries>>

(* isNetworkError: the connection is dropped and the search replayed once; *)
(* the error of the last attempt ends the loop.                            *)
NetworkErrorResult(c) == IF tries[c] = 0 THEN "error" ELSE "none"

(* Mutant: a dropped connection is forgotten instead of discarded.         *)
ConnectionForgotten(c) ==
  /\ pc[c] = "holding"
  /\ result[c] = "none"
  /\ op[c] = "search"
  /\ LetGo(c)
  /\ result' = [result EXCEPT ![c] = NetworkErrorResult(c)]
  /\ UNCHANGED <<pool, activeConns, poolSize, closed, open, broken, after, attempt,
                 seen, ctxDone, validConns, gauge>>
  /\ UNCHANGED <<breakerVars, op, tries>>

ConnectionFails(c) ==
  /\ pc[c] = "holding"
  /\ result[c] = "none"
  /\ op[c] = "search"
  /\ Discard(c)
  /\ result' = [result EXCEPT ![c] = NetworkErrorResult(c)]
  /\ UNCHANGED <<breakerVars, op, tries>>

(* Mutants: the call returns before its connection has been dealt with,    *)
(* and a failed call is not recorded.                                      *)
FailedEarly(c) == pc[c] = "failed" \/ result[c] = "error"

FailureNotRecorded(c) ==
  /\ InCall(c)
  /\ \/ result[c] = "ok" /\ pc[c] = "idle" /\ RecordSuccess(c)
     \/ /\ pc[c] = "failed"
        /\ calls' = [calls EXCEPT ![c] = "idle"]
        /\ UNCHANGED <<state, failures, successes, elapsed, halfOpenInFlight,
                       pending, stateGauge, serverStable, forced>>
     \/ /\ result[c] = "error" /\ pc[c] \in {"idle", "discarded"}
        /\ RecordFailure(c)
  /\ tries' = [tries EXCEPT ![c] = 0]
  /\ result' = [result EXCEPT ![c] = "none"]
  /\ UNCHANGED <<poolVars, op>>

(* recordResult, after the protected function has returned.                *)
Succeeded(c) == result[c] = "ok" /\ pc[c] = "idle"
Failed(c) ==
  \/ pc[c] = "failed"
  \/ result[c] = "error" /\ pc[c] \in {"idle", "discarded"}

FinishCall(c) ==
  /\ InCall(c)
  /\ \/ Succeeded(c) /\ RecordSuccess(c)
     \/ Failed(c) /\ RecordFailure(c)
  /\ tries' = [tries EXCEPT ![c] = 0]
  /\ result' = [result EXCEPT ![c] = "none"]
  /\ UNCHANGED <<poolVars, op>>

-----------------------------------------------------------------------------
Begin(c) ==
  \/ Search(c) \/ SearchContextCSN(c) \/ SearchSuffix(c) \/ SearchAccessLog(c)
  \/ SearchConfig(c) \/ SearchRootDSE(c) \/ PeerCertificates(c)

PoolOperation(c) == ClientStep(c) /\ UNCHANGED <<breakerVars, callVars>>
CallStep(c) ==
  \/ GetConnection(c) \/ AnswerArrives(c) \/ ConnectionFails(c)
  \/ FinishCall(c) \/ PoolOperation(c)
CallContextDone(c) ==
  InCall(c) /\ ContextDone(c) /\ UNCHANGED <<breakerVars, callVars>>

(* PooledLDAPClient.Close closes the pool only.                            *)
ClientClose == Background /\ Close /\ UNCHANGED <<breakerVars, callVars>>
PoolStep ==
  /\ Background
  /\ MaintainStep \/ CloseStep
  /\ UNCHANGED <<breakerVars, callVars>>
BreakerStep ==
  /\ TimeoutElapses \/ \E s \in States : RunCallback(s)
  /\ UNCHANGED <<poolVars, callVars>>

Next ==
  \/ \E c \in Clients : Begin(c) \/ CallStep(c) \/ CallContextDone(c)
  \/ ClientClose
  \/ PoolStep
  \/ BreakerStep

Spec == Init /\ [][Next]_vars

(* Scheduling, deadlines, and a compare-and-swap loop that is not starved. *)
Fairness ==
  /\ \A c \in Clients :
       /\ WF_vars(CallStep(c))
       /\ WF_vars(CallContextDone(c))
       /\ SF_vars(CompareAndSwap(c) /\ PoolOperation(c) /\ pc[c] = "cas")
  /\ WF_vars(PoolStep)

FairSpec == Spec /\ Fairness

-----------------------------------------------------------------------------
(* Properties. *)

(* When circuitBreaker.Call returns, its connection has been given back to *)
(* the pool or torn down, on every path through runSearch.                 *)
NothingHeldAfterCall ==
  \A c \in Clients : ~InCall(c) => held[c] \notin open

(* Where a call is, seen from the pool: between calls the pool has nothing *)
(* to do for the client; once the result is known the connection is on its *)
(* way back or out; and runSearch only comes back to Get with an attempt   *)
(* left.                                                                   *)
Rests(c) == pc[c] \in {"idle", "failed", "discarded"}
GivesBack(c) ==
  \/ pc[c] \in PutPoints \cup {"idle", "discarded"}
  \/ pc[c] \in ClosePoints /\ after[c] \in {"idle", "discarded"}
  \/ pc[c] \in MetricPoints /\ after[c] = "idle"
Asks(c) ==
  /\ pc[c] \notin PutPoints
  /\ pc[c] = "size" => after[c] \in {"ctx", "failed"}
  /\ pc[c] \in ClosePoints => after[c] \in {"ctx", "failed", "discarded"}
  /\ pc[c] \in MetricPoints => after[c] = "holding"
GetsAgain(c) ==
  \/ pc[c] \in {"idle", "discarded"}
  \/ pc[c] \in ClosePoints /\ after[c] = "discarded"
CallControl(c) ==
  /\ ~InCall(c) => Rests(c) /\ result[c] = "none"
  /\ result[c] # "none" => GivesBack(c)
  /\ result[c] = "none" => Asks(c)
  /\ InCall(c) /\ result[c] = "none" /\ GetsAgain(c) => tries[c] > 0

(* Types, at most SearchAttempts attempts per call, and nothing held       *)
(* outside a call: runSearch leaves its loop on every path with its        *)
(* connection dealt with.                                                  *)
ClientInv ==
  /\ TypeOK
  /\ \A c \in Clients : CallControl(c)
  /\ NothingHeldAfterCall

(* Over any history of successes, result codes, dropped connections,       *)
(* timeouts, breaker trips and Close, no connection is lost: when no call  *)
(* and no goroutine of the pool is at work, the budget in use is exactly   *)
(* the connections that wait in the channel.                               *)
AtRest ==
  /\ \A c \in Clients : ~InCall(c)
  /\ pc[Maintainer] \in {"idle", "exited"}
  /\ pc[Closer] \in {"idle", "join", "done"}
NoBudgetLeak == AtRest => activeConns = Len(pool) /\ poolSize = Len(pool)

(* The client uses the pool and the breaker only in ways their own         *)
(* specifications describe, so what is checked of them holds of the client.*)
PoolRefined == PoolSpec
BreakerRefined == BreakerSpec

(* Every admitted call returns and its result reaches the breaker: neither *)
(* an exhausted pool nor a dropped connection strands a probe.             *)
CallReturns == \A c \in Clients : InCall(c) ~> ~InCall(c)

=============================================================================
