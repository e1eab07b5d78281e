--------------------------- MODULE ConnectionPool ---------------------------
(***************************************************************************)
(* The LDAP connection pool of pkg/pool: Get, Put, Discard, the            *)
(* maintenance goroutine and Close, at the granularity of the operations   *)
(* on shared memory (channel send and receive, atomic counters, socket     *)
(* close).  Whether a connection is still usable (age, idle time, ping) is *)
(* a nondeterministic outcome of the check that reads it.                  *)
(***************************************************************************)
EXTENDS Integers, Sequences, FiniteSets

CONSTANTS Clients,        \* goroutines that borrow connections
          Conns,          \* identities of PooledConnection objects
          MaxConnections, \* capacity of the channel and of the budget
          MaxRetries,     \* DefaultMaxRetries, the attempts of one Get
          Monitored,      \* p.monitoring # nil and p.serverName # ""
          NoConn,         \* the nil connection
          Maintainer,     \* the maintenance goroutine
          Closer          \* the goroutine that runs Close

ASSUME PoolAssumption ==
       /\ IsFiniteSet(Clients)
       /\ IsFiniteSet(Conns)
       /\ NoConn \notin Conns
       /\ Maintainer \notin Clients
       /\ Closer \notin Clients
       /\ Maintainer # Closer
       /\ MaxConnections \in Nat \ {0}
       /\ MaxRetries \in Nat \ {0}
       /\ Monitored \in BOOLEAN

VARIABLES
  pool,        \* the channel p.pool, a FIFO of idle connections
  activeConns, \* atomic counter, the budget in use
  poolSize,    \* atomic counter, the reported size of the channel
  closed,      \* atomic flag
  open,        \* connections whose socket is open
  broken,      \* connections whose broken flag is set
  pc,          \* where each goroutine is
  held,        \* the connection a goroutine has in hand
  after,       \* where a goroutine continues after a nested call
  attempt,     \* the attempt counter of Get
  seen,        \* the value of activeConns a client loaded
  ctxDone,     \* the client's context is canceled or past its deadline
  validConns,  \* the connections runMaintenanceTick keeps
  gauge        \* the exported openldap_exporter_pool_connections series

poolVars == <<pool, activeConns, poolSize, closed, open, broken, pc, held, after,
          attempt, seen, ctxDone, validConns, gauge>>

Agents == Clients \cup {Maintainer, Closer}

(* The program points of the goroutines. *)
GetPoints == {"try", "size", "ctx", "reserve", "cas", "dial", "delay", "wait"}
PutPoints == {"check", "send", "inc"}
ClosePoints == {"close", "dec"}
MetricPoints == {"load", "gauges"}
ClientPoints == GetPoints \cup PutPoints \cup ClosePoints \cup MetricPoints
                  \cup {"idle", "holding", "discarded", "failed"}
MaintainerPoints == {"idle", "drain", "size", "reinsert", "inc", "exited"}
                      \cup ClosePoints
CloserPoints == {"idle", "join", "drain", "size", "done"} \cup ClosePoints
Points == ClientPoints \cup MaintainerPoints \cup CloserPoints
ReturnPoints == {"idle", "ctx", "failed", "holding", "discarded", "drain",
                 "reinsert"}

PoolTypeOK ==
  /\ pool \in Seq(Conns)
  /\ activeConns \in Int
  /\ poolSize \in Int
  /\ closed \in BOOLEAN
  /\ open \in SUBSET Conns
  /\ broken \in SUBSET Conns
  /\ pc \in [Agents -> Points]
  /\ held \in [Agents -> Conns \cup {NoConn}]
  /\ after \in [Agents -> ReturnPoints]
  /\ attempt \in [Clients -> 0 .. MaxRetries - 1]
  /\ seen \in [Clients -> Int]
  /\ ctxDone \in [Clients -> BOOLEAN]
  /\ validConns \in Seq(Conns)
  /\ gauge \in [active : Int, idle : Int, total : Int]

PoolInit ==
  /\ pool = <<>>
  /\ activeConns = 0
  /\ poolSize = 0
  /\ closed = FALSE
  /\ open = {}
  /\ broken = {}
  /\ pc = [a \in Agents |-> "idle"]
  /\ held = [a \in Agents |-> NoConn]
  /\ after = [a \in Agents |-> "idle"]
  /\ attempt = [c \in Clients |-> 0]
  /\ seen = [c \in Clients |-> 0]
  /\ ctxDone = [c \in Clients |-> FALSE]
  /\ validConns = <<>>
  /\ gauge = [active |-> 0, idle |-> 0, total |-> 0]

-----------------------------------------------------------------------------
(* Steps shared by the operations. *)

GoTo(a, point) == pc' = [pc EXCEPT ![a] = point]

(* Return from a nested call, whose return address after[a] is forgotten.    *)
ReturnFromCall(a) ==
  /\ GoTo(a, after[a])
  /\ after' = [after EXCEPT ![a] = "idle"]

(* Receive from the channel; the caller continues at "size". *)
Receive(a, next) ==
  /\ pool # <<>>
  /\ held' = [held EXCEPT ![a] = Head(pool)]
  /\ pool' = Tail(pool)
  /\ after' = [after EXCEPT ![a] = next]
  /\ GoTo(a, "size")

(* closeConnectionWithReason, entered with the connection in hand. *)
StartClose(a, next) ==
  /\ after' = [after EXCEPT ![a] = next]
  /\ GoTo(a, "close")

CloseSocket(a) ==
  /\ pc[a] = "close"
  /\ open' = open \ {held[a]}
  /\ GoTo(a, "dec")
  /\ UNCHANGED <<pool, activeConns, poolSize, closed, broken, held, after,
                 attempt, seen, ctxDone, validConns, gauge>>

ReleaseBudget(a) ==
  /\ pc[a] = "dec"
  /\ activeConns' = activeConns - 1
  /\ held' = [held EXCEPT ![a] = IF after[a] = "discarded" THEN @ ELSE NoConn]
  /\ ReturnFromCall(a)
  /\ UNCHANGED <<pool, poolSize, closed, open, broken, attempt, seen, ctxDone,
                 validConns, gauge>>

(* updateMetrics: two separate atomic loads, then the three gauges. *)
Floor0(n) == IF n < 0 THEN 0 ELSE n

UpdateMetricsThen(a, next) ==
  IF Monitored
  THEN after' = [after EXCEPT ![a] = next] /\ GoTo(a, "load")
  ELSE after' = [after EXCEPT ![a] = "idle"] /\ GoTo(a, next)

LoadActive(c) ==
  /\ pc[c] = "load"
  /\ seen' = [seen EXCEPT ![c] = activeConns]
  /\ GoTo(c, "gauges")
  /\ UNCHANGED <<pool, activeConns, poolSize, closed, open, broken, held, after,
                 attempt, ctxDone, validConns, gauge>>

IdleGauge(size, active) == Floor0(size - active)

SetGauges(c) ==
  /\ pc[c] = "gauges"
  /\ gauge' = [active |-> seen[c],
               idle   |-> IdleGauge(poolSize, seen[c]),
               total  |-> poolSize]
  /\ seen' = [seen EXCEPT ![c] = 0]
  /\ ReturnFromCall(c)
  /\ UNCHANGED <<pool, activeConns, poolSize, closed, open, broken, held,
                 attempt, ctxDone, validConns>>

-----------------------------------------------------------------------------
(* Get. *)

Get(c) ==
  /\ pc[c] \in {"idle", "discarded"}
  /\ held' = [held EXCEPT ![c] = NoConn]
  /\ attempt' = [attempt EXCEPT ![c] = 0]
  /\ GoTo(c, IF closed THEN "failed" ELSE "try")
  /\ UNCHANGED <<pool, activeConns, poolSize, closed, open, broken, after, seen,
                 ctxDone, validConns, gauge>>

(* A non-blocking receive; when the context is done too, select may pick    *)
(* either ready case.                                                       *)
TryGetExistingConnection(c) ==
  /\ pc[c] = "try"
  /\ \/ Receive(c, "ctx")
     \/ /\ pool = <<>> \/ ctxDone[c]
        /\ GoTo(c, "ctx")
        /\ UNCHANGED <<pool, held, after>>
  /\ UNCHANGED <<activeConns, poolSize, closed, open, broken, attempt, seen,
                 ctxDone, validConns, gauge>>

(* The receive is accounted for, then the connection is validated.          *)
ValidateAndPrepareConnection(c) ==
  /\ pc[c] = "size"
  /\ poolSize' = poolSize - 1
  /\ \/ GoTo(c, "holding") /\ after' = [after EXCEPT ![c] = "idle"]
     \/ StartClose(c, after[c])
  /\ UNCHANGED <<pool, activeConns, closed, open, broken, held, attempt, seen,
                 ctxDone, validConns, gauge>>

CheckContext(c) ==
  /\ pc[c] = "ctx"
  /\ GoTo(c, IF ctxDone[c] THEN "failed" ELSE "reserve")
  /\ UNCHANGED <<pool, activeConns, poolSize, closed, open, broken, held, after,
                 attempt, seen, ctxDone, validConns, gauge>>

(* Mutants: a full budget passes for one with room, and the reservation is  *)
(* a plain store.                                                           *)
LoadBudgetOffByOne(c) ==
  /\ pc[c] = "reserve"
  /\ IF activeConns > MaxConnections
     THEN GoTo(c, "wait") /\ UNCHANGED seen
     ELSE GoTo(c, "cas") /\ seen' = [seen EXCEPT ![c] = activeConns]
  /\ UNCHANGED <<pool, activeConns, poolSize, closed, open, broken, held, after,
                 attempt, ctxDone, validConns, gauge>>

PlainStore(c) == TRUE

(* tryCreateNewConnection: the load and the compare-and-swap.               *)
LastAttempt(c) == attempt[c] = MaxRetries - 1

LoadBudget(c) ==
  /\ pc[c] = "reserve"
  /\ IF activeConns >= MaxConnections
     THEN /\ GoTo(c, IF LastAttempt(c) THEN "wait" ELSE "delay")
          /\ UNCHANGED seen
     ELSE /\ GoTo(c, "cas")
          /\ seen' = [seen EXCEPT ![c] = activeConns]
  /\ UNCHANGED <<pool, activeConns, poolSize, closed, open, broken, held, after,
                 attempt, ctxDone, validConns, gauge>>

CompareAndSwap(c) == activeConns = seen[c]

ReserveBudget(c) ==
  /\ pc[c] = "cas"
  /\ IF CompareAndSwap(c)
     THEN activeConns' = seen[c] + 1 /\ GoTo(c, "dial")
     ELSE UNCHANGED activeConns /\ GoTo(c, "reserve")
  /\ seen' = [seen EXCEPT ![c] = 0]
  /\ UNCHANGED <<pool, poolSize, closed, open, broken, held, after, attempt,
                 ctxDone, validConns, gauge>>

(* createAndRecordConnection: dial and bind; a failure returns the budget.  *)
Fresh(n) == n \notin open /\ \A a \in Agents : held[a] # n

DialSucceeds(c, n) ==
  /\ pc[c] = "dial"
  /\ Fresh(n)
  /\ open' = open \cup {n}
  /\ broken' = broken \ {n}
  /\ held' = [held EXCEPT ![c] = n]
  /\ UpdateMetricsThen(c, "holding")
  /\ UNCHANGED <<pool, activeConns, poolSize, closed, attempt, seen, ctxDone,
                 validConns, gauge>>

(* Mutant: a failed dial keeps its slot of the budget.                      *)
DialFailsKeepsBudget(c) ==
  /\ pc[c] = "dial"
  /\ GoTo(c, "failed")
  /\ UNCHANGED <<pool, activeConns, poolSize, closed, open, broken, held, after,
                 attempt, seen, ctxDone, validConns, gauge>>

DialFails(c) ==
  /\ pc[c] = "dial"
  /\ activeConns' = activeConns - 1
  /\ GoTo(c, "failed")
  /\ UNCHANGED <<pool, poolSize, closed, open, broken, held, after, attempt,
                 seen, ctxDone, validConns, gauge>>

RetryDelay(c) ==
  /\ pc[c] = "delay"
  /\ \/ /\ attempt' = [attempt EXCEPT ![c] = @ + 1]
        /\ GoTo(c, "try")
     \/ /\ ctxDone[c]
        /\ GoTo(c, "failed")
        /\ UNCHANGED attempt
  /\ UNCHANGED <<pool, activeConns, poolSize, closed, open, broken, held, after,
                 seen, ctxDone, validConns, gauge>>

(* Mutant: the blocking receive does not watch the context.                 *)
WaitWithoutContext(c) ==
  /\ pc[c] = "wait"
  /\ Receive(c, "failed")
  /\ UNCHANGED <<activeConns, poolSize, closed, open, broken, attempt, seen,
                 ctxDone, validConns, gauge>>

(* Mutant: a wait that times out starts over.                               *)
WaitStartsOver(c) ==
  /\ pc[c] = "wait"
  /\ \/ Receive(c, "failed") /\ UNCHANGED ctxDone
     \/ /\ ctxDone[c]
        /\ ctxDone' = [ctxDone EXCEPT ![c] = FALSE]
        /\ UNCHANGED <<pc, pool, held, after>>
  /\ UNCHANGED <<activeConns, poolSize, closed, open, broken, attempt, seen,
                 validConns, gauge>>

(* A blocking receive; an unusable connection makes Get fail.               *)
WaitForConnection(c) ==
  /\ pc[c] = "wait"
  /\ \/ Receive(c, "failed")
     \/ /\ ctxDone[c]
        /\ GoTo(c, "failed")
        /\ UNCHANGED <<pool, held, after>>
  /\ UNCHANGED <<activeConns, poolSize, closed, open, broken, attempt, seen,
                 ctxDone, validConns, gauge>>

-----------------------------------------------------------------------------
(* Put and Discard. *)

(* Mutant: the broken flag is not consulted.                                *)
FlagIgnored(n) == FALSE

AlreadyDiscarded(n) == n \in broken

(* The caller lets go of a connection that Discard has already torn down.   *)
LetGo(c) ==
  /\ held' = [held EXCEPT ![c] = NoConn]
  /\ GoTo(c, "idle")

Put(c) ==
  /\ pc[c] \in {"holding", "discarded"}
  /\ IF AlreadyDiscarded(held[c])
     THEN LetGo(c)
     ELSE GoTo(c, "check") /\ UNCHANGED held
  /\ UNCHANGED <<pool, activeConns, poolSize, closed, open, broken, after,
                 attempt, seen, ctxDone, validConns, gauge>>

PutCheckClosed(c) ==
  /\ pc[c] = "check"
  /\ IF closed
     THEN StartClose(c, "idle")
     ELSE GoTo(c, "send") /\ UNCHANGED after
  /\ UNCHANGED <<pool, activeConns, poolSize, closed, open, broken, held,
                 attempt, seen, ctxDone, validConns, gauge>>

(* A non-blocking send, or a close when the channel is full.                *)
SendOrClose(a, n, next) ==
  IF Len(pool) < MaxConnections
  THEN /\ pool' = Append(pool, n)
       /\ held' = [held EXCEPT ![a] = NoConn]
       /\ after' = [after EXCEPT ![a] = next]
       /\ GoTo(a, "inc")
  ELSE /\ held' = [held EXCEPT ![a] = n]
       /\ StartClose(a, next)
       /\ UNCHANGED pool

PutSend(c) ==
  /\ pc[c] = "send"
  /\ \/ SendOrClose(c, held[c], "idle")
     \/ /\ StartClose(c, "idle")
        /\ UNCHANGED <<pool, held>>
  /\ UNCHANGED <<activeConns, poolSize, closed, open, broken, attempt, seen,
                 ctxDone, validConns, gauge>>

PutCount(c) ==
  /\ pc[c] = "inc"
  /\ poolSize' = poolSize + 1
  /\ UpdateMetricsThen(c, "idle")
  /\ UNCHANGED <<pool, activeConns, closed, open, broken, held, attempt, seen,
                 ctxDone, validConns, gauge>>

(* Mutant: Discard closes the connection without setting the broken flag.   *)
DiscardWithoutFlag(c) ==
  /\ pc[c] \in {"holding", "discarded"}
  /\ StartClose(c, "discarded")
  /\ UNCHANGED <<pool, activeConns, poolSize, closed, open, broken, held, attempt,
                 seen, ctxDone, validConns, gauge>>

Discard(c) ==
  /\ pc[c] \in {"holding", "discarded"}
  /\ IF AlreadyDiscarded(held[c])
     THEN LetGo(c) /\ UNCHANGED <<broken, after>>
     ELSE /\ broken' = broken \cup {held[c]}
          /\ StartClose(c, "discarded")
          /\ UNCHANGED held
  /\ UNCHANGED <<pool, activeConns, poolSize, closed, open, attempt, seen,
                 ctxDone, validConns, gauge>>

-----------------------------------------------------------------------------
(* The callers of the pool: contexts expire, requests begin anew.  Get is   *)
(* the only operation that looks at its context.                            *)

ContextDone(c) ==
  /\ ~ctxDone[c]
  /\ pc[c] \in GetPoints \cup {"idle", "discarded"}
  /\ ctxDone' = [ctxDone EXCEPT ![c] = TRUE]
  /\ UNCHANGED <<pool, activeConns, poolSize, closed, open, broken, pc, held,
                 after, attempt, seen, validConns, gauge>>

NewRequest(c) ==
  /\ pc[c] \in {"idle", "discarded", "failed"}
  /\ ctxDone' = [ctxDone EXCEPT ![c] = FALSE]
  /\ LetGo(c)
  /\ UNCHANGED <<pool, activeConns, poolSize, closed, open, broken, after,
                 attempt, seen, validConns, gauge>>

-----------------------------------------------------------------------------
(* The maintenance goroutine. *)

(* Mutant: the loop has no exit when the pool is closed.                    *)
MaintainForever ==
  /\ pc[Maintainer] = "idle"
  /\ GoTo(Maintainer, "drain")
  /\ UNCHANGED <<pool, activeConns, poolSize, closed, open, broken, held, after,
                 attempt, seen, ctxDone, validConns, gauge>>

MaintainConnections ==
  /\ pc[Maintainer] = "idle"
  /\ GoTo(Maintainer, IF closed THEN "exited" ELSE "drain")
  /\ UNCHANGED <<pool, activeConns, poolSize, closed, open, broken, held, after,
                 attempt, seen, ctxDone, validConns, gauge>>

(* The drain ends on an empty channel or on the tick's own deadline.        *)
MaintainDrain ==
  /\ pc[Maintainer] = "drain"
  /\ \/ Receive(Maintainer, "drain")
     \/ GoTo(Maintainer, "reinsert") /\ UNCHANGED <<pool, held, after>>
  /\ UNCHANGED <<activeConns, poolSize, closed, open, broken, attempt, seen,
                 ctxDone, validConns, gauge>>

MaintainCheck ==
  /\ pc[Maintainer] = "size"
  /\ poolSize' = poolSize - 1
  /\ \/ /\ validConns' = Append(validConns, held[Maintainer])
        /\ held' = [held EXCEPT ![Maintainer] = NoConn]
        /\ ReturnFromCall(Maintainer)
     \/ /\ StartClose(Maintainer, "drain")
        /\ UNCHANGED <<held, validConns>>
  /\ UNCHANGED <<pool, activeConns, closed, open, broken, attempt, seen,
                 ctxDone, gauge>>

MaintainReinsert ==
  /\ pc[Maintainer] = "reinsert"
  /\ IF validConns = <<>>
     THEN GoTo(Maintainer, "idle") /\ UNCHANGED <<pool, held, after, validConns>>
     ELSE /\ SendOrClose(Maintainer, Head(validConns), "reinsert")
          /\ validConns' = Tail(validConns)
  /\ UNCHANGED <<activeConns, poolSize, closed, open, broken, attempt, seen,
                 ctxDone, gauge>>

MaintainCount ==
  /\ pc[Maintainer] = "inc"
  /\ poolSize' = poolSize + 1
  /\ ReturnFromCall(Maintainer)
  /\ UNCHANGED <<pool, activeConns, closed, open, broken, held, attempt, seen,
                 ctxDone, validConns, gauge>>

-----------------------------------------------------------------------------
(* Close. *)

Close ==
  /\ pc[Closer] = "idle"
  /\ closed' = TRUE
  /\ GoTo(Closer, "join")
  /\ UNCHANGED <<pool, activeConns, poolSize, open, broken, held, after,
                 attempt, seen, ctxDone, validConns, gauge>>

JoinMaintainer ==
  /\ pc[Closer] = "join"
  /\ pc[Maintainer] = "exited"
  /\ GoTo(Closer, "drain")
  /\ UNCHANGED <<pool, activeConns, poolSize, closed, open, broken, held, after,
                 attempt, seen, ctxDone, validConns, gauge>>

CloseDrain ==
  /\ pc[Closer] = "drain"
  /\ \/ Receive(Closer, "drain")
     \/ /\ pool = <<>>
        /\ GoTo(Closer, "done")
        /\ UNCHANGED <<pool, held, after>>
  /\ UNCHANGED <<activeConns, poolSize, closed, open, broken, attempt, seen,
                 ctxDone, validConns, gauge>>

(* Mutant: the drain of Close forgets to deduct what it receives.           *)
CloseWithoutCount ==
  /\ pc[Closer] = "size"
  /\ StartClose(Closer, after[Closer])
  /\ UNCHANGED <<pool, activeConns, poolSize, closed, open, broken, held, attempt,
                 seen, ctxDone, validConns, gauge>>

CloseCount ==
  /\ pc[Closer] = "size"
  /\ poolSize' = poolSize - 1
  /\ StartClose(Closer, after[Closer])
  /\ UNCHANGED <<pool, activeConns, closed, open, broken, held, attempt, seen,
                 ctxDone, validConns, gauge>>

-----------------------------------------------------------------------------
(* What a goroutine does on its own once an operation has begun.            *)
ClientStep(c) ==
  \/ TryGetExistingConnection(c) \/ ValidateAndPrepareConnection(c)
  \/ CheckContext(c) \/ LoadBudget(c) \/ ReserveBudget(c)
  \/ (\E n \in Conns : DialSucceeds(c, n)) \/ DialFails(c)
  \/ RetryDelay(c) \/ WaitForConnection(c)
  \/ PutCheckClosed(c) \/ PutSend(c) \/ PutCount(c)
  \/ CloseSocket(c) \/ ReleaseBudget(c)
  \/ LoadActive(c) \/ SetGauges(c)

CallerStep(c) ==
  \/ NewRequest(c) \/ ContextDone(c) \/ Get(c) \/ Put(c) \/ Discard(c)

MaintainStep ==
  \/ MaintainConnections \/ MaintainDrain \/ MaintainCheck \/ MaintainReinsert
  \/ MaintainCount \/ CloseSocket(Maintainer) \/ ReleaseBudget(Maintainer)

CloseStep ==
  \/ JoinMaintainer \/ CloseDrain \/ CloseCount
  \/ CloseSocket(Closer) \/ ReleaseBudget(Closer)

PoolNext ==
  \/ \E c \in Clients : ClientStep(c) \/ CallerStep(c)
  \/ MaintainStep
  \/ Close
  \/ CloseStep

PoolSpec == PoolInit /\ [][PoolNext]_poolVars

(* Goroutines are scheduled and contexts carry a deadline; nobody promises  *)
(* that a caller ever calls, returns a connection, or closes the pool.      *)
PoolFairness ==
  /\ \A c \in Clients : WF_poolVars(ClientStep(c)) /\ WF_poolVars(ContextDone(c))
  /\ WF_poolVars(MaintainStep)
  /\ WF_poolVars(CloseStep)

FairPoolSpec == PoolSpec /\ PoolFairness

-----------------------------------------------------------------------------
(* Properties. *)

(* Goroutines whose slot of the budget has no open socket: the connection   *)
(* is being dialed, or is closed and not yet deducted.                      *)
Owing == {a \in Agents : pc[a] \in {"dial", "dec"}}

(* The budget is exact: activeConns counts the open sockets plus the slots  *)
(* reserved for a dial or awaiting the decrement of                         *)
(* closeConnectionWithReason.  A double close, a connection lost on an      *)
(* error path or a decrement twice for one failure would make it drift.     *)
BudgetExact == activeConns = Cardinality(open) + Cardinality(Owing)

(* A goroutine owns the connection in its hand from the moment it takes it  *)
(* off the channel or dials it until it sends it back or closes its socket. *)
Owns(a) ==
  \/ pc[a] \in {"size", "close", "holding", "check", "send"}
  \/ pc[a] \in MetricPoints /\ after[a] = "holding"

(* Ownership is exclusive.  An owner's connection is open; no two owners    *)
(* have the same one, no owner's is also in the channel or on the list of   *)
(* the maintenance tick, and no connection is in the channel or on the list *)
(* twice or in both: no interleaving of Get, Put, Discard, maintenance and  *)
(* Close hands one LDAP connection to two users.                            *)
OwnedOnce ==
  /\ \A a \in Agents : Owns(a) => held[a] \in open
  /\ \A a, b \in Agents : Owns(a) /\ Owns(b) /\ a # b => held[a] # held[b]
PooledOnce(s) ==
  /\ \A i \in DOMAIN s : s[i] \in open
  /\ \A i, j \in DOMAIN s : i # j => s[i] # s[j]
  /\ \A i \in DOMAIN s, a \in Agents : Owns(a) => held[a] # s[i]
ExclusiveOwnership ==
  /\ OwnedOnce
  /\ PooledOnce(pool)
  /\ PooledOnce(validConns)
  /\ \A i \in DOMAIN pool, j \in DOMAIN validConns : pool[i] # validConns[j]

(* The compare-and-swap loop of tryCreateNewConnection keeps the number of  *)
(* sockets, those of connections being closed included, within              *)
(* maxConnections under every interleaving.                                 *)
BudgetRespected ==
  /\ activeConns <= MaxConnections
  /\ Cardinality(open) <= MaxConnections

(* Neither the channel nor a client that Get has returned to ever has a     *)
(* connection whose socket is closed or that was discarded.                 *)
NoDeadConnection ==
  /\ \A i \in DOMAIN pool : pool[i] \in open \ broken
  /\ \A c \in Clients : pc[c] = "holding" => held[c] \in open \ broken

(* The return addresses and flags that the proofs need: a call that closes  *)
(* or sends a connection never returns to a state that uses it, and only    *)
(* connections that Discard is tearing down have their broken flag set.     *)
ControlInv ==
  \A a \in Agents :
    /\ pc[a] \in {"size", "close", "dec", "inc"} => after[a] # "holding"
    /\ pc[a] \in {"size", "inc"} \cup MetricPoints => after[a] # "discarded"
    /\ pc[a] = "discarded" => held[a] \in broken
    /\ pc[a] \in ClosePoints /\ after[a] = "discarded" => held[a] \in broken
    /\ Owns(a) /\ held[a] \in broken => pc[a] = "close"
    /\ pc[a] = "cas" => a \in Clients /\ seen[a] < MaxConnections
    /\ pc[a] = "delay" => a \in Clients /\ ~LastAttempt(a)
NoBrokenPooled ==
  /\ \A i \in DOMAIN pool : pool[i] \notin broken
  /\ \A i \in DOMAIN validConns : validConns[i] \notin broken

(* A goroutine that owns no connection has nothing in its hand, or the one  *)
(* whose socket it has closed.                                              *)
EmptyHands ==
  \A a \in Agents : ~Owns(a) =>
    \/ held[a] = NoConn
    \/ pc[a] \in {"dec", "discarded"} /\ held[a] \notin open

(* No socket is forgotten: an open connection has an owner, waits in the    *)
(* channel or is on the list of the tick, which is empty between two ticks. *)
NothingLost ==
  \A n \in open :
    \/ \E a \in Agents : Owns(a) /\ held[a] = n
    \/ \E i \in DOMAIN pool : pool[i] = n
    \/ \E i \in DOMAIN validConns : validConns[i] = n
TickEndsEmpty ==
  /\ pc[Maintainer] \in {"size", "inc"} \cup ClosePoints
       => after[Maintainer] \in {"drain", "reinsert"}
  /\ pc[Maintainer] \in {"idle", "exited"} => validConns = <<>>

(* The inductive invariant behind the theorems of ConnectionPoolProofs.     *)
PoolInv ==
  /\ PoolTypeOK
  /\ ControlInv
  /\ ExclusiveOwnership
  /\ NoBrokenPooled
  /\ EmptyHands
  /\ NothingLost
  /\ TickEndsEmpty
  /\ BudgetExact
  /\ activeConns <= MaxConnections

(* poolSize is the length of the channel up to the receives not yet         *)
(* deducted and the sends not yet added: it is exact whenever no operation  *)
(* is under way, although it may be negative in between.                    *)
PoolSizeExact ==
  poolSize + Cardinality({a \in Agents : pc[a] = "inc"})
    = Len(pool) + Cardinality({a \in Agents : pc[a] = "size"})

(* A send to the channel never finds it full: with as many slots as budget, *)
(* the pool_full rejection of Put and its twin in the maintenance tick      *)
(* cannot happen, whatever the interleaving.                                *)
ChannelNeverFull ==
  /\ \A c \in Clients : pc[c] = "send" => Len(pool) < MaxConnections
  /\ pc[Maintainer] = "reinsert" /\ validConns # <<>>
       => Len(pool) < MaxConnections

(* A Get that blocks in waitForConnection comes back with a connection or   *)
(* an error, even when every connection it could wait for was discarded.    *)
WaiterReturns ==
  \A c \in Clients :
    pc[c] = "wait" ~> pc[c] \in {"holding", "failed"}

(* Close always finishes: it waits for the maintenance goroutine, which     *)
(* ends its tick and exits, and then drains the channel while clients still *)
(* return connections.                                                      *)
CloseCompletes == pc[Closer] = "join" ~> pc[Closer] = "done"

(* What Close is documented to do: when it has finished and no operation is *)
(* under way, no connection is left open.                                   *)
ClosedMeansNoSocket ==
  pc[Closer] = "done" /\ (\A c \in Clients : pc[c] \in {"idle", "failed"})
    => open = {}

(* The pool implements ConnectionLending.  A client has a connection lent   *)
(* from the return of Get to the send of Put; a connection is condemned     *)
(* when closeConnectionWithReason is entered for it.                        *)
LoanPoints == {"holding", "check", "send"} \cup MetricPoints
LentTo(c) == IF pc[c] \in LoanPoints THEN held[c] ELSE NoConn
Condemned == {held[a] : a \in {b \in Agents : pc[b] = "close"}}
LentConns == [c \in Clients |-> LentTo(c)]
IdleConns == (open \ Condemned) \ {LentTo(c) : c \in Clients}
Lending == INSTANCE ConnectionLending
             WITH idle <- IdleConns, lent <- LentConns, condemned <- Condemned

(* Every step of the pool is a step of the lending specification or leaves  *)
(* its state alone: no connection is lent twice, opened over budget, or     *)
(* lent again once it is condemned.                                         *)
LendingRefined == Lending!LendingSpec

=============================================================================
