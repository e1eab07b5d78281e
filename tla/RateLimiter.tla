----------------------------- MODULE RateLimiter -----------------------------
(***************************************************************************)
(* The HTTP rate limiter of pkg/security/ratelimit.go: a token bucket for  *)
(* each client address.  Allow looks the bucket up under the lock of the   *)
(* map and spends from it under the lock of the bucket; in between the     *)
(* cleanup goroutine, Reset or ResetAll may take the bucket off the map.   *)
(*                                                                         *)
(* Tokens are counted in units, Unit to a token, so that the fractions     *)
(* that a refill adds are visible.  Time is kept as the age of lastSeen.   *)
(***************************************************************************)
EXTENDS Integers, FiniteSets

CONSTANTS
  Ips,              \* client addresses
  Trusted,          \* those in one of the trusted proxy ranges
  Peers,            \* direct peers, a subset of Ips
  Garbage,          \* a header value that is no address, or no header
  MaxHops,          \* bound: entries of X-Forwarded-For
  Requests,         \* requests that are served at the same time
  Unit,             \* units to a token
  Rate,             \* units that a tick of the clock adds
  Burst,            \* burst, in tokens
  CleanupInterval   \* in ticks

\* main.go takes rate and burst from the environment as they are; negative
\* ones, which fill no bucket, are left out.
ASSUME LimiterAssumption ==
  /\ IsFiniteSet(Ips) /\ IsFiniteSet(Requests) /\ MaxHops \in Nat
  /\ Trusted \subseteq Ips /\ Peers \subseteq Ips /\ Garbage \notin Ips
  /\ {Unit, CleanupInterval} \subseteq Nat \ {0}
  /\ {Rate, Burst} \subseteq Nat

Sources == Ips \ Trusted
Full == Burst * Unit
\* An older bucket is no different: it is idle and, if ever, full again.
MaxAge == CleanupInterval + 1 + Full
\* At most one bucket for each address, and one held by each request.
Buckets == 1..(Cardinality(Ips) + Cardinality(Requests))

VARIABLES
  clients,   \* bucket of each address, 0 if it has none
  tokens,    \* units in each bucket
  age,       \* ticks since lastSeen, at most MaxAge
  stage,     \* of each request: "idle", "create", "spend"
  peer, key, \* of each request: RemoteAddr, and the client address
  held,      \* of each request: the bucket Allow has in hand, or 0
  cleaner,   \* cleanupRoutine: "wait", "delete" or "ended"
  toDelete,  \* addresses that the first pass of cleanupClients picked
  expired,   \* buckets with lastSeen before the cutoff of that pass
  stopped,
  refused,   \* history: clients that Allow last said no to
  ideal,     \* history: one exact token bucket for each direct peer
  forgotten  \* history: buckets in hand that were taken off the map

requestVars == <<stage, peer, key, held>>
cleanupVars == <<cleaner, toDelete, expired, stopped>>
vars == <<clients, tokens, age, requestVars, cleanupVars, refused, ideal,
          forgotten>>

Init ==
  /\ clients = [a \in Ips |-> 0]
  /\ tokens = [b \in Buckets |-> 0]
  /\ age = [b \in Buckets |-> 0]
  /\ stage = [r \in Requests |-> "idle"]
  /\ peer = [r \in Requests |-> Garbage]
  /\ key = [r \in Requests |-> Garbage]
  /\ held = [r \in Requests |-> 0]
  /\ cleaner = "wait" /\ toDelete = {} /\ expired = {} /\ stopped = FALSE
  /\ refused = {}
  /\ ideal = [a \in Sources |-> Full]
  /\ forgotten = {}

AtMost(n, bound) == IF n > bound THEN bound ELSE n

InMap == {clients[a] : a \in Ips} \ {0}
InHand == {held[r] : r \in Requests} \ {0}

-----------------------------------------------------------------------------
(* The headers count only if a trusted proxy sent the request; entries of  *)
(* X-Forwarded-For that do not parse or that are proxies are skipped.      *)
GetClientIP(remote, xff, xri) ==
  LET hops == {i \in DOMAIN xff : xff[i] \in Sources}
      first == CHOOSE i \in hops : \A j \in hops : i <= j
  IN  IF remote \notin Trusted THEN remote
      ELSE IF hops # {} THEN xff[first]
      ELSE IF xri \in Ips THEN xri
      ELSE remote

Values == Ips \cup {Garbage}
Chains == UNION {[1..n -> Values] : n \in 0..MaxHops}

(* RateLimitMiddlewareWithMonitoring calls Allow, which looks the bucket   *)
(* up under the read lock.                                                 *)
RequestArrives(r, remote) ==
  /\ stage[r] = "idle"
  /\ \E xff \in Chains, xri \in Values :
       LET a == GetClientIP(remote, xff, xri) IN
       /\ key' = [key EXCEPT ![r] = a]
       /\ held' = [held EXCEPT ![r] = clients[a]]
       /\ stage' = [stage EXCEPT ![r] =
                      IF clients[a] = 0 THEN "create" ELSE "spend"]
  /\ peer' = [peer EXCEPT ![r] = remote]
  /\ UNCHANGED <<clients, tokens, age, cleanupVars, refused, ideal, forgotten>>

(* Mutant: the address is not looked up again under the write lock. *)
NoneYetUnchecked(a) == TRUE

NoneYet(a) == clients[a] = 0

(* Allow, under the write lock: another request may have been faster. *)
Create(r) ==
  /\ stage[r] = "create"
  /\ stage' = [stage EXCEPT ![r] = "spend"]
  /\ IF NoneYet(key[r])
     THEN LET b == CHOOSE x \in Buckets \ (InMap \cup InHand) : TRUE IN
          /\ clients' = [clients EXCEPT ![key[r]] = b]
          /\ held' = [held EXCEPT ![r] = b]
          /\ tokens' = [tokens EXCEPT ![b] = Full]
          /\ age' = [age EXCEPT ![b] = 0]
          /\ expired' = expired \ {b}
     ELSE /\ held' = [held EXCEPT ![r] = clients[key[r]]]
          /\ UNCHANGED <<clients, tokens, age, expired>>
  /\ UNCHANGED <<peer, key, cleaner, toDelete, stopped, refused, ideal, forgotten>>

(* Mutant: whole tokens only, the fraction of a refill is dropped. *)
RefilledTruncated(b) ==
  AtMost(tokens[b] + ((age[b] * Rate) \div Unit) * Unit, Full)

Refilled(b) == AtMost(tokens[b] + age[b] * Rate, Full)

(* allowBucket and the answer of the middleware.  A bucket that was in     *)
(* nobody else's hand and off the map is garbage.                          *)
AllowBucket(r) ==
  /\ stage[r] = "spend"
  /\ LET b == held[r]
         allowed == Refilled(b) >= Unit
         left == IF allowed THEN Refilled(b) - Unit ELSE Refilled(b)
         reachable == b \in InMap \/ \E q \in Requests \ {r} : held[q] = b IN
     /\ tokens' = [tokens EXCEPT ![b] = IF reachable THEN left ELSE 0]
     /\ age' = [age EXCEPT ![b] = 0]
     /\ expired' = expired \ {b}
     /\ refused' = IF allowed THEN refused \ {key[r]}
                   ELSE refused \cup ({key[r]} \cap Sources)
     /\ ideal' = IF allowed /\ peer[r] \in Sources /\ b \notin forgotten
                 THEN [ideal EXCEPT ![peer[r]] = @ - Unit] ELSE ideal
     /\ forgotten' = IF reachable THEN forgotten ELSE forgotten \ {b}
  /\ stage' = [stage EXCEPT ![r] = "idle"]
  /\ held' = [held EXCEPT ![r] = 0]
  /\ peer' = [peer EXCEPT ![r] = Garbage]
  /\ key' = [key EXCEPT ![r] = Garbage]
  /\ UNCHANGED <<clients, cleaner, toDelete, stopped>>

-----------------------------------------------------------------------------
(* Addresses leave the map; requests may still have their buckets in hand. *)
Forget(as) ==
  LET gone == {clients[a] : a \in as} \ {0} IN
  /\ clients' = [a \in Ips |-> IF a \in as THEN 0 ELSE clients[a]]
  /\ forgotten' = forgotten \cup (gone \cap InHand)
  /\ tokens' = [b \in Buckets |-> IF b \in gone \ InHand THEN 0 ELSE tokens[b]]
  /\ age' = [b \in Buckets |-> IF b \in gone \ InHand THEN 0 ELSE age[b]]

(* Reset, for one address, and ResetAll: a fresh start on purpose. *)
Reset(as) ==
  /\ Forget(as)
  /\ ideal' = [a \in Sources |-> IF a \in as THEN Full ELSE ideal[a]]
  /\ UNCHANGED <<requestVars, cleanupVars, refused>>

(* First pass of cleanupClients; cutoff is read at its start. *)
CleanupScan ==
  LET old == {b \in InMap : age[b] > CleanupInterval} IN
  /\ cleaner = "wait"
  /\ old # {}
  /\ expired' = old
  /\ toDelete' = {a \in Ips : clients[a] \in old}
  /\ cleaner' = "delete"
  /\ UNCHANGED <<clients, tokens, age, requestVars, stopped, refused, ideal,
                 forgotten>>

(* Mutant: what the first pass saw is not checked again. *)
StillIdleUnchecked(a) == clients[a] # 0

StillIdle(a) == clients[a] \in expired

(* What a bucket may lack of the burst after CleanupInterval without a     *)
(* request: nothing with the defaults of main.go, but a low rate beside a  *)
(* large burst leaves something, and the next request finds a new bucket.  *)
Forgiven == Full - AtMost(CleanupInterval * Rate, Full)

(* Second pass, under the write lock. *)
CleanupDelete ==
  LET idle == {a \in toDelete : StillIdle(a)} IN
  /\ cleaner = "delete"
  /\ Forget(idle)
  /\ ideal' = [a \in Sources |-> IF a \in idle THEN AtMost(ideal[a] + Forgiven, Full)
                                 ELSE ideal[a]]
  /\ toDelete' = {} /\ expired' = {}
  /\ cleaner' = "wait"
  /\ UNCHANGED <<requestVars, stopped, refused>>

Stop ==
  /\ ~stopped
  /\ stopped' = TRUE
  /\ UNCHANGED <<clients, tokens, age, requestVars, cleaner, toDelete, expired,
                 refused, ideal, forgotten>>

CleanupExits ==
  /\ cleaner = "wait" /\ stopped
  /\ cleaner' = "ended"
  /\ UNCHANGED <<clients, tokens, age, requestVars, toDelete, expired, stopped,
                 refused, ideal, forgotten>>

Tick ==
  /\ age' = [b \in Buckets |-> IF b \in InMap \cup InHand
                               THEN AtMost(age[b] + 1, MaxAge)
                               ELSE age[b]]
  /\ ideal' = [a \in Sources |-> AtMost(ideal[a] + Rate, Full)]
  /\ UNCHANGED <<clients, tokens, requestVars, cleanupVars, refused, forgotten>>

-----------------------------------------------------------------------------
RequestStep(r) == Create(r) \/ AllowBucket(r)

Next ==
  \/ \E r \in Requests : RequestStep(r) \/ \E a \in Peers : RequestArrives(r, a)
  \/ Reset(Ips)
  \/ \E a \in Ips : Reset({a})
  \/ CleanupScan \/ CleanupDelete \/ CleanupExits
  \/ Stop
  \/ Tick

Spec == Init /\ [][Next]_vars

(* Time passes, handlers run, and each client asks again and again. *)
Fairness ==
  /\ WF_vars(Tick)
  /\ \A r \in Requests : WF_vars(RequestStep(r))
  /\ \A a \in Peers : SF_vars(\E r \in Requests : RequestArrives(r, a))

FairSpec == Spec /\ Fairness

-----------------------------------------------------------------------------
(* Types.  A bucket never holds a negative balance or more than the burst. *)
TypeOK ==
  /\ clients \in [Ips -> Buckets \cup {0}]
  /\ tokens \in [Buckets -> 0..Full]
  /\ age \in [Buckets -> 0..MaxAge]
  /\ stage \in [Requests -> {"idle", "create", "spend"}]
  /\ peer \in [Requests -> Values] /\ key \in [Requests -> Values]
  /\ held \in [Requests -> Buckets \cup {0}]
  /\ cleaner \in {"wait", "delete", "ended"}
  /\ toDelete \subseteq Ips /\ expired \subseteq Buckets
  /\ stopped \in BOOLEAN
  /\ refused \subseteq Sources
  /\ ideal \in [Sources -> Int]
  /\ forgotten \subseteq InHand

(* ratelimit.go:85 and :118: over any period, the requests of a direct     *)
(* peer that Allow lets through are at most the burst and the rate times   *)
(* the period, as one exact bucket would, and what Forgiven allows for     *)
(* each cleanup that forgot the peer: creation races, the passes of the    *)
(* cleanup and the headers the peer sends gain it nothing.  Only a request *)
(* that had its bucket in hand when it was forgotten goes uncounted.       *)
RateRespected == \A a \in Sources : ideal[a] >= 0

(* ratelimit.go:85: two requests of an address draw from one bucket unless *)
(* the bucket of the first was forgotten in between.                       *)
OneBucketPerClient ==
  \A r \in Requests :
    held[r] # 0 => held[r] = clients[key[r]] \/ held[r] \in forgotten

(* ratelimit.go:97: no two addresses share a bucket, and one that was      *)
(* taken off the map never comes back to it.                               *)
OneClientPerBucket ==
  /\ \A a, c \in Ips : clients[a] = clients[c] /\ clients[a] # 0 => a = c
  /\ forgotten \cap InMap = {}

(* ratelimit.go:278: a request on its way has an address, its own if no    *)
(* proxy forwarded it, and has a bucket once Allow has found or made one.  *)
RequestsInStage ==
  \A r \in Requests :
    /\ held[r] # 0 <=> stage[r] = "spend"
    /\ stage[r] # "idle" => key[r] \in Ips /\ peer[r] \in Ips
    /\ (stage[r] # "idle" /\ peer[r] \in Sources) => key[r] = peer[r]

(* ratelimit.go:171: what the cleanup may still delete has been idle for   *)
(* the whole interval, whatever was spent, reset or created since the      *)
(* first pass.                                                             *)
ExpiredIsIdle == \A b \in expired \cap InMap : age[b] > CleanupInterval

(* ratelimit.go:93 and :118: a bucket never has more than the exact one,   *)
(* and an address without a bucket may start with the burst.               *)
IdealCovers ==
  \A a \in Sources :
    ideal[a] >= IF clients[a] = 0 THEN Full ELSE Refilled(clients[a])

(* Types, the balance of a bucket between zero and the burst, one bucket   *)
(* for each client through the three critical sections of Allow, and the   *)
(* exact bucket above the real one.                                        *)
LimiterInv ==
  /\ TypeOK /\ RequestsInStage /\ OneBucketPerClient /\ OneClientPerBucket
  /\ ExpiredIsIdle /\ IdealCovers

(* ratelimit.go:44: a client that keeps asking is let through again, also  *)
(* if it asks more often than tokens accrue.                               *)
RefusedClientServed ==
  \A a \in Sources \cap Peers : a \in refused ~> a \notin refused
=============================================================================
