-------------------------- MODULE RateLimiterProofs --------------------------
(***************************************************************************)
(* The rate limiter for any addresses, proxies, headers, requests at once, *)
(* rate, burst and cleanup interval, also where the cleanup forgets a      *)
(* bucket that is not full yet.                                            *)
(***************************************************************************)
EXTENDS RateLimiter, FiniteSetTheorems, WellFoundedInduction, TLAPS

-----------------------------------------------------------------------------
(* Numbers. *)

LEMMA Positive ==
  /\ Unit \in Nat /\ Rate \in Nat /\ Burst \in Nat /\ CleanupInterval \in Nat
  /\ Unit > 0 /\ Full \in Nat /\ MaxAge \in Nat /\ MaxAge > CleanupInterval
<1>1. /\ Unit \in Nat \ {0} /\ Rate \in Nat /\ Burst \in Nat
      /\ CleanupInterval \in Nat \ {0}
  BY LimiterAssumption
<1>2. Burst * Unit \in Nat
  BY <1>1
<1> QED
  BY <1>1, <1>2 DEF Full, MaxAge

LEMMA AtMostIsMinimum ==
  ASSUME NEW n \in Int, NEW bound \in Int
  PROVE  /\ AtMost(n, bound) \in Int
         /\ AtMost(n, bound) <= n /\ AtMost(n, bound) <= bound
         /\ AtMost(n, bound) = n \/ AtMost(n, bound) = bound
BY DEF AtMost

LEMMA Product ==
  ASSUME NEW n \in Nat, NEW m \in Nat
  PROVE  /\ n * m \in Nat
         /\ (n + 1) * m = n * m + m
         /\ 0 * m = 0
OBVIOUS

LEMMA ProductGrows ==
  ASSUME NEW k \in Nat, NEW n \in Nat, NEW m \in Nat, n > k
  PROVE  n * m >= k * m
OBVIOUS

(* What a request finds in a bucket is a balance within the burst. *)
LEMMA RefilledType ==
  ASSUME NEW t \in 0..Full, NEW g \in Nat
  PROVE  AtMost(t + g * Rate, Full) \in 0..Full
<1> DEFINE y == g * Rate
<1>1. y \in Nat /\ Full \in Nat
  BY Positive, Product
<1> HIDE DEF y
<1>2. AtMost(t + y, Full) \in 0..Full
  BY <1>1 DEF AtMost
<1> QED
  BY <1>2 DEF y

(* A tick adds at most the rate, to the bucket as to the exact one. *)
LEMMA TickAdds ==
  ASSUME NEW t \in 0..Full, NEW g \in Nat, NEW x \in Int,
         x >= AtMost(t + g * Rate, Full)
  PROVE  /\ AtMost(x + Rate, Full) >= AtMost(t + (g + 1) * Rate, Full)
         /\ AtMost(x + Rate, Full) >= AtMost(t + g * Rate, Full)
<1>1. /\ g * Rate \in Nat /\ (g + 1) * Rate = g * Rate + Rate
      /\ Rate \in Nat /\ Full \in Nat
  BY Positive, Product
<1> DEFINE y == g * Rate
<1> HIDE DEF y
<1>2. y \in Nat /\ (g + 1) * Rate = y + Rate /\ x >= AtMost(t + y, Full)
  BY <1>1 DEF y
<1>3. /\ AtMost(x + Rate, Full) >= AtMost(t + (y + Rate), Full)
      /\ AtMost(x + Rate, Full) >= AtMost(t + y, Full)
  BY <1>1, <1>2 DEF AtMost
<1> QED
  BY <1>2, <1>3 DEF y

(* What an idle bucket lacks of the burst, Forgiven makes up for. *)
LEMMA IdleLacksForgiven ==
  ASSUME NEW t \in 0..Full, NEW g \in Nat, g > CleanupInterval, NEW x \in Int,
         x >= AtMost(t + g * Rate, Full)
  PROVE  AtMost(x + Forgiven, Full) = Full
<1>1. g * Rate >= CleanupInterval * Rate
  BY Positive, ProductGrows
<1>2. CleanupInterval * Rate \in Nat /\ g * Rate \in Nat /\ Full \in Nat
  BY Positive, Product
<1> DEFINE y == g * Rate
           z == CleanupInterval * Rate
<1>3. y >= z /\ y \in Nat /\ z \in Nat /\ x >= AtMost(t + y, Full)
  BY <1>1, <1>2
<1> HIDE DEF y, z
<1>4. AtMost(x + (Full - AtMost(z, Full)), Full) = Full
  BY <1>2, <1>3 DEF AtMost
<1> QED
  BY <1>4 DEF Forgiven, z

-----------------------------------------------------------------------------
(* Addresses and buckets. *)

LEMMA LeastNat ==
  ASSUME NEW D \in SUBSET Nat, D # {}
  PROVE  \E d \in D : \A e \in D : d <= e
<1>1. PICK d \in D : \A e \in D : <<e, d>> \notin OpToRel(<, Nat)
  BY WFMin, NatLessThanWellFounded
<1>2. ASSUME NEW e \in D
      PROVE  d <= e
  <2>1. SUFFICES ASSUME e < d PROVE FALSE
    OBVIOUS
  <2>2. <<e, d>> \in OpToRel(<, Nat)
    BY <2>1, Zenon DEF OpToRel
  <2> QED
    BY <2>2, <1>1
<1> QED
  BY <1>2

(* ratelimit.go:272: whatever the headers say, a request has an address,   *)
(* and its own if it does not come from a trusted proxy.                   *)
LEMMA ClientHasAddress ==
  ASSUME NEW remote \in Ips, NEW xff \in Chains, NEW xri \in Values
  PROVE  /\ GetClientIP(remote, xff, xri) \in Ips
         /\ remote \in Sources => GetClientIP(remote, xff, xri) = remote
<1> DEFINE hops == {i \in DOMAIN xff : xff[i] \in Sources}
           first == CHOOSE i \in hops : \A j \in hops : i <= j
<1>1. hops # {} => xff[first] \in Ips
  <2> SUFFICES ASSUME hops # {} PROVE xff[first] \in Ips
    OBVIOUS
  <2>1. PICK n \in 0..MaxHops : xff \in [1..n -> Values]
    BY DEF Chains
  <2>2. hops \in SUBSET Nat
    BY <2>1, LimiterAssumption
  <2>3. \E i \in hops : \A j \in hops : i <= j
    <3> HIDE DEF hops
    <3> QED
      BY <2>2, LeastNat
  <2>4. first \in hops
    <3> HIDE DEF hops
    <3> QED
      BY <2>3
  <2> QED
    BY <2>4 DEF Sources
<1>2. GetClientIP(remote, xff, xri) =
        IF remote \notin Trusted THEN remote
        ELSE IF hops # {} THEN xff[first]
        ELSE IF xri \in Ips THEN xri
        ELSE remote
  BY DEF GetClientIP
<1> HIDE DEF hops, first
<1> QED
  BY <1>1, <1>2 DEF Sources

(* ratelimit.go:93: there is always a bucket to make: each address has one *)
(* at most, the one that asks has none, and each request holds one.        *)
LEMMA FreshBucket ==
  ASSUME TypeOK, NEW a \in Ips, clients[a] = 0
  PROVE  Buckets \ (InMap \cup InHand) # {}
<1> DEFINE S == Ips \ {a}
           f == [c \in S |-> clients[c]]
           T == {clients[c] : c \in S}
           H == {held[r] : r \in Requests}
           g == [r \in Requests |-> held[r]]
           N == Cardinality(Ips) + Cardinality(Requests)
<1>1. /\ IsFiniteSet(S) /\ Cardinality(S) = Cardinality(Ips) - 1
      /\ Cardinality(Ips) \in Nat /\ Cardinality(Requests) \in Nat
  BY LimiterAssumption, FS_RemoveElement, FS_CardinalityType
<1>2. IsFiniteSet(T) /\ Cardinality(T) <= Cardinality(S)
  <2>1. f \in Surjection(S, T)
    BY DEF Surjection
  <2> HIDE DEF f, T, S
  <2> QED
    BY <2>1, <1>1, FS_Surjection
<1>3. IsFiniteSet(H) /\ Cardinality(H) <= Cardinality(Requests)
  <2>1. g \in Surjection(Requests, H)
    BY DEF Surjection
  <2> HIDE DEF g, H
  <2> QED
    BY <2>1, LimiterAssumption, FS_Surjection
<1>4. IsFiniteSet(T \cup H) /\ Cardinality(T \cup H) < N
  <2> HIDE DEF T, H, S
  <2>1. /\ IsFiniteSet(T \cup H) /\ IsFiniteSet(T \cap H)
        /\ Cardinality(T \cup H) = Cardinality(T) + Cardinality(H) - Cardinality(T \cap H)
    BY <1>2, <1>3, FS_Union, FS_Intersection
  <2>2. /\ Cardinality(T) \in Nat /\ Cardinality(H) \in Nat
        /\ Cardinality(T \cap H) \in Nat
    BY <2>1, <1>2, <1>3, FS_CardinalityType
  <2> QED
    BY <1>1, <1>2, <1>3, <2>1, <2>2
<1>5. Buckets \subseteq T \cup H => FALSE
  <2> HIDE DEF T, H
  <2>1. Cardinality(Buckets) = N
    <3>1. N \in Nat /\ Buckets = 1..N
      BY <1>1 DEF Buckets
    <3> HIDE DEF N
    <3> QED
      BY <3>1, FS_Interval
  <2>2. Buckets \in SUBSET (T \cup H) => Cardinality(Buckets) <= Cardinality(T \cup H)
    BY <1>4, FS_Subset
  <2>3. Cardinality(T \cup H) \in Nat /\ N \in Nat
    BY <1>1, <1>4, FS_CardinalityType
  <2> HIDE DEF N
  <2> QED
    BY <1>4, <2>1, <2>2, <2>3
<1>6. InMap \subseteq T
  BY DEF InMap
<1>7. InHand \subseteq H
  BY DEF InHand
<1> HIDE DEF T, H
<1> QED
  BY <1>5, <1>6, <1>7
-----------------------------------------------------------------------------
LEMMA InitInv == Init => LimiterInv
<1> SUFFICES ASSUME Init PROVE LimiterInv
  OBVIOUS
<1> USE Positive DEF Init
<1>1. TypeOK
  <2>1. 0 \in 0..Full /\ 0 \in 0..MaxAge
    OBVIOUS
  <2>2. /\ clients \in [Ips -> Buckets \cup {0}]
        /\ tokens \in [Buckets -> 0..Full]
        /\ age \in [Buckets -> 0..MaxAge]
        /\ held \in [Requests -> Buckets \cup {0}]
        /\ ideal \in [Sources -> Int]
    BY <2>1
  <2>3. /\ stage \in [Requests -> {"idle", "create", "spend"}]
        /\ peer \in [Requests -> Values] /\ key \in [Requests -> Values]
    BY DEF Values
  <2> QED
    BY <2>2, <2>3 DEF TypeOK
<1>2. RequestsInStage /\ OneBucketPerClient
  BY DEF RequestsInStage, OneBucketPerClient
<1>3. OneClientPerBucket /\ ExpiredIsIdle
  BY DEF OneClientPerBucket, ExpiredIsIdle
<1>4. IdealCovers
  BY DEF IdealCovers, Sources
<1> QED
  BY <1>1, <1>2, <1>3, <1>4 DEF LimiterInv

(* What IdealCovers says of an address depends on its bucket only. *)
LEMMA CoveredStill ==
  ASSUME LimiterInv, NEW a \in Sources, clients'[a] = clients[a],
         ideal'[a] = ideal[a],
         clients[a] # 0 => /\ tokens'[clients[a]] = tokens[clients[a]]
                           /\ age'[clients[a]] = age[clients[a]]
  PROVE  ideal'[a] >= IF clients'[a] = 0 THEN Full
                      ELSE AtMost(tokens'[clients'[a]] + age'[clients'[a]] * Rate, Full)
<1>1. ideal[a] >= IF clients[a] = 0 THEN Full ELSE Refilled(clients[a])
  BY DEF LimiterInv, IdealCovers
<1>2. CASE clients[a] = 0
  BY <1>1, <1>2
<1>3. CASE clients[a] # 0
  BY <1>1, <1>3 DEF Refilled
<1> QED
  BY <1>2, <1>3

LEMMA ArriveStep ==
  ASSUME LimiterInv, NEW r \in Requests, NEW remote \in Peers,
         RequestArrives(r, remote)
  PROVE  LimiterInv'
<1>0. /\ TypeOK /\ RequestsInStage /\ OneBucketPerClient /\ OneClientPerBucket
      /\ ExpiredIsIdle /\ IdealCovers
  BY DEF LimiterInv
<1>a. PICK xff \in Chains, xri \in Values :
        LET a == GetClientIP(remote, xff, xri) IN
        /\ key' = [key EXCEPT ![r] = a]
        /\ held' = [held EXCEPT ![r] = clients[a]]
        /\ stage' = [stage EXCEPT ![r] =
                       IF clients[a] = 0 THEN "create" ELSE "spend"]
  BY DEF RequestArrives
<1>b. PICK a \in Ips :
        /\ key' = [key EXCEPT ![r] = a]
        /\ held' = [held EXCEPT ![r] = clients[a]]
        /\ stage' = [stage EXCEPT ![r] =
                       IF clients[a] = 0 THEN "create" ELSE "spend"]
        /\ remote \in Sources => a = remote
  BY <1>a, ClientHasAddress, LimiterAssumption
<1>c. /\ peer' = [peer EXCEPT ![r] = remote] /\ remote \in Ips /\ stage[r] = "idle"
      /\ UNCHANGED <<clients, tokens, age, cleaner, toDelete, expired, stopped,
                     refused, ideal, forgotten>>
  BY LimiterAssumption DEF RequestArrives, cleanupVars
<1>d. held[r] = 0
  BY <1>0, <1>c DEF RequestsInStage
<1>e. \A q \in Requests : held'[q] = IF q = r THEN clients[a] ELSE held[q]
  BY <1>0, <1>b DEF TypeOK
<1>f. InMap' = InMap /\ InHand \subseteq InHand'
  BY <1>c, <1>d, <1>e DEF InMap, InHand
<1>1. TypeOK'
  <2>1. forgotten' \subseteq InHand'
    BY <1>0, <1>c, <1>f DEF TypeOK
  <2> QED
    BY <1>0, <1>b, <1>c, <2>1 DEF TypeOK, Values
<1>2. RequestsInStage'
  BY <1>0, <1>b, <1>c DEF RequestsInStage, TypeOK
<1>3. OneBucketPerClient'
  BY <1>0, <1>b, <1>c DEF OneBucketPerClient, TypeOK
<1>4. OneClientPerBucket'
  BY <1>0, <1>c, <1>f DEF OneClientPerBucket
<1>5. ExpiredIsIdle'
  BY <1>0, <1>c, <1>f DEF ExpiredIsIdle
<1>6. IdealCovers'
  BY <1>0, <1>c DEF IdealCovers, Refilled
<1> QED
  BY <1>1, <1>2, <1>3, <1>4, <1>5, <1>6 DEF LimiterInv

LEMMA FoundStep ==
  ASSUME LimiterInv, NEW r \in Requests, Create(r), clients[key[r]] # 0
  PROVE  LimiterInv'
<1>0. /\ TypeOK /\ RequestsInStage /\ OneBucketPerClient /\ OneClientPerBucket
      /\ ExpiredIsIdle /\ IdealCovers
  BY DEF LimiterInv
<1>c. /\ stage[r] = "create" /\ stage' = [stage EXCEPT ![r] = "spend"]
      /\ held' = [held EXCEPT ![r] = clients[key[r]]]
      /\ UNCHANGED <<clients, tokens, age, peer, key, cleaner, toDelete, expired,
                     stopped, refused, ideal, forgotten>>
  BY DEF Create, NoneYet
<1>d. held[r] = 0 /\ key[r] \in Ips
  BY <1>0, <1>c DEF RequestsInStage
<1>e. \A q \in Requests : held'[q] = IF q = r THEN clients[key[r]] ELSE held[q]
  BY <1>0, <1>c DEF TypeOK
<1>f. InMap' = InMap /\ InHand \subseteq InHand'
  BY <1>c, <1>d, <1>e DEF InMap, InHand
<1>1. TypeOK'
  <2>1. forgotten' \subseteq InHand'
    BY <1>0, <1>c, <1>f DEF TypeOK
  <2> QED
    BY <1>0, <1>c, <1>d, <2>1 DEF TypeOK
<1>2. RequestsInStage'
  BY <1>0, <1>c DEF RequestsInStage, TypeOK
<1>3. OneBucketPerClient'
  BY <1>0, <1>c, <1>e DEF OneBucketPerClient
<1>4. OneClientPerBucket'
  BY <1>0, <1>c, <1>f DEF OneClientPerBucket
<1>5. ExpiredIsIdle'
  BY <1>0, <1>c, <1>f DEF ExpiredIsIdle
<1>6. IdealCovers'
  BY <1>0, <1>c DEF IdealCovers, Refilled
<1> QED
  BY <1>1, <1>2, <1>3, <1>4, <1>5, <1>6 DEF LimiterInv

LEMMA MadeStep ==
  ASSUME LimiterInv, NEW r \in Requests, Create(r), clients[key[r]] = 0
  PROVE  LimiterInv'
<1>0. /\ TypeOK /\ RequestsInStage /\ OneBucketPerClient /\ OneClientPerBucket
      /\ ExpiredIsIdle /\ IdealCovers
  BY DEF LimiterInv
<1> DEFINE b == CHOOSE x \in Buckets \ (InMap \cup InHand) : TRUE
<1>a. stage[r] = "create" /\ key[r] \in Ips /\ held[r] = 0
  BY <1>0 DEF Create, RequestsInStage
<1>b. b \in Buckets /\ b \notin InMap /\ b \notin InHand /\ b # 0
  <2>1. b \in Buckets \ (InMap \cup InHand)
    <3>1. Buckets \ (InMap \cup InHand) # {}
      BY <1>0, <1>a, FreshBucket
    <3> QED
      BY <3>1
  <2> QED
    BY <2>1 DEF Buckets
<1>c. /\ stage' = [stage EXCEPT ![r] = "spend"]
      /\ clients' = [clients EXCEPT ![key[r]] = b]
      /\ held' = [held EXCEPT ![r] = b]
      /\ tokens' = [tokens EXCEPT ![b] = Full]
      /\ age' = [age EXCEPT ![b] = 0]
      /\ expired' = expired \ {b}
      /\ UNCHANGED <<peer, key, cleaner, toDelete, stopped, refused, ideal, forgotten>>
  BY DEF Create, NoneYet
<1> HIDE DEF b
<1>d. /\ \A q \in Requests : held'[q] = IF q = r THEN b ELSE held[q]
      /\ \A a \in Ips : clients'[a] = IF a = key[r] THEN b ELSE clients[a]
  BY <1>0, <1>c DEF TypeOK
<1>e. InMap' = InMap \cup {b} /\ InHand' = InHand \cup {b}
  BY <1>a, <1>b, <1>d DEF InMap, InHand
<1>1. TypeOK'
  <2>1. forgotten' \subseteq InHand'
    BY <1>0, <1>c, <1>e DEF TypeOK
  <2>2. Full \in 0..Full /\ 0 \in 0..MaxAge
    BY Positive
  <2> QED
    BY <1>0, <1>a, <1>b, <1>c, <2>1, <2>2 DEF TypeOK
<1>2. RequestsInStage'
  BY <1>0, <1>a, <1>b, <1>c, <1>d DEF RequestsInStage, TypeOK
<1>3. OneBucketPerClient'
  <2> SUFFICES ASSUME NEW q \in Requests, held'[q] # 0
               PROVE  held'[q] = clients'[key[q]] \/ held'[q] \in forgotten
    BY <1>c DEF OneBucketPerClient
  <2>1. CASE q = r
    BY <1>a, <1>d, <2>1
  <2>2. CASE q # r
    <3>1. held[q] = clients[key[q]] \/ held[q] \in forgotten
      BY <1>0, <1>d, <2>2 DEF OneBucketPerClient
    <3>2. key[q] \in Ips
      BY <1>0, <1>d, <2>2 DEF RequestsInStage
    <3> QED
      BY <1>d, <2>2, <3>1, <3>2
  <2> QED
    BY <2>1, <2>2
<1>4. OneClientPerBucket'
  <2>1. \A a \in Ips : clients[a] # b
    BY <1>b DEF InMap
  <2>2. b \notin forgotten
    BY <1>0, <1>b DEF TypeOK
  <2> QED
    BY <1>0, <1>c, <1>d, <1>e, <2>1, <2>2 DEF OneClientPerBucket
<1>5. ExpiredIsIdle'
  BY <1>0, <1>b, <1>c, <1>e DEF ExpiredIsIdle, TypeOK
<1>6. IdealCovers'
  <2> SUFFICES ASSUME NEW a \in Sources
               PROVE  ideal'[a] >=
                        IF clients'[a] = 0 THEN Full
                        ELSE AtMost(tokens'[clients'[a]] + age'[clients'[a]] * Rate, Full)
    BY DEF IdealCovers, Refilled
  <2>1. CASE a = key[r]
    <3>1. clients'[a] = b /\ tokens'[b] = Full /\ age'[b] = 0
      BY <1>0, <1>a, <1>b, <1>c, <1>d, <2>1 DEF TypeOK
    <3>2. AtMost(Full + 0 * Rate, Full) = Full
      BY Positive, Product DEF AtMost
    <3>3. ideal[a] >= Full
      BY <1>0, <2>1 DEF IdealCovers
    <3> QED
      BY <1>b, <1>c, <3>1, <3>2, <3>3
  <2>2. CASE a # key[r]
    <3>1. a \in Ips /\ clients'[a] = clients[a] /\ clients[a] # b
      BY <1>b, <1>d, <2>2 DEF InMap, Sources
    <3>2. clients[a] # 0 => /\ tokens'[clients[a]] = tokens[clients[a]]
                            /\ age'[clients[a]] = age[clients[a]]
      BY <1>0, <1>c, <3>1 DEF TypeOK
    <3> QED
      BY <1>c, <3>1, <3>2, CoveredStill
  <2> QED
    BY <2>1, <2>2
<1> QED
  BY <1>1, <1>2, <1>3, <1>4, <1>5, <1>6 DEF LimiterInv
LEMMA AllowStep ==
  ASSUME LimiterInv, NEW r \in Requests, AllowBucket(r)
  PROVE  LimiterInv'
<1>0. /\ TypeOK /\ RequestsInStage /\ OneBucketPerClient /\ OneClientPerBucket
      /\ ExpiredIsIdle /\ IdealCovers
  BY DEF LimiterInv
<1> DEFINE b == held[r]
           have == Refilled(b)
           allowed == have >= Unit
           left == IF allowed THEN have - Unit ELSE have
           reachable == b \in InMap \/ \E q \in Requests \ {r} : held[q] = b
<1>a. /\ stage[r] = "spend" /\ stage' = [stage EXCEPT ![r] = "idle"]
      /\ tokens' = [tokens EXCEPT ![b] = IF reachable THEN left ELSE 0]
      /\ age' = [age EXCEPT ![b] = 0]
      /\ expired' = expired \ {b}
      /\ refused' = IF allowed THEN refused \ {key[r]}
                    ELSE refused \cup ({key[r]} \cap Sources)
      /\ ideal' = IF allowed /\ peer[r] \in Sources /\ b \notin forgotten
                  THEN [ideal EXCEPT ![peer[r]] = @ - Unit] ELSE ideal
      /\ forgotten' = IF reachable THEN forgotten ELSE forgotten \ {b}
      /\ held' = [held EXCEPT ![r] = 0]
      /\ peer' = [peer EXCEPT ![r] = Garbage]
      /\ key' = [key EXCEPT ![r] = Garbage]
      /\ UNCHANGED <<clients, cleaner, toDelete, stopped>>
  BY DEF AllowBucket
<1>b. /\ b \in Buckets /\ b # 0 /\ key[r] \in Ips
      /\ peer[r] \in Sources => key[r] = peer[r]
      /\ b = clients[key[r]] \/ b \in forgotten
  BY <1>0, <1>a DEF RequestsInStage, OneBucketPerClient, TypeOK
<1>c. have \in 0..Full /\ left \in 0..Full
  <2>1. tokens[b] \in 0..Full /\ age[b] \in Nat
    BY <1>0, <1>b, Positive DEF TypeOK
  <2>2. have \in 0..Full
    BY <2>1, RefilledType DEF Refilled
  <2> HIDE DEF have
  <2> QED
    BY <2>2, Positive
<1> HIDE DEF b, have, left
<1>d. /\ \A q \in Requests : held'[q] = IF q = r THEN 0 ELSE held[q]
      /\ \A q \in Requests \ {r} : stage'[q] = stage[q] /\ key'[q] = key[q]
                                     /\ peer'[q] = peer[q]
      /\ stage'[r] = "idle"
  BY <1>0, <1>a DEF TypeOK
<1>e. InMap' = InMap
  BY <1>a DEF InMap
<1>f. forgotten' \subseteq forgotten /\ forgotten' \subseteq InHand'
      /\ \A q \in Requests \ {r} : held[q] \in forgotten => held[q] \in forgotten'
  <2>0. b = held[r] /\ forgotten \subseteq InHand /\ forgotten \cap InMap = {}
    BY <1>0 DEF TypeOK, OneClientPerBucket, b
  <2>1. InHand \ {b} \subseteq InHand'
    BY <1>d, <2>0 DEF InHand
  <2>2. ASSUME NEW q \in Requests \ {r}, held[q] = b
        PROVE  b \in InHand'
    BY <1>b, <1>d, <2>2 DEF InHand
  <2>3. CASE reachable
    BY <1>a, <2>0, <2>1, <2>2, <2>3
  <2>4. CASE ~reachable
    BY <1>a, <2>0, <2>1, <2>4
  <2> QED
    BY <2>3, <2>4
<1>1. TypeOK'
  <2>1. tokens' \in [Buckets -> 0..Full] /\ age' \in [Buckets -> 0..MaxAge]
    <3>1. 0 \in 0..Full /\ 0 \in 0..MaxAge
      BY Positive
    <3>2. (IF reachable THEN left ELSE 0) \in 0..Full
      BY <3>1, <1>c
    <3> HIDE DEF reachable
    <3> QED
      BY <1>0, <1>a, <3>1, <3>2 DEF TypeOK
  <2>2. ideal' \in [Sources -> Int] /\ refused' \subseteq Sources /\ expired' \subseteq Buckets
    <3> HIDE DEF allowed, reachable
    <3> QED
      BY <1>0, <1>a, Positive DEF TypeOK
  <2>3. /\ stage' \in [Requests -> {"idle", "create", "spend"}]
        /\ peer' \in [Requests -> Values] /\ key' \in [Requests -> Values]
        /\ held' \in [Requests -> Buckets \cup {0}]
    BY <1>0, <1>a DEF TypeOK, Values
  <2> QED
    BY <1>0, <1>a, <1>f, <2>1, <2>2, <2>3 DEF TypeOK
<1>2. RequestsInStage'
  BY <1>0, <1>d DEF RequestsInStage
<1>3. OneBucketPerClient'
  BY <1>0, <1>a, <1>d, <1>f DEF OneBucketPerClient
<1>4. OneClientPerBucket'
  BY <1>0, <1>a, <1>e, <1>f DEF OneClientPerBucket
<1>5. ExpiredIsIdle'
  BY <1>0, <1>a, <1>e DEF ExpiredIsIdle, TypeOK
<1>6. IdealCovers'
  <2> SUFFICES ASSUME NEW a \in Sources
               PROVE  ideal'[a] >=
                        IF clients'[a] = 0 THEN Full
                        ELSE AtMost(tokens'[clients'[a]] + age'[clients'[a]] * Rate, Full)
    BY DEF IdealCovers, Refilled
  <2>0. a \in Ips /\ clients'[a] = clients[a]
    BY <1>a DEF Sources
  <2>1. CASE clients[a] = b
    <3>1. b \in InMap /\ b \notin forgotten
      BY <1>0, <1>b, <2>0, <2>1 DEF InMap, OneClientPerBucket
    <3>2. key[r] = a
      BY <1>0, <1>b, <2>0, <2>1, <3>1 DEF OneClientPerBucket
    <3>3. ideal'[a] = ideal[a] \/ (allowed /\ ideal'[a] = ideal[a] - Unit)
      <4> HIDE DEF allowed
      <4> QED
        BY <1>0, <1>a DEF TypeOK
    <3>4. ideal[a] >= have
      BY <1>0, <1>b, <2>1 DEF IdealCovers, have
    <3>5. ideal'[a] >= left
      BY <1>0, <1>c, <3>3, <3>4, Positive DEF TypeOK, left
    <3>6. tokens'[b] = left /\ age'[b] = 0
      BY <1>0, <1>a, <1>b, <3>1 DEF TypeOK
    <3>7. AtMost(left + 0 * Rate, Full) = left
      BY <1>c, Positive, Product DEF AtMost
    <3> QED
      BY <1>b, <2>0, <2>1, <3>5, <3>6, <3>7
  <2>2. CASE clients[a] # b
    <3>1. peer[r] = a => b \in forgotten
      BY <1>b, <2>2
    <3>2. ideal'[a] = ideal[a]
      <4> HIDE DEF allowed
      <4> QED
        BY <1>0, <1>a, <3>1 DEF TypeOK
    <3>3. clients[a] # 0 => /\ tokens'[clients[a]] = tokens[clients[a]]
                            /\ age'[clients[a]] = age[clients[a]]
      <4> HIDE DEF reachable
      <4> QED
        BY <1>0, <1>a, <2>0, <2>2 DEF TypeOK
    <3> QED
      BY <2>0, <3>2, <3>3, CoveredStill
  <2> QED
    BY <2>1, <2>2
<1> QED
  BY <1>1, <1>2, <1>3, <1>4, <1>5, <1>6 DEF LimiterInv

(* Reset, ResetAll and the cleanup: taking addresses off the map is        *)
(* harmless if the exact bucket of each is full.                           *)
LEMMA ForgetStep ==
  ASSUME LimiterInv, NEW as \in SUBSET Ips, Forget(as), UNCHANGED requestVars,
         UNCHANGED <<stopped, refused>>, ideal' \in [Sources -> Int],
         cleaner' \in {"wait", "delete", "ended"}, toDelete' \subseteq Ips,
         expired' \subseteq expired,
         \A a \in Sources \cap as : ideal'[a] >= Full,
         \A a \in Sources \ as : ideal'[a] = ideal[a]
  PROVE  LimiterInv'
<1>0. /\ TypeOK /\ RequestsInStage /\ OneBucketPerClient /\ OneClientPerBucket
      /\ ExpiredIsIdle /\ IdealCovers
  BY DEF LimiterInv
<1> DEFINE gone == {clients[a] : a \in as} \ {0}
<1>a. /\ clients' = [a \in Ips |-> IF a \in as THEN 0 ELSE clients[a]]
      /\ forgotten' = forgotten \cup (gone \cap InHand)
      /\ tokens' = [b \in Buckets |-> IF b \in gone \ InHand THEN 0 ELSE tokens[b]]
      /\ age' = [b \in Buckets |-> IF b \in gone \ InHand THEN 0 ELSE age[b]]
  BY DEF Forget
<1>b. UNCHANGED <<stage, peer, key, held>> /\ InHand' = InHand
  BY DEF requestVars, InHand
<1>c. InMap' \subseteq InMap /\ InMap' \cap gone = {}
  <2>1. ASSUME NEW c \in Ips \ as, clients[c] # 0
        PROVE  clients[c] \notin gone
    BY <1>0, <2>1 DEF OneClientPerBucket
  <2> HIDE DEF gone
  <2>2. ASSUME NEW b \in InMap'
        PROVE  b \in InMap /\ b \notin gone
    <3>1. PICK c \in Ips : b = clients'[c] /\ b # 0
      BY <2>2 DEF InMap
    <3>2. c \notin as /\ b = clients[c]
      BY <1>a, <3>1
    <3> QED
      BY <2>1, <3>1, <3>2 DEF InMap
  <2> QED
    BY <2>2
<1>d. \A b \in InMap' : b \in Buckets /\ tokens'[b] = tokens[b] /\ age'[b] = age[b]
  <2>1. InMap \subseteq Buckets
    BY <1>0 DEF InMap, TypeOK
  <2> HIDE DEF gone
  <2> QED
    BY <1>a, <1>c, <2>1
<1>e. \A a \in as : clients[a] # 0 => clients[a] \in gone
  OBVIOUS
<1> HIDE DEF gone
<1>1. TypeOK'
  <2>1. 0 \in 0..Full /\ 0 \in 0..MaxAge
    BY Positive
  <2>2. /\ clients' \in [Ips -> Buckets \cup {0}]
        /\ tokens' \in [Buckets -> 0..Full]
        /\ age' \in [Buckets -> 0..MaxAge]
    BY <1>0, <1>a, <2>1 DEF TypeOK
  <2>3. forgotten' \subseteq InHand'
    BY <1>0, <1>a, <1>b DEF TypeOK
  <2> QED
    BY <1>0, <1>b, <2>2, <2>3 DEF TypeOK
<1>2. RequestsInStage'
  BY <1>0, <1>b DEF RequestsInStage
<1>3. OneBucketPerClient'
  <2> SUFFICES ASSUME NEW q \in Requests, held[q] # 0
               PROVE  held[q] = clients'[key[q]] \/ held[q] \in forgotten'
    BY <1>b DEF OneBucketPerClient
  <2>1. key[q] \in Ips /\ held[q] \in InHand
    BY <1>0 DEF RequestsInStage, InHand
  <2>2. held[q] = clients[key[q]] \/ held[q] \in forgotten
    BY <1>0 DEF OneBucketPerClient
  <2> QED
    BY <1>a, <1>e, <2>1, <2>2
<1>4. OneClientPerBucket'
  <2>1. forgotten' \cap InMap' = {}
    BY <1>0, <1>a, <1>c DEF OneClientPerBucket
  <2> QED
    BY <1>0, <1>a, <2>1 DEF OneClientPerBucket
<1>5. ExpiredIsIdle'
  BY <1>0, <1>c, <1>d DEF ExpiredIsIdle
<1>6. IdealCovers'
  <2> SUFFICES ASSUME NEW a \in Sources
               PROVE  ideal'[a] >=
                        IF clients'[a] = 0 THEN Full
                        ELSE AtMost(tokens'[clients'[a]] + age'[clients'[a]] * Rate, Full)
    BY DEF IdealCovers, Refilled
  <2>0. a \in Ips
    BY DEF Sources
  <2>1. CASE a \in as
    BY <1>a, <2>0, <2>1
  <2>2. CASE a \notin as
    <3>1. clients'[a] = clients[a] /\ ideal'[a] = ideal[a]
      BY <1>a, <2>0, <2>2
    <3>2. clients[a] # 0 => clients[a] \in InMap'
      BY <2>0, <3>1 DEF InMap
    <3> QED
      BY <1>d, <3>1, <3>2, CoveredStill
  <2> QED
    BY <2>1, <2>2
<1> QED
  BY <1>1, <1>2, <1>3, <1>4, <1>5, <1>6 DEF LimiterInv
LEMMA ResetStep ==
  ASSUME LimiterInv, NEW as \in SUBSET Ips, Reset(as)
  PROVE  LimiterInv'
<1>1. TypeOK
  BY DEF LimiterInv
<1>2. /\ Forget(as) /\ UNCHANGED requestVars
      /\ UNCHANGED <<cleaner, toDelete, expired, stopped, refused>>
      /\ ideal' = [a \in Sources |-> IF a \in as THEN Full ELSE ideal[a]]
  BY DEF Reset, cleanupVars
<1>3. /\ ideal' \in [Sources -> Int]
      /\ \A a \in Sources \cap as : ideal'[a] >= Full
      /\ \A a \in Sources \ as : ideal'[a] = ideal[a]
  <2>1. Full \in Int /\ Full >= Full /\ \A a \in Sources : ideal[a] \in Int
    BY <1>1, Positive DEF TypeOK
  <2>2. \A a \in Sources : ideal'[a] = IF a \in as THEN Full ELSE ideal[a]
    BY <1>2
  <2>3. ideal' \in [Sources -> Int]
    BY <1>2, <2>1
  <2> QED
    BY <2>1, <2>2, <2>3
<1>4. /\ cleaner' \in {"wait", "delete", "ended"} /\ toDelete' \subseteq Ips
      /\ expired' \subseteq expired
  BY <1>1, <1>2 DEF TypeOK
<1> QED
  BY <1>2, <1>3, <1>4, ForgetStep

LEMMA CleanupStep ==
  ASSUME LimiterInv, CleanupDelete
  PROVE  LimiterInv'
<1>0. TypeOK /\ ExpiredIsIdle /\ IdealCovers
  BY DEF LimiterInv
<1> DEFINE as == {a \in toDelete : StillIdle(a)}
<1>1. /\ Forget(as) /\ toDelete' = {} /\ expired' = {} /\ cleaner' = "wait"
      /\ UNCHANGED requestVars /\ UNCHANGED <<stopped, refused>>
      /\ ideal' = [a \in Sources |-> IF a \in as THEN AtMost(ideal[a] + Forgiven, Full)
                                     ELSE ideal[a]]
  BY DEF CleanupDelete
<1>2. as \in SUBSET Ips
  BY <1>0 DEF TypeOK
<1>3. ASSUME NEW a \in Sources \cap as
      PROVE  ideal'[a] >= Full
  <2>1. a \in Ips /\ clients[a] \in expired
    BY <1>2 DEF StillIdle
  <2>2. clients[a] \in Buckets /\ clients[a] # 0
    BY <1>0, <2>1 DEF TypeOK, Buckets
  <2>3. age[clients[a]] > CleanupInterval
    BY <1>0, <2>1, <2>2 DEF ExpiredIsIdle, InMap
  <2>4. tokens[clients[a]] \in 0..Full /\ age[clients[a]] \in Nat
    BY <1>0, <2>2, Positive DEF TypeOK
  <2>5. ideal[a] \in Int /\ ideal[a] >= Refilled(clients[a])
    BY <1>0, <2>2 DEF TypeOK, IdealCovers
  <2>6. AtMost(ideal[a] + Forgiven, Full) = Full
    BY <2>3, <2>4, <2>5, IdleLacksForgiven DEF Refilled
  <2>7. ideal'[a] = Full
    BY <1>1, <2>6
  <2> QED
    BY <2>7, Positive
<1>4. ideal' \in [Sources -> Int] /\ cleaner' \in {"wait", "delete", "ended"}
      /\ toDelete' \subseteq Ips /\ expired' \subseteq expired
      /\ \A a \in Sources \ as : ideal'[a] = ideal[a]
  <2>1. Forgiven \in Int
    <3>1. CleanupInterval * Rate \in Int /\ Full \in Int
      BY Positive, Product
    <3> QED
      BY <3>1, AtMostIsMinimum DEF Forgiven
  <2>2. \A a \in Sources : ideal[a] \in Int /\ AtMost(ideal[a] + Forgiven, Full) \in Int
    BY <1>0, <2>1, Positive DEF TypeOK, AtMost
  <2> QED
    BY <1>1, <2>2
<1> HIDE DEF as
<1> QED
  BY <1>1, <1>2, <1>3, <1>4, ForgetStep

LEMMA ScanStep ==
  ASSUME LimiterInv, CleanupScan
  PROVE  LimiterInv'
<1>0. /\ TypeOK /\ RequestsInStage /\ OneBucketPerClient /\ OneClientPerBucket
      /\ ExpiredIsIdle /\ IdealCovers
  BY DEF LimiterInv
<1>a. /\ expired' = {b \in InMap : age[b] > CleanupInterval}
      /\ toDelete' \subseteq Ips /\ cleaner' = "delete"
      /\ UNCHANGED <<clients, tokens, age, stage, peer, key, held, stopped, refused,
                     ideal, forgotten>>
  BY DEF CleanupScan, requestVars
<1>b. InMap' = InMap /\ InHand' = InHand /\ InMap \subseteq Buckets
  BY <1>0, <1>a DEF InMap, InHand, TypeOK
<1>1. TypeOK'
  BY <1>0, <1>a, <1>b DEF TypeOK
<1>2. RequestsInStage'
  BY <1>0, <1>a DEF RequestsInStage
<1>3. OneBucketPerClient'
  BY <1>0, <1>a DEF OneBucketPerClient
<1>4. OneClientPerBucket'
  BY <1>0, <1>a, <1>b DEF OneClientPerBucket
<1>5. ExpiredIsIdle'
  BY <1>a, <1>b DEF ExpiredIsIdle
<1>6. IdealCovers'
  BY <1>0, <1>a DEF IdealCovers, Refilled
<1> QED
  BY <1>1, <1>2, <1>3, <1>4, <1>5, <1>6 DEF LimiterInv

LEMMA StopStep ==
  ASSUME LimiterInv, Stop \/ CleanupExits \/ UNCHANGED vars
  PROVE  LimiterInv'
<1>0. /\ TypeOK /\ RequestsInStage /\ OneBucketPerClient /\ OneClientPerBucket
      /\ ExpiredIsIdle /\ IdealCovers
  BY DEF LimiterInv
<1>a. /\ cleaner' \in {"wait", "delete", "ended"} /\ stopped' \in BOOLEAN
      /\ UNCHANGED <<clients, tokens, age, stage, peer, key, held, toDelete, expired,
                     refused, ideal, forgotten>>
  <2>1. CASE Stop
    BY <1>0, <2>1 DEF Stop, requestVars, TypeOK
  <2>2. CASE CleanupExits
    BY <1>0, <2>2 DEF CleanupExits, requestVars, TypeOK
  <2>3. CASE UNCHANGED vars
    BY <1>0, <2>3 DEF vars, requestVars, cleanupVars, TypeOK
  <2> QED
    BY <2>1, <2>2, <2>3
<1>b. InMap' = InMap /\ InHand' = InHand
  BY <1>a DEF InMap, InHand
<1>1. TypeOK'
  BY <1>0, <1>a, <1>b DEF TypeOK
<1>2. RequestsInStage'
  BY <1>0, <1>a DEF RequestsInStage
<1>3. OneBucketPerClient'
  BY <1>0, <1>a DEF OneBucketPerClient
<1>4. OneClientPerBucket'
  BY <1>0, <1>a, <1>b DEF OneClientPerBucket
<1>5. ExpiredIsIdle'
  BY <1>0, <1>a, <1>b DEF ExpiredIsIdle
<1>6. IdealCovers'
  BY <1>0, <1>a DEF IdealCovers, Refilled
<1> QED
  BY <1>1, <1>2, <1>3, <1>4, <1>5, <1>6 DEF LimiterInv

LEMMA TickStep ==
  ASSUME LimiterInv, Tick
  PROVE  LimiterInv'
<1>0. /\ TypeOK /\ RequestsInStage /\ OneBucketPerClient /\ OneClientPerBucket
      /\ ExpiredIsIdle /\ IdealCovers
  BY DEF LimiterInv
<1>a. /\ age' = [b \in Buckets |-> IF b \in InMap \cup InHand
                                   THEN AtMost(age[b] + 1, MaxAge)
                                   ELSE age[b]]
      /\ ideal' = [a \in Sources |-> AtMost(ideal[a] + Rate, Full)]
      /\ UNCHANGED <<clients, tokens, stage, peer, key, held, cleaner, toDelete, expired,
                     stopped, refused, forgotten>>
  BY DEF Tick, requestVars, cleanupVars
<1>b. InMap' = InMap /\ InHand' = InHand /\ InMap \subseteq Buckets
  BY <1>0, <1>a DEF InMap, InHand, TypeOK
<1>c. \A b \in Buckets :
        /\ age[b] \in 0..MaxAge /\ age'[b] \in 0..MaxAge
        /\ age'[b] = age[b] \/ age'[b] = age[b] + 1
  <2> SUFFICES ASSUME NEW b \in Buckets
               PROVE  /\ age[b] \in 0..MaxAge
                      /\ age'[b] \in 0..MaxAge
                      /\ age'[b] = age[b] \/ age'[b] = age[b] + 1
    OBVIOUS
  <2>1. age[b] \in 0..MaxAge /\ MaxAge \in Nat
    BY <1>0, Positive DEF TypeOK
  <2>2. age'[b] = age[b] \/ age'[b] = AtMost(age[b] + 1, MaxAge)
    BY <1>a
  <2> QED
    BY <2>1, <2>2 DEF AtMost
<1>1. TypeOK'
  <2>1. age' \in [Buckets -> 0..MaxAge]
    BY <1>a, <1>c
  <2>2. ideal' \in [Sources -> Int]
    <3>1. \A a \in Sources : AtMost(ideal[a] + Rate, Full) \in Int
      BY <1>0, Positive DEF TypeOK, AtMost
    <3> QED
      BY <1>a, <3>1
  <2> QED
    BY <1>0, <1>a, <1>b, <2>1, <2>2 DEF TypeOK
<1>2. RequestsInStage'
  BY <1>0, <1>a DEF RequestsInStage
<1>3. OneBucketPerClient'
  BY <1>0, <1>a DEF OneBucketPerClient
<1>4. OneClientPerBucket'
  BY <1>0, <1>a, <1>b DEF OneClientPerBucket
<1>5. ExpiredIsIdle'
  <2> SUFFICES ASSUME NEW b \in expired \cap InMap
               PROVE  age'[b] > CleanupInterval
    BY <1>a, <1>b DEF ExpiredIsIdle
  <2>1. age[b] > CleanupInterval /\ b \in Buckets
    BY <1>0, <1>b DEF ExpiredIsIdle
  <2> QED
    BY <1>c, <2>1, Positive
<1>6. IdealCovers'
  <2> SUFFICES ASSUME NEW a \in Sources
               PROVE  ideal'[a] >=
                        IF clients'[a] = 0 THEN Full
                        ELSE AtMost(tokens'[clients'[a]] + age'[clients'[a]] * Rate, Full)
    BY DEF IdealCovers, Refilled
  <2>0. /\ a \in Ips /\ clients'[a] = clients[a] /\ ideal[a] \in Int
        /\ ideal'[a] = AtMost(ideal[a] + Rate, Full) /\ tokens' = tokens
    BY <1>0, <1>a DEF Sources, TypeOK
  <2>1. CASE clients[a] = 0
    <3>1. ideal[a] >= Full
      BY <1>0, <2>1 DEF IdealCovers
    <3> QED
      BY <2>0, <2>1, <3>1, Positive DEF AtMost
  <2>2. CASE clients[a] # 0
    <3> DEFINE b == clients[a]
    <3>1. b \in Buckets
      BY <1>0, <2>0, <2>2 DEF TypeOK
    <3>2. tokens[b] \in 0..Full /\ age[b] \in Nat
      BY <1>0, <1>c, <3>1, Positive DEF TypeOK
    <3>3. ideal[a] >= AtMost(tokens[b] + age[b] * Rate, Full)
      BY <1>0, <2>2 DEF IdealCovers, Refilled
    <3>4. /\ ideal'[a] >= AtMost(tokens[b] + (age[b] + 1) * Rate, Full)
          /\ ideal'[a] >= AtMost(tokens[b] + age[b] * Rate, Full)
      BY <2>0, <3>2, <3>3, TickAdds
    <3>5. CASE age'[b] = age[b]
      BY <2>0, <2>2, <3>4, <3>5
    <3>6. CASE age'[b] = age[b] + 1
      BY <2>0, <2>2, <3>4, <3>6
    <3> QED
      BY <1>c, <3>1, <3>5, <3>6
  <2> QED
    BY <2>1, <2>2
<1> QED
  BY <1>1, <1>2, <1>3, <1>4, <1>5, <1>6 DEF LimiterInv

-----------------------------------------------------------------------------
(* ratelimit.go:83-179: through every race of Allow with itself, with the  *)
(* cleanup and with Reset, an address has one bucket, and an exact bucket  *)
(* of the peer, given what each cleanup may forgive, never has less than   *)
(* the real one - for every rate, burst and cleanup interval.              *)
THEOREM LimiterInvariant == Spec => []LimiterInv
<1>1. LimiterInv /\ [Next]_vars => LimiterInv'
  <2> SUFFICES ASSUME LimiterInv, [Next]_vars
               PROVE  LimiterInv'
    OBVIOUS
  <2>1. ASSUME NEW r \in Requests, Create(r)
        PROVE  LimiterInv'
    BY <2>1, FoundStep, MadeStep
  <2>2. Reset(Ips) \/ (\E a \in Ips : Reset({a})) => LimiterInv'
    BY ResetStep
  <2> QED
    BY <2>1, <2>2, ArriveStep, AllowStep, CleanupStep, ScanStep, StopStep, TickStep
    DEF Next, RequestStep
<1> QED
  BY <1>1, InitInv, PTL DEF Spec

(* ratelimit.go:118, :150: over any period a direct peer is let through at *)
(* most the burst, the rate times the period and Forgiven for each cleanup *)
(* that forgot it, apart from requests that had a bucket in hand when it   *)
(* was forgotten.                                                          *)
THEOREM RateStaysRespected == Spec => []RateRespected
<1>1. LimiterInv => RateRespected
  <2> SUFFICES ASSUME LimiterInv, NEW a \in Sources
               PROVE  ideal[a] >= 0
    BY DEF RateRespected
  <2>1. /\ a \in Ips /\ ideal[a] \in Int /\ clients[a] \in Buckets \cup {0}
        /\ ideal[a] >= IF clients[a] = 0 THEN Full ELSE Refilled(clients[a])
    BY DEF LimiterInv, TypeOK, IdealCovers, Sources
  <2>2. CASE clients[a] = 0
    BY <2>1, <2>2, Positive
  <2>3. CASE clients[a] # 0
    <3>1. tokens[clients[a]] \in 0..Full /\ age[clients[a]] \in Nat
      BY <2>1, <2>3, Positive DEF LimiterInv, TypeOK
    <3>2. Refilled(clients[a]) \in 0..Full
      BY <3>1, RefilledType DEF Refilled
    <3> QED
      BY <2>1, <2>3, <3>2, Positive
  <2> QED
    BY <2>2, <2>3
<1> QED
  BY <1>1, LimiterInvariant, PTL
=============================================================================
