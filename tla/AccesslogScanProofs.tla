------------------------- MODULE AccesslogScanProofs -------------------------
(***************************************************************************)
(* The scan of the accesslog and its series for any number of operations,  *)
(* scanners and label tuples, and any cap on the series.                   *)
(***************************************************************************)
EXTENDS AccesslogScan, FiniteSetTheorems, WellFoundedInduction, TLAPS

-----------------------------------------------------------------------------
(* The order of the streams. *)

LEMMA OrderFacts ==
  /\ Len(Order) = 3 /\ DOMAIN Order = 1..3
  /\ \A i \in 1..3 : Order[i] \in Streams
  /\ Streams = {"bind", "write", "lock"}
<1>1. /\ Len(Order) = 3 /\ DOMAIN Order = 1..3
      /\ Order[1] = "bind" /\ Order[2] = "write" /\ Order[3] = "lock"
  BY DEF Order
<1>2. Streams = {Order[i] : i \in 1..3}
  BY <1>1, ScanAssumption
<1>3. \A i \in 1..3 : i = 1 \/ i = 2 \/ i = 3
  OBVIOUS
<1> HIDE DEF Order
<1> QED
  BY <1>1, <1>2, <1>3

LEMMA OrderModulo ==
  ASSUME NEW n \in 1..3
  PROVE  (n + 1) % (Len(Order) + 1) = IF n = 3 THEN 0 ELSE n + 1
<1>1. n = 1 \/ n = 2 \/ n = 3
  OBVIOUS
<1>2. Len(Order) = 3
  BY OrderFacts
<1>3. (n + 1) % 4 = IF n = 3 THEN 0 ELSE n + 1
  BY <1>1
<1> QED
  BY <1>2, <1>3

LEMMA StreamsForType == \A t : StreamsFor(t) \subseteq Streams
<1>1. /\ {"bind"} \subseteq Streams /\ {"write"} \subseteq Streams
      /\ {"write", "lock"} \subseteq Streams
  BY OrderFacts
<1> QED
  BY <1>1 DEF StreamsFor

LEMMA ScannersAreWriters == Scanners \subseteq Writers
BY TrackerAssumption DEF Scanners

-----------------------------------------------------------------------------
(* The highest reqStart of a result. *)

LEMMA LeastNat ==
  ASSUME NEW D \in SUBSET Nat, D # {}
  PROVE  \E d \in D : \A e \in D : d <= e
<1>1. PICK d \in D : \A e \in D : <<e, d>> \notin OpToRel(<, Nat)
  BY WFMin, NatLessThanWellFounded
<1>2. ASSUME NEW e \in D
      PROVE  d <= e
  <2>1. SUFFICES ASSUME e < d PROVE FALSE
    OBVIOUS
  <2>2. <<e, d>> \in OpToRel(<, Nat)
    BY <2>1, Zenon DEF OpToRel
  <2> QED
    BY <2>2, <1>1
<1> QED
  BY <1>2

LEMMA MaxProperty ==
  ASSUME NEW n \in Nat, NEW S \in SUBSET (0..n), S # {}
  PROVE  Max(S) \in S /\ \A x \in S : x <= Max(S)
<1> DEFINE D == {n - x : x \in S}
<1>1. D # {} /\ D \in SUBSET Nat
  <2>1. \A x \in S : n - x \in Nat
    OBVIOUS
  <2> QED
    BY <2>1
<1>2. PICK d \in D : \A e \in D : d <= e
  <2> HIDE DEF D
  <2> QED
    BY <1>1, LeastNat
<1>3. PICK x \in S : d = n - x
  OBVIOUS
<1>4. ASSUME NEW y \in S
      PROVE  x >= y
  <2>1. n - y >= d
    BY <1>2
  <2> QED
    BY <2>1, <1>3
<1> QED
  BY <1>3, <1>4 DEF Max

LEMMA MaxOfResult ==
  ASSUME TypeOK, NEW s \in Streams
  PROVE  /\ MaxReqStart(s, Matching(s)) \in 0..begun
         /\ MaxReqStart(s, Matching(s)) >= cursor[s]
         /\ \A n \in Matching(s) : n <= MaxReqStart(s, Matching(s))
<1> DEFINE S == Matching(s) \cup {cursor[s]}
<1>1. S \in SUBSET (0..begun) /\ S # {} /\ begun \in Nat
  <2>1. begun \in Nat /\ cursor[s] \in 0..begun
    BY ScanAssumption DEF TypeOK
  <2>2. Matching(s) \subseteq 1..begun
    BY DEF TypeOK, Matching
  <2>3. 1..begun \subseteq 0..begun
    BY <2>1
  <2> HIDE DEF Matching
  <2> QED
    BY <2>1, <2>2, <2>3
<1>2. Max(S) \in S /\ \A x \in S : x <= Max(S)
  <2> HIDE DEF S
  <2> QED
    BY <1>1, MaxProperty
<1>3. MaxReqStart(s, Matching(s)) = Max(S)
  BY DEF MaxReqStart
<1> QED
  BY <1>1, <1>2, <1>3

-----------------------------------------------------------------------------
(* One scanner. *)

LEMMA Alone ==
  ASSUME OneScanner, TypeOK, NEW w \in Writers, at[w] > 0
  PROVE  /\ mu = w
         /\ \A v \in Writers \ {w} : /\ at[v] = 0 /\ phase[v] = "search"
                                     /\ batch[v] = {} /\ inc[v] = NoKey
         /\ at[w] \in 1..3 /\ Order[at[w]] \in Streams
<1>1. mu = w
  BY DEF OneScanner
<1>2. ASSUME NEW v \in Writers \ {w}
      PROVE  at[v] = 0 /\ phase[v] = "search" /\ batch[v] = {} /\ inc[v] = NoKey
  <2>1. at[v] \in 0..3 /\ phase[v] \in {"search", "emit"}
    BY OrderFacts DEF TypeOK
  <2>2. ~(at[v] > 0)
    BY <1>1 DEF OneScanner
  <2> QED
    BY <2>1, <2>2 DEF OneScanner
<1>3. at[w] \in 1..3
  <2>1. at[w] \in 0..3
    BY OrderFacts DEF TypeOK
  <2> QED
    BY <2>1
<1> QED
  BY <1>1, <1>2, <1>3, OrderFacts

LEMMA NobodyScans ==
  ASSUME OneScanner, TypeOK, mu = None
  PROVE  \A v \in Writers : /\ at[v] = 0 /\ phase[v] = "search"
                            /\ batch[v] = {} /\ inc[v] = NoKey
<1> SUFFICES ASSUME NEW v \in Writers
             PROVE  at[v] = 0 /\ phase[v] = "search" /\ batch[v] = {} /\ inc[v] = NoKey
  OBVIOUS
<1>1. at[v] \in 0..3 /\ phase[v] \in {"search", "emit"}
  BY OrderFacts DEF TypeOK
<1>2. ~(at[v] > 0)
  BY ScanAssumption DEF OneScanner
<1> QED
  BY <1>1, <1>2 DEF OneScanner
-----------------------------------------------------------------------------
LEMMA InitInv == Init => ScanInv
<1> SUFFICES ASSUME Init PROVE ScanInv
  OBVIOUS
<1> USE DEF Init, TrackerInit
<1>1. TypeOK
  <2>1. TrackerTypeOK
    BY FS_EmptySet DEF TrackerTypeOK
  <2>2. begun \in 0..MaxOps /\ 0 \in 0..begun
    BY ScanAssumption
  <2>3. /\ logged \subseteq 1..begun
        /\ kind \in [Ops -> Kinds \cup {None}] /\ key \in [Ops -> Keys \cup {NoKey}]
        /\ mu \in Writers \cup {None}
        /\ phase \in [Writers -> {"search", "emit"}]
        /\ batch \in [Writers -> SUBSET logged]
    OBVIOUS
  <2>4. cursor \in [Streams -> 0..begun] /\ maxSeen \in [Writers -> 0..begun]
    BY <2>2
  <2>5. ready \in [Streams -> BOOLEAN]
    OBVIOUS
  <2>6. at \in [Writers -> 0..Len(Order)]
    BY OrderFacts
  <2> QED
    BY <2>1, <2>2, <2>3, <2>4, <2>5, <2>6 DEF TypeOK
<1>2. OneScanner
  BY DEF OneScanner
<1>3. SeriesBounded /\ CountedIsTracked /\ TrackedHasSeries
  <2>1. Cardinality({}) <= MaxAccesslogSeriesPerVec
    BY FS_EmptySet, TrackerAssumption
  <2> QED
    BY <2>1 DEF SeriesBounded, CountedIsTracked, TrackedHasSeries
<1>4. CursorForward /\ ResultAccounted /\ EmittedOnce /\ LossExplained
  BY DEF CursorForward, ResultAccounted, EmittedOnce, LossExplained
<1> QED
  BY <1>1, <1>2, <1>3, <1>4 DEF ScanInv

(* Steps that leave the tracker alone. *)
LEMMA TrackerKept ==
  ASSUME ScanInv, UNCHANGED <<trackerVars, consumer>>,
         \A w \in Writers : inc[w] # NoKey => at'[w] = at[w],
         consumer = "metrics" => \A n \in logged' : key'[n] \in Keys
  PROVE  TrackerTypeOK' /\ SeriesBounded' /\ CountedIsTracked' /\ TrackedHasSeries'
<1>0. /\ TypeOK /\ OneScanner /\ SeriesBounded /\ CountedIsTracked
      /\ TrackedHasSeries /\ CursorForward /\ ResultAccounted /\ EmittedOnce
      /\ LossExplained /\ TrackerTypeOK
  BY DEF ScanInv, TypeOK
<1>1. UNCHANGED <<seen, stale, series, inc, doomed, overtaken, consumer>>
  BY DEF trackerVars
<1>2. TrackerTypeOK' /\ SeriesBounded'
  BY <1>0, <1>1 DEF TrackerTypeOK, SeriesBounded
<1>3. CountedIsTracked'
  BY <1>0, <1>1 DEF CountedIsTracked
<1>4. TrackedHasSeries'
  <2> SUFFICES ASSUME NEW s \in Streams, NEW k \in seen[s],
                      k \notin series[s] \cup overtaken[s]
               PROVE  \E w \in Writers : at'[w] > 0 /\ Order[at'[w]] = s /\ inc[w] = k
    BY <1>1 DEF TrackedHasSeries
  <2>1. PICK w \in Writers : at[w] > 0 /\ Order[at[w]] = s /\ inc[w] = k
    BY <1>0 DEF TrackedHasSeries
  <2>2. inc[w] # NoKey
    BY <1>0, <2>1, TrackerAssumption DEF TrackerTypeOK
  <2> QED
    BY <2>1, <2>2
<1> QED
  BY <1>2, <1>3, <1>4

(* Steps of a tracker. *)
LEMMA ScanKept ==
  ASSUME ScanInv, TrackerTypeOK',
         UNCHANGED <<consumer, logVars, cursorVars, scanVars, histVars>>,
         \A w \in Writers : phase[w] = "search" => inc'[w] = NoKey
  PROVE  /\ TypeOK' /\ OneScanner'
         /\ CursorForward' /\ ResultAccounted' /\ EmittedOnce' /\ LossExplained'
<1>0. /\ TypeOK /\ OneScanner /\ SeriesBounded /\ CountedIsTracked
      /\ TrackedHasSeries /\ CursorForward /\ ResultAccounted /\ EmittedOnce
      /\ LossExplained /\ TrackerTypeOK
  BY DEF ScanInv, TypeOK
<1>1. UNCHANGED <<consumer, begun, kind, key, logged, cursor, ready, mu, at, phase,
                  batch, maxSeen, emitted, twice, baseline, late>>
  BY DEF logVars, cursorVars, scanVars, histVars
<1>2. TypeOK' /\ OneScanner'
  BY <1>0, <1>1 DEF TypeOK, OneScanner
<1>3. CursorForward' /\ EmittedOnce'
  BY <1>0, <1>1 DEF CursorForward, EmittedOnce, Passed
<1>4. ResultAccounted'
  BY <1>0, <1>1 DEF ResultAccounted, StreamsOf, Relevant
<1>5. LossExplained'
  BY <1>0, <1>1 DEF LossExplained, StreamsOf, Relevant
<1> QED
  BY <1>2, <1>3, <1>4, <1>5

LEMMA BeginOpStep ==
  ASSUME ScanInv, BeginOp
  PROVE  ScanInv'
<1>0. /\ TypeOK /\ OneScanner /\ SeriesBounded /\ CountedIsTracked
      /\ TrackedHasSeries /\ CursorForward /\ ResultAccounted /\ EmittedOnce
      /\ LossExplained /\ TrackerTypeOK
  BY DEF ScanInv, TypeOK
<1>a. /\ begun < MaxOps /\ begun' = begun + 1
      /\ UNCHANGED <<consumer, kind, key, logged, cursor, ready, mu, at, phase, batch,
                     maxSeen, emitted, twice, baseline, late, trackerVars>>
  BY DEF BeginOp, cursorVars, scanVars, histVars
<1>1. TrackerTypeOK' /\ SeriesBounded' /\ CountedIsTracked' /\ TrackedHasSeries'
  BY <1>0, <1>a, TrackerKept DEF CountedIsTracked
<1>2. TypeOK'
  <2>1. /\ begun \in Nat /\ begun' \in 0..MaxOps /\ 1..begun \subseteq 1..begun'
        /\ 0..begun \subseteq 0..begun'
    BY <1>0, <1>a, ScanAssumption DEF TypeOK
  <2>2. cursor' \in [Streams -> 0..begun'] /\ maxSeen' \in [Writers -> 0..begun']
    BY <1>0, <1>a, <2>1 DEF TypeOK
  <2>3. logged' \subseteq 1..begun'
    BY <1>0, <1>a, <2>1 DEF TypeOK
  <2> QED
    BY <1>0, <1>a, <1>1, <2>1, <2>2, <2>3 DEF TypeOK
<1>3. OneScanner'
  BY <1>0, <1>a DEF OneScanner, trackerVars
<1>4. CursorForward' /\ EmittedOnce'
  BY <1>0, <1>a DEF CursorForward, EmittedOnce, Passed
<1>5. ResultAccounted'
  BY <1>0, <1>a DEF ResultAccounted, StreamsOf, Relevant
<1>6. LossExplained'
  BY <1>0, <1>a DEF LossExplained, StreamsOf, Relevant
<1> QED
  BY <1>1, <1>2, <1>3, <1>4, <1>5, <1>6 DEF ScanInv

LEMMA LogOpStep ==
  ASSUME ScanInv, NEW n \in Ops, LogOp(n)
  PROVE  ScanInv'
<1>0. /\ TypeOK /\ OneScanner /\ SeriesBounded /\ CountedIsTracked
      /\ TrackedHasSeries /\ CursorForward /\ ResultAccounted /\ EmittedOnce
      /\ LossExplained /\ TrackerTypeOK
  BY DEF ScanInv, TypeOK
<1>a. PICK t \in Kinds, k \in Labels :
        /\ kind' = [kind EXCEPT ![n] = t]
        /\ key' = [key EXCEPT ![n] = k]
        /\ late' = late \cup {<<s, n>> : s \in {x \in StreamsFor(t) : Passed(x, n)}}
  BY DEF LogOp
<1>b. /\ n <= begun /\ n \notin logged /\ logged' = logged \cup {n}
      /\ UNCHANGED <<consumer, begun, cursor, ready, mu, at, phase, batch, maxSeen,
                     emitted, twice, baseline, trackerVars>>
  BY DEF LogOp, cursorVars, scanVars
<1>c. /\ kind'[n] = t /\ key'[n] = k
      /\ \A m \in logged : m \in Ops /\ m # n /\ kind'[m] = kind[m] /\ key'[m] = key[m]
  <2>1. logged \subseteq Ops
    <3>1. begun \in 0..MaxOps /\ logged \subseteq 1..begun
      BY <1>0 DEF TypeOK
    <3>2. 1..begun \subseteq 1..MaxOps
      BY <3>1, ScanAssumption
    <3> QED
      BY <3>1, <3>2 DEF Ops
  <2> QED
    BY <1>0, <1>a, <1>b, <2>1 DEF TypeOK
<1>1. TrackerTypeOK' /\ SeriesBounded' /\ CountedIsTracked' /\ TrackedHasSeries'
  <2>1. consumer = "metrics" => \A m \in logged' : key'[m] \in Keys
    BY <1>0, <1>a, <1>b, <1>c DEF CountedIsTracked, Labels
  <2> QED
    BY <1>b, <2>1, TrackerKept
<1>2. TypeOK'
  <2>1. logged' \subseteq 1..begun'
    <3>1. begun \in 0..MaxOps /\ logged \subseteq 1..begun
      BY <1>0 DEF TypeOK
    <3>2. n \in 1..begun
      BY <1>b, <3>1, ScanAssumption DEF Ops
    <3> QED
      BY <1>b, <3>1, <3>2
  <2>2. batch' \in [Writers -> SUBSET logged']
    BY <1>0, <1>b DEF TypeOK
  <2>3. /\ kind' \in [Ops -> Kinds \cup {None}] /\ key' \in [Ops -> Keys \cup {NoKey}]
    BY <1>0, <1>a DEF TypeOK, Labels
  <2> QED
    BY <1>0, <1>b, <1>1, <2>1, <2>2, <2>3 DEF TypeOK
<1>3. OneScanner'
  BY <1>0, <1>b DEF OneScanner, trackerVars
<1>4. CursorForward' /\ EmittedOnce'
  BY <1>0, <1>b DEF CursorForward, EmittedOnce, Passed
<1>d. ASSUME NEW s, s \in StreamsFor(t), Passed(s, n)
      PROVE  <<s, n>> \in late'
  BY <1>a, <1>d
<1>e. StreamsOf(n)' = StreamsFor(t)
  BY <1>c DEF StreamsOf
<1>f. ASSUME NEW m \in logged, NEW s
      PROVE  /\ (s \in StreamsFor(kind'[m])) <=> (s \in StreamsFor(kind[m]))
             /\ Relevant(s, m)' <=> Relevant(s, m)
  BY <1>b, <1>c DEF Relevant
<1>g. late \subseteq late'
  BY <1>a
<1>5. ResultAccounted'
  <2> SUFFICES ASSUME NEW w \in Writers, phase[w] = "emit", NEW s, s = Order[at[w]]
               PROVE  /\ \A m \in batch[w] : m <= maxSeen[w] /\ <<s, m>> \notin emitted
                      /\ \A m \in logged' :
                           (s \in StreamsFor(kind'[m]) /\ m <= maxSeen[w] /\ Relevant(s, m)') =>
                             m \in batch[w] \/ <<s, m>> \in emitted \cup baseline \cup late'
    BY <1>b DEF ResultAccounted, StreamsOf, Relevant
  <2>1. \A m \in batch[w] : m <= maxSeen[w] /\ <<s, m>> \notin emitted
    BY <1>0 DEF ResultAccounted
  <2>2. ASSUME NEW m \in logged, s \in StreamsFor(kind'[m]), m <= maxSeen[w],
               Relevant(s, m)'
        PROVE  m \in batch[w] \/ <<s, m>> \in emitted \cup baseline \cup late'
    <3>1. s \in StreamsFor(kind[m]) /\ Relevant(s, m)
      BY <1>f, <2>2
    <3> QED
      BY <1>0, <1>g, <2>2, <3>1 DEF ResultAccounted, StreamsOf
  <2>3. ASSUME s \in StreamsFor(kind'[n]), n <= maxSeen[w]
        PROVE  <<s, n>> \in late'
    <3>1. at[w] > 0 /\ maxSeen[w] \in 0..begun
      BY <1>0 DEF OneScanner, TypeOK
    <3>2. maxSeen[w] >= n
      BY <1>0, <2>3, <3>1, ScanAssumption DEF TypeOK, Ops
    <3>3. Passed(s, n)
      BY <3>1, <3>2 DEF Passed
    <3> QED
      BY <1>c, <1>d, <2>3, <3>3
  <2> QED
    BY <1>b, <2>1, <2>2, <2>3
<1>6. LossExplained'
  <2> SUFFICES ASSUME NEW m \in logged', NEW s \in StreamsFor(kind'[m]),
                      ready[s], m <= cursor[s], Relevant(s, m)'
               PROVE  <<s, m>> \in emitted \cup baseline \cup late'
    BY <1>b DEF LossExplained, StreamsOf
  <2>1. CASE m \in logged
    <3>1. s \in StreamsFor(kind[m]) /\ Relevant(s, m)
      BY <1>f, <2>1
    <3> QED
      BY <1>0, <1>g, <2>1, <3>1 DEF LossExplained, StreamsOf
  <2>2. CASE m = n
    <3>1. s \in Streams
      BY StreamsForType
    <3>2. Passed(s, n)
      BY <1>0, <2>2, <3>1, ScanAssumption DEF Passed, Ops, TypeOK
    <3> QED
      BY <1>c, <1>d, <2>2, <3>2
  <2> QED
    BY <1>b, <2>1, <2>2
<1> QED
  BY <1>1, <1>2, <1>3, <1>4, <1>5, <1>6 DEF ScanInv
(* A scanner that has nothing in hand begins, goes on or ends. *)
LEMMA MoveStep ==
  ASSUME ScanInv,
         UNCHANGED <<consumer, logVars, cursor, ready, phase, batch, maxSeen, histVars,
                     trackerVars>>,
         at' \in [Writers -> 0..Len(Order)], mu' \in Writers \cup {None},
         \A v \in Writers : phase[v] = "emit" => at'[v] = at[v],
         \A v \in Writers : at'[v] > 0 => mu' = v
  PROVE  ScanInv'
<1>0. /\ TypeOK /\ OneScanner /\ SeriesBounded /\ CountedIsTracked
      /\ TrackedHasSeries /\ CursorForward /\ ResultAccounted /\ EmittedOnce
      /\ LossExplained /\ TrackerTypeOK
  BY DEF ScanInv, TypeOK
<1>a. UNCHANGED <<consumer, begun, kind, key, logged, cursor, ready, phase, batch,
                  maxSeen, emitted, twice, baseline, late, trackerVars>>
  BY DEF logVars, histVars
<1>b. \A v \in Writers : inc[v] # NoKey => phase[v] = "emit"
  BY <1>0 DEF OneScanner, TypeOK
<1>1. TrackerTypeOK' /\ SeriesBounded' /\ CountedIsTracked' /\ TrackedHasSeries'
  BY <1>0, <1>a, <1>b, TrackerKept DEF CountedIsTracked
<1>2. TypeOK'
  BY <1>0, <1>a, <1>1 DEF TypeOK
<1>3. OneScanner'
  BY <1>0, <1>a DEF OneScanner, trackerVars
<1>4. CursorForward' /\ EmittedOnce'
  <2>1. ASSUME NEW s \in Streams, NEW n \in Ops, Passed(s, n)
        PROVE  Passed(s, n)'
    BY <1>a, <2>1 DEF Passed
  <2>2. \A v \in Writers : phase[v] = "emit" => Order[at'[v]] = Order[at[v]]
    OBVIOUS
  <2> QED
    BY <1>0, <1>a, <2>1, <2>2 DEF CursorForward, EmittedOnce
<1>5. ResultAccounted'
  BY <1>0, <1>a DEF ResultAccounted, StreamsOf, Relevant
<1>6. LossExplained'
  BY <1>0, <1>a DEF LossExplained, StreamsOf, Relevant
<1> QED
  BY <1>1, <1>2, <1>3, <1>4, <1>5, <1>6 DEF ScanInv

LEMMA BeginScanStep ==
  ASSUME ScanInv, NEW w \in Writers, BeginScan(w)
  PROVE  ScanInv'
<1>0. TypeOK /\ OneScanner
  BY DEF ScanInv
<1>1. \A v \in Writers : at[v] = 0 /\ phase[v] = "search"
  BY <1>0, NobodyScans DEF BeginScan, CursorFree
<1>2. at' \in [Writers -> 0..Len(Order)] /\ \A v \in Writers : at'[v] > 0 => v = w
  <2>1. 1 \in 0..Len(Order)
    BY OrderFacts
  <2> QED
    BY <1>0, <1>1, <2>1 DEF BeginScan, TypeOK
<1> QED
  BY <1>1, <1>2, MoveStep DEF BeginScan

(* The step to the next stream keeps the mutex with its holder. *)
LEMMA NextStreamMoves ==
  ASSUME TypeOK, OneScanner, NEW w \in Writers, at[w] > 0, NextStream(w) \/ EndScan(w)
  PROVE  /\ at' \in [Writers -> 0..Len(Order)] /\ mu' \in Writers \cup {None}
         /\ \A v \in Writers \ {w} : at'[v] = at[v]
         /\ \A v \in Writers : at'[v] > 0 => mu' = v
<1>1. /\ mu = w /\ at[w] \in 1..3
      /\ \A v \in Writers \ {w} : at[v] = 0
  BY Alone
<1>2. at \in [Writers -> 0..3] /\ Len(Order) = 3
  BY OrderFacts DEF TypeOK
<1>3. CASE NextStream(w)
  <2>1. /\ at' = [at EXCEPT ![w] = IF at[w] = 3 THEN 0 ELSE at[w] + 1]
        /\ mu' = IF at[w] = 3 THEN None ELSE mu
    BY <1>1, <1>2, <1>3, OrderModulo DEF NextStream
  <2>2. (IF at[w] = 3 THEN 0 ELSE at[w] + 1) \in 0..3
    BY <1>1
  <2> QED
    BY <1>1, <1>2, <2>1, <2>2
<1>4. CASE EndScan(w)
  BY <1>1, <1>2, <1>4 DEF EndScan
<1> QED
  BY <1>3, <1>4

LEMMA SearchFailsStep ==
  ASSUME ScanInv, NEW w \in Writers, SearchFails(w)
  PROVE  ScanInv'
<1>0. TypeOK /\ OneScanner
  BY DEF ScanInv
<1>1. at[w] > 0 /\ phase[w] = "search" /\ (NextStream(w) \/ EndScan(w))
  BY DEF SearchFails
<1>2. /\ at' \in [Writers -> 0..Len(Order)] /\ mu' \in Writers \cup {None}
      /\ \A v \in Writers \ {w} : at'[v] = at[v]
      /\ \A v \in Writers : at'[v] > 0 => mu' = v
  BY <1>0, <1>1, NextStreamMoves
<1> QED
  BY <1>1, <1>2, MoveStep DEF SearchFails

LEMMA AnsweredStep ==
  ASSUME ScanInv, NEW w \in Writers, SearchAnswered(w)
  PROVE  ScanInv'
<1>0. /\ TypeOK /\ OneScanner /\ SeriesBounded /\ CountedIsTracked
      /\ TrackedHasSeries /\ CursorForward /\ ResultAccounted /\ EmittedOnce
      /\ LossExplained /\ TrackerTypeOK
  BY DEF ScanInv, TypeOK
<1>w. at[w] > 0 /\ phase[w] = "search"
  BY DEF SearchAnswered
<1>o. /\ mu = w /\ at[w] \in 1..3 /\ Order[at[w]] \in Streams
      /\ \A v \in Writers \ {w} : at[v] = 0 /\ phase[v] = "search"
  BY <1>0, <1>w, Alone
<1>s. PICK s \in Streams : s = Order[at[w]]
  BY <1>o
<1>a. PICK result, top :
        /\ result = Matching(s) /\ top = MaxReqStart(s, result)
        /\ batch' = [batch EXCEPT ![w] =
                       {n \in result : ShouldEmit(s, n) /\ Relevant(s, n)}]
        /\ maxSeen' = [maxSeen EXCEPT ![w] = top]
        /\ baseline' = IF ready[s] THEN baseline
                       ELSE baseline \cup {<<s, n>> : n \in result}
        /\ phase' = [phase EXCEPT ![w] = "emit"]
        /\ UNCHANGED <<consumer, begun, kind, key, logged, cursor, ready, mu, at,
                       emitted, twice, late, trackerVars>>
  BY <1>s DEF SearchAnswered, logVars, cursorVars
<1>b. top \in 0..begun /\ top >= cursor[s] /\ \A n \in result : n <= top
  BY <1>0, <1>a, MaxOfResult
<1>c. /\ batch'[w] = {n \in result : ShouldEmit(s, n) /\ Relevant(s, n)}
      /\ maxSeen'[w] = top /\ phase'[w] = "emit"
      /\ \A v \in Writers \ {w} : phase'[v] = phase[v] /\ batch'[v] = batch[v]
                                    /\ maxSeen'[v] = maxSeen[v]
  BY <1>0, <1>a DEF TypeOK
<1>d. /\ begun \in Nat /\ cursor[s] \in 0..begun
      /\ \A n \in logged : n \in 1..begun /\ n \in Ops
  <2>1. begun \in 0..MaxOps /\ logged \subseteq 1..begun /\ cursor[s] \in 0..begun
    BY <1>0 DEF TypeOK
  <2>2. 1..begun \subseteq 1..MaxOps /\ begun \in Nat
    BY <2>1, ScanAssumption
  <2> QED
    BY <2>1, <2>2 DEF Ops
<1>1. TrackerTypeOK' /\ SeriesBounded' /\ CountedIsTracked' /\ TrackedHasSeries'
  BY <1>0, <1>a, TrackerKept DEF CountedIsTracked
<1>2. TypeOK'
  <2>1. {n \in result : ShouldEmit(s, n) /\ Relevant(s, n)} \subseteq logged
    BY <1>a DEF Matching
  <2>2. /\ batch' \in [Writers -> SUBSET logged] /\ maxSeen' \in [Writers -> 0..begun]
        /\ phase' \in [Writers -> {"search", "emit"}]
    BY <1>0, <1>a, <1>b, <2>1 DEF TypeOK
  <2> QED
    BY <1>0, <1>a, <1>1, <2>2 DEF TypeOK
<1>3. OneScanner'
  BY <1>0, <1>a, <1>c, <1>w DEF OneScanner, trackerVars
<1>e. ASSUME NEW n \in Ops, <<s, n>> \in emitted
      PROVE  n <= cursor[s]
  <2>1. Passed(s, n)
    BY <1>0, <1>e DEF CursorForward
  <2>2. \A v \in Writers : phase[v] # "emit"
    BY <1>o, <1>w
  <2>3. cursor[s] >= n
    BY <2>1, <2>2 DEF Passed
  <2> QED
    BY <1>d, <2>3 DEF Ops
<1>4. CursorForward' /\ EmittedOnce'
  <2>1. ASSUME NEW x \in Streams, NEW n \in Ops, Passed(x, n)
        PROVE  Passed(x, n)'
    <3>1. \A v \in Writers : phase[v] # "emit"
      BY <1>o, <1>w
    <3> QED
      BY <1>a, <2>1, <3>1 DEF Passed
  <2>2. \A v \in Writers : phase'[v] = "emit" => v = w
    BY <1>c, <1>o
  <2>3. \A v \in Writers : phase'[v] = "emit" => maxSeen'[v] >= cursor'[Order[at'[v]]]
    BY <1>a, <1>b, <1>c, <1>s, <2>2
  <2> QED
    BY <1>0, <1>a, <2>1, <2>3 DEF CursorForward, EmittedOnce
<1>5. ResultAccounted'
  <2>1. ASSUME NEW n \in batch'[w]
        PROVE  n <= top /\ <<s, n>> \notin emitted
    <3>1. n \in result /\ n # cursor[s] /\ n \in logged /\ n >= cursor[s]
      BY <1>a, <1>c, <2>1 DEF ShouldEmit, Matching
    <3> QED
      BY <1>b, <1>d, <1>e, <3>1
  <2>2. ASSUME NEW n \in logged, s \in StreamsOf(n), n <= top, Relevant(s, n)
        PROVE  n \in batch'[w] \/ <<s, n>> \in emitted \cup baseline' \cup late
    <3>1. CASE ready[s] /\ n > cursor[s]
      <4>1. n \in result
        BY <1>a, <1>d, <2>2, <3>1 DEF Matching
      <4> QED
        BY <1>c, <1>d, <2>2, <3>1, <4>1 DEF ShouldEmit
    <3>2. CASE ready[s] /\ n <= cursor[s]
      BY <1>0, <1>a, <2>2, <3>2 DEF LossExplained
    <3>3. CASE ~ready[s]
      <4>1. n \in result
        BY <1>0, <1>a, <1>d, <2>2, <3>3 DEF Matching, CursorForward
      <4> QED
        BY <1>a, <3>3, <4>1
    <3> QED
      BY <1>d, <3>1, <3>2, <3>3
  <2>3. \A v \in Writers : phase'[v] = "emit" => v = w
    BY <1>c, <1>o
  <2> QED
    BY <1>a, <1>c, <1>s, <2>1, <2>2, <2>3 DEF ResultAccounted, StreamsOf, Relevant
<1>6. LossExplained'
  BY <1>0, <1>a DEF LossExplained, StreamsOf, Relevant
<1> QED
  BY <1>1, <1>2, <1>3, <1>4, <1>5, <1>6 DEF ScanInv
-----------------------------------------------------------------------------
(* The tracker. *)

(* accesslog_tracker.go:84: Inc admits a tuple. *)
LEMMA AdmitTracks ==
  ASSUME ScanInv, NEW w \in Writers, at[w] > 0, inc[w] = NoKey,
         NEW k \in Keys, IncAdmit(w, Order[at[w]], k),
         UNCHANGED <<consumer, logged, key, at>>
  PROVE  TrackerTypeOK' /\ SeriesBounded' /\ CountedIsTracked' /\ TrackedHasSeries'
<1>0. /\ TypeOK /\ OneScanner /\ SeriesBounded /\ CountedIsTracked
      /\ TrackedHasSeries /\ CursorForward /\ ResultAccounted /\ EmittedOnce
      /\ LossExplained /\ TrackerTypeOK
  BY DEF ScanInv, TypeOK
<1>o. Order[at[w]] \in Streams /\ \A v \in Writers \ {w} : inc[v] = NoKey
  BY <1>0, Alone
<1>s. PICK s \in Streams : s = Order[at[w]]
  BY <1>o
<1>a. /\ HasRoom(s, k)
      /\ seen' = [seen EXCEPT ![s] = seen[s] \cup {k}]
      /\ stale' = [stale EXCEPT ![s] = stale[s] \ {k}]
      /\ inc' = [inc EXCEPT ![w] = k]
      /\ UNCHANGED <<series, doomed, overtaken>>
  BY <1>s DEF IncAdmit
<1>b. /\ \A x \in Streams : seen'[x] = IF x = s THEN seen[x] \cup {k} ELSE seen[x]
      /\ \A x \in Streams : stale'[x] = IF x = s THEN stale[x] \ {k} ELSE stale[x]
      /\ \A v \in Writers : inc'[v] = IF v = w THEN k ELSE NoKey
  BY <1>0, <1>a, <1>o DEF TrackerTypeOK
<1>c. /\ IsFiniteSet(seen[s] \cup {k})
      /\ Cardinality(seen[s] \cup {k}) <= MaxAccesslogSeriesPerVec
  <2>1. IsFiniteSet(seen[s]) /\ Cardinality(seen[s]) <= MaxAccesslogSeriesPerVec
    BY <1>0 DEF TrackerTypeOK, SeriesBounded
  <2>2. Cardinality(seen[s]) \in Nat
    BY <2>1, FS_CardinalityType
  <2>3. /\ IsFiniteSet(seen[s] \cup {k})
        /\ Cardinality(seen[s] \cup {k}) =
             IF k \in seen[s] THEN Cardinality(seen[s]) ELSE Cardinality(seen[s]) + 1
    BY <2>1, FS_AddElement
  <2> QED
    BY <1>a, <2>1, <2>2, <2>3, TrackerAssumption DEF HasRoom
<1>1. TrackerTypeOK'
  BY <1>0, <1>a, <1>b, <1>c DEF TrackerTypeOK
<1>2. SeriesBounded'
  BY <1>0, <1>a, <1>b, <1>c DEF SeriesBounded
<1>3. CountedIsTracked'
  <2>1. at' = at /\ key' = key /\ logged' = logged /\ consumer' = consumer
    OBVIOUS
  <2>2. \A v \in Writers : inc'[v] # NoKey =>
          inc'[v] \in seen'[Order[at[v]]] \ stale'[Order[at[v]]]
    BY <1>b, <1>s
  <2> QED
    BY <1>0, <2>1, <2>2 DEF CountedIsTracked
<1>4. TrackedHasSeries'
  <2> SUFFICES ASSUME NEW x \in Streams, NEW y \in seen'[x],
                      y \notin series[x] \cup overtaken[x]
               PROVE  \E v \in Writers : at[v] > 0 /\ Order[at[v]] = x /\ inc'[v] = y
    BY <1>a DEF TrackedHasSeries
  <2>1. CASE x = s /\ y = k
    BY <1>b, <1>s, <2>1
  <2>2. CASE ~(x = s /\ y = k)
    <3>1. y \in seen[x]
      BY <1>b, <2>2
    <3>2. y # NoKey
      BY <1>0, <3>1, TrackerAssumption DEF TrackerTypeOK
    <3>3. PICK v \in Writers : inc[v] = y
      BY <1>0, <3>1 DEF TrackedHasSeries
    <3>4. v = w
      BY <1>o, <3>2, <3>3
    <3> QED
      BY <3>2, <3>3, <3>4
  <2> QED
    BY <2>1, <2>2
<1> QED
  BY <1>1, <1>2, <1>3, <1>4

(* accesslog_tracker.go:107: the series of an admitted tuple. *)
LEMMA CountStep ==
  ASSUME ScanInv, NEW w \in Writers, CountEntry(w)
  PROVE  ScanInv'
<1>0. /\ TypeOK /\ OneScanner /\ SeriesBounded /\ CountedIsTracked
      /\ TrackedHasSeries /\ CursorForward /\ ResultAccounted /\ EmittedOnce
      /\ LossExplained /\ TrackerTypeOK
  BY DEF ScanInv, TypeOK
<1>w. phase[w] = "emit" /\ at[w] > 0 /\ inc[w] # NoKey
  BY <1>0 DEF CountEntry, IncSeries, OneScanner
<1>o. Order[at[w]] \in Streams /\ \A v \in Writers \ {w} : inc[v] = NoKey
  BY <1>0, <1>w, Alone
<1>s. PICK s \in Streams : s = Order[at[w]]
  BY <1>o
<1>k. PICK k \in Keys : k = inc[w]
  BY <1>0, <1>w DEF TrackerTypeOK
<1>a. /\ series' = [series EXCEPT ![s] = series[s] \cup {k}]
      /\ overtaken' = [overtaken EXCEPT ![s] = overtaken[s] \ {k}]
      /\ inc' = [inc EXCEPT ![w] = NoKey]
      /\ UNCHANGED <<seen, stale, doomed>>
      /\ UNCHANGED <<consumer, logVars, cursorVars, scanVars, histVars>>
  BY <1>s, <1>k DEF CountEntry, IncSeries
<1>b. /\ \A x \in Streams : series'[x] = IF x = s THEN series[x] \cup {k} ELSE series[x]
      /\ \A x \in Streams : overtaken'[x] = IF x = s THEN overtaken[x] \ {k} ELSE overtaken[x]
      /\ \A v \in Writers : inc'[v] = NoKey
  BY <1>0, <1>a, <1>o DEF TrackerTypeOK
<1>c. k \in seen[s]
  BY <1>0, <1>w, <1>s, <1>k DEF CountedIsTracked
<1>d. UNCHANGED <<consumer, logged, key, at>>
  BY <1>a DEF logVars, scanVars
<1>1. TrackerTypeOK'
  BY <1>0, <1>a DEF TrackerTypeOK
<1>2. SeriesBounded'
  BY <1>0, <1>a, <1>b, <1>c DEF SeriesBounded
<1>3. CountedIsTracked'
  BY <1>0, <1>b, <1>d DEF CountedIsTracked
<1>4. TrackedHasSeries'
  <2> SUFFICES ASSUME NEW x \in Streams, NEW y \in seen[x]
               PROVE  y \in series'[x] \cup overtaken'[x]
    BY <1>a DEF TrackedHasSeries
  <2>1. CASE y \in series[x] \cup overtaken[x]
    BY <1>b, <2>1
  <2>2. CASE y \notin series[x] \cup overtaken[x]
    <3>1. PICK v \in Writers : at[v] > 0 /\ Order[at[v]] = x /\ inc[v] = y
      BY <1>0, <2>2 DEF TrackedHasSeries
    <3>2. y # NoKey
      BY <1>0, TrackerAssumption DEF TrackerTypeOK
    <3>3. v = w
      BY <1>o, <3>1, <3>2
    <3> QED
      BY <1>b, <1>k, <1>s, <3>1, <3>3
  <2> QED
    BY <2>1, <2>2
<1>5. TypeOK' /\ OneScanner'
      /\ CursorForward' /\ ResultAccounted' /\ EmittedOnce' /\ LossExplained'
  BY <1>1, <1>a, <1>b, ScanKept
<1> QED
  BY <1>1, <1>2, <1>3, <1>4, <1>5 DEF ScanInv

LEMMA SweepTracks ==
  ASSUME ScanInv, SweepStep,
         UNCHANGED <<consumer, logVars, cursorVars, scanVars, histVars>>
  PROVE  ScanInv'
<1>0. /\ TypeOK /\ OneScanner /\ SeriesBounded /\ CountedIsTracked
      /\ TrackedHasSeries /\ CursorForward /\ ResultAccounted /\ EmittedOnce
      /\ LossExplained /\ TrackerTypeOK
  BY DEF ScanInv, TypeOK
<1>d. UNCHANGED <<consumer, logged, key, at>>
  BY DEF logVars, scanVars
<1>e. UNCHANGED inc
  BY DEF SweepStep, Sweep, TTLElapses, SweepDelete
<1>k. \A v \in Writers : inc[v] # NoKey => at[v] > 0 /\ Order[at[v]] \in Streams
  <2>1. \A v \in Writers : inc[v] # NoKey => at[v] > 0
    BY <1>0 DEF OneScanner, TypeOK
  <2> QED
    BY <1>0, <2>1, Alone
<1>1. ASSUME NEW s \in Streams, Sweep(s)
      PROVE  TrackerTypeOK' /\ SeriesBounded' /\ CountedIsTracked' /\ TrackedHasSeries'
  <2>a. /\ stale[s] # {} /\ doomed[s] = {}
        /\ doomed' = [doomed EXCEPT ![s] = stale[s]]
        /\ seen' = [seen EXCEPT ![s] = seen[s] \ stale[s]]
        /\ stale' = [stale EXCEPT ![s] = {}]
        /\ UNCHANGED <<series, inc, overtaken>>
    BY <1>1 DEF Sweep
  <2>b. /\ \A x \in Streams : seen'[x] = IF x = s THEN seen[x] \ stale[x] ELSE seen[x]
        /\ \A x \in Streams : doomed'[x] = IF x = s THEN stale[x] ELSE doomed[x]
        /\ \A x \in Streams : stale'[x] = IF x = s THEN {} ELSE stale[x]
    BY <1>0, <2>a DEF TrackerTypeOK
  <2>c. \A x \in Streams : /\ IsFiniteSet(seen'[x])
                            /\ Cardinality(seen'[x]) <= MaxAccesslogSeriesPerVec
    <3> SUFFICES ASSUME NEW x \in Streams
                 PROVE  /\ IsFiniteSet(seen'[x])
                        /\ Cardinality(seen'[x]) <= MaxAccesslogSeriesPerVec
      OBVIOUS
    <3>1. /\ IsFiniteSet(seen[x]) /\ Cardinality(seen[x]) <= MaxAccesslogSeriesPerVec
          /\ seen'[x] \in SUBSET seen[x]
      BY <1>0, <2>b DEF TrackerTypeOK, SeriesBounded
    <3>2. IsFiniteSet(seen'[x]) /\ Cardinality(seen'[x]) <= Cardinality(seen[x])
      BY <3>1, FS_Subset
    <3>3. Cardinality(seen'[x]) \in Nat /\ Cardinality(seen[x]) \in Nat
      BY <3>1, <3>2, FS_CardinalityType
    <3> QED
      BY <3>1, <3>2, <3>3, TrackerAssumption
  <2>1. TrackerTypeOK'
    BY <1>0, <2>a, <2>c DEF TrackerTypeOK
  <2>2. SeriesBounded'
    BY <1>0, <2>a, <2>b, <2>c DEF SeriesBounded
  <2>3. CountedIsTracked'
    BY <1>0, <1>d, <1>e, <1>k, <2>b DEF CountedIsTracked
  <2>4. TrackedHasSeries'
    BY <1>0, <1>d, <2>a, <2>b DEF TrackedHasSeries
  <2> QED
    BY <2>1, <2>2, <2>3, <2>4
<1>2. ASSUME NEW s \in Streams, NEW k \in Keys, TTLElapses(s, k)
      PROVE  TrackerTypeOK' /\ SeriesBounded' /\ CountedIsTracked' /\ TrackedHasSeries'
  <2>a. /\ \A w \in Writers : inc[w] # k
        /\ stale' = [stale EXCEPT ![s] = stale[s] \cup {k}]
        /\ UNCHANGED <<seen, series, inc, doomed, overtaken>>
    BY <1>2 DEF TTLElapses
  <2>b. \A x \in Streams : stale'[x] \subseteq stale[x] \cup {k}
    BY <1>0, <2>a DEF TrackerTypeOK
  <2>1. TrackerTypeOK' /\ SeriesBounded'
    BY <1>0, <2>a DEF TrackerTypeOK, SeriesBounded
  <2>2. CountedIsTracked'
    BY <1>0, <1>d, <1>k, <2>a, <2>b DEF CountedIsTracked
  <2>3. TrackedHasSeries'
    BY <1>0, <1>d, <2>a DEF TrackedHasSeries
  <2> QED
    BY <2>1, <2>2, <2>3
<1>3. ASSUME NEW s \in Streams, NEW k \in Keys, SweepDelete(s, k)
      PROVE  TrackerTypeOK' /\ SeriesBounded' /\ CountedIsTracked' /\ TrackedHasSeries'
  <2>a. /\ doomed' = [doomed EXCEPT ![s] = doomed[s] \ {k}]
        /\ series' = [series EXCEPT ![s] = series[s] \ {k}]
        /\ overtaken' = [overtaken EXCEPT ![s] =
                           IF k \in seen[s] THEN overtaken[s] \cup {k} ELSE overtaken[s]]
        /\ UNCHANGED <<seen, stale, inc>>
    BY <1>3 DEF SweepDelete
  <2>b. \A x \in Streams :
          /\ series'[x] = IF x = s THEN series[x] \ {k} ELSE series[x]
          /\ doomed'[x] = IF x = s THEN doomed[x] \ {k} ELSE doomed[x]
          /\ overtaken[x] \subseteq overtaken'[x]
          /\ x = s /\ k \in seen[s] => k \in overtaken'[x]
    BY <1>0, <2>a DEF TrackerTypeOK
  <2>1. TrackerTypeOK'
    BY <1>0, <2>a DEF TrackerTypeOK
  <2>2. SeriesBounded'
    BY <1>0, <2>a, <2>b DEF SeriesBounded
  <2>3. CountedIsTracked'
    BY <1>0, <1>d, <2>a DEF CountedIsTracked
  <2>4. TrackedHasSeries'
    <3> SUFFICES ASSUME NEW x \in Streams, NEW y \in seen[x],
                        y \notin series'[x] \cup overtaken'[x]
                 PROVE  \E v \in Writers : at[v] > 0 /\ Order[at[v]] = x /\ inc[v] = y
      BY <1>d, <2>a DEF TrackedHasSeries
    <3>1. y \notin series[x] \cup overtaken[x]
      BY <2>b
    <3> QED
      BY <1>0, <3>1 DEF TrackedHasSeries
  <2> QED
    BY <2>1, <2>2, <2>3, <2>4
<1>4. TrackerTypeOK' /\ SeriesBounded' /\ CountedIsTracked' /\ TrackedHasSeries'
  BY <1>1, <1>2, <1>3 DEF SweepStep
<1>5. TypeOK' /\ OneScanner'
      /\ CursorForward' /\ ResultAccounted' /\ EmittedOnce' /\ LossExplained'
  <2>1. \A w \in Writers : phase[w] = "search" => inc'[w] = NoKey
    BY <1>0, <1>e DEF OneScanner
  <2> QED
    BY <1>4, <2>1, ScanKept
<1> QED
  BY <1>4, <1>5 DEF ScanInv

-----------------------------------------------------------------------------
(* collectors_accesslog.go:109: an entry is handed on. *)
LEMMA EmitStep ==
  ASSUME ScanInv, NEW w \in Writers, NEW n \in Ops, EmitEntry(w, n)
  PROVE  ScanInv'
<1>0. /\ TypeOK /\ OneScanner /\ SeriesBounded /\ CountedIsTracked
      /\ TrackedHasSeries /\ CursorForward /\ ResultAccounted /\ EmittedOnce
      /\ LossExplained /\ TrackerTypeOK
  BY DEF ScanInv, TypeOK
<1>w. phase[w] = "emit" /\ inc[w] = NoKey /\ n \in batch[w] /\ at[w] > 0
  BY <1>0 DEF EmitEntry, OneScanner
<1>o. /\ mu = w /\ at[w] \in 1..3 /\ Order[at[w]] \in Streams
      /\ \A v \in Writers \ {w} : phase[v] = "search" /\ batch[v] = {} /\ inc[v] = NoKey
  BY <1>0, <1>w, Alone
<1>s. PICK s \in Streams : s = Order[at[w]]
  BY <1>o
<1>a. /\ batch' = [batch EXCEPT ![w] = batch[w] \ {n}]
      /\ emitted' = emitted \cup {<<s, n>>}
      /\ UNCHANGED <<consumer, begun, kind, key, logged, cursor, ready, mu, at, phase,
                     maxSeen, baseline, late>>
  BY <1>s DEF EmitEntry, logVars, cursorVars
<1>t. twice' = (twice \/ <<s, n>> \in emitted)
  BY <1>s, Zenon DEF EmitEntry
<1>b. /\ batch'[w] = batch[w] \ {n}
      /\ \A v \in Writers \ {w} : batch'[v] = batch[v]
  BY <1>0, <1>a DEF TypeOK
<1>r. /\ \A m \in batch[w] : m <= maxSeen[w] /\ <<s, m>> \notin emitted
      /\ \A m \in logged :
           (s \in StreamsOf(m) /\ m <= maxSeen[w] /\ Relevant(s, m)) =>
             m \in batch[w] \/ <<s, m>> \in emitted \cup baseline \cup late
  BY <1>0, <1>s, <1>w DEF ResultAccounted
<1>l. n \in logged
  BY <1>0, <1>w DEF TypeOK
<1>1. /\ TrackerTypeOK' /\ SeriesBounded' /\ CountedIsTracked' /\ TrackedHasSeries'
      /\ \A v \in Writers \ {w} : inc'[v] = NoKey
  <2>1. CASE consumer = "metrics" /\ IncAdmit(w, s, key[n])
    <3>1. key[n] \in Keys
      BY <1>0, <1>l, <2>1 DEF CountedIsTracked
    <3>2. IncAdmit(w, Order[at[w]], key[n])
      BY <1>s, <2>1
    <3>3. \A v \in Writers \ {w} : inc'[v] = NoKey
      BY <1>0, <1>o, <2>1 DEF IncAdmit, TrackerTypeOK
    <3> QED
      BY <1>a, <1>w, <3>1, <3>2, <3>3, AdmitTracks
  <2>2. CASE UNCHANGED trackerVars
    <3>1. inc' = inc
      BY <2>2 DEF trackerVars
    <3> QED
      BY <1>0, <1>a, <1>o, <2>2, <3>1, TrackerKept DEF CountedIsTracked
  <2> QED
    BY <1>s, <2>1, <2>2 DEF EmitEntry, IncDrop
<1>2. TypeOK'
  <2>1. batch' \in [Writers -> SUBSET logged]
    BY <1>0, <1>a DEF TypeOK
  <2> QED
    BY <1>0, <1>a, <1>1, <2>1 DEF TypeOK
<1>3. OneScanner'
  BY <1>0, <1>1, <1>a, <1>b, <1>w DEF OneScanner
<1>4. EmittedOnce'
  <2>1. ~twice
    BY <1>0 DEF EmittedOnce
  <2>2. <<s, n>> \notin emitted
    BY <1>r, <1>w
  <2> QED
    BY <1>t, <2>1, <2>2, Zenon DEF EmittedOnce
<1>5. CursorForward'
  <2>1. ASSUME NEW x \in Streams, NEW m \in Ops
        PROVE  Passed(x, m)' <=> Passed(x, m)
    BY <1>a DEF Passed
  <2>2. Passed(s, n)
    <3>1. n <= maxSeen[w] /\ maxSeen[w] \in 0..begun /\ begun \in 0..MaxOps
      BY <1>0, <1>r, <1>w DEF TypeOK
    <3>2. maxSeen[w] >= n
      BY <3>1, ScanAssumption DEF Ops
    <3> QED
      BY <1>s, <1>w, <3>2 DEF Passed
  <2>3. ASSUME NEW x \in Streams, NEW m \in Ops, <<x, m>> \in emitted'
        PROVE  Passed(x, m)'
    <3>1. <<x, m>> \in emitted \/ (x = s /\ m = n)
      BY <1>a, <2>3
    <3> QED
      BY <1>0, <2>1, <2>2, <3>1 DEF CursorForward
  <2> QED
    BY <1>0, <1>a, <2>3 DEF CursorForward
<1>6. ResultAccounted'
  <2>1. \A m \in batch'[w] : m <= maxSeen[w] /\ <<s, m>> \notin emitted'
    BY <1>a, <1>b, <1>r
  <2>2. \A m \in logged :
          (s \in StreamsOf(m) /\ m <= maxSeen[w] /\ Relevant(s, m)) =>
            m \in batch'[w] \/ <<s, m>> \in emitted' \cup baseline \cup late
    BY <1>a, <1>b, <1>r
  <2>3. \A v \in Writers : phase[v] = "emit" => v = w
    BY <1>o
  <2> QED
    BY <1>a, <1>s, <2>1, <2>2, <2>3 DEF ResultAccounted, StreamsOf, Relevant
<1>7. LossExplained'
  BY <1>0, <1>a DEF LossExplained, StreamsOf, Relevant
<1> QED
  BY <1>1, <1>2, <1>3, <1>4, <1>5, <1>6, <1>7 DEF ScanInv

(* accesslog.go:150: the cursor passes a result that is worked off. *)
LEMMA AdvanceStep ==
  ASSUME ScanInv, NEW w \in Writers, Advance(w)
  PROVE  ScanInv'
<1>0. /\ TypeOK /\ OneScanner /\ SeriesBounded /\ CountedIsTracked
      /\ TrackedHasSeries /\ CursorForward /\ ResultAccounted /\ EmittedOnce
      /\ LossExplained /\ TrackerTypeOK
  BY DEF ScanInv, TypeOK
<1>w. phase[w] = "emit" /\ inc[w] = NoKey /\ batch[w] = {} /\ at[w] > 0
  BY <1>0 DEF Advance, OneScanner
<1>o. /\ mu = w /\ at[w] \in 1..3 /\ Order[at[w]] \in Streams
      /\ \A v \in Writers \ {w} : phase[v] = "search" /\ batch[v] = {} /\ inc[v] = NoKey
  BY <1>0, <1>w, Alone
<1>s. PICK s \in Streams : s = Order[at[w]]
  BY <1>o
<1>m. PICK top \in 0..begun : top = maxSeen[w]
  BY <1>0 DEF TypeOK
<1>a. /\ cursor' = [cursor EXCEPT ![s] = top]
      /\ ready' = [ready EXCEPT ![s] = TRUE]
      /\ phase' = [phase EXCEPT ![w] = "search"]
      /\ maxSeen' = [maxSeen EXCEPT ![w] = 0]
      /\ UNCHANGED <<consumer, begun, kind, key, logged, batch, emitted, twice,
                     baseline, late, trackerVars>>
  BY <1>s, <1>m DEF Advance, logVars, histVars
<1>b. /\ at' \in [Writers -> 0..Len(Order)] /\ mu' \in Writers \cup {None}
      /\ \A v \in Writers \ {w} : at'[v] = at[v]
      /\ \A v \in Writers : at'[v] > 0 => mu' = v
  BY <1>0, <1>w, NextStreamMoves DEF Advance
<1>c. /\ \A x \in Streams : cursor'[x] = IF x = s THEN top ELSE cursor[x]
      /\ \A x \in Streams \ {s} : ready'[x] = ready[x]
      /\ ready'[s]
      /\ \A v \in Writers : phase'[v] = "search"
  BY <1>0, <1>a, <1>o DEF TypeOK
<1>d. /\ begun \in Nat /\ \A x \in Streams : cursor[x] \in 0..begun
      /\ \A n \in logged : n \in 1..begun /\ n \in Ops
      /\ top >= cursor[s] /\ top \in Nat
  <2>1. begun \in 0..MaxOps /\ logged \subseteq 1..begun /\ cursor \in [Streams -> 0..begun]
    BY <1>0 DEF TypeOK
  <2>2. 1..begun \subseteq 1..MaxOps /\ begun \in Nat
    BY <2>1, ScanAssumption
  <2>3. top >= cursor[s]
    BY <1>0, <1>m, <1>s, <1>w DEF CursorForward
  <2> QED
    BY <2>1, <2>2, <2>3 DEF Ops
<1>1. TrackerTypeOK' /\ SeriesBounded' /\ CountedIsTracked' /\ TrackedHasSeries'
  <2>1. \A v \in Writers : inc[v] = NoKey
    BY <1>o, <1>w
  <2> QED
    BY <1>0, <1>a, <2>1, TrackerKept DEF CountedIsTracked
<1>2. TypeOK'
  <2>1. 0 \in 0..begun
    BY <1>d
  <2>2. cursor' \in [Streams -> 0..begun] /\ maxSeen' \in [Writers -> 0..begun]
    BY <1>0, <1>a, <2>1 DEF TypeOK
  <2>3. ready' \in [Streams -> BOOLEAN]
    BY <1>0, <1>a, Zenon DEF TypeOK
  <2>4. phase' \in [Writers -> {"search", "emit"}]
    BY <1>0, <1>a DEF TypeOK
  <2> QED
    BY <1>0, <1>a, <1>b, <1>1, <2>2, <2>3, <2>4 DEF TypeOK
<1>3. OneScanner'
  <2>1. \A v \in Writers : batch[v] = {} /\ inc[v] = NoKey
    BY <1>o, <1>w
  <2>2. inc' = inc
    BY <1>a DEF trackerVars
  <2> QED
    BY <1>a, <1>b, <1>c, <2>1, <2>2 DEF OneScanner
<1>4. CursorForward'
  <2>1. ASSUME NEW x \in Streams, NEW n \in Ops, Passed(x, n)
        PROVE  cursor'[x] >= n
    <3>1. CASE cursor[x] >= n
      BY <1>c, <1>d, <3>1 DEF Ops
    <3>2. CASE ~(cursor[x] >= n)
      <4>1. PICK v \in Writers : Order[at[v]] = x /\ phase[v] = "emit" /\ maxSeen[v] >= n
        BY <2>1, <3>2 DEF Passed
      <4>2. v = w
        BY <1>o, <4>1
      <4> QED
        BY <1>c, <1>m, <1>s, <4>1, <4>2
    <3> QED
      BY <3>1, <3>2
  <2>2. ASSUME NEW x \in Streams, NEW n \in Ops, <<x, n>> \in emitted
        PROVE  Passed(x, n)'
    BY <1>0, <2>1, <2>2 DEF CursorForward, Passed
  <2>3. ASSUME NEW x \in Streams, ~ready'[x]
        PROVE  cursor'[x] = 0
    <3>1. x # s
      BY <1>c, <2>3
    <3>2. ~ready[x]
      BY <1>c, <2>3, <3>1
    <3> QED
      BY <1>0, <1>c, <3>1, <3>2 DEF CursorForward
  <2> QED
    BY <1>a, <1>c, <2>2, <2>3 DEF CursorForward
<1>5. ResultAccounted' /\ EmittedOnce'
  BY <1>0, <1>a, <1>c DEF ResultAccounted, EmittedOnce
<1>6. LossExplained'
  <2> SUFFICES ASSUME NEW n \in logged, NEW x \in StreamsOf(n), ready'[x],
                      n <= cursor'[x], Relevant(x, n)
               PROVE  <<x, n>> \in emitted \cup baseline \cup late
    BY <1>a DEF LossExplained, StreamsOf, Relevant
  <2>1. x \in Streams
    BY StreamsForType DEF StreamsOf
  <2>2. CASE x = s
    <3>1. s \in StreamsOf(n) /\ n <= maxSeen[w] /\ Relevant(s, n)
      BY <1>c, <1>m, <2>1, <2>2
    <3> QED
      BY <1>0, <1>s, <1>w, <2>2, <3>1 DEF ResultAccounted
  <2>3. CASE x # s
    <3>1. ready[x] /\ n <= cursor[x]
      BY <1>c, <2>1, <2>3
    <3> QED
      BY <1>0, <3>1 DEF LossExplained
  <2> QED
    BY <2>2, <2>3
<1> QED
  BY <1>1, <1>2, <1>3, <1>4, <1>5, <1>6 DEF ScanInv

-----------------------------------------------------------------------------
LEMMA NextInv == ScanInv /\ [Next]_vars => ScanInv'
<1> SUFFICES ASSUME ScanInv, [Next]_vars PROVE ScanInv'
  OBVIOUS
<1>1. CASE BeginOp
  BY <1>1, BeginOpStep
<1>2. ASSUME NEW n \in Ops, LogOp(n)
      PROVE  ScanInv'
  BY <1>2, LogOpStep
<1>3. ASSUME NEW w \in Scanners, BeginScan(w) \/ ScanStep(w)
      PROVE  ScanInv'
  <2>1. w \in Writers
    BY ScannersAreWriters
  <2>2. CASE BeginScan(w)
    BY <2>1, <2>2, BeginScanStep
  <2>3. CASE SearchAnswered(w)
    BY <2>1, <2>3, AnsweredStep
  <2>4. CASE SearchFails(w)
    BY <2>1, <2>4, SearchFailsStep
  <2>5. ASSUME NEW n \in Ops, EmitEntry(w, n)
        PROVE  ScanInv'
    BY <2>1, <2>5, EmitStep
  <2>6. CASE CountEntry(w)
    BY <2>1, <2>6, CountStep
  <2>7. CASE Advance(w)
    BY <2>1, <2>7, AdvanceStep
  <2> QED
    BY <1>3, <2>2, <2>3, <2>4, <2>5, <2>6, <2>7 DEF ScanStep
<1>4. CASE SweepStep /\ UNCHANGED <<consumer, logVars, cursorVars, scanVars, histVars>>
  BY <1>4, SweepTracks
<1>5. CASE UNCHANGED vars
  <2>1. UNCHANGED <<consumer, logVars, cursorVars, scanVars, histVars, trackerVars>>
    BY <1>5 DEF vars
  <2>2. /\ TypeOK /\ OneScanner /\ SeriesBounded /\ CountedIsTracked
        /\ TrackedHasSeries
    BY DEF ScanInv
  <2>3. UNCHANGED <<at, phase, logged, key, inc>>
    BY <2>1 DEF scanVars, logVars, trackerVars
  <2>4. TrackerTypeOK' /\ SeriesBounded' /\ CountedIsTracked' /\ TrackedHasSeries'
    BY <2>1, <2>2, <2>3, TrackerKept DEF CountedIsTracked
  <2>5. \A w \in Writers : phase[w] = "search" => inc'[w] = NoKey
    BY <2>2, <2>3 DEF OneScanner
  <2>6. /\ TypeOK' /\ OneScanner'
        /\ CursorForward' /\ ResultAccounted' /\ EmittedOnce' /\ LossExplained'
    BY <2>1, <2>4, <2>5, ScanKept
  <2> QED
    BY <2>4, <2>6 DEF ScanInv
<1> QED
  BY <1>1, <1>2, <1>3, <1>4, <1>5 DEF Next

(* accesslog.go:139, accesslog_tracker.go:79: ScanInv is inductive.  The   *)
(* mutex of the cursor lets one scanner through, a series exists exactly   *)
(* for the tracked tuples up to the windows of Inc and Sweep, and each     *)
(* result is accounted for entry by entry, however the scanners, the sweep *)
(* and the server interleave.                                              *)
THEOREM ScanInvariant == Spec => []ScanInv
<1> QED
  BY InitInv, NextInv, PTL DEF Spec

(* README.md:709: no entry of the accesslog is handed on twice.  An entry  *)
(* handed on is behind the cursor or in the result in hand (CursorForward) *)
(* and what is left of a result was not handed on (ResultAccounted).       *)
THEOREM EmittedAtMostOnce == Spec => []EmittedOnce
<1>1. ScanInv => EmittedOnce
  BY DEF ScanInv
<1> QED
  BY <1>1, ScanInvariant, PTL

(* accesslog.go:150: what a cursor passes without handing it on was there  *)
(* before the first scan or was written after the scan that passed it.     *)
THEOREM LossStaysExplained == Spec => []LossExplained
<1>1. ScanInv => LossExplained
  BY DEF ScanInv
<1> QED
  BY <1>1, ScanInvariant, PTL
=============================================================================
