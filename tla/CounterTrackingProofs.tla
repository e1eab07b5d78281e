------------------------ MODULE CounterTrackingProofs ------------------------
(***************************************************************************)
(* The exported counters for any number of collectors and keys, any limit  *)
(* on the entries, and any interleaving of searches, updates, restarts of  *)
(* the server and the cleanup.                                             *)
(***************************************************************************)
EXTENDS CounterTracking, FiniteSetTheorems, TLAPS

-----------------------------------------------------------------------------
(* Readings of a server counter. *)

(* A reading continues itself. *)
LEMMA ContinuesItself ==
  ASSUME NEW v \in Nat, NEW s \in Moments
  PROVE  Continues(v, s, v, s)
BY DEF Continues, Moments

(* What continued an earlier reading still does after the server has       *)
(* counted one operation, or has restarted.                                *)
LEMMA ContinuesOnward ==
  ASSUME NEW v \in Nat, NEW s \in Moments, NEW w \in Nat, NEW t \in Moments,
         Continues(v, s, w, t)
  PROVE  /\ Continues(v, s, w + 1,
                      [served |-> t.served + 1, restarts |-> t.restarts])
         /\ Continues(v, s, 0,
                      [served |-> t.served, restarts |-> t.restarts + 1])
BY DEF Continues, Moments

(* updateCounterCommon never adds more than the server counted between two *)
(* readings, and exactly that if it did not restart.                       *)
LEMMA DeltaBounded ==
  ASSUME NEW v \in Nat, NEW s \in Moments, NEW w \in Nat, NEW t \in Moments,
         Continues(v, s, w, t)
  PROVE  /\ DeltaOf(v, w) \in Nat
         /\ DeltaOf(v, w) + s.served <= t.served
         /\ s.restarts = t.restarts => DeltaOf(v, w) + v = w
BY DEF Continues, Moments, DeltaOf

(* Of two readings, the one that is not earlier continues the other. *)
LEMMA LaterContinues ==
  ASSUME NEW v \in Nat, NEW s \in Moments, NEW w \in Nat, NEW t \in Moments,
         Compatible(v, s, w, t), ~Earlier(t, s)
  PROVE  Continues(v, s, w, t)
BY DEF Compatible, Continues, Moments, Earlier

(* A past reading is no higher than the operations counted. *)
LEMMA ReadingBounded ==
  ASSUME NEW v \in Nat, NEW s \in Moments, Continues(0, Start, v, s)
  PROVE  v <= s.served
BY DEF Continues, Moments, Start

LEMMA StartIsMoment == Start \in Moments
BY DEF Start, Moments

LEMMA ClockIsMoment ==
  ASSUME TypeOK, NEW k \in Keys
  PROVE  Clock(k) \in Moments
BY CounterAssumption DEF TypeOK, Clock, Moments

LEMMA DeltaType ==
  ASSUME NEW v \in Nat, NEW w \in Nat
  PROVE  DeltaOf(v, w) \in Nat
BY DEF DeltaOf

-----------------------------------------------------------------------------
LEMMA InitInv == Init => CounterInv
<1> SUFFICES ASSUME Init PROVE CounterInv
  OBVIOUS
<1> USE CounterAssumption
<1>1. TypeOK
  BY FS_EmptySet, StartIsMoment DEF Init, TypeOK
<1>2. EntryAliveWhileModified
  BY DEF Init, EntryAliveWhileModified, Modifying
<1>3. RecordedIsExported
  BY DEF Init, RecordedIsExported
<1>4. DeltaIsCurrent
  BY DEF Init, DeltaIsCurrent
<1>5. ReadingsArePast
  BY DEF Init, ReadingsArePast, PastReading, Continues, Clock, Start
<1>6. ExportFollowsReadings
  BY DEF Init, ExportFollowsReadings, Start
<1> QED
  BY <1>1, <1>2, <1>3, <1>4, <1>5, <1>6 DEF CounterInv

(* A step of the server: if every reading up to now still is one of the    *)
(* past, the invariant is kept.                                            *)
LEMMA ServerStep ==
  ASSUME CounterInv, TypeOK',
         UNCHANGED <<entryVars, updaterVars, exportVars>>,
         \A k \in Keys : served'[k] <= MaxServed[k],
         restarts' = 0 => restarts = 0,
         \A k \in Keys, v \in Nat, s \in Moments :
           Continues(v, s, server[k], Clock(k)) =>
             Continues(v, s, server'[k], Clock(k)')
  PROVE  CounterInv'
<1> USE CounterAssumption
<1>0. TypeOK /\ ReadingsArePast /\ DeltaIsCurrent
  BY DEF CounterInv
<1>1. EntryAliveWhileModified' /\ RecordedIsExported' /\ DeltaIsCurrent'
  BY DEF CounterInv, entryVars, updaterVars, exportVars,
         EntryAliveWhileModified, Modifying, RecordedIsExported, DeltaIsCurrent
<1>2. ReadingsArePast'
  <2>1. \A k \in Keys : Continues(0, Start, server'[k], Clock(k)')
    BY <1>0, StartIsMoment DEF ReadingsArePast
  <2>2. \A k \in Keys : ~forgotten[k] =>
          /\ Continues(0, Start, value[k], recordedAt[k])
          /\ Continues(value[k], recordedAt[k], server'[k], Clock(k)')
    BY <1>0 DEF ReadingsArePast, PastReading, TypeOK
  <2>3. \A u \in Updaters : pc[u] # "idle" =>
          /\ Continues(0, Start, got[u], stamp[u])
          /\ Continues(got[u], stamp[u], server'[key[u]], Clock(key[u])')
    BY <1>0 DEF ReadingsArePast, PastReading, TypeOK, DeltaIsCurrent, updaterVars
  <2> QED
    BY <1>0, <2>1, <2>2, <2>3
    DEF ReadingsArePast, PastReading, entryVars, updaterVars, exportVars
<1>3. ExportFollowsReadings'
  BY DEF CounterInv, ExportFollowsReadings, Disturbed, entryVars, exportVars
<1> QED
  BY <1>1, <1>2, <1>3 DEF CounterInv

(* The server counts an operation. *)
LEMMA CountsStep ==
  ASSUME CounterInv, NEW k \in Keys, ServerCounts(k)
  PROVE  CounterInv'
<1> USE CounterAssumption
<1>0. TypeOK /\ ReadingsArePast
  BY DEF CounterInv
<1>1. TypeOK'
  BY <1>0 DEF TypeOK, ServerCounts, entryVars, updaterVars, exportVars
<1>2. \A j \in Keys : served'[j] <= MaxServed[j]
  BY <1>0 DEF ReadingsArePast, ServerCounts, TypeOK
<1>3. ASSUME NEW j \in Keys, NEW v \in Nat, NEW s \in Moments,
             Continues(v, s, server[j], Clock(j))
      PROVE  Continues(v, s, server'[j], Clock(j)')
  <2>1. Clock(j) \in Moments /\ server[j] \in Nat
    BY <1>0, ClockIsMoment DEF TypeOK
  <2>2. CASE j # k
    BY <1>0, <1>3, <2>2 DEF TypeOK, ServerCounts, Clock
  <2>3. CASE j = k
    <3>1. server'[j] = server[j] + 1
      BY <1>0, <2>3 DEF TypeOK, ServerCounts
    <3>2. Clock(j)' = [served |-> Clock(j).served + 1,
                       restarts |-> Clock(j).restarts]
      BY <1>0, <2>3 DEF TypeOK, ServerCounts, Clock
    <3> QED
      BY <1>3, <2>1, <3>1, <3>2, ContinuesOnward
  <2> QED
    BY <2>2, <2>3
<1> QED
  BY <1>1, <1>2, <1>3, ServerStep DEF ServerCounts

(* The server restarts and all its counters are zero. *)
LEMMA RestartStep ==
  ASSUME CounterInv, ServerRestarts
  PROVE  CounterInv'
<1> USE CounterAssumption
<1>0. TypeOK /\ ReadingsArePast
  BY DEF CounterInv
<1>1. TypeOK'
  BY <1>0 DEF TypeOK, ServerRestarts, entryVars, updaterVars, exportVars
<1>2. \A j \in Keys : served'[j] <= MaxServed[j]
  BY <1>0 DEF ReadingsArePast, ServerRestarts
<1>3. ASSUME NEW j \in Keys, NEW v \in Nat, NEW s \in Moments,
             Continues(v, s, server[j], Clock(j))
      PROVE  Continues(v, s, server'[j], Clock(j)')
  <2>1. Clock(j) \in Moments /\ server[j] \in Nat
    BY <1>0, ClockIsMoment DEF TypeOK
  <2>2. server'[j] = 0
    BY DEF ServerRestarts
  <2>3. Clock(j)' = [served |-> Clock(j).served,
                     restarts |-> Clock(j).restarts + 1]
    BY DEF ServerRestarts, Clock
  <2> QED
    BY <1>3, <2>1, <2>2, <2>3, ContinuesOnward
<1>4. restarts' = 0 => restarts = 0
  BY <1>0 DEF TypeOK, ServerRestarts
<1> QED
  BY <1>1, <1>2, <1>3, <1>4, ServerStep DEF ServerRestarts

(* An entry was not updated for the retention period. *)
LEMMA RetentionStep ==
  ASSUME CounterInv, NEW k \in Keys, RetentionElapses(k)
  PROVE  CounterInv'
BY DEF CounterInv, RetentionElapses, TypeOK, EntryAliveWhileModified, Modifying,
       RecordedIsExported, DeltaIsCurrent, ReadingsArePast, PastReading, Clock,
       ExportFollowsReadings, Disturbed, serverVars, updaterVars, exportVars

-----------------------------------------------------------------------------
(* The search of a collector is answered. *)
LEMMA SearchStep ==
  ASSUME CounterInv, NEW u \in Updaters, NEW k \in Keys, ReadCounter(u, k)
  PROVE  CounterInv'
<1> USE CounterAssumption
<1>0. /\ TypeOK /\ ReadingsArePast /\ DeltaIsCurrent /\ EntryAliveWhileModified
      /\ RecordedIsExported /\ ExportFollowsReadings
  BY DEF CounterInv
<1>1. TypeOK'
  BY <1>0, ClockIsMoment DEF TypeOK, ReadCounter, serverVars, entryVars, exportVars
<1>2. EntryAliveWhileModified'
  BY <1>0 DEF TypeOK, EntryAliveWhileModified, Modifying, ReadCounter, entryVars
<1>3. RecordedIsExported' /\ ExportFollowsReadings'
  BY <1>0 DEF RecordedIsExported, ExportFollowsReadings, Disturbed, ReadCounter,
              serverVars, entryVars, exportVars
<1>4. DeltaIsCurrent'
  BY <1>0 DEF TypeOK, DeltaIsCurrent, ReadCounter, entryVars
<1>5. ReadingsArePast'
  <2>1. Continues(server[k], Clock(k), server[k], Clock(k))
    BY <1>0, ContinuesItself, ClockIsMoment DEF TypeOK
  <2>2. /\ got'[u] = server[k] /\ stamp'[u] = Clock(k) /\ key'[u] = k
        /\ \A w \in Updaters \ {u} :
             got'[w] = got[w] /\ stamp'[w] = stamp[w] /\ key'[w] = key[w]
               /\ pc'[w] = pc[w]
    BY <1>0 DEF TypeOK, ReadCounter
  <2>3. /\ UNCHANGED <<server, served, restarts, value, recordedAt, forgotten>>
        /\ \A j \in Keys : Clock(j)' = Clock(j)
    BY DEF ReadCounter, serverVars, entryVars, exportVars, Clock
  <2>4. \A w \in Updaters : pc'[w] # "idle" =>
          /\ Continues(0, Start, got'[w], stamp'[w])
          /\ Continues(got'[w], stamp'[w], server'[key'[w]], Clock(key[w])')
          /\ ~forgotten'[key'[w]] =>
               Compatible(value'[key'[w]], recordedAt'[key'[w]], got'[w], stamp'[w])
    <3> SUFFICES ASSUME NEW w \in Updaters, pc'[w] # "idle"
                 PROVE  /\ Continues(0, Start, got'[w], stamp'[w])
                        /\ Continues(got'[w], stamp'[w], server'[key'[w]], Clock(key[w])')
                        /\ ~forgotten'[key'[w]] =>
                              Compatible(value'[key'[w]], recordedAt'[key'[w]],
                                         got'[w], stamp'[w])
      OBVIOUS
    <3>1. CASE w = u
      BY <1>0, <2>1, <2>2, <2>3, <3>1
      DEF ReadingsArePast, PastReading, Compatible, Clock
    <3>2. CASE w # u
      BY <1>0, <2>2, <2>3, <3>2 DEF ReadingsArePast, PastReading, Clock
    <3> QED
      BY <3>1, <3>2
  <2>5. \A w, x \in Updaters :
          (pc'[w] # "idle" /\ pc'[x] # "idle" /\ key'[w] = key'[x]) =>
             Compatible(got'[w], stamp'[w], got'[x], stamp'[x])
    BY <1>0, <2>1, <2>2 DEF ReadingsArePast, PastReading, Compatible
  <2> QED
    BY <1>0, <2>3, <2>4, <2>5 DEF ReadingsArePast, PastReading
<1> QED
  BY <1>1, <1>2, <1>3, <1>4, <1>5 DEF CounterInv

(* A step that reads nothing and records nothing: collectors go on with    *)
(* what they have in hand, or return.                                      *)
LEMMA ReadingsKept ==
  ASSUME ReadingsArePast,
         UNCHANGED <<serverVars, value, recordedAt, forgotten>>,
         \A w \in Updaters : pc'[w] # "idle" =>
           /\ pc[w] # "idle"
           /\ got'[w] = got[w] /\ stamp'[w] = stamp[w] /\ key'[w] = key[w]
  PROVE  ReadingsArePast'
<1>1. /\ UNCHANGED <<server, served, restarts>>
      /\ \A k : Clock(k)' = Clock(k)
  BY DEF serverVars, Clock
<1>2. \A w \in Updaters : pc'[w] # "idle" =>
        /\ Continues(0, Start, got'[w], stamp'[w])
        /\ Continues(got'[w], stamp'[w], server'[key'[w]], Clock(key[w])')
        /\ ~forgotten'[key'[w]] =>
             Compatible(value'[key'[w]], recordedAt'[key'[w]], got'[w], stamp'[w])
  BY <1>1 DEF ReadingsArePast, PastReading, Clock
<1>3. \A w, x \in Updaters :
        (pc'[w] # "idle" /\ pc'[x] # "idle" /\ key'[w] = key'[x]) =>
           Compatible(got'[w], stamp'[w], got'[x], stamp'[x])
  BY DEF ReadingsArePast
<1> QED
  BY <1>1, <1>2, <1>3 DEF ReadingsArePast, PastReading

(* A collector claims the flag of the entry, which it may have to create. *)
LEMMA ClaimStep ==
  ASSUME CounterInv, NEW u \in Updaters, Claim(u)
  PROVE  CounterInv'
<1> USE CounterAssumption
<1>0. /\ TypeOK /\ ReadingsArePast /\ DeltaIsCurrent /\ EntryAliveWhileModified
      /\ RecordedIsExported /\ ExportFollowsReadings
  BY DEF CounterInv
<1>a. key[u] \in Keys
  BY <1>0 DEF DeltaIsCurrent, Claim
<1>1. TypeOK'
  <2>1. IsFiniteSet(tracked') /\ Cardinality(tracked') <= MaxCounterEntries
    <3>1. tracked' = tracked \cup {key[u]}
      BY DEF Claim
    <3>2. /\ IsFiniteSet(tracked')
          /\ Cardinality(tracked') = IF key[u] \in tracked THEN Cardinality(tracked)
                                                        ELSE Cardinality(tracked) + 1
      BY <1>0, <3>1, FS_AddElement DEF TypeOK
    <3>3. Cardinality(tracked) \in Nat
      BY <1>0, FS_CardinalityType DEF TypeOK
    <3> QED
      BY <1>0, <3>2, <3>3 DEF TypeOK, Claim
  <2> QED
    BY <1>0, <1>a, <2>1 DEF TypeOK, Claim, serverVars, exportVars
<1>2. EntryAliveWhileModified'
  BY <1>0, <1>a DEF TypeOK, EntryAliveWhileModified, Modifying, DeltaIsCurrent, Claim
<1>3. RecordedIsExported' /\ ExportFollowsReadings'
  BY <1>0 DEF RecordedIsExported, ExportFollowsReadings, Disturbed, Claim,
              serverVars, exportVars
<1>4. DeltaIsCurrent'
  BY <1>0, <1>a DEF TypeOK, DeltaIsCurrent, Claim
<1>5. ReadingsArePast'
  BY <1>0, ReadingsKept DEF TypeOK, Claim, exportVars
<1> QED
  BY <1>1, <1>2, <1>3, <1>4, <1>5 DEF CounterInv

(* A collector gives up: the entry limit is reached or the entry is busy.  *)
LEMMA GiveUpStep ==
  ASSUME CounterInv, NEW u \in Updaters, EntryLimitReached(u) \/ SkipBusy(u)
  PROVE  CounterInv'
<1> USE CounterAssumption
<1>0. /\ TypeOK /\ ReadingsArePast /\ DeltaIsCurrent /\ EntryAliveWhileModified
      /\ RecordedIsExported /\ ExportFollowsReadings
  BY DEF CounterInv
<1>a. /\ pc[u] = "update" /\ Return(u)
      /\ UNCHANGED <<serverVars, entryVars, exportVars>>
  BY DEF EntryLimitReached, SkipBusy
<1>1. TypeOK'
  BY <1>0, <1>a, StartIsMoment DEF TypeOK, Return, serverVars, entryVars, exportVars
<1>2. EntryAliveWhileModified'
  BY <1>0, <1>a DEF TypeOK, EntryAliveWhileModified, Modifying, Return, entryVars
<1>3. RecordedIsExported' /\ ExportFollowsReadings'
  BY <1>0, <1>a DEF RecordedIsExported, ExportFollowsReadings, Disturbed,
                    serverVars, entryVars, exportVars
<1>4. DeltaIsCurrent'
  BY <1>0, <1>a DEF TypeOK, DeltaIsCurrent, Return, entryVars
<1>5. ReadingsArePast'
  BY <1>0, <1>a, ReadingsKept DEF TypeOK, Return, entryVars, exportVars
<1> QED
  BY <1>1, <1>2, <1>3, <1>4, <1>5 DEF CounterInv

(* The delta is computed from the value of the entry. *)
LEMMA DeltaStep ==
  ASSUME CounterInv, NEW u \in Updaters, ComputeDelta(u)
  PROVE  CounterInv'
<1> USE CounterAssumption
<1>0. /\ TypeOK /\ ReadingsArePast /\ DeltaIsCurrent /\ EntryAliveWhileModified
      /\ RecordedIsExported /\ ExportFollowsReadings
  BY DEF CounterInv
<1>a. key[u] \in Keys
  BY <1>0 DEF DeltaIsCurrent, ComputeDelta
<1>b. DeltaOf(value[key[u]], got[u]) \in Nat
  BY <1>0, <1>a, DeltaType DEF TypeOK
<1>1. TypeOK'
  BY <1>0, <1>a, <1>b DEF TypeOK, ComputeDelta, serverVars, exportVars
<1>2. EntryAliveWhileModified'
  BY <1>0, <1>a DEF TypeOK, EntryAliveWhileModified, Modifying, ComputeDelta
<1>3. RecordedIsExported' /\ ExportFollowsReadings'
  BY <1>0 DEF RecordedIsExported, ExportFollowsReadings, Disturbed, ComputeDelta,
              serverVars, exportVars
<1>4. DeltaIsCurrent'
  BY <1>0, <1>a DEF TypeOK, DeltaIsCurrent, ComputeDelta
<1>5. ReadingsArePast'
  BY <1>0, ReadingsKept DEF TypeOK, ComputeDelta, exportVars
<1> QED
  BY <1>1, <1>2, <1>3, <1>4, <1>5 DEF CounterInv

(* A suspicious reset is refused and the flag released. *)
LEMMA SuspiciousStep ==
  ASSUME CounterInv, NEW u \in Updaters, SuspiciousReset(u)
  PROVE  CounterInv'
<1> USE CounterAssumption
<1>0. /\ TypeOK /\ ReadingsArePast /\ DeltaIsCurrent /\ EntryAliveWhileModified
      /\ RecordedIsExported /\ ExportFollowsReadings
  BY DEF CounterInv
<1>a. key[u] \in Keys
  BY <1>0 DEF DeltaIsCurrent, SuspiciousReset
<1>1. TypeOK'
  BY <1>0, <1>a, StartIsMoment
  DEF TypeOK, SuspiciousReset, Return, serverVars, exportVars
<1>2. EntryAliveWhileModified'
  BY <1>0, <1>a DEF TypeOK, EntryAliveWhileModified, Modifying, SuspiciousReset,
                    Return
<1>3. RecordedIsExported' /\ ExportFollowsReadings'
  BY <1>0 DEF RecordedIsExported, ExportFollowsReadings, Disturbed,
              SuspiciousReset, serverVars, exportVars
<1>4. DeltaIsCurrent'
  BY <1>0, <1>a DEF TypeOK, DeltaIsCurrent, SuspiciousReset, Return
<1>5. ReadingsArePast'
  BY <1>0, ReadingsKept DEF TypeOK, SuspiciousReset, Return, exportVars
<1> QED
  BY <1>1, <1>2, <1>3, <1>4, <1>5 DEF CounterInv

(* The value is recorded and the delta exported.  Only the collector that  *)
(* holds the flag does so, hence the delta is the one to the value that is *)
(* replaced; a reading that is not earlier continues it.                   *)
LEMMA RecordStep ==
  ASSUME CounterInv, NEW u \in Updaters, RecordValue(u)
  PROVE  CounterInv'
<1> USE CounterAssumption
<1> DEFINE k == key[u]
<1>0. /\ TypeOK /\ ReadingsArePast /\ DeltaIsCurrent /\ EntryAliveWhileModified
      /\ RecordedIsExported /\ ExportFollowsReadings
  BY DEF CounterInv
<1>a. /\ k \in Keys /\ pc[u] = "record" /\ holder[k] = u /\ k \in tracked
      /\ delta[u] = DeltaOf(value[k], got[u])
  BY <1>0 DEF DeltaIsCurrent, RecordValue, EntryAliveWhileModified, Modifying
<1>b. /\ got[u] \in Nat /\ stamp[u] \in Moments /\ delta[u] \in Nat
      /\ value[k] \in Nat /\ recordedAt[k] \in Moments /\ total[k] \in Nat
      /\ served[k] \in Nat /\ restarts \in Nat /\ MaxServed[k] \in Nat
      /\ Clock(k) \in Moments /\ server[k] \in Nat
  BY <1>0, <1>a, ClockIsMoment DEF TypeOK
<1>c. /\ total'[k] = Add(k, delta[u]) /\ value'[k] = got[u]
      /\ recordedAt'[k] = stamp[u] /\ forgotten' = forgotten
      /\ inverted'[k] = (inverted[k] \/ Earlier(stamp[u], recordedAt[k]))
      /\ \A j \in Keys \ {k} :
           /\ total'[j] = total[j] /\ value'[j] = value[j]
           /\ recordedAt'[j] = recordedAt[j] /\ inverted'[j] = inverted[j]
           /\ holder'[j] = holder[j]
      /\ holder'[k] = None
  BY <1>0, <1>a DEF TypeOK, RecordValue
<1>d. /\ Continues(0, Start, got[u], stamp[u])
      /\ Continues(got[u], stamp[u], server[k], Clock(k))
      /\ served[k] <= MaxServed[k]
  BY <1>0, <1>a DEF ReadingsArePast, PastReading
<1>e. got[u] <= stamp[u].served /\ stamp[u].served <= served[k]
  BY <1>b, <1>d, ReadingBounded DEF Continues, Clock
<1>f. stamp[u].served \in Nat /\ recordedAt[k].served \in Nat
  BY <1>b DEF Moments
<1>1. TypeOK'
  <2>1. Add(k, delta[u]) \in Nat
    BY <1>b DEF Add, TotalBound
  <2>2. Earlier(stamp[u], recordedAt[k]) \in BOOLEAN
    BY DEF Earlier
  <2> QED
    BY <1>0, <1>a, <1>b, <2>1, <2>2, StartIsMoment
    DEF TypeOK, RecordValue, Return, serverVars
<1>2. EntryAliveWhileModified'
  BY <1>0, <1>a DEF TypeOK, EntryAliveWhileModified, Modifying, RecordValue, Return
<1>3. RecordedIsExported'
  <2>1. got[u] <= total[k] + delta[u]
    BY <1>0, <1>a, <1>b DEF RecordedIsExported, DeltaOf
  <2>2. got[u] <= Add(k, delta[u])
    BY <1>b, <1>d, <1>e, <1>f, <2>1 DEF Add, TotalBound
  <2> QED
    BY <1>0, <1>c, <2>2 DEF RecordedIsExported
<1>4. DeltaIsCurrent'
  <2>1. \A w \in Updaters : pc[w] = "record" /\ w # u => key[w] # k
    BY <1>0, <1>a DEF EntryAliveWhileModified, Modifying
  <2>2. \A w \in Updaters \ {u} :
          pc'[w] = pc[w] /\ key'[w] = key[w] /\ delta'[w] = delta[w] /\ got'[w] = got[w]
    BY <1>0 DEF TypeOK, RecordValue, Return
  <2>3. pc'[u] = "idle" /\ tracked' = tracked
    BY <1>0 DEF TypeOK, RecordValue, Return
  <2> QED
    BY <1>0, <1>a, <1>c, <2>1, <2>2, <2>3 DEF DeltaIsCurrent, DeltaOf
<1>5. ReadingsArePast'
  <2>1. /\ UNCHANGED <<server, served, restarts>>
        /\ \A j : Clock(j)' = Clock(j)
    BY DEF RecordValue, serverVars, Clock
  <2>2. \A w \in Updaters : pc'[w] # "idle" =>
          /\ pc[w] # "idle" /\ w # u
          /\ got'[w] = got[w] /\ stamp'[w] = stamp[w] /\ key'[w] = key[w]
    BY <1>0 DEF TypeOK, RecordValue, Return
  <2>3. \A j \in Keys : ~forgotten'[j] =>
          /\ Continues(0, Start, value'[j], recordedAt'[j])
          /\ Continues(value'[j], recordedAt'[j], server[j], Clock(j))
    BY <1>0, <1>a, <1>c, <1>d DEF ReadingsArePast, PastReading
  <2>4. \A w \in Updaters : pc'[w] # "idle" =>
          /\ Continues(0, Start, got'[w], stamp'[w])
          /\ Continues(got'[w], stamp'[w], server[key'[w]], Clock(key'[w]))
          /\ ~forgotten'[key'[w]] =>
               Compatible(value'[key'[w]], recordedAt'[key'[w]], got'[w], stamp'[w])
    BY <1>0, <1>a, <1>c, <2>2 DEF ReadingsArePast, PastReading, DeltaIsCurrent
  <2>5. \A w, x \in Updaters :
          (pc'[w] # "idle" /\ pc'[x] # "idle" /\ key'[w] = key'[x]) =>
             Compatible(got'[w], stamp'[w], got'[x], stamp'[x])
    BY <1>0, <2>2 DEF ReadingsArePast
  <2> QED
    BY <1>0, <2>1, <2>3, <2>4, <2>5 DEF ReadingsArePast, PastReading, Clock
<1>6. ExportFollowsReadings'
  <2>1. ASSUME ~inverted'[k], ~forgotten'[k]
        PROVE  /\ total'[k] <= recordedAt'[k].served
               /\ restarts' = 0 => total'[k] = value'[k]
    <3>1. ~Disturbed(k) /\ ~Earlier(stamp[u], recordedAt[k])
      BY <1>c, <2>1 DEF Disturbed
    <3>2. Compatible(value[k], recordedAt[k], got[u], stamp[u])
      BY <1>0, <1>a, <3>1 DEF ReadingsArePast, Disturbed
    <3>3. Continues(value[k], recordedAt[k], got[u], stamp[u])
      BY <1>b, <3>1, <3>2, LaterContinues
    <3>4. /\ delta[u] + recordedAt[k].served <= stamp[u].served
          /\ recordedAt[k].restarts = stamp[u].restarts
               => delta[u] + value[k] = got[u]
      BY <1>a, <1>b, <3>3, DeltaBounded
    <3>5. total[k] <= recordedAt[k].served
      BY <1>0, <1>a, <3>1 DEF ExportFollowsReadings
    <3>6. total[k] + delta[u] <= stamp[u].served
      BY <1>b, <1>f, <3>4, <3>5
    <3>7. total'[k] = total[k] + delta[u]
      BY <1>b, <1>c, <1>d, <1>e, <1>f, <3>6 DEF Add, TotalBound
    <3>8. restarts' = 0 => total'[k] = value'[k]
      <4> SUFFICES ASSUME restarts' = 0 PROVE total'[k] = value'[k]
        OBVIOUS
      <4>1. restarts = 0
        BY DEF RecordValue, serverVars
      <4>2. stamp[u].restarts = 0
        BY <1>b, <1>d, <4>1 DEF Continues, Clock, Moments
      <4>3. recordedAt[k].restarts = 0
        BY <1>b, <3>3, <4>2 DEF Continues, Moments
      <4>4. total[k] = value[k]
        BY <1>0, <1>a, <3>1, <4>1 DEF ExportFollowsReadings
      <4> QED
        BY <1>b, <1>c, <3>4, <3>7, <4>2, <4>3, <4>4
    <3> QED
      BY <1>c, <3>6, <3>7, <3>8
  <2>2. ASSUME NEW j \in Keys \ {k}, ~Disturbed(j)'
        PROVE  /\ total'[j] <= recordedAt'[j].served
               /\ restarts' = 0 => total'[j] = value'[j]
    <3>1. ~Disturbed(j)
      BY <1>c, <2>2 DEF Disturbed
    <3> QED
      BY <1>0, <1>c, <3>1 DEF ExportFollowsReadings, RecordValue, serverVars
  <2> QED
    BY <1>a, <2>1, <2>2 DEF ExportFollowsReadings, Disturbed
<1> QED
  BY <1>1, <1>2, <1>3, <1>4, <1>5, <1>6 DEF CounterInv

(* The cleanup forgets entries that are old and not being modified. *)
LEMMA CleanupStep ==
  ASSUME CounterInv, CleanupOldCounters
  PROVE  CounterInv'
<1> USE CounterAssumption
<1>0. /\ TypeOK /\ ReadingsArePast /\ DeltaIsCurrent /\ EntryAliveWhileModified
      /\ RecordedIsExported /\ ExportFollowsReadings
  BY DEF CounterInv
<1>a. \A k \in Keys :
        \/ Deletable(k) /\ k \notin tracked' /\ value'[k] = 0 /\ forgotten'[k]
        \/ /\ ~Deletable(k) /\ value'[k] = value[k]
           /\ forgotten'[k] = forgotten[k] /\ (k \in tracked' <=> k \in tracked)
  BY <1>0, Zenon DEF CleanupOldCounters, TypeOK
<1>b. /\ UNCHANGED <<holder, pc, key, got, delta, stamp, total, recordedAt, inverted>>
      /\ UNCHANGED <<server, served, restarts>>
      /\ \A k : Clock(k)' = Clock(k)
  BY DEF CleanupOldCounters, updaterVars, serverVars, Clock
<1>1. TypeOK'
  <2>1. tracked' \subseteq tracked
    BY DEF CleanupOldCounters
  <2>2. IsFiniteSet(tracked') /\ Cardinality(tracked') <= MaxCounterEntries
    BY <1>0, <2>1, FS_Subset, FS_CardinalityType DEF TypeOK
  <2>3. value' \in [Keys -> Nat]
    BY <1>0 DEF TypeOK, CleanupOldCounters
  <2>4. aged' \in [Keys -> BOOLEAN] /\ forgotten' \in [Keys -> BOOLEAN]
    BY DEF CleanupOldCounters
  <2> QED
    BY <1>0, <1>b, <2>1, <2>2, <2>3, <2>4 DEF TypeOK
<1>2. EntryAliveWhileModified'
  <2>1. \A k \in tracked : holder[k] # None => k \in tracked'
    BY <1>0, <1>a DEF TypeOK, Deletable
  <2>2. \A u \in Updaters : holder[key[u]] = u => holder[key[u]] # None
    OBVIOUS
  <2>3. tracked' \subseteq tracked
    BY DEF CleanupOldCounters
  <2> QED
    BY <1>0, <1>b, <2>1, <2>2, <2>3 DEF EntryAliveWhileModified, Modifying
<1>3. RecordedIsExported'
  BY <1>0, <1>a, <1>b DEF TypeOK, RecordedIsExported
<1>4. DeltaIsCurrent'
  BY <1>0, <1>a, <1>b
  DEF TypeOK, DeltaIsCurrent, DeltaOf, Deletable, EntryAliveWhileModified, Modifying
<1>5. ReadingsArePast'
  <2>1. \A k \in Keys : ~forgotten'[k] =>
          /\ ~forgotten[k] /\ value'[k] = value[k]
    BY <1>a, <1>0 DEF TypeOK
  <2>2. \A w \in Updaters : pc'[w] # "idle" =>
          /\ Continues(0, Start, got'[w], stamp'[w])
          /\ Continues(got'[w], stamp'[w], server[key'[w]], Clock(key'[w]))
          /\ ~forgotten'[key'[w]] =>
               Compatible(value'[key'[w]], recordedAt'[key'[w]], got'[w], stamp'[w])
    BY <1>0, <1>b, <2>1 DEF ReadingsArePast, PastReading, DeltaIsCurrent
  <2> QED
    BY <1>0, <1>b, <2>1, <2>2 DEF ReadingsArePast, PastReading, Clock
<1>6. ExportFollowsReadings'
  BY <1>0, <1>a, <1>b DEF ExportFollowsReadings, Disturbed
<1> QED
  BY <1>1, <1>2, <1>3, <1>4, <1>5, <1>6 DEF CounterInv

-----------------------------------------------------------------------------
(* counter_management.go:116-173: the protocol of the modifying flag is    *)
(* sound, every reading in flight is one of the past, and the exported     *)
(* counter follows the readings recorded, for every number of collectors.  *)
THEOREM CounterInvariant == Spec => []CounterInv
<1>1. CounterInv /\ [Next]_counterVars => CounterInv'
  <2> SUFFICES ASSUME CounterInv, [Next]_counterVars
               PROVE  CounterInv'
    OBVIOUS
  <2>1. CASE Next
    <3>1. ASSUME NEW k \in Keys, ServerCounts(k) \/ RetentionElapses(k)
          PROVE  CounterInv'
      BY <3>1, CountsStep, RetentionStep
    <3>2. ASSUME NEW u \in Updaters, NEW k \in Keys, ReadCounter(u, k)
          PROVE  CounterInv'
      BY <3>2, SearchStep
    <3>3. ASSUME NEW u \in Updaters, Update(u)
          PROVE  CounterInv'
      BY <3>3, ClaimStep, GiveUpStep, DeltaStep, SuspiciousStep, RecordStep
      DEF Update
    <3> QED
      BY <2>1, <3>1, <3>2, <3>3, RestartStep, CleanupStep DEF Next
  <2>2. CASE UNCHANGED counterVars
    BY <2>2
    DEF CounterInv, TypeOK, EntryAliveWhileModified, Modifying,
        RecordedIsExported, DeltaIsCurrent, ReadingsArePast, PastReading, Clock,
        ExportFollowsReadings, Disturbed, counterVars, serverVars, entryVars,
        updaterVars, exportVars
  <2> QED
    BY <2>1, <2>2
<1> QED
  BY <1>1, InitInv, PTL DEF Spec

(* counter_management.go:158: the exported counter exceeds what the server *)
(* counted only after a stale value was recorded last or the cleanup has   *)
(* forgotten the entry.                                                    *)
THEOREM OvercountStaysExplained == Spec => []OvercountExplained
<1>1. CounterInv => OvercountExplained
  <2> SUFFICES ASSUME CounterInv, NEW k \in Keys, ~Disturbed(k)
               PROVE  ~(total[k] > served[k])
    BY DEF OvercountExplained
  <2>1. total[k] <= recordedAt[k].served
    BY DEF CounterInv, ExportFollowsReadings
  <2>2. recordedAt[k].served <= served[k]
    BY DEF CounterInv, ReadingsArePast, PastReading, Continues, Clock, Disturbed
  <2>3. total[k] \in Nat /\ served[k] \in Nat /\ recordedAt[k].served \in Nat
    BY DEF CounterInv, TypeOK, Moments
  <2> QED
    BY <2>1, <2>2, <2>3
<1> QED
  BY <1>1, CounterInvariant, PTL

(* counter_management.go:119: updates that are skipped, collide or arrive  *)
(* late lose and add nothing as long as no older value is recorded last,   *)
(* nothing is forgotten and the server runs through.                       *)
THEOREM UndisturbedStaysExact == Spec => []ExactWhenUndisturbed
<1>1. CounterInv => ExactWhenUndisturbed
  BY DEF CounterInv, TypeOK, ExactWhenUndisturbed, ExportFollowsReadings
<1> QED
  BY <1>1, CounterInvariant, PTL
=============================================================================
