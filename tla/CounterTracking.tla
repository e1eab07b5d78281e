--------------------------- MODULE CounterTracking ---------------------------
(***************************************************************************)
(* The delta-based counters of pkg/exporter/counter_management.go.         *)
(*                                                                         *)
(* A collector reads a monitor counter of the server and hands the value   *)
(* to updateCounterCommon, which adds the difference to the last recorded  *)
(* value to a Prometheus counter.  Collectors of one cycle never share a   *)
(* key, but a collector that outlives its cycle runs beside the collectors *)
(* of the next one, so several of them may be anywhere in the update of    *)
(* one key.  The cleanup goroutine forgets entries that were not updated   *)
(* for CounterEntryRetentionPeriod.                                        *)
(***************************************************************************)
EXTENDS Naturals, FiniteSets

CONSTANTS
  Keys,                      \* counter keys of one server
  Updaters,                  \* collector goroutines
  None,                      \* no updater, or no key
  MaxCounterEntries,         \* entries the map may hold
  MaxReasonableCounterDelta, \* a reset to this value or more is suspicious
  MaxServed,                 \* bound: operations the server counts, by key
  MaxRestarts                \* bound: restarts of the server

ASSUME CounterAssumption ==
  /\ None \notin Updaters \cup Keys
  /\ MaxCounterEntries \in Nat
  /\ MaxReasonableCounterDelta \in Nat
  /\ MaxServed \in [Keys -> Nat]
  /\ MaxRestarts \in Nat

VARIABLES
  \* The LDAP server.
  server,     \* value of each monitor counter
  served,     \* history: operations counted since the exporter started
  restarts,   \* history: restarts of the server
  \* counterValues: the map of entries and the fields of an entry.
  tracked,    \* keys that have an entry
  value,      \* entry.value
  aged,       \* entry.lastSeen lies before the cutoff of the cleanup
  holder,     \* the updater that holds entry.modifying, or None
  \* Progress of each collector.
  pc, key, got, delta,
  stamp,      \* history: when the value in hand was read
  \* What is exported, and histories of what disturbs it.
  total,      \* the Prometheus counter
  recordedAt, \* history: when the value of the entry was read
  inverted,   \* history: an older value was recorded over a newer one
  forgotten   \* history: the cleanup deleted the entry

serverVars  == <<server, served, restarts>>
entryVars   == <<tracked, value, aged, holder>>
updaterVars == <<pc, key, got, delta, stamp>>
exportVars  == <<total, recordedAt, inverted, forgotten>>
counterVars == <<serverVars, entryVars, updaterVars, exportVars>>

(* A moment in the history of a counter: every change of the counter       *)
(* advances one of the two.                                                *)
Clock(k) == [served |-> served[k], restarts |-> restarts]
Moments == [served : Nat, restarts : Nat]
Start == [served |-> 0, restarts |-> 0]
Earlier(s, t) == s.served + s.restarts < t.served + t.restarts

Init ==
  /\ server = [k \in Keys |-> 0]
  /\ served = [k \in Keys |-> 0]
  /\ restarts = 0
  /\ tracked = {}
  /\ value = [k \in Keys |-> 0]
  /\ aged = [k \in Keys |-> FALSE]
  /\ holder = [k \in Keys |-> None]
  /\ pc = [u \in Updaters |-> "idle"]
  /\ key = [u \in Updaters |-> None]
  /\ got = [u \in Updaters |-> 0]
  /\ delta = [u \in Updaters |-> 0]
  /\ stamp = [u \in Updaters |-> Start]
  /\ total = [k \in Keys |-> 0]
  /\ recordedAt = [k \in Keys |-> Start]
  /\ inverted = [k \in Keys |-> FALSE]
  /\ forgotten = [k \in Keys |-> FALSE]

-----------------------------------------------------------------------------
(* The LDAP server and the passing of time. *)

ServerCounts(k) ==
  /\ served[k] < MaxServed[k]
  /\ server' = [server EXCEPT ![k] = @ + 1]
  /\ served' = [served EXCEPT ![k] = @ + 1]
  /\ UNCHANGED <<restarts, entryVars, updaterVars, exportVars>>

ServerRestarts ==
  /\ restarts < MaxRestarts
  /\ restarts' = restarts + 1
  /\ server' = [k \in Keys |-> 0]
  /\ UNCHANGED <<served, entryVars, updaterVars, exportVars>>

(* No value of the key was recorded for the whole retention period.  A     *)
(* collector in flight is bounded by the LDAP timeout, far below it.       *)
RetentionElapses(k) ==
  /\ k \in tracked /\ ~aged[k]
  /\ \A u \in Updaters : pc[u] # "idle" => key[u] # k
  /\ aged' = [aged EXCEPT ![k] = TRUE]
  /\ UNCHANGED <<serverVars, tracked, value, holder, updaterVars, exportVars>>

-----------------------------------------------------------------------------
(* A collector: the search, then updateCounterCommon. *)

(* updateCounterCommon returns: what the collector held is gone. *)
Return(u) ==
  /\ pc' = [pc EXCEPT ![u] = "idle"]
  /\ key' = [key EXCEPT ![u] = None]
  /\ got' = [got EXCEPT ![u] = 0]
  /\ delta' = [delta EXCEPT ![u] = 0]
  /\ stamp' = [stamp EXCEPT ![u] = Start]

(* The search of the collector answers with the value of the counter.  One *)
(* that fails, or whose value is rejected before any entry is touched (no  *)
(* number, an invalid key, a negative value), changes nothing.             *)
ReadCounter(u, k) ==
  /\ pc[u] = "idle"
  /\ pc' = [pc EXCEPT ![u] = "update"]
  /\ key' = [key EXCEPT ![u] = k]
  /\ got' = [got EXCEPT ![u] = server[k]]
  /\ stamp' = [stamp EXCEPT ![u] = Clock(k)]
  /\ UNCHANGED <<serverVars, entryVars, delta, exportVars>>

(* Mutant: a busy entry is entered anyway. *)
ClaimWithoutFlag(u) ==
  LET k == key[u] IN
  /\ pc[u] = "update"
  /\ k \in tracked \/ Cardinality(tracked) < MaxCounterEntries
  /\ tracked' = tracked \cup {k}
  /\ holder' = [holder EXCEPT ![k] = u]
  /\ pc' = [pc EXCEPT ![u] = "claimed"]
  /\ UNCHANGED <<serverVars, value, aged, key, got, delta, stamp, exportVars>>

(* Under counterMutex: get or create the entry and claim its flag.  A key  *)
(* without an entry has the value and the age of one just created.         *)
Claim(u) ==
  LET k == key[u] IN
  /\ pc[u] = "update"
  /\ k \in tracked \/ Cardinality(tracked) < MaxCounterEntries
  /\ holder[k] = None
  /\ tracked' = tracked \cup {k}
  /\ holder' = [holder EXCEPT ![k] = u]
  /\ pc' = [pc EXCEPT ![u] = "claimed"]
  /\ UNCHANGED <<serverVars, value, aged, key, got, delta, stamp, exportVars>>

EntryLimitReached(u) ==
  /\ pc[u] = "update"
  /\ key[u] \notin tracked
  /\ Cardinality(tracked) >= MaxCounterEntries
  /\ Return(u)
  /\ UNCHANGED <<serverVars, entryVars, exportVars>>

SkipBusy(u) ==
  /\ pc[u] = "update"
  /\ key[u] \in tracked
  /\ holder[key[u]] # None
  /\ Return(u)
  /\ UNCHANGED <<serverVars, entryVars, exportVars>>

(* Mutant: a reset adds the old value again. *)
DeltaKeepsOld(old, new) == IF new >= old THEN new - old ELSE old

(* lastSeen is refreshed and the delta computed from the recorded value;   *)
(* a smaller value is a reset of the server and counts in full.            *)
DeltaOf(old, new) == IF new >= old THEN new - old ELSE new

ComputeDelta(u) ==
  LET k == key[u] IN
  /\ pc[u] = "claimed"
  /\ got[u] >= value[k] \/ got[u] < MaxReasonableCounterDelta
  /\ aged' = [aged EXCEPT ![k] = FALSE]
  /\ delta' = [delta EXCEPT ![u] = DeltaOf(value[k], got[u])]
  /\ pc' = [pc EXCEPT ![u] = "record"]
  /\ UNCHANGED <<serverVars, tracked, value, holder, key, got, stamp, exportVars>>

SuspiciousReset(u) ==
  LET k == key[u] IN
  /\ pc[u] = "claimed"
  /\ got[u] < value[k] /\ got[u] >= MaxReasonableCounterDelta
  /\ aged' = [aged EXCEPT ![k] = FALSE]
  /\ holder' = [holder EXCEPT ![k] = None]
  /\ Return(u)
  /\ UNCHANGED <<serverVars, tracked, value, exportVars>>

(* The counter is kept up to this bound, which is past every count of the  *)
(* server: beyond it nothing but "too much" is told apart.                 *)
TotalBound(k) == MaxServed[k] + 1

Add(k, d) ==
  IF total[k] + d > TotalBound(k) THEN TotalBound(k) ELSE total[k] + d

(* Mutant: the flag is not released. *)
RecordWithoutRelease(u) ==
  LET k == key[u] IN
  /\ pc[u] = "record"
  /\ value' = [value EXCEPT ![k] = got[u]]
  /\ total' = [total EXCEPT ![k] = Add(k, delta[u])]
  /\ Return(u)
  /\ UNCHANGED <<serverVars, tracked, aged, holder, recordedAt, inverted,
                 forgotten>>

(* The value is stored, updateFunc adds the delta, and the deferred store  *)
(* releases the flag.                                                      *)
RecordValue(u) ==
  LET k == key[u] IN
  /\ pc[u] = "record"
  /\ value' = [value EXCEPT ![k] = got[u]]
  /\ total' = [total EXCEPT ![k] = Add(k, delta[u])]
  /\ recordedAt' = [recordedAt EXCEPT ![k] = stamp[u]]
  /\ inverted' = [inverted EXCEPT ![k] = @ \/ Earlier(stamp[u], recordedAt[k])]
  /\ holder' = [holder EXCEPT ![k] = None]
  /\ Return(u)
  /\ UNCHANGED <<serverVars, tracked, aged, forgotten>>

-----------------------------------------------------------------------------
(* cleanupOldCountersSync, one critical section of counterMutex. *)

(* Mutant: the cleanup does not try to claim the flag. *)
DeletableIgnoringFlag(k) == k \in tracked /\ aged[k]

Deletable(k) == k \in tracked /\ holder[k] = None /\ aged[k]

CleanupOldCounters ==
  /\ \E k \in Keys : Deletable(k)
  /\ tracked' = {k \in tracked : ~Deletable(k)}
  /\ value' = [k \in Keys |-> IF Deletable(k) THEN 0 ELSE value[k]]
  /\ aged' = [k \in Keys |-> aged[k] /\ ~Deletable(k)]
  /\ forgotten' = [k \in Keys |-> forgotten[k] \/ Deletable(k)]
  /\ UNCHANGED <<serverVars, holder, updaterVars, total, recordedAt, inverted>>

-----------------------------------------------------------------------------
Update(u) ==
  \/ Claim(u) \/ EntryLimitReached(u) \/ SkipBusy(u)
  \/ ComputeDelta(u) \/ SuspiciousReset(u)
  \/ RecordValue(u)

Next ==
  \/ \E k \in Keys : ServerCounts(k) \/ RetentionElapses(k)
  \/ ServerRestarts
  \/ \E u \in Updaters, k \in Keys : ReadCounter(u, k)
  \/ \E u \in Updaters : Update(u)
  \/ CleanupOldCounters

Spec == Init /\ [][Next]_counterVars

(* Every group is collected on every tick, the steps of a collector are    *)
(* scheduled, and a server that can be reached answers some searches.      *)
Fairness ==
  /\ \A u \in Updaters, k \in Keys :
       SF_counterVars(ReadCounter(u, k))
  /\ \A u \in Updaters : WF_counterVars(Update(u))

FairSpec == Spec /\ Fairness

-----------------------------------------------------------------------------
(* Types of the entries, the collectors and the exported counters. *)
TypeOK ==
  /\ server \in [Keys -> Nat]
  /\ served \in [Keys -> Nat]
  /\ restarts \in 0..MaxRestarts
  /\ tracked \subseteq Keys /\ IsFiniteSet(tracked)
  /\ Cardinality(tracked) <= MaxCounterEntries
  /\ value \in [Keys -> Nat]
  /\ aged \in [Keys -> BOOLEAN]
  /\ holder \in [Keys -> Updaters \cup {None}]
  /\ pc \in [Updaters -> {"idle", "update", "claimed", "record"}]
  /\ key \in [Updaters -> Keys \cup {None}]
  /\ got \in [Updaters -> Nat]
  /\ delta \in [Updaters -> Nat]
  /\ stamp \in [Updaters -> Moments]
  /\ total \in [Keys -> Nat]
  /\ recordedAt \in [Keys -> Moments]
  /\ inverted \in [Keys -> BOOLEAN]
  /\ forgotten \in [Keys -> BOOLEAN]

Modifying(u) == pc[u] \in {"claimed", "record"}

(* counter_management.go:116: an updater that claimed the flag of an entry *)
(* is alone on it, and the cleanup does not delete the entry under it; the *)
(* flag of an entry nobody modifies is free.                               *)
EntryAliveWhileModified ==
  /\ \A u \in Updaters :
       Modifying(u) => key[u] \in tracked /\ holder[key[u]] = u
  /\ \A k \in tracked :
       holder[k] # None => Modifying(holder[k]) /\ key[holder[k]] = k

(* Whatever is skipped, reset or restarted, a recorded value was exported: *)
(* the counter is at least the value of the entry, so that no later delta  *)
(* can leave anything out.                                                 *)
RecordedIsExported == \A k \in Keys : total[k] >= value[k]

(* An updater that is about to record has the delta to the value that the  *)
(* entry still has, and a key without an entry is one just created.        *)
DeltaIsCurrent ==
  /\ \A u \in Updaters : pc[u] # "idle" => key[u] \in Keys
  /\ \A u \in Updaters :
       pc[u] = "record" => delta[u] = DeltaOf(value[key[u]], got[u])
  /\ \A k \in Keys \ tracked : value[k] = 0 /\ holder[k] = None

(* The counter showed v at the moment s and w at the later moment t: they  *)
(* differ by what was counted in between, or the server has restarted and  *)
(* counted at most that since.                                             *)
Continues(v, s, w, t) ==
  /\ s.served <= t.served /\ s.restarts <= t.restarts
  /\ s.restarts = t.restarts => v + t.served = w + s.served
  /\ s.restarts < t.restarts => w + s.served <= t.served

(* v and w were read at s and t, in either order. *)
Compatible(v, s, w, t) == Continues(v, s, w, t) \/ Continues(w, t, v, s)

(* Every value in a collector's hand, and that of every entry that was     *)
(* never forgotten, is what the server showed at some moment of the past.  *)
PastReading(v, s, k) ==
  Continues(0, Start, v, s) /\ Continues(v, s, server[k], Clock(k))
ReadingsArePast ==
  /\ \A k \in Keys : /\ served[k] <= MaxServed[k]
                     /\ Continues(0, Start, server[k], Clock(k))
                     /\ ~forgotten[k] => PastReading(value[k], recordedAt[k], k)
  /\ \A u \in Updaters :
       pc[u] # "idle" =>
         /\ PastReading(got[u], stamp[u], key[u])
         /\ ~forgotten[key[u]] => Compatible(value[key[u]], recordedAt[key[u]],
                                             got[u], stamp[u])
  /\ \A u, w \in Updaters :
       (pc[u] # "idle" /\ pc[w] # "idle" /\ key[u] = key[w]) =>
         Compatible(got[u], stamp[u], got[w], stamp[w])

(* Undisturbed, the counter is at most what had been counted when its last *)
(* value was read, and exactly that value if the server never restarted.   *)
Disturbed(k) == inverted[k] \/ forgotten[k]
ExportFollowsReadings ==
  \A k \in Keys : ~Disturbed(k) =>
    /\ total[k] <= recordedAt[k].served
    /\ restarts = 0 => total[k] = value[k]

(* The inductive invariant of the counters: the protocol of the flag, by   *)
(* which an entry that is being modified is alone and alive, the readings  *)
(* in flight, and what was exported of those recorded.                     *)
CounterInv ==
  /\ TypeOK
  /\ EntryAliveWhileModified
  /\ RecordedIsExported
  /\ DeltaIsCurrent
  /\ ReadingsArePast
  /\ ExportFollowsReadings

(* The counter runs ahead of the operations the server counted only when a *)
(* collector recorded an older value over a newer one, or the cleanup      *)
(* deleted an entry that was collected again; neither a restart of the     *)
(* server nor colliding updates count anything twice.                      *)
OvercountExplained ==
  \A k \in Keys : total[k] > served[k] => Disturbed(k)

(* Without a restart, an inversion or a deletion the export is exact: at   *)
(* rest the counter shows precisely the value last recorded.               *)
ExactWhenUndisturbed ==
  \A k \in tracked :
    (holder[k] = None /\ restarts = 0 /\ ~Disturbed(k)) => total[k] = value[k]

(* An update that was skipped is caught up: once the server is quiet its   *)
(* value is recorded, unless the map is full or the value is one that      *)
(* counter_management.go:173 takes for a suspicious reset, which freezes   *)
(* the counter until the server has passed the old value again.            *)
SkippedUpdateCaughtUp ==
  []<>(\A k \in Keys :
         \/ k \in tracked /\ value[k] = server[k]
         \/ k \notin tracked /\ Cardinality(tracked) >= MaxCounterEntries
         \/ k \in tracked /\ server[k] < value[k]
              /\ server[k] >= MaxReasonableCounterDelta)
=============================================================================
