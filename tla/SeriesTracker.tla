---------------------------- MODULE SeriesTracker ----------------------------
(***************************************************************************)
(* accesslogSeriesTracker of pkg/exporter/accesslog_tracker.go: the label  *)
(* tuples that a CounterVec may hold.  Inc decides under the mutex and     *)
(* increments the series after releasing it; Sweep forgets expired tuples  *)
(* under the mutex and deletes their series after releasing it.            *)
(***************************************************************************)
EXTENDS Naturals, FiniteSets

CONSTANTS
  Streams,                  \* one tracker for each
  Keys,                     \* label tuples
  Writers,                  \* goroutines that call Inc
  NoKey,
  MaxAccesslogSeriesPerVec  \* maxEntries of a tracker

ASSUME TrackerAssumption ==
  /\ NoKey \notin Keys /\ Writers # {}
  /\ MaxAccesslogSeriesPerVec \in Nat

VARIABLES
  seen,     \* tuples of each tracker
  stale,    \* those whose lastSeen is older than AccesslogSeriesTTL
  series,   \* tuples that have a series in the vector
  inc,      \* of each writer: the tuple admitted and not yet incremented
  doomed,   \* toDelete of the sweep in progress
  overtaken \* history: tuples whose series a sweep deleted after readmission

trackerVars == <<seen, stale, series, inc, doomed, overtaken>>

TrackerInit ==
  /\ seen = [s \in Streams |-> {}]
  /\ stale = [s \in Streams |-> {}]
  /\ series = [s \in Streams |-> {}]
  /\ inc = [w \in Writers |-> NoKey]
  /\ doomed = [s \in Streams |-> {}]
  /\ overtaken = [s \in Streams |-> {}]

HasRoom(s, k) ==
  k \in seen[s] \/ Cardinality(seen[s]) < MaxAccesslogSeriesPerVec

(* Inc up to the release of the mutex, for a tuple that is admitted. *)
IncAdmit(w, s, k) ==
  /\ HasRoom(s, k)
  /\ seen' = [seen EXCEPT ![s] = @ \cup {k}]
  /\ stale' = [stale EXCEPT ![s] = @ \ {k}]
  /\ inc' = [inc EXCEPT ![w] = k]
  /\ UNCHANGED <<series, doomed, overtaken>>

(* Inc of a tuple that the cap refuses. *)
IncDrop(s, k) == ~HasRoom(s, k) /\ UNCHANGED trackerVars

(* vec.With(labels).Inc(), after the mutex was released. *)
IncSeries(w, s) ==
  /\ inc[w] # NoKey
  /\ series' = [series EXCEPT ![s] = @ \cup {inc[w]}]
  /\ overtaken' = [overtaken EXCEPT ![s] = @ \ {inc[w]}]
  /\ inc' = [inc EXCEPT ![w] = NoKey]
  /\ UNCHANGED <<seen, stale, doomed>>

(* AccesslogSeriesTTL passes.  It is an hour: no Inc is that slow. *)
TTLElapses(s, k) ==
  /\ k \in seen[s] \ stale[s]
  /\ \A w \in Writers : inc[w] # k
  /\ stale' = [stale EXCEPT ![s] = @ \cup {k}]
  /\ UNCHANGED <<seen, series, inc, doomed, overtaken>>

(* Mutant: the tuples are forgotten and their series are kept. *)
SweepKeepsSeries(s) ==
  /\ stale[s] # {} /\ doomed[s] = {}
  /\ seen' = [seen EXCEPT ![s] = @ \ stale[s]]
  /\ stale' = [stale EXCEPT ![s] = {}]
  /\ UNCHANGED <<series, inc, doomed, overtaken>>

(* Sweep up to the release of the mutex. *)
Sweep(s) ==
  /\ stale[s] # {} /\ doomed[s] = {}
  /\ doomed' = [doomed EXCEPT ![s] = stale[s]]
  /\ seen' = [seen EXCEPT ![s] = @ \ stale[s]]
  /\ stale' = [stale EXCEPT ![s] = {}]
  /\ UNCHANGED <<series, inc, overtaken>>

(* vec.Delete(entry.labels) for one of the tuples. *)
SweepDelete(s, k) ==
  /\ k \in doomed[s]
  /\ doomed' = [doomed EXCEPT ![s] = @ \ {k}]
  /\ series' = [series EXCEPT ![s] = @ \ {k}]
  /\ overtaken' = [overtaken EXCEPT ![s] =
                     IF k \in seen[s] THEN @ \cup {k} ELSE @]
  /\ UNCHANGED <<seen, stale, inc>>

SweepStep ==
  \E s \in Streams :
    \/ Sweep(s)
    \/ \E k \in Keys : TTLElapses(s, k) \/ SweepDelete(s, k)

-----------------------------------------------------------------------------
TrackerTypeOK ==
  /\ seen \in [Streams -> SUBSET Keys]
  /\ \A s \in Streams : IsFiniteSet(seen[s])
  /\ stale \in [Streams -> SUBSET Keys]
  /\ series \in [Streams -> SUBSET Keys]
  /\ inc \in [Writers -> Keys \cup {NoKey}]
  /\ doomed \in [Streams -> SUBSET Keys]
  /\ overtaken \in [Streams -> SUBSET Keys]

(* README.md:703: a series exists only for a tuple that is tracked or that *)
(* a sweep is about to delete, so that, between sweeps, a vector holds at  *)
(* most MaxAccesslogSeriesPerVec series, whatever the interleaving of the  *)
(* two halves of Inc and of Sweep.                                         *)
SeriesBounded ==
  \A s \in Streams :
    /\ series[s] \subseteq seen[s] \cup doomed[s]
    /\ Cardinality(seen[s]) <= MaxAccesslogSeriesPerVec
=============================================================================
