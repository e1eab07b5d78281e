---------------------------- MODULE AccesslogScan ----------------------------
(***************************************************************************)
(* The incremental scan of the accesslog (pkg/accesslog/accesslog.go) by   *)
(* its two consumers, the metric collector of                              *)
(* pkg/exporter/collectors_accesslog.go and the event collector of         *)
(* pkg/events/collector.go.  Each keeps a cursor of its own per stream and *)
(* neither touches the other's, so a behaviour has one of them.            *)
(*                                                                         *)
(* The metric collector is a task of the collection cycle: one that        *)
(* outlives its cycle runs beside the next one, and the mutex of the       *)
(* cursor keeps them apart.  The event collector is the loop of a runner.  *)
(***************************************************************************)
EXTENDS SeriesTracker, Sequences, FiniteSetsExt

CONSTANTS
  None,      \* the mutex of the cursor is free
  MaxOps     \* bound: operations on the server

\* The operations are numbered by their reqStart, which slapd keeps unique.
Ops == 1..MaxOps
Order == <<"bind", "write", "lock">>
\* A bind, a modification that the server rejected, an account that is
\* locked and one that is unlocked.
Kinds == {"bind", "denied", "lock", "unlock"}

ASSUME ScanAssumption ==
  /\ Streams = {Order[i] : i \in DOMAIN Order}
  /\ MaxOps \in Nat /\ None \notin Writers

VARIABLES
  consumer,  \* "metrics" or "events"
  begun,     \* operations begun on the server
  kind, key, \* of each operation: its type, its label tuple
  logged,    \* operations whose accesslog entry is written
  cursor, ready, \* accesslog.CursorState
  mu,        \* the scanner that holds the mutex of the cursor
  at,        \* of each scanner: the stream it is at, 0 when idle
  phase,     \* "search" or "emit"
  batch,     \* entries that are still to be emitted
  maxSeen,   \* highest reqStart of the result
  emitted,   \* history: <<stream, op>> handed on
  twice,     \* history: one was handed on again
  baseline,  \* history: entries that a first scan passed over
  late       \* history: entries written after the scan had passed them

logVars    == <<begun, kind, key, logged>>
cursorVars == <<cursor, ready, mu>>
scanVars   == <<at, phase, batch, maxSeen>>
histVars   == <<emitted, twice, baseline, late>>
vars == <<consumer, logVars, cursorVars, scanVars, histVars, trackerVars>>

Scanners == IF consumer = "metrics" THEN Writers ELSE {CHOOSE w \in Writers : TRUE}

\* The base filters: a modification of pwdAccountLockedTime is in two streams.
StreamsFor(t) ==
  CASE t = "bind"               -> {"bind"}
    [] t = "denied"             -> {"write"}
    [] t \in {"lock", "unlock"} -> {"write", "lock"}
    [] OTHER                    -> {}

StreamsOf(n) == StreamsFor(kind[n])

(* What a consumer makes of an entry that it should emit: the metrics do   *)
(* not count an unlock, the events leave out a rejected modification.      *)
Relevant(s, n) ==
  /\ consumer = "metrics" => ~(s = "lock" /\ kind[n] = "unlock")
  /\ consumer = "events" => kind[n] # "denied"

Init ==
  /\ consumer \in {"metrics", "events"}
  /\ begun = 0
  /\ kind = [n \in Ops |-> None]
  /\ key = [n \in Ops |-> NoKey]
  /\ logged = {}
  /\ cursor = [s \in Streams |-> 0]   \* NewCursorState: now
  /\ ready = [s \in Streams |-> FALSE]
  /\ mu = None
  /\ at = [w \in Writers |-> 0]
  /\ phase = [w \in Writers |-> "search"]
  /\ batch = [w \in Writers |-> {}]
  /\ maxSeen = [w \in Writers |-> 0]
  /\ emitted = {} /\ twice = FALSE /\ baseline = {} /\ late = {}
  /\ TrackerInit

-----------------------------------------------------------------------------
(* The server: reqStart is the time an operation begins, its entry appears *)
(* when it ends, so that entries are not written in the order of reqStart. *)
BeginOp ==
  /\ begun < MaxOps
  /\ begun' = begun + 1
  /\ UNCHANGED <<consumer, kind, key, logged, cursorVars, scanVars, histVars,
                 trackerVars>>

\* A scan of the stream has passed reqStart n, or will when it is through.
Passed(s, n) ==
  \/ cursor[s] >= n
  \/ \E w \in Writers : /\ at[w] > 0 /\ Order[at[w]] = s
                        /\ phase[w] = "emit" /\ maxSeen[w] >= n

\* Only the metric collector has labels.
Labels == IF consumer = "metrics" THEN Keys ELSE {NoKey}

LogOp(n) ==
  /\ n <= begun /\ n \notin logged
  /\ logged' = logged \cup {n}
  /\ \E t \in Kinds, k \in Labels :
       /\ kind' = [kind EXCEPT ![n] = t]
       /\ key' = [key EXCEPT ![n] = k]
       /\ late' = late \cup
            {<<s, n>> : s \in {x \in StreamsFor(t) : Passed(x, n)}}
  /\ UNCHANGED <<consumer, begun, cursorVars, scanVars, emitted,
                 twice, baseline, trackerVars>>

-----------------------------------------------------------------------------
(* Mutant: the mutex of the cursor is not taken. *)
CursorShared == TRUE

CursorFree == mu = None

(* collectAccesslogMetrics, or a tick of the events runner. *)
BeginScan(w) ==
  /\ at[w] = 0
  /\ CursorFree
  /\ mu' = w
  /\ at' = [at EXCEPT ![w] = 1]
  /\ UNCHANGED <<consumer, logVars, cursor, ready, phase, batch, maxSeen,
                 histVars, trackerVars>>

(* The scan goes on to the next stream, or is over. *)
NextStream(w) ==
  /\ at' = [at EXCEPT ![w] = (@ + 1) % (Len(Order) + 1)]
  /\ mu' = IF at[w] = Len(Order) THEN None ELSE mu

EndScan(w) ==
  /\ at' = [at EXCEPT ![w] = 0]
  /\ mu' = None

(* BuildIncrementalFilter: reqStart >= cursor. *)
Matching(s) == {n \in logged : s \in StreamsOf(n) /\ n >= cursor[s]}

(* ShouldEmit *)
ShouldEmit(s, n) == ready[s] /\ n # cursor[s]

MaxReqStart(s, result) == Max(result \cup {cursor[s]})

SearchAnswered(w) ==
  /\ at[w] > 0 /\ phase[w] = "search"
  /\ LET s == Order[at[w]]
         result == Matching(s) IN
     /\ batch' = [batch EXCEPT ![w] =
                    {n \in result : ShouldEmit(s, n) /\ Relevant(s, n)}]
     /\ maxSeen' = [maxSeen EXCEPT ![w] = MaxReqStart(s, result)]
     /\ baseline' = IF ready[s] THEN baseline
                    ELSE baseline \cup {<<s, n>> : n \in result}
  /\ phase' = [phase EXCEPT ![w] = "emit"]
  /\ UNCHANGED <<consumer, logVars, cursorVars, at, emitted, twice, late,
                 trackerVars>>

(* Mutant: a failed search moves the cursor too. *)
FailureAdvances(w) ==
  /\ at[w] > 0 /\ phase[w] = "search"
  /\ cursor' = [cursor EXCEPT ![Order[at[w]]] = begun]
  /\ ready' = [ready EXCEPT ![Order[at[w]]] = TRUE]
  /\ NextStream(w)
  /\ UNCHANGED <<consumer, logVars, phase, batch, maxSeen, histVars,
                 trackerVars>>

(* Mutant: the metric collector gives up the tick as well. *)
FailureEndsScan(w) ==
  /\ at[w] > 0 /\ phase[w] = "search"
  /\ EndScan(w)
  /\ UNCHANGED <<consumer, logVars, cursor, ready, phase, batch, maxSeen,
                 histVars, trackerVars>>

(* The metric collector goes on to the next stream after a failed search,  *)
(* the event collector gives up the tick.                                  *)
SearchFails(w) ==
  /\ at[w] > 0 /\ phase[w] = "search"
  /\ IF consumer = "metrics" THEN NextStream(w) ELSE EndScan(w)
  /\ UNCHANGED <<consumer, logVars, cursor, ready, phase, batch, maxSeen,
                 histVars, trackerVars>>

(* One entry is handed on: to the tracker of the stream, or to the emitter *)
(* of the runner.                                                          *)
EmitEntry(w, n) ==
  /\ phase[w] = "emit" /\ inc[w] = NoKey
  /\ n \in batch[w]
  /\ LET s == Order[at[w]] IN
     /\ batch' = [batch EXCEPT ![w] = @ \ {n}]
     /\ emitted' = emitted \cup {<<s, n>>}
     /\ twice' = (twice \/ <<s, n>> \in emitted)
     /\ \/ consumer = "metrics" /\ IncAdmit(w, s, key[n])
        \/ consumer = "metrics" /\ IncDrop(s, key[n])
        \/ consumer = "events" /\ UNCHANGED trackerVars
  /\ UNCHANGED <<consumer, logVars, cursorVars, at, phase, maxSeen, baseline,
                 late>>

CountEntry(w) ==
  /\ phase[w] = "emit"
  /\ IncSeries(w, Order[at[w]])
  /\ UNCHANGED <<consumer, logVars, cursorVars, scanVars, histVars>>

(* CursorState.Advance *)
Advance(w) ==
  /\ phase[w] = "emit" /\ inc[w] = NoKey /\ batch[w] = {}
  /\ cursor' = [cursor EXCEPT ![Order[at[w]]] = maxSeen[w]]
  /\ ready' = [ready EXCEPT ![Order[at[w]]] = TRUE]
  /\ phase' = [phase EXCEPT ![w] = "search"]
  /\ maxSeen' = [maxSeen EXCEPT ![w] = 0]
  /\ NextStream(w)
  /\ UNCHANGED <<consumer, logVars, batch, histVars, trackerVars>>

-----------------------------------------------------------------------------
ScanStep(w) ==
  \/ SearchAnswered(w) \/ SearchFails(w)
  \/ \E n \in Ops : EmitEntry(w, n)
  \/ CountEntry(w) \/ Advance(w)

Next ==
  \/ BeginOp
  \/ \E n \in Ops : LogOp(n)
  \/ \E w \in Scanners : BeginScan(w) \/ ScanStep(w)
  \/ SweepStep /\ UNCHANGED <<consumer, logVars, cursorVars, scanVars, histVars>>

Spec == Init /\ [][Next]_vars

(* Ticks keep coming and scans make progress.                              *)
Progress ==
  /\ WF_vars(\E w \in Scanners : BeginScan(w))
  /\ WF_vars(\E w \in Scanners : ScanStep(w))

(* A search of the stream that is issued again and again is answered.      *)
Answers(s) ==
  \E w \in Scanners : at[w] > 0 /\ Order[at[w]] = s /\ SearchAnswered(w)

(* The bind stream may fail for good, and the metric collector goes on     *)
(* without it.  The event collector gets nowhere then, see BindFailsSpec:  *)
(* for it every stream is assumed to be answered.                          *)
Promised == IF consumer = "metrics" THEN Streams \ {"bind"} ELSE Streams

FairSpec ==
  Spec /\ Progress /\ \A s \in Streams : SF_vars(s \in Promised /\ Answers(s))

(* The bind stream may fail for good, whoever reads it.                    *)
BindFailsSpec == Spec /\ Progress /\ \A s \in Streams \ {"bind"} : SF_vars(Answers(s))

-----------------------------------------------------------------------------
(* Types of the cursor, the scanners and the tracker. *)
TypeOK ==
  /\ TrackerTypeOK
  /\ begun \in 0..MaxOps /\ logged \subseteq 1..begun
  /\ kind \in [Ops -> Kinds \cup {None}] /\ key \in [Ops -> Keys \cup {NoKey}]
  /\ cursor \in [Streams -> 0..begun]
  /\ ready \in [Streams -> BOOLEAN]
  /\ mu \in Writers \cup {None}
  /\ at \in [Writers -> 0..Len(Order)]
  /\ phase \in [Writers -> {"search", "emit"}]
  /\ batch \in [Writers -> SUBSET logged]
  /\ maxSeen \in [Writers -> 0..begun]

(* collectors_accesslog.go:51: the mutex of the cursor lets one scanner    *)
(* through, and a scanner has entries in hand only between the answer to   *)
(* its search and the advance of the cursor.                               *)
OneScanner ==
  \A w \in Writers :
    /\ at[w] > 0 => mu = w
    /\ phase[w] = "emit" => at[w] > 0
    /\ phase[w] = "search" => batch[w] = {} /\ inc[w] = NoKey

(* README.md:709: a tracked tuple has its series once its Inc is over.     *)
(* The one exception is a sweep that forgot the tuple and deletes the      *)
(* series after the tuple was admitted again.                              *)
TrackedHasSeries ==
  \A s \in Streams : \A k \in seen[s] :
    \/ k \in series[s] \cup overtaken[s]
    \/ \E w \in Writers : at[w] > 0 /\ Order[at[w]] = s /\ inc[w] = k

(* accesslog_tracker.go:79: between the halves of its Inc a tuple stays    *)
(* tracked, out of reach of the sweep.                                     *)
CountedIsTracked ==
  /\ consumer = "metrics" => \A n \in logged : key[n] \in Keys
  /\ \A w \in Writers : inc[w] # NoKey =>
       inc[w] \in seen[Order[at[w]]] \ stale[Order[at[w]]]

(* README.md:709: an entry is counted once, whatever overlaps.  It takes   *)
(* the mutex, the cursor and the skipped boundary entry together.          *)
EmittedOnce == ~twice

(* accesslog.go:150: the entries a cursor has passed without emitting them *)
(* are those of the first scan and those that were written after the scan  *)
(* that passed them; nothing else is lost.                                 *)
LossExplained ==
  \A n \in logged : \A s \in StreamsOf(n) :
    (ready[s] /\ n <= cursor[s] /\ Relevant(s, n)) =>
      <<s, n>> \in emitted \cup baseline \cup late

(* accesslog.go:143: the cursor moves forward only, to the highest entry   *)
(* of a result, and what was handed on is behind it or in the result that  *)
(* is being worked off.                                                    *)
CursorForward ==
  /\ \A s \in Streams : ~ready[s] => cursor[s] = 0
  /\ \A s \in Streams, n \in Ops : <<s, n>> \in emitted => Passed(s, n)
  /\ \A w \in Writers : phase[w] = "emit" => maxSeen[w] >= cursor[Order[at[w]]]

(* accesslog.go:139: while a result is worked off, what is left of it was  *)
(* not handed on before, and every entry up to its highest is in it, was   *)
(* handed on or has its excuse.                                            *)
ResultAccounted ==
  \A w \in Writers : phase[w] = "emit" =>
    LET s == Order[at[w]] IN
    /\ \A n \in batch[w] : n <= maxSeen[w] /\ <<s, n>> \notin emitted
    /\ \A n \in logged :
         (s \in StreamsOf(n) /\ n <= maxSeen[w] /\ Relevant(s, n)) =>
           n \in batch[w] \/ <<s, n>> \in emitted \cup baseline \cup late

(* Types, the trackers the metric collector writes through (series only    *)
(* for tracked tuples, and a series for each of them, while two scanners   *)
(* and the sweep are between the halves of their operations), and the      *)
(* account of the entries.  Inductive.                                     *)
ScanInv ==
  /\ TypeOK /\ OneScanner
  /\ SeriesBounded /\ CountedIsTracked /\ TrackedHasSeries
  /\ CursorForward /\ ResultAccounted /\ EmittedOnce /\ LossExplained

(* The relevant entries of these streams are dealt with.                   *)
Settled(streams) ==
  \A n \in logged : \A s \in StreamsOf(n) \cap streams :
    Relevant(s, n) => <<s, n>> \in emitted \cup baseline \cup late

(* collectors_accesslog.go:57: what was logged reaches its consumer after  *)
(* failed searches too, by the scans that follow - for the metric          *)
(* collector also while the searches of the bind stream fail for good, for *)
(* the event collector as long as each stream is answered now and then.    *)
EntriesReachConsumer == []<>Settled(Promised)

(* What README.md:463 says of the JSON events: a failure on one stream     *)
(* (bind / write / lock) does not freeze the others.                       *)
OtherStreamsNotFrozen == []<>(consumer = "events" => Settled(Streams \ {"bind"}))
=============================================================================
