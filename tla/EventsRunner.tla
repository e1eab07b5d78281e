---------------------------- MODULE EventsRunner ----------------------------
(***************************************************************************)
(* The loop and the output of the events stream: runner.go and emitter.go  *)
(* of pkg/events.  What a tick reads is the subject of AccesslogScan; here *)
(* a tick emits some events, each one a write through the file rotator.    *)
(***************************************************************************)
EXTENDS Naturals

CONSTANTS
  Daily,    \* the path of the output has the day in it
  NoFile,   \* fileRotator.file = nil
  MaxDay    \* bound: days that pass

ASSUME RunnerAssumption ==
  Daily \in BOOLEAN /\ MaxDay \in Nat /\ NoFile \notin 0..MaxDay

Days == 0..MaxDay

VARIABLES
  runner,        \* where the goroutine of the runner is
  runnerStop,    \* Runner.stop is closed
  eventsClient,  \* "absent", "open" or "closed"
  day,           \* the clock
  file           \* the day that the open file is of, or NoFile

runnerVars == <<runner, runnerStop, eventsClient, day, file>>

RunnerInit ==
  /\ runner = "off" /\ runnerStop = FALSE
  /\ eventsClient = "absent"
  /\ day = 0 /\ file = NoFile

NextDay ==
  /\ day < MaxDay
  /\ day' = day + 1
  /\ UNCHANGED <<runner, runnerStop, eventsClient, file>>

(* The initial delay is over, or the ticker fires. *)
RunnerTick ==
  /\ runner \in {"delay", "wait"}
  /\ runner' = "scan"
  /\ UNCHANGED <<runnerStop, eventsClient, day, file>>

(* rollIfNeeded: an open that fails leaves no file. *)
RollIfNeeded ==
  IF file # NoFile /\ (~Daily \/ file = day) THEN UNCHANGED file
  ELSE file' \in {day, NoFile}

(* Emit: the event is lost if the file cannot be opened. *)
Emit ==
  /\ runner = "scan"
  /\ RollIfNeeded
  /\ UNCHANGED <<runner, runnerStop, eventsClient, day>>

(* The scan is over, or a search failed. *)
EndTick ==
  /\ runner = "scan"
  /\ runner' = "wait"
  /\ UNCHANGED <<runnerStop, eventsClient, day, file>>

(* The select takes the closed stop channel. *)
RunnerReturns ==
  /\ runner \in {"delay", "wait"} /\ runnerStop
  /\ runner' = "done"
  /\ UNCHANGED <<runnerStop, eventsClient, day, file>>

-----------------------------------------------------------------------------
RunnerTypeOK ==
  /\ runner \in {"off", "delay", "wait", "scan", "done"}
  /\ runnerStop \in BOOLEAN
  /\ eventsClient \in {"absent", "open", "closed"}
  /\ day \in Days /\ file \in Days \cup {NoFile}
=============================================================================
