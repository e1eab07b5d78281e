--------------------------- MODULE ExporterProcess ---------------------------
(***************************************************************************)
(* The process of cmd/main.go: it starts the exporter, the events runner   *)
(* and the replication poller in this order, serves HTTP until a signal or *)
(* a failure of the listener, and takes everything down in the reverse     *)
(* order by its deferred calls.  The runner and the poller are goroutines  *)
(* of their own; the poller borrows the client of the exporter.            *)
(***************************************************************************)
EXTENDS ReplicationPoller, EventsRunner

VARIABLES
  main,      \* where main is
  client,    \* the client of the exporter: "absent", "open", "closed"
  handlers,  \* HTTP handlers that run, at most one is modelled
  forced     \* history: Shutdown gave up before the handlers were done

mainVars == <<main, client, handlers, forced>>
vars == <<mainVars, pollerVars, runnerVars>>

Init ==
  /\ main = "exporter" /\ client = "absent"
  /\ handlers = 0 /\ forced = FALSE
  /\ PollerInit /\ RunnerInit

-----------------------------------------------------------------------------
(* NewOpenLDAPExporter; its loop is the subject of CollectionCycle. *)
StartExporter ==
  /\ main = "exporter"
  /\ client' = "open" /\ main' = "events"
  /\ UNCHANGED <<handlers, forced, pollerVars, runnerVars>>

(* The events stream is disabled. *)
SkipEvents ==
  /\ main = "events"
  /\ main' = "poller"
  /\ UNCHANGED <<client, handlers, forced, pollerVars, runnerVars>>

(* NewEventsLDAPClient, NewRunner and Start. *)
StartEvents ==
  /\ main = "events"
  /\ main' = "poller"
  /\ eventsClient' = "open" /\ file' = day /\ runner' = "delay"
  /\ UNCHANGED <<client, handlers, forced, pollerVars, runnerStop, day>>

(* NewRunner fails: its output cannot be opened. *)
EventsFail ==
  /\ main = "events"
  /\ main' = "poller"
  /\ eventsClient' = "closed"
  /\ UNCHANGED <<client, handlers, forced, pollerVars, runner, runnerStop, day, file>>

(* The poller is enabled, or it is not. *)
StartPoller ==
  /\ main = "poller"
  /\ main' = "serve"
  /\ loop' \in {"delay", "off"}
  /\ UNCHANGED <<client, handlers, forced, serverVars, pollerStop, peerVars,
                 findVars, roundVars, seriesVars, runnerVars>>

RequestBegins ==
  /\ main = "serve" /\ handlers = 0
  /\ handlers' = 1
  /\ UNCHANGED <<main, client, forced, pollerVars, runnerVars>>

RequestEnds ==
  /\ handlers = 1
  /\ handlers' = 0
  /\ UNCHANGED <<main, client, forced, pollerVars, runnerVars>>

(* A signal, or the error of ListenAndServe: server.Shutdown is called. *)
BeginShutdown ==
  /\ main = "serve"
  /\ main' = "shutdown"
  /\ UNCHANGED <<client, handlers, forced, pollerVars, runnerVars>>

(* server.Shutdown returns: the handlers are done, or the timeout passed. *)
EndShutdown ==
  /\ main = "shutdown"
  /\ main' = "stopPoller"
  /\ forced' = (handlers > 0)
  /\ UNCHANGED <<client, handlers, pollerVars, runnerVars>>

-----------------------------------------------------------------------------
(* Poller.Stop: stop is closed, done is awaited, the clients are closed. *)
ClosePollerStop ==
  /\ main = "stopPoller" /\ ~pollerStop
  /\ pollerStop' = TRUE
  /\ UNCHANGED <<mainVars, serverVars, loop, peerVars, findVars, roundVars,
                 seriesVars, runnerVars>>

(* Mutant: Stop does not wait for the loop. *)
PollerNotAwaited == pollerStop

PollerOver == loop = "off" \/ (pollerStop /\ loop = "done")

PollerStopped ==
  /\ main = "stopPoller" /\ PollerOver
  /\ open' = IF loop = "off" THEN open ELSE open \ peers
  /\ main' = "stopEvents"
  /\ UNCHANGED <<client, handlers, forced, serverVars, loop, pollerStop, peers,
                 findVars, roundVars, seriesVars, runnerVars>>

(* Runner.Stop, then eventsClient.Close. *)
CloseRunnerStop ==
  /\ main = "stopEvents" /\ ~runnerStop
  /\ runnerStop' = TRUE
  /\ UNCHANGED <<mainVars, pollerVars, runner, eventsClient, day, file>>

(* Mutant: Stop does not wait for the loop. *)
RunnerNotAwaited == runnerStop

RunnerOver == runner = "off" \/ (runnerStop /\ runner = "done")

RunnerStopped ==
  /\ main = "stopEvents" /\ RunnerOver
  /\ file' = NoFile
  /\ eventsClient' = IF runner = "off" THEN eventsClient ELSE "closed"
  /\ main' = "closeExporter"
  /\ UNCHANGED <<client, handlers, forced, pollerVars, runner, runnerStop, day>>

(* exp.Close, and the end of main. *)
CloseExporter ==
  /\ main = "closeExporter"
  /\ client' = "closed" /\ main' = "exited"
  /\ UNCHANGED <<handlers, forced, pollerVars, runnerVars>>

-----------------------------------------------------------------------------
Running == main # "exited"

MainStep ==
  \/ StartExporter \/ SkipEvents \/ StartEvents \/ EventsFail \/ StartPoller
  \/ EndShutdown \/ ClosePollerStop \/ PollerStopped
  \/ CloseRunnerStop \/ RunnerStopped \/ CloseExporter

PollerStep == Running /\ PollerWorks /\ UNCHANGED <<mainVars, runnerVars>>
PollerStops == Running /\ PollerReturns /\ UNCHANGED <<mainVars, runnerVars>>
RunnerEnds == Running /\ EndTick /\ UNCHANGED <<mainVars, pollerVars>>
RunnerStops == Running /\ RunnerReturns /\ UNCHANGED <<mainVars, pollerVars>>

Next ==
  \/ MainStep
  \/ BeginShutdown \/ RequestBegins
  \/ Running /\ RequestEnds
  \/ PollerStep \/ PollerStops
  \/ Running /\ PollerTick /\ UNCHANGED <<mainVars, runnerVars>>
  \/ Running /\ DirectoryStep /\ UNCHANGED <<mainVars, runnerVars>>
  \/ RunnerEnds \/ RunnerStops
  \/ Running /\ (RunnerTick \/ Emit \/ NextDay) /\ UNCHANGED <<mainVars, pollerVars>>

Spec == Init /\ [][Next]_vars

(* main runs on, requests to the directory end by their timeouts, and a    *)
(* select between a ticker and a closed channel does not take the ticker   *)
(* for ever.  A signal need not come.                                      *)
Fairness ==
  /\ WF_vars(MainStep)
  /\ WF_vars(PollerStep) /\ SF_vars(PollerStops)
  /\ SF_vars(RunnerEnds) /\ SF_vars(RunnerStops)

FairSpec == Spec /\ Fairness

-----------------------------------------------------------------------------
(* Types of the three parts. *)
TypeOK ==
  /\ PollerTypeOK /\ RunnerTypeOK
  /\ main \in {"exporter", "events", "poller", "serve", "shutdown",
               "stopPoller", "stopEvents", "closeExporter", "exited"}
  /\ client \in {"absent", "open", "closed"}
  /\ handlers \in 0..1 /\ forced \in BOOLEAN

(* main.go:138-181: how far main is decides who may run and what is open.  *)
(* The poller runs from its start to the end of its Stop and has a client  *)
(* open for each of its peers until then; the runner has its own client    *)
(* until it was awaited; a handler outlives Shutdown only by the timeout.  *)
OwnersInOrder ==
  /\ client = "absent" <=> main = "exporter"
  /\ client = "closed" <=> main = "exited"
  /\ main \in {"exporter", "events", "poller"} => loop = "off"
  /\ loop \notin {"off", "done"} => main \in {"serve", "shutdown", "stopPoller"}
  /\ open = IF main \in {"stopEvents", "closeExporter", "exited"} THEN {} ELSE peers
  /\ runner \in {"delay", "wait", "scan"} =>
       /\ eventsClient = "open"
       /\ main \in {"poller", "serve", "shutdown", "stopPoller", "stopEvents"}
  /\ runner = "off" => eventsClient # "open" /\ file = NoFile
  /\ main \in {"closeExporter", "exited"} => eventsClient # "open" /\ file = NoFile
  /\ handlers > 0 => main \in {"serve", "shutdown"} \/ forced

(* Types, the order of owners, and the poller: no series of a peer without *)
(* a client, an old lag only where a read failed, and what a round reads.  *)
ProcessInv == TypeOK /\ OwnersInOrder /\ PollerInv

(* main.go:147, poller.go:263: nobody works with a client that its owner   *)
(* has closed: the poller with that of the exporter, a read of the poller  *)
(* with that of a peer, the runner with its own, nor, unless Shutdown gave *)
(* up waiting, a handler with the exporter.                                *)
NoUseAfterClose ==
  /\ loop \in {"discover", "poll"} => client = "open"
  /\ loop = "poll" => pending \cap Peers \subseteq open
  /\ runner = "scan" => eventsClient = "open"
  /\ (handlers > 0 /\ client = "closed") => forced

(* main.go:181, emitter.go:204: a write to a closed emitter opens the file *)
(* again.  When main is over nothing is left open, whatever was started,   *)
(* failed to start, was discovered or was removed before.                  *)
NothingLeftOpen ==
  ~Running => open = {} /\ eventsClient # "open" /\ file = NoFile

(* main.go:261: once the shutdown has begun the process ends, wherever the *)
(* runner and the poller are.                                              *)
ShutdownCompletes == main = "shutdown" ~> main = "exited"
=============================================================================
