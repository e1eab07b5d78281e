-------------------------- MODULE ReplicationPoller --------------------------
(***************************************************************************)
(* The replication peer poller of pkg/replication: on every tick it reads  *)
(* the peers from cn=config, brings its set of clients in line, reads the  *)
(* contextCSN of the local node and of every peer at the same time, and    *)
(* publishes reachability, CSN and lag of each peer.                       *)
(*                                                                         *)
(* One contextCSN component is modelled, the one that Master writes.       *)
(***************************************************************************)
EXTENDS Integers, FiniteSetsExt

CONSTANTS
  Peers,    \* URIs of peers
  Manual,   \* OPENLDAP_REPLICATION_PEERS
  Local,    \* the node of the exporter's own client
  Master,   \* the node that owns the component
  NoValue,  \* no such series, or no CSN in an answer
  Down,     \* an answer: the node could not be queried
  MaxCSN    \* bound: changes on the master

Nodes == Peers \cup {Local}
CSNs == 0..MaxCSN

ASSUME PollerAssumption ==
  /\ Local \notin Peers /\ Manual \subseteq Peers /\ Master \in Nodes
  /\ MaxCSN \in Nat /\ {NoValue, Down} \cap CSNs = {}

VARIABLES
  csn,        \* contextCSN on each node
  syncrepl,   \* providers that olcSyncrepl of the local node names
  loop,       \* where the goroutine of the poller is
  pollerStop, \* Poller.stop is closed
  peers,      \* Poller.peers: peers that have a client
  open,       \* peers whose client is not closed
  want, reliable, \* what discoverPeers returned
  pending,    \* sources of the round that have not answered
  read,       \* sourceResult of each source
  upSeries, csnSeries, lagSeries,
  atStart,    \* history: CSN of the master when the round began
  fresh       \* history: peers whose lag the last round wrote

serverVars == <<csn, syncrepl>>
peerVars   == <<peers, open>>
findVars   == <<want, reliable>>
roundVars  == <<pending, read, atStart>>
seriesVars == <<upSeries, csnSeries, lagSeries, fresh>>
pollerVars == <<serverVars, loop, pollerStop, peerVars, findVars, roundVars,
                seriesVars>>

NoRead == [n \in Nodes |-> NoValue]
NoSeries == [p \in Peers |-> NoValue]

PollerInit ==
  /\ csn = [n \in Nodes |-> 0]
  /\ syncrepl \in SUBSET Peers
  /\ loop = "off" /\ pollerStop = FALSE
  /\ peers = {} /\ open = {}
  /\ want = {} /\ reliable = FALSE
  /\ pending = {} /\ read = NoRead /\ atStart = 0
  /\ upSeries = NoSeries /\ csnSeries = NoSeries /\ lagSeries = NoSeries
  /\ fresh = {}

-----------------------------------------------------------------------------
(* The directory: the master is written, other nodes catch up, and an      *)
(* administrator edits olcSyncrepl.                                        *)
Write ==
  /\ csn[Master] < MaxCSN
  /\ csn' = [csn EXCEPT ![Master] = @ + 1]
  /\ UNCHANGED <<syncrepl, loop, pollerStop, peerVars, findVars, roundVars,
                 seriesVars>>

Replicate(n) ==
  /\ csn[n] < csn[Master]
  /\ csn' = [csn EXCEPT ![n] = csn[Master]]
  /\ UNCHANGED <<syncrepl, loop, pollerStop, peerVars, findVars, roundVars,
                 seriesVars>>

EditSyncrepl(p) ==
  /\ syncrepl' = IF p \in syncrepl THEN syncrepl \ {p} ELSE syncrepl \cup {p}
  /\ UNCHANGED <<csn, loop, pollerStop, peerVars, findVars, roundVars,
                 seriesVars>>

-----------------------------------------------------------------------------
(* discoverPeers; the read of cn=config may fail. *)
DiscoverPeers ==
  /\ loop = "discover"
  /\ \/ want' = Manual \cup syncrepl /\ reliable' = TRUE
     \/ want' = Manual /\ reliable' = FALSE
  /\ loop' = "add"
  /\ UNCHANGED <<serverVars, pollerStop, peerVars, roundVars, seriesVars>>

(* reconcilePeers, first loop. *)
AddPeers ==
  /\ loop = "add"
  /\ peers' = peers \cup want
  /\ open' = open \cup (want \ peers)
  /\ loop' = "remove"
  /\ UNCHANGED <<serverVars, pollerStop, findVars, roundVars, seriesVars>>

(* Mutant: what an unreliable discovery did not name is removed as well. *)
VanishedUnreliably == peers \ want

Vanished == IF reliable THEN peers \ want ELSE {}

(* Mutant: the series of the peer stay. *)
PruneNothing(p) == UNCHANGED seriesVars

PrunePeerMetrics(p) ==
  /\ upSeries' = [upSeries EXCEPT ![p] = NoValue]
  /\ csnSeries' = [csnSeries EXCEPT ![p] = NoValue]
  /\ lagSeries' = [lagSeries EXCEPT ![p] = NoValue]
  /\ fresh' = fresh \ {p}

(* reconcilePeers, second loop: close, delete, prune. *)
RemovePeer(p) ==
  /\ loop = "remove" /\ p \in Vanished
  /\ open' = open \ {p}
  /\ peers' = peers \ {p}
  /\ PrunePeerMetrics(p)
  /\ UNCHANGED <<serverVars, loop, pollerStop, findVars, roundVars>>

(* poll: one goroutine for each source. *)
BeginPoll ==
  /\ loop = "remove" /\ Vanished = {}
  /\ want' = {} /\ reliable' = FALSE
  /\ loop' = "poll"
  /\ pending' = peers \cup {Local}
  /\ atStart' = csn[Master]
  /\ UNCHANGED <<serverVars, pollerStop, peerVars, read, seriesVars>>

(* readCSN: the node is down; or it answers, and the search for its        *)
(* contextCSN fails, which leaves it up and without a value.               *)
ReadCSN(n) ==
  /\ loop = "poll" /\ n \in pending
  /\ pending' = pending \ {n}
  /\ \E answer \in {Down, NoValue, csn[n]} :
       read' = [read EXCEPT ![n] = answer]
  /\ UNCHANGED <<serverVars, loop, pollerStop, peerVars, findVars, atStart,
                 seriesVars>>

(* Mutant: only the peers make up the reference. *)
ReferenceOfPeers == Max(({read[n] : n \in Peers} \cap CSNs) \cup {0})

Reference == Max(({read[n] : n \in Nodes} \cap CSNs) \cup {0})

Lag(p) == Max({Reference - read[p], 0})

Up(p) == IF read[p] = Down THEN 0 ELSE 1

(* wg.Wait is over: the round is published. *)
Publish ==
  LET answered == {p \in peers : read[p] \in CSNs} IN
  /\ loop = "poll" /\ pending = {}
  /\ upSeries' = [p \in Peers |-> IF p \in peers THEN Up(p) ELSE upSeries[p]]
  /\ csnSeries' = [p \in Peers |->
       IF p \in answered THEN read[p] ELSE csnSeries[p]]
  /\ lagSeries' = [p \in Peers |->
       IF p \in answered THEN Lag(p) ELSE lagSeries[p]]
  /\ fresh' = answered
  /\ loop' = "wait"
  /\ UNCHANGED <<serverVars, pollerStop, peerVars, findVars, roundVars>>

-----------------------------------------------------------------------------
(* The initial delay is over, or the ticker fires.  The results of the     *)
(* last round, local to poll, were kept for the properties only.           *)
PollerTick ==
  /\ loop \in {"delay", "wait"}
  /\ loop' = "discover"
  /\ read' = NoRead /\ atStart' = 0
  /\ UNCHANGED <<serverVars, pollerStop, peerVars, findVars, pending,
                 seriesVars>>

(* Mutant: only the initial delay looks at the stop channel. *)
PollerReturnsAtFirst ==
  /\ loop = "delay" /\ pollerStop
  /\ loop' = "done"
  /\ UNCHANGED <<serverVars, pollerStop, peerVars, findVars, roundVars,
                 seriesVars>>

(* The select takes the closed stop channel. *)
PollerReturns ==
  /\ loop \in {"delay", "wait"} /\ pollerStop
  /\ loop' = "done"
  /\ UNCHANGED <<serverVars, pollerStop, peerVars, findVars, roundVars,
                 seriesVars>>

PollerWorks ==
  \/ DiscoverPeers \/ AddPeers \/ BeginPoll \/ Publish
  \/ \E p \in Peers : RemovePeer(p)
  \/ \E n \in Nodes : ReadCSN(n)

DirectoryStep ==
  \/ Write
  \/ \E n \in Nodes : Replicate(n)
  \/ \E p \in Peers : EditSyncrepl(p)

-----------------------------------------------------------------------------
PollerTypeOK ==
  /\ csn \in [Nodes -> CSNs] /\ syncrepl \subseteq Peers
  /\ loop \in {"off", "delay", "wait", "discover", "add", "remove", "poll", "done"}
  /\ pollerStop \in BOOLEAN /\ reliable \in BOOLEAN
  /\ peers \subseteq Peers /\ open \subseteq Peers /\ want \subseteq Peers
  /\ pending \subseteq Nodes /\ fresh \subseteq Peers /\ atStart \in CSNs
  /\ read \in [Nodes -> CSNs \cup {NoValue, Down}]
  /\ upSeries \in [Peers -> {0, 1, NoValue}]
  /\ csnSeries \in [Peers -> CSNs \cup {NoValue}]
  /\ lagSeries \in [Peers -> CSNs \cup {NoValue}]

(* peers.go:20, poller.go:117: a peer loses its client and its series only *)
(* after a discovery that could read cn=config and did not find it there;  *)
(* a failed read never tears a peer down.                                  *)
KnownPeersSurvive ==
  [][\A p \in peers \ peers' : reliable /\ p \notin want \cup Manual]_pollerVars

(* poller.go:146: a peer that the poller has no client for has no series,  *)
(* whatever was discovered, removed and polled before.                     *)
VanishedPeersPruned ==
  \A p \in Peers \ peers :
    /\ upSeries[p] = NoValue /\ csnSeries[p] = NoValue
    /\ lagSeries[p] = NoValue

(* poller.go:183: the sources are read at different moments while the      *)
(* master goes on.  The lag never exceeds what the peer really is behind   *)
(* its published CSN, and if the master answered it covers at least what   *)
(* was written before the round began.                                     *)
LagMeasured ==
  \A p \in Peers : lagSeries[p] # NoValue =>
    /\ csnSeries[p] + lagSeries[p] <= csn[Master]
    /\ (p \in fresh /\ read[Master] \in CSNs /\ loop = "wait") =>
         csnSeries[p] + lagSeries[p] >= atStart

(* poller.go:238: between rounds, a lag that the last round did not write  *)
(* belongs to a peer that is shown as down, or whose search for            *)
(* contextCSN failed; the latter is shown as up with its old lag.          *)
StaleLagExplained ==
  loop = "wait" =>
    \A p \in peers : \/ p \in fresh
                     \/ upSeries[p] = 0
                     \/ read[p] = NoValue

(* poller.go:161: what the round in progress has read.  No answer is ahead *)
(* of the master, that of the master itself is not older than the round,   *)
(* and a round starts without answers of an earlier one.                   *)
ReadingsOfRound ==
  /\ atStart <= csn[Master]
  /\ \A n \in Nodes : csn[n] <= csn[Master]
  /\ \A n \in Nodes : read[n] \in CSNs => read[n] <= csn[Master]
  /\ (loop \in {"poll", "wait"} /\ read[Master] \in CSNs) => read[Master] >= atStart
  /\ loop \in {"discover", "add", "remove"} => read = NoRead

(* poller.go:205: a lag is exported with the CSN it belongs to. *)
LagHasCSN == \A p \in Peers : lagSeries[p] # NoValue => csnSeries[p] # NoValue

(* poller.go:177, peers.go:29: every source of a round is the local node   *)
(* or a peer that still has its client, and whatever the discovery did,    *)
(* what it returned has the configured peers in it.                        *)
SourcesKnown ==
  /\ loop = "poll" => pending \subseteq peers \cup {Local}
  /\ loop \in {"add", "remove"} => Manual \subseteq want
  /\ loop = "off" => peers = {}
(* The inductive invariant of the poller. *)
PollerInv ==
  /\ PollerTypeOK /\ SourcesKnown /\ VanishedPeersPruned /\ LagHasCSN
  /\ ReadingsOfRound /\ LagMeasured /\ StaleLagExplained
=============================================================================
