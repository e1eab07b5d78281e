------------------------ MODULE ExporterProcessProofs ------------------------
(***************************************************************************)
(* The life of the process for any set of peers, any number of writes and  *)
(* days, and any interleaving of main, poller, runner and directory.       *)
(***************************************************************************)
EXTENDS ExporterProcess, WellFoundedInduction, TLAPS

-----------------------------------------------------------------------------
(* The reference CSN of a round. *)

LEMMA LeastNat ==
  ASSUME NEW D \in SUBSET Nat, D # {}
  PROVE  \E d \in D : \A e \in D : d <= e
<1>1. PICK d \in D : \A e \in D : <<e, d>> \notin OpToRel(<, Nat)
  BY WFMin, NatLessThanWellFounded
<1>2. ASSUME NEW e \in D
      PROVE  d <= e
  <2>1. SUFFICES ASSUME e < d PROVE FALSE
    OBVIOUS
  <2>2. <<e, d>> \in OpToRel(<, Nat)
    BY <2>1, Zenon DEF OpToRel
  <2> QED
    BY <2>2, <1>1
<1> QED
  BY <1>2

(* A nonempty set of numbers below a bound has its maximum. *)
LEMMA MaxProperty ==
  ASSUME NEW n \in Nat, NEW S \in SUBSET (0..n), S # {}
  PROVE  Max(S) \in S /\ \A x \in S : x <= Max(S)
<1> DEFINE D == {n - x : x \in S}
<1>1. D # {} /\ D \in SUBSET Nat
  <2>1. \A x \in S : n - x \in Nat
    OBVIOUS
  <2> QED
    BY <2>1
<1>2. PICK d \in D : \A e \in D : d <= e
  <2> HIDE DEF D
  <2> QED
    BY <1>1, LeastNat
<1>3. PICK x \in S : d = n - x
  OBVIOUS
<1>4. ASSUME NEW y \in S
      PROVE  x >= y
  <2>1. n - y >= d
    BY <1>2
  <2> QED
    BY <2>1, <1>3
<1> QED
  BY <1>3, <1>4 DEF Max

(* poller.go:184: the reference is one of the answers, or 0, and no answer *)
(* is ahead of it.                                                         *)
LEMMA ReferenceOfAnswers ==
  ASSUME PollerTypeOK
  PROVE  /\ Reference \in CSNs
         /\ Reference = 0 \/ \E n \in Nodes : read[n] \in CSNs /\ Reference = read[n]
         /\ \A n \in Nodes : read[n] \in CSNs => read[n] <= Reference
<1> DEFINE S == ({read[n] : n \in Nodes} \cap CSNs) \cup {0}
<1>1. S \in SUBSET (0..MaxCSN) /\ S # {} /\ MaxCSN \in Nat
  BY PollerAssumption DEF CSNs
<1>2. Max(S) \in S /\ \A x \in S : x <= Max(S)
  <2> HIDE DEF S
  <2> QED
    BY <1>1, MaxProperty
<1>3. Reference = Max(S)
  BY DEF Reference
<1> QED
  BY <1>1, <1>2, <1>3 DEF CSNs

(* poller.go:207: CSN and lag of a peer that answered add up to the        *)
(* reference.                                                              *)
LEMMA LagOfAnswer ==
  ASSUME PollerTypeOK, NEW p \in Peers, read[p] \in CSNs
  PROVE  Lag(p) \in CSNs /\ read[p] + Lag(p) = Reference
<1> DEFINE S == {Reference - read[p], 0}
<1>1. Reference \in CSNs /\ read[p] <= Reference /\ MaxCSN \in Nat
  BY ReferenceOfAnswers, PollerAssumption DEF Nodes
<1>2. Reference - read[p] \in 0..MaxCSN
  BY <1>1 DEF CSNs
<1>3. Max(S) \in S /\ \A x \in S : x <= Max(S)
  <2>1. S \in SUBSET (0..MaxCSN) /\ S # {}
    BY <1>1, <1>2
  <2> HIDE DEF S
  <2> QED
    BY <1>1, <2>1, MaxProperty
<1>4. Max(S) = Reference - read[p]
  <2> DEFINE m == Max(S)
  <2>1. m \in S /\ Reference - read[p] <= m
    BY <1>3
  <2> HIDE DEF m
  <2>2. m = Reference - read[p]
    BY <2>1, <1>1, <1>2
  <2> QED
    BY <2>2 DEF m
<1>5. Lag(p) = Reference - read[p]
  BY <1>4 DEF Lag
<1> QED
  BY <1>1, <1>2, <1>5 DEF CSNs

-----------------------------------------------------------------------------
(* The poller. *)

LEMMA MasterIsNode == Master \in Nodes /\ Local \in Nodes /\ Peers \subseteq Nodes
BY PollerAssumption DEF Nodes

LEMMA PollerInitInv == PollerInit => PollerInv
<1> SUFFICES ASSUME PollerInit PROVE PollerInv
  OBVIOUS
<1> USE PollerAssumption DEF PollerInit, NoRead, NoSeries
<1>1. PollerTypeOK
  <2>1. 0 \in CSNs
    BY DEF CSNs
  <2>2. csn \in [Nodes -> CSNs] /\ atStart \in CSNs
    BY <2>1
  <2>3. read \in [Nodes -> CSNs \cup {NoValue, Down}]
    OBVIOUS
  <2>4. /\ upSeries \in [Peers -> {0, 1, NoValue}]
        /\ csnSeries \in [Peers -> CSNs \cup {NoValue}]
        /\ lagSeries \in [Peers -> CSNs \cup {NoValue}]
    OBVIOUS
  <2> QED
    BY <2>2, <2>3, <2>4 DEF PollerTypeOK
<1>2. SourcesKnown /\ VanishedPeersPruned /\ LagHasCSN
  BY DEF SourcesKnown, VanishedPeersPruned, LagHasCSN
<1>3. ReadingsOfRound
  BY MasterIsNode DEF ReadingsOfRound, CSNs
<1>4. LagMeasured /\ StaleLagExplained
  BY DEF LagMeasured, StaleLagExplained
<1> QED
  BY <1>1, <1>2, <1>3, <1>4 DEF PollerInv

LEMMA DirectoryKeeps ==
  ASSUME PollerInv, DirectoryStep
  PROVE  PollerInv'
<1>0. PollerTypeOK /\ SourcesKnown /\ VanishedPeersPruned /\ LagHasCSN
      /\ ReadingsOfRound /\ LagMeasured /\ StaleLagExplained
  BY DEF PollerInv
<1>a. UNCHANGED <<loop, pollerStop, peerVars, findVars, roundVars, seriesVars>>
  BY DEF DirectoryStep, Write, Replicate, EditSyncrepl
<1>b. UNCHANGED <<loop, pollerStop, peers, open, want, reliable, pending, read,
                  atStart, upSeries, csnSeries, lagSeries, fresh>>
  BY <1>a DEF peerVars, findVars, roundVars, seriesVars
<1>c. syncrepl' \subseteq Peers
  BY <1>0 DEF PollerTypeOK, DirectoryStep, Write, Replicate, EditSyncrepl
<1>d. /\ csn' \in [Nodes -> CSNs]
      /\ csn[Master] <= csn'[Master]
      /\ \A n \in Nodes : csn'[n] <= csn'[Master]
  <2> USE <1>0, MasterIsNode, PollerAssumption DEF PollerTypeOK, ReadingsOfRound, CSNs
  <2>1. CASE Write
    BY <2>1 DEF Write
  <2>2. ASSUME NEW n \in Nodes, Replicate(n)
        PROVE  /\ csn' \in [Nodes -> CSNs]
               /\ csn[Master] <= csn'[Master]
               /\ \A m \in Nodes : csn'[m] <= csn'[Master]
    BY <2>2 DEF Replicate
  <2>3. ASSUME NEW p \in Peers, EditSyncrepl(p)
        PROVE  /\ csn' \in [Nodes -> CSNs]
               /\ csn[Master] <= csn'[Master]
               /\ \A m \in Nodes : csn'[m] <= csn'[Master]
    BY <2>3 DEF EditSyncrepl
  <2> QED
    BY <2>1, <2>2, <2>3 DEF DirectoryStep
<1>e. csn[Master] \in Int /\ csn'[Master] \in Int
  BY <1>0, <1>d, MasterIsNode, PollerAssumption DEF PollerTypeOK, CSNs
<1>1. PollerTypeOK'
  BY <1>0, <1>b, <1>c, <1>d DEF PollerTypeOK
<1>2. SourcesKnown' /\ VanishedPeersPruned' /\ LagHasCSN' /\ StaleLagExplained'
  BY <1>0, <1>b DEF SourcesKnown, VanishedPeersPruned, LagHasCSN, StaleLagExplained
<1>3. ReadingsOfRound'
  BY <1>0, <1>b, <1>d, <1>e, PollerAssumption
  DEF ReadingsOfRound, PollerTypeOK, CSNs, NoRead, Nodes
<1>4. LagMeasured'
  BY <1>0, <1>b, <1>d, <1>e, PollerAssumption
  DEF LagMeasured, LagHasCSN, PollerTypeOK, CSNs
<1> QED
  BY <1>1, <1>2, <1>3, <1>4 DEF PollerInv
(* Steps that leave directory, answers and series alone and do not begin a *)
(* phase of a round with more than its predecessor had.                    *)
LEMMA SeriesKept ==
  ASSUME PollerInv, UNCHANGED <<serverVars, roundVars, seriesVars>>,
         loop' # loop => loop' \in {"delay", "off", "add", "remove", "done"},
         loop' \in {"add", "remove"} => loop \in {"discover", "add", "remove"}
  PROVE  /\ ReadingsOfRound' /\ LagHasCSN' /\ LagMeasured'
         /\ peers \subseteq peers' => VanishedPeersPruned'
         /\ peers' = peers => StaleLagExplained'
<1>0. PollerTypeOK /\ SourcesKnown /\ VanishedPeersPruned /\ LagHasCSN
      /\ ReadingsOfRound /\ LagMeasured /\ StaleLagExplained
  BY DEF PollerInv
<1>a. UNCHANGED <<csn, syncrepl, pending, read, atStart, upSeries, csnSeries,
                  lagSeries, fresh>>
  BY DEF serverVars, roundVars, seriesVars
<1>1. ReadingsOfRound'
  BY <1>0, <1>a DEF ReadingsOfRound, NoRead
<1>2. LagHasCSN' /\ LagMeasured'
  BY <1>0, <1>a DEF LagHasCSN, LagMeasured
<1>3. peers \subseteq peers' => VanishedPeersPruned'
  BY <1>0, <1>a DEF VanishedPeersPruned
<1>4. peers' = peers => StaleLagExplained'
  BY <1>0, <1>a DEF StaleLagExplained
<1> QED
  BY <1>1, <1>2, <1>3, <1>4

LEMMA DiscoverKeeps ==
  ASSUME PollerInv, DiscoverPeers
  PROVE  PollerInv'
<1>0. PollerTypeOK /\ SourcesKnown /\ VanishedPeersPruned /\ LagHasCSN
      /\ ReadingsOfRound /\ LagMeasured /\ StaleLagExplained
  BY DEF PollerInv
<1>1. PollerTypeOK'
  BY <1>0, PollerAssumption
  DEF PollerTypeOK, DiscoverPeers, serverVars, peerVars, roundVars, seriesVars
<1>2. SourcesKnown'
  BY <1>0 DEF SourcesKnown, DiscoverPeers, peerVars, roundVars
<1>3. peers' = peers
  BY DEF DiscoverPeers, peerVars
<1>4. /\ ReadingsOfRound' /\ LagHasCSN' /\ LagMeasured'
      /\ VanishedPeersPruned' /\ StaleLagExplained'
  BY <1>3, SeriesKept DEF DiscoverPeers
<1> QED
  BY <1>1, <1>2, <1>3, <1>4 DEF PollerInv

LEMMA AddKeeps ==
  ASSUME PollerInv, AddPeers
  PROVE  PollerInv'
<1>0. PollerTypeOK /\ SourcesKnown /\ VanishedPeersPruned /\ LagHasCSN
      /\ ReadingsOfRound /\ LagMeasured /\ StaleLagExplained
  BY DEF PollerInv
<1>1. PollerTypeOK'
  BY <1>0
  DEF PollerTypeOK, AddPeers, serverVars, findVars, roundVars, seriesVars
<1>2. SourcesKnown'
  BY <1>0 DEF SourcesKnown, AddPeers, findVars, roundVars
<1>3. peers \subseteq peers'
  BY DEF AddPeers
<1>4. /\ ReadingsOfRound' /\ LagHasCSN' /\ LagMeasured'
      /\ VanishedPeersPruned' /\ StaleLagExplained'
  BY <1>3, SeriesKept DEF AddPeers, StaleLagExplained
<1> QED
  BY <1>1, <1>2, <1>3, <1>4 DEF PollerInv

LEMMA RemoveKeeps ==
  ASSUME PollerInv, NEW p \in Peers, RemovePeer(p)
  PROVE  PollerInv'
<1>0. PollerTypeOK /\ SourcesKnown /\ VanishedPeersPruned /\ LagHasCSN
      /\ ReadingsOfRound /\ LagMeasured /\ StaleLagExplained
  BY DEF PollerInv
<1> USE DEF RemovePeer, PrunePeerMetrics
<1>a. UNCHANGED <<csn, syncrepl, loop, pollerStop, want, reliable, pending, read,
                  atStart>>
  BY DEF serverVars, findVars, roundVars
<1>1. PollerTypeOK'
  BY <1>0, <1>a DEF PollerTypeOK
<1>2. SourcesKnown' /\ VanishedPeersPruned'
  BY <1>0, <1>a DEF SourcesKnown, VanishedPeersPruned, PollerTypeOK
<1>3. LagHasCSN' /\ ReadingsOfRound'
  BY <1>0, <1>a DEF LagHasCSN, ReadingsOfRound, PollerTypeOK, NoRead
<1>4. LagMeasured' /\ StaleLagExplained'
  BY <1>0, <1>a DEF LagMeasured, StaleLagExplained, PollerTypeOK
<1> QED
  BY <1>1, <1>2, <1>3, <1>4 DEF PollerInv

LEMMA BeginKeeps ==
  ASSUME PollerInv, BeginPoll
  PROVE  PollerInv'
<1>0. PollerTypeOK /\ SourcesKnown /\ VanishedPeersPruned /\ LagHasCSN
      /\ ReadingsOfRound /\ LagMeasured /\ StaleLagExplained
  BY DEF PollerInv
<1> USE DEF BeginPoll
<1>a. UNCHANGED <<csn, syncrepl, pollerStop, peers, open, read, upSeries,
                  csnSeries, lagSeries, fresh>>
  BY DEF serverVars, peerVars, seriesVars
<1>1. PollerTypeOK'
  BY <1>0, <1>a, MasterIsNode DEF PollerTypeOK, Nodes
<1>2. SourcesKnown' /\ VanishedPeersPruned' /\ LagHasCSN'
  BY <1>0, <1>a DEF SourcesKnown, VanishedPeersPruned, LagHasCSN
<1>3. ReadingsOfRound'
  BY <1>0, <1>a, MasterIsNode, PollerAssumption
  DEF ReadingsOfRound, PollerTypeOK, NoRead, CSNs
<1>4. LagMeasured' /\ StaleLagExplained'
  BY <1>0, <1>a DEF LagMeasured, StaleLagExplained
<1> QED
  BY <1>1, <1>2, <1>3, <1>4 DEF PollerInv

LEMMA ReadKeeps ==
  ASSUME PollerInv, NEW n \in Nodes, ReadCSN(n)
  PROVE  PollerInv'
<1>0. PollerTypeOK /\ SourcesKnown /\ VanishedPeersPruned /\ LagHasCSN
      /\ ReadingsOfRound /\ LagMeasured /\ StaleLagExplained
  BY DEF PollerInv
<1>a. UNCHANGED <<csn, syncrepl, loop, pollerStop, peers, open, want, reliable,
                  atStart, upSeries, csnSeries, lagSeries, fresh>>
  BY DEF ReadCSN, serverVars, peerVars, findVars, seriesVars
<1>b. PICK answer \in {Down, NoValue, csn[n]} :
        read' = [read EXCEPT ![n] = answer]
  BY DEF ReadCSN
<1>1. PollerTypeOK'
  BY <1>0, <1>a, <1>b DEF PollerTypeOK, ReadCSN
<1>2. SourcesKnown' /\ VanishedPeersPruned' /\ LagHasCSN'
  BY <1>0, <1>a DEF SourcesKnown, VanishedPeersPruned, LagHasCSN, ReadCSN
<1>3. ReadingsOfRound'
  <2>1. \A m \in Nodes : read'[m] = IF m = n THEN answer ELSE read[m]
    BY <1>0, <1>b DEF PollerTypeOK
  <2>2. answer \in CSNs => answer = csn[n]
    BY <1>b, PollerAssumption
  <2> QED
    BY <1>0, <1>a, <2>1, <2>2, MasterIsNode DEF ReadingsOfRound, ReadCSN
<1>4. LagMeasured' /\ StaleLagExplained'
  BY <1>0, <1>a DEF LagMeasured, StaleLagExplained, ReadCSN
<1> QED
  BY <1>1, <1>2, <1>3, <1>4 DEF PollerInv

LEMMA PublishKeeps ==
  ASSUME PollerInv, Publish
  PROVE  PollerInv'
<1>0. PollerTypeOK /\ SourcesKnown /\ VanishedPeersPruned /\ LagHasCSN
      /\ ReadingsOfRound /\ LagMeasured /\ StaleLagExplained
  BY DEF PollerInv
<1> DEFINE answered == {p \in peers : read[p] \in CSNs}
<1>a. UNCHANGED <<csn, syncrepl, pollerStop, peers, open, want, reliable, pending,
                  read, atStart>>
  BY DEF Publish, serverVars, peerVars, findVars, roundVars
<1>b. /\ loop = "poll" /\ loop' = "wait" /\ fresh' = answered
      /\ upSeries' = [p \in Peers |-> IF p \in peers THEN Up(p) ELSE upSeries[p]]
      /\ csnSeries' = [p \in Peers |->
                        IF p \in answered THEN read[p] ELSE csnSeries[p]]
      /\ lagSeries' = [p \in Peers |->
                        IF p \in answered THEN Lag(p) ELSE lagSeries[p]]
  BY DEF Publish
<1>c. ASSUME NEW p \in answered
      PROVE  Lag(p) \in CSNs /\ read[p] + Lag(p) = Reference
  BY <1>0, LagOfAnswer DEF PollerTypeOK
<1>d. \A p \in Peers : Up(p) \in {0, 1} /\ (read[p] = Down => Up(p) = 0)
  BY DEF Up
<1>e. answered \subseteq peers /\ answered \subseteq Peers
  BY <1>0 DEF PollerTypeOK
<1>1. PollerTypeOK'
  BY <1>0, <1>a, <1>b, <1>c, <1>d, <1>e DEF PollerTypeOK
<1>2. SourcesKnown' /\ VanishedPeersPruned'
  BY <1>0, <1>a, <1>b, <1>e DEF SourcesKnown, VanishedPeersPruned
<1>3. LagHasCSN' /\ ReadingsOfRound'
  <2>1. LagHasCSN'
    BY <1>0, <1>a, <1>b, PollerAssumption DEF LagHasCSN
  <2>2. ReadingsOfRound'
    BY <1>0, <1>a, <1>b DEF ReadingsOfRound
  <2> QED
    BY <2>1, <2>2
<1>4. LagMeasured' /\ StaleLagExplained'
  <2>1. ASSUME NEW p \in Peers, lagSeries'[p] # NoValue
        PROVE  /\ csnSeries'[p] + lagSeries'[p] <= csn'[Master]
               /\ (p \in fresh' /\ read'[Master] \in CSNs) =>
                    csnSeries'[p] + lagSeries'[p] >= atStart'
    <3>1. CASE p \in answered
      <4>1. csnSeries'[p] + lagSeries'[p] = Reference
        BY <1>b, <1>c, <3>1
      <4>2. Reference <= csn[Master]
        BY <1>0, ReferenceOfAnswers, MasterIsNode, PollerAssumption
        DEF ReadingsOfRound, PollerTypeOK, CSNs
      <4>3. read[Master] \in CSNs => Reference >= atStart
        BY <1>0, <1>b, ReferenceOfAnswers, MasterIsNode, PollerAssumption
        DEF ReadingsOfRound, PollerTypeOK, CSNs
      <4> QED
        BY <1>a, <4>1, <4>2, <4>3
    <3>2. CASE p \notin answered
      BY <1>0, <1>a, <1>b, <2>1, <3>2 DEF LagMeasured
    <3> QED
      BY <3>1, <3>2
  <2>2. LagMeasured'
    BY <2>1, <1>a DEF LagMeasured
  <2>3. StaleLagExplained'
    BY <1>0, <1>a, <1>b, <1>d, MasterIsNode DEF StaleLagExplained, PollerTypeOK
  <2> QED
    BY <2>2, <2>3
<1> QED
  BY <1>1, <1>2, <1>3, <1>4 DEF PollerInv

LEMMA TickKeeps ==
  ASSUME PollerInv, PollerTick
  PROVE  PollerInv'
<1>0. PollerTypeOK /\ SourcesKnown /\ VanishedPeersPruned /\ LagHasCSN
      /\ ReadingsOfRound /\ LagMeasured /\ StaleLagExplained
  BY DEF PollerInv
<1> USE DEF PollerTick
<1>a. UNCHANGED <<csn, syncrepl, pollerStop, peers, open, want, reliable, pending,
                  upSeries, csnSeries, lagSeries, fresh>>
  BY DEF serverVars, peerVars, findVars, seriesVars
<1>b. NoRead \in [Nodes -> CSNs \cup {NoValue, Down}] /\ 0 \in CSNs
  BY PollerAssumption DEF NoRead, CSNs
<1>1. PollerTypeOK'
  BY <1>0, <1>a, <1>b DEF PollerTypeOK
<1>2. SourcesKnown' /\ VanishedPeersPruned' /\ LagHasCSN'
  BY <1>0, <1>a DEF SourcesKnown, VanishedPeersPruned, LagHasCSN
<1>3. ReadingsOfRound'
  BY <1>0, <1>a, MasterIsNode, PollerAssumption
  DEF ReadingsOfRound, PollerTypeOK, NoRead, CSNs
<1>4. LagMeasured' /\ StaleLagExplained'
  BY <1>0, <1>a DEF LagMeasured, StaleLagExplained
<1> QED
  BY <1>1, <1>2, <1>3, <1>4 DEF PollerInv

LEMMA ReturnKeeps ==
  ASSUME PollerInv, PollerReturns
  PROVE  PollerInv'
<1>0. PollerTypeOK /\ SourcesKnown /\ VanishedPeersPruned /\ LagHasCSN
      /\ ReadingsOfRound /\ LagMeasured /\ StaleLagExplained
  BY DEF PollerInv
<1>1. PollerTypeOK'
  BY <1>0
  DEF PollerTypeOK, PollerReturns, serverVars, peerVars, findVars, roundVars,
      seriesVars
<1>2. SourcesKnown'
  BY <1>0 DEF SourcesKnown, PollerReturns, findVars, roundVars, peerVars
<1>3. peers' = peers
  BY DEF PollerReturns, peerVars
<1>4. /\ ReadingsOfRound' /\ LagHasCSN' /\ LagMeasured'
      /\ VanishedPeersPruned' /\ StaleLagExplained'
  BY <1>3, SeriesKept DEF PollerReturns
<1> QED
  BY <1>1, <1>2, <1>3, <1>4 DEF PollerInv

LEMMA WorksKeep ==
  ASSUME PollerInv, PollerWorks
  PROVE  PollerInv'
BY DiscoverKeeps, AddKeeps, RemoveKeeps, BeginKeeps, ReadKeeps, PublishKeeps
DEF PollerWorks
-----------------------------------------------------------------------------
(* The process. *)

LEMMA InitInv == Init => ProcessInv
<1> SUFFICES ASSUME Init PROVE ProcessInv
  OBVIOUS
<1>1. PollerInv
  BY PollerInitInv DEF Init
<1>2. TypeOK
  <2>1. 0 \in Days /\ 0 \in 0..1
    BY RunnerAssumption DEF Days
  <2>2. RunnerTypeOK
    BY <2>1, Zenon DEF Init, RunnerInit, RunnerTypeOK
  <2> QED
    BY <1>1, <2>1, <2>2, Zenon DEF TypeOK, PollerInv, Init
<1>3. OwnersInOrder
  BY DEF OwnersInOrder, Init, RunnerInit, PollerInit
<1> QED
  BY <1>1, <1>2, <1>3 DEF ProcessInv

(* A step of another goroutine leaves the poller as it is. *)
LEMMA PollerUntouched ==
  ASSUME PollerInv, UNCHANGED pollerVars
  PROVE  PollerInv'
BY DEF PollerInv, PollerTypeOK, SourcesKnown, VanishedPeersPruned, LagHasCSN,
       ReadingsOfRound, LagMeasured, StaleLagExplained, pollerVars, serverVars,
       peerVars, findVars, roundVars, seriesVars, NoRead

(* What main does to the poller: it starts the loop, closes the stop       *)
(* channel, and closes the clients of the peers.                           *)
LEMMA MainTouchesPoller ==
  ASSUME ProcessInv, StartPoller \/ ClosePollerStop \/ PollerStopped
  PROVE  PollerInv'
<1>0. PollerInv /\ PollerTypeOK /\ SourcesKnown /\ OwnersInOrder
  BY DEF ProcessInv, PollerInv
<1>a. UNCHANGED <<serverVars, roundVars, seriesVars, findVars, peers>>
  BY DEF StartPoller, ClosePollerStop, PollerStopped, peerVars
<1>b. loop' = loop \/ (loop = "off" /\ loop' \in {"delay", "off"})
  BY <1>0 DEF StartPoller, ClosePollerStop, PollerStopped, OwnersInOrder
<1>c. open' \subseteq Peers /\ pollerStop' \in BOOLEAN
  BY <1>0 DEF StartPoller, ClosePollerStop, PollerStopped, PollerTypeOK, peerVars
<1>1. PollerTypeOK'
  BY <1>0, <1>a, <1>b, <1>c
  DEF PollerTypeOK, serverVars, roundVars, seriesVars, findVars
<1>2. SourcesKnown'
  BY <1>0, <1>a, <1>b DEF SourcesKnown, roundVars, findVars
<1>3. /\ ReadingsOfRound' /\ LagHasCSN' /\ LagMeasured'
      /\ VanishedPeersPruned' /\ StaleLagExplained'
  BY <1>0, <1>a, <1>b, SeriesKept
<1> QED
  BY <1>1, <1>2, <1>3 DEF PollerInv

LEMMA MainKeeps ==
  ASSUME ProcessInv, MainStep \/ BeginShutdown \/ RequestBegins \/ RequestEnds
  PROVE  ProcessInv'
<1>0. TypeOK /\ OwnersInOrder /\ PollerInv
  BY DEF ProcessInv
<1> USE <1>0 DEF TypeOK, OwnersInOrder, RunnerTypeOK
<1>1. PollerInv'
  BY MainTouchesPoller, PollerUntouched
  DEF MainStep, StartExporter, SkipEvents, StartEvents, EventsFail, EndShutdown,
      CloseRunnerStop, RunnerStopped, CloseExporter, BeginShutdown,
      RequestBegins, RequestEnds
<1>a. PollerTypeOK'
  BY <1>1 DEF PollerInv
<1> SUFFICES TypeOK' /\ OwnersInOrder'
  BY <1>1 DEF ProcessInv
<1>2. CASE StartExporter \/ SkipEvents
  BY <1>2, <1>a DEF StartExporter, SkipEvents, runnerVars, pollerVars, peerVars
<1>3. CASE StartEvents \/ EventsFail
  BY <1>3, <1>a DEF StartEvents, EventsFail, pollerVars, peerVars
<1>4. CASE StartPoller
  BY <1>4, <1>a DEF StartPoller, runnerVars, peerVars
<1>5. CASE BeginShutdown
  BY <1>5, <1>a DEF BeginShutdown, runnerVars, pollerVars, peerVars
<1>6. CASE ClosePollerStop
  BY <1>6, <1>a DEF ClosePollerStop, mainVars, runnerVars, peerVars
<1>7. CASE PollerStopped
  BY <1>7, <1>a, <1>0 DEF PollerStopped, PollerOver, runnerVars, PollerInv, SourcesKnown
<1>8. CASE CloseRunnerStop
  BY <1>8, <1>a DEF CloseRunnerStop, mainVars, pollerVars, peerVars
<1>9. CASE RunnerStopped
  BY <1>9, <1>a DEF RunnerStopped, RunnerOver, pollerVars, peerVars
<1>10. CASE CloseExporter
  BY <1>10, <1>a DEF CloseExporter, runnerVars, pollerVars, peerVars
<1>11. CASE RequestBegins \/ RequestEnds
  BY <1>11, <1>a DEF RequestBegins, RequestEnds, runnerVars, pollerVars, peerVars
<1>12. CASE EndShutdown
  <2>1. forced' \in BOOLEAN /\ (handlers > 0 => forced')
    <3> HIDE <1>0 DEF TypeOK, OwnersInOrder, RunnerTypeOK
    <3>1. forced' = (handlers > 0)
      BY <1>12, Zenon DEF EndShutdown
    <3>2. forced' \in BOOLEAN
      BY <3>1
    <3>3. ASSUME handlers > 0 PROVE forced'
      BY <3>1, <3>3
    <3> QED
      BY <3>2, <3>3
  <2> QED
    BY <1>12, <1>a, <2>1 DEF EndShutdown, runnerVars, pollerVars, peerVars
<1> QED
  BY <1>1, <1>2, <1>3, <1>4, <1>5, <1>6, <1>7, <1>8, <1>9, <1>10, <1>11, <1>12
  DEF MainStep
LEMMA PollerKeeps ==
  ASSUME ProcessInv, UNCHANGED <<mainVars, runnerVars>>,
         PollerWorks \/ PollerReturns \/ PollerTick \/ DirectoryStep
  PROVE  ProcessInv'
<1>0. TypeOK /\ OwnersInOrder /\ PollerInv /\ PollerTypeOK
  BY DEF ProcessInv, PollerInv
<1>1. PollerInv'
  BY <1>0, WorksKeep, ReturnKeeps, TickKeeps, DirectoryKeeps
<1>2. TypeOK'
  BY <1>0, <1>1 DEF TypeOK, PollerInv, RunnerTypeOK, mainVars, runnerVars
<1>3. loop' # loop => loop \notin {"off", "done"} /\ loop' # "off"
  BY DEF PollerWorks, PollerReturns, PollerTick, DirectoryStep, DiscoverPeers,
         AddPeers, RemovePeer, BeginPoll, ReadCSN, Publish, Write, Replicate,
         EditSyncrepl
<1>4. open' = peers' \/ UNCHANGED <<open, peers>>
  <2>1. CASE \/ PollerReturns \/ PollerTick \/ DirectoryStep \/ DiscoverPeers
             \/ BeginPoll \/ Publish \/ \E n \in Nodes : ReadCSN(n)
    BY <2>1
    DEF PollerReturns, PollerTick, DirectoryStep, DiscoverPeers, BeginPoll, ReadCSN,
        Publish, Write, Replicate, EditSyncrepl, peerVars
  <2>2. CASE AddPeers
    BY <1>0, <2>2 DEF AddPeers, OwnersInOrder
  <2>3. ASSUME NEW p \in Peers, RemovePeer(p)
        PROVE  open' = peers'
    BY <1>0, <2>3 DEF RemovePeer, OwnersInOrder
  <2> QED
    BY <2>1, <2>2, <2>3 DEF PollerWorks
<1>5. loop \in {"off", "done"} => UNCHANGED <<open, peers>>
  BY DEF PollerWorks, PollerReturns, PollerTick, DirectoryStep, DiscoverPeers,
         AddPeers, RemovePeer, BeginPoll, ReadCSN, Publish, Write, Replicate,
         EditSyncrepl, peerVars
<1>6. OwnersInOrder'
  BY <1>0, <1>3, <1>4, <1>5 DEF OwnersInOrder, mainVars, runnerVars
<1> QED
  BY <1>1, <1>2, <1>6 DEF ProcessInv

LEMMA RunnerKeeps ==
  ASSUME ProcessInv, UNCHANGED <<mainVars, pollerVars>>,
         EndTick \/ RunnerReturns \/ RunnerTick \/ Emit \/ NextDay
  PROVE  ProcessInv'
<1>0. TypeOK /\ OwnersInOrder /\ PollerInv
  BY DEF ProcessInv
<1>1. PollerInv'
  BY <1>0, PollerUntouched
<1>2. RunnerTypeOK'
  <2> USE <1>0 DEF TypeOK, RunnerTypeOK
  <2>1. CASE EndTick \/ RunnerReturns \/ RunnerTick
    BY <2>1 DEF EndTick, RunnerReturns, RunnerTick
  <2>2. CASE Emit
    BY <2>2 DEF Emit, RollIfNeeded
  <2>3. CASE NextDay
    BY <2>3, RunnerAssumption DEF NextDay, Days
  <2> QED
    BY <2>1, <2>2, <2>3
<1>3. TypeOK'
  BY <1>0, <1>1, <1>2 DEF TypeOK, PollerInv, mainVars
<1>4. OwnersInOrder'
  BY <1>0
  DEF OwnersInOrder, EndTick, RunnerReturns, RunnerTick, Emit, NextDay, mainVars,
      pollerVars, peerVars
<1> QED
  BY <1>1, <1>3, <1>4 DEF ProcessInv

-----------------------------------------------------------------------------
(* main.go:138-181, poller.go:85-147: the order of owners holds, no peer   *)
(* without a client has series, and no answer of a round is ahead of the   *)
(* master, for every set of peers.                                         *)
THEOREM ProcessInvariant == Spec => []ProcessInv
<1>1. ProcessInv /\ [Next]_vars => ProcessInv'
  <2> SUFFICES ASSUME ProcessInv, [Next]_vars
               PROVE  ProcessInv'
    OBVIOUS
  <2>1. CASE Next
    BY <2>1, MainKeeps, PollerKeeps, RunnerKeeps
    DEF Next, PollerStep, PollerStops, RunnerEnds, RunnerStops
  <2>2. CASE UNCHANGED vars
    <3>1. PollerInv'
      BY <2>2, PollerUntouched DEF vars, ProcessInv
    <3> QED
      BY <2>2, <3>1
      DEF vars, mainVars, runnerVars, pollerVars, peerVars, ProcessInv, PollerInv, TypeOK,
          OwnersInOrder, RunnerTypeOK
  <2> QED
    BY <2>1, <2>2
<1> QED
  BY <1>1, InitInv, PTL DEF Spec

(* poller.go:183: whenever the nodes were read, the exported lag is at     *)
(* most what the peer is behind its exported CSN, and at least what the    *)
(* master had when the round began if the master answered.                 *)
THEOREM LagStaysMeasured == Spec => []LagMeasured
<1>1. ProcessInv => LagMeasured
  BY DEF ProcessInv, PollerInv
<1> QED
  BY <1>1, ProcessInvariant, PTL

(* main.go:147: nobody works with a client that its owner has closed.      *)
THEOREM ClosedIsNotUsed == Spec => []NoUseAfterClose
<1>1. ProcessInv => NoUseAfterClose
  <2> SUFFICES ASSUME TypeOK, OwnersInOrder, SourcesKnown
               PROVE  NoUseAfterClose
    BY DEF ProcessInv, PollerInv
  <2>1. loop \in {"discover", "poll"} => client = "open" /\ open = peers
    BY DEF TypeOK, OwnersInOrder
  <2>2. loop = "poll" => pending \cap Peers \subseteq open
    BY <2>1, PollerAssumption DEF SourcesKnown
  <2>3. runner = "scan" => eventsClient = "open"
    BY DEF OwnersInOrder
  <2>4. (handlers > 0 /\ client = "closed") => forced
    BY DEF OwnersInOrder
  <2> QED
    BY <2>1, <2>2, <2>3, <2>4 DEF NoUseAfterClose
<1> QED
  BY <1>1, ProcessInvariant, PTL

(* main.go:181: when main is over no client of a peer, no client of the    *)
(* events stream and no output file is open.                               *)
THEOREM NothingStaysOpen == Spec => []NothingLeftOpen
<1>1. ProcessInv => NothingLeftOpen
  BY DEF ProcessInv, TypeOK, OwnersInOrder, NothingLeftOpen, Running
<1> QED
  BY <1>1, ProcessInvariant, PTL

(* poller.go:117: a failed read of cn=config never tears a peer down, and  *)
(* no discovery tears a configured one down.                               *)
THEOREM KnownPeersAlwaysSurvive == Spec => KnownPeersSurvive
<1> DEFINE A == \A p \in peers \ peers' : reliable /\ p \notin want \cup Manual
<1>1. ProcessInv /\ [Next]_vars => [A]_pollerVars
  <2> SUFFICES ASSUME ProcessInv, [Next]_vars, NEW p \in peers \ peers'
               PROVE  reliable /\ p \notin want \cup Manual
    OBVIOUS
  <2>1. \E q \in Peers : RemovePeer(q)
    <3>1. UNCHANGED vars => peers' = peers
      BY DEF vars, pollerVars, peerVars
    <3>2. MainStep \/ BeginShutdown \/ RequestBegins \/ RequestEnds => peers' = peers
      BY DEF MainStep, StartExporter, SkipEvents, StartEvents, EventsFail, StartPoller,
             EndShutdown, ClosePollerStop, PollerStopped, CloseRunnerStop,
             RunnerStopped, CloseExporter, BeginShutdown, RequestBegins, RequestEnds,
             pollerVars, peerVars
    <3>3. PollerReturns \/ PollerTick \/ DirectoryStep => peers' = peers
      BY DEF PollerReturns, PollerTick, DirectoryStep, Write, Replicate, EditSyncrepl,
             peerVars
    <3>4. PollerWorks => peers \subseteq peers' \/ \E q \in Peers : RemovePeer(q)
      BY DEF PollerWorks, DiscoverPeers, AddPeers, BeginPoll, ReadCSN, Publish, peerVars
    <3>5. UNCHANGED pollerVars => peers' = peers
      BY DEF pollerVars, peerVars
    <3> QED
      BY <3>1, <3>2, <3>3, <3>4, <3>5
      DEF Next, PollerStep, PollerStops, RunnerEnds, RunnerStops
  <2>2. PICK q \in Peers : RemovePeer(q)
    BY <2>1
  <2>3. p = q /\ reliable /\ p \notin want /\ loop = "remove"
    BY <2>2 DEF RemovePeer, Vanished
  <2>4. Manual \subseteq want
    BY <2>3 DEF ProcessInv, PollerInv, SourcesKnown
  <2> QED
    BY <2>3, <2>4
<1> QED
  BY <1>1, ProcessInvariant, PTL DEF Spec, KnownPeersSurvive
=============================================================================
