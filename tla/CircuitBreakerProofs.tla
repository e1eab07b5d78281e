------------------------ MODULE CircuitBreakerProofs ------------------------
(***************************************************************************)
(* Safety of the circuit breaker for every number of callers, every        *)
(* MaxFailures and SuccessThreshold, and every interleaving of admissions, *)
(* late results, manual control and callbacks.                             *)
(***************************************************************************)
EXTENDS CircuitBreaker, FiniteSetTheorems, TLAPS

(* The probes are finitely many.                                           *)
LEMMA ProbesFinite == IsFiniteSet(Probes)
<1>1. Probes \subseteq Callers
  BY DEF Probes
<1>2. IsFiniteSet(Callers)
  BY BreakerAssumption
<1> QED
  BY <1>1, <1>2, FS_Subset

(* A counter that saturates stays within its cap.                          *)
LEMMA BumpBounded ==
  ASSUME NEW cap \in Nat, NEW n \in 0 .. cap
  PROVE  Bump(n, cap) \in 0 .. cap
BY DEF Bump

(* The record of a caller's progress keeps its type.                       *)
LEMMA CallsAfterType ==
  ASSUME BreakerTypeOK, NEW c \in Callers, NEW what \in Calls, NEW new
  PROVE  CallsAfter(c, what, new) \in [Callers -> Calls]
BY DEF BreakerTypeOK, CallsAfter, Calls

(* Starting a callback keeps the pending callbacks well typed.             *)
LEMMA StartCallbackType ==
  ASSUME BreakerTypeOK, NEW s \in States, StartCallback(s)
  PROVE  pending' \in [States -> 0 .. CallbackCap]
<1>1. CallbackCap \in Nat
  BY BreakerAssumption
<1>2. pending[s] \in 0 .. CallbackCap
  BY DEF BreakerTypeOK
<1>3. Bump(pending[s], CallbackCap) \in 0 .. CallbackCap
  BY <1>1, <1>2, BumpBounded
<1> QED
  BY <1>3 DEF BreakerTypeOK, StartCallback

(* The in-flight count is a natural number after a result is recorded.     *)
LEMMA SlotsAfterResultType ==
  ASSUME BreakerTypeOK
  PROVE  SlotsAfterResult \in Nat
BY DEF BreakerTypeOK, SlotsAfterResult

-----------------------------------------------------------------------------
(* Every admission, result, manual operation and callback keeps the        *)
(* variables of the breaker within their types.                            *)
LEMMA BreakerTypeStep ==
  ASSUME BreakerTypeOK, [BreakerNext]_breakerVars
  PROVE  BreakerTypeOK'
<1> USE BreakerAssumption
<1>1. ASSUME NEW c \in Callers, AdmitClosed(c)
      PROVE  BreakerTypeOK'
  <2>1. calls' \in [Callers -> Calls]
    BY <1>1, CallsAfterType DEF AdmitClosed, Calls
  <2> QED
    BY <1>1, <2>1 DEF AdmitClosed, BreakerTypeOK
<1>2. ASSUME NEW c \in Callers, AdmitFirstProbe(c)
      PROVE  BreakerTypeOK'
  <2>1. calls' \in [Callers -> Calls]
    BY <1>2, CallsAfterType DEF AdmitFirstProbe, Calls
  <2>2. pending' \in [States -> 0 .. CallbackCap]
    BY <1>2, StartCallbackType DEF AdmitFirstProbe, SetStateUnsafe, States
  <2> QED
    BY <1>2, <2>1, <2>2
    DEF AdmitFirstProbe, SetStateUnsafe, InFlightAfter, BreakerTypeOK, States
<1>3. ASSUME NEW c \in Callers, AdmitProbe(c)
      PROVE  BreakerTypeOK'
  <2>1. calls' \in [Callers -> Calls]
    BY <1>3, CallsAfterType DEF AdmitProbe, Calls
  <2> QED
    BY <1>3, <2>1 DEF AdmitProbe, BreakerTypeOK
<1>4. ASSUME NEW c \in Callers, RecordFailure(c)
      PROVE  BreakerTypeOK'
  <2>1. calls' \in [Callers -> Calls]
    BY <1>4, CallsAfterType DEF RecordFailure, Calls
  <2>2. failures' \in 0 .. CountCap
    BY <1>4, BumpBounded DEF RecordFailure, BreakerTypeOK
  <2>3. /\ pending' \in [States -> 0 .. CallbackCap]
        /\ halfOpenInFlight' \in Nat
        /\ state' \in States
    <3>1. CASE state' = state /\ pending' = pending
      BY <1>4, <3>1, SlotsAfterResultType
      DEF RecordFailure, SetStateUnsafe, InFlightAfter, BreakerTypeOK
    <3>2. CASE SetStateUnsafe("open", SlotsAfterResult)
      <4>1. pending' \in [States -> 0 .. CallbackCap]
        BY <3>2, StartCallbackType DEF SetStateUnsafe, States
      <4> QED
        BY <3>2, <4>1, SlotsAfterResultType
        DEF SetStateUnsafe, InFlightAfter, States
    <3> QED
      BY <1>4, <3>1, <3>2 DEF RecordFailure
  <2>4. successes' \in 0 .. CountCap
    BY <1>4 DEF RecordFailure
  <2>5. elapsed' \in BOOLEAN /\ serverStable' \in BOOLEAN /\ forced' \in BOOLEAN
    BY <1>4, Zenon DEF RecordFailure, BreakerTypeOK
  <2>6. stateGauge' = stateGauge
    BY <1>4 DEF RecordFailure
  <2> QED
    BY <2>1, <2>2, <2>3, <2>4, <2>5, <2>6, Zenon DEF BreakerTypeOK
<1>5. ASSUME NEW c \in Callers, RecordSuccess(c)
      PROVE  BreakerTypeOK'
  <2>1. calls' \in [Callers -> Calls]
    BY <1>5, CallsAfterType DEF RecordSuccess, Calls
  <2>2. successes' \in 0 .. CountCap
    BY <1>5, BumpBounded DEF RecordSuccess, BreakerTypeOK
  <2>3. /\ pending' \in [States -> 0 .. CallbackCap]
        /\ halfOpenInFlight' \in Nat
        /\ state' \in States
    <3>1. CASE UNCHANGED <<state, pending>> /\ halfOpenInFlight' = SlotsAfterResult
      BY <3>1, SlotsAfterResultType DEF BreakerTypeOK
    <3>2. CASE SetStateUnsafe("closed", SlotsAfterResult)
      <4>1. pending' \in [States -> 0 .. CallbackCap]
        BY <3>2, StartCallbackType DEF SetStateUnsafe, States
      <4> QED
        BY <3>2, <4>1, SlotsAfterResultType
        DEF SetStateUnsafe, InFlightAfter, States
    <3> QED
      BY <1>5, <3>1, <3>2 DEF RecordSuccess
  <2> QED
    BY <1>5, <2>1, <2>2, <2>3 DEF RecordSuccess, BreakerTypeOK
<1>6. ASSUME Reset
      PROVE  BreakerTypeOK'
  <2>1. pending' \in [States -> 0 .. CallbackCap]
    BY <1>6, StartCallbackType DEF Reset, States
  <2>2. elapsed' \in BOOLEAN /\ serverStable' \in BOOLEAN /\ forced' \in BOOLEAN
    BY <1>6, Zenon DEF Reset, BreakerTypeOK
  <2>3. /\ state' \in States /\ calls' \in [Callers -> Calls]
        /\ failures' \in 0 .. CountCap /\ successes' \in 0 .. CountCap
        /\ halfOpenInFlight' \in Nat /\ stateGauge' = stateGauge
    BY <1>6 DEF Reset, BreakerTypeOK, States, Calls
  <2> QED
    BY <2>1, <2>2, <2>3, Zenon DEF BreakerTypeOK
<1>7. ASSUME ForceOpen
      PROVE  BreakerTypeOK'
  <2>1. pending' \in [States -> 0 .. CallbackCap]
    BY <1>7, StartCallbackType DEF ForceOpen, States
  <2> QED
    BY <1>7, <2>1 DEF ForceOpen, BreakerTypeOK, States, Calls
<1>8. ASSUME NEW s \in States, RunCallback(s)
      PROVE  BreakerTypeOK'
  BY <1>8 DEF RunCallback, BreakerTypeOK
<1>9. CASE TimeoutElapses \/ ServerRecovers \/ UNCHANGED breakerVars
  BY <1>9 DEF TimeoutElapses, ServerRecovers, breakerVars, BreakerTypeOK
<1> QED
  BY <1>1, <1>2, <1>3, <1>4, <1>5, <1>6, <1>7, <1>8, <1>9
  DEF BreakerNext, Admit, RecordResult

(* The breaker's variables keep their types: the counters stay within the  *)
(* caps and the in-flight count never goes below zero.                     *)
THEOREM BreakerTypeCorrect == BreakerSpec => []BreakerTypeOK
<1>1. BreakerInit => BreakerTypeOK
  <2>1. "closed" \in States
    BY DEF States
  <2>2. BreakerInit => elapsed \in BOOLEAN /\ serverStable \in BOOLEAN
    BY Zenon DEF BreakerInit
  <2>3. BreakerInit => stateGauge \in {StateValue[s] : s \in States}
    BY <2>1, Zenon DEF BreakerInit
  <2>4. BreakerInit => /\ failures \in 0 .. CountCap
                /\ successes \in 0 .. CountCap
                /\ halfOpenInFlight \in Nat
                /\ calls \in [Callers -> Calls]
                /\ pending \in [States -> 0 .. CallbackCap]
    BY BreakerAssumption DEF BreakerInit, Calls
  <2> QED
    BY <2>1, <2>2, <2>3, <2>4, Zenon DEF BreakerInit, BreakerTypeOK
<1>2. BreakerTypeOK /\ [BreakerNext]_breakerVars => BreakerTypeOK'
  BY BreakerTypeStep
<1> QED
  BY <1>1, <1>2, PTL DEF BreakerSpec

-----------------------------------------------------------------------------
(* A step from a closed breaker below its limit leaves it below or opens   *)
(* it, and a breaker closes only with its failures cleared.                *)
LEMMA ClosedBelowLimitStep ==
  ASSUME BreakerTypeOK, ClosedBelowLimit, [BreakerNext]_breakerVars
  PROVE  ClosedBelowLimit'
<1> USE BreakerAssumption DEF ClosedBelowLimit, BreakerTypeOK
<1>1. ASSUME NEW c \in Callers, Admit(c)
      PROVE  ClosedBelowLimit'
  BY <1>1 DEF Admit, AdmitClosed, AdmitFirstProbe, AdmitProbe, SetStateUnsafe
<1>2. ASSUME NEW c \in Callers, RecordFailure(c)
      PROVE  ClosedBelowLimit'
  BY <1>2 DEF RecordFailure, SetStateUnsafe, Trips, Bump
<1>3. ASSUME NEW c \in Callers, RecordSuccess(c)
      PROVE  ClosedBelowLimit'
  BY <1>3 DEF RecordSuccess, SetStateUnsafe
<1>4. CASE Reset \/ ForceOpen
  BY <1>4 DEF Reset, ForceOpen
<1>5. ASSUME NEW s \in States, RunCallback(s)
      PROVE  ClosedBelowLimit'
  BY <1>5 DEF RunCallback
<1>6. CASE TimeoutElapses \/ ServerRecovers \/ UNCHANGED breakerVars
  BY <1>6 DEF TimeoutElapses, ServerRecovers, breakerVars
<1> QED
  BY <1>1, <1>2, <1>3, <1>4, <1>5, <1>6 DEF BreakerNext, RecordResult

(* A closed circuit has fewer than MaxFailures failures on its count, for  *)
(* any number of callers and any order in which late results, ageing and   *)
(* manual control reach the counter.                                       *)
THEOREM ClosedStaysBelowLimit == BreakerSpec => []ClosedBelowLimit
<1>1. BreakerInit => ClosedBelowLimit
  BY BreakerAssumption DEF BreakerInit, ClosedBelowLimit
<1>2. BreakerTypeOK /\ ClosedBelowLimit /\ [BreakerNext]_breakerVars => ClosedBelowLimit'
  BY ClosedBelowLimitStep
<1> QED
  BY <1>1, <1>2, BreakerTypeCorrect, PTL DEF BreakerSpec

-----------------------------------------------------------------------------
(* Admitting a caller that was idle adds one probe.                        *)
LEMMA AdmittedProbeCounts ==
  ASSUME BreakerTypeOK, NEW c \in Callers, calls[c] = "idle",
         calls' = CallsAfter(c, "probing", "halfOpen")
  PROVE  Cardinality(Probes') = Cardinality(Probes) + 1
<1>1. Probes' = Probes \cup {c}
  BY DEF BreakerTypeOK, Probes, CallsAfter
<1>2. c \notin Probes
  BY DEF Probes
<1> QED
  BY <1>1, <1>2, ProbesFinite, FS_AddElement

(* A result recorded in the half-open state ends at most one probe.        *)
LEMMA EndedCallCounts ==
  ASSUME BreakerTypeOK, NEW c \in Callers, calls' = CallsAfter(c, "idle", "halfOpen")
  PROVE  /\ Cardinality(Probes') \in Nat
         /\ Cardinality(Probes') >= Cardinality(Probes) - 1
<1>1. Probes' = Probes \ {c}
  BY DEF BreakerTypeOK, Probes, CallsAfter
<1>2. Cardinality(Probes) \in Nat
  BY ProbesFinite, FS_CardinalityType
<1>3. Cardinality(Probes') = IF c \in Probes THEN Cardinality(Probes) - 1
                                             ELSE Cardinality(Probes)
  BY <1>1, ProbesFinite, FS_RemoveElement
<1>4. IsFiniteSet(Probes')
  BY <1>1, ProbesFinite, FS_RemoveElement
<1>5. Cardinality(Probes') \in Nat
  BY <1>4, FS_CardinalityType
<1> QED
  BY <1>2, <1>3, <1>5

(* While the breaker is half-open, an admission takes a slot together with *)
(* a probe, and a result gives at most the slot of one probe back.         *)
LEMMA NoLeakedSlotStep ==
  ASSUME BreakerTypeOK, NoLeakedSlot, [BreakerNext]_breakerVars
  PROVE  NoLeakedSlot'
<1> USE BreakerAssumption
<1>0. Cardinality(Probes) \in Nat
  BY ProbesFinite, FS_CardinalityType
<1>1. ASSUME NEW c \in Callers, AdmitClosed(c)
      PROVE  NoLeakedSlot'
  BY <1>1 DEF AdmitClosed, NoLeakedSlot
<1>2. ASSUME NEW c \in Callers, AdmitFirstProbe(c)
      PROVE  NoLeakedSlot'
  <2>1. Cardinality(Probes') = Cardinality(Probes) + 1
    BY <1>2, AdmittedProbeCounts DEF AdmitFirstProbe
  <2>2. halfOpenInFlight' = 1
    BY <1>2 DEF AdmitFirstProbe, SetStateUnsafe, InFlightAfter
  <2> QED
    BY <1>0, <2>1, <2>2 DEF NoLeakedSlot
<1>3. ASSUME NEW c \in Callers, AdmitProbe(c)
      PROVE  NoLeakedSlot'
  <2>1. Cardinality(Probes') = Cardinality(Probes) + 1
    BY <1>3, AdmittedProbeCounts DEF AdmitProbe
  <2> QED
    BY <1>0, <1>3, <2>1 DEF AdmitProbe, ProbeSlotFree, NoLeakedSlot, BreakerTypeOK
<1>4. ASSUME NEW c \in Callers, RecordFailure(c)
      PROVE  NoLeakedSlot'
  BY <1>4 DEF RecordFailure, SetStateUnsafe, NoLeakedSlot
<1>5. ASSUME NEW c \in Callers, RecordSuccess(c)
      PROVE  NoLeakedSlot'
  <2>1. CASE state' # "halfOpen"
    BY <2>1 DEF NoLeakedSlot
  <2>2. CASE state' = "halfOpen"
    <3>1. /\ state = "halfOpen"
          /\ calls' = CallsAfter(c, "idle", "halfOpen")
          /\ halfOpenInFlight' = SlotsAfterResult
      BY <1>5, <2>2 DEF RecordSuccess, SetStateUnsafe
    <3>2. /\ Cardinality(Probes') \in Nat
          /\ Cardinality(Probes') >= Cardinality(Probes) - 1
      BY <3>1, EndedCallCounts
    <3> QED
      BY <1>0, <3>1, <3>2 DEF SlotsAfterResult, NoLeakedSlot, BreakerTypeOK
  <2> QED
    BY <2>1, <2>2
<1>6. CASE Reset \/ ForceOpen
  BY <1>6 DEF Reset, ForceOpen, NoLeakedSlot
<1>7. ASSUME NEW s \in States, RunCallback(s)
      PROVE  NoLeakedSlot'
  BY <1>7 DEF RunCallback, NoLeakedSlot, Probes
<1>8. CASE TimeoutElapses \/ ServerRecovers \/ UNCHANGED breakerVars
  BY <1>8 DEF TimeoutElapses, ServerRecovers, breakerVars, NoLeakedSlot, Probes
<1> QED
  BY <1>1, <1>2, <1>3, <1>4, <1>5, <1>6, <1>7, <1>8
  DEF BreakerNext, Admit, RecordResult

(* Every slot counted by halfOpenInFlight belongs to a probe that still    *)
(* runs, so a breaker that refuses calls for want of a slot always has a   *)
(* probe whose result will free one; and the count stays within            *)
(* SuccessThreshold.                                                       *)
THEOREM SlotsNeverLeak == BreakerSpec => []NoLeakedSlot
<1>1. BreakerInit => NoLeakedSlot
  BY DEF BreakerInit, NoLeakedSlot
<1>2. BreakerTypeOK /\ NoLeakedSlot /\ [BreakerNext]_breakerVars => NoLeakedSlot'
  BY NoLeakedSlotStep
<1> QED
  BY <1>1, <1>2, BreakerTypeCorrect, PTL DEF BreakerSpec

-----------------------------------------------------------------------------
(* An open breaker has no successes to its credit, apart from those that   *)
(* ForceOpen left.                                                         *)
OpenHasNoCredit == state = "open" => successes = 0 \/ forced

(* The breaker opens through onFailure, which clears the successes, or     *)
(* through ForceOpen; and an open breaker counts none.                     *)
LEMMA OpenHasNoCreditStep ==
  ASSUME OpenHasNoCredit, [BreakerNext]_breakerVars
  PROVE  OpenHasNoCredit'
<1> USE DEF OpenHasNoCredit
<1>1. ASSUME NEW c \in Callers, Admit(c)
      PROVE  OpenHasNoCredit'
  BY <1>1 DEF Admit, AdmitClosed, AdmitFirstProbe, AdmitProbe, SetStateUnsafe
<1>2. ASSUME NEW c \in Callers, RecordFailure(c)
      PROVE  OpenHasNoCredit'
  BY <1>2 DEF RecordFailure
<1>3. ASSUME NEW c \in Callers, RecordSuccess(c)
      PROVE  OpenHasNoCredit'
  BY <1>3 DEF RecordSuccess, SetStateUnsafe
<1>4. ASSUME NEW s \in States, RunCallback(s)
      PROVE  OpenHasNoCredit'
  BY <1>4 DEF RunCallback
<1>5. CASE TimeoutElapses \/ ServerRecovers \/ UNCHANGED breakerVars
  BY <1>5 DEF TimeoutElapses, ServerRecovers, breakerVars
<1>6. CASE Reset \/ ForceOpen
  BY <1>6 DEF Reset, ForceOpen
<1> QED
  BY <1>1, <1>2, <1>3, <1>4, <1>5, <1>6 DEF BreakerNext, RecordResult

(* Every half-open period starts from zero successes, so that closing the  *)
(* circuit takes SuccessThreshold of them, unless ForceOpen opened it.     *)
THEOREM HalfOpenPeriodsStartFromZero == BreakerSpec => HalfOpenStartsFromZero
<1>1. BreakerInit => OpenHasNoCredit
  BY DEF BreakerInit, OpenHasNoCredit
<1>2. OpenHasNoCredit /\ [BreakerNext]_breakerVars => OpenHasNoCredit'
  BY OpenHasNoCreditStep
<1>3. ASSUME OpenHasNoCredit, [BreakerNext]_breakerVars
      PROVE  [state = "open" /\ state' = "halfOpen" => successes' = 0 \/ forced]_breakerVars
  <2>1. ASSUME NEW c \in Callers, Admit(c)
        PROVE  state = "open" => successes' = 0 \/ forced
    BY <1>3, <2>1
    DEF OpenHasNoCredit, Admit, AdmitClosed, AdmitFirstProbe, AdmitProbe
  <2>2. ASSUME NEW c \in Callers, RecordResult(c)
        PROVE  state = "open" => state' # "halfOpen"
    BY <2>2 DEF RecordResult, RecordFailure, RecordSuccess
  <2>3. ASSUME NEW s \in States, RunCallback(s)
        PROVE  state' = state
    BY <2>3 DEF RunCallback
  <2>4. CASE TimeoutElapses \/ ServerRecovers \/ UNCHANGED breakerVars
    BY <2>4 DEF TimeoutElapses, ServerRecovers, breakerVars
  <2> QED
    BY <1>3, <2>1, <2>2, <2>3, <2>4 DEF BreakerNext, Reset, ForceOpen
<1> QED
  BY <1>1, <1>2, <1>3, PTL DEF BreakerSpec, HalfOpenStartsFromZero

=============================================================================
