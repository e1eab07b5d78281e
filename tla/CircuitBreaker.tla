--------------------------- MODULE CircuitBreaker ---------------------------
(***************************************************************************)
(* The circuit breaker of pkg/circuitbreaker: admission (checkCanExecute)  *)
(* and the recording of a result (recordResult) are critical sections of   *)
(* one mutex; the protected function runs between them, outside the lock,  *)
(* so a result may be recorded in another state than the one the call was  *)
(* admitted in.  Each state change starts a goroutine that runs the        *)
(* callback, which writes the exported gauge; nothing orders them.         *)
(* Time is the fact `elapsed': now - lastFailureTime >= Timeout.           *)
(***************************************************************************)
EXTENDS Integers, FiniteSets

CONSTANTS Callers,          \* goroutines that call through the breaker
          MaxFailures,      \* failures in a row that open the circuit
          SuccessThreshold, \* successes that close it, and the probe limit
          CountCap,         \* bound at which failures and successes saturate
          CallbackCap,      \* bound on the callbacks pending for one state
          ManualControl     \* whether Reset and ForceOpen are ever called

ASSUME BreakerAssumption ==
       /\ IsFiniteSet(Callers)
       /\ MaxFailures \in Nat \ {0}
       /\ SuccessThreshold \in Nat \ {0}
       /\ CountCap \in Nat
       /\ CountCap >= MaxFailures
       /\ CountCap >= SuccessThreshold
       /\ CallbackCap \in Nat
       /\ ManualControl \in BOOLEAN

VARIABLES
  state,            \* cb.state
  failures,         \* cb.failures
  successes,        \* cb.successes
  elapsed,          \* Timeout has passed since cb.lastFailureTime
  halfOpenInFlight, \* cb.halfOpenInFlight
  calls,            \* what each caller does; see Calls
  pending,          \* callbacks started and not yet run, by new state
  stateGauge,       \* the exported openldap_exporter_circuit_breaker_state
  serverStable,     \* from now on no call fails and nobody intervenes
  forced            \* history: ForceOpen was called and no failure since

breakerVars == <<state, failures, successes, elapsed, halfOpenInFlight, calls,
                 pending, stateGauge, serverStable, forced>>

States == {"closed", "open", "halfOpen"}

(* The numeric values of the State constants.                              *)
StateValue == [closed |-> 0, open |-> 1, halfOpen |-> 2]

(* A caller is idle, or runs the function after being admitted in the      *)
(* closed state ("running") or as a probe of the half-open period that is  *)
(* still going on ("probing"); a probe that outlives its period becomes    *)
(* an ordinary call.  The code keeps no such record: the distinction only  *)
(* serves the properties.                                                  *)
Calls == {"idle", "running", "probing"}

Probes == {c \in Callers : calls[c] = "probing"}

BreakerTypeOK ==
  /\ state \in States
  /\ failures \in 0 .. CountCap
  /\ successes \in 0 .. CountCap
  /\ elapsed \in BOOLEAN
  /\ halfOpenInFlight \in Nat
  /\ calls \in [Callers -> Calls]
  /\ pending \in [States -> 0 .. CallbackCap]
  /\ stateGauge \in {StateValue[s] : s \in States}
  /\ serverStable \in BOOLEAN
  /\ forced \in BOOLEAN

(* NewCircuitBreaker, and newMonitoredClient's record of the first state.  *)
BreakerInit ==
  /\ state = "closed"
  /\ failures = 0
  /\ successes = 0
  /\ elapsed = TRUE
  /\ halfOpenInFlight = 0
  /\ calls = [c \in Callers |-> "idle"]
  /\ pending = [s \in States |-> 0]
  /\ stateGauge = StateValue["closed"]
  /\ serverStable = FALSE
  /\ forced = FALSE

-----------------------------------------------------------------------------
(* State changes. *)

Bump(n, cap) == IF n < cap THEN n + 1 ELSE n

(* go cb.executeCallback(cb.onStateChange, oldState, newState)             *)
StartCallback(new) ==
  pending' = [pending EXCEPT ![new] = Bump(@, CallbackCap)]

(* setStateUnsafe: the caller says which value the in-flight count would   *)
(* have had; leaving the half-open state clears it.                        *)
InFlightAfter(new, n) == IF state = "halfOpen" /\ new # "halfOpen" THEN 0 ELSE n

SetStateUnsafe(new, inFlight) ==
  /\ state' = new
  /\ halfOpenInFlight' = InFlightAfter(new, inFlight)
  /\ StartCallback(new)

(* The callers' records when caller c moves to `what' and the breaker to   *)
(* state new.                                                              *)
CallsAfter(c, what, new) ==
  [d \in Callers |->
     IF d = c THEN what
     ELSE IF calls[d] = "probing" /\ new # "halfOpen" THEN "running"
     ELSE calls[d]]

-----------------------------------------------------------------------------
(* checkCanExecute and canExecuteUnsafe.  A refused call changes nothing   *)
(* but statistics: it is the case in which none of these is enabled.       *)

AdmitClosed(c) ==
  /\ calls[c] = "idle"
  /\ state = "closed"
  /\ failures' = IF elapsed THEN 0 ELSE failures
  /\ calls' = CallsAfter(c, "running", "closed")
  /\ UNCHANGED <<state, successes, elapsed, halfOpenInFlight, pending, stateGauge,
                 serverStable, forced>>

(* Mutant: the first probe adds to the in-flight count instead of setting  *)
(* it.                                                                     *)
AdmitFirstProbeAdds(c) ==
  /\ calls[c] = "idle"
  /\ state = "open"
  /\ elapsed
  /\ SetStateUnsafe("halfOpen", halfOpenInFlight + 1)
  /\ calls' = CallsAfter(c, "probing", "halfOpen")
  /\ UNCHANGED <<failures, successes, elapsed, stateGauge, serverStable, forced>>

AdmitFirstProbe(c) ==
  /\ calls[c] = "idle"
  /\ state = "open"
  /\ elapsed
  /\ SetStateUnsafe("halfOpen", 1)
  /\ calls' = CallsAfter(c, "probing", "halfOpen")
  /\ UNCHANGED <<failures, successes, elapsed, stateGauge, serverStable, forced>>

ProbeSlotFree == halfOpenInFlight < SuccessThreshold

AdmitProbe(c) ==
  /\ calls[c] = "idle"
  /\ state = "halfOpen"
  /\ ProbeSlotFree
  /\ halfOpenInFlight' = halfOpenInFlight + 1
  /\ calls' = CallsAfter(c, "probing", "halfOpen")
  /\ UNCHANGED <<state, failures, successes, elapsed, pending, stateGauge,
                 serverStable, forced>>

Admit(c) == AdmitClosed(c) \/ AdmitFirstProbe(c) \/ AdmitProbe(c)

-----------------------------------------------------------------------------
(* recordResult: the slot is given back whenever the breaker is half-open, *)
(* whatever state the call was admitted in.                                *)

SlotsAfterResult ==
  IF state = "halfOpen" /\ halfOpenInFlight > 0 THEN halfOpenInFlight - 1
                                                ELSE halfOpenInFlight

(* Mutants: the circuit trips one failure too late, and a failure leaves   *)
(* the successes counted so far.                                           *)
TripsLate(n) == n > MaxFailures

FailureKeepsSuccesses(c) ==
  LET counted == Bump(failures, CountCap)
      new == IF state = "halfOpen" \/ (state = "closed" /\ counted >= MaxFailures)
             THEN "open" ELSE state
  IN  /\ calls[c] # "idle"
      /\ ~serverStable
      /\ failures' = counted
      /\ elapsed' = FALSE
      /\ calls' = CallsAfter(c, "idle", new)
      /\ IF new # state
         THEN SetStateUnsafe(new, SlotsAfterResult)
         ELSE /\ halfOpenInFlight' = SlotsAfterResult
              /\ UNCHANGED <<state, pending>>
      /\ forced' = FALSE
      /\ UNCHANGED <<successes, stateGauge, serverStable>>

(* onFailure *)
Trips(n) == n >= MaxFailures

RecordFailure(c) ==
  LET counted == Bump(failures, CountCap)
      new == IF state = "halfOpen" \/ (state = "closed" /\ Trips(counted))
             THEN "open" ELSE state
  IN  /\ calls[c] # "idle"
      /\ ~serverStable
      /\ failures' = counted
      /\ successes' = 0
      /\ elapsed' = FALSE
      /\ calls' = CallsAfter(c, "idle", new)
      /\ IF new # state
         THEN SetStateUnsafe(new, SlotsAfterResult)
         ELSE /\ halfOpenInFlight' = SlotsAfterResult
              /\ UNCHANGED <<state, pending>>
      /\ forced' = FALSE
      /\ UNCHANGED <<stateGauge, serverStable>>

(* Mutant: a success counts in the closed state only.                      *)
SuccessOnlyWhenClosed(c) ==
  /\ calls[c] # "idle"
  /\ failures' = IF state = "closed" THEN 0 ELSE failures
  /\ calls' = CallsAfter(c, "idle", state)
  /\ halfOpenInFlight' = SlotsAfterResult
  /\ UNCHANGED <<state, successes, elapsed, pending, stateGauge, serverStable, forced>>

(* onSuccess *)
RecordSuccess(c) ==
  LET counted == Bump(successes, CountCap)
      closes == state = "halfOpen" /\ counted >= SuccessThreshold
      new == IF closes THEN "closed" ELSE state
  IN  /\ calls[c] # "idle"
      /\ successes' = IF state = "halfOpen" THEN counted ELSE successes
      /\ failures' = IF state = "closed" \/ closes THEN 0 ELSE failures
      /\ calls' = CallsAfter(c, "idle", new)
      /\ IF closes
         THEN SetStateUnsafe("closed", SlotsAfterResult)
         ELSE /\ halfOpenInFlight' = SlotsAfterResult
              /\ UNCHANGED <<state, pending>>
      /\ UNCHANGED <<elapsed, stateGauge, serverStable, forced>>

RecordResult(c) == RecordFailure(c) \/ RecordSuccess(c)

-----------------------------------------------------------------------------
(* Manual control: neither clears the in-flight count, and ForceOpen       *)
(* touches neither the counters nor lastFailureTime.                       *)

Reset ==
  /\ ManualControl /\ ~serverStable
  /\ state' = "closed"
  /\ failures' = 0
  /\ successes' = 0
  /\ StartCallback("closed")
  /\ calls' = [c \in Callers |-> IF calls[c] = "probing" THEN "running"
                                                         ELSE calls[c]]
  /\ forced' = FALSE
  /\ UNCHANGED <<elapsed, halfOpenInFlight, stateGauge, serverStable>>

ForceOpen ==
  /\ ManualControl /\ ~serverStable
  /\ state # "open"
  /\ state' = "open"
  /\ StartCallback("open")
  /\ calls' = [c \in Callers |-> IF calls[c] = "probing" THEN "running"
                                                         ELSE calls[c]]
  /\ forced' = TRUE
  /\ UNCHANGED <<failures, successes, elapsed, halfOpenInFlight, stateGauge,
                 serverStable>>

-----------------------------------------------------------------------------
(* The environment. *)

(* executeCallback runs some pending callback, which calls                 *)
(* RecordCircuitBreakerState with its new state.                           *)
RunCallback(s) ==
  /\ pending[s] > 0
  /\ pending' = [pending EXCEPT ![s] = @ - 1]
  /\ stateGauge' = StateValue[s]
  /\ UNCHANGED <<state, failures, successes, elapsed, halfOpenInFlight, calls,
                 serverStable, forced>>

TimeoutElapses ==
  /\ ~elapsed
  /\ elapsed' = TRUE
  /\ UNCHANGED <<state, failures, successes, halfOpenInFlight, calls, pending,
                 stateGauge, serverStable, forced>>

ServerRecovers ==
  /\ ~serverStable
  /\ serverStable' = TRUE
  /\ UNCHANGED <<state, failures, successes, elapsed, halfOpenInFlight, calls,
                 pending, stateGauge, forced>>

BreakerNext ==
  \/ \E c \in Callers : Admit(c) \/ RecordResult(c)
  \/ Reset
  \/ ForceOpen
  \/ \E s \in States : RunCallback(s)
  \/ TimeoutElapses
  \/ ServerRecovers

BreakerSpec == BreakerInit /\ [][BreakerNext]_breakerVars

(* Every protected call returns (it runs under a 30 s context and the LDAP *)
(* timeout), time passes, and started goroutines run.                      *)
BreakerFairness ==
  /\ \A c \in Callers : WF_breakerVars(RecordResult(c))
  /\ WF_breakerVars(TimeoutElapses)
  /\ \A s \in States : WF_breakerVars(RunCallback(s))

FairBreakerSpec == BreakerSpec /\ BreakerFairness

(* In addition the collection ticker keeps calling.                        *)
PollingSpec ==
  FairBreakerSpec /\ \A c \in Callers : WF_breakerVars(Admit(c))

-----------------------------------------------------------------------------
(* Properties. *)

(* A closed circuit has not met its failure limit: the trip in onFailure,  *)
(* the ageing in canExecuteUnsafe and the resets in onSuccess, Reset and   *)
(* setStateUnsafe's callers never leave a closed breaker that should have  *)
(* opened, even when it closes with results of older calls outstanding.    *)
ClosedBelowLimit == state = "closed" => failures < MaxFailures

(* No probe slot leaks: in the half-open state the slots in use never      *)
(* exceed SuccessThreshold, and every slot in use belongs to a probe of    *)
(* this half-open period that is still running, so that a full breaker     *)
(* always has a probe whose result will free a slot.                       *)
NoLeakedSlot ==
  state = "halfOpen" =>
    /\ halfOpenInFlight <= SuccessThreshold
    /\ halfOpenInFlight <= Cardinality(Probes)

(* A half-open period starts with no successes to its credit, so that      *)
(* SuccessThreshold successes are needed to close the circuit - unless     *)
(* ForceOpen, which keeps the count, opened it and no call failed since.   *)
HalfOpenStartsFromZero ==
  [][state = "open" /\ state' = "halfOpen" => successes' = 0 \/ forced]_breakerVars

(* Once no call fails any more, nobody intervenes and the ticker keeps     *)
(* calling, the circuit closes and stays closed: no refusal lasts for      *)
(* ever, although failures of before keep lastFailureTime recent and their *)
(* slots taken, and whatever Reset and ForceOpen left behind.              *)
RecoversForGood == serverStable ~> [](state = "closed")

=============================================================================
