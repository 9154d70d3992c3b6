------------------------- MODULE CloudClientProofs -------------------------
(***************************************************************************)
(* TLAPS proofs about CloudClient, for any number of callers and any       *)
(* positive limits.                                                        *)
(***************************************************************************)
EXTENDS CloudClient, TLAPS

\* cloudLock is held exactly by the one caller that is past checkBreaker.
LockInv == \A c \in Callers : pc[c] \in {"ready", "inflight"} <=> lock = c

\* A call on its first attempt has not seen the breaker open since its check.
AdmittedInv ==
    \A c \in Callers :
        pc[c] \in {"ready", "inflight"} /\ attempt[c] = 0 => ~CircuitOpen

\* A GET under way inside the scan-ignore window has been overtaken.
WindowInv ==
    \A r \in Readers : pc[r] # "idle" /\ ScanIgnored => overtaken[r]

IInv ==
    /\ TypeOK
    /\ LockInv
    /\ AdmittedInv
    /\ WindowInv
    /\ BreakerMatchesCounter

USE DEF Callers

----------------------------------------------------------------------------
(* How a call ends or goes on. *)

\* Whatever ends or continues a call keeps the types of pc, lock and attempt and
\* touches no other caller's entry.
LEMMA RetryStep ==
    ASSUME TypeOK, NEW c \in Callers, attempt[c] < MaxAttempts(c), Retry(c) \/ Return(c)
    PROVE  /\ pc' \in [Callers -> {"idle", "queued", "ready", "inflight"}]
           /\ attempt' \in [Callers -> Nat]
           /\ \A d \in Callers : attempt'[d] < MaxAttempts(d)
           /\ \A d \in Callers \ {c} : pc'[d] = pc[d] /\ attempt'[d] = attempt[d]
           /\ \/ pc'[c] = "ready" /\ lock' = lock /\ attempt'[c] > 0
              \/ pc'[c] = "idle" /\ lock' = NoOne
  <1>1. MaxAttempts(c) \in Nat \ {0}
    BY LimitsPositive DEF MaxAttempts
  <1>2. \A d \in Callers : attempt[d] \in Nat /\ attempt[d] < MaxAttempts(d)
    BY DEF TypeOK
  <1>3. CASE Return(c)
    BY <1>1, <1>2, <1>3 DEF TypeOK, Return
  <1>4. CASE Retry(c) /\ AttemptsLeft(c)
    BY <1>1, <1>2, <1>4 DEF TypeOK, Retry, AttemptsLeft
  <1>5. CASE Retry(c) /\ ~AttemptsLeft(c)
    BY <1>3, <1>5 DEF Retry
  <1> QED
    BY <1>3, <1>4, <1>5

\* recordFailure keeps the breaker and its counter together.
LEMMA FailureStep ==
    ASSUME TypeOK, BreakerMatchesCounter, RecordFailure
    PROVE  /\ cbState' \in {"closed", "open", "halfopen"}
           /\ cbFailures' \in 0..CbThreshold
           /\ cbAge' \in 0..CbRecovery
           /\ BreakerMatchesCounter'
  BY LimitsPositive
  DEF TypeOK, BreakerMatchesCounter, RecordFailure, Reopens, Trips

\* recordSuccess closes the breaker.
LEMMA SuccessStep ==
    ASSUME TypeOK, RecordSuccess
    PROVE  /\ cbState' = "closed" /\ cbFailures' = 0 /\ cbAge' = cbAge
           /\ BreakerMatchesCounter'
           /\ ~CircuitOpen'
  BY LimitsPositive DEF TypeOK, BreakerMatchesCounter, RecordSuccess, CircuitOpen

----------------------------------------------------------------------------
(* The inductive invariant. *)

\* The initial states satisfy the invariant.
LEMMA InitIInv == Init => IInv
  BY LimitsPositive, CallersDisjoint
  DEF Init, IInv, TypeOK, MaxAttempts, LockInv, AdmittedInv, WindowInv,
      BreakerMatchesCounter, ScanIgnored

\* An action that ends or continues the call of the lock holder and leaves the
\* breaker and the scan-ignore window alone.
LEMMA QuietStep ==
    ASSUME IInv, NEW c \in Callers, pc[c] \in {"ready", "inflight"},
           Retry(c) \/ Return(c), refreshed' \in [Callers -> BOOLEAN],
           UNCHANGED <<breaker, patchAge, overtaken>>
    PROVE  IInv'
  <1> USE DEF IInv, breaker
  <1>1. TypeOK'
    BY RetryStep, CallersDisjoint DEF TypeOK
  <1>2. LockInv'
    BY RetryStep, CallersDisjoint DEF LockInv, TypeOK
  <1>3. AdmittedInv'
    BY RetryStep, LimitsPositive DEF AdmittedInv, TypeOK, CircuitOpen
  <1>4. WindowInv'
    BY RetryStep DEF WindowInv, ScanIgnored, TypeOK
  <1>5. BreakerMatchesCounter'
    BY DEF BreakerMatchesCounter
  <1> QED
    BY <1>1, <1>2, <1>3, <1>4, <1>5

\* Every step keeps the invariant.
LEMMA NextIInv == IInv /\ [Next]_vars => IInv'
  <1> SUFFICES ASSUME IInv, [Next]_vars
               PROVE  IInv'
    OBVIOUS
  <1> USE DEF IInv, breaker
  <1>1. ASSUME NEW c \in Readers, StartGet(c)
        PROVE  IInv'
    <2>1. TypeOK'
      BY <1>1 DEF TypeOK, StartGet
    <2>2. LockInv'
      BY <1>1 DEF LockInv, TypeOK, StartGet
    <2>3. AdmittedInv' /\ BreakerMatchesCounter'
      BY <1>1 DEF AdmittedInv, BreakerMatchesCounter, CircuitOpen, TypeOK, StartGet
    <2>4. WindowInv'
      BY <1>1 DEF WindowInv, ScanIgnored, TypeOK, StartGet
    <2> QED
      BY <2>1, <2>2, <2>3, <2>4
  <1>2. ASSUME NEW c \in Writers, StartPatch(c)
        PROVE  IInv'
    <2>1. TypeOK'
      BY <1>2 DEF TypeOK, StartPatch
    <2>2. LockInv'
      BY <1>2 DEF LockInv, TypeOK, StartPatch
    <2>3. AdmittedInv' /\ BreakerMatchesCounter'
      BY <1>2 DEF AdmittedInv, BreakerMatchesCounter, CircuitOpen, TypeOK, StartPatch
    <2>4. WindowInv'
      BY <1>2, CallersDisjoint DEF WindowInv, ScanIgnored, TypeOK, StartPatch
    <2> QED
      BY <2>1, <2>2, <2>3, <2>4
  <1>3. ASSUME NEW c \in Callers, Admit(c)
        PROVE  IInv'
    <2>1. TypeOK'
      BY <1>3, LimitsPositive DEF TypeOK, MaxAttempts, Admit, HalfOpen
    <2>2. LockInv'
      BY <1>3, CallersDisjoint DEF LockInv, TypeOK, Admit, LockFree
    <2>3. AdmittedInv'
      BY <1>3 DEF AdmittedInv, CircuitOpen, TypeOK, Admit, HalfOpen
    <2>4. WindowInv'
      BY <1>3 DEF WindowInv, ScanIgnored, TypeOK, Admit
    <2>5. BreakerMatchesCounter'
      BY <1>3 DEF BreakerMatchesCounter, TypeOK, Admit, HalfOpen
    <2> QED
      BY <2>1, <2>2, <2>3, <2>4, <2>5
  <1>4. ASSUME NEW c \in Callers, ShortCircuit(c)
        PROVE  IInv'
    <2>1. TypeOK'
      BY <1>4 DEF TypeOK, ShortCircuit
    <2>2. LockInv'
      BY <1>4 DEF LockInv, TypeOK, ShortCircuit
    <2>3. AdmittedInv' /\ BreakerMatchesCounter'
      BY <1>4 DEF AdmittedInv, BreakerMatchesCounter, CircuitOpen, TypeOK, ShortCircuit
    <2>4. WindowInv'
      BY <1>4 DEF WindowInv, ScanIgnored, TypeOK, ShortCircuit
    <2> QED
      BY <2>1, <2>2, <2>3, <2>4
  <1>5. ASSUME NEW c \in Callers, Send(c)
        PROVE  IInv'
    <2>1. TypeOK'
      BY <1>5 DEF TypeOK, Send
    <2>2. LockInv'
      BY <1>5 DEF LockInv, TypeOK, Send
    <2>3. AdmittedInv' /\ BreakerMatchesCounter'
      BY <1>5 DEF AdmittedInv, BreakerMatchesCounter, CircuitOpen, TypeOK, Send
    <2>4. WindowInv'
      BY <1>5 DEF WindowInv, ScanIgnored, TypeOK, Send
    <2> QED
      BY <2>1, <2>2, <2>3, <2>4
  <1>6. ASSUME NEW c \in Callers, Abandon(c)
        PROVE  IInv'
    BY <1>6, QuietStep DEF Abandon, TypeOK
  <1>7. ASSUME NEW c \in Callers, Unauthorized(c)
        PROVE  IInv'
    <2>1. refreshed' \in [Callers -> BOOLEAN]
      BY <1>7 DEF Unauthorized, TypeOK
    <2> QED
      BY <1>7, <2>1, QuietStep DEF Unauthorized
  <1>8. ASSUME NEW c \in Callers, Refused(c)
        PROVE  IInv'
    BY <1>8, QuietStep DEF Refused, TypeOK
  <1>9. ASSUME NEW c \in Readers, GetOk(c)
        PROVE  IInv'
    <2>1. Return(c) /\ RecordSuccess /\ pc[c] = "inflight"
          /\ UNCHANGED <<refreshed, patchAge, overtaken>>
      BY <1>9 DEF GetOk
    <2>2. TypeOK'
      BY <2>1, RetryStep, SuccessStep, CallersDisjoint, LimitsPositive DEF TypeOK
    <2>3. LockInv'
      BY <2>1, RetryStep, CallersDisjoint DEF LockInv, TypeOK
    <2>4. AdmittedInv' /\ BreakerMatchesCounter'
      BY <2>1, SuccessStep DEF AdmittedInv
    <2>5. WindowInv'
      BY <2>1, RetryStep DEF WindowInv, ScanIgnored, TypeOK
    <2> QED
      BY <2>2, <2>3, <2>4, <2>5
  <1>10. ASSUME NEW c \in Writers, PatchOk(c)
         PROVE  IInv'
    <2>1. Return(c) /\ RecordSuccess /\ pc[c] = "inflight" /\ UNCHANGED refreshed
      BY <1>10 DEF PatchOk
    <2>2. TypeOK'
      BY <1>10, <2>1, RetryStep, SuccessStep, CallersDisjoint, LimitsPositive
      DEF TypeOK, PatchOk
    <2>3. LockInv'
      BY <2>1, RetryStep, CallersDisjoint DEF LockInv, TypeOK
    <2>4. AdmittedInv' /\ BreakerMatchesCounter'
      BY <2>1, SuccessStep DEF AdmittedInv
    <2>5. WindowInv'
      <3> SUFFICES ASSUME NEW r \in Readers, pc'[r] # "idle"
                   PROVE  overtaken'[r]
        BY DEF WindowInv
      <3>1. r # c /\ pc'[r] = pc[r]
        BY <2>1, RetryStep, CallersDisjoint DEF TypeOK
      <3>2. lock = c
        BY <2>1 DEF LockInv
      <3>3. pc[r] = "queued"
        BY <3>1, <3>2 DEF LockInv, TypeOK
      <3> QED
        BY <1>10, <3>3 DEF PatchOk
    <2> QED
      BY <2>2, <2>3, <2>4, <2>5
  <1>11. ASSUME NEW c \in Callers, ServerFault(c)
         PROVE  IInv'
    <2>1. (Retry(c) \/ Return(c)) /\ RecordFailure /\ pc[c] = "inflight"
          /\ UNCHANGED <<refreshed, patchAge, overtaken>>
      BY <1>11 DEF ServerFault
    <2>2. TypeOK'
      BY <2>1, RetryStep, FailureStep, CallersDisjoint DEF TypeOK
    <2>3. LockInv'
      BY <2>1, RetryStep, CallersDisjoint DEF LockInv, TypeOK
    <2>4. AdmittedInv'
      <3> SUFFICES ASSUME NEW d \in Callers, pc'[d] \in {"ready", "inflight"}, attempt'[d] = 0
                   PROVE  FALSE
        BY DEF AdmittedInv
      <3>1. lock = c
        BY <2>1 DEF LockInv
      <3>2. d = c
        BY <2>1, <3>1, RetryStep DEF LockInv, TypeOK
      <3> QED
        BY <2>1, <3>2, RetryStep DEF TypeOK
    <2>5. WindowInv'
      BY <2>1, RetryStep DEF WindowInv, ScanIgnored, TypeOK
    <2>6. BreakerMatchesCounter'
      BY <2>1, FailureStep
    <2> QED
      BY <2>2, <2>3, <2>4, <2>5, <2>6
  <1>12. CASE Tick
    <2>1. TypeOK'
      BY <1>12, LimitsPositive DEF TypeOK, Tick
    <2>2. LockInv' /\ BreakerMatchesCounter'
      BY <1>12 DEF LockInv, BreakerMatchesCounter, Tick
    <2>3. AdmittedInv'
      BY <1>12, LimitsPositive DEF AdmittedInv, CircuitOpen, TypeOK, Tick
    <2>4. WindowInv'
      BY <1>12, LimitsPositive DEF WindowInv, ScanIgnored, TypeOK, Tick
    <2> QED
      BY <2>1, <2>2, <2>3, <2>4
  <1>13. CASE UNCHANGED vars
    BY <1>13 DEF vars, TypeOK, LockInv, AdmittedInv, WindowInv, BreakerMatchesCounter,
                 CircuitOpen, ScanIgnored
  <1> QED
    BY <1>1, <1>2, <1>3, <1>4, <1>5, <1>6, <1>7, <1>8, <1>9, <1>10, <1>11, <1>12, <1>13
    DEF Next, Exchange

\* The invariant holds in every reachable state.
LEMMA Invariance == Spec => []IInv
  BY InitIInv, NextIInv, PTL DEF Spec

----------------------------------------------------------------------------
(* The theorems. *)

\* Every variable keeps its type and no call makes more attempts than the loops
\* of GetDevices and Patch allow.
THEOREM TypeCorrect == Spec => []TypeOK
  BY Invariance, PTL DEF IInv

\* cloudLock: at most one request is ever in flight to the cloud.
THEOREM CloudSerialized == Spec => []SingleInFlight
  <1>1. IInv => SingleInFlight
    BY DEF IInv, LockInv, SingleInFlight
  <1> QED
    BY <1>1, Invariance, PTL

\* recordFailure, recordSuccess and checkBreaker keep the breaker closed exactly
\* while the counter is below the threshold.
THEOREM BreakerFollowsCounter == Spec => []BreakerMatchesCounter
  BY Invariance, PTL DEF IInv

\* GetDevices: only a read overtaken by a PATCH while it queued for cloudLock can
\* be on the wire inside the scan-ignore window.
THEOREM StaleReadsCharacterised == Spec => []StaleReadWasOvertaken
  <1>1. IInv => StaleReadWasOvertaken
    BY DEF IInv, WindowInv, StaleReadWasOvertaken, ScanIgnored
  <1> QED
    BY <1>1, Invariance, PTL

\* checkBreaker: an open breaker lets no call start talking to the cloud; only
\* calls already admitted go on with their retries.
THEOREM OpenBreakerAdmitsNobody == Spec => OpenBreakerSendsOnlyRetries
  <1>1. IInv /\ [Next]_vars =>
          [\A c \in Callers :
             pc[c] = "ready" /\ pc'[c] = "inflight" /\ CircuitOpen => attempt[c] > 0]_vars
    BY DEF IInv, AdmittedInv, TypeOK
  <1> QED
    BY <1>1, Invariance, PTL DEF Spec, OpenBreakerSendsOnlyRetries

----------------------------------------------------------------------------
(* CloudClient implements CloudTurns. *)

\* What the mapped variables look like while a call has its turn.
LEMMA TurnView ==
    ASSUME IInv, NEW c \in Callers, pc[c] \in {"ready", "inflight"}
    PROVE  /\ lock = c /\ lock # NoOne
           /\ OnWire <=> pc[c] = "inflight"
           /\ Sent = IF pc[c] = "inflight" THEN attempt[c] + 1 ELSE attempt[c]
           /\ c \notin Queued
           /\ Sent \in Nat
  <1>1. lock = c
    BY DEF IInv, LockInv
  <1>2. lock # NoOne
    BY <1>1, CallersDisjoint
  <1>3. OnWire <=> pc[c] = "inflight"
    BY <1>1 DEF OnWire, IInv, LockInv
  <1>4. Sent = IF pc[c] = "inflight" THEN attempt[c] + 1 ELSE attempt[c]
    BY <1>1, <1>2 DEF Sent
  <1>5. Sent \in Nat
    BY <1>4 DEF IInv, TypeOK
  <1> QED
    BY <1>1, <1>2, <1>3, <1>4, <1>5 DEF Queued

\* And while nobody has one.
LEMMA NoTurnView ==
    ASSUME IInv, lock = NoOne
    PROVE  ~OnWire /\ Sent = 0
  BY CallersDisjoint DEF IInv, LockInv, OnWire, Sent

\* An exchange that ends or continues a call is, for the promise, the end of a turn
\* or an answer.
LEMMA ExchangeMaps ==
    ASSUME IInv, IInv', NEW c \in Callers, pc[c] \in {"ready", "inflight"},
           Return(c) \/ (pc[c] = "inflight" /\ Retry(c))
    PROVE  Turns!End(c) \/ Turns!Answer(c)
  <1>1. /\ \A d \in Callers \ {c} : pc'[d] = pc[d]
        /\ \/ pc'[c] = "ready" /\ lock' = lock /\ attempt'[c] > 0
           \/ pc'[c] = "idle" /\ lock' = NoOne
    BY RetryStep DEF IInv, TypeOK
  <1>2. pc \in [Callers -> {"idle", "queued", "ready", "inflight"}]
        /\ pc' \in [Callers -> {"idle", "queued", "ready", "inflight"}]
    BY DEF IInv, TypeOK
  <1>3. Queued' = Queued
    BY <1>1, <1>2 DEF Queued
  <1>4. CASE pc'[c] = "idle" /\ lock' = NoOne
    <2>1. ~OnWire' /\ Sent' = 0
      BY <1>4, NoTurnView, CallersDisjoint DEF IInv, LockInv, OnWire, Sent
    <2> QED
      BY <1>3, <1>4, <2>1, TurnView DEF Turns!End
  <1>5. CASE pc'[c] = "ready" /\ lock' = lock /\ attempt'[c] > 0
    <2>1. Retry(c) /\ AttemptsLeft(c) /\ pc[c] = "inflight"
      BY <1>5, <1>2 DEF Retry, Return
    <2>2. attempt'[c] = attempt[c] + 1
      BY <2>1 DEF Retry, IInv, TypeOK
    <2>3. ~OnWire'
      BY <1>5 DEF OnWire, IInv, LockInv
    <2>4. Sent' = Sent
      BY <1>5, <2>1, <2>2, TurnView DEF Sent
    <2> QED
      BY <1>3, <1>5, <2>1, <2>3, <2>4, TurnView DEF Turns!Answer
  <1> QED
    BY <1>1, <1>4, <1>5

\* Every step of the client is a step of the promise or none.
LEMMA StepMaps ==
    ASSUME IInv, IInv', [Next]_vars
    PROVE  [Turns!Next]_Turns!vars
  <1> USE DEF breaker
  <1>1. pc \in [Callers -> {"idle", "queued", "ready", "inflight"}]
    BY DEF IInv, TypeOK
  <1>2. ASSUME NEW c \in Callers, pc[c] = "idle", pc' = [pc EXCEPT ![c] = "queued"],
               UNCHANGED <<lock, attempt>>
        PROVE  Turns!Call(c)
    <2>1. Queued' = Queued \cup {c} /\ c \notin Queued /\ lock # c
      BY <1>1, <1>2 DEF Queued, IInv, LockInv
    <2>2. UNCHANGED <<OnWire, Sent>>
      BY <1>1, <1>2, <2>1 DEF OnWire, Sent, IInv, LockInv, TypeOK
    <2> QED
      BY <1>2, <2>1, <2>2 DEF Turns!Call
  <1>3. ASSUME NEW c \in Callers, Admit(c)
        PROVE  Turns!Begin(c)
    <2>1. Queued' = Queued \ {c} /\ c \in Queued
      BY <1>1, <1>3 DEF Admit, Queued
    <2>2. lock = NoOne /\ lock' = c /\ pc'[c] = "ready" /\ attempt'[c] = 0
      BY <1>1, <1>3 DEF Admit, LockFree, IInv, TypeOK
    <2>3. ~OnWire /\ Sent = 0
      BY <2>2, NoTurnView
    <2>4. ~OnWire' /\ Sent' = 0
      BY <2>2, CallersDisjoint DEF OnWire, Sent, IInv, LockInv
    <2>5. OnWire' = OnWire
      BY <2>3, <2>4 DEF OnWire
    <2> QED
      BY <2>1, <2>2, <2>3, <2>4, <2>5 DEF Turns!Begin
  <1>4. ASSUME NEW c \in Callers, ShortCircuit(c)
        PROVE  Turns!TurnAway(c)
    <2>1. Queued' = Queued \ {c} /\ c \in Queued /\ lock = NoOne /\ lock' = lock
      BY <1>1, <1>4 DEF ShortCircuit, Queued, LockFree
    <2>2. ~OnWire /\ Sent = 0
      BY <2>1, NoTurnView
    <2>3. ~OnWire' /\ Sent' = 0
      BY <2>1, CallersDisjoint DEF OnWire, Sent, IInv, LockInv
    <2>4. OnWire' = OnWire
      BY <2>2, <2>3 DEF OnWire
    <2> QED
      BY <2>1, <2>2, <2>3, <2>4 DEF Turns!TurnAway
  <1>5. ASSUME NEW c \in Callers, Send(c)
        PROVE  Turns!Request(c)
    <2>1. pc[c] = "ready" /\ pc'[c] = "inflight" /\ UNCHANGED <<lock, attempt>>
          /\ Queued' = Queued
      BY <1>1, <1>5 DEF Send, Queued
    <2>2. lock = c /\ lock # NoOne /\ ~OnWire /\ Sent = attempt[c]
      BY <2>1, TurnView
    <2>3. OnWire' /\ Sent' = attempt[c] + 1
      BY <2>1, <2>2 DEF OnWire, Sent
    <2>4. attempt[c] < MaxAttempts(c)
      BY DEF IInv, TypeOK
    <2> QED
      BY <2>1, <2>2, <2>3, <2>4 DEF Turns!Request
  <1>6. ASSUME NEW c \in Callers, Abandon(c) \/ Exchange(c)
        PROVE  Turns!End(c) \/ Turns!Answer(c)
    <2>1. pc[c] \in {"ready", "inflight"} /\ (Return(c) \/ (pc[c] = "inflight" /\ Retry(c)))
      BY <1>6 DEF Abandon, Exchange, GetOk, PatchOk, Unauthorized, ServerFault, Refused
    <2> QED
      BY <2>1, ExchangeMaps
  <1>7. CASE Tick \/ UNCHANGED vars
    BY <1>7 DEF Tick, vars, Turns!vars, Queued, Sent, OnWire
  <1>8. ASSUME NEW c \in Callers, StartGet(c) \/ StartPatch(c)
        PROVE  Turns!Call(c)
    BY <1>2, <1>8 DEF StartGet, StartPatch
  <1> QED
    BY <1>3, <1>4, <1>5, <1>6, <1>7, <1>8 DEF Next, Turns!Next

\* GetDevices and Patch: whatever the number of callers and the limits, calls take
\* turns on the cloud, none with more requests than its attempts.
THEOREM ClientTakesTurns == Spec => CallsTakeTurns
  <1>1. Init => Turns!Init
    BY CallersDisjoint DEF Init, Turns!Init, Queued, Sent, OnWire
  <1>2. IInv /\ IInv' /\ [Next]_vars => [Turns!Next]_Turns!vars
    BY StepMaps
  <1> QED
    BY <1>1, <1>2, Invariance, PTL DEF Spec, CallsTakeTurns, Turns!Spec
============================================================================
