---------------------------- MODULE CloudClient ----------------------------
(***************************************************************************)
(* The ONECTA cloud transport, internal/daikin/client/client.go.           *)
(*                                                                         *)
(* Several goroutines share one Client: the poll loop and the web handlers *)
(* call GetDevices; the MQTT write queue, the schedule engine and the web  *)
(* handlers call Patch.  A call is a small process: it queues for          *)
(* cloudLock, passes checkBreaker, and then alternates between preparing   *)
(* an attempt (token, backoff) and one HTTP exchange.  Which error a call  *)
(* returns is left to the action that ends it.                             *)
(*                                                                         *)
(* Time enters only through the two comparisons the code makes, so it is   *)
(* kept as two saturating ages: since the last successful PATCH and since  *)
(* the breaker opened.                                                     *)
(***************************************************************************)
EXTENDS Naturals

CONSTANTS
    Readers,      \* goroutines that call GetDevices
    Writers,      \* goroutines that call Patch
    RetryMax,     \* Options.RetryAttempts
    CbThreshold,  \* cbFailureThreshold
    CbRecovery,   \* cbRecoveryTimeout, in clock ticks
    ScanIgnore,   \* Options.ScanIgnore, in clock ticks
    NoOne         \* cloudLock is free

ASSUME CallersDisjoint == Readers \cap Writers = {} /\ NoOne \notin Readers \cup Writers
ASSUME LimitsPositive ==
    /\ RetryMax \in Nat \ {0}
    /\ CbThreshold \in Nat \ {0}
    /\ CbRecovery \in Nat \ {0}
    /\ ScanIgnore \in Nat \ {0}

VARIABLES
    pc,          \* where each caller's call stands
    attempt,     \* the attempt the call is at, 0-based
    refreshed,   \* refreshedOn401: the call has used its one forced refresh
    lock,        \* the caller that holds cloudLock
    cbState,     \* "closed", "open" or "halfopen"
    cbFailures,  \* failures since the last success, saturating at CbThreshold
    cbAge,       \* time since cbOpenedAt, saturating at CbRecovery
    patchAge,    \* time since lastPatch, saturating at ScanIgnore
    overtaken    \* history: a PATCH succeeded since the call passed its scan-ignore check

breaker == <<cbState, cbFailures, cbAge>>
vars == <<pc, attempt, refreshed, lock, breaker, patchAge, overtaken>>

Callers == Readers \cup Writers

\* Patch makes two attempts, GetDevices RetryAttempts.
MaxAttempts(c) == IF c \in Writers THEN 2 ELSE RetryMax

TypeOK ==
    /\ pc \in [Callers -> {"idle", "queued", "ready", "inflight"}]
    /\ attempt \in [Callers -> Nat]
    /\ \A c \in Callers : attempt[c] < MaxAttempts(c)
    /\ refreshed \in [Callers -> BOOLEAN]
    /\ lock \in Callers \cup {NoOne}
    /\ cbState \in {"closed", "open", "halfopen"}
    /\ cbFailures \in 0..CbThreshold
    /\ cbAge \in 0..CbRecovery
    /\ patchAge \in 0..ScanIgnore
    /\ overtaken \in [Callers -> BOOLEAN]

Init ==
    /\ pc = [c \in Callers |-> "idle"]
    /\ attempt = [c \in Callers |-> 0]
    /\ refreshed = [c \in Callers |-> FALSE]
    /\ lock = NoOne
    /\ cbState = "closed"
    /\ cbFailures = 0
    /\ cbAge = CbRecovery
    /\ patchAge = ScanIgnore          \* lastPatch is the zero time
    /\ overtaken = [c \in Callers |-> FALSE]

----------------------------------------------------------------------------
(* The breaker. *)

\* checkBreaker answers ErrCircuitOpen.
CircuitOpen == cbState = "open" /\ cbAge < CbRecovery

\* recordSuccess
RecordSuccess == cbFailures' = 0 /\ cbState' = "closed" /\ UNCHANGED cbAge

\* Mutant of Trips: one failure too late.
TripsLate == cbFailures >= CbThreshold

\* This failure reaches the threshold.
Trips == cbFailures + 1 >= CbThreshold

\* A half-open breaker re-opens on its first failure, without counting it.
Reopens == cbState = "halfopen"

\* recordFailure.  The code's counter keeps growing while retries fail under an
\* open breaker; it is only ever compared with the threshold, where it saturates here.
RecordFailure ==
    /\ cbFailures' = IF Reopens \/ cbFailures = CbThreshold THEN cbFailures ELSE cbFailures + 1
    /\ IF Reopens \/ Trips
       THEN cbState' = "open" /\ cbAge' = 0
       ELSE UNCHANGED <<cbState, cbAge>>

----------------------------------------------------------------------------
(* Entering a call. *)

\* Mutants of ScanIgnored and LockFree: no scan-ignore check; cloudLock not waited for.
ScanNeverIgnored == FALSE
LockIgnored == TRUE

\* GetDevices looks the scan-ignore window up once, before cloudLock.
ScanIgnored == patchAge < ScanIgnore

LockFree == lock = NoOne

\* GetDevices up to cloudLock.Lock().
StartGet(c) ==
    /\ pc[c] = "idle" /\ ~ScanIgnored
    /\ pc' = [pc EXCEPT ![c] = "queued"]
    /\ overtaken' = [overtaken EXCEPT ![c] = FALSE]
    /\ UNCHANGED <<attempt, refreshed, lock, breaker, patchAge>>

\* Patch up to cloudLock.Lock().
StartPatch(c) ==
    /\ pc[c] = "idle"
    /\ pc' = [pc EXCEPT ![c] = "queued"]
    /\ UNCHANGED <<attempt, refreshed, lock, breaker, patchAge, overtaken>>

\* checkBreaker lets the call through; an open breaker whose recovery time is
\* over turns half-open.
HalfOpen == cbState' = IF cbState = "open" THEN "halfopen" ELSE cbState

\* cloudLock is taken and checkBreaker lets the call through.
Admit(c) ==
    /\ pc[c] = "queued" /\ LockFree /\ ~CircuitOpen
    /\ lock' = c
    /\ HalfOpen
    /\ pc' = [pc EXCEPT ![c] = "ready"]
    /\ attempt' = [attempt EXCEPT ![c] = 0]
    /\ refreshed' = [refreshed EXCEPT ![c] = FALSE]
    /\ UNCHANGED <<cbFailures, cbAge, patchAge, overtaken>>

\* cloudLock is taken, checkBreaker refuses, cloudLock is given back.
ShortCircuit(c) ==
    /\ pc[c] = "queued" /\ LockFree /\ CircuitOpen
    /\ pc' = [pc EXCEPT ![c] = "idle"]
    /\ UNCHANGED <<attempt, refreshed, lock, breaker, patchAge, overtaken>>

----------------------------------------------------------------------------
(* One attempt. *)

\* Mutant of Return: a return that forgets the deferred unlock.
ReturnLocked(c) ==
    /\ pc' = [pc EXCEPT ![c] = "idle"]
    /\ attempt' = [attempt EXCEPT ![c] = 0]
    /\ UNCHANGED lock

\* The deferred cloudLock.Unlock() of every return.
Return(c) ==
    /\ pc' = [pc EXCEPT ![c] = "idle"]
    /\ lock' = NoOne
    /\ attempt' = [attempt EXCEPT ![c] = 0]

\* Mutant of AttemptsLeft: a loop that makes one attempt too many.
OneMoreAttempt(c) == attempt[c] < MaxAttempts(c)

AttemptsLeft(c) == attempt[c] + 1 < MaxAttempts(c)

\* The loop's continue: the next attempt, or the end of the loop.
Retry(c) ==
    IF AttemptsLeft(c)
    THEN /\ pc' = [pc EXCEPT ![c] = "ready"]
         /\ attempt' = [attempt EXCEPT ![c] = @ + 1]
         /\ UNCHANGED lock
    ELSE Return(c)

\* The bearer token is at hand and the request goes out.
Send(c) ==
    /\ pc[c] = "ready"
    /\ pc' = [pc EXCEPT ![c] = "inflight"]
    /\ UNCHANGED <<attempt, refreshed, lock, breaker, patchAge, overtaken>>

\* No token (re-authentication needed, token endpoint down), or the context is
\* cancelled during the backoff: the call ends and the breaker is not told.
Abandon(c) ==
    /\ pc[c] = "ready"
    /\ Return(c)
    /\ UNCHANGED <<refreshed, breaker, patchAge, overtaken>>

\* GET 200.
GetOk(c) ==
    /\ pc[c] = "inflight"
    /\ RecordSuccess
    /\ Return(c)
    /\ UNCHANGED <<refreshed, patchAge, overtaken>>

\* PATCH 204: the scan-ignore window starts.  Readers already past their check
\* and queued for cloudLock are overtaken.
PatchOk(c) ==
    /\ pc[c] = "inflight"
    /\ RecordSuccess
    /\ patchAge' = 0
    /\ overtaken' = [r \in Callers |-> overtaken[r] \/ (r \in Readers /\ pc[r] = "queued")]
    /\ Return(c)
    /\ UNCHANGED refreshed

\* 401: the first one of a call forces a token refresh and another attempt.
Unauthorized(c) ==
    /\ pc[c] = "inflight"
    /\ IF refreshed[c] THEN Return(c) ELSE Retry(c)
    /\ refreshed' = [refreshed EXCEPT ![c] = TRUE]
    /\ UNCHANGED <<breaker, patchAge, overtaken>>

\* 5xx, a transport error, an unreadable GET body, or a request cut off because
\* the caller's context ended.  Only a GET is tried again.
ServerFault(c) ==
    /\ pc[c] = "inflight"
    /\ RecordFailure
    /\ IF c \in Readers THEN Retry(c) ELSE Return(c)
    /\ UNCHANGED <<refreshed, patchAge, overtaken>>

\* 429 or another status: the call ends and the breaker is not told.
Refused(c) ==
    /\ pc[c] = "inflight"
    /\ Return(c)
    /\ UNCHANGED <<refreshed, breaker, patchAge, overtaken>>

Exchange(c) ==
    \/ c \in Readers /\ GetOk(c)
    \/ c \in Writers /\ PatchOk(c)
    \/ Unauthorized(c)
    \/ ServerFault(c)
    \/ Refused(c)

\* The injected Clock moves on.
Tick ==
    /\ cbAge < CbRecovery \/ patchAge < ScanIgnore
    /\ cbAge' = IF cbAge < CbRecovery THEN cbAge + 1 ELSE cbAge
    /\ patchAge' = IF patchAge < ScanIgnore THEN patchAge + 1 ELSE patchAge
    /\ UNCHANGED <<pc, attempt, refreshed, lock, cbState, cbFailures, overtaken>>

Next ==
    \/ \E c \in Readers : StartGet(c)
    \/ \E c \in Writers : StartPatch(c)
    \/ \E c \in Callers :
         Admit(c) \/ ShortCircuit(c) \/ Send(c) \/ Abandon(c) \/ Exchange(c)
    \/ Tick

Spec == Init /\ [][Next]_vars

\* The poll loop keeps calling GetDevices, HTTP calls end within the client's
\* 60 s timeout, the clock runs, and Go's mutex serves every waiter.
Fairness ==
    /\ WF_vars(Tick)
    /\ WF_vars(\E c \in Readers : StartGet(c))
    /\ \A c \in Callers :
         /\ SF_vars(Admit(c) \/ ShortCircuit(c))
         /\ WF_vars(Send(c) \/ Abandon(c))
         /\ WF_vars(Exchange(c))

FairSpec == Spec /\ Fairness

----------------------------------------------------------------------------
(* Properties. *)

\* cloudLock, the breaker and the retry loops let the calls take turns: each call
\* has the cloud to itself, for at most its number of attempts.  (client.go: "the
\* cloud only tolerates a single in-flight request")
Queued == {c \in Callers : pc[c] = "queued"}
Sent == IF lock = NoOne THEN 0 ELSE IF pc[lock] = "inflight" THEN attempt[lock] + 1 ELSE attempt[lock]
OnWire == \E c \in Callers : pc[c] = "inflight"
Turns == INSTANCE CloudTurns WITH
    Limit <- [c \in Callers |-> MaxAttempts(c)],
    waiting <- Queued, turn <- lock, requests <- Sent, open <- OnWire
CallsTakeTurns == Turns!Spec

\* client.go: "the cloud only tolerates a single in-flight request".
SingleInFlight ==
    \A c, d \in Callers : pc[c] = "inflight" /\ pc[d] = "inflight" => c = d

\* The breaker is closed exactly while the failure counter is below the
\* threshold, whatever order failures, trials and successes of different
\* callers come in.
BreakerMatchesCounter == cbState = "closed" <=> cbFailures < CbThreshold

\* A request that leaves while the breaker is open and still within its
\* recovery time is the retry of a call admitted before it opened, never the
\* first request of a call.
OpenBreakerSendsOnlyRetries ==
    [][\A c \in Callers :
         pc[c] = "ready" /\ pc'[c] = "inflight" /\ CircuitOpen => attempt[c] > 0]_vars

\* A GET on the wire inside the scan-ignore window is one that a PATCH
\* overtook while it waited for cloudLock; no other read can be stale.
StaleReadWasOvertaken ==
    \A r \in Readers :
        pc[r] = "inflight" /\ patchAge < ScanIgnore => overtaken[r]

\* Every call that queues for the cloud returns: no path keeps cloudLock.
EveryCallReturns == \A c \in Callers : pc[c] = "queued" ~> pc[c] = "idle"

============================================================================
