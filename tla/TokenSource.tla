----------------------------- MODULE TokenSource -----------------------------
(***************************************************************************)
(* internal/daikin/auth: one rotating refresh token, held in memory by each *)
(* process that uses it (the daemon and daikin2mqtt-util, through the same  *)
(* TokenSource code) and persisted in one file.                            *)
(*                                                                         *)
(* TokenSource.mu covers a whole Token() call, the HTTP request included,   *)
(* so a call is a sequence of steps here that a crash, a timeout or another *)
(* process can fall between.  The identity provider is external: it issues  *)
(* numbered tokens, and a refresh may or may not replace the refresh token, *)
(* which then is dead.  An access token ages at any time.                   *)
(***************************************************************************)
EXTENDS Naturals

CONSTANTS
    Callers,      \* goroutines that call Token()
    Processes,    \* each with a TokenSource of its own
    Home,         \* caller -> process
    Daemon,       \* the long-running process
    ApiCallers,   \* callers that send the token to the cloud
    LoginCallers, \* callers that run the authorization flow
    NoToken,      \* ErrNoToken, ts.current = nil
    Nobody,       \* TokenSource.mu is free
    MaxTokens     \* bound: tokens issued

ASSUME TokenConstants ==
    /\ Home \in [Callers -> Processes] /\ Daemon \in Processes
    /\ ApiCallers \subseteq Callers /\ LoginCallers \subseteq Callers
    /\ Nobody \notin Callers
    /\ MaxTokens \in Nat \ {0}

Tokens == [access : 1..MaxTokens, refresh : 0..MaxTokens, marked : BOOLEAN]

\* ts.current = nil is no token.
ASSUME NoTokenIsNone == NoToken \notin Tokens

VARIABLES
    issued,   \* the provider: tokens issued so far
    alive,    \* the provider: refresh tokens it accepts
    aged,     \* access tokens past their ExpiresAt
    disk,     \* the token store
    current,  \* process -> ts.current
    holder,   \* process -> who holds ts.mu
    caller,   \* caller -> where it stands, and its local token
    rejected, \* history: access tokens the daemon invalidated after a 401
    lost,     \* history: an issued token reached neither memory nor disk, or was useless
    unsaved,  \* history: the last Save of the daemon failed
    foreign   \* history: another process was issued a token since the daemon read the store

provider == <<issued, alive, aged>>
source == <<disk, current, holder>>
history == <<rejected, lost, unsaved, foreign>>
vars == <<provider, source, caller, history>>

NoCall == [at |-> "idle", token |-> NoToken]
Busy == {"refreshing", "answered", "saving"}
OtherCallers == Callers \ {c \in Callers : Home[c] = Daemon}

Calls == [at : Busy \cup {"idle", "sending", "rejected", "exchanged"}, token : Tokens \cup {NoToken}]

TypeOK ==
    /\ issued \in 0..MaxTokens /\ alive \subseteq 1..issued /\ aged \subseteq 1..issued
    /\ disk \in Tokens \cup {NoToken}
    /\ current \in [Processes -> Tokens \cup {NoToken}]
    /\ holder \in [Processes -> Callers \cup {Nobody}]
    /\ \A p \in Processes : holder[p] # Nobody => Home[holder[p]] = p
    /\ caller \in [Callers -> Calls]
    /\ \A c \in Callers : caller[c].at \in Busy <=> holder[Home[c]] = c
    /\ rejected \subseteq 1..issued
    /\ lost \in BOOLEAN /\ unsaved \in BOOLEAN /\ foreign \in BOOLEAN

\* A store from an earlier run, or none.
Init ==
    /\ \/ issued = 1 /\ alive = {1} /\ disk = [access |-> 1, refresh |-> 1, marked |-> FALSE]
       \/ issued = 0 /\ alive = {} /\ disk = NoToken
    /\ aged = {}
    /\ current = [p \in Processes |-> NoToken] /\ holder = [p \in Processes |-> Nobody]
    /\ caller = [c \in Callers |-> NoCall]
    /\ rejected = {}
    /\ lost = FALSE /\ unsaved = FALSE /\ foreign = FALSE

----------------------------------------------------------------------------
(* Token(). *)

Goto(c, place) == caller' = [caller EXCEPT ![c] = place]
AtWith(at, token) == [at |-> at, token |-> token]
\* Token.Valid
StillValid(t) == t.access \notin aged /\ ~t.marked

\* Mutant of LockFree: the lock is not held over the request.
LockIgnored(c) == TRUE

LockFree(c) == holder[Home[c]] = Nobody

\* The token in memory, loaded from the store when there is none.
Loaded(p) == IF current[p] = NoToken THEN disk ELSE current[p]

\* Reading the store makes the daemon current again, unless another process is
\* about to overwrite it.
Reads(p, t) ==
    /\ current' = [current EXCEPT ![p] = t]
    /\ foreign' = IF /\ p = Daemon /\ current[p] = NoToken /\ t.refresh \in alive
                     /\ \A c \in OtherCallers : caller[c].at \notin Busy \cup {"exchanged"}
                  THEN FALSE ELSE foreign

\* The call as far as the request, or to its end.
TokenMissing(c) ==
    /\ Loaded(Home[c]) = NoToken
    /\ UNCHANGED <<source, caller, foreign>>

TokenIsValid(c, t) ==
    /\ StillValid(t) /\ Reads(Home[c], t)
    /\ Goto(c, IF c \in ApiCallers THEN AtWith("sending", t) ELSE NoCall)
    /\ UNCHANGED <<disk, holder>>

TokenHasNoRefresh(c, t) ==
    /\ ~StillValid(t) /\ t.refresh = 0 /\ Reads(Home[c], t)
    /\ UNCHANGED <<disk, holder, caller>>

TokenRefreshes(c, t) ==
    /\ ~StillValid(t) /\ t.refresh # 0 /\ Reads(Home[c], t)
    /\ holder' = [holder EXCEPT ![Home[c]] = c]
    /\ Goto(c, AtWith("refreshing", t))
    /\ UNCHANGED disk

Token(c) ==
    /\ caller[c].at = "idle" /\ LockFree(c)
    /\ \/ TokenMissing(c)
       \/ /\ Loaded(Home[c]) # NoToken
          /\ LET t == Loaded(Home[c])
             IN TokenIsValid(c, t) \/ TokenHasNoRefresh(c, t) \/ TokenRefreshes(c, t)
    /\ UNCHANGED <<provider, rejected, lost, unsaved>>

Release(c) == holder' = [holder EXCEPT ![Home[c]] = Nobody]

\* Mutant of Carried: the answer is taken as it is.
CarriedNever(refresh, previous) == refresh

\* postToken: an answer without a refresh token keeps the previous one.
Carried(refresh, previous) == IF refresh = 0 THEN previous ELSE refresh

\* The provider accepts the refresh token: it replaces it, or sends none.
ProviderAnswers(c, rotate) ==
    LET n == issued + 1
        old == caller[c].token
        fresh == IF rotate THEN n ELSE 0
    IN /\ caller[c].at = "refreshing" /\ old.refresh \in alive /\ issued < MaxTokens
       /\ issued' = n
       /\ alive' = IF rotate THEN (alive \ {old.refresh}) \cup {n} ELSE alive
       /\ Goto(c, AtWith("answered", [access |-> n, refresh |-> Carried(fresh, old.refresh), marked |-> FALSE]))
       /\ foreign' = (foreign \/ Home[c] # Daemon)
       /\ UNCHANGED <<aged, source, rejected, lost, unsaved>>

\* invalid_grant: ErrReauthRequired.
ProviderRefuses(c) ==
    /\ caller[c].at = "refreshing" /\ caller[c].token.refresh \notin alive
    /\ Goto(c, NoCall) /\ Release(c)
    /\ UNCHANGED <<provider, disk, current, history>>

\* A refresh token was issued that nobody keeps.
IsOrphan(c) == caller[c].at = "answered" /\ caller[c].token.refresh # current[Home[c]].refresh

\* The request fails or its context ends (an aborted web request, the two
\* seconds of the status tile), perhaps after the provider has answered.
RequestFails(c) ==
    /\ caller[c].at \in {"refreshing", "answered"}
    /\ Goto(c, NoCall) /\ Release(c)
    /\ lost' = (lost \/ IsOrphan(c))
    /\ UNCHANGED <<provider, disk, current, rejected, unsaved, foreign>>

\* ts.current = refreshed
Adopted(p, t) == t

Receive(c) ==
    /\ caller[c].at = "answered"
    /\ current' = [current EXCEPT ![Home[c]] = Adopted(Home[c], caller[c].token)]
    /\ Goto(c, AtWith("saving", caller[c].token))
    /\ UNCHANGED <<provider, disk, holder, history>>

\* Save writes a temporary file and renames it...
SaveToken(c) ==
    /\ caller[c].at = "saving" /\ Release(c)
    /\ disk' = caller[c].token
    /\ Goto(c, IF c \in ApiCallers THEN AtWith("sending", caller[c].token) ELSE NoCall)
    /\ unsaved' = (unsaved /\ Home[c] # Daemon)
    /\ UNCHANGED <<provider, current, rejected, lost, foreign>>

\* ...or fails, which every caller takes for a failed call.
SaveFails(c) ==
    /\ caller[c].at = "saving" /\ Release(c) /\ Goto(c, NoCall)
    /\ unsaved' = (unsaved \/ Home[c] = Daemon)
    /\ UNCHANGED <<provider, disk, current, rejected, lost, foreign>>

----------------------------------------------------------------------------
(* What the callers do besides. *)

\* The cloud accepts the token, or answers 401 a second time...
Accepted(c) ==
    /\ caller[c].at = "sending" /\ Goto(c, NoCall)
    /\ UNCHANGED <<provider, source, history>>

\* ...or answers the first 401 of a request.
Rejected(c) ==
    /\ caller[c].at = "sending" /\ Goto(c, [caller[c] EXCEPT !.at = "rejected"])
    /\ UNCHANGED <<provider, source, history>>

\* Mutant of Marked: the token keeps its expiry.
MarkedNever(t) == t

\* The expiry is moved into the past.
Marked(t) == [t EXCEPT !.marked = TRUE]

\* Invalidate() acts on whatever token is current by then.
Invalidate(c) ==
    /\ caller[c].at = "rejected" /\ LockFree(c) /\ Goto(c, NoCall)
    /\ current' = [current EXCEPT ![Home[c]] = Marked(@)]
    /\ rejected' = IF Home[c] = Daemon THEN rejected \cup {caller[c].token.access} ELSE rejected
    /\ UNCHANGED <<provider, disk, holder, lost, unsaved, foreign>>

\* The authorization flow exchanges a code; the new grant may end the old one.
\* An answer may come without a refresh token.
Exchange(c, ends, refresh) ==
    LET n == issued + 1
    IN /\ c \in LoginCallers /\ caller[c].at = "idle" /\ issued < MaxTokens
       /\ issued' = n
       /\ alive' = (IF ends THEN {} ELSE alive) \cup (IF refresh THEN {n} ELSE {})
       /\ Goto(c, AtWith("exchanged", [access |-> n, refresh |-> IF refresh THEN n ELSE 0, marked |-> FALSE]))
       /\ foreign' = (foreign \/ Home[c] # Daemon)
       /\ lost' = (lost \/ ~refresh)
       /\ UNCHANGED <<aged, source, rejected, unsaved>>

\* The answer to the exchange does not arrive.
ExchangeFails(c) ==
    /\ caller[c].at = "exchanged" /\ Goto(c, NoCall)
    /\ lost' = TRUE
    /\ UNCHANGED <<provider, source, rejected, unsaved, foreign>>

\* SetToken
SetToken(c) ==
    /\ caller[c].at = "exchanged" /\ LockFree(c)
    /\ holder' = [holder EXCEPT ![Home[c]] = c]
    /\ current' = [current EXCEPT ![Home[c]] = caller[c].token]
    /\ Goto(c, AtWith("saving", caller[c].token))
    /\ lost' = (caller[c].token.refresh \notin alive)
    /\ UNCHANGED <<provider, disk, rejected, unsaved, foreign>>

----------------------------------------------------------------------------
(* The world. *)

Age(t) ==
    /\ t \in 1..issued \ aged /\ aged' = aged \cup {t}
    /\ UNCHANGED <<issued, alive, source, caller, history>>

\* The account holder or the provider ends every grant.
Revoke ==
    /\ alive # {} /\ alive' = {} /\ lost' = TRUE
    /\ UNCHANGED <<issued, aged, source, caller, rejected, unsaved, foreign>>

\* A process ends, in the middle of whatever it does, and starts anew.
Restart(p) ==
    LET mine == {c \in Callers : Home[c] = p}
    IN /\ current[p] # NoToken \/ \E c \in mine : caller[c].at = "exchanged"
       /\ current' = [current EXCEPT ![p] = NoToken]
       /\ holder' = [holder EXCEPT ![p] = Nobody]
       /\ caller' = [c \in Callers |-> IF c \in mine THEN NoCall ELSE caller[c]]
       /\ rejected' = IF p = Daemon THEN {} ELSE rejected
       /\ lost' = \/ lost
                  \/ \E c \in mine : caller[c].at \in {"answered", "exchanged", "saving"}
                  \/ p = Daemon /\ unsaved
       /\ unsaved' = (unsaved /\ p # Daemon)
       /\ UNCHANGED <<provider, disk, foreign>>

Next ==
    \/ \E c \in Callers :
         \/ Token(c) \/ \E rotate \in BOOLEAN : ProviderAnswers(c, rotate)
         \/ ProviderRefuses(c) \/ RequestFails(c) \/ Receive(c) \/ SaveToken(c) \/ SaveFails(c)
         \/ Accepted(c) \/ Rejected(c) \/ Invalidate(c)
         \/ \E ends, refresh \in BOOLEAN : Exchange(c, ends, refresh)
         \/ ExchangeFails(c) \/ SetToken(c)
    \/ \E t \in 1..MaxTokens : Age(t)
    \/ Revoke
    \/ \E p \in Processes : Restart(p)

Spec == Init /\ [][Next]_vars

----------------------------------------------------------------------------
(* Properties. *)

\* No login that may have ended the old grant waits for SetToken.
NoLoginPending == \A c \in Callers : caller[c].at # "exchanged"

Usable(t) == t = NoToken \/ t.refresh \in alive

\* The session survives rotation: between calls the daemon's memory holds a
\* refresh token the provider accepts, and so does the store unless the last
\* Save failed, whatever refreshes, logins, 401s and restarts came before.
\* Exceptions: an issued token was lost (a failed or aborted request, a crash
\* before the save, a revocation), or another process was issued a token.
SessionSurvives ==
    ~lost /\ ~foreign /\ NoLoginPending /\ holder[Daemon] = Nobody =>
        Usable(current[Daemon]) /\ (unsaved \/ Usable(disk))

\* A token the daemon invalidated after a 401 is never sent to the cloud again
\* before a restart.
RejectedIsNotReused ==
    [][\A c \in ApiCallers :
         caller'[c].at = "sending" /\ caller[c].at # "sending" /\ Home[c] = Daemon =>
             caller'[c].token.access \notin rejected]_vars
=============================================================================
