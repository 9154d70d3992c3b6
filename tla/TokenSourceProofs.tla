------------------------- MODULE TokenSourceProofs -------------------------
(***************************************************************************)
(* TLAPS proofs about TokenSource, for any callers and processes and any   *)
(* number of tokens.                                                       *)
(***************************************************************************)
EXTENDS TokenSource, TLAPS

\* Nothing refers to a token that has not been issued.
Issued(t) == t # NoToken => t.access <= issued /\ t.refresh <= issued

IssuedInv ==
    /\ Issued(disk)
    /\ \A p \in Processes : Issued(current[p])
    /\ \A c \in Callers : Issued(caller[c].token)

\* A call under way has a token, and its process one in memory; under the lock
\* the two agree before the answer and after it was adopted.
CallInv ==
    \A c \in Callers :
        /\ caller[c].at # "idle" => caller[c].token # NoToken
        /\ caller[c].at \notin {"idle", "exchanged"} => current[Home[c]] # NoToken
        /\ caller[c].at \in {"refreshing", "saving"} => caller[c].token = current[Home[c]]

\* A token just issued is nobody else's, and nobody has rejected it.
New(c) == caller[c].at \in {"answered", "saving", "exchanged"}

FreshInv ==
    \A c \in Callers : New(c) =>
        LET n == caller[c].token.access
        IN /\ n \notin rejected
           /\ disk # NoToken => disk.access # n
           /\ \A d \in Callers \ {c} : caller[d].at # "idle" => caller[d].token.access # n
           /\ \A p \in Processes :
                current[p] # NoToken /\ current[p].access = n => p = Home[c] /\ caller[c].at = "saving"

\* What the daemon rejected is marked, and it has rejected nothing and failed to
\* save nothing as long as it has no token in memory.
DaemonInv ==
    /\ current[Daemon] = NoToken => rejected = {} /\ ~unsaved
    /\ current[Daemon] # NoToken /\ current[Daemon].access \in rejected => current[Daemon].marked

\* A token that another process was issued and has not saved yet counts as foreign.
ForeignInv == \A c \in OtherCallers : New(c) => foreign

\* Where the session is while a call of the daemon is under way: in the answer, then
\* in memory, and on disk as long as the refresh token has not been replaced.
OnDisk == unsaved \/ Usable(disk)
AtDaemon(c, places) == Home[c] = Daemon /\ caller[c].at \in places

SessionInv ==
    ~lost /\ ~foreign /\ NoLoginPending =>
        /\ \A c \in Callers : AtDaemon(c, {"answered"}) =>
             /\ caller[c].token.refresh \in alive
             /\ caller[c].token.refresh = current[Daemon].refresh => OnDisk
        /\ (\A c \in Callers : ~AtDaemon(c, {"answered"})) => Usable(current[Daemon])
        /\ (\A c \in Callers : ~AtDaemon(c, {"answered", "saving"})) => OnDisk

IInv ==
    /\ TypeOK
    /\ IssuedInv
    /\ CallInv
    /\ FreshInv
    /\ DaemonInv
    /\ ForeignInv
    /\ SessionInv

----------------------------------------------------------------------------
(* The actions that load, issue or mark a token, in terms of that token. *)

\* A call goes on with token t.
Loads(c, t) ==
    /\ caller[c].at = "idle" /\ holder[Home[c]] = Nobody
    /\ current[Home[c]] = t \/ (current[Home[c]] = NoToken /\ disk = t)
    /\ current' = [current EXCEPT ![Home[c]] = t]
    /\ foreign' \in BOOLEAN
    /\ ~foreign' =>
         \/ ~foreign
         \/ /\ Home[c] = Daemon /\ current[Daemon] = NoToken /\ t.refresh \in alive
            /\ \A d \in OtherCallers : caller[d].at \notin Busy \cup {"exchanged"}
    /\ \/ /\ caller' = [caller EXCEPT ![c] = AtWith("sending", t)]
          /\ c \in ApiCallers /\ ~t.marked /\ holder' = holder
       \/ /\ caller' = [caller EXCEPT ![c] = NoCall] \/ caller' = caller
          /\ holder' = holder
       \/ /\ caller' = [caller EXCEPT ![c] = AtWith("refreshing", t)]
          /\ t.refresh # 0 /\ holder' = [holder EXCEPT ![Home[c]] = c]
    /\ UNCHANGED <<issued, alive, aged, disk, rejected, lost, unsaved>>

\* A refresh is answered with token t.
Answered(c, t) ==
    /\ caller[c].at = "refreshing" /\ caller[c].token.refresh \in alive
    /\ issued' = issued + 1 /\ issued' <= MaxTokens /\ alive' \subseteq 1..issued'
    /\ caller' = [caller EXCEPT ![c] = AtWith("answered", t)]
    /\ t.access = issued' /\ t.refresh <= issued' /\ t.refresh \in alive'
    /\ t.refresh = caller[c].token.refresh => alive' = alive
    /\ foreign' \in BOOLEAN
    /\ foreign \/ Home[c] # Daemon => foreign'
    /\ foreign' => foreign \/ Home[c] # Daemon
    /\ UNCHANGED <<aged, disk, current, holder, rejected, lost, unsaved>>

\* A login is answered with token t.
Granted(c, t) ==
    /\ caller[c].at = "idle"
    /\ issued' = issued + 1 /\ issued' <= MaxTokens /\ alive' \subseteq 1..issued'
    /\ caller' = [caller EXCEPT ![c] = AtWith("exchanged", t)]
    /\ t.access = issued' /\ t.refresh <= issued'
    /\ foreign' \in BOOLEAN
    /\ foreign \/ Home[c] # Daemon => foreign'
    /\ foreign' => foreign \/ Home[c] # Daemon
    /\ lost' \in BOOLEAN
    /\ UNCHANGED <<aged, disk, current, holder, rejected, unsaved>>

\* The token in memory becomes t.
Distrusted(c, t) ==
    /\ caller[c].at = "rejected" /\ holder[Home[c]] = Nobody
    /\ caller' = [caller EXCEPT ![c] = NoCall]
    /\ current' = [current EXCEPT ![Home[c]] = t]
    /\ current[Home[c]] \in Tokens /\ t.marked
    /\ t.access = current[Home[c]].access /\ t.refresh = current[Home[c]].refresh
    /\ rejected' = IF Home[c] = Daemon THEN rejected \cup {caller[c].token.access} ELSE rejected
    /\ UNCHANGED <<issued, alive, aged, disk, holder, lost, unsaved, foreign>>

\* The step hands no daemon caller a token the daemon has rejected.
SendsUnrejected ==
    \A c \in ApiCallers :
      caller'[c].at = "sending" /\ caller[c].at # "sending" /\ Home[c] = Daemon =>
          caller'[c].token.access \notin rejected

\* A call either changes nothing or goes on with the token its process holds or loads.
LEMMA TokenLoads ==
    ASSUME TypeOK, NEW c \in Callers, Token(c)
    PROVE  UNCHANGED vars \/ \E t \in Tokens : Loads(c, t)
  <1> DEFINE t == Loaded(Home[c])
  <1> USE TokenConstants, NoTokenIsNone
  <1>1. CASE t = NoToken
    BY <1>1 DEF Token, TokenMissing, vars, provider, source, history
  <1>2. CASE t # NoToken
    <2>1. t \in Tokens /\ (current[Home[c]] = t \/ (current[Home[c]] = NoToken /\ disk = t))
      <3>1. Home[c] \in Processes /\ disk \in Tokens \cup {NoToken} /\ current[Home[c]] \in Tokens \cup {NoToken}
        BY DEF TypeOK
      <3> QED
        BY <1>2, <3>1 DEF Loaded
    <2>2. TokenIsValid(c, t) \/ TokenHasNoRefresh(c, t) \/ TokenRefreshes(c, t)
      BY <1>2 DEF Token, TokenMissing
    <2>3. /\ caller[c].at = "idle" /\ holder[Home[c]] = Nobody
          /\ UNCHANGED <<issued, alive, aged, disk, rejected, lost, unsaved>>
          /\ Reads(Home[c], t)
      BY <2>2
         DEF Token, TokenMissing, LockFree, TokenIsValid, TokenHasNoRefresh, TokenRefreshes, source,
             provider
    <2>4. current' = [current EXCEPT ![Home[c]] = t]
      BY <2>3 DEF Reads
    <2>5. \/ /\ caller' = [caller EXCEPT ![c] = AtWith("sending", t)]
             /\ c \in ApiCallers /\ ~t.marked /\ holder' = holder
          \/ /\ caller' = [caller EXCEPT ![c] = NoCall] \/ caller' = caller
             /\ holder' = holder
          \/ /\ caller' = [caller EXCEPT ![c] = AtWith("refreshing", t)]
             /\ t.refresh # 0 /\ holder' = [holder EXCEPT ![Home[c]] = c]
      BY <2>2 DEF TokenIsValid, TokenHasNoRefresh, TokenRefreshes, Goto, StillValid
    <2> HIDE DEF t
    <2>6. foreign \in BOOLEAN
      BY DEF TypeOK
    <2>7. foreign' \in BOOLEAN
      BY <2>3, <2>6 DEF Reads
    <2>8. ~foreign' =>
            \/ ~foreign
            \/ /\ Home[c] = Daemon /\ current[Daemon] = NoToken /\ t.refresh \in alive
               /\ \A d \in OtherCallers : caller[d].at \notin Busy \cup {"exchanged"}
      BY <2>3 DEF Reads
    <2> QED
      BY <2>1, <2>3, <2>4, <2>5, <2>7, <2>8 DEF Loads
  <1> QED
    BY <1>1, <1>2

\* The answer to a refresh is a new token whose refresh token the provider accepts.
LEMMA AnswerIsNew ==
    ASSUME TypeOK, NEW c \in Callers, NEW rotate \in BOOLEAN, ProviderAnswers(c, rotate)
    PROVE  \E t \in Tokens : Answered(c, t)
  <1> DEFINE old == caller[c].token
             t == [access |-> issued + 1,
                   refresh |-> Carried(IF rotate THEN issued + 1 ELSE 0, old.refresh), marked |-> FALSE]
  <1> USE TokenConstants
  <1>1. /\ caller[c].at = "refreshing" /\ old.refresh \in alive /\ issued < MaxTokens /\ issued \in Nat
        /\ issued' = issued + 1
        /\ alive' = IF rotate THEN (alive \ {old.refresh}) \cup {issued + 1} ELSE alive
        /\ caller' = [caller EXCEPT ![c] = AtWith("answered", t)]
        /\ foreign' = (foreign \/ Home[c] # Daemon)
        /\ UNCHANGED <<aged, disk, current, holder, rejected, lost, unsaved>>
    BY DEF ProviderAnswers, Goto, TypeOK, source
  <1>2. alive \subseteq 1..issued /\ old.refresh \in 1..issued
    BY <1>1 DEF TypeOK
  <1>3. t.refresh = IF rotate THEN issued + 1 ELSE old.refresh
    BY <1>1, <1>2 DEF Carried
  <1>4. t \in Tokens
    <2>1. t.refresh \in 0..MaxTokens /\ issued + 1 \in 1..MaxTokens
      BY <1>1, <1>2, <1>3
    <2> QED
      BY <2>1 DEF Tokens
  <1>5. t.access = issued + 1
    OBVIOUS
  <1> HIDE DEF t
  <1>6. /\ t.refresh <= issued + 1 /\ t.refresh \in alive' /\ alive' \subseteq 1..(issued + 1)
        /\ t.refresh = old.refresh => alive' = alive
    <2>1. 1..issued \subseteq 1..(issued + 1) /\ issued + 1 \in 1..(issued + 1) /\ issued + 1 \notin 1..issued
      BY <1>1
    <2>2. alive' \subseteq 1..(issued + 1)
      BY <1>1, <1>2, <2>1
    <2>3. t.refresh \in alive' /\ (t.refresh = old.refresh => alive' = alive)
      BY <1>1, <1>2, <1>3, <2>1
    <2>4. t.refresh <= issued + 1
      BY <1>1, <1>2, <1>3
    <2> QED
      BY <2>2, <2>3, <2>4
  <1>7. foreign' \in BOOLEAN
    BY <1>1
  <1>8. issued' <= MaxTokens
    BY <1>1
  <1>9. (foreign \/ Home[c] # Daemon => foreign') /\ (foreign' => foreign \/ Home[c] # Daemon)
    BY <1>1
  <1> QED
    BY <1>1, <1>4, <1>5, <1>6, <1>7, <1>8, <1>9 DEF Answered

\* A login is answered with a new token.
LEMMA GrantIsNew ==
    ASSUME TypeOK, NEW c \in Callers, NEW ends \in BOOLEAN, NEW refresh \in BOOLEAN, Exchange(c, ends, refresh)
    PROVE  \E t \in Tokens : Granted(c, t)
  <1> DEFINE t == [access |-> issued + 1, refresh |-> IF refresh THEN issued + 1 ELSE 0, marked |-> FALSE]
  <1> USE TokenConstants
  <1>1. /\ caller[c].at = "idle" /\ issued < MaxTokens /\ issued \in Nat /\ issued' = issued + 1
        /\ alive' = (IF ends THEN {} ELSE alive) \cup (IF refresh THEN {issued + 1} ELSE {})
        /\ caller' = [caller EXCEPT ![c] = AtWith("exchanged", t)]
        /\ foreign' = (foreign \/ Home[c] # Daemon) /\ lost' = (lost \/ ~refresh)
        /\ UNCHANGED <<aged, disk, current, holder, rejected, unsaved>>
    BY DEF Exchange, Goto, TypeOK, source
  <1>2. t.refresh \in 0..MaxTokens /\ issued + 1 \in 1..MaxTokens /\ t.refresh <= issued + 1
    BY <1>1
  <1>3. t \in Tokens /\ t.access = issued + 1
    BY <1>2 DEF Tokens
  <1>4. alive' \subseteq 1..(issued + 1)
    <2>1. alive \subseteq 1..issued
      BY DEF TypeOK
    <2>2. 1..issued \subseteq 1..(issued + 1) /\ issued + 1 \in 1..(issued + 1)
      BY <1>1
    <2> QED
      BY <1>1, <2>1, <2>2
  <1>5. foreign' \in BOOLEAN
    BY <1>1
  <1>6. lost' \in BOOLEAN
    BY <1>1
  <1> HIDE DEF t
  <1>7. issued' <= MaxTokens
    BY <1>1
  <1>8. (foreign \/ Home[c] # Daemon => foreign') /\ (foreign' => foreign \/ Home[c] # Daemon)
    BY <1>1
  <1> QED
    BY <1>1, <1>2, <1>3, <1>4, <1>5, <1>6, <1>7, <1>8 DEF Granted

\* Invalidate keeps the token in memory but for its mark.
LEMMA InvalidateMarks ==
    ASSUME TypeOK, CallInv, NEW c \in Callers, Invalidate(c)
    PROVE  \E t \in Tokens : Distrusted(c, t)
  <1> DEFINE old == current[Home[c]]
             t == Marked(old)
  <1> USE TokenConstants
  <1>1. old \in Tokens
    BY DEF Invalidate, TypeOK, CallInv
  <1>2. t \in Tokens /\ t.marked /\ t.access = old.access /\ t.refresh = old.refresh
    BY <1>1 DEF Marked, Tokens
  <1>3. /\ current' = [current EXCEPT ![Home[c]] = t]
        /\ caller[c].at = "rejected" /\ holder[Home[c]] = Nobody
        /\ caller' = [caller EXCEPT ![c] = NoCall]
        /\ rejected' = IF Home[c] = Daemon THEN rejected \cup {caller[c].token.access} ELSE rejected
        /\ UNCHANGED <<issued, alive, aged, disk, holder, lost, unsaved, foreign>>
    BY DEF Invalidate, LockFree, Goto, provider
  <1> HIDE DEF t
  <1> QED
    BY <1>1, <1>2, <1>3 DEF Distrusted

----------------------------------------------------------------------------
(* The inductive invariant, one lemma for each of its parts. *)

\* Every step keeps the types, and the lock with the call that has it.
LEMMA TypeStep == IInv /\ [Next]_vars => TypeOK'
  <1> SUFFICES ASSUME IInv, [Next]_vars
               PROVE  TypeOK'
    OBVIOUS
  <1> USE TokenConstants, NoTokenIsNone
          DEF Goto, AtWith, NoCall, Calls, Busy, provider, source, history
  <1>a. /\ TypeOK /\ IssuedInv /\ CallInv
        /\ FreshInv /\ DaemonInv /\ ForeignInv /\ SessionInv
    BY DEF IInv
  <1>1. ASSUME NEW c \in Callers, Token(c)
        PROVE  TypeOK'
    <2>1. CASE UNCHANGED vars
      BY <1>a, <2>1 DEF vars, TypeOK, IssuedInv, Issued, CallInv
    <2>2. CASE ~UNCHANGED vars
      <3>1. PICK t \in Tokens : Loads(c, t)
        BY <1>a, <1>1, <2>2, TokenLoads
      <3>2. CASE caller' = [caller EXCEPT ![c] = AtWith("refreshing", t)]
        <4>1. /\ holder[Home[c]] = Nobody /\ Home[c] \in Processes /\ holder' = [holder EXCEPT ![Home[c]] = c]
              /\ current' = [current EXCEPT ![Home[c]] = t] /\ foreign' \in BOOLEAN
          <5>1. AtWith("refreshing", t) # AtWith("sending", t) /\ AtWith("refreshing", t) # NoCall
            OBVIOUS
          <5>2. caller'[c] = AtWith("refreshing", t) /\ caller[c].at = "idle"
            BY <1>a, <3>1, <3>2 DEF Loads, TypeOK
          <5>3. caller' # [caller EXCEPT ![c] = AtWith("sending", t)] /\ caller' # [caller EXCEPT ![c] = NoCall]
            BY <1>a, <5>1, <5>2 DEF TypeOK
          <5>4. caller' # caller
            BY <5>2
          <5> QED
            BY <1>a, <3>1, <5>3, <5>4 DEF Loads, TypeOK
        <4>2. caller' \in [Callers -> Calls] /\ current' \in [Processes -> Tokens \cup {NoToken}]
          BY <1>a, <3>2, <4>1 DEF TypeOK
        <4>3. holder' \in [Processes -> Callers \cup {Nobody}]
          BY <1>a, <4>1 DEF TypeOK
        <4>4. \A p \in Processes : holder'[p] # Nobody => Home[holder'[p]] = p
          BY <1>a, <4>1 DEF TypeOK
        <4>5. \A d \in Callers : caller'[d].at \in Busy <=> holder'[Home[d]] = d
          <5> SUFFICES ASSUME NEW d \in Callers
                       PROVE  caller'[d].at \in Busy <=> holder'[Home[d]] = d
            OBVIOUS
          <5>1. CASE d = c
            BY <1>a, <3>2, <4>1, <5>1 DEF TypeOK
          <5>2. CASE d # c
            <6>1. caller'[d] = caller[d] /\ Home[d] \in Processes
              BY <1>a, <3>2, <5>2 DEF TypeOK
            <6>2. caller[d].at \in Busy <=> holder[Home[d]] = d
              BY <1>a DEF TypeOK
            <6> QED
              BY <1>a, <4>1, <5>2, <6>1, <6>2 DEF TypeOK
          <5> QED
            BY <5>1, <5>2
        <4>6. UNCHANGED <<issued, alive, aged, disk, rejected, lost, unsaved>>
          BY <3>1 DEF Loads
        <4> QED
          BY <1>a, <4>1, <4>2, <4>3, <4>4, <4>5, <4>6 DEF TypeOK
      <3>3. CASE caller' = [caller EXCEPT ![c] = AtWith("sending", t)]
        BY <1>a, <3>1, <3>3 DEF Loads, TypeOK, IssuedInv, Issued, CallInv
      <3>4. CASE caller' = [caller EXCEPT ![c] = NoCall]
        BY <1>a, <3>1, <3>4 DEF Loads, TypeOK, IssuedInv, Issued, CallInv
      <3>5. CASE caller' = caller
        BY <1>a, <3>1, <3>5 DEF Loads, TypeOK, IssuedInv, Issued, CallInv
      <3> QED
        BY <3>1, <3>2, <3>3, <3>4, <3>5 DEF Loads
    <2> QED
      BY <2>1, <2>2
  <1>2. ASSUME NEW c \in Callers, NEW rotate \in BOOLEAN, ProviderAnswers(c, rotate)
        PROVE  TypeOK'
    <2>1. PICK t \in Tokens : Answered(c, t)
      BY <1>a, <1>2, AnswerIsNew
    <2> QED
      BY <1>a, <2>1 DEF Answered, TypeOK, IssuedInv, Issued, CallInv
  <1>3. ASSUME NEW c \in Callers, ProviderRefuses(c)
        PROVE  TypeOK'
    BY <1>a, <1>3 DEF ProviderRefuses, Release, TypeOK, IssuedInv, Issued, CallInv
  <1>4. ASSUME NEW c \in Callers, RequestFails(c)
        PROVE  TypeOK'
    BY <1>a, <1>4 DEF RequestFails, Release, IsOrphan, TypeOK, IssuedInv, Issued, CallInv
  <1>5. ASSUME NEW c \in Callers, Receive(c)
        PROVE  TypeOK'
    BY <1>a, <1>5 DEF Receive, Adopted, TypeOK, IssuedInv, Issued, CallInv
  <1>6. ASSUME NEW c \in Callers, SaveToken(c)
        PROVE  TypeOK'
    BY <1>a, <1>6 DEF SaveToken, Release, TypeOK, IssuedInv, Issued, CallInv
  <1>7. ASSUME NEW c \in Callers, SaveFails(c)
        PROVE  TypeOK'
    BY <1>a, <1>7 DEF SaveFails, Release, TypeOK, IssuedInv, Issued, CallInv
  <1>8. ASSUME NEW c \in Callers, Accepted(c)
        PROVE  TypeOK'
    BY <1>a, <1>8 DEF Accepted, TypeOK, IssuedInv, Issued, CallInv
  <1>9. ASSUME NEW c \in Callers, Rejected(c)
        PROVE  TypeOK'
    BY <1>a, <1>9 DEF Rejected, TypeOK, IssuedInv, Issued, CallInv
  <1>10. ASSUME NEW c \in Callers, Invalidate(c)
        PROVE  TypeOK'
    <2>1. PICK t \in Tokens : Distrusted(c, t)
      BY <1>a, <1>10, InvalidateMarks
    <2>2. caller[c].token.access \in 1..issued
      BY <1>a, <2>1 DEF Distrusted, TypeOK, IssuedInv, Issued, CallInv, Calls, Tokens
    <2>3. rejected' \subseteq 1..issued'
      <3>1. rejected \subseteq 1..issued
        BY <1>a DEF TypeOK
      <3> QED
        BY <2>1, <2>2, <3>1 DEF Distrusted
    <2>4. /\ issued' = issued /\ alive' = alive /\ aged' = aged /\ disk' = disk /\ holder' = holder
          /\ lost' = lost /\ unsaved' = unsaved /\ foreign' = foreign
          /\ current' = [current EXCEPT ![Home[c]] = t] /\ caller' = [caller EXCEPT ![c] = NoCall]
          /\ caller[c].at = "rejected"
      BY <2>1 DEF Distrusted
    <2> QED
      BY <1>a, <2>3, <2>4 DEF TypeOK, IssuedInv, Issued, CallInv
  <1>11. ASSUME NEW c \in Callers, NEW ends \in BOOLEAN, NEW refresh \in BOOLEAN, Exchange(c, ends, refresh)
        PROVE  TypeOK'
    <2>1. PICK t \in Tokens : Granted(c, t)
      BY <1>a, <1>11, GrantIsNew
    <2> QED
      BY <1>a, <2>1 DEF Granted, TypeOK, IssuedInv, Issued, CallInv
  <1>12. ASSUME NEW c \in Callers, ExchangeFails(c)
        PROVE  TypeOK'
    BY <1>a, <1>12 DEF ExchangeFails, TypeOK, IssuedInv, Issued, CallInv
  <1>13. ASSUME NEW c \in Callers, SetToken(c)
        PROVE  TypeOK'
    BY <1>a, <1>13 DEF SetToken, LockFree, TypeOK, IssuedInv, Issued, CallInv
  <1>14. ASSUME NEW t \in 1..MaxTokens, Age(t)
        PROVE  TypeOK'
    BY <1>a, <1>14 DEF Age, TypeOK, IssuedInv, Issued, CallInv
  <1>15. CASE Revoke
    BY <1>a, <1>15 DEF Revoke, TypeOK, IssuedInv, Issued, CallInv
  <1>16. ASSUME NEW p \in Processes, Restart(p)
        PROVE  TypeOK'
    <2>1. lost' \in BOOLEAN /\ unsaved' \in BOOLEAN
      BY <1>16 DEF Restart
    <2>2. /\ UNCHANGED <<issued, alive, aged, disk, foreign>>
          /\ current' = [current EXCEPT ![p] = NoToken] /\ holder' = [holder EXCEPT ![p] = Nobody]
          /\ caller' = [d \in Callers |-> IF Home[d] = p THEN NoCall ELSE caller[d]]
          /\ rejected' = {} \/ rejected' = rejected
      BY <1>16 DEF Restart, provider
    <2>3. /\ current' \in [Processes -> Tokens \cup {NoToken}]
          /\ holder' \in [Processes -> Callers \cup {Nobody}]
          /\ caller' \in [Callers -> Calls]
      BY <1>a, <2>2 DEF TypeOK, NoCall, Calls
    <2>4. /\ \A q \in Processes : holder'[q] # Nobody => Home[holder'[q]] = q
          /\ \A d \in Callers : caller'[d].at \in Busy <=> holder'[Home[d]] = d
      BY <1>a, <2>2 DEF TypeOK, NoCall, Busy
    <2> QED
      BY <1>a, <2>1, <2>2, <2>3, <2>4 DEF TypeOK
  <1>17. CASE UNCHANGED vars
    BY <1>a, <1>17 DEF vars, TypeOK, IssuedInv, Issued, CallInv
  <1> QED
    BY <1>1, <1>2, <1>3, <1>4, <1>5, <1>6, <1>7, <1>8, <1>9, <1>10, <1>11, <1>12, <1>13, <1>14,
           <1>15, <1>16, <1>17
       DEF Next

\* No step refers to a token not yet issued.
LEMMA IssuedStep == IInv /\ [Next]_vars => IssuedInv'
  <1> SUFFICES ASSUME IInv, [Next]_vars
               PROVE  IssuedInv'
    OBVIOUS
  <1> USE TokenConstants, NoTokenIsNone
          DEF Issued, Tokens, Goto, AtWith, NoCall, Calls, Busy, provider, source, history
  <1>a. /\ TypeOK /\ IssuedInv /\ CallInv
        /\ FreshInv /\ DaemonInv /\ ForeignInv /\ SessionInv
    BY DEF IInv
  <1>1. ASSUME NEW c \in Callers, Token(c)
        PROVE  IssuedInv'
    <2>1. CASE UNCHANGED vars
      BY <1>a, <2>1 DEF vars, TypeOK, IssuedInv, CallInv
    <2>2. CASE ~UNCHANGED vars
      <3>1. PICK t \in Tokens : Loads(c, t)
        BY <1>a, <1>1, <2>2, TokenLoads
      <3>2. CASE caller' = [caller EXCEPT ![c] = AtWith("refreshing", t)]
        BY <1>a, <3>1, <3>2 DEF Loads, TypeOK, IssuedInv, CallInv
      <3>3. CASE caller' = [caller EXCEPT ![c] = AtWith("sending", t)]
        BY <1>a, <3>1, <3>3 DEF Loads, TypeOK, IssuedInv, CallInv
      <3>4. CASE caller' = [caller EXCEPT ![c] = NoCall]
        BY <1>a, <3>1, <3>4 DEF Loads, TypeOK, IssuedInv, CallInv
      <3>5. CASE caller' = caller
        BY <1>a, <3>1, <3>5 DEF Loads, TypeOK, IssuedInv, CallInv
      <3> QED
        BY <3>1, <3>2, <3>3, <3>4, <3>5 DEF Loads
    <2> QED
      BY <2>1, <2>2
  <1>2. ASSUME NEW c \in Callers, NEW rotate \in BOOLEAN, ProviderAnswers(c, rotate)
        PROVE  IssuedInv'
    <2>1. PICK t \in Tokens : Answered(c, t)
      BY <1>a, <1>2, AnswerIsNew
    <2> QED
      BY <1>a, <2>1 DEF Answered, TypeOK, IssuedInv, CallInv
  <1>3. ASSUME NEW c \in Callers, ProviderRefuses(c)
        PROVE  IssuedInv'
    BY <1>a, <1>3 DEF ProviderRefuses, Release, TypeOK, IssuedInv, CallInv
  <1>4. ASSUME NEW c \in Callers, RequestFails(c)
        PROVE  IssuedInv'
    BY <1>a, <1>4 DEF RequestFails, Release, IsOrphan, TypeOK, IssuedInv, CallInv
  <1>5. ASSUME NEW c \in Callers, Receive(c)
        PROVE  IssuedInv'
    BY <1>a, <1>5 DEF Receive, Adopted, TypeOK, IssuedInv, CallInv
  <1>6. ASSUME NEW c \in Callers, SaveToken(c)
        PROVE  IssuedInv'
    BY <1>a, <1>6 DEF SaveToken, Release, TypeOK, IssuedInv, CallInv
  <1>7. ASSUME NEW c \in Callers, SaveFails(c)
        PROVE  IssuedInv'
    BY <1>a, <1>7 DEF SaveFails, Release, TypeOK, IssuedInv, CallInv
  <1>8. ASSUME NEW c \in Callers, Accepted(c)
        PROVE  IssuedInv'
    BY <1>a, <1>8 DEF Accepted, TypeOK, IssuedInv, CallInv
  <1>9. ASSUME NEW c \in Callers, Rejected(c)
        PROVE  IssuedInv'
    BY <1>a, <1>9 DEF Rejected, TypeOK, IssuedInv, CallInv
  <1>10. ASSUME NEW c \in Callers, Invalidate(c)
        PROVE  IssuedInv'
    <2>1. PICK t \in Tokens : Distrusted(c, t)
      BY <1>a, <1>10, InvalidateMarks
    <2> QED
      BY <1>a, <2>1 DEF Distrusted, TypeOK, IssuedInv, CallInv
  <1>11. ASSUME NEW c \in Callers, NEW ends \in BOOLEAN, NEW refresh \in BOOLEAN, Exchange(c, ends, refresh)
        PROVE  IssuedInv'
    <2>1. PICK t \in Tokens : Granted(c, t)
      BY <1>a, <1>11, GrantIsNew
    <2> QED
      BY <1>a, <2>1 DEF Granted, TypeOK, IssuedInv, CallInv
  <1>12. ASSUME NEW c \in Callers, ExchangeFails(c)
        PROVE  IssuedInv'
    BY <1>a, <1>12 DEF ExchangeFails, TypeOK, IssuedInv, CallInv
  <1>13. ASSUME NEW c \in Callers, SetToken(c)
        PROVE  IssuedInv'
    BY <1>a, <1>13 DEF SetToken, LockFree, TypeOK, IssuedInv, CallInv
  <1>14. ASSUME NEW t \in 1..MaxTokens, Age(t)
        PROVE  IssuedInv'
    BY <1>a, <1>14 DEF Age, TypeOK, IssuedInv, CallInv
  <1>15. CASE Revoke
    BY <1>a, <1>15 DEF Revoke, TypeOK, IssuedInv, CallInv
  <1>16. ASSUME NEW p \in Processes, Restart(p)
        PROVE  IssuedInv'
    BY <1>a, <1>16 DEF Restart, TypeOK, IssuedInv, CallInv
  <1>17. CASE UNCHANGED vars
    BY <1>a, <1>17 DEF vars, TypeOK, IssuedInv, CallInv
  <1> QED
    BY <1>1, <1>2, <1>3, <1>4, <1>5, <1>6, <1>7, <1>8, <1>9, <1>10, <1>11, <1>12, <1>13, <1>14,
           <1>15, <1>16, <1>17
       DEF Next

\* Every step keeps the calls with the tokens their processes hold.
LEMMA CallStep == IInv /\ [Next]_vars => CallInv'
  <1> SUFFICES ASSUME IInv, [Next]_vars
               PROVE  CallInv'
    OBVIOUS
  <1> USE TokenConstants, NoTokenIsNone
          DEF Goto, AtWith, NoCall, Calls, Busy, provider, source, history
  <1>a. /\ TypeOK /\ IssuedInv /\ CallInv
        /\ FreshInv /\ DaemonInv /\ ForeignInv /\ SessionInv
    BY DEF IInv
  <1>1. ASSUME NEW c \in Callers, Token(c)
        PROVE  CallInv'
    <2>1. CASE UNCHANGED vars
      BY <1>a, <2>1 DEF vars, TypeOK, CallInv, IssuedInv
    <2>2. CASE ~UNCHANGED vars
      <3>1. PICK t \in Tokens : Loads(c, t)
        BY <1>a, <1>1, <2>2, TokenLoads
      <3>2. CASE caller' = [caller EXCEPT ![c] = AtWith("refreshing", t)]
        BY <1>a, <3>1, <3>2 DEF Loads, TypeOK, CallInv, IssuedInv
      <3>3. CASE caller' = [caller EXCEPT ![c] = AtWith("sending", t)]
        BY <1>a, <3>1, <3>3 DEF Loads, TypeOK, CallInv, IssuedInv
      <3>4. CASE caller' = [caller EXCEPT ![c] = NoCall]
        BY <1>a, <3>1, <3>4 DEF Loads, TypeOK, CallInv, IssuedInv
      <3>5. CASE caller' = caller
        BY <1>a, <3>1, <3>5 DEF Loads, TypeOK, CallInv, IssuedInv
      <3> QED
        BY <3>1, <3>2, <3>3, <3>4, <3>5 DEF Loads
    <2> QED
      BY <2>1, <2>2
  <1>2. ASSUME NEW c \in Callers, NEW rotate \in BOOLEAN, ProviderAnswers(c, rotate)
        PROVE  CallInv'
    <2>1. PICK t \in Tokens : Answered(c, t)
      BY <1>a, <1>2, AnswerIsNew
    <2> QED
      BY <1>a, <2>1 DEF Answered, TypeOK, CallInv, IssuedInv
  <1>3. ASSUME NEW c \in Callers, ProviderRefuses(c)
        PROVE  CallInv'
    BY <1>a, <1>3 DEF ProviderRefuses, Release, TypeOK, CallInv, IssuedInv
  <1>4. ASSUME NEW c \in Callers, RequestFails(c)
        PROVE  CallInv'
    BY <1>a, <1>4 DEF RequestFails, Release, IsOrphan, TypeOK, CallInv, IssuedInv
  <1>5. ASSUME NEW c \in Callers, Receive(c)
        PROVE  CallInv'
    BY <1>a, <1>5 DEF Receive, Adopted, TypeOK, CallInv, IssuedInv
  <1>6. ASSUME NEW c \in Callers, SaveToken(c)
        PROVE  CallInv'
    BY <1>a, <1>6 DEF SaveToken, Release, TypeOK, CallInv, IssuedInv
  <1>7. ASSUME NEW c \in Callers, SaveFails(c)
        PROVE  CallInv'
    BY <1>a, <1>7 DEF SaveFails, Release, TypeOK, CallInv, IssuedInv
  <1>8. ASSUME NEW c \in Callers, Accepted(c)
        PROVE  CallInv'
    BY <1>a, <1>8 DEF Accepted, TypeOK, CallInv, IssuedInv
  <1>9. ASSUME NEW c \in Callers, Rejected(c)
        PROVE  CallInv'
    BY <1>a, <1>9 DEF Rejected, TypeOK, CallInv, IssuedInv
  <1>10. ASSUME NEW c \in Callers, Invalidate(c)
        PROVE  CallInv'
    <2>1. PICK t \in Tokens : Distrusted(c, t)
      BY <1>a, <1>10, InvalidateMarks
    <2> QED
      BY <1>a, <2>1 DEF Distrusted, TypeOK, CallInv, IssuedInv
  <1>11. ASSUME NEW c \in Callers, NEW ends \in BOOLEAN, NEW refresh \in BOOLEAN, Exchange(c, ends, refresh)
        PROVE  CallInv'
    <2>1. PICK t \in Tokens : Granted(c, t)
      BY <1>a, <1>11, GrantIsNew
    <2> QED
      BY <1>a, <2>1 DEF Granted, TypeOK, CallInv, IssuedInv
  <1>12. ASSUME NEW c \in Callers, ExchangeFails(c)
        PROVE  CallInv'
    BY <1>a, <1>12 DEF ExchangeFails, TypeOK, CallInv, IssuedInv
  <1>13. ASSUME NEW c \in Callers, SetToken(c)
        PROVE  CallInv'
    BY <1>a, <1>13 DEF SetToken, LockFree, TypeOK, CallInv, IssuedInv
  <1>14. ASSUME NEW t \in 1..MaxTokens, Age(t)
        PROVE  CallInv'
    BY <1>a, <1>14 DEF Age, TypeOK, CallInv, IssuedInv
  <1>15. CASE Revoke
    BY <1>a, <1>15 DEF Revoke, TypeOK, CallInv, IssuedInv
  <1>16. ASSUME NEW p \in Processes, Restart(p)
        PROVE  CallInv'
    BY <1>a, <1>16 DEF Restart, TypeOK, CallInv, IssuedInv
  <1>17. CASE UNCHANGED vars
    BY <1>a, <1>17 DEF vars, TypeOK, CallInv, IssuedInv
  <1> QED
    BY <1>1, <1>2, <1>3, <1>4, <1>5, <1>6, <1>7, <1>8, <1>9, <1>10, <1>11, <1>12, <1>13, <1>14,
           <1>15, <1>16, <1>17
       DEF Next

\* Every step keeps a new token apart from the others.
LEMMA FreshStep == IInv /\ [Next]_vars => FreshInv'
  <1> SUFFICES ASSUME IInv, [Next]_vars
               PROVE  FreshInv'
    OBVIOUS
  <1> USE TokenConstants, NoTokenIsNone
          DEF New, Goto, AtWith, NoCall, Calls, Busy, provider, source, history
  <1>a. /\ TypeOK /\ IssuedInv /\ CallInv
        /\ FreshInv /\ DaemonInv /\ ForeignInv /\ SessionInv
    BY DEF IInv
  <1>1. ASSUME NEW c \in Callers, Token(c)
        PROVE  FreshInv'
    <2>1. CASE UNCHANGED vars
      BY <1>a, <2>1 DEF vars, TypeOK, IssuedInv, Issued, CallInv, FreshInv
    <2>2. CASE ~UNCHANGED vars
      <3>1. PICK t \in Tokens : Loads(c, t)
        BY <1>a, <1>1, <2>2, TokenLoads
      <3>2. CASE caller' = [caller EXCEPT ![c] = AtWith("refreshing", t)]
        BY <1>a, <3>1, <3>2 DEF Loads, TypeOK, IssuedInv, Issued, CallInv, FreshInv
      <3>3. CASE caller' = [caller EXCEPT ![c] = AtWith("sending", t)]
        BY <1>a, <3>1, <3>3 DEF Loads, TypeOK, IssuedInv, Issued, CallInv, FreshInv
      <3>4. CASE caller' = [caller EXCEPT ![c] = NoCall]
        BY <1>a, <3>1, <3>4 DEF Loads, TypeOK, IssuedInv, Issued, CallInv, FreshInv
      <3>5. CASE caller' = caller
        BY <1>a, <3>1, <3>5 DEF Loads, TypeOK, IssuedInv, Issued, CallInv, FreshInv
      <3> QED
        BY <3>1, <3>2, <3>3, <3>4, <3>5 DEF Loads
    <2> QED
      BY <2>1, <2>2
  <1>2. ASSUME NEW c \in Callers, NEW rotate \in BOOLEAN, ProviderAnswers(c, rotate)
        PROVE  FreshInv'
    <2>1. PICK t \in Tokens : Answered(c, t)
      BY <1>a, <1>2, AnswerIsNew
    <2> QED
      BY <1>a, <2>1 DEF Answered, TypeOK, IssuedInv, Issued, CallInv, FreshInv
  <1>3. ASSUME NEW c \in Callers, ProviderRefuses(c)
        PROVE  FreshInv'
    BY <1>a, <1>3 DEF ProviderRefuses, Release, TypeOK, IssuedInv, Issued, CallInv, FreshInv
  <1>4. ASSUME NEW c \in Callers, RequestFails(c)
        PROVE  FreshInv'
    BY <1>a, <1>4 DEF RequestFails, Release, IsOrphan, TypeOK, IssuedInv, Issued, CallInv, FreshInv
  <1>5. ASSUME NEW c \in Callers, Receive(c)
        PROVE  FreshInv'
    BY <1>a, <1>5 DEF Receive, Adopted, TypeOK, IssuedInv, Issued, CallInv, FreshInv
  <1>6. ASSUME NEW c \in Callers, SaveToken(c)
        PROVE  FreshInv'
    BY <1>a, <1>6 DEF SaveToken, Release, TypeOK, IssuedInv, Issued, CallInv, FreshInv
  <1>7. ASSUME NEW c \in Callers, SaveFails(c)
        PROVE  FreshInv'
    BY <1>a, <1>7 DEF SaveFails, Release, TypeOK, IssuedInv, Issued, CallInv, FreshInv
  <1>8. ASSUME NEW c \in Callers, Accepted(c)
        PROVE  FreshInv'
    BY <1>a, <1>8 DEF Accepted, TypeOK, IssuedInv, Issued, CallInv, FreshInv
  <1>9. ASSUME NEW c \in Callers, Rejected(c)
        PROVE  FreshInv'
    BY <1>a, <1>9 DEF Rejected, TypeOK, IssuedInv, Issued, CallInv, FreshInv
  <1>10. ASSUME NEW c \in Callers, Invalidate(c)
        PROVE  FreshInv'
    <2>1. PICK t \in Tokens : Distrusted(c, t)
      BY <1>a, <1>10, InvalidateMarks
    <2> QED
      BY <1>a, <2>1 DEF Distrusted, TypeOK, IssuedInv, Issued, CallInv, FreshInv
  <1>11. ASSUME NEW c \in Callers, NEW ends \in BOOLEAN, NEW refresh \in BOOLEAN, Exchange(c, ends, refresh)
        PROVE  FreshInv'
    <2>1. PICK t \in Tokens : Granted(c, t)
      BY <1>a, <1>11, GrantIsNew
    <2> QED
      BY <1>a, <2>1 DEF Granted, TypeOK, IssuedInv, Issued, CallInv, FreshInv
  <1>12. ASSUME NEW c \in Callers, ExchangeFails(c)
        PROVE  FreshInv'
    BY <1>a, <1>12 DEF ExchangeFails, TypeOK, IssuedInv, Issued, CallInv, FreshInv
  <1>13. ASSUME NEW c \in Callers, SetToken(c)
        PROVE  FreshInv'
    BY <1>a, <1>13 DEF SetToken, LockFree, TypeOK, IssuedInv, Issued, CallInv, FreshInv
  <1>14. ASSUME NEW t \in 1..MaxTokens, Age(t)
        PROVE  FreshInv'
    BY <1>a, <1>14 DEF Age, TypeOK, IssuedInv, Issued, CallInv, FreshInv
  <1>15. CASE Revoke
    BY <1>a, <1>15 DEF Revoke, TypeOK, IssuedInv, Issued, CallInv, FreshInv
  <1>16. ASSUME NEW p \in Processes, Restart(p)
        PROVE  FreshInv'
    BY <1>a, <1>16 DEF Restart, TypeOK, IssuedInv, Issued, CallInv, FreshInv
  <1>17. CASE UNCHANGED vars
    BY <1>a, <1>17 DEF vars, TypeOK, IssuedInv, Issued, CallInv, FreshInv
  <1> QED
    BY <1>1, <1>2, <1>3, <1>4, <1>5, <1>6, <1>7, <1>8, <1>9, <1>10, <1>11, <1>12, <1>13, <1>14,
           <1>15, <1>16, <1>17
       DEF Next

\* Every step keeps what the daemon rejected marked.
LEMMA DaemonStep == IInv /\ [Next]_vars => DaemonInv'
  <1> SUFFICES ASSUME IInv, [Next]_vars
               PROVE  DaemonInv'
    OBVIOUS
  <1> USE TokenConstants, NoTokenIsNone
          DEF New, Goto, AtWith, NoCall, Calls, Busy, provider, source, history
  <1>a. /\ TypeOK /\ IssuedInv /\ CallInv
        /\ FreshInv /\ DaemonInv /\ ForeignInv /\ SessionInv
    BY DEF IInv
  <1>1. ASSUME NEW c \in Callers, Token(c)
        PROVE  DaemonInv'
    <2>1. CASE UNCHANGED vars
      BY <1>a, <2>1 DEF vars, TypeOK, IssuedInv, CallInv, FreshInv, DaemonInv
    <2>2. CASE ~UNCHANGED vars
      <3>1. PICK t \in Tokens : Loads(c, t)
        BY <1>a, <1>1, <2>2, TokenLoads
      <3>2. /\ rejected' = rejected /\ unsaved' = unsaved
            /\ current[Home[c]] = t \/ current[Home[c]] = NoToken
            /\ current' = [current EXCEPT ![Home[c]] = t]
            /\ current \in [Processes -> Tokens \cup {NoToken}] /\ Home[c] \in Processes /\ Daemon \in Processes
        BY <1>a, <3>1 DEF Loads, TypeOK
      <3> QED
        BY <1>a, <3>2 DEF DaemonInv
    <2> QED
      BY <2>1, <2>2
  <1>2. ASSUME NEW c \in Callers, NEW rotate \in BOOLEAN, ProviderAnswers(c, rotate)
        PROVE  DaemonInv'
    <2>1. PICK t \in Tokens : Answered(c, t)
      BY <1>a, <1>2, AnswerIsNew
    <2> QED
      BY <1>a, <2>1 DEF Answered, TypeOK, IssuedInv, CallInv, FreshInv, DaemonInv
  <1>3. ASSUME NEW c \in Callers, ProviderRefuses(c)
        PROVE  DaemonInv'
    BY <1>a, <1>3 DEF ProviderRefuses, Release, TypeOK, IssuedInv, CallInv, FreshInv, DaemonInv
  <1>4. ASSUME NEW c \in Callers, RequestFails(c)
        PROVE  DaemonInv'
    BY <1>a, <1>4
       DEF RequestFails, Release, IsOrphan, TypeOK, IssuedInv, CallInv, FreshInv, DaemonInv
  <1>5. ASSUME NEW c \in Callers, Receive(c)
        PROVE  DaemonInv'
    BY <1>a, <1>5 DEF Receive, Adopted, TypeOK, IssuedInv, CallInv, FreshInv, DaemonInv
  <1>6. ASSUME NEW c \in Callers, SaveToken(c)
        PROVE  DaemonInv'
    BY <1>a, <1>6 DEF SaveToken, Release, TypeOK, IssuedInv, CallInv, FreshInv, DaemonInv
  <1>7. ASSUME NEW c \in Callers, SaveFails(c)
        PROVE  DaemonInv'
    BY <1>a, <1>7 DEF SaveFails, Release, TypeOK, IssuedInv, CallInv, FreshInv, DaemonInv
  <1>8. ASSUME NEW c \in Callers, Accepted(c)
        PROVE  DaemonInv'
    BY <1>a, <1>8 DEF Accepted, TypeOK, IssuedInv, CallInv, FreshInv, DaemonInv
  <1>9. ASSUME NEW c \in Callers, Rejected(c)
        PROVE  DaemonInv'
    BY <1>a, <1>9 DEF Rejected, TypeOK, IssuedInv, CallInv, FreshInv, DaemonInv
  <1>10. ASSUME NEW c \in Callers, Invalidate(c)
        PROVE  DaemonInv'
    <2>1. PICK t \in Tokens : Distrusted(c, t)
      BY <1>a, <1>10, InvalidateMarks
    <2>2. /\ rejected' = IF Home[c] = Daemon THEN rejected \cup {caller[c].token.access} ELSE rejected
          /\ unsaved' = unsaved /\ t.marked /\ current' = [current EXCEPT ![Home[c]] = t]
          /\ current \in [Processes -> Tokens \cup {NoToken}] /\ Home[c] \in Processes /\ Daemon \in Processes
      BY <1>a, <2>1 DEF Distrusted, TypeOK
    <2> QED
      BY <1>a, <2>2 DEF DaemonInv
  <1>11. ASSUME NEW c \in Callers, NEW ends \in BOOLEAN, NEW refresh \in BOOLEAN, Exchange(c, ends, refresh)
        PROVE  DaemonInv'
    <2>1. PICK t \in Tokens : Granted(c, t)
      BY <1>a, <1>11, GrantIsNew
    <2> QED
      BY <1>a, <2>1 DEF Granted, TypeOK, IssuedInv, CallInv, FreshInv, DaemonInv
  <1>12. ASSUME NEW c \in Callers, ExchangeFails(c)
        PROVE  DaemonInv'
    BY <1>a, <1>12 DEF ExchangeFails, TypeOK, IssuedInv, CallInv, FreshInv, DaemonInv
  <1>13. ASSUME NEW c \in Callers, SetToken(c)
        PROVE  DaemonInv'
    BY <1>a, <1>13 DEF SetToken, LockFree, TypeOK, IssuedInv, CallInv, FreshInv, DaemonInv
  <1>14. ASSUME NEW t \in 1..MaxTokens, Age(t)
        PROVE  DaemonInv'
    BY <1>a, <1>14 DEF Age, TypeOK, IssuedInv, CallInv, FreshInv, DaemonInv
  <1>15. CASE Revoke
    BY <1>a, <1>15 DEF Revoke, TypeOK, IssuedInv, CallInv, FreshInv, DaemonInv
  <1>16. ASSUME NEW p \in Processes, Restart(p)
        PROVE  DaemonInv'
    <2>1. /\ p # Daemon => rejected' = rejected /\ (unsaved' => unsaved)
          /\ p = Daemon => rejected' = {} /\ ~unsaved'
      BY <1>16 DEF Restart
    <2>2. /\ current' = [current EXCEPT ![p] = NoToken]
          /\ current \in [Processes -> Tokens \cup {NoToken}] /\ Daemon \in Processes
      BY <1>a, <1>16 DEF Restart, TypeOK
    <2> QED
      BY <1>a, <2>1, <2>2 DEF DaemonInv
  <1>17. CASE UNCHANGED vars
    BY <1>a, <1>17 DEF vars, TypeOK, IssuedInv, CallInv, FreshInv, DaemonInv
  <1> QED
    BY <1>1, <1>2, <1>3, <1>4, <1>5, <1>6, <1>7, <1>8, <1>9, <1>10, <1>11, <1>12, <1>13, <1>14,
           <1>15, <1>16, <1>17
       DEF Next

\* Every step keeps the other processes' tokens counted.
LEMMA ForeignStep == IInv /\ [Next]_vars => ForeignInv'
  <1> SUFFICES ASSUME IInv, [Next]_vars
               PROVE  ForeignInv'
    OBVIOUS
  <1> USE TokenConstants, NoTokenIsNone
          DEF New, OtherCallers, Goto, AtWith, NoCall, Calls, Busy, provider, source, history
  <1>a. /\ TypeOK /\ IssuedInv /\ CallInv
        /\ FreshInv /\ DaemonInv /\ ForeignInv /\ SessionInv
    BY DEF IInv
  <1>1. ASSUME NEW c \in Callers, Token(c)
        PROVE  ForeignInv'
    <2>1. CASE UNCHANGED vars
      BY <1>a, <2>1 DEF vars, TypeOK, CallInv, ForeignInv, IssuedInv
    <2>2. CASE ~UNCHANGED vars
      <3>1. PICK t \in Tokens : Loads(c, t)
        BY <1>a, <1>1, <2>2, TokenLoads
      <3>2. CASE caller' = [caller EXCEPT ![c] = AtWith("refreshing", t)]
        BY <1>a, <3>1, <3>2 DEF Loads, TypeOK, CallInv, ForeignInv, IssuedInv
      <3>3. CASE caller' = [caller EXCEPT ![c] = AtWith("sending", t)]
        BY <1>a, <3>1, <3>3 DEF Loads, TypeOK, CallInv, ForeignInv, IssuedInv
      <3>4. CASE caller' = [caller EXCEPT ![c] = NoCall]
        BY <1>a, <3>1, <3>4 DEF Loads, TypeOK, CallInv, ForeignInv, IssuedInv
      <3>5. CASE caller' = caller
        BY <1>a, <3>1, <3>5 DEF Loads, TypeOK, CallInv, ForeignInv, IssuedInv
      <3> QED
        BY <3>1, <3>2, <3>3, <3>4, <3>5 DEF Loads
    <2> QED
      BY <2>1, <2>2
  <1>2. ASSUME NEW c \in Callers, NEW rotate \in BOOLEAN, ProviderAnswers(c, rotate)
        PROVE  ForeignInv'
    <2>1. PICK t \in Tokens : Answered(c, t)
      BY <1>a, <1>2, AnswerIsNew
    <2> QED
      BY <1>a, <2>1 DEF Answered, TypeOK, CallInv, ForeignInv, IssuedInv
  <1>3. ASSUME NEW c \in Callers, ProviderRefuses(c)
        PROVE  ForeignInv'
    BY <1>a, <1>3 DEF ProviderRefuses, Release, TypeOK, CallInv, ForeignInv, IssuedInv
  <1>4. ASSUME NEW c \in Callers, RequestFails(c)
        PROVE  ForeignInv'
    BY <1>a, <1>4 DEF RequestFails, Release, IsOrphan, TypeOK, CallInv, ForeignInv, IssuedInv
  <1>5. ASSUME NEW c \in Callers, Receive(c)
        PROVE  ForeignInv'
    BY <1>a, <1>5 DEF Receive, Adopted, TypeOK, CallInv, ForeignInv, IssuedInv
  <1>6. ASSUME NEW c \in Callers, SaveToken(c)
        PROVE  ForeignInv'
    BY <1>a, <1>6 DEF SaveToken, Release, TypeOK, CallInv, ForeignInv, IssuedInv
  <1>7. ASSUME NEW c \in Callers, SaveFails(c)
        PROVE  ForeignInv'
    BY <1>a, <1>7 DEF SaveFails, Release, TypeOK, CallInv, ForeignInv, IssuedInv
  <1>8. ASSUME NEW c \in Callers, Accepted(c)
        PROVE  ForeignInv'
    BY <1>a, <1>8 DEF Accepted, TypeOK, CallInv, ForeignInv, IssuedInv
  <1>9. ASSUME NEW c \in Callers, Rejected(c)
        PROVE  ForeignInv'
    BY <1>a, <1>9 DEF Rejected, TypeOK, CallInv, ForeignInv, IssuedInv
  <1>10. ASSUME NEW c \in Callers, Invalidate(c)
        PROVE  ForeignInv'
    <2>1. PICK t \in Tokens : Distrusted(c, t)
      BY <1>a, <1>10, InvalidateMarks
    <2> QED
      BY <1>a, <2>1 DEF Distrusted, TypeOK, CallInv, ForeignInv, IssuedInv
  <1>11. ASSUME NEW c \in Callers, NEW ends \in BOOLEAN, NEW refresh \in BOOLEAN, Exchange(c, ends, refresh)
        PROVE  ForeignInv'
    <2>1. PICK t \in Tokens : Granted(c, t)
      BY <1>a, <1>11, GrantIsNew
    <2> QED
      BY <1>a, <2>1 DEF Granted, TypeOK, CallInv, ForeignInv, IssuedInv
  <1>12. ASSUME NEW c \in Callers, ExchangeFails(c)
        PROVE  ForeignInv'
    BY <1>a, <1>12 DEF ExchangeFails, TypeOK, CallInv, ForeignInv, IssuedInv
  <1>13. ASSUME NEW c \in Callers, SetToken(c)
        PROVE  ForeignInv'
    BY <1>a, <1>13 DEF SetToken, LockFree, TypeOK, CallInv, ForeignInv, IssuedInv
  <1>14. ASSUME NEW t \in 1..MaxTokens, Age(t)
        PROVE  ForeignInv'
    BY <1>a, <1>14 DEF Age, TypeOK, CallInv, ForeignInv, IssuedInv
  <1>15. CASE Revoke
    BY <1>a, <1>15 DEF Revoke, TypeOK, CallInv, ForeignInv, IssuedInv
  <1>16. ASSUME NEW p \in Processes, Restart(p)
        PROVE  ForeignInv'
    BY <1>a, <1>16 DEF Restart, TypeOK, CallInv, ForeignInv, IssuedInv
  <1>17. CASE UNCHANGED vars
    BY <1>a, <1>17 DEF vars, TypeOK, CallInv, ForeignInv, IssuedInv
  <1> QED
    BY <1>1, <1>2, <1>3, <1>4, <1>5, <1>6, <1>7, <1>8, <1>9, <1>10, <1>11, <1>12, <1>13, <1>14,
           <1>15, <1>16, <1>17
       DEF Next

\* Every step keeps the session where it is.
LEMMA SessionStep == IInv /\ [Next]_vars => SessionInv'
  <1> SUFFICES ASSUME IInv, [Next]_vars
               PROVE  SessionInv'
    OBVIOUS
  <1> USE TokenConstants, NoTokenIsNone
          DEF New, OtherCallers, AtDaemon, OnDisk, Usable, NoLoginPending, Goto, AtWith, NoCall, Calls,
              Busy, provider, source, history
  <1>a. /\ TypeOK /\ IssuedInv /\ CallInv
        /\ FreshInv /\ DaemonInv /\ ForeignInv /\ SessionInv
    BY DEF IInv
  <1>1. ASSUME NEW c \in Callers, Token(c)
        PROVE  SessionInv'
    <2>1. CASE UNCHANGED vars
      BY <1>a, <2>1 DEF vars, TypeOK, IssuedInv, Issued, CallInv, ForeignInv, DaemonInv, SessionInv
    <2>2. CASE ~UNCHANGED vars
      <3>1. PICK t \in Tokens : Loads(c, t)
        BY <1>a, <1>1, <2>2, TokenLoads
      <3>2. CASE caller' = [caller EXCEPT ![c] = AtWith("refreshing", t)]
        BY <1>a, <3>1, <3>2
           DEF Loads, TypeOK, IssuedInv, Issued, CallInv, ForeignInv, DaemonInv, SessionInv
      <3>3. CASE caller' = [caller EXCEPT ![c] = AtWith("sending", t)]
        BY <1>a, <3>1, <3>3
           DEF Loads, TypeOK, IssuedInv, Issued, CallInv, ForeignInv, DaemonInv, SessionInv
      <3>4. CASE caller' = [caller EXCEPT ![c] = NoCall]
        BY <1>a, <3>1, <3>4
           DEF Loads, TypeOK, IssuedInv, Issued, CallInv, ForeignInv, DaemonInv, SessionInv
      <3>5. CASE caller' = caller
        BY <1>a, <3>1, <3>5
           DEF Loads, TypeOK, IssuedInv, Issued, CallInv, ForeignInv, DaemonInv, SessionInv
      <3> QED
        BY <3>1, <3>2, <3>3, <3>4, <3>5 DEF Loads
    <2> QED
      BY <2>1, <2>2
  <1>2. ASSUME NEW c \in Callers, NEW rotate \in BOOLEAN, ProviderAnswers(c, rotate)
        PROVE  SessionInv'
    <2>1. PICK t \in Tokens : Answered(c, t)
      BY <1>a, <1>2, AnswerIsNew
    <2> QED
      BY <1>a, <2>1
         DEF Answered, TypeOK, IssuedInv, Issued, CallInv, ForeignInv, DaemonInv, SessionInv
  <1>3. ASSUME NEW c \in Callers, ProviderRefuses(c)
        PROVE  SessionInv'
    BY <1>a, <1>3
       DEF ProviderRefuses, Release, TypeOK, IssuedInv, Issued, CallInv, ForeignInv, DaemonInv,
           SessionInv
  <1>4. ASSUME NEW c \in Callers, RequestFails(c)
        PROVE  SessionInv'
    <2> SUFFICES ASSUME ~lost', ~foreign', NoLoginPending'
                 PROVE  /\ \A d \in Callers : AtDaemon(d, {"answered"})' =>
                             /\ caller'[d].token.refresh \in alive'
                             /\ caller'[d].token.refresh = current'[Daemon].refresh => OnDisk'
                        /\ (\A d \in Callers : ~AtDaemon(d, {"answered"})') => Usable(current[Daemon])'
                        /\ (\A d \in Callers : ~AtDaemon(d, {"answered", "saving"})') => OnDisk'
      BY DEF SessionInv
    <2>1. ~lost /\ ~IsOrphan(c) /\ ~foreign
      BY <1>4 DEF RequestFails
    <2>2. /\ caller[c].at \in {"refreshing", "answered"} /\ caller' = [caller EXCEPT ![c] = NoCall]
          /\ alive' = alive /\ current' = current /\ disk' = disk /\ unsaved' = unsaved
      BY <1>4 DEF RequestFails, Goto, provider
    <2>3. NoLoginPending
      BY <1>a, <2>2 DEF NoLoginPending, TypeOK, NoCall
    <2>4. /\ \A d \in Callers : AtDaemon(d, {"answered"}) =>
               /\ caller[d].token.refresh \in alive
               /\ caller[d].token.refresh = current[Daemon].refresh => OnDisk
          /\ (\A d \in Callers : ~AtDaemon(d, {"answered"})) => Usable(current[Daemon])
          /\ (\A d \in Callers : ~AtDaemon(d, {"answered", "saving"})) => OnDisk
      BY <1>a, <2>1, <2>3 DEF SessionInv
    <2>5. OnDisk' = OnDisk /\ Usable(current[Daemon])' = Usable(current[Daemon])
      BY <2>2 DEF OnDisk, Usable
    <2>6. \A d \in Callers : d # c => caller'[d] = caller[d] /\ ~(AtDaemon(c, Busy) /\ AtDaemon(d, Busy))
      BY <1>a, <2>2 DEF TypeOK, AtDaemon
    <2>7. caller'[c].at = "idle"
      BY <1>a, <2>2 DEF TypeOK, NoCall
    <2>8. CASE AtDaemon(c, {"answered"})
      BY <2>1, <2>2, <2>4, <2>5, <2>6, <2>7, <2>8 DEF IsOrphan, AtDaemon, Busy, Usable
    <2>9. CASE ~AtDaemon(c, {"answered"})
      BY <2>2, <2>4, <2>5, <2>6, <2>7, <2>9 DEF AtDaemon, Busy
    <2> QED
      BY <2>8, <2>9
  <1>5. ASSUME NEW c \in Callers, Receive(c)
        PROVE  SessionInv'
    BY <1>a, <1>5
       DEF Receive, Adopted, TypeOK, IssuedInv, Issued, CallInv, ForeignInv, DaemonInv, SessionInv
  <1>6. ASSUME NEW c \in Callers, SaveToken(c)
        PROVE  SessionInv'
    BY <1>a, <1>6
       DEF SaveToken, Release, TypeOK, IssuedInv, Issued, CallInv, ForeignInv, DaemonInv, SessionInv
  <1>7. ASSUME NEW c \in Callers, SaveFails(c)
        PROVE  SessionInv'
    <2> SUFFICES ASSUME ~lost', ~foreign', NoLoginPending'
                 PROVE  /\ \A d \in Callers : AtDaemon(d, {"answered"})' =>
                             /\ caller'[d].token.refresh \in alive'
                             /\ caller'[d].token.refresh = current'[Daemon].refresh => OnDisk'
                        /\ (\A d \in Callers : ~AtDaemon(d, {"answered"})') => Usable(current[Daemon])'
                        /\ (\A d \in Callers : ~AtDaemon(d, {"answered", "saving"})') => OnDisk'
      BY DEF SessionInv
    <2>1. /\ ~lost /\ ~foreign /\ (unsaved => unsaved') /\ (Home[c] = Daemon => unsaved')
          /\ caller[c].at = "saving" /\ caller' = [caller EXCEPT ![c] = NoCall]
          /\ alive' = alive /\ current' = current /\ disk' = disk
      BY <1>7 DEF SaveFails, Goto, provider
    <2>2. NoLoginPending
      BY <1>a, <2>1 DEF NoLoginPending, TypeOK, NoCall
    <2>3. /\ \A d \in Callers : AtDaemon(d, {"answered"}) =>
               /\ caller[d].token.refresh \in alive
               /\ caller[d].token.refresh = current[Daemon].refresh => OnDisk
          /\ (\A d \in Callers : ~AtDaemon(d, {"answered"})) => Usable(current[Daemon])
          /\ (\A d \in Callers : ~AtDaemon(d, {"answered", "saving"})) => OnDisk
      BY <1>a, <2>1, <2>2 DEF SessionInv
    <2>4. (OnDisk => OnDisk') /\ Usable(current[Daemon])' = Usable(current[Daemon])
      BY <2>1 DEF OnDisk, Usable
    <2>5. Home[c] = Daemon => OnDisk'
      BY <2>1 DEF OnDisk
    <2>6. \A d \in Callers : d # c => caller'[d] = caller[d]
      BY <1>a, <2>1 DEF TypeOK
    <2>7. caller'[c].at = "idle"
      BY <1>a, <2>1 DEF TypeOK, NoCall
    <2> QED
      BY <2>1, <2>3, <2>4, <2>5, <2>6, <2>7 DEF AtDaemon
  <1>8. ASSUME NEW c \in Callers, Accepted(c)
        PROVE  SessionInv'
    BY <1>a, <1>8
       DEF Accepted, TypeOK, IssuedInv, Issued, CallInv, ForeignInv, DaemonInv, SessionInv
  <1>9. ASSUME NEW c \in Callers, Rejected(c)
        PROVE  SessionInv'
    BY <1>a, <1>9
       DEF Rejected, TypeOK, IssuedInv, Issued, CallInv, ForeignInv, DaemonInv, SessionInv
  <1>10. ASSUME NEW c \in Callers, Invalidate(c)
        PROVE  SessionInv'
    <2>1. PICK t \in Tokens : Distrusted(c, t)
      BY <1>a, <1>10, InvalidateMarks
    <2> QED
      BY <1>a, <2>1
         DEF Distrusted, TypeOK, IssuedInv, Issued, CallInv, ForeignInv, DaemonInv, SessionInv
  <1>11. ASSUME NEW c \in Callers, NEW ends \in BOOLEAN, NEW refresh \in BOOLEAN, Exchange(c, ends, refresh)
        PROVE  SessionInv'
    <2>1. PICK t \in Tokens : Granted(c, t)
      BY <1>a, <1>11, GrantIsNew
    <2> QED
      BY <1>a, <2>1
         DEF Granted, TypeOK, IssuedInv, Issued, CallInv, ForeignInv, DaemonInv, SessionInv
  <1>12. ASSUME NEW c \in Callers, ExchangeFails(c)
        PROVE  SessionInv'
    BY <1>a, <1>12
       DEF ExchangeFails, TypeOK, IssuedInv, Issued, CallInv, ForeignInv, DaemonInv, SessionInv
  <1>13. ASSUME NEW c \in Callers, SetToken(c)
        PROVE  SessionInv'
    <2> SUFFICES ASSUME ~lost', ~foreign', NoLoginPending'
                 PROVE  /\ \A d \in Callers : AtDaemon(d, {"answered"})' =>
                             /\ caller'[d].token.refresh \in alive'
                             /\ caller'[d].token.refresh = current'[Daemon].refresh => OnDisk'
                        /\ (\A d \in Callers : ~AtDaemon(d, {"answered"})') => Usable(current[Daemon])'
                        /\ (\A d \in Callers : ~AtDaemon(d, {"answered", "saving"})') => OnDisk'
      BY DEF SessionInv
    <2>1. /\ caller[c].token.refresh \in alive /\ ~foreign
          /\ caller[c].at = "exchanged" /\ holder[Home[c]] = Nobody
          /\ caller' = [caller EXCEPT ![c] = AtWith("saving", caller[c].token)]
          /\ current' = [current EXCEPT ![Home[c]] = caller[c].token] /\ alive' = alive
      BY <1>13 DEF SetToken, LockFree, Goto, provider
    <2>2. Home[c] = Daemon
      BY <1>a, <2>1 DEF ForeignInv, OtherCallers, New
    <2>3. caller'[c].at = "saving" /\ current'[Daemon] = caller[c].token
      BY <1>a, <2>1, <2>2 DEF TypeOK, AtWith
    <2>4. \A d \in Callers : ~AtDaemon(d, {"answered"})'
      BY <1>a, <2>1, <2>2, <2>3 DEF TypeOK, AtDaemon, Busy
    <2> QED
      BY <2>1, <2>2, <2>3, <2>4 DEF AtDaemon, Usable
  <1>14. ASSUME NEW t \in 1..MaxTokens, Age(t)
        PROVE  SessionInv'
    BY <1>a, <1>14 DEF Age, TypeOK, IssuedInv, Issued, CallInv, ForeignInv, DaemonInv, SessionInv
  <1>15. CASE Revoke
    BY <1>a, <1>15 DEF Revoke, TypeOK, IssuedInv, Issued, CallInv, ForeignInv, DaemonInv, SessionInv
  <1>16. ASSUME NEW p \in Processes, Restart(p)
        PROVE  SessionInv'
    BY <1>a, <1>16
       DEF Restart, TypeOK, IssuedInv, Issued, CallInv, ForeignInv, DaemonInv, SessionInv
  <1>17. CASE UNCHANGED vars
    BY <1>a, <1>17 DEF vars, TypeOK, IssuedInv, Issued, CallInv, ForeignInv, DaemonInv, SessionInv
  <1> QED
    BY <1>1, <1>2, <1>3, <1>4, <1>5, <1>6, <1>7, <1>8, <1>9, <1>10, <1>11, <1>12, <1>13, <1>14,
           <1>15, <1>16, <1>17
       DEF Next

\* No step hands the cloud a token the daemon rejected: the token in memory would be
\* marked, and the token of a refresh is new.
LEMMA ReuseStep == IInv /\ [Next]_vars => SendsUnrejected
  <1> SUFFICES ASSUME IInv, [Next]_vars
               PROVE  SendsUnrejected
    OBVIOUS
  <1> USE TokenConstants, NoTokenIsNone
          DEF Goto, AtWith, NoCall, Calls, Busy, provider, source, history, SendsUnrejected
  <1>a. /\ TypeOK /\ IssuedInv /\ CallInv
        /\ FreshInv /\ DaemonInv /\ ForeignInv /\ SessionInv
    BY DEF IInv
  <1>1. ASSUME NEW c \in Callers, Token(c)
        PROVE  SendsUnrejected
    <2>1. CASE UNCHANGED vars
      BY <2>1 DEF vars
    <2>2. CASE ~UNCHANGED vars
      <3>1. PICK t \in Tokens : Loads(c, t)
        BY <1>a, <1>1, <2>2, TokenLoads
      <3>2. \A d \in Callers : d # c => caller'[d] = caller[d]
        BY <1>a, <3>1 DEF Loads, TypeOK
      <3>3. caller'[c].at = "sending" => caller'[c].token = t /\ ~t.marked
        BY <1>a, <3>1 DEF Loads, TypeOK
      <3>4. Home[c] = Daemon /\ ~t.marked => t.access \notin rejected
        BY <1>a, <3>1 DEF Loads, DaemonInv
      <3> QED
        BY <3>2, <3>3, <3>4
    <2> QED
      BY <2>1, <2>2
  <1>2. ASSUME NEW c \in Callers, NEW rotate \in BOOLEAN, ProviderAnswers(c, rotate)
        PROVE  SendsUnrejected
    <2>1. PICK t \in Tokens : Answered(c, t)
      BY <1>a, <1>2, AnswerIsNew
    <2> QED
      BY <1>a, <2>1 DEF Answered, TypeOK, FreshInv, New
  <1>3. ASSUME NEW c \in Callers, ProviderRefuses(c)
        PROVE  SendsUnrejected
    BY <1>a, <1>3 DEF ProviderRefuses, Release, TypeOK, FreshInv, New
  <1>4. ASSUME NEW c \in Callers, RequestFails(c)
        PROVE  SendsUnrejected
    BY <1>a, <1>4 DEF RequestFails, Release, IsOrphan, TypeOK, FreshInv, New
  <1>5. ASSUME NEW c \in Callers, Receive(c)
        PROVE  SendsUnrejected
    BY <1>a, <1>5 DEF Receive, Adopted, TypeOK, FreshInv, New
  <1>6. ASSUME NEW c \in Callers, SaveToken(c)
        PROVE  SendsUnrejected
    BY <1>a, <1>6 DEF SaveToken, Release, TypeOK, FreshInv, New
  <1>7. ASSUME NEW c \in Callers, SaveFails(c)
        PROVE  SendsUnrejected
    BY <1>a, <1>7 DEF SaveFails, Release, TypeOK, FreshInv, New
  <1>8. ASSUME NEW c \in Callers, Accepted(c)
        PROVE  SendsUnrejected
    BY <1>a, <1>8 DEF Accepted, TypeOK, FreshInv, New
  <1>9. ASSUME NEW c \in Callers, Rejected(c)
        PROVE  SendsUnrejected
    BY <1>a, <1>9 DEF Rejected, TypeOK, FreshInv, New
  <1>10. ASSUME NEW c \in Callers, Invalidate(c)
        PROVE  SendsUnrejected
    <2>1. PICK t \in Tokens : Distrusted(c, t)
      BY <1>a, <1>10, InvalidateMarks
    <2> QED
      BY <1>a, <2>1 DEF Distrusted, TypeOK, FreshInv, New
  <1>11. ASSUME NEW c \in Callers, NEW ends \in BOOLEAN, NEW refresh \in BOOLEAN, Exchange(c, ends, refresh)
        PROVE  SendsUnrejected
    <2>1. PICK t \in Tokens : Granted(c, t)
      BY <1>a, <1>11, GrantIsNew
    <2> QED
      BY <1>a, <2>1 DEF Granted, TypeOK, FreshInv, New
  <1>12. ASSUME NEW c \in Callers, ExchangeFails(c)
        PROVE  SendsUnrejected
    BY <1>a, <1>12 DEF ExchangeFails, TypeOK, FreshInv, New
  <1>13. ASSUME NEW c \in Callers, SetToken(c)
        PROVE  SendsUnrejected
    BY <1>a, <1>13 DEF SetToken, LockFree, TypeOK, FreshInv, New
  <1>14. ASSUME NEW t \in 1..MaxTokens, Age(t)
        PROVE  SendsUnrejected
    BY <1>a, <1>14 DEF Age, TypeOK, FreshInv, New
  <1>15. CASE Revoke
    BY <1>a, <1>15 DEF Revoke, TypeOK, FreshInv, New
  <1>16. ASSUME NEW p \in Processes, Restart(p)
        PROVE  SendsUnrejected
    BY <1>a, <1>16 DEF Restart, TypeOK, FreshInv, New
  <1>17. CASE UNCHANGED vars
    BY <1>a, <1>17 DEF vars, TypeOK, FreshInv, New
  <1> QED
    BY <1>1, <1>2, <1>3, <1>4, <1>5, <1>6, <1>7, <1>8, <1>9, <1>10, <1>11, <1>12, <1>13, <1>14,
           <1>15, <1>16, <1>17
       DEF Next

\* A store from an earlier run satisfies the invariant.
LEMMA InitIInv == Init => IInv
  <1> SUFFICES ASSUME Init
               PROVE  IInv
    OBVIOUS
  <1> USE TokenConstants, NoTokenIsNone DEF Init, NoCall
  <1>1. TypeOK
    <2>1. [access |-> 1, refresh |-> 1, marked |-> FALSE] \in Tokens
      BY DEF Tokens
    <2>2. /\ disk \in Tokens \cup {NoToken} /\ issued \in 0..MaxTokens /\ alive \subseteq 1..issued
          /\ aged = {} /\ rejected = {}
      <3>1. CASE issued = 1
        <4>1. alive = {1} /\ disk = [access |-> 1, refresh |-> 1, marked |-> FALSE] /\ aged = {} /\ rejected = {}
          BY <3>1
        <4>2. 1 \in 0..MaxTokens /\ {1} \subseteq 1..1
          BY TokenConstants
        <4> QED
          BY <2>1, <3>1, <4>1, <4>2
      <3>2. CASE issued = 0
        BY <3>2
      <3> QED
        BY <3>1, <3>2
    <2>3. lost \in BOOLEAN /\ unsaved \in BOOLEAN /\ foreign \in BOOLEAN
      OBVIOUS
    <2> QED
      BY <2>2, <2>3 DEF TypeOK, Calls, Busy
  <1>2. IssuedInv
    BY DEF IssuedInv, Issued, Tokens
  <1>3. CallInv /\ FreshInv /\ DaemonInv /\ ForeignInv
    BY DEF CallInv, FreshInv, DaemonInv, ForeignInv, New, OtherCallers
  <1>4. SessionInv
    BY DEF SessionInv, AtDaemon, OnDisk, Usable
  <1> QED
    BY <1>1, <1>2, <1>3, <1>4 DEF IInv

\* The inductive invariant holds in every reachable state.
LEMMA TokenInvariant == Spec => []IInv
  <1>1. Init => IInv
    BY InitIInv
  <1>2. IInv /\ [Next]_vars => IInv'
    <2> SUFFICES ASSUME IInv, [Next]_vars
                 PROVE  IInv'
      OBVIOUS
    <2> QED
      BY TypeStep, IssuedStep, CallStep, FreshStep, DaemonStep, ForeignStep, SessionStep DEF IInv
  <1> QED
    BY <1>1, <1>2, PTL DEF Spec

----------------------------------------------------------------------------
(* The results. *)

\* TokenSource.mu is a lock: a process's mutex is held by exactly the caller that is
\* between the start of its refresh (or login) and the end of its save.
THEOREM TokenTypeCorrect == Spec => []TypeOK
  <1>1. IInv => TypeOK
    BY DEF IInv
  <1> QED
    BY <1>1, TokenInvariant, PTL

\* The session survives rotation, whatever the number of goroutines, processes and
\* tokens: without a lost answer or another process's login, the daemon and the store
\* hold a refresh token the provider accepts whenever no call is under way.
THEOREM SessionAlwaysSurvives == Spec => []SessionSurvives
  <1>1. IInv => SessionSurvives
    <2> SUFFICES ASSUME IInv, ~lost, ~foreign, NoLoginPending, holder[Daemon] = Nobody
                 PROVE  Usable(current[Daemon]) /\ OnDisk
      BY DEF SessionSurvives, OnDisk
    <2>1. \A c \in Callers : ~AtDaemon(c, {"answered", "saving"})
      <3> SUFFICES ASSUME NEW c \in Callers, Home[c] = Daemon, caller[c].at \in Busy
                   PROVE  FALSE
        BY DEF AtDaemon, Busy
      <3>1. holder[Daemon] = c
        BY DEF IInv, TypeOK
      <3> QED
        BY <3>1, TokenConstants
    <2> QED
      BY <2>1 DEF IInv, SessionInv, AtDaemon
  <1> QED
    BY <1>1, TokenInvariant, PTL

\* A token the cloud answered 401 to is never handed out by Token() again before a restart.
THEOREM RejectedTokenStaysOut == Spec => RejectedIsNotReused
  <1>1. IInv /\ [Next]_vars => [SendsUnrejected]_vars
    BY ReuseStep
  <1> QED
    BY <1>1, TokenInvariant, PTL DEF Spec, RejectedIsNotReused, SendsUnrejected

=============================================================================
