------------------------ MODULE ConnectedLevelProofs ------------------------
(***************************************************************************)
(* TLAPS proofs about ConnectedLevel, for every threshold and any number of *)
(* losses, crashes and stops, and about ClimateEntity, for any fan speeds   *)
(* and operation modes.                                                     *)
(***************************************************************************)
EXTENDS ConnectedLevel, ClimateEntity, TLAPS

\* Every announcement under way was caused by a loss of the link, and so was a
\* link that is down.
LossesInv ==
    /\ pending <= drops
    /\ ~link /\ stage # "stopped" => pending + 1 <= drops

\* The goroutines of Run work only between its announcement and its return.
WorkInv ==
    /\ stage \notin {"running", "stopping"} => GoroutinesDone
    /\ poll.at = "derived" => poll.level # 0
    /\ watch.at = "derived" => watch.level # 0

\* The cloud counts as usable as long as its bad answers stay below the threshold.
AnswersInv ==
    /\ cloudOK <=> answers < CloudFailThreshold
    /\ cloudOK => cloudFails = answers

\* What the poll loop carries towards connLevel is what it last learnt.
DecisionInv ==
    mode = "cloud" =>
        /\ poll.at \in {"idle", "asking"} => (connLevel = 2 <=> cloudOK)
        /\ poll.at = "derived" => (poll.level = 2 <=> cloudOK)

\* The will has been published while the link is down, and nothing but an
\* announcement of a reconnect follows PublishOffline.
OfflineInv ==
    /\ ~link /\ stage # "stopped" => connected = 0
    /\ stage \in {"offline", "stopped"} /\ ~unsent /\ ~overlap => connected = 0

IInv ==
    /\ TypeOK
    /\ LossesInv
    /\ WorkInv
    /\ AnswersInv
    /\ DecisionInv
    /\ OfflineInv
    /\ BrokerHoldsDecidedLevel


USE LevelConstants

----------------------------------------------------------------------------
(* The helpers the actions are built from. *)

\* A connection is told 1 or 2, never 0.
LEMMA AnnouncedUp == \A level \in 0..2 : Announced(level) \in 1..2
  BY DEF Announced

\* What a goroutine derives is 1 or 2.
LEMMA DerivedUp == UpstreamLevel \in 1..2
  BY DEF UpstreamLevel

\* A write leaves the broker alone while the link is down, and on a live link
\* either brings it the level or is remembered as failed.
LEMMA WriteStep ==
    ASSUME TypeOK, NEW level \in 0..2, Write(level)
    PROVE  /\ connected' \in 0..2 /\ unsent' \in BOOLEAN
           /\ ~link => connected' = connected /\ unsent' = unsent
           /\ link /\ ~unsent' => connected' = level
  BY DEF TypeOK, Write

\* updateConnected under connMu.
LEMMA StoreStep ==
    ASSUME TypeOK, NEW level \in 1..2, Store(level), BrokerHoldsDecidedLevel
    PROVE  /\ connLevel' = level
           /\ connected' \in 0..2 /\ unsent' \in BOOLEAN
           /\ ~link => connected' = connected
           /\ stage = "running" /\ link /\ pending = 0 /\ ~unsent' => connected' = Announced(level)
  <1>1. CASE connLevel = level
    BY <1>1 DEF Store, TypeOK, BrokerHoldsDecidedLevel
  <1>2. CASE connLevel # level
    <2>1. connLevel' = level /\ Write(level)
      BY <1>2 DEF Store
    <2>2. Announced(level) = level
      BY DEF Announced
    <2> QED
      BY <2>1, <2>2, WriteStep
  <1> QED
    BY <1>1, <1>2

----------------------------------------------------------------------------
(* The inductive invariant. *)

\* The initial states satisfy the invariant.
LEMMA InitIInv == Init => IInv
  <1> SUFFICES ASSUME Init
               PROVE  IInv
    OBVIOUS
  <1>1. TypeOK
    <2>1. /\ cloudOK \in BOOLEAN /\ devicesKnown \in BOOLEAN /\ faikin \in BOOLEAN
          /\ link \in BOOLEAN /\ unsent \in BOOLEAN /\ overlap \in BOOLEAN
      BY DEF Init
    <2> QED
      BY <2>1 DEF Init, TypeOK, Modes, Stages, Idle
  <1>2. AnswersInv
    BY DEF Init, AnswersInv
  <1>3. LossesInv /\ WorkInv /\ DecisionInv /\ OfflineInv /\ BrokerHoldsDecidedLevel
    BY DEF Init, Idle, LossesInv, WorkInv, GoroutinesDone, DecisionInv, OfflineInv, BrokerHoldsDecidedLevel
  <1> QED
    BY <1>1, <1>2, <1>3 DEF IInv

\* The conjuncts that speak of the connection and the process hold on when a
\* goroutine takes a step that writes nothing.
LEMMA QuietStep ==
    ASSUME IInv, UNCHANGED <<mode, connLevel, world, pending, connected, stage, history>>
    PROVE  LossesInv' /\ OfflineInv' /\ BrokerHoldsDecidedLevel'
  BY DEF IInv, LossesInv, OfflineInv, BrokerHoldsDecidedLevel, world, history, Announced

\* Nothing the poll loop and the answers are related by moves.
LEMMA LevelStep ==
    ASSUME IInv, UNCHANGED <<mode, upstream, decision>>
    PROVE  AnswersInv' /\ DecisionInv'
  BY DEF IInv, AnswersInv, DecisionInv, upstream, decision

\* Every step keeps the invariant.
LEMMA NextIInv == IInv /\ [Next]_vars => IInv'
  <1> SUFFICES ASSUME IInv, [Next]_vars
               PROVE  IInv'
    OBVIOUS
  <1> USE DEF IInv
  <1>1. CASE Ask
    <2>1. TypeOK' /\ WorkInv'
      BY <1>1 DEF Ask, TypeOK, WorkInv, GoroutinesDone, Idle, upstream, world, history
    <2>2. AnswersInv' /\ DecisionInv'
      BY <1>1 DEF Ask, TypeOK, AnswersInv, DecisionInv, upstream
    <2> QED
      BY <1>1, <2>1, <2>2, QuietStep DEF Ask
  <1>2. ASSUME NEW outcome \in Outcomes, Poll(outcome)
        PROVE  IInv'
    <2>1. LossesInv' /\ OfflineInv' /\ BrokerHoldsDecidedLevel'
      BY <1>2, QuietStep DEF Poll
    <2>2. poll' \in [at : {"idle", "asking", "noted", "derived"}, level : 0..2] /\ poll'.at \in {"idle", "noted"}
      BY <1>2 DEF Poll, TypeOK, Idle
    <2>3. CASE outcome = "skipped"
      <3>1. poll' = Idle /\ UNCHANGED <<upstream, mode, connLevel, watch, world, stage, pending, connected, history>>
        BY <1>2, <2>3 DEF Poll
      <3> QED
        BY <1>2, <2>1, <2>2, <3>1
        DEF Poll, TypeOK, WorkInv, GoroutinesDone, AnswersInv, DecisionInv, Idle, upstream, world, history
    <2>4. CASE outcome = "good"
      <3>1. NoteGood /\ poll'.at = "noted"
        BY <1>2, <2>4 DEF Poll, TypeOK
      <3> QED
        BY <1>2, <2>1, <2>2, <3>1
        DEF Poll, NoteGood, TypeOK, WorkInv, GoroutinesDone, AnswersInv, DecisionInv, world, history
    <2>5. CASE outcome \in {"failed", "reauth"}
      <3>1. /\ NoteFailure(outcome = "reauth")
            /\ poll'.at = IF outcome = "reauth" \/ Down(cloudFails + 1) THEN "noted" ELSE "idle"
        BY <1>2, <2>5 DEF Poll, TypeOK, Idle
      <3>2. cloudFails' \in 0..CloudFailThreshold /\ answers' \in 0..CloudFailThreshold /\ cloudOK' \in BOOLEAN
        BY <3>1 DEF NoteFailure, Saturated, Down, TypeOK
      <3>3. AnswersInv'
        <4>1. cloudOK' <=> cloudOK /\ outcome # "reauth" /\ ~Down(cloudFails + 1)
          BY <3>1 DEF NoteFailure
        <4> QED
          BY <3>1, <4>1 DEF NoteFailure, Saturated, Down, TypeOK, AnswersInv
      <3>4. DecisionInv'
        BY <1>2, <3>1 DEF Poll, NoteFailure, Down, TypeOK, DecisionInv
      <3> QED
        BY <1>2, <2>1, <2>2, <3>1, <3>2, <3>3, <3>4
        DEF Poll, NoteFailure, TypeOK, WorkInv, GoroutinesDone, world, history
    <2> QED
      BY <1>2, <2>3, <2>4, <2>5 DEF Outcomes
  <1>3. CASE PollDerives
    <2>1. poll' = [at |-> "derived", level |-> UpstreamLevel] /\ UpstreamLevel \in 1..2
      BY <1>3, DerivedUp DEF PollDerives
    <2>2. TypeOK' /\ WorkInv'
      BY <1>3, <2>1 DEF PollDerives, TypeOK, WorkInv, GoroutinesDone, upstream, world, history
    <2>3. AnswersInv' /\ DecisionInv'
      BY <1>3, <2>1 DEF PollDerives, AnswersInv, DecisionInv, upstream, UpstreamLevel, Usable
    <2> QED
      BY <1>3, <2>2, <2>3, QuietStep DEF PollDerives
  <1>4. CASE PollStores
    <2>1. poll.level \in 1..2 /\ poll' = Idle /\ Store(poll.level)
      BY <1>4 DEF PollStores, TypeOK, WorkInv
    <2>2. /\ connLevel' = poll.level
          /\ connected' \in 0..2 /\ unsent' \in BOOLEAN
          /\ ~link => connected' = connected
          /\ stage = "running" /\ link /\ pending = 0 /\ ~unsent' => connected' = Announced(poll.level)
      BY <2>1, StoreStep
    <2>3. TypeOK' /\ WorkInv' /\ LossesInv'
      BY <1>4, <2>1, <2>2 DEF PollStores, TypeOK, WorkInv, LossesInv, GoroutinesDone, Idle, upstream, world
    <2>4. AnswersInv' /\ DecisionInv'
      BY <1>4, <2>1, <2>2 DEF PollStores, AnswersInv, DecisionInv, Idle, upstream
    <2>5. OfflineInv' /\ BrokerHoldsDecidedLevel'
      BY <1>4, <2>2 DEF PollStores, OfflineInv, BrokerHoldsDecidedLevel, WorkInv, GoroutinesDone, Announced, world
    <2> QED
      BY <2>3, <2>4, <2>5
  <1>5. CASE WatchDerives
    <2>1. watch' = [at |-> "derived", level |-> UpstreamLevel] /\ UpstreamLevel \in 1..2 /\ mode # "cloud"
      BY <1>5, DerivedUp DEF WatchDerives, Watched
    <2>2. TypeOK' /\ WorkInv'
      BY <1>5, <2>1 DEF WatchDerives, TypeOK, WorkInv, GoroutinesDone, upstream, world, history
    <2>3. AnswersInv' /\ DecisionInv'
      BY <1>5 DEF WatchDerives, AnswersInv, DecisionInv, upstream
    <2> QED
      BY <1>5, <2>2, <2>3, QuietStep DEF WatchDerives
  <1>6. CASE WatchStores
    <2>1. watch.level \in 1..2 /\ watch' = Idle /\ Store(watch.level) /\ mode # "cloud"
      BY <1>6 DEF WatchStores, TypeOK, WorkInv, Idle
    <2>2. /\ connLevel' = watch.level
          /\ connected' \in 0..2 /\ unsent' \in BOOLEAN
          /\ ~link => connected' = connected
          /\ stage = "running" /\ link /\ pending = 0 /\ ~unsent' => connected' = Announced(watch.level)
      BY <2>1, StoreStep
    <2>3. TypeOK' /\ WorkInv' /\ LossesInv'
      BY <1>6, <2>1, <2>2 DEF WatchStores, TypeOK, WorkInv, LossesInv, GoroutinesDone, Idle, upstream, world
    <2>4. AnswersInv' /\ DecisionInv'
      BY <1>6, <2>1 DEF WatchStores, AnswersInv, DecisionInv, upstream
    <2>5. OfflineInv' /\ BrokerHoldsDecidedLevel'
      BY <1>6, <2>2 DEF WatchStores, OfflineInv, BrokerHoldsDecidedLevel, WorkInv, GoroutinesDone, Announced, world
    <2> QED
      BY <2>3, <2>4, <2>5
  <1>7. CASE AnnounceStart
    <2>1. Announced(connLevel) \in 1..2
      BY AnnouncedUp DEF TypeOK
    <2>2. /\ connected' \in 0..2 /\ unsent' \in BOOLEAN
          /\ ~link => connected' = connected
          /\ link /\ ~unsent' => connected' = Announced(connLevel)
      BY <1>7, <2>1, WriteStep DEF AnnounceStart
    <2>3. TypeOK' /\ WorkInv' /\ LossesInv'
      BY <1>7, <2>2 DEF AnnounceStart, TypeOK, Stages, WorkInv, LossesInv, upstream, decision, world
    <2>4. OfflineInv' /\ BrokerHoldsDecidedLevel'
      BY <1>7, <2>2 DEF AnnounceStart, OfflineInv, BrokerHoldsDecidedLevel, Announced, decision, world
    <2> QED
      BY <1>7, <2>3, <2>4, LevelStep DEF AnnounceStart
  <1>8. CASE Announce
    <2>1. Announced(connLevel) \in 1..2
      BY AnnouncedUp DEF TypeOK
    <2>2. /\ connected' \in 0..2 /\ unsent' \in BOOLEAN
          /\ ~link => connected' = connected
          /\ link /\ ~unsent' => connected' = Announced(connLevel)
      BY <1>8, <2>1, WriteStep DEF Announce
    <2>3. overlap' \in BOOLEAN /\ (stage = "offline" => overlap')
      BY <1>8 DEF Announce
    <2>4. TypeOK' /\ WorkInv' /\ LossesInv'
      BY <1>8, <2>2, <2>3 DEF Announce, TypeOK, WorkInv, LossesInv, GoroutinesDone, upstream, decision, world
    <2>5. stage # "stopped" /\ UNCHANGED <<mode, upstream, decision, world, stage>>
      BY <1>8 DEF Announce
    <2>6. OfflineInv' /\ BrokerHoldsDecidedLevel'
      BY <2>2, <2>3, <2>5 DEF OfflineInv, BrokerHoldsDecidedLevel, Announced, decision, world
    <2> QED
      BY <1>8, <2>4, <2>6, LevelStep DEF Announce
  <1>9. CASE Disconnect
    <2>1. TypeOK' /\ WorkInv' /\ LossesInv'
      <3>1. LossesInv'
        BY <1>9 DEF Disconnect, TypeOK, LossesInv, upstream, decision, history
      <3>2. WorkInv'
        BY <1>9 DEF Disconnect, WorkInv, GoroutinesDone, upstream, decision, history
      <3>3. link' \in BOOLEAN
        BY <1>9 DEF Disconnect
      <3>4. TypeOK'
        BY <1>9, <3>1, <3>3 DEF Disconnect, TypeOK, LossesInv, upstream, decision, history
      <3> QED
        BY <3>1, <3>2, <3>4
    <2>2. OfflineInv' /\ BrokerHoldsDecidedLevel'
      BY <1>9 DEF Disconnect, OfflineInv, BrokerHoldsDecidedLevel
    <2> QED
      BY <1>9, <2>1, <2>2, LevelStep DEF Disconnect
  <1>10. CASE Connect
    <2>1. TypeOK' /\ WorkInv' /\ LossesInv'
      <3>1. LossesInv'
        BY <1>10 DEF Connect, TypeOK, LossesInv, upstream, decision
      <3>2. WorkInv'
        BY <1>10 DEF Connect, WorkInv, GoroutinesDone, upstream, decision
      <3>3. link' \in BOOLEAN /\ unsent' \in BOOLEAN
        BY <1>10 DEF Connect
      <3>4. TypeOK'
        BY <1>10, <3>1, <3>3 DEF Connect, TypeOK, LossesInv, upstream, decision
      <3> QED
        BY <3>1, <3>2, <3>4
    <2>2. OfflineInv' /\ BrokerHoldsDecidedLevel'
      BY <1>10 DEF Connect, OfflineInv, BrokerHoldsDecidedLevel, TypeOK
    <2> QED
      BY <1>10, <2>1, <2>2, LevelStep DEF Connect
  <1>11. CASE FaikinDrops
    <2>1. TypeOK' /\ WorkInv' /\ LossesInv'
      <3>1. LossesInv'
        BY <1>11 DEF FaikinDrops, TypeOK, LossesInv, upstream, decision, history
      <3>2. WorkInv'
        BY <1>11 DEF FaikinDrops, WorkInv, GoroutinesDone, upstream, decision, history
      <3>3. faikin' \in BOOLEAN
        BY <1>11 DEF FaikinDrops
      <3>4. TypeOK'
        BY <1>11, <3>1, <3>3 DEF FaikinDrops, TypeOK, LossesInv, upstream, decision, history
      <3> QED
        BY <3>1, <3>2, <3>4
    <2>2. OfflineInv' /\ BrokerHoldsDecidedLevel'
      BY <1>11 DEF FaikinDrops, OfflineInv, BrokerHoldsDecidedLevel, Announced, decision, history
    <2> QED
      BY <1>11, <2>1, <2>2, LevelStep DEF FaikinDrops
  <1>12. CASE FaikinReturns
    <2>1. TypeOK' /\ WorkInv' /\ LossesInv'
      BY <1>12 DEF FaikinReturns, TypeOK, WorkInv, LossesInv, GoroutinesDone, upstream, decision, history
    <2>2. OfflineInv' /\ BrokerHoldsDecidedLevel'
      BY <1>12 DEF FaikinReturns, OfflineInv, BrokerHoldsDecidedLevel, Announced, decision, history
    <2> QED
      BY <1>12, <2>1, <2>2, LevelStep DEF FaikinReturns
  <1>13. CASE Stop
    <2>1. TypeOK' /\ WorkInv' /\ LossesInv'
      BY <1>13 DEF Stop, TypeOK, Stages, WorkInv, LossesInv, upstream, decision, history
    <2>2. OfflineInv' /\ BrokerHoldsDecidedLevel'
      BY <1>13 DEF Stop, OfflineInv, BrokerHoldsDecidedLevel
    <2> QED
      BY <1>13, <2>1, <2>2, LevelStep DEF Stop
  <1>14. CASE PublishOffline
    <2>1. /\ connected' \in 0..2 /\ unsent' \in BOOLEAN
          /\ ~link => connected' = connected
          /\ link /\ ~unsent' => connected' = 0
      BY <1>14, WriteStep DEF PublishOffline
    <2>2. TypeOK' /\ WorkInv' /\ LossesInv'
      BY <1>14, <2>1 DEF PublishOffline, TypeOK, Stages, WorkInv, LossesInv, GoroutinesDone, upstream, decision, world
    <2>3. OfflineInv' /\ BrokerHoldsDecidedLevel'
      BY <1>14, <2>1 DEF PublishOffline, OfflineInv, BrokerHoldsDecidedLevel, TypeOK, world
    <2> QED
      BY <1>14, <2>2, <2>3, LevelStep DEF PublishOffline
  <1>15. CASE LifecycleStop
    <2>1. TypeOK' /\ WorkInv' /\ LossesInv'
      BY <1>15 DEF LifecycleStop, TypeOK, Stages, WorkInv, LossesInv, GoroutinesDone, upstream, decision, history
    <2>2. OfflineInv' /\ BrokerHoldsDecidedLevel'
      BY <1>15 DEF LifecycleStop, OfflineInv, BrokerHoldsDecidedLevel, history
    <2> QED
      BY <1>15, <2>1, <2>2, LevelStep DEF LifecycleStop
  <1>16. CASE Restart
    <2>1. TypeOK' /\ WorkInv' /\ LossesInv'
      <3>1. LossesInv'
        BY <1>16 DEF Restart, TypeOK, LossesInv
      <3>2. WorkInv'
        BY <1>16 DEF Restart, WorkInv, GoroutinesDone, Idle
      <3>3. /\ cloudOK' \in BOOLEAN /\ devicesKnown' \in BOOLEAN /\ link' \in BOOLEAN
            /\ unsent' \in BOOLEAN /\ overlap' \in BOOLEAN
        BY <1>16 DEF Restart
      <3>4. TypeOK'
        BY <1>16, <3>1, <3>3 DEF Restart, TypeOK, Stages, LossesInv, Idle
      <3> QED
        BY <3>1, <3>2, <3>4
    <2>2. AnswersInv' /\ DecisionInv'
      BY <1>16 DEF Restart, AnswersInv, DecisionInv, Idle
    <2>3. OfflineInv' /\ BrokerHoldsDecidedLevel'
      BY <1>16 DEF Restart, OfflineInv, BrokerHoldsDecidedLevel
    <2> QED
      BY <2>1, <2>2, <2>3
  <1>17. CASE UNCHANGED vars
    <2>1. TypeOK' /\ WorkInv' /\ LossesInv'
      BY <1>17 DEF vars, TypeOK, WorkInv, LossesInv, GoroutinesDone, upstream, decision, world, history
    <2>2. OfflineInv' /\ BrokerHoldsDecidedLevel'
      BY <1>17 DEF vars, OfflineInv, BrokerHoldsDecidedLevel, Announced, decision, world, history
    <2> QED
      BY <1>17, <2>1, <2>2, LevelStep DEF vars
  <1> QED
    BY <1>1, <1>2, <1>3, <1>4, <1>5, <1>6, <1>7, <1>8, <1>9, <1>10, <1>11, <1>12, <1>13, <1>14,
       <1>15, <1>16, <1>17
    DEF Next

\* The invariant holds in every reachable state.
LEMMA LevelInvariant == Spec => []IInv
  <1>1. Init => IInv
    BY InitIInv
  <1>2. IInv /\ [Next]_vars => IInv'
    BY NextIInv
  <1> QED
    BY <1>1, <1>2, PTL DEF Spec

----------------------------------------------------------------------------
(* What follows from it. *)

\* The variables of the connected level keep their types: no streak, no number of
\* callbacks under way exceeds what caused it.
THEOREM LevelTypeCorrect == Spec => []TypeOK
  <1>1. IInv => TypeOK
    BY DEF IInv
  <1> QED
    BY <1>1, LevelInvariant, PTL

\* noteCloud, updateConnected: in cloud mode the decided level is 2 exactly while
\* fewer bad answers than the threshold have followed a good one.
THEOREM LevelFollowsAnswers == Spec => []CloudLevelFollowsAnswers
  <1>1. IInv => CloudLevelFollowsAnswers
    BY DEF IInv, AnswersInv, DecisionInv, CloudLevelFollowsAnswers
  <1> QED
    BY <1>1, LevelInvariant, PTL

\* PublishOnline, updateConnected under connMu: the broker retains the level decided
\* last, for any number of reconnects, crashes and restarts.
THEOREM BrokerIsTold == Spec => []BrokerHoldsDecidedLevel
  <1>1. IInv => BrokerHoldsDecidedLevel
    BY DEF IInv
  <1> QED
    BY <1>1, LevelInvariant, PTL

\* PublishOffline after g.Wait(): a daemon that stopped gracefully leaves 0 behind.
THEOREM StopLeavesOffline == Spec => []StoppedMeansOffline
  <1>1. IInv => StoppedMeansOffline
    BY DEF IInv, OfflineInv, StoppedMeansOffline
  <1> QED
    BY <1>1, LevelInvariant, PTL

----------------------------------------------------------------------------
(* The climate entity, for any fan speeds and operation modes.              *)

Aspects == {"fan", "vertical", "horizontal"}
Fields == Aspects \cup {"speed"}

\* What the settings are in the terms of the entity.
Aspect(settings) ==
    [fan |-> FanMode(settings), vertical |-> settings.vertical, horizontal |-> settings.horizontal]

\* What was asked for and not overtaken is what the unit has.
ClimateInv ==
    /\ plane \in {"cloud", "local"}
    /\ unit \in [mode : OpModes, settings : Settings] /\ Representable(unit.settings)
    /\ seen \in Settings \cup {Unknown}
    /\ asked \in [Aspects -> {asked[f] : f \in Aspects}]
    /\ \A f \in Aspects : asked[f] \in {Unknown, Aspect(unit.settings)[f]}

\* What a module says of its louvres, where it has a word for them.
LEMMA SwingWordIs ==
    ASSUME NEW settings \in Settings, ~(settings.vertical = "windnice" /\ settings.horizontal = "swing")
    PROVE  /\ ModuleSwingWord(settings) \in {"off", "H", "V", "H+V", "C"}
           /\ ModuleSwing(ModuleSwingWord(settings)) = Axes(settings.vertical, settings.horizontal)
  <1> DEFINE axes == Axes(settings.vertical, IF settings.vertical = "windnice" THEN "stop"
                                              ELSE settings.horizontal)
             words == {"off", "H", "V", "H+V", "C"}
  <1>1. settings.vertical \in Vertical /\ settings.horizontal \in Horizontal
    BY DEF Settings
  <1>2. axes = Axes(settings.vertical, settings.horizontal)
    BY <1>1 DEF Horizontal
  <1>3. /\ ModuleSwing("off") = Axes("stop", "stop") /\ ModuleSwing("H") = Axes("stop", "swing")
        /\ ModuleSwing("V") = Axes("swing", "stop") /\ ModuleSwing("H+V") = Axes("swing", "swing")
        /\ ModuleSwing("C") = Axes("windnice", "stop")
    BY DEF ModuleSwing, Axes
  <1>4. \E word \in words : ModuleSwing(word) = axes
    BY <1>1, <1>2, <1>3 DEF Vertical, Horizontal
  <1>5. ModuleSwingWord(settings) = CHOOSE word \in words : ModuleSwing(word) = axes
    BY DEF ModuleSwingWord
  <1> HIDE DEF axes, words
  <1>6. ModuleSwingWord(settings) \in words /\ ModuleSwing(ModuleSwingWord(settings)) = axes
    BY <1>4, <1>5
  <1> QED
    BY <1>2, <1>6 DEF words

\* The bridge reads the words of a module the way the module means them.
LEMMA AxesOfWord ==
    ASSUME NEW word \in {"off", "H", "V", "H+V", "C"}
    PROVE  SwingAxes(word) = ModuleSwing(word)
  BY DEF SwingAxes, ModuleSwing, Axes

\* The entity shows the settings it has read, on either plane.
LEMMA ShownIs ==
    ASSUME plane \in {"cloud", "local"}, seen \in Settings, Representable(seen), NEW f \in Aspects
    PROVE  Shown[f] = Aspect(seen)[f]
  <1>1. CASE plane = "cloud"
    BY <1>1 DEF Shown, CloudShows, Aspect
  <1>2. CASE plane = "local"
    <2>1. SwingAxes(ModuleSwingWord(seen)) = Axes(seen.vertical, seen.horizontal)
      <3>1. ~(seen.vertical = "windnice" /\ seen.horizontal = "swing")
        BY <1>2 DEF Representable, Axes
      <3> QED
        BY <3>1, SwingWordIs, AxesOfWord
    <2>2. FanOfWord(ModuleFanWord(seen)) = FanMode(seen)
      <3>1. ModuleFanWord(seen) = FanMode(seen) /\ FanMode(seen) \in FanModes
        BY DEF Settings, ModuleFanWord, FanMode, FanModes
      <3> QED
        BY <3>1 DEF FanOfWord
    <2>3. Shown = Aspect(seen)
      BY <1>2, <2>1, <2>2 DEF Shown, LocalShows, Aspect, Axes
    <2> QED
      BY <2>3
  <1> QED
    BY <1>1, <1>2

\* What the unit has after it was told some fields.
LEMMA ToldIs ==
    ASSUME unit \in [mode : OpModes, settings : Settings], NEW fields, Told(fields),
           "fan" \in DOMAIN fields => fields["fan"] \in Named \cup {"fixed"},
           "speed" \in DOMAIN fields => fields["speed"] \in Speeds,
           "vertical" \in DOMAIN fields => fields["vertical"] \in Vertical,
           "horizontal" \in DOMAIN fields => fields["horizontal"] \in Horizontal
    PROVE  /\ unit' \in [mode : OpModes, settings : Settings]
           /\ \A f \in Fields : unit'.settings[f] = IF f \in DOMAIN fields THEN fields[f] ELSE unit.settings[f]
  <1> DEFINE s == unit.settings
             new == [f \in Fields |-> IF f \in DOMAIN fields THEN fields[f] ELSE s[f]]
  <1>1. s \in Settings /\ DOMAIN s = Fields /\ unit.mode \in OpModes
    BY DEF Settings, Fields, Aspects
  <1>2. unit' = [mode |-> unit.mode, settings |-> new]
    BY <1>1 DEF Told
  <1>3. new = [fan |-> new["fan"], speed |-> new["speed"], vertical |-> new["vertical"], horizontal |-> new["horizontal"]]
    BY DEF Fields, Aspects
  <1>4. /\ new["fan"] \in Named \cup {"fixed"} /\ new["speed"] \in Speeds
        /\ new["vertical"] \in Vertical /\ new["horizontal"] \in Horizontal
    BY <1>1 DEF Fields, Aspects, Settings
  <1>5. \A f \in Fields : new[f] = IF f \in DOMAIN fields THEN fields[f] ELSE s[f]
    OBVIOUS
  <1> HIDE DEF new, s
  <1>6. new \in Settings
    BY <1>3, <1>4 DEF Settings
  <1> QED
    BY <1>1, <1>2, <1>5, <1>6 DEF s

\* A change of the fan leaves the swing axes what they were.
LEMMA FanTold ==
    ASSUME ClimateInv, NEW fields, Told(fields), DOMAIN fields \subseteq {"fan", "speed"},
           "fan" \in DOMAIN fields => fields["fan"] \in Named \cup {"fixed"},
           "speed" \in DOMAIN fields => fields["speed"] \in Speeds
    PROVE  /\ unit' \in [mode : OpModes, settings : Settings]
           /\ plane' = plane => Representable(unit.settings)'
           /\ \A f \in Fields : unit'.settings[f] = IF f \in DOMAIN fields THEN fields[f] ELSE unit.settings[f]
           /\ \A f \in {"vertical", "horizontal"} : Aspect(unit'.settings)[f] = Aspect(unit.settings)[f]
  <1>1. /\ unit' \in [mode : OpModes, settings : Settings]
        /\ \A f \in Fields : unit'.settings[f] = IF f \in DOMAIN fields THEN fields[f] ELSE unit.settings[f]
    <2>1. "vertical" \notin DOMAIN fields /\ "horizontal" \notin DOMAIN fields
      OBVIOUS
    <2> QED
      BY <2>1, ToldIs DEF ClimateInv
  <1>2. unit'.settings.vertical = unit.settings.vertical /\ unit'.settings.horizontal = unit.settings.horizontal
    BY <1>1 DEF Fields, Aspects
  <1> QED
    BY <1>1, <1>2 DEF Aspect, Representable, ClimateInv

\* What a request leaves of what was asked before, where the unit keeps the rest.
LEMMA AskedKept ==
    ASSUME ClimateInv, plane' = plane, seen' = seen, NEW g \in Aspects,
           unit' \in [mode : OpModes, settings : Settings], Representable(unit.settings)',
           \A f \in Aspects \ {g} : Aspect(unit'.settings)[f] = Aspect(unit.settings)[f],
           NEW v \in {Unknown, Aspect(unit'.settings)[g]}, asked' = [asked EXCEPT ![g] = v]
    PROVE  ClimateInv'
  <1>1. DOMAIN asked = Aspects
    BY DEF ClimateInv
  <1>2. \A f \in Aspects : asked'[f] = IF f = g THEN v ELSE asked[f]
    BY <1>1
  <1>3. \A f \in Aspects : asked'[f] \in {Unknown, Aspect(unit'.settings)[f]}
    BY <1>2 DEF ClimateInv
  <1>4. asked' \in [Aspects -> {asked'[f] : f \in Aspects}]
    BY <1>1
  <1> QED
    BY <1>3, <1>4 DEF ClimateInv

\* A fan mode asked for over either plane is what the unit has, or is forgotten.
LEMMA FanStep ==
    ASSUME ClimateInv, NEW value \in FanModes, SetFan(value)
    PROVE  ClimateInv'
  <1>1. plane' = plane /\ seen' = seen
    BY DEF SetFan
  <1>2. CASE UNCHANGED unit /\ asked' = [asked EXCEPT !.fan = Unknown]
    BY <1>1, <1>2, AskedKept DEF ClimateInv, Aspects, Representable
  <1>3. ASSUME NEW fields, Told(fields), DOMAIN fields \subseteq {"fan", "speed"},
               "fan" \in DOMAIN fields => fields["fan"] \in Named \cup {"fixed"},
               "speed" \in DOMAIN fields => fields["speed"] \in Speeds,
               \/ asked' = [asked EXCEPT !.fan = Unknown]
               \/ asked' = [asked EXCEPT !.fan = value] /\ FanMode(unit'.settings) = value
        PROVE  ClimateInv'
    <2>1. /\ unit' \in [mode : OpModes, settings : Settings] /\ Representable(unit.settings)'
          /\ \A f \in {"vertical", "horizontal"} : Aspect(unit'.settings)[f] = Aspect(unit.settings)[f]
      BY <1>1, <1>3, FanTold
    <2>2. \A f \in Aspects \ {"fan"} : Aspect(unit'.settings)[f] = Aspect(unit.settings)[f]
      BY <2>1 DEF Aspects
    <2>3. \E v \in {Unknown, Aspect(unit'.settings)["fan"]} : asked' = [asked EXCEPT !["fan"] = v]
      BY <1>3 DEF Aspect
    <2> QED
      BY <1>1, <2>1, <2>2, <2>3, AskedKept DEF Aspects
  <1>4. ASSUME NEW fields, Told(fields),
               \/ DOMAIN fields = {"fan"} /\ fields["fan"] = value /\ value \in Named
               \/ DOMAIN fields = {"fan", "speed"} /\ fields["fan"] = "fixed" /\ fields["speed"] = value
                  /\ value \in Speeds
        PROVE  FanMode(unit'.settings) = value
    <2>1. \A f \in Fields : unit'.settings[f] = IF f \in DOMAIN fields THEN fields[f] ELSE unit.settings[f]
      BY <1>4, FanTold
    <2>2. CASE DOMAIN fields = {"fan"} /\ fields["fan"] = value /\ value \in Named
      BY <2>1, <2>2 DEF FanMode, Named, Fields, Aspects
    <2>3. CASE DOMAIN fields = {"fan", "speed"} /\ fields["fan"] = "fixed" /\ fields["speed"] = value
      BY <2>1, <2>3 DEF FanMode, Fields, Aspects
    <2> QED
      BY <1>4, <2>2, <2>3
  <1>5. ASSUME LocalFan(value), ~UNCHANGED unit \/ asked' # [asked EXCEPT !.fan = Unknown]
        PROVE  ClimateInv'
    <2> DEFINE fields == ModuleFan(FanCommand(value))
    <2>1. Told(fields) /\ asked' = [asked EXCEPT !.fan = value]
      BY <1>5 DEF LocalFan
    <2>2. \/ DOMAIN fields = {"fan"} /\ fields["fan"] = value /\ value \in Named
          \/ DOMAIN fields = {"fan", "speed"} /\ fields["fan"] = "fixed" /\ fields["speed"] = value
             /\ value \in Speeds
      <3>1. CASE value = "auto"
        BY <3>1 DEF FanCommand, ModuleFan, Named
      <3>2. CASE value = "quiet"
        BY <3>2 DEF FanCommand, ModuleFan, Named
      <3>3. CASE value \notin {"auto", "quiet"}
        <4>1. value \in Speeds /\ value \notin {"A", "Q"} /\ FanCommand(value) = value
          BY <3>3, SpeedsAreNumbers DEF FanModes, Named, FanCommand
        <4>2. fields = [fan |-> "fixed", speed |-> value]
          BY <4>1 DEF ModuleFan
        <4> QED
          BY <4>1, <4>2
      <3> QED
        BY <3>1, <3>2, <3>3
    <2> HIDE DEF fields
    <2> QED
      BY <1>3, <1>4, <2>1, <2>2
  <1>6. ASSUME CloudFan(value), ~UNCHANGED unit \/ asked' # [asked EXCEPT !.fan = Unknown]
        PROVE  ClimateInv'
    <2> DEFINE patches == FanPatches(value)
    <2>1. PICK done \in SUBSET DOMAIN patches :
              /\ Told(Merged(patches, done))
              /\ \/ asked' = [asked EXCEPT !.fan = Unknown]
                 \/ asked' = [asked EXCEPT !.fan = value] /\ done = DOMAIN patches
      BY <1>6 DEF CloudFan
    <2> DEFINE fields == Merged(patches, done)
               hits(f) == {i \in done : f \in DOMAIN patches[i]}
    <2>2. DOMAIN fields = {"fan", "speed"}
          /\ \A f \in {"fan", "speed"} :
                fields[f] = IF hits(f) = {} THEN unit.settings[f] ELSE patches[CHOOSE i \in hits(f) : TRUE][f]
      BY DEF Merged
    <2>3. unit.settings.fan \in Named \cup {"fixed"} /\ unit.settings.speed \in Speeds
      BY DEF ClimateInv, Settings
    <2>4. CASE value \in Speeds
      <3>1. patches = << [fan |-> "fixed"], [speed |-> value] >> /\ DOMAIN patches = {1, 2}
        BY <2>4 DEF FanPatches
      <3>2. hits("fan") = done \cap {1} /\ hits("speed") = done \cap {2}
        BY <3>1
      <3>3. fields["fan"] = (IF 1 \in done THEN "fixed" ELSE unit.settings.fan)
            /\ fields["speed"] = (IF 2 \in done THEN value ELSE unit.settings.speed)
        BY <2>2, <3>1, <3>2
      <3> HIDE DEF fields, patches
      <3>4. done = DOMAIN patches => FanMode(unit'.settings) = value
        BY <1>4, <2>1, <2>2, <2>4, <3>1, <3>3 DEF fields
      <3> QED
        BY <1>3, <2>1, <2>2, <2>3, <2>4, <3>3, <3>4 DEF fields
    <2>5. CASE value \notin Speeds
      <3>1. patches = << [fan |-> value] >> /\ DOMAIN patches = {1} /\ value \in Named
        BY <2>5 DEF FanPatches, FanModes
      <3>2. hits("fan") = done \cap {1} /\ hits("speed") = {}
        BY <3>1
      <3>3. fields["fan"] = (IF 1 \in done THEN value ELSE unit.settings.fan)
            /\ fields["speed"] = unit.settings.speed
        BY <2>2, <3>1, <3>2
      <3> HIDE DEF fields, patches
      <3>4. done = DOMAIN patches => FanMode(unit'.settings) = value
        <4>1. \A f \in Fields : unit'.settings[f] = IF f \in DOMAIN fields THEN fields[f] ELSE unit.settings[f]
          BY <2>1, <2>2, <2>3, <3>1, <3>3, FanTold DEF fields
        <4>2. done = DOMAIN patches => unit'.settings.fan = value
          BY <2>2, <3>1, <3>3, <4>1 DEF Fields, Aspects
        <4> QED
          BY <3>1, <4>2 DEF FanMode, Named
      <3> QED
        BY <1>3, <2>1, <2>2, <2>3, <3>1, <3>3, <3>4 DEF fields
    <2> QED
      BY <2>4, <2>5
  <1> QED
    BY <1>2, <1>5, <1>6 DEF SetFan

\* A change of the louvres leaves the fan what it was.
LEMMA SwingTold ==
    ASSUME ClimateInv, NEW fields, Told(fields), DOMAIN fields \subseteq {"vertical", "horizontal"},
           "vertical" \in DOMAIN fields => fields["vertical"] \in Vertical,
           "horizontal" \in DOMAIN fields => fields["horizontal"] \in Horizontal
    PROVE  /\ unit' \in [mode : OpModes, settings : Settings]
           /\ \A f \in {"vertical", "horizontal"} :
                unit'.settings[f] = IF f \in DOMAIN fields THEN fields[f] ELSE unit.settings[f]
           /\ Aspect(unit'.settings)["fan"] = Aspect(unit.settings)["fan"]
  <1>1. /\ unit' \in [mode : OpModes, settings : Settings]
        /\ \A f \in Fields : unit'.settings[f] = IF f \in DOMAIN fields THEN fields[f] ELSE unit.settings[f]
    <2>1. "fan" \notin DOMAIN fields /\ "speed" \notin DOMAIN fields
      OBVIOUS
    <2> QED
      BY <2>1, ToldIs DEF ClimateInv
  <1>2. unit'.settings.fan = unit.settings.fan /\ unit'.settings.speed = unit.settings.speed
    BY <1>1 DEF Fields, Aspects
  <1> QED
    BY <1>1, <1>2 DEF Aspect, FanMode, Fields, Aspects

\* The word sent for a pair of axes, as the module understands it: under comfort
\* airflow the other louvre stops.
LEMMA WordSent ==
    ASSUME NEW v \in Vertical, NEW h \in Horizontal
    PROVE  /\ SwingWord(Axes(v, h)) = "C" <=> v = "windnice"
           /\ ModuleSwing(SwingWord(Axes(v, h)))
                = Axes(v, IF v = "windnice" THEN "stop" ELSE h)
  <1>1. \A a, b, c, d : Axes(a, b) = Axes(c, d) <=> a = c /\ b = d
    BY DEF Axes
  <1>2. Axes(v, h).vertical = v
    BY DEF Axes
  <1>3. CASE v = "windnice"
    BY <1>2, <1>3 DEF SwingWord, ModuleSwing, Axes
  <1>4. CASE v = "swing" /\ h = "swing"
    BY <1>1, <1>2, <1>4 DEF SwingWord, ModuleSwing, Axes
  <1>5. CASE v = "swing" /\ h = "stop"
    BY <1>1, <1>2, <1>5 DEF SwingWord, ModuleSwing, Axes
  <1>6. CASE v = "stop" /\ h = "swing"
    BY <1>1, <1>2, <1>6 DEF SwingWord, ModuleSwing, Axes
  <1>7. CASE v = "stop" /\ h = "stop"
    BY <1>1, <1>2, <1>7 DEF SwingWord, ModuleSwing, Axes
  <1> QED
    BY <1>3, <1>4, <1>5, <1>6, <1>7 DEF Vertical, Horizontal

\* The word a swing is combined with is one of a module's, and unless the report is out
\* of date it says what the unit has.
LEMMA LastSwingIs ==
    ASSUME ClimateInv, plane = "local"
    PROVE  LET last == SwingAxes(LastSwing) IN
           /\ last \in [vertical : Vertical, horizontal : Horizontal]
           /\ \/ seen = Unknown \/ ModuleSwingWord(seen) # ModuleSwingWord(unit.settings)
              \/ last = Axes(unit.settings.vertical, unit.settings.horizontal)
  <1>1. /\ ModuleSwingWord(unit.settings) \in {"off", "H", "V", "H+V", "C"}
        /\ ModuleSwing(ModuleSwingWord(unit.settings)) = Axes(unit.settings.vertical, unit.settings.horizontal)
    <2>1. unit.settings \in Settings /\ ~(unit.settings.vertical = "windnice" /\ unit.settings.horizontal = "swing")
      BY DEF ClimateInv, Representable, Axes
    <2> QED
      BY <2>1, SwingWordIs
  <1>2. \A word : SwingAxes(word) \in [vertical : Vertical, horizontal : Horizontal]
    BY DEF SwingAxes, Axes, Vertical, Horizontal
  <1> QED
    BY <1>1, <1>2, AxesOfWord DEF LastSwing

\* A swing mode asked for over either plane is what the unit has, or is forgotten, and
\* so is the other axis where the word for both changes it.
LEMMA SwingStep ==
    ASSUME ClimateInv, NEW axis \in {"vertical", "horizontal"},
           NEW value \in (IF axis = "vertical" THEN Vertical ELSE Horizontal), SetSwing(axis, value)
    PROVE  ClimateInv'
  <1>1. plane' = plane /\ seen' = seen
    BY DEF SetSwing
  <1>2. CASE UNCHANGED unit /\ asked' = [asked EXCEPT ![axis] = Unknown]
    BY <1>1, <1>2, AskedKept DEF ClimateInv, Aspects, Representable
  <1>3. ASSUME CloudSwing(axis, value), Told([f \in {axis} |-> value]), asked' = [asked EXCEPT ![axis] = value]
        PROVE  ClimateInv'
    <2> DEFINE fields == [f \in {axis} |-> value]
    <2>1. /\ unit' \in [mode : OpModes, settings : Settings]
          /\ \A f \in {"vertical", "horizontal"} :
               unit'.settings[f] = IF f = axis THEN value ELSE unit.settings[f]
          /\ Aspect(unit'.settings)["fan"] = Aspect(unit.settings)["fan"]
      <3>1. /\ DOMAIN fields = {axis} /\ fields[axis] = value
            /\ "vertical" \in DOMAIN fields => fields["vertical"] \in Vertical
            /\ "horizontal" \in DOMAIN fields => fields["horizontal"] \in Horizontal
        OBVIOUS
      <3> HIDE DEF fields
      <3>2. Told(fields)
        BY <1>3 DEF fields
      <3> QED
        BY <3>1, <3>2, SwingTold
    <2>2. Representable(unit.settings)'
      BY <1>1, <1>3 DEF CloudSwing, Representable
    <2>3. /\ \A f \in Aspects \ {axis} : Aspect(unit'.settings)[f] = Aspect(unit.settings)[f]
          /\ Aspect(unit'.settings)[axis] = value
      BY <2>1 DEF Aspects, Aspect
    <2> QED
      BY <1>1, <1>3, <2>1, <2>2, <2>3, AskedKept DEF Aspects
  <1>4. ASSUME LocalSwing(axis, value), ~UNCHANGED unit \/ asked' # [asked EXCEPT ![axis] = Unknown]
        PROVE  ClimateInv'
    <2> DEFINE last == SwingAxes(LastSwing)
               v == IF axis = "vertical" THEN value ELSE last.vertical
               h == IF axis = "horizontal" THEN value ELSE last.horizontal
               word == SwingWord(Combined(axis, value))
               fields == ModuleSwing(word)
               stale == seen = Unknown \/ ModuleSwingWord(seen) # ModuleSwingWord(unit.settings)
               comfort == word = "C" /\ (axis = "horizontal" \/ asked.horizontal # Unknown)
    <2>1. /\ plane = "local" /\ Told(fields)
          /\ asked' = [f \in DOMAIN asked |->
                          IF f = "horizontal" /\ comfort THEN Unknown
                          ELSE IF f = axis THEN value
                          ELSE IF f = Other(axis) /\ stale THEN Unknown ELSE asked[f]]
      BY <1>4 DEF LocalSwing
    <2>2. /\ last \in [vertical : Vertical, horizontal : Horizontal]
          /\ stale \/ last = Axes(unit.settings.vertical, unit.settings.horizontal)
      BY <2>1, LastSwingIs
    <2>3. Combined(axis, value) = Axes(v, h) /\ v \in Vertical /\ h \in Horizontal
      <3>1. last = [vertical |-> last.vertical, horizontal |-> last.horizontal]
            /\ last.vertical \in Vertical /\ last.horizontal \in Horizontal
        BY <2>2
      <3>2. Combined(axis, value) = [last EXCEPT ![axis] = value]
        BY DEF Combined
      <3> HIDE DEF last
      <3>3. CASE axis = "vertical"
        <4>1. [last EXCEPT !["vertical"] = value] = [vertical |-> value, horizontal |-> last.horizontal]
          <5>1. PICK a, b : last = [vertical |-> a, horizontal |-> b]
            BY <3>1
          <5>2. [[vertical |-> a, horizontal |-> b] EXCEPT !["vertical"] = value] = [vertical |-> value, horizontal |-> b]
            OBVIOUS
          <5> QED
            BY <5>1, <5>2
        <4> QED
          BY <3>1, <3>2, <3>3, <4>1 DEF Axes
      <3>4. CASE axis = "horizontal"
        <4>1. [last EXCEPT !["horizontal"] = value] = [vertical |-> last.vertical, horizontal |-> value]
          <5>1. PICK a, b : last = [vertical |-> a, horizontal |-> b]
            BY <3>1
          <5>2. [[vertical |-> a, horizontal |-> b] EXCEPT !["horizontal"] = value] = [vertical |-> a, horizontal |-> value]
            OBVIOUS
          <5> QED
            BY <5>1, <5>2
        <4> QED
          BY <3>1, <3>2, <3>4, <4>1 DEF Axes
      <3> QED
        BY <3>3, <3>4
    <2>4. ~stale => /\ axis = "vertical" => h = unit.settings.horizontal
                    /\ axis = "horizontal" => v = unit.settings.vertical
      BY <2>2 DEF Axes
    <2> HIDE DEF last, v, h, fields, stale
    <2>5. /\ word = "C" <=> v = "windnice"
          /\ fields = Axes(v, IF v = "windnice" THEN "stop" ELSE h)
      BY <2>3, WordSent DEF fields
    <2>6. /\ unit' \in [mode : OpModes, settings : Settings]
          /\ unit'.settings.vertical = v
          /\ unit'.settings.horizontal = IF v = "windnice" THEN "stop" ELSE h
          /\ Aspect(unit'.settings)["fan"] = Aspect(unit.settings)["fan"]
      <3>1. /\ DOMAIN fields = {"vertical", "horizontal"} /\ fields["vertical"] = v
            /\ fields["horizontal"] = IF v = "windnice" THEN "stop" ELSE h
            /\ (IF v = "windnice" THEN "stop" ELSE h) \in Horizontal
        BY <2>3, <2>5 DEF Axes, Horizontal
      <3> QED
        BY <2>1, <2>3, <3>1, SwingTold
    <2>7. Representable(unit.settings)'
      BY <2>6 DEF Representable, Axes
    <2> HIDE DEF word
    <2>8. DOMAIN asked = Aspects /\ \A f \in Aspects : asked[f] \in {Unknown, Aspect(unit.settings)[f]}
      BY DEF ClimateInv
    <2>9. asked'["fan"] \in {Unknown, Aspect(unit'.settings)["fan"]}
      <3>1. asked'["fan"] = asked["fan"]
        BY <2>1, <2>8 DEF Aspects, Other
      <3> QED
        BY <2>6, <2>8, <3>1 DEF Aspects
    <2>10. asked'["vertical"] \in {Unknown, Aspect(unit'.settings)["vertical"]}
      <3>1. Aspect(unit'.settings)["vertical"] = v /\ Aspect(unit.settings)["vertical"] = unit.settings.vertical
        BY <2>6 DEF Aspect
      <3>2. CASE axis = "vertical"
        BY <2>1, <2>8, <3>1, <3>2 DEF Aspects, v
      <3>3. CASE axis = "horizontal"
        BY <2>1, <2>4, <2>8, <3>1, <3>3 DEF Aspects, Other
      <3> QED
        BY <3>2, <3>3
    <2>11. asked'["horizontal"] \in {Unknown, Aspect(unit'.settings)["horizontal"]}
      <3>1. /\ Aspect(unit'.settings)["horizontal"] = (IF v = "windnice" THEN "stop" ELSE h)
            /\ Aspect(unit.settings)["horizontal"] = unit.settings.horizontal
        BY <2>6 DEF Aspect
      <3>2. CASE comfort
        BY <2>1, <2>8, <3>2 DEF Aspects
      <3>3. CASE ~comfort /\ axis = "horizontal"
        <4>1. v # "windnice"
          BY <2>5, <3>3
        <4>2. asked'["horizontal"] = value /\ h = value
          BY <2>1, <2>8, <3>3 DEF Aspects, h
        <4> QED
          BY <3>1, <4>1, <4>2
      <3>4. CASE ~comfort /\ axis = "vertical"
        <4>1. asked'["horizontal"] = IF stale THEN Unknown ELSE asked["horizontal"]
          BY <2>1, <2>8, <3>4 DEF Aspects, Other
        <4>2. v # "windnice" \/ asked["horizontal"] = Unknown
          BY <2>5, <3>4
        <4> QED
          BY <2>4, <2>8, <3>1, <3>4, <4>1, <4>2 DEF Aspects
      <3> QED
        BY <3>2, <3>3, <3>4
    <2>12. asked' \in [Aspects -> {asked'[f] : f \in Aspects}]
      BY <2>1, <2>8
    <2> QED
      BY <1>1, <2>6, <2>7, <2>9, <2>10, <2>11, <2>12 DEF ClimateInv, Aspects
  <1>5. CASE CloudSwing(axis, value)
    BY <1>2, <1>3, <1>5 DEF CloudSwing
  <1> QED
    BY <1>2, <1>4, <1>5 DEF SetSwing

\* Everything that changes the mode forgets what was asked for.
LEMMA NothingIsShown ==
    ASSUME ClimateInv, plane' = plane, seen' \in Settings \cup {Unknown}, asked' = NothingAsked,
           NEW m \in OpModes, NEW s \in Settings, Representable(s), unit' = [mode |-> m, settings |-> s]
    PROVE  ClimateInv'
  <1>1. Representable(unit.settings)'
    BY DEF Representable
  <1>2. asked' \in [Aspects -> {asked'[f] : f \in Aspects}] /\ \A f \in Aspects : asked'[f] = Unknown
    BY DEF NothingAsked, Aspects
  <1> QED
    BY <1>1, <1>2 DEF ClimateInv

\* Every step keeps what was asked for in accord with the unit.
LEMMA ClimateStep == ClimateInv /\ [ClimateNext]_climateVars => ClimateInv'
  <1> SUFFICES ASSUME ClimateInv, [ClimateNext]_climateVars
               PROVE  ClimateInv'
    OBVIOUS
  <1>1. ASSUME NEW value \in FanModes, SetFan(value)
        PROVE  ClimateInv'
    BY <1>1, FanStep
  <1>2. ASSUME NEW value \in Vertical, SetSwing("vertical", value)
        PROVE  ClimateInv'
    BY <1>2, SwingStep
  <1>3. ASSUME NEW value \in Horizontal, SetSwing("horizontal", value)
        PROVE  ClimateInv'
    BY <1>3, SwingStep
  <1>4. ASSUME NEW m \in OpModes, SetMode(m)
        PROVE  ClimateInv'
    BY <1>4, NothingIsShown DEF SetMode, ClimateInv
  <1>5. CASE ByHand
    BY <1>5, NothingIsShown DEF ByHand, ClimateInv
  <1>6. CASE Report
    BY <1>6 DEF Report, ClimateInv, Representable
  <1>7. CASE UNCHANGED climateVars
    BY <1>7 DEF climateVars, ClimateInv, Representable
  <1> QED
    BY <1>1, <1>2, <1>3, <1>4, <1>5, <1>6, <1>7 DEF ClimateNext

\* Of any unit and any speeds: once the state that followed is reported, the entity
\* shows what was asked of the fan and of each swing axis, unless the request failed,
\* was made on an outdated reading or was taken back by comfort airflow.  (climate.go
\* handleFanModeWrite, handleSwingWrite and publishClimateAux)
THEOREM EntityShowsWhatWasAsked ==
    ClimateInit /\ [][ClimateNext]_climateVars => []AskedIsShown
  <1>1. ClimateInit => ClimateInv
    <2> SUFFICES ASSUME ClimateInit
                 PROVE  ClimateInv
      OBVIOUS
    <2>1. asked \in [Aspects -> {asked[f] : f \in Aspects}] /\ \A f \in Aspects : asked[f] = Unknown
      BY DEF ClimateInit, NothingAsked, Aspects
    <2> QED
      BY <2>1 DEF ClimateInit, ClimateInv, Representable
  <1>2. ClimateInv => AskedIsShown
    <2> SUFFICES ASSUME ClimateInv, seen # Unknown, seen = unit.settings, NEW f \in DOMAIN asked
                 PROVE  asked[f] \in {Unknown, Shown[f]}
      BY DEF AskedIsShown
    <2>1. f \in Aspects /\ seen \in Settings /\ Representable(seen) /\ plane \in {"cloud", "local"}
      BY DEF ClimateInv
    <2>2. Shown[f] = Aspect(unit.settings)[f]
      BY <2>1, ShownIs
    <2> QED
      BY <2>1, <2>2 DEF ClimateInv
  <1> QED
    BY <1>1, <1>2, ClimateStep, PTL
=============================================================================
