---------------------------- MODULE ConnectedLevel ----------------------------
(***************************************************************************)
(* `<name>/connected`, the retained item every entity's availability reads:*)
(* 0 while the daemon is gone, 1 while its upstream is unusable, 2 while it *)
(* is usable (internal/coordinator/upstream.go, coordinator.go).            *)
(*                                                                         *)
(* Three goroutines decide or announce the level: the poll loop, the 15 s   *)
(* watch of local mode, and the OnConnect callback.  updateConnected        *)
(* computes the level before it takes connMu, so a decision may be stale    *)
(* when it is stored; everything under connMu is one step here.             *)
(* The broker, its Last Will and the Faikin link are external.              *)
(***************************************************************************)
EXTENDS Naturals

CONSTANTS
    CloudFailThreshold,  \* cloudFailThreshold
    MaxDrops             \* bound: losses of a link, crashes and stops

ASSUME LevelConstants ==
    /\ CloudFailThreshold \in Nat \ {0}
    /\ MaxDrops \in Nat

VARIABLES
    mode,         \* LOCAL_MODE off, on a Faikin broker of its own, on the main broker
    cloudOK, devicesKnown, cloudFails,
    faikin,       \* the link to a Faikin broker of its own
    connLevel,    \* the level decided last
    poll, watch,  \* where a goroutine stands in updateConnected: [at, level]
    link,         \* the broker connection
    pending,      \* OnConnect callbacks whose PublishOnline has not reached connMu
    connected,    \* what the broker retains on `<name>/connected`
    stage,        \* of the process
    drops,        \* counts the losses, for the bound
    unsent,       \* history: the last write of the level failed on a live link
    overlap,      \* history: an announcement came after the level was withdrawn
    answers       \* history: bad answers of the cloud since the last good one

upstream == <<cloudOK, devicesKnown, cloudFails, answers>>
decision == <<connLevel, poll, watch>>
world == <<faikin, link, drops>>
history == <<unsent, overlap>>
vars == <<mode, upstream, decision, world, pending, connected, stage, history>>

Modes == {"cloud", "local", "shared"}
Outcomes == {"good", "failed", "reauth", "skipped"}
Idle == [at |-> "idle", level |-> 0]

Stages == {"starting", "running", "stopping", "offline", "stopped"}

TypeOK ==
    /\ mode \in Modes /\ (mode = "cloud" => watch = Idle)
    /\ cloudOK \in BOOLEAN /\ devicesKnown \in BOOLEAN /\ (cloudOK => devicesKnown)
    /\ cloudFails \in 0..CloudFailThreshold
    /\ faikin \in BOOLEAN /\ link \in BOOLEAN
    /\ connLevel \in 0..2 /\ connected \in 0..2
    /\ poll \in [at : {"idle", "asking", "noted", "derived"}, level : 0..2]
    /\ watch \in [at : {"idle", "derived"}, level : 0..2]
    /\ pending \in 0..MaxDrops /\ drops \in 0..MaxDrops
    /\ stage \in Stages
    /\ answers \in 0..CloudFailThreshold
    /\ unsent \in BOOLEAN /\ overlap \in BOOLEAN

\* The process has just connected; the broker retains what an earlier one left.
Init ==
    /\ mode \in Modes
    /\ cloudOK = FALSE /\ devicesKnown = FALSE /\ cloudFails = 0
    /\ faikin \in BOOLEAN
    /\ connLevel = 0 /\ poll = Idle /\ watch = Idle
    /\ link = TRUE /\ pending = 0 /\ connected \in 0..2
    /\ stage = "starting" /\ drops = 0
    /\ unsent = FALSE /\ overlap = FALSE /\ answers = CloudFailThreshold

----------------------------------------------------------------------------
(* The level. *)

FaikinUp == IF mode = "shared" THEN link ELSE faikin

Usable == IF mode = "cloud" THEN cloudOK ELSE devicesKnown /\ FaikinUp
UpstreamLevel == IF Usable THEN 2 ELSE 1

\* A write of the level at QoS 0: it reaches the broker, is lost on a dead link,
\* or fails, which is only logged.
Write(level) ==
    \/ link /\ connected' = level /\ unsent' = FALSE
    \/ ~link /\ UNCHANGED <<connected, unsent>>
    \/ link /\ unsent' = TRUE /\ UNCHANGED connected

\* updateConnected from the lock on: nothing to do if the level is unchanged.
Store(level) ==
    IF connLevel = level THEN UNCHANGED <<connLevel, connected, unsent>>
                         ELSE connLevel' = level /\ Write(level)

----------------------------------------------------------------------------
(* The poll loop. *)

\* Mutant of NoteGood: a good poll does not learn the topology.
NoteGoodForgets ==
    cloudOK' = TRUE /\ cloudFails' = 0 /\ answers' = 0 /\ UNCHANGED devicesKnown

\* noteCloud(true)
NoteGood ==
    /\ cloudOK' = TRUE /\ devicesKnown' = TRUE /\ cloudFails' = 0
    /\ answers' = 0

\* Mutant of Down: the level survives one failure more.
DownLate(fails) == fails > CloudFailThreshold

\* noteCloudFailure: so many failures in a row take the level down.
Down(fails) == fails >= CloudFailThreshold

\* cloudFails is only ever compared with the threshold, where it saturates here.
Saturated(fails) == IF Down(fails) THEN CloudFailThreshold ELSE fails

NoteFailure(definitive) ==
    /\ cloudFails' = Saturated(cloudFails + 1)
    /\ cloudOK' = (cloudOK /\ ~definitive /\ ~Down(cloudFails + 1))
    /\ answers' = IF definitive \/ answers = CloudFailThreshold THEN CloudFailThreshold ELSE answers + 1
    /\ UNCHANGED devicesKnown

\* pollOnce asks the cloud...
Ask ==
    /\ stage = "running" /\ poll.at = "idle"
    /\ poll' = [poll EXCEPT !.at = "asking"]
    /\ UNCHANGED <<mode, upstream, connLevel, watch, world, pending, connected, stage, history>>

\* ...and has its answer, perhaps after the process began to stop: a cancelled
\* request is a failed one.  A scan-ignore skip and a spent quota are no statement
\* about the cloud, and neither derive the level anew nor break a streak.
Poll(outcome) ==
    /\ poll.at = "asking"
    /\ \/ outcome = "skipped" /\ UNCHANGED upstream /\ poll' = Idle
       \/ outcome = "good" /\ NoteGood /\ poll' = [poll EXCEPT !.at = "noted"]
       \/ /\ outcome \in {"failed", "reauth"}
          /\ NoteFailure(outcome = "reauth")
          /\ poll' = IF outcome = "reauth" \/ Down(cloudFails + 1) THEN [poll EXCEPT !.at = "noted"] ELSE Idle
    /\ UNCHANGED <<mode, connLevel, watch, world, pending, connected, stage, history>>

PollDerives ==
    /\ poll.at = "noted"
    /\ poll' = [at |-> "derived", level |-> UpstreamLevel]
    /\ UNCHANGED <<mode, upstream, connLevel, watch, world, pending, connected, stage, history>>

PollStores ==
    /\ poll.at = "derived"
    /\ poll' = Idle /\ Store(poll.level)
    /\ UNCHANGED <<mode, upstream, watch, world, pending, stage, overlap>>

----------------------------------------------------------------------------
(* watchUpstream, in local mode. *)

\* Mutant of Watched: no watch beside the polls.
WatchedNever == FALSE

Watched == mode # "cloud"

WatchDerives ==
    /\ Watched /\ stage = "running" /\ watch.at = "idle"
    /\ watch' = [at |-> "derived", level |-> UpstreamLevel]
    /\ UNCHANGED <<mode, upstream, connLevel, poll, world, pending, connected, stage, history>>

WatchStores ==
    /\ watch.at = "derived"
    /\ watch' = Idle /\ Store(watch.level)
    /\ UNCHANGED <<mode, upstream, poll, world, pending, stage, overlap>>

----------------------------------------------------------------------------
(* The connection. *)

\* Mutant of Announced: a fresh runtime announces 1 and leaves it there.
AnnouncedOnline(level) == 1

\* What a connection is told about the level decided last.
Announced(level) == IF level = 2 THEN 2 ELSE 1

\* PublishOnline under connMu: Run calls it before it starts its goroutines...
AnnounceStart ==
    /\ stage = "starting" /\ stage' = "running"
    /\ Write(Announced(connLevel))
    /\ UNCHANGED <<mode, upstream, decision, world, pending, overlap>>

\* ...and the MQTT lifecycle on every reconnect.  Shutting down does not wait
\* for that callback.
Announce ==
    /\ stage # "stopped" /\ pending > 0
    /\ pending' = pending - 1
    /\ Write(Announced(connLevel))
    /\ overlap' = (stage = "offline")
    /\ UNCHANGED <<mode, upstream, decision, world, stage>>

\* The link drops, and the broker publishes the Last Will.
Disconnect ==
    /\ stage # "stopped" /\ link /\ drops < MaxDrops
    /\ link' = FALSE /\ drops' = drops + 1 /\ connected' = 0
    /\ UNCHANGED <<mode, upstream, decision, faikin, pending, stage, history>>

\* The lifecycle reconnects and calls PublishOnline.
Connect ==
    /\ stage # "stopped" /\ ~link
    /\ link' = TRUE /\ pending' = pending + 1 /\ unsent' = FALSE
    /\ UNCHANGED <<mode, upstream, decision, faikin, drops, connected, stage, overlap>>

FaikinDrops ==
    /\ stage # "stopped" /\ mode = "local" /\ faikin /\ drops < MaxDrops
    /\ faikin' = FALSE /\ drops' = drops + 1
    /\ UNCHANGED <<mode, upstream, decision, link, pending, connected, stage, history>>

FaikinReturns ==
    /\ stage # "stopped" /\ mode = "local" /\ ~faikin
    /\ faikin' = TRUE
    /\ UNCHANGED <<mode, upstream, decision, link, drops, pending, connected, stage, history>>

----------------------------------------------------------------------------
(* The end of the process. *)

\* SIGTERM or a requested restart cancels the context.
Stop ==
    /\ stage = "running" /\ stage' = "stopping"
    /\ drops < MaxDrops /\ drops' = drops + 1
    /\ UNCHANGED <<mode, upstream, decision, faikin, link, pending, connected, history>>

\* Mutant of GoroutinesDone: the level is withdrawn while a goroutine still runs.
GoroutinesDoneIgnored == TRUE

\* g.Wait()
GoroutinesDone == poll.at = "idle" /\ watch.at = "idle"

\* PublishOffline, once the goroutines of Run have ended.
PublishOffline ==
    /\ stage = "stopping" /\ GoroutinesDone
    /\ stage' = "offline" /\ Write(0)
    /\ UNCHANGED <<mode, upstream, decision, world, pending, overlap>>

\* The deferred lifecycle.Stop: a normal DISCONNECT, which discards the will.
LifecycleStop ==
    /\ stage = "offline" /\ stage' = "stopped"
    /\ link' = FALSE
    /\ UNCHANGED <<mode, upstream, decision, faikin, drops, pending, connected, history>>

\* The process dies (the broker publishes the will) and is started again; a
\* stopped one is started again as well.
Restart ==
    /\ \/ stage # "stopped" /\ link /\ connected' = 0 /\ drops < MaxDrops /\ drops' = drops + 1
       \/ stage = "stopped" /\ UNCHANGED <<connected, drops>>
    /\ cloudOK' = FALSE /\ devicesKnown' = FALSE /\ cloudFails' = 0 /\ answers' = CloudFailThreshold
    /\ connLevel' = 0 /\ poll' = Idle /\ watch' = Idle
    /\ link' = TRUE /\ pending' = 0
    /\ stage' = "starting" /\ unsent' = FALSE /\ overlap' = FALSE
    /\ UNCHANGED <<mode, faikin>>

Next ==
    \/ Ask \/ \E outcome \in Outcomes : Poll(outcome)
    \/ PollDerives \/ PollStores \/ WatchDerives \/ WatchStores
    \/ AnnounceStart \/ Announce \/ Disconnect \/ Connect \/ FaikinDrops \/ FaikinReturns
    \/ Stop \/ PublishOffline \/ LifecycleStop \/ Restart

Spec == Init /\ [][Next]_vars

\* The goroutines run and the ticker ticks.
Fairness ==
    /\ WF_vars(PollDerives) /\ WF_vars(PollStores)
    /\ WF_vars(WatchDerives) /\ WF_vars(WatchStores)
    /\ WF_vars(AnnounceStart)

FairSpec == Spec /\ Fairness

----------------------------------------------------------------------------
(* Properties. *)

\* In cloud mode, whenever no answer is being digested, the level is 2 exactly after a
\* good answer that fewer than CloudFailThreshold bad ones and no refused login
\* have followed; skipped polls do not count either way (upstreamLevel's comment).
CloudLevelFollowsAnswers ==
    mode = "cloud" /\ poll.at \in {"idle", "asking"} =>
        (connLevel = 2 <=> answers < CloudFailThreshold)

\* On a live link with no announcement under way the broker retains the level
\* decided last, however updates, reconnects and restarts interleaved, unless
\* the last write of it failed on the live link.
BrokerHoldsDecidedLevel ==
    stage = "running" /\ link /\ pending = 0 /\ ~unsent => connected = Announced(connLevel)

\* A daemon that stopped gracefully leaves 0 behind although the normal
\* DISCONNECT discards the will: none of its goroutines raises the level after
\* it was withdrawn.  Two exceptions: the final write failed on a live link, and
\* the callback of a reconnect came after it.
StoppedMeansOffline ==
    stage = "stopped" /\ ~unsent /\ ~overlap => connected = 0

\* In local mode the level settles on what the upstream justifies once the links
\* stop changing, although a poll may store a level it derived before the watch
\* stored a newer one.
LocalLevelSettles ==
    mode # "cloud" => <>[](stage = "running" => connLevel = UpstreamLevel)
=============================================================================
