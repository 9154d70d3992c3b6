---------------------------- MODULE DiscoveryGate ----------------------------
(***************************************************************************)
(* The discovery plane, internal/coordinator/bundle.go: the poll goroutine *)
(* publishes one retained document per device when the entity set changed, *)
(* and the MQTT lifecycle re-opens that gate on every reconnect            *)
(* (Coordinator.PublishOnline).  The two run concurrently and share        *)
(* haRuntime, discoveryGen and, under c.mu, the gate itself.               *)
(*                                                                         *)
(* The broker and the go-hamqtt runtime are external.  The broker keeps    *)
(* retained documents and may lose them in a restart; a runtime remembers  *)
(* the bytes it wrote and does not write the same document twice.  A QoS 0 *)
(* publish on a dead link succeeds and goes nowhere.  The entity set of a  *)
(* poll is a signature; Comps gives the components of each document, none   *)
(* when the entity set has nothing for it: such a document is not part of  *)
(* the batch.                                                              *)
(***************************************************************************)
EXTENDS Naturals, FiniteSets

CONSTANTS
    Devices,      \* of Home Assistant, one document each
    Scheduler,    \* the device of the schedules' switches, the daemon's own
    Signatures,   \* entity sets a poll can resolve
    Comps,        \* signature -> device -> components of its document
    NoSignature,  \* lastDiscSig = ""
    NoDocument,   \* nothing is retained on the topic
    MaxConnects   \* bound: reconnects

Components == UNION {Comps[s][d] : s \in Signatures, d \in Devices}
Documents == [live : SUBSET Components, tomb : SUBSET Components]

\* The documents of a batch: a device without entities has none, and the
\* scheduler without schedules none either.
Rendered(sig) == {d \in Devices : Comps[sig][d] # {}}

ASSUME GateConstants ==
    /\ Comps \in [Signatures -> [Devices -> SUBSET Components]]
    /\ \A s \in Signatures : Rendered(s) # {}   \* a batch without documents is not built
    /\ NoSignature \notin Signatures /\ NoDocument \notin Documents
    /\ MaxConnects \in Nat

VARIABLES
    link,         \* the broker connection is up
    broker,       \* device -> retained document
    runtime,      \* haRuntime: the connection it was built for
    memo,         \* what the current runtime has written
    oldMemo,      \* what the runtime a running batch holds had written when it was replaced
    gen,          \* discoveryGen
    lastSig,      \* lastDiscSig
    prior,        \* priorComponents
    priorLoaded,
    online,       \* where PublishOnline stands
    poll,         \* where maybePublishDiscovery stands, and its locals
    forgot,       \* history: device -> prior may lack what the broker retains
    staleCommit,  \* history: a reconnect slipped past the generation check
    abandoned     \* history: a batch stopped half way since the gate last moved

connection == <<link, runtime, memo, oldMemo, gen, online>>
gate == <<lastSig, prior, priorLoaded>>
history == <<forgot, staleCommit, abandoned>>
vars == <<connection, broker, gate, poll, history>>

Live(document) == IF document = NoDocument THEN {} ELSE document.live

Nowhere == [d \in Devices |-> NoDocument]
Unknown == [d \in Devices |-> {}]
Idle == [at |-> "idle", rt |-> 0, sig |-> NoSignature, gen |-> 0, read |-> Unknown,
         batch |-> Nowhere, todo |-> {}, allSent |-> TRUE, late |-> FALSE]

Retained == [Devices -> Documents \cup {NoDocument}]
Polls == [at : {"idle", "gate", "changed", "built", "read", "prior", "sending", "sent", "checked"},
          rt : 0..MaxConnects, sig : Signatures \cup {NoSignature}, gen : 0..MaxConnects,
          read : [Devices -> SUBSET Components], batch : Retained, todo : SUBSET Devices,
          allSent : BOOLEAN, late : BOOLEAN]

TypeOK ==
    /\ link \in BOOLEAN /\ priorLoaded \in BOOLEAN
    /\ broker \in Retained /\ memo \in Retained /\ oldMemo \in Retained
    /\ prior \in [Devices -> SUBSET Components]
    /\ runtime \in 0..MaxConnects /\ gen = (IF online = "swapped" THEN runtime - 1 ELSE runtime) /\ gen \in Nat
    /\ lastSig \in Signatures \cup {NoSignature}
    /\ online \in {"idle", "republish", "swapped", "bumped"}
    /\ poll \in Polls
    /\ poll.at # "idle" => poll.sig \in Signatures /\ poll.rt <= runtime /\ poll.gen <= gen
    /\ \A d \in Devices : poll.batch[d] # NoDocument => poll.batch[d].live \cap poll.batch[d].tomb = {}
    /\ forgot \in [Devices -> BOOLEAN] /\ staleCommit \in BOOLEAN /\ abandoned \in BOOLEAN

\* The daemon has just announced itself on its first connection; the broker may
\* hold documents of earlier runs.
Init ==
    /\ link = TRUE
    /\ \E earlier \in [Devices -> Signatures \cup {NoSignature}] :
           broker = [d \in Devices |->
               IF earlier[d] = NoSignature \/ d \notin Rendered(earlier[d]) THEN NoDocument
               ELSE [live |-> Comps[earlier[d]][d], tomb |-> {}]]
    /\ runtime = 0 /\ memo = Nowhere /\ oldMemo = Nowhere /\ gen = 0
    /\ lastSig = NoSignature /\ prior = Unknown /\ priorLoaded = FALSE
    /\ online = "idle" /\ poll = Idle
    /\ forgot = [d \in Devices |-> FALSE] /\ staleCommit = FALSE /\ abandoned = FALSE

----------------------------------------------------------------------------
(* maybePublishDiscovery, one action per read or write of shared state. *)

At(here, there) == poll.at = here /\ poll' = [poll EXCEPT !.at = there]
GiveUp == poll' = Idle

\* rt := c.ha(), and the signature of the entity set this poll resolved.
LoadRuntime(sig) ==
    /\ poll.at = "idle"
    /\ poll' = [Idle EXCEPT !.at = "gate", !.rt = runtime, !.sig = sig]
    /\ oldMemo' = Nowhere
    /\ UNCHANGED <<link, runtime, memo, gen, online, broker, gate, history>>

\* The gate: nothing to do for the signature committed last.
CheckGate ==
    /\ poll.at = "gate"
    /\ IF poll.sig = lastSig THEN GiveUp ELSE At("gate", "changed")
    /\ UNCHANGED <<connection, broker, gate, history>>

\* discoveryGen.Load().  It may already count a reconnect that replaced the
\* runtime this batch holds.
LoadGen ==
    /\ poll.at = "changed"
    /\ poll' = [poll EXCEPT !.at = "built", !.gen = gen, !.late = (poll.rt # runtime)]
    /\ UNCHANGED <<connection, broker, gate, history>>

\* The documents the read-back may take for its own: those of the devices this
\* poll resolved, never the scheduler's, which every instance writes.
Owned(sig) == Rendered(sig) \ {Scheduler}

\* loadPriorComponents, before the lock: nothing if they are loaded already,
\* else the retained documents are read back.  A window may see nothing, or not
\* all, and a payload may be declined; a dead link shows none.
ReadPrior ==
    /\ poll.at = "built" /\ ~priorLoaded
    /\ \E seen \in SUBSET Owned(poll.sig) :
         /\ link \/ seen = {}
         /\ poll' = [poll EXCEPT !.at = "read",
                !.read = [d \in Devices |-> IF d \in seen THEN Live(broker[d]) ELSE {}]]
         /\ forgot' = [d \in Devices |-> d \notin seen /\ Live(broker[d]) # {}]
    /\ UNCHANGED <<connection, broker, gate, staleCommit, abandoned>>

PriorIsLoaded ==
    /\ priorLoaded /\ At("built", "prior")
    /\ UNCHANGED <<connection, broker, gate, history>>

StorePrior ==
    /\ poll.at = "read" /\ poll' = [poll EXCEPT !.at = "prior", !.read = Unknown]
    /\ prior' = poll.read /\ priorLoaded' = TRUE
    /\ UNCHANGED <<connection, broker, lastSig, history>>

\* Mutant of Gone: every earlier component, also one the new document carries.
GoneAll(d, sig) == prior[d]

\* What the earlier document of a device carried and this one does not.
Gone(d, sig) == prior[d] \ Comps[sig][d]

\* tombstone.  A reconnect that cleared the prior state after it was loaded
\* takes the tombstones with it.
Tombstone ==
    /\ poll.at = "prior"
    /\ poll' = [poll EXCEPT !.at = "sending", !.todo = Rendered(poll.sig),
           !.batch = [d \in Devices |-> IF d \notin Rendered(poll.sig) THEN NoDocument
                                       ELSE [live |-> Comps[poll.sig][d], tomb |-> Gone(d, poll.sig)]]]
    /\ forgot' = [d \in Devices |-> forgot[d] \/ ~priorLoaded]
    /\ UNCHANGED <<connection, broker, gate, staleCommit, abandoned>>

\* Nothing renders, or a document is refused: the whole batch is withheld.
Withhold ==
    /\ \/ poll.at = "built"
       \/ poll.at = "sending" /\ poll.todo = Rendered(poll.sig) /\ poll.allSent
    /\ GiveUp
    /\ UNCHANGED <<connection, broker, gate, history>>

\* The runtime of the batch has written this very document already.
Suppressed(d) == (IF poll.rt = runtime THEN memo ELSE oldMemo)[d] = poll.batch[d]

\* Mutant of Recorded: the document is recorded as the prior one even if its publish failed.
RecordedAlways(d, sent) == prior' = [prior EXCEPT ![d] = Comps[poll.sig][d]]

\* recordPublished: the live components are what the next batch is compared with.
Recorded(d, sent) == IF sent THEN prior' = [prior EXCEPT ![d] = Comps[poll.sig][d]] ELSE UNCHANGED prior

\* publishBundles: one document reaches the socket (which on a dead link leads
\* nowhere) or is suppressed, and counts as written.  Once retained, it is known.
SendDocument(d) ==
    /\ poll.at = "sending" /\ d \in poll.todo
    /\ broker' = IF link /\ ~Suppressed(d) THEN [broker EXCEPT ![d] = poll.batch[d]] ELSE broker
    /\ forgot' = [forgot EXCEPT ![d] = (broker'[d] # poll.batch[d])]
    /\ IF poll.rt = runtime
       THEN memo' = [memo EXCEPT ![d] = poll.batch[d]] /\ UNCHANGED oldMemo
       ELSE oldMemo' = [oldMemo EXCEPT ![d] = poll.batch[d]] /\ UNCHANGED memo
    /\ Recorded(d, TRUE)
    /\ poll' = [poll EXCEPT !.todo = @ \ {d}]
    /\ UNCHANGED <<link, runtime, gen, online, lastSig, priorLoaded, staleCommit, abandoned>>

\* ...or it does not reach the socket.
FailDocument(d) ==
    /\ poll.at = "sending" /\ d \in poll.todo
    /\ Recorded(d, FALSE)
    /\ poll' = [poll EXCEPT !.todo = @ \ {d}, !.allSent = FALSE]
    /\ UNCHANGED <<connection, broker, lastSig, priorLoaded, history>>

BatchSent == poll.allSent

\* A batch with a failed document is not committed.
FinishBatch ==
    /\ poll.at = "sending" /\ poll.todo = {}
    /\ IF BatchSent THEN At("sending", "sent") /\ UNCHANGED abandoned
                    ELSE GiveUp /\ abandoned' = TRUE
    /\ UNCHANGED <<connection, broker, gate, forgot, staleCommit>>

\* Mutant of GenerationHeld: no generation check.
GenerationIgnored == TRUE

\* No reconnect was counted since the batch began.
GenerationHeld == gen = poll.gen

CheckGeneration ==
    /\ poll.at = "sent"
    /\ IF GenerationHeld THEN At("sent", "checked") ELSE GiveUp
    /\ UNCHANGED <<connection, broker, gate, history>>

\* lastDiscSig = sig, under c.mu, after the check.
Commit ==
    /\ poll.at = "checked" /\ GiveUp
    /\ lastSig' = poll.sig
    /\ staleCommit' = poll.late /\ abandoned' = FALSE
    /\ UNCHANGED <<connection, broker, prior, priorLoaded, forgot>>

----------------------------------------------------------------------------
(* The connection and PublishOnline. *)

Disconnect ==
    /\ link /\ link' = FALSE
    /\ UNCHANGED <<runtime, memo, oldMemo, gen, online, broker, gate, poll, history>>

\* The broker restarts without its retained store.
LoseStore ==
    /\ ~link /\ broker # Nowhere
    /\ broker' = Nowhere
    /\ UNCHANGED <<connection, gate, poll, history>>

\* The lifecycle reconnects and calls PublishOnline, which re-sends the state
\* plane first.
Connect ==
    /\ ~link /\ online = "idle" /\ runtime < MaxConnects
    /\ link' = TRUE /\ online' = "republish"
    /\ UNCHANGED <<runtime, memo, oldMemo, gen, broker, gate, poll, history>>

\* resetHAPlane
SwapRuntime ==
    /\ online = "republish" /\ online' = "swapped"
    /\ runtime' = runtime + 1 /\ memo' = Nowhere
    /\ oldMemo' = IF poll.at # "idle" /\ poll.rt = runtime THEN memo ELSE oldMemo
    /\ UNCHANGED <<link, gen, broker, gate, poll, history>>

\* discoveryGen.Add(1)
BumpGen ==
    /\ online = "swapped" /\ online' = "bumped"
    /\ gen' = gen + 1
    /\ poll' = [poll EXCEPT !.late = @ \/ poll.at = "checked"]
    /\ UNCHANGED <<link, runtime, memo, oldMemo, broker, gate, history>>

\* The gate and the prior state are cleared under c.mu.
ClearGate ==
    /\ online = "bumped" /\ online' = "idle"
    /\ lastSig' = NoSignature /\ prior' = Unknown /\ priorLoaded' = FALSE
    /\ staleCommit' = FALSE
    /\ UNCHANGED <<link, runtime, memo, oldMemo, gen, broker, poll, forgot, abandoned>>

Next ==
    \/ \E s \in Signatures : LoadRuntime(s)
    \/ CheckGate \/ LoadGen \/ ReadPrior \/ PriorIsLoaded \/ StorePrior \/ Tombstone \/ Withhold
    \/ \E d \in Devices : SendDocument(d) \/ FailDocument(d)
    \/ FinishBatch \/ CheckGeneration \/ Commit
    \/ Disconnect \/ LoseStore \/ Connect \/ SwapRuntime \/ BumpGen \/ ClearGate

Spec == Init /\ [][Next]_vars

----------------------------------------------------------------------------
(* Properties. *)

Settled == link /\ online = "idle" /\ poll.at \notin {"sending", "sent", "checked"}

DocumentsPresent == \A d \in Rendered(lastSig) : Live(broker[d]) = Comps[lastSig][d]

\* A closed gate is true of the broker at the other end: while no batch and no
\* reconnect is under way, the documents of the committed signature are
\* retained, however many reconnects, lost stores and failed publishes came
\* before.  Two exceptions, which the histories single out: the generation was
\* read or checked too early to see a reconnect, and a batch was abandoned.
ClosedGateMeansDocuments ==
    Settled /\ lastSig # NoSignature /\ ~staleCommit /\ ~abandoned => DocumentsPresent

\* A component that leaves a retained document is marked removed in the one that
\* replaces it (an omitted component stays in Home Assistant for good).  For the
\* documents the read-back took for its own this spans restarts and reconnects;
\* for one it did not see, or declined, as always the scheduler's, it begins
\* when this process has written the document on the connection.  The history
\* also names a read thrown away by a reconnect, and a document recorded as
\* written but never retained (a dead link, the memo of an earlier connection).
DroppedComponentsAreTombstoned ==
    [][\A d \in Devices :
         broker'[d] # broker[d] /\ broker'[d] # NoDocument /\ ~forgot[d] =>
             Live(broker[d]) \ broker'[d].live \subseteq broker'[d].tomb]_vars

\* Said of the in-process memo (coordinator.go:849-853): it covers deleting a
\* schedule through the daemon's own web UI, so once the gate has closed over
\* what is left, no switch of a deleted schedule is live in the scheduler's
\* document, provided this process knows what the document carries.
DeletedSchedulesLeave ==
    Settled /\ lastSig # NoSignature /\ ~staleCommit /\ ~abandoned /\ priorLoaded /\ ~forgot[Scheduler] =>
        Live(broker[Scheduler]) \subseteq Comps[lastSig][Scheduler]

=============================================================================
