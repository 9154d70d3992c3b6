------------------------- MODULE DiscoveryGateProofs -------------------------
(***************************************************************************)
(* TLAPS proofs about DiscoveryGate, for any documents, entity sets and    *)
(* number of reconnects.                                                   *)
(***************************************************************************)
EXTENDS DiscoveryGate, TLAPS

Sending == {"sending", "sent", "checked"}
Counted == {"built", "read", "prior"} \cup Sending

\* A reconnect that is counted comes from a runtime that may still be replaced.
RoomInv == online = "republish" => runtime < MaxConnects

\* Since the connection came up, the documents the runtime has written are the
\* retained ones; it has written none as long as a batch holds an older runtime.
MemoInv ==
    /\ link /\ online # "republish" =>
         \A d \in Devices : memo[d] # NoDocument => broker[d] = memo[d]
    /\ poll.at # "idle" /\ poll.rt # runtime => memo = Nowhere

\* A batch consists of the documents of its signature, and the runtime it holds
\* has written those already sent.
BatchInv ==
    /\ poll.at \in Sending =>
         /\ \A d \in Rendered(poll.sig) : poll.batch[d] # NoDocument /\ poll.batch[d].live = Comps[poll.sig][d]
         /\ poll.todo \subseteq Rendered(poll.sig)
    /\ poll.at \in Sending /\ poll.allSent /\ poll.rt = runtime =>
         \A d \in Rendered(poll.sig) \ poll.todo : memo[d] = poll.batch[d]
    /\ poll.at \in {"sent", "checked"} => poll.allSent /\ poll.todo = {}

\* A batch not marked late that holds a replaced runtime will be caught by the
\* generation check, or its reconnect has still to count itself.
LateInv ==
    poll.at \in Counted /\ ~poll.late =>
        /\ poll.gen = gen => poll.rt = runtime \/ online = "swapped"
        /\ poll.at = "checked" => poll.gen = gen

\* A reconnect since the batch began has cleared the gate, or is about to.
ClearedInv ==
    /\ poll.at # "idle" /\ poll.rt # runtime => lastSig = NoSignature \/ online \in {"swapped", "bumped"}
    /\ poll.at \in Counted /\ poll.gen # gen => lastSig = NoSignature \/ online = "bumped"

\* With the gate closed the runtime has written the documents of the committed
\* signature, but for those a batch under way has sent.
GateInv ==
    lastSig # NoSignature /\ ~staleCommit /\ ~abandoned /\ link /\ online = "idle" =>
        \A d \in Rendered(lastSig) :
            \/ memo[d] # NoDocument /\ memo[d].live = Comps[lastSig][d]
            \/ poll.at \in Sending /\ d \in Rendered(poll.sig) \ poll.todo

\* What a document retains and the history does not call forgotten is known: to
\* prior once loaded, to a read not stored yet, and to a batch that has still to
\* send the document.
PriorInv ==
    \A d \in Devices : ~forgot[d] =>
        /\ priorLoaded => Live(broker[d]) \subseteq prior[d]
        /\ poll.at = "read" => Live(broker[d]) \subseteq poll.read[d]
        /\ poll.at = "sending" /\ d \in poll.todo =>
             Live(broker[d]) \subseteq poll.batch[d].live \cup poll.batch[d].tomb

IInv ==
    /\ TypeOK
    /\ RoomInv
    /\ MemoInv
    /\ BatchInv
    /\ LateInv
    /\ ClearedInv
    /\ GateInv
    /\ PriorInv

----------------------------------------------------------------------------
(* The inductive invariant, one lemma for each of its parts. *)

\* The records of the poll goroutine are records of their type.
LEMMA IdleTyped == Idle \in Polls
  <1> USE GateConstants
  <1>1. Nowhere \in Retained /\ Unknown \in [Devices -> SUBSET Components]
    BY DEF Nowhere, Retained, Unknown
  <1>2. 0 \in 0..MaxConnects
    OBVIOUS
  <1> QED
    BY <1>1, <1>2 DEF Idle, Polls

\* What is read back of retained documents are components.
LEMMA ReadTyped ==
    ASSUME TypeOK, NEW seen
    PROVE  [d \in Devices |-> IF d \in seen THEN Live(broker[d]) ELSE {}] \in [Devices -> SUBSET Components]
  <1>1. \A d \in Devices : Live(broker[d]) \in SUBSET Components
    BY GateConstants DEF TypeOK, Retained, Live, Documents
  <1> QED
    BY <1>1

\* A document with its tombstones is a document.
LEMMA DocumentTyped ==
    ASSUME TypeOK, NEW s \in Signatures, NEW d \in Devices
    PROVE  LET document == [live |-> Comps[s][d], tomb |-> Gone(d, s)]
           IN  document \in Documents /\ document # NoDocument
  <1>1. Comps[s][d] \subseteq Components /\ prior[d] \subseteq Components
    BY GateConstants DEF TypeOK
  <1>2. [live |-> Comps[s][d], tomb |-> Gone(d, s)] \in Documents
    BY <1>1 DEF Documents, Gone
  <1> QED
    BY <1>2, GateConstants

\* Every step keeps the types.
LEMMA TypeStep == IInv /\ [Next]_vars => TypeOK'
  <1> SUFFICES ASSUME IInv, [Next]_vars
               PROVE  TypeOK'
    OBVIOUS
  <1> USE GateConstants DEF At, GiveUp, connection, gate, history
  <1>a. /\ TypeOK /\ RoomInv /\ MemoInv /\ BatchInv
        /\ LateInv /\ ClearedInv /\ GateInv /\ PriorInv
    BY DEF IInv
  <1>1. ASSUME NEW sig \in Signatures, LoadRuntime(sig)
        PROVE  TypeOK'
    <2>1. poll' \in Polls
      <3>1. poll' = [Idle EXCEPT !.at = "gate", !.rt = runtime, !.sig = sig]
        BY <1>1 DEF LoadRuntime
      <3> QED
        BY <1>a, <3>1, IdleTyped DEF TypeOK, Polls
    <2>2. /\ poll'.at # "idle" => poll'.sig \in Signatures /\ poll'.rt <= runtime' /\ poll'.gen <= gen'
          /\ \A d \in Devices : poll'.batch[d] # NoDocument => poll'.batch[d].live \cap poll'.batch[d].tomb = {}
      BY <1>a, <1>1
         DEF TypeOK, RoomInv, Retained, Polls, Documents, Idle, Nowhere, Unknown, LoadRuntime
    <2>3. forgot' \in [Devices -> BOOLEAN] /\ staleCommit' \in BOOLEAN /\ abandoned' \in BOOLEAN
      BY <1>a, <1>1 DEF TypeOK, Polls, LoadRuntime
    <2>4. /\ link' \in BOOLEAN /\ priorLoaded' \in BOOLEAN
          /\ broker' \in Retained /\ memo' \in Retained /\ oldMemo' \in Retained
          /\ prior' \in [Devices -> SUBSET Components]
      BY <1>a, <1>1 DEF TypeOK, RoomInv, Retained, Polls, Documents, LoadRuntime, Nowhere
    <2>5. /\ runtime' \in 0..MaxConnects /\ gen' \in Nat
          /\ gen' = IF online' = "swapped" THEN runtime' - 1 ELSE runtime'
          /\ lastSig' \in Signatures \cup {NoSignature}
          /\ online' \in {"idle", "republish", "swapped", "bumped"}
      BY <1>a, <1>1 DEF TypeOK, RoomInv, Retained, Polls, Documents, LoadRuntime
    <2> QED
      BY <2>1, <2>2, <2>3, <2>4, <2>5 DEF TypeOK
  <1>2. CASE CheckGate
    <2>1. poll' \in Polls
      <3>1. poll' = Idle \/ poll' = [poll EXCEPT !.at = "changed"]
        BY <1>2 DEF CheckGate
      <3> QED
        BY <1>a, <3>1, IdleTyped DEF TypeOK, Polls
    <2>2. /\ poll'.at # "idle" => poll'.sig \in Signatures /\ poll'.rt <= runtime' /\ poll'.gen <= gen'
          /\ \A d \in Devices : poll'.batch[d] # NoDocument => poll'.batch[d].live \cap poll'.batch[d].tomb = {}
      BY <1>a, <1>2
         DEF TypeOK, RoomInv, Retained, Polls, Documents, Idle, Nowhere, Unknown, CheckGate
    <2>3. forgot' \in [Devices -> BOOLEAN] /\ staleCommit' \in BOOLEAN /\ abandoned' \in BOOLEAN
      BY <1>a, <1>2 DEF TypeOK, Polls, CheckGate
    <2>4. /\ link' \in BOOLEAN /\ priorLoaded' \in BOOLEAN
          /\ broker' \in Retained /\ memo' \in Retained /\ oldMemo' \in Retained
          /\ prior' \in [Devices -> SUBSET Components]
      BY <1>a, <1>2 DEF TypeOK, RoomInv, Retained, Polls, Documents, CheckGate
    <2>5. /\ runtime' \in 0..MaxConnects /\ gen' \in Nat
          /\ gen' = IF online' = "swapped" THEN runtime' - 1 ELSE runtime'
          /\ lastSig' \in Signatures \cup {NoSignature}
          /\ online' \in {"idle", "republish", "swapped", "bumped"}
      BY <1>a, <1>2 DEF TypeOK, RoomInv, Retained, Polls, Documents, CheckGate
    <2> QED
      BY <2>1, <2>2, <2>3, <2>4, <2>5 DEF TypeOK
  <1>3. CASE LoadGen
    <2>1. poll' \in Polls
      <3>1. poll' = [poll EXCEPT !.at = "built", !.gen = gen, !.late = (poll.rt # runtime)]
        BY <1>3 DEF LoadGen
      <3>2. gen \in 0..MaxConnects /\ (poll.rt # runtime) \in BOOLEAN
        BY <1>a DEF TypeOK
      <3>3. poll \in Polls
        BY <1>a DEF TypeOK
      <3> QED
        BY <3>1, <3>2, <3>3 DEF Polls
    <2>2. /\ poll'.at # "idle" => poll'.sig \in Signatures /\ poll'.rt <= runtime' /\ poll'.gen <= gen'
          /\ \A d \in Devices : poll'.batch[d] # NoDocument => poll'.batch[d].live \cap poll'.batch[d].tomb = {}
      BY <1>a, <1>3 DEF TypeOK, RoomInv, Retained, Polls, Documents, Idle, Nowhere, Unknown, LoadGen
    <2>3. forgot' \in [Devices -> BOOLEAN] /\ staleCommit' \in BOOLEAN /\ abandoned' \in BOOLEAN
      BY <1>a, <1>3 DEF TypeOK, Polls, LoadGen
    <2>4. /\ link' \in BOOLEAN /\ priorLoaded' \in BOOLEAN
          /\ broker' \in Retained /\ memo' \in Retained /\ oldMemo' \in Retained
          /\ prior' \in [Devices -> SUBSET Components]
      BY <1>a, <1>3 DEF TypeOK, RoomInv, Retained, Polls, Documents, LoadGen
    <2>5. /\ runtime' \in 0..MaxConnects /\ gen' \in Nat
          /\ gen' = IF online' = "swapped" THEN runtime' - 1 ELSE runtime'
          /\ lastSig' \in Signatures \cup {NoSignature}
          /\ online' \in {"idle", "republish", "swapped", "bumped"}
      BY <1>a, <1>3 DEF TypeOK, RoomInv, Retained, Polls, Documents, LoadGen
    <2> QED
      BY <2>1, <2>2, <2>3, <2>4, <2>5 DEF TypeOK
  <1>4. CASE ReadPrior
    <2>1. poll' \in Polls
      <3>1. PICK read \in [Devices -> SUBSET Components] : poll' = [poll EXCEPT !.at = "read", !.read = read]
        BY <1>a, <1>4, ReadTyped DEF ReadPrior
      <3> QED
        BY <1>a, <3>1 DEF TypeOK, Polls
    <2>2. /\ poll'.at # "idle" => poll'.sig \in Signatures /\ poll'.rt <= runtime' /\ poll'.gen <= gen'
          /\ \A d \in Devices : poll'.batch[d] # NoDocument => poll'.batch[d].live \cap poll'.batch[d].tomb = {}
      BY <1>a, <1>4
         DEF TypeOK, RoomInv, Retained, Polls, Documents, Idle, Nowhere, Unknown, ReadPrior, Live
    <2>3. forgot' \in [Devices -> BOOLEAN] /\ staleCommit' \in BOOLEAN /\ abandoned' \in BOOLEAN
      BY <1>a, <1>4 DEF TypeOK, Polls, ReadPrior, Live
    <2>4. /\ link' \in BOOLEAN /\ priorLoaded' \in BOOLEAN
          /\ broker' \in Retained /\ memo' \in Retained /\ oldMemo' \in Retained
          /\ prior' \in [Devices -> SUBSET Components]
      BY <1>a, <1>4 DEF TypeOK, RoomInv, Retained, Polls, Documents, ReadPrior, Live
    <2>5. /\ runtime' \in 0..MaxConnects /\ gen' \in Nat
          /\ gen' = IF online' = "swapped" THEN runtime' - 1 ELSE runtime'
          /\ lastSig' \in Signatures \cup {NoSignature}
          /\ online' \in {"idle", "republish", "swapped", "bumped"}
      BY <1>a, <1>4 DEF TypeOK, RoomInv, Retained, Polls, Documents, ReadPrior, Live
    <2> QED
      BY <2>1, <2>2, <2>3, <2>4, <2>5 DEF TypeOK
  <1>5. CASE PriorIsLoaded
    BY <1>a, <1>5 DEF PriorIsLoaded, TypeOK, RoomInv, Retained, Polls, Documents
  <1>6. CASE StorePrior
    <2>1. poll' \in Polls
      <3>1. poll' = [poll EXCEPT !.at = "prior", !.read = Unknown] /\ poll \in Polls
        BY <1>a, <1>6 DEF StorePrior, TypeOK
      <3>2. Unknown \in [Devices -> SUBSET Components]
        BY DEF Unknown
      <3> QED
        BY <3>1, <3>2 DEF Polls
    <2>2. /\ poll'.sig = poll.sig /\ poll'.rt = poll.rt /\ poll'.gen = poll.gen /\ poll'.batch = poll.batch
          /\ poll.at = "read" /\ poll.read \in [Devices -> SUBSET Components]
      BY <1>a, <1>6 DEF StorePrior, TypeOK, Polls
    <2> QED
      BY <1>a, <1>6, <2>1, <2>2 DEF StorePrior, TypeOK
  <1>7. CASE Tombstone
    <2>1. poll' \in Polls
      <3> DEFINE documents ==
            [d \in Devices |-> IF d \notin Rendered(poll.sig) THEN NoDocument
                              ELSE [live |-> Comps[poll.sig][d], tomb |-> Gone(d, poll.sig)]]
      <3>1. poll' = [poll EXCEPT !.at = "sending", !.todo = Rendered(poll.sig), !.batch = documents]
        BY <1>7 DEF Tombstone
      <3>2. documents \in Retained /\ Rendered(poll.sig) \subseteq Devices
        BY <1>a, <1>7, DocumentTyped DEF Tombstone, TypeOK, Retained, Rendered
      <3> HIDE DEF documents
      <3> QED
        BY <1>a, <3>1, <3>2 DEF TypeOK, Polls
    <2>2. /\ poll'.at # "idle" => poll'.sig \in Signatures /\ poll'.rt <= runtime' /\ poll'.gen <= gen'
          /\ \A d \in Devices : poll'.batch[d] # NoDocument => poll'.batch[d].live \cap poll'.batch[d].tomb = {}
      BY <1>a, <1>7
         DEF TypeOK, RoomInv, Retained, Polls, Documents, Idle, Nowhere, Unknown, Tombstone, Gone
    <2>3. forgot' \in [Devices -> BOOLEAN] /\ staleCommit' \in BOOLEAN /\ abandoned' \in BOOLEAN
      BY <1>a, <1>7 DEF TypeOK, Polls, Tombstone, Gone
    <2>4. /\ link' \in BOOLEAN /\ priorLoaded' \in BOOLEAN
          /\ broker' \in Retained /\ memo' \in Retained /\ oldMemo' \in Retained
          /\ prior' \in [Devices -> SUBSET Components]
      BY <1>a, <1>7 DEF TypeOK, RoomInv, Retained, Polls, Documents, Tombstone, Gone
    <2>5. /\ runtime' \in 0..MaxConnects /\ gen' \in Nat
          /\ gen' = IF online' = "swapped" THEN runtime' - 1 ELSE runtime'
          /\ lastSig' \in Signatures \cup {NoSignature}
          /\ online' \in {"idle", "republish", "swapped", "bumped"}
      BY <1>a, <1>7 DEF TypeOK, RoomInv, Retained, Polls, Documents, Tombstone, Gone
    <2> QED
      BY <2>1, <2>2, <2>3, <2>4, <2>5 DEF TypeOK
  <1>8. CASE Withhold
    <2>1. poll' \in Polls
      BY <1>8, IdleTyped DEF Withhold
    <2>2. /\ poll'.at # "idle" => poll'.sig \in Signatures /\ poll'.rt <= runtime' /\ poll'.gen <= gen'
          /\ \A d \in Devices : poll'.batch[d] # NoDocument => poll'.batch[d].live \cap poll'.batch[d].tomb = {}
      BY <1>a, <1>8
         DEF TypeOK, RoomInv, Retained, Polls, Documents, Idle, Nowhere, Unknown, Withhold
    <2>3. forgot' \in [Devices -> BOOLEAN] /\ staleCommit' \in BOOLEAN /\ abandoned' \in BOOLEAN
      BY <1>a, <1>8 DEF TypeOK, Polls, Withhold
    <2>4. /\ link' \in BOOLEAN /\ priorLoaded' \in BOOLEAN
          /\ broker' \in Retained /\ memo' \in Retained /\ oldMemo' \in Retained
          /\ prior' \in [Devices -> SUBSET Components]
      BY <1>a, <1>8 DEF TypeOK, RoomInv, Retained, Polls, Documents, Withhold
    <2>5. /\ runtime' \in 0..MaxConnects /\ gen' \in Nat
          /\ gen' = IF online' = "swapped" THEN runtime' - 1 ELSE runtime'
          /\ lastSig' \in Signatures \cup {NoSignature}
          /\ online' \in {"idle", "republish", "swapped", "bumped"}
      BY <1>a, <1>8 DEF TypeOK, RoomInv, Retained, Polls, Documents, Withhold
    <2> QED
      BY <2>1, <2>2, <2>3, <2>4, <2>5 DEF TypeOK
  <1>9. ASSUME NEW d \in Devices, SendDocument(d)
        PROVE  TypeOK'
    <2>1. poll' \in Polls
      BY <1>a, <1>9
         DEF TypeOK, RoomInv, Retained, Polls, Documents, SendDocument, Suppressed, Recorded
    <2>2. /\ poll'.at # "idle" => poll'.sig \in Signatures /\ poll'.rt <= runtime' /\ poll'.gen <= gen'
          /\ \A c \in Devices : poll'.batch[c] # NoDocument => poll'.batch[c].live \cap poll'.batch[c].tomb = {}
      BY <1>a, <1>9
         DEF TypeOK, RoomInv, Retained, Polls, Documents, Idle, Nowhere, Unknown, SendDocument,
             Suppressed, Recorded
    <2>3. forgot' \in [Devices -> BOOLEAN] /\ staleCommit' \in BOOLEAN /\ abandoned' \in BOOLEAN
      BY <1>a, <1>9 DEF TypeOK, Polls, SendDocument, Suppressed, Recorded
    <2>4. /\ link' \in BOOLEAN /\ priorLoaded' \in BOOLEAN
          /\ broker' \in Retained /\ memo' \in Retained /\ oldMemo' \in Retained
          /\ prior' \in [Devices -> SUBSET Components]
      <3>1. /\ poll.batch[d] \in Documents \cup {NoDocument} /\ Comps[poll.sig][d] \in SUBSET Components
            /\ broker \in Retained /\ memo \in Retained /\ oldMemo \in Retained
            /\ prior \in [Devices -> SUBSET Components]
        BY <1>a, <1>9 DEF TypeOK, Retained, Polls, SendDocument
      <3>2. /\ broker' = broker \/ broker' = [broker EXCEPT ![d] = poll.batch[d]]
            /\ memo' = memo \/ memo' = [memo EXCEPT ![d] = poll.batch[d]]
            /\ oldMemo' = oldMemo \/ oldMemo' = [oldMemo EXCEPT ![d] = poll.batch[d]]
            /\ prior' = [prior EXCEPT ![d] = Comps[poll.sig][d]]
            /\ link' = link /\ priorLoaded' = priorLoaded
        BY <1>9 DEF SendDocument, Recorded
      <3>3. \A f \in Retained : [f EXCEPT ![d] = poll.batch[d]] \in Retained
        BY <3>1 DEF Retained
      <3>4. prior' \in [Devices -> SUBSET Components]
        BY <3>1, <3>2
      <3>5. link' \in BOOLEAN /\ priorLoaded' \in BOOLEAN
        BY <1>a, <3>2 DEF TypeOK
      <3> QED
        BY <3>1, <3>2, <3>3, <3>4, <3>5
    <2>5. /\ runtime' \in 0..MaxConnects /\ gen' \in Nat
          /\ gen' = IF online' = "swapped" THEN runtime' - 1 ELSE runtime'
          /\ lastSig' \in Signatures \cup {NoSignature}
          /\ online' \in {"idle", "republish", "swapped", "bumped"}
      BY <1>a, <1>9
         DEF TypeOK, RoomInv, Retained, Polls, Documents, SendDocument, Suppressed, Recorded
    <2> QED
      BY <2>1, <2>2, <2>3, <2>4, <2>5 DEF TypeOK
  <1>10. ASSUME NEW d \in Devices, FailDocument(d)
        PROVE  TypeOK'
    BY <1>a, <1>10 DEF FailDocument, Recorded, TypeOK, RoomInv, Retained, Polls, Documents
  <1>11. CASE FinishBatch
    <2>0. /\ poll' = Idle \/ poll' = [poll EXCEPT !.at = "sent"]
          /\ UNCHANGED <<runtime, gen>> /\ poll.at = "sending"
      BY <1>11 DEF FinishBatch
    <2>1. poll' \in Polls
      <3>1. poll' = Idle \/ poll' = [poll EXCEPT !.at = "sent"]
        BY <1>11 DEF FinishBatch
      <3> QED
        BY <1>a, <3>1, IdleTyped DEF TypeOK, Polls
    <2>2. /\ poll'.at # "idle" => poll'.sig \in Signatures /\ poll'.rt <= runtime' /\ poll'.gen <= gen'
          /\ \A d \in Devices : poll'.batch[d] # NoDocument => poll'.batch[d].live \cap poll'.batch[d].tomb = {}
      BY <1>a, <2>0, <2>1 DEF TypeOK, RoomInv, Retained, Polls, Documents, Idle, Nowhere, Unknown
    <2>3. forgot' \in [Devices -> BOOLEAN] /\ staleCommit' \in BOOLEAN /\ abandoned' \in BOOLEAN
      BY <1>a, <1>11 DEF TypeOK, Polls, FinishBatch, BatchSent
    <2>4. /\ link' \in BOOLEAN /\ priorLoaded' \in BOOLEAN
          /\ broker' \in Retained /\ memo' \in Retained /\ oldMemo' \in Retained
          /\ prior' \in [Devices -> SUBSET Components]
      BY <1>a, <1>11 DEF TypeOK, RoomInv, Retained, Polls, Documents, FinishBatch, BatchSent
    <2>5. /\ runtime' \in 0..MaxConnects /\ gen' \in Nat
          /\ gen' = IF online' = "swapped" THEN runtime' - 1 ELSE runtime'
          /\ lastSig' \in Signatures \cup {NoSignature}
          /\ online' \in {"idle", "republish", "swapped", "bumped"}
      BY <1>a, <1>11 DEF TypeOK, RoomInv, Retained, Polls, Documents, FinishBatch, BatchSent
    <2> QED
      BY <2>1, <2>2, <2>3, <2>4, <2>5 DEF TypeOK
  <1>12. CASE CheckGeneration
    <2>1. poll' \in Polls
      <3>1. poll' = Idle \/ poll' = [poll EXCEPT !.at = "checked"]
        BY <1>12 DEF CheckGeneration
      <3> QED
        BY <1>a, <3>1, IdleTyped DEF TypeOK, Polls
    <2>2. /\ poll'.at # "idle" => poll'.sig \in Signatures /\ poll'.rt <= runtime' /\ poll'.gen <= gen'
          /\ \A d \in Devices : poll'.batch[d] # NoDocument => poll'.batch[d].live \cap poll'.batch[d].tomb = {}
      BY <1>a, <1>12
         DEF TypeOK, RoomInv, Retained, Polls, Documents, Idle, Nowhere, Unknown, CheckGeneration,
             GenerationHeld
    <2>3. forgot' \in [Devices -> BOOLEAN] /\ staleCommit' \in BOOLEAN /\ abandoned' \in BOOLEAN
      BY <1>a, <1>12 DEF TypeOK, Polls, CheckGeneration, GenerationHeld
    <2>4. /\ link' \in BOOLEAN /\ priorLoaded' \in BOOLEAN
          /\ broker' \in Retained /\ memo' \in Retained /\ oldMemo' \in Retained
          /\ prior' \in [Devices -> SUBSET Components]
      BY <1>a, <1>12
         DEF TypeOK, RoomInv, Retained, Polls, Documents, CheckGeneration, GenerationHeld
    <2>5. /\ runtime' \in 0..MaxConnects /\ gen' \in Nat
          /\ gen' = IF online' = "swapped" THEN runtime' - 1 ELSE runtime'
          /\ lastSig' \in Signatures \cup {NoSignature}
          /\ online' \in {"idle", "republish", "swapped", "bumped"}
      BY <1>a, <1>12
         DEF TypeOK, RoomInv, Retained, Polls, Documents, CheckGeneration, GenerationHeld
    <2> QED
      BY <2>1, <2>2, <2>3, <2>4, <2>5 DEF TypeOK
  <1>13. CASE Commit
    <2>1. poll' \in Polls
      BY <1>13, IdleTyped DEF Commit
    <2>2. /\ poll'.at # "idle" => poll'.sig \in Signatures /\ poll'.rt <= runtime' /\ poll'.gen <= gen'
          /\ \A d \in Devices : poll'.batch[d] # NoDocument => poll'.batch[d].live \cap poll'.batch[d].tomb = {}
      BY <1>a, <1>13 DEF TypeOK, RoomInv, Retained, Polls, Documents, Idle, Nowhere, Unknown, Commit
    <2>3. forgot' \in [Devices -> BOOLEAN] /\ staleCommit' \in BOOLEAN /\ abandoned' \in BOOLEAN
      BY <1>a, <1>13 DEF TypeOK, Polls, Commit
    <2>4. /\ link' \in BOOLEAN /\ priorLoaded' \in BOOLEAN
          /\ broker' \in Retained /\ memo' \in Retained /\ oldMemo' \in Retained
          /\ prior' \in [Devices -> SUBSET Components]
      BY <1>a, <1>13 DEF TypeOK, RoomInv, Retained, Polls, Documents, Commit
    <2>5. /\ runtime' \in 0..MaxConnects /\ gen' \in Nat
          /\ gen' = IF online' = "swapped" THEN runtime' - 1 ELSE runtime'
          /\ lastSig' \in Signatures \cup {NoSignature}
          /\ online' \in {"idle", "republish", "swapped", "bumped"}
      BY <1>a, <1>13 DEF TypeOK, RoomInv, Retained, Polls, Documents, Commit
    <2> QED
      BY <2>1, <2>2, <2>3, <2>4, <2>5 DEF TypeOK
  <1>14. CASE Disconnect
    <2>1. poll' \in Polls
      BY <1>a, <1>14 DEF TypeOK, RoomInv, Retained, Polls, Documents, Disconnect
    <2>2. /\ poll'.at # "idle" => poll'.sig \in Signatures /\ poll'.rt <= runtime' /\ poll'.gen <= gen'
          /\ \A d \in Devices : poll'.batch[d] # NoDocument => poll'.batch[d].live \cap poll'.batch[d].tomb = {}
      BY <1>a, <1>14
         DEF TypeOK, RoomInv, Retained, Polls, Documents, Idle, Nowhere, Unknown, Disconnect
    <2>3. forgot' \in [Devices -> BOOLEAN] /\ staleCommit' \in BOOLEAN /\ abandoned' \in BOOLEAN
      BY <1>a, <1>14 DEF TypeOK, Polls, Disconnect
    <2>4. /\ link' \in BOOLEAN /\ priorLoaded' \in BOOLEAN
          /\ broker' \in Retained /\ memo' \in Retained /\ oldMemo' \in Retained
          /\ prior' \in [Devices -> SUBSET Components]
      BY <1>a, <1>14 DEF TypeOK, RoomInv, Retained, Polls, Documents, Disconnect
    <2>5. /\ runtime' \in 0..MaxConnects /\ gen' \in Nat
          /\ gen' = IF online' = "swapped" THEN runtime' - 1 ELSE runtime'
          /\ lastSig' \in Signatures \cup {NoSignature}
          /\ online' \in {"idle", "republish", "swapped", "bumped"}
      BY <1>a, <1>14 DEF TypeOK, RoomInv, Retained, Polls, Documents, Disconnect
    <2> QED
      BY <2>1, <2>2, <2>3, <2>4, <2>5 DEF TypeOK
  <1>15. CASE LoseStore
    BY <1>a, <1>15 DEF LoseStore, TypeOK, RoomInv, Retained, Polls, Documents, Nowhere
  <1>16. CASE Connect
    BY <1>a, <1>16 DEF Connect, TypeOK, RoomInv, Retained, Polls, Documents
  <1>17. CASE SwapRuntime
    BY <1>a, <1>17 DEF SwapRuntime, TypeOK, RoomInv, Retained, Polls, Documents, Nowhere
  <1>18. CASE BumpGen
    <2>1. poll' \in Polls
      BY <1>a, <1>18 DEF TypeOK, RoomInv, Retained, Polls, Documents, BumpGen
    <2>2. /\ poll'.at # "idle" => poll'.sig \in Signatures /\ poll'.rt <= runtime' /\ poll'.gen <= gen'
          /\ \A d \in Devices : poll'.batch[d] # NoDocument => poll'.batch[d].live \cap poll'.batch[d].tomb = {}
      BY <1>a, <1>18
         DEF TypeOK, RoomInv, Retained, Polls, Documents, Idle, Nowhere, Unknown, BumpGen
    <2>3. forgot' \in [Devices -> BOOLEAN] /\ staleCommit' \in BOOLEAN /\ abandoned' \in BOOLEAN
      BY <1>a, <1>18 DEF TypeOK, Polls, BumpGen
    <2>4. /\ link' \in BOOLEAN /\ priorLoaded' \in BOOLEAN
          /\ broker' \in Retained /\ memo' \in Retained /\ oldMemo' \in Retained
          /\ prior' \in [Devices -> SUBSET Components]
      BY <1>a, <1>18 DEF TypeOK, RoomInv, Retained, Polls, Documents, BumpGen
    <2>5. /\ runtime' \in 0..MaxConnects /\ gen' \in Nat
          /\ gen' = IF online' = "swapped" THEN runtime' - 1 ELSE runtime'
          /\ lastSig' \in Signatures \cup {NoSignature}
          /\ online' \in {"idle", "republish", "swapped", "bumped"}
      BY <1>a, <1>18 DEF TypeOK, RoomInv, Retained, Polls, Documents, BumpGen
    <2> QED
      BY <2>1, <2>2, <2>3, <2>4, <2>5 DEF TypeOK
  <1>19. CASE ClearGate
    BY <1>a, <1>19 DEF ClearGate, TypeOK, RoomInv, Retained, Polls, Documents, Unknown
  <1>20. CASE UNCHANGED vars
    BY <1>a, <1>20 DEF vars, TypeOK, RoomInv, Retained, Polls, Documents
  <1> QED
    BY <1>1, <1>2, <1>3, <1>4, <1>5, <1>6, <1>7, <1>8, <1>9, <1>10, <1>11, <1>12, <1>13, <1>14,
           <1>15, <1>16, <1>17, <1>18, <1>19, <1>20
       DEF Next

\* Every step leaves room for the reconnect under way.
LEMMA RoomStep == IInv /\ [Next]_vars => RoomInv'
  <1> SUFFICES ASSUME IInv, [Next]_vars
               PROVE  RoomInv'
    OBVIOUS
  <1> USE GateConstants DEF At, GiveUp, Idle, Nowhere, Unknown, connection, gate, history
  <1>a. /\ TypeOK /\ RoomInv /\ MemoInv /\ BatchInv
        /\ LateInv /\ ClearedInv /\ GateInv /\ PriorInv
    BY DEF IInv
  <1>1. ASSUME NEW sig \in Signatures, LoadRuntime(sig)
        PROVE  RoomInv'
    BY <1>a, <1>1 DEF LoadRuntime, TypeOK, RoomInv
  <1>2. CASE CheckGate
    BY <1>a, <1>2 DEF CheckGate, TypeOK, RoomInv
  <1>3. CASE LoadGen
    BY <1>a, <1>3 DEF LoadGen, TypeOK, RoomInv
  <1>4. CASE ReadPrior
    BY <1>a, <1>4 DEF ReadPrior, Live, TypeOK, RoomInv
  <1>5. CASE PriorIsLoaded
    BY <1>a, <1>5 DEF PriorIsLoaded, TypeOK, RoomInv
  <1>6. CASE StorePrior
    BY <1>a, <1>6 DEF StorePrior, TypeOK, RoomInv
  <1>7. CASE Tombstone
    BY <1>a, <1>7 DEF Tombstone, Gone, TypeOK, RoomInv
  <1>8. CASE Withhold
    BY <1>a, <1>8 DEF Withhold, TypeOK, RoomInv
  <1>9. ASSUME NEW d \in Devices, SendDocument(d)
        PROVE  RoomInv'
    BY <1>a, <1>9 DEF SendDocument, Suppressed, Recorded, TypeOK, RoomInv
  <1>10. ASSUME NEW d \in Devices, FailDocument(d)
        PROVE  RoomInv'
    BY <1>a, <1>10 DEF FailDocument, Recorded, TypeOK, RoomInv
  <1>11. CASE FinishBatch
    BY <1>a, <1>11 DEF FinishBatch, BatchSent, TypeOK, RoomInv
  <1>12. CASE CheckGeneration
    BY <1>a, <1>12 DEF CheckGeneration, GenerationHeld, TypeOK, RoomInv
  <1>13. CASE Commit
    BY <1>a, <1>13 DEF Commit, TypeOK, RoomInv
  <1>14. CASE Disconnect
    BY <1>a, <1>14 DEF Disconnect, TypeOK, RoomInv
  <1>15. CASE LoseStore
    BY <1>a, <1>15 DEF LoseStore, TypeOK, RoomInv
  <1>16. CASE Connect
    BY <1>a, <1>16 DEF Connect, TypeOK, RoomInv
  <1>17. CASE SwapRuntime
    BY <1>a, <1>17 DEF SwapRuntime, TypeOK, RoomInv
  <1>18. CASE BumpGen
    BY <1>a, <1>18 DEF BumpGen, TypeOK, RoomInv
  <1>19. CASE ClearGate
    BY <1>a, <1>19 DEF ClearGate, TypeOK, RoomInv
  <1>20. CASE UNCHANGED vars
    BY <1>a, <1>20 DEF vars, TypeOK, RoomInv
  <1> QED
    BY <1>1, <1>2, <1>3, <1>4, <1>5, <1>6, <1>7, <1>8, <1>9, <1>10, <1>11, <1>12, <1>13, <1>14,
           <1>15, <1>16, <1>17, <1>18, <1>19, <1>20
       DEF Next

\* Every step keeps what the runtime wrote the retained documents.
LEMMA MemoStep == IInv /\ [Next]_vars => MemoInv'
  <1> SUFFICES ASSUME IInv, [Next]_vars
               PROVE  MemoInv'
    OBVIOUS
  <1> USE GateConstants DEF At, GiveUp, Idle, Nowhere, Unknown, connection, gate, history
  <1>a. /\ TypeOK /\ RoomInv /\ MemoInv /\ BatchInv
        /\ LateInv /\ ClearedInv /\ GateInv /\ PriorInv
    BY DEF IInv
  <1>1. ASSUME NEW sig \in Signatures, LoadRuntime(sig)
        PROVE  MemoInv'
    BY <1>a, <1>1 DEF LoadRuntime, TypeOK, Retained, Polls, MemoInv
  <1>2. CASE CheckGate
    BY <1>a, <1>2 DEF CheckGate, TypeOK, Retained, Polls, MemoInv
  <1>3. CASE LoadGen
    BY <1>a, <1>3 DEF LoadGen, TypeOK, Retained, Polls, MemoInv
  <1>4. CASE ReadPrior
    BY <1>a, <1>4 DEF ReadPrior, Live, TypeOK, Retained, Polls, MemoInv
  <1>5. CASE PriorIsLoaded
    BY <1>a, <1>5 DEF PriorIsLoaded, TypeOK, Retained, Polls, MemoInv
  <1>6. CASE StorePrior
    BY <1>a, <1>6 DEF StorePrior, TypeOK, Retained, Polls, MemoInv
  <1>7. CASE Tombstone
    BY <1>a, <1>7 DEF Tombstone, Gone, TypeOK, Retained, Polls, MemoInv
  <1>8. CASE Withhold
    BY <1>a, <1>8 DEF Withhold, TypeOK, Retained, Polls, MemoInv
  <1>9. ASSUME NEW d \in Devices, SendDocument(d)
        PROVE  MemoInv'
    BY <1>a, <1>9 DEF SendDocument, Suppressed, Recorded, TypeOK, Retained, Polls, MemoInv
  <1>10. ASSUME NEW d \in Devices, FailDocument(d)
        PROVE  MemoInv'
    BY <1>a, <1>10 DEF FailDocument, Recorded, TypeOK, Retained, Polls, MemoInv
  <1>11. CASE FinishBatch
    BY <1>a, <1>11 DEF FinishBatch, BatchSent, TypeOK, Retained, Polls, MemoInv
  <1>12. CASE CheckGeneration
    BY <1>a, <1>12 DEF CheckGeneration, GenerationHeld, TypeOK, Retained, Polls, MemoInv
  <1>13. CASE Commit
    BY <1>a, <1>13 DEF Commit, TypeOK, Retained, Polls, MemoInv
  <1>14. CASE Disconnect
    BY <1>a, <1>14 DEF Disconnect, TypeOK, Retained, Polls, MemoInv
  <1>15. CASE LoseStore
    BY <1>a, <1>15 DEF LoseStore, TypeOK, Retained, Polls, MemoInv
  <1>16. CASE Connect
    BY <1>a, <1>16 DEF Connect, TypeOK, Retained, Polls, MemoInv
  <1>17. CASE SwapRuntime
    BY <1>a, <1>17 DEF SwapRuntime, TypeOK, Retained, Polls, MemoInv
  <1>18. CASE BumpGen
    BY <1>a, <1>18 DEF BumpGen, TypeOK, Retained, Polls, MemoInv
  <1>19. CASE ClearGate
    BY <1>a, <1>19 DEF ClearGate, TypeOK, Retained, Polls, MemoInv
  <1>20. CASE UNCHANGED vars
    BY <1>a, <1>20 DEF vars, TypeOK, Retained, Polls, MemoInv
  <1> QED
    BY <1>1, <1>2, <1>3, <1>4, <1>5, <1>6, <1>7, <1>8, <1>9, <1>10, <1>11, <1>12, <1>13, <1>14,
           <1>15, <1>16, <1>17, <1>18, <1>19, <1>20
       DEF Next

\* Every step keeps a batch the documents of its signature.
LEMMA BatchStep == IInv /\ [Next]_vars => BatchInv'
  <1> SUFFICES ASSUME IInv, [Next]_vars
               PROVE  BatchInv'
    OBVIOUS
  <1> USE GateConstants DEF At, GiveUp, Idle, Nowhere, Unknown, connection, gate, history
  <1>a. /\ TypeOK /\ RoomInv /\ MemoInv /\ BatchInv
        /\ LateInv /\ ClearedInv /\ GateInv /\ PriorInv
    BY DEF IInv
  <1>1. ASSUME NEW sig \in Signatures, LoadRuntime(sig)
        PROVE  BatchInv'
    BY <1>a, <1>1 DEF LoadRuntime, TypeOK, Retained, Polls, MemoInv, BatchInv, Sending
  <1>2. CASE CheckGate
    BY <1>a, <1>2 DEF CheckGate, TypeOK, Retained, Polls, MemoInv, BatchInv, Sending
  <1>3. CASE LoadGen
    BY <1>a, <1>3 DEF LoadGen, TypeOK, Retained, Polls, MemoInv, BatchInv, Sending
  <1>4. CASE ReadPrior
    BY <1>a, <1>4 DEF ReadPrior, Live, TypeOK, Retained, Polls, MemoInv, BatchInv, Sending
  <1>5. CASE PriorIsLoaded
    BY <1>a, <1>5 DEF PriorIsLoaded, TypeOK, Retained, Polls, MemoInv, BatchInv, Sending
  <1>6. CASE StorePrior
    BY <1>a, <1>6 DEF StorePrior, TypeOK, Retained, Polls, MemoInv, BatchInv, Sending
  <1>7. CASE Tombstone
    <2> DEFINE document(d) == [live |-> Comps[poll.sig][d], tomb |-> Gone(d, poll.sig)]
    <2>1. /\ poll'.at = "sending" /\ poll'.todo = Rendered(poll.sig)
          /\ poll'.sig = poll.sig /\ poll.sig \in Signatures
      BY <1>a, <1>7 DEF Tombstone, TypeOK, Polls
    <2>2. ASSUME NEW d \in Rendered(poll.sig)
          PROVE  poll'.batch[d] # NoDocument /\ poll'.batch[d].live = Comps[poll.sig][d]
      <3>1. d \in Devices
        BY DEF Rendered
      <3>2. poll'.batch[d] = document(d)
        BY <1>a, <1>7, <3>1 DEF Tombstone, TypeOK, Polls
      <3>3. document(d) # NoDocument
        BY <1>a, <2>1, <3>1, DocumentTyped
      <3>4. document(d).live = Comps[poll.sig][d]
        OBVIOUS
      <3> HIDE DEF document
      <3> QED
        BY <3>2, <3>3, <3>4
    <2> QED
      BY <2>1, <2>2 DEF BatchInv, Sending
  <1>8. CASE Withhold
    BY <1>a, <1>8 DEF Withhold, TypeOK, Retained, Polls, MemoInv, BatchInv, Sending
  <1>9. ASSUME NEW d \in Devices, SendDocument(d)
        PROVE  BatchInv'
    <2>1. /\ poll'.at = "sending" /\ poll.at = "sending" /\ poll'.todo = poll.todo \ {d}
          /\ poll'.sig = poll.sig /\ poll'.batch = poll.batch /\ poll'.rt = poll.rt /\ poll'.allSent = poll.allSent
          /\ runtime' = runtime
      BY <1>a, <1>9 DEF SendDocument, TypeOK, Polls
    <2>2. poll.rt = runtime => memo' = [memo EXCEPT ![d] = poll.batch[d]]
      BY <1>9 DEF SendDocument
    <2>3. \A c \in Rendered(poll.sig) : poll.rt = runtime /\ memo[c] = poll.batch[c] => memo'[c] = poll.batch[c]
      BY <1>a, <2>2 DEF TypeOK, Retained, Rendered
    <2>4. poll.rt = runtime => memo'[d] = poll.batch[d]
      BY <1>a, <2>2 DEF TypeOK, Retained
    <2> QED
      BY <1>a, <2>1, <2>3, <2>4 DEF BatchInv, Sending
  <1>10. ASSUME NEW d \in Devices, FailDocument(d)
        PROVE  BatchInv'
    BY <1>a, <1>10 DEF FailDocument, Recorded, TypeOK, Retained, Polls, MemoInv, BatchInv, Sending
  <1>11. CASE FinishBatch
    <2>1. CASE poll' = Idle
      BY <2>1 DEF BatchInv, Sending
    <2>2. CASE poll.allSent /\ poll' = [poll EXCEPT !.at = "sent"]
      <3>1. /\ poll'.at = "sent" /\ poll.at = "sending" /\ poll'.todo = {} /\ poll.todo = {}
            /\ poll'.sig = poll.sig /\ poll'.batch = poll.batch /\ poll'.rt = poll.rt
            /\ poll'.allSent = poll.allSent /\ runtime' = runtime /\ memo' = memo
        BY <1>a, <1>11, <2>2 DEF FinishBatch, TypeOK, Polls
      <3> QED
        BY <1>a, <2>2, <3>1 DEF BatchInv, Sending
    <2> QED
      BY <1>11, <2>1, <2>2 DEF FinishBatch, BatchSent
  <1>12. CASE CheckGeneration
    <2>1. \/ poll' = [poll EXCEPT !.at = "checked"] /\ poll.at = "sent"
          \/ poll' = Idle
      BY <1>12 DEF CheckGeneration
    <2>2. UNCHANGED <<memo, runtime>>
      BY <1>12 DEF CheckGeneration
    <2> QED
      BY <1>a, <2>1, <2>2 DEF TypeOK, Retained, Polls, MemoInv, BatchInv, Sending
  <1>13. CASE Commit
    BY <1>a, <1>13 DEF Commit, TypeOK, Retained, Polls, MemoInv, BatchInv, Sending
  <1>14. CASE Disconnect
    BY <1>a, <1>14 DEF Disconnect, TypeOK, Retained, Polls, MemoInv, BatchInv, Sending
  <1>15. CASE LoseStore
    BY <1>a, <1>15 DEF LoseStore, TypeOK, Retained, Polls, MemoInv, BatchInv, Sending
  <1>16. CASE Connect
    BY <1>a, <1>16 DEF Connect, TypeOK, Retained, Polls, MemoInv, BatchInv, Sending
  <1>17. CASE SwapRuntime
    BY <1>a, <1>17 DEF SwapRuntime, TypeOK, Retained, Polls, MemoInv, BatchInv, Sending
  <1>18. CASE BumpGen
    BY <1>a, <1>18 DEF BumpGen, TypeOK, Retained, Polls, MemoInv, BatchInv, Sending
  <1>19. CASE ClearGate
    BY <1>a, <1>19 DEF ClearGate, TypeOK, Retained, Polls, MemoInv, BatchInv, Sending
  <1>20. CASE UNCHANGED vars
    BY <1>a, <1>20 DEF vars, TypeOK, Retained, Polls, MemoInv, BatchInv, Sending
  <1> QED
    BY <1>1, <1>2, <1>3, <1>4, <1>5, <1>6, <1>7, <1>8, <1>9, <1>10, <1>11, <1>12, <1>13, <1>14,
           <1>15, <1>16, <1>17, <1>18, <1>19, <1>20
       DEF Next

\* Every step keeps the generation check able to see a reconnect.
LEMMA LateStep == IInv /\ [Next]_vars => LateInv'
  <1> SUFFICES ASSUME IInv, [Next]_vars
               PROVE  LateInv'
    OBVIOUS
  <1> USE GateConstants DEF At, GiveUp, Idle, Nowhere, Unknown, connection, gate, history
  <1>a. /\ TypeOK /\ RoomInv /\ MemoInv /\ BatchInv
        /\ LateInv /\ ClearedInv /\ GateInv /\ PriorInv
    BY DEF IInv
  <1>1. ASSUME NEW sig \in Signatures, LoadRuntime(sig)
        PROVE  LateInv'
    BY <1>a, <1>1 DEF LoadRuntime, TypeOK, Retained, Polls, LateInv, Sending, Counted
  <1>2. CASE CheckGate
    BY <1>a, <1>2 DEF CheckGate, TypeOK, Retained, Polls, LateInv, Sending, Counted
  <1>3. CASE LoadGen
    BY <1>a, <1>3 DEF LoadGen, TypeOK, Retained, Polls, LateInv, Sending, Counted
  <1>4. CASE ReadPrior
    BY <1>a, <1>4 DEF ReadPrior, Live, TypeOK, Retained, Polls, LateInv, Sending, Counted
  <1>5. CASE PriorIsLoaded
    BY <1>a, <1>5 DEF PriorIsLoaded, TypeOK, Retained, Polls, LateInv, Sending, Counted
  <1>6. CASE StorePrior
    BY <1>a, <1>6 DEF StorePrior, TypeOK, Retained, Polls, LateInv, Sending, Counted
  <1>7. CASE Tombstone
    BY <1>a, <1>7 DEF Tombstone, Gone, TypeOK, Retained, Polls, LateInv, Sending, Counted
  <1>8. CASE Withhold
    BY <1>a, <1>8 DEF Withhold, TypeOK, Retained, Polls, LateInv, Sending, Counted
  <1>9. ASSUME NEW d \in Devices, SendDocument(d)
        PROVE  LateInv'
    BY <1>a, <1>9
       DEF SendDocument, Suppressed, Recorded, TypeOK, Retained, Polls, LateInv, Sending, Counted
  <1>10. ASSUME NEW d \in Devices, FailDocument(d)
        PROVE  LateInv'
    BY <1>a, <1>10 DEF FailDocument, Recorded, TypeOK, Retained, Polls, LateInv, Sending, Counted
  <1>11. CASE FinishBatch
    BY <1>a, <1>11 DEF FinishBatch, BatchSent, TypeOK, Retained, Polls, LateInv, Sending, Counted
  <1>12. CASE CheckGeneration
    <2>1. /\ gen = poll.gen /\ poll' = [poll EXCEPT !.at = "checked"] /\ poll.at = "sent"
          \/ poll' = Idle
      BY <1>12 DEF CheckGeneration, GenerationHeld
    <2>2. UNCHANGED <<gen, online, runtime>>
      BY <1>12 DEF CheckGeneration
    <2> QED
      BY <1>a, <2>1, <2>2 DEF TypeOK, Retained, Polls, LateInv, Sending, Counted
  <1>13. CASE Commit
    BY <1>a, <1>13 DEF Commit, TypeOK, Retained, Polls, LateInv, Sending, Counted
  <1>14. CASE Disconnect
    BY <1>a, <1>14 DEF Disconnect, TypeOK, Retained, Polls, LateInv, Sending, Counted
  <1>15. CASE LoseStore
    BY <1>a, <1>15 DEF LoseStore, TypeOK, Retained, Polls, LateInv, Sending, Counted
  <1>16. CASE Connect
    BY <1>a, <1>16 DEF Connect, TypeOK, Retained, Polls, LateInv, Sending, Counted
  <1>17. CASE SwapRuntime
    BY <1>a, <1>17 DEF SwapRuntime, TypeOK, Retained, Polls, LateInv, Sending, Counted
  <1>18. CASE BumpGen
    <2>1. /\ gen' = gen + 1 /\ online' = "bumped" /\ runtime' = runtime
          /\ poll' = [poll EXCEPT !.late = poll.late \/ poll.at = "checked"]
      BY <1>18 DEF BumpGen
    <2>2. poll \in Polls /\ gen \in Nat /\ (poll.at # "idle" => poll.gen <= gen)
      BY <1>a DEF TypeOK
    <2>3. poll'.at = poll.at /\ poll'.gen = poll.gen /\ poll'.late = (poll.late \/ poll.at = "checked")
      BY <2>1, <2>2 DEF Polls
    <2>4. poll.at \in Counted => poll'.gen # gen'
      BY <2>1, <2>2, <2>3 DEF Counted, Sending, Polls
    <2>5. ~poll'.late => poll.at # "checked"
      BY <2>3
    <2> QED
      BY <2>3, <2>4, <2>5 DEF LateInv
  <1>19. CASE ClearGate
    BY <1>a, <1>19 DEF ClearGate, TypeOK, Retained, Polls, LateInv, Sending, Counted
  <1>20. CASE UNCHANGED vars
    BY <1>a, <1>20 DEF vars, TypeOK, Retained, Polls, LateInv, Sending, Counted
  <1> QED
    BY <1>1, <1>2, <1>3, <1>4, <1>5, <1>6, <1>7, <1>8, <1>9, <1>10, <1>11, <1>12, <1>13, <1>14,
           <1>15, <1>16, <1>17, <1>18, <1>19, <1>20
       DEF Next

\* Every step keeps the gate cleared behind a batch older than the runtime.
LEMMA ClearedStep == IInv /\ [Next]_vars => ClearedInv'
  <1> SUFFICES ASSUME IInv, [Next]_vars
               PROVE  ClearedInv'
    OBVIOUS
  <1> USE GateConstants DEF At, GiveUp, Idle, Nowhere, Unknown, connection, gate, history
  <1>a. /\ TypeOK /\ RoomInv /\ MemoInv /\ BatchInv
        /\ LateInv /\ ClearedInv /\ GateInv /\ PriorInv
    BY DEF IInv
  <1>1. ASSUME NEW sig \in Signatures, LoadRuntime(sig)
        PROVE  ClearedInv'
    BY <1>a, <1>1 DEF LoadRuntime, TypeOK, Retained, Polls, ClearedInv, LateInv, Sending, Counted
  <1>2. CASE CheckGate
    BY <1>a, <1>2 DEF CheckGate, TypeOK, Retained, Polls, ClearedInv, LateInv, Sending, Counted
  <1>3. CASE LoadGen
    BY <1>a, <1>3 DEF LoadGen, TypeOK, Retained, Polls, ClearedInv, LateInv, Sending, Counted
  <1>4. CASE ReadPrior
    BY <1>a, <1>4
       DEF ReadPrior, Live, TypeOK, Retained, Polls, ClearedInv, LateInv, Sending, Counted
  <1>5. CASE PriorIsLoaded
    BY <1>a, <1>5 DEF PriorIsLoaded, TypeOK, Retained, Polls, ClearedInv, LateInv, Sending, Counted
  <1>6. CASE StorePrior
    BY <1>a, <1>6 DEF StorePrior, TypeOK, Retained, Polls, ClearedInv, LateInv, Sending, Counted
  <1>7. CASE Tombstone
    BY <1>a, <1>7
       DEF Tombstone, Gone, TypeOK, Retained, Polls, ClearedInv, LateInv, Sending, Counted
  <1>8. CASE Withhold
    BY <1>a, <1>8 DEF Withhold, TypeOK, Retained, Polls, ClearedInv, LateInv, Sending, Counted
  <1>9. ASSUME NEW d \in Devices, SendDocument(d)
        PROVE  ClearedInv'
    BY <1>a, <1>9
       DEF SendDocument, Suppressed, Recorded, TypeOK, Retained, Polls, ClearedInv, LateInv,
           Sending, Counted
  <1>10. ASSUME NEW d \in Devices, FailDocument(d)
        PROVE  ClearedInv'
    BY <1>a, <1>10
       DEF FailDocument, Recorded, TypeOK, Retained, Polls, ClearedInv, LateInv, Sending, Counted
  <1>11. CASE FinishBatch
    BY <1>a, <1>11
       DEF FinishBatch, BatchSent, TypeOK, Retained, Polls, ClearedInv, LateInv, Sending, Counted
  <1>12. CASE CheckGeneration
    BY <1>a, <1>12
       DEF CheckGeneration, GenerationHeld, TypeOK, Retained, Polls, ClearedInv, LateInv, Sending,
           Counted
  <1>13. CASE Commit
    BY <1>a, <1>13 DEF Commit, TypeOK, Retained, Polls, ClearedInv, LateInv, Sending, Counted
  <1>14. CASE Disconnect
    BY <1>a, <1>14 DEF Disconnect, TypeOK, Retained, Polls, ClearedInv, LateInv, Sending, Counted
  <1>15. CASE LoseStore
    BY <1>a, <1>15 DEF LoseStore, TypeOK, Retained, Polls, ClearedInv, LateInv, Sending, Counted
  <1>16. CASE Connect
    BY <1>a, <1>16 DEF Connect, TypeOK, Retained, Polls, ClearedInv, LateInv, Sending, Counted
  <1>17. CASE SwapRuntime
    BY <1>a, <1>17 DEF SwapRuntime, TypeOK, Retained, Polls, ClearedInv, LateInv, Sending, Counted
  <1>18. CASE BumpGen
    BY <1>a, <1>18 DEF BumpGen, TypeOK, Retained, Polls, ClearedInv, LateInv, Sending, Counted
  <1>19. CASE ClearGate
    BY <1>a, <1>19 DEF ClearGate, TypeOK, Retained, Polls, ClearedInv, LateInv, Sending, Counted
  <1>20. CASE UNCHANGED vars
    BY <1>a, <1>20 DEF vars, TypeOK, Retained, Polls, ClearedInv, LateInv, Sending, Counted
  <1> QED
    BY <1>1, <1>2, <1>3, <1>4, <1>5, <1>6, <1>7, <1>8, <1>9, <1>10, <1>11, <1>12, <1>13, <1>14,
           <1>15, <1>16, <1>17, <1>18, <1>19, <1>20
       DEF Next

\* Every step keeps a closed gate true of what the runtime wrote.
LEMMA GateStep == IInv /\ [Next]_vars => GateInv'
  <1> SUFFICES ASSUME IInv, [Next]_vars
               PROVE  GateInv'
    OBVIOUS
  <1> USE GateConstants DEF At, GiveUp, Idle, Nowhere, Unknown, connection, gate, history
  <1>a. /\ TypeOK /\ RoomInv /\ MemoInv /\ BatchInv
        /\ LateInv /\ ClearedInv /\ GateInv /\ PriorInv
    BY DEF IInv
  <1>1. ASSUME NEW sig \in Signatures, LoadRuntime(sig)
        PROVE  GateInv'
    BY <1>a, <1>1
       DEF LoadRuntime, TypeOK, Retained, Polls, BatchInv, LateInv, ClearedInv, GateInv, Sending,
           Counted
  <1>2. CASE CheckGate
    BY <1>a, <1>2
       DEF CheckGate, TypeOK, Retained, Polls, BatchInv, LateInv, ClearedInv, GateInv, Sending,
           Counted
  <1>3. CASE LoadGen
    BY <1>a, <1>3
       DEF LoadGen, TypeOK, Retained, Polls, BatchInv, LateInv, ClearedInv, GateInv, Sending,
           Counted
  <1>4. CASE ReadPrior
    BY <1>a, <1>4
       DEF ReadPrior, Live, TypeOK, Retained, Polls, BatchInv, LateInv, ClearedInv, GateInv,
           Sending, Counted
  <1>5. CASE PriorIsLoaded
    BY <1>a, <1>5
       DEF PriorIsLoaded, TypeOK, Retained, Polls, BatchInv, LateInv, ClearedInv, GateInv, Sending,
           Counted
  <1>6. CASE StorePrior
    BY <1>a, <1>6
       DEF StorePrior, TypeOK, Retained, Polls, BatchInv, LateInv, ClearedInv, GateInv, Sending,
           Counted
  <1>7. CASE Tombstone
    BY <1>a, <1>7
       DEF Tombstone, Gone, TypeOK, Retained, Polls, BatchInv, LateInv, ClearedInv, GateInv,
           Sending, Counted
  <1>8. CASE Withhold
    BY <1>a, <1>8
       DEF Withhold, TypeOK, Retained, Polls, BatchInv, LateInv, ClearedInv, GateInv, Sending,
           Counted
  <1>9. ASSUME NEW d \in Devices, SendDocument(d)
        PROVE  GateInv'
    <2>1. /\ poll'.at = "sending" /\ poll.at = "sending" /\ poll'.todo = poll.todo \ {d} /\ d \in poll.todo
          /\ poll'.sig = poll.sig /\ UNCHANGED <<lastSig, staleCommit, abandoned, link, online>>
      BY <1>a, <1>9 DEF SendDocument, TypeOK, Polls
    <2>2. \A c \in Devices \ {d} : memo'[c] = memo[c]
      BY <1>a, <1>9 DEF SendDocument, TypeOK, Retained
    <2>3. d \in Rendered(poll.sig)
      BY <1>a, <2>1 DEF BatchInv, Sending
    <2> QED
      BY <1>a, <2>1, <2>2, <2>3 DEF GateInv, Sending, Rendered
  <1>10. ASSUME NEW d \in Devices, FailDocument(d)
        PROVE  GateInv'
    BY <1>a, <1>10
       DEF FailDocument, Recorded, TypeOK, Retained, Polls, BatchInv, LateInv, ClearedInv, GateInv,
           Sending, Counted
  <1>11. CASE FinishBatch
    BY <1>a, <1>11
       DEF FinishBatch, BatchSent, TypeOK, Retained, Polls, BatchInv, LateInv, ClearedInv, GateInv,
           Sending, Counted
  <1>12. CASE CheckGeneration
    BY <1>a, <1>12
       DEF CheckGeneration, GenerationHeld, TypeOK, Retained, Polls, BatchInv, LateInv, ClearedInv,
           GateInv, Sending, Counted
  <1>13. CASE Commit
    BY <1>a, <1>13
       DEF Commit, TypeOK, Retained, Polls, BatchInv, LateInv, ClearedInv, GateInv, Sending, Counted
  <1>14. CASE Disconnect
    BY <1>a, <1>14
       DEF Disconnect, TypeOK, Retained, Polls, BatchInv, LateInv, ClearedInv, GateInv, Sending,
           Counted
  <1>15. CASE LoseStore
    BY <1>a, <1>15
       DEF LoseStore, TypeOK, Retained, Polls, BatchInv, LateInv, ClearedInv, GateInv, Sending,
           Counted
  <1>16. CASE Connect
    BY <1>a, <1>16
       DEF Connect, TypeOK, Retained, Polls, BatchInv, LateInv, ClearedInv, GateInv, Sending,
           Counted
  <1>17. CASE SwapRuntime
    BY <1>a, <1>17
       DEF SwapRuntime, TypeOK, Retained, Polls, BatchInv, LateInv, ClearedInv, GateInv, Sending,
           Counted
  <1>18. CASE BumpGen
    BY <1>a, <1>18
       DEF BumpGen, TypeOK, Retained, Polls, BatchInv, LateInv, ClearedInv, GateInv, Sending,
           Counted
  <1>19. CASE ClearGate
    BY <1>a, <1>19
       DEF ClearGate, TypeOK, Retained, Polls, BatchInv, LateInv, ClearedInv, GateInv, Sending,
           Counted
  <1>20. CASE UNCHANGED vars
    BY <1>a, <1>20
       DEF vars, TypeOK, Retained, Polls, BatchInv, LateInv, ClearedInv, GateInv, Sending, Counted
  <1> QED
    BY <1>1, <1>2, <1>3, <1>4, <1>5, <1>6, <1>7, <1>8, <1>9, <1>10, <1>11, <1>12, <1>13, <1>14,
           <1>15, <1>16, <1>17, <1>18, <1>19, <1>20
       DEF Next

\* Every step keeps the retained components known.
LEMMA PriorStep == IInv /\ [Next]_vars => PriorInv'
  <1> SUFFICES ASSUME IInv, [Next]_vars
               PROVE  PriorInv'
    OBVIOUS
  <1> USE GateConstants DEF At, GiveUp, Idle, Nowhere, Unknown, connection, gate, history, Live
  <1>a. /\ TypeOK /\ RoomInv /\ MemoInv /\ BatchInv
        /\ LateInv /\ ClearedInv /\ GateInv /\ PriorInv
    BY DEF IInv
  <1>1. ASSUME NEW sig \in Signatures, LoadRuntime(sig)
        PROVE  PriorInv'
    BY <1>a, <1>1 DEF LoadRuntime, TypeOK, Retained, Polls, PriorInv, BatchInv, Sending
  <1>2. CASE CheckGate
    BY <1>a, <1>2 DEF CheckGate, TypeOK, Retained, Polls, PriorInv, BatchInv, Sending
  <1>3. CASE LoadGen
    BY <1>a, <1>3 DEF LoadGen, TypeOK, Retained, Polls, PriorInv, BatchInv, Sending
  <1>4. CASE ReadPrior
    <2>1. PICK seen \in SUBSET Owned(poll.sig) :
            /\ poll' = [poll EXCEPT !.at = "read",
                   !.read = [d \in Devices |-> IF d \in seen THEN Live(broker[d]) ELSE {}]]
            /\ forgot' = [d \in Devices |-> d \notin seen /\ Live(broker[d]) # {}]
      BY <1>4 DEF ReadPrior
    <2>2. /\ priorLoaded' = FALSE /\ broker' = broker /\ poll'.at = "read"
          /\ \A d \in Devices : ~forgot'[d] => Live(broker[d]) \subseteq poll'.read[d]
      BY <1>a, <1>4, <2>1 DEF ReadPrior, TypeOK, Polls
    <2> QED
      BY <2>2 DEF PriorInv
  <1>5. CASE PriorIsLoaded
    BY <1>a, <1>5 DEF PriorIsLoaded, TypeOK, Retained, Polls, PriorInv, BatchInv, Sending
  <1>6. CASE StorePrior
    BY <1>a, <1>6 DEF StorePrior, TypeOK, Retained, Polls, PriorInv, BatchInv, Sending
  <1>7. CASE Tombstone
    BY <1>a, <1>7 DEF Tombstone, Gone, TypeOK, Retained, Polls, PriorInv, BatchInv, Sending
  <1>8. CASE Withhold
    BY <1>a, <1>8 DEF Withhold, TypeOK, Retained, Polls, PriorInv, BatchInv, Sending
  <1>9. ASSUME NEW d \in Devices, SendDocument(d)
        PROVE  PriorInv'
    BY <1>a, <1>9
       DEF SendDocument, Suppressed, Recorded, TypeOK, Retained, Polls, PriorInv, BatchInv, Sending
  <1>10. ASSUME NEW d \in Devices, FailDocument(d)
        PROVE  PriorInv'
    BY <1>a, <1>10 DEF FailDocument, Recorded, TypeOK, Retained, Polls, PriorInv, BatchInv, Sending
  <1>11. CASE FinishBatch
    BY <1>a, <1>11 DEF FinishBatch, BatchSent, TypeOK, Retained, Polls, PriorInv, BatchInv, Sending
  <1>12. CASE CheckGeneration
    BY <1>a, <1>12
       DEF CheckGeneration, GenerationHeld, TypeOK, Retained, Polls, PriorInv, BatchInv, Sending
  <1>13. CASE Commit
    BY <1>a, <1>13 DEF Commit, TypeOK, Retained, Polls, PriorInv, BatchInv, Sending
  <1>14. CASE Disconnect
    BY <1>a, <1>14 DEF Disconnect, TypeOK, Retained, Polls, PriorInv, BatchInv, Sending
  <1>15. CASE LoseStore
    BY <1>a, <1>15 DEF LoseStore, TypeOK, Retained, Polls, PriorInv, BatchInv, Sending
  <1>16. CASE Connect
    BY <1>a, <1>16 DEF Connect, TypeOK, Retained, Polls, PriorInv, BatchInv, Sending
  <1>17. CASE SwapRuntime
    BY <1>a, <1>17 DEF SwapRuntime, TypeOK, Retained, Polls, PriorInv, BatchInv, Sending
  <1>18. CASE BumpGen
    BY <1>a, <1>18 DEF BumpGen, TypeOK, Retained, Polls, PriorInv, BatchInv, Sending
  <1>19. CASE ClearGate
    BY <1>a, <1>19 DEF ClearGate, TypeOK, Retained, Polls, PriorInv, BatchInv, Sending
  <1>20. CASE UNCHANGED vars
    BY <1>a, <1>20 DEF vars, TypeOK, Retained, Polls, PriorInv, BatchInv, Sending
  <1> QED
    BY <1>1, <1>2, <1>3, <1>4, <1>5, <1>6, <1>7, <1>8, <1>9, <1>10, <1>11, <1>12, <1>13, <1>14,
           <1>15, <1>16, <1>17, <1>18, <1>19, <1>20
       DEF Next

\* A broker with documents of earlier runs, or none, satisfies the invariant.
LEMMA InitIInv == Init => IInv
  <1> SUFFICES ASSUME Init
               PROVE  IInv
    OBVIOUS
  <1> USE GateConstants DEF Init
  <1>1. TypeOK
    <2>1. broker \in Retained
      <3>1. PICK earlier \in [Devices -> Signatures \cup {NoSignature}] :
              broker = [d \in Devices |->
                  IF earlier[d] = NoSignature \/ d \notin Rendered(earlier[d]) THEN NoDocument
                  ELSE [live |-> Comps[earlier[d]][d], tomb |-> {}]]
        OBVIOUS
      <3>2. ASSUME NEW d \in Devices, earlier[d] # NoSignature
            PROVE  [live |-> Comps[earlier[d]][d], tomb |-> {}] \in Documents
        BY <3>2 DEF Documents
      <3> HIDE DEF Init
      <3> QED
        BY <3>1, <3>2 DEF Retained
    <2>2. /\ memo \in Retained /\ oldMemo \in Retained
          /\ prior \in [Devices -> SUBSET Components]
      BY DEF Nowhere, Retained, Unknown
    <2>3. poll \in Polls /\ poll.at = "idle" /\ \A d \in Devices : poll.batch[d] = NoDocument
      BY IdleTyped DEF Idle, Nowhere
    <2>4. /\ link \in BOOLEAN /\ priorLoaded \in BOOLEAN
          /\ forgot \in [Devices -> BOOLEAN] /\ staleCommit \in BOOLEAN /\ abandoned \in BOOLEAN
      OBVIOUS
    <2>5. runtime = 0 /\ gen = 0 /\ online = "idle" /\ lastSig = NoSignature
      OBVIOUS
    <2> HIDE DEF Init
    <2> QED
      BY <2>1, <2>2, <2>3, <2>4, <2>5 DEF TypeOK
  <1>2. RoomInv /\ LateInv /\ ClearedInv /\ GateInv
    BY DEF RoomInv, LateInv, ClearedInv, GateInv, Counted, Sending, Idle
  <1>3. MemoInv
    BY DEF MemoInv, Nowhere, Idle
  <1>4. BatchInv /\ PriorInv
    BY DEF BatchInv, PriorInv, Sending, Idle
  <1> QED
    BY <1>1, <1>2, <1>3, <1>4 DEF IInv

\* The inductive invariant holds in every reachable state.
LEMMA GateInvariant == Spec => []IInv
  <1>1. IInv /\ [Next]_vars => IInv'
    <2> SUFFICES ASSUME IInv, [Next]_vars
                 PROVE  IInv'
      OBVIOUS
    <2> QED
      BY TypeStep, RoomStep, MemoStep, BatchStep, LateStep, ClearedStep, GateStep, PriorStep
         DEF IInv
  <1> QED
    BY InitIInv, <1>1, PTL DEF Spec

----------------------------------------------------------------------------
(* The results. *)

\* The generation counts the reconnects that have replaced the runtime, and a document
\* never carries a component that it also marks removed.
THEOREM GateTypeCorrect == Spec => []TypeOK
  <1>1. IInv => TypeOK
    BY DEF IInv
  <1> QED
    BY <1>1, GateInvariant, PTL

\* A closed gate is true of the broker, for any entity sets and any number of
\* reconnects, lost stores and failed publishes.
THEOREM ClosedGateIsTrue == Spec => []ClosedGateMeansDocuments
  <1>1. IInv => ClosedGateMeansDocuments
    <2> SUFFICES ASSUME IInv, Settled, lastSig # NoSignature, ~staleCommit, ~abandoned,
                        NEW d \in Rendered(lastSig)
                 PROVE  Live(broker[d]) = Comps[lastSig][d]
      BY DEF ClosedGateMeansDocuments, DocumentsPresent
    <2>1. memo[d] # NoDocument /\ memo[d].live = Comps[lastSig][d]
      BY DEF IInv, GateInv, Settled, Sending
    <2>2. broker[d] = memo[d]
      BY <2>1 DEF IInv, MemoInv, Settled, Rendered
    <2> QED
      BY <2>1, <2>2 DEF Live
  <1> QED
    BY <1>1, GateInvariant, PTL

\* A component that leaves a retained document is marked removed in the document that
\* replaces it, for any devices and entity sets: across restarts and reconnects where the
\* read-back saw the earlier document, and from the first write of this connection on
\* where it did not, as for the scheduler's.
THEOREM DroppedIsTombstoned == Spec => DroppedComponentsAreTombstoned
  <1> DEFINE Marks ==
        \A d \in Devices :
          broker'[d] # broker[d] /\ broker'[d] # NoDocument /\ ~forgot[d] =>
              Live(broker[d]) \ broker'[d].live \subseteq broker'[d].tomb
  <1>1. IInv /\ [Next]_vars => [Marks]_vars
    <2> SUFFICES ASSUME IInv, Next
                 PROVE  Marks
      OBVIOUS
    <2>1. ASSUME NEW d \in Devices, SendDocument(d)
          PROVE  Marks
      <3>1. /\ d \in poll.todo /\ poll.at = "sending"
            /\ broker' = [broker EXCEPT ![d] = poll.batch[d]] \/ broker' = broker
        BY <2>1 DEF SendDocument
      <3>2. broker \in [Devices -> Documents \cup {NoDocument}]
        BY DEF IInv, TypeOK, Retained
      <3>3. ~forgot[d] => Live(broker[d]) \subseteq poll.batch[d].live \cup poll.batch[d].tomb
        BY <3>1 DEF IInv, PriorInv
      <3>4. CASE broker' = broker
        BY <3>4
      <3>5. CASE broker' = [broker EXCEPT ![d] = poll.batch[d]]
        <4>1. broker'[d] = poll.batch[d] /\ \A e \in Devices \ {d} : broker'[e] = broker[e]
          BY <3>2, <3>5
        <4> QED
          BY <3>1, <3>3, <4>1
      <3> QED
        BY <3>1, <3>4, <3>5
    <2>2. CASE LoseStore
      BY <2>2 DEF LoseStore, Nowhere
    <2>3. CASE UNCHANGED broker
      BY <2>3
    <2> QED
      BY <2>1, <2>2, <2>3
         DEF Next, LoadRuntime, CheckGate, LoadGen, ReadPrior, PriorIsLoaded, StorePrior,
          Tombstone, Withhold, FailDocument, FinishBatch, CheckGeneration, Commit, Disconnect, Connect,
          SwapRuntime, BumpGen, ClearGate
  <1> QED
    BY <1>1, GateInvariant, PTL DEF Spec, DroppedComponentsAreTombstoned

=============================================================================
