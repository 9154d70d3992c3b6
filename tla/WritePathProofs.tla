--------------------------- MODULE WritePathProofs ---------------------------
(***************************************************************************)
(* TLAPS proofs about WritePath, for any outdoor unit, any set messages and *)
(* block actions and any number of events.                                 *)
(***************************************************************************)
EXTENDS WritePath, SequenceTheorems, TLAPS

\* The setting in hand has been made and not been noted yet.
Noting(u, what) == writer.at = "note" /\ ThisSetting.unit = u /\ ThisSetting.what = what

\* The settings in hand concern one unit, a mode comes last; those of mode sync come
\* one at a time, the others before any peer is looked at.
ShapeInv ==
    writer.todo # <<>> =>
        /\ \A n \in DOMAIN writer.todo : writer.todo[n].unit = ThisSetting.unit
        /\ \A n \in DOMAIN writer.todo : writer.todo[n].what = "mode" => n = Len(writer.todo)
        /\ \A n \in DOMAIN writer.todo : writer.todo[n].sync =>
             Len(writer.todo) = 1 /\ ThisSetting.value = writer.sync
        /\ ~ThisSetting.sync => writer.peers = <<>>

\* A unit that the cache calls on is on, unless its caches are wrong for a known
\* reason or a power setting has still to be noted.
WakeInv ==
    \A u \in Units : misled[u] \/ (powerCache[u] = TRUE => unit[u].on) \/ Noting(u, "power")

\* As long as nothing came between: the settings in hand are those of one request
\* that mode sync covers, and the one being noted is in effect.
HvacInv ==
    ~excused /\ writer.todo # <<>> =>
        /\ writer.at = "note" => InEffect(ThisSetting)
        /\ \/ /\ ThisSetting.what = "scoped" /\ writer.sync = Nothing
              /\ \A n \in DOMAIN writer.todo : writer.todo[n].what = "scoped"
           \/ /\ ThisSetting.what = "power" /\ ThisSetting.value = "off" /\ writer.sync = Nothing
              /\ Len(writer.todo) = 1
           \/ /\ ThisSetting.what = "power" /\ ThisSetting.value = "on"
              /\ Len(writer.todo) = 2 /\ writer.todo[2].what = "mode"
              /\ writer.todo[2].value = writer.sync /\ ~writer.todo[2].sync
           \/ /\ ThisSetting.what = "mode" /\ ThisSetting.value = writer.sync
              /\ Len(writer.todo) = 1 /\ unit[ThisSetting.unit].on

\* ... and what the caches know of a unit is true of it.
FitInv ==
    ~excused => \A u \in Units :
        \/ misled[u]
        \/ /\ powerCache[u] \in {Nothing, unit[u].on} \/ Noting(u, "power")
           /\ modeCache[u] \in {Nothing, unit[u].mode} \/ Noting(u, "mode")

\* ... and the units agree on a direction, but for the unit being set, and while
\* mode sync is under way for the units it has still to look at.
Contrary(u, mode) == unit[u].on /\ Against(Family(unit[u].mode), Family(mode))
InHand == {ThisSetting.unit : s \in ToSet(writer.todo)}
Pending == ToSet(writer.peers) \cup InHand
Peace(units) == \A u, v \in units : ~Opposed(unit, u, v)
SyncUnderWay == writer.at = "sync" \/ (writer.todo # <<>> /\ ThisSetting.sync)

PeaceInv ==
    ~excused =>
        /\ writer.at = "idle" => Peace(Units)
        /\ writer.todo # <<>> /\ ~ThisSetting.sync =>
             Peace(IF ThisSetting.what = "scoped" THEN Units ELSE Units \ {ThisSetting.unit})
        /\ SyncUnderWay =>
             Family(writer.sync) # Nothing /\ \A u \in Units \ Pending : ~Contrary(u, writer.sync)

\* The mode of a unit after the first k requests waiting is m, or has been moved: it
\* is the mode of the last block among them, of the one in hand, or of the last one
\* that was noted.
ForBlock(r, u) == r.item = "hvac" /\ r.unit = u /\ r.for # Nothing
InHandFor(u) == {n \in DOMAIN writer.todo :
                    /\ writer.todo[n].what = "mode" /\ writer.todo[n].unit = u
                    /\ writer.todo[n].for # Nothing}
Awaits(u, m) ==
    /\ \A n \in InHandFor(u) : writer.todo[n].for = m
    /\ InHandFor(u) # {} \/ modeCache[u] = m \/ spoilt[u]
Follows(k, u, m) ==
    \/ \E j \in 1..k : /\ ForBlock(queue[j], u) /\ queue[j].for = m
                       /\ \A i \in (j + 1)..k : ~ForBlock(queue[i], u)
    \/ (\A i \in 1..k : ~ForBlock(queue[i], u)) /\ Awaits(u, m)

QueuedBlocks ==
    /\ \A i \in 1..Len(queue) :
         queue[i].item = "hvac" /\ queue[i].for # Nothing => queue[i].value = queue[i].for
    /\ \A u \in Units, m \in Modes :
         /\ \A i \in 1..Len(queue) :
              queue[i].item # "hvac" /\ queue[i].unit = u /\ queue[i].for = m => Follows(i - 1, u, m)
         /\ engine # Nothing /\ engine.unit = u /\ engine.for = m => Follows(Len(queue), u, m)

InHandBlocks ==
    \A n \in DOMAIN writer.todo :
        /\ writer.todo[n].what = "mode" /\ writer.todo[n].for # Nothing =>
             writer.todo[n].value = writer.todo[n].for
        /\ writer.todo[n].what = "scoped" /\ writer.todo[n].for # Nothing =>
             writer.todo[n].path = writer.todo[n].for \/ spoilt[writer.todo[n].unit]

BlockInv == QueuedBlocks /\ InHandBlocks

IInv ==
    /\ TypeOK
    /\ ShapeInv
    /\ WakeInv
    /\ HvacInv
    /\ FitInv
    /\ PeaceInv
    /\ BlockInv

----------------------------------------------------------------------------
(* The operators the actions are built from. *)

\* What a setting makes of the status of a unit is a status, the same for a scoped one.
LEMMA CarriedOutTyped ==
    ASSUME NEW status \in Status, NEW s \in Settings
    PROVE  /\ CarriedOut(status, s) \in Status
           /\ s.what = "power" => CarriedOut(status, s) = [on |-> s.value = "on", mode |-> status.mode]
           /\ s.what = "mode" => CarriedOut(status, s) = [on |-> status.on \/ s.unit \in Local, mode |-> s.value]
           /\ s.what = "scoped" => CarriedOut(status, s) = status
           /\ s.what \in {"power", "mode", "scoped"}
  <1> USE DEF Status
  <1>1. CASE s.what = "power"
    <2>1. (s.value = "on") \in BOOLEAN
      OBVIOUS
    <2> QED
      BY <1>1, <2>1 DEF CarriedOut
  <1>2. CASE s.what = "mode"
    <2>1. s.value \in Modes
      BY <1>2 DEF Settings
    <2>2. (status.on \/ s.unit \in Local) \in BOOLEAN
      OBVIOUS
    <2> QED
      BY <1>2, <2>1, <2>2 DEF CarriedOut
  <1>3. CASE s.what = "scoped"
    BY <1>3 DEF CarriedOut
  <1>4. s.what \in {"power", "mode", "scoped"}
    BY DEF Settings
  <1> QED
    BY <1>1, <1>2, <1>3, <1>4

\* The settings in hand, taken apart.
LEMMA TodoParts ==
    ASSUME NEW todo \in Seq(Settings), todo # <<>>
    PROVE  /\ Head(todo) \in Settings /\ Head(todo) = todo[1] /\ Tail(todo) \in Seq(Settings)
           /\ Len(todo) \in Nat \ {0} /\ Len(Tail(todo)) = Len(todo) - 1
           /\ DOMAIN todo = 1..Len(todo) /\ DOMAIN Tail(todo) = 1..(Len(todo) - 1)
           /\ \A n \in 1..(Len(todo) - 1) : Tail(todo)[n] = todo[n + 1]
           /\ Tail(todo) = <<>> <=> Len(todo) = 1
  <1>1. /\ Head(todo) \in Settings /\ Tail(todo) \in Seq(Settings) /\ Len(Tail(todo)) = Len(todo) - 1
        /\ \A n \in 1..Len(Tail(todo)) : Tail(todo)[n] = todo[n + 1]
    BY HeadTailProperties
  <1>2. Len(todo) \in Nat \ {0} /\ Head(todo) = todo[1] /\ DOMAIN todo = 1..Len(todo)
    BY EmptySeq, LenProperties
  <1>3. DOMAIN Tail(todo) = 1..(Len(todo) - 1)
    BY <1>1, LenProperties
  <1>4. Tail(todo) = <<>> <=> Len(todo) = 1
    BY <1>1, <1>2, EmptySeq
  <1> QED
    BY <1>1, <1>2, <1>3, <1>4

\* The units still to look at, taken apart.
LEMMA PeersParts ==
    ASSUME NEW peers \in Seq(Units), peers # <<>>
    PROVE  /\ Head(peers) \in Units /\ Tail(peers) \in Seq(Units)
           /\ ToSet(peers) = {Head(peers)} \cup ToSet(Tail(peers))
  <1>1. Head(peers) \in Units /\ Tail(peers) \in Seq(Units)
    OBVIOUS
  <1>2. /\ Len(peers) \in Nat \ {0} /\ Head(peers) = peers[1]
        /\ DOMAIN peers = 1..Len(peers) /\ DOMAIN Tail(peers) = 1..(Len(peers) - 1)
        /\ \A n \in 1..(Len(peers) - 1) : Tail(peers)[n] = peers[n + 1]
    OBVIOUS
  <1>3. \A i \in DOMAIN peers : peers[i] \in {Head(peers)} \cup ToSet(Tail(peers))
    <2> SUFFICES ASSUME NEW i \in 1..Len(peers), i # 1
                 PROVE  peers[i] \in ToSet(Tail(peers))
      BY <1>2
    <2>1. i - 1 \in 1..(Len(peers) - 1) /\ Tail(peers)[i - 1] = peers[i]
      BY <1>2
    <2> QED
      BY <1>2, <2>1 DEF ToSet
  <1>4. \A i \in DOMAIN Tail(peers) : Tail(peers)[i] \in ToSet(peers)
    <2> SUFFICES ASSUME NEW i \in 1..(Len(peers) - 1)
                 PROVE  Tail(peers)[i] \in ToSet(peers)
      BY <1>2
    <2>1. i + 1 \in DOMAIN peers /\ Tail(peers)[i] = peers[i + 1]
      BY <1>2
    <2> QED
      BY <2>1 DEF ToSet
  <1>5. Head(peers) \in ToSet(peers)
    BY <1>2 DEF ToSet
  <1> QED
    BY <1>1, <1>3, <1>4, <1>5 DEF ToSet

\* The peers of a unit are units, and in a known group every other unit is one.
LEMMA PeersTyped ==
    ASSUME NEW u \in Units
    PROVE  /\ Peers(u) \in Seq(Units)
           /\ learnt = "groups" => Units \ {u} \subseteq ToSet(Peers(u))
  <1> USE WriteConstants
  <1>1. CASE learnt # "groups"
    BY <1>1 DEF Peers
  <1>2. CASE learnt = "groups"
    <2> DEFINE k == CHOOSE i \in DOMAIN Members : Members[i] = u
               n == Len(Members)
    <2>1. k \in 1..n /\ Members[k] = u
      BY DEF Units, ToSet
    <2> HIDE DEF k
    <2>2. n \in Nat /\ Members \in [1..n -> Units]
      OBVIOUS
    <2>3. Peers(u) = SubSeq(Members, 1, k - 1) \o SubSeq(Members, k + 1, n)
      BY <1>2 DEF Peers, RemoveAt, k
    <2> DEFINE before == SubSeq(Members, 1, k - 1)
               after == SubSeq(Members, k + 1, n)
    <2>4. before \in Seq(Units) /\ Len(before) = k - 1 /\ \A i \in 1..(k - 1) : before[i] = Members[i]
      <3>1. \A i \in 1..(k - 1) : Members[i] \in Units
        BY <2>1, <2>2
      <3>2. /\ before \in Seq(Units) /\ Len(before) = IF 1 <= k - 1 THEN k - 1 - 1 + 1 ELSE 0
            /\ \A i \in 1..(k - 1 - 1 + 1) : before[i] = Members[1 + i - 1]
        BY <2>1, <2>2, <3>1, SubSeqProperties
      <3> QED
        BY <2>1, <2>2, <3>2
    <2>5. after \in Seq(Units) /\ Len(after) = n - k /\ \A i \in 1..(n - k) : after[i] = Members[k + i]
      <3>1. \A i \in (k + 1)..n : Members[i] \in Units
        BY <2>1, <2>2
      <3>2. /\ after \in Seq(Units) /\ Len(after) = IF k + 1 <= n THEN n - (k + 1) + 1 ELSE 0
            /\ \A i \in 1..(n - (k + 1) + 1) : after[i] = Members[(k + 1) + i - 1]
        BY <2>1, <2>2, <3>1, SubSeqProperties
      <3>3. Len(after) = n - k
        <4>1. k \in Nat /\ n \in Nat /\ k <= n
          BY <2>1, <2>2
        <4>2. Len(after) = IF k + 1 <= n THEN n - (k + 1) + 1 ELSE 0
          BY <3>2
        <4> HIDE DEF n, after
        <4> QED
          BY <4>1, <4>2
      <3>4. ASSUME NEW i \in 1..(n - k)
            PROVE  after[i] = Members[k + i]
        <4>1. i \in 1..(n - (k + 1) + 1) /\ (k + 1) + i - 1 = k + i
          BY <2>1, <2>2
        <4> QED
          BY <3>2, <4>1
      <3> QED
        BY <3>2, <3>3, <3>4
    <2> HIDE DEF before, after
    <2>6. /\ Peers(u) \in Seq(Units) /\ Len(Peers(u)) = n - 1
          /\ \A i \in 1..(n - 1) : Peers(u)[i] = IF i < k THEN Members[i] ELSE Members[i + 1]
      <3>1. /\ before \o after \in Seq(Units) /\ Len(before \o after) = Len(before) + Len(after)
            /\ \A i \in 1..(Len(before) + Len(after)) :
                 (before \o after)[i] = IF i <= Len(before) THEN before[i] ELSE after[i - Len(before)]
        BY <2>4, <2>5, ConcatProperties
      <3>2. Peers(u) = before \o after
        BY <2>3 DEF before, after
      <3>3. Len(before) + Len(after) = n - 1
        BY <2>1, <2>2, <2>4, <2>5
      <3>4. ASSUME NEW i \in 1..(n - 1)
            PROVE  Peers(u)[i] = IF i < k THEN Members[i] ELSE Members[i + 1]
        <4>1. Peers(u)[i] = IF i <= k - 1 THEN before[i] ELSE after[i - (k - 1)]
          BY <2>4, <3>1, <3>2, <3>3
        <4>2. CASE i < k
          <5>1. i <= k - 1 /\ i \in 1..(k - 1)
            BY <2>1, <2>2, <4>2
          <5> QED
            BY <2>4, <4>1, <4>2, <5>1
        <4>3. CASE ~(i < k)
          <5>1. ~(i <= k - 1) /\ i - (k - 1) \in 1..(n - k) /\ k + (i - (k - 1)) = i + 1
            BY <2>1, <2>2, <4>3
          <5> QED
            BY <2>5, <4>1, <4>3, <5>1
        <4> QED
          BY <4>2, <4>3
      <3> QED
        BY <3>1, <3>2, <3>3, <3>4
    <2>7. \A i \in 1..n : i # k => Members[i] \in ToSet(Peers(u))
      <3> SUFFICES ASSUME NEW i \in 1..n, i # k
                   PROVE  \E j \in 1..(n - 1) : Peers(u)[j] = Members[i]
        BY <2>6, LenProperties DEF ToSet
      <3>1. CASE i < k
        BY <2>1, <2>2, <2>6, <3>1
      <3>2. CASE i > k
        <4>1. i - 1 \in 1..(n - 1) /\ ~(i - 1 < k) /\ (i - 1) + 1 = i
          BY <2>1, <2>2, <3>2
        <4> QED
          BY <2>6, <4>1
      <3> QED
        BY <2>1, <2>2, <3>1, <3>2
    <2>8. \A v \in Units : \E i \in 1..n : v = Members[i]
      BY DEF Units, ToSet
    <2>9. ToSet(Peers(u)) \subseteq Units
      BY <2>6 DEF ToSet
    <2>10. \A v \in Units : v # u => v \in ToSet(Peers(u))
      BY <2>1, <2>7, <2>8
    <2> QED
      BY <2>6, <2>9, <2>10
  <1> QED
    BY <1>1, <1>2

\* The settings of a request: all of its unit, none asked for by mode sync.
LEMMA SettingsTyped ==
    ASSUME TypeOK, NEW r \in Requests
    PROVE  /\ SettingsOf(r) \in Seq(Settings) /\ SettingsOf(r) # <<>>
           /\ \A n \in DOMAIN SettingsOf(r) : SettingsOf(r)[n].unit = r.unit /\ ~SettingsOf(r)[n].sync
           /\ r.item = "hvac" /\ r.value = "off" =>
                SettingsOf(r) = <<Setting(r.unit, "power", "off")>>
           /\ r.item = "hvac" /\ r.value # "off" =>
                SettingsOf(r) = <<Setting(r.unit, "power", "on"), [Setting(r.unit, "mode", r.value) EXCEPT !.for = r.for]>>
           /\ r.item \in {"power", "mode"} => SettingsOf(r) = <<Setting(r.unit, r.item, r.value)>>
           /\ r.item \in {"setpoint", "fan"} =>
                SettingsOf(r) = <<Scoped(r)>> \/ SettingsOf(r) = <<Scoped(r), Scoped(r)>>
           /\ r.item \in {"hvac", "power", "mode", "setpoint", "fan"}
  <1>1. modeCache[r.unit] \in Modes \cup {Nothing} /\ r.unit \in Units
    BY DEF TypeOK, Requests
  <1>2. CASE r.item = "hvac" /\ r.value = "off"
    <2> DEFINE s == Setting(r.unit, "power", "off")
    <2>1. s \in Settings /\ s.unit = r.unit /\ ~s.sync
      BY <1>1 DEF Settings, Setting
    <2>2. SettingsOf(r) = <<s>>
      BY <1>2 DEF SettingsOf
    <2> HIDE DEF s
    <2>3. <<s>> \in Seq(Settings) /\ <<s>> # <<>> /\ \A n \in DOMAIN <<s>> : <<s>>[n] = s
      BY <2>1
    <2> QED
      BY <1>2, <2>1, <2>2, <2>3 DEF s
  <1>3. CASE r.item = "hvac" /\ r.value # "off"
    <2> DEFINE s == Setting(r.unit, "power", "on")
               t == [Setting(r.unit, "mode", r.value) EXCEPT !.for = r.for]
    <2>1. r.value \in Modes /\ r.for \in Modes \cup {Nothing}
      BY <1>3 DEF Requests
    <2>2. s \in Settings /\ s.unit = r.unit /\ ~s.sync
      BY <1>1 DEF Settings, Setting
    <2>3. t \in Settings /\ t.unit = r.unit /\ ~t.sync
      BY <1>1, <2>1 DEF Settings, Setting
    <2>4. SettingsOf(r) = <<s, t>>
      BY <1>3 DEF SettingsOf
    <2> HIDE DEF s, t
    <2>5. <<s, t>> \in Seq(Settings) /\ <<s, t>> # <<>> /\ \A n \in DOMAIN <<s, t>> : <<s, t>>[n] \in {s, t}
      BY <2>2, <2>3
    <2> QED
      BY <1>3, <2>2, <2>3, <2>4, <2>5 DEF s, t
  <1>4. CASE r.item \in {"power", "mode"}
    <2> DEFINE s == Setting(r.unit, r.item, r.value)
    <2>1. s \in Settings /\ s.unit = r.unit /\ ~s.sync
      BY <1>1, <1>4 DEF Settings, Setting, Requests
    <2>2. SettingsOf(r) = <<s>>
      BY <1>4 DEF SettingsOf
    <2> HIDE DEF s
    <2>3. <<s>> \in Seq(Settings) /\ <<s>> # <<>> /\ \A n \in DOMAIN <<s>> : <<s>>[n] = s
      BY <2>1
    <2> QED
      BY <1>4, <2>1, <2>2, <2>3 DEF s
  <1>5. CASE r.item \in {"setpoint", "fan"}
    <2> DEFINE s == Scoped(r)
    <2>1. r.for \in Modes \cup {Nothing}
      BY <1>5 DEF Requests
    <2>2. s \in Settings /\ s.unit = r.unit /\ ~s.sync
      BY <1>1, <2>1 DEF Settings, Scoped
    <2>3. SettingsOf(r) = <<s>> \/ SettingsOf(r) = <<s, s>>
      BY <1>5 DEF SettingsOf
    <2> HIDE DEF s
    <2>4. /\ <<s>> \in Seq(Settings) /\ <<s>> # <<>> /\ \A n \in DOMAIN <<s>> : <<s>>[n] = s
          /\ <<s, s>> \in Seq(Settings) /\ <<s, s>> # <<>> /\ \A n \in DOMAIN <<s, s>> : <<s, s>>[n] = s
      BY <2>2
    <2> QED
      BY <1>5, <2>2, <2>3, <2>4 DEF s
  <1>6. r.item \in {"hvac", "power", "mode", "setpoint", "fan"}
    BY DEF Requests
  <1> QED
    BY <1>2, <1>3, <1>4, <1>5, <1>6

\* What the writer goes on with is a writer.
LEMMA ProceedTyped ==
    ASSUME TypeOK, NEW todo \in Seq(Settings), NEW peers \in Seq(Units)
    PROVE  /\ Proceed(todo, peers) \in Writers
           /\ Proceed(todo, peers).at \in {"set", "note"} <=> todo # <<>>
           /\ Proceed(todo, peers).at = "sync" => peers # <<>>
           /\ Proceed(todo, peers).at = "idle" <=> todo = <<>> /\ peers = <<>>
           /\ Proceed(todo, peers).at # "note"
           /\ Proceed(todo, peers).todo = todo
           /\ Proceed(todo, peers).peers = peers
           /\ Proceed(todo, peers) # Idle => Proceed(todo, peers).sync = writer.sync
  <1>1. writer \in Writers
    BY DEF TypeOK
  <1>2. Idle \in Writers /\ Idle.at = "idle" /\ Idle.todo = <<>> /\ Idle.peers = <<>>
    BY EmptySeq DEF Idle, Writers
  <1>3. CASE todo = <<>> /\ peers = <<>>
    BY <1>2, <1>3 DEF Proceed
  <1>4. CASE ~(todo = <<>> /\ peers = <<>>)
    <2> DEFINE at == IF todo # <<>> THEN "set" ELSE "sync"
    <2>1. Proceed(todo, peers) = [writer EXCEPT !.at = at, !.todo = todo, !.peers = peers]
      BY <1>4 DEF Proceed
    <2>2. at \in {"set", "sync"} /\ (at = "set" <=> todo # <<>>)
      OBVIOUS
    <2> HIDE DEF at
    <2>3. [writer EXCEPT !.at = at, !.todo = todo, !.peers = peers] \in Writers
      BY <1>1, <2>2 DEF Writers
    <2>4. LET w == [writer EXCEPT !.at = at, !.todo = todo, !.peers = peers]
          IN w.at = at /\ w.todo = todo /\ w.peers = peers /\ w.sync = writer.sync
      BY <1>1 DEF Writers
    <2> QED
      BY <1>4, <2>1, <2>2, <2>3, <2>4
  <1> QED
    BY <1>3, <1>4

\* The bookkeeping: a unit whose caches fit is judged rightly, a unit misjudged stays
\* so until they fit, and a unit that is given a reason is misjudged unless they fit.
LEMMA Accounted ==
    ASSUME NEW reasons, Account(reasons)
    PROVE  /\ misled' \in [Units -> BOOLEAN] /\ spoilt' \in [Units -> BOOLEAN]
           /\ \A u \in Units : /\ misled[u] \/ u \in reasons => misled'[u] \/ AgreesNext(u)
                               /\ misled'[u] => misled[u] \/ u \in reasons
                               /\ spoilt[u] \/ modeCache'[u] # modeCache[u] => spoilt'[u]
  <1>1. \A u \in Units : /\ ((misled[u] \/ u \in reasons) /\ ~AgreesNext(u)) \in BOOLEAN
                         /\ (spoilt[u] \/ modeCache'[u] # modeCache[u]) \in BOOLEAN
    OBVIOUS
  <1>2. misled' \in [Units -> BOOLEAN] /\ spoilt' \in [Units -> BOOLEAN]
    BY <1>1 DEF Account
  <1>3. ASSUME NEW u \in Units
        PROVE  /\ misled'[u] = ((misled[u] \/ u \in reasons) /\ ~AgreesNext(u))
               /\ spoilt'[u] = (spoilt[u] \/ modeCache'[u] # modeCache[u])
    BY DEF Account
  <1>4. ASSUME NEW u \in Units
        PROVE  /\ misled[u] \/ u \in reasons => misled'[u] \/ AgreesNext(u)
               /\ misled'[u] => misled[u] \/ u \in reasons
               /\ spoilt[u] \/ modeCache'[u] # modeCache[u] => spoilt'[u]
    BY <1>3
  <1> QED
    BY <1>2, <1>4

\* What a unit whose caches fit is known to do, it does.
LEMMA AgreesMeans ==
    ASSUME TypeOK', NEW u \in Units, AgreesNext(u)
    PROVE  powerCache'[u] \in {Nothing, unit'[u].on} /\ modeCache'[u] \in {Nothing, unit'[u].mode}
  BY DEF AgreesNext, Fits

\* What the engine sends are requests.
LEMMA RequestsTyped ==
    \A a \in Actions :
        /\ HvacOf(a) \in Requests /\ HvacOf(a).item = "hvac" /\ HvacOf(a).unit = a.unit
        /\ HvacOf(a).for # Nothing => HvacOf(a).value = HvacOf(a).for
        /\ a.value # "off" => /\ SetpointOf(a) \in Requests /\ SetpointOf(a).item = "setpoint"
                              /\ SetpointOf(a).unit = a.unit /\ SetpointOf(a).for = HvacOf(a).for
                              /\ HvacOf(a).for # Nothing
  BY WriteConstants, NothingIsNoValue DEF HvacOf, SetpointOf, Requests

\* A request taken: the writer is idle again, or about to make the settings of the
\* request, and the queue is one shorter.
LEMMA Taken ==
    ASSUME TypeOK, Take
    PROVE  /\ queue[1] \in Requests /\ Len(queue) \in Nat \ {0}
           /\ queue' \in Seq(Requests) /\ Len(queue') = Len(queue) - 1
           /\ \A i \in 1..Len(queue') : queue'[i] = queue[i + 1]
           /\ writer.at = "idle" /\ writer.todo = <<>>
           /\ LacksMode(queue[1]) => writer' = Idle
           /\ ~LacksMode(queue[1]) => /\ writer'.at = "set" /\ writer'.todo = SettingsOf(queue[1])
                                      /\ writer'.sync = SyncOf(queue[1]) /\ writer'.peers = <<>>
           /\ writer' \in Writers
           /\ excused' = (excused \/ Unsynced(queue[1]))
           /\ UNCHANGED <<unit, powerCache, modeCache, misled, spoilt, engine>>
  <1>1. queue \in Seq(Requests) /\ queue # <<>>
    BY DEF TypeOK, Take
  <1>2. /\ Head(queue) = queue[1] /\ queue[1] \in Requests /\ Len(queue) \in Nat \ {0}
        /\ Tail(queue) \in Seq(Requests) /\ Len(Tail(queue)) = Len(queue) - 1
        /\ \A i \in 1..Len(Tail(queue)) : Tail(queue)[i] = queue[i + 1]
    BY <1>1
  <1>3. queue' = Tail(queue) /\ writer.at = "idle" /\ UNCHANGED <<unit, powerCache, modeCache, misled, spoilt, engine>>
    BY DEF Take, world, caches
  <1>4. writer.todo = <<>>
    BY <1>3 DEF TypeOK
  <1>5. /\ writer' = IF LacksMode(queue[1]) THEN Idle
                     ELSE [Idle EXCEPT !.at = "set", !.todo = SettingsOf(queue[1]), !.sync = SyncOf(queue[1])]
        /\ excused' = (excused \/ Unsynced(queue[1]))
    BY <1>2 DEF Take
  <1>6. SettingsOf(queue[1]) \in Seq(Settings) /\ SyncOf(queue[1]) \in Modes \cup {Nothing}
    BY <1>2, SettingsTyped DEF SyncOf, Requests
  <1>7. Idle \in Writers
    BY EmptySeq DEF Idle, Writers
  <1>8. LacksMode(queue[1]) => writer' = Idle
    BY <1>5
  <1>9. ASSUME ~LacksMode(queue[1])
        PROVE  /\ writer'.at = "set" /\ writer'.todo = SettingsOf(queue[1])
               /\ writer'.sync = SyncOf(queue[1]) /\ writer'.peers = <<>> /\ writer' \in Writers
    <2>1. writer' = [at |-> "set", todo |-> SettingsOf(queue[1]), sync |-> SyncOf(queue[1]), peers |-> <<>>]
      BY <1>5, <1>9 DEF Idle
    <2> QED
      BY <1>6, <2>1, EmptySeq DEF Writers
  <1> QED
    BY <1>2, <1>3, <1>4, <1>5, <1>7, <1>8, <1>9

\* The setting in hand.
LEMMA InTheHand ==
    ASSUME TypeOK, writer.todo # <<>>
    PROVE  /\ writer.todo \in Seq(Settings) /\ ThisSetting \in Settings /\ ThisSetting = writer.todo[1]
           /\ ThisSetting.unit \in Units /\ unit[ThisSetting.unit] \in Status
           /\ Tail(writer.todo) \in Seq(Settings)
           /\ Len(writer.todo) \in Nat \ {0} /\ DOMAIN writer.todo = 1..Len(writer.todo)
           /\ DOMAIN Tail(writer.todo) = 1..(Len(writer.todo) - 1)
           /\ \A n \in 1..(Len(writer.todo) - 1) : Tail(writer.todo)[n] = writer.todo[n + 1]
           /\ Tail(writer.todo) = <<>> <=> Len(writer.todo) = 1
  <1>1. writer.todo \in Seq(Settings)
    BY DEF TypeOK, Writers
  <1>2. ThisSetting \in Settings /\ ThisSetting = writer.todo[1]
    BY <1>1, TodoParts DEF ThisSetting
  <1>3. ThisSetting.unit \in Units
    BY <1>2 DEF Settings
  <1> QED
    BY <1>1, <1>2, <1>3, TodoParts DEF TypeOK

\* A setting made moves its unit and no other one.
LEMMA Made ==
    ASSUME TypeOK, writer.todo # <<>>, HappensTo(ThisSetting)
    PROVE  /\ unit' \in [Units -> Status]
           /\ unit'[ThisSetting.unit] = CarriedOut(unit[ThisSetting.unit], ThisSetting)
           /\ \A u \in Units \ {ThisSetting.unit} : unit'[u] = unit[u]
  <1>1. ThisSetting \in Settings /\ ThisSetting.unit \in Units /\ unit[ThisSetting.unit] \in Status
    BY InTheHand
  <1>2. CarriedOut(unit[ThisSetting.unit], ThisSetting) \in Status
    BY <1>1, CarriedOutTyped
  <1>3. unit' = [unit EXCEPT ![ThisSetting.unit] = CarriedOut(unit[ThisSetting.unit], ThisSetting)]
    BY DEF HappensTo
  <1> QED
    BY <1>1, <1>2, <1>3 DEF TypeOK

\* An error ends the settings in hand, or is followed by the next one.
LEMMA Ended ==
    ASSUME TypeOK, writer.todo # <<>>, writer' = GivenUp
    PROVE  /\ writer' \in Writers
           /\ writer'.at \in {"set", "note"} <=> writer'.todo # <<>>
           /\ writer'.at = "sync" => writer'.peers # <<>>
           /\ writer'.at # "note" /\ writer'.todo \in {<<>>, Tail(writer.todo)}
           /\ writer'.at = "set" /\ writer'.todo # <<>> => writer'.peers = writer.peers
  <1>1. Tail(writer.todo) \in Seq(Settings) /\ writer.peers \in Seq(Units)
    BY InTheHand DEF TypeOK, Writers
  <1>2. CASE writer' = Proceed(Tail(writer.todo), writer.peers)
    <2> DEFINE rest == Tail(writer.todo)
               p == Proceed(rest, writer.peers)
    <2>0. rest \in Seq(Settings)
      BY <1>1
    <2> HIDE DEF rest
    <2>1. /\ p \in Writers
          /\ p.at \in {"set", "note"} <=> rest # <<>>
          /\ p.at = "sync" => writer.peers # <<>>
          /\ p.at = "idle" <=> rest = <<>> /\ writer.peers = <<>>
          /\ p.at # "note" /\ p.todo = rest /\ p.peers = writer.peers
          /\ p # Idle => p.sync = writer.sync
      BY <1>1, <2>0, ProceedTyped
    <2> HIDE DEF p
    <2>2. writer' = p
      BY <1>2 DEF p, rest
    <2>3. rest = Tail(writer.todo)
      BY DEF rest
    <2> QED
      BY <2>1, <2>2, <2>3
  <1>3. CASE writer' = Idle
    BY <1>3, EmptySeq DEF Idle, Writers
  <1> QED
    BY <1>2, <1>3 DEF GivenUp

\* The setting that is noted, what is done next, and what the caches hold then.
LEMMA NotedAndNext ==
    ASSUME TypeOK, NoteWrite
    PROVE  LET s == ThisSetting
               syncs == /\ Len(writer.todo) = 1 /\ ~s.sync
                        /\ writer.sync # Nothing /\ Family(writer.sync) # Nothing
               peers == IF syncs THEN Peers(s.unit) ELSE writer.peers
           IN  /\ writer.at = "note" /\ writer.todo # <<>>
               /\ writer' = Proceed(Tail(writer.todo), peers) /\ peers \in Seq(Units)
               /\ writer' \in Writers
               /\ writer'.at \in {"set", "note"} <=> writer'.todo # <<>>
               /\ writer'.at = "sync" => writer'.peers # <<>>
               /\ writer'.at # "note" /\ writer'.todo = Tail(writer.todo) /\ writer'.peers = peers
               /\ writer' # Idle => writer'.sync = writer.sync
               /\ writer'.at = "idle" <=> Tail(writer.todo) = <<>> /\ peers = <<>>
               /\ excused' = (excused \/ (syncs /\ learnt # "groups")) /\ excused' \in BOOLEAN
               /\ powerCache' = IF s.what = "power" THEN [powerCache EXCEPT ![s.unit] = s.value = "on"] ELSE powerCache
               /\ modeCache' = IF s.what = "mode" THEN [modeCache EXCEPT ![s.unit] = s.value] ELSE modeCache
               /\ powerCache' \in [Units -> BOOLEAN \cup {Nothing}]
               /\ modeCache' \in [Units -> Modes \cup {Nothing}]
               /\ UNCHANGED <<unit, queue, engine>>
  <1>1. writer.at = "note" /\ writer.todo # <<>>
    BY DEF NoteWrite, TypeOK
  <1> DEFINE s == ThisSetting
             syncs == /\ Len(writer.todo) = 1 /\ ~s.sync
                      /\ writer.sync # Nothing /\ Family(writer.sync) # Nothing
             peers == IF syncs THEN Peers(s.unit) ELSE writer.peers
  <1>2. s \in Settings /\ s.unit \in Units /\ Tail(writer.todo) \in Seq(Settings)
    BY <1>1, InTheHand
  <1>3. Tail(writer.todo) = <<>> <=> Len(writer.todo) = 1
    BY <1>1, InTheHand
  <1>4. peers \in Seq(Units)
    BY <1>2, PeersTyped DEF TypeOK, Writers
  <1>5. writer' = Proceed(Tail(writer.todo), peers) /\ excused' = (excused \/ (syncs /\ learnt # "groups"))
    BY <1>1, <1>3 DEF NoteWrite
  <1>6. /\ powerCache' = IF s.what = "power" THEN [powerCache EXCEPT ![s.unit] = s.value = "on"] ELSE powerCache
        /\ modeCache' = IF s.what = "mode" THEN [modeCache EXCEPT ![s.unit] = s.value] ELSE modeCache
        /\ UNCHANGED <<unit, queue, engine>>
    BY DEF NoteWrite, Noted, world
  <1>7. powerCache' \in [Units -> BOOLEAN \cup {Nothing}]
    <2>1. (s.value = "on") \in BOOLEAN
      OBVIOUS
    <2> QED
      BY <1>2, <1>6, <2>1 DEF TypeOK
  <1>8. modeCache' \in [Units -> Modes \cup {Nothing}]
    <2>1. s.what = "mode" => s.value \in Modes
      BY <1>2 DEF Settings
    <2> QED
      BY <1>2, <1>6, <2>1 DEF TypeOK
  <1>9. excused' \in BOOLEAN
    BY <1>5 DEF TypeOK
  <1> HIDE DEF s, syncs, peers
  <1>10. /\ writer' \in Writers
         /\ writer'.at \in {"set", "note"} <=> writer'.todo # <<>>
         /\ writer'.at = "sync" => writer'.peers # <<>>
         /\ writer'.at # "note" /\ writer'.todo = Tail(writer.todo) /\ writer'.peers = peers
         /\ writer' # Idle => writer'.sync = writer.sync
         /\ writer'.at = "idle" <=> Tail(writer.todo) = <<>> /\ peers = <<>>
    <2> DEFINE rest == Tail(writer.todo)
               p == Proceed(rest, peers)
    <2>0. rest \in Seq(Settings)
      BY <1>2, <1>4
    <2> HIDE DEF rest
    <2>1. /\ p \in Writers
          /\ p.at \in {"set", "note"} <=> rest # <<>>
          /\ p.at = "sync" => peers # <<>>
          /\ p.at = "idle" <=> rest = <<>> /\ peers = <<>>
          /\ p.at # "note" /\ p.todo = rest /\ p.peers = peers
          /\ p # Idle => p.sync = writer.sync
      BY <1>2, <1>4, <2>0, ProceedTyped
    <2> HIDE DEF p
    <2>2. writer' = p
      BY <1>5 DEF p, rest
    <2>3. rest = Tail(writer.todo)
      BY DEF rest
    <2>4. /\ writer' \in Writers /\ writer'.at # "note" /\ writer'.todo = rest /\ writer'.peers = peers
          /\ writer'.at \in {"set", "note"} <=> rest # <<>>
          /\ writer'.at = "sync" => peers # <<>>
          /\ writer'.at = "idle" <=> rest = <<>> /\ peers = <<>>
          /\ writer' # Idle => writer'.sync = writer.sync
      BY <2>1, <2>2
    <2> HIDE DEF peers
    <2> QED
      BY <2>3, <2>4
  <1> QED
    BY <1>1, <1>4, <1>5, <1>6, <1>7, <1>8, <1>9, <1>10 DEF s, syncs, peers

\* The bookkeeping of a setting that is noted.
LEMMA NotedAccount ==
    ASSUME TypeOK, NoteWrite
    PROVE  LET s == ThisSetting
               block == s.what = "mode" /\ s.for # Nothing
           IN  /\ misled' \in [Units -> BOOLEAN] /\ spoilt' \in [Units -> BOOLEAN]
               /\ \A u \in Units :
                    /\ misled[u] \/ (u = s.unit /\ ~InEffect(s)) => misled'[u] \/ AgreesNext(u)
                    /\ u = s.unit /\ block => ~spoilt'[u]
                    /\ (spoilt[u] \/ modeCache'[u] # modeCache[u]) /\ ~(u = s.unit /\ block) => spoilt'[u]
  <1> DEFINE s == ThisSetting
             wrong(u) == (misled[u] \/ (u = s.unit /\ ~InEffect(s))) /\ ~AgreesNext(u)
             moved(u) == IF u = s.unit /\ s.what = "mode" /\ s.for # Nothing THEN FALSE
                         ELSE spoilt[u] \/ modeCache'[u] # modeCache[u]
  <1>1. misled' = [u \in Units |-> wrong(u)] /\ spoilt' = [u \in Units |-> moved(u)]
    BY DEF NoteWrite
  <1>2. \A u \in Units : wrong(u) \in BOOLEAN
    OBVIOUS
  <1>3. \A u \in Units : moved(u) \in BOOLEAN
    OBVIOUS
  <1>4. \A u \in Units : misled'[u] = wrong(u) /\ spoilt'[u] = moved(u)
    BY <1>1
  <1>5. misled' \in [Units -> BOOLEAN] /\ spoilt' \in [Units -> BOOLEAN]
    BY <1>1, <1>2, <1>3
  <1> QED
    BY <1>4, <1>5

\* Mode sync looks at the next unit.
LEMMA PeerLookedAt ==
    ASSUME TypeOK, SyncPeer
    PROVE  LET peer == Head(writer.peers)
               rest == Tail(writer.peers)
               s == [Setting(peer, "mode", writer.sync) EXCEPT !.sync = TRUE]
           IN  /\ writer.at = "sync" /\ writer.todo = <<>> /\ writer.peers # <<>>
               /\ peer \in Units /\ rest \in Seq(Units) /\ ToSet(writer.peers) = {peer} \cup ToSet(rest)
               /\ RunsAgainst(peer, writer.sync) =>
                    /\ writer.sync \in Modes /\ writer'.todo = <<s>> /\ s \in Settings
                    /\ writer'.at = "set" /\ writer'.peers = rest /\ writer'.sync = writer.sync
               /\ ~RunsAgainst(peer, writer.sync) =>
                    /\ writer'.todo = <<>> /\ writer'.peers = rest
                    /\ IF rest = <<>> THEN writer' = Idle
                       ELSE writer'.at = "sync" /\ writer'.sync = writer.sync
               /\ writer' \in Writers /\ writer'.at # "note"
               /\ writer'.at \in {"set", "note"} <=> writer'.todo # <<>>
               /\ writer'.at = "sync" => writer'.peers # <<>>
               /\ ~excused' => /\ ~excused /\ ~misled[peer]
                               /\ powerCache[peer] # Nothing /\ modeCache[peer] # Nothing
               /\ excused' \in BOOLEAN
               /\ UNCHANGED <<unit, powerCache, modeCache, misled, spoilt, queue, engine>>
  <1> DEFINE peer == Head(writer.peers)
             rest == Tail(writer.peers)
             s == [Setting(peer, "mode", writer.sync) EXCEPT !.sync = TRUE]
  <1>1. writer.at = "sync" /\ writer.todo = <<>> /\ writer.peers # <<>> /\ writer.peers \in Seq(Units)
    BY DEF SyncPeer, TypeOK, Writers
  <1>2. peer \in Units /\ rest \in Seq(Units) /\ ToSet(writer.peers) = {peer} \cup ToSet(rest)
    BY <1>1, PeersParts
  <1>3. /\ excused' = (excused \/ misled[peer] \/ Nothing \in {powerCache[peer], modeCache[peer]})
        /\ UNCHANGED <<unit, powerCache, modeCache, misled, spoilt, queue, engine>>
        /\ writer' = IF RunsAgainst(peer, writer.sync) THEN Proceed(<<s>>, rest) ELSE Proceed(<<>>, rest)
    BY DEF SyncPeer, world, caches
  <1>4. /\ excused' \in BOOLEAN
        /\ ~excused' => /\ ~excused /\ ~misled[peer]
                        /\ powerCache[peer] # Nothing /\ modeCache[peer] # Nothing
    <2>1. (excused \/ misled[peer] \/ Nothing \in {powerCache[peer], modeCache[peer]}) \in BOOLEAN
      OBVIOUS
    <2> QED
      BY <1>3, <2>1
  <1>5. ASSUME RunsAgainst(peer, writer.sync)
        PROVE  /\ writer.sync \in Modes /\ writer'.todo = <<s>> /\ s \in Settings
               /\ writer'.at = "set" /\ writer'.peers = rest /\ writer'.sync = writer.sync
               /\ writer' \in Writers /\ writer'.todo # <<>>
    <2>1. writer.sync \in Modes
      <3>1. writer.sync \in Modes \cup {Nothing}
        BY DEF TypeOK, Writers
      <3>2. Family(writer.sync) # Nothing
        BY <1>5 DEF RunsAgainst, Against
      <3> QED
        BY <3>1, <3>2, NothingIsNoValue DEF Family, Modes
    <2>2. s \in Settings
      BY <1>2, <2>1 DEF Settings, Setting
    <2> HIDE DEF s, peer, rest
    <2>3. <<s>> \in Seq(Settings) /\ <<s>> # <<>>
      BY <2>2
    <2>4. writer' = Proceed(<<s>>, rest)
      BY <1>3, <1>5
    <2>5. Proceed(<<s>>, rest) = [writer EXCEPT !.at = "set", !.todo = <<s>>, !.peers = rest]
      BY <2>3 DEF Proceed
    <2>6. writer \in Writers
      BY DEF TypeOK
    <2> QED
      BY <1>2, <2>1, <2>2, <2>3, <2>4, <2>5, <2>6 DEF Writers
  <1>6. ASSUME ~RunsAgainst(peer, writer.sync)
        PROVE  /\ writer'.todo = <<>> /\ writer'.peers = rest
               /\ IF rest = <<>> THEN writer' = Idle ELSE writer'.at = "sync" /\ writer'.sync = writer.sync
               /\ writer' \in Writers
    <2> HIDE DEF s, peer, rest
    <2>1. writer' = Proceed(<<>>, rest) /\ <<>> \in Seq(Settings)
      BY <1>3, <1>6, EmptySeq
    <2>2. CASE rest = <<>>
      BY <1>2, <2>1, <2>2, ProceedTyped DEF Proceed
    <2>3. CASE rest # <<>>
      <3>1. Proceed(<<>>, rest) = [writer EXCEPT !.at = "sync", !.todo = <<>>, !.peers = rest]
        BY <2>3 DEF Proceed
      <3>2. writer \in Writers
        BY DEF TypeOK
      <3> QED
        BY <1>2, <2>1, <2>3, <3>1, <3>2 DEF Writers
    <2> QED
      BY <2>2, <2>3
  <1> HIDE DEF s, peer, rest
  <1>7. writer' \in Writers /\ writer'.at # "note"
        /\ (writer'.at \in {"set", "note"} <=> writer'.todo # <<>>)
        /\ (writer'.at = "sync" => writer'.peers # <<>>)
    <2>1. CASE RunsAgainst(peer, writer.sync)
      BY <1>5, <2>1
    <2>2. CASE ~RunsAgainst(peer, writer.sync)
      BY <1>6, <2>2 DEF Idle
    <2> QED
      BY <2>1, <2>2
  <1> QED
    BY <1>1, <1>2, <1>3, <1>4, <1>5, <1>6, <1>7 DEF s, peer, rest

\* A report stored: its unit's power, or its unit's mode.
LEMMA Stored ==
    ASSUME TypeOK, NEW r \in Reports
    PROVE  /\ r.unit \in Units /\ r.status \in Status /\ r.status.on \in BOOLEAN /\ r.status.mode \in Modes
           /\ StorePower(r) => /\ powerCache' = [powerCache EXCEPT ![r.unit] = r.status.on]
                               /\ powerCache' \in [Units -> BOOLEAN \cup {Nothing}]
                               /\ lastLocal' \in [Local -> Status \cup {Nothing}]
                               /\ UNCHANGED <<modeCache, learnt>>
           /\ StoreMode(r) => /\ modeCache' = [modeCache EXCEPT ![r.unit] = r.status.mode]
                              /\ modeCache' \in [Units -> Modes \cup {Nothing}]
                              /\ UNCHANGED <<powerCache, lastLocal, learnt>>
  <1>1. r.unit \in Local /\ r.unit \in Units /\ r.status \in Status
    BY WriteConstants DEF Reports
  <1>2. r.status.on \in BOOLEAN /\ r.status.mode \in Modes
    BY <1>1 DEF Status
  <1>3. StorePower(r) => /\ powerCache' = [powerCache EXCEPT ![r.unit] = r.status.on]
                         /\ lastLocal' = [lastLocal EXCEPT ![r.unit] = r.status]
                         /\ UNCHANGED <<modeCache, learnt>>
    BY DEF StorePower
  <1>4. StoreMode(r) => /\ modeCache' = [modeCache EXCEPT ![r.unit] = r.status.mode]
                        /\ UNCHANGED <<powerCache, lastLocal, learnt>>
    BY DEF StoreMode
  <1> QED
    BY <1>1, <1>2, <1>3, <1>4 DEF TypeOK

\* A report is a report.
LEMMA ReportTyped ==
    ASSUME NEW u \in Local, NEW status \in Status
    PROVE  Report(u, status) \in Reports /\ Report(u, status).unit = u /\ Report(u, status).status = status
  BY DEF Report, Reports

\* What the drain does with a report it takes in.
LEMMA Drained ==
    ASSUME TypeOK, NEW u \in Local, DrainReport(u)
    PROVE  /\ inbox[u] \in Status /\ u \in Units
           /\ inbox' = [inbox EXCEPT ![u] = Nothing]
           /\ powerCache' = [powerCache EXCEPT ![u] = inbox[u].on]
           /\ powerCache' \in [Units -> BOOLEAN \cup {Nothing}] /\ lastLocal' \in [Local -> Status \cup {Nothing}]
           /\ drain' \in Reports \cup {Nothing}
           /\ UNCHANGED <<unit, cloud, told, window, modeCache, learnt, queue, engine, writer, poll, left, excused>>
           /\ Account(IF inbox[u] # unit[u] THEN {u} ELSE {})
  <1> DEFINE r == Report(u, inbox[u])
  <1>1. inbox[u] \in Status /\ u \in Units
    BY WriteConstants DEF DrainReport, TypeOK
  <1>2. r \in Reports /\ r.unit = u /\ r.status = inbox[u]
    BY <1>1, ReportTyped
  <1>3. /\ StorePower(r) /\ drain' \in {r, Nothing} /\ Account(Stale(r))
        /\ inbox' = [inbox EXCEPT ![u] = Nothing]
        /\ UNCHANGED <<unit, cloud, told, window, queue, engine, writer, poll, left, excused>>
    BY DEF DrainReport
  <1>4. Stale(r) = IF inbox[u] # unit[u] THEN {u} ELSE {}
    BY <1>2 DEF Stale
  <1> HIDE DEF r
  <1> QED
    BY <1>1, <1>2, <1>3, <1>4, Stored

\* The poll goroutine at rest, a snapshot it has got, and the copies it replays.
LEMMA PollTyped ==
    ASSUME TypeOK
    PROVE  /\ Asleep \in Polls /\ Asleep.at = "idle" /\ Asleep.snap = Nothing /\ Asleep.one = Nothing
           /\ [poll EXCEPT !.at = "answered", !.snap = cloud] \in Polls
           /\ [poll EXCEPT !.at = "stored", !.snap = Nothing] \in Polls
           /\ \A rs \in SUBSET Reports :
                /\ [poll EXCEPT !.at = "replay", !.replay = rs] \in Polls
                /\ \A r \in Reports : [poll EXCEPT !.at = "mode", !.replay = @ \ {r}, !.one = r] \in Polls
           /\ [poll EXCEPT !.at = "replay", !.one = Nothing] \in Polls
  BY DEF TypeOK, Polls, Asleep

\* A snapshot is not "nothing".
LEMMA SnapshotIsSomething == TypeOK => cloud # Nothing
  <1> SUFFICES ASSUME TypeOK, cloud = Nothing
               PROVE  FALSE
    OBVIOUS
  <1> QED
    BY NothingIsNoValue DEF TypeOK

\* The copies LearnGroups makes are reports.
LEMMA CopiesTyped ==
    ASSUME TypeOK
    PROVE  {Report(u, lastLocal[u]) : u \in {v \in Local : lastLocal[v] # Nothing}} \in SUBSET Reports
  <1> SUFFICES ASSUME NEW u \in Local, lastLocal[u] # Nothing
               PROVE  Report(u, lastLocal[u]) \in Reports
    OBVIOUS
  <1>1. lastLocal[u] \in Status
    BY DEF TypeOK
  <1> QED
    BY <1>1, ReportTyped

\* What StoreSnapshot makes of the caches.
LEMMA SnapshotStored ==
    ASSUME TypeOK, StoreSnapshot
    PROVE  /\ poll.snap \in [Units -> Status]
           /\ powerCache' \in [Units -> BOOLEAN \cup {Nothing}]
           /\ modeCache' \in [Units -> Modes \cup {Nothing}]
           /\ \A u \in Units :
                /\ \/ u \in Local /\ powerCache[u] # Nothing /\ powerCache'[u] = powerCache[u]
                   \/ ~(u \in Local /\ powerCache[u] # Nothing) /\ powerCache'[u] = poll.snap[u].on
                /\ \/ u \in Local /\ modeCache[u] # Nothing /\ modeCache'[u] = modeCache[u]
                   \/ ~(u \in Local /\ modeCache[u] # Nothing) /\ modeCache'[u] = poll.snap[u].mode
           /\ UNCHANGED <<unit, lastLocal, queue, engine, writer, excused>>
           /\ Account({u \in Units : /\ u \in Local => Nothing \in {powerCache[u], modeCache[u]}
                                     /\ poll.snap[u] # unit[u]})
  <1>1. poll.snap \in [Units -> Status]
    BY DEF StoreSnapshot, TypeOK, Polls
  <1>2. \A u \in Units : poll.snap[u].on \in BOOLEAN /\ poll.snap[u].mode \in Modes
    BY <1>1 DEF Status
  <1>3. /\ powerCache' = [u \in Units |-> FromCloud(powerCache[u], u, poll.snap[u].on)]
        /\ modeCache' = [u \in Units |-> FromCloud(modeCache[u], u, poll.snap[u].mode)]
        /\ UNCHANGED <<unit, lastLocal, queue, engine, writer, excused>>
        /\ Account({u \in Units : /\ u \in Local => Nothing \in {powerCache[u], modeCache[u]}
                                  /\ poll.snap[u] # unit[u]})
    BY DEF StoreSnapshot, PollOnly, world
  <1>4. \A u \in Units :
          /\ \/ u \in Local /\ powerCache[u] # Nothing /\ powerCache'[u] = powerCache[u]
             \/ ~(u \in Local /\ powerCache[u] # Nothing) /\ powerCache'[u] = poll.snap[u].on
          /\ \/ u \in Local /\ modeCache[u] # Nothing /\ modeCache'[u] = modeCache[u]
             \/ ~(u \in Local /\ modeCache[u] # Nothing) /\ modeCache'[u] = poll.snap[u].mode
    BY <1>3 DEF FromCloud
  <1>5. /\ \A u \in Units : FromCloud(powerCache[u], u, poll.snap[u].on) \in BOOLEAN \cup {Nothing}
        /\ \A u \in Units : FromCloud(modeCache[u], u, poll.snap[u].mode) \in Modes \cup {Nothing}
    BY <1>2 DEF FromCloud, TypeOK
  <1>6. powerCache' \in [Units -> BOOLEAN \cup {Nothing}] /\ modeCache' \in [Units -> Modes \cup {Nothing}]
    BY <1>3, <1>5
  <1> QED
    BY <1>1, <1>3, <1>4, <1>6

\* Every step keeps the types.
LEMMA TypeStep == IInv /\ [Next]_vars => TypeOK'
  <1> SUFFICES ASSUME IInv, [Next]_vars
               PROVE  TypeOK'
    OBVIOUS
  <1>a. TypeOK /\ ShapeInv /\ WakeInv /\ HvacInv /\ FitInv /\ PeaceInv /\ BlockInv
    BY DEF IInv
  <1>1. ASSUME NEW u \in Units, Remote(u)
        PROVE  TypeOK'
    <2>1. /\ unit' \in [Units -> Status] /\ cloud' \in [Units -> Status]
          /\ told' \in [Local -> Status] /\ inbox' \in [Local -> Status \cup {Nothing}]
      <3>1. unit' \in [Units -> Status]
        <4>1. /\ unit[u] \in Status /\ unit \in [Units -> Status]
              /\ [unit[u] EXCEPT !.on = ~@] \in Status /\ \A m \in Modes : [unit[u] EXCEPT !.mode = m] \in Status
          <5>1. unit[u] \in Status /\ unit \in [Units -> Status]
            BY <1>a DEF TypeOK
          <5>2. \A b \in BOOLEAN : [unit[u] EXCEPT !.on = b] \in Status
            BY <5>1 DEF Status
          <5>3. (~unit[u].on) \in BOOLEAN
            OBVIOUS
          <5>4. [unit[u] EXCEPT !.on = ~@] = [unit[u] EXCEPT !.on = ~unit[u].on]
            OBVIOUS
          <5>5. \A m \in Modes : [unit[u] EXCEPT !.mode = m] \in Status
            BY <5>1 DEF Status
          <5> QED
            BY <5>1, <5>2, <5>3, <5>4, <5>5
        <4>2. \/ unit' = [unit EXCEPT ![u] = [unit[u] EXCEPT !.on = ~@]]
              \/ \E m \in Modes : unit' = [unit EXCEPT ![u] = [unit[u] EXCEPT !.mode = m]]
          BY <1>1 DEF Remote
        <4> QED
          BY <4>1, <4>2
      <3> QED
        BY <1>a, <1>1, <3>1 DEF TypeOK, Remote
    <2>2. /\ lastLocal' \in [Local -> Status \cup {Nothing}] /\ window' \in BOOLEAN
          /\ powerCache' \in [Units -> BOOLEAN \cup {Nothing}] /\ modeCache' \in [Units -> Modes \cup {Nothing}]
          /\ learnt' \in {Nothing, "units", "groups"}
      BY <1>a, <1>1 DEF TypeOK, Remote, Event, world, caches, history
    <2>3. /\ queue' \in Seq(Requests) /\ Len(queue') <= Capacity
          /\ engine' \in {r \in Requests : r.item = "setpoint"} \cup {Nothing}
          /\ left' \in 0..MaxEvents
      <3>1. left' \in 0..MaxEvents
        BY <1>a, <1>1, WriteConstants DEF Event, Remote, TypeOK
      <3> QED
        BY <1>a, <1>1, <3>1 DEF TypeOK, Remote, world, caches, history
    <2>4. /\ writer' \in Writers
          /\ writer'.at \in {"set", "note"} <=> writer'.todo # <<>>
          /\ writer'.at = "sync" => writer'.peers # <<>>
      BY <1>a, <1>1 DEF TypeOK, Remote, Event, world, caches, history
    <2>5. /\ drain' \in Reports \cup {Nothing} /\ poll' \in Polls
          /\ poll'.at = "answered" => poll'.snap # Nothing
          /\ poll'.at = "mode" <=> poll'.one # Nothing
      BY <1>a, <1>1 DEF TypeOK, Remote, Event, world, caches, history
    <2>6. /\ misled' \in [Units -> BOOLEAN] /\ spoilt' \in [Units -> BOOLEAN] /\ excused' \in BOOLEAN
      BY <1>a, <1>1, Accounted DEF TypeOK, Remote
    <2> QED
      BY <2>1, <2>2, <2>3, <2>4, <2>5, <2>6 DEF TypeOK
  <1>2. ASSUME NEW u \in Units, CloudCatchesUp(u)
        PROVE  TypeOK'
    BY <1>a, <1>2 DEF CloudCatchesUp, TypeOK, world, caches, history
  <1>3. ASSUME NEW u \in Local, Reported(u)
        PROVE  TypeOK'
    <2>1. /\ unit' \in [Units -> Status] /\ cloud' \in [Units -> Status]
          /\ told' \in [Local -> Status] /\ inbox' \in [Local -> Status \cup {Nothing}]
      <3>1. unit[u] \in Status
        BY <1>a, <1>3, WriteConstants DEF TypeOK
      <3> QED
        BY <1>a, <1>3, <3>1 DEF TypeOK, Reported
    <2>2. /\ lastLocal' \in [Local -> Status \cup {Nothing}] /\ window' \in BOOLEAN
          /\ powerCache' \in [Units -> BOOLEAN \cup {Nothing}] /\ modeCache' \in [Units -> Modes \cup {Nothing}]
          /\ learnt' \in {Nothing, "units", "groups"}
      BY <1>a, <1>3 DEF TypeOK, Reported, world, caches, history
    <2>3. /\ queue' \in Seq(Requests) /\ Len(queue') <= Capacity
          /\ engine' \in {r \in Requests : r.item = "setpoint"} \cup {Nothing}
          /\ left' \in 0..MaxEvents
      BY <1>a, <1>3 DEF TypeOK, Reported, world, caches, history
    <2>4. /\ writer' \in Writers
          /\ writer'.at \in {"set", "note"} <=> writer'.todo # <<>>
          /\ writer'.at = "sync" => writer'.peers # <<>>
      BY <1>a, <1>3 DEF TypeOK, Reported, world, caches, history
    <2>5. /\ drain' \in Reports \cup {Nothing} /\ poll' \in Polls
          /\ poll'.at = "answered" => poll'.snap # Nothing
          /\ poll'.at = "mode" <=> poll'.one # Nothing
      BY <1>a, <1>3 DEF TypeOK, Reported, world, caches, history
    <2>6. /\ misled' \in [Units -> BOOLEAN] /\ spoilt' \in [Units -> BOOLEAN] /\ excused' \in BOOLEAN
      BY <1>a, <1>3 DEF TypeOK, Reported, world, caches, history
    <2> QED
      BY <2>1, <2>2, <2>3, <2>4, <2>5, <2>6 DEF TypeOK
  <1>4. CASE WindowEnds
    BY <1>a, <1>4 DEF WindowEnds, TypeOK, world, caches, history
  <1>5. ASSUME NEW r \in Commands, Receive(r)
        PROVE  TypeOK'
    <2>1. /\ unit' \in [Units -> Status] /\ cloud' \in [Units -> Status]
          /\ told' \in [Local -> Status] /\ inbox' \in [Local -> Status \cup {Nothing}]
      BY <1>a, <1>5 DEF TypeOK, Receive, Event, HasRoom, world, caches, history
    <2>2. /\ lastLocal' \in [Local -> Status \cup {Nothing}] /\ window' \in BOOLEAN
          /\ powerCache' \in [Units -> BOOLEAN \cup {Nothing}] /\ modeCache' \in [Units -> Modes \cup {Nothing}]
          /\ learnt' \in {Nothing, "units", "groups"}
      BY <1>a, <1>5 DEF TypeOK, Receive, Event, HasRoom, world, caches, history
    <2>3. /\ queue' \in Seq(Requests) /\ Len(queue') <= Capacity
          /\ engine' \in {s \in Requests : s.item = "setpoint"} \cup {Nothing}
          /\ left' \in 0..MaxEvents
      <3>1. left' \in 0..MaxEvents
        BY <1>a, <1>5, WriteConstants DEF Receive, Event, TypeOK
      <3>2. r \in Requests /\ Capacity \in Nat
        BY <1>5, WriteConstants
      <3>3. queue' \in Seq(Requests) /\ Len(queue') <= Capacity /\ engine' = engine
        BY <1>a, <1>5, <3>2, WriteConstants DEF Receive, HasRoom, TypeOK
      <3> QED
        BY <1>a, <3>1, <3>3 DEF TypeOK
    <2>4. /\ writer' \in Writers
          /\ writer'.at \in {"set", "note"} <=> writer'.todo # <<>>
          /\ writer'.at = "sync" => writer'.peers # <<>>
      BY <1>a, <1>5 DEF TypeOK, Receive, Event, HasRoom, world, caches, history
    <2>5. /\ drain' \in Reports \cup {Nothing} /\ poll' \in Polls
          /\ poll'.at = "answered" => poll'.snap # Nothing
          /\ poll'.at = "mode" <=> poll'.one # Nothing
      BY <1>a, <1>5 DEF TypeOK, Receive, Event, HasRoom, world, caches, history
    <2>6. /\ misled' \in [Units -> BOOLEAN] /\ spoilt' \in [Units -> BOOLEAN] /\ excused' \in BOOLEAN
      BY <1>a, <1>5 DEF TypeOK, Receive, Event, HasRoom, world, caches, history
    <2> QED
      BY <2>1, <2>2, <2>3, <2>4, <2>5, <2>6 DEF TypeOK
  <1>6. ASSUME NEW a \in Actions, Apply(a)
        PROVE  TypeOK'
    <2>1. /\ unit' \in [Units -> Status] /\ cloud' \in [Units -> Status]
          /\ told' \in [Local -> Status] /\ inbox' \in [Local -> Status \cup {Nothing}]
      BY <1>a, <1>6 DEF TypeOK, Apply, Event, HasRoom, world, caches, history
    <2>2. /\ lastLocal' \in [Local -> Status \cup {Nothing}] /\ window' \in BOOLEAN
          /\ powerCache' \in [Units -> BOOLEAN \cup {Nothing}] /\ modeCache' \in [Units -> Modes \cup {Nothing}]
          /\ learnt' \in {Nothing, "units", "groups"}
      BY <1>a, <1>6 DEF TypeOK, Apply, Event, HasRoom, world, caches, history
    <2>3. /\ queue' \in Seq(Requests) /\ Len(queue') <= Capacity
          /\ engine' \in {r \in Requests : r.item = "setpoint"} \cup {Nothing}
          /\ left' \in 0..MaxEvents
      <3>1. left' \in 0..MaxEvents
        BY <1>a, <1>6, WriteConstants DEF Apply, Event, TypeOK
      <3>2. Len(queue') <= Capacity /\ queue' \in Seq(Requests)
        BY <1>a, <1>6, WriteConstants, RequestsTyped DEF Apply, HasRoom, TypeOK
      <3>3. engine' \in {r \in Requests : r.item = "setpoint"} \cup {Nothing}
        BY <1>a, <1>6, RequestsTyped DEF Apply
      <3> QED
        BY <3>1, <3>2, <3>3
    <2>4. /\ writer' \in Writers
          /\ writer'.at \in {"set", "note"} <=> writer'.todo # <<>>
          /\ writer'.at = "sync" => writer'.peers # <<>>
      BY <1>a, <1>6 DEF TypeOK, Apply, Event, HasRoom, world, caches, history
    <2>5. /\ drain' \in Reports \cup {Nothing} /\ poll' \in Polls
          /\ poll'.at = "answered" => poll'.snap # Nothing
          /\ poll'.at = "mode" <=> poll'.one # Nothing
      BY <1>a, <1>6 DEF TypeOK, Apply, Event, HasRoom, world, caches, history
    <2>6. /\ misled' \in [Units -> BOOLEAN] /\ spoilt' \in [Units -> BOOLEAN] /\ excused' \in BOOLEAN
      BY <1>a, <1>6 DEF TypeOK, Apply, Event, HasRoom, world, caches, history
    <2> QED
      BY <2>1, <2>2, <2>3, <2>4, <2>5, <2>6 DEF TypeOK
  <1>7. CASE ApplySetpoint
    <2>1. /\ unit' \in [Units -> Status] /\ cloud' \in [Units -> Status]
          /\ told' \in [Local -> Status] /\ inbox' \in [Local -> Status \cup {Nothing}]
      BY <1>a, <1>7 DEF TypeOK, ApplySetpoint, HasRoom, world, caches, history
    <2>2. /\ lastLocal' \in [Local -> Status \cup {Nothing}] /\ window' \in BOOLEAN
          /\ powerCache' \in [Units -> BOOLEAN \cup {Nothing}] /\ modeCache' \in [Units -> Modes \cup {Nothing}]
          /\ learnt' \in {Nothing, "units", "groups"}
      BY <1>a, <1>7 DEF TypeOK, ApplySetpoint, HasRoom, world, caches, history
    <2>3. /\ queue' \in Seq(Requests) /\ Len(queue') <= Capacity
          /\ engine' \in {r \in Requests : r.item = "setpoint"} \cup {Nothing}
          /\ left' \in 0..MaxEvents
      <3>1. queue' \in Seq(Requests) /\ Len(queue') <= Capacity
        BY <1>a, <1>7, WriteConstants DEF ApplySetpoint, HasRoom, TypeOK
      <3> QED
        BY <1>a, <1>7, <3>1 DEF ApplySetpoint, TypeOK
    <2>4. /\ writer' \in Writers
          /\ writer'.at \in {"set", "note"} <=> writer'.todo # <<>>
          /\ writer'.at = "sync" => writer'.peers # <<>>
      BY <1>a, <1>7 DEF TypeOK, ApplySetpoint, HasRoom, world, caches, history
    <2>5. /\ drain' \in Reports \cup {Nothing} /\ poll' \in Polls
          /\ poll'.at = "answered" => poll'.snap # Nothing
          /\ poll'.at = "mode" <=> poll'.one # Nothing
      BY <1>a, <1>7 DEF TypeOK, ApplySetpoint, HasRoom, world, caches, history
    <2>6. /\ misled' \in [Units -> BOOLEAN] /\ spoilt' \in [Units -> BOOLEAN] /\ excused' \in BOOLEAN
      BY <1>a, <1>7 DEF TypeOK, ApplySetpoint, HasRoom, world, caches, history
    <2> QED
      BY <2>1, <2>2, <2>3, <2>4, <2>5, <2>6 DEF TypeOK
  <1>8. CASE Take
    <2>1. /\ unit' \in [Units -> Status] /\ cloud' \in [Units -> Status]
          /\ told' \in [Local -> Status] /\ inbox' \in [Local -> Status \cup {Nothing}]
      BY <1>a, <1>8 DEF TypeOK, Take, world, caches, history
    <2>2. /\ lastLocal' \in [Local -> Status \cup {Nothing}] /\ window' \in BOOLEAN
          /\ powerCache' \in [Units -> BOOLEAN \cup {Nothing}] /\ modeCache' \in [Units -> Modes \cup {Nothing}]
          /\ learnt' \in {Nothing, "units", "groups"}
      BY <1>a, <1>8 DEF TypeOK, Take, world, caches, history
    <2>3. /\ queue' \in Seq(Requests) /\ Len(queue') <= Capacity
          /\ engine' \in {r \in Requests : r.item = "setpoint"} \cup {Nothing}
          /\ left' \in 0..MaxEvents
      BY <1>a, <1>8, Taken, WriteConstants DEF TypeOK, Take
    <2>4. /\ writer' \in Writers
          /\ writer'.at \in {"set", "note"} <=> writer'.todo # <<>>
          /\ writer'.at = "sync" => writer'.peers # <<>>
      BY <1>a, <1>8, Taken, SettingsTyped DEF Idle
    <2>5. /\ drain' \in Reports \cup {Nothing} /\ poll' \in Polls
          /\ poll'.at = "answered" => poll'.snap # Nothing
          /\ poll'.at = "mode" <=> poll'.one # Nothing
      BY <1>a, <1>8 DEF TypeOK, Take, world, caches, history
    <2>6. /\ misled' \in [Units -> BOOLEAN] /\ spoilt' \in [Units -> BOOLEAN] /\ excused' \in BOOLEAN
      <3>1. excused' \in BOOLEAN
        BY <1>a, <1>8, Taken DEF TypeOK
      <3> QED
        BY <1>a, <1>8, <3>1 DEF TypeOK, Take
    <2> QED
      BY <2>1, <2>2, <2>3, <2>4, <2>5, <2>6 DEF TypeOK
  <1>9. CASE SetAccepted
    <2>1. /\ unit' \in [Units -> Status] /\ cloud' \in [Units -> Status]
          /\ told' \in [Local -> Status] /\ inbox' \in [Local -> Status \cup {Nothing}]
      <3>1. writer.todo # <<>> /\ HappensTo(ThisSetting) /\ UNCHANGED <<cloud, told, inbox>>
        BY <1>a, <1>9 DEF SetAccepted, TypeOK
      <3> QED
        BY <1>a, <3>1, Made DEF TypeOK
    <2>2. /\ lastLocal' \in [Local -> Status \cup {Nothing}] /\ window' \in BOOLEAN
          /\ powerCache' \in [Units -> BOOLEAN \cup {Nothing}] /\ modeCache' \in [Units -> Modes \cup {Nothing}]
          /\ learnt' \in {Nothing, "units", "groups"}
      <3>1. (window \/ ServedByCloud(ThisSetting)) \in BOOLEAN
        OBVIOUS
      <3> QED
        BY <1>a, <1>9, <3>1 DEF SetAccepted, TypeOK, caches
    <2>3. /\ queue' \in Seq(Requests) /\ Len(queue') <= Capacity
          /\ engine' \in {r \in Requests : r.item = "setpoint"} \cup {Nothing}
          /\ left' \in 0..MaxEvents
      BY <1>a, <1>9 DEF TypeOK, SetAccepted, world, caches, history
    <2>4. /\ writer' \in Writers
          /\ writer'.at \in {"set", "note"} <=> writer'.todo # <<>>
          /\ writer'.at = "sync" => writer'.peers # <<>>
      <3>1. writer' = [writer EXCEPT !.at = "note"] /\ writer.at = "set"
        BY <1>9 DEF SetAccepted
      <3> QED
        BY <1>a, <3>1 DEF TypeOK, Writers
    <2>5. /\ drain' \in Reports \cup {Nothing} /\ poll' \in Polls
          /\ poll'.at = "answered" => poll'.snap # Nothing
          /\ poll'.at = "mode" <=> poll'.one # Nothing
      BY <1>a, <1>9 DEF TypeOK, SetAccepted, world, caches, history
    <2>6. /\ misled' \in [Units -> BOOLEAN] /\ spoilt' \in [Units -> BOOLEAN] /\ excused' \in BOOLEAN
      BY <1>a, <1>9, Accounted DEF TypeOK, SetAccepted
    <2> QED
      BY <2>1, <2>2, <2>3, <2>4, <2>5, <2>6 DEF TypeOK
  <1>10. CASE SetVanishes
    <2>1. /\ unit' \in [Units -> Status] /\ cloud' \in [Units -> Status]
          /\ told' \in [Local -> Status] /\ inbox' \in [Local -> Status \cup {Nothing}]
      BY <1>a, <1>10 DEF TypeOK, SetVanishes, Event, world, caches, history
    <2>2. /\ lastLocal' \in [Local -> Status \cup {Nothing}] /\ window' \in BOOLEAN
          /\ powerCache' \in [Units -> BOOLEAN \cup {Nothing}] /\ modeCache' \in [Units -> Modes \cup {Nothing}]
          /\ learnt' \in {Nothing, "units", "groups"}
      BY <1>a, <1>10 DEF TypeOK, SetVanishes, Event, world, caches, history
    <2>3. /\ queue' \in Seq(Requests) /\ Len(queue') <= Capacity
          /\ engine' \in {r \in Requests : r.item = "setpoint"} \cup {Nothing}
          /\ left' \in 0..MaxEvents
      <3>1. left' \in 0..MaxEvents
        BY <1>a, <1>10, WriteConstants DEF Event, SetVanishes, TypeOK
      <3> QED
        BY <1>a, <1>10, <3>1 DEF TypeOK, SetVanishes, world, caches, history
    <2>4. /\ writer' \in Writers
          /\ writer'.at \in {"set", "note"} <=> writer'.todo # <<>>
          /\ writer'.at = "sync" => writer'.peers # <<>>
      <3>1. writer' = [writer EXCEPT !.at = "note"] /\ writer.at = "set"
        BY <1>10 DEF SetVanishes
      <3> QED
        BY <1>a, <3>1 DEF TypeOK, Writers
    <2>5. /\ drain' \in Reports \cup {Nothing} /\ poll' \in Polls
          /\ poll'.at = "answered" => poll'.snap # Nothing
          /\ poll'.at = "mode" <=> poll'.one # Nothing
      BY <1>a, <1>10 DEF TypeOK, SetVanishes, Event, world, caches, history
    <2>6. /\ misled' \in [Units -> BOOLEAN] /\ spoilt' \in [Units -> BOOLEAN] /\ excused' \in BOOLEAN
      BY <1>a, <1>10 DEF TypeOK, SetVanishes
    <2> QED
      BY <2>1, <2>2, <2>3, <2>4, <2>5, <2>6 DEF TypeOK
  <1>11. CASE SetRefused
    <2>1. /\ unit' \in [Units -> Status] /\ cloud' \in [Units -> Status]
          /\ told' \in [Local -> Status] /\ inbox' \in [Local -> Status \cup {Nothing}]
      BY <1>a, <1>11 DEF TypeOK, SetRefused, Event, world, caches, history
    <2>2. /\ lastLocal' \in [Local -> Status \cup {Nothing}] /\ window' \in BOOLEAN
          /\ powerCache' \in [Units -> BOOLEAN \cup {Nothing}] /\ modeCache' \in [Units -> Modes \cup {Nothing}]
          /\ learnt' \in {Nothing, "units", "groups"}
      BY <1>a, <1>11 DEF TypeOK, SetRefused, Event, world, caches, history
    <2>3. /\ queue' \in Seq(Requests) /\ Len(queue') <= Capacity
          /\ engine' \in {r \in Requests : r.item = "setpoint"} \cup {Nothing}
          /\ left' \in 0..MaxEvents
      <3>1. left' \in 0..MaxEvents
        BY <1>a, <1>11, WriteConstants DEF Event, SetRefused, TypeOK
      <3> QED
        BY <1>a, <1>11, <3>1 DEF TypeOK, SetRefused, world, caches, history
    <2>4. /\ writer' \in Writers
          /\ writer'.at \in {"set", "note"} <=> writer'.todo # <<>>
          /\ writer'.at = "sync" => writer'.peers # <<>>
      <3>1. writer' = GivenUp /\ writer.todo # <<>>
        BY <1>a, <1>11 DEF SetRefused, TypeOK
      <3> QED
        BY <1>a, <3>1, Ended
    <2>5. /\ drain' \in Reports \cup {Nothing} /\ poll' \in Polls
          /\ poll'.at = "answered" => poll'.snap # Nothing
          /\ poll'.at = "mode" <=> poll'.one # Nothing
      BY <1>a, <1>11 DEF TypeOK, SetRefused, Event, world, caches, history
    <2>6. /\ misled' \in [Units -> BOOLEAN] /\ spoilt' \in [Units -> BOOLEAN] /\ excused' \in BOOLEAN
      <3>1. writer.todo # <<>> /\ spoilt' = [spoilt EXCEPT ![ThisSetting.unit] = TRUE] /\ excused' = TRUE
        BY <1>a, <1>11 DEF SetRefused, Spoils, TypeOK
      <3>2. spoilt' \in [Units -> BOOLEAN]
        BY <1>a, <3>1, InTheHand DEF TypeOK
      <3>3. misled' \in [Units -> BOOLEAN]
        BY <1>a, <1>11 DEF SetRefused, TypeOK
      <3> QED
        BY <3>1, <3>2, <3>3
    <2> QED
      BY <2>1, <2>2, <2>3, <2>4, <2>5, <2>6 DEF TypeOK
  <1>12. CASE AnswerLost
    <2>1. /\ unit' \in [Units -> Status] /\ cloud' \in [Units -> Status]
          /\ told' \in [Local -> Status] /\ inbox' \in [Local -> Status \cup {Nothing}]
      <3>1. writer.todo # <<>> /\ HappensTo(ThisSetting) /\ UNCHANGED <<cloud, told, inbox>>
        BY <1>a, <1>12 DEF AnswerLost, TypeOK
      <3> QED
        BY <1>a, <3>1, Made DEF TypeOK
    <2>2. /\ lastLocal' \in [Local -> Status \cup {Nothing}] /\ window' \in BOOLEAN
          /\ powerCache' \in [Units -> BOOLEAN \cup {Nothing}] /\ modeCache' \in [Units -> Modes \cup {Nothing}]
          /\ learnt' \in {Nothing, "units", "groups"}
      BY <1>a, <1>12 DEF TypeOK, AnswerLost, Event, world, caches, history
    <2>3. /\ queue' \in Seq(Requests) /\ Len(queue') <= Capacity
          /\ engine' \in {r \in Requests : r.item = "setpoint"} \cup {Nothing}
          /\ left' \in 0..MaxEvents
      <3>1. left' \in 0..MaxEvents
        BY <1>a, <1>12, WriteConstants DEF Event, AnswerLost, TypeOK
      <3> QED
        BY <1>a, <1>12, <3>1 DEF TypeOK, AnswerLost, world, caches, history
    <2>4. /\ writer' \in Writers
          /\ writer'.at \in {"set", "note"} <=> writer'.todo # <<>>
          /\ writer'.at = "sync" => writer'.peers # <<>>
      <3>1. writer' = GivenUp /\ writer.todo # <<>>
        BY <1>a, <1>12 DEF AnswerLost, TypeOK
      <3> QED
        BY <1>a, <3>1, Ended
    <2>5. /\ drain' \in Reports \cup {Nothing} /\ poll' \in Polls
          /\ poll'.at = "answered" => poll'.snap # Nothing
          /\ poll'.at = "mode" <=> poll'.one # Nothing
      BY <1>a, <1>12 DEF TypeOK, AnswerLost, Event, world, caches, history
    <2>6. /\ misled' \in [Units -> BOOLEAN] /\ spoilt' \in [Units -> BOOLEAN] /\ excused' \in BOOLEAN
      <3>1. writer.todo # <<>> /\ spoilt' = [spoilt EXCEPT ![ThisSetting.unit] = TRUE] /\ excused' = TRUE
        BY <1>a, <1>12 DEF AnswerLost, Spoils, TypeOK
      <3>2. spoilt' \in [Units -> BOOLEAN]
        BY <1>a, <3>1, InTheHand DEF TypeOK
      <3>3. misled' \in [Units -> BOOLEAN]
        <4>1. (~AgreesNext(ThisSetting.unit)) \in BOOLEAN
          OBVIOUS
        <4> QED
          BY <1>a, <1>12, <4>1 DEF AnswerLost, TypeOK
      <3> QED
        BY <3>1, <3>2, <3>3
    <2> QED
      BY <2>1, <2>2, <2>3, <2>4, <2>5, <2>6 DEF TypeOK
  <1>13. CASE NoteWrite
    <2>1. /\ unit' \in [Units -> Status] /\ cloud' \in [Units -> Status]
          /\ told' \in [Local -> Status] /\ inbox' \in [Local -> Status \cup {Nothing}]
      BY <1>a, <1>13 DEF TypeOK, NoteWrite, world, caches, history
    <2>2. /\ lastLocal' \in [Local -> Status \cup {Nothing}] /\ window' \in BOOLEAN
          /\ powerCache' \in [Units -> BOOLEAN \cup {Nothing}] /\ modeCache' \in [Units -> Modes \cup {Nothing}]
          /\ learnt' \in {Nothing, "units", "groups"}
      BY <1>a, <1>13, NotedAndNext DEF TypeOK, NoteWrite
    <2>3. /\ queue' \in Seq(Requests) /\ Len(queue') <= Capacity
          /\ engine' \in {r \in Requests : r.item = "setpoint"} \cup {Nothing}
          /\ left' \in 0..MaxEvents
      BY <1>a, <1>13 DEF TypeOK, NoteWrite, world, caches, history
    <2>4. /\ writer' \in Writers
          /\ writer'.at \in {"set", "note"} <=> writer'.todo # <<>>
          /\ writer'.at = "sync" => writer'.peers # <<>>
      BY <1>a, <1>13, NotedAndNext
    <2>5. /\ drain' \in Reports \cup {Nothing} /\ poll' \in Polls
          /\ poll'.at = "answered" => poll'.snap # Nothing
          /\ poll'.at = "mode" <=> poll'.one # Nothing
      BY <1>a, <1>13 DEF TypeOK, NoteWrite, world, caches, history
    <2>6. /\ misled' \in [Units -> BOOLEAN] /\ spoilt' \in [Units -> BOOLEAN] /\ excused' \in BOOLEAN
      BY <1>a, <1>13, NotedAccount, NotedAndNext
    <2> QED
      BY <2>1, <2>2, <2>3, <2>4, <2>5, <2>6 DEF TypeOK
  <1>14. CASE SyncPeer
    <2>1. /\ unit' \in [Units -> Status] /\ cloud' \in [Units -> Status]
          /\ told' \in [Local -> Status] /\ inbox' \in [Local -> Status \cup {Nothing}]
      BY <1>a, <1>14 DEF TypeOK, SyncPeer, world, caches, history
    <2>2. /\ lastLocal' \in [Local -> Status \cup {Nothing}] /\ window' \in BOOLEAN
          /\ powerCache' \in [Units -> BOOLEAN \cup {Nothing}] /\ modeCache' \in [Units -> Modes \cup {Nothing}]
          /\ learnt' \in {Nothing, "units", "groups"}
      BY <1>a, <1>14 DEF TypeOK, SyncPeer, world, caches, history
    <2>3. /\ queue' \in Seq(Requests) /\ Len(queue') <= Capacity
          /\ engine' \in {r \in Requests : r.item = "setpoint"} \cup {Nothing}
          /\ left' \in 0..MaxEvents
      BY <1>a, <1>14 DEF TypeOK, SyncPeer, world, caches, history
    <2>4. /\ writer' \in Writers
          /\ writer'.at \in {"set", "note"} <=> writer'.todo # <<>>
          /\ writer'.at = "sync" => writer'.peers # <<>>
      BY <1>a, <1>14, PeerLookedAt
    <2>5. /\ drain' \in Reports \cup {Nothing} /\ poll' \in Polls
          /\ poll'.at = "answered" => poll'.snap # Nothing
          /\ poll'.at = "mode" <=> poll'.one # Nothing
      BY <1>a, <1>14 DEF TypeOK, SyncPeer, world, caches, history
    <2>6. /\ misled' \in [Units -> BOOLEAN] /\ spoilt' \in [Units -> BOOLEAN] /\ excused' \in BOOLEAN
      BY <1>a, <1>14, PeerLookedAt DEF TypeOK
    <2> QED
      BY <2>1, <2>2, <2>3, <2>4, <2>5, <2>6 DEF TypeOK
  <1>15. ASSUME NEW u \in Local, DrainReport(u)
        PROVE  TypeOK'
    <2>1. /\ unit' \in [Units -> Status] /\ cloud' \in [Units -> Status]
          /\ told' \in [Local -> Status] /\ inbox' \in [Local -> Status \cup {Nothing}]
      BY <1>a, <1>15, Drained DEF TypeOK
    <2>2. /\ lastLocal' \in [Local -> Status \cup {Nothing}] /\ window' \in BOOLEAN
          /\ powerCache' \in [Units -> BOOLEAN \cup {Nothing}] /\ modeCache' \in [Units -> Modes \cup {Nothing}]
          /\ learnt' \in {Nothing, "units", "groups"}
      BY <1>a, <1>15, Drained DEF TypeOK
    <2>3. /\ queue' \in Seq(Requests) /\ Len(queue') <= Capacity
          /\ engine' \in {r \in Requests : r.item = "setpoint"} \cup {Nothing}
          /\ left' \in 0..MaxEvents
      BY <1>a, <1>15, Drained DEF TypeOK
    <2>4. /\ writer' \in Writers
          /\ writer'.at \in {"set", "note"} <=> writer'.todo # <<>>
          /\ writer'.at = "sync" => writer'.peers # <<>>
      BY <1>a, <1>15, Drained DEF TypeOK
    <2>5. /\ drain' \in Reports \cup {Nothing} /\ poll' \in Polls
          /\ poll'.at = "answered" => poll'.snap # Nothing
          /\ poll'.at = "mode" <=> poll'.one # Nothing
      BY <1>a, <1>15, Drained DEF TypeOK
    <2>6. /\ misled' \in [Units -> BOOLEAN] /\ spoilt' \in [Units -> BOOLEAN] /\ excused' \in BOOLEAN
      BY <1>a, <1>15, Drained, Accounted DEF TypeOK
    <2> QED
      BY <2>1, <2>2, <2>3, <2>4, <2>5, <2>6 DEF TypeOK
  <1>16. CASE DrainMode
    <2>1. /\ unit' \in [Units -> Status] /\ cloud' \in [Units -> Status]
          /\ told' \in [Local -> Status] /\ inbox' \in [Local -> Status \cup {Nothing}]
      BY <1>a, <1>16 DEF TypeOK, DrainMode, world, caches, history
    <2>2. /\ lastLocal' \in [Local -> Status \cup {Nothing}] /\ window' \in BOOLEAN
          /\ powerCache' \in [Units -> BOOLEAN \cup {Nothing}] /\ modeCache' \in [Units -> Modes \cup {Nothing}]
          /\ learnt' \in {Nothing, "units", "groups"}
      BY <1>a, <1>16, Stored DEF DrainMode, TypeOK
    <2>3. /\ queue' \in Seq(Requests) /\ Len(queue') <= Capacity
          /\ engine' \in {r \in Requests : r.item = "setpoint"} \cup {Nothing}
          /\ left' \in 0..MaxEvents
      BY <1>a, <1>16 DEF TypeOK, DrainMode, world, caches, history
    <2>4. /\ writer' \in Writers
          /\ writer'.at \in {"set", "note"} <=> writer'.todo # <<>>
          /\ writer'.at = "sync" => writer'.peers # <<>>
      BY <1>a, <1>16 DEF TypeOK, DrainMode, world, caches, history
    <2>5. /\ drain' \in Reports \cup {Nothing} /\ poll' \in Polls
          /\ poll'.at = "answered" => poll'.snap # Nothing
          /\ poll'.at = "mode" <=> poll'.one # Nothing
      BY <1>a, <1>16 DEF TypeOK, DrainMode, world, caches, history
    <2>6. /\ misled' \in [Units -> BOOLEAN] /\ spoilt' \in [Units -> BOOLEAN] /\ excused' \in BOOLEAN
      BY <1>a, <1>16, Accounted DEF TypeOK, DrainMode
    <2> QED
      BY <2>1, <2>2, <2>3, <2>4, <2>5, <2>6 DEF TypeOK
  <1>17. CASE PollAnswered
    <2>1. /\ unit' \in [Units -> Status] /\ cloud' \in [Units -> Status]
          /\ told' \in [Local -> Status] /\ inbox' \in [Local -> Status \cup {Nothing}]
      BY <1>a, <1>17 DEF TypeOK, PollAnswered, PollOnly, world, caches, history
    <2>2. /\ lastLocal' \in [Local -> Status \cup {Nothing}] /\ window' \in BOOLEAN
          /\ powerCache' \in [Units -> BOOLEAN \cup {Nothing}] /\ modeCache' \in [Units -> Modes \cup {Nothing}]
          /\ learnt' \in {Nothing, "units", "groups"}
      BY <1>a, <1>17 DEF TypeOK, PollAnswered, PollOnly, world, caches, history
    <2>3. /\ queue' \in Seq(Requests) /\ Len(queue') <= Capacity
          /\ engine' \in {r \in Requests : r.item = "setpoint"} \cup {Nothing}
          /\ left' \in 0..MaxEvents
      BY <1>a, <1>17 DEF TypeOK, PollAnswered, PollOnly, world, caches, history
    <2>4. /\ writer' \in Writers
          /\ writer'.at \in {"set", "note"} <=> writer'.todo # <<>>
          /\ writer'.at = "sync" => writer'.peers # <<>>
      BY <1>a, <1>17 DEF TypeOK, PollAnswered, PollOnly, world, caches, history
    <2>5. /\ drain' \in Reports \cup {Nothing} /\ poll' \in Polls
          /\ poll'.at = "answered" => poll'.snap # Nothing
          /\ poll'.at = "mode" <=> poll'.one # Nothing
      <3>1. poll' = [poll EXCEPT !.at = "answered", !.snap = cloud] /\ poll.at = "idle" /\ drain' = drain
        BY <1>17 DEF PollAnswered, PollOnly
      <3> QED
        BY <1>a, <3>1, PollTyped, SnapshotIsSomething DEF TypeOK, Polls
    <2>6. /\ misled' \in [Units -> BOOLEAN] /\ spoilt' \in [Units -> BOOLEAN] /\ excused' \in BOOLEAN
      BY <1>a, <1>17 DEF TypeOK, PollAnswered, PollOnly, world, caches, history
    <2> QED
      BY <2>1, <2>2, <2>3, <2>4, <2>5, <2>6 DEF TypeOK
  <1>18. CASE StoreSnapshot
    <2>1. /\ unit' \in [Units -> Status] /\ cloud' \in [Units -> Status]
          /\ told' \in [Local -> Status] /\ inbox' \in [Local -> Status \cup {Nothing}]
      BY <1>a, <1>18 DEF TypeOK, StoreSnapshot, PollOnly, world, caches, history
    <2>2. /\ lastLocal' \in [Local -> Status \cup {Nothing}] /\ window' \in BOOLEAN
          /\ powerCache' \in [Units -> BOOLEAN \cup {Nothing}] /\ modeCache' \in [Units -> Modes \cup {Nothing}]
          /\ learnt' \in {Nothing, "units", "groups"}
      BY <1>a, <1>18, SnapshotStored DEF TypeOK, StoreSnapshot, PollOnly, caches
    <2>3. /\ queue' \in Seq(Requests) /\ Len(queue') <= Capacity
          /\ engine' \in {r \in Requests : r.item = "setpoint"} \cup {Nothing}
          /\ left' \in 0..MaxEvents
      BY <1>a, <1>18 DEF TypeOK, StoreSnapshot, PollOnly, world, caches, history
    <2>4. /\ writer' \in Writers
          /\ writer'.at \in {"set", "note"} <=> writer'.todo # <<>>
          /\ writer'.at = "sync" => writer'.peers # <<>>
      BY <1>a, <1>18 DEF TypeOK, StoreSnapshot, PollOnly, world, caches, history
    <2>5. /\ drain' \in Reports \cup {Nothing} /\ poll' \in Polls
          /\ poll'.at = "answered" => poll'.snap # Nothing
          /\ poll'.at = "mode" <=> poll'.one # Nothing
      <3>1. poll' = [poll EXCEPT !.at = "stored", !.snap = Nothing] /\ poll.at = "answered" /\ drain' = drain
        BY <1>18 DEF StoreSnapshot, PollOnly
      <3> QED
        BY <1>a, <3>1, PollTyped DEF TypeOK, Polls
    <2>6. /\ misled' \in [Units -> BOOLEAN] /\ spoilt' \in [Units -> BOOLEAN] /\ excused' \in BOOLEAN
      BY <1>a, <1>18, Accounted, SnapshotStored DEF TypeOK
    <2> QED
      BY <2>1, <2>2, <2>3, <2>4, <2>5, <2>6 DEF TypeOK
  <1>19. CASE LearnGroups
    <2>1. /\ unit' \in [Units -> Status] /\ cloud' \in [Units -> Status]
          /\ told' \in [Local -> Status] /\ inbox' \in [Local -> Status \cup {Nothing}]
      BY <1>a, <1>19 DEF TypeOK, LearnGroups, PollOnly, world, caches, history
    <2>2. /\ lastLocal' \in [Local -> Status \cup {Nothing}] /\ window' \in BOOLEAN
          /\ powerCache' \in [Units -> BOOLEAN \cup {Nothing}] /\ modeCache' \in [Units -> Modes \cup {Nothing}]
          /\ learnt' \in {Nothing, "units", "groups"}
      BY <1>a, <1>19 DEF TypeOK, LearnGroups, PollOnly, world, caches, history
    <2>3. /\ queue' \in Seq(Requests) /\ Len(queue') <= Capacity
          /\ engine' \in {r \in Requests : r.item = "setpoint"} \cup {Nothing}
          /\ left' \in 0..MaxEvents
      BY <1>a, <1>19 DEF TypeOK, LearnGroups, PollOnly, world, caches, history
    <2>4. /\ writer' \in Writers
          /\ writer'.at \in {"set", "note"} <=> writer'.todo # <<>>
          /\ writer'.at = "sync" => writer'.peers # <<>>
      BY <1>a, <1>19 DEF TypeOK, LearnGroups, PollOnly, world, caches, history
    <2>5. /\ drain' \in Reports \cup {Nothing} /\ poll' \in Polls
          /\ poll'.at = "answered" => poll'.snap # Nothing
          /\ poll'.at = "mode" <=> poll'.one # Nothing
      <3> DEFINE copies == {Report(v, lastLocal[v]) : v \in {w \in Local : lastLocal[w] # Nothing}}
      <3>1. poll' \in {Asleep, [poll EXCEPT !.at = "replay", !.replay = copies]} /\ poll.at = "stored" /\ drain' = drain
        BY <1>19 DEF LearnGroups, PollOnly
      <3>2. copies \in SUBSET Reports
        BY <1>a, CopiesTyped
      <3> HIDE DEF copies
      <3>3. poll \in Polls /\ poll.one = Nothing
        BY <1>a, <3>1 DEF TypeOK
      <3>4. CASE poll' = Asleep
        BY <1>a, <3>1, <3>4, PollTyped DEF TypeOK
      <3>5. CASE poll' = [poll EXCEPT !.at = "replay", !.replay = copies]
        <4>1. poll' \in Polls
          BY <1>a, <3>2, <3>5, PollTyped
        <4>2. poll'.at = "replay" /\ poll'.one = Nothing
          BY <3>3, <3>5 DEF Polls
        <4> QED
          BY <1>a, <3>1, <4>1, <4>2 DEF TypeOK
      <3> QED
        BY <3>1, <3>4, <3>5
    <2>6. /\ misled' \in [Units -> BOOLEAN] /\ spoilt' \in [Units -> BOOLEAN] /\ excused' \in BOOLEAN
      BY <1>a, <1>19 DEF TypeOK, LearnGroups, PollOnly, world, caches, history
    <2> QED
      BY <2>1, <2>2, <2>3, <2>4, <2>5, <2>6 DEF TypeOK
  <1>20. CASE ReplayPower
    <2>0. PICK r \in poll.replay :
            /\ StorePower(r) /\ poll' = [poll EXCEPT !.at = "mode", !.replay = @ \ {r}, !.one = r]
            /\ PollOnly /\ Account(Stale(r)) /\ poll.at = "replay"
      BY <1>20 DEF ReplayPower
    <2>r. r \in Reports /\ r # Nothing
      BY <1>a, NothingIsNoValue DEF TypeOK, Polls
    <2>1. /\ unit' \in [Units -> Status] /\ cloud' \in [Units -> Status]
          /\ told' \in [Local -> Status] /\ inbox' \in [Local -> Status \cup {Nothing}]
      BY <1>a, <2>0 DEF TypeOK, PollOnly, world
    <2>2. /\ lastLocal' \in [Local -> Status \cup {Nothing}] /\ window' \in BOOLEAN
          /\ powerCache' \in [Units -> BOOLEAN \cup {Nothing}] /\ modeCache' \in [Units -> Modes \cup {Nothing}]
          /\ learnt' \in {Nothing, "units", "groups"}
      BY <1>a, <2>0, <2>r, Stored DEF TypeOK, PollOnly
    <2>3. /\ queue' \in Seq(Requests) /\ Len(queue') <= Capacity
          /\ engine' \in {s \in Requests : s.item = "setpoint"} \cup {Nothing}
          /\ left' \in 0..MaxEvents
      BY <1>a, <2>0 DEF TypeOK, PollOnly
    <2>4. /\ writer' \in Writers
          /\ writer'.at \in {"set", "note"} <=> writer'.todo # <<>>
          /\ writer'.at = "sync" => writer'.peers # <<>>
      BY <1>a, <2>0 DEF TypeOK, PollOnly
    <2>5. /\ drain' \in Reports \cup {Nothing} /\ poll' \in Polls
          /\ poll'.at = "answered" => poll'.snap # Nothing
          /\ poll'.at = "mode" <=> poll'.one # Nothing
      <3>1. poll' \in Polls
        BY <1>a, <2>0, <2>r, PollTyped
      <3>2. poll'.at = "mode" /\ poll'.one = r /\ drain' = drain
        BY <1>a, <2>0 DEF TypeOK, Polls, PollOnly
      <3> QED
        BY <1>a, <2>r, <3>1, <3>2 DEF TypeOK
    <2>6. /\ misled' \in [Units -> BOOLEAN] /\ spoilt' \in [Units -> BOOLEAN] /\ excused' \in BOOLEAN
      BY <1>a, <2>0, Accounted DEF TypeOK, PollOnly
    <2> QED
      BY <2>1, <2>2, <2>3, <2>4, <2>5, <2>6 DEF TypeOK
  <1>21. CASE ReplayMode
    <2>0. /\ poll' \in {Asleep, [poll EXCEPT !.at = "replay", !.one = Nothing]} /\ poll.at = "mode"
          /\ StoreMode(poll.one) /\ PollOnly /\ Account(Stale(poll.one))
      BY <1>21 DEF ReplayMode
    <2>r. poll.one \in Reports
      BY <1>a, <2>0 DEF TypeOK, Polls
    <2>1. /\ unit' \in [Units -> Status] /\ cloud' \in [Units -> Status]
          /\ told' \in [Local -> Status] /\ inbox' \in [Local -> Status \cup {Nothing}]
      BY <1>a, <2>0 DEF TypeOK, PollOnly, world
    <2>2. /\ lastLocal' \in [Local -> Status \cup {Nothing}] /\ window' \in BOOLEAN
          /\ powerCache' \in [Units -> BOOLEAN \cup {Nothing}] /\ modeCache' \in [Units -> Modes \cup {Nothing}]
          /\ learnt' \in {Nothing, "units", "groups"}
      BY <1>a, <2>0, <2>r, Stored DEF TypeOK, PollOnly
    <2>3. /\ queue' \in Seq(Requests) /\ Len(queue') <= Capacity
          /\ engine' \in {r \in Requests : r.item = "setpoint"} \cup {Nothing}
          /\ left' \in 0..MaxEvents
      BY <1>a, <2>0 DEF TypeOK, PollOnly
    <2>4. /\ writer' \in Writers
          /\ writer'.at \in {"set", "note"} <=> writer'.todo # <<>>
          /\ writer'.at = "sync" => writer'.peers # <<>>
      BY <1>a, <2>0 DEF TypeOK, PollOnly
    <2>5. /\ drain' \in Reports \cup {Nothing} /\ poll' \in Polls
          /\ poll'.at = "answered" => poll'.snap # Nothing
          /\ poll'.at = "mode" <=> poll'.one # Nothing
      <3>1. poll' \in Polls
        BY <1>a, <2>0, <2>r, PollTyped
      <3>2. poll'.at # "mode" /\ poll'.at # "answered" /\ poll'.one = Nothing /\ drain' = drain
        BY <1>a, <2>0, PollTyped DEF TypeOK, Polls, PollOnly
      <3> QED
        BY <1>a, <2>0, <3>1, <3>2 DEF TypeOK
    <2>6. /\ misled' \in [Units -> BOOLEAN] /\ spoilt' \in [Units -> BOOLEAN] /\ excused' \in BOOLEAN
      BY <1>a, <2>0, Accounted DEF TypeOK, PollOnly
    <2> QED
      BY <2>1, <2>2, <2>3, <2>4, <2>5, <2>6 DEF TypeOK
  <1>22. CASE UNCHANGED vars
    BY <1>a, <1>22 DEF vars, world, caches, history, TypeOK, world, caches, history
  <1> QED
    BY <1>1, <1>2, <1>3, <1>4, <1>5, <1>6, <1>7, <1>8, <1>9, <1>10, <1>11, <1>12, <1>13, <1>14,
       <1>15, <1>16, <1>17, <1>18, <1>19, <1>20, <1>21, <1>22
       DEF Next, World, Producers, Setter, Writer, Drain, Storing, Polling

\* Every step keeps the shape of what the writer has in hand.
LEMMA ShapeStep == IInv /\ [Next]_vars => ShapeInv'
  <1> SUFFICES ASSUME IInv, [Next]_vars
               PROVE  ShapeInv'
    OBVIOUS
  <1>a. TypeOK /\ ShapeInv /\ WakeInv /\ HvacInv /\ FitInv /\ PeaceInv /\ BlockInv
    BY DEF IInv
  <1>b. TypeOK'
    BY TypeStep
  <1>1. ASSUME NEW u \in Units, Remote(u)
        PROVE  ShapeInv'
    BY <1>a, <1>1 DEF Remote, Event, ShapeInv, ThisSetting, PollOnly
  <1>2. ASSUME NEW u \in Units, CloudCatchesUp(u)
        PROVE  ShapeInv'
    BY <1>a, <1>2 DEF CloudCatchesUp, ShapeInv, ThisSetting, PollOnly
  <1>3. ASSUME NEW u \in Local, Reported(u)
        PROVE  ShapeInv'
    BY <1>a, <1>3 DEF Reported, ShapeInv, ThisSetting, PollOnly
  <1>4. CASE WindowEnds
    BY <1>a, <1>4 DEF WindowEnds, ShapeInv, ThisSetting, PollOnly
  <1>5. ASSUME NEW r \in Commands, Receive(r)
        PROVE  ShapeInv'
    BY <1>a, <1>5 DEF Receive, Event, HasRoom, ShapeInv, ThisSetting, PollOnly
  <1>6. ASSUME NEW a \in Actions, Apply(a)
        PROVE  ShapeInv'
    BY <1>a, <1>6 DEF Apply, Event, HasRoom, ShapeInv, ThisSetting, PollOnly
  <1>7. CASE ApplySetpoint
    BY <1>a, <1>7 DEF ApplySetpoint, HasRoom, ShapeInv, ThisSetting, PollOnly
  <1>8. CASE Take
    <2>1. CASE LacksMode(queue[1])
      BY <1>a, <1>8, <2>1, Taken DEF ShapeInv, Idle
    <2>2. CASE ~LacksMode(queue[1])
      <3> DEFINE r == queue[1]
      <3>1. r \in Requests /\ writer'.todo = SettingsOf(r) /\ writer'.peers = <<>>
        BY <1>a, <1>8, <2>2, Taken
      <3>2. \A n \in DOMAIN SettingsOf(r) : SettingsOf(r)[n].unit = r.unit /\ ~SettingsOf(r)[n].sync
        BY <1>a, <3>1, SettingsTyped
      <3>3. 1 \in DOMAIN SettingsOf(r) /\ Head(SettingsOf(r)) = SettingsOf(r)[1]
        BY <1>a, <3>1, SettingsTyped, TodoParts
      <3>4. \A n \in DOMAIN SettingsOf(r) : SettingsOf(r)[n].what = "mode" => n = Len(SettingsOf(r))
        <4>1. CASE r.item = "hvac" /\ r.value # "off"
          <5> DEFINE s == Setting(r.unit, "power", "on")
                     t == [Setting(r.unit, "mode", r.value) EXCEPT !.for = r.for]
          <5>1. SettingsOf(r) = <<s, t>>
            BY <1>a, <3>1, <4>1, SettingsTyped
          <5>2. s.what = "power"
            BY DEF Setting
          <5> HIDE DEF s, t
          <5> QED
            BY <5>1, <5>2
        <4>2. CASE ~(r.item = "hvac" /\ r.value # "off")
          <5>1. (\E s : SettingsOf(r) = <<s>>) \/ SettingsOf(r) = <<Scoped(r), Scoped(r)>>
            BY <1>a, <3>1, <4>2, SettingsTyped
          <5>2. CASE \E s : SettingsOf(r) = <<s>>
            BY <5>2
          <5>3. CASE SettingsOf(r) = <<Scoped(r), Scoped(r)>>
            <6>1. Scoped(r).what = "scoped"
              BY DEF Scoped
            <6>2. \A n \in DOMAIN <<Scoped(r), Scoped(r)>> : <<Scoped(r), Scoped(r)>>[n] = Scoped(r)
              OBVIOUS
            <6> QED
              BY <5>3, <6>1, <6>2
          <5> QED
            BY <5>1, <5>2, <5>3
        <4> QED
          BY <4>1, <4>2
      <3> HIDE DEF r
      <3> QED
        BY <3>1, <3>2, <3>3, <3>4 DEF ShapeInv, ThisSetting
    <2> QED
      BY <2>1, <2>2
  <1>9. CASE SetAccepted
    <2>1. writer' = [writer EXCEPT !.at = "note"] /\ writer \in Writers
      BY <1>a, <1>9 DEF SetAccepted, TypeOK
    <2>2. writer'.todo = writer.todo /\ writer'.sync = writer.sync /\ writer'.peers = writer.peers
      BY <2>1 DEF Writers
    <2> QED
      BY <1>a, <2>2 DEF ShapeInv, ThisSetting
  <1>10. CASE SetVanishes
    <2>1. writer' = [writer EXCEPT !.at = "note"] /\ writer \in Writers
      BY <1>a, <1>10 DEF SetVanishes, TypeOK
    <2>2. writer'.todo = writer.todo /\ writer'.sync = writer.sync /\ writer'.peers = writer.peers
      BY <2>1 DEF Writers
    <2> QED
      BY <1>a, <2>2 DEF ShapeInv, ThisSetting
  <1>11. CASE SetRefused
    <2>1. CASE writer'.todo = <<>>
      BY <2>1 DEF ShapeInv
    <2>2. CASE writer'.todo # <<>>
      <3>1. writer'.todo = Tail(writer.todo) /\ writer'.peers = writer.peers /\ writer.todo # <<>>
        <4>1. writer.todo # <<>> /\ writer' = GivenUp
          BY <1>a, <1>11 DEF SetRefused, TypeOK
        <4>2. writer'.at = "set"
          BY <1>a, <2>2, <4>1, Ended
        <4> QED
          BY <1>a, <2>2, <4>1, <4>2, Ended
      <3>2. ThisSetting' = writer.todo[2] /\ Len(writer.todo) > 1 /\ DOMAIN writer'.todo = 1..(Len(writer.todo) - 1)
        BY <1>a, <2>2, <3>1, InTheHand DEF ThisSetting
      <3>3. /\ \A n \in 1..Len(writer.todo) : writer.todo[n].unit = ThisSetting.unit /\ ~writer.todo[n].sync
            /\ \A n \in 1..Len(writer.todo) : writer.todo[n].what = "mode" => n = Len(writer.todo)
            /\ writer.peers = <<>> /\ Len(writer.todo) \in Nat
        BY <1>a, <3>1, <3>2, InTheHand DEF ShapeInv
      <3>4. \A n \in 1..(Len(writer.todo) - 1) : writer'.todo[n] = writer.todo[n + 1] /\ n + 1 \in 1..Len(writer.todo)
        BY <1>a, <3>1, <3>3, InTheHand
      <3>5. Len(writer'.todo) = Len(writer.todo) - 1
        BY <1>a, <3>1, InTheHand, TodoParts
      <3>6. ASSUME NEW n \in DOMAIN writer'.todo
            PROVE  /\ writer'.todo[n].unit = ThisSetting'.unit /\ ~writer'.todo[n].sync
                   /\ writer'.todo[n].what = "mode" => n = Len(writer'.todo)
        <4>1. n \in 1..(Len(writer.todo) - 1) /\ n + 1 \in 1..Len(writer.todo) /\ 2 \in 1..Len(writer.todo)
          BY <3>2, <3>3
        <4>2. n + 1 = Len(writer.todo) => n = Len(writer'.todo)
          BY <3>3, <3>5, <4>1
        <4> QED
          BY <3>2, <3>3, <3>4, <4>1, <4>2
      <3>7. writer'.peers = <<>>
        BY <3>1, <3>3
      <3>8. 1 \in DOMAIN writer'.todo /\ ThisSetting' = writer'.todo[1]
        BY <3>2, <3>3, <3>4
      <3> QED
        BY <3>6, <3>7, <3>8 DEF ShapeInv
    <2> QED
      BY <2>1, <2>2
  <1>12. CASE AnswerLost
    <2>1. CASE writer'.todo = <<>>
      BY <2>1 DEF ShapeInv
    <2>2. CASE writer'.todo # <<>>
      <3>1. writer'.todo = Tail(writer.todo) /\ writer'.peers = writer.peers /\ writer.todo # <<>>
        <4>1. writer.todo # <<>> /\ writer' = GivenUp
          BY <1>a, <1>12 DEF AnswerLost, TypeOK
        <4>2. writer'.at = "set"
          BY <1>a, <2>2, <4>1, Ended
        <4> QED
          BY <1>a, <2>2, <4>1, <4>2, Ended
      <3>2. ThisSetting' = writer.todo[2] /\ Len(writer.todo) > 1 /\ DOMAIN writer'.todo = 1..(Len(writer.todo) - 1)
        BY <1>a, <2>2, <3>1, InTheHand DEF ThisSetting
      <3>3. /\ \A n \in 1..Len(writer.todo) : writer.todo[n].unit = ThisSetting.unit /\ ~writer.todo[n].sync
            /\ \A n \in 1..Len(writer.todo) : writer.todo[n].what = "mode" => n = Len(writer.todo)
            /\ writer.peers = <<>> /\ Len(writer.todo) \in Nat
        BY <1>a, <3>1, <3>2, InTheHand DEF ShapeInv
      <3>4. \A n \in 1..(Len(writer.todo) - 1) : writer'.todo[n] = writer.todo[n + 1] /\ n + 1 \in 1..Len(writer.todo)
        BY <1>a, <3>1, <3>3, InTheHand
      <3>5. Len(writer'.todo) = Len(writer.todo) - 1
        BY <1>a, <3>1, InTheHand, TodoParts
      <3>6. ASSUME NEW n \in DOMAIN writer'.todo
            PROVE  /\ writer'.todo[n].unit = ThisSetting'.unit /\ ~writer'.todo[n].sync
                   /\ writer'.todo[n].what = "mode" => n = Len(writer'.todo)
        <4>1. n \in 1..(Len(writer.todo) - 1) /\ n + 1 \in 1..Len(writer.todo) /\ 2 \in 1..Len(writer.todo)
          BY <3>2, <3>3
        <4>2. n + 1 = Len(writer.todo) => n = Len(writer'.todo)
          BY <3>3, <3>5, <4>1
        <4> QED
          BY <3>2, <3>3, <3>4, <4>1, <4>2
      <3>7. writer'.peers = <<>>
        BY <3>1, <3>3
      <3>8. 1 \in DOMAIN writer'.todo /\ ThisSetting' = writer'.todo[1]
        BY <3>2, <3>3, <3>4
      <3> QED
        BY <3>6, <3>7, <3>8 DEF ShapeInv
    <2> QED
      BY <2>1, <2>2
  <1>13. CASE NoteWrite
    <2>1. CASE writer'.todo = <<>>
      BY <2>1 DEF ShapeInv
    <2>2. CASE writer'.todo # <<>>
      <3>1. writer'.todo = Tail(writer.todo) /\ writer'.peers = writer.peers /\ writer.todo # <<>>
        <4>1. writer.todo # <<>> /\ writer'.todo = Tail(writer.todo)
          BY <1>a, <1>13, NotedAndNext
        <4>2. Len(writer.todo) # 1
          BY <1>a, <2>2, <4>1, InTheHand
        <4> QED
          BY <1>a, <1>13, <4>1, <4>2, NotedAndNext
      <3>2. ThisSetting' = writer.todo[2] /\ Len(writer.todo) > 1 /\ DOMAIN writer'.todo = 1..(Len(writer.todo) - 1)
        BY <1>a, <2>2, <3>1, InTheHand DEF ThisSetting
      <3>3. /\ \A n \in 1..Len(writer.todo) : writer.todo[n].unit = ThisSetting.unit /\ ~writer.todo[n].sync
            /\ \A n \in 1..Len(writer.todo) : writer.todo[n].what = "mode" => n = Len(writer.todo)
            /\ writer.peers = <<>> /\ Len(writer.todo) \in Nat
        BY <1>a, <3>1, <3>2, InTheHand DEF ShapeInv
      <3>4. \A n \in 1..(Len(writer.todo) - 1) : writer'.todo[n] = writer.todo[n + 1] /\ n + 1 \in 1..Len(writer.todo)
        BY <1>a, <3>1, <3>3, InTheHand
      <3>5. Len(writer'.todo) = Len(writer.todo) - 1
        BY <1>a, <3>1, InTheHand, TodoParts
      <3>6. ASSUME NEW n \in DOMAIN writer'.todo
            PROVE  /\ writer'.todo[n].unit = ThisSetting'.unit /\ ~writer'.todo[n].sync
                   /\ writer'.todo[n].what = "mode" => n = Len(writer'.todo)
        <4>1. n \in 1..(Len(writer.todo) - 1) /\ n + 1 \in 1..Len(writer.todo) /\ 2 \in 1..Len(writer.todo)
          BY <3>2, <3>3
        <4>2. n + 1 = Len(writer.todo) => n = Len(writer'.todo)
          BY <3>3, <3>5, <4>1
        <4> QED
          BY <3>2, <3>3, <3>4, <4>1, <4>2
      <3>7. writer'.peers = <<>>
        BY <3>1, <3>3
      <3>8. 1 \in DOMAIN writer'.todo /\ ThisSetting' = writer'.todo[1]
        BY <3>2, <3>3, <3>4
      <3> QED
        BY <3>6, <3>7, <3>8 DEF ShapeInv
    <2> QED
      BY <2>1, <2>2
  <1>14. CASE SyncPeer
    <2>1. CASE writer'.todo = <<>>
      BY <2>1 DEF ShapeInv
    <2>2. CASE writer'.todo # <<>>
      <3> DEFINE s == [Setting(Head(writer.peers), "mode", writer.sync) EXCEPT !.sync = TRUE]
      <3>1. writer'.todo = <<s>> /\ writer'.sync = writer.sync
        BY <1>a, <1>14, <2>2, PeerLookedAt
      <3>2. s.value = writer.sync /\ s.sync
        BY DEF Setting
      <3> HIDE DEF s
      <3>3. ThisSetting' = s /\ DOMAIN writer'.todo = {1} /\ writer'.todo[1] = s /\ Len(writer'.todo) = 1
        BY <3>1 DEF ThisSetting
      <3> QED
        BY <3>1, <3>2, <3>3 DEF ShapeInv
    <2> QED
      BY <2>1, <2>2
  <1>15. ASSUME NEW u \in Local, DrainReport(u)
        PROVE  ShapeInv'
    BY <1>a, <1>15 DEF DrainReport, ShapeInv, ThisSetting, PollOnly
  <1>16. CASE DrainMode
    BY <1>a, <1>16 DEF DrainMode, ShapeInv, ThisSetting, PollOnly
  <1>17. CASE PollAnswered
    BY <1>a, <1>17 DEF PollAnswered, PollOnly, ShapeInv, ThisSetting, PollOnly
  <1>18. CASE StoreSnapshot
    BY <1>a, <1>18 DEF StoreSnapshot, PollOnly, ShapeInv, ThisSetting, PollOnly
  <1>19. CASE LearnGroups
    BY <1>a, <1>19 DEF LearnGroups, PollOnly, ShapeInv, ThisSetting, PollOnly
  <1>20. CASE ReplayPower
    BY <1>a, <1>20 DEF ReplayPower, PollOnly, ShapeInv, ThisSetting, PollOnly
  <1>21. CASE ReplayMode
    BY <1>a, <1>21 DEF ReplayMode, PollOnly, ShapeInv, ThisSetting, PollOnly
  <1>22. CASE UNCHANGED vars
    BY <1>a, <1>22 DEF vars, world, caches, history, ShapeInv, ThisSetting, PollOnly
  <1> QED
    BY <1>1, <1>2, <1>3, <1>4, <1>5, <1>6, <1>7, <1>8, <1>9, <1>10, <1>11, <1>12, <1>13, <1>14,
       <1>15, <1>16, <1>17, <1>18, <1>19, <1>20, <1>21, <1>22
       DEF Next, World, Producers, Setter, Writer, Drain, Storing, Polling

\* A setting in effect.
LEMMA InEffectMeans ==
    ASSUME TypeOK, writer.todo # <<>>, InEffect(ThisSetting)
    PROVE  /\ ThisSetting.what = "power" => unit[ThisSetting.unit].on = (ThisSetting.value = "on")
           /\ ThisSetting.what = "mode" => unit[ThisSetting.unit].mode = ThisSetting.value
  <1>1. ThisSetting \in Settings /\ unit[ThisSetting.unit] \in Status
    BY InTheHand
  <1>2. CarriedOut(unit[ThisSetting.unit], ThisSetting) = unit[ThisSetting.unit]
    BY DEF InEffect
  <1>3. ASSUME ThisSetting.what = "power"
        PROVE  unit[ThisSetting.unit].on = (ThisSetting.value = "on")
    <2>1. unit[ThisSetting.unit] = [on |-> ThisSetting.value = "on", mode |-> unit[ThisSetting.unit].mode]
      BY <1>1, <1>2, <1>3, CarriedOutTyped
    <2> QED
      BY <2>1
  <1>4. ASSUME ThisSetting.what = "mode"
        PROVE  unit[ThisSetting.unit].mode = ThisSetting.value
    <2>1. unit[ThisSetting.unit] = [on |-> unit[ThisSetting.unit].on \/ ThisSetting.unit \in Local, mode |-> ThisSetting.value]
      BY <1>1, <1>2, <1>4, CarriedOutTyped
    <2> QED
      BY <2>1
  <1> QED
    BY <1>3, <1>4

\* Every step keeps mode sync from being called on a unit that is off for no reason.
LEMMA WakeStep == IInv /\ [Next]_vars => WakeInv'
  <1> SUFFICES ASSUME IInv, [Next]_vars
               PROVE  WakeInv'
    OBVIOUS
  <1>a. TypeOK /\ ShapeInv /\ WakeInv /\ HvacInv /\ FitInv /\ PeaceInv /\ BlockInv
    BY DEF IInv
  <1>b. TypeOK'
    BY TypeStep
  <1>1. ASSUME NEW u \in Units, Remote(u)
        PROVE  WakeInv'
    <2> SUFFICES ASSUME NEW v \in Units, ~misled'[v], powerCache'[v] = TRUE, ~Noting(v, "power")'
                 PROVE  unit'[v].on
      BY DEF WakeInv
    <2>1. CASE AgreesNext(v)
      BY <1>b, <2>1, AgreesMeans, NothingIsNoValue
    <2>2. CASE ~AgreesNext(v)
      BY <1>a, <1>1, <2>2, Accounted DEF Remote, WakeInv, Noting, ThisSetting, TypeOK, caches
    <2> QED
      BY <2>1, <2>2
  <1>2. ASSUME NEW u \in Units, CloudCatchesUp(u)
        PROVE  WakeInv'
    BY <1>a, <1>2 DEF CloudCatchesUp, WakeInv, Noting, ThisSetting, PollOnly, world, caches, history
  <1>3. ASSUME NEW u \in Local, Reported(u)
        PROVE  WakeInv'
    BY <1>a, <1>3 DEF Reported, WakeInv, Noting, ThisSetting, PollOnly, world, caches, history
  <1>4. CASE WindowEnds
    BY <1>a, <1>4 DEF WindowEnds, WakeInv, Noting, ThisSetting, PollOnly, world, caches, history
  <1>5. ASSUME NEW r \in Commands, Receive(r)
        PROVE  WakeInv'
    BY <1>a, <1>5
       DEF Receive, Event, HasRoom, WakeInv, Noting, ThisSetting, PollOnly, world, caches, history
  <1>6. ASSUME NEW a \in Actions, Apply(a)
        PROVE  WakeInv'
    BY <1>a, <1>6
       DEF Apply, Event, HasRoom, WakeInv, Noting, ThisSetting, PollOnly, world, caches, history
  <1>7. CASE ApplySetpoint
    BY <1>a, <1>7
       DEF ApplySetpoint, HasRoom, WakeInv, Noting, ThisSetting, PollOnly, world, caches, history
  <1>8. CASE Take
    BY <1>a, <1>8, Taken DEF WakeInv, Noting, Idle
  <1>9. CASE SetAccepted
    <2> SUFFICES ASSUME NEW v \in Units, ~misled'[v], powerCache'[v] = TRUE, ~Noting(v, "power")'
                 PROVE  unit'[v].on
      BY DEF WakeInv
    <2>1. CASE AgreesNext(v)
      BY <1>b, <2>1, AgreesMeans, NothingIsNoValue
    <2>2. CASE ~AgreesNext(v)
      <3>1. writer.todo # <<>> /\ HappensTo(ThisSetting) /\ Account({}) /\ writer.at = "set" /\ powerCache' = powerCache
        BY <1>a, <1>9 DEF SetAccepted, TypeOK, caches
      <3>2. writer'.at = "note" /\ ThisSetting' = ThisSetting
        BY <1>a, <1>9 DEF SetAccepted, TypeOK, Writers, ThisSetting
      <3>3. unit[v].on
        BY <1>a, <2>2, <3>1, Accounted DEF WakeInv, Noting
      <3>4. CASE v # ThisSetting.unit
        BY <1>a, <3>1, <3>3, <3>4, Made
      <3>5. CASE v = ThisSetting.unit
        <4>1. ThisSetting.what # "power"
          BY <3>2, <3>5 DEF Noting
        <4>2. unit'[v] = CarriedOut(unit[v], ThisSetting) /\ ThisSetting \in Settings /\ unit[v] \in Status
          BY <1>a, <3>1, <3>5, Made, InTheHand
        <4>3. ThisSetting.what \in {"mode", "scoped"}
          BY <4>1, <4>2, CarriedOutTyped
        <4>4. CASE ThisSetting.what = "mode"
          <5>1. unit'[v] = [on |-> unit[v].on \/ ThisSetting.unit \in Local, mode |-> ThisSetting.value]
            BY <4>2, <4>4, CarriedOutTyped
          <5>2. unit'[v].on = (unit[v].on \/ ThisSetting.unit \in Local)
            BY <5>1
          <5> QED
            BY <3>3, <5>2
        <4>5. CASE ThisSetting.what = "scoped"
          BY <3>3, <4>2, <4>5, CarriedOutTyped
        <4> QED
          BY <4>3, <4>4, <4>5
      <3> QED
        BY <3>4, <3>5
    <2> QED
      BY <2>1, <2>2
  <1>10. CASE SetVanishes
    BY <1>a, <1>10 DEF SetVanishes, WakeInv, Noting, world, caches
  <1>11. CASE SetRefused
    BY <1>a, <1>11 DEF SetRefused, WakeInv, Noting, world, caches
  <1>12. CASE AnswerLost
    <2> SUFFICES ASSUME NEW v \in Units, ~misled'[v], powerCache'[v] = TRUE, ~Noting(v, "power")'
                 PROVE  unit'[v].on
      BY DEF WakeInv
    <2>1. CASE AgreesNext(v)
      BY <1>b, <2>1, AgreesMeans, NothingIsNoValue
    <2>2. CASE ~AgreesNext(v)
      <3>1. writer.todo # <<>> /\ HappensTo(ThisSetting) /\ writer.at = "set" /\ powerCache' = powerCache
        BY <1>a, <1>12 DEF AnswerLost, TypeOK, caches
      <3>2. ThisSetting.unit \in Units
        BY <1>a, <3>1, InTheHand
      <3>3. v # ThisSetting.unit /\ misled'[v] = misled[v]
        BY <1>a, <1>12, <2>2, <3>2 DEF AnswerLost, TypeOK
      <3>4. unit'[v] = unit[v]
        BY <1>a, <3>1, <3>3, Made
      <3> QED
        BY <1>a, <3>1, <3>3, <3>4 DEF WakeInv, Noting
    <2> QED
      BY <2>1, <2>2
  <1>13. CASE NoteWrite
    <2> SUFFICES ASSUME NEW v \in Units, ~misled'[v], powerCache'[v] = TRUE, ~Noting(v, "power")'
                 PROVE  unit'[v].on
      BY DEF WakeInv
    <2>1. CASE AgreesNext(v)
      BY <1>b, <2>1, AgreesMeans, NothingIsNoValue
    <2>2. CASE ~AgreesNext(v)
      <3>1. /\ writer.todo # <<>> /\ ThisSetting.unit \in Units /\ unit' = unit
            /\ powerCache' = IF ThisSetting.what = "power"
                             THEN [powerCache EXCEPT ![ThisSetting.unit] = ThisSetting.value = "on"] ELSE powerCache
        BY <1>a, <1>13, NotedAndNext, InTheHand
      <3>2. ~misled[v] /\ (v = ThisSetting.unit => InEffect(ThisSetting))
        BY <1>a, <1>13, <2>2, NotedAccount
      <3>3. CASE v = ThisSetting.unit /\ ThisSetting.what = "power"
        <4>1. powerCache'[v] = (ThisSetting.value = "on")
          BY <1>a, <3>1, <3>3 DEF TypeOK
        <4> QED
          BY <1>a, <3>1, <3>2, <3>3, <4>1, InEffectMeans
      <3>4. CASE ~(v = ThisSetting.unit /\ ThisSetting.what = "power")
        <4>1. powerCache'[v] = powerCache[v]
          BY <1>a, <3>1, <3>4 DEF TypeOK
        <4> QED
          BY <1>a, <3>1, <3>2, <3>4, <4>1 DEF WakeInv, Noting
      <3> QED
        BY <3>3, <3>4
    <2> QED
      BY <2>1, <2>2
  <1>14. CASE SyncPeer
    BY <1>a, <1>14, PeerLookedAt DEF WakeInv, Noting
  <1>15. ASSUME NEW u \in Local, DrainReport(u)
        PROVE  WakeInv'
    <2> SUFFICES ASSUME NEW v \in Units, ~misled'[v], powerCache'[v] = TRUE, ~Noting(v, "power")'
                 PROVE  unit'[v].on
      BY DEF WakeInv
    <2>1. CASE AgreesNext(v)
      BY <1>b, <2>1, AgreesMeans, NothingIsNoValue
    <2>2. CASE ~AgreesNext(v)
      <3>1. /\ writer' = writer /\ unit' = unit /\ powerCache' = [powerCache EXCEPT ![u] = inbox[u].on]
            /\ Account(IF inbox[u] # unit[u] THEN {u} ELSE {})
        BY <1>a, <1>15, Drained
      <3>2. ~misled[v] /\ (v = u => inbox[u] = unit[u])
        BY <2>2, <3>1, Accounted
      <3> QED
        BY <1>a, <3>1, <3>2 DEF WakeInv, Noting, ThisSetting, TypeOK
    <2> QED
      BY <2>1, <2>2
  <1>16. CASE DrainMode
    <2> SUFFICES ASSUME NEW v \in Units, ~misled'[v], powerCache'[v] = TRUE, ~Noting(v, "power")'
                 PROVE  unit'[v].on
      BY DEF WakeInv
    <2>1. CASE AgreesNext(v)
      BY <1>b, <2>1, AgreesMeans, NothingIsNoValue
    <2>2. CASE ~AgreesNext(v)
      BY <1>a, <1>16, <2>2, Accounted DEF DrainMode, StoreMode, WakeInv, Noting, ThisSetting, world
    <2> QED
      BY <2>1, <2>2
  <1>17. CASE PollAnswered
    BY <1>a, <1>17
       DEF PollAnswered, PollOnly, WakeInv, Noting, ThisSetting, PollOnly, world, caches, history
  <1>18. CASE StoreSnapshot
    <2> SUFFICES ASSUME NEW v \in Units, ~misled'[v], powerCache'[v] = TRUE, ~Noting(v, "power")'
                 PROVE  unit'[v].on
      BY DEF WakeInv
    <2>1. CASE AgreesNext(v)
      BY <1>b, <2>1, AgreesMeans, NothingIsNoValue
    <2>2. CASE ~AgreesNext(v)
      <3>1. /\ ~misled[v]
            /\ (v \in Local => Nothing \in {powerCache[v], modeCache[v]}) => poll.snap[v] = unit[v]
        BY <1>a, <1>18, <2>2, SnapshotStored, Accounted
      <3>2. writer' = writer /\ unit' = unit
        BY <1>a, <1>18, SnapshotStored
      <3>3. CASE powerCache'[v] = powerCache[v]
        BY <1>a, <3>1, <3>2, <3>3 DEF WakeInv, Noting, ThisSetting
      <3>4. CASE powerCache'[v] # powerCache[v]
        BY <1>a, <1>18, <3>1, <3>2, <3>4, SnapshotStored
      <3> QED
        BY <3>3, <3>4
    <2> QED
      BY <2>1, <2>2
  <1>19. CASE LearnGroups
    BY <1>a, <1>19
       DEF LearnGroups, PollOnly, WakeInv, Noting, ThisSetting, PollOnly, world, caches, history
  <1>20. CASE ReplayPower
    <2>0. PICK r \in poll.replay : StorePower(r) /\ PollOnly /\ Account(Stale(r))
      BY <1>20 DEF ReplayPower
    <2>r. r \in Reports
      BY <1>a DEF TypeOK, Polls
    <2>s. /\ writer' = writer /\ unit' = unit /\ powerCache' = [powerCache EXCEPT ![r.unit] = r.status.on]
      BY <1>a, <2>0, <2>r, Stored DEF PollOnly, world
    <2> SUFFICES ASSUME NEW v \in Units, ~misled'[v], powerCache'[v] = TRUE, ~Noting(v, "power")'
                 PROVE  unit'[v].on
      BY DEF WakeInv
    <2>1. CASE AgreesNext(v)
      BY <1>b, <2>1, AgreesMeans, NothingIsNoValue
    <2>2. CASE ~AgreesNext(v)
      <3>2. ~misled[v] /\ (v = r.unit => r.status = unit[v])
        BY <2>2, <2>0, Accounted DEF Stale
      <3> QED
        BY <1>a, <2>s, <3>2 DEF WakeInv, Noting, ThisSetting, TypeOK
    <2> QED
      BY <2>1, <2>2
  <1>21. CASE ReplayMode
    <2> SUFFICES ASSUME NEW v \in Units, ~misled'[v], powerCache'[v] = TRUE, ~Noting(v, "power")'
                 PROVE  unit'[v].on
      BY DEF WakeInv
    <2>1. CASE AgreesNext(v)
      BY <1>b, <2>1, AgreesMeans, NothingIsNoValue
    <2>2. CASE ~AgreesNext(v)
      BY <1>a, <1>21, <2>2, Accounted
         DEF ReplayMode, StoreMode, PollOnly, WakeInv, Noting, ThisSetting, world
    <2> QED
      BY <2>1, <2>2
  <1>22. CASE UNCHANGED vars
    BY <1>a, <1>22
       DEF vars, world, caches, history, WakeInv, Noting, ThisSetting, PollOnly, world, caches,
           history
  <1> QED
    BY <1>1, <1>2, <1>3, <1>4, <1>5, <1>6, <1>7, <1>8, <1>9, <1>10, <1>11, <1>12, <1>13, <1>14,
       <1>15, <1>16, <1>17, <1>18, <1>19, <1>20, <1>21, <1>22
       DEF Next, World, Producers, Setter, Writer, Drain, Storing, Polling

\* Every step keeps what the caches know of a unit true, as long as nothing came between.
LEMMA FitStep == IInv /\ [Next]_vars => FitInv'
  <1> SUFFICES ASSUME IInv, [Next]_vars
               PROVE  FitInv'
    OBVIOUS
  <1>a. TypeOK /\ ShapeInv /\ WakeInv /\ HvacInv /\ FitInv /\ PeaceInv /\ BlockInv
    BY DEF IInv
  <1>b. TypeOK'
    BY TypeStep
  <1>1. ASSUME NEW u \in Units, Remote(u)
        PROVE  FitInv'
    BY <1>1 DEF Remote, FitInv
  <1>2. ASSUME NEW u \in Units, CloudCatchesUp(u)
        PROVE  FitInv'
    BY <1>a, <1>2 DEF CloudCatchesUp, FitInv, Noting, ThisSetting, PollOnly, world, caches, history
  <1>3. ASSUME NEW u \in Local, Reported(u)
        PROVE  FitInv'
    BY <1>a, <1>3 DEF Reported, FitInv, Noting, ThisSetting, PollOnly, world, caches, history
  <1>4. CASE WindowEnds
    BY <1>a, <1>4 DEF WindowEnds, FitInv, Noting, ThisSetting, PollOnly, world, caches, history
  <1>5. ASSUME NEW r \in Commands, Receive(r)
        PROVE  FitInv'
    BY <1>a, <1>5
       DEF Receive, Event, HasRoom, FitInv, Noting, ThisSetting, PollOnly, world, caches, history
  <1>6. ASSUME NEW a \in Actions, Apply(a)
        PROVE  FitInv'
    BY <1>a, <1>6
       DEF Apply, Event, HasRoom, FitInv, Noting, ThisSetting, PollOnly, world, caches, history
  <1>7. CASE ApplySetpoint
    BY <1>a, <1>7
       DEF ApplySetpoint, HasRoom, FitInv, Noting, ThisSetting, PollOnly, world, caches, history
  <1>8. CASE Take
    <2>1. /\ excused \/ Unsynced(queue[1]) <=> excused'
          /\ UNCHANGED <<unit, powerCache, modeCache, misled>> /\ writer.at = "idle"
      BY <1>a, <1>8, Taken
    <2> QED
      BY <1>a, <2>1 DEF FitInv, Noting
  <1>9. CASE SetAccepted
    <2> SUFFICES ASSUME ~excused', NEW v \in Units, ~misled'[v]
                 PROVE  /\ powerCache'[v] \in {Nothing, unit'[v].on} \/ Noting(v, "power")'
                        /\ modeCache'[v] \in {Nothing, unit'[v].mode} \/ Noting(v, "mode")'
      BY DEF FitInv
    <2>1. CASE AgreesNext(v)
      BY <1>b, <2>1, AgreesMeans
    <2>2. CASE ~AgreesNext(v)
      <3>1. /\ writer.todo # <<>> /\ HappensTo(ThisSetting) /\ Account({}) /\ writer.at = "set"
            /\ powerCache' = powerCache /\ modeCache' = modeCache /\ ~excused
        BY <1>a, <1>9 DEF SetAccepted, TypeOK, caches
      <3>2. writer'.at = "note" /\ ThisSetting' = ThisSetting
        BY <1>a, <1>9 DEF SetAccepted, TypeOK, Writers, ThisSetting
      <3>3. powerCache[v] \in {Nothing, unit[v].on} /\ modeCache[v] \in {Nothing, unit[v].mode}
        BY <1>a, <2>2, <3>1, Accounted DEF FitInv, Noting
      <3>4. CASE v # ThisSetting.unit
        BY <1>a, <3>1, <3>3, <3>4, Made
      <3>5. CASE v = ThisSetting.unit
        <4>1. unit'[v] = CarriedOut(unit[v], ThisSetting) /\ ThisSetting \in Settings /\ unit[v] \in Status
          BY <1>a, <3>1, <3>5, Made, InTheHand
        <4>2. CASE ThisSetting.what = "power"
          <5>1. unit'[v].mode = unit[v].mode
            BY <4>1, <4>2, CarriedOutTyped
          <5> QED
            BY <3>1, <3>2, <3>3, <3>5, <4>2, <5>1 DEF Noting
        <4>3. CASE ThisSetting.what = "mode"
          <5>1. unit'[v].on = (unit[v].on \/ ThisSetting.unit \in Local)
            BY <4>1, <4>3, CarriedOutTyped
          <5>2. unit[v].on
            BY <1>a, <3>1, <3>5, <4>3 DEF HvacInv
          <5>3. unit[v].on = TRUE /\ unit'[v].on = TRUE
            BY <4>1, <5>1, <5>2 DEF Status
          <5> QED
            BY <3>1, <3>2, <3>3, <3>5, <4>3, <5>3 DEF Noting
        <4>4. CASE ThisSetting.what = "scoped"
          BY <3>1, <3>3, <4>1, <4>4, CarriedOutTyped
        <4> QED
          BY <4>1, <4>2, <4>3, <4>4, CarriedOutTyped
      <3> QED
        BY <3>4, <3>5
    <2> QED
      BY <2>1, <2>2
  <1>10. CASE SetVanishes
    BY <1>10 DEF SetVanishes, FitInv
  <1>11. CASE SetRefused
    BY <1>11 DEF SetRefused, FitInv
  <1>12. CASE AnswerLost
    BY <1>12 DEF AnswerLost, FitInv
  <1>13. CASE NoteWrite
    <2> SUFFICES ASSUME ~excused', NEW v \in Units, ~misled'[v]
                 PROVE  /\ powerCache'[v] \in {Nothing, unit'[v].on} \/ Noting(v, "power")'
                        /\ modeCache'[v] \in {Nothing, unit'[v].mode} \/ Noting(v, "mode")'
      BY DEF FitInv
    <2>1. CASE AgreesNext(v)
      BY <1>b, <2>1, AgreesMeans
    <2>2. CASE ~AgreesNext(v)
      <3>1. /\ writer.todo # <<>> /\ ThisSetting.unit \in Units /\ unit' = unit /\ ~excused
            /\ powerCache' = IF ThisSetting.what = "power"
                             THEN [powerCache EXCEPT ![ThisSetting.unit] = ThisSetting.value = "on"] ELSE powerCache
            /\ modeCache' = IF ThisSetting.what = "mode"
                            THEN [modeCache EXCEPT ![ThisSetting.unit] = ThisSetting.value] ELSE modeCache
        BY <1>a, <1>13, NotedAndNext, InTheHand
      <3>2. ~misled[v] /\ (v = ThisSetting.unit => InEffect(ThisSetting))
        BY <1>a, <1>13, <2>2, NotedAccount
      <3>3. /\ powerCache[v] \in {Nothing, unit[v].on} \/ Noting(v, "power")
            /\ modeCache[v] \in {Nothing, unit[v].mode} \/ Noting(v, "mode")
        BY <1>a, <3>1, <3>2 DEF FitInv
      <3>4. powerCache'[v] \in {Nothing, unit'[v].on}
        <4>1. CASE v = ThisSetting.unit /\ ThisSetting.what = "power"
          <5>1. powerCache'[v] = (ThisSetting.value = "on")
            BY <1>a, <3>1, <4>1 DEF TypeOK
          <5> QED
            BY <1>a, <3>1, <3>2, <4>1, <5>1, InEffectMeans
        <4>2. CASE ~(v = ThisSetting.unit /\ ThisSetting.what = "power")
          <5>1. powerCache'[v] = powerCache[v]
            BY <1>a, <3>1, <4>2 DEF TypeOK
          <5> QED
            BY <3>1, <3>3, <4>2, <5>1 DEF Noting
        <4> QED
          BY <4>1, <4>2
      <3>5. modeCache'[v] \in {Nothing, unit'[v].mode}
        <4>1. CASE v = ThisSetting.unit /\ ThisSetting.what = "mode"
          <5>1. modeCache'[v] = ThisSetting.value
            BY <1>a, <3>1, <4>1 DEF TypeOK
          <5> QED
            BY <1>a, <3>1, <3>2, <4>1, <5>1, InEffectMeans
        <4>2. CASE ~(v = ThisSetting.unit /\ ThisSetting.what = "mode")
          <5>1. modeCache'[v] = modeCache[v]
            BY <1>a, <3>1, <4>2 DEF TypeOK
          <5> QED
            BY <3>1, <3>3, <4>2, <5>1 DEF Noting
        <4> QED
          BY <4>1, <4>2
      <3> QED
        BY <3>4, <3>5
    <2> QED
      BY <2>1, <2>2
  <1>14. CASE SyncPeer
    <2>1. /\ excused => excused'
          /\ writer.at = "sync" /\ UNCHANGED <<unit, powerCache, modeCache, misled>>
      BY <1>a, <1>14, PeerLookedAt
    <2> QED
      BY <1>a, <2>1 DEF FitInv, Noting
  <1>15. ASSUME NEW u \in Local, DrainReport(u)
        PROVE  FitInv'
    <2> SUFFICES ASSUME ~excused', NEW v \in Units, ~misled'[v]
                 PROVE  /\ powerCache'[v] \in {Nothing, unit'[v].on} \/ Noting(v, "power")'
                        /\ modeCache'[v] \in {Nothing, unit'[v].mode} \/ Noting(v, "mode")'
      BY DEF FitInv
    <2>1. CASE AgreesNext(v)
      BY <1>b, <2>1, AgreesMeans
    <2>2. CASE ~AgreesNext(v)
      <3>1. /\ writer' = writer /\ unit' = unit /\ powerCache' = [powerCache EXCEPT ![u] = inbox[u].on]
            /\ Account(IF inbox[u] # unit[u] THEN {u} ELSE {}) /\ modeCache' = modeCache /\ excused' = excused
        BY <1>a, <1>15, Drained
      <3>2. ~misled[v] /\ (v = u => inbox[u] = unit[u])
        BY <2>2, <3>1, Accounted
      <3> QED
        BY <1>a, <3>1, <3>2 DEF FitInv, Noting, ThisSetting, TypeOK
    <2> QED
      BY <2>1, <2>2
  <1>16. CASE DrainMode
    <2> DEFINE r == drain
    <2>r. r \in Reports
      BY <1>a, <1>16 DEF TypeOK, DrainMode
    <2> SUFFICES ASSUME ~excused', NEW v \in Units, ~misled'[v]
                 PROVE  /\ powerCache'[v] \in {Nothing, unit'[v].on} \/ Noting(v, "power")'
                        /\ modeCache'[v] \in {Nothing, unit'[v].mode} \/ Noting(v, "mode")'
      BY DEF FitInv
    <2>1. CASE AgreesNext(v)
      BY <1>b, <2>1, AgreesMeans
    <2>2. CASE ~AgreesNext(v)
      <3>1. /\ r.unit \in Units /\ writer' = writer /\ unit' = unit /\ excused' = excused
            /\ modeCache' = [modeCache EXCEPT ![r.unit] = r.status.mode] /\ powerCache' = powerCache
        BY <1>a, <1>16, <2>r, Stored DEF DrainMode, world
      <3>2. ~misled[v] /\ (v = r.unit => r.status = unit[v])
        BY <2>2, <1>16, Accounted DEF DrainMode, Stale
      <3> QED
        BY <1>a, <3>1, <3>2 DEF FitInv, Noting, ThisSetting, TypeOK
    <2> QED
      BY <2>1, <2>2
  <1>17. CASE PollAnswered
    BY <1>a, <1>17
       DEF PollAnswered, PollOnly, FitInv, Noting, ThisSetting, PollOnly, world, caches, history
  <1>18. CASE StoreSnapshot
    <2> SUFFICES ASSUME ~excused', NEW v \in Units, ~misled'[v]
                 PROVE  /\ powerCache'[v] \in {Nothing, unit'[v].on} \/ Noting(v, "power")'
                        /\ modeCache'[v] \in {Nothing, unit'[v].mode} \/ Noting(v, "mode")'
      BY DEF FitInv
    <2>1. CASE AgreesNext(v)
      BY <1>b, <2>1, AgreesMeans
    <2>2. CASE ~AgreesNext(v)
      <3>1. /\ ~misled[v]
            /\ (v \in Local => Nothing \in {powerCache[v], modeCache[v]}) => poll.snap[v] = unit[v]
        BY <1>a, <1>18, <2>2, SnapshotStored, Accounted
      <3>2. writer' = writer /\ unit' = unit /\ excused' = excused
        BY <1>a, <1>18, SnapshotStored
      <3>3. powerCache'[v] = powerCache[v] \/ powerCache'[v] = unit[v].on
        BY <1>a, <1>18, <3>1, SnapshotStored
      <3>4. modeCache'[v] = modeCache[v] \/ modeCache'[v] = unit[v].mode
        BY <1>a, <1>18, <3>1, SnapshotStored
      <3> QED
        BY <1>a, <3>1, <3>2, <3>3, <3>4 DEF FitInv, Noting, ThisSetting
    <2> QED
      BY <2>1, <2>2
  <1>19. CASE LearnGroups
    BY <1>a, <1>19
       DEF LearnGroups, PollOnly, FitInv, Noting, ThisSetting, PollOnly, world, caches, history
  <1>20. CASE ReplayPower
    <2>0. PICK r \in poll.replay : StorePower(r) /\ PollOnly /\ Account(Stale(r))
      BY <1>20 DEF ReplayPower
    <2>r. r \in Reports
      BY <1>a DEF TypeOK, Polls
    <2>s. /\ writer' = writer /\ unit' = unit /\ powerCache' = [powerCache EXCEPT ![r.unit] = r.status.on]
          /\ modeCache' = modeCache /\ excused' = excused
      BY <1>a, <2>0, <2>r, Stored DEF PollOnly, world
    <2> SUFFICES ASSUME ~excused', NEW v \in Units, ~misled'[v]
                 PROVE  /\ powerCache'[v] \in {Nothing, unit'[v].on} \/ Noting(v, "power")'
                        /\ modeCache'[v] \in {Nothing, unit'[v].mode} \/ Noting(v, "mode")'
      BY DEF FitInv
    <2>1. CASE AgreesNext(v)
      BY <1>b, <2>1, AgreesMeans
    <2>2. CASE ~AgreesNext(v)
      <3>2. ~misled[v] /\ (v = r.unit => r.status = unit[v])
        BY <2>2, <2>0, Accounted DEF Stale
      <3> QED
        BY <1>a, <2>s, <3>2 DEF FitInv, Noting, ThisSetting, TypeOK
    <2> QED
      BY <2>1, <2>2
  <1>21. CASE ReplayMode
    <2> DEFINE r == poll.one
    <2>r. r \in Reports
      BY <1>a, <1>21 DEF TypeOK, ReplayMode, Polls
    <2> SUFFICES ASSUME ~excused', NEW v \in Units, ~misled'[v]
                 PROVE  /\ powerCache'[v] \in {Nothing, unit'[v].on} \/ Noting(v, "power")'
                        /\ modeCache'[v] \in {Nothing, unit'[v].mode} \/ Noting(v, "mode")'
      BY DEF FitInv
    <2>1. CASE AgreesNext(v)
      BY <1>b, <2>1, AgreesMeans
    <2>2. CASE ~AgreesNext(v)
      <3>1. /\ r.unit \in Units /\ writer' = writer /\ unit' = unit /\ excused' = excused
            /\ modeCache' = [modeCache EXCEPT ![r.unit] = r.status.mode] /\ powerCache' = powerCache
        BY <1>a, <1>21, <2>r, Stored DEF ReplayMode, PollOnly, world
      <3>2. ~misled[v] /\ (v = r.unit => r.status = unit[v])
        BY <2>2, <1>21, Accounted DEF ReplayMode, Stale
      <3> QED
        BY <1>a, <3>1, <3>2 DEF FitInv, Noting, ThisSetting, TypeOK
    <2> QED
      BY <2>1, <2>2
  <1>22. CASE UNCHANGED vars
    BY <1>a, <1>22
       DEF vars, world, caches, history, FitInv, Noting, ThisSetting, PollOnly, world, caches,
           history
  <1> QED
    BY <1>1, <1>2, <1>3, <1>4, <1>5, <1>6, <1>7, <1>8, <1>9, <1>10, <1>11, <1>12, <1>13, <1>14,
       <1>15, <1>16, <1>17, <1>18, <1>19, <1>20, <1>21, <1>22
       DEF Next, World, Producers, Setter, Writer, Drain, Storing, Polling

\* A setting made once is in effect.
LEMMA MadeIsInEffect ==
    ASSUME NEW status \in Status, NEW s \in Settings
    PROVE  CarriedOut(CarriedOut(status, s), s) = CarriedOut(status, s)
  <1>1. CASE s.what = "power"
    <2> DEFINE next == [on |-> s.value = "on", mode |-> status.mode]
    <2>1. CarriedOut(status, s) = next /\ next \in Status
      BY <1>1, CarriedOutTyped
    <2>2. CarriedOut(next, s) = [on |-> s.value = "on", mode |-> next.mode]
      BY <1>1, <2>1, CarriedOutTyped
    <2> QED
      BY <2>1, <2>2
  <1>2. CASE s.what = "mode"
    <2> DEFINE next == [on |-> status.on \/ s.unit \in Local, mode |-> s.value]
    <2>1. CarriedOut(status, s) = next /\ next \in Status
      BY <1>2, CarriedOutTyped
    <2>2. CarriedOut(next, s) = [on |-> next.on \/ s.unit \in Local, mode |-> s.value]
      BY <1>2, <2>1, CarriedOutTyped
    <2>3. (next.on \/ s.unit \in Local) = (status.on \/ s.unit \in Local)
      OBVIOUS
    <2> QED
      BY <2>1, <2>2, <2>3
  <1>3. CASE s.what = "scoped"
    BY <1>3, CarriedOutTyped
  <1> QED
    BY <1>1, <1>2, <1>3, CarriedOutTyped

\* Every step keeps the settings in hand those of one request mode sync covers.
LEMMA HvacStep == IInv /\ [Next]_vars => HvacInv'
  <1> SUFFICES ASSUME IInv, [Next]_vars
               PROVE  HvacInv'
    OBVIOUS
  <1>a. TypeOK /\ ShapeInv /\ WakeInv /\ HvacInv /\ FitInv /\ PeaceInv /\ BlockInv
    BY DEF IInv
  <1>b. TypeOK'
    BY TypeStep
  <1>1. ASSUME NEW u \in Units, Remote(u)
        PROVE  HvacInv'
    BY <1>1 DEF Remote, HvacInv
  <1>2. ASSUME NEW u \in Units, CloudCatchesUp(u)
        PROVE  HvacInv'
    BY <1>a, <1>2
       DEF CloudCatchesUp, HvacInv, ThisSetting, InEffect, CarriedOut, PollOnly, world, caches,
           history
  <1>3. ASSUME NEW u \in Local, Reported(u)
        PROVE  HvacInv'
    BY <1>a, <1>3
       DEF Reported, HvacInv, ThisSetting, InEffect, CarriedOut, PollOnly, world, caches, history
  <1>4. CASE WindowEnds
    BY <1>a, <1>4
       DEF WindowEnds, HvacInv, ThisSetting, InEffect, CarriedOut, PollOnly, world, caches, history
  <1>5. ASSUME NEW r \in Commands, Receive(r)
        PROVE  HvacInv'
    BY <1>a, <1>5
       DEF Receive, Event, HasRoom, HvacInv, ThisSetting, InEffect, CarriedOut, PollOnly, world,
           caches, history
  <1>6. ASSUME NEW a \in Actions, Apply(a)
        PROVE  HvacInv'
    BY <1>a, <1>6
       DEF Apply, Event, HasRoom, HvacInv, ThisSetting, InEffect, CarriedOut, PollOnly, world,
           caches, history
  <1>7. CASE ApplySetpoint
    BY <1>a, <1>7
       DEF ApplySetpoint, HasRoom, HvacInv, ThisSetting, InEffect, CarriedOut, PollOnly, world,
           caches, history
  <1>8. CASE Take
    <2> SUFFICES ASSUME ~excused', writer'.todo # <<>>
                 PROVE  HvacInv'
      BY DEF HvacInv
    <2> DEFINE r == queue[1]
    <2>1. ~LacksMode(r)
      BY <1>a, <1>8, Taken DEF Idle
    <2>2. /\ r \in Requests /\ ~Unsynced(r) /\ writer'.at = "set" /\ writer'.todo = SettingsOf(r)
          /\ writer'.sync = SyncOf(r)
      BY <1>a, <1>8, <2>1, Taken
    <2> HIDE DEF r
    <2>3. CASE r.item = "hvac" /\ r.value = "off"
      <3>1. SettingsOf(r) = <<Setting(r.unit, "power", "off")>> /\ SyncOf(r) = Nothing
        BY <1>a, <2>2, <2>3, SettingsTyped DEF SyncOf
      <3> QED
        BY <2>2, <3>1 DEF HvacInv, ThisSetting, Setting
    <2>4. CASE r.item = "hvac" /\ r.value # "off"
      <3> DEFINE s == Setting(r.unit, "power", "on")
                 t == [Setting(r.unit, "mode", r.value) EXCEPT !.for = r.for]
      <3>1. SettingsOf(r) = <<s, t>> /\ SyncOf(r) = r.value
        BY <1>a, <2>2, <2>4, SettingsTyped DEF SyncOf
      <3>2. s.what = "power" /\ s.value = "on" /\ t.what = "mode" /\ t.value = r.value /\ ~t.sync
        BY DEF Setting
      <3> HIDE DEF s, t
      <3>3. Head(<<s, t>>) = s /\ Len(<<s, t>>) = 2 /\ <<s, t>>[2] = t
        OBVIOUS
      <3> QED
        BY <2>2, <3>1, <3>2, <3>3 DEF HvacInv, ThisSetting
    <2>5. CASE r.item = "power"
      <3>1. SettingsOf(r) = <<Setting(r.unit, "power", r.value)>> /\ SyncOf(r) = Nothing /\ r.value = "off"
        BY <1>a, <2>2, <2>5, SettingsTyped DEF SyncOf, Unsynced, Requests
      <3> QED
        BY <2>2, <3>1 DEF HvacInv, ThisSetting, Setting
    <2>6. CASE r.item \in {"setpoint", "fan"}
      <3> DEFINE s == Scoped(r)
      <3>1. SettingsOf(r) \in {<<s>>, <<s, s>>} /\ SyncOf(r) = Nothing
        BY <1>a, <2>2, <2>6, SettingsTyped DEF SyncOf
      <3>2. s.what = "scoped"
        BY DEF Scoped
      <3> HIDE DEF s
      <3>3. /\ Head(<<s>>) = s /\ \A n \in DOMAIN <<s>> : <<s>>[n] = s
            /\ Head(<<s, s>>) = s /\ \A n \in DOMAIN <<s, s>> : <<s, s>>[n] = s
        OBVIOUS
      <3>4. Head(writer'.todo) = s /\ \A n \in DOMAIN writer'.todo : writer'.todo[n] = s
        BY <2>2, <3>1, <3>3
      <3> QED
        BY <2>2, <3>1, <3>2, <3>4 DEF HvacInv, ThisSetting
    <2> QED
      BY <1>a, <2>2, <2>3, <2>4, <2>5, <2>6, SettingsTyped DEF Unsynced
  <1>9. CASE SetAccepted
    <2> SUFFICES ASSUME ~excused', writer'.todo # <<>>
                 PROVE  HvacInv'
      BY DEF HvacInv
    <2>1. /\ writer.todo # <<>> /\ HappensTo(ThisSetting) /\ writer.at = "set" /\ ~excused
          /\ writer' = [writer EXCEPT !.at = "note"] /\ writer \in Writers
      BY <1>a, <1>9 DEF SetAccepted, TypeOK
    <2>2. writer'.at = "note" /\ writer'.todo = writer.todo /\ writer'.sync = writer.sync /\ ThisSetting' = ThisSetting
      BY <2>1 DEF Writers, ThisSetting
    <2>3. /\ unit'[ThisSetting.unit] = CarriedOut(unit[ThisSetting.unit], ThisSetting)
          /\ ThisSetting \in Settings /\ unit[ThisSetting.unit] \in Status
      BY <1>a, <2>1, Made, InTheHand
    <2>4. InEffect(ThisSetting)'
      <3>1. CarriedOut(unit'[ThisSetting.unit], ThisSetting) = unit'[ThisSetting.unit]
        BY <2>3, MadeIsInEffect
      <3> QED
        BY <2>2, <3>1 DEF InEffect, CarriedOut
    <2>5. ThisSetting.what = "mode" /\ unit[ThisSetting.unit].on => unit'[ThisSetting.unit].on
      <3> SUFFICES ASSUME ThisSetting.what = "mode", unit[ThisSetting.unit].on
                   PROVE  unit'[ThisSetting.unit].on
        OBVIOUS
      <3>1. unit'[ThisSetting.unit].on = (unit[ThisSetting.unit].on \/ ThisSetting.unit \in Local)
        BY <2>3, CarriedOutTyped
      <3> QED
        BY <3>1
    <2> QED
      BY <1>a, <2>1, <2>2, <2>4, <2>5 DEF HvacInv
  <1>10. CASE SetVanishes
    BY <1>10 DEF SetVanishes, HvacInv
  <1>11. CASE SetRefused
    BY <1>11 DEF SetRefused, HvacInv
  <1>12. CASE AnswerLost
    BY <1>12 DEF AnswerLost, HvacInv
  <1>13. CASE NoteWrite
    <2> SUFFICES ASSUME ~excused', writer'.todo # <<>>
                 PROVE  HvacInv'
      BY DEF HvacInv
    <2>1. /\ writer.at = "note" /\ writer.todo # <<>> /\ writer'.at # "note" /\ writer'.todo = Tail(writer.todo)
          /\ writer'.sync = writer.sync /\ unit' = unit /\ ~excused
      <3>1. writer' # Idle
        BY DEF Idle
      <3> QED
        BY <1>a, <1>13, <3>1, NotedAndNext
    <2>2. /\ Len(writer.todo) \in Nat /\ Len(writer.todo) > 1 /\ ThisSetting' = writer.todo[2]
          /\ DOMAIN writer.todo = 1..Len(writer.todo) /\ DOMAIN writer'.todo = 1..(Len(writer.todo) - 1)
          /\ \A n \in 1..(Len(writer.todo) - 1) : writer'.todo[n] = writer.todo[n + 1]
          /\ Len(writer'.todo) = Len(writer.todo) - 1
      BY <1>a, <2>1, InTheHand, TodoParts DEF ThisSetting
    <2>3. InEffect(ThisSetting) /\ ThisSetting.unit = writer.todo[2].unit
      BY <1>a, <2>1, <2>2 DEF HvacInv, ShapeInv
    <2>4. CASE /\ ThisSetting.what = "scoped" /\ writer.sync = Nothing
               /\ \A n \in DOMAIN writer.todo : writer.todo[n].what = "scoped"
      <3>1. \A n \in DOMAIN writer'.todo : writer'.todo[n].what = "scoped"
        <4> SUFFICES ASSUME NEW n \in DOMAIN writer'.todo
                     PROVE  writer'.todo[n].what = "scoped"
          OBVIOUS
        <4>1. n \in 1..(Len(writer.todo) - 1) /\ n + 1 \in 1..Len(writer.todo)
          BY <2>2
        <4>2. writer'.todo[n] = writer.todo[n + 1] /\ n + 1 \in DOMAIN writer.todo
          BY <2>2, <4>1
        <4> QED
          BY <2>4, <4>2
      <3>2. ThisSetting'.what = "scoped"
        BY <2>2, <2>4
      <3> QED
        BY <2>1, <2>4, <3>1, <3>2 DEF HvacInv
    <2>5. CASE /\ ThisSetting.what = "power" /\ ThisSetting.value = "on"
               /\ Len(writer.todo) = 2 /\ writer.todo[2].what = "mode"
               /\ writer.todo[2].value = writer.sync /\ ~writer.todo[2].sync
      <3>1. unit[ThisSetting.unit].on
        BY <1>a, <2>1, <2>3, <2>5, InEffectMeans
      <3>2. unit'[ThisSetting'.unit].on
        BY <2>1, <2>2, <2>3, <3>1
      <3>3. Len(writer'.todo) = 1
        BY <2>2, <2>5
      <3> QED
        BY <2>1, <2>2, <2>5, <3>2, <3>3 DEF HvacInv
    <2> QED
      BY <1>a, <2>1, <2>2, <2>5 DEF HvacInv
  <1>14. CASE SyncPeer
    <2> SUFFICES ASSUME ~excused', writer'.todo # <<>>
                 PROVE  HvacInv'
      BY DEF HvacInv
    <2> DEFINE peer == Head(writer.peers)
               s == [Setting(peer, "mode", writer.sync) EXCEPT !.sync = TRUE]
    <2>1. /\ RunsAgainst(peer, writer.sync) /\ peer \in Units /\ ~misled[peer] /\ writer.at = "sync"
          /\ writer'.todo = <<s>> /\ writer'.at = "set" /\ writer'.sync = writer.sync /\ unit' = unit
      BY <1>a, <1>14, PeerLookedAt
    <2>2. unit[peer].on
      BY <1>a, <2>1 DEF WakeInv, Noting, RunsAgainst
    <2>3. s.what = "mode" /\ s.value = writer.sync /\ s.unit = peer
      BY DEF Setting
    <2> HIDE DEF s, peer
    <2>4. ThisSetting' = s /\ Len(writer'.todo) = 1
      BY <2>1 DEF ThisSetting
    <2> QED
      BY <2>1, <2>2, <2>3, <2>4 DEF HvacInv
  <1>15. ASSUME NEW u \in Local, DrainReport(u)
        PROVE  HvacInv'
    BY <1>a, <1>15, Drained DEF HvacInv, ThisSetting, InEffect, CarriedOut
  <1>16. CASE DrainMode
    BY <1>a, <1>16
       DEF DrainMode, HvacInv, ThisSetting, InEffect, CarriedOut, PollOnly, world, caches, history
  <1>17. CASE PollAnswered
    BY <1>a, <1>17
       DEF PollAnswered, PollOnly, HvacInv, ThisSetting, InEffect, CarriedOut, PollOnly, world,
           caches, history
  <1>18. CASE StoreSnapshot
    BY <1>a, <1>18, SnapshotStored DEF HvacInv, ThisSetting, InEffect, CarriedOut
  <1>19. CASE LearnGroups
    BY <1>a, <1>19
       DEF LearnGroups, PollOnly, HvacInv, ThisSetting, InEffect, CarriedOut, PollOnly, world,
           caches, history
  <1>20. CASE ReplayPower
    <2>1. writer' = writer /\ unit' = unit /\ excused' = excused
      BY <1>20 DEF ReplayPower, PollOnly, Account, world
    <2> QED
      BY <1>a, <2>1 DEF HvacInv, ThisSetting, InEffect, CarriedOut
  <1>21. CASE ReplayMode
    BY <1>a, <1>21
       DEF ReplayMode, PollOnly, HvacInv, ThisSetting, InEffect, CarriedOut, PollOnly, world,
           caches, history
  <1>22. CASE UNCHANGED vars
    BY <1>a, <1>22
       DEF vars, world, caches, history, HvacInv, ThisSetting, InEffect, CarriedOut, PollOnly,
           world, caches, history
  <1> QED
    BY <1>1, <1>2, <1>3, <1>4, <1>5, <1>6, <1>7, <1>8, <1>9, <1>10, <1>11, <1>12, <1>13, <1>14,
       <1>15, <1>16, <1>17, <1>18, <1>19, <1>20, <1>21, <1>22
       DEF Next, World, Producers, Setter, Writer, Drain, Storing, Polling

\* Units that are where they were are at peace if they were.
LEMMA PeaceKept ==
    ASSUME NEW units, NEW fewer \in SUBSET units, Peace(units), \A u \in fewer : unit'[u] = unit[u]
    PROVE  Peace(fewer)'
  BY DEF Peace, Opposed

\* Units none of which is contrary to a direction are at peace.
LEMMA AgreedIsPeace ==
    ASSUME NEW units, NEW mode, Family(mode) # Nothing, \A u \in units : ~Contrary(u, mode)'
    PROVE  Peace(units)'
  BY DEF Contrary, Peace, Opposed, Against

\* The unit in hand.
LEMMA InHandIs ==
    ASSUME TypeOK
    PROVE  /\ writer.todo = <<>> => InHand = {}
           /\ writer.todo # <<>> => InHand = {ThisSetting.unit}
  <1>1. CASE writer.todo = <<>>
    BY <1>1 DEF InHand, ToSet
  <1>2. CASE writer.todo # <<>>
    <2>1. writer.todo[1] \in ToSet(writer.todo)
      BY <1>2, InTheHand DEF ToSet
    <2> QED
      BY <1>2, <2>1 DEF InHand
  <1> QED
    BY <1>1, <1>2

\* Peace is about the units, the writer and what excuses them.
LEMMA PeaceFrame ==
    ASSUME PeaceInv, UNCHANGED <<unit, writer, excused>>
    PROVE  PeaceInv'
  BY DEF PeaceInv, Peace, Opposed, Contrary, SyncUnderWay, Pending, InHand, ThisSetting

\* Every step keeps the units agreed on a direction, as long as nothing came between.
LEMMA PeaceStep == IInv /\ [Next]_vars => PeaceInv'
  <1> SUFFICES ASSUME IInv, [Next]_vars
               PROVE  PeaceInv'
    OBVIOUS
  <1>a. TypeOK /\ ShapeInv /\ WakeInv /\ HvacInv /\ FitInv /\ PeaceInv /\ BlockInv
    BY DEF IInv
  <1>b. TypeOK'
    BY TypeStep
  <1>1. ASSUME NEW u \in Units, Remote(u)
        PROVE  PeaceInv'
    BY <1>1 DEF Remote, PeaceInv
  <1>2. ASSUME NEW u \in Units, CloudCatchesUp(u)
        PROVE  PeaceInv'
    BY <1>a, <1>2, PeaceFrame DEF CloudCatchesUp, PollOnly, world, caches, history
  <1>3. ASSUME NEW u \in Local, Reported(u)
        PROVE  PeaceInv'
    BY <1>a, <1>3, PeaceFrame DEF Reported, PollOnly, world, caches, history
  <1>4. CASE WindowEnds
    BY <1>a, <1>4, PeaceFrame DEF WindowEnds, PollOnly, world, caches, history
  <1>5. ASSUME NEW r \in Commands, Receive(r)
        PROVE  PeaceInv'
    BY <1>a, <1>5, PeaceFrame DEF Receive, PollOnly, world, caches, history
  <1>6. ASSUME NEW a \in Actions, Apply(a)
        PROVE  PeaceInv'
    BY <1>a, <1>6, PeaceFrame DEF Apply, PollOnly, world, caches, history
  <1>7. CASE ApplySetpoint
    BY <1>a, <1>7, PeaceFrame DEF ApplySetpoint, PollOnly, world, caches, history
  <1>8. CASE Take
    <2> SUFFICES ASSUME ~excused'
                 PROVE  PeaceInv'
      BY DEF PeaceInv
    <2>1. Peace(Units) /\ unit' = unit
      BY <1>a, <1>8, Taken DEF PeaceInv
    <2>2. \A fewer \in SUBSET Units : Peace(fewer)'
      BY <2>1, PeaceKept
    <2>3. Peace(Units)'
      BY <2>2
    <2>4. CASE LacksMode(queue[1])
      <3>1. writer'.at = "idle" /\ writer'.todo = <<>>
        BY <1>a, <1>8, <2>4, Taken DEF Idle
      <3> QED
        BY <2>3, <3>1 DEF PeaceInv, SyncUnderWay
    <2>5. CASE ~LacksMode(queue[1])
      <3>1. writer'.at = "set" /\ ~ThisSetting'.sync
        <4>1. queue[1] \in Requests /\ writer'.todo = SettingsOf(queue[1]) /\ writer'.at = "set"
          BY <1>a, <1>8, <2>5, Taken
        <4>2. 1 \in DOMAIN SettingsOf(queue[1]) /\ Head(SettingsOf(queue[1])) = SettingsOf(queue[1])[1]
          BY <1>a, <4>1, SettingsTyped, TodoParts
        <4> QED
          BY <1>a, <4>1, <4>2, SettingsTyped DEF ThisSetting
      <3>2. Peace(IF ThisSetting.what = "scoped" THEN Units ELSE Units \ {ThisSetting.unit})'
        <4>1. (IF ThisSetting'.what = "scoped" THEN Units ELSE Units \ {ThisSetting'.unit}) \in SUBSET Units
          OBVIOUS
        <4> QED
          BY <2>2, <4>1 DEF Peace, Opposed
      <3> QED
        BY <3>1, <3>2 DEF PeaceInv, SyncUnderWay
    <2> QED
      BY <2>4, <2>5
  <1>9. CASE SetAccepted
    <2> SUFFICES ASSUME ~excused'
                 PROVE  PeaceInv'
      BY DEF PeaceInv
    <2>1. /\ writer.todo # <<>> /\ HappensTo(ThisSetting) /\ writer.at = "set" /\ ~excused
          /\ writer' = [writer EXCEPT !.at = "note"] /\ writer \in Writers
      BY <1>a, <1>9 DEF SetAccepted, TypeOK
    <2>2. /\ writer'.at = "note" /\ writer'.todo = writer.todo /\ writer'.sync = writer.sync
          /\ writer'.peers = writer.peers
      BY <2>1 DEF Writers
    <2>3. ThisSetting' = ThisSetting /\ Pending' = Pending
      BY <2>2 DEF ThisSetting, Pending, InHand
    <2>4. /\ unit'[ThisSetting.unit] = CarriedOut(unit[ThisSetting.unit], ThisSetting)
          /\ \A u \in Units \ {ThisSetting.unit} : unit'[u] = unit[u]
          /\ ThisSetting \in Settings /\ unit[ThisSetting.unit] \in Status
      BY <1>a, <2>1, Made, InTheHand
    <2>5. ~ThisSetting.sync => Peace(IF ThisSetting.what = "scoped" THEN Units ELSE Units \ {ThisSetting.unit})'
      <3>1. CASE ThisSetting.what = "scoped"
        <4>1. \A u \in Units : unit'[u] = unit[u]
          BY <2>4, <3>1, CarriedOutTyped
        <4>2. ~ThisSetting.sync => Peace(Units)
          BY <1>a, <2>1, <3>1 DEF PeaceInv
        <4>3. ~ThisSetting.sync => Peace(Units)'
          BY <4>1, <4>2, PeaceKept
        <4> QED
          BY <2>3, <3>1, <4>3
      <3>2. CASE ThisSetting.what # "scoped"
        <4> DEFINE others == Units \ {ThisSetting.unit}
        <4>1. ~ThisSetting.sync => Peace(others)
          BY <1>a, <2>1, <3>2 DEF PeaceInv
        <4>2. \A u \in others : unit'[u] = unit[u]
          BY <2>4
        <4>3. others' = others
          BY <2>3
        <4>4. ~ThisSetting.sync => \A u, v \in others : ~Opposed(unit', u, v)
          BY <4>1, <4>2 DEF Peace, Opposed
        <4> QED
          BY <2>3, <3>2, <4>3, <4>4 DEF Peace, Opposed
      <3> QED
        BY <3>1, <3>2
    <2>6. ThisSetting.sync => /\ Family(writer.sync) # Nothing
                              /\ \A u \in Units \ Pending : ~Contrary(u, writer.sync)'
      <3> SUFFICES ASSUME ThisSetting.sync
                   PROVE  /\ Family(writer.sync) # Nothing
                          /\ \A u \in Units \ Pending : ~Contrary(u, writer.sync)'
        OBVIOUS
      <3>1. Family(writer.sync) # Nothing /\ \A u \in Units \ Pending : ~Contrary(u, writer.sync)
        BY <1>a, <2>1 DEF PeaceInv, SyncUnderWay
      <3>2. \A u \in Units \ Pending : u # ThisSetting.unit
        BY <1>a, <2>1, InHandIs DEF Pending
      <3> QED
        BY <2>2, <2>4, <3>1, <3>2 DEF Contrary
    <2> QED
      BY <2>1, <2>2, <2>3, <2>5, <2>6 DEF PeaceInv, SyncUnderWay, Contrary
  <1>10. CASE SetVanishes
    BY <1>10 DEF SetVanishes, PeaceInv
  <1>11. CASE SetRefused
    BY <1>11 DEF SetRefused, PeaceInv
  <1>12. CASE AnswerLost
    BY <1>12 DEF AnswerLost, PeaceInv
  <1>13. CASE NoteWrite
    <2> SUFFICES ASSUME ~excused'
                 PROVE  PeaceInv'
      BY DEF PeaceInv
    <2> DEFINE s == ThisSetting
               syncs == /\ Len(writer.todo) = 1 /\ ~s.sync
                        /\ writer.sync # Nothing /\ Family(writer.sync) # Nothing
               peers == IF syncs THEN Peers(s.unit) ELSE writer.peers
    <2>1. /\ writer.at = "note" /\ writer.todo # <<>> /\ unit' = unit /\ ~excused
          /\ writer'.todo = Tail(writer.todo) /\ writer'.peers = peers /\ writer'.at # "note"
          /\ writer' # Idle => writer'.sync = writer.sync
          /\ (writer'.at \in {"set", "note"}) <=> (writer'.todo # <<>>)
          /\ (writer'.at = "idle") <=> (Tail(writer.todo) = <<>> /\ peers = <<>>)
          /\ syncs => learnt = "groups"
      BY <1>a, <1>13, NotedAndNext
    <2>2. s \in Settings /\ s.unit \in Units /\ InEffect(s)
      BY <1>a, <2>1, InTheHand DEF HvacInv
    <2>3. Tail(writer.todo) = <<>> <=> Len(writer.todo) = 1
      BY <1>a, <2>1, InTheHand
    <2>4. \A fewer \in SUBSET Units : Peace(fewer) => Peace(fewer)'
      BY <2>1 DEF Peace, Opposed
    <2>5. CASE Len(writer.todo) # 1
      <3>1. /\ writer'.at = "set" /\ writer'.todo # <<>> /\ ~s.sync /\ s.what \in {"power", "scoped"}
            /\ ThisSetting' = writer.todo[2] /\ ~ThisSetting'.sync /\ ThisSetting'.unit = s.unit
            /\ s.what = "scoped" => ThisSetting'.what = "scoped"
            /\ s.what = "power" => ThisSetting'.what = "mode"
        <4>1. writer'.todo # <<>> /\ writer'.at = "set"
          BY <2>1, <2>3, <2>5
        <4>2. /\ Len(writer.todo) \in Nat \ {0, 1} /\ ThisSetting' = writer.todo[2]
              /\ DOMAIN writer.todo = 1..Len(writer.todo) /\ 1 \in 1..Len(writer.todo) /\ 2 \in 1..Len(writer.todo)
              /\ ThisSetting = writer.todo[1]
          BY <1>a, <2>1, <2>5, <4>1, InTheHand, TodoParts DEF ThisSetting
        <4>3. ~writer.todo[1].sync /\ ~writer.todo[2].sync /\ writer.todo[2].unit = s.unit
          BY <1>a, <2>1, <2>5, <4>2 DEF ShapeInv
        <4>4. \/ s.what = "scoped" /\ writer.todo[2].what = "scoped"
              \/ s.what = "power" /\ writer.todo[2].what = "mode"
          BY <1>a, <2>1, <2>5, <4>2 DEF HvacInv
        <4> QED
          BY <4>1, <4>2, <4>3, <4>4
      <3>2. Peace(IF s.what = "scoped" THEN Units ELSE Units \ {s.unit})
        BY <1>a, <2>1, <3>1 DEF PeaceInv
      <3>3. Peace(IF ThisSetting.what = "scoped" THEN Units ELSE Units \ {ThisSetting.unit})'
        <4>1. CASE s.what = "scoped"
          BY <2>1, <3>1, <3>2, <4>1 DEF Peace, Opposed
        <4>2. CASE s.what = "power"
          BY <2>1, <3>1, <3>2, <4>2 DEF Peace, Opposed
        <4> QED
          BY <3>1, <4>1, <4>2
      <3> QED
        BY <3>1, <3>3 DEF PeaceInv, SyncUnderWay
    <2>6. CASE Len(writer.todo) = 1
      <3>1. writer'.todo = <<>>
        BY <2>1, <2>3, <2>6
      <3>2. \/ s.what \in {"scoped", "power"} /\ writer.sync = Nothing /\ (s.what = "power" => s.value = "off")
            \/ s.what = "mode" /\ s.value = writer.sync
        BY <1>a, <2>1, <2>6 DEF HvacInv
      <3>3. CASE s.what \in {"scoped", "power"}
        <4>1. writer.sync = Nothing /\ ~syncs /\ ~s.sync
          <5>1. writer.sync = Nothing
            BY <3>2, <3>3
          <5>2. ~s.sync
            BY <2>2, <3>3, <5>1 DEF Settings
          <5> QED
            BY <5>1, <5>2
        <4>2. peers = <<>>
          BY <1>a, <2>1, <4>1 DEF ShapeInv
        <4>3. Peace(Units)'
          <5>1. Peace(IF s.what = "scoped" THEN Units ELSE Units \ {s.unit})
            BY <1>a, <2>1, <4>1 DEF PeaceInv
          <5>2. CASE s.what = "scoped"
            BY <2>1, <5>1, <5>2 DEF Peace, Opposed
          <5>3. CASE s.what = "power"
            <6>1. ~unit[s.unit].on
              BY <1>a, <2>1, <2>2, <3>2, <5>3, InEffectMeans
            <6> QED
              BY <2>1, <5>1, <5>3, <6>1 DEF Peace, Opposed
          <5> QED
            BY <3>3, <5>2, <5>3
        <4>4. writer'.at = "idle"
          BY <2>1, <2>3, <2>6, <4>2
        <4> QED
          BY <3>1, <4>3, <4>4 DEF PeaceInv, SyncUnderWay
      <3>4. CASE s.what = "mode"
        <4>1. unit[s.unit].mode = writer.sync
          BY <1>a, <2>1, <2>2, <3>2, <3>4, InEffectMeans
        <4>2. ~Contrary(s.unit, writer.sync)
          <5>1. ~Against(Family(unit[s.unit].mode), Family(writer.sync))
            BY <4>1 DEF Against
          <5> QED
            BY <5>1 DEF Contrary
        <4>3. CASE s.sync
          <5>1. /\ Family(writer.sync) # Nothing
                /\ \A u \in Units \ (ToSet(writer.peers) \cup {s.unit}) : ~Contrary(u, writer.sync)
            BY <1>a, <2>1, <4>3, InHandIs DEF PeaceInv, SyncUnderWay, Pending
          <5>2. \A u \in Units \ ToSet(writer.peers) : ~Contrary(u, writer.sync)
            BY <4>2, <5>1
          <5>3. writer'.peers = writer.peers
            BY <2>1, <4>3
          <5>4. CASE writer.peers = <<>>
            <6>1. writer'.at = "idle" /\ ToSet(writer.peers) = {}
              BY <2>1, <2>3, <2>6, <4>3, <5>4 DEF ToSet
            <6>2. Peace(Units)
              BY <5>1, <5>2, <6>1 DEF Peace, Opposed, Contrary, Against
            <6> QED
              BY <2>4, <3>1, <6>1, <6>2 DEF PeaceInv, SyncUnderWay
          <5>5. CASE writer.peers # <<>>
            <6>1. writer'.at = "sync" /\ writer'.sync = writer.sync
              <7>1. writer' # Idle /\ writer'.at \in {"idle", "set", "note", "sync"}
                BY <1>b, <2>1, <5>3, <5>5 DEF Idle, TypeOK, Writers
              <7> QED
                BY <2>1, <3>1, <5>3, <5>5, <7>1
            <6>2. Pending' = ToSet(writer.peers)
              BY <1>b, <3>1, <5>3, InHandIs DEF Pending, InHand, ToSet
            <6> QED
              BY <2>1, <3>1, <5>1, <5>2, <6>1, <6>2 DEF PeaceInv, SyncUnderWay, Contrary
          <5> QED
            BY <5>4, <5>5
        <4>4. CASE ~s.sync
          <5>1. Peace(Units \ {s.unit}) /\ writer.peers = <<>>
            BY <1>a, <2>1, <3>4, <4>4 DEF PeaceInv, ShapeInv
          <5>2. writer.sync # Nothing
            BY <2>2, <3>2, <3>4, NothingIsNoValue DEF Settings
          <5>3. CASE syncs
            <6>1. Peers(s.unit) \in Seq(Units) /\ Units \ {s.unit} \subseteq ToSet(Peers(s.unit)) /\ peers = Peers(s.unit)
              BY <2>1, <2>2, <5>3, PeersTyped
            <6>2. CASE peers = <<>>
              <7>1. writer'.at = "idle" /\ Units \ {s.unit} = {}
                BY <2>1, <2>3, <2>6, <6>1, <6>2 DEF ToSet
              <7>2. Peace(Units)
                BY <7>1 DEF Peace, Opposed, Against
              <7> QED
                BY <2>4, <3>1, <7>1, <7>2 DEF PeaceInv, SyncUnderWay
            <6>3. CASE peers # <<>>
              <7>1. writer'.at = "sync" /\ writer'.sync = writer.sync /\ writer'.peers = peers
                <8>1. writer' # Idle /\ writer'.at \in {"idle", "set", "note", "sync"}
                  BY <1>b, <2>1, <6>3 DEF Idle, TypeOK, Writers
                <8> QED
                  BY <2>1, <3>1, <6>3, <8>1
              <7>2. Units \ {s.unit} \subseteq Pending'
                BY <6>1, <7>1 DEF Pending, ToSet
              <7>3. \A u \in Units \ Pending' : ~Contrary(u, writer.sync)'
                <8> SUFFICES ASSUME NEW u \in Units, u = s.unit
                             PROVE  ~Contrary(u, writer.sync)'
                  BY <7>2
                <8> QED
                  BY <2>1, <4>2, <7>1 DEF Contrary
              <7>4. Family(writer.sync) # Nothing
                BY <5>3
              <7> HIDE DEF syncs, peers, s
              <7> QED
                BY <3>1, <7>1, <7>3, <7>4 DEF PeaceInv, SyncUnderWay, Contrary
            <6> QED
              BY <6>2, <6>3
          <5>4. CASE ~syncs
            <6>1. Family(writer.sync) = Nothing
              BY <2>6, <4>4, <5>2, <5>4
            <6>2. writer'.at = "idle"
              BY <2>1, <2>3, <2>6, <5>1, <5>4
            <6>3. Peace(Units)
              BY <4>1, <5>1, <6>1 DEF Peace, Opposed, Against
            <6> QED
              BY <2>4, <3>1, <6>2, <6>3 DEF PeaceInv, SyncUnderWay
          <5> QED
            BY <5>3, <5>4
        <4> QED
          BY <4>3, <4>4
      <3> QED
        BY <3>2, <3>3, <3>4
    <2> QED
      BY <2>5, <2>6
  <1>14. CASE SyncPeer
    <2> SUFFICES ASSUME ~excused'
                 PROVE  PeaceInv'
      BY DEF PeaceInv
    <2> DEFINE peer == Head(writer.peers)
               rest == Tail(writer.peers)
               s == [Setting(peer, "mode", writer.sync) EXCEPT !.sync = TRUE]
    <2>1. /\ writer.at = "sync" /\ writer.todo = <<>> /\ ~excused /\ ~misled[peer] /\ peer \in Units
          /\ powerCache[peer] # Nothing /\ modeCache[peer] # Nothing /\ unit' = unit
          /\ ToSet(writer.peers) = {peer} \cup ToSet(rest)
      BY <1>a, <1>14, PeerLookedAt
    <2>2. /\ Family(writer.sync) # Nothing
          /\ \A u \in Units \ ({peer} \cup ToSet(rest)) : ~Contrary(u, writer.sync)
      BY <1>a, <2>1, InHandIs DEF PeaceInv, SyncUnderWay, Pending
    <2>3. CASE RunsAgainst(peer, writer.sync)
      <3>1. /\ writer'.todo = <<s>> /\ writer'.at = "set" /\ writer'.peers = rest /\ writer'.sync = writer.sync
        BY <1>a, <1>14, <2>3, PeerLookedAt
      <3>2. s.sync /\ s.unit = peer
        BY DEF Setting
      <3> HIDE DEF s
      <3>3. ThisSetting' = s /\ writer'.todo # <<>>
        BY <3>1 DEF ThisSetting
      <3>4. Pending' = {peer} \cup ToSet(rest)
        <4>1. InHand' = {ThisSetting'.unit}
          <5>1. s \in ToSet(writer'.todo)
            BY <3>1 DEF ToSet
          <5> QED
            BY <5>1 DEF InHand
        <4> QED
          BY <3>1, <3>2, <3>3, <4>1 DEF Pending, ToSet
      <3> HIDE DEF peer, rest
      <3> QED
        BY <2>1, <2>2, <3>1, <3>2, <3>3, <3>4 DEF PeaceInv, SyncUnderWay, Contrary
    <2>4. CASE ~RunsAgainst(peer, writer.sync)
      <3>1. /\ writer'.todo = <<>> /\ writer'.peers = rest
            /\ IF rest = <<>> THEN writer' = Idle ELSE writer'.at = "sync" /\ writer'.sync = writer.sync
        BY <1>a, <1>14, <2>4, PeerLookedAt
      <3>2. ~Contrary(peer, writer.sync)
        <4>1. powerCache[peer] = unit[peer].on /\ modeCache[peer] = unit[peer].mode
          BY <1>a, <2>1 DEF FitInv, Noting
        <4>2. unit[peer].on \in BOOLEAN
          BY <1>a, <2>1 DEF TypeOK, Status
        <4> QED
          BY <2>1, <2>4, <4>1, <4>2 DEF RunsAgainst, Contrary
      <3>3. \A u \in Units \ ToSet(rest) : ~Contrary(u, writer.sync)
        BY <2>2, <3>2
      <3>4. CASE rest = <<>>
        <4>1. writer'.at = "idle" /\ ToSet(rest) = {}
          BY <3>1, <3>4 DEF Idle, ToSet
        <4>2. Peace(Units)
          BY <2>2, <3>3, <4>1 DEF Peace, Opposed, Contrary, Against
        <4>3. Peace(Units)'
          BY <2>1, <4>2 DEF Peace, Opposed
        <4> QED
          BY <3>1, <4>1, <4>3 DEF PeaceInv, SyncUnderWay
      <3>5. CASE rest # <<>>
        <4>1. Pending' = ToSet(rest)
          BY <1>b, <3>1, InHandIs DEF Pending, InHand, ToSet
        <4> HIDE DEF peer, rest
        <4> QED
          BY <2>1, <2>2, <3>1, <3>3, <3>5, <4>1 DEF PeaceInv, SyncUnderWay, Contrary
      <3> QED
        BY <3>4, <3>5
    <2> QED
      BY <2>3, <2>4
  <1>15. ASSUME NEW u \in Local, DrainReport(u)
        PROVE  PeaceInv'
    BY <1>a, <1>15, PeaceFrame, Drained
  <1>16. CASE DrainMode
    BY <1>a, <1>16, PeaceFrame DEF DrainMode, PollOnly, world, caches, history
  <1>17. CASE PollAnswered
    BY <1>a, <1>17, PeaceFrame DEF PollAnswered, PollOnly, world, caches, history
  <1>18. CASE StoreSnapshot
    BY <1>a, <1>18, PeaceFrame, SnapshotStored
  <1>19. CASE LearnGroups
    BY <1>a, <1>19, PeaceFrame DEF LearnGroups, PollOnly, world, caches, history
  <1>20. CASE ReplayPower
    BY <1>a, <1>20, PeaceFrame DEF ReplayPower, PollOnly, world, caches, history
  <1>21. CASE ReplayMode
    BY <1>a, <1>21, PeaceFrame DEF ReplayMode, PollOnly, world, caches, history
  <1>22. CASE UNCHANGED vars
    BY <1>a, <1>22, PeaceFrame DEF vars, world, history
  <1> QED
    BY <1>1, <1>2, <1>3, <1>4, <1>5, <1>6, <1>7, <1>8, <1>9, <1>10, <1>11, <1>12, <1>13, <1>14,
       <1>15, <1>16, <1>17, <1>18, <1>19, <1>20, <1>21, <1>22
       DEF Next, World, Producers, Setter, Writer, Drain, Storing, Polling

\* Who a request is for.
LEMMA RequestParts ==
    ASSUME NEW r \in Requests
    PROVE  r.unit \in Units /\ r.for \in Modes \cup {Nothing}
  BY DEF Requests

\* A unit whose mode cache keeps still, or is known to have moved, awaits what it did.
LEMMA AwaitsKept ==
    ASSUME NEW u, NEW m, Awaits(u, m), writer'.todo = writer.todo,
           spoilt[u] \/ modeCache'[u] # modeCache[u] => spoilt'[u]
    PROVE  Awaits(u, m)'
  BY DEF Awaits, InHandFor

\* What follows the first k requests follows them as long as they stay.
LEMMA FollowsKept ==
    ASSUME NEW k \in Nat, NEW u, NEW m, Follows(k, u, m),
           \A i \in 1..k : queue'[i] = queue[i], Awaits(u, m) => Awaits(u, m)'
    PROVE  Follows(k, u, m)'
  BY DEF Follows, ForBlock

\* ... and follows one more, if that is no block of the unit.
LEMMA FollowsOneMore ==
    ASSUME NEW k \in Nat, NEW u, NEW m, Follows(k, u, m),
           \A i \in 1..k : queue'[i] = queue[i], ~ForBlock(queue'[k + 1], u), Awaits(u, m) => Awaits(u, m)'
    PROVE  Follows(k + 1, u, m)'
  <1>1. CASE \E j \in 1..k : /\ ForBlock(queue[j], u) /\ queue[j].for = m
                             /\ \A i \in (j + 1)..k : ~ForBlock(queue[i], u)
    <2>1. PICK j \in 1..k : /\ ForBlock(queue[j], u) /\ queue[j].for = m
                            /\ \A i \in (j + 1)..k : ~ForBlock(queue[i], u)
      BY <1>1
    <2>2. \A i \in (j + 1)..(k + 1) : ~ForBlock(queue'[i], u)
      <3> SUFFICES ASSUME NEW i \in (j + 1)..(k + 1)
                   PROVE  ~ForBlock(queue'[i], u)
        OBVIOUS
      <3>1. i = k + 1 \/ (i \in (j + 1)..k /\ i \in 1..k)
        OBVIOUS
      <3> QED
        BY <2>1, <3>1
    <2>3. j \in 1..(k + 1) /\ ForBlock(queue'[j], u) /\ queue'[j].for = m
      BY <2>1
    <2> QED
      BY <2>2, <2>3 DEF Follows, ForBlock
  <1>2. CASE (\A i \in 1..k : ~ForBlock(queue[i], u)) /\ Awaits(u, m)
    <2>1. \A i \in 1..(k + 1) : ~ForBlock(queue'[i], u)
      <3> SUFFICES ASSUME NEW i \in 1..(k + 1)
                   PROVE  ~ForBlock(queue'[i], u)
        OBVIOUS
      <3>1. i = k + 1 \/ i \in 1..k
        OBVIOUS
      <3> QED
        BY <1>2, <3>1
    <2> QED
      BY <1>2, <2>1 DEF Follows, ForBlock
  <1> QED
    BY <1>1, <1>2 DEF Follows

\* When the first request is taken, what followed k of them follows the k - 1 left.
LEMMA FollowsOneLess ==
    ASSUME NEW k \in Nat, k # 0, NEW u, NEW m, Follows(k, u, m),
           \A i \in 1..(k - 1) : queue'[i] = queue[i + 1],
           ForBlock(queue[1], u) /\ queue[1].for = m => Awaits(u, m)',
           ~ForBlock(queue[1], u) /\ Awaits(u, m) => Awaits(u, m)'
    PROVE  Follows(k - 1, u, m)'
  <1>1. CASE \E j \in 1..k : /\ ForBlock(queue[j], u) /\ queue[j].for = m
                             /\ \A i \in (j + 1)..k : ~ForBlock(queue[i], u)
    <2>1. PICK j \in 1..k : /\ ForBlock(queue[j], u) /\ queue[j].for = m
                            /\ \A i \in (j + 1)..k : ~ForBlock(queue[i], u)
      BY <1>1
    <2>2. \A i \in j..(k - 1) : ~ForBlock(queue'[i], u)
      <3> SUFFICES ASSUME NEW i \in j..(k - 1)
                   PROVE  ~ForBlock(queue'[i], u)
        OBVIOUS
      <3>1. i \in 1..(k - 1) /\ i + 1 \in (j + 1)..k
        OBVIOUS
      <3> QED
        BY <2>1, <3>1
    <2>3. CASE j = 1
      BY <2>1, <2>2, <2>3 DEF Follows, ForBlock
    <2>4. CASE j # 1
      <3>1. j - 1 \in 1..(k - 1) /\ (j - 1) + 1 = j
        BY <2>4
      <3>2. ForBlock(queue'[j - 1], u) /\ queue'[j - 1].for = m
        BY <2>1, <3>1
      <3>3. \A i \in ((j - 1) + 1)..(k - 1) : ~ForBlock(queue'[i], u)
        BY <2>2, <3>1
      <3> QED
        BY <3>1, <3>2, <3>3 DEF Follows, ForBlock
    <2> QED
      BY <2>3, <2>4
  <1>2. CASE (\A i \in 1..k : ~ForBlock(queue[i], u)) /\ Awaits(u, m)
    <2>1. \A i \in 1..(k - 1) : i + 1 \in 1..k
      OBVIOUS
    <2>2. \A i \in 1..(k - 1) : ~ForBlock(queue'[i], u)
      BY <1>2, <2>1
    <2>3. 1 \in 1..k
      OBVIOUS
    <2> QED
      BY <1>2, <2>2, <2>3 DEF Follows, ForBlock
  <1> QED
    BY <1>1, <1>2 DEF Follows

\* Blocks wait on as long as every unit awaits what it did.
LEMMA QueuedKept ==
    ASSUME TypeOK, QueuedBlocks, queue' = queue, engine' \in {engine, Nothing},
           \A u \in Units, m \in Modes : Awaits(u, m) => Awaits(u, m)'
    PROVE  QueuedBlocks'
  <1>1. Len(queue) \in Nat /\ queue' = queue /\ engine' \in {engine, Nothing}
    BY DEF TypeOK
  <1>2. ASSUME NEW u \in Units, NEW m \in Modes, NEW i \in 1..Len(queue),
               queue[i].item # "hvac", queue[i].unit = u, queue[i].for = m
        PROVE  Follows(i - 1, u, m)'
    <2>1. Follows(i - 1, u, m) /\ i - 1 \in Nat
      BY <1>1, <1>2 DEF QueuedBlocks
    <2> QED
      BY <1>1, <2>1, FollowsKept
  <1>3. ASSUME NEW u \in Units, NEW m \in Modes, engine # Nothing, engine.unit = u, engine.for = m
        PROVE  Follows(Len(queue), u, m)'
    <2>1. PICK k \in Nat : k = Len(queue)
      BY <1>1
    <2>2. Follows(k, u, m)
      BY <1>3, <2>1 DEF QueuedBlocks
    <2>3. Follows(k, u, m)'
      BY <1>1, <2>2, FollowsKept
    <2> QED
      BY <1>1, <2>1, <2>3 DEF Follows
  <1> QED
    BY <1>1, <1>2, <1>3 DEF QueuedBlocks

\* ... and when one more request is queued.
LEMMA QueuedGrows ==
    ASSUME TypeOK, QueuedBlocks, NEW r \in Requests, queue' = Append(queue, r),
           \A u \in Units, m \in Modes : Awaits(u, m) => Awaits(u, m)',
           r.item = "hvac" /\ r.for # Nothing => r.value = r.for,
           \A u \in Units, m \in Modes :
               r.item # "hvac" /\ r.unit = u /\ r.for = m => Follows(Len(queue), u, m),
           \A u \in Units, m \in Modes :
               engine' # Nothing /\ engine'.unit = u /\ engine'.for = m =>
                   \/ engine' = engine /\ r.for = Nothing
                   \/ ForBlock(r, u) /\ r.for = m
    PROVE  QueuedBlocks'
  <1>1. PICK k \in Nat : k = Len(queue)
    BY DEF TypeOK
  <1>2. Len(queue') = k + 1 /\ queue'[k + 1] = r /\ \A i \in 1..k : queue'[i] = queue[i]
    BY <1>1 DEF TypeOK
  <1>3. \A i \in 1..(k + 1) : i = k + 1 \/ i \in 1..k
    OBVIOUS
  <1>4. ASSUME NEW i \in 1..(k + 1), queue'[i].item = "hvac", queue'[i].for # Nothing
        PROVE  queue'[i].value = queue'[i].for
    BY <1>1, <1>2, <1>3, <1>4 DEF QueuedBlocks
  <1>5. ASSUME NEW u \in Units, NEW m \in Modes, NEW i \in 1..(k + 1),
               queue'[i].item # "hvac", queue'[i].unit = u, queue'[i].for = m
        PROVE  Follows(i - 1, u, m)'
    <2>1. i - 1 \in Nat /\ \A j \in 1..(i - 1) : queue'[j] = queue[j]
      BY <1>2
    <2>2. Follows(i - 1, u, m)
      <3>1. CASE i = k + 1
        <4>1. Follows(Len(queue), u, m)
          BY <1>2, <1>5, <3>1
        <4>2. i - 1 = Len(queue)
          BY <1>1, <3>1
        <4> QED
          BY <4>1, <4>2
      <3>2. CASE i \in 1..k
        BY <1>1, <1>2, <1>5, <3>2 DEF QueuedBlocks
      <3> QED
        BY <1>3, <3>1, <3>2
    <2> QED
      BY <2>1, <2>2, FollowsKept
  <1>6. ASSUME NEW u \in Units, NEW m \in Modes, engine' # Nothing, engine'.unit = u, engine'.for = m
        PROVE  Follows(k + 1, u, m)'
    <2>1. CASE engine' = engine /\ r.for = Nothing
      <3>1. Follows(k, u, m)
        BY <1>1, <1>6, <2>1 DEF QueuedBlocks
      <3>2. ~ForBlock(queue'[k + 1], u)
        BY <1>2, <2>1 DEF ForBlock
      <3> QED
        BY <1>2, <3>1, <3>2, FollowsOneMore
    <2>2. CASE ForBlock(r, u) /\ r.for = m
      <3>1. k + 1 \in 1..(k + 1) /\ \A i \in ((k + 1) + 1)..(k + 1) : FALSE
        OBVIOUS
      <3> QED
        BY <1>2, <2>2, <3>1 DEF Follows, ForBlock
    <2> QED
      BY <1>6, <2>1, <2>2
  <1>7. ASSUME NEW u \in Units, NEW m \in Modes, engine' # Nothing, engine'.unit = u, engine'.for = m
        PROVE  Follows(Len(queue), u, m)'
    BY <1>2, <1>6, <1>7 DEF Follows
  <1> QED
    BY <1>2, <1>4, <1>5, <1>7 DEF QueuedBlocks

\* The settings in hand stay right as long as their units stay spoilt.
LEMMA InHandKept ==
    ASSUME TypeOK, InHandBlocks, writer'.todo = writer.todo, \A u \in Units : spoilt[u] => spoilt'[u]
    PROVE  InHandBlocks'
  <1>1. \A n \in DOMAIN writer.todo : writer.todo[n].unit \in Units
    <2>1. writer.todo \in Seq(Settings)
      BY DEF TypeOK, Writers
    <2>2. \A n \in DOMAIN writer.todo : writer.todo[n] \in Settings
      BY <2>1
    <2> QED
      BY <2>2 DEF Settings
  <1> QED
    BY <1>1 DEF InHandBlocks

\* Nothing a block waits for moves.
LEMMA BlockFrame ==
    ASSUME TypeOK, BlockInv, UNCHANGED <<queue, engine>>, writer'.todo = writer.todo,
           \A u \in Units : spoilt[u] \/ modeCache'[u] # modeCache[u] => spoilt'[u]
    PROVE  BlockInv'
  <1>1. \A u \in Units, m \in Modes : Awaits(u, m) => Awaits(u, m)'
    BY AwaitsKept
  <1>2. QueuedBlocks'
    BY <1>1, QueuedKept DEF BlockInv
  <1>3. InHandBlocks'
    BY InHandKept DEF BlockInv
  <1> QED
    BY <1>2, <1>3 DEF BlockInv

\* A request taken: what it sets is what its block means, and who it is not for awaits
\* what he did.
LEMMA TakenBlock ==
    ASSUME TypeOK, QueuedBlocks, Take
    PROVE  /\ InHandBlocks'
           /\ \A u \in Units, m \in Modes :
                /\ ForBlock(queue[1], u) /\ queue[1].for = m => Awaits(u, m)'
                /\ ~ForBlock(queue[1], u) /\ Awaits(u, m) => Awaits(u, m)'
  <1> DEFINE r == queue[1]
  <1>1. /\ r \in Requests /\ Len(queue) \in Nat \ {0} /\ writer.todo = <<>>
        /\ UNCHANGED <<modeCache, spoilt>>
        /\ LacksMode(r) => writer'.todo = <<>>
        /\ ~LacksMode(r) => writer'.todo = SettingsOf(r)
    BY Taken DEF Idle
  <1>2. /\ r.unit \in Units /\ r.for \in Modes \cup {Nothing} /\ 1 \in 1..Len(queue)
        /\ r.item = "hvac" /\ r.for # Nothing => r.value = r.for /\ r.value # "off"
    <2>1. r.item = "hvac" /\ r.for # Nothing => r.value = r.for
      BY <1>1 DEF QueuedBlocks
    <2> QED
      BY <1>1, <2>1, RequestParts DEF Modes
  <1>3. r.item # "hvac" /\ r.for # Nothing => modeCache[r.unit] = r.for \/ spoilt[r.unit]
    <2> SUFFICES ASSUME r.item # "hvac", r.for # Nothing
                 PROVE  modeCache[r.unit] = r.for \/ spoilt[r.unit]
      OBVIOUS
    <2>1. PICK u \in Units, m \in Modes : u = r.unit /\ m = r.for
      BY <1>2
    <2>2. Follows(1 - 1, u, m)
      BY <1>2, <2>1 DEF QueuedBlocks
    <2>3. Awaits(u, m)
      BY <2>2 DEF Follows
    <2> QED
      BY <1>1, <2>1, <2>3 DEF Awaits, InHandFor
  <1> DEFINE block == [Setting(r.unit, "mode", r.value) EXCEPT !.for = r.for]
             start == Setting(r.unit, "power", "on")
             scoped == Scoped(r)
  <1>4. /\ block.what = "mode" /\ block.unit = r.unit /\ block.for = r.for /\ block.value = r.value
        /\ start.what = "power" /\ start.for = Nothing
        /\ scoped.what = "scoped" /\ scoped.unit = r.unit /\ scoped.for = r.for /\ scoped.path = modeCache[r.unit]
    BY DEF Setting, Scoped
  <1>5. \A n \in DOMAIN writer'.todo :
          \/ writer'.todo[n] = block /\ r.item = "hvac"
          \/ writer'.todo[n] = scoped /\ r.item # "hvac"
          \/ writer'.todo[n].for = Nothing
    <2>1. CASE LacksMode(r)
      BY <1>1, <2>1
    <2>2. CASE ~LacksMode(r) /\ r.item = "hvac" /\ r.value # "off"
      <3>1. writer'.todo = <<start, block>>
        BY <1>1, <2>2, SettingsTyped
      <3> HIDE DEF start, block, scoped, r
      <3> QED
        BY <1>4, <2>2, <3>1
    <2>3. CASE ~LacksMode(r) /\ ~(r.item = "hvac" /\ r.value # "off") /\ r.item \in {"hvac", "power", "mode"}
      <3>1. \E what, value : writer'.todo = <<Setting(r.unit, what, value)>>
        BY <1>1, <2>3, SettingsTyped
      <3> QED
        BY <3>1 DEF Setting
    <2>4. CASE ~LacksMode(r) /\ r.item \in {"setpoint", "fan"}
      <3>1. writer'.todo = <<scoped>> \/ writer'.todo = <<scoped, scoped>>
        BY <1>1, <2>4, SettingsTyped
      <3> HIDE DEF start, block, scoped, r
      <3> QED
        BY <2>4, <3>1
    <2> QED
      BY <1>1, <2>1, <2>2, <2>3, <2>4, SettingsTyped
  <1>6. ASSUME r.item = "hvac", r.for # Nothing
        PROVE  writer'.todo = <<start, block>>
    <2>1. ~LacksMode(r)
      BY <1>6 DEF LacksMode
    <2> QED
      BY <1>1, <1>2, <1>6, <2>1, SettingsTyped
  <1> HIDE DEF r, start, block, scoped
  <1>7. InHandBlocks'
    BY <1>1, <1>2, <1>3, <1>4, <1>5 DEF InHandBlocks
  <1>8. ASSUME NEW u \in Units, NEW m \in Modes, ForBlock(r, u), r.for = m
        PROVE  Awaits(u, m)'
    <2>1. r.item = "hvac" /\ r.unit = u /\ r.for # Nothing
      BY <1>8 DEF ForBlock
    <2>2. writer'.todo = <<start, block>>
      BY <1>6, <2>1
    <2>3. \A n \in DOMAIN writer'.todo : writer'.todo[n] \in {start, block}
      BY <2>2
    <2>4. 2 \in DOMAIN writer'.todo /\ writer'.todo[2] = block
      BY <2>2
    <2>5. 2 \in InHandFor(u)'
      BY <1>4, <2>1, <2>4 DEF InHandFor
    <2> QED
      BY <1>4, <1>8, <2>1, <2>3, <2>5 DEF Awaits, InHandFor
  <1>9. ASSUME NEW u \in Units, NEW m \in Modes, ~ForBlock(r, u), Awaits(u, m)
        PROVE  Awaits(u, m)'
    <2>1. modeCache[u] = m \/ spoilt[u]
      BY <1>1, <1>9 DEF Awaits, InHandFor
    <2>2. InHandFor(u)' = {}
      BY <1>4, <1>5, <1>9 DEF InHandFor, ForBlock
    <2> QED
      BY <1>1, <2>1, <2>2 DEF Awaits
  <1> QED
    BY <1>7, <1>8, <1>9 DEF r

\* Every step keeps the setpoint of a block behind its mode.
LEMMA BlockStep == IInv /\ [Next]_vars => BlockInv'
  <1> SUFFICES ASSUME IInv, [Next]_vars
               PROVE  BlockInv'
    OBVIOUS
  <1>a. TypeOK /\ ShapeInv /\ WakeInv /\ HvacInv /\ FitInv /\ PeaceInv /\ BlockInv
    BY DEF IInv
  <1>b. TypeOK'
    BY TypeStep
  <1>1. ASSUME NEW u \in Units, Remote(u)
        PROVE  BlockInv'
    <2>1. UNCHANGED <<queue, engine>> /\ writer'.todo = writer.todo
      BY <1>a, <1>1 DEF Remote
    <2>2. \A v \in Units : spoilt[v] \/ modeCache'[v] # modeCache[v] => spoilt'[v]
      BY <1>a, <1>1, Accounted DEF Remote
    <2> QED
      BY <1>a, <2>1, <2>2, BlockFrame
  <1>2. ASSUME NEW u \in Units, CloudCatchesUp(u)
        PROVE  BlockInv'
    <2>1. UNCHANGED <<queue, engine>> /\ writer'.todo = writer.todo
      BY <1>a, <1>2 DEF CloudCatchesUp, PollOnly
    <2>2. \A v \in Units : spoilt[v] \/ modeCache'[v] # modeCache[v] => spoilt'[v]
      BY <1>a, <1>2 DEF CloudCatchesUp, PollOnly, caches, history
    <2> QED
      BY <1>a, <2>1, <2>2, BlockFrame
  <1>3. ASSUME NEW u \in Local, Reported(u)
        PROVE  BlockInv'
    <2>1. UNCHANGED <<queue, engine>> /\ writer'.todo = writer.todo
      BY <1>a, <1>3 DEF Reported, PollOnly
    <2>2. \A v \in Units : spoilt[v] \/ modeCache'[v] # modeCache[v] => spoilt'[v]
      BY <1>a, <1>3 DEF Reported, PollOnly, caches, history
    <2> QED
      BY <1>a, <2>1, <2>2, BlockFrame
  <1>4. CASE WindowEnds
    <2>1. UNCHANGED <<queue, engine>> /\ writer'.todo = writer.todo
      BY <1>a, <1>4 DEF WindowEnds, PollOnly
    <2>2. \A u \in Units : spoilt[u] \/ modeCache'[u] # modeCache[u] => spoilt'[u]
      BY <1>a, <1>4 DEF WindowEnds, PollOnly, caches, history
    <2> QED
      BY <1>a, <2>1, <2>2, BlockFrame
  <1>5. ASSUME NEW r \in Commands, Receive(r)
        PROVE  BlockInv'
    <2>1. UNCHANGED <<writer, modeCache, spoilt>> /\ writer'.todo = writer.todo
      BY <1>5 DEF Receive, caches, history
    <2>2. \A u \in Units, m \in Modes : Awaits(u, m) => Awaits(u, m)'
      BY <2>1, AwaitsKept
    <2>3. InHandBlocks'
      BY <1>a, <2>1, InHandKept DEF BlockInv
    <2>4. r \in Requests /\ r.for = Nothing /\ engine' = engine
      BY <1>5, WriteConstants DEF Receive
    <2>5. CASE queue' = queue
      BY <1>a, <2>2, <2>3, <2>4, <2>5, QueuedKept DEF BlockInv
    <2>6. CASE queue' = Append(queue, r)
      <3>1. \A m \in Modes : r.for # m
        BY <2>4, NothingIsNoValue
      <3>2. QueuedBlocks'
        BY <1>a, <2>2, <2>4, <2>6, <3>1, QueuedGrows DEF BlockInv
      <3> QED
        BY <2>3, <3>2 DEF BlockInv
    <2> QED
      BY <1>5, <2>5, <2>6 DEF Receive
  <1>6. ASSUME NEW a \in Actions, Apply(a)
        PROVE  BlockInv'
    <2>1. UNCHANGED <<writer, modeCache, spoilt>> /\ writer'.todo = writer.todo
      BY <1>6 DEF Apply, caches, history
    <2>2. \A v \in Units, m \in Modes : Awaits(v, m) => Awaits(v, m)'
      BY <2>1, AwaitsKept
    <2>3. InHandBlocks'
      BY <1>a, <2>1, InHandKept DEF BlockInv
    <2>4. /\ HvacOf(a) \in Requests /\ HvacOf(a).item = "hvac" /\ HvacOf(a).unit = a.unit
          /\ HvacOf(a).for # Nothing => HvacOf(a).value = HvacOf(a).for
      BY <1>6, RequestsTyped
    <2>5. queue' = Append(queue, HvacOf(a))
      BY <1>6 DEF Apply
    <2>6. engine' # Nothing => engine'.unit = a.unit /\ engine'.for = HvacOf(a).for
      <3>1. engine' # Nothing => a.value # "off" /\ engine' = SetpointOf(a)
        BY <1>6 DEF Apply
      <3>2. a.value # "off" => SetpointOf(a).unit = a.unit /\ SetpointOf(a).for = HvacOf(a).for
        BY <1>6, RequestsTyped
      <3> QED
        BY <3>1, <3>2
    <2>7. QueuedBlocks'
      <3> DEFINE r == HvacOf(a)
      <3>1. \A v \in Units, m \in Modes : engine' # Nothing /\ engine'.unit = v /\ engine'.for = m =>
                ForBlock(r, v) /\ r.for = m
        BY <2>4, <2>6, NothingIsNoValue DEF ForBlock
      <3>2. r \in Requests /\ r.item = "hvac" /\ (r.for # Nothing => r.value = r.for) /\ queue' = Append(queue, r)
        BY <2>4, <2>5
      <3> HIDE DEF r
      <3> QED
        BY <1>a, <2>2, <3>1, <3>2, QueuedGrows DEF BlockInv
    <2> QED
      BY <2>3, <2>7 DEF BlockInv
  <1>7. CASE ApplySetpoint
    <2>1. UNCHANGED <<writer, modeCache, spoilt>> /\ writer'.todo = writer.todo
      BY <1>7 DEF ApplySetpoint, caches, history
    <2>2. \A u \in Units, m \in Modes : Awaits(u, m) => Awaits(u, m)'
      BY <2>1, AwaitsKept
    <2>3. InHandBlocks'
      BY <1>a, <2>1, InHandKept DEF BlockInv
    <2>4. engine \in Requests /\ engine.item = "setpoint" /\ engine # Nothing /\ engine' = Nothing
      BY <1>a, <1>7 DEF ApplySetpoint, TypeOK
    <2>5. CASE queue' = queue
      BY <1>a, <2>2, <2>3, <2>4, <2>5, QueuedKept DEF BlockInv
    <2>6. CASE queue' = Append(queue, engine)
      <3>1. \A u \in Units, m \in Modes :
              engine.item # "hvac" /\ engine.unit = u /\ engine.for = m => Follows(Len(queue), u, m)
        BY <1>a, <2>4 DEF BlockInv, QueuedBlocks
      <3>2. QueuedBlocks'
        BY <1>a, <2>2, <2>4, <2>6, <3>1, QueuedGrows DEF BlockInv
      <3> QED
        BY <2>3, <3>2 DEF BlockInv
    <2> QED
      BY <1>7, <2>5, <2>6 DEF ApplySetpoint
  <1>8. CASE Take
    <2>1. /\ Len(queue) \in Nat \ {0} /\ Len(queue') = Len(queue) - 1 /\ engine' = engine
          /\ \A i \in 1..Len(queue') : queue'[i] = queue[i + 1]
      BY <1>a, <1>8, Taken
    <2>2. /\ InHandBlocks'
          /\ \A u \in Units, m \in Modes :
               /\ ForBlock(queue[1], u) /\ queue[1].for = m => Awaits(u, m)'
               /\ ~ForBlock(queue[1], u) /\ Awaits(u, m) => Awaits(u, m)'
      BY <1>a, <1>8, TakenBlock DEF BlockInv
    <2>3. ASSUME NEW i \in 1..Len(queue')
          PROVE  queue'[i].item = "hvac" /\ queue'[i].for # Nothing => queue'[i].value = queue'[i].for
      <3>1. i + 1 \in 1..Len(queue) /\ queue'[i] = queue[i + 1]
        BY <2>1
      <3> QED
        BY <1>a, <3>1 DEF BlockInv, QueuedBlocks
    <2>4. ASSUME NEW u \in Units, NEW m \in Modes, NEW k \in Nat, k # 0, k <= Len(queue), Follows(k, u, m)
          PROVE  Follows(k - 1, u, m)'
      <3>1. \A i \in 1..(k - 1) : queue'[i] = queue[i + 1]
        BY <2>1, <2>4
      <3> QED
        BY <2>2, <2>4, <3>1, FollowsOneLess
    <2>5. ASSUME NEW u \in Units, NEW m \in Modes, NEW i \in 1..Len(queue'),
                 queue'[i].item # "hvac", queue'[i].unit = u, queue'[i].for = m
          PROVE  Follows(i - 1, u, m)'
      <3>1. i \in Nat /\ i # 0 /\ i <= Len(queue) /\ i + 1 \in 1..Len(queue) /\ queue'[i] = queue[i + 1] /\ (i + 1) - 1 = i
        BY <2>1
      <3>2. Follows((i + 1) - 1, u, m)
        BY <1>a, <2>5, <3>1 DEF BlockInv, QueuedBlocks
      <3>3. Follows(i, u, m)
        BY <3>1, <3>2
      <3> QED
        BY <2>4, <3>1, <3>3
    <2>6. ASSUME NEW u \in Units, NEW m \in Modes, engine' # Nothing, engine'.unit = u, engine'.for = m
          PROVE  Follows(Len(queue), u, m)'
      <3>1. PICK k \in Nat : k = Len(queue) /\ k # 0 /\ Len(queue') = k - 1
        BY <2>1
      <3>2. Follows(k, u, m)
        BY <1>a, <2>1, <2>6, <3>1 DEF BlockInv, QueuedBlocks
      <3>3. Follows(k - 1, u, m)'
        BY <2>4, <3>1, <3>2
      <3> QED
        BY <3>1, <3>3 DEF Follows
    <2>7. QueuedBlocks'
      BY <2>3, <2>5, <2>6 DEF QueuedBlocks
    <2> QED
      BY <2>2, <2>7 DEF BlockInv
  <1>9. CASE SetAccepted
    <2>1. UNCHANGED <<queue, engine>> /\ writer'.todo = writer.todo
      BY <1>a, <1>9 DEF SetAccepted, TypeOK, Writers
    <2>2. \A u \in Units : spoilt[u] \/ modeCache'[u] # modeCache[u] => spoilt'[u]
      BY <1>a, <1>9, Accounted DEF SetAccepted
    <2> QED
      BY <1>a, <2>1, <2>2, BlockFrame
  <1>10. CASE SetVanishes
    <2>1. UNCHANGED <<queue, engine>> /\ writer'.todo = writer.todo
      BY <1>a, <1>10 DEF SetVanishes, TypeOK, Writers
    <2>2. \A u \in Units : spoilt[u] \/ modeCache'[u] # modeCache[u] => spoilt'[u]
      BY <1>a, <1>10 DEF SetVanishes, caches
    <2> QED
      BY <1>a, <2>1, <2>2, BlockFrame
  <1>11. CASE SetRefused
    <2>1. /\ writer.todo # <<>> /\ writer' = GivenUp /\ UNCHANGED <<queue, engine, modeCache>>
          /\ spoilt' = [spoilt EXCEPT ![ThisSetting.unit] = TRUE]
      BY <1>a, <1>11 DEF SetRefused, Spoils, TypeOK, caches
    <2>2. writer'.todo \in {<<>>, Tail(writer.todo)}
      BY <1>a, <2>1, Ended
    <2>3. /\ ThisSetting.unit \in Units /\ DOMAIN writer.todo = 1..Len(writer.todo) /\ Len(writer.todo) \in Nat \ {0}
          /\ \A n \in DOMAIN writer.todo : writer.todo[n].unit = ThisSetting.unit
      BY <1>a, <2>1, InTheHand DEF ShapeInv
    <2>4. \A n \in DOMAIN writer'.todo : n + 1 \in DOMAIN writer.todo /\ writer'.todo[n] = writer.todo[n + 1]
      <3>1. CASE writer'.todo = <<>>
        BY <3>1
      <3>2. CASE writer'.todo = Tail(writer.todo)
        BY <1>a, <2>1, <3>2, InTheHand
      <3> QED
        BY <2>2, <3>1, <3>2
    <2>5. \A u \in Units : spoilt'[u] = (spoilt[u] \/ u = ThisSetting.unit)
      BY <1>a, <2>1, <2>3 DEF TypeOK
    <2>6. ASSUME NEW u \in Units, NEW m \in Modes, Awaits(u, m)
          PROVE  Awaits(u, m)'
      <3>1. \A n \in InHandFor(u)' : writer'.todo[n].for = m
        BY <2>4, <2>6 DEF Awaits, InHandFor
      <3>2. InHandFor(u) # {} => u = ThisSetting.unit
        BY <2>3 DEF InHandFor
      <3> QED
        BY <2>1, <2>5, <2>6, <3>1, <3>2 DEF Awaits
    <2>7. QueuedBlocks'
      BY <1>a, <2>1, <2>6, QueuedKept DEF BlockInv
    <2>8. InHandBlocks'
      <3> SUFFICES ASSUME NEW n \in DOMAIN writer'.todo
                   PROVE  /\ writer'.todo[n].what = "mode" /\ writer'.todo[n].for # Nothing =>
                               writer'.todo[n].value = writer'.todo[n].for
                          /\ spoilt'[writer'.todo[n].unit]
        BY DEF InHandBlocks
      <3>1. n + 1 \in DOMAIN writer.todo /\ writer'.todo[n] = writer.todo[n + 1] /\ writer'.todo[n].unit = ThisSetting.unit
        BY <2>3, <2>4
      <3>2. spoilt'[ThisSetting.unit]
        BY <2>3, <2>5
      <3> QED
        BY <1>a, <3>1, <3>2 DEF BlockInv, InHandBlocks
    <2> QED
      BY <2>7, <2>8 DEF BlockInv
  <1>12. CASE AnswerLost
    <2>1. /\ writer.todo # <<>> /\ writer' = GivenUp /\ UNCHANGED <<queue, engine, modeCache>>
          /\ spoilt' = [spoilt EXCEPT ![ThisSetting.unit] = TRUE]
      BY <1>a, <1>12 DEF AnswerLost, Spoils, TypeOK, caches
    <2>2. writer'.todo \in {<<>>, Tail(writer.todo)}
      BY <1>a, <2>1, Ended
    <2>3. /\ ThisSetting.unit \in Units /\ DOMAIN writer.todo = 1..Len(writer.todo) /\ Len(writer.todo) \in Nat \ {0}
          /\ \A n \in DOMAIN writer.todo : writer.todo[n].unit = ThisSetting.unit
      BY <1>a, <2>1, InTheHand DEF ShapeInv
    <2>4. \A n \in DOMAIN writer'.todo : n + 1 \in DOMAIN writer.todo /\ writer'.todo[n] = writer.todo[n + 1]
      <3>1. CASE writer'.todo = <<>>
        BY <3>1
      <3>2. CASE writer'.todo = Tail(writer.todo)
        BY <1>a, <2>1, <3>2, InTheHand
      <3> QED
        BY <2>2, <3>1, <3>2
    <2>5. \A u \in Units : spoilt'[u] = (spoilt[u] \/ u = ThisSetting.unit)
      BY <1>a, <2>1, <2>3 DEF TypeOK
    <2>6. ASSUME NEW u \in Units, NEW m \in Modes, Awaits(u, m)
          PROVE  Awaits(u, m)'
      <3>1. \A n \in InHandFor(u)' : writer'.todo[n].for = m
        BY <2>4, <2>6 DEF Awaits, InHandFor
      <3>2. InHandFor(u) # {} => u = ThisSetting.unit
        BY <2>3 DEF InHandFor
      <3> QED
        BY <2>1, <2>5, <2>6, <3>1, <3>2 DEF Awaits
    <2>7. QueuedBlocks'
      BY <1>a, <2>1, <2>6, QueuedKept DEF BlockInv
    <2>8. InHandBlocks'
      <3> SUFFICES ASSUME NEW n \in DOMAIN writer'.todo
                   PROVE  /\ writer'.todo[n].what = "mode" /\ writer'.todo[n].for # Nothing =>
                               writer'.todo[n].value = writer'.todo[n].for
                          /\ spoilt'[writer'.todo[n].unit]
        BY DEF InHandBlocks
      <3>1. n + 1 \in DOMAIN writer.todo /\ writer'.todo[n] = writer.todo[n + 1] /\ writer'.todo[n].unit = ThisSetting.unit
        BY <2>3, <2>4
      <3>2. spoilt'[ThisSetting.unit]
        BY <2>3, <2>5
      <3> QED
        BY <1>a, <3>1, <3>2 DEF BlockInv, InHandBlocks
    <2> QED
      BY <2>7, <2>8 DEF BlockInv
  <1>13. CASE NoteWrite
    <2> DEFINE s == ThisSetting
               block == s.what = "mode" /\ s.for # Nothing
    <2>1. /\ writer.todo # <<>> /\ writer'.todo = Tail(writer.todo) /\ UNCHANGED <<queue, engine>>
          /\ modeCache' = IF s.what = "mode" THEN [modeCache EXCEPT ![s.unit] = s.value] ELSE modeCache
      BY <1>a, <1>13, NotedAndNext
    <2>2. /\ s.unit \in Units /\ DOMAIN writer.todo = 1..Len(writer.todo) /\ Len(writer.todo) \in Nat \ {0}
          /\ s = writer.todo[1] /\ 1 \in DOMAIN writer.todo
          /\ \A n \in DOMAIN writer.todo : writer.todo[n].unit = s.unit
          /\ s.what = "mode" => Len(writer.todo) = 1
      BY <1>a, <2>1, InTheHand DEF ShapeInv
    <2>3. /\ DOMAIN writer'.todo = 1..(Len(writer.todo) - 1)
          /\ \A n \in DOMAIN writer'.todo : n + 1 \in DOMAIN writer.todo /\ writer'.todo[n] = writer.todo[n + 1]
      BY <1>a, <2>1, <2>2, InTheHand
    <2>4. \A u \in Units : /\ spoilt[u] \/ modeCache'[u] # modeCache[u] =>
                                 spoilt'[u] \/ (u = s.unit /\ block)
      BY <1>a, <1>13, NotedAccount
    <2>5. block => s.value = s.for /\ modeCache'[s.unit] = s.for
      <3>1. block => s.value = s.for
        BY <1>a, <2>2 DEF BlockInv, InHandBlocks
      <3> QED
        BY <1>a, <2>1, <2>2, <3>1 DEF TypeOK
    <2> HIDE DEF s
    <2>6. ASSUME NEW u \in Units, NEW m \in Modes, Awaits(u, m)
          PROVE  Awaits(u, m)'
      <3>1. \A n \in InHandFor(u)' : writer'.todo[n].for = m
        BY <2>3, <2>6 DEF Awaits, InHandFor
      <3>2. CASE block /\ u = s.unit
        <4>1. 1 \in InHandFor(u)
          BY <2>2, <3>2 DEF InHandFor
        <4>2. s.for = m
          BY <2>2, <2>6, <4>1 DEF Awaits
        <4> QED
          BY <2>5, <3>1, <3>2, <4>2 DEF Awaits
      <3>3. CASE ~(block /\ u = s.unit)
        <4>1. CASE InHandFor(u) # {}
          <5>1. PICK n \in InHandFor(u) : TRUE
            BY <4>1
          <5>2. n \in 1..Len(writer.todo) /\ n # 1
            BY <2>2, <3>3, <5>1 DEF InHandFor
          <5>3. n - 1 \in DOMAIN writer'.todo /\ (n - 1) + 1 = n
            BY <2>2, <2>3, <5>2
          <5>4. n - 1 \in InHandFor(u)'
            BY <2>3, <5>1, <5>3 DEF InHandFor
          <5> QED
            BY <3>1, <5>4 DEF Awaits
        <4>2. CASE InHandFor(u) = {}
          <5>1. modeCache'[u] = m \/ spoilt'[u]
            BY <2>4, <2>6, <3>3, <4>2 DEF Awaits
          <5> QED
            BY <3>1, <5>1 DEF Awaits
        <4> QED
          BY <4>1, <4>2
      <3> QED
        BY <3>2, <3>3
    <2>7. QueuedBlocks'
      BY <1>a, <2>1, <2>6, QueuedKept DEF BlockInv
    <2>8. InHandBlocks'
      <3> SUFFICES ASSUME NEW n \in DOMAIN writer'.todo
                   PROVE  /\ writer'.todo[n].what = "mode" /\ writer'.todo[n].for # Nothing =>
                               writer'.todo[n].value = writer'.todo[n].for
                          /\ writer'.todo[n].what = "scoped" /\ writer'.todo[n].for # Nothing =>
                               writer'.todo[n].path = writer'.todo[n].for \/ spoilt'[writer'.todo[n].unit]
        BY DEF InHandBlocks
      <3>1. s.what # "mode"
        BY <2>2, <2>3
      <3>2. n + 1 \in DOMAIN writer.todo /\ writer'.todo[n] = writer.todo[n + 1] /\ writer.todo[n + 1].unit = s.unit
        BY <2>2, <2>3
      <3> QED
        BY <1>a, <2>2, <2>4, <3>1, <3>2 DEF BlockInv, InHandBlocks
    <2> QED
      BY <2>7, <2>8 DEF BlockInv
  <1>14. CASE SyncPeer
    <2> DEFINE s == [Setting(Head(writer.peers), "mode", writer.sync) EXCEPT !.sync = TRUE]
    <2>1. /\ writer.todo = <<>> /\ writer'.todo \in {<<>>, <<s>>}
          /\ UNCHANGED <<queue, engine, modeCache, spoilt>>
      BY <1>a, <1>14, PeerLookedAt
    <2>2. s.for = Nothing
      BY DEF Setting
    <2> HIDE DEF s
    <2>3. \A n \in DOMAIN writer'.todo : writer'.todo[n].for = Nothing
      BY <2>1, <2>2
    <2>4. ASSUME NEW u \in Units, NEW m \in Modes, Awaits(u, m)
          PROVE  Awaits(u, m)'
      <3>1. modeCache[u] = m \/ spoilt[u]
        BY <2>1, <2>4 DEF Awaits, InHandFor
      <3> QED
        BY <2>1, <2>3, <3>1 DEF Awaits, InHandFor
    <2>5. QueuedBlocks'
      BY <1>a, <2>1, <2>4, QueuedKept DEF BlockInv
    <2>6. InHandBlocks'
      BY <2>3 DEF InHandBlocks
    <2> QED
      BY <2>5, <2>6 DEF BlockInv
  <1>15. ASSUME NEW u \in Local, DrainReport(u)
        PROVE  BlockInv'
    <2>1. UNCHANGED <<queue, engine>> /\ writer'.todo = writer.todo
      BY <1>a, <1>15, Drained
    <2>2. \A v \in Units : spoilt[v] \/ modeCache'[v] # modeCache[v] => spoilt'[v]
      BY <1>a, <1>15, Accounted, Drained
    <2> QED
      BY <1>a, <2>1, <2>2, BlockFrame
  <1>16. CASE DrainMode
    <2>1. UNCHANGED <<queue, engine>> /\ writer'.todo = writer.todo
      BY <1>a, <1>16 DEF DrainMode
    <2>2. \A u \in Units : spoilt[u] \/ modeCache'[u] # modeCache[u] => spoilt'[u]
      BY <1>a, <1>16, Accounted DEF DrainMode
    <2> QED
      BY <1>a, <2>1, <2>2, BlockFrame
  <1>17. CASE PollAnswered
    <2>1. UNCHANGED <<queue, engine>> /\ writer'.todo = writer.todo
      BY <1>a, <1>17 DEF PollAnswered, PollOnly
    <2>2. \A u \in Units : spoilt[u] \/ modeCache'[u] # modeCache[u] => spoilt'[u]
      BY <1>a, <1>17 DEF PollAnswered, PollOnly, caches, history
    <2> QED
      BY <1>a, <2>1, <2>2, BlockFrame
  <1>18. CASE StoreSnapshot
    <2>1. UNCHANGED <<queue, engine>> /\ writer'.todo = writer.todo
      BY <1>a, <1>18, SnapshotStored
    <2>2. \A u \in Units : spoilt[u] \/ modeCache'[u] # modeCache[u] => spoilt'[u]
      BY <1>a, <1>18, Accounted, SnapshotStored
    <2> QED
      BY <1>a, <2>1, <2>2, BlockFrame
  <1>19. CASE LearnGroups
    <2>1. UNCHANGED <<queue, engine>> /\ writer'.todo = writer.todo
      BY <1>a, <1>19 DEF LearnGroups, PollOnly
    <2>2. \A u \in Units : spoilt[u] \/ modeCache'[u] # modeCache[u] => spoilt'[u]
      BY <1>a, <1>19 DEF LearnGroups, PollOnly, caches, history
    <2> QED
      BY <1>a, <2>1, <2>2, BlockFrame
  <1>20. CASE ReplayPower
    <2>1. UNCHANGED <<queue, engine>> /\ writer'.todo = writer.todo
      BY <1>a, <1>20 DEF ReplayPower, PollOnly
    <2>2. \A u \in Units : spoilt[u] \/ modeCache'[u] # modeCache[u] => spoilt'[u]
      BY <1>a, <1>20, Accounted DEF ReplayPower
    <2> QED
      BY <1>a, <2>1, <2>2, BlockFrame
  <1>21. CASE ReplayMode
    <2>1. UNCHANGED <<queue, engine>> /\ writer'.todo = writer.todo
      BY <1>a, <1>21 DEF ReplayMode, PollOnly
    <2>2. \A u \in Units : spoilt[u] \/ modeCache'[u] # modeCache[u] => spoilt'[u]
      BY <1>a, <1>21, Accounted DEF ReplayMode
    <2> QED
      BY <1>a, <2>1, <2>2, BlockFrame
  <1>22. CASE UNCHANGED vars
    BY <1>a, <1>22, BlockFrame DEF vars, caches, history
  <1> QED
    BY <1>1, <1>2, <1>3, <1>4, <1>5, <1>6, <1>7, <1>8, <1>9, <1>10, <1>11, <1>12, <1>13, <1>14,
       <1>15, <1>16, <1>17, <1>18, <1>19, <1>20, <1>21, <1>22
       DEF Next, World, Producers, Setter, Writer, Drain, Storing, Polling

----------------------------------------------------------------------------
(* The invariant, and what follows from it. *)

\* To begin with nothing is under way, nothing is known and the units are at peace.
LEMMA InitIInv == Init => IInv
  <1> SUFFICES ASSUME Init
               PROVE  IInv
    OBVIOUS
  <1>1. /\ unit \in Houses /\ unit \in [Units -> Status] /\ \A u, v \in Units : ~Opposed(unit, u, v)
    BY HousesAtPeace DEF Init
  <1>2. /\ writer.at = "idle" /\ writer.todo = <<>> /\ queue = <<>> /\ engine = Nothing
        /\ \A u \in Units : powerCache[u] = Nothing /\ modeCache[u] = Nothing
    BY DEF Init, Idle
  <1>3. TypeOK
    <2>1. unit \in [Units -> Status] /\ cloud \in [Units -> Status]
      BY <1>1 DEF Init
    <2>2. told \in [Local -> Status] /\ inbox \in [Local -> Status \cup {Nothing}]
      <3>1. \A u \in Local : unit[u] \in Status
        BY <1>1, WriteConstants
      <3> QED
        BY <3>1 DEF Init
    <2>3. /\ lastLocal \in [Local -> Status \cup {Nothing}] /\ window \in BOOLEAN
          /\ powerCache \in [Units -> BOOLEAN \cup {Nothing}] /\ modeCache \in [Units -> Modes \cup {Nothing}]
          /\ learnt \in {Nothing, "units", "groups"}
      BY DEF Init
    <2>4. /\ queue \in Seq(Requests) /\ Len(queue) <= Capacity
          /\ engine \in {r \in Requests : r.item = "setpoint"} \cup {Nothing}
          /\ left \in 0..MaxEvents
      BY WriteConstants, EmptySeq DEF Init
    <2>5. /\ writer \in Writers
          /\ writer.at \in {"set", "note"} <=> writer.todo # <<>>
          /\ writer.at = "sync" => writer.peers # <<>>
      BY EmptySeq DEF Init, Idle, Writers
    <2>6. /\ drain \in Reports \cup {Nothing} /\ poll \in Polls
          /\ poll.at = "answered" => poll.snap # Nothing
          /\ poll.at = "mode" <=> poll.one # Nothing
      BY DEF Init, Asleep, Polls
    <2>7. misled \in [Units -> BOOLEAN] /\ spoilt \in [Units -> BOOLEAN] /\ excused \in BOOLEAN
      BY DEF Init
    <2> QED
      BY <2>1, <2>2, <2>3, <2>4, <2>5, <2>6, <2>7 DEF TypeOK
  <1>4. ShapeInv /\ HvacInv
    BY <1>2 DEF ShapeInv, HvacInv
  <1>5. WakeInv /\ FitInv
    BY <1>2, NothingIsNoValue DEF WakeInv, FitInv
  <1>6. PeaceInv
    BY <1>1, <1>2 DEF PeaceInv, Peace, SyncUnderWay
  <1>7. BlockInv
    BY <1>2 DEF BlockInv, QueuedBlocks, InHandBlocks
  <1> QED
    BY <1>3, <1>4, <1>5, <1>6, <1>7 DEF IInv

\* The invariant holds.
THEOREM WriteInvariant == Spec => []IInv
  <1>1. IInv /\ [Next]_vars => IInv'
    BY TypeStep, ShapeStep, WakeStep, HvacStep, FitStep, PeaceStep, BlockStep DEF IInv
  <1> QED
    BY <1>1, InitIInv, PTL DEF Spec

\* Every variable keeps its type: a request in hand is made of settings of units there
\* are, a replayed report is one a module has sent.
THEOREM WriteTypeCorrect == Spec => []TypeOK
  <1>1. IInv => TypeOK
    BY DEF IInv
  <1> QED
    BY <1>1, WriteInvariant, PTL

\* outdoor.go: mode sync never writes to a unit that is off, unless its caches are wrong
\* for a known reason.
THEOREM SyncWakesNobody == Spec => ModeSyncWakesNobody
  <1>1. IInv /\ [Next]_vars =>
          (writer.at = "sync" /\ writer'.at = "set" =>
              LET u == writer'.todo[1].unit IN unit[u].on \/ misled[u])
    <2> SUFFICES ASSUME IInv, [Next]_vars, writer.at = "sync", writer'.at = "set"
                 PROVE  unit[writer'.todo[1].unit].on \/ misled[writer'.todo[1].unit]
      OBVIOUS
    <2>a. TypeOK /\ WakeInv /\ TypeOK'
      BY TypeStep DEF IInv
    <2>1. writer' # writer
      OBVIOUS
    <2>2. SyncPeer
      BY <2>a, <2>1
         DEF Next, vars, World, Producers, Setter, Writer, Drain, Storing, Polling, Remote,
             CloudCatchesUp, Reported, WindowEnds, Receive, Apply, ApplySetpoint, Take, SetAccepted,
             SetVanishes, SetRefused, AnswerLost, NoteWrite, DrainReport, DrainMode, PollAnswered,
             StoreSnapshot, LearnGroups, ReplayPower, ReplayMode, PollOnly
    <2> DEFINE peer == Head(writer.peers)
               s == [Setting(peer, "mode", writer.sync) EXCEPT !.sync = TRUE]
    <2>3. writer'.todo # <<>>
      BY <2>a DEF TypeOK
    <2>4. RunsAgainst(peer, writer.sync) /\ writer'.todo = <<s>> /\ peer \in Units
      BY <2>a, <2>2, <2>3, PeerLookedAt
    <2>5. unit[peer].on \/ misled[peer]
      BY <2>a, <2>4 DEF WakeInv, Noting, RunsAgainst
    <2>6. s.unit = peer
      BY DEF Setting
    <2> HIDE DEF peer, s
    <2> QED
      BY <2>4, <2>5, <2>6
  <1> QED
    BY <1>1, WriteInvariant, PTL DEF Spec, ModeSyncWakesNobody

\* outdoor.go: the units of an outdoor unit run in one direction when the commands have
\* been served, as long as nothing mode sync does not cover came between.
THEOREM UnitsAgree == Spec => []OneDirection
  <1>1. IInv => OneDirection
    BY DEF IInv, PeaceInv, Peace, OneDirection
  <1> QED
    BY <1>1, WriteInvariant, PTL

\* schedule.go: the setpoint of a block goes to the mode of its block, unless the mode
\* cache of the unit has moved since that mode was noted.
THEOREM SetpointFollowsItsBlock == Spec => []SetpointHitsItsBlock
  <1>1. IInv => SetpointHitsItsBlock
    <2> SUFFICES ASSUME IInv, writer.at = "set", ThisSetting.what = "scoped", ThisSetting.for # Nothing
                 PROVE  ThisSetting.path = ThisSetting.for \/ spoilt[ThisSetting.unit]
      BY DEF SetpointHitsItsBlock
    <2>1. writer.todo # <<>> /\ TypeOK /\ InHandBlocks
      BY DEF IInv, TypeOK, BlockInv
    <2>2. 1 \in DOMAIN writer.todo /\ ThisSetting = writer.todo[1]
      BY <2>1, InTheHand
    <2> QED
      BY <2>1, <2>2 DEF InHandBlocks
  <1> QED
    BY <1>1, WriteInvariant, PTL

====
