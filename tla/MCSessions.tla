----------------------------- MODULE MCSessions -----------------------------
(* Four sessions that share nothing.  An editor builds weekly schedules:    *)
(* two schedules on a week of two days of three slots, the second of which  *)
(* wins, loses or ties on priority.  Home Assistant's climate entity works  *)
(* on one indoor unit.  The cloud answers for up to two devices that may    *)
(* share an outdoor unit.  And the daemon, with its cloud client and its    *)
(* web UI, and the utility use one stored token; the client serialises its  *)
(* API calls, so one caller stands for all of them.                         *)
EXTENDS ScheduleDocument, ClimateEntity, EntitySet, TokenSource

VARIABLE session

sessions == <<session, document, climateVars, answer, vars>>

----------------------------------------------------------------------------
(* What is posted. *)

Blank == [power |-> "", mode |-> "", setpoint |-> <<>>, silent |-> <<>>, econo |-> <<>>, demand |-> <<>>]
On(setting) == [Blank EXCEPT !.power = "on", !.mode = setting]
Off(setting) == [Blank EXCEPT !.power = "off", !.mode = setting]
At(action, degrees) == [action EXCEPT !.setpoint = <<degrees>>]

\* A new block has no id.
Block(days, start, end, action) ==
    [id |-> <<>>, days |-> days, start |-> start, end |-> end, action |-> action]

\* Overlapping, equal, adjacent, all-day and midnight-crossing blocks...
GoodIndoor == {
    Block(<<0, 1>>, 0, 4, At(On("heat"), 21)),
    Block(<<0>>,    0, 4, On("cool")),
    Block(<<0, 1>>, 0, 6, On("dry")),
    Block(<<1>>,    4, 2, On("auto")),
    Block(<<0>>,    2, 4, At(Off("heat"), 21)),
    Block(<<1>>,    2, 0, Off("cool")) }

\* ...and what an editor gets wrong.
BadIndoor == {
    Block(<<0>>,    1, 4, On("heat")),
    Block(<<0>>,    0, 3, On("heat")),
    Block(<<0>>,    6, 2, On("heat")),
    Block(<<0>>,    2, 2, On("heat")),
    Block(<<0>>,    Malformed, 2, On("heat")),
    Block(<<>>,     0, 2, On("heat")),
    Block(<<0, 0>>, 0, 2, On("heat")),
    Block(<<0, 2>>, 0, 2, On("heat")),
    Block(<<0>>,    0, 2, On("")),
    Block(<<0>>,    0, 2, At(On("heat"), 70)),
    Block(<<0>>,    0, 2, [On("heat") EXCEPT !.econo = <<TRUE>>]) }

Outdoor == {
    Block(<<0, 1>>, 4, 2, [Blank EXCEPT !.silent = <<TRUE>>]),
    Block(<<0>>,    0, 4, [Blank EXCEPT !.silent = <<FALSE>>, !.econo = <<TRUE>>]),
    Block(<<1>>,    0, 6, [Blank EXCEPT !.econo = <<TRUE>>, !.demand = <<40>>]),
    Block(<<0>>,    0, 2, Blank),
    Block(<<0>>,    0, 2, [Blank EXCEPT !.demand = <<140>>]),
    Block(<<0>>,    0, 2, On("heat")) }

Device(name) == [device |-> name, serial |-> ""]
Unit(name) == [device |-> "", serial |-> name]

Programme(name, kind, priority, targets) ==
    [ id |-> <<>>, name |-> name, type |-> kind, enabled |-> TRUE, priority |-> priority,
      targets |-> targets, blocks |-> <<>> ]

Both == <<Device("living"), Device("bedroom")>>

Firsts == {
    Programme(<<"a">>, "indoor", 1, Both),
    Programme(<<"x">>, "outdoor", 1, <<Unit("s")>>),
    Programme(<<" ">>, "indoor", 1, Both),
    Programme(Reserved, "indoor", 1, Both),
    Programme(<<"a">>, "outdoor", 1, <<Device("living")>>) }

\* Names that slug to what is taken, to another id and to nothing.
Seconds(kind) ==
    IF kind = "outdoor" THEN {Programme(<<"x">>, "outdoor", p, <<Unit("s")>>) : p \in {1, 2}}
    ELSE { Programme(<<" ", "a", "_">>, "", 0, <<Device("living")>>),
           Programme(<<"a", "-", "2">>, "indoor", 1, <<Device("living")>>),
           Programme(<<"_">>, "indoor", 2, <<Device("living")>>) }

Posted == IF document = <<>> THEN Firsts ELSE Seconds(document[1].type)

MaxBlocks == <<2, 1>>

AddBlock(i, block) ==
    /\ Len(document[i].blocks) < MaxBlocks[i]
    /\ \E at \in 1..(Len(document[i].blocks) + 1) :
         Update(i, [document[i] EXCEPT !.blocks = InsertAt(@, at, block)])

RemoveBlock(i, at) == Update(i, [document[i] EXCEPT !.blocks = RemoveAt(@, at)])

Edit ==
    \/ Len(document) < 2 /\ \E posted \in Posted : Create(posted)
    \/ \E i \in DOMAIN document :
         \/ \E block \in GoodIndoor \cup BadIndoor \cup Outdoor : AddBlock(i, block)
         \/ \E at \in DOMAIN document[i].blocks : RemoveBlock(i, at)
         \/ Enable(i, ~document[i].enabled)
    \/ document # <<>> /\ DeleteSchedule(Len(document))

----------------------------------------------------------------------------
(* What the cloud answers. *)

Part(number, type, serial, has) ==
    [ embedded |-> number, type |-> type, serial |-> serial, has |-> has,
      mode |-> "cooling", setpoints |-> {"cooling"} ]

Thermal == {"onOffMode", "operationMode", "temperatureControl", "outdoorSilentMode"}
Purifying == {"onOffMode", "operationMode"}

\* A unit with a thermostat or an air purifier, whose gateway and outdoor unit say
\* their serial number or do not; all share one outdoor unit.
Accounts(number) ==
    {[ id |-> number,
       parts |-> << Part(1, "climateControl", NoSerial, has),
                    Part(2, "gateway", gateway, {"isInErrorState"}),
                    Part(3, "outdoorUnit", outdoor, {"errorCode"}) >>] :
        has \in {Thermal, Purifying}, gateway \in {number, NoSerial}, outdoor \in {0, NoSerial}}

Answer ==
    \/ \E number \in 1..2 : \E device \in Accounts(number) : DeviceAdded(device)
    \/ Reordered
    \/ ModeChosen({"cooling", "fanOnly"})

----------------------------------------------------------------------------
(* Who uses the token. *)

CONSTANTS client, web, util, daemon, tool

MCCallers == {client, web, util}
MCProcesses == {daemon, tool}
MCHome == [c \in MCCallers |-> IF c = util THEN tool ELSE daemon]
MCApiCallers == {client}
MCLoginCallers == {web, util}

----------------------------------------------------------------------------
Untouched ==
    /\ plane = "cloud" /\ asked = NothingAsked
    /\ unit = Unknown /\ seen = Unknown /\ cached = Unknown

NoCalls ==
    /\ issued = 0 /\ alive = {} /\ aged = {} /\ disk = NoToken
    /\ current = [p \in Processes |-> NoToken] /\ holder = [p \in Processes |-> Nobody]
    /\ caller = [c \in Callers |-> NoCall] /\ rejected = {}
    /\ lost = FALSE /\ unsaved = FALSE /\ foreign = FALSE

SessionInit ==
    /\ session \in {"editing", "climate", "discovery", "token"}
    /\ document = <<>> /\ answer = <<>>
    /\ IF session = "climate" THEN ClimateInit ELSE Untouched
    /\ IF session = "token" THEN Init ELSE NoCalls

SessionNext ==
    \/ session = "editing" /\ Edit /\ UNCHANGED <<session, climateVars, answer, vars>>
    \/ session = "climate" /\ ClimateNext /\ UNCHANGED <<session, document, answer, vars>>
    \/ session = "discovery" /\ Answer /\ UNCHANGED <<session, document, climateVars, vars>>
    \/ session = "token" /\ Next /\ UNCHANGED <<session, document, climateVars, answer>>

SessionSpec == SessionInit /\ [][SessionNext]_sessions

----------------------------------------------------------------------------
(* Property of the ids. *)

\* Whatever name comes next, the id it gets is free, and one that the validation
\* takes or the reserved one: no two schedules can come to share one, however their
\* names are spelt.  (model.go UniqueSlug, Slug)
NewIdsAreFree ==
    LET taken == {document[i].id : i \in DOMAIN document}
    IN \A posted \in Firsts \cup Seconds("indoor") :
         LET id == UniqueSlug(posted.name, taken)
         IN id \notin taken /\ Slug(id) = id /\ id # <<>>

----------------------------------------------------------------------------
(* Property of the entity set. *)

\* What Home Assistant is told to exist depends on the installation and not on
\* the order of the answer: every point is there once, under one unique id, read
\* from the least device and part that has it, or is replaced by the thermostat of
\* its own zone; and the same installation listed in another order is the same
\* set of entities.  (discovery.go survivingPoints and entityIDBase, climate.go
\* climateEligibleGroups, hamqtt.go HamqttModel)
EntitiesFollowTheInstallation ==
    LET points == ToSet(ResolveAt(answer))
        shown == Entities(answer)
        place(p) == 10 * p.device + p.embedded
        least(p) == \A q \in points :
                        UniqueID(answer, q) = UniqueID(answer, p) => place(p) <= place(q)
        reads(e, p) == e.source = <<p.device, p.embedded>>
        replaced(p) == p.topic \in Controls /\ \E e \in shown : e.key = "climate" /\ reads(e, p)
    IN /\ \A p \in points :
            LET own == {e \in shown : <<e.base, e.key>> = UniqueID(answer, p)}
            IN IF replaced(p) THEN own = {}
               ELSE \E e \in own : own = {e} /\ (reads(e, p) <=> least(p))
       /\ \A order \in OtherOrders : Entities(order) = shown

\* "The values match the synthetic hvac_mode topic the coordinator already
\* serves, so no translation table is needed on the way out" (model.go:52-55):
\* the mode of every block that was accepted is one the write handler serves.
ScheduledModesAreServed ==
    \A i \in DOMAIN document : Kind(document[i]) = "indoor" =>
        \A b \in ToSet(document[i].blocks) : HVACPayload(b.action) \in Served
=============================================================================
