------------------------------ MODULE EntitySet ------------------------------
(***************************************************************************)
(* What Home Assistant is told to exist: from one answer of the cloud to   *)
(* the points the catalogue finds in it (internal/process ResolveAt), their *)
(* identities, the member that speaks for a shared part, and the thermostat *)
(* that replaces three controls (internal/hass/discovery.go, climate.go,   *)
(* hamqtt.go).                                                             *)
(*                                                                         *)
(* An answer lists devices, a device its management points, in an order    *)
(* nobody promises.  Names and templates are left out; an id is what it is  *)
(* composed of.  External: model.ApplySuppression of go-hamqtt, which drops *)
(* from a Home Assistant device the keys one of its entities suppresses.   *)
(***************************************************************************)
EXTENDS Naturals, Sequences, SequencesExt, FiniteSetsExt

CONSTANT NoSerial  \* a part that does not say its serial number

VARIABLE answer    \* the last answer, in its order

----------------------------------------------------------------------------
(* The catalogue, one entry of each kind that is told apart here: the       *)
(* topic, the management point it is found on, the characteristic, whether  *)
(* it exists per operation mode, and whether the outdoor unit has only one. *)

Entry(type, characteristic, topic, perMode, scope) ==
    [type |-> type, characteristic |-> characteristic, topic |-> topic, perMode |-> perMode, scope |-> scope]

Catalogue == <<
    Entry("climateControl", "onOffMode", "power", FALSE, ""),
    Entry("climateControl", "operationMode", "operation_mode", FALSE, ""),
    Entry("climateControl", "temperatureControl", "temperature_setpoint", TRUE, ""),
    Entry("climateControl", "outdoorSilentMode", "outdoor_silent", FALSE, "outdoor"),
    Entry("gateway", "isInErrorState", "gateway_error_state", FALSE, ""),
    Entry("outdoorUnit", "errorCode", "outdoor_error_code", FALSE, "") >>

\* An entry resolves where its characteristic is, and a setpoint only in the
\* modes that have one.
Resolves(entry, part) ==
    /\ entry.type = part.type /\ entry.characteristic \in part.has
    /\ entry.perMode => part.mode \in part.setpoints

PointOf(device, part, entry) ==
    [ device |-> device, embedded |-> part.embedded, type |-> part.type,
      topic |-> entry.topic, scope |-> entry.scope ]

\* Devices, their parts, the catalogue: each in its order.
ResolveAt(devices) ==
    LET ofPart(device, part) ==
            LET found == SelectSeq(Catalogue, LAMBDA e : Resolves(e, part))
            IN [i \in DOMAIN found |-> PointOf(device, part, found[i])]
        ofDevice(d) == FlattenSeq([i \in DOMAIN d.parts |-> ofPart(d.id, d.parts[i])])
    IN FlattenSeq([i \in DOMAIN devices |-> ofDevice(devices[i])])

----------------------------------------------------------------------------
(* Identities. *)

\* deviceInfos: the serial of the last part of that type.
Serial(devices, device, type) ==
    LET d == CHOOSE d \in ToSet(devices) : d.id = device
        parts == SelectSeq(d.parts, LAMBDA p : p.type = type)
    IN IF parts = <<>> THEN NoSerial ELSE Last(parts).serial

\* The part of the installation that p describes, if it is known by a serial.
KnownPart(devices, p) ==
    IF p.scope = "outdoor" \/ p.type = "outdoorUnit"
    THEN <<"outdoor", Serial(devices, p.device, "outdoorUnit")>>
    ELSE IF p.type = "gateway" THEN <<"gateway", Serial(devices, p.device, "gateway")>>
    ELSE <<"main", NoSerial>>

Main(p) == <<"main", p.device>>

\* entityIDBase, first result: what the unique id is composed of.
Namespace(devices, p) ==
    LET part == KnownPart(devices, p) IN IF part[2] = NoSerial THEN Main(p) ELSE part

\* entityIDBase, second result: the Home Assistant device it is shown under.
HADevice(devices, p) ==
    IF Namespace(devices, p) = Main(p) /\ p.type = "outdoorUnit" THEN <<"outdoor of", p.device>>
    ELSE Namespace(devices, p)

UniqueID(devices, p) == <<Namespace(devices, p), p.topic>>

LessPoint(p, q) == p.device < q.device \/ (p.device = q.device /\ p.embedded < q.embedded)

\* Mutant of Displaces: whoever comes first in the answer stays.
DisplacesNobody(p, q) == FALSE

\* A later point takes the place of the one seen before.
Displaces(p, q) == LessPoint(p, q)

\* survivingPoints: which of the points that share a unique id speaks for it.
Survivor(devices, points, id) ==
    FoldLeft(LAMBDA best, p : IF UniqueID(devices, p) = id /\ (best = <<>> \/ Displaces(p, best[1]))
                              THEN <<p>> ELSE best,
             <<>>, points)

----------------------------------------------------------------------------
(* The thermostat. *)

SetpointTopics == {"temperature_setpoint", "leaving_water_setpoint"}
Controls == {"power", "operation_mode"} \cup SetpointTopics

\* climateEligibleGroups: the zones that have a switch, a mode and a setpoint.
Zones(points) ==
    LET topics(z) == {points[i].topic : i \in {i \in DOMAIN points :
                          /\ points[i].type = "climateControl"
                          /\ <<points[i].device, points[i].embedded>> = z}}
    IN {z \in {<<p.device, p.embedded>> : p \in ToSet(points)} :
            {"power", "operation_mode"} \subseteq topics(z) /\ topics(z) \cap SetpointTopics # {}}

Entity(device, key, base, source) == [device |-> device, key |-> key, base |-> base, source |-> source]

Thermostat(zone) == Entity(<<"main", zone[1]>>, "climate", <<"main", zone[1]>>, zone)

\* HamqttModel and the library: the thermostats, and every survivor that no
\* thermostat of its Home Assistant device consumes.
Entities(devices) ==
    LET points == ResolveAt(devices)
        thermostats == {Thermostat(z) : z \in Zones(points)}
        speaking == {p \in ToSet(points) : Survivor(devices, points, UniqueID(devices, p)) = <<p>>}
        \* climateConsumedKeys: there is one setpoint in a zone.
        suppressed(p) == p.topic \in Controls /\ \E t \in thermostats : t.device = HADevice(devices, p)
        entity(p) == Entity(HADevice(devices, p), p.topic, Namespace(devices, p), <<p.device, p.embedded>>)
    IN thermostats \cup {entity(p) : p \in {p \in speaking : ~suppressed(p)}}

----------------------------------------------------------------------------
(* Answers. *)

\* The cloud lists the same devices and parts in another order.
OtherOrders ==
    {Reverse(answer)} \cup {[answer EXCEPT ![i].parts = Reverse(@)] : i \in DOMAIN answer}

Reordered == answer' \in OtherOrders

\* Somebody chooses another operation mode.
ModeChosen(modes) ==
    \E i \in DOMAIN answer, mode \in modes :
        answer' = [answer EXCEPT ![i].parts = [k \in DOMAIN @ |-> [@[k] EXCEPT !.mode = mode]]]

\* A device is added to the account.
DeviceAdded(device) ==
    /\ \A i \in DOMAIN answer : answer[i].id # device.id
    /\ answer' = Append(answer, device)
=============================================================================
