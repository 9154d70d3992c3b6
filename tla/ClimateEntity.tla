---------------------------- MODULE ClimateEntity ----------------------------
(***************************************************************************)
(* Fan and swing of one indoor unit, as Home Assistant's climate entity      *)
(* offers them: internal/coordinator/climate.go over the ONECTA cloud (one   *)
(* PATCH per field, addressed through the cached operation mode) or over a   *)
(* Faikin module (one word for both swing axes, combined with the axes of    *)
(* the last report).  The unit, its remote control and the module's own      *)
(* reading of its words are external.                                       *)
(*                                                                         *)
(* The cloud keeps fan and swing per operation mode; `unit` holds those of   *)
(* the mode it runs in, and a change of mode brings up whatever the other    *)
(* mode had.                                                               *)
(***************************************************************************)
EXTENDS Naturals, Sequences

CONSTANTS
    Speeds,   \* the numeric fan speeds, fanSpeed.modes.fixed
    OpModes,  \* operation modes
    Unknown   \* nothing polled, reported or asked for yet

ASSUME SpeedsAreNumbers == Speeds \cap {"A", "Q"} = {}

Named == {"auto", "quiet"}
Vertical == {"stop", "swing", "windnice"}
Horizontal == {"stop", "swing"}
Settings == [fan : Named \cup {"fixed"}, speed : Speeds, vertical : Vertical, horizontal : Horizontal]

VARIABLES
    plane,  \* "cloud", or "local" when the unit is mapped to a module
    unit,   \* the mode it runs in, and that mode's settings
    seen,   \* the settings of the last poll, or of lastLocal
    cached, \* modeCache
    asked   \* history: what Home Assistant last asked of each setting and the unit was told

climateVars == <<plane, unit, seen, cached, asked>>
NothingAsked == [fan |-> Unknown, vertical |-> Unknown, horizontal |-> Unknown]

----------------------------------------------------------------------------
(* Words. *)

\* parseFanSpeed: the advertised options, "fixed" expanded into its speeds.
FanModes == Named \cup Speeds

\* parseFanSpeed: the option that is current.
FanMode(settings) == IF settings.fan = "fixed" THEN settings.speed ELSE settings.fan

\* cloudFanToFaikin: a single character.
FanCommand(value) == CASE value = "auto" -> "A" [] value = "quiet" -> "Q" [] OTHER -> value

\* faikinFanToCloud: a word this bridge cannot place shows nothing new.
FanOfWord(word) == IF word \in FanModes THEN word ELSE Unknown

Axes(v, h) == [vertical |-> v, horizontal |-> h]

\* faikinSwingAxes: comfort airflow is vertical.
SwingAxes(word) ==
    CASE word = "V"             -> Axes("swing", "stop")
      [] word = "H"             -> Axes("stop", "swing")
      [] word \in {"H+V", "on"} -> Axes("swing", "swing")
      [] word = "C"             -> Axes("windnice", "stop")
      [] OTHER                  -> Axes("stop", "stop")

\* faikinSwingCombine
SwingWord(axes) ==
    CASE axes.vertical = "windnice" -> "C"
      [] axes = Axes("swing", "swing") -> "H+V"
      [] axes = Axes("swing", "stop")  -> "V"
      [] axes = Axes("stop", "swing")  -> "H"
      [] OTHER                         -> "off"

(* The module's side of the same words. *)

ModuleFan(command) ==
    CASE command = "A" -> [fan |-> "auto"] [] command = "Q" -> [fan |-> "quiet"]
      [] OTHER -> [fan |-> "fixed", speed |-> command]

ModuleFanWord(settings) == IF settings.fan = "fixed" THEN settings.speed ELSE settings.fan

ModuleSwing(word) ==
    [ vertical   |-> CASE word \in {"V", "H+V"} -> "swing" [] word = "C" -> "windnice" [] OTHER -> "stop",
      horizontal |-> IF word \in {"H", "H+V"} THEN "swing" ELSE "stop" ]

ModuleSwingWord(settings) ==
    CHOOSE word \in {"off", "H", "V", "H+V", "C"} :
        ModuleSwing(word) = Axes(settings.vertical, IF settings.vertical = "windnice" THEN "stop"
                                                    ELSE settings.horizontal)

----------------------------------------------------------------------------
(* The entity. *)

\* A module has no word for comfort airflow with a swinging louvre.
Representable(settings) == plane = "local" => Axes(settings.vertical, settings.horizontal) # Axes("windnice", "swing")

ClimateInit ==
    /\ plane \in {"cloud", "local"}
    /\ \E mode \in OpModes, s \in Settings : Representable(s) /\ unit = [mode |-> mode, settings |-> s]
    /\ seen = Unknown /\ cached = Unknown
    /\ asked = NothingAsked

Told(fields) == unit' = [unit EXCEPT !.settings = [f \in DOMAIN @ |-> IF f \in DOMAIN fields THEN fields[f] ELSE @[f]]]

\* A Faikin command reaches the module, or the QoS 0 publish is lost or refused.
LocalFan(value) ==
    /\ plane = "local"
    /\ \/ Told(ModuleFan(FanCommand(value))) /\ asked' = [asked EXCEPT !.fan = value]
       \/ UNCHANGED unit /\ asked' = [asked EXCEPT !.fan = Unknown]

\* handleFanModeWrite: a speed is two PATCHes, and the second is sent whatever
\* became of the first.
FanPatches(value) ==
    IF value \in Speeds THEN << [fan |-> "fixed"], [speed |-> value] >> ELSE << [fan |-> value] >>

\* A PATCH is addressed to the cached mode; its failure is only logged.
Merged(patches, done) ==
    [f \in {"fan", "speed"} |->
        LET hits == {i \in done : f \in DOMAIN patches[i]}
        IN IF hits = {} THEN unit.settings[f] ELSE patches[CHOOSE i \in hits : TRUE][f]]

CloudFan(value) ==
    /\ plane = "cloud" /\ cached # Unknown
    /\ \E done \in SUBSET DOMAIN FanPatches(value) :
         IF cached = unit.mode /\ done = DOMAIN FanPatches(value)
         THEN Told(Merged(FanPatches(value), done)) /\ asked' = [asked EXCEPT !.fan = value]
         ELSE /\ IF cached = unit.mode THEN Told(Merged(FanPatches(value), done)) ELSE UNCHANGED unit
              /\ asked' = [asked EXCEPT !.fan = Unknown]

SetFan(value) ==
    /\ LocalFan(value) \/ CloudFan(value)
    /\ UNCHANGED <<plane, seen, cached>>

\* currentFaikinSwing: off until the first report.
LastSwing == IF seen = Unknown THEN "off" ELSE ModuleSwingWord(seen)

Other(axis) == IF axis = "vertical" THEN "horizontal" ELSE "vertical"

\* Mutant of Combined: the axis that is not written stops.
CombinedAlone(axis, value) == [Axes("stop", "stop") EXCEPT ![axis] = value]

\* handleSwingWrite: the other axis keeps what was last reported.
Combined(axis, value) == [SwingAxes(LastSwing) EXCEPT ![axis] = value]

\* The other axis is no longer what was asked for where the report it is taken
\* from is older than the request, and under comfort airflow there is none.
LocalSwing(axis, value) ==
    LET word == SwingWord(Combined(axis, value))
        stale == seen = Unknown \/ ModuleSwingWord(seen) # ModuleSwingWord(unit.settings)
        comfort == word = "C" /\ (axis = "horizontal" \/ asked.horizontal # Unknown)
    IN /\ plane = "local"
       /\ \/ /\ Told(ModuleSwing(word))
             /\ asked' = [f \in DOMAIN asked |->
                            IF f = "horizontal" /\ comfort THEN Unknown
                            ELSE IF f = axis THEN value
                            ELSE IF f = Other(axis) /\ stale THEN Unknown ELSE asked[f]]
          \/ UNCHANGED unit /\ asked' = [asked EXCEPT ![axis] = Unknown]

CloudSwing(axis, value) ==
    /\ plane = "cloud" /\ cached # Unknown
    /\ \/ /\ cached = unit.mode /\ Told([f \in {axis} |-> value])
          /\ asked' = [asked EXCEPT ![axis] = value]
       \/ UNCHANGED unit /\ asked' = [asked EXCEPT ![axis] = Unknown]

SetSwing(axis, value) ==
    /\ LocalSwing(axis, value) \/ CloudSwing(axis, value)
    /\ UNCHANGED <<plane, seen, cached>>

\* A mode written through the bridge is noted (noteWrite)...
SetMode(mode) ==
    /\ mode # unit.mode
    /\ \E s \in Settings : Representable(s) /\ unit' = [mode |-> mode, settings |-> s]
    /\ cached' = mode /\ asked' = NothingAsked
    /\ UNCHANGED <<plane, seen>>

\* ...one chosen on the remote control is not.
ByHand ==
    /\ \E mode \in OpModes, s \in Settings : Representable(s) /\ unit' = [mode |-> mode, settings |-> s]
    /\ asked' = NothingAsked
    /\ UNCHANGED <<plane, seen, cached>>

\* The poll of the cloud, or the module's report.
Report ==
    /\ seen' = unit.settings /\ cached' = unit.mode
    /\ UNCHANGED <<plane, unit, asked>>

ClimateNext ==
    \/ \E value \in FanModes : SetFan(value)
    \/ \E value \in Vertical : SetSwing("vertical", value)
    \/ \E value \in Horizontal : SetSwing("horizontal", value)
    \/ \E mode \in OpModes : SetMode(mode)
    \/ ByHand
    \/ Report

\* publishClimateAux: what the entity shows of a poll...
CloudShows == [fan |-> FanMode(seen), vertical |-> seen.vertical, horizontal |-> seen.horizontal]

\* ...and localStateMessages: of a module's report.
LocalShows ==
    LET axes == SwingAxes(ModuleSwingWord(seen))
    IN [fan |-> FanOfWord(ModuleFanWord(seen)), vertical |-> axes.vertical, horizontal |-> axes.horizontal]

Shown == IF plane = "cloud" THEN CloudShows ELSE LocalShows

\* Once the state that followed is reported, the entity shows what was asked of
\* fan and of each swing axis, on either plane, whatever was asked of the other
\* settings in between: no write disturbs a setting it is not about.  A request
\* is not held against the bridge when a PATCH or command failed, when the cached
\* mode or the reported swing was out of date (a remote control, or a second
\* request before the report of the first), or under comfort airflow, which
\* takes both axes.
AskedIsShown ==
    seen # Unknown /\ seen = unit.settings =>
        \A f \in DOMAIN asked : asked[f] \in {Unknown, Shown[f]}
=============================================================================
