----------------------------- MODULE CloudTurns -----------------------------
(***************************************************************************)
(* What the ONECTA client promises its callers and the cloud: calls take   *)
(* turns.  One call at a time talks to the cloud, with at most so many     *)
(* requests, one after the other; a call may be turned away without one;   *)
(* no request is sent outside a turn.  CloudClient implements this with a  *)
(* mutex, a breaker and two retry loops.                                   *)
(***************************************************************************)
EXTENDS Naturals

CONSTANTS
    Callers,
    Limit,        \* the most requests each caller's turn may take
    NoOne

VARIABLES
    waiting,      \* the callers with a call that has not had its turn
    turn,         \* the caller whose turn it is, or NoOne
    requests,     \* the requests of this turn
    open          \* the last of them is not answered yet

vars == <<waiting, turn, requests, open>>

Init == waiting = {} /\ turn = NoOne /\ requests = 0 /\ open = FALSE

Call(c) ==
    /\ c \notin waiting /\ turn # c
    /\ waiting' = waiting \cup {c}
    /\ UNCHANGED <<turn, requests, open>>

Begin(c) ==
    /\ c \in waiting /\ turn = NoOne
    /\ waiting' = waiting \ {c} /\ turn' = c
    /\ UNCHANGED <<requests, open>>

TurnAway(c) ==
    /\ c \in waiting /\ turn = NoOne
    /\ waiting' = waiting \ {c}
    /\ UNCHANGED <<turn, requests, open>>

Request(c) ==
    /\ turn = c /\ ~open /\ requests < Limit[c]
    /\ requests' = requests + 1 /\ open' = TRUE
    /\ UNCHANGED <<waiting, turn>>

\* The cloud answers, or does not; the turn goes on.
Answer(c) ==
    /\ turn = c /\ open
    /\ open' = FALSE
    /\ UNCHANGED <<waiting, turn, requests>>

End(c) ==
    /\ turn = c
    /\ turn' = NoOne /\ requests' = 0 /\ open' = FALSE
    /\ UNCHANGED waiting

Next == \E c \in Callers :
    Call(c) \/ Begin(c) \/ TurnAway(c) \/ Request(c) \/ Answer(c) \/ End(c)

Spec == Init /\ [][Next]_vars
============================================================================
