----------------------------- MODULE MatchRoom -----------------------------
(***************************************************************************)
(* What the server promises its players, without slots, flags and timers:   *)
(* a room for at most Capacity members that takes newcomers while it is     *)
(* open or about to start, plays a match among those the start was announced *)
(* with, shows the result and sends everybody home.  Whether members who     *)
(* come between the announcement and the match play too, it leaves open.    *)
(***************************************************************************)
EXTENDS Integers, FiniteSets

CONSTANTS
    Member,          \* who can be in the room
    Capacity,        \* how many fit
    Quorum           \* how many contestants a start needs

VARIABLES
    stage,           \* "open", "starting", "playing" or "showing"
    members,         \* who is in the room
    contestants,     \* who takes part in the match
    survivors        \* the contestants still alive

roomVars == <<stage, members, contestants, survivors>>

RoomInit ==
    /\ stage = "open"
    /\ members = {} /\ contestants = {} /\ survivors = {}

Enter(m) ==
    /\ stage \in {"open", "starting"}
    /\ m \in Member \ members
    /\ Cardinality(members) < Capacity
    /\ members' = members \cup {m}
    /\ UNCHANGED <<stage, contestants, survivors>>

(* Whoever leaves an announced start calls it off; the last one to leave    *)
(* opens the room again.                                                   *)
Leave(m) ==
    /\ m \in members
    /\ members' = members \ {m}
    /\ IF stage = "starting" \/ members = {m}
       THEN stage' = "open" /\ contestants' = {} /\ survivors' = {}
       ELSE /\ contestants' = contestants \ {m}
            /\ survivors' = survivors \ {m}
            /\ UNCHANGED stage

(* A start may also be called off although everybody stays.                 *)
CallOff ==
    /\ stage = "starting"
    /\ stage' = "open" /\ contestants' = {} /\ survivors' = {}
    /\ UNCHANGED members

Announce ==
    /\ stage = "open"
    /\ stage' = "starting"
    /\ contestants' \in SUBSET members
    /\ Cardinality(contestants') >= Quorum
    /\ survivors' = contestants'
    /\ UNCHANGED members

(* Latecomers may be taken in.                                              *)
Begin ==
    /\ stage = "starting"
    /\ stage' = "playing"
    /\ contestants' \in SUBSET members
    /\ contestants \subseteq contestants'
    /\ survivors' = survivors \union (contestants' \ contestants)
    /\ UNCHANGED members

Die(dead) ==
    /\ stage = "playing"
    /\ dead \subseteq survivors
    /\ survivors' = survivors \ dead
    /\ UNCHANGED <<stage, members, contestants>>

Finish ==
    /\ stage = "playing"
    /\ stage' = "showing"
    /\ UNCHANGED <<members, contestants, survivors>>

SendHome ==
    /\ stage = "showing"
    /\ stage' = "open"
    /\ members' = {} /\ contestants' = {} /\ survivors' = {}

RoomNext ==
    \/ \E m \in Member : Enter(m) \/ Leave(m)
    \/ CallOff \/ Announce \/ Begin \/ Finish \/ SendHome
    \/ \E dead \in SUBSET Member : Die(dead)

RoomSpec == RoomInit /\ [][RoomNext]_roomVars
=============================================================================
