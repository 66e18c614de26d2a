------------------------------- MODULE Round -------------------------------
(***************************************************************************)
(* What a player is promised of one round, with neither packets nor scenes: *)
(* the client goes through the phases of its room in their order, never     *)
(* ahead of the server; it may leave at any moment and then takes no more   *)
(* part; and the one result it shows names the winner the server has        *)
(* decided.                                                                 *)
(*                                                                         *)
(* A server decides, a client follows when it likes: GameMatch, where every *)
(* packet is late, is shown to implement this.                              *)
(***************************************************************************)
CONSTANTS PlayerIds, NoPlayer

VARIABLES
    phase,     \* of the room, at the server
    verdict,   \* the winner the server has named, if any
    stage,     \* how far the client is
    result     \* what the client shows in the end

vars == <<phase, verdict, stage, result>>

Phases    == {"waiting", "countdown", "round", "over"}
Stages    == {"entering", "waiting", "counting", "playing", "left"}
Winners   == PlayerIds \cup {NoPlayer}
NotShown  == [shown |-> FALSE, winner |-> NoPlayer]
Results   == [shown: BOOLEAN, winner: Winners]

TypeOK ==
    /\ phase \in Phases /\ stage \in Stages
    /\ verdict \in Winners /\ result \in Results

\* A room accepts players while it waits, and takes its own ones back later.
Init ==
    /\ phase \in {"waiting", "round"}
    /\ verdict = NoPlayer
    /\ stage = "entering"
    /\ result = NotShown

-----------------------------------------------------------------------------
(* The server.                                                              *)

Advance ==
    /\ \/ phase = "waiting" /\ phase' = "countdown"
       \/ phase = "countdown" /\ phase' = "round"
    /\ UNCHANGED <<verdict, stage, result>>

Decide ==
    /\ phase = "round"
    /\ phase' = "over"
    /\ verdict' \in Winners
    /\ UNCHANGED <<stage, result>>

-----------------------------------------------------------------------------
(* The client.                                                              *)

Enter ==
    /\ stage = "entering" /\ stage' = "waiting"
    /\ UNCHANGED <<phase, verdict, result>>

Count ==
    /\ phase # "waiting"
    /\ stage = "waiting" /\ stage' = "counting"
    /\ UNCHANGED <<phase, verdict, result>>

\* The infos of the round, which may be the first the client hears of it.
Play ==
    /\ phase \in {"round", "over"}
    /\ stage \in {"waiting", "counting"} /\ stage' = "playing"
    /\ UNCHANGED <<phase, verdict, result>>

Leave ==
    /\ stage # "left" /\ stage' = "left"
    /\ UNCHANGED <<phase, verdict, result>>

\* Also to a player who has just left: the result was under way.
Show ==
    /\ phase = "over"
    /\ stage # "entering" /\ stage' = "left"
    /\ ~result.shown
    /\ result' = [shown |-> TRUE, winner |-> verdict]
    /\ UNCHANGED <<phase, verdict>>

Next == Advance \/ Decide \/ Enter \/ Count \/ Play \/ Leave \/ Show

Spec == Init /\ [][Next]_vars

=============================================================================
