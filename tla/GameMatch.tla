----------------------------- MODULE GameMatch -----------------------------
(***************************************************************************)
(* A GameController and the game server it plays with.                      *)
(*                                                                         *)
(* The server is not in this repository.  It is modelled from what the      *)
(* client makes of its packets (Server.mm, GameController.m): they arrive   *)
(* in order and once (RELIABLE_ORDERED), a player is announced before it is *)
(* listed, jump and fight infos list the connected players of one scene,    *)
(* and a player told that it has been disconnected is sent nothing more.    *)
(* Packets wait in inbox until a frame of the running scene takes them, so  *)
(* the client always acts on a room that has already changed, and the user  *)
(* may quit between any two of them.                                        *)
(***************************************************************************)
EXTENDS GameController, Sequences, SequencesExt

CONSTANTS
    Local,          \* the player of this client
    RoomCapacity,   \* the players a round needs
    InboxSize,      \* packets under way; the last one of a game may exceed it
    Rejoins         \* the client comes back to a round ("Re-enter")

ASSUME LocalAssumption == Local \in PlayerIds
ASSUME RoomAssumption  == RoomCapacity \in 1..MaxPlayers /\ InboxSize \in Nat \ {0}

VARIABLES
    room,     \* the players of the room, in the order they came
    phase,    \* of the room
    online,   \* the players of the room the server has a connection to
    scene,    \* the scene of every player
    score,    \* the time every player has held the platform
    verdict,  \* the winner it has named, once the round is over
    inbox,    \* what the server has sent and the client has not yet handled
    silent    \* the server has said its last word to this client

serverVars == <<room, phase, online, scene, score, verdict, silent>>
matchVars  == <<vars, serverVars, inbox>>

Phases == {"waiting", "countdown", "round", "over"}

MatchTypeOK ==
    /\ TypeOK
    /\ room \in Seq(PlayerIds) /\ IsInjective(room)
    /\ phase \in Phases
    /\ online \subseteq Range(room)
    /\ scene \in [PlayerIds -> {"jump", "fight"}]
    /\ score \in [PlayerIds -> Times]
    /\ verdict \in PlayerIds \cup {NoPlayer}
    /\ silent \in BOOLEAN

PlaceIn(members, p) == CHOOSE i \in DOMAIN members : members[i] = p

\* The list of a WaitingPlayers packet: whoever is in the room and reachable,
\* in the order of the room.
Announces(list, members, reachable) ==
    /\ {list[i].id : i \in DOMAIN list} = reachable
    /\ \A i, j \in DOMAIN list :
          i < j => PlaceIn(members, list[i].id) < PlaceIn(members, list[j].id)
    /\ \A i \in DOMAIN list : list[i].time = score[list[i].id]

Rooms == UNION {{s \in [1..n -> PlayerIds] : IsInjective(s)} : n \in 1..RoomCapacity}

\* The room that has just accepted this client, and the two packets that say
\* so: into a room that waits, as its last player, or back into a round.
MatchInit ==
    /\ Init
    /\ room \in Rooms
    /\ \/ /\ ~Rejoins
          /\ phase = "waiting" /\ Last(room) = Local /\ online = Range(room)
          /\ scene = [p \in PlayerIds |-> "jump"]
          /\ score = [p \in PlayerIds |-> 0]
       \/ /\ Rejoins
          /\ phase = "round" /\ Len(room) = RoomCapacity
          /\ online \in SUBSET Range(room) /\ Local \in online
          /\ scene \in [PlayerIds -> {"jump", "fight"}]
          /\ score \in [PlayerIds -> Times]
    /\ verdict = NoPlayer /\ silent = FALSE
    /\ \E list \in Announcements :
          /\ Announces(list, room, online)
          /\ inbox = <<[type |-> "connectToRoom"], [type |-> "waitingPlayers", list |-> list]>>

-----------------------------------------------------------------------------
(* The server.                                                              *)

Speaking == ~silent /\ connected
MaySend  == Speaking /\ Len(inbox) < InboxSize

Send(packet) == inbox' = Append(inbox, packet)

Announce(members, reachable) ==
    \E list \in Announcements :
        Announces(list, members, reachable) /\ Send([type |-> "waitingPlayers", list |-> list])

\* A new player gets the last place of the room; everybody is told.
Join(p) ==
    /\ MaySend /\ phase = "waiting" /\ p \notin Range(room) /\ Len(room) < RoomCapacity
    /\ room' = Append(room, p)
    /\ online' = online \cup {p}
    /\ Announce(room', online')
    /\ UNCHANGED <<vars, phase, scene, score, verdict, silent>>

\* Somebody else is gone: from the room while it waits, else only from view.
Leave(p) ==
    /\ MaySend /\ phase # "over" /\ p \in online \ {Local}
    /\ online' = online \ {p}
    /\ room' = IF phase = "waiting" THEN RemoveAt(room, PlaceIn(room, p)) ELSE room
    /\ Send([type |-> "playerDisconnected", id |-> p])
    /\ UNCHANGED <<vars, phase, scene, score, verdict, silent>>

Return(p) ==
    /\ MaySend /\ phase \in {"countdown", "round"} /\ p \in Range(room) \ online
    /\ online' = online \cup {p}
    /\ Announce(room, online')
    /\ UNCHANGED <<vars, room, phase, scene, score, verdict, silent>>

StartCountdown ==
    /\ MaySend /\ phase = "waiting" /\ Len(room) = RoomCapacity
    /\ phase' = "countdown"
    /\ Send([type |-> "countdownToGame"])
    /\ UNCHANGED <<vars, room, online, scene, score, verdict, silent>>

StartRound ==
    /\ Speaking /\ phase = "countdown"
    /\ phase' = "round"
    /\ UNCHANGED <<vars, room, online, scene, score, verdict, silent, inbox>>

\* A jumper reaches the platform, or a fighter is thrown off it.
ChangeScene(p) ==
    /\ Speaking /\ phase = "round" /\ p \in online
    /\ scene' = [scene EXCEPT ![p] = IF @ = "jump" THEN "fight" ELSE "jump"]
    /\ UNCHANGED <<vars, room, phase, online, score, verdict, silent, inbox>>

HoldPlatform(p) ==
    /\ Speaking /\ phase = "round" /\ p \in online /\ scene[p] = "fight"
    /\ score[p] < MaxTime
    /\ score' = [score EXCEPT ![p] = @ + 1]
    /\ UNCHANGED <<vars, room, phase, online, scene, verdict, silent, inbox>>

PlayersIn(kind) == {p \in online : scene[p] = kind}

SendJumpInfo ==
    /\ MaySend /\ phase = "round"
    /\ Send([type |-> "jumpInfo", listed |-> PlayersIn("jump")])
    /\ UNCHANGED <<vars, serverVars>>

SendFightInfo ==
    /\ MaySend /\ phase = "round"
    /\ Send([type |-> "fightInfo", listed |-> PlayersIn("fight"),
             time |-> [p \in PlayersIn("fight") |-> score[p]]])
    /\ UNCHANGED <<vars, serverVars>>

\* The end of the round: the times of whoever is in view, perhaps of those
\* that left too if this client knows them, and the winner unless it is a tie.
Winner(listed) ==
    LET best == {p \in listed : score[p] > 0 /\ \A q \in listed \ {p} : score[q] < score[p]}
    IN  IF best = {} THEN NoPlayer ELSE CHOOSE p \in best : TRUE

SendGameOver ==
    /\ Speaking /\ phase = "round"
    /\ phase' = "over"
    /\ silent' = TRUE
    /\ \E listed \in {online} \cup (IF Rejoins THEN {} ELSE {Range(room)}) :
          /\ verdict' = Winner(listed)
          /\ Send([type |-> "gameOver", time |-> [p \in listed |-> score[p]],
                   winner |-> verdict'])
    /\ UNCHANGED <<vars, room, online, scene, score>>

\* The server drops this client (a pause that was too long, say).
Expel ==
    /\ Speaking /\ phase # "over"
    /\ silent' = TRUE
    /\ online' = online \ {Local}
    /\ Send([type |-> "playerDisconnected", id |-> Local])
    /\ UNCHANGED <<vars, room, phase, scene, score, verdict>>

\* Nothing has come for SetTimeoutTime, or the server has closed: RakNet puts
\* its own packet behind those already received.
LoseConnection ==
    /\ connected
    /\ \A i \in DOMAIN inbox : inbox[i].type # "connectionLost"
    /\ silent' = TRUE
    /\ Send([type |-> "connectionLost"])
    /\ UNCHANGED <<vars, room, phase, online, scene, score, verdict>>

-----------------------------------------------------------------------------
(* The client.                                                              *)

\* One turn of the loop of Server.listen: the handler of the first packet.
\* Once the connection is closed the loop returns and the rest is lost.
Deliver ==
    /\ inbox # <<>>
    /\ LET packet == Head(inbox)
       IN  \/ packet.type = "connectToRoom"      /\ StartWithPlayerId(Local)
           \/ packet.type = "waitingPlayers"     /\ HandleConnectedPlayers(packet.list)
           \/ packet.type = "playerDisconnected" /\ HandleDisconnectedPlayer(packet.id)
           \/ packet.type = "countdownToGame"    /\ HandleCountdownToGame
           \/ packet.type = "jumpInfo"           /\ HandleJumpInfo(packet.listed, {})
           \/ packet.type = "fightInfo"          /\ HandleFightInfo(packet.listed, {}, packet.time)
           \/ packet.type = "gameOver"           /\ HandleGameOverInfo(DOMAIN packet.time, packet.time,
                                                                       packet.winner)
           \/ packet.type = "connectionLost"     /\ HandleServerDisconnectedEvent
    /\ inbox' = IF connected' THEN Tail(inbox) ELSE <<>>
    /\ UNCHANGED serverVars

MatchQuit       == Quit /\ UNCHANGED <<serverVars, inbox>>
MatchUpdate     == Update /\ UNCHANGED <<serverVars, inbox>>
MatchDisconnect == Disconnect /\ inbox' = <<>> /\ UNCHANGED serverVars

MatchNext ==
    \/ \E p \in PlayerIds : Join(p) \/ Leave(p) \/ Return(p) \/ ChangeScene(p) \/ HoldPlatform(p)
    \/ StartCountdown \/ StartRound
    \/ SendJumpInfo \/ SendFightInfo \/ SendGameOver
    \/ Expel \/ LoseConnection
    \/ Deliver \/ MatchQuit \/ MatchUpdate \/ MatchDisconnect

MatchSpec == MatchInit /\ [][MatchNext]_matchVars

\* A frame of the running scene keeps reading packets, and both kinds of info
\* are sent all the time while a round lasts, whenever there is room for one.
Fairness ==
    /\ WF_matchVars(Deliver)
    /\ SF_matchVars(SendJumpInfo)
    /\ SF_matchVars(SendFightInfo)

FairMatchSpec == MatchSpec /\ Fairness

-----------------------------------------------------------------------------
(* Properties.                                                              *)

Ended == {"waitDisconnection", "gameOver", "disconnected"}

\* No info or result names a player the client has forgotten or not yet met
\* (the assertions on playerInfo), and no scene is handed the object of the
\* other scene, although packets are handled long after they were sent.
NoFailure == failure = "none"

\* The objects of players_ are those of the current scene.  (After quit there
\* is none, but an announcement may still create jumpers nobody will show.)
SceneHoldsOneKind == sceneType # "none" => \A p \in DOMAIN players : players[p].kind = sceneType

\* The crown on the board is never stale: at any moment it is on the player a
\* new search for the leader would find.
CrownIsCurrent ==
    ~shownResult.shown =>
        \A p \in DOMAIN playerInfos :
            playerInfos[p].isWinner <=> Leads(playerInfos, DOMAIN playerInfos, p)

\* When every packet has been handled the board shows the room: the same
\* players, and the same ones missing.  It says nothing of a game that ended.
BoardMatchesRoom ==
    (connected /\ inbox = <<>> /\ gameState \notin Ended) =>
        /\ DOMAIN playerInfos = Range(room)
        /\ \A p \in Range(room) : playerInfos[p].isDisconnected <=> p \notin online

\* The same of a client that has come back to a round and knows only those it
\* found there: whoever is shown as present is, and nobody present is missing.
BoardShowsOnline ==
    (connected /\ inbox = <<>> /\ gameState \notin Ended) =>
        {p \in DOMAIN playerInfos : ~playerInfos[p].isDisconnected} = online

\* Nor does anything name a player such a client has not met.
NoUnknownPlayer == failure \notin {"unknownPlayer", "garbagePointer"}

\* While the client waits for a silent server everything on the scene is
\* frozen: no object added in the meantime keeps moving.
AllFrozenWhileConnecting ==
    (isConnecting /\ gameState \in {"jumping", "fighting"}) =>
        \A p \in DOMAIN players : players[p].isFrozen

\* A game that has ended is not played again, whatever was still under way
\* when it did: quitting leaves the connection open for 0.2 s.
EndIsFinal == [][(gameState \in Ended) => (gameState' \in Ended)]_matchVars

\* A round that the server ends one day ends for the client too, also for one
\* that the server's silence has frozen.
RoundEnds ==
    WF_matchVars(SendGameOver) =>
        ((gameState \in {"jumping", "fighting"}) ~> (gameState \in Ended))

\* How far the client is, for whoever looks at the round only.
Stage ==
    CASE gameState = "none"                     -> "entering"
      [] gameState = "waitingOthers"            -> "waiting"
      [] gameState = "countdownToGame"          -> "counting"
      [] gameState \in {"jumping", "fighting"}  -> "playing"
      [] OTHER                                  -> "left"

TheRound == INSTANCE Round
    WITH stage  <- Stage,
         result <- [shown |-> shownResult.shown, winner |-> shownResult.winner]

\* The client keeps the promise of Round although it acts on a room that has
\* already changed: it goes through the phases in their order and never ahead
\* of the server, does not come back once it has left, and shows one result,
\* with the winner the server has decided.
FollowsTheRound == TheRound!Spec

\* The client follows its player from the hill to the platform and back: not
\* because the round ends, but while it lasts.
SceneFollowsServer ==
    \A kind \in {"jump", "fight"} :
        (phase = "round" /\ scene[Local] = kind /\ gameState \notin Ended)
            ~> (sceneType = kind \/ scene[Local] # kind \/ gameState \in Ended)

\* Whoever the server's silence has frozen moves again, or has left the scene:
\* the infos that follow the silence reach the object that was frozen.
ThawsAgain ==
    \A p \in PlayerIds :
        (p \in DOMAIN players /\ players[p].isFrozen)
            ~> (p \notin DOMAIN players \/ ~players[p].isFrozen \/ gameState \in Ended)

=============================================================================
