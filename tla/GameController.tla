--------------------------- MODULE GameController ---------------------------
(***************************************************************************)
(* The client's view of one game: src/KOTH/Classes/GameController.m.        *)
(*                                                                         *)
(* A GameController is created when the lobby reaches the game server, is   *)
(* started when a room accepts the player, and from then on is driven by    *)
(* three parties that know nothing of each other: the packets that          *)
(* Server.listen delivers (one handler per packet type), the frame timer    *)
(* (update:) and the user (quit).  This module lets them act in any order   *)
(* and puts no condition on what the game server sends; GameMatch composes  *)
(* it with a server that keeps a protocol.                                  *)
(*                                                                         *)
(* Positions, velocities, names, remaining time and punches are left out:   *)
(* no decision of this class depends on them.                               *)
(***************************************************************************)
EXTENDS Naturals

CONSTANTS
    PlayerIds,       \* the ids the game server hands out
    NoPlayer,        \* stands for -1 and for a nil PlayerInfo
    MaxTime,         \* the longest time (in s) a player holds the platform
    MaxPlayers,      \* the longest list in a packet: Server.mm asserts
                     \* that it is below MAX_NUMBER_OF_PLAYERS
    MaxServerDelay   \* MAX_SERVER_DELAY, in frames

ASSUME NoPlayerAssumption == NoPlayer \notin PlayerIds
ASSUME BoundsAssumption   == MaxTime \in Nat /\ MaxPlayers \in Nat /\ MaxServerDelay \in Nat

VARIABLES
    localPlayerId,      \* localPlayerId_
    sceneType,          \* sceneType_
    gameState,          \* gameState_
    playerInfos,        \* playerInfos_: who takes part, for the board and the result
    players,            \* players_: the Jumper or Fighter objects of the scene
    isConnecting,       \* isConnecting_: the server has been silent for too long
    serverUpdateDelay,  \* serverUpdateDelay_, in frames, saturating
    connected,          \* [[Server srv] isConnected]
    quitPending,        \* the delayed _disconnect that quit has scheduled
    shownResult,        \* what the game over scene was built with
    failure             \* why the process died, if it did

vars == <<localPlayerId, sceneType, gameState, playerInfos, players, isConnecting,
          serverUpdateDelay, connected, quitPending, shownResult, failure>>

SceneTypes == {"none", "jump", "fight"}
GameStates == {"none", "waitingOthers", "countdownToGame", "jumping", "fighting",
               "waitDisconnection", "gameOver", "disconnected"}
Failures   == {"none", "unknownPlayer", "wrongClass", "garbagePointer"}
Times      == 0..MaxTime

(***************************************************************************)
(* playerInfos_ is an array.  It is kept as a function of the player id;    *)
(* "ahead" is the set of players that precede this one in the array, which  *)
(* is all that _detectLider makes of the order.                             *)
(***************************************************************************)
PlayerInfo == [color: 1..MaxPlayers, time: Times, ahead: SUBSET PlayerIds,
               isWinner: BOOLEAN, isLocalPlayer: BOOLEAN,
               isPaused: BOOLEAN, isDisconnected: BOOLEAN]
Player     == [kind: {"jump", "fight"}, isPaused: BOOLEAN, isFrozen: BOOLEAN]
Result     == [shown: BOOLEAN, winner: PlayerIds \cup {NoPlayer}, localPlayerIsWinner: BOOLEAN]
NoResult   == [shown |-> FALSE, winner |-> NoPlayer, localPlayerIsWinner |-> FALSE]

IsPartialFunction(f, S, T) == DOMAIN f \subseteq S /\ f \in [DOMAIN f -> T]
NoPlayers == [p \in {} |-> [kind |-> "jump", isPaused |-> FALSE, isFrozen |-> FALSE]]

\* One type invariant: every field keeps its range, whatever the server sends.
TypeOK ==
    /\ localPlayerId \in PlayerIds \cup {NoPlayer}
    /\ sceneType \in SceneTypes
    /\ gameState \in GameStates
    /\ IsPartialFunction(playerInfos, PlayerIds, PlayerInfo)
    /\ IsPartialFunction(players, PlayerIds, Player)
    /\ isConnecting \in BOOLEAN
    /\ serverUpdateDelay \in 0..(MaxServerDelay + 1)
    /\ connected \in BOOLEAN
    /\ quitPending \in BOOLEAN
    /\ shownResult \in Result
    /\ failure \in Failures

\* createNewGame, called from the lobby once the connection is accepted.
Init ==
    /\ localPlayerId = NoPlayer
    /\ sceneType = "none"
    /\ gameState = "none"
    /\ playerInfos = [p \in {} |-> <<>>]
    /\ players = NoPlayers
    /\ isConnecting = FALSE
    /\ serverUpdateDelay = 0
    /\ connected = TRUE
    /\ quitPending = FALSE
    /\ shownResult = NoResult
    /\ failure = "none"

-----------------------------------------------------------------------------
(* The leader flag.                                                         *)

\* A mutation of Leads: the scan keeps no strict maximum, so that two equal
\* times lead together.
LeadsTied(infos, S, p) ==
    /\ p \in S
    /\ infos[p].time > 0
    /\ ~infos[p].isDisconnected
    /\ \A q \in S \ {p} : infos[q].isDisconnected \/ infos[q].time <= infos[p].time

\* The player _detectLider stops at when it scans the players of S: the
\* longest positive time of those not disconnected, the earliest on a tie.
Leads(infos, S, p) ==
    /\ p \in S
    /\ infos[p].time > 0
    /\ ~infos[p].isDisconnected
    /\ \A q \in S \ {p} :
          \/ infos[q].isDisconnected
          \/ infos[q].time < infos[p].time
          \/ infos[q].time = infos[p].time /\ q \notin infos[p].ahead

\* A mutation of DetectLider: the flag is set and never cleared.
DetectLiderOnce(infos, S) ==
    [p \in DOMAIN infos |->
        [infos[p] EXCEPT !.isWinner = infos[p].isWinner \/ Leads(infos, S, p)]]

\* _detectLider at a moment when playerInfos_ held only the players of S.
DetectLider(infos, S) ==
    [p \in DOMAIN infos |-> [infos[p] EXCEPT !.isWinner = Leads(infos, S, p)]]

-----------------------------------------------------------------------------
(* Steps shared by several handlers.                                        *)

Running == failure = "none"

\* Mutations of Receiving: the loop of listen goes on after a disconnect, or
\* packets are left unread while the game is shown as connecting.
ReceivingForEver == Running
ReceivingThawed  == Running /\ connected /\ ~isConnecting

\* Server.listen has a peer to read from.
Receiving == Running /\ connected

\* An NSAssert that fails, a message to an object of the wrong class, or to a
\* pointer that was never set: the process is gone.
Fail(why) ==
    /\ failure' = why
    /\ UNCHANGED <<localPlayerId, sceneType, gameState, playerInfos, players, isConnecting,
                   serverUpdateDelay, connected, quitPending, shownResult>>

\* The effect of _handleServerDisconnectedEvent.
StopAndWaitDisconnection ==
    /\ players' = NoPlayers
    /\ gameState' = "waitDisconnection"
    /\ UNCHANGED <<localPlayerId, sceneType, playerInfos, isConnecting,
                   serverUpdateDelay, quitPending, shownResult, failure>>

NewPlayer(kind) == [kind |-> kind, isPaused |-> FALSE, isFrozen |-> FALSE]

-----------------------------------------------------------------------------
(* The user and the lobby.                                                  *)

StartWithPlayerId(id) ==
    /\ Receiving
    /\ gameState = "none"
    /\ localPlayerId' = id
    /\ sceneType' = "jump"
    /\ gameState' = "waitingOthers"
    /\ UNCHANGED <<playerInfos, players, isConnecting, serverUpdateDelay, connected,
                   quitPending, shownResult, failure>>

\* A mutation of Quit: the scene is stopped and the state forgotten.
QuitInPlay ==
    /\ Running
    /\ sceneType # "none"
    /\ players' = NoPlayers
    /\ sceneType' = "none"
    /\ quitPending' = TRUE
    /\ UNCHANGED <<localPlayerId, gameState, playerInfos, isConnecting, serverUpdateDelay,
                   connected, shownResult, failure>>

\* The alert of the EnvironmentLayer, answered with its first button.
Quit ==
    /\ Running
    /\ sceneType # "none"
    /\ players' = NoPlayers
    /\ sceneType' = "none"
    /\ gameState' = "disconnected"
    /\ quitPending' = TRUE
    /\ UNCHANGED <<localPlayerId, playerInfos, isConnecting, serverUpdateDelay,
                   connected, shownResult, failure>>

\* performSelector:afterDelay: fires 0.2 s after quit.
Disconnect ==
    /\ Running
    /\ quitPending
    /\ quitPending' = FALSE
    /\ connected' = FALSE
    /\ UNCHANGED <<localPlayerId, sceneType, gameState, playerInfos, players, isConnecting,
                   serverUpdateDelay, shownResult, failure>>

-----------------------------------------------------------------------------
(* The frame timer.                                                         *)

\* A mutation of Frozen: the objects are paused as any absent player is.
PausedOnly(player) == [player EXCEPT !.isPaused = TRUE]

\* pause as update: does it for every object of the scene.
Frozen(player) == [player EXCEPT !.isPaused = TRUE, !.isFrozen = TRUE]

\* One frame of update: while a round is being played.
Update ==
    /\ Running
    /\ gameState \in {"jumping", "fighting"}
    /\ serverUpdateDelay' = IF serverUpdateDelay > MaxServerDelay
                            THEN serverUpdateDelay ELSE serverUpdateDelay + 1
    /\ \/ /\ serverUpdateDelay' > MaxServerDelay /\ ~isConnecting
          /\ isConnecting' = TRUE
          /\ players' = [p \in DOMAIN players |-> Frozen(players[p])]
       \/ /\ serverUpdateDelay' <= MaxServerDelay \/ isConnecting
          /\ UNCHANGED <<isConnecting, players>>
    /\ UNCHANGED <<localPlayerId, sceneType, gameState, playerInfos, connected,
                   quitPending, shownResult, failure>>

-----------------------------------------------------------------------------
(* The packets.                                                             *)

\* What a WaitingPlayers packet can carry: a list of distinct players with
\* the time each has held the platform (0 unless the round has begun).
Announcements ==
    {list \in UNION {[1..n -> [id: PlayerIds, time: Times]] : n \in 0..MaxPlayers} :
        \A i, j \in DOMAIN list : i # j => list[i].id # list[j].id}

\* A mutation of IdsIn: the loop over the packet stops one short.
IdsInShort(list) == {list[i].id : i \in {j \in DOMAIN list : j + 1 \in DOMAIN list}}

IdsIn(list)      == {list[i].id : i \in DOMAIN list}
PlaceOf(list, p) == CHOOSE i \in DOMAIN list : list[i].id = p

\* A mutation of ColorOf: the index in the list, without the + 1.
IndexOf(list, p) == PlaceOf(list, p) - 1

\* Places count from 1 as the values of PlayerColor do, after pcNone.
ColorOf(list, p) == PlaceOf(list, p)

\* A mutation of Back: who is back is no longer paused but still absent.
BackAbsent(info) == [info EXCEPT !.isPaused = FALSE]

\* A player that had left is announced again.
Back(info) == [info EXCEPT !.isDisconnected = FALSE, !.isPaused = FALSE]

\* Every player met for the first time gets an info, with the next colour of
\* the list, and a wandering jumper; one that was disconnected is back.  The
\* leader is sought anew at each one that is back, so what counts is who was
\* known when the last of them was reached.
HandleConnectedPlayers(list) ==
    LET known == DOMAIN playerInfos
        back  == {i \in DOMAIN list : list[i].id \in known /\ playerInfos[list[i].id].isDisconnected}
        new   == IdsIn(list) \ known
        Earlier(p) == {list[i].id : i \in 1..(PlaceOf(list, p) - 1)}
        NewInfo(p) == [color |-> ColorOf(list, p), time |-> list[PlaceOf(list, p)].time,
                       ahead |-> known \cup (Earlier(p) \cap new),
                       isWinner |-> FALSE, isLocalPlayer |-> p = localPlayerId,
                       isPaused |-> FALSE, isDisconnected |-> FALSE]
        infos == [p \in known \cup new |->
                    IF p \in new THEN NewInfo(p)
                    ELSE IF \E i \in back : list[i].id = p
                    THEN Back(playerInfos[p])
                    ELSE playerInfos[p]]
        seen  == known \cup {p \in new : \E i \in back : PlaceOf(list, p) < i}
    IN
    /\ Receiving
    /\ playerInfos' = IF back = {} THEN infos ELSE DetectLider(infos, seen)
    /\ players' = [p \in DOMAIN players \cup new |->
                      IF p \in new THEN NewPlayer("jump") ELSE players[p]]
    /\ UNCHANGED <<localPlayerId, sceneType, gameState, isConnecting, serverUpdateDelay,
                   connected, quitPending, shownResult, failure>>

\* Mutations of ForgetsLeavers: a player who leaves is always forgotten, or
\* never.
ForgetsAlways == TRUE
ForgetsNever  == FALSE

\* Only the list of a waiting room gets shorter.
ForgetsLeavers == gameState = "waitingOthers"

\* The other player is forgotten while the room still waits, and only marked
\* once the game has begun; for the local player it is the end of the game.
HandleDisconnectedPlayer(id) ==
    /\ Receiving
    /\ \/ /\ id \notin DOMAIN playerInfos
          /\ UNCHANGED vars
       \/ /\ id \in DOMAIN playerInfos /\ playerInfos[id].isLocalPlayer
          /\ StopAndWaitDisconnection
          /\ UNCHANGED connected
       \/ /\ id \in DOMAIN playerInfos /\ ~playerInfos[id].isLocalPlayer
          /\ ForgetsLeavers
          /\ playerInfos' = [p \in DOMAIN playerInfos \ {id} |->
                                [playerInfos[p] EXCEPT !.ahead = @ \ {id}]]
          /\ players' = [p \in DOMAIN players \ {id} |-> players[p]]
          /\ UNCHANGED <<localPlayerId, sceneType, gameState, isConnecting, serverUpdateDelay,
                         connected, quitPending, shownResult, failure>>
       \/ /\ id \in DOMAIN playerInfos /\ ~playerInfos[id].isLocalPlayer
          /\ ~ForgetsLeavers
          /\ playerInfos' = DetectLider([playerInfos EXCEPT ![id].isDisconnected = TRUE],
                                        DOMAIN playerInfos)
          /\ UNCHANGED <<localPlayerId, sceneType, gameState, players, isConnecting,
                         serverUpdateDelay, connected, quitPending, shownResult, failure>>

\* A mutation of HandleCountdownToGame: the state is set unconditionally.
HandleCountdownAlways ==
    /\ Receiving
    /\ gameState' = "countdownToGame"
    /\ UNCHANGED <<localPlayerId, sceneType, playerInfos, players, isConnecting,
                   serverUpdateDelay, connected, quitPending, shownResult, failure>>

HandleCountdownToGame ==
    /\ Receiving
    /\ gameState' = IF gameState = "waitingOthers" THEN "countdownToGame" ELSE gameState
    /\ UNCHANGED <<localPlayerId, sceneType, playerInfos, players, isConnecting,
                   serverUpdateDelay, connected, quitPending, shownResult, failure>>

\* The guard of both info handlers.
InfoIsIgnored == gameState \in {"gameOver", "disconnected"}

\* A mutation of SceneFor: the scene changes on the way up only.
SceneForClimb(kind, listed) ==
    IF sceneType = "jump" /\ kind = "fight" /\ localPlayerId \in listed THEN kind ELSE sceneType

\* The scene once _switchScene has had its say: it is left only for a list
\* the local player is on.
SceneFor(kind, listed) ==
    IF sceneType # kind /\ localPlayerId \in listed THEN kind ELSE sceneType

\* A mutation of PlayersKept: the scene is left without _stopScene.
PlayersCarried(kind, listed) == players

\* The objects still in players_ after _switchScene.
PlayersKept(kind, listed) ==
    IF SceneFor(kind, listed) = sceneType THEN players ELSE NoPlayers

\* A mutation of StillFrozen: whoever was frozen stays so.
NeverFreed(kept, p) == p \in DOMAIN kept /\ kept[p].isFrozen

\* _updatedFromServer frees everybody, but only if update: has frozen them.
StillFrozen(kept, p) == ~isConnecting /\ p \in DOMAIN kept /\ kept[p].isFrozen

\* What both handlers do with a list of the players of one scene, some of
\* them paused, once playerInfos_ has its new times.
SynchronizeScene(kind, listed, paused, playing) ==
    LET kept == PlayersKept(kind, listed)
    IN
    /\ sceneType' = SceneFor(kind, listed)
    /\ \/ /\ SceneFor(kind, listed) = kind
          /\ gameState' = playing
          /\ players' = [p \in listed |->
                [kind |-> kind, isPaused |-> p \in paused, isFrozen |-> StillFrozen(kept, p)]]
          /\ serverUpdateDelay' = 0
          /\ isConnecting' = FALSE
       \/ /\ SceneFor(kind, listed) # kind
          /\ UNCHANGED <<gameState, players, serverUpdateDelay, isConnecting>>
    /\ UNCHANGED <<localPlayerId, connected, quitPending, shownResult, failure>>

\* The assertion on playerInfo, and a scene that holds an object of the other
\* scene under the id of a listed player.
UnknownPlayer(listed)    == ~(listed \subseteq DOMAIN playerInfos)
WrongClass(kind, listed) ==
    /\ SceneFor(kind, listed) = kind
    /\ \E p \in listed \cap DOMAIN PlayersKept(kind, listed) : players[p].kind # kind

WithPaused(infos, listed, paused) ==
    [p \in DOMAIN infos |->
        IF p \in listed THEN [infos[p] EXCEPT !.isPaused = (p \in paused)] ELSE infos[p]]

HandleJumpInfo(listed, paused) ==
    /\ Receiving
    /\ \/ InfoIsIgnored /\ UNCHANGED vars
       \/ ~InfoIsIgnored /\ UnknownPlayer(listed) /\ Fail("unknownPlayer")
       \/ ~InfoIsIgnored /\ ~UnknownPlayer(listed) /\ WrongClass("jump", listed) /\ Fail("wrongClass")
       \/ /\ ~InfoIsIgnored /\ ~UnknownPlayer(listed) /\ ~WrongClass("jump", listed)
          /\ playerInfos' = WithPaused(playerInfos, listed, paused)
          /\ SynchronizeScene("jump", listed, paused, "jumping")

\* time: the time on the platform of every listed player.  The leader is
\* sought after each of them; the last search is the one that counts.
HandleFightInfo(listed, paused, time) ==
    LET timed == [p \in DOMAIN playerInfos |->
                    IF p \in listed THEN [playerInfos[p] EXCEPT !.time = time[p]] ELSE playerInfos[p]]
        infos == WithPaused(timed, listed, paused)
    IN
    /\ Receiving
    /\ \/ InfoIsIgnored /\ UNCHANGED vars
       \/ ~InfoIsIgnored /\ UnknownPlayer(listed) /\ Fail("unknownPlayer")
       \/ ~InfoIsIgnored /\ ~UnknownPlayer(listed) /\ WrongClass("fight", listed) /\ Fail("wrongClass")
       \/ /\ ~InfoIsIgnored /\ ~UnknownPlayer(listed) /\ ~WrongClass("fight", listed)
          /\ playerInfos' = IF listed = {} THEN playerInfos ELSE DetectLider(infos, DOMAIN infos)
          /\ SynchronizeScene("fight", listed, paused, "fighting")

\* The final times, and the player the server names the winner (NoPlayer for
\* a tie).  The scene shows that winner, but whether the local player has won
\* comes from the leader flag, read through a variable that is set only when
\* the local player is on the list.
HandleGameOverInfo(listed, time, winner) ==
    /\ Receiving
    /\ \/ UnknownPlayer(listed) /\ Fail("unknownPlayer")
       \/ /\ ~UnknownPlayer(listed)
          /\ ~\E p \in listed : playerInfos[p].isLocalPlayer
          /\ Fail("garbagePointer")
       \/ /\ ~UnknownPlayer(listed)
          /\ gameState' = "gameOver"
          /\ players' = NoPlayers
          /\ connected' = FALSE
          /\ playerInfos' = [p \in DOMAIN playerInfos |->
                IF p \in listed THEN [playerInfos[p] EXCEPT !.time = time[p]] ELSE playerInfos[p]]
          /\ \E wins \in BOOLEAN :
                /\ \A p \in listed : playerInfos[p].isLocalPlayer => wins = playerInfos[p].isWinner
                /\ shownResult' = [shown |-> TRUE, winner |-> winner, localPlayerIsWinner |-> wins]
          /\ UNCHANGED <<localPlayerId, sceneType, isConnecting, serverUpdateDelay,
                         quitPending, failure>>

\* Server.listen has lost the connection: it disconnects, then tells the game.
HandleServerDisconnectedEvent ==
    /\ Receiving
    /\ connected' = FALSE
    /\ StopAndWaitDisconnection

-----------------------------------------------------------------------------

Next ==
    \/ \E id \in PlayerIds : StartWithPlayerId(id)
    \/ Quit
    \/ Disconnect
    \/ Update
    \/ \E list \in Announcements : HandleConnectedPlayers(list)
    \/ \E id \in PlayerIds : HandleDisconnectedPlayer(id)
    \/ HandleCountdownToGame
    \/ \E listed \in SUBSET PlayerIds : \E paused \in SUBSET listed :
          HandleJumpInfo(listed, paused)
    \/ \E listed \in SUBSET PlayerIds : \E paused \in SUBSET listed :
          \E time \in [listed -> Times] : HandleFightInfo(listed, paused, time)
    \/ \E listed \in SUBSET PlayerIds : \E winner \in listed \cup {NoPlayer} :
          \E time \in [listed -> Times] : HandleGameOverInfo(listed, time, winner)
    \/ HandleServerDisconnectedEvent

Spec == Init /\ [][Next]_vars

-----------------------------------------------------------------------------
(* What holds whatever the server sends.                                    *)

\* At most one player wears the crown on the board and is told to have won,
\* although the flag is recomputed in five places and infos come and go.
AtMostOneLeader ==
    \A p, q \in DOMAIN playerInfos :
        playerInfos[p].isWinner /\ playerInfos[q].isWinner => p = q

\* Nobody stays frozen once the server is heard again: update: freezes the
\* objects of the moment, and scenes, lists and players may change before
\* _updatedFromServer looks for them.
FrozenOnlyWhileConnecting ==
    \A p \in DOMAIN players : players[p].isFrozen => isConnecting

\* The controls that are sent follow gameState, the objects they act on
\* follow sceneType: the two agree while a round is played.
StateMatchesScene ==
    /\ gameState = "jumping" => sceneType = "jump"
    /\ gameState = "fighting" => sceneType = "fight"

\* A game has one result: handling it closes the connection, so whatever was
\* still queued behind it changes neither the result nor the state, and only
\* the user can leave from there.
ResultIsFinal ==
    [][shownResult.shown => /\ shownResult' = shownResult
                            /\ gameState' \in {"gameOver", "disconnected"}]_vars

=============================================================================
