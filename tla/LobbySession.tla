---------------------------- MODULE LobbySession ----------------------------
(***************************************************************************)
(* The way into a game and out of it: the Server singleton (Server.mm) with *)
(* its one RakNet peer and its one callback per kind of answer, and the     *)
(* LobbyScene that drives it.                                               *)
(*                                                                         *)
(* Four parties act on the same Server: the web server that names the game  *)
(* server, the game server, the timers of the lobby and the user.  None of  *)
(* them is ever cancelled: a request of a lobby that was left is answered   *)
(* while the next one is shown, and its callback is still registered.       *)
(***************************************************************************)
EXTENDS Naturals, FiniteSets

CONSTANTS
    MaxRequests,   \* web requests under way; a lobby starts at most one
    MaxTaps        \* rooms tapped before the first answer

ASSUME SessionAssumption == MaxRequests \in Nat \ {0} /\ MaxTaps \in Nat \ {0}

VARIABLES
    \* The application.
    scene,        \* the running scene
    polling,      \* _requestState is scheduled every 5 seconds
    returning,    \* _returnToMainMenu is scheduled in 2 seconds
    roomsShown,   \* the menus of the lobby, once it has had an answer
    alert,        \* the alert of _handleConnectToRoomResult
    quitPending,  \* the delayed _disconnect of GameController.quit
    failure,      \* why the process died, if it did
    \* The Server singleton.
    blocks,       \* the callbacks that are registered
    stale,        \* those of them that belong to a lobby that was left
    link,         \* rakClient_
    serverIp,     \* serverIp_, by where it came from
    ipFresh,      \* ipExpirationTime_ has been set and is not over
    \* What is under way, and what the game server knows of this peer.
    httpPending,  \* requests to the web server
    roomsAsked,   \* a room list has been asked for
    roomAsked,    \* requests to enter a room
    inRoom,       \* the game server has given this peer a place
    told,         \* it has announced the players of the room
    gameOnLink,   \* the GameController was created on this very peer
    announced     \* the GameController has been told the players

appVars    == <<scene, polling, returning, roomsShown, alert, quitPending>>
serverVars == <<blocks, stale, link, serverIp, ipFresh>>
netVars    == <<httpPending, roomsAsked, roomAsked, inRoom, told, gameOnLink, announced>>
vars       == <<appVars, failure, serverVars, netVars>>

PerLink    == {"connectedPlayers", "countdown", "jumpInfo", "fightInfo"}
GameBlocks == PerLink \cup {"gameOver", "playerDisconnected", "serverDisconnected"}
Blocks     == GameBlocks \cup {"serverConnected", "roomsInfo", "roomConnected"}

Scenes   == {"home", "lobby", "game", "result"}
\* A "failed" and a "refused" peer are active and reach nobody; "none" and "cut"
\* are no peer, after "cut" one that was disconnected before it was connected.
Links    == {"none", "connecting", "up", "failed", "refused", "cut"}
Ips      == {"none", "default", "good", "garbage"}
Failures == {"none", "nilPeer", "nilBlock", "freedLobby", "unknownPlayer"}

AppTypeOK ==
    /\ scene \in Scenes
    /\ polling \in BOOLEAN /\ returning \in BOOLEAN
    /\ roomsShown \in BOOLEAN /\ quitPending \in BOOLEAN
    /\ alert \in {"none", "open", "orphaned"}
    /\ failure \in Failures

ServerTypeOK ==
    /\ blocks \subseteq Blocks
    /\ stale \subseteq blocks \cap {"roomsInfo", "roomConnected"}
    /\ link \in Links
    /\ serverIp \in Ips
    /\ ipFresh \in BOOLEAN /\ (ipFresh => serverIp # "none")

NetTypeOK ==
    /\ httpPending \in 0..MaxRequests /\ roomAsked \in 0..MaxTaps
    /\ roomsAsked \in BOOLEAN /\ inRoom \in BOOLEAN /\ told \in BOOLEAN
    /\ gameOnLink \in BOOLEAN /\ announced \in BOOLEAN
    /\ (roomsAsked \/ roomAsked # 0 \/ inRoom) => link = "up"

\* One type invariant for the session: every variable keeps its range, and a
\* request is under way only on a peer that is up.
TypeOK == AppTypeOK /\ ServerTypeOK /\ NetTypeOK

\* The home scene, just after the application has started.
Init ==
    /\ scene = "home" /\ alert = "none" /\ failure = "none"
    /\ polling = FALSE /\ returning = FALSE /\ roomsShown = FALSE /\ quitPending = FALSE
    /\ blocks = {} /\ stale = {} /\ link = "none" /\ serverIp = "none" /\ ipFresh = FALSE
    /\ httpPending = 0 /\ roomsAsked = FALSE /\ roomAsked = 0
    /\ inRoom = FALSE /\ told = FALSE /\ gameOnLink = FALSE /\ announced = FALSE

-----------------------------------------------------------------------------
(* Steps shared by several actions.                                         *)

Running == failure = "none"

\* An alert is modal: nothing else can be touched while it is open.
Touch == Running /\ alert = "none"

\* listen is called each frame by the lobby and by the scenes of a game, the
\* one that quit is turning away included.
Listening == Running /\ (scene \in {"lobby", "game"} \/ quitPending)

Fail(why) == failure' = why /\ UNCHANGED <<appVars, serverVars, netVars>>

\* isConnected asks IsActive, which is true of any peer that was started,
\* whether or not it has reached a server.
IsConnected == link \notin {"none", "cut"}

\* The attempt to connect ended without a call of the callback for it.
Unheard == link \in {"refused", "cut"}

\* "Connecting...": the lobby has been told neither that it is connected nor
\* that it is not.
LobbyWaits == scene = "lobby" /\ ~polling /\ ~returning

\* Everything under way on the peer is lost with it.
NothingUnderWay ==
    /\ roomsAsked' = FALSE /\ roomAsked' = 0 /\ inRoom' = FALSE /\ told' = FALSE
    /\ gameOnLink' = FALSE

\* A new peer replaces the current one, which is neither shut down nor
\* destroyed.  An address that cannot be resolved is reported at once, to
\* whichever callback is registered, and that callback is not cleared.
ConnectToServer(registered, ip, inLobby) ==
    /\ NothingUnderWay
    /\ UNCHANGED announced
    /\ \/ /\ ip # "garbage"
          /\ link' = "connecting"
          /\ UNCHANGED <<returning, failure>>
       \/ /\ ip = "garbage" /\ "serverConnected" \in registered
          /\ link' = "failed"
          /\ returning' = inLobby
          /\ UNCHANGED failure
       \/ /\ ip = "garbage" /\ "serverConnected" \notin registered
          /\ link' = "failed"
          /\ failure' = "nilBlock"
          /\ UNCHANGED returning

\* A mutation of Disconnected: what the lobby waits for is dropped too.
DisconnectedAll == blocks \ (PerLink \cup {"roomsInfo", "roomConnected"})

\* disconnect: only four of the callbacks are dropped.
Disconnected == blocks \ PerLink

\* The running scene is replaced: its timers stop, an alert loses its delegate.
LeaveFor(next) ==
    /\ scene' = next
    /\ polling' = FALSE /\ returning' = FALSE
    /\ alert' = IF alert = "open" THEN "orphaned" ELSE alert

-----------------------------------------------------------------------------
(* Reaching the game server.                                                *)

\* "Play": the new lobby connects as it is initialised.  The page turn takes
\* longer than the 0.2 s that quit waits for before it disconnects.
OpenLobby ==
    /\ Touch /\ scene = "home" /\ ~quitPending
    /\ scene' = "lobby"
    /\ roomsShown' = FALSE
    /\ blocks' = blocks \cup {"serverConnected"}
    /\ stale' = blocks \cap {"roomsInfo", "roomConnected"}
    /\ \/ ipFresh /\ ConnectToServer(blocks', serverIp, TRUE) /\ UNCHANGED httpPending
       \/ /\ ~ipFresh /\ httpPending < MaxRequests
          /\ httpPending' = httpPending + 1
          /\ UNCHANGED <<returning, failure, link, roomsAsked, roomAsked, inRoom,
                         told, gameOnLink, announced>>
    /\ UNCHANGED <<polling, alert, quitPending, serverIp, ipFresh>>

\* The body of any answer is taken for an address, and kept for an hour.
HttpAnswers(ip) ==
    /\ Running /\ httpPending > 0
    /\ httpPending' = httpPending - 1
    /\ serverIp' = ip /\ ipFresh' = TRUE
    /\ ConnectToServer(blocks, ip, scene = "lobby")
    /\ UNCHANGED <<scene, polling, roomsShown, alert, quitPending, blocks, stale>>

\* An error, or 10 seconds without an answer.
HttpFails ==
    /\ Running /\ httpPending > 0
    /\ httpPending' = httpPending - 1
    /\ serverIp' = "default"
    /\ ConnectToServer(blocks, "default", scene = "lobby")
    /\ UNCHANGED <<scene, polling, roomsShown, alert, quitPending, blocks, stale, ipFresh>>

IpExpires ==
    /\ Running /\ ipFresh
    /\ ipFresh' = FALSE
    /\ UNCHANGED <<appVars, failure, blocks, stale, link, serverIp, netVars>>

\* A mutation of CreateNewGame: a singleton that is already subscribed is
\* used again.
CreateGameOnce(registered) ==
    /\ blocks' = IF "serverDisconnected" \in registered THEN registered
                 ELSE registered \cup GameBlocks
    /\ gameOnLink' = TRUE
    /\ announced' = FALSE

\* createNewGame subscribes the new controller to everything it needs.
CreateNewGame(registered) ==
    /\ blocks' = registered \cup GameBlocks
    /\ gameOnLink' = TRUE
    /\ announced' = FALSE

\* ID_CONNECTION_REQUEST_ACCEPTED: a lobby that asked for it creates the game,
\* asks for the rooms and starts to poll.  It may not be the running scene.
Accepted ==
    /\ Listening /\ link = "connecting"
    /\ link' = "up"
    /\ \/ /\ "serverConnected" \in blocks
          /\ CreateNewGame((blocks \ {"serverConnected"}) \cup {"roomsInfo"})
          /\ stale' = stale \ {"roomsInfo"}
          /\ roomsAsked' = TRUE
          /\ polling' = (scene = "lobby")
       \/ /\ "serverConnected" \notin blocks
          /\ UNCHANGED <<blocks, stale, gameOnLink, announced, roomsAsked, polling>>
    /\ UNCHANGED <<scene, returning, roomsShown, alert, quitPending, failure, serverIp, ipFresh,
                   httpPending, roomAsked, inRoom, told>>

\* A mutation of TellsOfFailure: the callback is called for a success only.
TellsNobody == FALSE

\* _handleConnectionResult(NO) is called, by a lobby that is shown.
TellsOfFailure == "serverConnected" \in blocks /\ scene = "lobby"

\* ID_CONNECTION_ATTEMPT_FAILED: the peer stays, and stays active.
AttemptFailed ==
    /\ Listening /\ link = "connecting"
    /\ link' = "failed"
    /\ returning' = (returning \/ TellsOfFailure)
    /\ blocks' = blocks \ {"serverConnected"}
    /\ UNCHANGED <<scene, polling, roomsShown, alert, quitPending, failure, stale,
                   serverIp, ipFresh, netVars>>

\* The server's own refusals (no free connection, banned, a wrong password, too
\* early, another protocol) come in place of that packet.  listen logs the last
\* one and hands the others to _processCustomPacket, which knows none of them.
Refused ==
    /\ Listening /\ link = "connecting"
    /\ link' = "refused"
    /\ UNCHANGED <<appVars, failure, blocks, stale, serverIp, ipFresh, netVars>>

\* The three packets for a lost connection; the first of them may also come
\* before the connection is there.  The GameController is told; the lobby is not.
ConnectionLost ==
    /\ Listening /\ link \in {"connecting", "up"}
    /\ link' = IF link = "up" THEN "none" ELSE "cut"
    /\ blocks' = Disconnected
    /\ NothingUnderWay
    /\ UNCHANGED <<appVars, failure, stale, serverIp, ipFresh, httpPending, announced>>

-----------------------------------------------------------------------------
(* Asking for the rooms.                                                    *)

\* _requestState: with no peer it reconnects, naming nobody to tell, and then
\* sends its request through a peer that exists only if the address was known.
RequestState ==
    \/ /\ IsConnected
       /\ blocks' = blocks \cup {"roomsInfo"}
       /\ stale' = stale \ {"roomsInfo"}
       /\ roomsAsked' = (roomsAsked \/ link = "up")
       /\ UNCHANGED <<returning, failure, link, roomAsked, inRoom, told, gameOnLink, announced>>
    \/ /\ ~IsConnected /\ ipFresh
       /\ blocks' = (blocks \ {"serverConnected"}) \cup {"roomsInfo"}
       /\ stale' = stale \ {"roomsInfo"}
       /\ ConnectToServer(blocks \ {"serverConnected"}, serverIp, scene = "lobby")
    \/ /\ ~IsConnected /\ ~ipFresh
       /\ failure' = "nilPeer"
       /\ UNCHANGED <<returning, blocks, stale, link, roomsAsked, roomAsked, inRoom,
                      told, gameOnLink, announced>>

PollTimer ==
    /\ Running /\ polling
    /\ RequestState
    /\ UNCHANGED <<scene, polling, roomsShown, alert, quitPending, serverIp, ipFresh, httpPending>>

\* "Refresh".  The alert does not retain the lobby it reports to.
AlertRefresh ==
    /\ Running
    /\ \/ /\ alert = "open"
          /\ alert' = "none"
          /\ RequestState
          /\ UNCHANGED <<scene, polling, roomsShown, quitPending, serverIp, ipFresh, httpPending>>
       \/ /\ alert = "orphaned"
          /\ Fail("freedLobby")

\* sptRoomsInfo.
RoomsInfo ==
    /\ Listening /\ link = "up" /\ roomsAsked
    /\ roomsAsked' = FALSE
    /\ roomsShown' = (roomsShown \/ (scene = "lobby" /\ "roomsInfo" \in blocks \ stale))
    /\ UNCHANGED <<scene, polling, returning, alert, quitPending, failure, serverVars,
                   httpPending, roomAsked, inRoom, told, gameOnLink, announced>>

-----------------------------------------------------------------------------
(* Entering a room, and leaving it.                                         *)

\* A room, Quickplay or Re-enter is tapped; the menus outlive the connection.
SelectRoom ==
    /\ Touch /\ scene = "lobby" /\ roomsShown
    /\ \/ ~IsConnected /\ Fail("nilPeer")
       \/ /\ IsConnected /\ roomAsked < MaxTaps
          /\ blocks' = blocks \cup {"roomConnected"}
          /\ stale' = stale \ {"roomConnected"}
          /\ roomAsked' = IF link = "up" THEN roomAsked + 1 ELSE roomAsked
          /\ UNCHANGED <<appVars, failure, link, serverIp, ipFresh, httpPending, roomsAsked,
                         inRoom, told, gameOnLink, announced>>

\* A mutation of AfterRoomResult: the room callback is kept after its call.
AfterEveryRoomResult == blocks \ {"roomsInfo"}

\* The callbacks sptConnectToRoom leaves registered.
AfterRoomResult == blocks \ {"roomsInfo", "roomConnected"}

\* sptConnectToRoom: the first answer takes the only callback with it.
RoomResult(ok) ==
    /\ Listening /\ link = "up" /\ roomAsked > 0
    /\ roomAsked' = roomAsked - 1
    /\ inRoom' = (inRoom \/ ok)
    /\ blocks' = AfterRoomResult
    /\ stale' = {}
    /\ \/ "roomConnected" \in blocks /\ ok /\ LeaveFor("game")
       \/ /\ "roomConnected" \in blocks /\ ~ok
          /\ alert' = IF "roomConnected" \in stale THEN "orphaned" ELSE "open"
          /\ UNCHANGED <<scene, polling, returning>>
       \/ "roomConnected" \notin blocks /\ UNCHANGED <<scene, polling, returning, alert>>
    /\ UNCHANGED <<roomsShown, quitPending, failure, link, serverIp, ipFresh, httpPending,
                   roomsAsked, told, gameOnLink, announced>>

\* sptWaitingPlayers, which the game hears only through its callback.
WaitingPlayers ==
    /\ Listening /\ link = "up" /\ inRoom
    /\ told' = TRUE
    /\ announced' = (announced \/ "connectedPlayers" \in blocks)
    /\ UNCHANGED <<appVars, failure, serverVars, httpPending, roomsAsked, roomAsked,
                   inRoom, gameOnLink>>

\* sptGameOver: the handler asserts that it knows every player of the result,
\* then disconnects and shows it.  The server has announced them all.
GameOver ==
    /\ Listening /\ link = "up" /\ inRoom /\ told
    /\ \/ ~announced /\ Fail("unknownPlayer")
       \/ /\ announced
          /\ link' = "none"
          /\ blocks' = Disconnected \ {"playerDisconnected"}
          /\ NothingUnderWay
          /\ LeaveFor("result")
          /\ UNCHANGED <<roomsShown, quitPending, failure, stale, serverIp, ipFresh,
                         httpPending, announced>>

\* GameController.quit: the home scene comes at once, the disconnection later.
UserQuits ==
    /\ Touch /\ scene = "game"
    /\ LeaveFor("home")
    /\ quitPending' = TRUE
    /\ UNCHANGED <<roomsShown, failure, serverVars, netVars>>

DelayedDisconnect ==
    /\ Running /\ quitPending
    /\ quitPending' = FALSE
    /\ \/ /\ IsConnected
          /\ link' = "none"
          /\ blocks' = Disconnected
          /\ NothingUnderWay
       \/ ~IsConnected /\ UNCHANGED <<link, blocks, roomsAsked, roomAsked, inRoom, told, gameOnLink>>
    /\ UNCHANGED <<scene, polling, returning, roomsShown, alert, failure, stale, serverIp,
                   ipFresh, httpPending, announced>>

\* The home button of the lobby, or the timer that follows a failure.  The
\* connection is left as it is.
ReturnToMenu ==
    /\ scene = "lobby" /\ (Touch \/ (Running /\ returning))
    /\ LeaveFor("home")
    /\ UNCHANGED <<roomsShown, quitPending, failure, serverVars, netVars>>

LeaveResult ==
    /\ Touch /\ scene = "result"
    /\ LeaveFor("home")
    /\ UNCHANGED <<roomsShown, quitPending, failure, serverVars, netVars>>

-----------------------------------------------------------------------------

Next ==
    \/ OpenLobby
    \/ \E ip \in {"good", "garbage"} : HttpAnswers(ip)
    \/ HttpFails \/ IpExpires
    \/ Accepted \/ AttemptFailed \/ Refused \/ ConnectionLost
    \/ PollTimer \/ AlertRefresh \/ RoomsInfo
    \/ SelectRoom
    \/ \E ok \in BOOLEAN : RoomResult(ok)
    \/ WaitingPlayers \/ GameOver
    \/ UserQuits \/ DelayedDisconnect \/ ReturnToMenu \/ LeaveResult

Spec == Init /\ [][Next]_vars

\* RakNet ends every attempt to connect, in one of these ways.
AttemptEnds ==
    /\ link = "connecting"
    /\ Accepted \/ AttemptFailed \/ Refused \/ ConnectionLost

\* A web request is answered or times out, an attempt to connect ends (whether
\* or not listen tells anybody), a timer fires, a connected server answers.
\* Nothing is asked of the user, and the server may always refuse.
Fairness ==
    /\ WF_vars(HttpFails \/ \E ip \in {"good", "garbage"} : HttpAnswers(ip))
    /\ WF_vars(AttemptEnds)
    /\ WF_vars(PollTimer)
    /\ WF_vars(RoomsInfo)

FairSpec == Spec /\ Fairness

-----------------------------------------------------------------------------
(* What holds.                                                              *)

\* A game whose controller was created on the present connection still has
\* every callback that connection needs: no disconnect, no answer to an older
\* request and no earlier game has taken one of them away.
GameHearsItsServer ==
    (scene = "game" /\ gameOnLink) => GameBlocks \subseteq blocks

\* Only one answer of the rooms that were tapped can start the game: a second
\* one, or one meant for an earlier lobby, finds no callback once it runs.
OneRoomAnswerCounts == scene = "game" => "roomConnected" \notin blocks

\* A lobby shows "Connecting..." for ever for one reason only: its last attempt
\* came to an end that listen tells nobody of.  Every other answer or error of
\* the web server, of the address and of the game server leads on or back.
LobbyAnswers == <>[](LobbyWaits /\ Running) => <>[]Unheard

-----------------------------------------------------------------------------
(* What does not, although the source says so.                              *)

\* The assertion on playerInfo in _handleGameOverInfo: every player of a
\* result has been announced.
ResultPlayersAreKnown == failure # "unknownPlayer"

\* "request rooms info each 5 seconds": the timer can always do so.
PollCanAsk == [][PollTimer => failure' = "none"]_vars

=============================================================================
