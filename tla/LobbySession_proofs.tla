------------------------- MODULE LobbySession_proofs -------------------------
(***************************************************************************)
(* What the session keeps for any number of requests and taps under way.    *)
(*                                                                         *)
(* GameHearsItsServer is seldom about the running scene: callbacks are lost *)
(* in the lobby, in the game and after quit.  The inductive invariant says  *)
(* it of every scene (Subscribed).                                          *)
(***************************************************************************)
EXTENDS LobbySession, TLAPS

\* Wherever the user is, a controller made on the present peer hears all of it.
Subscribed == gameOnLink => GameBlocks \subseteq blocks

Safe == TypeOK /\ Subscribed /\ OneRoomAnswerCounts

-----------------------------------------------------------------------------

\* At the home scene nothing is registered and nothing is under way.
LEMMA InitSafe == Init => Safe
<1>1. 0 \in 0..MaxRequests /\ 0 \in 0..MaxTaps
  BY SessionAssumption
<1>2. Init => TypeOK
  <2>1. Init => AppTypeOK
    BY DEF Init, AppTypeOK, Scenes, Failures
  <2>2. Init => ServerTypeOK
    BY DEF Init, ServerTypeOK, Links, Ips
  <2>3. Init => NetTypeOK
    BY <1>1 DEF Init, NetTypeOK
  <2> QED
    BY <2>1, <2>2, <2>3 DEF TypeOK
<1>3. Init => Subscribed
  BY DEF Init, Subscribed
<1>4. Init => OneRoomAnswerCounts
  BY DEF Init, OneRoomAnswerCounts
<1> QED
  BY <1>2, <1>3, <1>4 DEF Safe

\* A process that dies keeps everything else.
LEMMA FailSafe ==
    ASSUME Safe, NEW why \in Failures, Fail(why)
    PROVE  Safe'
BY DEF Safe, TypeOK, AppTypeOK, ServerTypeOK, NetTypeOK, Subscribed, OneRoomAnswerCounts,
       Fail, appVars, serverVars, netVars

\* What a new peer changes: nothing is under way on it and no game was
\* created on it.
LEMMA ConnectToServerType ==
    ASSUME TypeOK, NEW registered, NEW ip, NEW inLobby \in BOOLEAN,
           ConnectToServer(registered, ip, inLobby)
    PROVE  /\ roomsAsked' = FALSE /\ roomAsked' = 0 /\ inRoom' = FALSE /\ told' = FALSE
           /\ gameOnLink' = FALSE /\ announced' = announced
           /\ link' \in Links /\ returning' \in BOOLEAN /\ failure' \in Failures
           /\ roomAsked' \in 0..MaxTaps
BY SessionAssumption
   DEF ConnectToServer, NothingUnderWay, TypeOK, AppTypeOK, ServerTypeOK, NetTypeOK, Links,
       Failures

\* The same for the peer that is given up.
LEMMA NothingUnderWayType ==
    ASSUME NothingUnderWay
    PROVE  /\ roomsAsked' = FALSE /\ roomAsked' = 0 /\ inRoom' = FALSE /\ told' = FALSE
           /\ gameOnLink' = FALSE /\ roomAsked' \in 0..MaxTaps
BY SessionAssumption DEF NothingUnderWay

-----------------------------------------------------------------------------
(* Reaching the game server.                                                *)

\* A new lobby registers a callback and may replace the peer, which takes the
\* game created on the old one with it.
LEMMA OpenLobbySafe == ASSUME Safe, OpenLobby PROVE Safe'
<1>1. TypeOK
  BY DEF Safe
<1>2. /\ scene' = "lobby" /\ blocks' = blocks \cup {"serverConnected"}
      /\ stale' = blocks \cap {"roomsInfo", "roomConnected"}
  BY DEF OpenLobby
<1>3. CASE ipFresh /\ ConnectToServer(blocks', serverIp, TRUE) /\ UNCHANGED httpPending
  <2>1. /\ roomsAsked' = FALSE /\ roomAsked' = 0 /\ inRoom' = FALSE /\ told' = FALSE
        /\ gameOnLink' = FALSE /\ announced' = announced
        /\ link' \in Links /\ returning' \in BOOLEAN /\ failure' \in Failures
        /\ roomAsked' \in 0..MaxTaps
    BY <1>1, <1>3, ConnectToServerType
  <2>2. TypeOK'
    <3>1. AppTypeOK'
      BY <1>1, <1>2, <1>3, <2>1 DEF TypeOK, AppTypeOK, OpenLobby, Scenes, Blocks
    <3>2. ServerTypeOK'
      BY <1>1, <1>2, <1>3, <2>1 DEF TypeOK, ServerTypeOK, OpenLobby, Scenes, Blocks
    <3>3. NetTypeOK'
      BY <1>1, <1>2, <1>3, <2>1 DEF TypeOK, NetTypeOK, OpenLobby, Scenes, Blocks
    <3> QED
      BY <3>1, <3>2, <3>3 DEF TypeOK
  <2>3. Subscribed'
    BY <2>1 DEF Subscribed
  <2>4. OneRoomAnswerCounts'
    BY <1>2 DEF OneRoomAnswerCounts
  <2> QED
    BY <2>2, <2>3, <2>4 DEF Safe
<1>4. CASE /\ ~ipFresh /\ httpPending < MaxRequests /\ httpPending' = httpPending + 1
           /\ UNCHANGED <<returning, failure, link, roomsAsked, roomAsked, inRoom, told,
                          gameOnLink, announced>>
  <2>1. httpPending' \in 0..MaxRequests
    BY <1>1, <1>4, SessionAssumption DEF TypeOK, AppTypeOK, ServerTypeOK, NetTypeOK
  <2>2. AppTypeOK'
    BY <1>1, <1>2, <1>4, <2>1 DEF Safe, TypeOK, AppTypeOK, OpenLobby, Scenes, Blocks
  <2>3. ServerTypeOK'
    BY <1>1, <1>2, <1>4, <2>1 DEF Safe, TypeOK, ServerTypeOK, OpenLobby, Scenes, Blocks
  <2>4. NetTypeOK'
    BY <1>1, <1>2, <1>4, <2>1 DEF Safe, TypeOK, NetTypeOK, OpenLobby, Scenes, Blocks
  <2>5. Subscribed' /\ OneRoomAnswerCounts'
    BY <1>1, <1>2, <1>4, <2>1 DEF Safe, Subscribed, OneRoomAnswerCounts, OpenLobby, Scenes, Blocks
  <2> QED
    BY <2>2, <2>3, <2>4, <2>5 DEF Safe, TypeOK
<1> QED
  BY <1>3, <1>4 DEF OpenLobby

\* Either end of a web request.
LEMMA HttpSafe ==
    ASSUME Safe, (\E ip \in {"good", "garbage"} : HttpAnswers(ip)) \/ HttpFails
    PROVE  Safe'
<1>1. TypeOK
  BY DEF Safe
<1>2. PICK ip \in Ips \ {"none"} : ConnectToServer(blocks, ip, scene = "lobby") /\ serverIp' = ip
  BY DEF HttpAnswers, HttpFails, Ips
<1>3. /\ roomsAsked' = FALSE /\ roomAsked' = 0 /\ inRoom' = FALSE /\ told' = FALSE
      /\ gameOnLink' = FALSE /\ announced' = announced
      /\ link' \in Links /\ returning' \in BOOLEAN /\ failure' \in Failures
      /\ roomAsked' \in 0..MaxTaps
  BY <1>1, <1>2, ConnectToServerType
<1>4. httpPending' \in 0..MaxRequests
  BY <1>1, SessionAssumption DEF TypeOK, AppTypeOK, ServerTypeOK, NetTypeOK, HttpAnswers,
                                 HttpFails
<1>5. /\ UNCHANGED <<scene, polling, roomsShown, alert, quitPending, blocks, stale>>
      /\ ipFresh' \in BOOLEAN
  BY <1>1 DEF HttpAnswers, HttpFails, TypeOK, AppTypeOK, ServerTypeOK, NetTypeOK
<1>6. TypeOK'
  <2>1. AppTypeOK'
    BY <1>1, <1>2, <1>3, <1>4, <1>5 DEF TypeOK, AppTypeOK
  <2>2. ServerTypeOK'
    BY <1>1, <1>2, <1>3, <1>4, <1>5 DEF TypeOK, ServerTypeOK
  <2>3. NetTypeOK'
    BY <1>1, <1>2, <1>3, <1>4, <1>5 DEF TypeOK, NetTypeOK
  <2> QED
    BY <2>1, <2>2, <2>3 DEF TypeOK
<1>7. Subscribed'
  BY <1>3 DEF Subscribed
<1>8. OneRoomAnswerCounts'
  BY <1>5 DEF Safe, OneRoomAnswerCounts
<1> QED
  BY <1>6, <1>7, <1>8 DEF Safe

\* The one step that makes a game: it subscribes it to everything.
LEMMA AcceptedSafe == ASSUME Safe, Accepted PROVE Safe'
<1>1. CASE "serverConnected" \in blocks
  <2>1. /\ blocks' = ((blocks \ {"serverConnected"}) \cup {"roomsInfo"}) \cup GameBlocks
        /\ stale' = stale \ {"roomsInfo"} /\ link' = "up"
        /\ roomsAsked' = TRUE /\ gameOnLink' = TRUE /\ announced' = FALSE
        /\ polling' = (scene = "lobby")
    BY <1>1 DEF Accepted, CreateNewGame
  <2>2. "roomConnected" \notin GameBlocks /\ GameBlocks \subseteq Blocks /\ "roomsInfo" \in Blocks
    BY DEF GameBlocks, PerLink, Blocks
  <2>3. AppTypeOK'
    BY <2>1, <2>2 DEF Safe, TypeOK, AppTypeOK, Accepted, Links
  <2>4. ServerTypeOK'
    BY <2>1, <2>2 DEF Safe, TypeOK, ServerTypeOK, Accepted, Links
  <2>5. NetTypeOK'
    BY <2>1, <2>2 DEF Safe, TypeOK, NetTypeOK, Accepted, Links
  <2>6. Subscribed' /\ OneRoomAnswerCounts'
    BY <2>1, <2>2 DEF Safe, Subscribed, OneRoomAnswerCounts, Accepted, Links
  <2> QED
    BY <2>3, <2>4, <2>5, <2>6 DEF Safe, TypeOK
<1>2. CASE "serverConnected" \notin blocks
  <2>1. AppTypeOK'
    BY <1>2 DEF Safe, TypeOK, AppTypeOK, Accepted, Links
  <2>2. ServerTypeOK'
    BY <1>2 DEF Safe, TypeOK, ServerTypeOK, Accepted, Links
  <2>3. NetTypeOK'
    BY <1>2 DEF Safe, TypeOK, NetTypeOK, Accepted, Links
  <2>4. Subscribed' /\ OneRoomAnswerCounts'
    BY <1>2 DEF Safe, Subscribed, OneRoomAnswerCounts, Accepted, Links
  <2> QED
    BY <2>1, <2>2, <2>3, <2>4 DEF Safe, TypeOK
<1> QED
  BY <1>1, <1>2

\* A failed attempt drops a callback no game needs.
LEMMA AttemptFailedSafe == ASSUME Safe, AttemptFailed PROVE Safe'
<1>1. "serverConnected" \notin GameBlocks
  BY DEF GameBlocks, PerLink
<1>2. AppTypeOK'
  BY <1>1 DEF Safe, TypeOK, AppTypeOK, AttemptFailed, netVars, Links
<1>3. ServerTypeOK'
  BY <1>1 DEF Safe, TypeOK, ServerTypeOK, AttemptFailed, netVars, Links
<1>4. NetTypeOK'
  BY <1>1 DEF Safe, TypeOK, NetTypeOK, AttemptFailed, netVars, Links
<1>5. Subscribed' /\ OneRoomAnswerCounts'
  BY <1>1 DEF Safe, Subscribed, OneRoomAnswerCounts, AttemptFailed, netVars, Links
<1> QED
  BY <1>2, <1>3, <1>4, <1>5 DEF Safe, TypeOK

\* A refusal changes the state of the peer only, which was not up.
LEMMA RefusedSafe == ASSUME Safe, Refused PROVE Safe'
<1>1. /\ UNCHANGED <<appVars, failure, blocks, stale, serverIp, ipFresh, netVars>>
      /\ link # "up" /\ link' \in Links
  BY DEF Refused, Links
<1>2. AppTypeOK'
  BY <1>1 DEF Safe, TypeOK, AppTypeOK, appVars
<1>3. ServerTypeOK'
  BY <1>1 DEF Safe, TypeOK, ServerTypeOK
<1>4. NetTypeOK'
  BY <1>1 DEF Safe, TypeOK, NetTypeOK, netVars
<1>5. Subscribed' /\ OneRoomAnswerCounts'
  BY <1>1 DEF Safe, Subscribed, OneRoomAnswerCounts, appVars, netVars
<1> QED
  BY <1>2, <1>3, <1>4, <1>5 DEF Safe, TypeOK

\* The age of the address concerns nobody until a peer is needed.
LEMMA IpExpiresSafe == ASSUME Safe, IpExpires PROVE Safe'
<1>1. AppTypeOK'
  BY DEF Safe, TypeOK, AppTypeOK, IpExpires, netVars, appVars
<1>2. ServerTypeOK'
  BY DEF Safe, TypeOK, ServerTypeOK, IpExpires, netVars, appVars
<1>3. NetTypeOK'
  BY DEF Safe, TypeOK, NetTypeOK, IpExpires, netVars, appVars
<1>4. Subscribed' /\ OneRoomAnswerCounts'
  BY DEF Safe, Subscribed, OneRoomAnswerCounts, IpExpires, netVars, appVars
<1> QED
  BY <1>1, <1>2, <1>3, <1>4 DEF Safe, TypeOK

\* Losing the peer costs no callback of the lobby.
LEMMA DisconnectedType ==
    ASSUME TypeOK
    PROVE  Disconnected \subseteq blocks /\ stale \subseteq Disconnected
BY DEF TypeOK, AppTypeOK, ServerTypeOK, NetTypeOK, Disconnected, PerLink

\* The callbacks that are dropped belong to a game that no longer has a peer.
LEMMA ConnectionLostSafe == ASSUME Safe, ConnectionLost PROVE Safe'
<1>1. /\ roomsAsked' = FALSE /\ roomAsked' = 0 /\ inRoom' = FALSE /\ told' = FALSE
      /\ gameOnLink' = FALSE /\ roomAsked' \in 0..MaxTaps
  BY NothingUnderWayType DEF ConnectionLost
<1>2. Disconnected \subseteq blocks /\ stale \subseteq Disconnected
  BY DisconnectedType DEF Safe
<1>3. TypeOK'
  <2>1. AppTypeOK'
    BY <1>1, <1>2 DEF Safe, TypeOK, AppTypeOK, ConnectionLost, appVars, Links
  <2>2. ServerTypeOK'
    BY <1>1, <1>2 DEF Safe, TypeOK, ServerTypeOK, ConnectionLost, appVars, Links
  <2>3. NetTypeOK'
    BY <1>1, <1>2 DEF Safe, TypeOK, NetTypeOK, ConnectionLost, appVars, Links
  <2> QED
    BY <2>1, <2>2, <2>3 DEF TypeOK
<1>4. Subscribed'
  BY <1>1 DEF Subscribed
<1>5. OneRoomAnswerCounts'
  BY <1>2 DEF Safe, OneRoomAnswerCounts, ConnectionLost, appVars
<1> QED
  BY <1>3, <1>4, <1>5 DEF Safe

-----------------------------------------------------------------------------
(* Asking for the rooms.                                                    *)

\* _requestState, whoever calls it, from the running lobby or a later scene.
LEMMA RequestStateSafe ==
    ASSUME Safe, RequestState, polling' \in BOOLEAN, alert' \in {"none", "open", "orphaned"},
           UNCHANGED <<scene, roomsShown, quitPending, serverIp, ipFresh, httpPending>>
    PROVE  Safe'
<1>1. TypeOK /\ "roomsInfo" \in Blocks
  BY DEF Safe, Blocks
<1>2. CASE IsConnected
  <2>1. AppTypeOK'
    BY <1>1, <1>2 DEF Safe, TypeOK, AppTypeOK, RequestState
  <2>2. ServerTypeOK'
    BY <1>1, <1>2 DEF Safe, TypeOK, ServerTypeOK, RequestState
  <2>3. NetTypeOK'
    BY <1>1, <1>2 DEF Safe, TypeOK, NetTypeOK, RequestState
  <2>4. Subscribed' /\ OneRoomAnswerCounts'
    BY <1>1, <1>2 DEF Safe, Subscribed, OneRoomAnswerCounts, RequestState
  <2> QED
    BY <2>1, <2>2, <2>3, <2>4 DEF Safe, TypeOK
<1>3. CASE ~IsConnected /\ ipFresh
  <2>1. ConnectToServer(blocks \ {"serverConnected"}, serverIp, scene = "lobby")
    BY <1>3 DEF RequestState
  <2>2. /\ roomsAsked' = FALSE /\ roomAsked' = 0 /\ inRoom' = FALSE /\ told' = FALSE
        /\ gameOnLink' = FALSE /\ announced' = announced
        /\ link' \in Links /\ returning' \in BOOLEAN /\ failure' \in Failures
        /\ roomAsked' \in 0..MaxTaps
    BY <1>1, <2>1, ConnectToServerType
  <2>3. /\ blocks' = (blocks \ {"serverConnected"}) \cup {"roomsInfo"}
        /\ stale' = stale \ {"roomsInfo"}
    BY <1>3 DEF RequestState
  <2>4. TypeOK'
    <3>1. AppTypeOK'
      BY <1>1, <1>3, <2>2, <2>3 DEF TypeOK, AppTypeOK
    <3>2. ServerTypeOK'
      BY <1>1, <1>3, <2>2, <2>3 DEF TypeOK, ServerTypeOK
    <3>3. NetTypeOK'
      BY <1>1, <1>3, <2>2, <2>3 DEF TypeOK, NetTypeOK
    <3> QED
      BY <3>1, <3>2, <3>3 DEF TypeOK
  <2>5. Subscribed'
    BY <2>2 DEF Subscribed
  <2>6. OneRoomAnswerCounts'
    BY <2>3 DEF Safe, OneRoomAnswerCounts
  <2> QED
    BY <2>4, <2>5, <2>6 DEF Safe
<1>4. CASE ~IsConnected /\ ~ipFresh
  <2>1. AppTypeOK'
    BY <1>4 DEF Safe, TypeOK, AppTypeOK, RequestState, Failures
  <2>2. ServerTypeOK'
    BY <1>4 DEF Safe, TypeOK, ServerTypeOK, RequestState, Failures
  <2>3. NetTypeOK'
    BY <1>4 DEF Safe, TypeOK, NetTypeOK, RequestState, Failures
  <2>4. Subscribed' /\ OneRoomAnswerCounts'
    BY <1>4 DEF Safe, Subscribed, OneRoomAnswerCounts, RequestState, Failures
  <2> QED
    BY <2>1, <2>2, <2>3, <2>4 DEF Safe, TypeOK
<1> QED
  BY <1>2, <1>3, <1>4

\* The poll is RequestState and leaves the rest.
LEMMA PollTimerSafe == ASSUME Safe, PollTimer PROVE Safe'
<1>1. polling' \in BOOLEAN /\ alert' \in {"none", "open", "orphaned"}
  BY DEF Safe, TypeOK, AppTypeOK, ServerTypeOK, NetTypeOK, PollTimer
<1> QED
  BY <1>1, RequestStateSafe DEF PollTimer

\* So is Refresh, unless its lobby is gone.
LEMMA AlertRefreshSafe == ASSUME Safe, AlertRefresh PROVE Safe'
<1>1. CASE alert = "open"
  <2>1. polling' \in BOOLEAN /\ alert' \in {"none", "open", "orphaned"}
    BY <1>1 DEF Safe, TypeOK, AppTypeOK, ServerTypeOK, NetTypeOK, AlertRefresh
  <2> QED
    BY <1>1, <2>1, RequestStateSafe DEF AlertRefresh
<1>2. CASE alert = "orphaned"
  <2>1. Fail("freedLobby") /\ "freedLobby" \in Failures
    BY <1>2 DEF AlertRefresh, Failures
  <2> QED
    BY <2>1, FailSafe
<1> QED
  BY <1>1, <1>2 DEF AlertRefresh

\* The list of rooms changes the menus only.
LEMMA RoomsInfoSafe == ASSUME Safe, RoomsInfo PROVE Safe'
<1>1. AppTypeOK'
  BY DEF Safe, TypeOK, AppTypeOK, RoomsInfo, serverVars
<1>2. ServerTypeOK'
  BY DEF Safe, TypeOK, ServerTypeOK, RoomsInfo, serverVars
<1>3. NetTypeOK'
  BY DEF Safe, TypeOK, NetTypeOK, RoomsInfo, serverVars
<1>4. Subscribed' /\ OneRoomAnswerCounts'
  BY DEF Safe, Subscribed, OneRoomAnswerCounts, RoomsInfo, serverVars
<1> QED
  BY <1>1, <1>2, <1>3, <1>4 DEF Safe, TypeOK

-----------------------------------------------------------------------------
(* Entering a room, and leaving it.                                         *)

\* The only step that registers a room callback, and never in a game.
LEMMA SelectRoomSafe == ASSUME Safe, SelectRoom PROVE Safe'
<1>1. CASE ~IsConnected
  <2>1. Fail("nilPeer") /\ "nilPeer" \in Failures
    BY <1>1 DEF SelectRoom, Failures
  <2> QED
    BY <2>1, FailSafe
<1>2. CASE IsConnected
  <2>1. scene = "lobby" /\ roomAsked' \in 0..MaxTaps /\ "roomConnected" \in Blocks
    BY <1>2, SessionAssumption
       DEF Safe, TypeOK, AppTypeOK, ServerTypeOK, NetTypeOK, SelectRoom, Blocks
  <2>2. roomAsked' # 0 => roomAsked # 0 \/ link = "up"
    BY <1>2 DEF SelectRoom
  <2>3. AppTypeOK'
    BY <1>2, <2>1, <2>2 DEF Safe, TypeOK, AppTypeOK, SelectRoom, appVars
  <2>4. ServerTypeOK'
    BY <1>2, <2>1, <2>2 DEF Safe, TypeOK, ServerTypeOK, SelectRoom, appVars
  <2>5. NetTypeOK'
    BY <1>2, <2>1, <2>2 DEF Safe, TypeOK, NetTypeOK, SelectRoom, appVars
  <2>6. Subscribed' /\ OneRoomAnswerCounts'
    BY <1>2, <2>1, <2>2 DEF Safe, Subscribed, OneRoomAnswerCounts, SelectRoom, appVars
  <2> QED
    BY <2>3, <2>4, <2>5, <2>6 DEF Safe, TypeOK
<1> QED
  BY <1>1, <1>2

\* The answer that enters the game takes the room callback with it.
LEMMA RoomResultSafe == ASSUME Safe, NEW ok \in BOOLEAN, RoomResult(ok) PROVE Safe'
<1>1. roomAsked' \in 0..MaxTaps
  BY SessionAssumption DEF Safe, TypeOK, AppTypeOK, ServerTypeOK, NetTypeOK, RoomResult
<1>2. /\ blocks' = blocks \ {"roomsInfo", "roomConnected"}
      /\ "roomsInfo" \notin GameBlocks /\ "roomConnected" \notin GameBlocks
  BY DEF RoomResult, AfterRoomResult, GameBlocks, PerLink
<1>3. /\ scene' \in Scenes /\ polling' \in BOOLEAN /\ returning' \in BOOLEAN
      /\ alert' \in {"none", "open", "orphaned"}
  BY DEF Safe, TypeOK, AppTypeOK, ServerTypeOK, NetTypeOK, RoomResult, LeaveFor, Scenes
<1>4. AppTypeOK'
  BY <1>1, <1>2, <1>3 DEF Safe, TypeOK, AppTypeOK, RoomResult
<1>5. ServerTypeOK'
  BY <1>1, <1>2, <1>3 DEF Safe, TypeOK, ServerTypeOK, RoomResult
<1>6. NetTypeOK'
  BY <1>1, <1>2, <1>3 DEF Safe, TypeOK, NetTypeOK, RoomResult
<1>7. Subscribed' /\ OneRoomAnswerCounts'
  BY <1>1, <1>2, <1>3 DEF Safe, Subscribed, OneRoomAnswerCounts, RoomResult
<1> QED
  BY <1>4, <1>5, <1>6, <1>7 DEF Safe, TypeOK

\* Being told of the players changes nothing the server relies on.
LEMMA WaitingPlayersSafe == ASSUME Safe, WaitingPlayers PROVE Safe'
<1>1. AppTypeOK'
  BY DEF Safe, TypeOK, AppTypeOK, WaitingPlayers, appVars, serverVars
<1>2. ServerTypeOK'
  BY DEF Safe, TypeOK, ServerTypeOK, WaitingPlayers, appVars, serverVars
<1>3. NetTypeOK'
  BY DEF Safe, TypeOK, NetTypeOK, WaitingPlayers, appVars, serverVars
<1>4. Subscribed' /\ OneRoomAnswerCounts'
  BY DEF Safe, Subscribed, OneRoomAnswerCounts, WaitingPlayers, appVars, serverVars
<1> QED
  BY <1>1, <1>2, <1>3, <1>4 DEF Safe, TypeOK

\* The running scene is replaced, by one that is not a game.
LEMMA LeaveForType ==
    ASSUME TypeOK, NEW next \in Scenes, LeaveFor(next)
    PROVE  /\ scene' = next /\ polling' = FALSE /\ returning' = FALSE
           /\ alert' \in {"none", "open", "orphaned"}
BY DEF TypeOK, AppTypeOK, ServerTypeOK, NetTypeOK, LeaveFor

\* The result gives up the peer and, with it, the game's subscriptions.
LEMMA GameOverSafe == ASSUME Safe, GameOver PROVE Safe'
<1>1. CASE ~announced
  <2>1. Fail("unknownPlayer") /\ "unknownPlayer" \in Failures
    BY <1>1 DEF GameOver, Failures
  <2> QED
    BY <2>1, FailSafe
<1>2. CASE announced
  <2>1. /\ roomsAsked' = FALSE /\ roomAsked' = 0 /\ inRoom' = FALSE /\ told' = FALSE
        /\ gameOnLink' = FALSE /\ roomAsked' \in 0..MaxTaps
    BY <1>2, NothingUnderWayType DEF GameOver
  <2>2. /\ blocks' = Disconnected \ {"playerDisconnected"}
        /\ Disconnected \subseteq blocks /\ stale \subseteq Disconnected
    BY <1>2, DisconnectedType DEF Safe, GameOver
  <2>3. /\ scene' = "result" /\ polling' = FALSE /\ returning' = FALSE
        /\ alert' \in {"none", "open", "orphaned"} /\ "result" \in Scenes
    BY <1>2, LeaveForType DEF Safe, GameOver, Scenes
  <2>4. TypeOK'
    <3>1. AppTypeOK'
      BY <1>2, <2>1, <2>2, <2>3 DEF Safe, TypeOK, AppTypeOK, GameOver, Links
    <3>2. ServerTypeOK'
      BY <1>2, <2>1, <2>2, <2>3 DEF Safe, TypeOK, ServerTypeOK, GameOver, Links
    <3>3. NetTypeOK'
      BY <1>2, <2>1, <2>2, <2>3 DEF Safe, TypeOK, NetTypeOK, GameOver, Links
    <3> QED
      BY <3>1, <3>2, <3>3 DEF TypeOK
  <2>5. Subscribed'
    BY <2>1 DEF Subscribed
  <2>6. OneRoomAnswerCounts'
    BY <2>3 DEF OneRoomAnswerCounts
  <2> QED
    BY <2>4, <2>5, <2>6 DEF Safe
<1> QED
  BY <1>1, <1>2 DEF GameOver

\* The three ways to the home scene.
LEMMA LeaveSafe == ASSUME Safe, UserQuits \/ ReturnToMenu \/ LeaveResult PROVE Safe'
<1>1. /\ scene' = "home" /\ polling' = FALSE /\ returning' = FALSE
      /\ alert' \in {"none", "open", "orphaned"} /\ "home" \in Scenes
  BY LeaveForType DEF Safe, UserQuits, ReturnToMenu, LeaveResult, Scenes
<1>2. UNCHANGED <<roomsShown, failure, serverVars, netVars>> /\ quitPending' \in BOOLEAN
  BY DEF Safe, TypeOK, AppTypeOK, ServerTypeOK, NetTypeOK, UserQuits, ReturnToMenu,
         LeaveResult
<1>3. AppTypeOK'
  BY <1>1, <1>2 DEF Safe, TypeOK, AppTypeOK, serverVars, netVars
<1>4. ServerTypeOK'
  BY <1>1, <1>2 DEF Safe, TypeOK, ServerTypeOK, serverVars, netVars
<1>5. NetTypeOK'
  BY <1>1, <1>2 DEF Safe, TypeOK, NetTypeOK, serverVars, netVars
<1>6. Subscribed' /\ OneRoomAnswerCounts'
  BY <1>1, <1>2 DEF Safe, Subscribed, OneRoomAnswerCounts, serverVars, netVars
<1> QED
  BY <1>3, <1>4, <1>5, <1>6 DEF Safe, TypeOK

\* quit, 0.2 s later, does the same.
LEMMA DelayedDisconnectSafe == ASSUME Safe, DelayedDisconnect PROVE Safe'
<1>1. CASE IsConnected
  <2>1. /\ roomsAsked' = FALSE /\ roomAsked' = 0 /\ inRoom' = FALSE /\ told' = FALSE
        /\ gameOnLink' = FALSE /\ roomAsked' \in 0..MaxTaps
    BY <1>1, NothingUnderWayType DEF DelayedDisconnect
  <2>2. Disconnected \subseteq blocks /\ stale \subseteq Disconnected
    BY DisconnectedType DEF Safe
  <2>3. TypeOK'
    <3>1. AppTypeOK'
      BY <1>1, <2>1, <2>2 DEF Safe, TypeOK, AppTypeOK, DelayedDisconnect, Links
    <3>2. ServerTypeOK'
      BY <1>1, <2>1, <2>2 DEF Safe, TypeOK, ServerTypeOK, DelayedDisconnect, Links
    <3>3. NetTypeOK'
      BY <1>1, <2>1, <2>2 DEF Safe, TypeOK, NetTypeOK, DelayedDisconnect, Links
    <3> QED
      BY <3>1, <3>2, <3>3 DEF TypeOK
  <2>4. Subscribed'
    BY <2>1 DEF Subscribed
  <2>5. OneRoomAnswerCounts'
    BY <1>1, <2>2 DEF Safe, OneRoomAnswerCounts, DelayedDisconnect
  <2> QED
    BY <2>3, <2>4, <2>5 DEF Safe
<1>2. CASE ~IsConnected
  <2>1. TypeOK'
    <3>1. AppTypeOK'
      BY <1>2 DEF Safe, TypeOK, AppTypeOK, DelayedDisconnect
    <3>2. ServerTypeOK'
      BY <1>2 DEF Safe, TypeOK, ServerTypeOK, DelayedDisconnect
    <3>3. NetTypeOK'
      BY <1>2 DEF Safe, TypeOK, NetTypeOK, DelayedDisconnect
    <3> QED
      BY <3>1, <3>2, <3>3 DEF TypeOK
  <2>2. Subscribed' /\ OneRoomAnswerCounts'
    BY <1>2 DEF Safe, Subscribed, OneRoomAnswerCounts, DelayedDisconnect
  <2> QED
    BY <2>1, <2>2 DEF Safe
<1> QED
  BY <1>1, <1>2

-----------------------------------------------------------------------------

\* One case for each action of Next.
LEMMA NextSafe == Safe /\ [Next]_vars => Safe'
<1> SUFFICES ASSUME Safe, [Next]_vars PROVE Safe'
  OBVIOUS
<1>1. CASE OpenLobby
  BY <1>1, OpenLobbySafe
<1>2. CASE (\E ip \in {"good", "garbage"} : HttpAnswers(ip)) \/ HttpFails
  BY <1>2, HttpSafe
<1>3. CASE IpExpires
  BY <1>3, IpExpiresSafe
<1>4. CASE Accepted \/ AttemptFailed \/ Refused \/ ConnectionLost
  BY <1>4, AcceptedSafe, AttemptFailedSafe, RefusedSafe, ConnectionLostSafe
<1>5. CASE PollTimer \/ AlertRefresh \/ RoomsInfo
  BY <1>5, PollTimerSafe, AlertRefreshSafe, RoomsInfoSafe
<1>6. CASE SelectRoom \/ \E ok \in BOOLEAN : RoomResult(ok)
  BY <1>6, SelectRoomSafe, RoomResultSafe
<1>7. CASE WaitingPlayers \/ GameOver
  BY <1>7, WaitingPlayersSafe, GameOverSafe
<1>8. CASE UserQuits \/ DelayedDisconnect \/ ReturnToMenu \/ LeaveResult
  BY <1>8, LeaveSafe, DelayedDisconnectSafe
<1>9. CASE UNCHANGED vars
  <2>1. AppTypeOK'
    BY <1>9 DEF Safe, TypeOK, AppTypeOK, vars, appVars, serverVars, netVars
  <2>2. ServerTypeOK'
    BY <1>9 DEF Safe, TypeOK, ServerTypeOK, vars, appVars, serverVars, netVars
  <2>3. NetTypeOK'
    BY <1>9 DEF Safe, TypeOK, NetTypeOK, vars, appVars, serverVars, netVars
  <2>4. Subscribed' /\ OneRoomAnswerCounts'
    BY <1>9 DEF Safe, Subscribed, OneRoomAnswerCounts, vars, appVars, serverVars, netVars
  <2> QED
    BY <2>1, <2>2, <2>3, <2>4 DEF Safe, TypeOK
<1> QED
  BY <1>1, <1>2, <1>3, <1>4, <1>5, <1>6, <1>7, <1>8, <1>9 DEF Next

\* The session never leaves its states, however its parties interleave.
THEOREM SessionSafe == Spec => []Safe
BY InitSafe, NextSafe, PTL DEF Spec

\* Every variable of Server and LobbyScene keeps its range, and requests are
\* only under way on a peer that is up.
THEOREM SessionType == Spec => []TypeOK
<1>1. Safe => TypeOK
  BY DEF Safe
<1> QED
  BY <1>1, SessionSafe, PTL

\* disconnect and the other handlers take no callback away from a game that
\* was created on the present connection.
THEOREM GameSubscribed == Spec => []GameHearsItsServer
<1>1. Safe => GameHearsItsServer
  BY DEF Safe, Subscribed, GameHearsItsServer
<1> QED
  BY <1>1, SessionSafe, PTL

\* However many rooms are tapped, a running game is not started again.
THEOREM GameStartsOnce == Spec => []OneRoomAnswerCounts
<1>1. Safe => OneRoomAnswerCounts
  BY DEF Safe
<1> QED
  BY <1>1, SessionSafe, PTL

-----------------------------------------------------------------------------
(* What a lobby that shows "Connecting..." waits for.                       *)

\* An address or a connection is on its way and the lobby would be told, or the
\* attempt has ended with a packet that listen tells nobody of.
WaitingHasACause ==
    LobbyWaits /\ Running =>
        "serverConnected" \in blocks /\ (httpPending > 0 \/ link = "connecting" \/ Unheard)

\* Such a lobby has shown nothing yet, and no callback is its own but that one.
NothingShown ==
    LobbyWaits => ~roomsShown /\ alert # "open" /\ blocks \cap {"roomsInfo", "roomConnected"} \subseteq stale

\* A game that was quit is disconnected before the next lobby opens.
QuitIsOver == scene = "lobby" => ~quitPending

Waiting == WaitingHasACause /\ NothingShown /\ QuitIsOver

\* A new peer that is not on its way has told the lobby so.
LEMMA ConnectToServerWaits ==
    ASSUME WaitingHasACause, NEW ip, LobbyWaits, Running,
           ConnectToServer(blocks, ip, scene = "lobby")
    PROVE  failure' = failure /\ (link' = "connecting" \/ returning')
BY DEF WaitingHasACause, LobbyWaits, ConnectToServer

\* "Play": one of the two is on its way at once.
LEMMA OpenLobbyWaits == ASSUME Safe, OpenLobby PROVE Waiting'
<1>1. /\ scene' = "lobby" /\ ~roomsShown' /\ alert' = "none" /\ ~quitPending'
      /\ blocks' = blocks \cup {"serverConnected"}
      /\ stale' = blocks \cap {"roomsInfo", "roomConnected"}
  BY DEF OpenLobby, Touch
<1>2. NothingShown' /\ QuitIsOver'
  BY <1>1 DEF NothingShown, QuitIsOver
<1>3. CASE ipFresh /\ ConnectToServer(blocks', serverIp, TRUE) /\ UNCHANGED httpPending
  <2>1. link' = "connecting" \/ returning'
    BY <1>1, <1>3 DEF ConnectToServer
  <2> QED
    BY <1>1, <1>2, <2>1 DEF Waiting, WaitingHasACause, LobbyWaits
<1>4. CASE httpPending' = httpPending + 1
  <2>1. httpPending' > 0
    BY <1>4, SessionAssumption DEF Safe, TypeOK, NetTypeOK
  <2> QED
    BY <1>1, <1>2, <2>1 DEF Waiting, WaitingHasACause, LobbyWaits
<1> QED
  BY <1>3, <1>4 DEF OpenLobby

\* The address, or the default one, is tried at once.
LEMMA HttpWaits ==
    ASSUME Safe, Waiting, (\E ip \in {"good", "garbage"} : HttpAnswers(ip)) \/ HttpFails
    PROVE  Waiting'
<1>1. PICK ip : ConnectToServer(blocks, ip, scene = "lobby")
  BY DEF HttpAnswers, HttpFails
<1>2. UNCHANGED <<scene, polling, roomsShown, alert, quitPending, blocks, stale>> /\ Running
  BY DEF HttpAnswers, HttpFails
<1>3. LobbyWaits' => LobbyWaits
  BY <1>1, <1>2 DEF LobbyWaits, ConnectToServer
<1>4. WaitingHasACause'
  BY <1>1, <1>2, <1>3, ConnectToServerWaits DEF Waiting, WaitingHasACause, LobbyWaits
<1> QED
  BY <1>2, <1>3, <1>4 DEF Waiting, NothingShown, QuitIsOver

\* The attempt to connect ends with a call of the callback, or unheard.
LEMMA AttemptWaits ==
    ASSUME Safe, Waiting, Accepted \/ AttemptFailed \/ Refused \/ ConnectionLost
    PROVE  Waiting'
<1>1. CASE Accepted
  <2>1. ~LobbyWaits'
    <3>1. CASE "serverConnected" \in blocks
      <4>1. polling' = (scene = "lobby") /\ scene' = scene
        BY <1>1, <3>1 DEF Accepted
      <4>2. scene' = "lobby" => polling'
        BY <4>1, Zenon
      <4> QED
        BY <4>2 DEF LobbyWaits
    <3>2. CASE "serverConnected" \notin blocks
      <4>1. ~LobbyWaits
        BY <1>1, <3>2 DEF Waiting, WaitingHasACause, Accepted, Listening
      <4> QED
        BY <1>1, <3>2, <4>1 DEF LobbyWaits, Accepted
    <3> QED
      BY <3>1, <3>2
  <2> QED
    BY <1>1, <2>1 DEF Waiting, WaitingHasACause, NothingShown, QuitIsOver, Accepted
<1>2. CASE AttemptFailed
  <2>1. ~LobbyWaits'
    BY <1>2 DEF Waiting, WaitingHasACause, LobbyWaits, AttemptFailed, Listening, TellsOfFailure,
                Safe, TypeOK, AppTypeOK
  <2> QED
    BY <1>2, <2>1 DEF Waiting, WaitingHasACause, NothingShown, QuitIsOver, AttemptFailed
<1>3. CASE Refused \/ ConnectionLost
  <2>1. /\ UNCHANGED <<appVars, failure, stale, httpPending>>
        /\ link = "connecting" => Unheard'
        /\ ~Unheard
        /\ blocks' \subseteq blocks /\ ("serverConnected" \in blocks => "serverConnected" \in blocks')
    BY <1>3 DEF Refused, ConnectionLost, Disconnected, PerLink, netVars, Unheard
  <2> QED
    BY <2>1 DEF Waiting, WaitingHasACause, NothingShown, QuitIsOver, LobbyWaits, Running, appVars
<1> QED
  BY <1>1, <1>2, <1>3

\* Only a lobby that has been told polls, refreshes, or shows rooms to tap.
LEMMA AskingWaits ==
    ASSUME Safe, Waiting, PollTimer \/ AlertRefresh \/ RoomsInfo \/ SelectRoom
    PROVE  Waiting'
<1>1. RequestState => returning' = returning \/ returning' = (scene = "lobby")
  BY DEF RequestState, ConnectToServer
<1>2. CASE PollTimer
  <2>1. ~LobbyWaits'
    BY <1>2 DEF PollTimer, LobbyWaits
  <2> QED
    BY <1>2, <2>1 DEF Waiting, WaitingHasACause, NothingShown, QuitIsOver, PollTimer
<1>3. CASE AlertRefresh /\ alert = "open"
  <2>1. ~LobbyWaits'
    <3>1. ~LobbyWaits /\ RequestState /\ UNCHANGED <<scene, polling>>
      BY <1>3 DEF AlertRefresh, Waiting, NothingShown
    <3>2. returning' = (scene = "lobby") => (scene = "lobby" => returning')
      BY Zenon
    <3> QED
      BY <1>1, <3>1, <3>2 DEF LobbyWaits
  <2> QED
    BY <1>3, <2>1 DEF Waiting, WaitingHasACause, NothingShown, QuitIsOver, AlertRefresh
<1>4. ASSUME NEW why \in Failures \ {"none"}, Fail(why)
      PROVE  Waiting'
  BY <1>4 DEF Fail, Waiting, WaitingHasACause, NothingShown, QuitIsOver, LobbyWaits, Running,
              appVars, serverVars, netVars
<1>5. CASE AlertRefresh /\ alert # "open"
  <2>1. Fail("freedLobby") /\ "freedLobby" \in Failures \ {"none"}
    BY <1>5 DEF AlertRefresh, Failures
  <2> QED
    BY <1>4, <2>1
<1>6. CASE RoomsInfo
  BY <1>6 DEF RoomsInfo, Waiting, WaitingHasACause, NothingShown, QuitIsOver, LobbyWaits, Running,
              serverVars, Unheard
<1>7. CASE SelectRoom
  <2>1. CASE Fail("nilPeer")
    BY <1>4, <2>1 DEF Failures
  <2>2. CASE UNCHANGED appVars /\ ~Fail("nilPeer")
    <3>1. ~LobbyWaits'
      BY <1>7, <2>2 DEF SelectRoom, LobbyWaits, Waiting, NothingShown, appVars
    <3> QED
      BY <2>2, <3>1 DEF Waiting, WaitingHasACause, NothingShown, QuitIsOver, appVars
  <2> QED
    BY <1>7, <2>1, <2>2 DEF SelectRoom
<1> QED
  BY <1>2, <1>3, <1>5, <1>6, <1>7

\* What happens in a room, or leads out of one, concerns no lobby that waits.
LEMMA RoomWaits ==
    ASSUME Safe, Waiting,
           \/ \E ok \in BOOLEAN : RoomResult(ok)
           \/ WaitingPlayers \/ GameOver
           \/ UserQuits \/ DelayedDisconnect \/ ReturnToMenu \/ LeaveResult
    PROVE  Waiting'
<1>1. ASSUME scene' # "lobby"
      PROVE  Waiting'
  BY <1>1 DEF Waiting, WaitingHasACause, NothingShown, QuitIsOver, LobbyWaits
<1>2. ASSUME NEW ok \in BOOLEAN, RoomResult(ok)
      PROVE  Waiting'
  <2>1. CASE scene' = "game"
    BY <1>1, <2>1
  <2>2. CASE scene' # "game"
    <3>1. UNCHANGED <<scene, polling, returning, roomsShown, quitPending, failure, link, httpPending>>
      BY <1>2, <2>2 DEF RoomResult, LeaveFor
    <3>2. /\ blocks' = blocks \ {"roomsInfo", "roomConnected"}
          /\ alert' # "open" \/ alert' = alert \/ "roomConnected" \in blocks \ stale
      BY <1>2, <2>2 DEF RoomResult, AfterRoomResult, LeaveFor
    <3> QED
      BY <3>1, <3>2 DEF Waiting, WaitingHasACause, NothingShown, QuitIsOver, LobbyWaits, Running,
                      Unheard
  <2> QED
    BY <2>1, <2>2
<1>3. CASE WaitingPlayers
  BY <1>3 DEF WaitingPlayers, Waiting, WaitingHasACause, NothingShown, QuitIsOver, LobbyWaits,
              Running, appVars, serverVars, Unheard
<1>4. CASE GameOver
  <2>1. CASE Fail("unknownPlayer")
    BY <2>1 DEF Fail, Waiting, WaitingHasACause, NothingShown, QuitIsOver, LobbyWaits, Running,
                appVars, serverVars, netVars
  <2>2. CASE scene' = "result"
    BY <1>1, <2>2
  <2> QED
    BY <1>4, <2>1, <2>2 DEF GameOver, LeaveFor
<1>5. CASE UserQuits \/ ReturnToMenu \/ LeaveResult
  BY <1>1, <1>5 DEF UserQuits, ReturnToMenu, LeaveResult, LeaveFor
<1>6. CASE DelayedDisconnect
  BY <1>1, <1>6 DEF DelayedDisconnect, Waiting, QuitIsOver
<1> QED
  BY <1>2, <1>3, <1>4, <1>5, <1>6

LEMMA NextWaiting == Safe /\ Waiting /\ [Next]_vars => Waiting'
<1> SUFFICES ASSUME Safe, Waiting, [Next]_vars PROVE Waiting'
  OBVIOUS
<1>1. CASE IpExpires \/ UNCHANGED vars
  BY <1>1 DEF IpExpires, Waiting, WaitingHasACause, NothingShown, QuitIsOver, LobbyWaits, Running,
              vars, appVars, serverVars, netVars, Unheard
<1> QED
  BY <1>1, OpenLobbyWaits, HttpWaits, AttemptWaits, AskingWaits, RoomWaits DEF Next

LEMMA InitWaiting == Init => Waiting
BY DEF Init, Waiting, WaitingHasACause, NothingShown, QuitIsOver, LobbyWaits

LEMMA SpecWaiting == Spec => [](Safe /\ Waiting)
BY InitSafe, NextSafe, InitWaiting, NextWaiting, PTL DEF Spec

\* A lobby that shows "Connecting..." has the web server or the game server to wait
\* for, and the callback that would tell it of the answer is registered, although one
\* kind of callback serves every lobby; or its attempt ended unheard, by a refusal of
\* the server or by a disconnection before the connection was there.
THEOREM LobbyWaitsForACause == Spec => []WaitingHasACause
<1>1. Waiting => WaitingHasACause
  BY DEF Waiting
<1> QED
  BY <1>1, SpecWaiting, PTL

\* What each answer does to a lobby that waits, whichever lobby has asked for it.  That
\* of the web server leads on to a connection or back, and never into the callback of
\* nobody when the address cannot be resolved.  Of the ends of an attempt, an accepted
\* one and ID_CONNECTION_ATTEMPT_FAILED end the waiting; a refusal and a disconnection
\* leave the lobby as it was, with no attempt under way any more.
THEOREM EndsOfAnAttempt ==
    Spec => [][LobbyWaits =>
                 /\ HttpFails \/ (\E ip \in {"good", "garbage"} : HttpAnswers(ip))
                        => failure' = failure /\ (link' = "connecting" \/ returning')
                 /\ Accepted \/ AttemptFailed => polling' \/ returning'
                 /\ link = "connecting" /\ (Refused \/ ConnectionLost)
                        => LobbyWaits' /\ Unheard']_vars
<1>1. ASSUME Waiting, LobbyWaits,
             HttpFails \/ \E ip \in {"good", "garbage"} : HttpAnswers(ip)
      PROVE  failure' = failure /\ (link' = "connecting" \/ returning')
  <2>1. PICK ip : ConnectToServer(blocks, ip, scene = "lobby")
    BY <1>1 DEF HttpAnswers, HttpFails
  <2>2. Running
    BY <1>1 DEF HttpAnswers, HttpFails
  <2> QED
    BY <1>1, <2>1, <2>2, ConnectToServerWaits DEF Waiting
<1>2. ASSUME Waiting, LobbyWaits, Accepted \/ AttemptFailed
      PROVE  polling' \/ returning'
  <2>1. "serverConnected" \in blocks /\ scene = "lobby"
    BY <1>2 DEF Waiting, WaitingHasACause, LobbyWaits, Accepted, AttemptFailed, Listening, Running
  <2> QED
    BY <1>2, <2>1 DEF Accepted, AttemptFailed, TellsOfFailure
<1>3. ASSUME LobbyWaits, link = "connecting", Refused \/ ConnectionLost
      PROVE  LobbyWaits' /\ Unheard'
  BY <1>3 DEF Refused, ConnectionLost, LobbyWaits, Unheard, appVars
<1> QED
  BY <1>1, <1>2, <1>3, SpecWaiting, PTL

-----------------------------------------------------------------------------
(* What the result of a game names.                                         *)

\* The players of a room are announced on the peer that has the place in it, and
\* a controller that was made on that peer has heard of them.
PlayersHeard ==
    /\ told => link = "up"
    /\ told /\ gameOnLink => announced

LEMMA NextPlayersHeard == Safe /\ PlayersHeard /\ [Next]_vars => PlayersHeard'
<1> SUFFICES ASSUME Safe, PlayersHeard, [Next]_vars PROVE PlayersHeard'
  OBVIOUS
<1>1. ASSUME ~told'
      PROVE  PlayersHeard'
  BY <1>1 DEF PlayersHeard
<1>2. ASSUME UNCHANGED <<link, told, gameOnLink, announced>>
      PROVE  PlayersHeard'
  BY <1>2 DEF PlayersHeard
<1>3. ASSUME NEW why, Fail(why)
      PROVE  PlayersHeard'
  BY <1>2, <1>3 DEF Fail, serverVars, netVars
<1>4. CASE OpenLobby \/ HttpFails \/ \E ip \in {"good", "garbage"} : HttpAnswers(ip)
  BY <1>1, <1>2, <1>4 DEF OpenLobby, HttpFails, HttpAnswers, ConnectToServer, NothingUnderWay
<1>5. CASE Accepted \/ AttemptFailed \/ Refused
  <2>1. ~told'
    BY <1>5 DEF PlayersHeard, Accepted, AttemptFailed, Refused, netVars
  <2> QED
    BY <1>1, <2>1
<1>6. CASE ConnectionLost \/ DelayedDisconnect
  BY <1>1, <1>2, <1>6 DEF ConnectionLost, DelayedDisconnect, NothingUnderWay
<1>7. CASE PollTimer \/ AlertRefresh
  <2>1. RequestState \/ Fail("freedLobby")
    BY <1>7 DEF PollTimer, AlertRefresh
  <2> QED
    BY <1>1, <1>2, <1>3, <2>1 DEF RequestState, ConnectToServer, NothingUnderWay, PlayersHeard
<1>8. CASE SelectRoom \/ RoomsInfo \/ IpExpires \/ \E ok \in BOOLEAN : RoomResult(ok)
  BY <1>2, <1>3, <1>8 DEF SelectRoom, RoomsInfo, IpExpires, RoomResult, serverVars, netVars
<1>9. CASE WaitingPlayers
  <2>1. gameOnLink => "connectedPlayers" \in blocks
    BY DEF Safe, Subscribed, GameBlocks, PerLink
  <2> QED
    BY <1>9, <2>1 DEF PlayersHeard, WaitingPlayers, serverVars
<1>10. CASE GameOver
  BY <1>1, <1>3, <1>10 DEF GameOver, NothingUnderWay
<1>11. CASE UserQuits \/ ReturnToMenu \/ LeaveResult \/ UNCHANGED vars
  BY <1>2, <1>11 DEF UserQuits, ReturnToMenu, LeaveResult, serverVars, netVars, vars
<1> QED
  BY <1>4, <1>5, <1>6, <1>7, <1>8, <1>9, <1>10, <1>11 DEF Next

LEMMA InitPlayersHeard == Init => PlayersHeard
BY DEF Init, PlayersHeard

\* The assertion that run session_result finds violated can fail in one situation
\* only: a controller that was made on a peer before the present one.  On its own
\* peer it knows every player of the result.
THEOREM OwnResultIsKnown ==
    Spec => [][GameOver /\ gameOnLink => failure' = failure]_vars
<1>1. ASSUME PlayersHeard, GameOver, gameOnLink
      PROVE  failure' = failure
  BY <1>1 DEF PlayersHeard, GameOver
<1> QED
  BY <1>1, InitSafe, NextSafe, InitPlayersHeard, NextPlayersHeard, PTL DEF Spec

=============================================================================
