# A TLA+ model of the KOTH client

KOTH ("King of the Hill") is an iPhone game: players jump up a hill, fight on
the platform at its top, and whoever has held the platform longest when the
round is over wins. `src/KOTH/Classes` is the client, written in Objective-C on
cocos2d and RakNet. The game server and the web server that names it are not in
the repository.

Everything in the client runs on one thread, the cocos2d main loop, and yet
little of it happens in a fixed order: packets, frames, timers, asynchronous
answers and touches come as they please, callbacks are kept in a singleton, and
nothing is cancelled. That is what the modules here are about.

## The system

| Component | State it keeps | Operations | What makes it correct |
|---|---|---|---|
| **Game controller** `GameController.m` | local id, scene type, game state, `playerInfos_` (array, for board and result), `players_` (objects of the scene), `isConnecting_`, `serverUpdateDelay_` | start, quit, delayed disconnect, `update:`, one handler per packet | one leader, nobody left frozen, state and scene in step, one result, an end that is final, a board that agrees with the room |
| **Server singleton** `Server.mm` | the RakNet peer, one callback per kind of answer, cached address with an expiry time | connect, reconnect, disconnect, listen, requests | a callback is there when its answer arrives, and only then; requests go to a peer that exists |
| **Lobby** `LobbyScene.m` | menus, poll timer, return timer, alert | connection result, poll, room list, room tapped, room result | leaves "Connecting…" whenever it is told how an attempt has ended, polls every 5 s, enters one game |
| **HTTP client** `SimpleHttpClient.m` | one request | success, error, timeout | one answer per request |
| **Fighters** `Fighter.m`, `Player.m` | place, pause, freeze, hit, crash, animations | update from server, freeze, animate | no fighter left frozen; a hit and a crash end, and give the lead back; only a lonely fighter eats |
| **Jumpers** `Jumper.m`, `Player.m` | place, pause, freeze, wandering, sprites | wander, walk back, update from server, freeze, fall | one party moves the view; a wanderer stays on its platform and goes on; the right sprite is seen |
| **Game scenes, director and page turns** `GameScene.m`, `JumpScene.m`, `FightScene.m`, `EnvironmentLayer.m`, the director of cocos2d | scenes, the running and the next one, touches, one alert, objects shown | replace a scene, turn a page, enter, leave, ask, answer | one scene runs, and it shows the players; touches come back; a game that has ended is left |
| **Platforms** `Platform.mm` | table of platforms | range and position queries | nobody falls through or walks off one |
| **Result scene and scores** `GameOverScene.m`, `OpenFeintEx.mm`, `GameCenter.m` | result shown, score block | show, submit | a win is counted once |
| **Array synchronisation** `NSArrayEx.m` | — | synchronise by key | the result has the keys of the source |
| **Application delegate** `KOTHAppDelegate.m` | the window | background, foreground | a pause is followed by a resume |
| **Options, sounds, advertising, static scenes** | settings | — | — |
| **Vendored** cocos2d, RakNet, OpenFeint, Burstly | — | — | external |

### How they interact

    web server --answer--> Server <--- connect / request / send ---  LobbyScene, GameScene
    game server <-packets-> Server --- callbacks (blocks) -------->  LobbyScene, GameController
    main loop --frame-----> running scene: listen, update:           GameController
    user --touch---------> LobbyScene, EnvironmentLayer --quit---->  GameController
    GameController -replaceScene, addNewPlayersToScene-> director, JumpScene, FightScene
    GameController -setters-> Jumper, Fighter -actions, timers-> their views

* The lobby or the running game scene calls `Server.listen` once per frame. It
  handles *all* packets there are, one after the other, each through its callback.
* `createNewGame` registers seven callbacks of the game. `disconnect` drops four
  of them (`connectedPlayers`, `countdown`, `jumpInfo`, `fightInfo`) and leaves
  three; room and connection callbacks are dropped by the answers that use them.
* The controller replaces scenes, freezes and frees their objects, and
  disconnects 0.2 s after the user quits, while the scene that is turning away
  still listens.

### What is hard

Packets queued behind the end of a game; infos about players that have left;
scenes that change between freezing and freeing, or while a page turns; answers to
a lobby that is no longer there; a connection lost between two polls; callbacks
dropped at the wrong time; ends of animations and delayed calls that nothing
cancels. `PROJECT.json` lists these hazards at the lines where they bite, with the
properties that would show them going wrong or why there is none.

## The modules

| Module | Models | Extends |
|---|---|---|
| `GameController` | the controller, any server | Naturals |
| `GameController_proofs` | its theorems | `GameController`, TLAPS |
| `Round` | what a player is promised of one round | — |
| `GameMatch` | the controller, a FIFO of packets, a server that keeps an order | `GameController`, an instance of `Round` |
| `GameMatch_proofs` | the queue, the end of a game, the refinement | `GameMatch`, `GameController_proofs` |
| `GameBoard_proofs` | the board and the scene of a match | `GameMatch_proofs` |
| `LobbySession` | Server singleton, lobby, HTTP client, the ways into and out of a game | Naturals, FiniteSets |
| `LobbySession_proofs` | its theorems | `LobbySession`, TLAPS |
| `Screens` | director, page turns, scenes, alerts | Naturals, Sequences |
| `Screens_proofs` | its theorems | `Screens`, TLAPS |
| `Fighter` | one fighter on the platform | Integers |
| `Fighter_proofs` | its theorems | `Fighter`, TLAPS |
| `Jumper` | one jumper on the hill, the platforms | Integers, SequencesExt |
| `Jumper_proofs` | its theorems | `Jumper`, TLAPS |
| `MC…` | instances for TLC | |

`GameMatch` composes the controller with the network and the server. `LobbySession`,
`Screens`, `Fighter` and `Jumper` each look at one part of what the controller
touches, and reduce the controller to the calls it makes of that part.

### GameController

The variables are the fields of the class under their own names. `playerInfos`
and `players` are functions of the player id. The order of the array
`playerInfos_`, which decides ties, is kept as the set `ahead` of those that
precede a player. The list that two infos update is a set: nothing depends on its
order. Positions, names, the remaining time and punches are left out, because no
decision of this class depends on them.

| Action | Code (`GameController.m`) |
|---|---|
| `StartWithPlayerId` | `startWithPlayerId` 126-137, from an accepted room |
| `Quit`, `Disconnect` | `quit` 197-205 and `_disconnect` 224-227, 0.2 s later |
| `Update` | `update:` 207-222: counts the silence, freezes every object |
| `HandleConnectedPlayers` | 294-322, with `_detectLider` at each player that is back |
| `HandleDisconnectedPlayer` | 324-341: unknown, local, forgotten or marked |
| `HandleCountdownToGame` | 343-352 |
| `HandleJumpInfo`, `HandleFightInfo` | 354-434, 436-497, with `_switchScene`, `_updatedFromServer` and `_findAndRemoveDisconnectedPlayers` as parts (`SceneFor`, `PlayersKept`, `StillFrozen`, `SynchronizeScene`) |
| `HandleGameOverInfo` | 561-595, with its disconnection |
| `HandleServerDisconnectedEvent` | `Server.mm` 261-293 and 597-601 |

A failed `NSAssert`, a message that the class of an object does not understand
and the uninitialised pointer `localPlayerInfo` (570) are `failure`: a process
that has died does nothing more. Where 570 would read garbage but the code goes
on to a defined result, the leader flag is a nondeterministic Boolean.

`serverUpdateDelay_` is counted in frames and saturates one above
`MAX_SERVER_DELAY`, since only the comparison with that limit is ever used.

`Spec` sets no condition on the packets, so what holds under it depends on the
client alone.

### GameMatch

`GameMatch` puts the controller behind `inbox`, a queue of packets written by a
room on the server. The server is external, and this is what is assumed of it,
from how the client uses its packets:

* packets arrive once and in order (they are sent `RELIABLE_ORDERED`), except that a
  lost connection or a disconnection loses the rest;
* a player is announced (`sptWaitingPlayers`) before it is listed, and a jump or
  fight info lists the players of one scene that are connected;
* after a result, or after telling the client that it has been disconnected, the
  server is silent;
* a result lists the players in view, and, for a client that has been there since
  before the countdown, perhaps those that have left as well.

`Deliver` is one turn of the loop in `Server.listen`: it takes the head of the
queue and does what its handler does, and empties the queue when the handler
has disconnected (the loop returns at line 301 and a new peer has a new queue).
`MatchQuit`, `MatchUpdate` and `MatchDisconnect` are the same actions of the
controller between any two packets. `Rejoins` selects whether the client joins a
waiting room or re-enters a round.

### Round, and what GameMatch implements

`Round` has neither packets nor scenes: a server that advances the phases of a room
and decides a winner once, and a client that enters, counts, plays, leaves or is
shown the result. The client is never ahead of the server, does not come back
after it has left, and the one result it shows is the server's. `FollowsTheRound`
is `Round`'s specification under the mapping

| `Round` | `GameMatch` |
|---|---|
| `phase`, `verdict` | the same, of the server |
| `stage` | `Stage`: `gameState`, with `jumping` and `fighting` as one and all that follows them as `"left"` |
| `result` | `shownResult` without who the client believes to have won |

Every other step (a departure, an info, a frame, a packet that is sent) is a stutter.

### LobbySession

`link` is `rakClient_`: `none` or `cut` (no peer, after `cut` one that was disconnected
before it was connected), `connecting`, `up`, or a peer that was started and reaches nobody,
`failed` if it could not connect and `refused` if the server would not have it.
`isConnected` is `IsActive`, which is true whenever there is a peer, and `Send` on a peer
that is not `up` is dropped; both are from RakNet's interface. `blocks` is the set of callbacks registered and `stale` those
of them that belong to a lobby that was left.

| Action | Code |
|---|---|
| `OpenLobby` | `LobbyScene.m` 55-89, `Server.connect` 88-99 |
| `HttpAnswers`, `HttpFails`, `IpExpires` | `_obtainServerIpFromGeoServer` 306-329, `_connectToServer` 331-350 |
| `Accepted`, `AttemptFailed` | `listen` 243-258, `_handleConnectionResult` of the lobby 91-107 |
| `Refused` | `listen` 273-275 and 295-298, for which `_processCustomPacket` 373-423 has no case |
| `ConnectionLost` | `listen` 261-293 |
| `RequestState`, `PollTimer`, `AlertRefresh` | `LobbyScene.m` 122-132, 99-101, 224-227 |
| `RoomsInfo`, `SelectRoom`, `RoomResult` | 134-222, `Server.mm` 463-480 |
| `WaitingPlayers`, `GameOver` | the two packets of a game that its callbacks decide |
| `UserQuits`, `DelayedDisconnect` | `GameController.m` 197-205, 224-227 |
| `ReturnToMenu`, `LeaveResult` | the ways home |

RakNet ends an attempt to connect in four ways (`RakPeer.mm` 5644-5693 and 6312-6345, and an
accepted one). Only two of them reach `serverConnectedBlock_`. The server's own refusals (no
free connection, banned, invalid password, connected too recently, another protocol
version) are `Refused`: `listen` logs or drops them and the peer stays active. A
disconnection that comes before the connection is there is `ConnectionLost`. `Unheard`
names these two.

A game is no more here than the callbacks it needs; what it does with them is
`GameController`. `OpenLobby` waits for `~quitPending`: `quit` disconnects after
0.2 s, and the page turn to the home scene, during which cocos2d accepts no
touches, takes 0.5 s. The lobby is left with its alert still open in `LeaveFor`
(the delegate is not retained), and `AlertRefresh` then reaches a freed object.

### Fighter

The one variable is the object: a record with the fields of `Fighter` and `Player`, and
one operator for each method (`SetIsHitting`, `SetHitResult`, `SetIsAlone`,
`SetIsPaused`, `StoppedAction`, `Moved`, …), so that an action is the sequence of
methods that the code calls.

| Action | Code |
|---|---|
| `UpdateFighter` | `_updateFighter`, `GameController.m` 484-497: six setters, in order |
| `Freeze` | `update:`, `GameController.m` 216-219 |
| `Update` | `update:` of the fighter, 99-105: `_modelState`, then `_updateView` |
| `MoveOnClientToDirection` | 107-120 |
| `RaiseArm`, `StopCrashing`, `StartEatingGrass` | the block at 170, `_stopCrashing` 466-470, the timer 479-485 |
| `AddToScene`, `RemoveFromScene`, `AddFighter` | 72-97, `GameController.m` 475-482 |

*Who leads.* While `isActionMovement` is set, the view leads: its animations move it,
and `_updateView` copies its place to the model. Otherwise the model leads. `raising`
and `falling` count the animations of hits and crashes that still run: none is ever
stopped, a second may start before the first has ended, and each end
takes the lead from all of them. A place is an integer. The server puts fighters on
`Places`, the platform; nothing keeps a touch there (`Fighter.m:118` has no limit), and an animation may
bring the view to any of `Ways`. A frame is a way of 1 to `MaxStride` places.
`eatSoundId_` is kept as the flag that it is not 0: a second loop that is started before the
first is stopped would overwrite its handle (`Fighter.m:481`), and the model does not see that.
`awaitedAttackerHitResult_` is set and reset within one info and needs no field.

### Jumper

Again a record, with the fields of `Jumper` and `Player` and one operator per method. Lengths
are in units of 10 points, and `posY` is that of the feet.

| Action | Code |
|---|---|
| `HandleConnectedPlayer`, `AddToScene`, `RemoveFromScene` | the jumper of `_handleConnectedPlayers`, `addToScene:`, `removeFromScene` |
| `HandleCountdownToGame` | `toStartPositionForMaxTime` for every jumper |
| `HandleJumpInfo` | `_updateJumper` and the end of `_handleJumpInfo` of the controller: `stopWandering`, `setIsFallen`, the place, `setIsPaused`, thawed |
| `Freeze`, `Update`, `Blink` | `update:` of the controller, `update:` and the blink action of the jumper |
| `FirstWander` | the delayed call 1.5 s after `startWandering` |
| `Walk`, `Arrive`, `WanderOn` | frames and ends of the ways that run on the view, and the call that ends a sequence |

`ways` are the sequences of actions that run on the view, in the order in which they were
added, as cocos2d runs them. One is the rule; a delayed call that comes while the
countdown walks the jumper back adds a second (`MayRun` is their order when one has no
length). `Platforms` is any set of platforms; `Under`, `NearestPlatformPosition` and
`PlatformRange` are `Platform.mm`. `Update` takes a way of up to `MaxMove` in either
direction, in place of speeds and gravity. A jumper that is removed keeps its
delayed call in the code; it moves a view that is on no scene, and the model forgets it.

### Screens

`nodes` are the scenes and transitions in the order they were created; `entered` those that
have had `onEnter` and no `onExit`, whose timers and actions run; `runningScene`,
`nextScene` and `dispatchEvents` are the director's and the touch dispatcher's.

| Action | Code |
|---|---|
| `SetNextScene` | `setNextScene` of the director, at the end of a frame |
| `Finish`, `SetNewScene` | the two last steps of a page turn: the action has run; a frame later the new scene is set |
| `StartWithPlayerId`, `SwitchScene`, `HandleGameOverInfo`, `HandleServerDisconnectedEvent`, `Quit`, `Disconnect`, `CreateNewGame` | the scene changes of the controller, with `_stopScene` as `Unscheduled` |
| `Announce`, `Depart`, `Info`, `CheckNewPlayers` | `players_` by the packets, and `addNewPlayersToScene` by a timer of each game scene that runs |
| `AskQuit`, `CheckDisconnection`, `Resume` | the alerts of `EnvironmentLayer` |
| `ReturnToMainMenu`, `Play` | buttons, which need touches |

The code allows more than the properties survive, and three constants say how much of
it an instance takes: `EarlyPackets` (a scene change while the page that enters the
round still turns), `LateAnswers` (an alert answered when its scene has left the
stage), `SwitchesPerFrame` (scene changes in the packets of one frame). See "What does
not hold" below.

### Mutations

A definition introduced by the comment "A mutation of …" is no part of any
specification. It is that operator as a slip in the code would have made it (a
flag that is set and not cleared, a loop one short, a guard that forgets a
state). With the operator replaced by it, TLC finds the property that is named
in `PROJECT.json` "mutants" violated: so every property can fail.

## The runs

| Run | Asks | Instance | States |
|---|---|---|---|
| `any_server` | what the controller keeps whatever it is sent | 2 players, times 0..1, lists up to 2, delay 1 | 302,546 |
| `match` | assertions, board, crown, freezing, and the refinement of `Round`, with a server that keeps its order | 3 ids, room of 2, time 1, 2 packets under way | 2.6 M |
| `match_rejoin` | the board and the known players after "Re-enter" | 2 ids, 2 packets | 388,000 |
| `match_live` | the scene follows the player, thaws, and the round ends | 2 ids, 1 packet | 30,348 |
| `session` | callbacks across lobbies, lost connections and late answers; why a lobby may stay on "Connecting…" | 2 requests, 2 taps | 17,331 |
| `fighter` | freezing, eating, following | 2 places and one on either side of them, stride 2, one animation of a kind | 271,424 |
| `fighter_overlap` | who leads when animations overlap, and that hits and crashes end | 1 place, two animations of a kind | 13,164 |
| `jumper` | who moves the view, where it may be, what is seen | 2 platforms that overlap, 8 wide, 3 high, 2 a frame | 20,142 |
| `screens` | one scene runs and shows the players, touches come back, a game is left | 2 players, 12 scenes and transitions | 11,186 |
| `session_result`, `session_poll`, `screens_turn` | what the source says and the code does not keep | as `session` and `screens` | |

**any_server**: `TypeOK`; `AtMostOneLeader` (the flag is recomputed at five places
while infos come, go and come back); `FrozenOnlyWhileConnecting` (`update:` freezes
the objects of one moment, the next info frees those of another);
`StateMatchesScene`; `ResultIsFinal` (whatever is queued behind a result).

**match**: `NoFailure`: no info or result names a player that the client has
forgotten or not met, though it handles them long after they were sent.
`SceneHoldsOneKind`: announcements create jumpers whatever the scene, and still the
fight scene holds fighters only. `CrownIsCurrent`: the flag on the board is always what a new search
would give. `BoardMatchesRoom`: once all packets are handled, the board lists the
room and marks those who are missing, although the client forgets a player or only
marks it by its *own* idea of the phase. `AllFrozenWhileConnecting`.
`FollowsTheRound`: the refinement; that a game which has ended stays so (`EndIsFinal`) is
part of it, and the reason why the guards of the info handlers, which leave
`gsWaitDisconnection` out, do no harm.

**match_rejoin**: a client that re-enters knows only those it found.
`NoUnknownPlayer` and `BoardShowsOnline` hold; `SceneHoldsOneKind` is not in this
run, because there it does not hold (an absent player who returns is given a
jumper in the fight scene, and the next fight info is applied to it). No text of the
repository says anything of this case, so it is a hazard and no finding.

**match_live**: `SceneFollowsServer` and `ThawsAgain`, in rounds that may go on for
ever: were the round forced to end, its end would satisfy both. `RoundEnds` is
conditional for that reason: if the server is fair to the end of the round, the
client's round ends.

**session**: `GameHearsItsServer`: a game made on the present connection has all
seven callbacks, whatever a lost connection, an earlier lobby or an earlier game
did. `OneRoomAnswerCounts`: with two rooms tapped, one answer enters; that the other may
have been accepted, and a place be held for a client that stays in the lobby, is in the
model and excluded by no property. `LobbyAnswers`: a lobby stays on "Connecting…" for ever
only if the attempt ended `Unheard`; whatever else the web server, the address, the game server and
earlier lobbies do, it gets to poll or announces that it failed and returns.

**fighter**: `FrozenMeansPaused` (the controller freezes and infos free by one flag,
while ends of animations write the state); `EatsAlone` (a hit silences the eating
and its end schedules it again, while company comes and goes); `TypeOK` also bounds the way that
is left of a touch (at most a step, never past its target, on the platform or off it);
`FollowComesNearer` (a way that leads away from the target is cut short at once).
**fighter_overlap**: `ActionOwnsPosition` and `LeadIsReturned`: a hit in a crash, a crash
in a hit and second ones of both, with every order of their ends; `HitEnds` and `CrashEnds`.

**jumper**: `OneMover` (the delayed call, the ends of ways, the countdown and the first
info in any order: as long as a jumper wanders something moves it on, and nothing of
it does afterwards); `StaysOnPlatform` (announced near an edge, a wanderer
begins outside its bounds); `ShowsItsState` (a pause undoes what a fall has shown, and
whatever stops the actions of the view stops its blinking); `NoOvershoot` (sideways and
down in one frame: the platform that counts is the one under the new place, seen from the
old height); `TakenOverInPlace` (the walk back ends where the model is, although a late delayed call may add a
second way during it).

**screens**: `OnlyStageRuns` (no scene is left behind that still reads packets and takes
objects); `ShownOnStage` (objects are made by packets and shown by timers, and scenes
change in between); `TouchesReturn` (also with the result in the 0.2 s after quit,
when a page turn is nested in another); `GameIsLeft`.

#### What does not hold, and no text of the repository claims

* A lobby whose attempt is answered by a refusal, or by a disconnection before it is
  connected, shows "Connecting…" until the user leaves it: `listen` calls
  `serverConnectedBlock_` for neither (`Server.mm` 261-264, 273-275, 295-298). `LobbyAnswers` names it as the one exception.
* A result that is sent just once while the arm is being raised is forgotten, and the hit
  does not end; `HitEnds` assumes that results are repeated.
* A fighter that is paused during its hit stands, and moves, as soon as the hit ends
  (`Fighter.m:476` sets `fsStanding` whatever the pause says); a movement of the local
  player ends only when the server is ahead or in the same place (385).
* A jumper that is still fallen when a pause ends is shown twice, standing and fallen,
  until it gets up: `Player.m:134` shows the standing sprite whatever `isFallen_` says.
  `ShowsItsState` asks for the standing sprite only of one that is not fallen.
* With `LateAnswers` (a quit alert is open, the round changes the scene, the user then
  answers while the next page turns) `TouchesReturn` fails: `_stopScene` unschedules the
  last step of the transition that runs.
* With `SwitchesPerFrame = 2` (packets gathered in the background) `ShownOnStage` fails:
  a scene that is replaced in the same batch takes the objects of its successor.
* With `EarlyPackets` `OnlyStageRuns` fails as `StageIsEntered` does, see below.

### Findings

* **session_result** violates `ResultPlayersAreKnown`, the assertion
  `NSAssert(info, @"invalid playerId")` of `GameController.m:573`. Connection lost in
  the lobby: `disconnect` drops four callbacks of the game; the poll reconnects with
  a nil block, so `createNewGame` is not called again; the user enters a room; the
  controller hears of no player; the result names players it does not know.
* **session_poll** violates `PollCanAsk`, from the comment "request rooms info each 5
  seconds" at `LobbyScene.m:99`. With the connection lost and the address over its
  hour (or the default address, which is never cached), `reconnect` only starts a
  web request, and the request for the rooms is sent through a null peer.
* **screens_turn** violates `StageIsEntered`, from the description of `onEnter` in
  `CCNode.h:250`. A player re-enters a round on the platform; the first `FightInfo`
  comes while the page that enters the jump scene still turns; `_switchScene` replaces
  what runs, the transition, by a plain scene, and the director sends no `onEnter` to a
  scene that follows a transition, since it should be the one that was turned to. The fight
  scene is drawn and stands still; the jump scene goes on unseen; touches stay off.

That a poll may go on for ever and reach nobody (a lost connection, then one failed
attempt, after which `isConnected` stays true) is a hazard at `Server.mm:131`: the
comment it would contradict is the one of `session_poll`.

### Bounds, and why they are enough

* *Players*. Two are needed for a tie, an overtaking or a departure. In `match` there are three
  ids for a room of two, so that a place can be left and taken by somebody new,
  and the client has packets about both. `MAX_NUMBER_OF_PLAYERS` is 5 in the code;
  the proofs hold for every number.
* *MaxTime* 1 tells nobody, a leader and a tie apart; an overtaking at the top
  value needs a departure of the leader, which happens. In `match_rejoin` and
  `match_live` it is 0: their properties do not depend on times.
* *MaxServerDelay* 0 or 1: at the next frame, or the one after it, the client freezes.
* *InboxSize* 2: an info can be behind a departure, an announcement behind a departure.
  The last packet of a game may exceed it, so a result or a lost connection can be
  third. In `match_live` one is enough, as the questions there are about progress.
* *MaxRequests*, *MaxTaps* 2: a late answer of an earlier lobby besides the present
  one, and a room tapped before the first answer. The proofs hold for every value.
* *MaxPlace* 1 with *MaxStride* 2: a fighter is at the target, short of it or past it, on either side of the
  other, and as far from it as two frames; the proof of `FollowComesNearer` is for every distance.
  In `fighter_overlap` the place
  does not matter, and touches, which need another place, are left to `fighter`.
* *Beyond* 1: touches and views lead off the platform on both sides, one place far. The code has
  no such limit; it bounds the instance, and no theorem uses it.
* *MaxActions* 2: a second hit or crash while the first is animated; a third adds no new order
  of ends. The proofs hold for any number.
* *Platforms*: two, of which one is partly over the other, so that a jumper may stand on
  either, walk off the upper one onto the lower, or off both; the hill is as wide as
  the turns of a wanderer (2 units from an edge) need for a choice and for none. `MaxMove` 2
  falls past a level. The proofs hold for every hill and pace.
* *MaxNodes* 12: a game, its result, the menu, the lobby and the beginning of a
  second game; the actions that create scenes stop there, which is the bound and not the code.
* *Symmetry* is used over interchangeable players, in runs of safety properties only.

`CHECK_DEADLOCK FALSE`: a process that has died, a result with nothing left to do
and a closed connection are states in which the models really stop.

### Fairness

* `FairMatchSpec`: weak fairness of `Deliver` (the running scene listens each frame)
  and strong fairness of the two infos: the server sends both all the time while the
  round lasts, but the queue may be full at any single moment, so that weak
  fairness says nothing. `RoundEnds` has weak fairness of `SendGameOver` as its
  condition: a round has a fixed length. The user is never forced to do anything, nor is a
  connection made to stay.
* `FairSpec` of the session: weak fairness of the web answer or its error or timeout
  (`SimpleHttpClient` has a timeout of 10 s), of the connection attempt
  ending (`AttemptEnds`: RakNet has a limit for each of its phases; whether `listen` then tells the lobby is
  not assumed), of the poll timer, of the answer to a
  list that was asked for. It does not force any to be a success.
* `FairSpec` of the screens: weak fairness of the end of a frame, of the steps of a page
  turn and of the delayed disconnection, all of which the main loop drives. A page
  whose action belongs to a scene that does not run is not fairly turned: `Finish` asks for it.
* `FairSpec` of the fighter: weak fairness of the ends of animations (cocos2d runs
  them to their end) and of an info with a result. The latter is the server's part:
  the client looks for the *rise* of `isHitting` and `fhrCrash` (161, 228), so they are
  levels that last for several infos. With a result sent just once, within the 0.08 s in
  which the arm is raised, `HitEnds` would fail, since `setHitResult` drops it.

## The proofs

TLAPS checks these for every value of the constants that satisfies
`NoPlayerAssumption`, `BoundsAssumption` (the bounds are natural numbers),
`LocalAssumption`, `RoomAssumption` (a room has a place, no more than a packet can list),
`SessionAssumption` (the bounds of a session are positive), `PlaceAssumption` and `ActionsAssumption`
(places, their bounds, strides and steps are natural numbers, the last two positive), `PlayersAssumption`
(the local player is one of the players), `LimitsAssumption` (there is a first scene, and a
frame has time for a change) and `HillAssumption` (platforms have a length and lie on the hill).
Every safety property that a passing run checks is a theorem. Some theorems state more than a run does:
the *safety half* of a liveness property, that at any moment what will bring the promised
state about is under way, so that only fairness is left to add.

**GameController_proofs.** `SpecSafe: Spec => []Safe`, from which `TypeCorrect`,
`OneLeader`, `NobodyLeftFrozen`, `SceneAgrees` follow, and `ResultStays`, an action
property, by one more look at each action. `Safe` is the four invariants and two
more that make them inductive:

* `AheadIsTotal`: of two players exactly one precedes the other in the array. Without it,
  two players with the same time might both pass the test of `_detectLider`. It has
  to be shown for announcements in particular, which append several players at
  once in the order of the list, with a search in the middle of the list.
* `ResultClosesConnection`: a result that is shown has closed the connection; no
  handler acts without it, which is why `ResultIsFinal` holds.

The argument has one lemma per action, and lemmas on `DetectLider` (type and uniqueness),
on places in an announcement and on `SynchronizeScene`, which both info handlers share.

That a scene holds objects of its own kind (`SceneHoldsOneKind`) is true of a match, but not for
any server. `ObjectsOK` says how much of it is: the hill and the empty scene hold
jumpers only, and everybody on a scene is on the board (`FightersOnPlatformOnly`). So one failure is left,
a jumper that an announcement has put on the platform and a fight info takes for a
fighter (`OnlyFightersMistaken`); a jump info, or a change of the scene, never causes it.

**GameMatch_proofs.** `MatchIsSafe: MatchSpec => []MatchSafe`. A step of a match is a step of the
controller (`MatchIsAGame`), so `Safe` and all that follows from it hold here. What is
added is knowledge of the queue (`InboxOK`): every packet in it is *true* of the server
as it is now (a countdown only if the room no longer waits, an info only in or after
the round, a result only with the verdict), and behind the server's last word there is
nothing but the loss of the connection. `EnteringOK` and `EndedOK` say what the head of
the queue is before a game has begun and after it has ended. From these follow
`MatchTypeCorrect`, `EndStays` and `ImplementsRound: MatchSpec => FollowsTheRound`, the refinement,
step by step: a packet lets the client advance because it is true of the server.

**GameBoard_proofs.** What the board shows relates the client to a room from which it is
separated by every packet under way. `BoardIsSafe: MatchSpec => []BoardSafe` says that the
packets *lead* from the one to the other: there is a view (who is present, who is known,
whether leavers are forgotten) before and after each packet, the first is the
client's own, the last the room's, each is what the packet makes of the one before, and
each packet *fits* the view in which it will be read: an info lists players who are
present there, a new player comes without a time, a result names the local player.
Sending appends a view, reading drops the first, and everything else leaves them alone.
The rest of the invariant is what handlers need: that the client knows itself, that a
silent server has left a last word, and, for the scene, that nobody has a time
before the round. `NobodyUnknown` and `BoardIsOnline` hold for every client; `BoardIsTheRoom`,
`NothingFails`, `OneKind`, `CrownCurrent` and `AllFrozen` assume `~Rejoins`, as their runs do.

`EndIsUnderWay` is the safety half of `RoundEnds`, and needs no `~Rejoins`: a game that goes on is
connected (`ConnectionOK`), a server that has fallen silent has left a last word, and once the round is
decided the result with the server's winner, or the loss of the connection, is in the queue
(`DecisionOK`). It is inductive because no handler passes over a last word, in whatever state it
finds the client (`LastWordEndsTheGame`), and because what a handler ignores decides nothing.

**LobbySession_proofs.** `SessionSafe`, `SessionType`, `GameSubscribed`,
`GameStartsOnce`. `GameHearsItsServer` is about the running scene only, and a
callback may be lost in any scene. Its inductive form is `Subscribed`: wherever the
user is, `gameOnLink => GameBlocks \subseteq blocks`. Each step that gives up the
peer also resets `gameOnLink` (`ConnectToServerType`, `NothingUnderWayType`), and
`RoomResult` drops only callbacks of the lobby.

`LobbyWaitsForACause` is the safety half of `LobbyAnswers`: a lobby that shows "Connecting…" has a web
request or an attempt under way and the callback that will hear of it is registered, or
its attempt has ended `Unheard`.
Callbacks are kept by kind, not by lobby, so `Waiting` has to say in addition that such a lobby
has shown nothing (what it finds registered besides is stale) and that
no earlier game is still to be disconnected. `EndsOfAnAttempt` says what follows: each answer of the web server, an
accepted attempt and a failed one move such a lobby on or back, those an earlier lobby has
asked for included, and the callback that may be nobody's (`Server.mm:345`) is never nobody's while a
lobby waits; the two unheard ends leave it waiting with nothing under way.
`OwnResultIsKnown` complements the violation `session_result`: a controller made on the present peer
has been told its players before the result (`PlayersHeard`), so the assertion can fail only
for one that was made on an earlier peer.

**Fighter_proofs.** `FighterSound: Spec => []FighterIsSound`, and from it `FighterType`,
`LeadKept`, `FrozenOnlyPaused`, `OnlyLonelyEat`; `FollowerComesNearer` by `MovedNearer`, a lemma on
`_moveToX`. The invariants are inductive together; the work is that every info is
six methods, and each keeps a `Sound` record `Sound`. `FighterType` says
that a touch leads a step at most and not past its target (`MovedWithinStep`), for integer places of any size;
it does not say that a fighter stays on the platform, since nothing in the code keeps it there. `StoppedAction` even makes one
of a record that is not: `StoppedActionSound` assumes only its type and its eating.
`ActionsEnd` is the safety half of `HitEnds` and `CrashEnds`: a fighter that falls has an animation of a
crash of its own, one that hits raises its arm or awaits the result, although animations are
never stopped and may overlap.

`ViewLeads` (that the view leads as long as an action moves it) and `LeadKept` come from the same invariant.

**Jumper_proofs.** `JumperSound: Spec => []JumperIsSound`, and from it `JumperType`, `ViewHasOneMover`,
`WandererStaysOn`, `RightSpriteIsSeen`; `NoPlatformIsPassed` and `HandedOverInPlace` are action
properties. A record is `Sound` if its ways lie on its ground (`Wanders`) and its sprites agree
(`Shows`); one lemma per method says that it keeps a record sound, and one more fact,
`Waits`, is true until the countdown: nobody is on the way back, so a way that
ends starts another.

**Screens_proofs.** What runs is found by following transitions: a page turn may begin from a
page that still turns, and what it leaves is a recursive function of that line. The
induction is along the line, by its least counterexample (`LeastElement`, from the library's theorems
on well-founded relations, which take no operator): such a function exists (`LineExists`) and is the
same after scenes have been added, since a transition is younger than what it turns from
(`LeftIsStable`). `Shape` is the type of all parts together. To the director a step
does one of five things (`DirectorStep`: nothing, a page turn begun, a scene replaced, the end of
a frame, the end of a page turn), so `StageOK` is preserved by five cases, and the other two
invariants by those and what the actions do to the round:

* `StageOK`: the scene on the stage has been entered and only it, or the transition to it
  and what that one leaves, run. It gives `OnlyStage` and `SceneIsEntered`, for page turns nested to any depth,
  alerts answered late and any number of changes in a frame, but no packets
  handled while a page turns (`~EarlyPackets`).
* `RoundOK`: the round is played on the stage and objects are displayed there. `ObjectsOnStage` needs
  `SwitchesPerFrame = 1` besides, since a scene that is replaced in the same frame
  takes the objects of its successor.
* `GoesOn`: a page that turns has its next step scheduled in a scene that runs (`PagesGoOn`); the touches
  are off only while a turn that returns them is under way (`TouchesComeBack`); and a game that is over
  has been left or a page that leaves it comes next (`GameHasAWayOut`). These are the safety halves of
  `TouchesReturn` and `GameIsLeft`, and assume `~LateAnswers`: the answer to an alert of a scene
  that is gone unschedules the last step of the page that turns.

Each of these hypotheses is needed: TLC violates the conclusion on the instances without it.

**Only model-checked.** Liveness itself (`RoundEnds`, `SceneFollowsServer`, `ThawsAgain`, `LobbyAnswers`,
`HitEnds`, `CrashEnds`, `TouchesReturn`, `GameIsLeft`), which is out of the prover's reach: it takes
fairness and ENABLED. The safety halves of six of them are proved, as said above; `SceneFollowsServer` and
`ThawsAgain` depend on the server sending another info, so fairness is all there is to them.
The three violations are TLC's too, but `OwnResultIsKnown` and `SceneIsEntered` prove
what two of them do not touch.

## What is not modelled

* *Scores*. A score is read, increased and written through OpenFeint or Game Center; what may
  interleave is decided by the answers of those two services, which the
  repository does not show. Two hazards name the lines.
* *The drawing of a scene*: the board and its synchronisation (`NSArrayEx`, a pure helper
  called once a frame), the camera (a clamp), labels, sprites other than those a property is
  about, sounds, and the controls a scene sends.
* *The application delegate*: background and foreground stop and start the drawing and send a
  pause and a resume, which only the server sees. What they do to a client is a batch
  of packets in one frame (`SwitchesPerFrame`) or a server that expels it (`Expel`).
* *The layout of packets and its limits* (`MAX_NUMBER_OF_PLAYERS`, lengths of names), and
  peers that were replaced without being shut down (`Server.mm:333`): they are not
  reachable any more, and what they hold is not counted.
* *Memory*: that a layer or a jumper may have been released when a call comes. A call
  to an object that is gone is left out, except for the lobby (`freedLobby`).
* *Options, advertising, static scenes*: no protocol, nothing that outlives a call.
* *Vendored libraries* (cocos2d, RakNet, OpenFeint, Burstly and their parts), which make up most of the
  lines of the repository: external. RakNet appears as a FIFO with a connection,
  cocos2d as the director and the page turns of `Screens`.
