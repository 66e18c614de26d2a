------------------------------ MODULE Screens ------------------------------
(***************************************************************************)
(* What is on the screen: the director of cocos2d, its page turns, and the  *)
(* scenes of a game (LobbyScene, JumpScene, FightScene, GameOverScene,      *)
(* HomeScene), replaced by packets, by buttons and by alerts.               *)
(*                                                                         *)
(* replaceScene only names the next scene; the frame ends by putting it on  *)
(* the stage.  A page turn is itself a scene: it enters the new one at      *)
(* once, leaves the old one when the page is turned, and lets no touch      *)
(* through in between.  Packets and alerts know nothing of it.  The director*)
(* treats a scene that follows a transition as one that has been entered    *)
(* already, which is true of no other scene than the one that was turned to.*)
(*                                                                         *)
(* What the packets say is reduced to whom they list: GameController models *)
(* the rest.                                                                *)
(***************************************************************************)
EXTENDS Naturals, Sequences

CONSTANTS
    Players, Local,      \* the players of the round, and the one of this client
    MaxNodes,            \* bound: the scenes and transitions ever created
    EarlyPackets,        \* the round changes scene or ends while the page that
                         \* enters it still turns (0.5 s: a re-entered round)
    LateAnswers,         \* an alert is answered when its scene has left the stage
    SwitchesPerFrame     \* bound: the scene changes in the packets of one frame

ASSUME PlayersAssumption == Local \in Players
ASSUME LimitsAssumption  == MaxNodes \in Nat \ {0} /\ SwitchesPerFrame \in Nat \ {0}

VARIABLES
    nodes,           \* the scenes and transitions, in the order they were created
    entered,         \* those that are isRunning_: their timers fire
    runningScene,    \* runningScene_ of the director: what is drawn
    nextScene,       \* nextScene_; Nil if there is none
    dispatchEvents,  \* of the touch dispatcher
    switches,        \* the scene changes since the frame began
    sceneType,       \* of the GameController
    gameState,       \* the same, as far as a scene depends on it
    players,         \* players_: the node each object is displayed in, or Nil
    connected,       \* [[Server srv] isConnected]
    quitPending,     \* the delayed _disconnect of quit
    alert,           \* the node whose layer an open alert reports to, or Nil
    told             \* the nodes that have shown that the connection is lost

director == <<nodes, entered, runningScene, nextScene, dispatchEvents, switches>>
game     == <<sceneType, gameState, players, connected, quitPending>>
alerts   == <<alert, told>>
vars     == <<director, game, alerts>>

Nil == 0

Kinds == {"home", "lobby", "jump", "fight", "over", "turn"}
Ids   == DOMAIN nodes

\* page: how far a transition is; it stays "none" in a plain scene.
Node == [kind: Kinds, in: 0..MaxNodes, out: 0..MaxNodes, back: BOOLEAN,
         page: {"none", "turning", "finished", "done"}]

PlainScene(kind) == [kind |-> kind, in |-> Nil, out |-> Nil, back |-> FALSE, page |-> "none"]
IsTurn(n) == nodes[n].kind = "turn"
IsGame(n) == nodes[n].kind \in {"jump", "fight"}

TypeOK ==
    /\ nodes \in Seq(Node) /\ Len(nodes) <= MaxNodes
    /\ entered \subseteq Ids
    /\ runningScene \in Ids
    /\ nextScene \in Ids \cup {Nil}
    /\ dispatchEvents \in BOOLEAN
    /\ switches \in 0..SwitchesPerFrame
    /\ sceneType \in {"none", "jump", "fight"}
    /\ gameState \in {"none", "waiting", "playing", "lost", "over", "quit"}
    /\ DOMAIN players \subseteq Players /\ players \in [DOMAIN players -> Ids \cup {Nil}]
    /\ connected \in BOOLEAN /\ quitPending \in BOOLEAN
    /\ alert \in Ids \cup {Nil} /\ told \subseteq Ids

NoObjects == [p \in {} |-> Nil]

\* The lobby has reached the game server.
Init ==
    /\ nodes = <<PlainScene("lobby")>>
    /\ entered = {1} /\ runningScene = 1 /\ nextScene = Nil
    /\ dispatchEvents = TRUE /\ switches = 0
    /\ sceneType = "none" /\ gameState = "none" /\ players = NoObjects
    /\ connected = TRUE /\ quitPending = FALSE
    /\ alert = Nil /\ told = {}

-----------------------------------------------------------------------------
(* The director.                                                            *)

\* A mutation of Unscheduled: the actions of the scene are stopped as well.
StoppedToo ==
    [nodes EXCEPT ![runningScene].page = IF @ \in {"turning", "finished"} THEN "done" ELSE @]

\* The change to nodes when _stopScene unschedules what the running scene has
\* scheduled: nothing in a plain scene, the last step of a page turn.
Unscheduled ==
    [nodes EXCEPT ![runningScene].page = IF @ = "finished" THEN "done" ELSE @]

\* replaceScene: of a plain scene; the last call of a frame counts.
ReplaceScene(old, kind) ==
    /\ Len(old) + 1 <= MaxNodes
    /\ nodes' = Append(old, PlainScene(kind))
    /\ nextScene' = Len(old) + 1
    /\ UNCHANGED <<entered, runningScene, dispatchEvents>>

\* replaceScene of a page turn from the running scene, which takes the touches
\* away as soon as it is created.
TurnPage(old, kind, back) ==
    /\ Len(old) + 2 <= MaxNodes
    /\ nodes' = old \o <<PlainScene(kind),
                         [kind |-> "turn", in |-> Len(old) + 1, out |-> runningScene,
                          back |-> back, page |-> "none"]>>
    /\ nextScene' = Len(old) + 2
    /\ dispatchEvents' = FALSE
    /\ UNCHANGED <<entered, runningScene, switches>>

\* A mutation of Leaves: a transition is left without the scene it turned from.
LeavesAlone(n) == {n}

\* onExit: of a scene, or of a transition and of what it turned from, which
\* may be a transition as well.
Leaves(n) ==
    LET left[m \in Ids] == IF IsTurn(m) THEN {m} \cup left[nodes[m].out] ELSE {m}
    IN  left[n]

\* A mutation of Enters: the transition takes the scene created after it for its own.
EntersNext(n) == IF IsTurn(n) THEN {n, n + 1} ELSE {n}

\* onEnter: of a scene, or of a transition and of what it turns to.
Enters(n) == IF IsTurn(n) THEN {n, nodes[n].in} ELSE {n}

\* What is drawn: a transition draws both of its scenes.
Seen(n) ==
    LET seen[m \in Ids] ==
            IF IsTurn(m) THEN {nodes[m].in} \cup seen[nodes[m].out] ELSE {m}
    IN  seen[n]

\* The end of a frame (setNextScene).  A transition leaves nothing, for it will
\* do so later; what follows a transition is not entered, for it should be
\* the scene the transition has entered.
SetNextScene ==
    /\ nextScene # Nil
    /\ LET kept    == IF IsTurn(nextScene) THEN entered ELSE entered \ Leaves(runningScene)
           started == ~IsTurn(runningScene)
       IN  /\ entered' = IF started THEN kept \cup Enters(nextScene) ELSE kept
           /\ nodes' = IF started /\ IsTurn(nextScene)
                       THEN [nodes EXCEPT ![nextScene].page = "turning"] ELSE nodes
    /\ runningScene' = nextScene
    /\ nextScene' = Nil
    /\ switches' = 0
    /\ UNCHANGED <<dispatchEvents, game, alerts>>

\* The action that turns the page has run.  It belongs to the old scene, to
\* the new one when the page is turned back, and stands still while that scene
\* does not run.  It takes 0.5 s, the disconnection after quit 0.2 s.
Finish(t) ==
    /\ nodes[t].page = "turning" /\ ~quitPending
    /\ (IF nodes[t].back THEN nodes[t].in ELSE nodes[t].out) \in entered
    /\ nodes' = [nodes EXCEPT ![t].page = "finished"]
    /\ UNCHANGED <<entered, runningScene, nextScene, dispatchEvents, switches, game, alerts>>

\* A mutation of SetNewScene: the touches are not given back.
SetNewSceneOnly(t) ==
    /\ nodes[t].page = "finished" /\ t \in entered
    /\ nodes' = [nodes EXCEPT ![t].page = "done"]
    /\ nextScene' = nodes[t].in
    /\ UNCHANGED <<entered, runningScene, dispatchEvents, switches, game, alerts>>

\* setNewScene:, a frame later.
SetNewScene(t) ==
    /\ nodes[t].page = "finished" /\ t \in entered
    /\ nodes' = [nodes EXCEPT ![t].page = "done"]
    /\ nextScene' = nodes[t].in
    /\ dispatchEvents' = TRUE
    /\ UNCHANGED <<entered, runningScene, switches, game, alerts>>

-----------------------------------------------------------------------------
(* The packets, handled by the timer of a game scene.                       *)

PageTurns == IsTurn(runningScene) \/ (nextScene # Nil /\ IsTurn(nextScene))
Receiving == connected /\ \E s \in entered : IsGame(s)
OnTime    == EarlyPackets \/ ~PageTurns

\* The room accepts the player (startWithPlayerId): the lobby has not been left.
StartWithPlayerId ==
    /\ gameState = "none" /\ connected
    /\ nodes[runningScene].kind = "lobby" /\ nextScene = Nil
    /\ TurnPage(nodes, "jump", FALSE)
    /\ sceneType' = "jump" /\ gameState' = "waiting"
    /\ UNCHANGED <<players, connected, quitPending, alerts>>

\* A player comes while the room waits, or goes.
Announce(p) ==
    /\ Receiving /\ gameState = "waiting" /\ p \notin DOMAIN players
    /\ players' = [q \in DOMAIN players \cup {p} |-> IF q = p THEN Nil ELSE players[q]]
    /\ UNCHANGED <<director, sceneType, gameState, connected, quitPending, alerts>>

Depart(p) ==
    /\ Receiving /\ gameState = "waiting" /\ p \in DOMAIN players \ {Local}
    /\ players' = [q \in DOMAIN players \ {p} |-> players[q]]
    /\ UNCHANGED <<director, sceneType, gameState, connected, quitPending, alerts>>

\* A JumpInfo or FightInfo that does not change the scene.
Info(kind, listed) ==
    /\ Receiving /\ gameState \in {"waiting", "playing"}
    /\ kind = sceneType
    /\ gameState' = "playing"
    /\ players' = [p \in listed |-> IF p \in DOMAIN players THEN players[p] ELSE Nil]
    /\ UNCHANGED <<director, sceneType, connected, quitPending, alerts>>

\* One that does (_switchScene), because it lists the local player.
SwitchScene(kind, listed) ==
    /\ Receiving /\ gameState \in {"waiting", "playing"} /\ OnTime
    /\ kind # sceneType /\ Local \in listed
    /\ switches < SwitchesPerFrame /\ switches' = switches + 1
    /\ ReplaceScene(Unscheduled, kind)
    /\ sceneType' = kind /\ gameState' = "playing"
    /\ players' = [p \in listed |-> Nil]
    /\ UNCHANGED <<connected, quitPending, alerts>>

\* The result, which may also reach a player who has just quit.
HandleGameOverInfo ==
    /\ Receiving /\ gameState # "over" /\ (OnTime \/ gameState = "quit")
    /\ TurnPage(Unscheduled, "over", FALSE)
    /\ gameState' = "over" /\ players' = NoObjects /\ connected' = FALSE
    /\ UNCHANGED <<sceneType, quitPending, alerts>>

\* The connection is lost, or the server has dropped this player.
HandleServerDisconnectedEvent ==
    /\ Receiving /\ (OnTime \/ gameState = "quit")
    /\ nodes' = Unscheduled
    /\ gameState' = "lost" /\ players' = NoObjects /\ connected' \in {connected, FALSE}
    /\ UNCHANGED <<entered, runningScene, nextScene, dispatchEvents, switches, sceneType,
                   quitPending, alerts>>

\* The delayed call of quit.
Disconnect ==
    /\ quitPending
    /\ quitPending' = FALSE /\ connected' = FALSE
    /\ UNCHANGED <<director, sceneType, gameState, players, alerts>>

\* A mutation of MayShow: any game scene takes the objects.
MayShowAny(s) == IsGame(s)

\* The scenes addNewPlayersToScene accepts.
MayShow(s) == nodes[s].kind = sceneType

\* _checkNewPlayers of a game scene whose timers fire.
CheckNewPlayers(s) ==
    /\ IsGame(s) /\ MayShow(s) /\ \E p \in DOMAIN players : players[p] = Nil
    /\ players' = [p \in DOMAIN players |-> IF players[p] = Nil THEN s ELSE players[p]]
    /\ UNCHANGED <<director, sceneType, gameState, connected, quitPending, alerts>>

-----------------------------------------------------------------------------
(* The user.                                                                *)

MayTouch(kinds) ==
    /\ dispatchEvents /\ alert = Nil
    /\ runningScene \in entered /\ nodes[runningScene].kind \in kinds

\* The home button of a game scene asks first.
AskQuit ==
    /\ MayTouch({"jump", "fight"})
    /\ alert' = runningScene
    /\ UNCHANGED <<director, game, told>>

\* _checkDisconnection of a game scene, once.
CheckDisconnection(s) ==
    /\ IsGame(s) /\ gameState = "lost" /\ alert = Nil /\ s \notin told
    /\ alert' = s /\ told' = told \cup {s}
    /\ UNCHANGED <<director, game>>

\* Alerts are above the scenes and answered at any time.  (Once the layer is
\* released there is nobody to answer to.)
MayAnswer == alert # Nil /\ alert \in entered /\ (LateAnswers \/ alert = runningScene)

\* Who is told that the connection is lost has no choice.
Resume ==
    /\ MayAnswer /\ alert \notin told
    /\ alert' = Nil
    /\ UNCHANGED <<director, game, told>>

Quit ==
    /\ MayAnswer
    /\ TurnPage(Unscheduled, "home", TRUE)
    /\ sceneType' = "none" /\ gameState' = "quit" /\ players' = NoObjects
    /\ quitPending' = TRUE /\ alert' = Nil
    /\ UNCHANGED <<connected, told>>

\* The home button of the lobby and of the result, and Play.
ReturnToMainMenu ==
    /\ MayTouch({"lobby", "over"}) /\ TurnPage(nodes, "home", TRUE)
    /\ UNCHANGED <<game, alerts>>

Play ==
    /\ MayTouch({"home"}) /\ TurnPage(nodes, "lobby", FALSE)
    /\ UNCHANGED <<game, alerts>>

\* createNewGame, when the lobby has reached the server again.
CreateNewGame ==
    /\ \E s \in entered : nodes[s].kind = "lobby"
    /\ gameState \in {"lost", "over", "quit"} /\ ~\E s \in entered : IsGame(s)
    /\ gameState' = "none" /\ sceneType' = "none" /\ players' = NoObjects
    /\ connected' = TRUE /\ quitPending' = FALSE
    /\ UNCHANGED <<director, alerts>>

-----------------------------------------------------------------------------

Turn == \E t \in Ids : Finish(t) \/ SetNewScene(t)

Next ==
    \/ SetNextScene \/ Turn
    \/ StartWithPlayerId
    \/ \E p \in Players : Announce(p) \/ Depart(p)
    \/ \E kind \in {"jump", "fight"}, listed \in SUBSET Players :
          Info(kind, listed) \/ SwitchScene(kind, listed)
    \/ HandleGameOverInfo \/ HandleServerDisconnectedEvent \/ Disconnect
    \/ \E s \in entered : CheckNewPlayers(s) \/ CheckDisconnection(s)
    \/ AskQuit \/ Resume \/ Quit \/ ReturnToMainMenu \/ Play
    \/ CreateNewGame

Spec == Init /\ [][Next]_vars

\* Frames are drawn, actions advance and timers fire.
FairSpec == Spec /\ WF_vars(SetNextScene) /\ WF_vars(Turn) /\ WF_vars(Disconnect)

-----------------------------------------------------------------------------
(* Properties.                                                              *)

\* A scene on the stage has been told so (onEnter), for its timers and the
\* actions of its nodes stand still until it is.
StageIsEntered == ~IsTurn(runningScene) => runningScene \in entered

\* When no page turns nothing runs but the scene that is seen: no scene is
\* left behind that still reads packets and takes the objects of players.
OnlyStageRuns == ~IsTurn(runningScene) => entered = {runningScene}

\* The object of a player is displayed where it can be seen, though objects
\* are made by packets, and scenes change behind their back.
ShownOnStage ==
    \A p \in DOMAIN players : players[p] # Nil => players[p] \in Seen(runningScene)

\* Every page turn that takes the touches away gives them back, also when the
\* result arrives while the page to the main menu turns.
TouchesReturn == ~dispatchEvents ~> dispatchEvents

\* The player does get away from a game that has ended or was quit: to its
\* result or to the main menu.
GameIsLeft ==
    gameState \in {"over", "quit"} ~> nodes[runningScene].kind \in {"over", "home", "lobby"}

=============================================================================
