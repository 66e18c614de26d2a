------------------------------ MODULE Jumper ------------------------------
(***************************************************************************)
(* One jumper on the hill: src/KOTH/Classes/Jumper.m, with what it inherits *)
(* from Player.m and the platforms of Platform.mm it stands on.             *)
(*                                                                         *)
(* While the room waits a jumper wanders on its platform: a delayed call    *)
(* starts the first way, and the end of each way the next one.  The         *)
(* countdown walks it back to where it was announced.  The first JumpInfo   *)
(* ends all that: from then on the model moves the view.  A paused jumper   *)
(* blinks, a fallen one is shown by another sprite; whatever stops the      *)
(* actions of the view stops its blinking, too.                             *)
(*                                                                         *)
(* A jumper is a record, and each method of the class an operator on it.    *)
(* Lengths are in units of 10 points, and posY is that of the feet          *)
(* (posY_ - halfHeight).  Speed and acceleration are the way of one frame.  *)
(* Rotation, name, sounds and the camera are left out, and so is a jumper   *)
(* that was removed: a delayed call that still comes to it moves nothing    *)
(* that is seen.                                                            *)
(***************************************************************************)
EXTENDS Integers, SequencesExt

CONSTANTS
    Platforms,     \* allPlatforms: [left, right, level], as PlatformRock makes them
    MaxX, MaxY,    \* the hill is 0..MaxX wide; feet are between Bottom and MaxY
    MaxMove        \* bound: the longest way in one frame, in either direction

Bottom == -1        \* stands for -200, where nobody is seen
Margin == 1         \* what a wanderer keeps from the edge of its platform
TurnAt == 2         \* so near to an edge it turns back

Xs    == 0..MaxX
ViewX == (-Margin)..(MaxX + Margin)
Feet  == Bottom..MaxY

\* The rocks reach from 4.5 to 488.5 points, the hill is 480 wide.
ASSUME HillAssumption ==
    /\ MaxX \in Nat /\ MaxY \in Nat /\ MaxMove \in Nat
    /\ Platforms \subseteq [left: ViewX, right: ViewX, level: 0..MaxY]
    /\ \A rock \in Platforms : rock.left < rock.right

VARIABLES
    jumper,
    gameState   \* of the GameController

vars == <<jumper, gameState>>

\* An action on the view: a way, and what the sequence does when it is over.
Way == [then: {"wander", "stop"}, from: ViewX, to: ViewX, arrived: BOOLEAN]

JumperRecord ==
    [stage: {"created", "displayed", "removed"},
     posX: Xs, posY: Feet,
     viewX: ViewX,                \* view_.position.x
     ways: Seq(Way),              \* the ways that run on view_, in the order they were added
     delayed: BOOLEAN,            \* the delayed _wanderNext
     isWandering: BOOLEAN,
     leftXBound: Int, rightXBound: Int, startXPosition: Xs,
     isPaused: BOOLEAN, isFrozen: BOOLEAN, isFallen: BOOLEAN,
     viewVisible: BOOLEAN, fallenVisible: BOOLEAN,
     blinks: BOOLEAN]             \* the blink action runs on view_

TypeOK ==
    /\ jumper \in JumperRecord /\ Len(jumper.ways) <= 2
    /\ gameState \in {"waitingOthers", "countdownToGame", "jumping"}

-----------------------------------------------------------------------------
(* The platforms.                                                           *)

\* The platforms under the feet of somebody at x, y, or at them.
Under(x, y) ==
    {rock \in Platforms : x >= rock.left /\ x <= rock.right /\ y >= rock.level}

\* nearestPlatformPositionForX:andY:
NearestPlatformPosition(x, y) ==
    IF Under(x, y) = {} THEN Bottom ELSE Max({rock.level : rock \in Under(x, y)})

\* platformRangeForX:andY:leftX:rightX:
PlatformRange(x, y) ==
    IF Under(x, y) = {} THEN [left |-> 0, right |-> MaxX]
    ELSE CHOOSE rock \in Under(x, y) : rock.level = NearestPlatformPosition(x, y)

-----------------------------------------------------------------------------
(* Methods.                                                                 *)

\* jumperWithId: the view stands where the model does.
NewJumper(x, y) ==
    [stage |-> "created", posX |-> x, posY |-> y, viewX |-> x, ways |-> <<>>,
     delayed |-> FALSE, isWandering |-> FALSE,
     leftXBound |-> 0, rightXBound |-> 0, startXPosition |-> 0,
     isPaused |-> FALSE, isFrozen |-> FALSE, isFallen |-> FALSE,
     viewVisible |-> TRUE, fallenVisible |-> FALSE, blinks |-> FALSE]

\* stopAllActions of the view.
StoppedActions(j) == [j EXCEPT !.ways = <<>>, !.blinks = FALSE]

\* stopWandering.  Nobody reads the bounds and the start any more: the model
\* forgets them.
StopWandering(j) ==
    [StoppedActions(j) EXCEPT !.isWandering = FALSE,
                              !.leftXBound = 0, !.rightXBound = 0, !.startXPosition = 0]

\* A mutation of StartWandering: the start is taken where the wanderer may be.
StartWanderingInside(j, leftX, rightX) ==
    [j EXCEPT !.isWandering = TRUE, !.leftXBound = leftX, !.rightXBound = rightX,
              !.startXPosition = Max({j.viewX, leftX}), !.delayed = TRUE]

StartWandering(j, leftX, rightX) ==
    [j EXCEPT !.isWandering = TRUE, !.leftXBound = leftX, !.rightXBound = rightX,
              !.startXPosition = j.viewX, !.delayed = TRUE]

\* toStartPositionForMaxTime: a way of no length, too, ends by stopWandering.
ToStartPosition(j) ==
    [StoppedActions(j) EXCEPT
        !.ways = <<[then |-> "stop", from |-> j.viewX, to |-> j.startXPosition,
                    arrived |-> FALSE]>>]

\* A mutation of Destinations: an edge in the back is not looked for.
DestinationsAhead(j) ==
    LET range   == j.rightXBound - j.leftXBound
        lengths == {d \in 0..range : 4 * d >= range}
    IN  {Max({j.viewX - d, j.leftXBound}) : d \in lengths} \cup {j.viewX + d : d \in lengths}

\* The ends _wanderNext may choose.  It turns where an edge is near, then walks
\* a quarter of the range or more, but not over the edge.
Destinations(j) ==
    LET range     == j.rightXBound - j.leftXBound
        nearLeft  == j.viewX - j.leftXBound < TurnAt
        nearRight == j.rightXBound - j.viewX < TurnAt
        toLeft    == {left \in BOOLEAN : IF nearRight THEN left ELSE left => ~nearLeft}
        lengths   == {d \in 0..range : 4 * d >= range}
    IN  UNION {{IF left THEN Max({j.viewX - d, j.leftXBound})
                        ELSE Min({j.viewX + d, j.rightXBound}) : d \in lengths}
               : left \in toLeft}

\* A mutation of WanderNext: it does not ask whether the jumper wanders still.
WanderNextAnyway(j) ==
    {[j EXCEPT !.ways = Append(@, [then |-> "wander", from |-> j.viewX, to |-> x,
                                   arrived |-> FALSE])] : x \in Destinations(j)}

\* _wanderNext: the jumper with another way to go, or as it is.
WanderNext(j) ==
    IF ~j.isWandering THEN {j}
    ELSE {[j EXCEPT !.ways = Append(@, [then |-> "wander", from |-> j.viewX, to |-> x,
                                        arrived |-> FALSE])] : x \in Destinations(j)}

\* A mutation of SetIsFallen: a paused jumper gets up unseen.
SetIsFallenUnseen(j, isFallen) ==
    IF j.isPaused THEN [j EXCEPT !.isFallen = isFallen]
    ELSE [j EXCEPT !.isFallen = isFallen,
                   !.viewVisible   = IF isFallen = j.isFallen THEN @ ELSE ~isFallen,
                   !.fallenVisible = IF isFallen = j.isFallen THEN @ ELSE isFallen]

\* setIsFallen: a paused jumper neither falls nor gets up.
SetIsFallen(j, isFallen) ==
    IF j.isPaused \/ isFallen = j.isFallen THEN j
    ELSE [j EXCEPT !.isFallen = isFallen, !.viewVisible = ~isFallen,
                   !.fallenVisible = isFallen]

\* setIsPaused of the Player.
SetIsPaused(j, isPaused) ==
    IF isPaused = j.isPaused THEN j
    ELSE [j EXCEPT !.isPaused = isPaused, !.blinks = isPaused,
                   !.viewVisible = IF isPaused THEN @ ELSE TRUE]

\* A mutation of OvershootFixed: the platforms under the new place count.
OvershootMissed(x, y, prevY) == Max({y, NearestPlatformPosition(x, y)})

\* The end of _updateModel: no overshoot through the platform that was below.
OvershootFixed(x, y, prevY) == Max({y, NearestPlatformPosition(x, prevY)})

\* _updateModel, after a way of dx and dy.
Modelled(j, dx, dy) ==
    IF j.isFrozen THEN j
    ELSE [j EXCEPT !.posX = j.posX + dx,
                   !.posY = OvershootFixed(j.posX + dx, j.posY + dy, j.posY)]

\* _updateJumper, in the order of the code, and the end of _handleJumpInfo.
AfterInfo(j, x, y, isFallen, isPaused) ==
    LET standing == IF j.isWandering THEN StopWandering(j) ELSE j
    IN  [SetIsPaused([SetIsFallen(standing, isFallen) EXCEPT !.posX = x, !.posY = y], isPaused)
            EXCEPT !.isFrozen = FALSE]

-----------------------------------------------------------------------------
(* Actions.                                                                 *)

Exists    == jumper.stage # "removed"
Displayed == jumper.stage = "displayed"

Removed == [NewJumper(0, 0) EXCEPT !.stage = "removed"]

\* A player is announced, on the platform that is under it.
Announced(x, y) ==
    LET range == PlatformRange(x, y)
    IN  StartWandering(NewJumper(x, y), range.left + Margin, range.right - Margin)

Init ==
    /\ gameState = "waitingOthers"
    /\ \E x \in Xs, y \in 0..MaxY : jumper = Announced(x, y)

\* It is announced again after it had left.
HandleConnectedPlayer(x, y) ==
    /\ ~Exists
    /\ jumper' = Announced(x, y)
    /\ UNCHANGED gameState

\* addNewPlayersToScene, in a later frame.
AddToScene ==
    /\ jumper.stage = "created"
    /\ jumper' = [jumper EXCEPT !.stage = "displayed"]
    /\ UNCHANGED gameState

\* The player has left the waiting room, or a list does not have it.
RemoveFromScene ==
    /\ Exists
    /\ jumper' = Removed
    /\ gameState' \in {gameState, "jumping"} \ {"countdownToGame"}

HandleCountdownToGame ==
    /\ gameState = "waitingOthers"
    /\ gameState' = "countdownToGame"
    /\ jumper' = IF Exists THEN ToStartPosition(jumper) ELSE jumper

\* _handleJumpInfo for this player, whose jumper is made if there is none.
HandleJumpInfo(x, y, isFallen, isPaused) ==
    /\ gameState' = "jumping"
    /\ jumper' = AfterInfo(IF Exists THEN jumper ELSE NewJumper(x, y), x, y, isFallen, isPaused)

\* update: of the GameController, when the server is silent for too long.
Freeze ==
    /\ Exists /\ gameState = "jumping"
    /\ jumper' = [SetIsPaused(jumper, TRUE) EXCEPT !.isFrozen = TRUE]
    /\ UNCHANGED gameState

\* The delayed call comes, whatever the jumper does by then.
FirstWander ==
    /\ jumper.delayed
    /\ jumper' \in WanderNext([jumper EXCEPT !.delayed = FALSE])
    /\ UNCHANGED gameState

\* Actions run in the order they were added: a way of no length is over before
\* one that was added after it begins.
MayRun(i) ==
    /\ Displayed
    /\ \A before \in 1..(i - 1) :
          LET way == jumper.ways[before] IN way.arrived \/ way.from # way.to

\* A frame of a way.
Walk(i) ==
    /\ MayRun(i) /\ ~jumper.ways[i].arrived
    /\ LET way == jumper.ways[i]
       IN  \E x \in Min({way.from, way.to})..Max({way.from, way.to}) :
              jumper' = [jumper EXCEPT !.viewX = x]
    /\ UNCHANGED gameState

\* The last one.  Who is back at the start stands; who wanders has a break.
Arrive(i) ==
    /\ MayRun(i) /\ ~jumper.ways[i].arrived
    /\ LET way  == jumper.ways[i]
           there == [jumper EXCEPT !.viewX = way.to, !.ways[i].arrived = TRUE]
       IN  jumper' = IF way.then = "stop" THEN StopWandering(there) ELSE there
    /\ UNCHANGED gameState

\* The break is over: the call that ends the sequence starts the next one.
WanderOn(i) ==
    /\ MayRun(i) /\ jumper.ways[i].arrived
    /\ jumper' \in WanderNext([jumper EXCEPT !.ways = RemoveAt(@, i)])
    /\ UNCHANGED gameState

\* update: of a frame.
Update ==
    /\ Displayed /\ ~jumper.isWandering
    /\ \E dx, dy \in (-MaxMove)..MaxMove :
          /\ jumper.posX + dx \in Xs
          /\ jumper.posY + dy \in Feet
          /\ LET moved == Modelled(jumper, dx, dy)
             IN  jumper' = [moved EXCEPT !.viewX = moved.posX]
    /\ UNCHANGED gameState

\* A frame of the blink action.
Blink ==
    /\ Displayed /\ jumper.blinks
    /\ jumper' = [jumper EXCEPT !.viewVisible = ~@]
    /\ UNCHANGED gameState

Next ==
    \/ \E x \in Xs, y \in 0..MaxY : HandleConnectedPlayer(x, y)
    \/ AddToScene \/ RemoveFromScene
    \/ HandleCountdownToGame
    \/ \E x \in Xs, y \in Feet, isFallen, isPaused \in BOOLEAN :
          HandleJumpInfo(x, y, isFallen, isPaused)
    \/ Freeze
    \/ FirstWander
    \/ \E i \in DOMAIN jumper.ways : Walk(i) \/ Arrive(i) \/ WanderOn(i)
    \/ Update \/ Blink

Spec == Init /\ [][Next]_vars

-----------------------------------------------------------------------------
(* Properties.                                                              *)

\* The view has one mover, at any time.  Once a jumper does not wander any more,
\* no way, no end of a way and no delayed call moves it behind the back of the
\* model; and as long as it wanders, and so takes no model, the delayed call, a
\* way or the way back to its start is under way, however arrivals and the
\* countdown fall together.
OneMover ==
    /\ ~jumper.isWandering => jumper.ways = <<>>
    /\ Exists /\ jumper.isWandering => jumper.delayed \/ jumper.ways # <<>>

\* Nobody wanders off the platform it was announced on, though it may have been
\* put nearer to the edge than a wanderer may go.
StaysOnPlatform ==
    jumper.isWandering =>
        jumper.viewX \in (jumper.leftXBound - Margin)..(jumper.rightXBound + Margin)

\* Falls, pauses, silences of the server and blinking may overlap.  When all of
\* them are over the standing jumper is seen, and no fallen one; and one that is
\* not paused never vanishes.
ShowsItsState ==
    ~jumper.isPaused =>
        /\ jumper.viewVisible \/ jumper.fallenVisible
        /\ ~jumper.isFallen => jumper.viewVisible /\ ~jumper.fallenVisible

\* A frame does not take a jumper through a platform, however far it falls and
\* wherever it goes sideways meanwhile.
NoOvershoot ==
    [][Update =>
          \A rock \in Platforms :
              (rock.left <= jumper'.posX /\ jumper'.posX <= rock.right
                  /\ jumper.posY >= rock.level) => jumper'.posY >= rock.level]_vars

\* When the walk back that the countdown started is over, the model takes the
\* view over where it stands: no other way has led it elsewhere meanwhile.
TakenOverInPlace ==
    [][(jumper.isWandering /\ ~jumper'.isWandering /\ Exists' /\ gameState' = "countdownToGame")
          => jumper'.viewX = jumper'.posX]_vars

=============================================================================
