------------------------------ MODULE Fighter ------------------------------
(***************************************************************************)
(* One fighter on the platform: src/KOTH/Classes/Fighter.m, with what it    *)
(* inherits from Player.m.                                                  *)
(*                                                                         *)
(* Five parties change the same few fields: the infos of the server         *)
(* (_updateFighter of the GameController, a fixed sequence of setters), the *)
(* frame timer, the touches of the local player, the ends of the animations *)
(* that hits and crashes run on the view, and the timer of a lonely fighter *)
(* that is about to eat grass.  Animations are never stopped: their ends    *)
(* come whatever the fighter is doing by then.                              *)
(*                                                                         *)
(* A fighter is a record, and each method of the class an operator on it.   *)
(* awaitedAttackerHitResult_ is set and reset within one info and is not    *)
(* kept.  Sounds other than the eating loop, and sprites, are left out.     *)
(***************************************************************************)
EXTENDS Integers

CONSTANTS
    MaxPlace,    \* the server puts fighters on 0..MaxPlace
    Beyond,      \* how far from there a touch may lead: the code has no limit
    MovingStep,  \* MOVING_STEP, in places
    MaxStride,   \* the longest way in one frame
    MaxActions   \* animations of one kind that run at once

ASSUME PlaceAssumption ==
    MaxPlace \in Nat /\ Beyond \in Nat /\ MovingStep \in Nat \ {0} /\ MaxStride \in Nat \ {0}
ASSUME ActionsAssumption == MaxActions \in Nat \ {0}

VARIABLE fighter

Places     == 0..MaxPlace
Ways       == (-Beyond)..(MaxPlace + Beyond)
States     == {"standing", "clientMovement", "followServerMovement", "hitting",
               "crashing", "frozen"}
HitResults == {"none", "hit", "crash"}  \* "crash": fhrCrash is set; "hit": another bit is

FighterRecord ==
    [stage: {"created", "displayed", "removed"},
     state: States,
     isActionMovement: BOOLEAN,   \* the view leads and the model follows
     isPaused: BOOLEAN,
     srvIsHitting: BOOLEAN, isCrashed: BOOLEAN,   \* isCrashed: fhrCrash of hitResult_
     isWaiting: BOOLEAN,          \* isWaitingForServerHitResult_
     raising: Nat, falling: Nat,  \* animations of a hit and of a crash that run
     isAlone: BOOLEAN, isEating: BOOLEAN,
     eatSound: BOOLEAN, eatTimer: BOOLEAN,   \* eatSoundId_ # 0; _startEatingGrass is scheduled
     posX: Int, srvPosX: Places, localXTarget: Int,
     direction: BOOLEAN, srvDirection: BOOLEAN, flipX: BOOLEAN]   \* TRUE: to the left

\* The way that is left of a movement of the local player.
WithinStep(f) ==
    (f.state = "clientMovement" /\ ~f.isActionMovement) =>
        IF f.direction THEN f.localXTarget \in (f.posX - MovingStep)..f.posX
                       ELSE f.localXTarget \in f.posX..(f.posX + MovingStep)

\* Every field keeps its range; and though nothing keeps a place on the platform,
\* a touch leads at most one step away, and not past its target.
TypeOK == fighter \in FighterRecord /\ WithinStep(fighter)

NewFighter(x) ==
    [stage |-> "created", state |-> "standing", isActionMovement |-> FALSE, isPaused |-> FALSE,
     srvIsHitting |-> FALSE, isCrashed |-> FALSE, isWaiting |-> FALSE,
     raising |-> 0, falling |-> 0,
     isAlone |-> FALSE, isEating |-> FALSE, eatSound |-> FALSE, eatTimer |-> FALSE,
     posX |-> x, srvPosX |-> x, localXTarget |-> 0,
     direction |-> FALSE, srvDirection |-> FALSE, flipX |-> FALSE]

Init == \E x \in Places : fighter = NewFighter(x)

-----------------------------------------------------------------------------
(* Methods.                                                                 *)

\* A mutation of StoppedEating: the timer is forgotten.
SilencedEating(f) == [f EXCEPT !.eatSound = FALSE]

\* _stopEatingGrass.
StoppedEating(f) == [f EXCEPT !.eatSound = FALSE, !.eatTimer = FALSE]

\* Mutations of StoppedAction: the state, or the lead of the view, is kept.
StoppedMovement(f) ==
    [f EXCEPT !.isActionMovement = FALSE, !.posX = f.srvPosX,
              !.direction = f.srvDirection, !.flipX = f.srvDirection]
StoppedState(f) == [f EXCEPT !.state = "standing", !.posX = f.srvPosX]

\* _stopActionMovement: the model leads again, from where the server is.
StoppedAction(f) ==
    [f EXCEPT !.isActionMovement = FALSE, !.posX = f.srvPosX,
              !.direction = f.srvDirection, !.flipX = f.srvDirection,
              !.state = "standing"]

\* setIsHitting, its first half: a new hit raises the arm.
HitStarted(f, isHitting) ==
    LET starts == isHitting /\ ~f.srvIsHitting /\ f.state # "hitting"
        raised == [StoppedEating(f) EXCEPT !.state = "hitting", !.isActionMovement = TRUE,
                                           !.raising = @ + 1]
    IN  [(IF starts THEN raised ELSE f) EXCEPT !.srvIsHitting = isHitting]

\* Its second half: the result of a hit whose arm is up ends it.
HitEnded(f, result) ==
    IF f.isWaiting /\ result # "none"
    THEN StoppedAction([f EXCEPT !.isWaiting = FALSE, !.eatTimer = @ \/ f.isEating])
    ELSE f

SetIsHitting(f, isHitting, result) ==
    IF f.stage = "displayed" THEN HitEnded(HitStarted(f, isHitting), result) ELSE f

\* setHitResult: the fighter is the one who was hit.
SetHitResult(f, result) ==
    LET crashes == result = "crash" /\ ~f.isCrashed /\ f.state # "crashing"
        crashed == [f EXCEPT !.state = "crashing", !.isActionMovement = TRUE,
                             !.falling = @ + 1]
    IN  IF f.stage = "displayed"
        THEN [(IF crashes THEN crashed ELSE f) EXCEPT !.isCrashed = (result = "crash")]
        ELSE f

SetSrvPos(f, x, dir) == [f EXCEPT !.srvPosX = x, !.srvDirection = dir]

SetIsAlone(f, isAlone) ==
    LET changed ==
          IF isAlone /\ ~f.isAlone THEN [f EXCEPT !.eatTimer = TRUE]
          ELSE IF ~isAlone /\ f.isAlone THEN StoppedEating([f EXCEPT !.isEating = FALSE])
          ELSE f
    IN  [changed EXCEPT !.isAlone = isAlone]

\* A mutation of SetIsPaused: who is no longer paused stays frozen.
SetIsPausedOnce(f, isPaused) ==
    [f EXCEPT !.isPaused = isPaused,
              !.state = IF isPaused /\ ~f.isPaused THEN "frozen" ELSE @]

SetIsPaused(f, isPaused) ==
    [f EXCEPT !.isPaused = isPaused,
              !.state = IF isPaused = f.isPaused THEN @
                        ELSE IF isPaused THEN "frozen" ELSE "standing"]

\* Mutations of Moved: no way is cut short, or the way to the left is not.
MovedFree(x, target, toLeft, d) ==
    IF x = target THEN x ELSE IF toLeft THEN x - d ELSE x + d
MovedPast(x, target, toLeft, d) ==
    IF x = target THEN x
    ELSE IF toLeft THEN x - d
    ELSE IF x + d > target THEN target ELSE x + d

\* _moveToX: a way in the wrong direction ends at the target at once.
Moved(x, target, toLeft, d) ==
    IF x = target THEN x
    ELSE IF toLeft THEN IF x - d < target THEN target ELSE x - d
    ELSE IF x + d > target THEN target ELSE x + d

\* The movement on the client ends once the server is ahead, or here too.
ServerIsAhead(f, x) ==
    \/ ~f.srvDirection /\ ~f.direction /\ f.srvPosX > x
    \/ f.srvDirection /\ f.direction /\ f.srvPosX < x
    \/ f.srvPosX = x

\* _modelState.
Modelled(f, d) ==
    LET local    == Moved(f.posX, f.localXTarget, f.direction, d)
        followed == Moved(f.posX, f.srvPosX, f.srvDirection, d)
    IN  CASE f.state = "standing" ->
               [f EXCEPT !.direction = f.srvDirection,
                         !.state = IF f.posX # f.srvPosX THEN "followServerMovement" ELSE @]
          [] f.state = "clientMovement" ->
               [f EXCEPT !.posX = local,
                         !.state = IF ServerIsAhead(f, local) THEN "standing" ELSE @]
          [] f.state = "followServerMovement" ->
               [f EXCEPT !.direction = f.srvDirection, !.posX = followed,
                         !.state = IF followed = f.srvPosX THEN "standing" ELSE @]
          [] OTHER -> f

\* _updateView, when the animations have brought the view to x.
Viewed(f, x) ==
    IF f.isActionMovement THEN [f EXCEPT !.posX = x, !.direction = f.flipX]
    ELSE [f EXCEPT !.flipX = f.direction]

-----------------------------------------------------------------------------
(* Actions.                                                                 *)

Displayed == fighter.stage = "displayed"
Exists    == fighter.stage # "removed"

\* addNewPlayersToScene, in a frame after the one that created the fighter.
AddToScene ==
    /\ fighter.stage = "created"
    /\ fighter' = [fighter EXCEPT !.stage = "displayed"]

\* The animations on the view and the timers are dropped with it.
RemoveFromScene ==
    /\ Exists
    /\ fighter' = [fighter EXCEPT !.stage = "removed", !.raising = 0, !.falling = 0,
                                  !.eatSound = FALSE, !.eatTimer = FALSE]

\* _addFighter: another object, for a player that is listed again.
AddFighter(x) ==
    /\ ~Exists
    /\ fighter' = NewFighter(x)

\* _updateFighter, in the order of the code.
AfterInfo(f, isHitting, result, x, dir, isAlone, isPaused) ==
    SetIsPaused(
        SetIsAlone(
            SetSrvPos(
                SetHitResult(SetIsHitting(f, isHitting, result), result), x, dir),
            isAlone),
        isPaused)

UpdateFighter(isHitting, result, x, dir, isAlone, isPaused) ==
    /\ Exists
    /\ fighter' = AfterInfo(fighter, isHitting, result, x, dir, isAlone, isPaused)
    /\ fighter'.raising <= MaxActions /\ fighter'.falling <= MaxActions

\* update: of the GameController, when the server is silent for too long.
Freeze ==
    /\ Exists
    /\ fighter' = SetIsPaused(fighter, TRUE)

\* A touch.  It may lead off the platform; Ways is the bound of an instance.
MoveOnClientToDirection(toLeft) ==
    /\ Displayed /\ fighter.state = "standing"
    /\ LET target == IF toLeft THEN fighter.posX - MovingStep ELSE fighter.posX + MovingStep
       IN  /\ target \in Ways
           /\ fighter' = [fighter EXCEPT !.direction = toLeft, !.state = "clientMovement",
                                         !.localXTarget = target]

Update ==
    /\ Displayed
    /\ \E d \in 1..MaxStride, x \in Ways : fighter' = Viewed(Modelled(fighter, d), x)

\* A mutation of ArmRaised: the block at the end of the animation is lost.
ArmRaisedOnly(f) == [f EXCEPT !.raising = @ - 1]

ArmRaised(f) == [f EXCEPT !.raising = @ - 1, !.isWaiting = TRUE]

\* The first animation of a hit has ended.
RaiseArm ==
    /\ fighter.raising > 0
    /\ fighter' = ArmRaised(fighter)

\* The animation of a crash has ended.
StopCrashing ==
    /\ fighter.falling > 0
    /\ fighter' = StoppedAction([fighter EXCEPT !.falling = @ - 1])

StartEatingGrass ==
    /\ fighter.eatTimer
    /\ fighter' = [fighter EXCEPT !.eatSound = TRUE, !.isEating = TRUE, !.eatTimer = FALSE]

Info(result) ==
    \E isHitting, dir, isAlone, isPaused \in BOOLEAN, x \in Places :
        UpdateFighter(isHitting, result, x, dir, isAlone, isPaused)

Next ==
    \/ AddToScene \/ RemoveFromScene
    \/ \E x \in Places : AddFighter(x)
    \/ \E result \in HitResults : Info(result)
    \/ Freeze
    \/ \E toLeft \in BOOLEAN : MoveOnClientToDirection(toLeft)
    \/ Update
    \/ RaiseArm \/ StopCrashing \/ StartEatingGrass

Spec == Init /\ [][Next]_fighter

\* Animations end, and a result is sent again and again: the client looks for
\* the rise of isHitting and of fhrCrash, so these are levels that last for
\* several infos.
Fairness ==
    /\ WF_fighter(RaiseArm)
    /\ WF_fighter(StopCrashing)
    /\ WF_fighter(Info("hit") \/ Info("crash"))

FairSpec == Spec /\ Fairness

-----------------------------------------------------------------------------
(* Properties.                                                              *)

\* While a fighter hits or falls its view leads: nobody has given the lead
\* back to the model, whose position would tear it out of the animation.
ActionOwnsPosition ==
    fighter.state \in {"hitting", "crashing"} => fighter.isActionMovement

\* The lead of the view is given back some day: an animation is still to end,
\* or an arm is up that the next result will lower.  Else the fighter could
\* never move again, for _updateView would undo every movement.
LeadIsReturned ==
    (Exists /\ fighter.isActionMovement) =>
        fighter.raising > 0 \/ fighter.isWaiting \/ fighter.falling > 0

\* Nobody is left frozen: the pause that froze a fighter still lasts.
FrozenMeansPaused == fighter.state = "frozen" => fighter.isPaused

\* Only a lonely fighter eats, or is about to: neither the end of a hit nor a
\* timer brings the sound back once somebody else has come.
EatsAlone ==
    (fighter.eatSound \/ fighter.eatTimer \/ fighter.isEating) => fighter.isAlone

\* A fighter that follows the server comes nearer in every frame and never
\* passes it, also when the server looks the other way.
FollowComesNearer ==
    [][(fighter.state = "followServerMovement" /\ ~fighter.isActionMovement /\ Update) =>
          LET now == fighter.posX  next == fighter'.posX  goal == fighter.srvPosX
          IN  \/ next = goal
              \/ now < next /\ next < goal
              \/ goal < next /\ next < now]_fighter

\* A hit ends, whatever else befalls the fighter.
HitEnds ==
    (Displayed /\ fighter.state = "hitting") ~> ~(Displayed /\ fighter.state = "hitting")

\* Likewise, although a hit may have begun before the crash and end during it.
CrashEnds ==
    (Displayed /\ fighter.state = "crashing") ~> ~(Displayed /\ fighter.state = "crashing")

=============================================================================
