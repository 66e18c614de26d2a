--------------------------- MODULE Fighter_proofs ---------------------------
(***************************************************************************)
(* What a fighter keeps for every platform, every stride and any number of  *)
(* animations at once.                                                      *)
(*                                                                         *)
(* The invariants are about one record, and are proved of each method       *)
(* in turn: an info is a sequence of methods, so a Sound record stays Sound *)
(* all the way through it.                                                  *)
(***************************************************************************)
EXTENDS Fighter, TLAPS

\* The invariants, of any fighter.
OwnsPosition(f) == f.state \in {"hitting", "crashing"} => f.isActionMovement
ReturnsLead(f)  == (f.stage # "removed" /\ f.isActionMovement) =>
                       f.raising > 0 \/ f.isWaiting \/ f.falling > 0
FrozenIsPaused(f) == f.state = "frozen" => f.isPaused
EatsOnlyAlone(f)  == (f.eatSound \/ f.eatTimer \/ f.isEating) => f.isAlone

Sound(f) == /\ f \in FighterRecord
            /\ OwnsPosition(f)
            /\ ReturnsLead(f)
            /\ FrozenIsPaused(f)
            /\ EatsOnlyAlone(f)
            /\ WithinStep(f)

\* The inductive invariant.
FighterIsSound == Sound(fighter)

-----------------------------------------------------------------------------
(* The methods.                                                             *)

\* Every place is a number.
LEMMA PlacesAreInt == Places \subseteq Int /\ Ways \subseteq Int
BY PlaceAssumption DEF Places, Ways

\* A new fighter stands where it was put.
LEMMA NewFighterSound == ASSUME NEW x \in Places PROVE Sound(NewFighter(x))
<1>1. NewFighter(x) \in FighterRecord
  BY PlaceAssumption DEF NewFighter, FighterRecord, States, Places
<1> QED
  BY <1>1 DEF Sound, NewFighter, OwnsPosition, ReturnsLead, FrozenIsPaused, EatsOnlyAlone, WithinStep

\* The end of an animation leaves a fighter that stands and leads itself.
LEMMA StoppedActionSound ==
    ASSUME NEW f \in FighterRecord, EatsOnlyAlone(f)
    PROVE  Sound(StoppedAction(f))
<1>1. StoppedAction(f) \in FighterRecord
  BY PlacesAreInt DEF StoppedAction, FighterRecord, States
<1> QED
  BY <1>1 DEF FighterRecord, Sound, StoppedAction, OwnsPosition, ReturnsLead, FrozenIsPaused,
              EatsOnlyAlone, WithinStep

\* A hit raises the arm and hands the lead to the view.
LEMMA RaisedType ==
    ASSUME NEW g \in FighterRecord
    PROVE  [g EXCEPT !.state = "hitting", !.isActionMovement = TRUE,
                     !.raising = @ + 1] \in FighterRecord
<1>1. g.raising + 1 \in Nat
  BY DEF FighterRecord
<1> QED
  BY <1>1 DEF FighterRecord, States

\* Hits. A new one takes the lead and starts the animation that will end it.
LEMMA HitStartedSound ==
    ASSUME NEW f, Sound(f), NEW isHitting \in BOOLEAN
    PROVE  Sound(HitStarted(f, isHitting))
<1>1. HitStarted(f, isHitting) \in FighterRecord
  <2> DEFINE g == StoppedEating(f)
             raised == [g EXCEPT !.state = "hitting", !.isActionMovement = TRUE,
                                 !.raising = @ + 1]
             h == IF isHitting /\ ~f.srvIsHitting /\ f.state # "hitting" THEN raised ELSE f
  <2>1. g \in FighterRecord
    BY DEF Sound, StoppedEating, FighterRecord
  <2>2. raised \in FighterRecord
    BY <2>1, RaisedType
  <2>3. h \in FighterRecord
    BY <2>2 DEF Sound
  <2>4. [h EXCEPT !.srvIsHitting = isHitting] \in FighterRecord
    <3> HIDE DEF h
    <3> QED
      BY <2>3 DEF FighterRecord
  <2>5. HitStarted(f, isHitting) = [h EXCEPT !.srvIsHitting = isHitting]
    BY DEF HitStarted
  <2> HIDE DEF h
  <2> QED
    BY <2>4, <2>5
<1>2. CASE isHitting /\ ~f.srvIsHitting /\ f.state # "hitting"
  BY <1>1, <1>2 DEF FighterRecord, Sound, HitStarted, StoppedEating, OwnsPosition, ReturnsLead,
                    FrozenIsPaused, EatsOnlyAlone, WithinStep
<1>3. CASE ~(isHitting /\ ~f.srvIsHitting /\ f.state # "hitting")
  BY <1>1, <1>3 DEF FighterRecord, Sound, HitStarted, StoppedEating, OwnsPosition, ReturnsLead,
                    FrozenIsPaused, EatsOnlyAlone, WithinStep
<1> QED
  BY <1>2, <1>3

\* Its result gives the lead back, and the hunger of a lonely fighter.
LEMMA SetIsHittingSound ==
    ASSUME NEW f, Sound(f), NEW isHitting \in BOOLEAN, NEW result \in HitResults
    PROVE  Sound(SetIsHitting(f, isHitting, result))
<1> DEFINE g == HitStarted(f, isHitting)
           h == [g EXCEPT !.isWaiting = FALSE, !.eatTimer = @ \/ g.isEating]
<1>1. Sound(g)
  BY HitStartedSound
<1>2. h \in FighterRecord /\ EatsOnlyAlone(h)
  <2> HIDE DEF g
  <2> QED
    BY <1>1 DEF Sound, FighterRecord, EatsOnlyAlone
<1>3. Sound(StoppedAction(h))
  BY <1>2, StoppedActionSound
<1>4. Sound(HitEnded(g, result))
  BY <1>1, <1>3 DEF HitEnded
<1> QED
  BY <1>4 DEF SetIsHitting

\* A crash hands the lead to the view as well.
LEMMA FallingType ==
    ASSUME NEW f \in FighterRecord
    PROVE  [f EXCEPT !.state = "crashing", !.isActionMovement = TRUE,
                     !.falling = @ + 1] \in FighterRecord
<1>1. f.falling + 1 \in Nat
  BY DEF FighterRecord
<1> QED
  BY <1>1 DEF FighterRecord, States

\* A crash takes the lead, also from a hit.
LEMMA SetHitResultSound ==
    ASSUME NEW f, Sound(f), NEW result \in HitResults
    PROVE  Sound(SetHitResult(f, result))
<1>1. SetHitResult(f, result) \in FighterRecord
  <2> DEFINE crashed == [f EXCEPT !.state = "crashing", !.isActionMovement = TRUE,
                                  !.falling = @ + 1]
             g == IF result = "crash" /\ ~f.isCrashed /\ f.state # "crashing"
                  THEN crashed ELSE f
  <2>1. crashed \in FighterRecord
    BY FallingType DEF Sound
  <2>2. g \in FighterRecord
    BY <2>1 DEF Sound
  <2>3. [g EXCEPT !.isCrashed = (result = "crash")] \in FighterRecord
    <3> DEFINE isCrashed == result = "crash"
    <3>1. isCrashed \in BOOLEAN
      OBVIOUS
    <3> HIDE DEF g, isCrashed
    <3>2. [g EXCEPT !.isCrashed = isCrashed] \in FighterRecord
      BY <2>2, <3>1 DEF FighterRecord
    <3> QED
      BY <3>2 DEF isCrashed
  <2> QED
    BY <2>3 DEF SetHitResult, Sound
<1> QED
  BY <1>1 DEF FighterRecord, Sound, SetHitResult, OwnsPosition, ReturnsLead, FrozenIsPaused,
              EatsOnlyAlone, WithinStep

\* Where the server sees the fighter concerns none of the invariants.
LEMMA SetSrvPosSound ==
    ASSUME NEW f, Sound(f), NEW x \in Places, NEW dir \in BOOLEAN
    PROVE  Sound(SetSrvPos(f, x, dir))
<1>1. SetSrvPos(f, x, dir) \in FighterRecord
  BY DEF Sound, SetSrvPos, FighterRecord
<1> QED
  BY <1>1 DEF FighterRecord, Sound, SetSrvPos, OwnsPosition, ReturnsLead, FrozenIsPaused,
              EatsOnlyAlone, WithinStep

\* Company drops everything there is to eating; without it there was nothing.
LEMMA SetIsAloneSound ==
    ASSUME NEW f, Sound(f), NEW isAlone \in BOOLEAN
    PROVE  Sound(SetIsAlone(f, isAlone))
<1>1. SetIsAlone(f, isAlone) \in FighterRecord
  <2> DEFINE left == [f EXCEPT !.eatTimer = TRUE]
             met  == StoppedEating([f EXCEPT !.isEating = FALSE])
             g == IF isAlone /\ ~f.isAlone THEN left
                  ELSE IF ~isAlone /\ f.isAlone THEN met ELSE f
  <2>1. left \in FighterRecord /\ met \in FighterRecord
    BY DEF Sound, StoppedEating, FighterRecord
  <2>2. g \in FighterRecord
    BY <2>1 DEF Sound
  <2>3. [g EXCEPT !.isAlone = isAlone] \in FighterRecord
    <3> HIDE DEF g
    <3> QED
      BY <2>2 DEF FighterRecord
  <2> QED
    BY <2>3 DEF SetIsAlone
<1> QED
  BY <1>1 DEF FighterRecord, Sound, SetIsAlone, StoppedEating, OwnsPosition, ReturnsLead,
              FrozenIsPaused, EatsOnlyAlone, WithinStep

\* A pause freezes, its end makes the fighter stand, whatever animation runs.
LEMMA SetIsPausedSound ==
    ASSUME NEW f, Sound(f), NEW isPaused \in BOOLEAN
    PROVE  Sound(SetIsPaused(f, isPaused))
<1>1. SetIsPaused(f, isPaused) \in FighterRecord
  BY DEF Sound, SetIsPaused, FighterRecord, States
<1> QED
  BY <1>1 DEF FighterRecord, Sound, SetIsPaused, OwnsPosition, ReturnsLead, FrozenIsPaused,
              EatsOnlyAlone, WithinStep

-----------------------------------------------------------------------------
(* The frame.                                                               *)

\* A frame leads to a place.
LEMMA MovedPlace ==
    ASSUME NEW x \in Int, NEW target \in Int, NEW toLeft \in BOOLEAN, NEW d \in 1..MaxStride
    PROVE  Moved(x, target, toLeft, d) \in Int
BY PlaceAssumption DEF Moved

\* What was left of a way is a step at most, and it is still.
LEMMA MovedWithinStep ==
    ASSUME NEW x \in Int, NEW target \in Int, NEW toLeft \in BOOLEAN, NEW d \in 1..MaxStride
    PROVE  LET next == Moved(x, target, toLeft, d)
           IN  IF toLeft THEN target \in (x - MovingStep)..x => target \in (next - MovingStep)..next
               ELSE target \in x..(x + MovingStep) => target \in next..(next + MovingStep)
BY PlaceAssumption DEF Moved

\* It never passes its target, and never leads away from it.
LEMMA MovedNearer ==
    ASSUME NEW x \in Int, NEW target \in Int, NEW toLeft \in BOOLEAN, NEW d \in 1..MaxStride
    PROVE  LET next == Moved(x, target, toLeft, d)
           IN  next = target \/ (x < next /\ next < target) \/ (target < next /\ next < x)
BY PlaceAssumption DEF Moved

\* The model moves a fighter that moves, and leaves the lead where it is.
LEMMA ModelledSound ==
    ASSUME NEW f, Sound(f), NEW d \in 1..MaxStride
    PROVE  Sound(Modelled(f, d))
<1>1. Moved(f.posX, f.localXTarget, f.direction, d) \in Int
  BY MovedPlace DEF Sound, FighterRecord
<1>2. Moved(f.posX, f.srvPosX, f.srvDirection, d) \in Int
  BY MovedPlace, PlacesAreInt DEF Sound, FighterRecord
<1>3. CASE f.state = "standing"
  BY <1>3 DEF Modelled, FighterRecord, States, Sound, OwnsPosition, ReturnsLead,
              FrozenIsPaused, EatsOnlyAlone, WithinStep
<1>4. CASE f.state = "clientMovement"
  <2> DEFINE next == Moved(f.posX, f.localXTarget, f.direction, d)
             g == [f EXCEPT !.posX = next,
                            !.state = IF ServerIsAhead(f, next) THEN "standing" ELSE @]
  <2>1. Modelled(f, d) = g
    BY <1>4 DEF Modelled
  <2>2. ~f.isActionMovement =>
          IF f.direction THEN f.localXTarget \in (next - MovingStep)..next
                         ELSE f.localXTarget \in next..(next + MovingStep)
    BY <1>4, MovedWithinStep DEF Sound, WithinStep, FighterRecord
  <2> HIDE DEF next
  <2>3. g \in FighterRecord
    BY <1>1 DEF next, Sound, FighterRecord, States
  <2>4. WithinStep(g)
    BY <2>2 DEF Sound, FighterRecord, WithinStep
  <2>5. OwnsPosition(g) /\ ReturnsLead(g) /\ FrozenIsPaused(g) /\ EatsOnlyAlone(g)
    BY <1>4 DEF Sound, FighterRecord, OwnsPosition, ReturnsLead, FrozenIsPaused, EatsOnlyAlone
  <2> QED
    BY <2>1, <2>3, <2>4, <2>5 DEF Sound
<1>5. CASE f.state = "followServerMovement"
  BY <1>2, <1>5 DEF Modelled, FighterRecord, States, Sound, OwnsPosition, ReturnsLead,
                    FrozenIsPaused, EatsOnlyAlone, WithinStep
<1>6. CASE f.state \notin {"standing", "clientMovement", "followServerMovement"}
  BY <1>6 DEF Modelled
<1> QED
  BY <1>3, <1>4, <1>5, <1>6

\* Whoever leads, the other follows.
LEMMA ViewedSound ==
    ASSUME NEW f, Sound(f), NEW x \in Ways
    PROVE  Sound(Viewed(f, x))
<1>1. Viewed(f, x) \in FighterRecord
  <2>1. x \in Int
    BY PlacesAreInt
  <2> QED
    BY <2>1 DEF Sound, Viewed, FighterRecord
<1> QED
  BY <1>1 DEF FighterRecord, Sound, Viewed, OwnsPosition, ReturnsLead, FrozenIsPaused,
              EatsOnlyAlone, WithinStep

-----------------------------------------------------------------------------
(* The actions.                                                             *)

\* An info is a sequence of the methods above.
LEMMA AfterInfoSound ==
    ASSUME NEW f, Sound(f), NEW isHitting \in BOOLEAN, NEW result \in HitResults,
           NEW x \in Places, NEW dir \in BOOLEAN, NEW isAlone \in BOOLEAN,
           NEW isPaused \in BOOLEAN
    PROVE  Sound(AfterInfo(f, isHitting, result, x, dir, isAlone, isPaused))
<1> DEFINE f1 == SetIsHitting(f, isHitting, result)
           f2 == SetHitResult(f1, result)
           f3 == SetSrvPos(f2, x, dir)
           f4 == SetIsAlone(f3, isAlone)
<1>1. Sound(f1)
  BY SetIsHittingSound
<1>2. Sound(f2)
  BY <1>1, SetHitResultSound
<1>3. Sound(f3)
  BY <1>2, SetSrvPosSound
<1>4. Sound(f4)
  BY <1>3, SetIsAloneSound
<1> QED
  BY <1>4, SetIsPausedSound DEF AfterInfo

\* One case for each action of Next.
LEMMA NextSound == FighterIsSound /\ [Next]_fighter => FighterIsSound'
<1> SUFFICES ASSUME Sound(fighter), [Next]_fighter PROVE Sound(fighter')
  BY DEF FighterIsSound
<1>1. CASE AddToScene
  BY <1>1 DEF AddToScene, FighterRecord, Sound, OwnsPosition, ReturnsLead, FrozenIsPaused,
              EatsOnlyAlone, WithinStep
<1>2. CASE RemoveFromScene
  BY <1>2 DEF RemoveFromScene, FighterRecord, Sound, OwnsPosition, ReturnsLead,
              FrozenIsPaused, EatsOnlyAlone, WithinStep
<1>3. CASE \E x \in Places : AddFighter(x)
  BY <1>3, NewFighterSound DEF AddFighter
<1>4. CASE \E result \in HitResults : Info(result)
  BY <1>4, AfterInfoSound DEF Info, UpdateFighter
<1>5. CASE Freeze
  BY <1>5, SetIsPausedSound DEF Freeze
<1>6. ASSUME NEW toLeft \in BOOLEAN, MoveOnClientToDirection(toLeft) PROVE Sound(fighter')
  <2> DEFINE target == IF toLeft THEN fighter.posX - MovingStep ELSE fighter.posX + MovingStep
  <2>1. /\ target \in Int
        /\ fighter' = [fighter EXCEPT !.direction = toLeft, !.state = "clientMovement",
                                      !.localXTarget = target]
    <3>1. target \in Int
      BY PlaceAssumption DEF Sound, FighterRecord
    <3> QED
      BY <1>6, <3>1 DEF MoveOnClientToDirection
  <2>2. target = IF toLeft THEN fighter.posX - MovingStep ELSE fighter.posX + MovingStep
    OBVIOUS
  <2> HIDE DEF target
  <2>3. fighter' \in FighterRecord
    BY <2>1 DEF Sound, FighterRecord, States
  <2>4. WithinStep(fighter')
    BY <2>1, <2>2, PlaceAssumption DEF Sound, FighterRecord, WithinStep
  <2>5. /\ OwnsPosition(fighter') /\ ReturnsLead(fighter')
        /\ FrozenIsPaused(fighter') /\ EatsOnlyAlone(fighter')
    BY <2>1 DEF Sound, FighterRecord, OwnsPosition, ReturnsLead, FrozenIsPaused, EatsOnlyAlone
  <2> QED
    BY <2>3, <2>4, <2>5 DEF Sound
<1>7. CASE Update
  <2>1. PICK d \in 1..MaxStride, x \in Ways : fighter' = Viewed(Modelled(fighter, d), x)
    BY <1>7 DEF Update
  <2> QED
    BY <2>1, ModelledSound, ViewedSound
<1>8. CASE RaiseArm
  <2>1. fighter.raising - 1 \in Nat
    BY <1>8 DEF RaiseArm, FighterRecord, Sound
  <2>2. fighter' \in FighterRecord
    BY <1>8, <2>1 DEF RaiseArm, ArmRaised, FighterRecord, Sound
  <2> QED
    BY <1>8, <2>2 DEF RaiseArm, ArmRaised, FighterRecord, Sound, OwnsPosition, ReturnsLead,
                      FrozenIsPaused, EatsOnlyAlone, WithinStep
<1>9. CASE StopCrashing
  <2>1. /\ [fighter EXCEPT !.falling = @ - 1] \in FighterRecord
        /\ EatsOnlyAlone([fighter EXCEPT !.falling = @ - 1])
    BY <1>9 DEF StopCrashing, FighterRecord, Sound, EatsOnlyAlone
  <2> QED
    BY <1>9, <2>1, StoppedActionSound DEF StopCrashing
<1>10. CASE StartEatingGrass
  BY <1>10 DEF StartEatingGrass, FighterRecord, Sound, OwnsPosition, ReturnsLead,
               FrozenIsPaused, EatsOnlyAlone, WithinStep
<1> QED
  BY <1>1, <1>2, <1>3, <1>4, <1>5, <1>6, <1>7, <1>8, <1>9, <1>10 DEF Next

\* Sound is an invariant, whatever the server, the user and the timers do.
THEOREM FighterSound == Spec => []FighterIsSound
<1>1. Init => FighterIsSound
  BY NewFighterSound DEF Init, FighterIsSound
<1> QED
  BY <1>1, NextSound, PTL DEF Spec

\* Every field of a fighter keeps its range.  Nothing keeps its place on the
\* platform, but a touch leads one step away at most and not past its target.  The
\* proof uses no bound on the places that touches and views lead to.
THEOREM FighterType == Spec => []TypeOK
<1>1. FighterIsSound => TypeOK
  BY DEF FighterIsSound, Sound, TypeOK
<1> QED
  BY <1>1, FighterSound, PTL

\* While a fighter hits or falls its view leads, however many animations run.
THEOREM ViewLeads == Spec => []ActionOwnsPosition
<1>1. FighterIsSound => ActionOwnsPosition
  BY DEF FighterIsSound, Sound, OwnsPosition, ActionOwnsPosition
<1> QED
  BY <1>1, FighterSound, PTL

\* Some animation or result is still to give the lead of the view back.
THEOREM LeadKept == Spec => []LeadIsReturned
<1>1. FighterIsSound => LeadIsReturned
  BY DEF FighterIsSound, Sound, ReturnsLead, LeadIsReturned, Exists
<1> QED
  BY <1>1, FighterSound, PTL

\* A fighter is frozen only for as long as it is paused.
THEOREM FrozenOnlyPaused == Spec => []FrozenMeansPaused
<1>1. FighterIsSound => FrozenMeansPaused
  BY DEF FighterIsSound, Sound, FrozenIsPaused, FrozenMeansPaused
<1> QED
  BY <1>1, FighterSound, PTL

\* However hits, timers and company interleave, only a lonely fighter eats.
THEOREM OnlyLonelyEat == Spec => []EatsAlone
<1>1. FighterIsSound => EatsAlone
  BY DEF FighterIsSound, Sound, EatsOnlyAlone, EatsAlone
<1> QED
  BY <1>1, FighterSound, PTL

\* A frame of a fighter that follows the server is a step of _moveToX towards
\* it, and the view does not interfere.
LEMMA FollowStep ==
    ASSUME FighterIsSound, Update, fighter.state = "followServerMovement",
           ~fighter.isActionMovement
    PROVE  \/ fighter'.posX = fighter.srvPosX
           \/ fighter.posX < fighter'.posX /\ fighter'.posX < fighter.srvPosX
           \/ fighter.srvPosX < fighter'.posX /\ fighter'.posX < fighter.posX
<1>1. PICK d \in 1..MaxStride, x \in Ways : fighter' = Viewed(Modelled(fighter, d), x)
  BY DEF Update
<1>2. fighter'.posX = Moved(fighter.posX, fighter.srvPosX, fighter.srvDirection, d)
  BY <1>1 DEF Viewed, Modelled, FighterIsSound, Sound, FighterRecord
<1>3. fighter.posX \in Int /\ fighter.srvPosX \in Int /\ fighter.srvDirection \in BOOLEAN
  BY PlacesAreInt DEF FighterIsSound, Sound, FighterRecord
<1> QED
  BY <1>2, <1>3, MovedNearer

\* For every distance and every stride the fighter comes nearer.
THEOREM FollowerComesNearer == Spec => FollowComesNearer
<1>1. FighterIsSound /\ [Next]_fighter =>
        [(fighter.state = "followServerMovement" /\ ~fighter.isActionMovement /\ Update) =>
          LET now == fighter.posX  next == fighter'.posX  goal == fighter.srvPosX
          IN  \/ next = goal
              \/ now < next /\ next < goal
              \/ goal < next /\ next < now]_fighter
  BY FollowStep
<1> QED
  BY <1>1, FighterSound, PTL DEF Spec, FollowComesNearer

-----------------------------------------------------------------------------
(* The end of a hit and of a crash.                                         *)

\* What ends a crash is its own animation; what ends a hit is its own animation and
\* the result that is awaited after it.
EndsItself(f) ==
    /\ f.state = "crashing" => f.falling > 0
    /\ f.state = "hitting" => f.raising > 0 \/ f.isWaiting

\* A hit that begins starts its animation; a result ends it, and nothing else.
LEMMA SetIsHittingEnds ==
    ASSUME NEW f, Sound(f), EndsItself(f), NEW isHitting \in BOOLEAN, NEW result \in HitResults
    PROVE  EndsItself(SetIsHitting(f, isHitting, result))
<1> DEFINE g == HitStarted(f, isHitting)
<1>1. g \in FighterRecord
  BY HitStartedSound DEF Sound
<1>2. EndsItself(g)
  BY DEF Sound, FighterRecord, EndsItself, HitStarted, StoppedEating
<1> HIDE DEF g
<1>3. EndsItself(HitEnded(g, result))
  BY <1>1, <1>2 DEF FighterRecord, EndsItself, HitEnded, StoppedAction
<1> QED
  BY <1>3 DEF SetIsHitting, g

\* A crash that begins starts its own, also during a hit.
LEMMA SetHitResultEnds ==
    ASSUME NEW f, Sound(f), EndsItself(f), NEW result \in HitResults
    PROVE  EndsItself(SetHitResult(f, result))
BY DEF Sound, FighterRecord, EndsItself, SetHitResult

\* The rest of an info starts and ends neither.
LEMMA AfterInfoEnds ==
    ASSUME NEW f, Sound(f), EndsItself(f), NEW isHitting \in BOOLEAN, NEW result \in HitResults,
           NEW x \in Places, NEW dir \in BOOLEAN, NEW isAlone \in BOOLEAN,
           NEW isPaused \in BOOLEAN
    PROVE  EndsItself(AfterInfo(f, isHitting, result, x, dir, isAlone, isPaused))
<1> DEFINE f1 == SetIsHitting(f, isHitting, result)
           f2 == SetHitResult(f1, result)
           f3 == SetSrvPos(f2, x, dir)
           f4 == SetIsAlone(f3, isAlone)
<1>1. Sound(f1) /\ EndsItself(f1)
  BY SetIsHittingSound, SetIsHittingEnds
<1> HIDE DEF f1
<1>2. Sound(f2) /\ EndsItself(f2)
  BY <1>1, SetHitResultSound, SetHitResultEnds
<1> HIDE DEF f2
<1>3. Sound(f3) /\ EndsItself(f3)
  <2>1. Sound(f3)
    BY <1>2, SetSrvPosSound
  <2>2. EndsItself(f3)
    BY <1>2 DEF Sound, FighterRecord, EndsItself, SetSrvPos
  <2> QED
    BY <2>1, <2>2
<1> HIDE DEF f3
<1>4. Sound(f4) /\ EndsItself(f4)
  <2>1. Sound(f4)
    BY <1>3, SetIsAloneSound
  <2>2. EndsItself(f4)
    BY <1>3 DEF Sound, FighterRecord, EndsItself, SetIsAlone, StoppedEating
  <2> QED
    BY <2>1, <2>2
<1> HIDE DEF f4
<1>5. EndsItself(SetIsPaused(f4, isPaused))
  BY <1>4 DEF Sound, FighterRecord, EndsItself, SetIsPaused
<1> QED
  BY <1>5 DEF AfterInfo, f1, f2, f3, f4

ActionEnds == Exists => EndsItself(fighter)

LEMMA NextEnds == FighterIsSound /\ ActionEnds /\ [Next]_fighter => ActionEnds'
<1> SUFFICES ASSUME Sound(fighter), ActionEnds, [Next]_fighter, fighter'.stage # "removed"
             PROVE  EndsItself(fighter')
  BY DEF FighterIsSound, ActionEnds, Exists
<1>1. CASE \E x \in Places : AddFighter(x)
  BY <1>1 DEF AddFighter, NewFighter, EndsItself
<1>2. fighter.stage # "removed" \/ \E x \in Places : AddFighter(x)
  BY DEF Next, AddToScene, RemoveFromScene, Info, UpdateFighter, Freeze,
         MoveOnClientToDirection, Update, Displayed, RaiseArm, StopCrashing, StartEatingGrass,
         Exists, SetIsPaused, ArmRaised, StoppedAction, Sound, FighterRecord
<1>3. CASE fighter.stage # "removed"
  <2>1. EndsItself(fighter)
    BY <1>3 DEF ActionEnds, Exists
  <2>2. CASE AddToScene \/ StartEatingGrass \/ UNCHANGED fighter
    BY <2>1, <2>2 DEF AddToScene, StartEatingGrass, Sound, FighterRecord, EndsItself
  <2>3. CASE RemoveFromScene
    BY <2>3 DEF RemoveFromScene, Sound, FighterRecord
  <2>4. CASE \E result \in HitResults : Info(result)
    BY <2>1, <2>4, AfterInfoEnds DEF Info, UpdateFighter
  <2>5. CASE Freeze
    BY <2>1, <2>5 DEF Freeze, SetIsPaused, Sound, FighterRecord, EndsItself
  <2>6. ASSUME NEW toLeft \in BOOLEAN, MoveOnClientToDirection(toLeft)
        PROVE  EndsItself(fighter')
    BY <2>6 DEF MoveOnClientToDirection, Sound, FighterRecord, EndsItself
  <2>7. CASE Update
    <3>1. PICK d \in 1..MaxStride, x \in Ways : fighter' = Viewed(Modelled(fighter, d), x)
      BY <2>7 DEF Update
    <3> DEFINE g == Modelled(fighter, d)
    <3>2. g \in FighterRecord
      BY ModelledSound DEF Sound
    <3>3. EndsItself(g)
      BY <2>1 DEF Modelled, Sound, FighterRecord, EndsItself
    <3> HIDE DEF g
    <3>4. EndsItself(Viewed(g, x))
      BY <3>2, <3>3 DEF Viewed, FighterRecord, EndsItself
    <3> QED
      BY <3>1, <3>4 DEF g
  <2>8. CASE RaiseArm
    BY <2>1, <2>8 DEF RaiseArm, ArmRaised, Sound, FighterRecord, EndsItself
  <2>9. CASE StopCrashing
    BY <2>9 DEF StopCrashing, StoppedAction, Sound, FighterRecord, EndsItself
  <2> QED
    BY <1>1, <2>2, <2>3, <2>4, <2>5, <2>6, <2>7, <2>8, <2>9 DEF Next
<1> QED
  BY <1>1, <1>2, <1>3

\* The safety half of HitEnds and CrashEnds.  A fighter that falls is getting up: the
\* animation of a crash runs.  One that hits still raises its arm, or waits for the
\* result with the arm up.  Neither is left to an animation of the other kind, although
\* each may begin during the other and a pause may come in between.
THEOREM ActionsEnd == Spec => [](Exists => EndsItself(fighter))
<1>1. Init => ActionEnds
  BY DEF Init, NewFighter, ActionEnds, EndsItself
<1> QED
  BY <1>1, NextEnds, FighterSound, PTL DEF Spec, ActionEnds

=============================================================================
