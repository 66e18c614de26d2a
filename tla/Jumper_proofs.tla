---------------------------- MODULE Jumper_proofs ----------------------------
(***************************************************************************)
(* What holds of a jumper on every hill.  Each method keeps a jumper Sound, *)
(* and each action is a few methods.                                        *)
(***************************************************************************)
EXTENDS Jumper, TLAPS, SequenceTheorems, WellFoundedInduction

\* Where a wanderer may be: on its platform, edges included.
Ground(j) == (j.leftXBound - Margin)..(j.rightXBound + Margin)

\* The ways a wanderer may go, and those it goes while the room waits.
WaysOf(j) ==
    {way \in [then: {"wander", "stop"}, from: Ground(j), to: Ground(j), arrived: BOOLEAN] :
        way.then = "stop" => way.to = j.posX}

IdleWays == {way \in Way : way.then = "wander"}

Wanders(j) ==
    /\ Ground(j) \subseteq ViewX
    /\ j.viewX \in Ground(j) /\ j.posX \in Ground(j)
    /\ j.startXPosition = j.posX
    /\ j.ways \in Seq(WaysOf(j))

Shows(j) ==
    /\ j.blinks => j.isPaused
    /\ j.fallenVisible => j.isFallen
    /\ ~j.isPaused => j.viewVisible \/ j.fallenVisible
    /\ ~j.isPaused /\ ~j.isFallen => j.viewVisible

Sound(j) ==
    /\ j \in JumperRecord
    /\ Len(j.ways) <= IF j.delayed THEN 1 ELSE 2
    /\ ~j.isWandering => j.ways = <<>>
    /\ j.isWandering => Wanders(j)
    /\ j.isWandering /\ j.stage # "removed" => j.delayed \/ j.ways # <<>>
    /\ Shows(j)

\* Until the countdown nobody is on the way back, and everybody wanders.
Waits(j) == j.stage # "removed" => j.isWandering /\ j.ways \in Seq(IdleWays)

JumperIsSound ==
    /\ Sound(jumper)
    /\ gameState \in {"waitingOthers", "countdownToGame", "jumping"}
    /\ gameState = "waitingOthers" => Waits(jumper)

-----------------------------------------------------------------------------
(* Numbers, sequences and platforms.                                        *)

LEMMA MaxOfTwo ==
    ASSUME NEW a \in Int, NEW b \in Int
    PROVE  Max({a, b}) = IF a >= b THEN a ELSE b
<1>1. \E x \in {a, b} : \A y \in {a, b} : x >= y
  OBVIOUS
<1>2. /\ Max({a, b}) \in {a, b}
      /\ \A y \in {a, b} : Max({a, b}) >= y
  BY <1>1 DEF Max
<1> QED
  BY <1>2

LEMMA MinOfTwo ==
    ASSUME NEW a \in Int, NEW b \in Int
    PROVE  Min({a, b}) = IF a <= b THEN a ELSE b
<1>1. \E x \in {a, b} : \A y \in {a, b} : x <= y
  OBVIOUS
<1>2. /\ Min({a, b}) \in {a, b}
      /\ \A y \in {a, b} : Min({a, b}) <= y
  BY <1>1 DEF Min
<1> QED
  BY <1>2

\* The numbers of a bounded set have a greatest one.
LEMMA BoundedHasMax ==
    ASSUME NEW n \in Nat, NEW S, S \subseteq 0..n, S # {}
    PROVE  Max(S) \in S /\ \A y \in S : Max(S) >= y
<1> DEFINE T == {n - y : y \in S}
<1>1. T \subseteq Nat /\ T # {}
  <2>1. \A y \in S : y \in 0..n /\ n - y \in Nat
    OBVIOUS
  <2> QED
    BY <2>1
<1>2. PICK d \in T : \A e \in T : ~(<<e, d>> \in OpToRel(<, Nat))
  <2> HIDE DEF T
  <2> QED
    BY <1>1, NatLessThanWellFounded, WFMin
<1>3. \A e \in T : ~(e < d)
  <2> SUFFICES ASSUME NEW e \in T, e < d PROVE FALSE
    OBVIOUS
  <2>1. e \in Nat /\ d \in Nat
    BY <1>1
  <2> QED
    BY <1>2, <2>1 DEF OpToRel
<1>4. PICK x \in S : d = n - x
  OBVIOUS
<1>5. \A y \in S : x >= y
  <2> TAKE y \in S
  <2>1. n - y \in T
    OBVIOUS
  <2>2. ~(n - y < n - x)
    BY <1>3, <1>4, <2>1
  <2>3. x \in 0..n /\ y \in 0..n
    OBVIOUS
  <2> QED
    BY <2>2, <2>3
<1> QED
  BY <1>5 DEF Max

LEMMA RemoveAtType ==
    ASSUME NEW S, NEW s \in Seq(S), NEW i \in 1..Len(s)
    PROVE  RemoveAt(s, i) \in Seq(S) /\ Len(RemoveAt(s, i)) = Len(s) - 1
<1> DEFINE before == SubSeq(s, 1, i - 1)
           after  == SubSeq(s, i + 1, Len(s))
<1>1. Len(s) \in Nat /\ \A k \in 1..Len(s) : s[k] \in S
  BY ElementOfSeq, LenProperties
<1>2. before \in Seq(S) /\ Len(before) = i - 1
  <2>1. \A k \in 1..(i - 1) : s[k] \in S
    BY <1>1
  <2> QED
    BY <1>1, <2>1, SubSeqProperties, Z3
<1>3. after \in Seq(S) /\ Len(after) = Len(s) - i
  <2>1. \A k \in (i + 1)..Len(s) : s[k] \in S
    BY <1>1
  <2>2. /\ after \in Seq(S)
        /\ Len(after) = IF i + 1 <= Len(s) THEN Len(s) - (i + 1) + 1 ELSE 0
    BY <1>1, <2>1, SubSeqProperties, Z3
  <2> QED
    BY <1>1, <2>2
<1>4. before \o after \in Seq(S) /\ Len(before \o after) = Len(before) + Len(after)
  <2> HIDE DEF before, after
  <2> QED
    BY <1>2, <1>3, ConcatProperties
<1>5. RemoveAt(s, i) = before \o after
  BY DEF RemoveAt
<1>6. (i - 1) + (Len(s) - i) = Len(s) - 1
  BY <1>1
<1> QED
  <2> HIDE DEF before, after
  <2> QED
    BY <1>2, <1>3, <1>4, <1>5, <1>6, Zenon

LEMMA Levels ==
    ASSUME NEW x, NEW y
    PROVE  {rock.level : rock \in Under(x, y)} \subseteq 0..MaxY
  BY HillAssumption DEF Under

\* nearestPlatformPositionForX:andY: is the level of a platform under the feet,
\* and none of those is higher.
LEMMA NearestIsHighest ==
    ASSUME NEW x, NEW y, Under(x, y) # {}
    PROVE  /\ NearestPlatformPosition(x, y) \in 0..MaxY
           /\ \E rock \in Under(x, y) : rock.level = NearestPlatformPosition(x, y)
           /\ \A rock \in Under(x, y) : NearestPlatformPosition(x, y) >= rock.level
<1> DEFINE levels == {rock.level : rock \in Under(x, y)}
<1>1. levels \subseteq 0..MaxY /\ levels # {} /\ MaxY \in Nat
  BY Levels, HillAssumption
<1>2. Max(levels) \in levels /\ \A l \in levels : Max(levels) >= l
  <2> HIDE DEF levels
  <2> QED
    BY <1>1, BoundedHasMax
<1>3. NearestPlatformPosition(x, y) = Max(levels)
  BY DEF NearestPlatformPosition
<1> QED
  BY <1>1, <1>2, <1>3

-----------------------------------------------------------------------------
(* Methods.                                                                 *)

LEMMA RangeHoldsIt ==
    ASSUME NEW x \in Xs, NEW y \in 0..MaxY
    PROVE  LET range == PlatformRange(x, y)
           IN  /\ range.left \in ViewX /\ range.right \in ViewX
               /\ range.left <= x /\ x <= range.right
<1>1. CASE Under(x, y) = {}
  BY <1>1, HillAssumption DEF PlatformRange, Xs, ViewX, Margin
<1>2. CASE Under(x, y) # {}
  <2>1. PlatformRange(x, y) \in Under(x, y)
    BY <1>2, NearestIsHighest DEF PlatformRange
  <2> QED
    BY <2>1, HillAssumption DEF Under
<1> QED
  BY <1>1, <1>2

LEMMA NewJumperSound ==
    ASSUME NEW x \in Xs, NEW y \in Feet
    PROVE  /\ Sound(NewJumper(x, y))
           /\ ~NewJumper(x, y).isWandering
<1> DEFINE j == NewJumper(x, y)
<1>1. <<>> \in Seq(Way) /\ Len(<<>>) = 0
  OBVIOUS
<1>2. x \in ViewX /\ 0 \in Xs
  BY HillAssumption DEF Xs, ViewX, Margin
<1>3. j \in JumperRecord
  BY <1>1, <1>2 DEF NewJumper, JumperRecord
<1> QED
  BY <1>1, <1>3 DEF NewJumper, Sound, Shows

LEMMA AnnouncedSound ==
    ASSUME NEW x \in Xs, NEW y \in 0..MaxY
    PROVE  Sound(Announced(x, y)) /\ Waits(Announced(x, y)) /\ Announced(x, y).isWandering
<1> DEFINE range == PlatformRange(x, y)
           new   == NewJumper(x, y)
           j     == Announced(x, y)
<1>1. y \in Feet
  BY HillAssumption DEF Feet, Bottom
<1>2. Sound(new)
  BY <1>1, NewJumperSound
<1>3. /\ range.left \in ViewX /\ range.right \in ViewX
      /\ range.left <= x /\ x <= range.right
  BY RangeHoldsIt
<1>4. /\ j = [new EXCEPT !.isWandering = TRUE,
                         !.leftXBound = range.left + Margin,
                         !.rightXBound = range.right - Margin,
                         !.startXPosition = x, !.delayed = TRUE]
      /\ new.viewX = x /\ new.posX = x /\ new.ways = <<>>
  BY DEF Announced, StartWandering, NewJumper
<1> HIDE DEF range, new, j
<1>5. new \in JumperRecord /\ Shows(new)
  BY <1>2 DEF Sound
<1>6. j \in JumperRecord
  <2>1. range.left + Margin \in Int /\ range.right - Margin \in Int
    BY <1>3, HillAssumption DEF ViewX, Margin
  <2> QED
    BY <1>4, <1>5, <2>1 DEF JumperRecord
<1>7. Ground(j) = range.left..range.right
  BY <1>3, <1>4, <1>5, HillAssumption DEF JumperRecord, Ground, ViewX, Margin
<1>8. /\ j.isWandering /\ j.delayed /\ j.ways = <<>> /\ j.viewX = x /\ j.posX = x
      /\ j.startXPosition = x
  BY <1>4, <1>5 DEF JumperRecord
<1>9. <<>> \in Seq(WaysOf(j)) /\ <<>> \in Seq(IdleWays) /\ Len(<<>>) = 0
  OBVIOUS
<1>10. Wanders(j)
  BY <1>3, <1>7, <1>8, <1>9, HillAssumption DEF Wanders, Xs, ViewX, Margin
<1>11. Shows(j)
  BY <1>4, <1>5 DEF Shows, JumperRecord
<1> QED
  BY <1>6, <1>8, <1>9, <1>10, <1>11 DEF Sound, Waits, j

\* _wanderNext chooses an end on the platform.
LEMMA DestinationsOnGround ==
    ASSUME NEW j \in JumperRecord, j.viewX \in Ground(j), NEW x \in Destinations(j)
    PROVE  x \in Ground(j)
<1> DEFINE range   == j.rightXBound - j.leftXBound
<1>1. /\ j.viewX \in Int /\ j.leftXBound \in Int /\ j.rightXBound \in Int
  BY HillAssumption DEF JumperRecord, ViewX, Margin
<1>2. PICK d \in 0..range : \/ x = Max({j.viewX - d, j.leftXBound})
                            \/ x = Min({j.viewX + d, j.rightXBound})
  BY DEF Destinations
<1>3. /\ d \in Int /\ d >= 0 /\ j.leftXBound <= j.rightXBound
      /\ j.viewX - d \in Int /\ j.viewX + d \in Int
  BY <1>1
<1>4. /\ Max({j.viewX - d, j.leftXBound})
            = IF j.viewX - d >= j.leftXBound THEN j.viewX - d ELSE j.leftXBound
      /\ Min({j.viewX + d, j.rightXBound})
            = IF j.viewX + d <= j.rightXBound THEN j.viewX + d ELSE j.rightXBound
  BY <1>1, <1>3, MaxOfTwo, MinOfTwo
<1> QED
  BY <1>1, <1>2, <1>3, <1>4 DEF Ground, Margin

LEMMA WandersAlike ==
    ASSUME NEW j, NEW k, Wanders(j),
           k.leftXBound = j.leftXBound, k.rightXBound = j.rightXBound,
           k.startXPosition = j.startXPosition, k.posX = j.posX,
           k.viewX \in Ground(j), k.ways \in Seq(WaysOf(j))
    PROVE  Wanders(k)
<1>1. Ground(k) = Ground(j) /\ WaysOf(k) = WaysOf(j)
  BY DEF Ground, WaysOf
<1> QED
  BY <1>1 DEF Wanders

\* A method that changes only how a jumper is shown keeps it sound.
LEMMA ShownAnew ==
    ASSUME NEW j, Sound(j), NEW k \in JumperRecord, Shows(k),
           k.isWandering = j.isWandering, k.ways = j.ways, k.delayed = j.delayed,
           k.stage # "removed" <=> j.stage # "removed",
           k.leftXBound = j.leftXBound, k.rightXBound = j.rightXBound,
           k.startXPosition = j.startXPosition, k.posX = j.posX, k.viewX = j.viewX
    PROVE  Sound(k) /\ (Waits(j) => Waits(k))
<1>1. Wanders(j) => k.viewX \in Ground(j) /\ k.ways \in Seq(WaysOf(j))
  BY DEF Wanders
<1>2. Wanders(j) => Wanders(k)
  BY <1>1, WandersAlike
<1> QED
  BY <1>2 DEF Sound, Waits

LEMMA StopWanderingSound ==
    ASSUME NEW j, Sound(j)
    PROVE  Sound(StopWandering(j)) /\ ~StopWandering(j).isWandering
<1> DEFINE k == StopWandering(j)
<1>1. 0 \in Xs /\ <<>> \in Seq(Way) /\ Len(<<>>) = 0
  BY HillAssumption DEF Xs
<1>2. k \in JumperRecord
  <2>1. StoppedActions(j) \in JumperRecord
    BY <1>1 DEF Sound, JumperRecord, StoppedActions
  <2>2. \A s \in JumperRecord, n \in Xs \cap Int :
            [s EXCEPT !.isWandering = FALSE, !.leftXBound = n, !.rightXBound = n,
                      !.startXPosition = n] \in JumperRecord
    BY DEF JumperRecord
  <2>3. 0 \in Xs \cap Int
    BY <1>1
  <2> QED
    BY <2>1, <2>2, <2>3, Zenon DEF StopWandering
<1>3. /\ ~k.isWandering /\ k.ways = <<>>
      /\ Shows(k)
  BY DEF Sound, JumperRecord, StopWandering, StoppedActions, Shows
<1> QED
  BY <1>1, <1>2, <1>3 DEF Sound

LEMMA SetIsFallenSound ==
    ASSUME NEW j, Sound(j), ~j.isWandering, NEW isFallen \in BOOLEAN
    PROVE  Sound(SetIsFallen(j, isFallen)) /\ ~SetIsFallen(j, isFallen).isWandering
<1> DEFINE k == SetIsFallen(j, isFallen)
<1>1. k \in JumperRecord
  BY DEF Sound, JumperRecord, SetIsFallen
<1>2. ~k.isWandering /\ k.ways = <<>> /\ k.delayed = j.delayed /\ Shows(k)
  BY DEF Sound, JumperRecord, SetIsFallen, Shows
<1> QED
  BY <1>1, <1>2 DEF Sound

LEMMA SetIsPausedSound ==
    ASSUME NEW j, Sound(j), NEW isPaused \in BOOLEAN
    PROVE  /\ Sound(SetIsPaused(j, isPaused))
           /\ SetIsPaused(j, isPaused).isWandering = j.isWandering
           /\ Waits(j) => Waits(SetIsPaused(j, isPaused))
<1> DEFINE k == SetIsPaused(j, isPaused)
<1>1. k \in JumperRecord
  <2>1. CASE isPaused = j.isPaused
    BY <2>1 DEF Sound, SetIsPaused
  <2>2. CASE isPaused # j.isPaused /\ isPaused
    <3>1. k = [j EXCEPT !.isPaused = isPaused, !.blinks = isPaused, !.viewVisible = j.viewVisible]
      BY <2>2 DEF SetIsPaused
    <3> HIDE DEF k
    <3> QED
      BY <3>1 DEF Sound, JumperRecord
  <2>3. CASE isPaused # j.isPaused /\ ~isPaused
    <3>1. k = [j EXCEPT !.isPaused = isPaused, !.blinks = isPaused, !.viewVisible = TRUE]
      BY <2>3 DEF SetIsPaused
    <3> HIDE DEF k
    <3> QED
      BY <3>1 DEF Sound, JumperRecord
  <2> QED
    BY <2>1, <2>2, <2>3
<1>2. /\ k.isWandering = j.isWandering /\ k.ways = j.ways /\ k.delayed = j.delayed
      /\ k.stage = j.stage /\ k.posX = j.posX /\ k.viewX = j.viewX
      /\ k.leftXBound = j.leftXBound /\ k.rightXBound = j.rightXBound
      /\ k.startXPosition = j.startXPosition
  BY DEF Sound, JumperRecord, SetIsPaused
<1>3. Shows(k)
  BY DEF Sound, JumperRecord, SetIsPaused, Shows
<1> QED
  <2> HIDE DEF k
  <2>1. Sound(k) /\ (Waits(j) => Waits(k))
    BY <1>1, <1>2, <1>3, ShownAnew
  <2> QED
    BY <2>1, <1>2 DEF k

\* A jumper as it is when _wanderNext is called: the way that came before is gone.
Free(j) ==
    /\ j \in JumperRecord
    /\ Len(j.ways) <= IF j.delayed THEN 0 ELSE 1
    /\ ~j.isWandering => j.ways = <<>>
    /\ j.isWandering => Wanders(j)
    /\ Shows(j)

LEMMA WanderNextSound ==
    ASSUME NEW j, Free(j), NEW k \in WanderNext(j)
    PROVE  /\ Sound(k) /\ k.isWandering = j.isWandering
           /\ Waits(j) => Waits(k)
<1>1. CASE ~j.isWandering
  <2>1. k = j
    BY <1>1 DEF WanderNext
  <2>2. Len(j.ways) <= IF j.delayed THEN 1 ELSE 2
    BY <1>1 DEF Free
  <2> QED
    BY <1>1, <2>1, <2>2 DEF Free, Sound
<1>2. CASE j.isWandering
  <2> DEFINE way(x) == [then |-> "wander", from |-> j.viewX, to |-> x, arrived |-> FALSE]
  <2>1. PICK x \in Destinations(j) : k = [j EXCEPT !.ways = Append(j.ways, way(x))]
    BY <1>2 DEF WanderNext
  <2>2. /\ j \in JumperRecord /\ Wanders(j) /\ Shows(j)
        /\ Len(j.ways) <= IF j.delayed THEN 0 ELSE 1
    BY <1>2 DEF Free
  <2>3. x \in Ground(j)
    BY <2>1, <2>2, DestinationsOnGround DEF Wanders
  <2>4. way(x) \in WaysOf(j)
    BY <2>2, <2>3 DEF WaysOf, Wanders
  <2>5. way(x) \in IdleWays
    BY <2>2, <2>3 DEF Way, IdleWays, Wanders
  <2>6. Ground(j) \subseteq ViewX /\ j.ways \in Seq(WaysOf(j)) /\ j.ways \in Seq(Way)
    BY <2>2 DEF Wanders, JumperRecord
  <2>7. way(x) \in Way
    BY <2>5 DEF IdleWays
  <2> HIDE DEF way
  <2>8. /\ Append(j.ways, way(x)) \in Seq(WaysOf(j)) /\ Append(j.ways, way(x)) # <<>>
        /\ Len(Append(j.ways, way(x))) = Len(j.ways) + 1
    BY <2>4, <2>6, AppendProperties
  <2>9. Append(j.ways, way(x)) \in Seq(Way)
    BY <2>6, <2>7, AppendProperties
  <2>10. j.ways \in Seq(IdleWays) => Append(j.ways, way(x)) \in Seq(IdleWays)
    BY <2>5, AppendProperties
  <2>11. k \in JumperRecord
    BY <2>1, <2>2, <2>9 DEF JumperRecord
  <2>12. /\ k.isWandering = j.isWandering /\ k.ways = Append(j.ways, way(x))
         /\ k.delayed = j.delayed
         /\ k.stage = j.stage /\ k.posX = j.posX /\ k.viewX = j.viewX
         /\ k.leftXBound = j.leftXBound /\ k.rightXBound = j.rightXBound
         /\ k.startXPosition = j.startXPosition
         /\ k.blinks = j.blinks /\ k.isPaused = j.isPaused /\ k.isFallen = j.isFallen
         /\ k.viewVisible = j.viewVisible /\ k.fallenVisible = j.fallenVisible
    BY <2>1, <2>2 DEF JumperRecord
  <2>13. k.viewX \in Ground(j) /\ k.ways \in Seq(WaysOf(j))
    BY <2>2, <2>8, <2>12 DEF Wanders
  <2>14. Wanders(k)
    BY <2>2, <2>12, <2>13, WandersAlike
  <2>15. Shows(k)
    BY <2>2, <2>12 DEF Shows
  <2>16. Len(k.ways) <= IF k.delayed THEN 1 ELSE 2
    <3>1. Len(j.ways) \in Nat
      BY <2>6, LenProperties
    <3> QED
      BY <2>2, <2>8, <2>12, <3>1
  <2> QED
    BY <1>2, <2>8, <2>10, <2>11, <2>12, <2>14, <2>15, <2>16 DEF Sound, Waits
<1> QED
  BY <1>1, <1>2 DEF Free

LEMMA ToStartPositionSound ==
    ASSUME NEW j, Sound(j), j.isWandering
    PROVE  Sound(ToStartPosition(j)) /\ ToStartPosition(j).isWandering
<1> DEFINE way == [then |-> "stop", from |-> j.viewX, to |-> j.startXPosition,
                   arrived |-> FALSE]
           k   == ToStartPosition(j)
<1>1. j \in JumperRecord /\ Wanders(j) /\ Shows(j)
  BY DEF Sound
<1>2. way \in WaysOf(j) /\ way \in Way
  BY <1>1 DEF WaysOf, Way, Wanders
<1> HIDE DEF way
<1>3. <<way>> \in Seq(Way) /\ <<way>> \in Seq(WaysOf(j)) /\ Len(<<way>>) = 1 /\ <<way>> # <<>>
  BY <1>2
<1>4. k = [j EXCEPT !.ways = <<way>>, !.blinks = FALSE]
  BY <1>1 DEF ToStartPosition, StoppedActions, way, JumperRecord
<1> HIDE DEF k
<1>5. k \in JumperRecord
  BY <1>1, <1>3, <1>4 DEF JumperRecord
<1>6. /\ k.isWandering /\ k.ways = <<way>> /\ k.delayed = j.delayed
      /\ k.stage = j.stage /\ k.posX = j.posX /\ k.viewX = j.viewX
      /\ k.leftXBound = j.leftXBound /\ k.rightXBound = j.rightXBound
      /\ k.startXPosition = j.startXPosition
      /\ ~k.blinks /\ k.isPaused = j.isPaused /\ k.isFallen = j.isFallen
      /\ k.viewVisible = j.viewVisible /\ k.fallenVisible = j.fallenVisible
  BY <1>1, <1>4 DEF JumperRecord
<1>7. k.viewX \in Ground(j) /\ k.ways \in Seq(WaysOf(j))
  BY <1>1, <1>3, <1>6 DEF Wanders
<1>8. Wanders(k) /\ Shows(k)
  BY <1>1, <1>6, <1>7, WandersAlike DEF Shows
<1> QED
  BY <1>3, <1>5, <1>6, <1>8 DEF Sound, k

LEMMA AfterInfoSound ==
    ASSUME NEW j, Sound(j), NEW x \in Xs, NEW y \in Feet,
           NEW isFallen \in BOOLEAN, NEW isPaused \in BOOLEAN
    PROVE  /\ Sound(AfterInfo(j, x, y, isFallen, isPaused))
           /\ ~AfterInfo(j, x, y, isFallen, isPaused).isWandering
<1> DEFINE standing == IF j.isWandering THEN StopWandering(j) ELSE j
           fallen   == SetIsFallen(standing, isFallen)
           placed   == [fallen EXCEPT !.posX = x, !.posY = y]
           paused   == SetIsPaused(placed, isPaused)
           k        == [paused EXCEPT !.isFrozen = FALSE]
<1>1. Sound(standing) /\ ~standing.isWandering
  BY StopWanderingSound
<1>2. Sound(fallen) /\ ~fallen.isWandering
  <2> HIDE DEF standing
  <2> QED
    BY <1>1, SetIsFallenSound
<1>3. Sound(placed) /\ ~placed.isWandering
  <2> HIDE DEF fallen
  <2>1. placed \in JumperRecord
    BY <1>2 DEF Sound, JumperRecord
  <2>2. /\ placed.ways = fallen.ways /\ placed.delayed = fallen.delayed
        /\ ~placed.isWandering /\ Shows(placed)
    BY <1>2 DEF Sound, JumperRecord, Shows
  <2> QED
    BY <1>2, <2>1, <2>2 DEF Sound
<1>4. Sound(paused) /\ ~paused.isWandering
  <2> HIDE DEF placed
  <2> QED
    BY <1>3, SetIsPausedSound
<1>5. Sound(k) /\ ~k.isWandering
  <2> HIDE DEF paused
  <2>1. k \in JumperRecord
    BY <1>4 DEF Sound, JumperRecord
  <2>2. /\ k.ways = paused.ways /\ k.delayed = paused.delayed
        /\ ~k.isWandering /\ Shows(k)
    BY <1>4 DEF Sound, JumperRecord, Shows
  <2> QED
    BY <1>4, <2>1, <2>2 DEF Sound
<1> QED
  BY <1>5 DEF AfterInfo

-----------------------------------------------------------------------------
(* Actions.                                                                 *)

\* Somebody on a way wanders, and the way is on its platform.
LEMMA OnTheWay ==
    ASSUME NEW j, Sound(j), NEW i \in DOMAIN j.ways
    PROVE  /\ j.isWandering /\ Wanders(j) /\ i \in 1..Len(j.ways)
           /\ j.ways[i] \in WaysOf(j) /\ j.ways[i] \in Way
           /\ Len(j.ways) \in Nat
           /\ j.ways \in Seq(IdleWays) => j.ways[i].then = "wander"
<1>1. j \in JumperRecord /\ j.ways \in Seq(Way)
  BY DEF Sound, JumperRecord
<1>2. j.isWandering
  <2>1. DOMAIN <<>> = {}
    OBVIOUS
  <2> QED
    BY <2>1 DEF Sound
<1>3. Wanders(j) /\ j.ways \in Seq(WaysOf(j))
  BY <1>2 DEF Sound, Wanders
<1>4. Len(j.ways) \in Nat /\ DOMAIN j.ways = 1..Len(j.ways)
  BY <1>1, LenProperties
<1>5. j.ways[i] \in WaysOf(j) /\ j.ways[i] \in Way
  BY <1>1, <1>3, <1>4, ElementOfSeq
<1>6. j.ways \in Seq(IdleWays) => j.ways[i] \in IdleWays
  BY <1>4, ElementOfSeq
<1> QED
  BY <1>2, <1>3, <1>4, <1>5, <1>6 DEF IdleWays

LEMMA FirstWanderKeepsSound ==
    ASSUME JumperIsSound, FirstWander
    PROVE  Sound(jumper') /\ (Waits(jumper) => Waits(jumper'))
<1> DEFINE j == [jumper EXCEPT !.delayed = FALSE]
<1>1. jumper.delayed /\ jumper' \in WanderNext(j)
  BY DEF FirstWander
<1>2. Sound(jumper) /\ jumper \in JumperRecord
  BY DEF JumperIsSound, Sound
<1>3. j \in JumperRecord
  BY <1>2 DEF JumperRecord
<1>4. /\ ~j.delayed /\ j.isWandering = jumper.isWandering /\ j.ways = jumper.ways
      /\ j.stage = jumper.stage /\ j.posX = jumper.posX /\ j.viewX = jumper.viewX
      /\ j.leftXBound = jumper.leftXBound /\ j.rightXBound = jumper.rightXBound
      /\ j.startXPosition = jumper.startXPosition
      /\ j.blinks = jumper.blinks /\ j.isPaused = jumper.isPaused
      /\ j.isFallen = jumper.isFallen
      /\ j.viewVisible = jumper.viewVisible /\ j.fallenVisible = jumper.fallenVisible
  BY <1>2 DEF JumperRecord
<1> HIDE DEF j
<1>5. Shows(j)
  BY <1>2, <1>4 DEF Sound, Shows
<1>6. Wanders(jumper) => Wanders(j)
  <2>1. Wanders(jumper) => j.viewX \in Ground(jumper) /\ j.ways \in Seq(WaysOf(jumper))
    BY <1>4 DEF Wanders
  <2> QED
    BY <1>4, <2>1, WandersAlike
<1>7. Len(j.ways) <= IF j.delayed THEN 0 ELSE 1
  BY <1>1, <1>2, <1>4 DEF Sound
<1>8. Free(j)
  BY <1>2, <1>3, <1>4, <1>5, <1>6, <1>7 DEF Sound, Free
<1>9. Waits(jumper) => Waits(j)
  BY <1>4 DEF Waits
<1> QED
  BY <1>1, <1>8, <1>9, WanderNextSound

LEMMA WanderOnKeepsSound ==
    ASSUME JumperIsSound, NEW i \in DOMAIN jumper.ways, WanderOn(i)
    PROVE  Sound(jumper') /\ (Waits(jumper) => Waits(jumper'))
<1> DEFINE ways == RemoveAt(jumper.ways, i)
           j    == [jumper EXCEPT !.ways = ways]
<1>1. Sound(jumper) /\ jumper \in JumperRecord /\ jumper.ways \in Seq(Way)
  BY DEF JumperIsSound, Sound, JumperRecord
<1>2. /\ jumper.isWandering /\ Wanders(jumper) /\ i \in 1..Len(jumper.ways)
      /\ Len(jumper.ways) \in Nat
  BY <1>1, OnTheWay
<1>3. ways \in Seq(Way) /\ Len(ways) = Len(jumper.ways) - 1
  BY <1>1, <1>2, RemoveAtType
<1>4. ways \in Seq(WaysOf(jumper))
  BY <1>2, RemoveAtType DEF Wanders
<1>5. jumper.ways \in Seq(IdleWays) => ways \in Seq(IdleWays)
  BY <1>2, RemoveAtType
<1>6. jumper' \in WanderNext(j)
  BY DEF WanderOn
<1> HIDE DEF ways
<1>7. j \in JumperRecord
  BY <1>1, <1>3 DEF JumperRecord
<1>8. /\ j.ways = ways /\ j.delayed = jumper.delayed
      /\ j.isWandering = jumper.isWandering
      /\ j.stage = jumper.stage /\ j.posX = jumper.posX /\ j.viewX = jumper.viewX
      /\ j.leftXBound = jumper.leftXBound /\ j.rightXBound = jumper.rightXBound
      /\ j.startXPosition = jumper.startXPosition
      /\ j.blinks = jumper.blinks /\ j.isPaused = jumper.isPaused
      /\ j.isFallen = jumper.isFallen
      /\ j.viewVisible = jumper.viewVisible /\ j.fallenVisible = jumper.fallenVisible
  BY <1>1 DEF JumperRecord
<1> HIDE DEF j
<1>9. Shows(j)
  BY <1>1, <1>8 DEF Sound, Shows
<1>10. Wanders(j)
  <2>1. j.viewX \in Ground(jumper)
    BY <1>2, <1>8 DEF Wanders
  <2> QED
    BY <1>2, <1>4, <1>8, <2>1, WandersAlike
<1>11. Len(j.ways) <= IF j.delayed THEN 0 ELSE 1
  BY <1>1, <1>2, <1>3, <1>8 DEF Sound
<1>12. Free(j)
  BY <1>2, <1>7, <1>8, <1>9, <1>10, <1>11 DEF Free
<1>13. Waits(jumper) => Waits(j)
  BY <1>2, <1>5, <1>8 DEF Waits
<1> QED
  BY <1>6, <1>12, <1>13, WanderNextSound

LEMMA WalkKeepsSound ==
    ASSUME JumperIsSound, NEW i \in DOMAIN jumper.ways, Walk(i)
    PROVE  Sound(jumper') /\ (Waits(jumper) => Waits(jumper'))
<1> DEFINE way == jumper.ways[i]
<1>1. Sound(jumper) /\ jumper \in JumperRecord
  BY DEF JumperIsSound, Sound
<1>2. Wanders(jumper) /\ way \in WaysOf(jumper)
  BY <1>1, OnTheWay
<1>3. PICK x \in Min({way.from, way.to})..Max({way.from, way.to}) :
          jumper' = [jumper EXCEPT !.viewX = x]
  BY DEF Walk
<1>4. x \in Ground(jumper)
  <2>1. /\ way.from \in Ground(jumper) /\ way.to \in Ground(jumper)
        /\ jumper.leftXBound \in Int /\ jumper.rightXBound \in Int
    BY <1>1, <1>2 DEF WaysOf, JumperRecord
  <2> HIDE DEF way
  <2>2. way.from \in Int /\ way.to \in Int
    BY <2>1 DEF Ground, Margin
  <2>3. /\ Min({way.from, way.to}) = IF way.from <= way.to THEN way.from ELSE way.to
        /\ Max({way.from, way.to}) = IF way.from >= way.to THEN way.from ELSE way.to
    BY <2>2, MaxOfTwo, MinOfTwo
  <2> QED
    BY <1>3, <2>1, <2>2, <2>3 DEF Ground, Margin
<1>5. x \in ViewX
  BY <1>2, <1>4 DEF Wanders
<1>6. jumper' \in JumperRecord
  BY <1>1, <1>3, <1>5 DEF JumperRecord
<1>7. /\ jumper'.viewX = x /\ jumper'.ways = jumper.ways
      /\ jumper'.delayed = jumper.delayed /\ jumper'.isWandering = jumper.isWandering
      /\ jumper'.stage = jumper.stage /\ jumper'.posX = jumper.posX
      /\ jumper'.leftXBound = jumper.leftXBound /\ jumper'.rightXBound = jumper.rightXBound
      /\ jumper'.startXPosition = jumper.startXPosition
      /\ jumper'.blinks = jumper.blinks /\ jumper'.isPaused = jumper.isPaused
      /\ jumper'.isFallen = jumper.isFallen
      /\ jumper'.viewVisible = jumper.viewVisible
      /\ jumper'.fallenVisible = jumper.fallenVisible
  BY <1>1, <1>3 DEF JumperRecord
<1>8. Wanders(jumper')
  <2>1. jumper'.viewX \in Ground(jumper) /\ jumper'.ways \in Seq(WaysOf(jumper))
    BY <1>2, <1>4, <1>7 DEF Wanders
  <2> QED
    BY <1>2, <1>7, <2>1, WandersAlike
<1>9. Shows(jumper')
  BY <1>1, <1>7 DEF Sound, Shows
<1> QED
  BY <1>1, <1>6, <1>7, <1>8, <1>9 DEF Sound, Waits

\* The last frame of a way.  Of a way back it is the end of the wandering, and
\* the jumper stands where its model is.
LEMMA ArriveKeepsSound ==
    ASSUME JumperIsSound, NEW i \in DOMAIN jumper.ways, Arrive(i)
    PROVE  /\ Sound(jumper')
           /\ Waits(jumper) => Waits(jumper')
           /\ ~jumper'.isWandering => jumper'.viewX = jumper'.posX
<1> DEFINE way     == jumper.ways[i]
           arrived == [way EXCEPT !.arrived = TRUE]
           ways    == [jumper.ways EXCEPT ![i] = arrived]
           there   == [jumper EXCEPT !.viewX = way.to, !.ways = ways]
<1>1. /\ Sound(jumper) /\ jumper \in JumperRecord
      /\ jumper.ways \in Seq(Way)
  BY DEF JumperIsSound, Sound, JumperRecord
<1>2. /\ jumper.isWandering /\ Wanders(jumper) /\ i \in 1..Len(jumper.ways)
      /\ way \in WaysOf(jumper) /\ way \in Way /\ Len(jumper.ways) \in Nat
      /\ Waits(jumper) => jumper.stage = "removed" \/ way.then = "wander"
      /\ jumper.ways \in Seq(WaysOf(jumper))
  BY <1>1, OnTheWay DEF Waits, Wanders
<1>3. jumper.stage = "displayed"
  BY DEF Arrive, MayRun, Displayed
<1>4. jumper' = IF way.then = "stop" THEN StopWandering(there) ELSE there
  <2>1. there = [jumper EXCEPT !.viewX = way.to, !.ways[i].arrived = TRUE]
    BY <1>1 DEF JumperRecord
  <2> QED
    BY <2>1 DEF Arrive
<1>5. arrived \in WaysOf(jumper) /\ arrived \in Way
      /\ (way.then = "wander" => arrived \in IdleWays)
  BY <1>2 DEF WaysOf, Way, IdleWays
<1>6. /\ way.to \in Ground(jumper) /\ way.to \in ViewX
      /\ way.then = "stop" => way.to = jumper.posX
  BY <1>2 DEF WaysOf, Wanders
<1> HIDE DEF arrived
<1>7. /\ ways \in Seq(WaysOf(jumper)) /\ ways \in Seq(Way)
      /\ Len(ways) = Len(jumper.ways)
  BY <1>1, <1>2, <1>5, ExceptSeq
<1>8. jumper.ways \in Seq(IdleWays) /\ way.then = "wander" => ways \in Seq(IdleWays)
  BY <1>2, <1>5, ExceptSeq
<1>9. ways # <<>>
  BY <1>2, <1>7
<1> HIDE DEF way, ways
<1>10. there \in JumperRecord
  BY <1>1, <1>6, <1>7 DEF JumperRecord
<1>11. /\ there.viewX = way.to /\ there.ways = ways
       /\ there.delayed = jumper.delayed /\ there.isWandering = jumper.isWandering
       /\ there.stage = jumper.stage /\ there.posX = jumper.posX
       /\ there.leftXBound = jumper.leftXBound /\ there.rightXBound = jumper.rightXBound
       /\ there.startXPosition = jumper.startXPosition
       /\ there.blinks = jumper.blinks /\ there.isPaused = jumper.isPaused
       /\ there.isFallen = jumper.isFallen
       /\ there.viewVisible = jumper.viewVisible
       /\ there.fallenVisible = jumper.fallenVisible
  BY <1>1 DEF JumperRecord
<1> HIDE DEF there
<1>12. Wanders(there)
  BY <1>2, <1>6, <1>7, <1>11, WandersAlike
<1>13. Shows(there)
  BY <1>1, <1>11 DEF Sound, Shows
<1>14. Sound(there)
  BY <1>1, <1>2, <1>7, <1>9, <1>10, <1>11, <1>12, <1>13 DEF Sound
<1>15. CASE way.then = "stop"
  <2>1. Sound(StopWandering(there)) /\ ~StopWandering(there).isWandering
    BY <1>14, StopWanderingSound
  <2>2. /\ StopWandering(there).viewX = there.viewX
        /\ StopWandering(there).posX = there.posX
    BY <1>10 DEF StopWandering, StoppedActions, JumperRecord
  <2>3. ~Waits(jumper)
    BY <1>2, <1>3, <1>15
  <2> QED
    BY <1>4, <1>6, <1>11, <1>15, <2>1, <2>2, <2>3
<1>16. CASE way.then # "stop"
  <2>1. way.then = "wander"
    BY <1>2, <1>16 DEF Way
  <2>2. Waits(jumper) => Waits(there)
    BY <1>2, <1>8, <1>11, <2>1 DEF Waits
  <2> QED
    BY <1>2, <1>4, <1>11, <1>14, <1>16, <2>2
<1> QED
  BY <1>15, <1>16

\* The place after a frame lies on the hill, and above each platform that was
\* below.
LEMMA OvershootIsFixed ==
    ASSUME NEW x \in Xs, NEW y \in Feet, NEW prevY \in Feet
    PROVE  /\ OvershootFixed(x, y, prevY) \in Feet
           /\ \A rock \in Under(x, prevY) : OvershootFixed(x, y, prevY) >= rock.level
<1> DEFINE ground == NearestPlatformPosition(x, prevY)
<1>1. ground \in Feet
  <2>1. CASE Under(x, prevY) = {}
    BY <2>1, HillAssumption DEF NearestPlatformPosition, Feet, Bottom
  <2>2. CASE Under(x, prevY) # {}
    BY <2>2, NearestIsHighest, HillAssumption DEF Feet, Bottom
  <2> QED
    BY <2>1, <2>2
<1>2. \A rock \in Under(x, prevY) : ground >= rock.level /\ rock.level \in Int
  <2> TAKE rock \in Under(x, prevY)
  <2>1. Under(x, prevY) # {}
    OBVIOUS
  <2>2. ground >= rock.level
    BY <2>1, NearestIsHighest
  <2>3. rock.level \in 0..MaxY
    BY HillAssumption DEF Under
  <2> QED
    BY <2>2, <2>3
<1>3. y \in Int /\ ground \in Int
  BY <1>1, HillAssumption DEF Feet, Bottom
<1>4. OvershootFixed(x, y, prevY) = IF y >= ground THEN y ELSE ground
  BY <1>3, MaxOfTwo DEF OvershootFixed
<1> HIDE DEF ground
<1> QED
  BY <1>1, <1>2, <1>3, <1>4

LEMMA UpdateKeepsSound ==
    ASSUME JumperIsSound, Update
    PROVE  /\ Sound(jumper') /\ ~Waits(jumper)
           /\ \A rock \in Platforms :
                 (rock.left <= jumper'.posX /\ jumper'.posX <= rock.right
                     /\ jumper.posY >= rock.level) => jumper'.posY >= rock.level
<1>1. Sound(jumper) /\ jumper \in JumperRecord
  BY DEF JumperIsSound, Sound
<1>2. jumper.stage = "displayed" /\ ~jumper.isWandering
  BY DEF Update, Displayed
<1>3. PICK dx \in (-MaxMove)..MaxMove, dy \in (-MaxMove)..MaxMove :
          /\ jumper.posX + dx \in Xs /\ jumper.posY + dy \in Feet
          /\ jumper' = [Modelled(jumper, dx, dy)
                           EXCEPT !.viewX = Modelled(jumper, dx, dy).posX]
  BY DEF Update
<1> DEFINE x == IF jumper.isFrozen THEN jumper.posX ELSE jumper.posX + dx
           y == IF jumper.isFrozen THEN jumper.posY
                ELSE OvershootFixed(jumper.posX + dx, jumper.posY + dy, jumper.posY)
<1>4. jumper.posX \in Xs /\ jumper.posY \in Feet
  BY <1>1 DEF JumperRecord
<1>5. /\ x \in Xs /\ y \in Feet
      /\ \A rock \in Platforms :
            (rock.left <= x /\ x <= rock.right /\ jumper.posY >= rock.level)
                => y >= rock.level
  <2>1. CASE jumper.isFrozen
    BY <1>4, <2>1
  <2>2. CASE ~jumper.isFrozen
    BY <1>3, <1>4, <2>2, OvershootIsFixed DEF Under
  <2> QED
    BY <2>1, <2>2
<1>6. jumper' = [jumper EXCEPT !.posX = x, !.posY = y, !.viewX = x]
  BY <1>1, <1>3 DEF Modelled, JumperRecord
<1> HIDE DEF x, y
<1>7. x \in ViewX
  BY <1>5, HillAssumption DEF Xs, ViewX, Margin
<1>8. jumper' \in JumperRecord
  BY <1>1, <1>5, <1>6, <1>7 DEF JumperRecord
<1>9. /\ ~jumper'.isWandering /\ jumper'.ways = jumper.ways
      /\ jumper'.delayed = jumper.delayed /\ Shows(jumper')
      /\ jumper'.posX = x /\ jumper'.posY = y
  BY <1>1, <1>2, <1>6 DEF Sound, Shows, JumperRecord
<1> QED
  BY <1>1, <1>2, <1>5, <1>8, <1>9 DEF Sound, Waits

LEMMA InitIsSound == Init => JumperIsSound
  BY AnnouncedSound DEF Init, JumperIsSound

LEMMA StepKeepsSound == JumperIsSound /\ [Next]_vars => JumperIsSound'
<1> SUFFICES ASSUME JumperIsSound, [Next]_vars PROVE JumperIsSound'
  OBVIOUS
<1>0. /\ Sound(jumper) /\ jumper \in JumperRecord
      /\ gameState \in {"waitingOthers", "countdownToGame", "jumping"}
      /\ gameState = "waitingOthers" => Waits(jumper)
  BY DEF JumperIsSound, Sound
<1>1. ASSUME NEW x \in Xs, NEW y \in 0..MaxY, HandleConnectedPlayer(x, y)
      PROVE  JumperIsSound'
  BY <1>0, <1>1, AnnouncedSound DEF HandleConnectedPlayer, JumperIsSound
<1>2. CASE AddToScene
  <2>1. /\ jumper.stage = "created" /\ jumper' = [jumper EXCEPT !.stage = "displayed"]
        /\ gameState' = gameState
    BY <1>2 DEF AddToScene
  <2>2. /\ jumper' \in JumperRecord /\ Shows(jumper')
        /\ jumper'.isWandering = jumper.isWandering /\ jumper'.ways = jumper.ways
        /\ jumper'.delayed = jumper.delayed /\ jumper'.stage = "displayed"
        /\ jumper'.leftXBound = jumper.leftXBound /\ jumper'.rightXBound = jumper.rightXBound
        /\ jumper'.startXPosition = jumper.startXPosition
        /\ jumper'.posX = jumper.posX /\ jumper'.viewX = jumper.viewX
    BY <1>0, <2>1 DEF JumperRecord, Sound, Shows
  <2>3. Sound(jumper') /\ (Waits(jumper) => Waits(jumper'))
    BY <1>0, <2>1, <2>2, ShownAnew
  <2> QED
    BY <1>0, <2>1, <2>3 DEF JumperIsSound
<1>3. CASE RemoveFromScene
  <2>1. /\ jumper' = [NewJumper(0, 0) EXCEPT !.stage = "removed"]
        /\ gameState' \in {gameState, "jumping"}
    BY <1>3 DEF RemoveFromScene, Removed
  <2>2. Sound(NewJumper(0, 0)) /\ ~NewJumper(0, 0).isWandering
    <3>1. 0 \in Xs /\ 0 \in Feet
      BY HillAssumption DEF Xs, Feet, Bottom
    <3> QED
      BY <3>1, NewJumperSound
  <2> DEFINE new == NewJumper(0, 0)
  <2> HIDE DEF new
  <2>3. jumper' = [new EXCEPT !.stage = "removed"]
    BY <2>1 DEF new
  <2>4. Sound(new) /\ ~new.isWandering
    BY <2>2 DEF new
  <2>5. /\ jumper' \in JumperRecord /\ Shows(jumper') /\ ~jumper'.isWandering
        /\ jumper'.ways = new.ways /\ jumper'.delayed = new.delayed
        /\ jumper'.stage = "removed"
    BY <2>3, <2>4 DEF Sound, JumperRecord, Shows
  <2>6. Sound(jumper') /\ Waits(jumper')
    BY <2>4, <2>5 DEF Sound, Waits
  <2> QED
    BY <1>0, <2>1, <2>6 DEF JumperIsSound
<1>4. CASE HandleCountdownToGame
  <2>1. /\ gameState = "waitingOthers" /\ gameState' = "countdownToGame"
        /\ jumper' = IF Exists THEN ToStartPosition(jumper) ELSE jumper
    BY <1>4 DEF HandleCountdownToGame
  <2>2. Exists => jumper.isWandering
    BY <1>0, <2>1 DEF Waits, Exists
  <2>3. Sound(jumper')
    BY <1>0, <2>1, <2>2, ToStartPositionSound
  <2> QED
    BY <2>1, <2>3 DEF JumperIsSound
<1>5. ASSUME NEW x \in Xs, NEW y \in Feet, NEW isFallen \in BOOLEAN, NEW isPaused \in BOOLEAN,
             HandleJumpInfo(x, y, isFallen, isPaused)
      PROVE  JumperIsSound'
  <2> DEFINE j == IF Exists THEN jumper ELSE NewJumper(x, y)
  <2>1. Sound(j)
    BY <1>0, NewJumperSound
  <2>2. gameState' = "jumping" /\ jumper' = AfterInfo(j, x, y, isFallen, isPaused)
    BY <1>5 DEF HandleJumpInfo
  <2> HIDE DEF j
  <2>3. Sound(jumper')
    BY <2>1, <2>2, AfterInfoSound
  <2> QED
    BY <2>2, <2>3 DEF JumperIsSound
<1>6. CASE Freeze
  <2> DEFINE paused == SetIsPaused(jumper, TRUE)
  <2>1. /\ gameState = "jumping" /\ gameState' = gameState
        /\ jumper' = [paused EXCEPT !.isFrozen = TRUE]
    BY <1>6 DEF Freeze
  <2>2. Sound(paused) /\ paused \in JumperRecord
    BY <1>0, SetIsPausedSound DEF Sound
  <2> HIDE DEF paused
  <2>3. /\ jumper' \in JumperRecord /\ Shows(jumper')
        /\ jumper'.isWandering = paused.isWandering /\ jumper'.ways = paused.ways
        /\ jumper'.delayed = paused.delayed /\ jumper'.stage = paused.stage
        /\ jumper'.leftXBound = paused.leftXBound /\ jumper'.rightXBound = paused.rightXBound
        /\ jumper'.startXPosition = paused.startXPosition
        /\ jumper'.posX = paused.posX /\ jumper'.viewX = paused.viewX
    BY <2>1, <2>2 DEF JumperRecord, Sound, Shows
  <2>4. Sound(jumper')
    BY <2>2, <2>3, ShownAnew
  <2> QED
    BY <2>1, <2>4 DEF JumperIsSound
<1>7. CASE FirstWander
  <2>1. gameState' = gameState
    BY <1>7 DEF FirstWander
  <2> QED
    BY <1>0, <1>7, <2>1, FirstWanderKeepsSound DEF JumperIsSound
<1>8. ASSUME NEW i \in DOMAIN jumper.ways, Walk(i) \/ Arrive(i) \/ WanderOn(i)
      PROVE  JumperIsSound'
  <2>1. gameState' = gameState
    BY <1>8 DEF Walk, Arrive, WanderOn
  <2>2. Sound(jumper') /\ (Waits(jumper) => Waits(jumper'))
    BY <1>8, WalkKeepsSound, ArriveKeepsSound, WanderOnKeepsSound
  <2> QED
    BY <1>0, <2>1, <2>2 DEF JumperIsSound
<1>9. CASE Update
  <2>1. gameState' = gameState
    BY <1>9 DEF Update
  <2> QED
    BY <1>0, <1>9, <2>1, UpdateKeepsSound DEF JumperIsSound
<1>10. CASE Blink
  <2>1. /\ jumper.blinks /\ gameState' = gameState
        /\ jumper' = [jumper EXCEPT !.viewVisible = ~jumper.viewVisible]
    BY <1>10 DEF Blink
  <2>2. (~jumper.viewVisible) \in BOOLEAN
    OBVIOUS
  <2>3. /\ jumper' \in JumperRecord
        /\ jumper'.isWandering = jumper.isWandering /\ jumper'.ways = jumper.ways
        /\ jumper'.delayed = jumper.delayed /\ jumper'.stage = jumper.stage
        /\ jumper'.leftXBound = jumper.leftXBound /\ jumper'.rightXBound = jumper.rightXBound
        /\ jumper'.startXPosition = jumper.startXPosition
        /\ jumper'.posX = jumper.posX /\ jumper'.viewX = jumper.viewX
        /\ jumper'.blinks = jumper.blinks /\ jumper'.isPaused = jumper.isPaused
        /\ jumper'.isFallen = jumper.isFallen
        /\ jumper'.fallenVisible = jumper.fallenVisible
    BY <1>0, <2>1, <2>2 DEF JumperRecord
  <2>4. Shows(jumper')
    BY <1>0, <2>1, <2>3 DEF Sound, Shows
  <2>5. Sound(jumper') /\ (Waits(jumper) => Waits(jumper'))
    BY <1>0, <2>3, <2>4, ShownAnew
  <2> QED
    BY <1>0, <2>1, <2>5 DEF JumperIsSound
<1>11. CASE UNCHANGED vars
  BY <1>11 DEF vars, JumperIsSound
<1> QED
  BY <1>1, <1>2, <1>3, <1>4, <1>5, <1>6, <1>7, <1>8, <1>9, <1>10, <1>11 DEF Next

-----------------------------------------------------------------------------
(* Theorems.                                                                *)

\* Every method keeps a jumper sound, whatever the order in which they are called.
THEOREM JumperSound == Spec => []JumperIsSound
  BY InitIsSound, StepKeepsSound, PTL DEF Spec

\* A jumper keeps its types: no way leads off the hill, and no more than the way
\* back and one that a late delayed call has added run at once.
THEOREM JumperType == Spec => []TypeOK
<1>1. JumperIsSound => TypeOK
  <2> SUFFICES ASSUME JumperIsSound PROVE TypeOK
    OBVIOUS
  <2>1. jumper \in JumperRecord /\ Len(jumper.ways) <= IF jumper.delayed THEN 1 ELSE 2
    BY DEF JumperIsSound, Sound
  <2>2. Len(jumper.ways) \in Nat
    BY <2>1, LenProperties DEF JumperRecord
  <2>3. Len(jumper.ways) <= 2
    BY <2>1, <2>2
  <2> QED
    BY <2>1, <2>3 DEF JumperIsSound, TypeOK
<1> QED
  BY <1>1, JumperSound, PTL

\* Nothing moves the view behind the back of the model, and a wanderer has
\* always something that moves it on.
THEOREM ViewHasOneMover == Spec => []OneMover
<1>1. JumperIsSound => OneMover
  BY DEF JumperIsSound, Sound, OneMover, Exists
<1> QED
  BY <1>1, JumperSound, PTL

\* Nobody wanders off a platform, however the platforms lie.
THEOREM WandererStaysOn == Spec => []StaysOnPlatform
<1>1. JumperIsSound => StaysOnPlatform
  BY DEF JumperIsSound, Sound, Wanders, Ground, StaysOnPlatform
<1> QED
  BY <1>1, JumperSound, PTL

\* Whatever falls, pauses and blinks overlap, the right sprite is seen.
THEOREM RightSpriteIsSeen == Spec => []ShowsItsState
<1>1. JumperIsSound => ShowsItsState
  <2> SUFFICES ASSUME JumperIsSound PROVE ShowsItsState
    OBVIOUS
  <2>1. jumper \in JumperRecord /\ Shows(jumper)
    BY DEF JumperIsSound, Sound
  <2> QED
    BY <2>1 DEF Shows, ShowsItsState
<1> QED
  BY <1>1, JumperSound, PTL

\* No frame takes a jumper through a platform, of any hill and at any speed.
THEOREM NoPlatformIsPassed == Spec => NoOvershoot
<1> DEFINE Holds ==
      Update => \A rock \in Platforms :
                   (rock.left <= jumper'.posX /\ jumper'.posX <= rock.right
                       /\ jumper.posY >= rock.level) => jumper'.posY >= rock.level
<1>1. JumperIsSound /\ [Next]_vars => [Holds]_vars
  BY UpdateKeepsSound
<1>2. Spec => [][Holds]_vars
  <2> HIDE DEF Holds
  <2> QED
    BY <1>1, JumperSound, PTL DEF Spec
<1> QED
  BY <1>2 DEF NoOvershoot

\* The countdown hands the view over to the model in place, though a delayed
\* call may have started another way during the walk back.
THEOREM HandedOverInPlace == Spec => TakenOverInPlace
<1> DEFINE Holds ==
      (jumper.isWandering /\ ~jumper'.isWandering /\ Exists' /\ gameState' = "countdownToGame")
          => jumper'.viewX = jumper'.posX
<1>1. JumperIsSound /\ [Next]_vars => [Holds]_vars
  <2> SUFFICES ASSUME JumperIsSound, Next,
                      jumper.isWandering, ~jumper'.isWandering, Exists',
                      gameState' = "countdownToGame"
               PROVE  jumper'.viewX = jumper'.posX
    OBVIOUS
  <2>0. Sound(jumper) /\ jumper \in JumperRecord
    BY DEF JumperIsSound, Sound
  <2>1. ASSUME NEW x \in Xs, NEW y \in 0..MaxY, HandleConnectedPlayer(x, y) PROVE FALSE
    BY <2>1, AnnouncedSound DEF HandleConnectedPlayer
  <2>2. ~AddToScene /\ ~Blink
    BY <2>0 DEF AddToScene, Blink, JumperRecord
  <2>3. ~RemoveFromScene
    BY DEF RemoveFromScene
  <2>4. ~HandleCountdownToGame
    <3>1. Sound(ToStartPosition(jumper)) /\ ToStartPosition(jumper).isWandering
      BY <2>0, ToStartPositionSound
    <3> QED
      BY <3>1 DEF HandleCountdownToGame
  <2>5. ASSUME NEW x \in Xs, NEW y \in Feet,
               NEW isFallen \in BOOLEAN, NEW isPaused \in BOOLEAN,
               HandleJumpInfo(x, y, isFallen, isPaused)
        PROVE  FALSE
    BY <2>5 DEF HandleJumpInfo
  <2>6. ~Freeze /\ ~Update
    BY DEF Freeze, Update
  <2>7. ~FirstWander
    <3> DEFINE j == [jumper EXCEPT !.delayed = FALSE]
    <3>1. j.isWandering
      BY <2>0 DEF JumperRecord
    <3>2. j \in JumperRecord
      BY <2>0 DEF JumperRecord
    <3> HIDE DEF j
    <3>3. \A k \in WanderNext(j) : k.isWandering
      BY <3>1, <3>2 DEF WanderNext, JumperRecord
    <3> QED
      BY <3>3 DEF FirstWander, j
  <2>8. ASSUME NEW i \in DOMAIN jumper.ways, WanderOn(i) PROVE FALSE
    <3> DEFINE j == [jumper EXCEPT !.ways = RemoveAt(jumper.ways, i)]
    <3>1. j.isWandering
      BY <2>0 DEF JumperRecord
    <3>2. j.isWandering = TRUE /\ \A w : [j EXCEPT !.ways = w].isWandering = j.isWandering
      BY <2>0 DEF JumperRecord
    <3> HIDE DEF j
    <3>3. \A k \in WanderNext(j) : k.isWandering
      BY <3>1, <3>2 DEF WanderNext
    <3> QED
      BY <2>8, <3>3 DEF WanderOn, j
  <2>9. ASSUME NEW i \in DOMAIN jumper.ways, Walk(i) PROVE FALSE
    BY <2>0, <2>9 DEF Walk, JumperRecord
  <2>10. ASSUME NEW i \in DOMAIN jumper.ways, Arrive(i)
         PROVE  jumper'.viewX = jumper'.posX
    BY <2>10, ArriveKeepsSound
  <2> QED
    BY <2>1, <2>2, <2>3, <2>4, <2>5, <2>6, <2>7, <2>8, <2>9, <2>10 DEF Next
<1>2. Spec => [][Holds]_vars
  <2> HIDE DEF Holds
  <2> QED
    BY <1>1, JumperSound, PTL DEF Spec
<1> QED
  BY <1>2 DEF TakenOverInPlace

=============================================================================
