--------------------------- MODULE Screens_proofs ---------------------------
(***************************************************************************)
(* Theorems about Screens: what the scenes on the stage are, for every      *)
(* number of scenes, however deep page turns are nested in each other.      *)
(*                                                                         *)
(* The scenes a transition leaves are a recursive function of the line of   *)
(* transitions behind it.  That there is such a function, and that it does  *)
(* not change when scenes are added, needs induction along the line: a      *)
(* transition is younger than what it turns from, so the least counter-     *)
(* example (LeastElement) serves.                                           *)
(***************************************************************************)
EXTENDS Screens, SequenceTheorems, WellFoundedInduction, TLAPS

-----------------------------------------------------------------------------
(* Lines of transitions.                                                    *)

\* A set of natural numbers that is not empty has a least element.
LEMMA LeastElement ==
  ASSUME NEW S, S \subseteq Nat, S # {}
  PROVE  \E x \in S : \A y \in S : ~(y < x)
<1>1. IsWellFoundedOn(OpToRel(<, Nat), Nat)
  BY NatLessThanWellFounded
<1>2. \E x \in S : \A y \in S : ~(<<y, x>> \in OpToRel(<, Nat))
  BY <1>1, WFMin
<1>3. ASSUME NEW x \in S, NEW y \in S, y < x
      PROVE  <<y, x>> \in OpToRel(<, Nat)
  BY <1>3 DEF OpToRel
<1> QED
  BY <1>2, <1>3

\* A transition turns from something that was there before it.
Backward(ns) == \A m \in DOMAIN ns : ns[m].kind = "turn" => ns[m].out \in 1..(m - 1)

\* What f has to be up to n to collect g along the lines of the transitions in ns.
Line(ns, g, f, n) ==
    [m \in 1..n |-> IF ns[m].kind = "turn" THEN {g[m]} \cup f[ns[m].out] ELSE {m}]

\* There is a function that collects g: the least n up to which there is none
\* would be one more than an n up to which there is one.
LEMMA LineExists ==
  ASSUME NEW N \in Nat, NEW ns, NEW g, DOMAIN ns = 1..N, Backward(ns)
  PROVE  \E f : f = Line(ns, g, f, N)
<1> DEFINE Missing == {n \in Nat : n <= N /\ ~\E f : f = Line(ns, g, f, n)}
<1>1. SUFFICES ASSUME Missing # {} PROVE FALSE
  <2>1. N <= N
    OBVIOUS
  <2> QED BY <2>1, Zenon
<1>2. PICK n \in Missing : \A k \in Missing : ~(k < n)
  <2>1. Missing \subseteq Nat
    OBVIOUS
  <2> QED BY <1>1, <2>1, LeastElement
<1>3. n # 0
  <2>1. 1..0 = {}
    OBVIOUS
  <2>2. SUFFICES ASSUME n = 0 PROVE FALSE
    OBVIOUS
  <2>3. [m \in {} |-> {}] = Line(ns, g, [m \in {} |-> {}], 0)
    BY <2>1 DEF Line
  <2> QED BY <2>2, <2>3
<1>4. PICK f : f = Line(ns, g, f, n - 1)
  <2>1. n - 1 \in Nat /\ n - 1 <= N /\ n - 1 < n
    BY <1>3
  <2> QED BY <1>2, <2>1
<1> DEFINE h == [m \in 1..n |-> IF m \in 1..(n - 1) THEN f[m]
                 ELSE IF ns[m].kind = "turn" THEN {g[m]} \cup f[ns[m].out] ELSE {m}]
<1>5. h = Line(ns, g, h, n)
  <2>1. ASSUME NEW m \in 1..n
        PROVE  h[m] = IF ns[m].kind = "turn" THEN {g[m]} \cup h[ns[m].out] ELSE {m}
    <3>1. ns[m].kind = "turn" => ns[m].out \in 1..(m - 1)
      BY DEF Backward
    <3>2. ns[m].kind = "turn" => ns[m].out \in 1..(n - 1) /\ h[ns[m].out] = f[ns[m].out]
      BY <3>1
    <3>3. m \in 1..(n - 1) => f[m] = IF ns[m].kind = "turn" THEN {g[m]} \cup f[ns[m].out] ELSE {m}
      BY <1>4 DEF Line
    <3> QED BY <3>2, <3>3
  <2> QED BY <2>1 DEF Line
<1> QED BY <1>2, <1>5

\* The function of Leaves, as one of the scenes alone.
Left(ns) ==
    CHOOSE left :
        left = [m \in DOMAIN ns |-> IF ns[m].kind = "turn" THEN {m} \cup left[ns[m].out] ELSE {m}]

\* The function of Seen.
Drawn(ns) ==
    CHOOSE seen :
        seen = [m \in DOMAIN ns |-> IF ns[m].kind = "turn" THEN {ns[m].in} \cup seen[ns[m].out]
                                    ELSE {m}]

LEMMA LeavesIsLeft == \A n : Leaves(n) = Left(nodes)[n]
BY DEF Leaves, Left, Ids, IsTurn

LEMMA SeenIsDrawn == \A n : Seen(n) = Drawn(nodes)[n]
BY DEF Seen, Drawn, Ids, IsTurn

\* Leaves is what its recursive definition says.
LEMMA LeftUnfolds ==
  ASSUME NEW N \in Nat, NEW ns, DOMAIN ns = 1..N, Backward(ns)
  PROVE  Left(ns) = [m \in DOMAIN ns |->
                       IF ns[m].kind = "turn" THEN {m} \cup Left(ns)[ns[m].out] ELSE {m}]
<1> DEFINE g == [m \in 1..N |-> m]
<1>1. PICK f : f = Line(ns, g, f, N)
  BY LineExists
<1>2. f = [m \in DOMAIN ns |-> IF ns[m].kind = "turn" THEN {m} \cup f[ns[m].out] ELSE {m}]
  BY <1>1 DEF Line
<1> QED BY <1>2 DEF Left

\* So is Seen.
LEMMA DrawnUnfolds ==
  ASSUME NEW N \in Nat, NEW ns, DOMAIN ns = 1..N, Backward(ns)
  PROVE  Drawn(ns) = [m \in DOMAIN ns |->
                        IF ns[m].kind = "turn" THEN {ns[m].in} \cup Drawn(ns)[ns[m].out] ELSE {m}]
<1> DEFINE g == [m \in 1..N |-> ns[m].in]
<1>1. PICK f : f = Line(ns, g, f, N)
  BY LineExists
<1>2. f = [m \in DOMAIN ns |-> IF ns[m].kind = "turn" THEN {ns[m].in} \cup f[ns[m].out] ELSE {m}]
  BY <1>1 DEF Line
<1> QED BY <1>2 DEF Drawn

\* What a scene leaves does not depend on the scenes that come after it, nor on pages.
LEMMA LeftIsStable ==
  ASSUME NEW N \in Nat, NEW ns, DOMAIN ns = 1..N, Backward(ns),
         NEW M \in Nat, NEW ms, DOMAIN ms = 1..M, Backward(ms), N <= M,
         \A n \in 1..N : ms[n].kind = ns[n].kind /\ ms[n].out = ns[n].out
  PROVE  \A n \in 1..N : Left(ms)[n] = Left(ns)[n]
<1> DEFINE Other == {n \in 1..N : Left(ms)[n] # Left(ns)[n]}
<1>1. SUFFICES ASSUME Other # {} PROVE FALSE
  OBVIOUS
<1>2. PICK n \in Other : \A k \in Other : ~(k < n)
  <2>1. Other \subseteq Nat
    OBVIOUS
  <2> QED BY <1>1, <2>1, LeastElement
<1>3. Left(ns)[n] = IF ns[n].kind = "turn" THEN {n} \cup Left(ns)[ns[n].out] ELSE {n}
  BY LeftUnfolds
<1>4. Left(ms)[n] = IF ms[n].kind = "turn" THEN {n} \cup Left(ms)[ms[n].out] ELSE {n}
  <2>1. n \in DOMAIN ms
    OBVIOUS
  <2> QED BY <2>1, LeftUnfolds
<1>5. ns[n].kind = "turn" => ns[n].out \in 1..N /\ ns[n].out < n
  BY DEF Backward
<1>6. ns[n].kind = "turn" => Left(ms)[ns[n].out] = Left(ns)[ns[n].out]
  BY <1>2, <1>5
<1> QED BY <1>3, <1>4, <1>6

-----------------------------------------------------------------------------
(* The scenes there are.                                                    *)

\* A transition turns to the scene created just before it, from an older one.
TurnsInOrder ==
    \A n \in Ids : IsTurn(n) =>
        /\ nodes[n].in = n - 1 /\ n - 1 \in Ids /\ ~IsTurn(n - 1)
        /\ nodes[n].out \in 1..(n - 2)

\* Only transitions turn a page.
PagesOfTurns == \A n \in Ids : nodes[n].page # "none" => IsTurn(n)

NodesOK == nodes \in Seq(Node) /\ Len(nodes) <= MaxNodes /\ TurnsInOrder /\ PagesOfTurns

DirectorOK ==
    /\ entered \subseteq Ids
    /\ runningScene \in Ids
    /\ nextScene \in Ids \cup {Nil}
    /\ dispatchEvents \in BOOLEAN
    /\ switches \in 0..SwitchesPerFrame

PlayersOK == DOMAIN players \subseteq Players /\ players \in [DOMAIN players -> Ids \cup {Nil}]

StatesOK ==
    /\ sceneType \in {"none", "jump", "fight"}
    /\ gameState \in {"none", "waiting", "playing", "lost", "over", "quit"}
    /\ connected \in BOOLEAN /\ quitPending \in BOOLEAN

AlertsOK == alert \in Ids \cup {Nil} /\ told \subseteq Ids

\* The type invariant and the order of scenes, which makes it inductive: what a
\* page turn puts on the stage is a scene there is.
Shape == NodesOK /\ DirectorOK /\ PlayersOK /\ StatesOK /\ AlertsOK

\* ms are the scenes there are, but for the pages of transitions.
SameScenes(ms) ==
    /\ ms \in Seq(Node) /\ Len(ms) = Len(nodes)
    /\ \A n \in Ids : /\ ms[n].kind = nodes[n].kind
                      /\ ms[n].in = nodes[n].in /\ ms[n].out = nodes[n].out
                      /\ ms[n].page # "none" => IsTurn(n)

\* Scenes are created, never forgotten.
Grows ==
    /\ NodesOK' /\ Ids \subseteq Ids'
    /\ \A n \in Ids : /\ nodes'[n].kind = nodes[n].kind
                      /\ nodes'[n].in = nodes[n].in /\ nodes'[n].out = nodes[n].out

LEMMA IdsAreNumbers ==
  ASSUME NodesOK
  PROVE  /\ Len(nodes) \in Nat /\ Ids = 1..Len(nodes) /\ Len(nodes) <= MaxNodes
         /\ Nil \notin Ids
         /\ \A n \in Ids : nodes[n] \in Node
BY DEF NodesOK, Ids, Nil

\* Scenes as they were are as well ordered as they were.
LEMMA SameScenesGrow ==
  ASSUME NodesOK, SameScenes(nodes')
  PROVE  Grows /\ Ids' = Ids
<1>1. Len(nodes') = Len(nodes) /\ Ids' = Ids
  BY DEF SameScenes, NodesOK, Ids
<1>2. \A n \in Ids : /\ nodes'[n].kind = nodes[n].kind
                     /\ nodes'[n].in = nodes[n].in /\ nodes'[n].out = nodes[n].out
                     /\ nodes'[n].page # "none" => IsTurn(n)
  BY DEF SameScenes
<1>3. \A n \in Ids : IsTurn(n)' <=> IsTurn(n)
  BY <1>2 DEF IsTurn
<1>4. TurnsInOrder'
  BY <1>1, <1>2, <1>3 DEF NodesOK, TurnsInOrder
<1>5. PagesOfTurns'
  BY <1>1, <1>2, <1>3 DEF PagesOfTurns
<1>6. nodes' \in Seq(Node) /\ Len(nodes') <= MaxNodes
  BY <1>1 DEF SameScenes, NodesOK
<1> QED BY <1>1, <1>2, <1>4, <1>5, <1>6 DEF Grows, NodesOK

LEMMA NodesAreSame ==
  ASSUME NodesOK
  PROVE  SameScenes(nodes)
BY DEF NodesOK, PagesOfTurns, SameScenes

\* A transition that gets another page than "none" is the same transition.
LEMMA PageTurned ==
  ASSUME NodesOK, NEW t \in Ids, IsTurn(t),
         NEW page \in {"turning", "finished", "done"}
  PROVE  SameScenes([nodes EXCEPT ![t].page = page])
<1> DEFINE ms == [nodes EXCEPT ![t].page = page]
<1>1. /\ Len(nodes) \in Nat /\ Ids = 1..Len(nodes)
      /\ \A n \in Ids : nodes[n] \in Node
  BY IdsAreNumbers
<1>2. ms \in [1..Len(nodes) -> Node]
  <2>1. nodes \in [1..Len(nodes) -> Node]
    BY <1>1 DEF NodesOK
  <2>2. [nodes[t] EXCEPT !.page = page] \in Node
    BY <1>1 DEF Node
  <2> QED BY <2>1, <2>2, <1>1
<1>3. ms \in Seq(Node) /\ Len(ms) = Len(nodes)
  BY <1>1, <1>2
<1>4. ASSUME NEW n \in Ids
      PROVE  /\ ms[n].kind = nodes[n].kind
             /\ ms[n].in = nodes[n].in /\ ms[n].out = nodes[n].out
             /\ ms[n].page # "none" => IsTurn(n)
  <2>1. ms[n] = IF n = t THEN [nodes[t] EXCEPT !.page = page] ELSE nodes[n]
    BY <1>1 DEF NodesOK
  <2>2. nodes[n].page # "none" => IsTurn(n)
    BY DEF NodesOK, PagesOfTurns
  <2>3. nodes[t] \in Node
    BY <1>1
  <2> QED BY <2>1, <2>2, <2>3 DEF Node
<1> QED BY <1>3, <1>4 DEF SameScenes

LEMMA UnscheduledIsSame ==
  ASSUME NodesOK, runningScene \in Ids
  PROVE  SameScenes(Unscheduled)
<1>1. CASE nodes[runningScene].page = "finished"
  <2>1. IsTurn(runningScene)
    BY <1>1 DEF NodesOK, PagesOfTurns
  <2>2. Unscheduled = [nodes EXCEPT ![runningScene].page = "done"]
    BY <1>1 DEF Unscheduled
  <2> QED BY <2>1, <2>2, PageTurned
<1>2. CASE nodes[runningScene].page # "finished"
  <2>1. Unscheduled = nodes
    <3>1. Unscheduled = [nodes EXCEPT ![runningScene].page = nodes[runningScene].page]
      BY <1>2 DEF Unscheduled
    <3>2. nodes[runningScene] \in Node /\ nodes \in Seq(Node)
      BY IdsAreNumbers DEF NodesOK
    <3>3. [nodes[runningScene] EXCEPT !.page = nodes[runningScene].page] = nodes[runningScene]
      BY <3>2 DEF Node
    <3> QED BY <3>1, <3>2, <3>3
  <2> QED BY <2>1, NodesAreSame
<1> QED BY <1>1, <1>2

\* A plain scene is added behind the scenes there are.
LEMMA ReplaceSceneGrows ==
  ASSUME NodesOK, NEW old, SameScenes(old), NEW kind \in Kinds \ {"turn"},
         ReplaceScene(old, kind)
  PROVE  /\ Grows /\ nextScene' \in Ids'
         /\ nextScene' = Len(nodes) + 1 /\ nodes'[nextScene'].kind = kind
<1>1. /\ Len(nodes) \in Nat /\ Ids = 1..Len(nodes)
  BY IdsAreNumbers
<1>2. old \in Seq(Node) /\ Len(old) = Len(nodes)
  BY DEF SameScenes
<1>3. PlainScene(kind) \in Node
  BY LimitsAssumption DEF PlainScene, Node, Nil
<1>4. /\ nodes' \in Seq(Node) /\ Len(nodes') = Len(nodes) + 1 /\ Len(nodes') <= MaxNodes
      /\ nodes'[Len(nodes) + 1] = PlainScene(kind)
      /\ \A n \in Ids : nodes'[n] = old[n]
  BY <1>1, <1>2, <1>3 DEF ReplaceScene
<1>5. Ids' = 1..(Len(nodes) + 1) /\ Ids' = Ids \cup {Len(nodes) + 1}
  BY <1>1, <1>4 DEF Ids
<1>6. \A n \in Ids : /\ nodes'[n].kind = nodes[n].kind
                     /\ nodes'[n].in = nodes[n].in /\ nodes'[n].out = nodes[n].out
                     /\ nodes'[n].page # "none" => IsTurn(n)
  BY <1>4 DEF SameScenes
<1>7. \A n \in Ids : IsTurn(n)' <=> IsTurn(n)
  BY <1>6 DEF IsTurn
<1>8. nodes'[Len(nodes) + 1].kind # "turn" /\ nodes'[Len(nodes) + 1].page = "none"
  BY <1>4 DEF PlainScene
<1>9. TurnsInOrder'
  BY <1>5, <1>6, <1>7, <1>8 DEF NodesOK, TurnsInOrder, IsTurn
<1>10. PagesOfTurns'
  BY <1>5, <1>6, <1>7, <1>8 DEF PagesOfTurns
<1>11. nextScene' = Len(nodes) + 1 /\ nodes'[nextScene'].kind = kind
  BY <1>2, <1>4 DEF ReplaceScene, PlainScene
<1> QED BY <1>4, <1>5, <1>6, <1>9, <1>10, <1>11 DEF Grows, NodesOK

\* A scene is added, and a transition to it from the one that runs.
LEMMA TurnPageGrows ==
  ASSUME NodesOK, runningScene \in Ids, NEW old, SameScenes(old),
         NEW kind \in Kinds \ {"turn"}, NEW back \in BOOLEAN, TurnPage(old, kind, back)
  PROVE  /\ Grows /\ nextScene' \in Ids' /\ nextScene' = Len(nodes) + 2
         /\ IsTurn(nextScene)' /\ nodes'[nextScene'].out = runningScene
         /\ nodes'[nodes'[nextScene'].in].kind = kind
         /\ \A n \in Ids : nodes'[n] = old[n]
<1>1. /\ Len(nodes) \in Nat /\ Ids = 1..Len(nodes) /\ runningScene \in 1..Len(nodes)
  BY IdsAreNumbers
<1>2. old \in Seq(Node) /\ Len(old) = Len(nodes)
  BY DEF SameScenes
<1> DEFINE turn == [kind |-> "turn", in |-> Len(old) + 1, out |-> runningScene,
                    back |-> back, page |-> "none"]
           new  == <<PlainScene(kind), turn>>
<1>3. nodes' = old \o new /\ Len(old) + 2 <= MaxNodes
  BY DEF TurnPage
<1>4. PlainScene(kind) \in Node
  BY LimitsAssumption DEF PlainScene, Node, Nil
<1>5. turn \in Node
  BY <1>1, <1>2, <1>3, LimitsAssumption DEF Node, Kinds
<1>6. new \in Seq(Node) /\ Len(new) = 2 /\ new[1] = PlainScene(kind) /\ new[2] = turn
  BY <1>4, <1>5
<1>7. /\ nodes' \in Seq(Node) /\ Len(nodes') = Len(nodes) + 2 /\ Len(nodes') <= MaxNodes
      /\ nodes'[Len(nodes) + 1] = PlainScene(kind) /\ nodes'[Len(nodes) + 2] = turn
      /\ \A n \in Ids : nodes'[n] = old[n]
  <2>1. Len(new) = 2 /\ new \in Seq(Node) /\ new[1] = PlainScene(kind) /\ new[2] = turn
    BY <1>6
  <2>2. /\ old \o new \in Seq(Node) /\ Len(old \o new) = Len(old) + Len(new)
        /\ \A i \in 1..(Len(old) + Len(new)) :
             (old \o new)[i] = IF i <= Len(old) THEN old[i] ELSE new[i - Len(old)]
    <3> HIDE DEF new
    <3> QED BY <1>2, <2>1, ConcatProperties
  <2>3. /\ nodes' \in Seq(Node) /\ Len(nodes') = Len(old) + 2
        /\ \A i \in 1..(Len(old) + 2) :
             nodes'[i] = IF i <= Len(old) THEN old[i] ELSE new[i - Len(old)]
    <3> HIDE DEF new
    <3> QED BY <1>3, <2>1, <2>2
  <2>4. nodes'[Len(nodes) + 1] = new[1] /\ nodes'[Len(nodes) + 2] = new[2]
    <3> HIDE DEF new
    <3> QED BY <1>1, <1>2, <2>3
  <2>5. \A n \in Ids : nodes'[n] = old[n]
    <3> HIDE DEF new
    <3> QED BY <1>1, <1>2, <2>3
  <2>6. Len(nodes') = Len(nodes) + 2 /\ Len(nodes') <= MaxNodes
    BY <1>2, <1>3, <2>3
  <2>7. nodes'[Len(nodes) + 1] = PlainScene(kind) /\ nodes'[Len(nodes) + 2] = turn
    <3> HIDE DEF new, turn
    <3> QED BY <2>1, <2>4
  <2> HIDE DEF new, turn
  <2> QED BY <2>3, <2>5, <2>6, <2>7, Zenon
<1>8. Ids' = Ids \cup {Len(nodes) + 1, Len(nodes) + 2}
  <2>1. Len(nodes') = Len(nodes) + 2 /\ nodes' \in Seq(Node)
    BY <1>7
  <2>2. Ids' = 1..(Len(nodes) + 2)
    BY <2>1 DEF Ids
  <2> QED BY <1>1, <2>2
<1>9. \A n \in Ids : /\ nodes'[n].kind = nodes[n].kind
                     /\ nodes'[n].in = nodes[n].in /\ nodes'[n].out = nodes[n].out
                     /\ nodes'[n].page # "none" => IsTurn(n)
  BY <1>7 DEF SameScenes
<1>10. \A n \in Ids : IsTurn(n)' <=> IsTurn(n)
  BY <1>9 DEF IsTurn
<1>11. nodes'[Len(nodes) + 1].kind # "turn" /\ nodes'[Len(nodes) + 1].page = "none"
  BY <1>7 DEF PlainScene
<1>12. /\ nodes'[Len(nodes) + 2].kind = "turn" /\ nodes'[Len(nodes) + 2].in = Len(nodes) + 1
       /\ nodes'[Len(nodes) + 2].out = runningScene
  BY <1>2, <1>7
<1>13. TurnsInOrder'
  <2>1. ASSUME NEW n \in Ids', IsTurn(n)'
        PROVE  /\ nodes'[n].in = n - 1 /\ n - 1 \in Ids' /\ ~IsTurn(n - 1)'
               /\ nodes'[n].out \in 1..(n - 2)
    <3>1. CASE n \in Ids
      BY <2>1, <3>1, <1>8, <1>9, <1>10 DEF NodesOK, TurnsInOrder
    <3>2. CASE n = Len(nodes) + 2
      BY <3>2, <1>1, <1>8, <1>11, <1>12 DEF IsTurn
    <3> QED BY <2>1, <3>1, <3>2, <1>8, <1>11 DEF IsTurn
  <2> QED BY <2>1 DEF TurnsInOrder
<1>14. PagesOfTurns'
  BY <1>8, <1>9, <1>10, <1>11, <1>12 DEF PagesOfTurns, IsTurn
<1>15. nextScene' = Len(nodes) + 2 /\ nodes'[Len(nodes) + 1].kind = kind
  BY <1>2, <1>7 DEF TurnPage, PlainScene
<1>16. IsTurn(nextScene)'
  BY <1>12, <1>15 DEF IsTurn
<1> QED BY <1>7, <1>8, <1>9, <1>12, <1>13, <1>14, <1>15, <1>16 DEF Grows, NodesOK

-----------------------------------------------------------------------------
(* The steps, as the director sees them.                                    *)

\* A step that leaves the stage alone.
StageStill ==
    /\ SameScenes(nodes')
    /\ UNCHANGED <<entered, runningScene, nextScene, dispatchEvents, switches>>

\* A page turn is begun.
PageIsBegun ==
    \E old : \E kind \in Kinds \ {"turn"}, back \in BOOLEAN :
        SameScenes(old) /\ TurnPage(old, kind, back)

\* A packet changes the scene.
SceneIsReplaced ==
    \E old : \E kind \in {"jump", "fight"} :
        /\ SameScenes(old) /\ OnTime /\ ReplaceScene(old, kind)
        /\ switches < SwitchesPerFrame /\ switches' = switches + 1

\* Whatever happens, the director is left alone, begins a page turn, gets another
\* scene, ends a frame or ends a page turn.
LEMMA DirectorStep ==
  ASSUME NodesOK, runningScene \in Ids, [Next]_vars
  PROVE  \/ StageStill \/ PageIsBegun \/ SceneIsReplaced
         \/ SetNextScene \/ \E t \in Ids : SetNewScene(t)
<1>1. SameScenes(nodes) /\ SameScenes(Unscheduled)
  BY NodesAreSame, UnscheduledIsSame
<1>2. CASE UNCHANGED vars
  BY <1>1, <1>2 DEF vars, director, StageStill
<1>3. ASSUME NEW t \in Ids, Finish(t)
      PROVE  StageStill
  <2>1. IsTurn(t) /\ nodes' = [nodes EXCEPT ![t].page = "finished"]
    BY <1>3 DEF Finish, NodesOK, PagesOfTurns
  <2>2. SameScenes(nodes')
    BY <2>1, PageTurned
  <2> QED BY <1>3, <2>2 DEF Finish, StageStill
<1>4. ASSUME StartWithPlayerId \/ HandleGameOverInfo \/ Quit \/ ReturnToMainMenu \/ Play
      PROVE  PageIsBegun
  <2>1. {"jump", "over", "home", "lobby"} \subseteq Kinds \ {"turn"}
    BY DEF Kinds
  <2> QED
    BY <1>1, <1>4, <2>1
    DEF StartWithPlayerId, HandleGameOverInfo, Quit, ReturnToMainMenu, Play, PageIsBegun
<1>5. ASSUME NEW kind \in {"jump", "fight"}, NEW listed \in SUBSET Players, SwitchScene(kind, listed)
      PROVE  SceneIsReplaced
  BY <1>1, <1>5 DEF SwitchScene, SceneIsReplaced
<1>6. ASSUME HandleServerDisconnectedEvent
      PROVE  StageStill
  BY <1>1, <1>6 DEF HandleServerDisconnectedEvent, StageStill
<1>7. ASSUME \/ \E p \in Players : Announce(p) \/ Depart(p)
             \/ \E kind \in {"jump", "fight"}, listed \in SUBSET Players : Info(kind, listed)
             \/ Disconnect \/ CreateNewGame
             \/ \E s \in entered : CheckNewPlayers(s) \/ CheckDisconnection(s)
             \/ AskQuit \/ Resume
      PROVE  StageStill
  <2>1. UNCHANGED director
    BY <1>7 DEF Announce, Depart, Info, Disconnect, CreateNewGame, CheckNewPlayers,
                CheckDisconnection, AskQuit, Resume
  <2> QED BY <1>1, <2>1 DEF director, StageStill
<1> QED
  BY <1>2, <1>3, <1>4, <1>5, <1>6, <1>7 DEF Next, Turn

-----------------------------------------------------------------------------
(* Types.                                                                   *)

\* What is entered when a scene is put on the stage, and left, are scenes.
LEMMA EntersScenes ==
  ASSUME NodesOK, NEW n \in Ids
  PROVE  n \in Enters(n) /\ Enters(n) \subseteq Ids
BY DEF NodesOK, TurnsInOrder, Enters

LEMMA DirectorKeepsShape ==
  ASSUME NodesOK, DirectorOK, [Next]_vars
  PROVE  Grows /\ DirectorOK'
<1>1. runningScene \in Ids /\ Nil \notin Ids
  BY IdsAreNumbers DEF DirectorOK
<1>2. CASE StageStill
  <2>1. Grows /\ Ids' = Ids
    BY <1>2, SameScenesGrow DEF StageStill
  <2> QED BY <1>2, <2>1 DEF StageStill, DirectorOK
<1>3. CASE PageIsBegun
  <2>1. PICK old : \E kind \in Kinds \ {"turn"}, back \in BOOLEAN :
             SameScenes(old) /\ TurnPage(old, kind, back)
    BY <1>3 DEF PageIsBegun
  <2>2. Grows /\ nextScene' \in Ids'
    BY <1>1, <2>1, TurnPageGrows
  <2>3. Ids \subseteq Ids'
    BY <2>2 DEF Grows
  <2> QED BY <2>1, <2>2, <2>3 DEF TurnPage, DirectorOK
<1>4. CASE SceneIsReplaced
  <2>1. PICK old : \E kind \in {"jump", "fight"} :
             /\ SameScenes(old) /\ ReplaceScene(old, kind)
             /\ switches < SwitchesPerFrame /\ switches' = switches + 1
    BY <1>4 DEF SceneIsReplaced
  <2>2. {"jump", "fight"} \subseteq Kinds \ {"turn"}
    BY DEF Kinds
  <2>3. Grows /\ nextScene' \in Ids'
    BY <2>1, <2>2, ReplaceSceneGrows
  <2>4. Ids \subseteq Ids'
    BY <2>3 DEF Grows
  <2>5. switches' \in 0..SwitchesPerFrame
    BY <2>1, LimitsAssumption DEF DirectorOK
  <2> QED BY <2>1, <2>3, <2>4, <2>5 DEF ReplaceScene, DirectorOK
<1>5. CASE SetNextScene
  <2>1. nextScene \in Ids
    BY <1>5 DEF SetNextScene, DirectorOK
  <2>2. SameScenes(nodes')
    <3>1. CASE ~IsTurn(runningScene) /\ IsTurn(nextScene)
      BY <1>5, <2>1, <3>1, PageTurned DEF SetNextScene
    <3>2. CASE ~(~IsTurn(runningScene) /\ IsTurn(nextScene))
      BY <1>5, <3>2, NodesAreSame DEF SetNextScene
    <3> QED BY <3>1, <3>2
  <2>3. Grows /\ Ids' = Ids
    BY <2>2, SameScenesGrow
  <2>4. entered' \subseteq Ids
    <3>1. entered' \subseteq entered \cup Enters(nextScene)
      BY <1>5 DEF SetNextScene
    <3> QED BY <2>1, <3>1, EntersScenes DEF DirectorOK
  <2>5. runningScene' = nextScene /\ nextScene' = Nil /\ switches' = 0
        /\ dispatchEvents' = dispatchEvents
    BY <1>5 DEF SetNextScene
  <2> QED BY <2>1, <2>3, <2>4, <2>5, LimitsAssumption DEF DirectorOK
<1>6. ASSUME NEW t \in Ids, SetNewScene(t)
      PROVE  Grows /\ DirectorOK'
  <2>1. IsTurn(t) /\ nodes' = [nodes EXCEPT ![t].page = "done"]
    BY <1>6 DEF SetNewScene, NodesOK, PagesOfTurns
  <2>2. Grows /\ Ids' = Ids
    BY <2>1, PageTurned, SameScenesGrow
  <2>3. nodes[t].in \in Ids
    BY <2>1 DEF NodesOK, TurnsInOrder
  <2> QED BY <1>6, <2>2, <2>3 DEF SetNewScene, DirectorOK
<1> QED BY <1>1, <1>2, <1>3, <1>4, <1>5, <1>6, DirectorStep

\* The objects of the players are displayed in scenes there are.
LEMMA PlayersKeepShape ==
  ASSUME NodesOK, DirectorOK, PlayersOK, Grows, [Next]_vars
  PROVE  PlayersOK'
<1>1. Ids \subseteq Ids'
  BY DEF Grows
<1>2. ASSUME UNCHANGED players
      PROVE  PlayersOK'
  BY <1>1, <1>2 DEF PlayersOK
<1>3. ASSUME players' = NoObjects
      PROVE  PlayersOK'
  BY <1>3 DEF PlayersOK, NoObjects
<1>4. ASSUME NEW p \in Players, Announce(p)
      PROVE  PlayersOK'
  BY <1>1, <1>4 DEF Announce, PlayersOK
<1>5. ASSUME NEW p \in Players, Depart(p)
      PROVE  PlayersOK'
  BY <1>1, <1>5 DEF Depart, PlayersOK
<1>6. ASSUME NEW kind \in {"jump", "fight"}, NEW listed \in SUBSET Players, Info(kind, listed)
      PROVE  PlayersOK'
  BY <1>1, <1>6 DEF Info, PlayersOK
<1>7. ASSUME NEW kind \in {"jump", "fight"}, NEW listed \in SUBSET Players, SwitchScene(kind, listed)
      PROVE  PlayersOK'
  BY <1>1, <1>7 DEF SwitchScene, PlayersOK
<1>8. ASSUME NEW s \in entered, CheckNewPlayers(s)
      PROVE  PlayersOK'
  BY <1>1, <1>8 DEF CheckNewPlayers, PlayersOK, DirectorOK
<1>9. ASSUME \/ UNCHANGED vars \/ SetNextScene
             \/ \E t \in Ids : Finish(t) \/ SetNewScene(t)
             \/ StartWithPlayerId \/ Disconnect
             \/ \E s \in entered : CheckDisconnection(s)
             \/ AskQuit \/ Resume \/ ReturnToMainMenu \/ Play
      PROVE  UNCHANGED players
  BY <1>9 DEF vars, game, SetNextScene, Finish, SetNewScene, StartWithPlayerId, Disconnect,
              CheckDisconnection, AskQuit, Resume, ReturnToMainMenu, Play
<1>10. ASSUME HandleGameOverInfo \/ HandleServerDisconnectedEvent \/ Quit \/ CreateNewGame
       PROVE  players' = NoObjects
  BY <1>10 DEF HandleGameOverInfo, HandleServerDisconnectedEvent, Quit, CreateNewGame
<1> QED
  BY <1>2, <1>3, <1>4, <1>5, <1>6, <1>7, <1>8, <1>9, <1>10 DEF Next, Turn

LEMMA StatesKeepShape ==
  ASSUME StatesOK, [Next]_vars
  PROVE  StatesOK'
<1>1. ASSUME \/ UNCHANGED vars \/ SetNextScene
             \/ \E t \in Ids : Finish(t) \/ SetNewScene(t)
             \/ \E p \in Players : Announce(p) \/ Depart(p)
             \/ \E s \in entered : CheckNewPlayers(s) \/ CheckDisconnection(s)
             \/ AskQuit \/ Resume \/ ReturnToMainMenu \/ Play
      PROVE  UNCHANGED <<sceneType, gameState, connected, quitPending>>
  BY <1>1 DEF vars, game, SetNextScene, Finish, SetNewScene, Announce, Depart, CheckNewPlayers,
              CheckDisconnection, AskQuit, Resume, ReturnToMainMenu, Play
<1>2. ASSUME UNCHANGED <<sceneType, gameState, connected, quitPending>>
      PROVE  StatesOK'
  BY <1>2 DEF StatesOK
<1>3. ASSUME StartWithPlayerId \/ Disconnect \/ HandleGameOverInfo
             \/ HandleServerDisconnectedEvent \/ Quit \/ CreateNewGame
      PROVE  StatesOK'
  BY <1>3 DEF StartWithPlayerId, Disconnect, HandleGameOverInfo, HandleServerDisconnectedEvent,
              Quit, CreateNewGame, StatesOK
<1>4. ASSUME NEW kind \in {"jump", "fight"}, NEW listed \in SUBSET Players,
             Info(kind, listed) \/ SwitchScene(kind, listed)
      PROVE  StatesOK'
  BY <1>4 DEF Info, SwitchScene, StatesOK
<1> QED
  BY <1>1, <1>2, <1>3, <1>4 DEF Next, Turn

\* Alerts report to scenes there are.
LEMMA AlertsKeepShape ==
  ASSUME DirectorOK, AlertsOK, Grows, [Next]_vars
  PROVE  AlertsOK'
<1>1. Ids \subseteq Ids'
  BY DEF Grows
<1>2. ASSUME UNCHANGED alerts
      PROVE  AlertsOK'
  BY <1>1, <1>2 DEF alerts, AlertsOK
<1>3. ASSUME AskQuit \/ Resume \/ Quit
      PROVE  AlertsOK'
  BY <1>1, <1>3 DEF AskQuit, Resume, Quit, AlertsOK, DirectorOK
<1>4. ASSUME NEW s \in entered, CheckDisconnection(s)
      PROVE  AlertsOK'
  BY <1>1, <1>4 DEF CheckDisconnection, AlertsOK, DirectorOK
<1>5. ASSUME \/ UNCHANGED vars \/ SetNextScene
             \/ \E t \in Ids : Finish(t) \/ SetNewScene(t)
             \/ \E p \in Players : Announce(p) \/ Depart(p)
             \/ \E s \in entered : CheckNewPlayers(s)
             \/ ReturnToMainMenu \/ Play \/ StartWithPlayerId \/ Disconnect
             \/ HandleGameOverInfo \/ HandleServerDisconnectedEvent \/ CreateNewGame
      PROVE  UNCHANGED alerts
  BY <1>5 DEF vars, SetNextScene, Finish, SetNewScene, Announce, Depart, CheckNewPlayers,
              ReturnToMainMenu, Play, StartWithPlayerId, Disconnect, HandleGameOverInfo,
              HandleServerDisconnectedEvent, CreateNewGame
<1>6. ASSUME NEW kind \in {"jump", "fight"}, NEW listed \in SUBSET Players,
             Info(kind, listed) \/ SwitchScene(kind, listed)
      PROVE  UNCHANGED alerts
  BY <1>6 DEF Info, SwitchScene
<1> QED
  BY <1>2, <1>3, <1>4, <1>5, <1>6 DEF Next, Turn

LEMMA InitShape == Init => Shape
<1> SUFFICES ASSUME Init PROVE Shape
  OBVIOUS
<1>1. nodes = <<PlainScene("lobby")>> /\ PlainScene("lobby") \in Node
  BY LimitsAssumption DEF Init, PlainScene, Node, Kinds, Nil
<1>2. /\ nodes \in Seq(Node) /\ Len(nodes) = 1 /\ Ids = {1}
      /\ nodes[1].kind = "lobby" /\ nodes[1].page = "none"
  BY <1>1 DEF Ids, PlainScene
<1>3. NodesOK
  BY <1>2, LimitsAssumption DEF NodesOK, TurnsInOrder, PagesOfTurns, IsTurn
<1>4. DirectorOK /\ AlertsOK
  BY <1>2, LimitsAssumption DEF Init, DirectorOK, AlertsOK
<1>5. PlayersOK
  BY DEF Init, PlayersOK, NoObjects
<1>6. StatesOK
  BY DEF Init, StatesOK
<1> QED BY <1>3, <1>4, <1>5, <1>6 DEF Shape

LEMMA NextShape == Shape /\ [Next]_vars => Shape' /\ Grows
<1> SUFFICES ASSUME Shape, [Next]_vars PROVE Shape' /\ Grows
  OBVIOUS
<1>1. NodesOK /\ DirectorOK /\ PlayersOK /\ StatesOK /\ AlertsOK
  BY DEF Shape
<1>2. Grows /\ DirectorOK'
  BY <1>1, DirectorKeepsShape
<1>3. PlayersOK' /\ StatesOK' /\ AlertsOK'
  BY <1>1, <1>2, PlayersKeepShape, StatesKeepShape, AlertsKeepShape
<1>4. NodesOK'
  BY <1>2 DEF Grows
<1> QED BY <1>2, <1>3, <1>4 DEF Shape

LEMMA SpecShape == Spec => []Shape
<1>1. Shape /\ [Next]_vars => Shape'
  BY NextShape
<1> QED BY <1>1, InitShape, PTL DEF Spec

\* The variables have their types, whatever is early or late.
THEOREM ScreensType == Spec => []TypeOK
<1>1. Shape => TypeOK
  BY DEF Shape, NodesOK, DirectorOK, PlayersOK, StatesOK, AlertsOK, TypeOK
<1> QED BY <1>1, SpecShape, PTL

-----------------------------------------------------------------------------
(* What runs.                                                               *)

\* t is the transition whose scenes have been entered.  Others may have been begun
\* behind it, each from the one before: they are left together with t, and only
\* the scene t turns to is not.
Turning(t) ==
    /\ t \in Leaves(runningScene) /\ IsTurn(t)
    /\ entered = {t, nodes[t].in, nodes[t].out}
    /\ ~IsTurn(nodes[t].out)
    /\ nodes[t].out \in Leaves(runningScene)
    /\ nodes[t].in \notin Leaves(runningScene)
    /\ nextScene # Nil /\ ~IsTurn(nextScene) => nextScene = nodes[t].in

\* A page is turned from what runs; on the stage there is one scene, or two and
\* the transition between them.
StageOK ==
    /\ nextScene # Nil /\ IsTurn(nextScene) => nodes[nextScene].out = runningScene
    /\ ~IsTurn(runningScene) => entered = {runningScene}
    /\ IsTurn(runningScene) => \E t \in Ids : Turning(t)

\* The scenes there are can be followed backwards (LineExists).
LEMMA NodesBackward ==
  ASSUME NodesOK
  PROVE  Len(nodes) \in Nat /\ DOMAIN nodes = 1..Len(nodes) /\ Ids = 1..Len(nodes) /\ Backward(nodes)
<1>1. Len(nodes) \in Nat /\ DOMAIN nodes = 1..Len(nodes) /\ Ids = 1..Len(nodes)
  BY DEF NodesOK, Ids
<1>2. ASSUME NEW m \in Ids, nodes[m].kind = "turn"
      PROVE  nodes[m].out \in 1..(m - 1)
  BY <1>1, <1>2 DEF NodesOK, TurnsInOrder, IsTurn
<1> QED BY <1>1, <1>2 DEF Backward

\* What a scene leaves: itself, and what its transition turned from.
LEMMA LeavesUnfold ==
  ASSUME NodesOK, NEW n \in Ids
  PROVE  Leaves(n) = IF IsTurn(n) THEN {n} \cup Leaves(nodes[n].out) ELSE {n}
<1>1. Left(nodes) = [m \in DOMAIN nodes |->
                       IF nodes[m].kind = "turn" THEN {m} \cup Left(nodes)[nodes[m].out] ELSE {m}]
  BY NodesBackward, LeftUnfolds
<1>2. n \in DOMAIN nodes
  BY NodesBackward
<1>3. Left(nodes)[n] = IF nodes[n].kind = "turn" THEN {n} \cup Left(nodes)[nodes[n].out] ELSE {n}
  BY <1>1, <1>2
<1> QED BY <1>3, LeavesIsLeft DEF IsTurn

\* What is left after a step.
LEMMA LeavesThen ==
  /\ \A n : Leaves(n)' = Left(nodes')[n]
  /\ Leaves(runningScene)' = Left(nodes')[runningScene']
BY DEF Leaves, Left, Ids, IsTurn

\* Scenes leave what they left, though others are created and pages turn.
LEMMA LeavesStay ==
  ASSUME NodesOK, Grows
  PROVE  \A n \in Ids : Leaves(n)' = Leaves(n)
<1>1. Len(nodes) \in Nat /\ DOMAIN nodes = 1..Len(nodes) /\ Ids = 1..Len(nodes) /\ Backward(nodes)
  BY NodesBackward
<1>2. nodes' \in Seq(Node) /\ TurnsInOrder'
  BY DEF Grows, NodesOK
<1>3. Len(nodes') \in Nat /\ DOMAIN nodes' = 1..Len(nodes') /\ Ids' = 1..Len(nodes')
  BY <1>2 DEF Ids
<1>4. ASSUME NEW m \in Ids', nodes'[m].kind = "turn"
      PROVE  nodes'[m].out \in 1..(m - 1)
  BY <1>2, <1>3, <1>4 DEF TurnsInOrder, IsTurn
<1>5. Backward(nodes')
  BY <1>3, <1>4 DEF Backward
<1>6. Len(nodes) <= Len(nodes')
  BY <1>1, <1>3 DEF Grows
<1>7. \A n \in 1..Len(nodes) : nodes'[n].kind = nodes[n].kind /\ nodes'[n].out = nodes[n].out
  BY <1>1 DEF Grows
<1>8. \A n \in Ids : Left(nodes')[n] = Left(nodes)[n]
  BY <1>1, <1>3, <1>5, <1>6, <1>7, LeftIsStable
<1> QED BY <1>8, LeavesThen, LeavesIsLeft

\* Steps that enter and leave nothing: what Turning says stays true, whatever is
\* to come next, if only it is a page turn or what it was.
LEMMA TurningStays ==
  ASSUME NodesOK, DirectorOK, Grows, UNCHANGED <<entered, runningScene>>,
         \/ nextScene' = nextScene
         \/ nextScene' # Nil /\ IsTurn(nextScene)',
         NEW t \in Ids, Turning(t)
  PROVE  Turning(t)'
<1>1. t \in Ids' /\ IsTurn(t) /\ nodes[t].in \in Ids /\ nodes[t].out \in Ids
  <2>1. IsTurn(t)
    BY DEF Turning
  <2> QED BY <2>1, NodesBackward DEF NodesOK, TurnsInOrder, Grows
<1>2. /\ nodes'[t].in = nodes[t].in /\ nodes'[t].out = nodes[t].out
      /\ \A n \in Ids : IsTurn(n)' <=> IsTurn(n)
  BY DEF Grows, IsTurn
<1>3. Leaves(runningScene)' = Leaves(runningScene)
  <2>1. \A n \in Ids : Leaves(n)' = Leaves(n)
    BY LeavesStay
  <2> QED BY <2>1, LeavesThen DEF DirectorOK
<1>4. nextScene' # Nil /\ ~IsTurn(nextScene)' => nextScene' = nextScene /\ ~IsTurn(nextScene)
  BY <1>2 DEF DirectorOK, IsTurn, Grows
<1>5. ~IsTurn(nodes[t].out) <=> ~IsTurn(nodes[t].out)'
  BY <1>1, <1>2 DEF IsTurn
<1> QED BY <1>1, <1>2, <1>3, <1>4, <1>5 DEF Turning


\* The end of a frame.
LEMMA SetNextSceneKeepsStage ==
  ASSUME NodesOK, DirectorOK, StageOK, Grows, SetNextScene
  PROVE  StageOK'
<1>1. /\ nextScene \in Ids /\ runningScene \in Ids /\ Nil \notin Ids
      /\ runningScene' = nextScene /\ nextScene' = Nil
  BY IdsAreNumbers DEF SetNextScene, DirectorOK
<1>2. /\ nextScene \in Ids'
      /\ \A n \in Ids : /\ IsTurn(n)' <=> IsTurn(n)
                        /\ nodes'[n].in = nodes[n].in /\ nodes'[n].out = nodes[n].out
  BY <1>1 DEF Grows, IsTurn
<1>3. IsTurn(runningScene)' <=> IsTurn(nextScene)
  BY <1>1, <1>2 DEF IsTurn
<1>4. Leaves(runningScene)' = Leaves(nextScene)
  BY <1>1, LeavesStay, LeavesThen
<1>5. Leaves(nextScene) = IF IsTurn(nextScene) THEN {nextScene} \cup Leaves(nodes[nextScene].out)
                          ELSE {nextScene}
  BY <1>1, LeavesUnfold
<1>6. CASE ~IsTurn(runningScene) /\ ~IsTurn(nextScene)
  <2>1. Leaves(runningScene) = {runningScene} /\ entered = {runningScene}
    BY <1>1, <1>6, LeavesUnfold DEF StageOK
  <2>2. entered' = {nextScene}
    BY <1>6, <2>1 DEF SetNextScene, Enters
  <2> QED BY <1>1, <1>3, <1>6, <2>2 DEF StageOK
<1>7. CASE ~IsTurn(runningScene) /\ IsTurn(nextScene)
  <2>1. nodes[nextScene].out = runningScene /\ entered = {runningScene}
    BY <1>1, <1>7 DEF StageOK
  <2>2. Leaves(runningScene) = {runningScene}
    BY <1>1, <1>7, LeavesUnfold
  <2>3. entered' = {nextScene, nodes[nextScene].in, runningScene}
    BY <1>7, <2>1 DEF SetNextScene, Enters
  <2>4. nodes[nextScene].in \notin {nextScene, runningScene}
    <3>1. nodes[nextScene].in = nextScene - 1 /\ nodes[nextScene].out \in 1..(nextScene - 2)
      BY <1>1, <1>7 DEF NodesOK, TurnsInOrder
    <3>2. nextScene \in Nat
      BY <1>1, NodesBackward
    <3> QED BY <2>1, <3>1, <3>2
  <2>5. PICK t \in Ids : t = nextScene
    BY <1>1
  <2>6. /\ t \in Ids' /\ nodes'[t].in = nodes[t].in /\ nodes'[t].out = runningScene
        /\ IsTurn(t)' /\ ~IsTurn(nodes[t].out)'
    BY <1>1, <1>2, <1>7, <2>1, <2>5 DEF IsTurn
  <2>7. Leaves(runningScene)' = {t, runningScene}
    BY <1>4, <1>5, <1>7, <2>1, <2>2, <2>5
  <2>8. entered' = {t, nodes'[t].in, nodes'[t].out}
    BY <2>3, <2>5, <2>6
  <2>9. Turning(t)'
    BY <1>1, <2>4, <2>5, <2>6, <2>7, <2>8 DEF Turning
  <2> QED BY <1>1, <1>3, <1>7, <2>6, <2>9 DEF StageOK
<1>8. CASE IsTurn(runningScene) /\ ~IsTurn(nextScene)
  <2>1. PICK t \in Ids : Turning(t)
    BY <1>8 DEF StageOK
  <2>2. nextScene = nodes[t].in
    BY <1>1, <1>8, <2>1 DEF Turning
  <2>3. entered' = entered \ Leaves(runningScene)
    BY <1>8 DEF SetNextScene
  <2>4. entered' = {nextScene}
    BY <2>1, <2>2, <2>3 DEF Turning
  <2> QED BY <1>1, <1>3, <1>8, <2>4 DEF StageOK
<1>9. CASE IsTurn(runningScene) /\ IsTurn(nextScene)
  <2>1. PICK t \in Ids : Turning(t)
    BY <1>9 DEF StageOK
  <2>2. nodes[nextScene].out = runningScene /\ entered' = entered
    BY <1>1, <1>9 DEF StageOK, SetNextScene
  <2>3. Leaves(runningScene)' = {nextScene} \cup Leaves(runningScene)
    BY <1>4, <1>5, <1>9, <2>2
  <2>4. IsTurn(t) /\ nodes[t].in \in Ids /\ ~IsTurn(nodes[t].in) /\ nodes[t].out \in Ids
    BY <2>1, NodesBackward DEF Turning, NodesOK, TurnsInOrder
  <2>5. ~IsTurn(nodes[t].out)' /\ IsTurn(t)'
    BY <1>2, <2>1, <2>4 DEF Turning, IsTurn
  <2>6. nodes'[t].in = nodes[t].in /\ nodes'[t].out = nodes[t].out
    BY <1>2
  <2>7. Turning(t)'
    BY <1>1, <1>9, <2>1, <2>2, <2>3, <2>4, <2>5, <2>6 DEF Turning
  <2>8. t \in Ids'
    BY DEF Grows
  <2> QED BY <1>1, <1>3, <1>9, <2>7, <2>8 DEF StageOK
<1> QED BY <1>6, <1>7, <1>8, <1>9

\* The end of a page turn: the transition that ends is the one whose scenes have
\* been entered, for its timer fires.
LEMMA SetNewSceneKeepsStage ==
  ASSUME NodesOK, DirectorOK, StageOK, Grows, NEW t \in Ids, SetNewScene(t)
  PROVE  StageOK'
<1>1. IsTurn(t) /\ t \in entered
  BY DEF SetNewScene, NodesOK, PagesOfTurns
<1>2. IsTurn(runningScene) /\ Turning(t)
  <2>1. IsTurn(runningScene)
    BY <1>1 DEF StageOK
  <2>2. PICK m \in Ids : Turning(m)
    BY <2>1 DEF StageOK
  <2>3. IsTurn(m) /\ ~IsTurn(nodes[m].in) /\ ~IsTurn(nodes[m].out)
    BY <2>2 DEF Turning, NodesOK, TurnsInOrder
  <2>4. t = m
    BY <1>1, <2>2, <2>3 DEF Turning
  <2> QED BY <2>1, <2>2, <2>4
<1>3. /\ nodes[t].in \in Ids /\ ~IsTurn(nodes[t].in) /\ nodes[t].out \in Ids
  BY <1>1, NodesBackward DEF NodesOK, TurnsInOrder
<1>4. /\ t \in Ids' /\ nodes'[t].in = nodes[t].in /\ nodes'[t].out = nodes[t].out
      /\ \A n \in Ids : IsTurn(n)' <=> IsTurn(n)
  BY DEF Grows, IsTurn
<1>5. runningScene' = runningScene /\ entered' = entered /\ nextScene' = nodes[t].in
  BY DEF SetNewScene
<1>6. Leaves(runningScene)' = Leaves(runningScene) /\ (IsTurn(runningScene)' <=> IsTurn(runningScene))
  BY <1>4, <1>5, LeavesStay, LeavesThen DEF DirectorOK, IsTurn
<1>7. ~IsTurn(nextScene)' /\ ~IsTurn(nodes[t].out)'
  BY <1>2, <1>3, <1>4, <1>5 DEF Turning, IsTurn
<1>8. Turning(t)'
  BY <1>2, <1>4, <1>5, <1>6, <1>7 DEF Turning
<1> QED BY <1>2, <1>4, <1>6, <1>7, <1>8 DEF StageOK

\* A page is turned from whatever runs, be it a transition.
LEMMA PageIsBegunKeepsStage ==
  ASSUME NodesOK, DirectorOK, StageOK, Grows, PageIsBegun
  PROVE  StageOK'
<1>1. PICK old : \E kind \in Kinds \ {"turn"}, back \in BOOLEAN :
           SameScenes(old) /\ TurnPage(old, kind, back)
  BY DEF PageIsBegun
<1>2. /\ nextScene' \in Ids' /\ IsTurn(nextScene)' /\ nodes'[nextScene'].out = runningScene
  BY <1>1, TurnPageGrows DEF DirectorOK
<1>3. nextScene' # Nil /\ UNCHANGED <<entered, runningScene>>
  BY <1>1, <1>2, IdsAreNumbers DEF TurnPage, Grows, Ids, Nil
<1>4. IsTurn(runningScene)' <=> IsTurn(runningScene)
  BY <1>3 DEF Grows, IsTurn, DirectorOK
<1>5. ASSUME NEW t \in Ids, Turning(t)
      PROVE  Turning(t)' /\ t \in Ids'
  BY <1>2, <1>3, <1>5, TurningStays DEF Grows
<1> QED BY <1>2, <1>3, <1>4, <1>5 DEF StageOK

\* A packet that comes on time replaces a scene that stands on the stage, not a page.
LEMMA SceneIsReplacedKeepsStage ==
  ASSUME ~EarlyPackets, NodesOK, DirectorOK, StageOK, Grows, SceneIsReplaced
  PROVE  StageOK'
<1>1. PICK old : \E kind \in {"jump", "fight"} : SameScenes(old) /\ OnTime /\ ReplaceScene(old, kind)
  BY DEF SceneIsReplaced
<1>2. PICK kind \in {"jump", "fight"} : SameScenes(old) /\ OnTime /\ ReplaceScene(old, kind)
  BY <1>1
<1>3. nodes'[nextScene'].kind = kind
  BY <1>2, ReplaceSceneGrows DEF Kinds
<1>4. ~IsTurn(runningScene) /\ entered = {runningScene}
  BY <1>2 DEF OnTime, PageTurns, StageOK
<1>5. ~IsTurn(nextScene)'
  BY <1>3 DEF IsTurn
<1>6. ~IsTurn(runningScene)' /\ entered' = {runningScene'}
  BY <1>2, <1>4 DEF ReplaceScene, Grows, IsTurn, DirectorOK
<1> QED BY <1>5, <1>6 DEF StageOK

LEMMA NextStage == ~EarlyPackets /\ Shape /\ StageOK /\ [Next]_vars => StageOK'
<1> SUFFICES ASSUME ~EarlyPackets, Shape, StageOK, [Next]_vars PROVE StageOK'
  OBVIOUS
<1>1. NodesOK /\ DirectorOK /\ Grows
  BY NextShape DEF Shape
<1>2. CASE StageStill
  <2>1. UNCHANGED <<entered, runningScene, nextScene>>
    BY <1>2 DEF StageStill
  <2>2. \A n \in Ids : /\ n \in Ids' /\ (IsTurn(n)' <=> IsTurn(n))
                       /\ nodes'[n].out = nodes[n].out
    BY <1>1 DEF Grows, IsTurn
  <2>3. IsTurn(runningScene)' <=> IsTurn(runningScene)
    BY <1>1, <2>1, <2>2 DEF DirectorOK, IsTurn
  <2>4. nextScene' # Nil /\ IsTurn(nextScene)' => nodes'[nextScene'].out = runningScene'
    BY <1>1, <2>1, <2>2 DEF DirectorOK, StageOK, IsTurn
  <2>5. ASSUME NEW t \in Ids, Turning(t)
        PROVE  Turning(t)' /\ t \in Ids'
    BY <1>1, <2>1, <2>2, <2>5, TurningStays
  <2> QED BY <2>1, <2>3, <2>4, <2>5 DEF StageOK
<1> QED
  BY <1>1, <1>2, DirectorStep, PageIsBegunKeepsStage, SceneIsReplacedKeepsStage,
     SetNextSceneKeepsStage, SetNewSceneKeepsStage DEF DirectorOK

LEMMA InitStage == Init => StageOK
BY DEF Init, StageOK, PlainScene, IsTurn, Nil

\* If no scene is replaced while a page turns, no scene is left behind that runs unseen.
THEOREM OnlyStage ==
  ASSUME ~EarlyPackets
  PROVE  Spec => []OnlyStageRuns
<1>1. Shape /\ StageOK /\ [Next]_vars => StageOK'
  BY NextStage
<1>2. StageOK => OnlyStageRuns
  BY DEF StageOK, OnlyStageRuns
<1> QED BY <1>1, <1>2, SpecShape, InitStage, PTL DEF Spec

\* What packets that come early make fail (the run screens_turn) holds without them:
\* a scene that stands on the stage has been entered.
THEOREM SceneIsEntered ==
  ASSUME ~EarlyPackets
  PROVE  Spec => []StageIsEntered
<1>1. OnlyStageRuns => StageIsEntered
  BY DEF OnlyStageRuns, StageIsEntered
<1> QED BY <1>1, OnlyStage, PTL

-----------------------------------------------------------------------------
(* What is shown.                                                           *)

GameOn == gameState \in {"waiting", "playing"}

\* While a round is on, its scene is on the stage, or on its way there: entered by a page
\* turn, or behind the other scene of the round for the rest of a frame.
RoundOnStage ==
    GameOn =>
        /\ sceneType \in {"jump", "fight"}
        /\ IsTurn(runningScene) =>
              /\ entered = {runningScene, nodes[runningScene].in, nodes[runningScene].out}
              /\ nodes[nodes[runningScene].in].kind = sceneType
              /\ ~IsGame(nodes[runningScene].out)
              /\ nextScene \in {Nil, nodes[runningScene].in}
        /\ ~IsTurn(runningScene) /\ nextScene = Nil => nodes[runningScene].kind = sceneType
        /\ ~IsTurn(runningScene) /\ nextScene # Nil /\ IsTurn(nextScene) =>
              /\ ~IsGame(runningScene) /\ ~dispatchEvents
              /\ nodes[nodes[nextScene].in].kind = sceneType
        /\ ~IsTurn(runningScene) /\ nextScene # Nil /\ ~IsTurn(nextScene) =>
              /\ IsGame(runningScene) /\ nodes[runningScene].kind # sceneType
              /\ nodes[nextScene].kind = sceneType /\ switches = SwitchesPerFrame

\* Without a round there are no players.
NobodyPlays == ~GameOn => DOMAIN players = {}

\* Objects are displayed in a scene of the round that runs.
Displayed ==
    \A p \in DOMAIN players :
        players[p] # Nil => players[p] \in entered /\ nodes[players[p]].kind = sceneType

RoundOK == RoundOnStage /\ NobodyPlays /\ Displayed

LEMMA SeenUnfold ==
  ASSUME NodesOK, NEW n \in Ids
  PROVE  Seen(n) = IF IsTurn(n) THEN {nodes[n].in} \cup Seen(nodes[n].out) ELSE {n}
<1>1. Drawn(nodes) =
        [m \in DOMAIN nodes |->
            IF nodes[m].kind = "turn" THEN {nodes[m].in} \cup Drawn(nodes)[nodes[m].out] ELSE {m}]
  BY NodesBackward, DrawnUnfolds
<1>2. n \in DOMAIN nodes
  BY NodesBackward
<1>3. Drawn(nodes)[n] =
        IF nodes[n].kind = "turn" THEN {nodes[n].in} \cup Drawn(nodes)[nodes[n].out] ELSE {n}
  BY <1>1, <1>2
<1> QED BY <1>3, SeenIsDrawn DEF IsTurn

\* Grows, as the lemmas below use it.
LEMMA ScenesStay ==
  ASSUME NodesOK, DirectorOK, Grows
  PROVE  /\ \A n \in Ids : /\ n \in Ids' /\ nodes'[n].kind = nodes[n].kind
                           /\ nodes'[n].in = nodes[n].in /\ nodes'[n].out = nodes[n].out
                           /\ (IsTurn(n)' <=> IsTurn(n)) /\ (IsGame(n)' <=> IsGame(n))
         /\ \A n \in Ids : IsTurn(n) => /\ nodes[n].in \in Ids /\ nodes[n].out \in Ids
                                        /\ ~IsTurn(nodes[n].in)
         /\ runningScene \in Ids /\ Nil \notin Ids
         /\ nextScene # Nil => nextScene \in Ids
<1>1. \A n \in Ids : /\ n \in Ids' /\ nodes'[n].kind = nodes[n].kind
                     /\ nodes'[n].in = nodes[n].in /\ nodes'[n].out = nodes[n].out
                     /\ (IsTurn(n)' <=> IsTurn(n)) /\ (IsGame(n)' <=> IsGame(n))
  BY DEF Grows, IsTurn, IsGame
<1>2. \A n \in Ids : IsTurn(n) => /\ nodes[n].in \in Ids /\ nodes[n].out \in Ids
                                  /\ ~IsTurn(nodes[n].in)
  BY NodesBackward DEF NodesOK, TurnsInOrder
<1> QED BY <1>1, <1>2, IdsAreNumbers DEF DirectorOK

\* Nothing on the stage moves and the round, if it is on, was on.
LEMMA StillRound ==
  ASSUME NodesOK, DirectorOK, Grows, RoundOnStage,
         UNCHANGED <<entered, runningScene, nextScene, dispatchEvents, switches, sceneType>>,
         GameOn' => GameOn
  PROVE  RoundOnStage'
<1> SUFFICES ASSUME GameOn' PROVE RoundOnStage'
  BY DEF RoundOnStage
<1>1. /\ IsTurn(runningScene)' <=> IsTurn(runningScene)
      /\ IsGame(runningScene)' <=> IsGame(runningScene)
      /\ nodes'[runningScene'].kind = nodes[runningScene].kind
      /\ nodes'[runningScene'].in = nodes[runningScene].in
      /\ nodes'[runningScene'].out = nodes[runningScene].out
  BY ScenesStay DEF IsTurn, IsGame
<1>2. nextScene # Nil => /\ IsTurn(nextScene)' <=> IsTurn(nextScene)
                         /\ nodes'[nextScene'].kind = nodes[nextScene].kind
                         /\ nodes'[nextScene'].in = nodes[nextScene].in
  BY ScenesStay DEF IsTurn
<1>3. IsTurn(runningScene) =>
        /\ nodes'[nodes[runningScene].in].kind = nodes[nodes[runningScene].in].kind
        /\ nodes'[nodes[runningScene].out].kind = nodes[nodes[runningScene].out].kind
  BY ScenesStay
<1>4. nextScene # Nil /\ IsTurn(nextScene) =>
        nodes'[nodes[nextScene].in].kind = nodes[nodes[nextScene].in].kind
  BY ScenesStay
<1> QED BY <1>1, <1>2, <1>3, <1>4 DEF RoundOnStage, GameOn, IsGame

\* The end of a frame: the scene of the round goes on, and with it what it shows.
LEMMA SetNextSceneKeepsRound ==
  ASSUME NodesOK, DirectorOK, StageOK, StageOK', Grows, RoundOK, SetNextScene
  PROVE  RoundOK'
<1>1. /\ nextScene \in Ids /\ nextScene # Nil /\ runningScene' = nextScene /\ nextScene' = Nil
      /\ UNCHANGED <<gameState, sceneType, players>>
  BY DEF SetNextScene, DirectorOK, game
<1>2. /\ NobodyPlays' /\ (GameOn' <=> GameOn)
  BY <1>1 DEF RoundOK, NobodyPlays, GameOn
<1>3. SUFFICES ASSUME GameOn PROVE RoundOnStage' /\ Displayed'
  BY <1>1, <1>2 DEF RoundOK, RoundOnStage, NobodyPlays, Displayed
<1>4. IsTurn(runningScene)' <=> IsTurn(nextScene)
  BY <1>1, ScenesStay DEF IsTurn
<1>5. sceneType \in {"jump", "fight"}
  BY <1>3 DEF RoundOK, RoundOnStage
<1>6. CASE IsTurn(runningScene)
  <2>1. /\ nextScene = nodes[runningScene].in /\ nodes[nextScene].kind = sceneType
        /\ entered = {runningScene, nextScene, nodes[runningScene].out}
        /\ ~IsGame(nodes[runningScene].out)
    BY <1>1, <1>3, <1>6 DEF RoundOK, RoundOnStage
  <2>2. ~IsTurn(nextScene) /\ nodes'[nextScene].kind = sceneType
    BY <1>1, <1>6, <2>1, ScenesStay
  <2>3. entered' = {nextScene}
    BY <1>1, <1>4, <2>2 DEF StageOK
  <2>4. ASSUME NEW p \in DOMAIN players, players[p] # Nil
        PROVE  players[p] = nextScene
    BY <1>5, <1>6, <2>1, <2>4 DEF RoundOK, Displayed, IsGame, IsTurn
  <2>5. Displayed'
    BY <1>1, <2>2, <2>3, <2>4 DEF Displayed
  <2>6. RoundOnStage'
    BY <1>1, <1>4, <1>5, <2>2 DEF RoundOnStage
  <2> QED BY <2>5, <2>6
<1>7. CASE ~IsTurn(runningScene) /\ IsTurn(nextScene)
  <2>1. ~IsGame(runningScene) /\ nodes[nodes[nextScene].in].kind = sceneType
    BY <1>1, <1>3, <1>7 DEF RoundOK, RoundOnStage
  <2>2. nodes[nextScene].out = runningScene /\ entered = {runningScene}
    BY <1>1, <1>7 DEF StageOK
  <2>3. Displayed'
    BY <1>1, <1>5, <2>1, <2>2 DEF RoundOK, Displayed, IsGame
  <2>4. entered' = {nextScene, nodes[nextScene].in, runningScene}
    BY <1>7, <2>2 DEF SetNextScene, Enters
  <2>5. /\ nodes'[nextScene].in = nodes[nextScene].in /\ nodes'[nextScene].out = runningScene
        /\ nodes'[nodes[nextScene].in].kind = sceneType
        /\ ~IsGame(nodes[runningScene].out)'
    BY <1>1, <1>7, <2>1, <2>2, ScenesStay DEF IsGame
  <2>6. RoundOnStage'
    BY <1>1, <1>4, <1>5, <1>7, <2>1, <2>2, <2>4, <2>5, ScenesStay DEF RoundOnStage, IsGame
  <2> QED BY <2>3, <2>6
<1>8. CASE ~IsTurn(runningScene) /\ ~IsTurn(nextScene)
  <2>1. nodes[runningScene].kind # sceneType /\ nodes[nextScene].kind = sceneType
    BY <1>1, <1>3, <1>8 DEF RoundOK, RoundOnStage
  <2>2. entered = {runningScene}
    BY <1>8 DEF StageOK
  <2>3. Displayed'
    BY <1>1, <2>1, <2>2 DEF RoundOK, Displayed
  <2>4. RoundOnStage'
    BY <1>1, <1>4, <1>5, <1>8, <2>1, ScenesStay DEF RoundOnStage
  <2> QED BY <2>3, <2>4
<1> QED BY <1>6, <1>7, <1>8

\* The end of a page turn.
LEMMA SetNewSceneKeepsRound ==
  ASSUME NodesOK, DirectorOK, StageOK, Grows, RoundOK, NEW t \in Ids, SetNewScene(t)
  PROVE  RoundOK'
<1>1. /\ UNCHANGED <<gameState, sceneType, players, entered, runningScene>>
      /\ nextScene' = nodes[t].in
  BY DEF SetNewScene, game
<1>2. IsTurn(t) /\ t \in entered
  BY DEF SetNewScene, NodesOK, PagesOfTurns
<1>3. IsTurn(runningScene)
  BY <1>2 DEF StageOK
<1>4. NobodyPlays' /\ Displayed'
  BY <1>1, ScenesStay DEF RoundOK, NobodyPlays, Displayed, DirectorOK, GameOn
<1>5. SUFFICES ASSUME GameOn PROVE RoundOnStage'
  BY <1>1, <1>4 DEF RoundOK, RoundOnStage, GameOn
<1>6. /\ sceneType \in {"jump", "fight"}
      /\ entered = {runningScene, nodes[runningScene].in, nodes[runningScene].out}
      /\ nodes[nodes[runningScene].in].kind = sceneType
      /\ ~IsGame(nodes[runningScene].out)
  BY <1>3, <1>5 DEF RoundOK, RoundOnStage
<1>7. t = runningScene
  <2>1. PICK m \in Ids : Turning(m)
    BY <1>3 DEF StageOK
  <2>2. IsTurn(m) /\ m \in entered /\ ~IsTurn(nodes[m].in) /\ ~IsTurn(nodes[m].out)
        /\ entered = {m, nodes[m].in, nodes[m].out}
    BY <2>1 DEF Turning, NodesOK, TurnsInOrder
  <2> QED BY <1>2, <1>3, <1>6, <2>2
<1>8. /\ IsTurn(runningScene)' /\ nextScene' = nodes'[runningScene'].in
      /\ entered' = {runningScene', nodes'[runningScene'].in, nodes'[runningScene'].out}
      /\ nodes'[nodes'[runningScene'].in].kind = sceneType'
      /\ ~IsGame(nodes[runningScene].out)'
  BY <1>1, <1>3, <1>6, <1>7, ScenesStay DEF IsTurn, IsGame
<1> QED BY <1>1, <1>6, <1>8 DEF RoundOnStage

\* Objects that are shown stay where they are.
LEMMA DisplayedStays ==
  ASSUME NodesOK, DirectorOK, Grows, Displayed, UNCHANGED <<entered, sceneType>>,
         \A p \in DOMAIN players' :
             players'[p] # Nil => p \in DOMAIN players /\ players'[p] = players[p]
  PROVE  Displayed'
<1>1. ASSUME NEW p \in DOMAIN players', players'[p] # Nil
      PROVE  players'[p] \in entered' /\ nodes'[players'[p]].kind = sceneType'
  <2>1. players[p] \in entered /\ nodes[players[p]].kind = sceneType /\ players'[p] = players[p]
    BY <1>1 DEF Displayed
  <2> QED BY <2>1, ScenesStay DEF DirectorOK
<1> QED BY <1>1 DEF Displayed

\* A packet, an alert or a timer that leaves the round as it is.
LEMMA RoundStays ==
  ASSUME NodesOK, DirectorOK, Grows, RoundOK,
         UNCHANGED <<entered, runningScene, nextScene, dispatchEvents, switches, sceneType>>,
         GameOn' <=> GameOn, GameOn \/ DOMAIN players' \subseteq DOMAIN players,
         \A p \in DOMAIN players' :
             players'[p] # Nil => p \in DOMAIN players /\ players'[p] = players[p]
  PROVE  RoundOK'
<1>1. RoundOnStage' /\ Displayed'
  BY StillRound, DisplayedStays DEF RoundOK
<1> QED BY <1>1 DEF RoundOK, NobodyPlays

\* A timer displays the objects that are new in the scene it belongs to.
LEMMA CheckNewPlayersKeepsRound ==
  ASSUME NodesOK, DirectorOK, Grows, RoundOK, NEW s \in entered, CheckNewPlayers(s)
  PROVE  RoundOK'
<1>1. /\ UNCHANGED <<entered, runningScene, nextScene, dispatchEvents, switches, gameState, sceneType>>
      /\ DOMAIN players' = DOMAIN players
  BY DEF CheckNewPlayers, director
<1>2. RoundOnStage'
  BY <1>1, StillRound DEF RoundOK, GameOn
<1>3. s \in Ids /\ nodes'[s].kind = sceneType
  BY ScenesStay DEF CheckNewPlayers, MayShow, DirectorOK
<1>4. ASSUME NEW p \in DOMAIN players
      PROVE  players'[p] \in entered' /\ nodes'[players'[p]].kind = sceneType'
  <2>1. CASE players[p] = Nil
    BY <1>1, <1>3, <2>1 DEF CheckNewPlayers
  <2>2. CASE players[p] # Nil
    <3>1. players[p] \in entered /\ nodes[players[p]].kind = sceneType /\ players'[p] = players[p]
      BY <2>2 DEF CheckNewPlayers, RoundOK, Displayed
    <3> QED BY <1>1, <3>1, ScenesStay DEF DirectorOK
  <2> QED BY <2>1, <2>2
<1>5. Displayed'
  BY <1>1, <1>4 DEF Displayed
<1> QED BY <1>1, <1>2, <1>5 DEF RoundOK, NobodyPlays, GameOn

\* The lobby begins a game: the page turns to its first scene.
LEMMA StartKeepsRound ==
  ASSUME NodesOK, DirectorOK, RoundOK, StartWithPlayerId
  PROVE  RoundOK'
<1>1. /\ ~GameOn /\ players' = players /\ DOMAIN players = {}
      /\ nodes[runningScene].kind = "lobby" /\ sceneType' = "jump"
      /\ TurnPage(nodes, "jump", FALSE) /\ "jump" \in Kinds \ {"turn"} /\ FALSE \in BOOLEAN
  BY DEF StartWithPlayerId, GameOn, RoundOK, NobodyPlays, Kinds
<1>2. /\ Grows /\ nextScene' \in Ids' /\ IsTurn(nextScene)'
      /\ nodes'[nodes'[nextScene'].in].kind = "jump"
  BY <1>1, NodesAreSame, TurnPageGrows DEF DirectorOK
<1>3. runningScene' = runningScene /\ ~dispatchEvents' /\ nodes'[runningScene'].kind = "lobby"
  BY <1>1, <1>2 DEF TurnPage, Grows, DirectorOK
<1>4. ~IsTurn(runningScene)' /\ ~IsGame(runningScene)'
  BY <1>3 DEF IsTurn, IsGame
<1>5. nextScene' # Nil
  BY <1>2 DEF Grows, NodesOK, Ids, Nil
<1>6. RoundOnStage'
  BY <1>1, <1>2, <1>3, <1>4, <1>5 DEF RoundOnStage
<1>7. NobodyPlays' /\ Displayed'
  BY <1>1 DEF NobodyPlays, Displayed
<1> QED BY <1>6, <1>7 DEF RoundOK

\* A packet takes the round to its other scene: the objects are made anew, and the
\* scene that goes takes none of them.
LEMMA SwitchSceneKeepsRound ==
  ASSUME ~EarlyPackets, SwitchesPerFrame = 1, NodesOK, DirectorOK, RoundOK,
         NEW kind \in {"jump", "fight"}, NEW listed \in SUBSET Players, SwitchScene(kind, listed)
  PROVE  RoundOK'
<1>1. /\ GameOn /\ kind # sceneType /\ sceneType' = kind /\ players' = [p \in listed |-> Nil]
      /\ OnTime /\ ReplaceScene(Unscheduled, kind) /\ gameState' = "playing"
      /\ switches < SwitchesPerFrame /\ switches' = switches + 1 /\ kind \in Kinds \ {"turn"}
  BY DEF SwitchScene, GameOn, Kinds
<1>2. ~IsTurn(runningScene) /\ (nextScene # Nil => ~IsTurn(nextScene))
  BY <1>1 DEF OnTime, PageTurns
<1>3. switches' = SwitchesPerFrame
  BY <1>1 DEF DirectorOK
<1>4. nextScene = Nil
  BY <1>1, <1>2 DEF RoundOK, RoundOnStage, DirectorOK
<1>5. nodes[runningScene].kind = sceneType /\ sceneType \in {"jump", "fight"}
  BY <1>1, <1>2, <1>4 DEF RoundOK, RoundOnStage
<1>6. /\ Grows /\ nextScene' \in Ids' /\ nodes'[nextScene'].kind = kind
  BY <1>1, UnscheduledIsSame, ReplaceSceneGrows DEF DirectorOK
<1>7. runningScene' = runningScene /\ nodes'[runningScene'].kind = sceneType
  BY <1>1, <1>5, <1>6 DEF ReplaceScene, Grows, DirectorOK
<1>8. ~IsTurn(runningScene)' /\ IsGame(runningScene)' /\ ~IsTurn(nextScene)'
  BY <1>5, <1>6, <1>7 DEF IsTurn, IsGame
<1>9. nextScene' # Nil
  BY <1>6 DEF Grows, NodesOK, Ids, Nil
<1>10. RoundOnStage'
  BY <1>1, <1>3, <1>6, <1>7, <1>8, <1>9 DEF RoundOnStage
<1>11. NobodyPlays' /\ Displayed'
  BY <1>1 DEF NobodyPlays, Displayed, GameOn
<1> QED BY <1>10, <1>11 DEF RoundOK

LEMMA NextRound ==
  ~EarlyPackets /\ SwitchesPerFrame = 1 /\ Shape /\ StageOK /\ RoundOK /\ [Next]_vars => RoundOK'
<1> SUFFICES ASSUME ~EarlyPackets, SwitchesPerFrame = 1, Shape, StageOK, RoundOK, [Next]_vars
             PROVE  RoundOK'
  OBVIOUS
<1>1. NodesOK /\ DirectorOK /\ Grows /\ StageOK'
  BY NextShape, NextStage DEF Shape
<1>2. CASE UNCHANGED vars
  BY <1>1, <1>2, RoundStays DEF vars, director, game, GameOn
<1>3. CASE SetNextScene
  BY <1>1, <1>3, SetNextSceneKeepsRound
<1>4. ASSUME NEW t \in Ids, SetNewScene(t)
      PROVE  RoundOK'
  BY <1>1, <1>4, SetNewSceneKeepsRound
<1>5. ASSUME NEW t \in Ids, Finish(t)
      PROVE  RoundOK'
  BY <1>1, <1>5, RoundStays DEF Finish, game, GameOn
<1>6. CASE StartWithPlayerId
  BY <1>1, <1>6, StartKeepsRound
<1>7. ASSUME NEW p \in Players, Announce(p) \/ Depart(p)
      PROVE  RoundOK'
  <2>1. /\ GameOn /\ GameOn'
        /\ UNCHANGED <<entered, runningScene, nextScene, dispatchEvents, switches, sceneType>>
    BY <1>7 DEF Announce, Depart, GameOn, director
  <2>2. \A q \in DOMAIN players' :
             players'[q] # Nil => q \in DOMAIN players /\ players'[q] = players[q]
    BY <1>7 DEF Announce, Depart
  <2> QED BY <1>1, <2>1, <2>2, RoundStays
<1>8. ASSUME NEW kind \in {"jump", "fight"}, NEW listed \in SUBSET Players, Info(kind, listed)
      PROVE  RoundOK'
  <2>1. /\ GameOn /\ GameOn'
        /\ UNCHANGED <<entered, runningScene, nextScene, dispatchEvents, switches, sceneType>>
    BY <1>8 DEF Info, GameOn, director
  <2>2. \A q \in DOMAIN players' :
             players'[q] # Nil => q \in DOMAIN players /\ players'[q] = players[q]
    BY <1>8 DEF Info
  <2> QED BY <1>1, <2>1, <2>2, RoundStays
<1>9. ASSUME NEW kind \in {"jump", "fight"}, NEW listed \in SUBSET Players, SwitchScene(kind, listed)
      PROVE  RoundOK'
  BY <1>1, <1>9, SwitchSceneKeepsRound
<1>10. CASE HandleGameOverInfo \/ HandleServerDisconnectedEvent \/ Quit \/ CreateNewGame
  <2>1. players' = NoObjects /\ ~GameOn'
    BY <1>10
    DEF HandleGameOverInfo, HandleServerDisconnectedEvent, Quit, CreateNewGame, GameOn
  <2> QED BY <2>1 DEF RoundOK, RoundOnStage, NobodyPlays, Displayed, NoObjects
<1>11. CASE Disconnect
  BY <1>1, <1>11, RoundStays DEF Disconnect, director, GameOn
<1>12. ASSUME NEW s \in entered, CheckNewPlayers(s)
       PROVE  RoundOK'
  BY <1>1, <1>12, CheckNewPlayersKeepsRound
<1>13. ASSUME AskQuit \/ Resume \/ \E s \in entered : CheckDisconnection(s)
       PROVE  RoundOK'
  <2>1. UNCHANGED <<director, game>>
    BY <1>13 DEF AskQuit, Resume, CheckDisconnection
  <2> QED BY <1>1, <2>1, RoundStays DEF director, game, GameOn
<1>14. CASE ReturnToMainMenu \/ Play
  <2>1. UNCHANGED <<game, entered, runningScene>>
    BY <1>14 DEF ReturnToMainMenu, Play, TurnPage
  <2>2. /\ dispatchEvents /\ runningScene \in Ids
        /\ nodes[runningScene].kind \in {"lobby", "over", "home"}
    BY <1>1, <1>14 DEF ReturnToMainMenu, Play, MayTouch, DirectorOK
  <2>3. ~IsTurn(runningScene) /\ ~IsGame(runningScene)
    BY <2>2 DEF IsTurn, IsGame
  <2>4. ~GameOn
    BY <2>2, <2>3 DEF RoundOK, RoundOnStage
  <2>5. ~GameOn' /\ DOMAIN players' = {}
    BY <2>1, <2>4 DEF game, GameOn, RoundOK, NobodyPlays
  <2> QED BY <2>5 DEF RoundOK, RoundOnStage, NobodyPlays, Displayed
<1> QED
  BY <1>2, <1>3, <1>4, <1>5, <1>6, <1>7, <1>8, <1>9, <1>10, <1>11, <1>12, <1>13, <1>14
  DEF Next, Turn

LEMMA InitRound == Init => RoundOK
BY DEF Init, RoundOK, RoundOnStage, NobodyPlays, Displayed, GameOn, NoObjects

LEMMA SpecRound ==
  ASSUME ~EarlyPackets, SwitchesPerFrame = 1
  PROVE  Spec => [](Shape /\ StageOK /\ RoundOK)
<1>1. Shape /\ StageOK /\ [Next]_vars => StageOK'
  BY NextStage
<1>2. Shape /\ StageOK /\ RoundOK /\ [Next]_vars => RoundOK'
  BY NextRound
<1> QED BY <1>1, <1>2, SpecShape, InitStage, InitRound, PTL DEF Spec

\* An object that is displayed is displayed where it can be seen, if scenes change
\* once in a frame and not while a page turns.
THEOREM ObjectsOnStage ==
  ASSUME ~EarlyPackets, SwitchesPerFrame = 1
  PROVE  Spec => []ShownOnStage
<1>1. ASSUME Shape, StageOK, RoundOK, NEW p \in DOMAIN players, players[p] # Nil
      PROVE  players[p] \in Seen(runningScene)
  <2>1. /\ NodesOK /\ runningScene \in Ids
        /\ GameOn /\ players[p] \in entered /\ nodes[players[p]].kind = sceneType
        /\ sceneType \in {"jump", "fight"}
    BY <1>1 DEF Shape, DirectorOK, RoundOK, RoundOnStage, NobodyPlays, Displayed
  <2>2. Seen(runningScene) = IF IsTurn(runningScene)
                             THEN {nodes[runningScene].in} \cup Seen(nodes[runningScene].out)
                             ELSE {runningScene}
    BY <2>1, SeenUnfold
  <2>3. CASE IsTurn(runningScene)
    <3>1. /\ entered = {runningScene, nodes[runningScene].in, nodes[runningScene].out}
          /\ ~IsGame(nodes[runningScene].out)
      BY <1>1, <2>1, <2>3 DEF RoundOK, RoundOnStage
    <3>2. players[p] = nodes[runningScene].in
      BY <2>1, <2>3, <3>1 DEF IsTurn, IsGame
    <3> QED BY <2>2, <2>3, <3>2
  <2>4. CASE ~IsTurn(runningScene)
    BY <1>1, <2>1, <2>2, <2>4 DEF StageOK
  <2> QED BY <2>3, <2>4
<1>2. Shape /\ StageOK /\ RoundOK => ShownOnStage
  BY <1>1 DEF ShownOnStage
<1> QED BY <1>2, SpecRound, PTL

-----------------------------------------------------------------------------
(* What comes next.  Liveness under fairness is left to TLC (TouchesReturn, *)
(* GameIsLeft); what is proved is that nothing hangs: whenever one of them   *)
(* waits, a step that brings it nearer is due.                               *)

\* A page that has begun to turn does so on a scene that runs, or has been turned
\* and its transition runs, or the scene it turned to is next.
PageGoesOn(t) ==
    \/ nodes[t].page = "turning"
          /\ (IF nodes[t].back THEN nodes[t].in ELSE nodes[t].out) \in entered
    \/ nodes[t].page = "finished"
    \/ nodes[t].page = "done" /\ nextScene = nodes[t].in

NoPageHangs == \A t \in entered : IsTurn(t) => PageGoesOn(t)

\* Touches are off only before a page turn that is to come in this frame, and during one
\* that has not yet given them back.
TouchesOnTheirWay ==
    ~dispatchEvents =>
        \/ nextScene # Nil /\ IsTurn(nextScene) /\ ~IsTurn(runningScene)
        \/ \E t \in entered : IsTurn(t) /\ PageGoesOn(t) /\ nodes[t].page # "done"

Away(n) == nodes[n].kind \in {"over", "home", "lobby"}

\* A game that has ended or was quit is left, or a page that leaves it is next or turns.
WayOut ==
    gameState \in {"over", "quit"} =>
        \/ nextScene = Nil /\ Away(runningScene)
        \/ nextScene # Nil /\ IsTurn(nextScene) /\ ~IsTurn(runningScene)
              /\ Away(nodes[nextScene].in)
        \/ \E t \in entered : IsTurn(t) /\ PageGoesOn(t) /\ Away(nodes[t].in)

\* Who quits is disconnected 0.2 s later; no page is turned completely before that.
QuitDisconnects ==
    /\ gameState = "quit" /\ connected => quitPending
    /\ \A t \in entered : nodes[t].page \in {"finished", "done"} => ~quitPending

AlertsOfGames == alert # Nil => IsGame(alert)

\* Touches are on when a scene is to replace another; they go off with a page turn.
TouchesOK ==
    /\ nextScene # Nil /\ ~IsTurn(nextScene) => dispatchEvents
    /\ ~dispatchEvents /\ ~IsTurn(runningScene) => nextScene # Nil /\ IsTurn(nextScene)

\* Where a game that has ended or was quit goes.
EndedOK ==
    gameState \in {"over", "quit"} =>
        /\ ~IsTurn(runningScene) =>
              IF nextScene = Nil THEN Away(runningScene)
              ELSE IsTurn(nextScene) /\ Away(nodes[nextScene].in)
        /\ \A t \in entered : IsTurn(t) => Away(nodes[t].in)

GoesOn == NoPageHangs /\ QuitDisconnects /\ AlertsOfGames /\ TouchesOK /\ EndedOK

\* A transition that has been entered is the one whose page turns.
LEMMA EnteredTurn ==
  ASSUME NodesOK, StageOK, NEW t \in entered, IsTurn(t)
  PROVE  /\ IsTurn(runningScene) /\ Turning(t)
         /\ \A u \in entered : IsTurn(u) => u = t
<1>1. IsTurn(runningScene)
  BY DEF StageOK
<1>2. PICK m \in Ids : Turning(m)
  BY <1>1 DEF StageOK
<1>3. IsTurn(m) /\ ~IsTurn(nodes[m].in) /\ ~IsTurn(nodes[m].out)
      /\ entered = {m, nodes[m].in, nodes[m].out}
  BY <1>2 DEF Turning, NodesOK, TurnsInOrder
<1> QED BY <1>1, <1>2, <1>3

LEMMA PlainPage ==
  ASSUME NodesOK, DirectorOK
  PROVE  \A n \in Ids : ~IsTurn(n) => nodes[n].page = "none"
BY DEF NodesOK, PagesOfTurns

\* One page changes, and nothing else.
LEMMA PageSet ==
  ASSUME NodesOK, NEW t \in Ids, NEW page, NEW ms, ms = [nodes EXCEPT ![t].page = page]
  PROVE  /\ ms[t].page = page /\ ms[t].in = nodes[t].in /\ ms[t].out = nodes[t].out
         /\ ms[t].back = nodes[t].back /\ ms[t].kind = nodes[t].kind
         /\ \A u \in Ids : u # t => ms[u] = nodes[u]
<1>1. nodes[t] \in Node /\ DOMAIN nodes = Ids
  BY IdsAreNumbers DEF NodesOK, Ids
<1>2. ms[t] = [nodes[t] EXCEPT !.page = page] /\ \A u \in Ids : u # t => ms[u] = nodes[u]
  BY <1>1
<1> QED BY <1>1, <1>2 DEF Node

\* Nothing turns when a plain scene stands on the stage.
LEMMA NothingTurns ==
  ASSUME NodesOK', DirectorOK', StageOK', ~IsTurn(runningScene)'
  PROVE  NoPageHangs' /\ \A t \in entered' : nodes'[t].page = "none" /\ ~IsTurn(t)'
<1>1. entered' = {runningScene'} /\ runningScene' \in Ids'
  BY DEF StageOK, DirectorOK
<1>2. nodes'[runningScene'].page = "none"
  BY <1>1 DEF NodesOK, PagesOfTurns, IsTurn
<1>3. \A t \in entered' : ~IsTurn(t)'
  BY <1>1 DEF IsTurn
<1> QED BY <1>1, <1>2, <1>3 DEF NoPageHangs

\* Alerts that are open stay where they are.
LEMMA AlertStays ==
  ASSUME NodesOK, DirectorOK, AlertsOK, Grows, AlertsOfGames, UNCHANGED alert
  PROVE  AlertsOfGames'
<1>1. alert # Nil => IsGame(alert)' /\ alert \in Ids
  BY ScenesStay DEF AlertsOK, AlertsOfGames, IsGame
<1> QED BY <1>1 DEF AlertsOfGames

\* The end of a frame.
LEMMA SetNextSceneGoesOn ==
  ASSUME NodesOK, NodesOK', DirectorOK, DirectorOK', AlertsOK, StageOK, StageOK', Grows,
         GoesOn, SetNextScene
  PROVE  GoesOn'
<1>1. /\ nextScene \in Ids /\ nextScene # Nil /\ runningScene' = nextScene /\ nextScene' = Nil
      /\ UNCHANGED <<dispatchEvents, gameState, connected, quitPending, alert>>
  BY DEF SetNextScene, DirectorOK, game, alerts
<1>2. IsTurn(runningScene)' <=> IsTurn(nextScene)
  BY <1>1, ScenesStay DEF IsTurn
<1>3. AlertsOfGames'
  BY <1>1, AlertStays DEF GoesOn
<1>4. CASE ~IsTurn(nextScene)
  <2>1. /\ NoPageHangs'
        /\ \A t \in entered' : nodes'[t].page = "none" /\ ~IsTurn(t)'
    BY <1>2, <1>4, NothingTurns
  <2>2. QuitDisconnects'
    BY <1>1, <2>1 DEF GoesOn, QuitDisconnects
  <2>3. dispatchEvents
    BY <1>1, <1>4 DEF GoesOn, TouchesOK
  <2>4. TouchesOK'
    BY <1>1, <2>3 DEF TouchesOK
  <2>5. gameState \in {"over", "quit"} => Away(nextScene)
    <3> SUFFICES ASSUME gameState \in {"over", "quit"} PROVE Away(nextScene)
      OBVIOUS
    <3>1. IsTurn(runningScene)
      BY <1>1, <1>4 DEF GoesOn, EndedOK
    <3>2. PICK t \in Ids : Turning(t)
      BY <3>1 DEF StageOK
    <3>3. t \in entered /\ IsTurn(t) /\ nextScene = nodes[t].in
      BY <1>1, <1>4, <3>2 DEF Turning
    <3> QED BY <3>3 DEF GoesOn, EndedOK
  <2>6. EndedOK'
    BY <1>1, <2>1, <2>5, ScenesStay DEF EndedOK, Away
  <2> QED BY <1>3, <2>1, <2>2, <2>4, <2>6 DEF GoesOn
<1>5. CASE IsTurn(nextScene) /\ ~IsTurn(runningScene)
  <2>1. entered = {runningScene} /\ nodes[nextScene].out = runningScene
    BY <1>1, <1>5 DEF StageOK
  <2>2. entered' = {nextScene, nodes[nextScene].in, runningScene}
    BY <1>5, <2>1 DEF SetNextScene, Enters
  <2>3. nodes'[nextScene].page = "turning"
    BY <1>1, <1>5 DEF SetNextScene, NodesOK, Ids, Node
  <2>4. /\ ~IsTurn(nodes[nextScene].in) /\ nodes[nextScene].in \in Ids
        /\ nodes'[nextScene].in = nodes[nextScene].in /\ nodes'[nextScene].out = runningScene
    BY <1>1, <1>5, <2>1, ScenesStay
  <2>5. ASSUME NEW t \in entered', t # nextScene
        PROVE  t \in Ids /\ ~IsTurn(t) /\ t \in Ids' /\ ~IsTurn(t)' /\ nodes'[t].page = "none"
    <3>1. t \in Ids /\ ~IsTurn(t)
      BY <1>1, <1>5, <2>2, <2>4, <2>5, ScenesStay
    <3>2. t \in Ids' /\ ~IsTurn(t)'
      BY <3>1, ScenesStay
    <3> QED BY <3>1, <3>2 DEF NodesOK, PagesOfTurns
  <2>6. NoPageHangs'
    BY <2>2, <2>3, <2>4, <2>5 DEF NoPageHangs, PageGoesOn
  <2>7. QuitDisconnects'
    BY <1>1, <2>3, <2>5 DEF GoesOn, QuitDisconnects
  <2>8. TouchesOK'
    BY <1>1, <1>2, <1>5 DEF TouchesOK
  <2>9. gameState \in {"over", "quit"} => Away(nodes[nextScene].in)
    BY <1>1, <1>5 DEF GoesOn, EndedOK
  <2>10. nodes'[nodes[nextScene].in].kind = nodes[nodes[nextScene].in].kind
    BY <2>4, ScenesStay
  <2>11. EndedOK'
    BY <1>1, <1>2, <1>5, <2>4, <2>5, <2>9, <2>10 DEF EndedOK, Away
  <2> QED BY <1>3, <2>6, <2>7, <2>8, <2>11 DEF GoesOn
<1>6. CASE IsTurn(nextScene) /\ IsTurn(runningScene)
  <2>1. UNCHANGED <<nodes, entered>>
    BY <1>6 DEF SetNextScene
  <2>2. NoPageHangs'
    <3>1. ASSUME NEW t \in entered, IsTurn(t)
          PROVE  nextScene # nodes[t].in
      BY <1>6, <3>1 DEF NodesOK, TurnsInOrder, DirectorOK
    <3> QED BY <2>1, <3>1 DEF GoesOn, NoPageHangs, PageGoesOn, IsTurn
  <2>3. QuitDisconnects'
    BY <1>1, <2>1 DEF GoesOn, QuitDisconnects
  <2>4. TouchesOK'
    BY <1>1, <1>2, <1>6 DEF TouchesOK
  <2>5. EndedOK'
    BY <1>1, <1>2, <1>6, <2>1 DEF GoesOn, EndedOK, Away, IsTurn
  <2> QED BY <1>3, <2>2, <2>3, <2>4, <2>5 DEF GoesOn
<1> QED BY <1>4, <1>5, <1>6

\* The end of a page turn.
LEMMA SetNewSceneGoesOn ==
  ASSUME NodesOK, DirectorOK, AlertsOK, StageOK, Grows, GoesOn, NEW t \in Ids, SetNewScene(t)
  PROVE  GoesOn'
<1>1. /\ UNCHANGED <<entered, runningScene, gameState, connected, quitPending, alert>>
      /\ nodes[t].page = "finished" /\ t \in entered
      /\ nextScene' = nodes[t].in /\ dispatchEvents'
  BY DEF SetNewScene, game, alerts
<1>2. IsTurn(t)
  BY <1>1 DEF NodesOK, PagesOfTurns
<1>3. IsTurn(runningScene) /\ \A u \in entered : IsTurn(u) => u = t
  BY <1>1, <1>2, EnteredTurn
<1>4. /\ nodes'[t].page = "done" /\ nodes'[t].in = nodes[t].in
      /\ \A u \in entered : u # t => nodes'[u].page = nodes[u].page
  <2>1. nodes' = [nodes EXCEPT ![t].page = "done"]
    BY DEF SetNewScene
  <2>2. /\ nodes'[t].page = "done" /\ nodes'[t].in = nodes[t].in
        /\ \A u \in Ids : u # t => nodes'[u] = nodes[u]
    BY <2>1, PageSet
  <2> QED BY <2>2 DEF DirectorOK
<1>5. \A u \in entered : IsTurn(u)' <=> IsTurn(u)
  BY ScenesStay DEF DirectorOK
<1>6. NoPageHangs'
  BY <1>1, <1>3, <1>4, <1>5 DEF NoPageHangs, PageGoesOn
<1>7. QuitDisconnects'
  BY <1>1, <1>4 DEF GoesOn, QuitDisconnects
<1>8. ~IsTurn(nextScene)' /\ (IsTurn(runningScene)' <=> IsTurn(runningScene))
  BY <1>1, <1>2, ScenesStay DEF IsTurn
<1>9. TouchesOK'
  BY <1>1 DEF TouchesOK
<1>10. EndedOK'
  <2>1. gameState \in {"over", "quit"} => Away(nodes[t].in)
    BY <1>1, <1>2 DEF GoesOn, EndedOK
  <2>2. nodes'[nodes'[t].in].kind = nodes[nodes[t].in].kind
    BY <1>2, <1>4, ScenesStay
  <2> QED BY <1>1, <1>3, <1>5, <1>8, <2>1, <2>2 DEF EndedOK, Away
<1>11. AlertsOfGames'
  BY <1>1, AlertStays DEF GoesOn
<1> QED BY <1>6, <1>7, <1>9, <1>10, <1>11 DEF GoesOn


\* What runs when a scene changes: nothing turns, or the page of a player who quits, which
\* has not been turned yet (the disconnection comes first); so nothing that turns is stopped.
LEMMA NothingIsStopped ==
  ASSUME NodesOK, DirectorOK, StageOK, GoesOn, connected, gameState = "quit" \/ ~IsTurn(runningScene)
  PROVE  \A t \in entered : Unscheduled[t] = nodes[t] /\ nodes[t].page \in {"none", "turning"}
<1>1. ASSUME NEW t \in entered
      PROVE  nodes[t].page \in {"none", "turning"}
  <2>1. CASE ~IsTurn(t)
    BY <2>1, PlainPage DEF DirectorOK
  <2>2. CASE IsTurn(t)
    <3>1. gameState = "quit"
      BY <2>2, EnteredTurn
    <3>2. nodes[t].page \notin {"finished", "done"}
      BY <3>1 DEF GoesOn, QuitDisconnects
    <3> QED BY <2>2, <3>2 DEF GoesOn, NoPageHangs, PageGoesOn
  <2> QED BY <2>1, <2>2
<1>2. ASSUME NEW t \in entered
      PROVE  Unscheduled[t] = nodes[t]
  <2> DEFINE page == IF nodes[runningScene].page = "finished" THEN "done"
                     ELSE nodes[runningScene].page
  <2>1. Unscheduled = [nodes EXCEPT ![runningScene].page = page]
    BY DEF Unscheduled
  <2>2. t # runningScene => Unscheduled[t] = nodes[t]
    <3> HIDE DEF page
    <3> QED BY <2>1, PageSet DEF DirectorOK
  <2>3. t = runningScene => Unscheduled[t] = nodes[t]
    <3>1. t = runningScene => page = nodes[runningScene].page
      BY <1>1
    <3>2. nodes[runningScene] \in Node /\ DOMAIN nodes = Ids
      BY IdsAreNumbers DEF DirectorOK, NodesOK, Ids
    <3>3. [nodes[runningScene] EXCEPT !.page = nodes[runningScene].page] = nodes[runningScene]
      BY <3>2 DEF Node
    <3> QED BY <2>1, <3>1, <3>2, <3>3 DEF DirectorOK
  <2> QED BY <2>2, <2>3
<1> QED BY <1>1, <1>2

\* Steps that leave the scenes and the director alone.
LEMMA StillGoesOn ==
  ASSUME GoesOn, UNCHANGED director,
         gameState' \in {"over", "quit"} => gameState' = gameState
  PROVE  NoPageHangs' /\ TouchesOK' /\ EndedOK'
<1>1. UNCHANGED <<nodes, entered, runningScene, nextScene, dispatchEvents>>
  BY DEF director
<1>2. NoPageHangs'
  BY <1>1 DEF GoesOn, NoPageHangs, PageGoesOn, IsTurn
<1>3. TouchesOK'
  BY <1>1 DEF GoesOn, TouchesOK, IsTurn
<1>4. EndedOK'
  BY <1>1 DEF GoesOn, EndedOK, Away, IsTurn
<1> QED BY <1>2, <1>3, <1>4

\* A page turn from a plain scene on the stage.
LEMMA BegunGoesOn ==
  ASSUME NodesOK, DirectorOK, StageOK', NodesOK', DirectorOK', GoesOn, ~IsTurn(runningScene),
         NEW old, SameScenes(old), NEW kind \in {"home", "lobby", "jump", "over"},
         NEW back \in BOOLEAN, TurnPage(old, kind, back)
  PROVE  /\ NoPageHangs' /\ TouchesOK'
         /\ (gameState' \in {"over", "quit"} => kind # "jump") => EndedOK'
         /\ \A t \in entered' : nodes'[t].page = "none"
<1>1. kind \in Kinds \ {"turn"}
  BY DEF Kinds
<1>2. /\ Grows /\ nextScene' \in Ids' /\ IsTurn(nextScene)'
      /\ nodes'[nodes'[nextScene'].in].kind = kind
  BY <1>1, TurnPageGrows DEF DirectorOK
<1>3. runningScene' = runningScene /\ ~dispatchEvents' /\ nextScene' # Nil
  BY <1>2 DEF TurnPage, Grows, NodesOK, Ids, Nil
<1>4. ~IsTurn(runningScene)'
  BY <1>2, <1>3, ScenesStay DEF IsTurn
<1>5. NoPageHangs' /\ \A t \in entered' : nodes'[t].page = "none" /\ ~IsTurn(t)'
  BY <1>4, NothingTurns
<1>6. TouchesOK'
  BY <1>2, <1>3 DEF TouchesOK
<1>7. ASSUME gameState' \in {"over", "quit"} => kind # "jump"
      PROVE  EndedOK'
  BY <1>2, <1>3, <1>5, <1>7 DEF EndedOK, Away
<1> QED BY <1>5, <1>6, <1>7

\* The result, for a player who plays or has just quit.
LEMMA GameOverGoesOn ==
  ASSUME ~EarlyPackets, NodesOK, DirectorOK, AlertsOK, StageOK, StageOK', NodesOK', DirectorOK',
         GoesOn, HandleGameOverInfo
  PROVE  GoesOn'
<1>1. /\ connected /\ (OnTime \/ gameState = "quit") /\ TurnPage(Unscheduled, "over", FALSE)
      /\ gameState' = "over" /\ ~connected' /\ UNCHANGED <<quitPending, alert, entered, runningScene>>
      /\ "over" \in Kinds \ {"turn"} /\ FALSE \in BOOLEAN
  BY DEF HandleGameOverInfo, Receiving, alerts, TurnPage, Kinds
<1>2. SameScenes(Unscheduled)
  BY UnscheduledIsSame DEF DirectorOK
<1>3. /\ Grows /\ nextScene' \in Ids' /\ IsTurn(nextScene)'
  BY <1>1, <1>2, TurnPageGrows DEF DirectorOK
<1>4. AlertsOfGames'
  BY <1>1, <1>3, AlertStays DEF GoesOn
<1>5. CASE ~IsTurn(runningScene)
  <2>1. /\ NoPageHangs' /\ TouchesOK' /\ EndedOK'
        /\ \A t \in entered' : nodes'[t].page = "none"
    BY <1>1, <1>2, <1>5, BegunGoesOn
  <2>2. QuitDisconnects'
    BY <1>1, <2>1 DEF QuitDisconnects
  <2> QED BY <1>4, <2>1, <2>2 DEF GoesOn
<1>6. CASE IsTurn(runningScene)
  <2>1. gameState = "quit"
    BY <1>1, <1>6 DEF OnTime, PageTurns
  <2>2. \A t \in entered : Unscheduled[t] = nodes[t] /\ nodes[t].page \in {"none", "turning"}
    BY <1>1, <2>1, NothingIsStopped
  <2>3. \A t \in entered : nodes'[t] = nodes[t] /\ t \in Ids /\ (IsTurn(t)' <=> IsTurn(t))
    <3>1. ASSUME NEW t \in Ids
          PROVE  nodes'[t] = Unscheduled[t]
      BY <1>1, <1>2, TurnPageGrows DEF DirectorOK
    <3> QED BY <2>2, <3>1 DEF DirectorOK, IsTurn
  <2>4. NoPageHangs'
    BY <1>1, <2>2, <2>3 DEF GoesOn, NoPageHangs, PageGoesOn
  <2>5. QuitDisconnects'
    BY <1>1, <2>2, <2>3 DEF QuitDisconnects
  <2>6. TouchesOK'
    BY <1>3, <1>6, ScenesStay DEF TouchesOK, Grows, NodesOK, Ids, Nil
  <2>7. \A t \in entered : IsTurn(t) => Away(nodes[t].in) /\ nodes[t].in \in Ids
    BY <2>1, <2>3, ScenesStay, <1>3 DEF GoesOn, EndedOK
  <2>8. EndedOK'
    BY <1>1, <1>3, <1>6, <2>3, <2>7, ScenesStay DEF EndedOK, Away, IsTurn
  <2> QED BY <1>4, <2>4, <2>5, <2>6, <2>8 DEF GoesOn
<1> QED BY <1>5, <1>6

LEMMA NextGoesOn ==
  ~EarlyPackets /\ ~LateAnswers /\ Shape /\ StageOK /\ GoesOn /\ [Next]_vars => GoesOn'
<1> SUFFICES ASSUME ~EarlyPackets, ~LateAnswers, Shape, StageOK, GoesOn, [Next]_vars
             PROVE  GoesOn'
  OBVIOUS
<1>1. /\ NodesOK /\ DirectorOK /\ AlertsOK /\ StatesOK /\ Grows /\ StageOK'
      /\ NodesOK' /\ DirectorOK' /\ AlertsOK'
  BY NextShape, NextStage DEF Shape
<1>2. CASE SetNextScene
  BY <1>1, <1>2, SetNextSceneGoesOn
<1>3. ASSUME NEW t \in Ids, SetNewScene(t)
      PROVE  GoesOn'
  BY <1>1, <1>3, SetNewSceneGoesOn
<1>4. ASSUME NEW t \in Ids, Finish(t)
      PROVE  GoesOn'
  <2>1. /\ UNCHANGED <<entered, runningScene, nextScene, dispatchEvents, gameState, connected,
                       quitPending, alert>>
        /\ ~quitPending /\ nodes' = [nodes EXCEPT ![t].page = "finished"]
    BY <1>4 DEF Finish, game, alerts
  <2>2. /\ nodes'[t].page = "finished"
        /\ \A u \in Ids : u # t => nodes'[u] = nodes[u]
        /\ \A u \in Ids : /\ nodes'[u].in = nodes[u].in /\ nodes'[u].kind = nodes[u].kind
                          /\ (IsTurn(u)' <=> IsTurn(u))
    BY <1>1, <2>1, PageSet, ScenesStay
  <2>3. NoPageHangs'
    BY <1>1, <2>1, <2>2 DEF GoesOn, NoPageHangs, PageGoesOn, DirectorOK
  <2>4. QuitDisconnects'
    BY <2>1 DEF GoesOn, QuitDisconnects
  <2>5. TouchesOK'
    BY <1>1, <2>1, <2>2 DEF GoesOn, TouchesOK, DirectorOK, IsTurn
  <2>6. \A u \in Ids : IsTurn(u) => (Away(nodes[u].in)' <=> Away(nodes[u].in))
    BY <1>1, <2>2, ScenesStay DEF Away
  <2>7. EndedOK'
    BY <1>1, <2>1, <2>2, <2>6 DEF GoesOn, EndedOK, DirectorOK, Away, IsTurn
  <2>8. AlertsOfGames'
    BY <1>1, <2>1, AlertStays DEF GoesOn
  <2> QED BY <2>3, <2>4, <2>5, <2>7, <2>8 DEF GoesOn
<1>5. CASE StartWithPlayerId
  <2>1. /\ ~IsTurn(runningScene) /\ TurnPage(nodes, "jump", FALSE) /\ gameState' = "waiting"
        /\ UNCHANGED <<connected, quitPending, alert>> /\ FALSE \in BOOLEAN
    BY <1>5 DEF StartWithPlayerId, alerts, IsTurn
  <2>2. /\ NoPageHangs' /\ TouchesOK' /\ EndedOK' /\ \A t \in entered' : nodes'[t].page = "none"
    BY <1>1, <2>1, NodesAreSame, BegunGoesOn
  <2>3. QuitDisconnects'
    BY <2>1, <2>2 DEF QuitDisconnects
  <2> QED BY <1>1, <2>1, <2>2, <2>3, AlertStays DEF GoesOn
<1>6. CASE ReturnToMainMenu \/ Play
  <2>1. PICK kind \in {"home", "lobby"}, back \in BOOLEAN : TurnPage(nodes, kind, back)
    BY <1>6 DEF ReturnToMainMenu, Play
  <2>2. /\ ~IsTurn(runningScene) /\ UNCHANGED <<connected, quitPending, alert, gameState>>
    BY <1>6 DEF ReturnToMainMenu, Play, MayTouch, alerts, game, IsTurn
  <2>3. /\ NoPageHangs' /\ TouchesOK' /\ EndedOK' /\ \A t \in entered' : nodes'[t].page = "none"
    BY <1>1, <2>1, <2>2, NodesAreSame, BegunGoesOn
  <2>4. QuitDisconnects'
    BY <2>2, <2>3 DEF GoesOn, QuitDisconnects
  <2> QED BY <1>1, <2>2, <2>3, <2>4, AlertStays DEF GoesOn
<1>7. CASE Quit
  <2>1. /\ alert = runningScene /\ alert # Nil /\ TurnPage(Unscheduled, "home", TRUE)
        /\ gameState' = "quit" /\ quitPending' /\ alert' = Nil /\ TRUE \in BOOLEAN
    BY <1>7 DEF Quit, MayAnswer
  <2>2. ~IsTurn(runningScene)
    BY <2>1 DEF GoesOn, AlertsOfGames, IsGame, IsTurn
  <2>3. SameScenes(Unscheduled)
    BY <1>1, UnscheduledIsSame DEF DirectorOK
  <2>4. /\ NoPageHangs' /\ TouchesOK' /\ EndedOK' /\ \A t \in entered' : nodes'[t].page = "none"
    BY <1>1, <2>1, <2>2, <2>3, BegunGoesOn
  <2>5. QuitDisconnects' /\ AlertsOfGames'
    BY <2>1, <2>4 DEF QuitDisconnects, AlertsOfGames
  <2> QED BY <2>4, <2>5 DEF GoesOn
<1>8. CASE HandleGameOverInfo
  BY <1>1, <1>8, GameOverGoesOn
<1>9. CASE HandleServerDisconnectedEvent
  <2>1. /\ connected /\ (OnTime \/ gameState = "quit") /\ nodes' = Unscheduled /\ gameState' = "lost"
        /\ UNCHANGED <<entered, runningScene, nextScene, dispatchEvents, quitPending, alert>>
    BY <1>9 DEF HandleServerDisconnectedEvent, Receiving, alerts
  <2>2. gameState = "quit" \/ ~IsTurn(runningScene)
    BY <2>1 DEF OnTime, PageTurns
  <2>3. \A t \in entered : nodes'[t] = nodes[t] /\ nodes[t].page \in {"none", "turning"}
    BY <1>1, <2>1, <2>2, NothingIsStopped
  <2>4. NoPageHangs'
    BY <2>1, <2>3 DEF GoesOn, NoPageHangs, PageGoesOn, IsTurn
  <2>5. QuitDisconnects'
    BY <2>1, <2>3 DEF QuitDisconnects
  <2>6. TouchesOK'
    BY <1>1, <2>1, ScenesStay DEF GoesOn, TouchesOK, IsTurn
  <2>7. EndedOK'
    BY <2>1 DEF EndedOK
  <2> QED BY <1>1, <2>1, <2>4, <2>5, <2>6, <2>7, AlertStays DEF GoesOn
<1>10. ASSUME NEW kind \in {"jump", "fight"}, NEW listed \in SUBSET Players, SwitchScene(kind, listed)
       PROVE  GoesOn'
  <2>1. /\ OnTime /\ ReplaceScene(Unscheduled, kind) /\ gameState' = "playing"
        /\ UNCHANGED <<connected, quitPending, alert>>
    BY <1>10 DEF SwitchScene, alerts
  <2>2. ~IsTurn(runningScene) /\ (nextScene # Nil => ~IsTurn(nextScene))
    BY <2>1 DEF OnTime, PageTurns
  <2>3. dispatchEvents /\ UNCHANGED <<runningScene, dispatchEvents>>
    BY <2>1, <2>2 DEF GoesOn, TouchesOK, ReplaceScene
  <2>4. ~IsTurn(runningScene)'
    BY <1>1, <2>2, <2>3, ScenesStay DEF IsTurn
  <2>5. NoPageHangs' /\ \A t \in entered' : nodes'[t].page = "none"
    BY <1>1, <2>4, NothingTurns
  <2>6. QuitDisconnects' /\ TouchesOK' /\ EndedOK'
    BY <2>1, <2>3, <2>5 DEF QuitDisconnects, TouchesOK, EndedOK
  <2> QED BY <1>1, <2>1, <2>5, <2>6, AlertStays DEF GoesOn
<1>11. ASSUME UNCHANGED <<director, alert>>,
              gameState' \in {"over", "quit"} => gameState' = gameState,
              gameState' = "quit" /\ connected' => quitPending' \/ UNCHANGED <<connected, quitPending>>,
              quitPending' => quitPending
       PROVE  GoesOn'
  <2>1. NoPageHangs' /\ TouchesOK' /\ EndedOK'
    BY <1>11, StillGoesOn
  <2>2. QuitDisconnects'
    BY <1>11 DEF GoesOn, QuitDisconnects, director
  <2>3. AlertsOfGames'
    BY <1>1, <1>11, AlertStays DEF GoesOn
  <2> QED BY <2>1, <2>2, <2>3 DEF GoesOn
<1>12. CASE UNCHANGED vars \/ Disconnect \/ CreateNewGame
  BY <1>11, <1>12 DEF vars, game, alerts, Disconnect, CreateNewGame
<1>13. ASSUME NEW p \in Players, Announce(p) \/ Depart(p)
       PROVE  GoesOn'
  BY <1>11, <1>13 DEF Announce, Depart, alerts
<1>14. ASSUME NEW kind \in {"jump", "fight"}, NEW listed \in SUBSET Players, Info(kind, listed)
       PROVE  GoesOn'
  BY <1>11, <1>14 DEF Info, alerts
<1>15. ASSUME NEW s \in entered, CheckNewPlayers(s)
       PROVE  GoesOn'
  BY <1>11, <1>15 DEF CheckNewPlayers, alerts
<1>16. ASSUME AskQuit \/ Resume \/ \E s \in entered : CheckDisconnection(s)
       PROVE  GoesOn'
  <2>1. UNCHANGED <<director, game>>
    BY <1>16 DEF AskQuit, Resume, CheckDisconnection
  <2>2. NoPageHangs' /\ TouchesOK' /\ EndedOK'
    BY <2>1, StillGoesOn DEF game
  <2>3. QuitDisconnects'
    BY <2>1 DEF GoesOn, QuitDisconnects, director, game
  <2>4. alert' # Nil => IsGame(alert')
    BY <1>16 DEF AskQuit, Resume, CheckDisconnection, MayTouch, IsGame
  <2>5. AlertsOfGames'
    BY <2>1, <2>4 DEF AlertsOfGames, IsGame, director
  <2> QED BY <2>2, <2>3, <2>5 DEF GoesOn
<1> QED
  BY <1>2, <1>3, <1>4, <1>5, <1>6, <1>7, <1>8, <1>9, <1>10, <1>12, <1>13, <1>14, <1>15, <1>16
  DEF Next, Turn

LEMMA InitGoesOn == Init => GoesOn
<1> SUFFICES ASSUME Init PROVE GoesOn
  OBVIOUS
<1>1. /\ nodes[1].kind = "lobby" /\ nodes[1].page = "none" /\ entered = {1} /\ runningScene = 1
      /\ nextScene = Nil /\ dispatchEvents /\ gameState = "none" /\ alert = Nil
  BY DEF Init, PlainScene
<1> QED
  BY <1>1 DEF GoesOn, NoPageHangs, QuitDisconnects, AlertsOfGames, TouchesOK, EndedOK, IsTurn

LEMMA SpecGoesOn ==
  ASSUME ~EarlyPackets, ~LateAnswers
  PROVE  Spec => [](Shape /\ StageOK /\ GoesOn)
<1>1. Shape /\ StageOK /\ [Next]_vars => StageOK'
  BY NextStage
<1>2. Shape /\ StageOK /\ GoesOn /\ [Next]_vars => GoesOn'
  BY NextGoesOn
<1> QED BY <1>1, <1>2, SpecShape, InitStage, InitGoesOn, PTL DEF Spec

\* No page stops halfway: a result, a lost connection or an alert may come at any
\* moment of a page turn, and _stopScene unschedules what has been scheduled, but never
\* the last step of a turn.
THEOREM PagesGoOn ==
  ASSUME ~EarlyPackets, ~LateAnswers
  PROVE  Spec => []NoPageHangs
<1>1. GoesOn => NoPageHangs
  BY DEF GoesOn
<1> QED BY <1>1, SpecGoesOn, PTL

\* Whenever the touches are off, a page turn is under way that has yet to give them back.
THEOREM TouchesComeBack ==
  ASSUME ~EarlyPackets, ~LateAnswers
  PROVE  Spec => []TouchesOnTheirWay
<1>1. ASSUME Shape, StageOK, GoesOn, ~dispatchEvents, IsTurn(runningScene)
      PROVE  \E t \in entered : IsTurn(t) /\ PageGoesOn(t) /\ nodes[t].page # "done"
  <2>1. PICK t \in Ids : Turning(t)
    BY <1>1 DEF StageOK
  <2>2. t \in entered /\ IsTurn(t)
    BY <2>1 DEF Turning
  <2>3. PageGoesOn(t)
    BY <1>1, <2>2 DEF GoesOn, NoPageHangs
  <2>4. ~IsTurn(nodes[t].in) /\ nodes[t].in # Nil
    BY <1>1, <2>2, IdsAreNumbers DEF Shape, NodesOK, TurnsInOrder
  <2>5. nextScene # nodes[t].in
    BY <1>1, <2>4 DEF GoesOn, TouchesOK
  <2> QED BY <2>2, <2>3, <2>5 DEF PageGoesOn
<1>2. Shape /\ StageOK /\ GoesOn => TouchesOnTheirWay
  BY <1>1 DEF TouchesOnTheirWay, GoesOn, TouchesOK
<1> QED BY <1>2, SpecGoesOn, PTL

\* A game that has ended or was quit is never the end of the way: the result, the menu or
\* the lobby is on the stage, or a page that leads there.
THEOREM GameHasAWayOut ==
  ASSUME ~EarlyPackets, ~LateAnswers
  PROVE  Spec => []WayOut
<1>1. ASSUME Shape, StageOK, GoesOn, gameState \in {"over", "quit"}, IsTurn(runningScene)
      PROVE  \E t \in entered : IsTurn(t) /\ PageGoesOn(t) /\ Away(nodes[t].in)
  <2>1. PICK t \in Ids : Turning(t)
    BY <1>1 DEF StageOK
  <2>2. t \in entered /\ IsTurn(t)
    BY <2>1 DEF Turning
  <2> QED BY <1>1, <2>2 DEF GoesOn, NoPageHangs, EndedOK
<1>2. Shape /\ StageOK /\ GoesOn => WayOut
  BY <1>1 DEF WayOut, GoesOn, EndedOK
<1> QED BY <1>2, SpecGoesOn, PTL

=============================================================================
