------------------------ MODULE GameController_proofs ------------------------
(***************************************************************************)
(* What the client keeps whatever the game server sends, for every number   *)
(* of players, every bound on the times and every length of a packet.       *)
(*                                                                         *)
(* The four invariants of GameController are proved from one inductive      *)
(* invariant, Safe.  AtMostOneLeader needs AheadIsTotal: of two players one *)
(* precedes the other in playerInfos_, so that two equal times never crown  *)
(* both.                                                                    *)
(***************************************************************************)
EXTENDS GameController, TLAPS

\* Of two players exactly one precedes the other in playerInfos_, and only
\* players that are in it precede others.
AheadIsTotal ==
    /\ \A p \in DOMAIN playerInfos : playerInfos[p].ahead \subseteq DOMAIN playerInfos
    /\ \A p, q \in DOMAIN playerInfos :
          p # q => (p \in playerInfos[q].ahead <=> q \notin playerInfos[p].ahead)

\* A result has been shown only once the connection is closed for good.
ResultClosesConnection ==
    shownResult.shown => ~connected /\ gameState \in {"gameOver", "disconnected"}

Safe == /\ TypeOK
        /\ AheadIsTotal
        /\ AtMostOneLeader
        /\ FrozenOnlyWhileConnecting
        /\ StateMatchesScene
        /\ ResultClosesConnection

-----------------------------------------------------------------------------
(* The leader flag.                                                         *)

\* Where the array order is total, _detectLider stops at one player at most.
LEMMA LeaderIsUnique ==
    ASSUME NEW D \in SUBSET PlayerIds, NEW infos \in [D -> PlayerInfo], NEW S \in SUBSET D,
           \A p, q \in D : p # q => (p \in infos[q].ahead <=> q \notin infos[p].ahead),
           NEW p, NEW q, Leads(infos, S, p), Leads(infos, S, q)
    PROVE  p = q
<1>1. p \in S /\ q \in S
  BY DEF Leads
<1>2. infos[p].time \in Nat /\ infos[q].time \in Nat
  BY <1>1, BoundsAssumption DEF PlayerInfo, Times
<1> SUFFICES ASSUME p # q PROVE FALSE
  OBVIOUS
<1>3. ~(infos[q].time < infos[p].time) /\ ~(infos[p].time < infos[q].time) => infos[p].time = infos[q].time
  BY <1>2
<1>4. \/ infos[q].time < infos[p].time
      \/ infos[q].time = infos[p].time /\ q \notin infos[p].ahead
  BY <1>1 DEF Leads
<1>5. \/ infos[p].time < infos[q].time
      \/ infos[p].time = infos[q].time /\ p \notin infos[q].ahead
  BY <1>1 DEF Leads
<1>6. infos[p].time = infos[q].time
  BY <1>2, <1>4, <1>5
<1> QED
  BY <1>1, <1>2, <1>4, <1>5, <1>6

\* A search for the leader touches the flags only.
LEMMA DetectLiderType ==
    ASSUME NEW D \in SUBSET PlayerIds, NEW infos \in [D -> PlayerInfo], NEW S
    PROVE  /\ DetectLider(infos, S) \in [D -> PlayerInfo]
           /\ \A p \in D : /\ DetectLider(infos, S)[p].ahead = infos[p].ahead
                           /\ DetectLider(infos, S)[p].isWinner <=> Leads(infos, S, p)
<1>1. ASSUME NEW p \in D
      PROVE  /\ Leads(infos, S, p) \in BOOLEAN
             /\ [infos[p] EXCEPT !.isWinner = Leads(infos, S, p)] \in PlayerInfo
             /\ [infos[p] EXCEPT !.isWinner = Leads(infos, S, p)].ahead = infos[p].ahead
             /\ [infos[p] EXCEPT !.isWinner = Leads(infos, S, p)].isWinner = Leads(infos, S, p)
  <2>1. infos[p] \in PlayerInfo
    OBVIOUS
  <2>2. Leads(infos, S, p) \in BOOLEAN
    BY DEF Leads
  <2> QED
    BY <2>1, <2>2 DEF PlayerInfo
<1>2. DOMAIN infos = D
  OBVIOUS
<1> QED
  BY <1>1, <1>2 DEF DetectLider

\* So after a search at most one flag is up.
LEMMA DetectLiderUnique ==
    ASSUME NEW D \in SUBSET PlayerIds, NEW infos \in [D -> PlayerInfo], NEW S \in SUBSET D,
           \A p, q \in D : p # q => (p \in infos[q].ahead <=> q \notin infos[p].ahead)
    PROVE  \A p, q \in D : DetectLider(infos, S)[p].isWinner /\ DetectLider(infos, S)[q].isWinner
                              => p = q
<1> SUFFICES ASSUME NEW p \in D, NEW q \in D,
                    DetectLider(infos, S)[p].isWinner, DetectLider(infos, S)[q].isWinner
             PROVE  p = q
  OBVIOUS
<1>1. Leads(infos, S, p) /\ Leads(infos, S, q)
  BY DetectLiderType
<1> QED
  BY <1>1, LeaderIsUnique

-----------------------------------------------------------------------------
(* The initial state, and the steps that leave playerInfos_ alone.          *)

\* A new controller knows nobody, so every part of Safe holds of nothing.
LEMMA InitSafe == Init => Safe
<1> SUFFICES ASSUME Init PROVE Safe
  OBVIOUS
<1>1. DOMAIN playerInfos = {} /\ DOMAIN players = {}
  BY DEF Init, NoPlayers
<1>2. IsPartialFunction(playerInfos, PlayerIds, PlayerInfo)
  BY <1>1 DEF Init, IsPartialFunction
<1>3. IsPartialFunction(players, PlayerIds, Player)
  BY <1>1 DEF Init, IsPartialFunction, NoPlayers
<1>4. shownResult \in Result /\ ~shownResult.shown
  BY DEF Init, NoResult, Result
<1>5. 0 \in 0..(MaxServerDelay + 1)
  BY BoundsAssumption
<1> QED
  BY <1>1, <1>2, <1>3, <1>4, <1>5
     DEF Init, Safe, TypeOK, AheadIsTotal, AtMostOneLeader, FrozenOnlyWhileConnecting,
         StateMatchesScene, ResultClosesConnection, SceneTypes, GameStates, Failures

\* A failed assertion changes nothing else, and neither does a step that is
\* ignored.
LEMMA FailSafe ==
    ASSUME Safe, NEW why \in Failures, Fail(why)
    PROVE  Safe'
BY DEF Safe, TypeOK, AheadIsTotal, AtMostOneLeader, FrozenOnlyWhileConnecting,
       StateMatchesScene, ResultClosesConnection, IsPartialFunction, Fail

\* A packet that is ignored (an info after the end) leaves Safe alone.
LEMMA StutterSafe ==
    ASSUME Safe, UNCHANGED vars
    PROVE  Safe'
BY DEF Safe, TypeOK, AheadIsTotal, AtMostOneLeader, FrozenOnlyWhileConnecting,
       StateMatchesScene, ResultClosesConnection, IsPartialFunction, vars

\* The end of a game empties players_ and enters no round.
LEMMA StopSafe ==
    ASSUME Safe, Receiving, StopAndWaitDisconnection, connected' \in BOOLEAN
    PROVE  Safe'
BY DEF Safe, TypeOK, AheadIsTotal, AtMostOneLeader, FrozenOnlyWhileConnecting,
       StateMatchesScene, ResultClosesConnection, IsPartialFunction, StopAndWaitDisconnection, NoPlayers, GameStates, Receiving

\* Starting, quitting and the delayed disconnection touch no info and add no
\* object; quitting leaves the round before it leaves the scene.
LEMMA UserSafe ==
    ASSUME Safe, (\E id \in PlayerIds : StartWithPlayerId(id)) \/ Quit \/ Disconnect
    PROVE  Safe'
<1>1. ASSUME NEW id \in PlayerIds, StartWithPlayerId(id) PROVE Safe'
  BY <1>1 DEF Safe, TypeOK, AheadIsTotal, AtMostOneLeader, FrozenOnlyWhileConnecting,
       StateMatchesScene, ResultClosesConnection, IsPartialFunction, StartWithPlayerId, SceneTypes, GameStates
<1>2. CASE Quit
  BY <1>2 DEF Safe, TypeOK, AheadIsTotal, AtMostOneLeader, FrozenOnlyWhileConnecting,
       StateMatchesScene, ResultClosesConnection, IsPartialFunction, Quit, NoPlayers, SceneTypes, GameStates
<1>3. CASE Disconnect
  BY <1>3 DEF Safe, TypeOK, AheadIsTotal, AtMostOneLeader, FrozenOnlyWhileConnecting,
       StateMatchesScene, ResultClosesConnection, IsPartialFunction, Disconnect
<1> QED
  BY <1>1, <1>2, <1>3

\* The only step that freezes: it says so in isConnecting_ at the same time.
LEMMA UpdateSafe ==
    ASSUME Safe, Update
    PROVE  Safe'
<1>1. serverUpdateDelay' \in 0..(MaxServerDelay + 1)
  <2>1. serverUpdateDelay \in 0..(MaxServerDelay + 1)
    BY DEF Safe, TypeOK
  <2>2. serverUpdateDelay' = IF serverUpdateDelay > MaxServerDelay
                             THEN serverUpdateDelay ELSE serverUpdateDelay + 1
    BY DEF Update, Frozen
  <2> QED
    BY <2>1, <2>2, BoundsAssumption
<1>2. IsPartialFunction(players, PlayerIds, Player)' /\ FrozenOnlyWhileConnecting' /\ isConnecting' \in BOOLEAN
  <2>1. CASE UNCHANGED <<isConnecting, players>>
    BY <2>1 DEF Safe, TypeOK, FrozenOnlyWhileConnecting, IsPartialFunction
  <2>2. CASE /\ isConnecting' = TRUE
             /\ players' = [p \in DOMAIN players |->
                            [players[p] EXCEPT !.isPaused = TRUE, !.isFrozen = TRUE]]
    <3>1. ASSUME NEW p \in DOMAIN players
          PROVE  [players[p] EXCEPT !.isPaused = TRUE, !.isFrozen = TRUE] \in Player
      <4>1. players[p] \in Player
        BY DEF Safe, TypeOK, IsPartialFunction
      <4> QED
        BY <4>1 DEF Player
    <3> QED
      BY <2>2, <3>1 DEF Safe, TypeOK, FrozenOnlyWhileConnecting, IsPartialFunction
  <2> QED
    BY <2>1, <2>2 DEF Update, Frozen
<1> QED
  BY <1>1, <1>2 DEF Safe, TypeOK, AheadIsTotal, AtMostOneLeader,
       StateMatchesScene, ResultClosesConnection, IsPartialFunction, Update

-----------------------------------------------------------------------------
(* Announcements.                                                           *)

\* Where an announced player stands in the list.
LEMMA PlaceOfAnnounced ==
    ASSUME NEW list \in Announcements, NEW p \in IdsIn(list)
    PROVE  /\ PlaceOf(list, p) \in DOMAIN list
           /\ list[PlaceOf(list, p)].id = p
           /\ PlaceOf(list, p) \in 1..MaxPlayers
           /\ list[PlaceOf(list, p)].time \in Times
<1>1. PICK n \in 0..MaxPlayers : list \in [1..n -> [id: PlayerIds, time: Times]]
  BY DEF Announcements
<1>2. PICK i \in DOMAIN list : list[i].id = p
  BY DEF IdsIn
<1>3. PlaceOf(list, p) \in DOMAIN list /\ list[PlaceOf(list, p)].id = p
  BY <1>2 DEF PlaceOf
<1>4. DOMAIN list = 1..n /\ 1..n \subseteq 1..MaxPlayers
  BY <1>1, BoundsAssumption
<1> QED
  BY <1>1, <1>3, <1>4

\* Every announced id is a player's.
LEMMA AnnouncedIds ==
    ASSUME NEW list \in Announcements
    PROVE  IdsIn(list) \subseteq PlayerIds
BY DEF Announcements, IdsIn

\* An announcement appends the players it introduces, in the order of the
\* list, so the array stays totally ordered and the search stays unique.
LEMMA ConnectedPlayersSafe ==
    ASSUME Safe, NEW list \in Announcements, HandleConnectedPlayers(list)
    PROVE  Safe'
<1> DEFINE known == DOMAIN playerInfos
           back  == {i \in DOMAIN list : list[i].id \in known /\ playerInfos[list[i].id].isDisconnected}
           new   == IdsIn(list) \ known
           Earlier(p) == {list[i].id : i \in 1..(PlaceOf(list, p) - 1)}
           NewInfo(p) == [color |-> ColorOf(list, p), time |-> list[PlaceOf(list, p)].time,
                          ahead |-> known \cup (Earlier(p) \cap new),
                          isWinner |-> FALSE, isLocalPlayer |-> p = localPlayerId,
                          isPaused |-> FALSE, isDisconnected |-> FALSE]
           infos == [p \in known \cup new |->
                       IF p \in new THEN NewInfo(p)
                       ELSE IF \E i \in back : list[i].id = p
                       THEN Back(playerInfos[p])
                       ELSE playerInfos[p]]
           seen  == known \cup {p \in new : \E i \in back : PlaceOf(list, p) < i}
           D == known \cup new
<1>1. D \subseteq PlayerIds /\ known \subseteq PlayerIds /\ new \subseteq PlayerIds
  BY AnnouncedIds DEF Safe, TypeOK, IsPartialFunction
<1>2. ASSUME NEW p \in new
      PROVE  /\ infos[p] = NewInfo(p)
             /\ infos[p] \in PlayerInfo
             /\ ~infos[p].isWinner
             /\ infos[p].ahead = known \cup (Earlier(p) \cap new)
  <2>1. infos[p] = NewInfo(p)
    OBVIOUS
  <2>2. PlaceOf(list, p) \in 1..MaxPlayers /\ list[PlaceOf(list, p)].time \in Times
    BY PlaceOfAnnounced
  <2>3. known \cup (Earlier(p) \cap new) \subseteq PlayerIds
    BY <1>1
  <2> HIDE DEF known, new, Earlier
  <2>4. NewInfo(p) \in PlayerInfo
    BY <2>2, <2>3 DEF PlayerInfo, ColorOf
  <2> QED
    BY <2>1, <2>4
<1>3. ASSUME NEW p \in known
      PROVE  /\ infos[p] \in PlayerInfo
             /\ infos[p].ahead = playerInfos[p].ahead
             /\ infos[p].isWinner = playerInfos[p].isWinner
  <2>1. playerInfos[p] \in PlayerInfo
    BY DEF Safe, TypeOK, IsPartialFunction
  <2>2. /\ Back(playerInfos[p]) \in PlayerInfo
        /\ Back(playerInfos[p]).ahead = playerInfos[p].ahead
        /\ Back(playerInfos[p]).isWinner = playerInfos[p].isWinner
    BY <2>1 DEF PlayerInfo, Back
  <2>3. infos[p] = playerInfos[p]
        \/ infos[p] = Back(playerInfos[p])
    OBVIOUS
  <2> QED
    BY <2>1, <2>2, <2>3
<1>4. infos \in [D -> PlayerInfo]
  BY <1>2, <1>3
<1>5. ASSUME NEW p \in D, NEW q \in D, p # q
      PROVE  p \in infos[q].ahead <=> q \notin infos[p].ahead
  <2>1. CASE p \in known /\ q \in known
    BY <2>1, <1>3, <1>5 DEF Safe, AheadIsTotal
  <2>2. CASE p \in known /\ q \in new
    <3>1. q \notin infos[p].ahead
      BY <2>2, <1>3 DEF Safe, AheadIsTotal
    <3> QED
      BY <2>2, <1>2, <3>1
  <2>3. CASE p \in new /\ q \in known
    <3>1. p \notin infos[q].ahead
      BY <2>3, <1>3 DEF Safe, AheadIsTotal
    <3> QED
      BY <2>3, <1>2, <3>1
  <2>4. CASE p \in new /\ q \in new
    <3> DEFINE pp == PlaceOf(list, p)
               pq == PlaceOf(list, q)
    <3>1. /\ pp \in DOMAIN list /\ pq \in DOMAIN list
          /\ list[pp].id = p /\ list[pq].id = q
          /\ pp \in Nat /\ pq \in Nat
      BY <2>4, PlaceOfAnnounced, BoundsAssumption
    <3>2. pp # pq
      BY <3>1, <1>5
    <3>3. \A r \in IdsIn(list) : \A s \in IdsIn(list) :
             PlaceOf(list, s) \in Nat /\ (r \in Earlier(s) <=> PlaceOf(list, r) < PlaceOf(list, s))
      <4> SUFFICES ASSUME NEW r \in IdsIn(list), NEW s \in IdsIn(list)
                   PROVE  PlaceOf(list, s) \in Nat
                          /\ (r \in Earlier(s) <=> PlaceOf(list, r) < PlaceOf(list, s))
        OBVIOUS
      <4> DEFINE pr == PlaceOf(list, r)
                 ps == PlaceOf(list, s)
      <4>1. PICK n \in Nat : DOMAIN list = 1..n
        BY BoundsAssumption DEF Announcements
      <4>2. pr \in 1..n /\ ps \in 1..n /\ list[pr].id = r
        BY <4>1, PlaceOfAnnounced
      <4>3. \A i \in 1..n : list[i].id = r => i = pr
        BY <4>1, <4>2 DEF Announcements
      <4>4. 1..(ps - 1) \subseteq 1..n
        BY <4>1, <4>2
      <4>5. pr < ps => pr \in 1..(ps - 1)
        BY <4>1, <4>2
      <4>6. \A i \in 1..(ps - 1) : i < ps
        BY <4>1, <4>2
      <4> HIDE DEF pr, ps
      <4>7. ps \in Nat /\ (r \in {list[i].id : i \in 1..(ps - 1)} <=> pr < ps)
        BY <4>1, <4>2, <4>3, <4>4, <4>5, <4>6
      <4> QED
        BY <4>7 DEF pr, ps
    <3>4. (p \in Earlier(q) <=> pp < pq) /\ (q \in Earlier(p) <=> pq < pp)
      BY <3>3, <2>4
    <3>5. pp < pq <=> ~(pq < pp)
      BY <3>1, <3>2
    <3> HIDE DEF Earlier, pp, pq
    <3>6. /\ p \in infos[q].ahead <=> p \in Earlier(q)
          /\ q \in infos[p].ahead <=> q \in Earlier(p)
      BY <2>4, <1>2
    <3> QED
      BY <3>4, <3>5, <3>6
  <2> QED
    BY <2>1, <2>2, <2>3, <2>4
<1>6. ASSUME NEW p \in D
      PROVE  infos[p].ahead \subseteq D
  <2>1. CASE p \in known
    BY <2>1, <1>3 DEF Safe, AheadIsTotal
  <2>2. CASE p \in new
    BY <2>2, <1>2
  <2> QED
    BY <2>1, <2>2
<1>7. \A p, q \in D : infos[p].isWinner /\ infos[q].isWinner => p = q
  BY <1>2, <1>3 DEF Safe, AtMostOneLeader
<1>8. /\ playerInfos' \in [D -> PlayerInfo]
      /\ \A p \in D : playerInfos'[p].ahead = infos[p].ahead
      /\ \A p, q \in D : playerInfos'[p].isWinner /\ playerInfos'[q].isWinner => p = q
  <2>1. CASE back = {}
    BY <2>1, <1>4, <1>7 DEF HandleConnectedPlayers
  <2>2. CASE back # {}
    <3>1. playerInfos' = DetectLider(infos, seen)
      BY <2>2 DEF HandleConnectedPlayers
    <3>2. seen \subseteq D
      OBVIOUS
    <3> HIDE DEF infos, seen, D
    <3>3. /\ DetectLider(infos, seen) \in [D -> PlayerInfo]
          /\ \A p \in D : DetectLider(infos, seen)[p].ahead = infos[p].ahead
      BY <1>1, <1>4, DetectLiderType
    <3>4. \A p, q \in D : DetectLider(infos, seen)[p].isWinner /\ DetectLider(infos, seen)[q].isWinner
                             => p = q
      BY <3>2, <1>1, <1>4, <1>5, DetectLiderUnique
    <3> QED
      BY <3>1, <3>3, <3>4
  <2> QED
    BY <2>1, <2>2
<1>9. players' = [p \in DOMAIN players \cup new |-> IF p \in new THEN NewPlayer("jump") ELSE players[p]]
  BY DEF HandleConnectedPlayers
<1>10. IsPartialFunction(players, PlayerIds, Player)' /\ FrozenOnlyWhileConnecting'
  <2>1. NewPlayer("jump") \in Player /\ ~NewPlayer("jump").isFrozen
    BY DEF NewPlayer, Player
  <2>2. isConnecting' = isConnecting
    BY DEF HandleConnectedPlayers
  <2> HIDE DEF new
  <2> QED
    BY <1>1, <1>9, <2>1, <2>2 DEF Safe, TypeOK, IsPartialFunction, FrozenOnlyWhileConnecting
<1>11. AheadIsTotal' /\ AtMostOneLeader' /\ IsPartialFunction(playerInfos, PlayerIds, PlayerInfo)'
  <2> HIDE DEF infos, D
  <2> QED
    BY <1>1, <1>5, <1>6, <1>8 DEF AheadIsTotal, AtMostOneLeader, IsPartialFunction
<1> QED
  BY <1>10, <1>11 DEF Safe, TypeOK, StateMatchesScene, ResultClosesConnection, HandleConnectedPlayers

-----------------------------------------------------------------------------
(* Disconnection, countdown, result.                                        *)

\* Forgetting a player takes it out of the order of the others; marking one
\* searches for the leader again.
LEMMA DisconnectedPlayerSafe ==
    ASSUME Safe, NEW id \in PlayerIds, HandleDisconnectedPlayer(id)
    PROVE  Safe'
<1>1. CASE UNCHANGED vars
  BY <1>1, StutterSafe
<1>2. CASE StopAndWaitDisconnection /\ UNCHANGED connected
  <2>1. connected' \in BOOLEAN
    BY <1>2 DEF Safe, TypeOK
  <2> QED
    BY <1>2, <2>1, StopSafe DEF HandleDisconnectedPlayer, ForgetsLeavers
<1>3. CASE /\ playerInfos' = [p \in DOMAIN playerInfos \ {id} |->
                                [playerInfos[p] EXCEPT !.ahead = @ \ {id}]]
           /\ players' = [p \in DOMAIN players \ {id} |-> players[p]]
           /\ UNCHANGED <<localPlayerId, sceneType, gameState, isConnecting, serverUpdateDelay,
                          connected, quitPending, shownResult, failure>>
  <2>1. ASSUME NEW p \in DOMAIN playerInfos \ {id}
        PROVE  /\ playerInfos'[p] \in PlayerInfo
               /\ playerInfos'[p].ahead = playerInfos[p].ahead \ {id}
               /\ playerInfos'[p].isWinner = playerInfos[p].isWinner
    <3>1. playerInfos[p] \in PlayerInfo
      BY DEF Safe, TypeOK, IsPartialFunction
    <3>2. playerInfos'[p] = [playerInfos[p] EXCEPT !.ahead = @ \ {id}]
      BY <1>3
    <3> QED
      BY <3>1, <3>2 DEF PlayerInfo
  <2>2. DOMAIN playerInfos' = DOMAIN playerInfos \ {id}
    BY <1>3
  <2>3. IsPartialFunction(playerInfos, PlayerIds, PlayerInfo)'
    BY <1>3, <2>1, <2>2 DEF Safe, TypeOK, IsPartialFunction
  <2>4. AheadIsTotal' /\ AtMostOneLeader'
    BY <2>1, <2>2 DEF Safe, AheadIsTotal, AtMostOneLeader
  <2>5. IsPartialFunction(players, PlayerIds, Player)' /\ FrozenOnlyWhileConnecting'
    BY <1>3 DEF Safe, TypeOK, IsPartialFunction, FrozenOnlyWhileConnecting
  <2> QED
    BY <1>3, <2>3, <2>4, <2>5 DEF Safe, TypeOK, StateMatchesScene, ResultClosesConnection
<1>4. CASE /\ playerInfos' = DetectLider([playerInfos EXCEPT ![id].isDisconnected = TRUE],
                                        DOMAIN playerInfos)
           /\ id \in DOMAIN playerInfos
           /\ UNCHANGED <<localPlayerId, sceneType, gameState, players, isConnecting,
                          serverUpdateDelay, connected, quitPending, shownResult, failure>>
  <2> DEFINE D == DOMAIN playerInfos
             infos == [playerInfos EXCEPT ![id].isDisconnected = TRUE]
  <2>1. D \in SUBSET PlayerIds /\ playerInfos \in [D -> PlayerInfo]
    BY DEF Safe, TypeOK, IsPartialFunction
  <2>2. infos \in [D -> PlayerInfo] /\ \A p \in D : infos[p].ahead = playerInfos[p].ahead
    <3>1. playerInfos[id] \in PlayerInfo
      BY <1>4, <2>1
    <3>2. /\ [playerInfos[id] EXCEPT !.isDisconnected = TRUE] \in PlayerInfo
          /\ [playerInfos[id] EXCEPT !.isDisconnected = TRUE].ahead = playerInfos[id].ahead
      BY <3>1 DEF PlayerInfo
    <3>3. infos = [playerInfos EXCEPT ![id] = [playerInfos[id] EXCEPT !.isDisconnected = TRUE]]
      BY <2>1
    <3> QED
      BY <2>1, <3>2, <3>3
  <2>3. playerInfos' = DetectLider(infos, D)
    BY <1>4
  <2>4. \A p, q \in D : p # q => (p \in infos[q].ahead <=> q \notin infos[p].ahead)
    BY <2>2 DEF Safe, AheadIsTotal
  <2>5. \A p \in D : infos[p].ahead \subseteq D
    BY <2>2 DEF Safe, AheadIsTotal
  <2> HIDE DEF infos, D
  <2>6. playerInfos' \in [D -> PlayerInfo] /\ \A p \in D : playerInfos'[p].ahead = infos[p].ahead
    <3>1. /\ DetectLider(infos, D) \in [D -> PlayerInfo]
          /\ \A p \in D : DetectLider(infos, D)[p].ahead = infos[p].ahead
      <4>1. D \in SUBSET PlayerIds /\ infos \in [D -> PlayerInfo]
        BY <2>1, <2>2
      <4> QED
        BY <4>1, DetectLiderType
    <3> QED
      BY <2>3, <3>1
  <2>7. \A p, q \in D : playerInfos'[p].isWinner /\ playerInfos'[q].isWinner => p = q
    <3>1. \A p, q \in D : DetectLider(infos, D)[p].isWinner /\ DetectLider(infos, D)[q].isWinner
                             => p = q
      BY <2>1, <2>2, <2>4, DetectLiderUnique
    <3> QED
      BY <2>3, <3>1
  <2>8. IsPartialFunction(playerInfos, PlayerIds, PlayerInfo)' /\ AheadIsTotal' /\ AtMostOneLeader'
    BY <2>1, <2>4, <2>5, <2>6, <2>7 DEF IsPartialFunction, AheadIsTotal, AtMostOneLeader
  <2> QED
    BY <1>4, <2>8 DEF Safe, TypeOK, IsPartialFunction, FrozenOnlyWhileConnecting, StateMatchesScene, ResultClosesConnection
<1> QED
  BY <1>1, <1>2, <1>3, <1>4 DEF HandleDisconnectedPlayer, ForgetsLeavers

\* The countdown changes gameState_ alone, and not into a round.
LEMMA CountdownSafe ==
    ASSUME Safe, HandleCountdownToGame
    PROVE  Safe'
BY DEF Safe, TypeOK, AheadIsTotal, AtMostOneLeader, FrozenOnlyWhileConnecting,
       StateMatchesScene, ResultClosesConnection, IsPartialFunction, HandleCountdownToGame, GameStates

\* A lost connection stops the game like a disconnection of the local player.
LEMMA ServerDisconnectedSafe ==
    ASSUME Safe, HandleServerDisconnectedEvent
    PROVE  Safe'
BY StopSafe DEF HandleServerDisconnectedEvent

\* New times for the players of a list leave the order and the flags alone.
LEMMA NewTimes ==
    ASSUME Safe, NEW listed \in SUBSET PlayerIds, NEW time \in [listed -> Times],
           NEW infos,
           infos = [p \in DOMAIN playerInfos |->
              IF p \in listed THEN [playerInfos[p] EXCEPT !.time = time[p]] ELSE playerInfos[p]]
    PROVE  /\ infos \in [DOMAIN playerInfos -> PlayerInfo]
           /\ \A p \in DOMAIN playerInfos : /\ infos[p].ahead = playerInfos[p].ahead
                                            /\ infos[p].isWinner = playerInfos[p].isWinner
<1>1. ASSUME NEW p \in DOMAIN playerInfos
      PROVE  /\ infos[p] \in PlayerInfo
             /\ infos[p].ahead = playerInfos[p].ahead
             /\ infos[p].isWinner = playerInfos[p].isWinner
  <2>1. playerInfos[p] \in PlayerInfo
    BY DEF Safe, TypeOK, IsPartialFunction
  <2>2. CASE p \in listed
    <3>1. infos[p] = [playerInfos[p] EXCEPT !.time = time[p]] /\ time[p] \in Times
      BY <2>2
    <3> QED
      BY <2>1, <3>1 DEF PlayerInfo
  <2>3. CASE p \notin listed
    BY <2>1, <2>3
  <2> QED
    BY <2>2, <2>3
<1> QED
  BY <1>1

\* The result writes times but no flag, and closes the connection.
LEMMA GameOverSafe ==
    ASSUME Safe, NEW listed \in SUBSET PlayerIds, NEW winner \in listed \cup {NoPlayer},
           NEW time \in [listed -> Times], HandleGameOverInfo(listed, time, winner)
    PROVE  Safe'
<1>1. CASE Fail("unknownPlayer") \/ Fail("garbagePointer")
  BY <1>1, FailSafe DEF Failures
<1>2. CASE ~(Fail("unknownPlayer") \/ Fail("garbagePointer"))
  <2>1. /\ gameState' = "gameOver"
        /\ players' = NoPlayers
        /\ connected' = FALSE
        /\ playerInfos' = [p \in DOMAIN playerInfos |->
              IF p \in listed THEN [playerInfos[p] EXCEPT !.time = time[p]] ELSE playerInfos[p]]
        /\ \E wins \in BOOLEAN :
              shownResult' = [shown |-> TRUE, winner |-> winner, localPlayerIsWinner |-> wins]
        /\ UNCHANGED <<localPlayerId, sceneType, isConnecting, serverUpdateDelay,
                       quitPending, failure>>
    BY <1>2 DEF HandleGameOverInfo
  <2>6. shownResult' \in Result
    BY <2>1 DEF Result
  <2>2. /\ playerInfos' \in [DOMAIN playerInfos -> PlayerInfo]
        /\ \A p \in DOMAIN playerInfos : /\ playerInfos'[p].ahead = playerInfos[p].ahead
                                         /\ playerInfos'[p].isWinner = playerInfos[p].isWinner
    BY <2>1, NewTimes
  <2>3. DOMAIN playerInfos' = DOMAIN playerInfos
    BY <2>2
  <2>4. IsPartialFunction(playerInfos, PlayerIds, PlayerInfo)' /\ AheadIsTotal' /\ AtMostOneLeader'
    BY <2>2, <2>3 DEF Safe, TypeOK, IsPartialFunction, AheadIsTotal, AtMostOneLeader
  <2>5. IsPartialFunction(players, PlayerIds, Player)' /\ FrozenOnlyWhileConnecting'
    BY <2>1 DEF NoPlayers, IsPartialFunction, FrozenOnlyWhileConnecting
  <2> QED
    BY <2>1, <2>4, <2>5, <2>6 DEF Safe, TypeOK, StateMatchesScene, ResultClosesConnection, GameStates
<1> QED
  BY <1>1, <1>2

-----------------------------------------------------------------------------
(* The jump and fight infos.                                                *)

\* What SynchronizeScene does apart from playerInfos_: the objects are of the
\* right form, the frozen ones are freed, and gameState follows sceneType.
LEMMA SynchronizeSceneSafe ==
    ASSUME TypeOK, FrozenOnlyWhileConnecting, StateMatchesScene,
           NEW kind \in {"jump", "fight"}, NEW playing,
           \/ kind = "jump" /\ playing = "jumping"
           \/ kind = "fight" /\ playing = "fighting",
           NEW listed \in SUBSET PlayerIds, NEW paused \in SUBSET listed,
           SynchronizeScene(kind, listed, paused, playing)
    PROVE  /\ IsPartialFunction(players, PlayerIds, Player)'
           /\ FrozenOnlyWhileConnecting'
           /\ StateMatchesScene'
           /\ localPlayerId' \in PlayerIds \cup {NoPlayer}
           /\ sceneType' \in SceneTypes
           /\ gameState' \in GameStates
           /\ isConnecting' \in BOOLEAN
           /\ serverUpdateDelay' \in 0..(MaxServerDelay + 1)
           /\ connected' \in BOOLEAN
           /\ quitPending' \in BOOLEAN
           /\ shownResult' \in Result
           /\ failure' \in Failures
<1> DEFINE kept == PlayersKept(kind, listed)
<1>1. sceneType' = SceneFor(kind, listed) /\ SceneFor(kind, listed) \in {kind, sceneType}
  BY DEF SynchronizeScene, SceneFor
<1>2. CASE /\ SceneFor(kind, listed) = kind
           /\ gameState' = playing
           /\ players' = [p \in listed |->
                 [kind |-> kind, isPaused |-> p \in paused, isFrozen |-> StillFrozen(kept, p)]]
           /\ serverUpdateDelay' = 0
           /\ isConnecting' = FALSE
  <2>1. ASSUME NEW p \in DOMAIN kept PROVE kept[p] \in Player /\ (kept[p].isFrozen => isConnecting)
    <3>1. kept = players \/ kept = NoPlayers
      BY DEF PlayersKept
    <3>2. CASE kept = players
      BY <3>2, <2>1 DEF TypeOK, IsPartialFunction, FrozenOnlyWhileConnecting
    <3>3. CASE kept = NoPlayers
      BY <3>3, <2>1 DEF NoPlayers
    <3> QED
      BY <3>1, <3>2, <3>3
  <2> HIDE DEF kept
  <2>2. ASSUME NEW p \in listed
        PROVE  players'[p] \in Player /\ ~players'[p].isFrozen
    <3>1. StillFrozen(kept, p) = FALSE
      BY <2>1 DEF StillFrozen
    <3>2. players'[p] = [kind |-> kind, isPaused |-> p \in paused, isFrozen |-> FALSE]
      BY <1>2, <3>1
    <3> QED
      BY <3>2 DEF Player
  <2>3. DOMAIN players' = listed /\ players' \in [listed -> Player]
    BY <1>2, <2>2
  <2>4. IsPartialFunction(players, PlayerIds, Player)' /\ FrozenOnlyWhileConnecting'
    BY <2>2, <2>3 DEF IsPartialFunction, FrozenOnlyWhileConnecting
  <2>5. 0 \in 0..(MaxServerDelay + 1)
    BY BoundsAssumption
  <2> QED
    BY <1>1, <1>2, <2>4, <2>5
       DEF TypeOK, StateMatchesScene, ResultClosesConnection, SynchronizeScene, SceneTypes, GameStates
<1>3. CASE /\ SceneFor(kind, listed) # kind
           /\ UNCHANGED <<gameState, players, serverUpdateDelay, isConnecting>>
  BY <1>1, <1>3 DEF TypeOK, IsPartialFunction, FrozenOnlyWhileConnecting, StateMatchesScene, ResultClosesConnection,
       SynchronizeScene
<1> QED
  BY <1>2, <1>3 DEF SynchronizeScene

\* The paused flags leave the order, the flags and the times alone.
LEMMA WithPausedType ==
    ASSUME NEW D \in SUBSET PlayerIds, NEW infos \in [D -> PlayerInfo], NEW listed, NEW paused
    PROVE  /\ WithPaused(infos, listed, paused) \in [D -> PlayerInfo]
           /\ \A p \in D : /\ WithPaused(infos, listed, paused)[p].ahead = infos[p].ahead
                           /\ WithPaused(infos, listed, paused)[p].isWinner = infos[p].isWinner
<1> DEFINE w == WithPaused(infos, listed, paused)
<1>1. ASSUME NEW p \in D
      PROVE  w[p] \in PlayerInfo /\ w[p].ahead = infos[p].ahead /\ w[p].isWinner = infos[p].isWinner
  <2>1. infos[p] \in PlayerInfo /\ (p \in paused) \in BOOLEAN
    OBVIOUS
  <2>2. w[p] = infos[p] \/ w[p] = [infos[p] EXCEPT !.isPaused = (p \in paused)]
    BY DEF WithPaused
  <2>3. /\ [infos[p] EXCEPT !.isPaused = (p \in paused)] \in PlayerInfo
        /\ [infos[p] EXCEPT !.isPaused = (p \in paused)].ahead = infos[p].ahead
        /\ [infos[p] EXCEPT !.isPaused = (p \in paused)].isWinner = infos[p].isWinner
    BY <2>1 DEF PlayerInfo
  <2> QED
    BY <2>1, <2>2, <2>3
<1>2. w \in [D -> PlayerInfo]
  BY <1>1 DEF WithPaused
<1> QED
  BY <1>1, <1>2

\* A jump info frees whoever stays in the scene, or leaves a scene of the
\* other kind alone.
LEMMA JumpInfoSafe ==
    ASSUME Safe, NEW listed \in SUBSET PlayerIds, NEW paused \in SUBSET listed,
           HandleJumpInfo(listed, paused)
    PROVE  Safe'
<1>1. CASE UNCHANGED vars
  BY <1>1, StutterSafe
<1>2. CASE Fail("unknownPlayer") \/ Fail("wrongClass")
  BY <1>2, FailSafe DEF Failures
<1>3. CASE /\ playerInfos' = WithPaused(playerInfos, listed, paused)
           /\ SynchronizeScene("jump", listed, paused, "jumping")
  <2>1. DOMAIN playerInfos \in SUBSET PlayerIds /\ playerInfos \in [DOMAIN playerInfos -> PlayerInfo]
    BY DEF Safe, TypeOK, IsPartialFunction
  <2>2. /\ playerInfos' \in [DOMAIN playerInfos -> PlayerInfo]
        /\ \A p \in DOMAIN playerInfos : /\ playerInfos'[p].ahead = playerInfos[p].ahead
                                         /\ playerInfos'[p].isWinner = playerInfos[p].isWinner
    BY <1>3, <2>1, WithPausedType
  <2>3. DOMAIN playerInfos' = DOMAIN playerInfos
    BY <2>2
  <2>4. IsPartialFunction(playerInfos, PlayerIds, PlayerInfo)' /\ AheadIsTotal' /\ AtMostOneLeader'
    BY <2>1, <2>2, <2>3 DEF Safe, IsPartialFunction, AheadIsTotal, AtMostOneLeader
  <2>5. ResultClosesConnection'
    BY <1>3 DEF Safe, ResultClosesConnection, HandleJumpInfo, Receiving, SynchronizeScene
  <2> QED
    BY <1>3, <2>4, <2>5, SynchronizeSceneSafe DEF Safe, TypeOK
<1> QED
  BY <1>1, <1>2, <1>3 DEF HandleJumpInfo

\* The same of a fight info, which also writes times and seeks the leader.
LEMMA FightInfoSafe ==
    ASSUME Safe, NEW listed \in SUBSET PlayerIds, NEW paused \in SUBSET listed,
           NEW time \in [listed -> Times], HandleFightInfo(listed, paused, time)
    PROVE  Safe'
<1> DEFINE D == DOMAIN playerInfos
           timed == [p \in DOMAIN playerInfos |->
              IF p \in listed THEN [playerInfos[p] EXCEPT !.time = time[p]] ELSE playerInfos[p]]
           infos == WithPaused(timed, listed, paused)
<1>1. CASE UNCHANGED vars
  BY <1>1, StutterSafe
<1>2. CASE Fail("unknownPlayer") \/ Fail("wrongClass")
  BY <1>2, FailSafe DEF Failures
<1>3. CASE /\ playerInfos' = IF listed = {} THEN playerInfos ELSE DetectLider(infos, DOMAIN infos)
           /\ SynchronizeScene("fight", listed, paused, "fighting")
  <2>1. D \in SUBSET PlayerIds /\ playerInfos \in [D -> PlayerInfo]
    BY DEF Safe, TypeOK, IsPartialFunction
  <2>2. timed \in [D -> PlayerInfo] /\ \A p \in D : timed[p].ahead = playerInfos[p].ahead
    <3>1. \A f : f = timed =>
             /\ f \in [DOMAIN playerInfos -> PlayerInfo]
             /\ \A p \in DOMAIN playerInfos : f[p].ahead = playerInfos[p].ahead
      BY NewTimes
    <3> QED
      BY <3>1
  <2>3. infos \in [D -> PlayerInfo] /\ \A p \in D : infos[p].ahead = timed[p].ahead
    <3>1. D \in SUBSET PlayerIds /\ timed \in [D -> PlayerInfo]
      BY <2>1, <2>2
    <3> HIDE DEF timed, D
    <3> QED
      BY <3>1, WithPausedType
  <2> HIDE DEF timed
  <2>4. DOMAIN infos = D
    BY <2>3
  <2>5. /\ \A p, q \in D : p # q => (p \in infos[q].ahead <=> q \notin infos[p].ahead)
        /\ \A p \in D : infos[p].ahead \subseteq D
    BY <2>2, <2>3 DEF Safe, AheadIsTotal
  <2> HIDE DEF infos
  <2>6. IsPartialFunction(playerInfos, PlayerIds, PlayerInfo)' /\ AheadIsTotal' /\ AtMostOneLeader'
    <3>1. CASE listed = {}
      BY <1>3, <3>1 DEF Safe, TypeOK, IsPartialFunction, AheadIsTotal, AtMostOneLeader
    <3>2. CASE listed # {}
      <4>1. playerInfos' = DetectLider(infos, D)
        BY <1>3, <2>4, <3>2
      <4>2. D \in SUBSET PlayerIds /\ infos \in [D -> PlayerInfo]
        BY <2>1, <2>3
      <4> HIDE DEF D
      <4>3. /\ DetectLider(infos, D) \in [D -> PlayerInfo]
            /\ \A p \in D : DetectLider(infos, D)[p].ahead = infos[p].ahead
        BY <4>2, DetectLiderType
      <4>4. \A p, q \in D : DetectLider(infos, D)[p].isWinner /\ DetectLider(infos, D)[q].isWinner
                               => p = q
        BY <4>2, <2>5, DetectLiderUnique
      <4> QED
        BY <4>1, <4>2, <4>3, <4>4, <2>5 DEF IsPartialFunction, AheadIsTotal, AtMostOneLeader
    <3> QED
      BY <3>1, <3>2
  <2>7. ResultClosesConnection'
    BY <1>3 DEF Safe, ResultClosesConnection, HandleFightInfo, Receiving, SynchronizeScene
  <2> QED
    BY <1>3, <2>6, <2>7, SynchronizeSceneSafe DEF Safe, TypeOK
<1> QED
  BY <1>1, <1>2, <1>3 DEF HandleFightInfo

-----------------------------------------------------------------------------
(* The theorems.                                                            *)

\* One case for each action of Next.
LEMMA NextSafe == Safe /\ [Next]_vars => Safe'
<1> SUFFICES ASSUME Safe, [Next]_vars PROVE Safe'
  OBVIOUS
<1>1. CASE UNCHANGED vars
  BY <1>1, StutterSafe
<1>2. CASE (\E id \in PlayerIds : StartWithPlayerId(id)) \/ Quit \/ Disconnect
  BY <1>2, UserSafe
<1>3. CASE Update
  BY <1>3, UpdateSafe
<1>4. CASE \E list \in Announcements : HandleConnectedPlayers(list)
  BY <1>4, ConnectedPlayersSafe
<1>5. CASE \E id \in PlayerIds : HandleDisconnectedPlayer(id)
  BY <1>5, DisconnectedPlayerSafe
<1>6. CASE HandleCountdownToGame
  BY <1>6, CountdownSafe
<1>7. CASE \E listed \in SUBSET PlayerIds : \E paused \in SUBSET listed : HandleJumpInfo(listed, paused)
  BY <1>7, JumpInfoSafe
<1>8. CASE \E listed \in SUBSET PlayerIds : \E paused \in SUBSET listed :
              \E time \in [listed -> Times] : HandleFightInfo(listed, paused, time)
  BY <1>8, FightInfoSafe
<1>9. CASE \E listed \in SUBSET PlayerIds : \E winner \in listed \cup {NoPlayer} :
              \E time \in [listed -> Times] : HandleGameOverInfo(listed, time, winner)
  BY <1>9, GameOverSafe
<1>10. CASE HandleServerDisconnectedEvent
  BY <1>10, ServerDisconnectedSafe
<1> QED
  BY <1>1, <1>2, <1>3, <1>4, <1>5, <1>6, <1>7, <1>8, <1>9, <1>10 DEF Next

\* Safe is an invariant of the client, for every server.
THEOREM SpecSafe == Spec => []Safe
<1>1. Init => Safe
  BY InitSafe
<1>2. Safe /\ [Next]_vars => Safe'
  BY NextSafe
<1> QED
  BY <1>1, <1>2, PTL DEF Spec

\* No packet, in any order, gives a field of GameController a value outside
\* its range (updates of colours and times included).
THEOREM TypeCorrect == Spec => []TypeOK
<1>1. Safe => TypeOK
  BY DEF Safe
<1> QED
  BY <1>1, SpecSafe, PTL

\* _detectLider and the handlers that change what it reads never leave two
\* players marked as the winner.
THEOREM OneLeader == Spec => []AtMostOneLeader
<1>1. Safe => AtMostOneLeader
  BY DEF Safe
<1> QED
  BY <1>1, SpecSafe, PTL

\* update: freezes; _updatedFromServer frees everybody who was frozen, though
\* the scene and its objects may have been replaced in between.
THEOREM NobodyLeftFrozen == Spec => []FrozenOnlyWhileConnecting
<1>1. Safe => FrozenOnlyWhileConnecting
  BY DEF Safe
<1> QED
  BY <1>1, SpecSafe, PTL

\* gameState is jumping or fighting only in the scene of that name.
THEOREM SceneAgrees == Spec => []StateMatchesScene
<1>1. Safe => StateMatchesScene
  BY DEF Safe
<1> QED
  BY <1>1, SpecSafe, PTL

\* One step cannot touch a result that has been shown: every packet handler
\* needs the connection, which the handler of the result has closed.
LEMMA ResultStep ==
    ASSUME Safe, [Next]_vars, shownResult.shown
    PROVE  shownResult' = shownResult /\ gameState' \in {"gameOver", "disconnected"}
<1>1. ~connected /\ gameState \in {"gameOver", "disconnected"}
  BY DEF Safe, ResultClosesConnection
<1>2. CASE UNCHANGED vars
  BY <1>1, <1>2 DEF vars
<1>3. CASE \E id \in PlayerIds : StartWithPlayerId(id)
  BY <1>1, <1>3 DEF StartWithPlayerId, Receiving
<1>4. CASE Quit \/ Disconnect
  BY <1>1, <1>4 DEF Quit, Disconnect
<1>5. CASE Update
  BY <1>1, <1>5 DEF Update, Frozen
<1>6. CASE \/ \E list \in Announcements : HandleConnectedPlayers(list)
           \/ \E id \in PlayerIds : HandleDisconnectedPlayer(id)
           \/ HandleCountdownToGame
           \/ \E listed \in SUBSET PlayerIds : \E paused \in SUBSET listed :
                 HandleJumpInfo(listed, paused)
           \/ \E listed \in SUBSET PlayerIds : \E paused \in SUBSET listed :
                 \E time \in [listed -> Times] : HandleFightInfo(listed, paused, time)
           \/ \E listed \in SUBSET PlayerIds : \E winner \in listed \cup {NoPlayer} :
                 \E time \in [listed -> Times] : HandleGameOverInfo(listed, time, winner)
           \/ HandleServerDisconnectedEvent
  <2>1. Receiving
    BY <1>6 DEF HandleConnectedPlayers, HandleDisconnectedPlayer, HandleCountdownToGame,
         HandleJumpInfo, HandleFightInfo, HandleGameOverInfo, HandleServerDisconnectedEvent
  <2> QED
    BY <1>1, <2>1 DEF Receiving
<1> QED
  BY <1>2, <1>3, <1>4, <1>5, <1>6 DEF Next

\* The result the user sees is the one the server sent first, and the game
\* does not come back to life behind it.
THEOREM ResultStays == Spec => ResultIsFinal
<1>1. Safe /\ [Next]_vars =>
         [shownResult.shown => /\ shownResult' = shownResult
                               /\ gameState' \in {"gameOver", "disconnected"}]_vars
  BY ResultStep
<1> QED
  BY <1>1, SpecSafe, PTL DEF Spec, ResultIsFinal

-----------------------------------------------------------------------------
(* The objects of the scene.                                                *)

\* Fighters are on the platform only, and nobody is anywhere who is not on the board.
ObjectsOK ==
    /\ sceneType # "fight" => \A p \in DOMAIN players : players[p].kind = "jump"
    /\ gameState = "none" => sceneType # "fight"
    /\ DOMAIN players \subseteq DOMAIN playerInfos

\* A scene without objects holds none of the wrong kind.
LEMMA EmptyScene == players' = NoPlayers /\ gameState' # "none" => ObjectsOK'
<1>1. DOMAIN NoPlayers = {}
  BY DEF NoPlayers
<1> QED
  BY <1>1 DEF ObjectsOK

\* Both infos fill the scene they are about, and leave the other one as it is.
LEMMA SynchronizedObjects ==
    ASSUME ObjectsOK, NEW kind \in {"jump", "fight"}, NEW listed, NEW paused,
           NEW playing \in {"jumping", "fighting"}, listed \subseteq DOMAIN playerInfos, DOMAIN playerInfos' = DOMAIN playerInfos,
           SynchronizeScene(kind, listed, paused, playing)
    PROVE  ObjectsOK'
<1>1. sceneType' = SceneFor(kind, listed)
  BY DEF SynchronizeScene
<1>2. CASE SceneFor(kind, listed) = kind
  <2>1. players' = [p \in listed |-> [kind |-> kind, isPaused |-> p \in paused,
                                       isFrozen |-> StillFrozen(PlayersKept(kind, listed), p)]]
    BY <1>2 DEF SynchronizeScene
  <2>2. gameState' # "none"
    BY <1>2 DEF SynchronizeScene
  <2>3. DOMAIN players' = listed /\ \A p \in DOMAIN players' : players'[p].kind = kind
    BY <2>1
  <2> QED
    BY <1>1, <1>2, <2>2, <2>3 DEF ObjectsOK
<1>3. CASE SceneFor(kind, listed) # kind
  <2>1. UNCHANGED <<players, gameState>> /\ sceneType' = sceneType
    BY <1>1, <1>3 DEF SynchronizeScene, SceneFor
  <2> QED
    BY <2>1 DEF ObjectsOK
<1> QED
  BY <1>2, <1>3

\* One case for each action of Next.
LEMMA NextObjects == Safe /\ ObjectsOK /\ [Next]_vars => ObjectsOK'
<1> SUFFICES ASSUME Safe, ObjectsOK, [Next]_vars PROVE ObjectsOK'
  OBVIOUS
<1>1. CASE UNCHANGED <<sceneType, gameState, players, playerInfos>>
  BY <1>1 DEF ObjectsOK
<1>2. ASSUME NEW why, Fail(why)
      PROVE  ObjectsOK'
  BY <1>1, <1>2 DEF Fail
<1>3. ASSUME NEW id, StartWithPlayerId(id) \/ Quit \/ Disconnect
      PROVE  ObjectsOK'
  BY <1>3, EmptyScene DEF StartWithPlayerId, Quit, Disconnect, ObjectsOK
<1>4. CASE Update
  <2>1. UNCHANGED <<sceneType, gameState, playerInfos>> /\ DOMAIN players' = DOMAIN players
    BY <1>4 DEF Update
  <2>2. ASSUME NEW p \in DOMAIN players
        PROVE  players'[p].kind = players[p].kind
    <3>1. players[p] \in Player
      BY DEF Safe, TypeOK, IsPartialFunction
    <3>2. Frozen(players[p]).kind = players[p].kind
      BY <3>1 DEF Frozen, Player
    <3> QED
      BY <1>4, <3>2 DEF Update
  <2> QED
    BY <2>1, <2>2 DEF ObjectsOK
<1>5. ASSUME NEW list, HandleConnectedPlayers(list)
      PROVE  ObjectsOK'
  <2> DEFINE new == IdsIn(list) \ DOMAIN playerInfos
  <2>1. /\ UNCHANGED <<sceneType, gameState>>
        /\ players' = [p \in DOMAIN players \cup new |->
                          IF p \in new THEN NewPlayer("jump") ELSE players[p]]
    BY <1>5 DEF HandleConnectedPlayers
  <2>2. DOMAIN playerInfos' = DOMAIN playerInfos \cup new
    BY <1>5 DEF HandleConnectedPlayers, DetectLider
  <2>3. NewPlayer("jump").kind = "jump"
    BY DEF NewPlayer
  <2>4. DOMAIN players' = DOMAIN players \cup new
    BY <2>1
  <2>5. \A p \in DOMAIN players' :
            players'[p].kind = IF p \in new THEN "jump" ELSE players[p].kind
    BY <2>1, <2>3
  <2> HIDE DEF new
  <2> QED
    BY <2>1, <2>2, <2>4, <2>5 DEF ObjectsOK
<1>6. ASSUME NEW id, HandleDisconnectedPlayer(id)
      PROVE  ObjectsOK'
  <2>1. CASE UNCHANGED vars
    BY <1>1, <2>1 DEF vars
  <2>2. CASE StopAndWaitDisconnection
    BY <2>2, EmptyScene DEF StopAndWaitDisconnection
  <2>3. CASE /\ UNCHANGED <<sceneType, gameState>>
             /\ playerInfos' = [p \in DOMAIN playerInfos \ {id} |->
                                   [playerInfos[p] EXCEPT !.ahead = @ \ {id}]]
             /\ players' = [p \in DOMAIN players \ {id} |-> players[p]]
    BY <2>3 DEF ObjectsOK
  <2>4. CASE /\ UNCHANGED <<sceneType, gameState, players>>
             /\ playerInfos' = DetectLider([playerInfos EXCEPT ![id].isDisconnected = TRUE],
                                           DOMAIN playerInfos)
    <3>1. DOMAIN playerInfos' = DOMAIN playerInfos
      BY <2>4 DEF DetectLider
    <3> QED
      BY <2>4, <3>1 DEF ObjectsOK
  <2> QED
    BY <1>6, <2>1, <2>2, <2>3, <2>4 DEF HandleDisconnectedPlayer
<1>7. CASE HandleCountdownToGame
  BY <1>7 DEF HandleCountdownToGame, ObjectsOK
<1>8. ASSUME NEW listed, NEW paused, HandleJumpInfo(listed, paused)
      PROVE  ObjectsOK'
  <2>1. CASE UNCHANGED vars
    BY <1>1, <2>1 DEF vars
  <2>2. CASE /\ ~UnknownPlayer(listed)
             /\ playerInfos' = WithPaused(playerInfos, listed, paused)
             /\ SynchronizeScene("jump", listed, paused, "jumping")
    BY <2>2, SynchronizedObjects DEF UnknownPlayer, WithPaused
  <2> QED
    BY <1>2, <1>8, <2>1, <2>2 DEF HandleJumpInfo
<1>9. ASSUME NEW listed, NEW paused, NEW time, HandleFightInfo(listed, paused, time)
      PROVE  ObjectsOK'
  <2>1. CASE UNCHANGED vars
    BY <1>1, <2>1 DEF vars
  <2>2. CASE ~UnknownPlayer(listed) /\ SynchronizeScene("fight", listed, paused, "fighting")
    <3>1. DOMAIN playerInfos' = DOMAIN playerInfos
      BY <1>9, <2>2 DEF HandleFightInfo, DetectLider, WithPaused, Fail, vars
    <3> QED
      BY <2>2, <3>1, SynchronizedObjects DEF UnknownPlayer
  <2> QED
    BY <1>2, <1>9, <2>1, <2>2 DEF HandleFightInfo
<1>10. ASSUME NEW listed, NEW time, NEW winner, HandleGameOverInfo(listed, time, winner)
       PROVE  ObjectsOK'
  BY <1>2, <1>10, EmptyScene DEF HandleGameOverInfo
<1>11. CASE HandleServerDisconnectedEvent
  BY <1>11, EmptyScene DEF HandleServerDisconnectedEvent, StopAndWaitDisconnection
<1>12. CASE UNCHANGED vars
  BY <1>1, <1>12 DEF vars
<1> QED
  BY <1>3, <1>4, <1>5, <1>6, <1>7, <1>8, <1>9, <1>10, <1>11, <1>12 DEF Next

LEMMA SpecObjects == Spec => []ObjectsOK
<1>1. Init => ObjectsOK
  BY DEF Init, ObjectsOK, NoPlayers
<1> QED
  BY <1>1, NextObjects, SpecSafe, PTL DEF Spec

\* Whatever the server sends, the hill holds jumpers only and everybody on a scene is
\* on the board.  SceneHoldsOneKind can fail in one way: an announcement that finds the
\* client on the platform.
THEOREM FightersOnPlatformOnly == Spec => []ObjectsOK
BY SpecObjects

\* So an object is mistaken for one of the other class in one way only: a jumper, on the
\* platform, for a fighter.  No jump info does it, and no change of the scene.
THEOREM OnlyFightersMistaken ==
    Spec => [][failure' = "wrongClass" /\ failure # "wrongClass" => sceneType = "fight"]_vars
<1>1. ASSUME ObjectsOK, [Next]_vars, failure' = "wrongClass", failure # "wrongClass"
      PROVE  sceneType = "fight"
  <2>1. ASSUME NEW kind \in {"jump", "fight"}, NEW listed, WrongClass(kind, listed)
        PROVE  sceneType = "fight"
    <3>1. DOMAIN NoPlayers = {}
      BY DEF NoPlayers
    <3>2. PICK p \in listed \cap DOMAIN PlayersKept(kind, listed) : players[p].kind # kind
      BY <2>1 DEF WrongClass
    <3>3. SceneFor(kind, listed) = sceneType /\ PlayersKept(kind, listed) = players
      BY <3>1, <3>2 DEF PlayersKept
    <3>4. sceneType = kind
      BY <2>1, <3>3 DEF WrongClass
    <3>5. p \in DOMAIN players
      BY <3>2, <3>3
    <3> QED
      BY <1>1, <3>2, <3>4, <3>5 DEF ObjectsOK
  <2>2. PICK listed, paused, time :
            HandleJumpInfo(listed, paused) \/ HandleFightInfo(listed, paused, time)
    BY <1>1
       DEF Next, StartWithPlayerId, Quit, Disconnect, Update, HandleConnectedPlayers,
           HandleDisconnectedPlayer, StopAndWaitDisconnection, HandleCountdownToGame,
           HandleGameOverInfo, HandleServerDisconnectedEvent, Fail, vars
  <2>3. WrongClass("jump", listed) \/ WrongClass("fight", listed)
    BY <1>1, <2>2 DEF HandleJumpInfo, HandleFightInfo, Fail, SynchronizeScene, vars
  <2> QED
    BY <2>1, <2>3
<1> QED
  BY <1>1, SpecObjects, PTL DEF Spec

=============================================================================
