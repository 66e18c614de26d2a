-------------------------- MODULE GameMatch_proofs --------------------------
(***************************************************************************)
(* What holds of a client and a server that keeps its order, for every      *)
(* number of players, every capacity of the room and of the inbox.          *)
(*                                                                         *)
(* Every step of a match is a step of the controller, so what was proved    *)
(* for any server holds of this one.  The rest needs to know what may still *)
(* be in the inbox: an info or a result only once the room is that far, and *)
(* nothing behind the last word of the server but the loss of the           *)
(* connection.                                                              *)
(***************************************************************************)
EXTENDS GameMatch, GameController_proofs, SequenceTheorems

\* The packets, by their fields.
Signals         == [type: {"connectToRoom", "countdownToGame", "connectionLost"}]
WaitingLists    == [type: {"waitingPlayers"}, list: Announcements]
Departures      == [type: {"playerDisconnected"}, id: PlayerIds]
JumpInfos       == [type: {"jumpInfo"}, listed: SUBSET PlayerIds]
FightInfosOf(S) == [type: {"fightInfo"}, listed: {S}, time: [S -> Times]]
ResultsOf(S)    == [type: {"gameOver"}, time: [S -> Times], winner: S \cup {NoPlayer}]

Packets ==
    Signals \cup WaitingLists \cup Departures \cup JumpInfos
    \cup (UNION {FightInfosOf(S) : S \in SUBSET PlayerIds})
    \cup (UNION {ResultsOf(S) : S \in SUBSET PlayerIds})

\* A packet has the fields of its type.
LEMMA PacketFields ==
    ASSUME NEW k \in Packets
    PROVE  /\ k.type = "waitingPlayers" => k.list \in Announcements
           /\ k.type = "playerDisconnected" => k.id \in PlayerIds
           /\ k.type = "jumpInfo" => k.listed \in SUBSET PlayerIds
           /\ k.type = "fightInfo" =>
                 k.listed \in SUBSET PlayerIds /\ k.time \in [k.listed -> Times]
           /\ k.type = "gameOver" =>
                 \E S \in SUBSET PlayerIds : k.time \in [S -> Times] /\ k.winner \in S \cup {NoPlayer}
<1>1. ASSUME k \in Signals
      PROVE  k.type \in {"connectToRoom", "countdownToGame", "connectionLost"}
  BY <1>1 DEF Signals
<1>2. ASSUME k \in WaitingLists
      PROVE  k.type = "waitingPlayers" /\ k.list \in Announcements
  BY <1>2 DEF WaitingLists
<1>3. ASSUME k \in Departures
      PROVE  k.type = "playerDisconnected" /\ k.id \in PlayerIds
  BY <1>3 DEF Departures
<1>4. ASSUME k \in JumpInfos
      PROVE  k.type = "jumpInfo" /\ k.listed \in SUBSET PlayerIds
  BY <1>4 DEF JumpInfos
<1>5. ASSUME NEW S \in SUBSET PlayerIds,
             k \in FightInfosOf(S)
      PROVE  /\ k.type = "fightInfo"
             /\ k.listed \in SUBSET PlayerIds /\ k.time \in [k.listed -> Times]
  BY <1>5 DEF FightInfosOf
<1>6. ASSUME NEW S \in SUBSET PlayerIds,
             k \in ResultsOf(S)
      PROVE  /\ k.type = "gameOver"
             /\ k.time \in [S -> Times] /\ k.winner \in S \cup {NoPlayer}
  BY <1>6 DEF ResultsOf
<1>7. \/ k \in Signals
      \/ k \in WaitingLists
      \/ k \in Departures
      \/ k \in JumpInfos
      \/ \E S \in SUBSET PlayerIds : k \in FightInfosOf(S)
      \/ \E S \in SUBSET PlayerIds : k \in ResultsOf(S)
  BY DEF Packets
<1>8. CASE \/ k \in Signals
           \/ k \in WaitingLists
           \/ k \in Departures
           \/ k \in JumpInfos
  BY <1>1, <1>2, <1>3, <1>4, <1>8
<1>9. CASE \E S \in SUBSET PlayerIds : k \in FightInfosOf(S)
  BY <1>5, <1>9
<1>10. CASE \E S \in SUBSET PlayerIds : k \in ResultsOf(S)
  BY <1>6, <1>10
<1> QED
  BY <1>7, <1>8, <1>9, <1>10

\* The last thing a server says to a client, and what RakNet says for it.
IsLastWord(packet) ==
    \/ packet.type \in {"gameOver", "connectionLost"}
    \/ packet.type = "playerDisconnected" /\ packet.id = Local

\* What a packet under way says of the server as it is now.
IsTrue(packet) ==
    /\ packet.type = "countdownToGame" => phase # "waiting"
    /\ packet.type \in {"jumpInfo", "fightInfo"} => phase \in {"round", "over"}
    /\ packet.type = "gameOver" => phase = "over" /\ packet.winner = verdict
    /\ IsLastWord(packet) => silent

\* The queue: true packets, closed by the last word, gone with the connection.
InboxOK ==
    /\ inbox \in Seq(Packets)
    /\ \A i \in 1..Len(inbox) : IsTrue(inbox[i])
    /\ \A i, j \in 1..Len(inbox) :
          i < j /\ IsLastWord(inbox[i]) => inbox[j].type = "connectionLost"
    /\ ~connected => inbox = <<>>

\* A client that has not been told of its room yet has that packet first.
EnteringOK ==
    gameState = "none" =>
        /\ connected /\ ~quitPending /\ sceneType = "none"
        /\ inbox # <<>> /\ inbox[1].type = "connectToRoom"

\* Where a game has ended without the user, nothing that follows restarts it.
EndedOK ==
    /\ gameState = "gameOver" => ~connected
    /\ gameState = "waitDisconnection" =>
          silent /\ \A i \in 1..Len(inbox) : inbox[i].type = "connectionLost"

\* The local player is Local, from the room's answer on.
LocalOK ==
    /\ localPlayerId \in {Local, NoPlayer}
    /\ \A p \in DOMAIN playerInfos : playerInfos[p].isLocalPlayer => p = Local

MatchSafe == Safe /\ MatchTypeOK /\ InboxOK /\ EnteringOK /\ EndedOK /\ LocalOK

-----------------------------------------------------------------------------
(* The room.                                                                *)

\* Taking one place out of a room leaves a room of the others.
LEMMA RemoveAtRoom ==
    ASSUME NEW S, NEW s \in Seq(S), IsInjective(s), NEW k \in DOMAIN s
    PROVE  /\ RemoveAt(s, k) \in Seq(S)
           /\ IsInjective(RemoveAt(s, k))
           /\ Range(RemoveAt(s, k)) = Range(s) \ {s[k]}
<1> DEFINE n == Len(s)  a == SubSeq(s, 1, k - 1)  b == SubSeq(s, k + 1, n)  r == RemoveAt(s, k)
<1>1. n \in Nat /\ DOMAIN s = 1..n /\ k \in 1..n /\ \A i \in 1..n : s[i] \in S
  BY LenProperties, ElementOfSeq
<1>2. a \in Seq(S) /\ Len(a) = k - 1 /\ \A i \in 1..(k - 1) : a[i] = s[i]
  <2>1. \A i \in 1..(k - 1) : s[i] \in S
    BY <1>1
  <2>2. 1 \in Int /\ k - 1 \in Int
    BY <1>1
  <2>3. /\ a \in Seq(S)
        /\ Len(a) = IF 1 <= k - 1 THEN (k - 1) - 1 + 1 ELSE 0
        /\ \A i \in 1..((k - 1) - 1 + 1) : a[i] = s[1 + i - 1]
    BY <2>1, <2>2, SubSeqProperties
  <2> QED
    BY <1>1, <2>3
<1>3. b \in Seq(S) /\ Len(b) = n - k /\ \A i \in 1..(n - k) : b[i] = s[k + i]
  <2>1. \A i \in (k + 1)..n : s[i] \in S
    BY <1>1
  <2>2. k + 1 \in Int /\ n \in Int
    BY <1>1
  <2>3. /\ b \in Seq(S)
        /\ Len(b) = IF k + 1 <= n THEN n - (k + 1) + 1 ELSE 0
        /\ \A i \in 1..(n - (k + 1) + 1) : b[i] = s[(k + 1) + i - 1]
    BY <2>1, <2>2, SubSeqProperties
  <2>4. n - (k + 1) + 1 = n - k /\ \A i \in Int : (k + 1) + i - 1 = k + i
    BY <1>1
  <2>5. Len(b) = n - k
    BY <1>1, <2>3
  <2>6. \A i \in 1..(n - k) : b[i] = s[k + i]
    <3> SUFFICES ASSUME NEW i \in 1..(n - k) PROVE b[i] = s[k + i]
      OBVIOUS
    <3>1. i \in 1..(n - (k + 1) + 1) /\ (k + 1) + i - 1 = k + i
      BY <1>1
    <3>2. b[i] = s[(k + 1) + i - 1]
      BY <2>3, <3>1
    <3> QED
      BY <3>1, <3>2
  <2> QED
    BY <2>3, <2>5, <2>6
<1>4. r = a \o b
  BY DEF RemoveAt
<1> HIDE DEF a, b, r
<1>5. /\ r \in Seq(S) /\ Len(r) = n - 1
      /\ \A i \in 1..(n - 1) : r[i] = IF i < k THEN s[i] ELSE s[i + 1]
  <2>1. /\ r \in Seq(S) /\ Len(r) = Len(a) + Len(b)
        /\ \A i \in 1..(Len(a) + Len(b)) : r[i] = IF i <= Len(a) THEN a[i] ELSE b[i - Len(a)]
    BY <1>2, <1>3, <1>4, ConcatProperties
  <2>2. Len(a) = k - 1 /\ Len(a) + Len(b) = n - 1 /\ Len(r) = n - 1
    BY <1>1, <1>2, <1>3, <2>1
  <2>3. \A i \in 1..(n - 1) : r[i] = IF i < k THEN s[i] ELSE s[i + 1]
    <3> SUFFICES ASSUME NEW i \in 1..(n - 1)
                 PROVE  r[i] = IF i < k THEN s[i] ELSE s[i + 1]
      OBVIOUS
    <3>1. r[i] = IF i <= k - 1 THEN a[i] ELSE b[i - (k - 1)]
      BY <2>1, <2>2
    <3>2. CASE i < k
      <4>1. i <= k - 1 /\ i \in 1..(k - 1)
        BY <1>1, <3>2
      <4> QED
        BY <1>2, <3>1, <3>2, <4>1
    <3>3. CASE ~(i < k)
      <4>1. ~(i <= k - 1) /\ i - (k - 1) \in 1..(n - k) /\ k + (i - (k - 1)) = i + 1
        BY <1>1, <3>3
      <4>2. b[i - (k - 1)] = s[k + (i - (k - 1))]
        BY <1>3, <4>1
      <4> QED
        BY <3>1, <3>3, <4>1, <4>2
    <3> QED
      BY <3>2, <3>3
  <2> QED
    BY <2>1, <2>2, <2>3
<1>6. DOMAIN r = 1..(n - 1)
  BY <1>5, LenProperties
<1>7. IsInjective(r)
  BY <1>1, <1>5, <1>6 DEF IsInjective
<1>8. \A i \in 1..n : i # k => \E j \in 1..(n - 1) : r[j] = s[i]
  <2> SUFFICES ASSUME NEW i \in 1..n, i # k
               PROVE  \E j \in 1..(n - 1) : r[j] = s[i]
    OBVIOUS
  <2>1. CASE i < k
    BY <1>1, <1>5, <2>1
  <2>2. CASE i > k
    <3>1. i - 1 \in 1..(n - 1) /\ ~(i - 1 < k) /\ (i - 1) + 1 = i
      BY <1>1, <2>2
    <3>2. r[i - 1] = s[i]
      BY <1>5, <3>1
    <3> QED
      BY <3>1, <3>2
  <2> QED
    BY <1>1, <2>1, <2>2
<1>9. \A j \in 1..(n - 1) : \E i \in 1..n : i # k /\ r[j] = s[i]
  BY <1>1, <1>5
<1>10. Range(r) = Range(s) \ {s[k]}
  <2>1. Range(r) = {r[j] : j \in 1..(n - 1)} /\ Range(s) = {s[i] : i \in 1..n}
    BY <1>1, <1>6 DEF Range
  <2>2. \A i \in 1..n : i # k => s[i] # s[k]
    BY <1>1 DEF IsInjective
  <2>3. ASSUME NEW x \in Range(r) PROVE x \in Range(s) \ {s[k]}
    BY <1>9, <2>1, <2>2
  <2>4. ASSUME NEW x \in Range(s) \ {s[k]} PROVE x \in Range(r)
    <3>1. PICK i \in 1..n : x = s[i]
      BY <2>1
    <3>2. i # k
      BY <3>1
    <3> QED
      BY <1>8, <2>1, <3>1, <3>2
  <2> QED
    BY <2>3, <2>4
<1> QED
  BY <1>5, <1>7, <1>10 DEF r

\* A player of the room has a place in it.
LEMMA PlaceInRoom ==
    ASSUME NEW s, NEW p \in Range(s)
    PROVE  PlaceIn(s, p) \in DOMAIN s /\ s[PlaceIn(s, p)] = p
BY DEF PlaceIn, Range

-----------------------------------------------------------------------------
(* Every step of a match is a step of the controller.                       *)

\* The winner a server names is on its list, unless there is none.
LEMMA WinnerIsListed ==
    ASSUME NEW S
    PROVE  Winner(S) \in S \cup {NoPlayer}
<1> DEFINE best == {p \in S : score[p] > 0 /\ \A q \in S \ {p} : score[q] < score[p]}
<1>1. best # {} => (CHOOSE p \in best : TRUE) \in best
  OBVIOUS
<1>2. best \subseteq S
  OBVIOUS
<1>3. Winner(S) = IF best = {} THEN NoPlayer ELSE CHOOSE p \in best : TRUE
  BY DEF Winner
<1> QED
  BY <1>1, <1>2, <1>3

\* Whatever packet is delivered, its handler is one of the controller.
LEMMA DeliverIsStep == MatchSafe /\ Deliver => Next
<1> SUFFICES ASSUME MatchSafe, Deliver PROVE Next
  OBVIOUS
<1> DEFINE packet == Head(inbox)
<1>1. packet \in Packets
  BY HeadTailProperties DEF MatchSafe, InboxOK, Deliver
<1>2. CASE packet.type = "connectToRoom" /\ StartWithPlayerId(Local)
  BY <1>2, LocalAssumption DEF Next
<1>3. CASE packet.type = "waitingPlayers" /\ HandleConnectedPlayers(packet.list)
  <2>1. packet.list \in Announcements
    BY <1>1, <1>3, PacketFields
  <2> QED
    BY <1>3, <2>1 DEF Next
<1>4. CASE packet.type = "playerDisconnected" /\ HandleDisconnectedPlayer(packet.id)
  <2>1. packet.id \in PlayerIds
    BY <1>1, <1>4, PacketFields
  <2> QED
    BY <1>4, <2>1 DEF Next
<1>5. CASE packet.type = "countdownToGame" /\ HandleCountdownToGame
  BY <1>5 DEF Next
<1>6. CASE packet.type = "jumpInfo" /\ HandleJumpInfo(packet.listed, {})
  <2>1. packet.listed \in SUBSET PlayerIds /\ {} \in SUBSET packet.listed
    BY <1>1, <1>6, PacketFields
  <2> QED
    BY <1>6, <2>1 DEF Next
<1>7. CASE packet.type = "fightInfo" /\ HandleFightInfo(packet.listed, {}, packet.time)
  <2>1. /\ packet.listed \in SUBSET PlayerIds /\ {} \in SUBSET packet.listed
        /\ packet.time \in [packet.listed -> Times]
    BY <1>1, <1>7, PacketFields
  <2> QED
    BY <1>7, <2>1 DEF Next
<1>8. CASE /\ packet.type = "gameOver"
           /\ HandleGameOverInfo(DOMAIN packet.time, packet.time, packet.winner)
  <2>1. PICK S \in SUBSET PlayerIds : packet.time \in [S -> Times] /\ packet.winner \in S \cup {NoPlayer}
    BY <1>1, <1>8, PacketFields
  <2>2. DOMAIN packet.time = S
    BY <2>1
  <2> QED
    BY <1>8, <2>1, <2>2 DEF Next
<1>9. CASE packet.type = "connectionLost" /\ HandleServerDisconnectedEvent
  BY <1>9 DEF Next
<1> QED
  BY <1>2, <1>3, <1>4, <1>5, <1>6, <1>7, <1>8, <1>9 DEF Deliver

\* The server touches nothing of the client.
ServerStep ==
    \/ \E p \in PlayerIds : Join(p) \/ Leave(p) \/ Return(p) \/ ChangeScene(p) \/ HoldPlatform(p)
    \/ StartCountdown \/ StartRound \/ SendJumpInfo \/ SendFightInfo \/ SendGameOver
    \/ Expel \/ LoseConnection

LEMMA ServerStepIsStutter == ServerStep => UNCHANGED vars
BY DEF ServerStep, Join, Leave, Return, ChangeScene, HoldPlatform, StartCountdown, StartRound,
       SendJumpInfo, SendFightInfo, SendGameOver, Expel, LoseConnection

\* A match is a game with a server that happens to keep its order.
LEMMA MatchStepIsStep == MatchSafe /\ [MatchNext]_matchVars => [Next]_vars
<1> SUFFICES ASSUME MatchSafe, [MatchNext]_matchVars PROVE [Next]_vars
  OBVIOUS
<1>1. CASE ServerStep
  BY <1>1, ServerStepIsStutter
<1>2. CASE Deliver
  BY <1>2, DeliverIsStep
<1>3. CASE MatchQuit \/ MatchUpdate \/ MatchDisconnect
  BY <1>3 DEF MatchQuit, MatchUpdate, MatchDisconnect, Next
<1>4. CASE UNCHANGED matchVars
  BY <1>4 DEF matchVars
<1> QED
  BY <1>1, <1>2, <1>3, <1>4 DEF MatchNext, ServerStep

-----------------------------------------------------------------------------
(* The initial state.                                                       *)

\* The two packets that answer a room request are all that is under way.
LEMMA InitMatchSafe == MatchInit => MatchSafe
<1> SUFFICES ASSUME MatchInit PROVE MatchSafe
  OBVIOUS
<1>1. Safe
  BY InitSafe DEF MatchInit
<1>2. MatchTypeOK
  <2>1. room \in Seq(PlayerIds) /\ IsInjective(room)
    <3>1. PICK n \in 1..RoomCapacity : room \in {s \in [1..n -> PlayerIds] : IsInjective(s)}
      BY DEF MatchInit, Rooms
    <3>2. n \in Nat /\ room \in [1..n -> PlayerIds]
      BY <3>1, RoomAssumption, BoundsAssumption
    <3> QED
      BY <3>1, <3>2, SeqDef
  <2>2. online \subseteq Range(room)
    BY DEF MatchInit
  <2>3. /\ phase \in Phases /\ scene \in [PlayerIds -> {"jump", "fight"}]
        /\ verdict \in PlayerIds \cup {NoPlayer} /\ silent \in BOOLEAN
    BY DEF MatchInit, Phases
  <2>4. score \in [PlayerIds -> Times]
    BY BoundsAssumption DEF MatchInit, Times
  <2> QED
    BY <1>1, <2>1, <2>2, <2>3, <2>4 DEF Safe, MatchTypeOK
<1>3. PICK list \in Announcements :
          inbox = <<[type |-> "connectToRoom"], [type |-> "waitingPlayers", list |-> list]>>
  BY DEF MatchInit
<1>4. /\ [type |-> "connectToRoom"] \in Packets
      /\ [type |-> "waitingPlayers", list |-> list] \in Packets
  BY DEF Packets, Signals, WaitingLists
<1>5. /\ inbox \in Seq(Packets) /\ Len(inbox) = 2
      /\ inbox[1] = [type |-> "connectToRoom"]
      /\ inbox[2] = [type |-> "waitingPlayers", list |-> list]
  BY <1>3, <1>4
<1>6. \A i \in 1..2 : IsTrue(inbox[i]) /\ ~IsLastWord(inbox[i])
  BY <1>5 DEF IsTrue, IsLastWord
<1>7. connected /\ ~quitPending /\ sceneType = "none" /\ gameState = "none"
  BY DEF MatchInit, Init
<1>8. InboxOK /\ EnteringOK /\ EndedOK
  BY <1>5, <1>6, <1>7 DEF InboxOK, EnteringOK, EndedOK
<1>9. LocalOK
  BY DEF MatchInit, Init, LocalOK
<1> QED
  BY <1>1, <1>2, <1>8, <1>9 DEF MatchSafe

-----------------------------------------------------------------------------
(* The server.                                                              *)

\* The room goes forward, and what was said stays true.
Forward ==
    /\ phase # "waiting" => phase' # "waiting"
    /\ phase \in {"round", "over"} => phase' \in {"round", "over"}
    /\ phase = "over" => phase' = "over" /\ verdict' = verdict
    /\ silent => silent'

\* Sending a packet keeps the queue in order.
LEMMA SendSafe ==
    ASSUME MatchSafe, UNCHANGED vars, MatchTypeOK', Forward, connected,
           NEW packet \in Packets, Send(packet), IsTrue(packet)',
           ~silent \/ packet.type = "connectionLost"
    PROVE  MatchSafe'
<1>1. Safe'
  BY StutterSafe DEF MatchSafe
<1>2. inbox \in Seq(Packets) /\ Len(inbox) \in Nat
  BY LenProperties DEF MatchSafe, InboxOK
<1>3. /\ inbox' \in Seq(Packets) /\ Len(inbox') = Len(inbox) + 1
      /\ \A i \in 1..Len(inbox) : inbox'[i] = inbox[i]
      /\ inbox'[Len(inbox) + 1] = packet
  BY <1>2, AppendProperties DEF Send
<1>4. \A i \in 1..Len(inbox') : i \in 1..Len(inbox) \/ (i = Len(inbox) + 1 /\ inbox'[i] = packet)
  BY <1>2, <1>3
<1>5. \A i \in 1..Len(inbox) : IsTrue(inbox[i])
  BY DEF MatchSafe, InboxOK
<1>6. \A i \in 1..Len(inbox') : IsTrue(inbox[i])'
  <2> SUFFICES ASSUME NEW i \in 1..Len(inbox') PROVE IsTrue(inbox[i])'
    OBVIOUS
  <2>1. CASE i \in 1..Len(inbox)
    BY <1>3, <1>5, <2>1 DEF IsTrue, IsLastWord, Forward
  <2>2. CASE inbox'[i] = packet
    BY <2>2 DEF IsTrue, IsLastWord
  <2> QED
    BY <1>4, <2>1, <2>2
<1>7. \A i, j \in 1..Len(inbox') :
          i < j /\ IsLastWord(inbox[i])' => inbox'[j].type = "connectionLost"
  <2> SUFFICES ASSUME NEW i \in 1..Len(inbox'), NEW j \in 1..Len(inbox'),
                      i < j, IsLastWord(inbox[i])'
               PROVE  inbox'[j].type = "connectionLost"
    OBVIOUS
  <2>1. i \in 1..Len(inbox) /\ inbox'[i] = inbox[i]
    BY <1>2, <1>3
  <2>2. IsLastWord(inbox[i]) /\ silent
    BY <1>5, <2>1 DEF IsTrue, IsLastWord
  <2>3. CASE j \in 1..Len(inbox)
    BY <1>3, <2>1, <2>2, <2>3 DEF MatchSafe, InboxOK
  <2>4. CASE inbox'[j] = packet
    BY <2>2, <2>4
  <2> QED
    BY <1>4, <2>3, <2>4
<1>8. connected' /\ gameState' = gameState /\ sceneType' = sceneType /\ quitPending' = quitPending
      /\ localPlayerId' = localPlayerId /\ playerInfos' = playerInfos
  BY DEF vars
<1>9. InboxOK'
  BY <1>3, <1>6, <1>7, <1>8 DEF InboxOK
<1>10. EnteringOK'
  <2> SUFFICES ASSUME gameState' = "none" PROVE EnteringOK'
    BY DEF EnteringOK
  <2>1. inbox # <<>> /\ inbox[1].type = "connectToRoom" /\ ~quitPending /\ sceneType = "none"
    BY <1>8 DEF MatchSafe, EnteringOK
  <2>2. 1 \in 1..Len(inbox)
    BY <1>2, <2>1, EmptySeq
  <2>3. inbox' # <<>>
    BY <1>2, AppendProperties DEF Send
  <2> QED
    BY <1>3, <1>8, <2>1, <2>2, <2>3 DEF EnteringOK
<1>11. EndedOK'
  BY <1>3, <1>4, <1>8 DEF MatchSafe, EndedOK, Forward
<1>12. LocalOK'
  BY <1>8 DEF MatchSafe, LocalOK
<1> QED
  BY <1>1, <1>9, <1>10, <1>11, <1>12 DEF MatchSafe

\* A change the server keeps to itself.
LEMMA QuietSafe ==
    ASSUME MatchSafe, UNCHANGED <<vars, inbox>>, MatchTypeOK', Forward
    PROVE  MatchSafe'
<1>1. Safe'
  BY StutterSafe DEF MatchSafe
<1>2. \A i \in 1..Len(inbox) : IsTrue(inbox[i])'
  BY DEF MatchSafe, InboxOK, IsTrue, IsLastWord, Forward
<1>3. InboxOK'
  BY <1>2 DEF MatchSafe, InboxOK, IsLastWord, vars
<1>4. EnteringOK' /\ EndedOK' /\ LocalOK'
  BY DEF MatchSafe, EnteringOK, EndedOK, LocalOK, Forward, vars
<1> QED
  BY <1>1, <1>3, <1>4 DEF MatchSafe

\* A new player, at the end of the room.
LEMMA JoinSafe ==
    ASSUME MatchSafe, NEW p \in PlayerIds, Join(p)
    PROVE  MatchSafe'
<1>1. TypeOK'
  BY StutterSafe DEF MatchSafe, Safe, Join
<1>2. /\ room' \in Seq(PlayerIds) /\ Len(room') = Len(room) + 1
      /\ \A i \in 1..Len(room) : room'[i] = room[i]
      /\ room'[Len(room) + 1] = p
  BY AppendProperties DEF MatchSafe, MatchTypeOK, Join
<1>3. /\ Len(room) \in Nat /\ DOMAIN room = 1..Len(room) /\ DOMAIN room' = 1..(Len(room) + 1)
  BY <1>2, LenProperties DEF MatchSafe, MatchTypeOK
<1>4. \A i \in DOMAIN room' : i \in DOMAIN room \/ (i = Len(room) + 1 /\ room'[i] = p)
  BY <1>2, <1>3
<1>5. IsInjective(room')
  <2>1. \A i \in DOMAIN room : room[i] # p
    BY DEF Join, Range
  <2> QED
    BY <1>2, <1>3, <1>4, <2>1 DEF MatchSafe, MatchTypeOK, IsInjective
<1>6. online' \subseteq Range(room')
  <2>1. \A q \in Range(room) : q \in Range(room')
    BY <1>2, <1>3 DEF Range
  <2>2. p \in Range(room')
    BY <1>2, <1>3 DEF Range
  <2> QED
    BY <2>1, <2>2 DEF MatchSafe, MatchTypeOK, Join
<1>7. MatchTypeOK'
  BY <1>1, <1>2, <1>5, <1>6 DEF MatchSafe, MatchTypeOK, Join
<1>8. PICK list \in Announcements : Send([type |-> "waitingPlayers", list |-> list])
  BY DEF Join, Announce
<1>9. [type |-> "waitingPlayers", list |-> list] \in Packets
  BY DEF Packets, WaitingLists
<1>10. IsTrue([type |-> "waitingPlayers", list |-> list])'
  BY DEF IsTrue, IsLastWord
<1> QED
  BY <1>7, <1>8, <1>9, <1>10, SendSafe DEF Join, MaySend, Speaking, Forward

\* Somebody leaves the room, or only the view.
LEMMA LeaveSafe ==
    ASSUME MatchSafe, NEW p \in PlayerIds, Leave(p)
    PROVE  MatchSafe'
<1>1. TypeOK'
  BY StutterSafe DEF MatchSafe, Safe, Leave
<1>2. p \in Range(room) /\ p # Local
  BY DEF MatchSafe, MatchTypeOK, Leave
<1>3. PlaceIn(room, p) \in DOMAIN room /\ room[PlaceIn(room, p)] = p
  BY <1>2, PlaceInRoom
<1>4. /\ room' \in Seq(PlayerIds) /\ IsInjective(room')
      /\ Range(room) \ {p} \subseteq Range(room')
  <2>1. CASE phase = "waiting"
    <3>1. room' = RemoveAt(room, PlaceIn(room, p))
      BY <2>1 DEF Leave
    <3> QED
      BY <1>3, <3>1, RemoveAtRoom DEF MatchSafe, MatchTypeOK
  <2>2. CASE phase # "waiting"
    BY <2>2 DEF Leave, MatchSafe, MatchTypeOK
  <2> QED
    BY <2>1, <2>2
<1>5. online' \subseteq Range(room')
  BY <1>4 DEF Leave, MatchSafe, MatchTypeOK
<1>6. MatchTypeOK'
  BY <1>1, <1>4, <1>5 DEF MatchSafe, MatchTypeOK, Leave
<1>7. [type |-> "playerDisconnected", id |-> p] \in Packets
  BY DEF Packets, Departures
<1>8. IsTrue([type |-> "playerDisconnected", id |-> p])'
  BY <1>2 DEF IsTrue, IsLastWord
<1> QED
  BY <1>6, <1>7, <1>8, SendSafe DEF Leave, MaySend, Speaking, Forward

LEMMA ReturnSafe ==
    ASSUME MatchSafe, NEW p \in PlayerIds, Return(p)
    PROVE  MatchSafe'
<1>1. MatchTypeOK'
  BY StutterSafe DEF MatchSafe, Safe, MatchTypeOK, Return
<1>2. PICK list \in Announcements : Send([type |-> "waitingPlayers", list |-> list])
  BY DEF Return, Announce
<1>3. [type |-> "waitingPlayers", list |-> list] \in Packets
  BY DEF Packets, WaitingLists
<1>4. IsTrue([type |-> "waitingPlayers", list |-> list])'
  BY DEF IsTrue, IsLastWord
<1> QED
  BY <1>1, <1>2, <1>3, <1>4, SendSafe DEF Return, MaySend, Speaking, Forward

\* The phases of the room, and what it sends while it plays.
LEMMA RoundSafe ==
    ASSUME MatchSafe,
           StartCountdown \/ StartRound \/ SendJumpInfo \/ SendFightInfo
    PROVE  MatchSafe'
<1>1. MatchTypeOK'
  BY StutterSafe
     DEF MatchSafe, Safe, MatchTypeOK, Phases, StartCountdown, StartRound, SendJumpInfo,
         SendFightInfo, serverVars
<1>2. CASE StartCountdown
  <2>1. [type |-> "countdownToGame"] \in Packets
    BY DEF Packets, Signals
  <2>2. IsTrue([type |-> "countdownToGame"])'
    BY <1>2 DEF IsTrue, IsLastWord, StartCountdown
  <2> QED
    BY <1>1, <1>2, <2>1, <2>2, SendSafe DEF StartCountdown, MaySend, Speaking, Forward
<1>3. CASE StartRound
  BY <1>1, <1>3, QuietSafe DEF StartRound, Forward
<1>4. CASE SendJumpInfo
  <2> DEFINE k == [type |-> "jumpInfo", listed |-> PlayersIn("jump")]
  <2>1. PlayersIn("jump") \in SUBSET PlayerIds
    BY RangeOfSeq DEF PlayersIn, MatchSafe, MatchTypeOK
  <2>2. k \in Packets
    BY <2>1 DEF Packets, JumpInfos
  <2>3. k.type = "jumpInfo" /\ Send(k)
    BY <1>4 DEF SendJumpInfo
  <2> HIDE DEF k
  <2>4. PICK packet \in Packets : packet = k
    BY <2>2
  <2>5. IsTrue(packet)'
    BY <1>4, <2>3, <2>4 DEF IsTrue, IsLastWord, SendJumpInfo, serverVars
  <2> QED
    BY <1>1, <1>4, <2>3, <2>4, <2>5, SendSafe
       DEF SendJumpInfo, MaySend, Speaking, Forward, serverVars
<1>5. CASE SendFightInfo
  <2> DEFINE S == PlayersIn("fight")
             k == [type |-> "fightInfo", listed |-> S, time |-> [p \in S |-> score[p]]]
  <2>1. S \in SUBSET PlayerIds
    BY RangeOfSeq DEF PlayersIn, MatchSafe, MatchTypeOK
  <2>2. [p \in S |-> score[p]] \in [S -> Times]
    BY <2>1 DEF MatchSafe, MatchTypeOK
  <2>3. k.type = "fightInfo" /\ Send(k)
    BY <1>5 DEF SendFightInfo
  <2>4. k \in FightInfosOf(S)
    BY <2>2 DEF FightInfosOf
  <2> HIDE DEF k, S
  <2>5. k \in Packets
    BY <2>1, <2>4 DEF Packets
  <2>6. PICK packet \in Packets : packet = k
    BY <2>5
  <2>7. IsTrue(packet)'
    BY <1>5, <2>3, <2>6 DEF IsTrue, IsLastWord, SendFightInfo, serverVars
  <2> QED
    BY <1>1, <1>5, <2>3, <2>6, <2>7, SendSafe
       DEF SendFightInfo, MaySend, Speaking, Forward, serverVars
<1> QED
  BY <1>2, <1>3, <1>4, <1>5

\* Players change scenes and gain time without a packet.
LEMMA PlaySafe ==
    ASSUME MatchSafe, NEW p \in PlayerIds, ChangeScene(p) \/ HoldPlatform(p)
    PROVE  MatchSafe'
<1>1. TypeOK'
  BY StutterSafe DEF MatchSafe, Safe, ChangeScene, HoldPlatform
<1>2. scene' \in [PlayerIds -> {"jump", "fight"}]
  BY DEF MatchSafe, MatchTypeOK, ChangeScene, HoldPlatform
<1>3. score' \in [PlayerIds -> Times]
  <2>1. CASE ChangeScene(p)
    BY <2>1 DEF MatchSafe, MatchTypeOK, ChangeScene
  <2>2. CASE HoldPlatform(p)
    <3>1. score[p] \in Times /\ score[p] < MaxTime
      BY <2>2 DEF MatchSafe, MatchTypeOK, HoldPlatform
    <3>2. score[p] + 1 \in Times
      BY <3>1, BoundsAssumption DEF Times
    <3> QED
      BY <2>2, <3>2 DEF MatchSafe, MatchTypeOK, HoldPlatform
  <2> QED
    BY <2>1, <2>2
<1>4. MatchTypeOK'
  BY <1>1, <1>2, <1>3 DEF MatchSafe, MatchTypeOK, ChangeScene, HoldPlatform
<1> QED
  BY <1>4, QuietSafe DEF ChangeScene, HoldPlatform, Forward

\* The three last words.
LEMMA LastWordSafe ==
    ASSUME MatchSafe, SendGameOver \/ Expel \/ LoseConnection
    PROVE  MatchSafe'
<1>1. TypeOK'
  BY StutterSafe DEF MatchSafe, Safe, SendGameOver, Expel, LoseConnection
<1>2. CASE SendGameOver
  <2>1. PICK S \in {online} \cup (IF Rejoins THEN {} ELSE {Range(room)}) :
            /\ verdict' = Winner(S)
            /\ Send([type |-> "gameOver", time |-> [p \in S |-> score[p]], winner |-> verdict'])
    BY <1>2 DEF SendGameOver
  <2>2. S \in SUBSET PlayerIds
    BY <2>1, RangeOfSeq DEF MatchSafe, MatchTypeOK
  <2>3. verdict' \in S \cup {NoPlayer}
    BY <2>1, WinnerIsListed
  <2>4. MatchTypeOK'
    BY <1>1, <1>2, <2>2, <2>3 DEF MatchSafe, MatchTypeOK, SendGameOver, Phases
  <2>5. [p \in S |-> score[p]] \in [S -> Times]
    BY <2>2 DEF MatchSafe, MatchTypeOK
  <2> DEFINE k == [type |-> "gameOver", time |-> [p \in S |-> score[p]], winner |-> verdict']
  <2>6. k \in ResultsOf(S) /\ k.type = "gameOver" /\ k.winner = verdict' /\ Send(k)
    BY <2>1, <2>3, <2>5 DEF ResultsOf
  <2> HIDE DEF k
  <2>7. k \in Packets
    BY <2>2, <2>6 DEF Packets
  <2>8. PICK packet \in Packets : packet = k
    BY <2>7
  <2>9. IsTrue(packet)'
    BY <1>2, <2>6, <2>8 DEF IsTrue, IsLastWord, SendGameOver
  <2> QED
    BY <1>2, <2>4, <2>6, <2>8, <2>9, SendSafe DEF SendGameOver, Speaking, Forward
<1>3. CASE Expel
  <2>1. MatchTypeOK'
    BY <1>1, <1>3 DEF MatchSafe, MatchTypeOK, Expel
  <2>2. [type |-> "playerDisconnected", id |-> Local] \in Packets
    BY LocalAssumption DEF Packets, Departures
  <2>3. IsTrue([type |-> "playerDisconnected", id |-> Local])'
    BY <1>3 DEF IsTrue, IsLastWord, Expel
  <2> QED
    BY <1>3, <2>1, <2>2, <2>3, SendSafe DEF Expel, Speaking, Forward
<1>4. CASE LoseConnection
  <2>1. MatchTypeOK'
    BY <1>1, <1>4 DEF MatchSafe, MatchTypeOK, LoseConnection
  <2>2. [type |-> "connectionLost"] \in Packets
    BY DEF Packets, Signals
  <2>3. IsTrue([type |-> "connectionLost"])'
    BY <1>4 DEF IsTrue, IsLastWord, LoseConnection
  <2> QED
    BY <1>4, <2>1, <2>2, <2>3, SendSafe DEF LoseConnection, Forward
<1> QED
  BY <1>2, <1>3, <1>4

LEMMA ServerStepSafe == MatchSafe /\ ServerStep => MatchSafe'
<1> SUFFICES ASSUME MatchSafe, ServerStep PROVE MatchSafe'
  OBVIOUS
<1>1. ASSUME NEW p \in PlayerIds, Join(p) PROVE MatchSafe'
  BY <1>1, JoinSafe
<1>2. ASSUME NEW p \in PlayerIds, Leave(p) PROVE MatchSafe'
  BY <1>2, LeaveSafe
<1>3. ASSUME NEW p \in PlayerIds, Return(p) PROVE MatchSafe'
  BY <1>3, ReturnSafe
<1>4. ASSUME NEW p \in PlayerIds, ChangeScene(p) \/ HoldPlatform(p) PROVE MatchSafe'
  BY <1>4, PlaySafe
<1>5. CASE StartCountdown \/ StartRound \/ SendJumpInfo \/ SendFightInfo
  BY <1>5, RoundSafe
<1>6. CASE SendGameOver \/ Expel \/ LoseConnection
  BY <1>6, LastWordSafe
<1> QED
  BY <1>1, <1>2, <1>3, <1>4, <1>5, <1>6 DEF ServerStep

-----------------------------------------------------------------------------
(* The client.                                                              *)

\* Once the packet has been handled: what is left of the queue.
LEMMA TakenOK ==
    ASSUME MatchSafe, inbox # <<>>, UNCHANGED serverVars, connected' \in BOOLEAN,
           inbox' = IF connected' THEN Tail(inbox) ELSE <<>>
    PROVE  /\ InboxOK'
           /\ \A i \in 1..Len(inbox') : i + 1 \in 1..Len(inbox) /\ inbox'[i] = inbox[i + 1]
           /\ IsLastWord(Head(inbox)) =>
                 silent' /\ \A i \in 1..Len(inbox') : inbox'[i].type = "connectionLost"
<1>1. /\ inbox \in Seq(Packets) /\ Len(inbox) \in Nat \ {0}
      /\ \A i \in 1..Len(inbox) : IsTrue(inbox[i])
      /\ \A i, j \in 1..Len(inbox) :
            i < j /\ IsLastWord(inbox[i]) => inbox[j].type = "connectionLost"
  BY EmptySeq DEF MatchSafe, InboxOK
<1>2. /\ inbox' \in Seq(Packets)
      /\ \A i \in 1..Len(inbox') : i + 1 \in 1..Len(inbox) /\ inbox'[i] = inbox[i + 1]
  <2>1. CASE connected'
    <3>1. /\ Tail(inbox) \in Seq(Packets) /\ Len(Tail(inbox)) = Len(inbox) - 1
          /\ \A i \in 1..Len(Tail(inbox)) : Tail(inbox)[i] = inbox[i + 1]
      BY <1>1, HeadTailProperties
    <3> QED
      BY <1>1, <2>1, <3>1
  <2>2. CASE ~connected'
    <3>1. inbox' = <<>> /\ <<>> \in Seq(Packets) /\ Len(<<>>) = 0
      BY <2>2, EmptySeq
    <3>2. Len(inbox') = 0
      BY <3>1
    <3>3. \A i \in 1..0 : FALSE
      OBVIOUS
    <3>4. \A i \in 1..Len(inbox') : FALSE
      BY <3>2, <3>3
    <3> QED
      BY <3>1, <3>4
  <2> QED
    BY <2>1, <2>2
<1>3. \A i \in 1..Len(inbox') : IsTrue(inbox[i])'
  <2> SUFFICES ASSUME NEW i \in 1..Len(inbox') PROVE IsTrue(inbox[i])'
    OBVIOUS
  <2>1. IsTrue(inbox[i + 1]) /\ inbox'[i] = inbox[i + 1]
    BY <1>1, <1>2
  <2> QED
    BY <2>1 DEF IsTrue, IsLastWord, serverVars
<1>4. \A i, j \in 1..Len(inbox') :
          i < j /\ IsLastWord(inbox[i])' => inbox'[j].type = "connectionLost"
  <2> SUFFICES ASSUME NEW i \in 1..Len(inbox'), NEW j \in 1..Len(inbox'),
                      i < j, IsLastWord(inbox[i])'
               PROVE  inbox'[j].type = "connectionLost"
    OBVIOUS
  <2>1. /\ i + 1 \in 1..Len(inbox) /\ j + 1 \in 1..Len(inbox) /\ i + 1 < j + 1
        /\ inbox'[i] = inbox[i + 1] /\ inbox'[j] = inbox[j + 1]
    BY <1>2
  <2>2. IsLastWord(inbox[i + 1])
    BY <2>1 DEF IsLastWord
  <2> QED
    BY <1>1, <2>1, <2>2
<1>5. ~connected' => inbox' = <<>>
  OBVIOUS
<1>6. ASSUME IsLastWord(Head(inbox))
      PROVE  silent' /\ \A i \in 1..Len(inbox') : inbox'[i].type = "connectionLost"
  <2>1. Head(inbox) = inbox[1] /\ 1 \in 1..Len(inbox)
    BY <1>1
  <2>2. silent' = silent /\ silent
    BY <1>1, <1>6, <2>1 DEF IsTrue, serverVars
  <2>3. ASSUME NEW i \in 1..Len(inbox') PROVE inbox'[i].type = "connectionLost"
    <3>1. i + 1 \in 1..Len(inbox) /\ 1 < i + 1 /\ inbox'[i] = inbox[i + 1]
      BY <1>2
    <3> QED
      BY <1>1, <1>6, <2>1, <3>1
  <2> QED
    BY <2>2, <2>3
<1> QED
  BY <1>2, <1>3, <1>4, <1>5, <1>6 DEF InboxOK

\* Who is the local player does not change: a new info gets the flag from
\* localPlayerId, an old one keeps it.
LocalKept ==
    \A p \in DOMAIN playerInfos' :
        playerInfos'[p].isLocalPlayer = IF p \in DOMAIN playerInfos
                                        THEN playerInfos[p].isLocalPlayer
                                        ELSE p = localPlayerId

\* Writing another field leaves the flag alone.
LEMMA WritesKeepLocal ==
    ASSUME NEW info \in PlayerInfo, NEW v
    PROVE  /\ [info EXCEPT !.isWinner = v].isLocalPlayer = info.isLocalPlayer
           /\ [info EXCEPT !.isPaused = v].isLocalPlayer = info.isLocalPlayer
           /\ [info EXCEPT !.isDisconnected = v].isLocalPlayer = info.isLocalPlayer
           /\ [info EXCEPT !.time = v].isLocalPlayer = info.isLocalPlayer
           /\ [info EXCEPT !.ahead = v].isLocalPlayer = info.isLocalPlayer
           /\ Back(info).isLocalPlayer = info.isLocalPlayer
BY DEF PlayerInfo, Back

\* So does a search for the leader.
LEMMA LiderKeepsLocal ==
    ASSUME NEW D, NEW infos \in [D -> PlayerInfo], NEW S
    PROVE  /\ DOMAIN DetectLider(infos, S) = D
           /\ \A p \in D : DetectLider(infos, S)[p].isLocalPlayer = infos[p].isLocalPlayer
<1>1. DOMAIN infos = D /\ \A p \in D : infos[p] \in PlayerInfo
  OBVIOUS
<1>2. ASSUME NEW p \in D
      PROVE  [infos[p] EXCEPT !.isWinner = Leads(infos, S, p)].isLocalPlayer = infos[p].isLocalPlayer
  BY <1>1, WritesKeepLocal
<1> QED
  BY <1>1, <1>2 DEF DetectLider

LEMMA AnnouncementKeepsLocal ==
    ASSUME Safe, NEW list \in Announcements, HandleConnectedPlayers(list)
    PROVE  LocalKept
<1> DEFINE known == DOMAIN playerInfos
           back  == {i \in DOMAIN list : list[i].id \in known /\ playerInfos[list[i].id].isDisconnected}
           new   == IdsIn(list) \ known
           Earlier(p) == {list[i].id : i \in 1..(PlaceOf(list, p) - 1)}
           NewInfo(p) == [color |-> ColorOf(list, p), time |-> list[PlaceOf(list, p)].time,
                          ahead |-> known \cup (Earlier(p) \cap new),
                          isWinner |-> FALSE, isLocalPlayer |-> p = localPlayerId,
                          isPaused |-> FALSE, isDisconnected |-> FALSE]
           infos == [p \in known \cup new |->
                       IF p \in new THEN NewInfo(p)
                       ELSE IF \E i \in back : list[i].id = p
                       THEN Back(playerInfos[p])
                       ELSE playerInfos[p]]
           seen  == known \cup {p \in new : \E i \in back : PlaceOf(list, p) < i}
           D == known \cup new
<1>1. D \subseteq PlayerIds
  BY AnnouncedIds DEF Safe, TypeOK, IsPartialFunction
<1>2. ASSUME NEW p \in new
      PROVE  infos[p] \in PlayerInfo /\ infos[p].isLocalPlayer = (p = localPlayerId)
  <2>1. infos[p] = NewInfo(p)
    OBVIOUS
  <2>2. PlaceOf(list, p) \in 1..MaxPlayers /\ list[PlaceOf(list, p)].time \in Times
    BY PlaceOfAnnounced
  <2>3. known \cup (Earlier(p) \cap new) \subseteq PlayerIds
    BY <1>1
  <2> HIDE DEF known, new, Earlier
  <2>4. NewInfo(p) \in PlayerInfo /\ NewInfo(p).isLocalPlayer = (p = localPlayerId)
    BY <2>2, <2>3 DEF PlayerInfo, ColorOf
  <2> QED
    BY <2>1, <2>4
<1>3. ASSUME NEW p \in known
      PROVE  infos[p] \in PlayerInfo /\ infos[p].isLocalPlayer = playerInfos[p].isLocalPlayer
  <2>1. playerInfos[p] \in PlayerInfo
    BY DEF Safe, TypeOK, IsPartialFunction
  <2>2. Back(playerInfos[p]) \in PlayerInfo
    BY <2>1 DEF PlayerInfo, Back
  <2>3. Back(playerInfos[p]).isLocalPlayer = playerInfos[p].isLocalPlayer
    BY <2>1, WritesKeepLocal
  <2>4. infos[p] = playerInfos[p] \/ infos[p] = Back(playerInfos[p])
    OBVIOUS
  <2> QED
    BY <2>1, <2>2, <2>3, <2>4
<1>4. infos \in [D -> PlayerInfo]
  BY <1>2, <1>3
<1>5. DOMAIN playerInfos' = D /\ \A p \in D : playerInfos'[p].isLocalPlayer = infos[p].isLocalPlayer
  <2>1. CASE back = {}
    BY <2>1 DEF HandleConnectedPlayers
  <2>2. CASE back # {}
    <3>1. playerInfos' = DetectLider(infos, seen)
      BY <2>2 DEF HandleConnectedPlayers
    <3> HIDE DEF infos, seen, D
    <3> QED
      BY <1>4, <3>1, LiderKeepsLocal
  <2> QED
    BY <2>1, <2>2
<1> HIDE DEF infos, seen
<1>6. \A p \in D : infos[p].isLocalPlayer = IF p \in known THEN playerInfos[p].isLocalPlayer
                                           ELSE p = localPlayerId
  BY <1>2, <1>3
<1> QED
  BY <1>5, <1>6 DEF LocalKept

LEMMA DepartureKeepsLocal ==
    ASSUME Safe, NEW id \in PlayerIds, HandleDisconnectedPlayer(id)
    PROVE  LocalKept
<1>1. ASSUME NEW p \in DOMAIN playerInfos PROVE playerInfos[p] \in PlayerInfo
  BY DEF Safe, TypeOK, IsPartialFunction
<1>2. CASE UNCHANGED playerInfos
  BY <1>2 DEF LocalKept
<1>3. CASE playerInfos' = [p \in DOMAIN playerInfos \ {id} |->
                              [playerInfos[p] EXCEPT !.ahead = @ \ {id}]]
  BY <1>1, <1>3, WritesKeepLocal DEF LocalKept
<1>4. CASE playerInfos' = DetectLider([playerInfos EXCEPT ![id].isDisconnected = TRUE],
                                      DOMAIN playerInfos)
           /\ id \in DOMAIN playerInfos
  <2> DEFINE D == DOMAIN playerInfos
             infos == [playerInfos EXCEPT ![id].isDisconnected = TRUE]
  <2>1. [playerInfos[id] EXCEPT !.isDisconnected = TRUE] \in PlayerInfo
    BY <1>1, <1>4 DEF PlayerInfo
  <2>2. /\ infos \in [D -> PlayerInfo]
        /\ \A p \in D : infos[p].isLocalPlayer = playerInfos[p].isLocalPlayer
    <3>1. playerInfos \in [D -> PlayerInfo]
      BY DEF Safe, TypeOK, IsPartialFunction
    <3>2. infos = [playerInfos EXCEPT ![id] = [playerInfos[id] EXCEPT !.isDisconnected = TRUE]]
      BY <3>1
    <3> QED
      BY <1>4, <2>1, <3>1, <3>2, WritesKeepLocal
  <2>3. playerInfos' = DetectLider(infos, D)
    BY <1>4
  <2> HIDE DEF infos
  <2> QED
    BY <2>2, <2>3, LiderKeepsLocal DEF LocalKept
<1>5. \/ UNCHANGED playerInfos
      \/ playerInfos' = [p \in DOMAIN playerInfos \ {id} |->
                            [playerInfos[p] EXCEPT !.ahead = @ \ {id}]]
      \/ /\ playerInfos' = DetectLider([playerInfos EXCEPT ![id].isDisconnected = TRUE],
                                       DOMAIN playerInfos)
         /\ id \in DOMAIN playerInfos
  <2>1. UNCHANGED vars => UNCHANGED playerInfos
    BY DEF vars
  <2>2. StopAndWaitDisconnection => UNCHANGED playerInfos
    BY DEF StopAndWaitDisconnection
  <2> QED
    BY <2>1, <2>2 DEF HandleDisconnectedPlayer
<1> QED
  BY <1>2, <1>3, <1>4, <1>5

LEMMA InfosKeepLocal ==
    ASSUME Safe, NEW listed \in SUBSET PlayerIds, NEW paused \in SUBSET listed,
           NEW time \in [listed -> Times],
           HandleJumpInfo(listed, paused) \/ HandleFightInfo(listed, paused, time)
    PROVE  LocalKept
<1> DEFINE D == DOMAIN playerInfos
           timed == [p \in D |->
              IF p \in listed THEN [playerInfos[p] EXCEPT !.time = time[p]] ELSE playerInfos[p]]
           infos == WithPaused(timed, listed, paused)
<1>1. D \in SUBSET PlayerIds /\ playerInfos \in [D -> PlayerInfo]
  BY DEF Safe, TypeOK, IsPartialFunction
<1>2. CASE UNCHANGED playerInfos
  BY <1>2 DEF LocalKept
<1>3. CASE playerInfos' = WithPaused(playerInfos, listed, paused)
  BY <1>1, <1>3, WritesKeepLocal DEF LocalKept, WithPaused
<1>4. CASE playerInfos' = DetectLider(infos, DOMAIN infos)
  <2>1. timed \in [D -> PlayerInfo]
    <3>1. \A f : f = timed => f \in [DOMAIN playerInfos -> PlayerInfo]
      BY NewTimes
    <3> QED
      BY <3>1
  <2>2. \A p \in D : timed[p].isLocalPlayer = playerInfos[p].isLocalPlayer
    BY <1>1, WritesKeepLocal
  <2> HIDE DEF timed
  <2>3. infos \in [D -> PlayerInfo] /\ \A p \in D : infos[p].isLocalPlayer = timed[p].isLocalPlayer
    <3>1. infos \in [D -> PlayerInfo]
      <4> HIDE DEF D
      <4> QED
        BY <1>1, <2>1, WithPausedType
    <3>2. \A p \in D : infos[p].isLocalPlayer = timed[p].isLocalPlayer
      BY <2>1, WritesKeepLocal DEF WithPaused
    <3> QED
      BY <3>1, <3>2
  <2> HIDE DEF infos, D
  <2>4. /\ DOMAIN playerInfos' = D
        /\ \A p \in D : playerInfos'[p].isLocalPlayer = infos[p].isLocalPlayer
    BY <1>4, <2>3, LiderKeepsLocal
  <2> QED
    BY <2>2, <2>3, <2>4 DEF LocalKept, D
<1>5. \/ UNCHANGED playerInfos
      \/ playerInfos' = WithPaused(playerInfos, listed, paused)
      \/ playerInfos' = DetectLider(infos, DOMAIN infos)
  <2>1. CASE HandleJumpInfo(listed, paused)
    BY <2>1 DEF HandleJumpInfo, Fail, vars
  <2>2. CASE HandleFightInfo(listed, paused, time)
    BY <2>2 DEF HandleFightInfo, Fail, vars
  <2> QED
    BY <2>1, <2>2
<1> QED
  BY <1>2, <1>3, <1>4, <1>5

LEMMA ResultKeepsLocal ==
    ASSUME Safe, NEW listed \in SUBSET PlayerIds, NEW time \in [listed -> Times], NEW winner,
           HandleGameOverInfo(listed, time, winner)
    PROVE  LocalKept
<1>1. ASSUME NEW p \in DOMAIN playerInfos PROVE playerInfos[p] \in PlayerInfo
  BY DEF Safe, TypeOK, IsPartialFunction
<1>2. CASE UNCHANGED playerInfos
  BY <1>2 DEF LocalKept
<1>3. CASE playerInfos' = [p \in DOMAIN playerInfos |->
              IF p \in listed THEN [playerInfos[p] EXCEPT !.time = time[p]] ELSE playerInfos[p]]
  BY <1>1, <1>3, WritesKeepLocal DEF LocalKept
<1> QED
  BY <1>2, <1>3 DEF HandleGameOverInfo, Fail


\* What a packet can do to the state of the game: enter it, and end it when it
\* is the last word of the server.
HandlerEffect ==
    /\ connected /\ gameState' # "none"
    /\ gameState' = "gameOver" => ~connected'
    /\ gameState' = "waitDisconnection" => gameState = "waitDisconnection" \/ IsLastWord(Head(inbox))
    /\ localPlayerId' \in {Local, NoPlayer}
    /\ LocalKept

LEMMA DeliverEffect ==
    ASSUME MatchSafe, Deliver
    PROVE  HandlerEffect
<1> DEFINE packet == Head(inbox)
<1>1. /\ packet \in Packets /\ packet = inbox[1] /\ inbox # <<>>
      /\ localPlayerId \in {Local, NoPlayer}
  BY HeadTailProperties DEF MatchSafe, InboxOK, LocalOK, Deliver
<1>2. Safe /\ (Receiving => gameState # "gameOver")
  BY DEF MatchSafe, EndedOK, Receiving
<1>3. packet.type # "connectToRoom" => gameState # "none"
  BY <1>1 DEF MatchSafe, EnteringOK
<1> HIDE DEF packet
<1>4. CASE packet.type = "connectToRoom" /\ StartWithPlayerId(Local)
  BY <1>1, <1>4 DEF HandlerEffect, LocalKept, StartWithPlayerId, Receiving
<1>5. CASE packet.type = "waitingPlayers" /\ HandleConnectedPlayers(packet.list)
  <2>1. packet.list \in Announcements
    BY <1>1, <1>5, PacketFields
  <2>2. LocalKept
    BY <1>2, <1>5, <2>1, AnnouncementKeepsLocal
  <2>3. UNCHANGED <<gameState, localPlayerId>> /\ Receiving
    BY <1>5 DEF HandleConnectedPlayers
  <2> QED
    BY <1>1, <1>2, <1>3, <1>5, <2>2, <2>3 DEF HandlerEffect, Receiving
<1>6. CASE packet.type = "playerDisconnected" /\ HandleDisconnectedPlayer(packet.id)
  <2>1. packet.id \in PlayerIds
    BY <1>1, <1>6, PacketFields
  <2>2. LocalKept
    BY <1>2, <1>6, <2>1, DepartureKeepsLocal
  <2>3. \/ UNCHANGED <<gameState, localPlayerId>>
        \/ /\ gameState' = "waitDisconnection" /\ UNCHANGED localPlayerId
           /\ packet.id \in DOMAIN playerInfos /\ playerInfos[packet.id].isLocalPlayer
    BY <1>6 DEF HandleDisconnectedPlayer, StopAndWaitDisconnection, vars
  <2>4. Receiving
    BY <1>6 DEF HandleDisconnectedPlayer
  <2>5. playerInfos[packet.id].isLocalPlayer /\ packet.id \in DOMAIN playerInfos => packet.id = Local
    BY DEF MatchSafe, LocalOK
  <2> QED
    BY <1>1, <1>2, <1>3, <1>6, <2>2, <2>3, <2>4, <2>5
       DEF HandlerEffect, Receiving, IsLastWord, packet
<1>7. CASE packet.type = "countdownToGame" /\ HandleCountdownToGame
  BY <1>1, <1>2, <1>3, <1>7 DEF HandlerEffect, LocalKept, HandleCountdownToGame, Receiving
<1>8. CASE \/ packet.type = "jumpInfo" /\ HandleJumpInfo(packet.listed, {})
           \/ packet.type = "fightInfo" /\ HandleFightInfo(packet.listed, {}, packet.time)
  <2>1. /\ packet.listed \in SUBSET PlayerIds /\ {} \in SUBSET packet.listed
        /\ packet.type = "fightInfo" => packet.time \in [packet.listed -> Times]
    BY <1>1, <1>8, PacketFields
  <2>2. LocalKept
    <3>1. CASE packet.type = "fightInfo" /\ HandleFightInfo(packet.listed, {}, packet.time)
      BY <1>2, <2>1, <3>1, InfosKeepLocal
    <3>2. CASE packet.type = "jumpInfo" /\ HandleJumpInfo(packet.listed, {})
      <4>1. PICK time \in [packet.listed -> Times] : TRUE
        <5>1. [p \in packet.listed |-> 0] \in [packet.listed -> Times]
          BY BoundsAssumption DEF Times
        <5> QED
          BY <5>1
      <4> QED
        BY <1>2, <2>1, <3>2, <4>1, InfosKeepLocal
    <3> QED
      BY <1>8, <3>1, <3>2
  <2>3. /\ gameState' \in {gameState, "jumping", "fighting"}
        /\ UNCHANGED localPlayerId /\ Receiving
    BY <1>8 DEF HandleJumpInfo, HandleFightInfo, Fail, SynchronizeScene, vars
  <2> QED
    BY <1>1, <1>2, <1>3, <1>8, <2>2, <2>3 DEF HandlerEffect, Receiving
<1>9. CASE /\ packet.type = "gameOver"
           /\ HandleGameOverInfo(DOMAIN packet.time, packet.time, packet.winner)
  <2>1. PICK S \in SUBSET PlayerIds : packet.time \in [S -> Times] /\ packet.winner \in S \cup {NoPlayer}
    BY <1>1, <1>9, PacketFields
  <2>2. DOMAIN packet.time = S
    BY <2>1
  <2>3. LocalKept
    BY <1>2, <1>9, <2>1, <2>2, ResultKeepsLocal
  <2>4. /\ UNCHANGED localPlayerId /\ Receiving
        /\ UNCHANGED gameState \/ (gameState' = "gameOver" /\ ~connected')
    BY <1>9 DEF HandleGameOverInfo, Fail
  <2> QED
    BY <1>1, <1>2, <1>3, <1>9, <2>3, <2>4 DEF HandlerEffect, Receiving, IsLastWord, packet
<1>10. CASE packet.type = "connectionLost" /\ HandleServerDisconnectedEvent
  BY <1>1, <1>10
     DEF HandlerEffect, LocalKept, HandleServerDisconnectedEvent, StopAndWaitDisconnection,
         Receiving, IsLastWord, packet
<1> QED
  BY <1>4, <1>5, <1>6, <1>7, <1>8, <1>9, <1>10 DEF Deliver, packet

\* The flag is where it was, so only Local can have it.
LEMMA KeptIsOK ==
    ASSUME MatchSafe, Safe', LocalKept, localPlayerId' \in {Local, NoPlayer}
    PROVE  LocalOK'
<1>1. DOMAIN playerInfos' \subseteq PlayerIds
  BY DEF Safe, TypeOK, IsPartialFunction
<1> QED
  BY <1>1, NoPlayerAssumption DEF MatchSafe, LocalOK, LocalKept

LEMMA DeliverSafe ==
    ASSUME MatchSafe, Deliver
    PROVE  MatchSafe'
<1>1. Safe'
  BY DeliverIsStep, NextSafe DEF MatchSafe
<1>2. HandlerEffect
  BY DeliverEffect
<1>3. connected' \in BOOLEAN
  BY <1>1 DEF Safe, TypeOK
<1>4. /\ InboxOK'
      /\ \A i \in 1..Len(inbox') : i + 1 \in 1..Len(inbox) /\ inbox'[i] = inbox[i + 1]
      /\ IsLastWord(Head(inbox)) =>
            silent' /\ \A i \in 1..Len(inbox') : inbox'[i].type = "connectionLost"
  BY <1>3, TakenOK DEF Deliver
<1>5. MatchTypeOK'
  BY <1>1 DEF MatchSafe, MatchTypeOK, Safe, Deliver, serverVars
<1>6. EnteringOK'
  BY <1>2 DEF HandlerEffect, EnteringOK
<1>7. EndedOK'
  <2>1. gameState' = "waitDisconnection" =>
            silent' /\ \A i \in 1..Len(inbox') : inbox'[i].type = "connectionLost"
    <3>1. CASE gameState = "waitDisconnection"
      BY <1>4, <3>1 DEF MatchSafe, EndedOK, Deliver, serverVars
    <3>2. CASE gameState # "waitDisconnection"
      BY <1>2, <1>4, <3>2 DEF HandlerEffect
    <3> QED
      BY <3>1, <3>2
  <2> QED
    BY <1>2, <2>1 DEF HandlerEffect, EndedOK
<1>8. LocalOK'
  BY <1>1, <1>2, KeptIsOK DEF HandlerEffect
<1> QED
  BY <1>1, <1>4, <1>5, <1>6, <1>7, <1>8 DEF MatchSafe

\* The user and the frame timer.
LEMMA OwnStepSafe ==
    ASSUME MatchSafe, MatchQuit \/ MatchUpdate \/ MatchDisconnect
    PROVE  MatchSafe'
<1>1. Safe'
  BY MatchStepIsStep, NextSafe DEF MatchSafe, MatchNext
<1>2. UNCHANGED serverVars /\ inbox' \in {inbox, <<>>}
  BY DEF MatchQuit, MatchUpdate, MatchDisconnect
<1>3. MatchTypeOK'
  BY <1>1, <1>2 DEF MatchSafe, MatchTypeOK, Safe, serverVars
<1>4. UNCHANGED <<playerInfos, localPlayerId>>
  BY DEF MatchQuit, MatchUpdate, MatchDisconnect, Quit, Update, Disconnect
<1>5. LocalOK'
  BY <1>4 DEF MatchSafe, LocalOK
<1>6. CASE MatchDisconnect
  <2>1. /\ inbox' = <<>> /\ <<>> \in Seq(Packets) /\ Len(<<>>) = 0
        /\ gameState' = gameState /\ connected' = FALSE /\ quitPending
    BY <1>6, EmptySeq DEF MatchDisconnect, Disconnect
  <2>2. \A i \in 1..0 : FALSE
    OBVIOUS
  <2>3. Len(inbox') = 0
    BY <2>1
  <2>4. \A i \in 1..Len(inbox') : FALSE
    BY <2>2, <2>3
  <2>5. InboxOK'
    BY <2>1, <2>4 DEF InboxOK
  <2>6. EnteringOK'
    BY <2>1 DEF MatchSafe, EnteringOK
  <2>7. EndedOK'
    BY <1>2, <2>1, <2>4 DEF MatchSafe, EndedOK, serverVars
  <2> QED
    BY <1>1, <1>3, <1>5, <2>5, <2>6, <2>7 DEF MatchSafe
<1>7. CASE MatchQuit \/ MatchUpdate
  <2>1. UNCHANGED <<inbox, connected, serverVars>>
    BY <1>7 DEF MatchQuit, MatchUpdate, Quit, Update
  <2>2. \A i \in 1..Len(inbox) : IsTrue(inbox[i])'
    BY <2>1 DEF MatchSafe, InboxOK, IsTrue, IsLastWord, serverVars
  <2>3. InboxOK'
    BY <2>1, <2>2 DEF MatchSafe, InboxOK, IsLastWord
  <2>4. \/ gameState' = "disconnected"
        \/ UNCHANGED <<gameState, sceneType, quitPending>>
    BY <1>7 DEF MatchQuit, MatchUpdate, Quit, Update
  <2>5. EnteringOK' /\ EndedOK'
    BY <2>1, <2>4 DEF MatchSafe, EnteringOK, EndedOK, serverVars
  <2> QED
    BY <1>1, <1>3, <1>5, <2>3, <2>5 DEF MatchSafe
<1> QED
  BY <1>6, <1>7

LEMMA MatchNextSafe == MatchSafe /\ [MatchNext]_matchVars => MatchSafe'
<1> SUFFICES ASSUME MatchSafe, [MatchNext]_matchVars PROVE MatchSafe'
  OBVIOUS
<1>1. CASE ServerStep
  BY <1>1, ServerStepSafe
<1>2. CASE Deliver
  BY <1>2, DeliverSafe
<1>3. CASE MatchQuit \/ MatchUpdate \/ MatchDisconnect
  BY <1>3, OwnStepSafe
<1>4. CASE UNCHANGED matchVars
  <2>1. UNCHANGED <<vars, inbox>> /\ UNCHANGED serverVars
    BY <1>4 DEF matchVars
  <2>2. MatchTypeOK' /\ Forward
    BY <2>1, StutterSafe DEF MatchSafe, Safe, MatchTypeOK, Forward, serverVars
  <2> QED
    BY <2>1, <2>2, QuietSafe
<1> QED
  BY <1>1, <1>2, <1>3, <1>4 DEF MatchNext, ServerStep


-----------------------------------------------------------------------------
(* What it shows.                                                           *)

\* The inductive invariant: it holds in every state of every match.
THEOREM MatchIsSafe == MatchSpec => []MatchSafe
<1>1. MatchInit => MatchSafe
  BY InitMatchSafe
<1>2. MatchSafe /\ [MatchNext]_matchVars => MatchSafe'
  BY MatchNextSafe
<1> QED
  BY <1>1, <1>2, PTL DEF MatchSpec

\* Both sides keep their ranges: a room is a list of distinct players, and who
\* is online is in it, though Leave takes a place out of the middle.
THEOREM MatchTypeCorrect == MatchSpec => []MatchTypeOK
<1>1. MatchSafe => MatchTypeOK
  BY DEF MatchSafe
<1> QED
  BY <1>1, MatchIsSafe, PTL

\* A match is a game with one of the servers of GameController, so that all
\* that was proved for any server holds in it: one leader, nobody left frozen,
\* the state of the right scene, one result.
THEOREM MatchIsAGame == MatchSpec => Spec
<1>1. MatchInit => Init
  BY DEF MatchInit
<1>2. MatchSafe /\ [MatchNext]_matchVars => [Next]_vars
  BY MatchStepIsStep
<1> QED
  BY <1>1, <1>2, MatchIsSafe, PTL DEF MatchSpec, Spec

\* One step cannot bring a game back that has ended.
LEMMA EndStep ==
    ASSUME MatchSafe, [MatchNext]_matchVars, gameState \in Ended
    PROVE  gameState' \in Ended
<1>1. CASE ServerStep \/ UNCHANGED matchVars
  BY <1>1, ServerStepIsStutter DEF matchVars, vars
<1>2. CASE MatchQuit \/ MatchUpdate \/ MatchDisconnect
  BY <1>2 DEF MatchQuit, MatchUpdate, MatchDisconnect, Quit, Update, Disconnect, Ended
<1>3. CASE Deliver
  <2> DEFINE packet == Head(inbox)
  <2>1. packet = inbox[1] /\ 1 \in 1..Len(inbox) /\ HandlerEffect
    BY <1>3, HeadTailProperties, EmptySeq, DeliverEffect DEF MatchSafe, InboxOK, Deliver
  <2>2. gameState = "waitDisconnection" => packet.type = "connectionLost"
    BY <2>1 DEF MatchSafe, EndedOK
  <2>3. gameState # "gameOver"
    BY <2>1 DEF MatchSafe, EndedOK, HandlerEffect
  <2> HIDE DEF packet
  <2>4. CASE gameState = "waitDisconnection"
    BY <1>3, <2>2, <2>4
       DEF Deliver, packet, HandleServerDisconnectedEvent, StopAndWaitDisconnection, Ended
  <2>5. CASE gameState = "disconnected"
    <3>1. InfoIsIgnored
      BY <2>5 DEF InfoIsIgnored
    <3> QED
      BY <1>3, <2>5, <3>1
         DEF Deliver, StartWithPlayerId, HandleConnectedPlayers, HandleDisconnectedPlayer,
             HandleCountdownToGame, HandleJumpInfo, HandleFightInfo, HandleGameOverInfo,
             HandleServerDisconnectedEvent, StopAndWaitDisconnection, Fail, vars, Ended
  <2> QED
    BY <2>3, <2>4, <2>5 DEF Ended
<1> QED
  BY <1>1, <1>2, <1>3 DEF MatchNext, ServerStep

\* Nothing that was under way when a game ended starts it again, for any
\* number of players and packets.
THEOREM EndStays == MatchSpec => EndIsFinal
<1>1. MatchSafe /\ [MatchNext]_matchVars =>
         [(gameState \in Ended) => (gameState' \in Ended)]_matchVars
  BY EndStep
<1> QED
  BY <1>1, MatchIsSafe, PTL DEF MatchSpec, EndIsFinal

-----------------------------------------------------------------------------
(* The refinement.                                                          *)

\* A step of the client that changes nothing the round is about.
OutOfRound == UNCHANGED <<phase, verdict, gameState, shownResult>>

LEMMA OutOfRoundStutters == OutOfRound => UNCHANGED TheRound!vars
BY DEF OutOfRound, TheRound!vars, Stage

LEMMA InitOfRound == MatchInit => TheRound!Init
BY DEF MatchInit, Init, NoResult, Stage, TheRound!Init, TheRound!NotShown

\* The server advances the room, decides, or does something else.
LEMMA ServerFollowsTheRound ==
    ASSUME MatchSafe, ServerStep
    PROVE  [TheRound!Next]_(TheRound!vars)
<1>1. UNCHANGED <<gameState, shownResult, Stage>>
  BY ServerStepIsStutter DEF vars, Stage
<1>2. CASE StartCountdown \/ StartRound
  BY <1>1, <1>2 DEF StartCountdown, StartRound, TheRound!Next, TheRound!Advance
<1>3. CASE SendGameOver
  <2>1. PICK listed \in SUBSET PlayerIds : verdict' = Winner(listed)
    <3>1. online \subseteq PlayerIds /\ Range(room) \subseteq PlayerIds
      <4>1. Range(room) \subseteq PlayerIds
        BY RangeOfSeq DEF MatchSafe, MatchTypeOK, Range
      <4> QED
        BY <4>1 DEF MatchSafe, MatchTypeOK
    <3> QED
      BY <1>3, <3>1 DEF SendGameOver
  <2>2. verdict' \in TheRound!Winners
    BY <2>1, WinnerIsListed DEF TheRound!Winners
  <2> QED
    BY <1>1, <1>3, <2>2 DEF SendGameOver, TheRound!Next, TheRound!Decide
<1>4. CASE ~(StartCountdown \/ StartRound \/ SendGameOver)
  <2>1. OutOfRound
    BY <1>1, <1>4
       DEF ServerStep, OutOfRound, Join, Leave, Return, ChangeScene, HoldPlatform, SendJumpInfo,
           SendFightInfo, Expel, LoseConnection, serverVars
  <2> QED
    BY <2>1, OutOfRoundStutters
<1> QED
  BY <1>2, <1>3, <1>4

\* The handler of a packet takes the step of the round the packet is about: its
\* phase has begun at the server, and the winner it names is the verdict.
LEMMA DeliverFollowsTheRound ==
    ASSUME MatchSafe, Deliver
    PROVE  [TheRound!Next]_(TheRound!vars)
<1> DEFINE packet == Head(inbox)
<1>1. packet \in Packets /\ packet = inbox[1] /\ 1 \in 1..Len(inbox) /\ HandlerEffect
  BY HeadTailProperties, EmptySeq, DeliverEffect DEF MatchSafe, InboxOK, Deliver
<1>2. IsTrue(packet)
  BY <1>1 DEF MatchSafe, InboxOK
<1>3. gameState = "none" => packet.type = "connectToRoom"
  BY <1>1 DEF MatchSafe, EnteringOK
<1>4. gameState = "waitDisconnection" => packet.type = "connectionLost"
  BY <1>1 DEF MatchSafe, EndedOK
<1>5. ~shownResult.shown /\ gameState \in GameStates /\ gameState # "gameOver"
  BY <1>1 DEF MatchSafe, Safe, TypeOK, ResultClosesConnection, HandlerEffect, EndedOK
<1>6. UNCHANGED <<phase, verdict>>
  BY DEF Deliver, serverVars
<1> HIDE DEF packet
<1>7. CASE packet.type = "connectToRoom" /\ StartWithPlayerId(Local)
  BY <1>6, <1>7 DEF StartWithPlayerId, Stage, TheRound!Next, TheRound!Enter
<1>8. CASE packet.type = "waitingPlayers" /\ HandleConnectedPlayers(packet.list)
  BY <1>6, <1>8, OutOfRoundStutters DEF HandleConnectedPlayers, OutOfRound
<1>9. CASE packet.type = "playerDisconnected" /\ HandleDisconnectedPlayer(packet.id)
  <2>1. CASE StopAndWaitDisconnection
    BY <1>6, <2>1
       DEF StopAndWaitDisconnection, Stage, TheRound!Next, TheRound!Leave, TheRound!vars
  <2>2. CASE UNCHANGED <<gameState, shownResult>>
    BY <1>6, <2>2, OutOfRoundStutters DEF OutOfRound
  <2> QED
    BY <1>9, <2>1, <2>2 DEF HandleDisconnectedPlayer, vars
<1>10. CASE packet.type = "countdownToGame" /\ HandleCountdownToGame
  <2>1. CASE gameState = "waitingOthers"
    BY <1>2, <1>6, <1>10, <2>1
       DEF HandleCountdownToGame, IsTrue, Stage, TheRound!Next, TheRound!Count
  <2>2. CASE gameState # "waitingOthers"
    BY <1>6, <1>10, <2>2, OutOfRoundStutters DEF HandleCountdownToGame, OutOfRound
  <2> QED
    BY <2>1, <2>2
<1>11. CASE \/ packet.type = "jumpInfo" /\ HandleJumpInfo(packet.listed, {})
            \/ packet.type = "fightInfo" /\ HandleFightInfo(packet.listed, {}, packet.time)
  <2>1. \/ UNCHANGED <<gameState, shownResult>>
        \/ /\ ~InfoIsIgnored /\ gameState' \in {"jumping", "fighting"}
           /\ UNCHANGED shownResult
    BY <1>11 DEF HandleJumpInfo, HandleFightInfo, Fail, SynchronizeScene, vars
  <2>2. CASE UNCHANGED <<gameState, shownResult>>
    BY <1>6, <2>2, OutOfRoundStutters DEF OutOfRound
  <2>3. CASE /\ ~InfoIsIgnored /\ gameState' \in {"jumping", "fighting"}
             /\ UNCHANGED shownResult
    <3>1. /\ gameState \in {"waitingOthers", "countdownToGame", "jumping", "fighting"}
          /\ phase \in {"round", "over"}
      BY <1>2, <1>3, <1>4, <1>5, <1>11, <2>3 DEF InfoIsIgnored, GameStates, IsTrue
    <3> QED
      BY <1>6, <2>3, <3>1 DEF Stage, TheRound!Next, TheRound!Play, TheRound!vars
  <2> QED
    BY <2>1, <2>2, <2>3
<1>12. CASE /\ packet.type = "gameOver"
            /\ HandleGameOverInfo(DOMAIN packet.time, packet.time, packet.winner)
  <2>1. CASE UNCHANGED <<gameState, shownResult>>
    BY <1>6, <2>1, OutOfRoundStutters DEF OutOfRound
  <2>2. CASE /\ gameState' = "gameOver"
             /\ shownResult'.shown = TRUE /\ shownResult'.winner = packet.winner
    <3>1. phase = "over" /\ packet.winner = verdict /\ gameState # "none"
      BY <1>2, <1>3, <1>12 DEF IsTrue
    <3>2. Stage # "entering" /\ Stage' = "left"
      BY <2>2, <3>1 DEF Stage
    <3>3. [shown |-> shownResult.shown, winner |-> shownResult.winner]'
             = [shown |-> TRUE, winner |-> verdict]
      BY <2>2, <3>1
    <3>4. ~[shown |-> shownResult.shown, winner |-> shownResult.winner].shown
      BY <1>5
    <3>5. TheRound!Show
      BY <1>6, <3>1, <3>2, <3>3, <3>4 DEF TheRound!Show
    <3> QED
      BY <3>5 DEF TheRound!Next
  <2>3. CASE Fail("unknownPlayer") \/ Fail("garbagePointer")
    BY <2>1, <2>3 DEF Fail
  <2>4. CASE ~(Fail("unknownPlayer") \/ Fail("garbagePointer"))
    <3>1. /\ gameState' = "gameOver"
          /\ \E wins \in BOOLEAN : shownResult' =
                [shown |-> TRUE, winner |-> packet.winner, localPlayerIsWinner |-> wins]
      BY <1>12, <2>4 DEF HandleGameOverInfo
    <3> QED
      BY <2>2, <3>1
  <2> QED
    BY <2>3, <2>4
<1>13. CASE packet.type = "connectionLost" /\ HandleServerDisconnectedEvent
  BY <1>6, <1>13
     DEF HandleServerDisconnectedEvent, StopAndWaitDisconnection, Stage, TheRound!Next,
         TheRound!Leave, TheRound!vars
<1> QED
  BY <1>7, <1>8, <1>9, <1>10, <1>11, <1>12, <1>13 DEF Deliver, packet

LEMMA StepFollowsTheRound ==
    MatchSafe /\ [MatchNext]_matchVars => [TheRound!Next]_(TheRound!vars)
<1> SUFFICES ASSUME MatchSafe, [MatchNext]_matchVars
             PROVE  [TheRound!Next]_(TheRound!vars)
  OBVIOUS
<1>1. CASE ServerStep
  BY <1>1, ServerFollowsTheRound
<1>2. CASE Deliver
  BY <1>2, DeliverFollowsTheRound
<1>3. CASE MatchQuit
  BY <1>3 DEF MatchQuit, Quit, serverVars, Stage, TheRound!Next, TheRound!Leave, TheRound!vars
<1>4. CASE MatchUpdate \/ MatchDisconnect \/ UNCHANGED matchVars
  <2>1. OutOfRound
    BY <1>4 DEF MatchUpdate, MatchDisconnect, Update, Disconnect, matchVars, vars, serverVars,
                OutOfRound
  <2> QED
    BY <2>1, OutOfRoundStutters
<1> QED
  BY <1>1, <1>2, <1>3, <1>4 DEF MatchNext, ServerStep

\* The client implements Round: however late the packets are and whenever the
\* user quits, it keeps the order of the phases, never runs ahead of the
\* server and shows the winner the server has decided.
THEOREM ImplementsRound == MatchSpec => FollowsTheRound
<1>1. MatchInit => TheRound!Init
  BY InitOfRound
<1>2. MatchSafe /\ [MatchNext]_matchVars => [TheRound!Next]_(TheRound!vars)
  BY StepFollowsTheRound
<1> QED
  BY <1>1, <1>2, MatchIsSafe, PTL DEF MatchSpec, FollowsTheRound, TheRound!Spec

=============================================================================
