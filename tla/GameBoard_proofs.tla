--------------------------- MODULE GameBoard_proofs ---------------------------
(***************************************************************************)
(* What a match shows on the board and on the scene, for every number of    *)
(* players: nothing names a player the client does not know, the board      *)
(* agrees with the room, the crown is current, nobody moves while the       *)
(* server is silent.                                                        *)
(*                                                                         *)
(* The client and the room change apart from each other, and between them   *)
(* are packets.  The invariant says that the packets lead from what the     *)
(* client has to what the room is: there is a view of the room before and   *)
(* after each of them, the first of which is the client's own, the last the *)
(* room's, and each packet makes sense in the view it will be read in.      *)
(***************************************************************************)
EXTENDS GameMatch_proofs

\* Who is to be shown as present, who is known, and whether those who leave
\* are forgotten (the room waits) or only marked.
Views == [present: SUBSET PlayerIds, known: SUBSET PlayerIds, forgets: BOOLEAN]

\* The view of whoever has read packet k in view v.
After(v, k) ==
    CASE k.type = "waitingPlayers" ->
            [present |-> v.present \cup IdsIn(k.list), known |-> v.known \cup IdsIn(k.list),
             forgets |-> v.forgets]
      [] k.type = "playerDisconnected" ->
            [present |-> v.present \ {k.id},
             known   |-> IF v.forgets THEN v.known \ {k.id} ELSE v.known,
             forgets |-> v.forgets]
      [] k.type = "countdownToGame" ->
            [present |-> v.present, known |-> v.known, forgets |-> FALSE]
      [] OTHER -> v

\* Packet k makes sense to whoever has view v.  A client that comes back to a
\* round (Rejoins) does not know everybody the room knows.
Fits(v, k) ==
    /\ k.type \in {"jumpInfo", "fightInfo"} =>
          k.listed \subseteq v.present /\ (~Rejoins => ~v.forgets)
    /\ k.type = "gameOver" =>
          /\ Local \in DOMAIN k.time
          /\ DOMAIN k.time \subseteq IF Rejoins THEN v.present ELSE v.known
    /\ k.type = "playerDisconnected" /\ k.id = Local => Local \in v.present
    /\ k.type = "waitingPlayers" /\ ~Rejoins =>
          /\ \A i \in DOMAIN k.list : k.list[i].id \notin v.known => k.list[i].time = 0
          /\ ~v.forgets => IdsIn(k.list) \subseteq v.known

Present(infos) == {p \in DOMAIN infos : ~infos[p].isDisconnected}

\* The client has view v.  One that was quit forgets nobody any more.
IsMine(v) ==
    /\ v.present = Present(playerInfos)
    /\ ~Rejoins => v.known \subseteq DOMAIN playerInfos
    /\ ~Rejoins /\ gameState # "disconnected" =>
          /\ v.known = DOMAIN playerInfos
          /\ v.forgets <=> gameState \in {"none", "waitingOthers"}

\* v is the view of the room.
IsRooms(v) ==
    /\ v.present = online
    /\ ~Rejoins => v.known = Range(room) /\ (v.forgets <=> phase = "waiting")

\* The packets under way lead from the client's view to the room's.
Explains(view) ==
    /\ IsMine(view[0])
    /\ \A i \in 1..Len(inbox) :
          Fits(view[i - 1], inbox[i]) /\ view[i] = After(view[i - 1], inbox[i])
    /\ ~silent => IsRooms(view[Len(inbox)])

InformedOK ==
    connected /\ gameState # "waitDisconnection" =>
        \E view \in [0..Len(inbox) -> Views] : Explains(view)

\* The client knows itself, and a room that has not begun has no times.
LocalKnown ==
    /\ Local \in DOMAIN playerInfos => playerInfos[Local].isLocalPlayer
    /\ gameState # "none" => localPlayerId = Local

RoomOK ==
    /\ ~silent => Local \in online
    /\ ~Rejoins /\ phase \in {"waiting", "countdown"} => \A p \in PlayerIds : score[p] = 0

\* A silent server has left a last word, which is still to be read.
LastWordOK ==
    silent /\ connected /\ gameState \notin Ended => \E i \in 1..Len(inbox) : IsLastWord(inbox[i])

\* What holds of the scene of a client that was there from the beginning.
Fresh == gameState \in {"none", "waitingOthers"}

SceneOK ==
    /\ NoFailure /\ SceneHoldsOneKind /\ CrownIsCurrent /\ AllFrozenWhileConnecting
    /\ sceneType = "fight" => ~Fresh
    /\ gameState = "disconnected" => sceneType = "none"
    /\ Fresh => \A p \in DOMAIN playerInfos : playerInfos[p].time = 0
    /\ gameState = "none" => DOMAIN players = {}

BoardSafe ==
    /\ MatchSafe
    /\ InformedOK /\ LocalKnown /\ RoomOK /\ LastWordOK
    /\ NoUnknownPlayer
    /\ ~Rejoins => SceneOK

-----------------------------------------------------------------------------
(* Views.                                                                   *)

\* A packet leads from views to views.
LEMMA AfterType ==
    ASSUME NEW v \in Views, NEW k \in Packets
    PROVE  After(v, k) \in Views
<1>1. /\ v.present \in SUBSET PlayerIds /\ v.known \in SUBSET PlayerIds /\ v.forgets \in BOOLEAN
      /\ k.type = "waitingPlayers" => IdsIn(k.list) \subseteq PlayerIds
  BY PacketFields, AnnouncedIds DEF Views
<1> QED
  BY <1>1 DEF After, Views

\* Sending a packet that makes sense in the room's view.
LEMMA SendInforms ==
    ASSUME MatchSafe, InformedOK, UNCHANGED vars, NEW packet \in Packets, Send(packet),
           silent => silent',
           \A v \in Views : (~silent => IsRooms(v)) =>
               Fits(v, packet) /\ (~silent' => IsRooms(After(v, packet))')
    PROVE  InformedOK'
<1>1. connected' = connected /\ gameState' = gameState /\ playerInfos' = playerInfos
  BY DEF vars
<1> SUFFICES ASSUME connected, gameState # "waitDisconnection"
             PROVE  \E view \in [0..Len(inbox') -> Views] : Explains(view)'
  BY <1>1 DEF InformedOK
<1>2. PICK view \in [0..Len(inbox) -> Views] : Explains(view)
  BY DEF InformedOK
<1>3. inbox \in Seq(Packets) /\ Len(inbox) \in Nat
  BY LenProperties DEF MatchSafe, InboxOK
<1>4. /\ Len(inbox') = Len(inbox) + 1
      /\ \A i \in 1..Len(inbox) : inbox'[i] = inbox[i]
      /\ inbox'[Len(inbox) + 1] = packet
  BY <1>3, AppendProperties DEF Send
<1> DEFINE n == Len(inbox)
<1>5. PICK last \in Views : last = view[n]
  BY <1>3
<1>6. PICK longer :
          longer = [i \in 0..(n + 1) |-> IF i = n + 1 THEN After(last, packet) ELSE view[i]]
  OBVIOUS
<1>7. Fits(last, packet) /\ (~silent' => IsRooms(After(last, packet))')
  BY <1>2, <1>5 DEF Explains
<1>8. longer \in [0..Len(inbox') -> Views]
  BY <1>3, <1>4, <1>6, AfterType
<1>9. /\ longer[0] = view[0] /\ longer[n + 1] = After(last, packet)
      /\ \A i \in 0..n : longer[i] = view[i]
  BY <1>3, <1>6
<1>10. IsMine(longer[0])'
  BY <1>1, <1>2, <1>9 DEF Explains, IsMine
<1>11. ASSUME NEW i \in 1..Len(inbox')
       PROVE  Fits(longer[i - 1], inbox'[i]) /\ longer[i] = After(longer[i - 1], inbox'[i])
  <2>1. CASE i \in 1..n
    <3>1. i - 1 \in 0..n /\ i \in 0..n
      BY <1>3, <2>1
    <3> QED
      BY <1>2, <1>4, <1>9, <2>1, <3>1 DEF Explains
  <2>2. CASE i = n + 1
    <3>1. i - 1 = n /\ n \in 0..n
      BY <1>3, <2>2
    <3> QED
      BY <1>4, <1>5, <1>7, <1>9, <2>2, <3>1
  <2> QED
    BY <1>3, <1>4, <2>1, <2>2
<1>12. (~silent => IsRooms(longer[Len(inbox)]))'
  BY <1>4, <1>7, <1>9 DEF IsRooms
<1>13. Explains(longer)'
  BY <1>10, <1>11, <1>12 DEF Explains, Fits, After
<1> QED
  BY <1>8, <1>13

\* A change of the room that no view is about.
LEMMA QuietInforms ==
    ASSUME InformedOK, UNCHANGED <<vars, inbox>>, silent => silent',
           \A v \in Views : ~silent' /\ IsRooms(v) => IsRooms(v)',
           MatchSafe
    PROVE  InformedOK'
<1>1. connected' = connected /\ gameState' = gameState /\ playerInfos' = playerInfos
  BY DEF vars
<1> SUFFICES ASSUME connected, gameState # "waitDisconnection"
             PROVE  \E view \in [0..Len(inbox') -> Views] : Explains(view)'
  BY <1>1 DEF InformedOK
<1>2. PICK view \in [0..Len(inbox) -> Views] : Explains(view)
  BY DEF InformedOK
<1>3. Len(inbox) \in Nat
  BY LenProperties DEF MatchSafe, InboxOK
<1>4. view[Len(inbox)] \in Views
  BY <1>3
<1>5. Explains(view)'
  BY <1>1, <1>2, <1>4 DEF Explains, IsMine, Fits, After
<1> QED
  BY <1>5

\* Reading the first packet shifts the views by one.
LEMMA TakeInforms ==
    ASSUME MatchSafe, InformedOK, Deliver, gameState # "waitDisconnection", connected,
           NEW packet, packet = Head(inbox),
           \A v \in Views : IsMine(v) /\ Fits(v, packet) /\ connected' =>
               gameState' = "waitDisconnection" \/ IsMine(After(v, packet))'
    PROVE  InformedOK'
<1> SUFFICES ASSUME connected', gameState' # "waitDisconnection"
             PROVE  \E view \in [0..Len(inbox') -> Views] : Explains(view)'
  BY DEF InformedOK
<1>1. PICK view \in [0..Len(inbox) -> Views] : Explains(view)
  BY DEF InformedOK
<1>2. inbox \in Seq(Packets) /\ inbox # <<>> /\ Len(inbox) \in Nat \ {0}
  BY EmptySeq, LenProperties DEF MatchSafe, InboxOK, Deliver
<1>3. /\ inbox' = Tail(inbox) /\ Len(inbox') = Len(inbox) - 1 /\ Head(inbox) = inbox[1]
      /\ \A i \in 1..Len(inbox') : inbox'[i] = inbox[i + 1]
  BY <1>2, HeadTailProperties DEF Deliver
<1> DEFINE n == Len(inbox)
<1>4. PICK shifted : shifted = [i \in 0..(n - 1) |-> view[i + 1]]
  OBVIOUS
<1>5. \A i \in 0..(n - 1) : i + 1 \in 0..n /\ shifted[i] = view[i + 1]
  BY <1>2, <1>4
<1>6. shifted \in [0..Len(inbox') -> Views]
  BY <1>2, <1>3, <1>5, <1>4
<1>7. IsMine(shifted[0])'
  <2>1. 0 \in 0..n /\ 1 \in 1..n /\ 0 \in 0..(n - 1) /\ 0 + 1 = 1 /\ 1 - 1 = 0
    BY <1>2
  <2>2. view[0] \in Views /\ IsMine(view[0]) /\ Fits(view[0], inbox[1])
    BY <1>1, <2>1 DEF Explains
  <2>3. shifted[0] = After(view[0], packet)
    BY <1>1, <1>3, <1>5, <2>1 DEF Explains
  <2>4. IsMine(After(view[0], packet))'
    BY <1>3, <2>2
  <2> QED
    BY <2>3, <2>4
<1>8. ASSUME NEW i \in 1..Len(inbox')
      PROVE  Fits(shifted[i - 1], inbox'[i]) /\ shifted[i] = After(shifted[i - 1], inbox'[i])
  <2>1. /\ i + 1 \in 1..n /\ (i + 1) - 1 = i /\ (i - 1) + 1 = i
        /\ i - 1 \in 0..(n - 1) /\ i \in 0..(n - 1)
    BY <1>2, <1>3
  <2>2. shifted[i - 1] = view[i] /\ shifted[i] = view[i + 1] /\ inbox'[i] = inbox[i + 1]
    BY <1>3, <1>5, <2>1
  <2> QED
    BY <1>1, <2>1, <2>2 DEF Explains
<1>9. (~silent => IsRooms(shifted[Len(inbox)]))'
  <2>1. Len(inbox') \in 0..(n - 1) /\ Len(inbox') + 1 = n
    BY <1>2, <1>3
  <2>2. shifted[Len(inbox')] = view[n]
    BY <1>5, <2>1
  <2> QED
    BY <1>1, <2>2 DEF Explains, IsRooms, Deliver, serverVars
<1>10. Explains(shifted)'
  BY <1>7, <1>8, <1>9 DEF Explains, Fits, After
<1> QED
  BY <1>6, <1>10

-----------------------------------------------------------------------------
(* The server.                                                              *)

\* What the client has is left alone, and the queue keeps a last word.
LEMMA SendBoardSafe ==
    ASSUME BoardSafe, MatchSafe', UNCHANGED vars, NEW packet \in Packets, Send(packet),
           silent => silent', silent' => silent \/ IsLastWord(packet), RoomOK',
           \A v \in Views : (~silent => IsRooms(v)) =>
               Fits(v, packet) /\ (~silent' => IsRooms(After(v, packet))')
    PROVE  BoardSafe'
<1>1. InformedOK'
  BY SendInforms DEF BoardSafe
<1>2. LocalKnown' /\ NoUnknownPlayer' /\ (~Rejoins => SceneOK')
  BY DEF BoardSafe, LocalKnown, NoUnknownPlayer, SceneOK, NoFailure, SceneHoldsOneKind,
         CrownIsCurrent, Leads, AllFrozenWhileConnecting, Fresh, vars
<1>3. LastWordOK'
  <2> SUFFICES ASSUME silent', connected', gameState' \notin Ended
               PROVE  \E i \in 1..Len(inbox') : IsLastWord(inbox'[i])
    BY DEF LastWordOK, IsLastWord, Ended
  <2>1. inbox \in Seq(Packets) /\ Len(inbox) \in Nat
    BY LenProperties DEF BoardSafe, MatchSafe, InboxOK
  <2>2. /\ Len(inbox') = Len(inbox) + 1
        /\ \A i \in 1..Len(inbox) : inbox'[i] = inbox[i]
        /\ inbox'[Len(inbox) + 1] = packet
    BY <2>1, AppendProperties DEF Send
  <2>3. CASE silent
    <3>1. PICK i \in 1..Len(inbox) : IsLastWord(inbox[i])
      BY <2>3 DEF BoardSafe, LastWordOK, vars, Ended
    <3> QED
      BY <2>1, <2>2, <3>1
  <2>4. CASE IsLastWord(packet)
    <3>1. Len(inbox) + 1 \in 1..Len(inbox')
      BY <2>1, <2>2
    <3> QED
      BY <2>2, <2>4, <3>1
  <2> QED
    BY <2>3, <2>4
<1> QED
  BY <1>1, <1>2, <1>3 DEF BoardSafe

\* A change of the room without a packet.
LEMMA QuietBoardSafe ==
    ASSUME BoardSafe, MatchSafe', UNCHANGED <<vars, inbox, silent, online, room>>, RoomOK',
           phase' = "waiting" <=> phase = "waiting"
    PROVE  BoardSafe'
<1>1. InformedOK'
  <2>1. \A v \in Views : IsRooms(v) => IsRooms(v)'
    BY DEF IsRooms
  <2> QED
    BY <2>1, QuietInforms DEF BoardSafe
<1>2. LocalKnown' /\ NoUnknownPlayer' /\ (~Rejoins => SceneOK')
  BY DEF BoardSafe, LocalKnown, NoUnknownPlayer, SceneOK, NoFailure, SceneHoldsOneKind,
         CrownIsCurrent, Leads, AllFrozenWhileConnecting, Fresh, vars
<1>3. LastWordOK'
  BY DEF BoardSafe, LastWordOK, IsLastWord, Ended, vars
<1> QED
  BY <1>1, <1>2, <1>3 DEF BoardSafe

\* A list with the players that are reachable, in a view where nobody else is
\* present, makes them the present ones.
LEMMA AnnouncedView ==
    ASSUME NEW v \in Views, NEW list \in Announcements, NEW packet,
           packet = [type |-> "waitingPlayers", list |-> list]
    PROVE  /\ packet.type = "waitingPlayers" /\ packet.list = list
           /\ packet \in Packets /\ ~IsLastWord(packet)
           /\ After(v, packet).present = v.present \cup IdsIn(list)
           /\ After(v, packet).known = v.known \cup IdsIn(list)
           /\ After(v, packet).forgets = v.forgets
BY DEF After, Packets, WaitingLists, IsLastWord

\* A player who joins is announced in a list that names all who are there.
LEMMA JoinBoardSafe ==
    ASSUME BoardSafe, NEW p \in PlayerIds, Join(p)
    PROVE  BoardSafe'
<1>1. MatchSafe' /\ UNCHANGED vars /\ ~silent /\ ~silent' /\ phase' = phase /\ phase = "waiting"
  BY JoinSafe DEF BoardSafe, Join, MaySend, Speaking
<1>2. RoomOK'
  BY DEF BoardSafe, RoomOK, Join
<1>3. PICK list \in Announcements : /\ Announces(list, room', online')
                                    /\ Send([type |-> "waitingPlayers", list |-> list])
  BY DEF Join, Announce
<1>4. IdsIn(list) = online' /\ \A i \in DOMAIN list : list[i].time = score[list[i].id]
  BY <1>3 DEF Announces, IdsIn
<1>5. PICK packet : packet = [type |-> "waitingPlayers", list |-> list]
  OBVIOUS
<1>6. \A v \in Views :
         /\ packet.type = "waitingPlayers" /\ packet.list = list
         /\ packet \in Packets /\ ~IsLastWord(packet)
         /\ After(v, packet).present = v.present \cup IdsIn(list)
         /\ After(v, packet).known = v.known \cup IdsIn(list)
         /\ After(v, packet).forgets = v.forgets
  BY <1>5, AnnouncedView
<1>7. Range(room') = Range(room) \cup {p}
  <2>1. /\ room \in Seq(PlayerIds) /\ room' = Append(room, p)
    BY DEF BoardSafe, MatchSafe, MatchTypeOK, Join
  <2>2. /\ Len(room) \in Nat /\ DOMAIN room = 1..Len(room)
        /\ DOMAIN room' = 1..(Len(room) + 1)
        /\ \A i \in 1..Len(room) : room'[i] = room[i]
        /\ room'[Len(room) + 1] = p
    BY <2>1, AppendProperties, LenProperties
  <2>3. \A i \in DOMAIN room' : i \in DOMAIN room \/ i = Len(room) + 1
    BY <2>2
  <2>4. Len(room) + 1 \in DOMAIN room' /\ DOMAIN room \subseteq DOMAIN room'
    BY <2>2
  <2> QED
    BY <2>2, <2>3, <2>4 DEF Range
<1>8. online \subseteq Range(room) /\ online' = online \cup {p}
  BY DEF BoardSafe, MatchSafe, MatchTypeOK, Join
<1>9. ASSUME NEW v \in Views, IsRooms(v)
      PROVE  Fits(v, packet) /\ IsRooms(After(v, packet))'
  <2>1. Fits(v, packet)
    <3>1. ASSUME ~Rejoins, NEW i \in DOMAIN list PROVE list[i].time = 0
      <4>1. list[i].id \in PlayerIds
        BY AnnouncedIds DEF IdsIn
      <4> QED
        BY <1>1, <1>4, <3>1, <4>1 DEF BoardSafe, RoomOK
    <3>2. ~Rejoins => v.forgets
      BY <1>1, <1>9 DEF IsRooms
    <3> QED
      BY <1>6, <3>1, <3>2 DEF Fits
  <2>2. v.present = online /\ (~Rejoins => v.known = Range(room) /\ v.forgets)
    BY <1>1, <1>9 DEF IsRooms
  <2>3. v.present \cup IdsIn(list) = online'
    BY <1>4, <1>8, <2>2
  <2>4. ~Rejoins => v.known \cup IdsIn(list) = Range(room')
    BY <1>4, <1>7, <1>8, <2>2
  <2> QED
    BY <1>1, <1>6, <2>1, <2>2, <2>3, <2>4 DEF IsRooms
<1>10. PICK v \in Views : TRUE
  <2>1. [present |-> {}, known |-> {}, forgets |-> FALSE] \in Views
    BY DEF Views
  <2> QED
    BY <2>1
<1> QED
  BY <1>1, <1>2, <1>3, <1>5, <1>6, <1>9, <1>10, SendBoardSafe

\* A player who comes back was known, so that nobody is met for the first time.
LEMMA ReturnBoardSafe ==
    ASSUME BoardSafe, NEW p \in PlayerIds, Return(p)
    PROVE  BoardSafe'
<1>1. /\ MatchSafe' /\ UNCHANGED <<vars, room, phase>> /\ ~silent /\ ~silent'
      /\ phase # "waiting"
  BY ReturnSafe DEF BoardSafe, Return, MaySend, Speaking
<1>2. RoomOK'
  BY DEF BoardSafe, RoomOK, Return
<1>3. PICK list \in Announcements : /\ Announces(list, room, online')
                                    /\ Send([type |-> "waitingPlayers", list |-> list])
  BY DEF Return, Announce
<1>4. IdsIn(list) = online'
  BY <1>3 DEF Announces, IdsIn
<1>5. PICK packet : packet = [type |-> "waitingPlayers", list |-> list]
  OBVIOUS
<1>6. \A v \in Views :
         /\ packet.type = "waitingPlayers" /\ packet.list = list
         /\ packet \in Packets /\ ~IsLastWord(packet)
         /\ After(v, packet).present = v.present \cup IdsIn(list)
         /\ After(v, packet).known = v.known \cup IdsIn(list)
         /\ After(v, packet).forgets = v.forgets
  BY <1>5, AnnouncedView
<1>7. online \subseteq Range(room) /\ online' = online \cup {p} /\ p \in Range(room)
  BY DEF BoardSafe, MatchSafe, MatchTypeOK, Return
<1>8. ASSUME NEW v \in Views, IsRooms(v)
      PROVE  Fits(v, packet) /\ IsRooms(After(v, packet))'
  <2>1. v.present = online /\ (~Rejoins => v.known = Range(room) /\ ~v.forgets)
    BY <1>1, <1>8 DEF IsRooms
  <2>2. /\ v.present \cup IdsIn(list) = online'
        /\ ~Rejoins => v.known \cup IdsIn(list) = Range(room) /\ IdsIn(list) \subseteq v.known
    BY <1>4, <1>7, <2>1
  <2>3. ~Rejoins => \A i \in DOMAIN list : list[i].id \in v.known
    BY <2>2 DEF IdsIn
  <2>4. Fits(v, packet)
    BY <1>6, <2>2, <2>3 DEF Fits
  <2> QED
    BY <1>1, <1>6, <2>1, <2>2, <2>4 DEF IsRooms
<1>9. PICK v \in Views : TRUE
  <2>1. [present |-> {}, known |-> {}, forgets |-> FALSE] \in Views
    BY DEF Views
  <2> QED
    BY <2>1
<1> QED
  BY <1>1, <1>2, <1>3, <1>5, <1>6, <1>8, <1>9, SendBoardSafe

\* A departure takes the player from the same sets here and there.
LEMMA LeaveBoardSafe ==
    ASSUME BoardSafe, NEW p \in PlayerIds, Leave(p)
    PROVE  BoardSafe'
<1>1. MatchSafe' /\ UNCHANGED <<vars, phase>> /\ ~silent /\ ~silent' /\ p # Local
  BY LeaveSafe DEF BoardSafe, Leave, MaySend, Speaking
<1>2. RoomOK'
  BY <1>1 DEF BoardSafe, RoomOK, Leave
<1>3. PICK packet : packet = [type |-> "playerDisconnected", id |-> p]
  OBVIOUS
<1>4. /\ packet.type = "playerDisconnected" /\ packet.id = p /\ packet \in Packets
      /\ Send(packet)
  BY <1>3 DEF Packets, Departures, Leave
<1>5. online' = online \ {p}
  BY DEF Leave
<1>6. Range(room') = IF phase = "waiting" THEN Range(room) \ {p} ELSE Range(room)
  <2>1. p \in Range(room) /\ room \in Seq(PlayerIds) /\ IsInjective(room)
    BY DEF BoardSafe, MatchSafe, MatchTypeOK, Leave
  <2>2. PlaceIn(room, p) \in DOMAIN room /\ room[PlaceIn(room, p)] = p
    BY <2>1, PlaceInRoom
  <2>3. Range(RemoveAt(room, PlaceIn(room, p))) = Range(room) \ {p}
    BY <2>1, <2>2, RemoveAtRoom
  <2> QED
    BY <2>3 DEF Leave
<1>7. ASSUME NEW v \in Views, IsRooms(v)
      PROVE  Fits(v, packet) /\ IsRooms(After(v, packet))'
  <2>1. v.present = online /\ (~Rejoins => v.known = Range(room) /\ (v.forgets <=> phase = "waiting"))
    BY <1>7 DEF IsRooms
  <2>2. /\ After(v, packet).present = v.present \ {p}
        /\ After(v, packet).known = IF v.forgets THEN v.known \ {p} ELSE v.known
        /\ After(v, packet).forgets = v.forgets
    BY <1>4 DEF After
  <2>3. Fits(v, packet)
    BY <1>1, <1>4 DEF Fits
  <2> QED
    BY <1>1, <1>5, <1>6, <2>1, <2>2, <2>3 DEF IsRooms
<1>8. ~IsLastWord(packet)
  BY <1>1, <1>4 DEF IsLastWord
<1> QED
  BY <1>1, <1>2, <1>4, <1>7, SendBoardSafe

\* The phases of the room, what it sends while it plays, and its last words.
LEMMA RoundBoardSafe ==
    ASSUME BoardSafe,
           StartCountdown \/ StartRound \/ SendJumpInfo \/ SendFightInfo
    PROVE  BoardSafe'
<1>1. /\ MatchSafe' /\ UNCHANGED <<vars, room, online, silent, score>> /\ ~silent
  BY RoundSafe
     DEF BoardSafe, StartCountdown, StartRound, SendJumpInfo, SendFightInfo, MaySend, Speaking,
         serverVars
<1>2. CASE StartCountdown
  <2>1. PICK packet : packet = [type |-> "countdownToGame"]
    OBVIOUS
  <2>2. /\ packet.type = "countdownToGame" /\ packet \in Packets /\ ~IsLastWord(packet)
        /\ Send(packet)
    BY <1>2, <2>1 DEF Packets, Signals, IsLastWord, StartCountdown
  <2>3. phase = "waiting" /\ phase' = "countdown"
    BY <1>2 DEF StartCountdown
  <2>4. RoomOK'
    BY <1>1, <2>3 DEF BoardSafe, RoomOK
  <2>5. ASSUME NEW v \in Views, IsRooms(v)
        PROVE  Fits(v, packet) /\ IsRooms(After(v, packet))'
    BY <1>1, <2>2, <2>3, <2>5 DEF IsRooms, Fits, After
  <2> QED
    BY <1>1, <2>2, <2>4, <2>5, SendBoardSafe
<1>3. CASE StartRound
  <2>1. phase = "countdown" /\ phase' = "round" /\ UNCHANGED inbox
    BY <1>3 DEF StartRound
  <2>2. RoomOK'
    BY <1>1, <2>1 DEF BoardSafe, RoomOK
  <2> QED
    BY <1>1, <2>1, <2>2, QuietBoardSafe
<1>4. CASE SendJumpInfo
  <2> DEFINE k == [type |-> "jumpInfo", listed |-> PlayersIn("jump")]
  <2>1. PlayersIn("jump") \in SUBSET PlayerIds
    BY RangeOfSeq DEF PlayersIn, BoardSafe, MatchSafe, MatchTypeOK
  <2>2. k \in Packets
    BY <2>1 DEF Packets, JumpInfos
  <2>3. k.type = "jumpInfo" /\ k.listed = PlayersIn("jump") /\ Send(k)
    BY <1>4 DEF SendJumpInfo
  <2> HIDE DEF k
  <2>4. PICK packet \in Packets : packet = k
    BY <2>2
  <2>5. phase = "round" /\ phase' = phase /\ packet.listed \subseteq online
    BY <1>4, <2>3, <2>4 DEF SendJumpInfo, PlayersIn, serverVars
  <2>6. RoomOK'
    BY <1>1, <2>5 DEF BoardSafe, RoomOK
  <2>7. ASSUME NEW v \in Views, IsRooms(v)
        PROVE  Fits(v, packet) /\ IsRooms(After(v, packet))'
    BY <1>1, <2>3, <2>4, <2>5, <2>7 DEF IsRooms, Fits, After
  <2> QED
    BY <1>1, <2>3, <2>4, <2>6, <2>7, SendBoardSafe DEF IsLastWord
<1>5. CASE SendFightInfo
  <2> DEFINE S == PlayersIn("fight")
             k == [type |-> "fightInfo", listed |-> S, time |-> [p \in S |-> score[p]]]
  <2>1. S \in SUBSET PlayerIds /\ S \subseteq online
    BY RangeOfSeq DEF PlayersIn, BoardSafe, MatchSafe, MatchTypeOK
  <2>2. [p \in S |-> score[p]] \in [S -> Times]
    BY <2>1 DEF BoardSafe, MatchSafe, MatchTypeOK
  <2>3. k.type = "fightInfo" /\ k.listed = S /\ Send(k)
    BY <1>5 DEF SendFightInfo
  <2>4. k \in FightInfosOf(S)
    BY <2>2 DEF FightInfosOf
  <2> HIDE DEF k, S
  <2>5. k \in Packets
    BY <2>1, <2>4 DEF Packets
  <2>6. PICK packet \in Packets : packet = k
    BY <2>5
  <2>7. phase = "round" /\ phase' = phase /\ packet.listed \subseteq online
    BY <1>5, <2>1, <2>3, <2>6 DEF SendFightInfo, serverVars
  <2>8. RoomOK'
    BY <1>1, <2>7 DEF BoardSafe, RoomOK
  <2>9. ASSUME NEW v \in Views, IsRooms(v)
        PROVE  Fits(v, packet) /\ IsRooms(After(v, packet))'
    BY <1>1, <2>3, <2>6, <2>7, <2>9 DEF IsRooms, Fits, After
  <2> QED
    BY <1>1, <2>3, <2>6, <2>8, <2>9, SendBoardSafe DEF IsLastWord
<1> QED
  BY <1>2, <1>3, <1>4, <1>5

\* Players move and gain time in a round only.
LEMMA PlayBoardSafe ==
    ASSUME BoardSafe, NEW p \in PlayerIds, ChangeScene(p) \/ HoldPlatform(p)
    PROVE  BoardSafe'
<1>1. /\ MatchSafe' /\ UNCHANGED <<vars, inbox, silent, online, room, phase>>
      /\ phase = "round"
  BY PlaySafe DEF BoardSafe, ChangeScene, HoldPlatform
<1>2. RoomOK'
  BY <1>1 DEF BoardSafe, RoomOK
<1> QED
  BY <1>1, <1>2, QuietBoardSafe

\* The last word of a server makes sense in the view it leaves behind.
LEMMA LastWordBoardSafe ==
    ASSUME BoardSafe, SendGameOver \/ Expel \/ LoseConnection
    PROVE  BoardSafe'
<1>1. MatchSafe' /\ UNCHANGED vars /\ silent'
  BY LastWordSafe DEF BoardSafe, SendGameOver, Expel, LoseConnection
<1>2. RoomOK'
  BY <1>1 DEF BoardSafe, RoomOK, SendGameOver, Expel, LoseConnection
<1>3. CASE SendGameOver
  <2>1. PICK S \in {online} \cup (IF Rejoins THEN {} ELSE {Range(room)}) :
            /\ verdict' = Winner(S)
            /\ Send([type |-> "gameOver", time |-> [p \in S |-> score[p]], winner |-> verdict'])
    BY <1>3 DEF SendGameOver
  <2>2. S \in SUBSET PlayerIds /\ online \subseteq Range(room)
    BY <2>1, RangeOfSeq DEF BoardSafe, MatchSafe, MatchTypeOK
  <2>3. verdict' \in S \cup {NoPlayer}
    BY <2>1, WinnerIsListed
  <2>4. [p \in S |-> score[p]] \in [S -> Times]
    BY <2>2 DEF BoardSafe, MatchSafe, MatchTypeOK
  <2> DEFINE k == [type |-> "gameOver", time |-> [p \in S |-> score[p]], winner |-> verdict']
  <2>5. k \in ResultsOf(S) /\ k.type = "gameOver" /\ DOMAIN k.time = S /\ Send(k)
    BY <2>1, <2>3, <2>4 DEF ResultsOf
  <2> HIDE DEF k
  <2>6. k \in Packets
    BY <2>2, <2>5 DEF Packets
  <2>7. PICK packet \in Packets : packet = k
    BY <2>6
  <2>8. ~silent /\ Local \in S /\ (Rejoins => S = online) /\ S \subseteq Range(room)
    BY <1>3, <2>1, <2>2 DEF SendGameOver, Speaking, BoardSafe, RoomOK
  <2>9. ASSUME NEW v \in Views, IsRooms(v)
        PROVE  Fits(v, packet)
    BY <2>5, <2>7, <2>8, <2>9 DEF IsRooms, Fits
  <2> QED
    BY <1>1, <1>2, <2>5, <2>7, <2>8, <2>9, SendBoardSafe DEF IsLastWord
<1>4. CASE Expel
  <2>1. PICK packet : packet = [type |-> "playerDisconnected", id |-> Local]
    OBVIOUS
  <2>2. /\ packet.type = "playerDisconnected" /\ packet.id = Local /\ packet \in Packets
        /\ Send(packet) /\ ~silent /\ Local \in online
    BY <1>4, <2>1, LocalAssumption
       DEF Packets, Departures, Expel, Speaking, BoardSafe, RoomOK
  <2>3. ASSUME NEW v \in Views, IsRooms(v)
        PROVE  Fits(v, packet)
    BY <2>2, <2>3 DEF IsRooms, Fits
  <2> QED
    BY <1>1, <1>2, <2>2, <2>3, SendBoardSafe DEF IsLastWord
<1>5. CASE LoseConnection
  <2>1. PICK packet : packet = [type |-> "connectionLost"]
    OBVIOUS
  <2>2. packet.type = "connectionLost" /\ packet \in Packets /\ Send(packet)
    BY <1>5, <2>1 DEF Packets, Signals, LoseConnection
  <2>3. \A v \in Views : Fits(v, packet)
    BY <2>2 DEF Fits
  <2> QED
    BY <1>1, <1>2, <2>2, <2>3, SendBoardSafe DEF IsLastWord
<1> QED
  BY <1>3, <1>4, <1>5

\* Whatever the server does, what it sends leads to what its room has become.
LEMMA ServerStepBoardSafe == BoardSafe /\ ServerStep => BoardSafe'
<1> SUFFICES ASSUME BoardSafe, ServerStep PROVE BoardSafe'
  OBVIOUS
<1>1. ASSUME NEW p \in PlayerIds, Join(p) PROVE BoardSafe'
  BY <1>1, JoinBoardSafe
<1>2. ASSUME NEW p \in PlayerIds, Leave(p) PROVE BoardSafe'
  BY <1>2, LeaveBoardSafe
<1>3. ASSUME NEW p \in PlayerIds, Return(p) PROVE BoardSafe'
  BY <1>3, ReturnBoardSafe
<1>4. ASSUME NEW p \in PlayerIds, ChangeScene(p) \/ HoldPlatform(p) PROVE BoardSafe'
  BY <1>4, PlayBoardSafe
<1>5. CASE StartCountdown \/ StartRound \/ SendJumpInfo \/ SendFightInfo
  BY <1>5, RoundBoardSafe
<1>6. CASE SendGameOver \/ Expel \/ LoseConnection
  BY <1>6, LastWordBoardSafe
<1> QED
  BY <1>1, <1>2, <1>3, <1>4, <1>5, <1>6 DEF ServerStep

-----------------------------------------------------------------------------
(* The initial state.                                                       *)

\* A client that has just been accepted knows nobody, and the list that is
\* under way names everybody who is there.
LEMMA InitBoardSafe == MatchInit => BoardSafe
<1> SUFFICES ASSUME MatchInit PROVE BoardSafe
  OBVIOUS
<1>1. MatchSafe
  BY InitMatchSafe
<1>2. PICK list \in Announcements :
          /\ Announces(list, room, online)
          /\ inbox = <<[type |-> "connectToRoom"], [type |-> "waitingPlayers", list |-> list]>>
  BY DEF MatchInit
<1>3. IdsIn(list) = online /\ \A i \in DOMAIN list : list[i].time = score[list[i].id]
  BY <1>2 DEF Announces, IdsIn
<1>4. DOMAIN playerInfos = {} /\ DOMAIN players = {} /\ gameState = "none" /\ sceneType = "none"
      /\ failure = "none" /\ ~isConnecting
  BY DEF MatchInit, Init, NoPlayers
<1>5. RoomOK /\ LocalKnown /\ NoUnknownPlayer /\ LastWordOK
  <2>1. Local \in online
    <3>1. CASE Rejoins
      BY <3>1 DEF MatchInit
    <3>2. CASE ~Rejoins
      <4>1. Last(room) = Local /\ online = Range(room)
        BY <3>2 DEF MatchInit
      <4>2. PICK n \in 1..RoomCapacity : room \in [1..n -> PlayerIds]
        BY DEF MatchInit, Rooms
      <4>3. n \in Nat \ {0} /\ n \in 1..n
        BY <4>2, RoomAssumption, BoundsAssumption
      <4>4. room \in Seq(PlayerIds) /\ Len(room) = n /\ DOMAIN room = 1..n
        BY <4>2, <4>3, SeqDef, LenProperties
      <4>5. Last(room) = room[n]
        BY <4>4 DEF Last
      <4> QED
        BY <4>1, <4>3, <4>4, <4>5 DEF Range
    <3> QED
      BY <3>1, <3>2
  <2>2. ~Rejoins => \A p \in PlayerIds : score[p] = 0
    BY DEF MatchInit
  <2> QED
    BY <1>4, <2>1, <2>2 DEF MatchInit, RoomOK, LocalKnown, NoUnknownPlayer, LastWordOK
<1>6. SceneOK
  BY <1>4
     DEF SceneOK, NoFailure, SceneHoldsOneKind, CrownIsCurrent, AllFrozenWhileConnecting, Fresh
<1>7. InformedOK
  <2> DEFINE blank == [present |-> {}, known |-> {}, forgets |-> TRUE]
             full  == [present |-> online, known |-> online, forgets |-> TRUE]
             view  == [i \in 0..2 |-> IF i = 2 THEN full ELSE blank]
  <2>1. Len(inbox) = 2 /\ inbox[1] = [type |-> "connectToRoom"]
        /\ inbox[2] = [type |-> "waitingPlayers", list |-> list]
    BY <1>2
  <2>2. online \subseteq PlayerIds
    BY <1>1, RangeOfSeq DEF MatchSafe, MatchTypeOK
  <2>3. blank \in Views /\ full \in Views
    BY <2>2 DEF Views
  <2>4. view \in [0..Len(inbox) -> Views] /\ view[0] = blank /\ view[1] = blank /\ view[2] = full
    BY <2>1, <2>3
  <2>5. IsMine(blank)
    BY <1>4 DEF IsMine, Present
  <2>6. Fits(blank, inbox[1]) /\ After(blank, inbox[1]) = blank
    BY <2>1 DEF Fits, After
  <2>7. Fits(blank, inbox[2]) /\ After(blank, inbox[2]) = full
    <3>1. ASSUME ~Rejoins, NEW i \in DOMAIN list PROVE list[i].time = 0
      <4>1. list[i].id \in PlayerIds
        BY AnnouncedIds DEF IdsIn
      <4> QED
        BY <1>3, <3>1, <4>1 DEF MatchInit
    <3> QED
      BY <1>3, <2>1, <3>1 DEF Fits, After
  <2>8. IsRooms(full)
    BY DEF IsRooms, MatchInit
  <2> HIDE DEF view, blank, full
  <2>9. \A i \in 1..2 : Fits(view[i - 1], inbox[i]) /\ view[i] = After(view[i - 1], inbox[i])
    <3>1. Fits(view[1 - 1], inbox[1]) /\ view[1] = After(view[1 - 1], inbox[1])
      BY <2>4, <2>6
    <3>2. Fits(view[2 - 1], inbox[2]) /\ view[2] = After(view[2 - 1], inbox[2])
      BY <2>4, <2>7
    <3>3. \A i \in 1..2 : i = 1 \/ i = 2
      OBVIOUS
    <3> QED
      BY <3>1, <3>2, <3>3
  <2>10. Explains(view)
    BY <2>1, <2>4, <2>5, <2>8, <2>9 DEF Explains
  <2> QED
    BY <2>4, <2>10 DEF InformedOK
<1> QED
  BY <1>1, <1>5, <1>6, <1>7 DEF BoardSafe

-----------------------------------------------------------------------------
(* The board.                                                               *)

\* A new time leaves the absence of a player alone; who is back has the rest of
\* its info.
LEMMA WritesKeepRace ==
    ASSUME NEW info \in PlayerInfo, NEW x
    PROVE  /\ [info EXCEPT !.time = x].isDisconnected = info.isDisconnected
           /\ Back(info).time = info.time /\ Back(info).ahead = info.ahead
           /\ Back(info).isWinner = info.isWinner /\ Back(info).isDisconnected = FALSE
BY DEF PlayerInfo, Back

\* Only times, absences and the order decide who leads.
LEMMA LeadsSame ==
    ASSUME NEW S, NEW infos, NEW others, NEW p,
           \A q \in S : /\ others[q].time = infos[q].time
                        /\ others[q].isDisconnected = infos[q].isDisconnected
                        /\ others[q].ahead = infos[q].ahead
    PROVE  Leads(infos, S, p) <=> Leads(others, S, p)
BY DEF Leads

\* Players without any time can be left out of the search.
LEMMA LatecomersDoNotLead ==
    ASSUME NEW D, NEW S \in SUBSET D, NEW infos \in [D -> PlayerInfo], NEW p,
           \A q \in D \ S : infos[q].time = 0
    PROVE  Leads(infos, D, p) <=> Leads(infos, S, p)
<1>1. \A q \in D : infos[q].time \in Nat
  BY BoundsAssumption DEF PlayerInfo, Times
<1>2. ASSUME Leads(infos, D, p) PROVE Leads(infos, S, p)
  <2>1. p \in D /\ infos[p].time > 0
    BY <1>2 DEF Leads
  <2>2. p \in S
    BY <1>1, <2>1
  <2> QED
    BY <1>2, <2>2 DEF Leads
<1>3. ASSUME Leads(infos, S, p) PROVE Leads(infos, D, p)
  <2>1. p \in D /\ infos[p].time > 0
    BY <1>3 DEF Leads
  <2>2. \A q \in D \ S : infos[q].time < infos[p].time
    BY <1>1, <2>1
  <2> QED
    BY <1>3, <2>1, <2>2 DEF Leads
<1> QED
  BY <1>2, <1>3

Crowned(infos) == \A p \in DOMAIN infos : infos[p].isWinner <=> Leads(infos, DOMAIN infos, p)

\* A search for the leader changes the flags and nothing that decides the search.
LEMMA LiderKeepsRace ==
    ASSUME NEW D, NEW infos \in [D -> PlayerInfo], NEW S
    PROVE  /\ DOMAIN DetectLider(infos, S) = D
           /\ \A p \in D : /\ DetectLider(infos, S)[p].time = infos[p].time
                           /\ DetectLider(infos, S)[p].ahead = infos[p].ahead
                           /\ DetectLider(infos, S)[p].isDisconnected = infos[p].isDisconnected
                           /\ DetectLider(infos, S)[p].isWinner <=> Leads(infos, S, p)
<1>1. DOMAIN infos = D /\ \A p \in D : infos[p] \in PlayerInfo
  OBVIOUS
<1> DEFINE found == DetectLider(infos, S)
<1>2. \A p \in D : found[p] = [infos[p] EXCEPT !.isWinner = Leads(infos, S, p)]
  BY <1>1 DEF DetectLider
<1>3. DOMAIN found = D
  BY <1>1 DEF DetectLider
<1> HIDE DEF found
<1>4. ASSUME NEW p \in D
      PROVE  /\ found[p].time = infos[p].time
             /\ found[p].ahead = infos[p].ahead
             /\ found[p].isDisconnected = infos[p].isDisconnected
             /\ found[p].isWinner <=> Leads(infos, S, p)
  <2>1. infos[p] \in PlayerInfo /\ Leads(infos, S, p) \in BOOLEAN
    BY <1>1 DEF Leads
  <2> QED
    BY <1>2, <2>1 DEF PlayerInfo
<1> QED
  BY <1>3, <1>4 DEF found

\* A search leaves out nobody who could lead.
LEMMA LiderCrowns ==
    ASSUME NEW D, NEW infos \in [D -> PlayerInfo], NEW S \in SUBSET D,
           \A p \in D \ S : infos[p].time = 0
    PROVE  Crowned(DetectLider(infos, S))
<1> DEFINE found == DetectLider(infos, S)
<1>1. /\ DOMAIN found = D
      /\ \A p \in D : /\ found[p].time = infos[p].time
                      /\ found[p].ahead = infos[p].ahead
                      /\ found[p].isDisconnected = infos[p].isDisconnected
                      /\ found[p].isWinner <=> Leads(infos, S, p)
  BY LiderKeepsRace
<1> HIDE DEF found
<1>2. ASSUME NEW p \in D PROVE found[p].isWinner <=> Leads(found, D, p)
  <2>1. Leads(infos, D, p) <=> Leads(infos, S, p)
    BY LatecomersDoNotLead
  <2>2. Leads(infos, D, p) <=> Leads(found, D, p)
    BY <1>1, LeadsSame
  <2> QED
    BY <1>1, <2>1, <2>2
<1>3. Crowned(found)
  BY <1>1, <1>2 DEF Crowned
<1> QED
  BY <1>3 DEF found

\* Nobody leads in a race that has not begun.
LEMMA NobodyLeads ==
    ASSUME NEW infos, \A p \in DOMAIN infos : infos[p].time = 0 /\ ~infos[p].isWinner
    PROVE  Crowned(infos)
<1>1. ~(0 > 0)
  OBVIOUS
<1>2. ASSUME NEW p \in DOMAIN infos PROVE ~Leads(infos, DOMAIN infos, p)
  BY <1>1 DEF Leads
<1> QED
  BY <1>2 DEF Crowned

\* What an announcement makes of the board.
LEMMA AnnouncementEffect ==
    ASSUME Safe, NEW list \in Announcements, HandleConnectedPlayers(list)
    PROVE  /\ DOMAIN playerInfos' = DOMAIN playerInfos \cup IdsIn(list)
           /\ Present(playerInfos)' = Present(playerInfos) \cup IdsIn(list)
           /\ \A p \in DOMAIN playerInfos : playerInfos'[p].time = playerInfos[p].time
           /\ \A p \in IdsIn(list) \ DOMAIN playerInfos :
                 playerInfos'[p].time = list[PlaceOf(list, p)].time
           /\ (/\ Crowned(playerInfos)
               /\ \A p \in IdsIn(list) \ DOMAIN playerInfos : list[PlaceOf(list, p)].time = 0)
                  => Crowned(playerInfos)'
<1> DEFINE known == DOMAIN playerInfos
           back  == {i \in DOMAIN list : list[i].id \in known /\ playerInfos[list[i].id].isDisconnected}
           new   == IdsIn(list) \ known
           Earlier(p) == {list[i].id : i \in 1..(PlaceOf(list, p) - 1)}
           NewInfo(p) == [color |-> ColorOf(list, p), time |-> list[PlaceOf(list, p)].time,
                          ahead |-> known \cup (Earlier(p) \cap new),
                          isWinner |-> FALSE, isLocalPlayer |-> p = localPlayerId,
                          isPaused |-> FALSE, isDisconnected |-> FALSE]
           infos == [p \in known \cup new |->
                       IF p \in new THEN NewInfo(p)
                       ELSE IF \E i \in back : list[i].id = p
                       THEN Back(playerInfos[p])
                       ELSE playerInfos[p]]
           seen  == known \cup {p \in new : \E i \in back : PlaceOf(list, p) < i}
           D == known \cup new
<1>1. D \subseteq PlayerIds /\ \A p \in known : playerInfos[p] \in PlayerInfo
  BY AnnouncedIds DEF Safe, TypeOK, IsPartialFunction
<1>2. ASSUME NEW p \in new
      PROVE  /\ infos[p] \in PlayerInfo
             /\ infos[p].time = list[PlaceOf(list, p)].time
             /\ ~infos[p].isWinner /\ ~infos[p].isDisconnected
  <2>1. infos[p] = NewInfo(p)
    OBVIOUS
  <2>2. PlaceOf(list, p) \in 1..MaxPlayers /\ list[PlaceOf(list, p)].time \in Times
    BY PlaceOfAnnounced
  <2>3. known \cup (Earlier(p) \cap new) \subseteq PlayerIds
    BY <1>1
  <2> HIDE DEF known, new, Earlier
  <2>4. /\ NewInfo(p) \in PlayerInfo
        /\ NewInfo(p).time = list[PlaceOf(list, p)].time
        /\ ~NewInfo(p).isWinner /\ ~NewInfo(p).isDisconnected
    BY <2>2, <2>3 DEF PlayerInfo, ColorOf
  <2> QED
    BY <2>1, <2>4
<1>3. ASSUME NEW p \in known
      PROVE  /\ infos[p] \in PlayerInfo
             /\ infos[p].time = playerInfos[p].time
             /\ infos[p].ahead = playerInfos[p].ahead
             /\ infos[p].isWinner = playerInfos[p].isWinner
             /\ infos[p].isDisconnected <=> playerInfos[p].isDisconnected /\ p \notin IdsIn(list)
             /\ back = {} => infos[p] = playerInfos[p]
  <2>1. CASE \E i \in back : list[i].id = p
    <3>1. infos[p] = Back(playerInfos[p]) /\ back # {} /\ p \in IdsIn(list)
      BY <2>1 DEF IdsIn
    <3>2. Back(playerInfos[p]) \in PlayerInfo
      BY <1>1 DEF PlayerInfo, Back
    <3> HIDE DEF infos, back
    <3>3. /\ Back(playerInfos[p]).time = playerInfos[p].time
          /\ Back(playerInfos[p]).ahead = playerInfos[p].ahead
          /\ Back(playerInfos[p]).isWinner = playerInfos[p].isWinner
          /\ Back(playerInfos[p]).isDisconnected = FALSE
      BY <1>1, WritesKeepRace
    <3> QED
      BY <3>1, <3>2, <3>3
  <2>2. CASE ~\E i \in back : list[i].id = p
    <3>1. infos[p] = playerInfos[p]
      BY <2>2
    <3>2. p \in IdsIn(list) => ~playerInfos[p].isDisconnected
      BY <2>2 DEF IdsIn
    <3>3. playerInfos[p].isDisconnected \in BOOLEAN
      BY <1>1 DEF PlayerInfo
    <3> QED
      BY <1>1, <3>1, <3>2, <3>3
  <2> QED
    BY <2>1, <2>2
<1>4. infos \in [D -> PlayerInfo]
  BY <1>2, <1>3
<1>5. back = {} => playerInfos' = infos
  BY DEF HandleConnectedPlayers
<1>6. back # {} => playerInfos' = DetectLider(infos, seen)
  BY DEF HandleConnectedPlayers
<1>7. seen \subseteq D /\ D \ seen \subseteq new
  OBVIOUS
<1>8. D = known \cup IdsIn(list)
  OBVIOUS
<1> HIDE DEF infos, seen, D, back
<1>9. /\ DOMAIN playerInfos' = D
      /\ \A p \in D : /\ playerInfos'[p].time = infos[p].time
                      /\ playerInfos'[p].isDisconnected = infos[p].isDisconnected
  BY <1>4, <1>5, <1>6, LiderKeepsRace
<1>10. Present(playerInfos)' = Present(playerInfos) \cup IdsIn(list)
  BY <1>2, <1>3, <1>8, <1>9 DEF Present
<1>11. ASSUME Crowned(playerInfos), \A p \in new : list[PlaceOf(list, p)].time = 0
       PROVE  Crowned(playerInfos)'
  <2>1. \A p \in new : infos[p].time = 0
    BY <1>2, <1>11
  <2>2. CASE back # {}
    <3>1. \A p \in D \ seen : infos[p].time = 0
      BY <1>7, <2>1
    <3>2. Crowned(DetectLider(infos, seen))
      BY <1>4, <1>7, <3>1, LiderCrowns
    <3> QED
      BY <1>6, <2>2, <3>2 DEF Crowned
  <2>3. CASE back = {}
    <3>1. known \in SUBSET D
      BY <1>8
    <3>2. \A q \in D \ known : infos[q].time = 0
      BY <1>8, <2>1
    <3>3. ASSUME NEW p \in D PROVE infos[p].isWinner <=> Leads(infos, D, p)
      <4>1. Leads(infos, D, p) <=> Leads(infos, known, p)
        <5> HIDE DEF known
        <5> QED
          BY <1>4, <3>1, <3>2, LatecomersDoNotLead
      <4>2. Leads(infos, known, p) <=> Leads(playerInfos, known, p)
        <5>1. \A q \in known : /\ infos[q].time = playerInfos[q].time
                                /\ infos[q].isDisconnected = playerInfos[q].isDisconnected
                                /\ infos[q].ahead = playerInfos[q].ahead
          BY <1>3, <2>3
        <5> HIDE DEF known
        <5> QED
          BY <5>1, LeadsSame
      <4>3. CASE p \in known
        BY <1>3, <1>11, <4>1, <4>2, <4>3 DEF Crowned
      <4>4. CASE p \notin known
        <5>1. p \in new /\ ~infos[p].isWinner
          BY <1>2, <1>8, <4>4
        <5>2. ~Leads(infos, known, p)
          BY <4>4 DEF Leads
        <5> QED
          BY <4>1, <5>1, <5>2
      <4> QED
        BY <4>3, <4>4
    <3>4. DOMAIN infos = D
      BY <1>4
    <3> QED
      BY <1>5, <2>3, <3>3, <3>4 DEF Crowned
  <2> QED
    BY <2>2, <2>3
<1> QED
  BY <1>2, <1>3, <1>8, <1>9, <1>10, <1>11

\* What a departure makes of the board, unless it is the local player's.
Departed(id) ==
    /\ UNCHANGED <<localPlayerId, sceneType, gameState, isConnecting, connected, quitPending,
                   shownResult, failure>>
    /\ DOMAIN playerInfos' = IF ForgetsLeavers THEN DOMAIN playerInfos \ {id} ELSE DOMAIN playerInfos
    /\ Present(playerInfos)' = Present(playerInfos) \ {id}
    /\ \A p \in DOMAIN playerInfos' : playerInfos'[p].time = playerInfos[p].time
    /\ DOMAIN players' \subseteq DOMAIN players
    /\ \A p \in DOMAIN players' : players'[p] = players[p]
    /\ (/\ Crowned(playerInfos)
        /\ ForgetsLeavers => \A p \in DOMAIN playerInfos : playerInfos[p].time = 0)
           => Crowned(playerInfos)'

\* A departure is that, or the end of the game of the player who reads it.
LEMMA DepartureEffect ==
    ASSUME Safe, NEW id \in PlayerIds, HandleDisconnectedPlayer(id)
    PROVE  \/ /\ StopAndWaitDisconnection /\ UNCHANGED connected
              /\ id \in DOMAIN playerInfos /\ playerInfos[id].isLocalPlayer
           \/ /\ ~(id \in DOMAIN playerInfos /\ playerInfos[id].isLocalPlayer)
              /\ Departed(id)
<1> DEFINE D == DOMAIN playerInfos
<1>1. D \in SUBSET PlayerIds /\ playerInfos \in [D -> PlayerInfo]
  BY DEF Safe, TypeOK, IsPartialFunction
<1>2. CASE id \notin D /\ UNCHANGED vars
  BY <1>2 DEF Departed, vars, Present, Crowned
<1>3. CASE /\ id \in D /\ ~playerInfos[id].isLocalPlayer /\ ForgetsLeavers
           /\ playerInfos' = [p \in D \ {id} |-> [playerInfos[p] EXCEPT !.ahead = @ \ {id}]]
           /\ players' = [p \in DOMAIN players \ {id} |-> players[p]]
           /\ UNCHANGED <<localPlayerId, sceneType, gameState, isConnecting, serverUpdateDelay,
                          connected, quitPending, shownResult, failure>>
  <2>1. /\ DOMAIN playerInfos' = D \ {id}
        /\ \A p \in D \ {id} : playerInfos'[p] = [playerInfos[p] EXCEPT !.ahead = @ \ {id}]
    BY <1>3
  <2>2. ASSUME NEW p \in D \ {id}
        PROVE  /\ playerInfos'[p].time = playerInfos[p].time
               /\ playerInfos'[p].isDisconnected = playerInfos[p].isDisconnected
               /\ playerInfos'[p].isWinner = playerInfos[p].isWinner
    <3>1. playerInfos[p] \in PlayerInfo
      BY <1>1
    <3>2. playerInfos'[p] = [playerInfos[p] EXCEPT !.ahead = @ \ {id}]
      BY <2>1
    <3> QED
      BY <3>1, <3>2 DEF PlayerInfo
  <2>3. Present(playerInfos)' = Present(playerInfos) \ {id}
    BY <2>1, <2>2 DEF Present
  <2>4. ASSUME Crowned(playerInfos), \A p \in D : playerInfos[p].time = 0
        PROVE  Crowned(playerInfos)'
    <3>1. ~(0 > 0)
      OBVIOUS
    <3>2. \A p \in D : ~playerInfos[p].isWinner
      BY <2>4, <3>1 DEF Crowned, Leads
    <3>3. \A p \in DOMAIN playerInfos' : playerInfos'[p].time = 0 /\ ~playerInfos'[p].isWinner
      BY <2>1, <2>2, <2>4, <3>2
    <3>4. \A infos : infos = playerInfos' => Crowned(infos)
      BY <3>3, NobodyLeads
    <3> QED
      BY <3>4 DEF Crowned
  <2> QED
    BY <1>3, <2>1, <2>2, <2>3, <2>4 DEF Departed
<1>4. CASE /\ id \in D /\ ~playerInfos[id].isLocalPlayer /\ ~ForgetsLeavers
           /\ playerInfos' = DetectLider([playerInfos EXCEPT ![id].isDisconnected = TRUE], D)
           /\ UNCHANGED <<localPlayerId, sceneType, gameState, players, isConnecting,
                          serverUpdateDelay, connected, quitPending, shownResult, failure>>
  <2> DEFINE marked == [playerInfos EXCEPT ![id].isDisconnected = TRUE]
  <2>1. /\ [playerInfos[id] EXCEPT !.isDisconnected = TRUE] \in PlayerInfo
        /\ [playerInfos[id] EXCEPT !.isDisconnected = TRUE].time = playerInfos[id].time
        /\ [playerInfos[id] EXCEPT !.isDisconnected = TRUE].isDisconnected
    BY <1>1, <1>4 DEF PlayerInfo
  <2>2. marked = [playerInfos EXCEPT ![id] = [playerInfos[id] EXCEPT !.isDisconnected = TRUE]]
    BY <1>1
  <2>3. /\ marked \in [D -> PlayerInfo]
        /\ \A p \in D : marked[p].time = playerInfos[p].time
        /\ \A p \in D : p # id => marked[p].isDisconnected = playerInfos[p].isDisconnected
        /\ marked[id].isDisconnected
    BY <1>1, <1>4, <2>1, <2>2
  <2>4. playerInfos' = DetectLider(marked, D)
    BY <1>4
  <2> HIDE DEF marked, D
  <2>5. /\ DOMAIN playerInfos' = D
        /\ \A p \in D : /\ playerInfos'[p].time = marked[p].time
                        /\ playerInfos'[p].isDisconnected = marked[p].isDisconnected
    BY <2>3, <2>4, LiderKeepsRace
  <2>6. Present(playerInfos)' = Present(playerInfos) \ {id}
    BY <2>3, <2>5 DEF Present, D
  <2>7. Crowned(playerInfos)'
    <3>1. Crowned(DetectLider(marked, D))
      BY <2>3, LiderCrowns
    <3> QED
      BY <2>4, <3>1 DEF Crowned
  <2>8. \A p \in D : playerInfos'[p].time = playerInfos[p].time
    BY <2>3, <2>5
  <2> QED
    BY <1>4, <2>5, <2>6, <2>7, <2>8 DEF Departed, D
<1> QED
  BY <1>2, <1>3, <1>4 DEF HandleDisconnectedPlayer

\* What an info about known players makes of the board.
Informed ==
    /\ DOMAIN playerInfos' = DOMAIN playerInfos
    /\ Present(playerInfos)' = Present(playerInfos)
    /\ Crowned(playerInfos) => Crowned(playerInfos)'

\* Pausing players changes nothing that decides who leads.
LEMMA PausedRace ==
    ASSUME NEW D, NEW infos \in [D -> PlayerInfo], NEW listed, NEW paused
    PROVE  /\ DOMAIN WithPaused(infos, listed, paused) = D
           /\ \A p \in D :
                 /\ WithPaused(infos, listed, paused)[p].time = infos[p].time
                 /\ WithPaused(infos, listed, paused)[p].ahead = infos[p].ahead
                 /\ WithPaused(infos, listed, paused)[p].isDisconnected = infos[p].isDisconnected
                 /\ WithPaused(infos, listed, paused)[p].isWinner = infos[p].isWinner
<1> DEFINE w == WithPaused(infos, listed, paused)
<1>1. DOMAIN w = D
  BY DEF WithPaused
<1>2. ASSUME NEW p \in D
      PROVE  /\ w[p].time = infos[p].time
             /\ w[p].ahead = infos[p].ahead
             /\ w[p].isDisconnected = infos[p].isDisconnected
             /\ w[p].isWinner = infos[p].isWinner
  <2>1. w[p] = infos[p] \/ w[p] = [infos[p] EXCEPT !.isPaused = (p \in paused)]
    BY DEF WithPaused
  <2>2. infos[p] \in PlayerInfo /\ (p \in paused) \in BOOLEAN
    OBVIOUS
  <2> HIDE DEF w
  <2> QED
    BY <2>1, <2>2 DEF PlayerInfo
<1> HIDE DEF w
<1>3. w = WithPaused(infos, listed, paused)
  BY DEF w
<1> QED
  BY <1>1, <1>2, <1>3

\* A jump info about known players fails only on an object of the other scene.
LEMMA JumpInfoEffect ==
    ASSUME Safe, NEW listed \in SUBSET PlayerIds, HandleJumpInfo(listed, {}),
           listed \subseteq DOMAIN playerInfos
    PROVE  /\ Informed
           /\ \/ UNCHANGED vars /\ InfoIsIgnored
              \/ Fail("wrongClass") /\ WrongClass("jump", listed)
              \/ ~InfoIsIgnored /\ SynchronizeScene("jump", listed, {}, "jumping")
<1>1. ~UnknownPlayer(listed)
  BY DEF UnknownPlayer
<1>2. playerInfos \in [DOMAIN playerInfos -> PlayerInfo]
  BY DEF Safe, TypeOK, IsPartialFunction
<1>3. CASE UNCHANGED playerInfos
  BY <1>1, <1>3 DEF HandleJumpInfo, Informed, Present, Crowned
<1>4. CASE playerInfos' = WithPaused(playerInfos, listed, {})
  <2>1. /\ DOMAIN playerInfos' = DOMAIN playerInfos
        /\ \A p \in DOMAIN playerInfos :
              /\ playerInfos'[p].time = playerInfos[p].time
              /\ playerInfos'[p].ahead = playerInfos[p].ahead
              /\ playerInfos'[p].isDisconnected = playerInfos[p].isDisconnected
              /\ playerInfos'[p].isWinner = playerInfos[p].isWinner
    BY <1>2, <1>4, PausedRace
  <2>2. Present(playerInfos)' = Present(playerInfos)
    BY <2>1 DEF Present
  <2>3. Crowned(playerInfos) => Crowned(playerInfos)'
    <3>1. \A p \in DOMAIN playerInfos :
             Leads(playerInfos, DOMAIN playerInfos, p) <=> Leads(playerInfos', DOMAIN playerInfos, p)
      BY <2>1, LeadsSame
    <3> QED
      BY <2>1, <3>1 DEF Crowned
  <2> QED
    BY <1>1, <2>1, <2>2, <2>3 DEF HandleJumpInfo, Informed
<1> QED
  BY <1>1, <1>3, <1>4 DEF HandleJumpInfo, Fail, vars

\* A fight info with new times crowns whoever leads by them.
LEMMA FightInfoEffect ==
    ASSUME Safe, NEW listed \in SUBSET PlayerIds, NEW time \in [listed -> Times],
           HandleFightInfo(listed, {}, time), listed \subseteq DOMAIN playerInfos
    PROVE  /\ Informed
           /\ \/ UNCHANGED vars /\ InfoIsIgnored
              \/ Fail("wrongClass") /\ WrongClass("fight", listed)
              \/ ~InfoIsIgnored /\ SynchronizeScene("fight", listed, {}, "fighting")
<1> DEFINE D == DOMAIN playerInfos
           timed == [p \in DOMAIN playerInfos |->
              IF p \in listed THEN [playerInfos[p] EXCEPT !.time = time[p]] ELSE playerInfos[p]]
           infos == WithPaused(timed, listed, {})
<1>1. ~UnknownPlayer(listed)
  BY DEF UnknownPlayer
<1>2. D \in SUBSET PlayerIds /\ playerInfos \in [D -> PlayerInfo]
  BY DEF Safe, TypeOK, IsPartialFunction
<1>3. \/ UNCHANGED vars /\ InfoIsIgnored
      \/ Fail("wrongClass") /\ WrongClass("fight", listed)
      \/ ~InfoIsIgnored /\ SynchronizeScene("fight", listed, {}, "fighting")
  BY <1>1 DEF HandleFightInfo
<1>4. UNCHANGED playerInfos \/ playerInfos' = DetectLider(infos, DOMAIN infos)
  BY <1>1 DEF HandleFightInfo, Fail, vars
<1>5. CASE UNCHANGED playerInfos
  BY <1>3, <1>5 DEF Informed, Present, Crowned
<1>6. CASE playerInfos' = DetectLider(infos, DOMAIN infos)
  <2>1. timed \in [D -> PlayerInfo]
    <3>1. \A f : f = timed => f \in [DOMAIN playerInfos -> PlayerInfo]
      BY NewTimes
    <3> QED
      BY <3>1
  <2>2. \A p \in D : timed[p].isDisconnected = playerInfos[p].isDisconnected
    BY <1>2, WritesKeepRace
  <2> HIDE DEF timed, D
  <2>3. /\ infos \in [D -> PlayerInfo] /\ DOMAIN infos = D
        /\ \A p \in D : infos[p].isDisconnected = timed[p].isDisconnected
    BY <1>2, <2>1, WithPausedType, PausedRace
  <2> HIDE DEF infos
  <2>4. playerInfos' = DetectLider(infos, D)
    BY <1>6, <2>3
  <2>5. /\ DOMAIN playerInfos' = D
        /\ \A p \in D : playerInfos'[p].isDisconnected = infos[p].isDisconnected
    BY <2>3, <2>4, LiderKeepsRace
  <2>6. Crowned(playerInfos)'
    <3>1. Crowned(DetectLider(infos, D))
      BY <2>3, LiderCrowns
    <3> QED
      BY <2>4, <3>1 DEF Crowned
  <2>7. Present(playerInfos)' = Present(playerInfos)
    BY <2>2, <2>3, <2>5 DEF Present, D
  <2> QED
    BY <1>3, <2>5, <2>6, <2>7 DEF Informed, D
<1> QED
  BY <1>4, <1>5, <1>6

-----------------------------------------------------------------------------
(* The scene.                                                               *)

\* A scene of one kind is never handed the object of the other.
LEMMA NoWrongClass ==
    ASSUME SceneHoldsOneKind, NEW kind \in {"jump", "fight"}, NEW listed
    PROVE  ~WrongClass(kind, listed)
BY DEF SceneHoldsOneKind, WrongClass, PlayersKept, NoPlayers

\* An info changes a scene whole: its kind, its objects and the state at once.
LEMMA SceneSynchronized ==
    ASSUME SceneHoldsOneKind, AllFrozenWhileConnecting, sceneType = "fight" => ~Fresh,
           gameState = "disconnected" => sceneType = "none",
           NEW kind, NEW playing,
           \/ kind = "jump" /\ playing = "jumping"
           \/ kind = "fight" /\ playing = "fighting",
           NEW listed, SynchronizeScene(kind, listed, {}, playing)
    PROVE  /\ SceneHoldsOneKind' /\ AllFrozenWhileConnecting' /\ (sceneType' = "fight" => ~Fresh')
           /\ gameState' = "disconnected" => sceneType' = "none"
           /\ Fresh' => Fresh
<1>1. CASE /\ SceneFor(kind, listed) = kind
           /\ gameState' = playing
           /\ players' = [p \in listed |->
                 [kind |-> kind, isPaused |-> p \in {},
                  isFrozen |-> StillFrozen(PlayersKept(kind, listed), p)]]
           /\ isConnecting' = FALSE
  BY <1>1
     DEF SynchronizeScene, SceneHoldsOneKind, AllFrozenWhileConnecting, Fresh
<1>2. CASE /\ SceneFor(kind, listed) # kind
           /\ UNCHANGED <<gameState, players, isConnecting>>
  <2>1. sceneType' = sceneType
    BY <1>2 DEF SynchronizeScene, SceneFor
  <2> QED
    BY <1>2, <2>1 DEF SceneHoldsOneKind, AllFrozenWhileConnecting, Fresh
<1> QED
  BY <1>1, <1>2 DEF SynchronizeScene

-----------------------------------------------------------------------------
(* The client.                                                              *)

\* What the handler of a packet k that makes sense in the client's view v has
\* to leave behind.
Handled(v, k) ==
    /\ connected' => gameState' = "waitDisconnection" \/ IsMine(After(v, k))'
    /\ NoUnknownPlayer' /\ localPlayerId' = Local
    /\ ~Rejoins => SceneOK'
    /\ IsLastWord(k) => ~connected' \/ gameState' \in Ended

\* No result is shown as long as there are packets to handle.
LEMMA CrownWhileConnected ==
    ASSUME Safe, connected
    PROVE  CrownIsCurrent <=> Crowned(playerInfos)
BY DEF Safe, ResultClosesConnection, CrownIsCurrent, Crowned

\* CrownIsCurrent asks no more of a board than Crowned.
LEMMA CrownIsKept ==
    ASSUME Crowned(playerInfos)'
    PROVE  CrownIsCurrent'
BY DEF CrownIsCurrent, Crowned

\* The room's answer opens the hill, on a scene nobody is on yet.
LEMMA AcceptanceHandled ==
    ASSUME BoardSafe, NEW v \in Views, IsMine(v), NEW k \in Packets, k.type = "connectToRoom",
           StartWithPlayerId(Local)
    PROVE  Handled(v, k)
<1>1. /\ gameState = "none" /\ gameState' = "waitingOthers" /\ sceneType' = "jump"
      /\ localPlayerId' = Local
      /\ UNCHANGED <<playerInfos, players, isConnecting, connected, shownResult, failure>>
  BY DEF StartWithPlayerId
<1>2. After(v, k) = v
  BY DEF After
<1>3. IsMine(After(v, k))'
  BY <1>1, <1>2 DEF IsMine, Present
<1>4. NoUnknownPlayer' /\ ~IsLastWord(k)
  BY <1>1 DEF BoardSafe, NoUnknownPlayer, IsLastWord
<1>5. ~Rejoins => SceneOK'
  <2> SUFFICES ASSUME ~Rejoins PROVE SceneOK'
    OBVIOUS
  <2>1. DOMAIN players = {}
    BY <1>1 DEF BoardSafe, SceneOK
  <2> QED
    BY <1>1, <2>1
       DEF BoardSafe, SceneOK, NoFailure, SceneHoldsOneKind, CrownIsCurrent, Leads,
           AllFrozenWhileConnecting, Fresh
<1> QED
  BY <1>1, <1>3, <1>4, <1>5 DEF Handled

\* Only a room that waits introduces players, and then the scene is the hill.
LEMMA AnnouncementHandled ==
    ASSUME BoardSafe, NEW v \in Views, IsMine(v), NEW k \in Packets, Fits(v, k),
           k.type = "waitingPlayers", HandleConnectedPlayers(k.list),
           gameState \notin {"none", "gameOver", "waitDisconnection"}
    PROVE  Handled(v, k)
<1> DEFINE list == k.list
           new == IdsIn(list) \ DOMAIN playerInfos
<1>1. Safe /\ list \in Announcements
  BY PacketFields DEF BoardSafe, MatchSafe
<1>2. /\ UNCHANGED <<localPlayerId, sceneType, gameState, isConnecting, connected, failure>>
      /\ players' = [p \in DOMAIN players \cup new |->
                        IF p \in new THEN NewPlayer("jump") ELSE players[p]]
      /\ connected
  BY DEF HandleConnectedPlayers, Receiving
<1>3. /\ DOMAIN playerInfos' = DOMAIN playerInfos \cup IdsIn(list)
      /\ Present(playerInfos)' = Present(playerInfos) \cup IdsIn(list)
      /\ \A p \in DOMAIN playerInfos : playerInfos'[p].time = playerInfos[p].time
      /\ \A p \in new : playerInfos'[p].time = list[PlaceOf(list, p)].time
      /\ (/\ Crowned(playerInfos)
          /\ \A p \in new : list[PlaceOf(list, p)].time = 0) => Crowned(playerInfos)'
  BY <1>1, AnnouncementEffect
<1>4. /\ After(v, k).present = v.present \cup IdsIn(list)
      /\ After(v, k).known = v.known \cup IdsIn(list)
      /\ After(v, k).forgets = v.forgets
  BY DEF After
<1>5. IsMine(After(v, k))'
  BY <1>2, <1>3, <1>4 DEF IsMine
<1>6. NoUnknownPlayer' /\ localPlayerId' = Local /\ ~IsLastWord(k)
  BY <1>2 DEF BoardSafe, NoUnknownPlayer, LocalKnown, IsLastWord
<1>7. ASSUME ~Rejoins PROVE SceneOK'
  <2>1. \A p \in new : list[PlaceOf(list, p)].time = 0
    <3> SUFFICES ASSUME NEW p \in new PROVE list[PlaceOf(list, p)].time = 0
      OBVIOUS
    <3>1. PlaceOf(list, p) \in DOMAIN list /\ list[PlaceOf(list, p)].id = p
      BY <1>1, PlaceOfAnnounced
    <3>2. p \notin v.known
      BY <1>7 DEF IsMine
    <3> QED
      BY <1>7, <3>1, <3>2 DEF Fits
  <2>2. CrownIsCurrent'
    <3>1. Crowned(playerInfos)
      BY <1>1, <1>2, <1>7, CrownWhileConnected DEF BoardSafe, SceneOK
    <3>2. Crowned(playerInfos)'
      BY <1>3, <2>1, <3>1
    <3> QED
      BY <3>2, CrownIsKept
  <2>3. Fresh \/ gameState = "disconnected" \/ new = {}
    BY <1>7 DEF IsMine, Fits, Fresh
  <2>4. SceneHoldsOneKind'
    <3>1. NewPlayer("jump").kind = "jump"
      BY DEF NewPlayer
    <3>2. sceneType # "none" => new = {} \/ sceneType = "jump"
      BY <1>1, <1>7, <2>3 DEF BoardSafe, SceneOK, Safe, TypeOK, SceneTypes
    <3>3. SceneHoldsOneKind
      BY <1>7 DEF BoardSafe, SceneOK
    <3> HIDE DEF new
    <3> QED
      BY <1>2, <3>1, <3>2, <3>3 DEF SceneHoldsOneKind
  <2>5. AllFrozenWhileConnecting'
    <3>1. gameState \in {"jumping", "fighting"} => new = {}
      BY <2>3 DEF Fresh
    <3>2. AllFrozenWhileConnecting
      BY <1>7 DEF BoardSafe, SceneOK
    <3> HIDE DEF new
    <3> QED
      BY <1>2, <3>1, <3>2 DEF AllFrozenWhileConnecting
  <2>6. Fresh' => \A p \in DOMAIN playerInfos' : playerInfos'[p].time = 0
    <3> SUFFICES ASSUME Fresh', NEW p \in DOMAIN playerInfos' PROVE playerInfos'[p].time = 0
      OBVIOUS
    <3>1. \A q \in DOMAIN playerInfos : playerInfos[q].time = 0
      BY <1>2, <1>7 DEF BoardSafe, SceneOK, Fresh
    <3>2. p \in DOMAIN playerInfos \/ p \in new
      BY <1>3
    <3> QED
      BY <1>3, <2>1, <3>1, <3>2
  <2>7. NoFailure' /\ (sceneType' = "fight" => ~Fresh')
        /\ (gameState' = "disconnected" => sceneType' = "none") /\ gameState' # "none"
    BY <1>2, <1>7 DEF BoardSafe, SceneOK, NoFailure, Fresh
  <2> QED
    BY <2>2, <2>4, <2>5, <2>6, <2>7 DEF SceneOK
<1> QED
  BY <1>5, <1>6, <1>7 DEF Handled

\* The client forgets whom the room forgets, by its own idea of the phase.
LEMMA DepartureHandled ==
    ASSUME BoardSafe, NEW v \in Views, IsMine(v), NEW k \in Packets, Fits(v, k),
           k.type = "playerDisconnected", HandleDisconnectedPlayer(k.id),
           gameState \notin {"none", "gameOver", "waitDisconnection"}
    PROVE  Handled(v, k)
<1>1. Safe /\ k.id \in PlayerIds /\ connected
  BY PacketFields DEF BoardSafe, MatchSafe, HandleDisconnectedPlayer, Receiving
<1>2. CASE StopAndWaitDisconnection /\ UNCHANGED connected
  <2>1. /\ gameState' = "waitDisconnection" /\ DOMAIN players' = {}
        /\ UNCHANGED <<localPlayerId, sceneType, playerInfos, isConnecting, shownResult, failure>>
    BY <1>2 DEF StopAndWaitDisconnection, NoPlayers
  <2>2. NoUnknownPlayer' /\ localPlayerId' = Local
    BY <2>1 DEF BoardSafe, NoUnknownPlayer, LocalKnown
  <2>3. ~Rejoins => SceneOK'
    BY <2>1
       DEF BoardSafe, SceneOK, NoFailure, SceneHoldsOneKind, CrownIsCurrent, Leads,
           AllFrozenWhileConnecting, Fresh
  <2> QED
    BY <2>1, <2>2, <2>3 DEF Handled, Ended
<1>3. CASE /\ ~(k.id \in DOMAIN playerInfos /\ playerInfos[k.id].isLocalPlayer)
           /\ Departed(k.id)
  <2>1. ~IsLastWord(k)
    <3> SUFFICES ASSUME k.id = Local PROVE FALSE
      BY DEF IsLastWord
    <3>1. Local \in Present(playerInfos)
      BY DEF Fits, IsMine
    <3> QED
      BY <1>3, <3>1 DEF Present, BoardSafe, LocalKnown
  <2>2. /\ After(v, k).present = v.present \ {k.id}
        /\ After(v, k).known = IF v.forgets THEN v.known \ {k.id} ELSE v.known
        /\ After(v, k).forgets = v.forgets
    BY DEF After
  <2>3. IsMine(After(v, k))'
    BY <1>3, <2>2 DEF IsMine, Departed, ForgetsLeavers
  <2>4. NoUnknownPlayer' /\ localPlayerId' = Local
    BY <1>3 DEF BoardSafe, NoUnknownPlayer, LocalKnown, Departed
  <2>5. ASSUME ~Rejoins PROVE SceneOK'
    <3>1. CrownIsCurrent'
      <4>1. Crowned(playerInfos)
        BY <1>1, <2>5, CrownWhileConnected DEF BoardSafe, SceneOK
      <4>2. ForgetsLeavers => \A p \in DOMAIN playerInfos : playerInfos[p].time = 0
        BY <2>5 DEF ForgetsLeavers, BoardSafe, SceneOK, Fresh
      <4> QED
        BY <1>3, <4>1, <4>2, CrownIsKept DEF Departed
    <3>2. NoFailure' /\ SceneHoldsOneKind' /\ AllFrozenWhileConnecting'
      BY <1>3, <2>5
         DEF BoardSafe, SceneOK, NoFailure, SceneHoldsOneKind, AllFrozenWhileConnecting, Departed
    <3>3. /\ sceneType' = "fight" => ~Fresh'
          /\ gameState' = "disconnected" => sceneType' = "none"
          /\ gameState' # "none"
      BY <1>3, <2>5 DEF BoardSafe, SceneOK, Fresh, Departed
    <3>4. Fresh' => \A p \in DOMAIN playerInfos' : playerInfos'[p].time = 0
      BY <1>3, <2>5 DEF BoardSafe, SceneOK, Fresh, Departed
    <3> QED
      BY <3>1, <3>2, <3>3, <3>4 DEF SceneOK
  <2> QED
    BY <2>1, <2>3, <2>4, <2>5 DEF Handled
<1> QED
  BY <1>1, <1>2, <1>3, DepartureEffect

\* Of what an info does, only the crown concerns the board; the scene changes
\* whole, or not at all.  In a client that has come back to a round an info may
\* find an object of the wrong class, but never a player it does not know.
LEMMA InfoHandled ==
    ASSUME BoardSafe, NEW v \in Views, IsMine(v), NEW k \in Packets, Fits(v, k), connected,
           k.type \in {"jumpInfo", "fightInfo"},
           NEW kind, NEW playing,
           \/ kind = "jump" /\ playing = "jumping"
           \/ kind = "fight" /\ playing = "fighting",
           gameState \notin {"none", "gameOver", "waitDisconnection"},
           Informed,
           \/ UNCHANGED vars
           \/ Fail("wrongClass") /\ WrongClass(kind, k.listed)
           \/ ~InfoIsIgnored /\ SynchronizeScene(kind, k.listed, {}, playing)
    PROVE  Handled(v, k)
<1>1. After(v, k) = v /\ ~IsLastWord(k)
  BY DEF After, IsLastWord
<1>2. ~Rejoins => ~v.forgets
  BY DEF Fits
<1>3. /\ UNCHANGED <<localPlayerId, connected>>
      /\ failure' \in {failure, "wrongClass"}
      /\ UNCHANGED gameState \/ (gameState # "disconnected" /\ gameState' = playing)
  BY DEF vars, Fail, SynchronizeScene, InfoIsIgnored
<1>4. IsMine(After(v, k))'
  BY <1>1, <1>2, <1>3 DEF IsMine, Informed
<1>5. NoUnknownPlayer' /\ localPlayerId' = Local
  BY <1>3 DEF BoardSafe, NoUnknownPlayer, LocalKnown
<1>6. ASSUME ~Rejoins PROVE SceneOK'
  <2>1. SceneOK
    BY <1>6 DEF BoardSafe
  <2>2. CASE UNCHANGED vars
    BY <2>1, <2>2
       DEF SceneOK, NoFailure, SceneHoldsOneKind, CrownIsCurrent, Leads,
           AllFrozenWhileConnecting, Fresh, vars
  <2>3. CASE ~InfoIsIgnored /\ SynchronizeScene(kind, k.listed, {}, playing)
    <3>1. ~Fresh
      BY <1>2, <1>6, <2>3 DEF IsMine, Fresh, InfoIsIgnored
    <3>2. /\ SceneHoldsOneKind' /\ AllFrozenWhileConnecting' /\ (sceneType' = "fight" => ~Fresh')
          /\ gameState' = "disconnected" => sceneType' = "none"
          /\ Fresh' => Fresh
      BY <2>1, <2>3, SceneSynchronized DEF SceneOK
    <3>3. CrownIsCurrent'
      <4>1. Crowned(playerInfos)
        BY <2>1, CrownWhileConnected DEF BoardSafe, MatchSafe, SceneOK
      <4> QED
        BY <4>1, CrownIsKept DEF Informed
    <3>4. NoFailure' /\ gameState' # "none"
      BY <1>3, <2>1, <2>3 DEF SceneOK, NoFailure, SynchronizeScene
    <3> QED
      BY <3>1, <3>2, <3>3, <3>4 DEF SceneOK
  <2>4. ~(Fail("wrongClass") /\ WrongClass(kind, k.listed))
    BY <2>1, NoWrongClass DEF SceneOK
  <2> QED
    BY <2>2, <2>3, <2>4
<1> QED
  BY <1>1, <1>4, <1>5, <1>6 DEF Handled

\* The players of a list that makes sense are known.
LEMMA ListedAreKnown ==
    ASSUME BoardSafe, NEW v \in Views, IsMine(v), NEW k, Fits(v, k),
           k.type \in {"jumpInfo", "fightInfo"}
    PROVE  k.listed \subseteq DOMAIN playerInfos
BY DEF Fits, IsMine, Present

\* A list of jumpers, whatever the client shows when it reads it.
LEMMA JumpInfoHandled ==
    ASSUME BoardSafe, NEW v \in Views, IsMine(v), NEW k \in Packets, Fits(v, k),
           k.type = "jumpInfo", HandleJumpInfo(k.listed, {}),
           gameState \notin {"none", "gameOver", "waitDisconnection"}
    PROVE  Handled(v, k)
<1>1. Safe /\ connected /\ k.listed \in SUBSET PlayerIds /\ k.listed \subseteq DOMAIN playerInfos
  BY PacketFields, ListedAreKnown DEF BoardSafe, MatchSafe, HandleJumpInfo, Receiving
<1>2. /\ Informed
      /\ \/ UNCHANGED vars
         \/ Fail("wrongClass") /\ WrongClass("jump", k.listed)
         \/ ~InfoIsIgnored /\ SynchronizeScene("jump", k.listed, {}, "jumping")
  BY <1>1, JumpInfoEffect
<1> QED
  BY <1>1, <1>2, InfoHandled

\* A list of fighters with their times.
LEMMA FightInfoHandled ==
    ASSUME BoardSafe, NEW v \in Views, IsMine(v), NEW k \in Packets, Fits(v, k),
           k.type = "fightInfo", HandleFightInfo(k.listed, {}, k.time),
           gameState \notin {"none", "gameOver", "waitDisconnection"}
    PROVE  Handled(v, k)
<1>1. /\ Safe /\ connected /\ k.listed \in SUBSET PlayerIds /\ k.listed \subseteq DOMAIN playerInfos
      /\ k.time \in [k.listed -> Times]
  BY PacketFields, ListedAreKnown DEF BoardSafe, MatchSafe, HandleFightInfo, Receiving
<1>2. /\ Informed
      /\ \/ UNCHANGED vars
         \/ Fail("wrongClass") /\ WrongClass("fight", k.listed)
         \/ ~InfoIsIgnored /\ SynchronizeScene("fight", k.listed, {}, "fighting")
  BY <1>1, FightInfoEffect
<1> QED
  BY <1>1, <1>2, InfoHandled

\* The countdown is where the client stops forgetting whom the room marks.
LEMMA CountdownHandled ==
    ASSUME BoardSafe, NEW v \in Views, IsMine(v), NEW k \in Packets,
           k.type = "countdownToGame", HandleCountdownToGame,
           gameState \notin {"none", "gameOver", "waitDisconnection"}
    PROVE  Handled(v, k)
<1>1. /\ UNCHANGED <<localPlayerId, sceneType, playerInfos, players, isConnecting, connected,
                     shownResult, failure>>
      /\ gameState' = IF gameState = "waitingOthers" THEN "countdownToGame" ELSE gameState
  BY DEF HandleCountdownToGame
<1>2. /\ After(v, k).present = v.present /\ After(v, k).known = v.known
      /\ After(v, k).forgets = FALSE
  BY DEF After
<1>3. ~IsLastWord(k)
  BY DEF IsLastWord
<1>4. IsMine(After(v, k))'
  BY <1>1, <1>2 DEF IsMine, Present
<1>5. NoUnknownPlayer' /\ localPlayerId' = Local
  BY <1>1 DEF BoardSafe, NoUnknownPlayer, LocalKnown
<1>6. ~Rejoins => SceneOK'
  BY <1>1
     DEF BoardSafe, SceneOK, NoFailure, SceneHoldsOneKind, CrownIsCurrent, Leads,
         AllFrozenWhileConnecting, Fresh
<1> QED
  BY <1>3, <1>4, <1>5, <1>6 DEF Handled

\* The result names known players, the local one among them, and is the end of
\* the connection.
LEMMA ResultHandled ==
    ASSUME BoardSafe, NEW v \in Views, IsMine(v), NEW k \in Packets, Fits(v, k),
           k.type = "gameOver", HandleGameOverInfo(DOMAIN k.time, k.time, k.winner),
           gameState \notin {"none", "gameOver", "waitDisconnection"}
    PROVE  Handled(v, k)
<1>1. Local \in DOMAIN k.time /\ DOMAIN k.time \subseteq DOMAIN playerInfos
  BY DEF Fits, IsMine, Present
<1>2. playerInfos[Local].isLocalPlayer
  BY <1>1 DEF BoardSafe, LocalKnown
<1>3. /\ ~UnknownPlayer(DOMAIN k.time)
      /\ \E p \in DOMAIN k.time : playerInfos[p].isLocalPlayer
  BY <1>1, <1>2 DEF UnknownPlayer
<1>4. /\ gameState' = "gameOver" /\ DOMAIN players' = {} /\ connected' = FALSE
      /\ shownResult'.shown
      /\ UNCHANGED <<localPlayerId, sceneType, isConnecting, failure>>
  BY <1>3 DEF HandleGameOverInfo, NoPlayers
<1>5. NoUnknownPlayer' /\ localPlayerId' = Local
  BY <1>4 DEF BoardSafe, NoUnknownPlayer, LocalKnown
<1>6. ~Rejoins => SceneOK'
  BY <1>4
     DEF BoardSafe, SceneOK, NoFailure, SceneHoldsOneKind, CrownIsCurrent,
         AllFrozenWhileConnecting, Fresh
<1> QED
  BY <1>4, <1>5, <1>6 DEF Handled

\* The loss of the connection empties the scene and leaves the board alone.
LEMMA LossHandled ==
    ASSUME BoardSafe, NEW v, NEW k, HandleServerDisconnectedEvent,
           gameState # "none"
    PROVE  Handled(v, k)
<1>1. /\ gameState' = "waitDisconnection" /\ DOMAIN players' = {} /\ connected' = FALSE
      /\ UNCHANGED <<localPlayerId, sceneType, playerInfos, isConnecting, shownResult, failure>>
  BY DEF HandleServerDisconnectedEvent, StopAndWaitDisconnection, NoPlayers
<1>2. NoUnknownPlayer' /\ localPlayerId' = Local
  BY <1>1 DEF BoardSafe, NoUnknownPlayer, LocalKnown
<1>3. ~Rejoins => SceneOK'
  BY <1>1
     DEF BoardSafe, SceneOK, NoFailure, SceneHoldsOneKind, CrownIsCurrent, Leads,
         AllFrozenWhileConnecting, Fresh
<1> QED
  BY <1>1, <1>2, <1>3 DEF Handled

\* Every packet is handled as the view of its reader demands.
LEMMA PacketHandled ==
    ASSUME BoardSafe, Deliver, gameState # "waitDisconnection",
           NEW v \in Views, IsMine(v), NEW k \in Packets, k = Head(inbox), Fits(v, k)
    PROVE  Handled(v, k)
<1>1. /\ inbox # <<>> /\ k = inbox[1] /\ gameState # "gameOver"
      /\ k.type # "connectToRoom" => gameState # "none"
  <2>1. connected
    BY DeliverEffect DEF BoardSafe, HandlerEffect
  <2>2. k = inbox[1] /\ inbox # <<>>
    BY HeadTailProperties DEF BoardSafe, MatchSafe, InboxOK, Deliver
  <2> QED
    BY <2>1, <2>2 DEF BoardSafe, MatchSafe, EnteringOK, EndedOK
<1>2. \/ k.type = "connectToRoom"      /\ StartWithPlayerId(Local)
      \/ k.type = "waitingPlayers"     /\ HandleConnectedPlayers(k.list)
      \/ k.type = "playerDisconnected" /\ HandleDisconnectedPlayer(k.id)
      \/ k.type = "countdownToGame"    /\ HandleCountdownToGame
      \/ k.type = "jumpInfo"           /\ HandleJumpInfo(k.listed, {})
      \/ k.type = "fightInfo"          /\ HandleFightInfo(k.listed, {}, k.time)
      \/ k.type = "gameOver"           /\ HandleGameOverInfo(DOMAIN k.time, k.time, k.winner)
      \/ k.type = "connectionLost"     /\ HandleServerDisconnectedEvent
  BY DEF Deliver
<1>3. CASE k.type = "connectToRoom" /\ StartWithPlayerId(Local)
  BY <1>3, AcceptanceHandled
<1>4. CASE k.type = "waitingPlayers" /\ HandleConnectedPlayers(k.list)
  BY <1>1, <1>4, AnnouncementHandled
<1>5. CASE k.type = "playerDisconnected" /\ HandleDisconnectedPlayer(k.id)
  BY <1>1, <1>5, DepartureHandled
<1>6. CASE k.type = "countdownToGame" /\ HandleCountdownToGame
  BY <1>1, <1>6, CountdownHandled
<1>7. CASE k.type = "jumpInfo" /\ HandleJumpInfo(k.listed, {})
  BY <1>1, <1>7, JumpInfoHandled
<1>8. CASE k.type = "fightInfo" /\ HandleFightInfo(k.listed, {}, k.time)
  BY <1>1, <1>8, FightInfoHandled
<1>9. CASE k.type = "gameOver" /\ HandleGameOverInfo(DOMAIN k.time, k.time, k.winner)
  BY <1>1, <1>9, ResultHandled
<1>10. CASE k.type = "connectionLost" /\ HandleServerDisconnectedEvent
  BY <1>1, <1>10, LossHandled
<1> QED
  BY <1>2, <1>3, <1>4, <1>5, <1>6, <1>7, <1>8, <1>9, <1>10

\* The client knows itself after a packet as before it.
LEMMA DeliverKnowsLocal ==
    ASSUME BoardSafe, Deliver, localPlayerId' = Local
    PROVE  LocalKnown'
<1>1. LocalKept
  BY DeliverEffect DEF BoardSafe, HandlerEffect
<1>2. CASE gameState # "none"
  BY <1>1, <1>2 DEF BoardSafe, LocalKnown, LocalKept
<1>3. CASE gameState = "none"
  <2>1. Head(inbox) = inbox[1] /\ inbox[1].type = "connectToRoom"
    BY <1>3, HeadTailProperties DEF BoardSafe, MatchSafe, InboxOK, EnteringOK, Deliver
  <2>2. UNCHANGED playerInfos
    BY <2>1 DEF Deliver, StartWithPlayerId
  <2> QED
    BY <2>2 DEF BoardSafe, LocalKnown
<1> QED
  BY <1>2, <1>3

\* Reading the last word ends the game; reading another packet leaves the last
\* word where it is.
LEMMA DeliverKeepsLastWord ==
    ASSUME BoardSafe, Deliver, IsLastWord(Head(inbox)) => ~connected' \/ gameState' \in Ended
    PROVE  LastWordOK'
<1> SUFFICES ASSUME silent', connected', gameState' \notin Ended
             PROVE  \E i \in 1..Len(inbox') : IsLastWord(inbox'[i])
  BY DEF LastWordOK, IsLastWord, Ended
<1>1. inbox \in Seq(Packets) /\ inbox # <<>> /\ Len(inbox) \in Nat \ {0}
  BY EmptySeq, LenProperties DEF BoardSafe, MatchSafe, InboxOK, Deliver
<1>2. /\ Len(inbox') = Len(inbox) - 1 /\ Head(inbox) = inbox[1]
      /\ \A i \in 1..Len(inbox') : inbox'[i] = inbox[i + 1]
  BY <1>1, HeadTailProperties DEF Deliver
<1>3. gameState \notin Ended
  BY EndStep DEF BoardSafe, MatchNext
<1>4. silent /\ connected
  BY DeliverEffect DEF BoardSafe, HandlerEffect, Deliver, serverVars
<1>5. PICK i \in 1..Len(inbox) : IsLastWord(inbox[i])
  BY <1>3, <1>4 DEF BoardSafe, LastWordOK
<1>6. i # 1
  BY <1>2, <1>5
<1>7. i - 1 \in 1..Len(inbox') /\ inbox'[i - 1] = inbox[i]
  BY <1>1, <1>2, <1>6
<1> QED
  BY <1>5, <1>7

\* Reading a packet moves the client one view on.
LEMMA DeliverBoardSafe ==
    ASSUME BoardSafe, Deliver
    PROVE  BoardSafe'
<1>1. MatchSafe' /\ connected /\ UNCHANGED serverVars
  BY DeliverSafe, DeliverEffect DEF BoardSafe, HandlerEffect, Deliver
<1>2. RoomOK'
  BY <1>1 DEF BoardSafe, RoomOK, serverVars
<1>3. PICK k \in Packets : k = Head(inbox) /\ k = inbox[1]
  BY HeadTailProperties DEF BoardSafe, MatchSafe, InboxOK, Deliver
<1>4. CASE gameState = "waitDisconnection"
  <2>1. k.type = "connectionLost"
    <3>1. Len(inbox) \in Nat \ {0}
      BY EmptySeq DEF BoardSafe, MatchSafe, InboxOK, Deliver
    <3>2. 1 \in 1..Len(inbox)
      BY <3>1
    <3> QED
      BY <1>3, <1>4, <3>2 DEF BoardSafe, MatchSafe, EndedOK
  <2>2. HandleServerDisconnectedEvent
    BY <1>3, <2>1 DEF Deliver
  <2>3. PICK v \in Views : TRUE
    <3>1. [present |-> {}, known |-> {}, forgets |-> FALSE] \in Views
      BY DEF Views
    <3> QED
      BY <3>1
  <2>4. Handled(v, k)
    BY <1>4, <2>2, LossHandled
  <2>5. ~connected'
    BY <2>2 DEF HandleServerDisconnectedEvent
  <2>6. InformedOK' /\ LastWordOK'
    BY <2>5 DEF InformedOK, LastWordOK
  <2>7. LocalKnown'
    BY <2>4, DeliverKnowsLocal DEF Handled
  <2> QED
    BY <1>1, <1>2, <2>4, <2>6, <2>7 DEF BoardSafe, Handled
<1>5. CASE gameState # "waitDisconnection"
  <2>1. PICK mine \in Views : IsMine(mine) /\ Fits(mine, k)
    <3>1. PICK view \in [0..Len(inbox) -> Views] : Explains(view)
      BY <1>1, <1>5 DEF BoardSafe, InformedOK
    <3>2. Len(inbox) \in Nat \ {0}
      BY EmptySeq DEF BoardSafe, MatchSafe, InboxOK, Deliver
    <3>3. 0 \in 0..Len(inbox) /\ 1 \in 1..Len(inbox) /\ 1 - 1 = 0
      BY <3>2
    <3> QED
      BY <1>3, <3>1, <3>3 DEF Explains
  <2>2. \A v \in Views : IsMine(v) /\ Fits(v, k) => Handled(v, k)
    BY <1>3, <1>5, PacketHandled
  <2>3. Handled(mine, k)
    BY <2>1, <2>2
  <2>4. InformedOK'
    <3>1. \A v \in Views : IsMine(v) /\ Fits(v, k) /\ connected' =>
             gameState' = "waitDisconnection" \/ IsMine(After(v, k))'
      BY <2>2 DEF Handled
    <3> QED
      BY <1>1, <1>3, <1>5, <3>1, TakeInforms DEF BoardSafe
  <2>5. LocalKnown'
    BY <2>3, DeliverKnowsLocal DEF Handled
  <2>6. LastWordOK'
    BY <1>3, <2>3, DeliverKeepsLastWord DEF Handled
  <2> QED
    BY <1>1, <1>2, <2>3, <2>4, <2>5, <2>6 DEF BoardSafe, Handled
<1> QED
  BY <1>4, <1>5

\* The user and the frame timer change nothing a view is about.
LEMMA OwnStepBoardSafe ==
    ASSUME BoardSafe, MatchQuit \/ MatchUpdate \/ MatchDisconnect
    PROVE  BoardSafe'
<1>1. MatchSafe' /\ UNCHANGED <<serverVars, playerInfos, localPlayerId, failure, shownResult>>
  BY OwnStepSafe
     DEF BoardSafe, MatchQuit, MatchUpdate, MatchDisconnect, Quit, Update, Disconnect
<1>2. RoomOK' /\ NoUnknownPlayer'
  BY <1>1 DEF BoardSafe, RoomOK, NoUnknownPlayer, serverVars
<1>3. \/ UNCHANGED gameState
      \/ gameState' = "disconnected" /\ sceneType # "none" /\ sceneType' = "none"
  BY DEF MatchQuit, MatchUpdate, MatchDisconnect, Quit, Update, Disconnect
<1>4. LocalKnown'
  BY <1>1, <1>3 DEF BoardSafe, LocalKnown, MatchSafe, EnteringOK
<1>5. CASE MatchDisconnect
  <2>1. ~connected' /\ UNCHANGED <<sceneType, gameState, players, isConnecting>>
    BY <1>5 DEF MatchDisconnect, Disconnect
  <2>2. InformedOK' /\ LastWordOK'
    BY <2>1 DEF InformedOK, LastWordOK
  <2>3. ~Rejoins => SceneOK'
    BY <1>1, <2>1
       DEF BoardSafe, SceneOK, NoFailure, SceneHoldsOneKind, CrownIsCurrent, Leads,
           AllFrozenWhileConnecting, Fresh
  <2> QED
    BY <1>1, <1>2, <1>4, <2>2, <2>3 DEF BoardSafe
<1>6. CASE MatchQuit \/ MatchUpdate
  <2>1. UNCHANGED <<inbox, connected>>
    BY <1>6 DEF MatchQuit, MatchUpdate, Quit, Update
  <2>2. LastWordOK'
    BY <1>1, <1>3, <2>1 DEF BoardSafe, LastWordOK, IsLastWord, Ended, serverVars
  <2>3. InformedOK'
    <3> SUFFICES ASSUME connected', gameState' # "waitDisconnection"
                 PROVE  \E view \in [0..Len(inbox') -> Views] : Explains(view)'
      BY DEF InformedOK
    <3>1. CASE gameState # "waitDisconnection"
      <4>1. PICK view \in [0..Len(inbox) -> Views] : Explains(view)
        BY <2>1, <3>1 DEF BoardSafe, InformedOK
      <4>2. IsMine(view[0])'
        BY <1>1, <1>3, <4>1 DEF Explains, IsMine, Present
      <4>3. Explains(view)'
        BY <1>1, <2>1, <4>1, <4>2 DEF Explains, Fits, After, IsRooms, serverVars
      <4> QED
        BY <2>1, <4>3
    <3>2. CASE gameState = "waitDisconnection"
      <4>1. /\ Len(inbox) \in Nat /\ gameState' = "disconnected"
            /\ silent' /\ \A i \in 1..Len(inbox) : inbox'[i].type = "connectionLost"
        BY <1>1, <1>3, <2>1, <3>2, LenProperties
           DEF BoardSafe, MatchSafe, InboxOK, EndedOK, serverVars
      <4>2. PICK v : v = [present |-> Present(playerInfos), known |-> {}, forgets |-> FALSE]
        OBVIOUS
      <4>3. v \in Views
        BY <4>2 DEF BoardSafe, MatchSafe, Safe, TypeOK, IsPartialFunction, Views, Present
      <4>4. PICK view : view = [i \in 0..Len(inbox) |-> v]
        OBVIOUS
      <4>5. /\ view \in [0..Len(inbox') -> Views] /\ view[0] = v
            /\ \A i \in 1..Len(inbox') : view[i - 1] = v /\ view[i] = v
        BY <2>1, <4>1, <4>3, <4>4
      <4>6. IsMine(v)'
        BY <1>1, <4>1, <4>2 DEF IsMine, Present
      <4>7. \A k : k.type = "connectionLost" => Fits(v, k) /\ After(v, k) = v
        BY DEF Fits, After
      <4>8. \A i \in 1..Len(inbox) :
               Fits(view[i - 1], inbox[i]) /\ view[i] = After(view[i - 1], inbox[i])
        BY <2>1, <4>1, <4>5, <4>7
      <4>9. Explains(view)'
        <5>1. /\ Len(inbox') = Len(inbox) /\ silent'
              /\ \A i \in 1..Len(inbox) : inbox'[i] = inbox[i]
          BY <2>1, <4>1
        <5>2. IsMine(view[0])'
          BY <4>5, <4>6
        <5> QED
          BY <4>8, <5>1, <5>2 DEF Explains, Fits, After
      <4> QED
        BY <4>5, <4>9
    <3> QED
      BY <3>1, <3>2
  <2>4. ASSUME ~Rejoins PROVE SceneOK'
    <3>1. SceneOK
      BY <2>4 DEF BoardSafe
    <3>2. CASE MatchQuit
      <4>1. /\ DOMAIN players' = {} /\ sceneType' = "none" /\ gameState' = "disconnected"
            /\ UNCHANGED <<playerInfos, shownResult, failure>>
        BY <3>2 DEF MatchQuit, Quit, NoPlayers
      <4> QED
        BY <3>1, <4>1
           DEF SceneOK, NoFailure, SceneHoldsOneKind, CrownIsCurrent, Leads,
               AllFrozenWhileConnecting, Fresh
    <3>3. CASE MatchUpdate
      <4>1. UNCHANGED <<sceneType, gameState, playerInfos, shownResult, failure>>
        BY <3>3 DEF MatchUpdate, Update
      <4>2. /\ NoFailure' /\ CrownIsCurrent' /\ (sceneType' = "fight" => ~Fresh')
            /\ gameState' = "disconnected" => sceneType' = "none"
            /\ Fresh' => \A p \in DOMAIN playerInfos' : playerInfos'[p].time = 0
            /\ gameState' # "none"
        BY <3>1, <3>3, <4>1
           DEF SceneOK, NoFailure, CrownIsCurrent, Leads, Fresh, MatchUpdate, Update
      <4>3. \A p \in DOMAIN players : players[p] \in Player
        BY DEF BoardSafe, MatchSafe, Safe, TypeOK, IsPartialFunction
      <4>4. \/ UNCHANGED <<players, isConnecting>>
            \/ players' = [p \in DOMAIN players |-> Frozen(players[p])]
        BY <3>3 DEF MatchUpdate, Update
      <4>5. \A p \in DOMAIN players :
               Frozen(players[p]).kind = players[p].kind /\ Frozen(players[p]).isFrozen
        BY <4>3 DEF Player, Frozen
      <4>6. SceneHoldsOneKind' /\ AllFrozenWhileConnecting'
        BY <3>1, <4>1, <4>4, <4>5 DEF SceneOK, SceneHoldsOneKind, AllFrozenWhileConnecting
      <4> QED
        BY <4>2, <4>6 DEF SceneOK
    <3> QED
      BY <1>6, <3>2, <3>3
  <2> QED
    BY <1>1, <1>2, <1>4, <2>2, <2>3, <2>4 DEF BoardSafe
<1> QED
  BY <1>5, <1>6

\* Every step keeps the invariant.
LEMMA BoardNextSafe == BoardSafe /\ [MatchNext]_matchVars => BoardSafe'
<1> SUFFICES ASSUME BoardSafe, [MatchNext]_matchVars PROVE BoardSafe'
  OBVIOUS
<1>1. CASE ServerStep
  BY <1>1, ServerStepBoardSafe
<1>2. CASE Deliver
  BY <1>2, DeliverBoardSafe
<1>3. CASE MatchQuit \/ MatchUpdate \/ MatchDisconnect
  BY <1>3, OwnStepBoardSafe
<1>4. CASE UNCHANGED matchVars
  <2>1. UNCHANGED <<vars, inbox, silent, online, room>> /\ UNCHANGED serverVars
    BY <1>4 DEF matchVars, serverVars
  <2>2. MatchSafe'
    BY MatchNextSafe DEF BoardSafe
  <2>3. RoomOK' /\ (phase' = "waiting" <=> phase = "waiting")
    BY <2>1 DEF BoardSafe, RoomOK, serverVars
  <2> QED
    BY <2>1, <2>2, <2>3, QuietBoardSafe
<1> QED
  BY <1>1, <1>2, <1>3, <1>4 DEF MatchNext, ServerStep

-----------------------------------------------------------------------------
(* What it shows.                                                           *)

\* The inductive invariant: packets lead from what the client has to what the
\* room is, in every state of every match.
THEOREM BoardIsSafe == MatchSpec => []BoardSafe
<1>1. MatchInit => BoardSafe
  BY InitBoardSafe
<1>2. BoardSafe /\ [MatchNext]_matchVars => BoardSafe'
  BY BoardNextSafe
<1> QED
  BY <1>1, <1>2, PTL DEF MatchSpec

\* No packet names a player the client has not met or has forgotten: neither of
\* the assertions on playerInfo fails, and the result finds the local player,
\* also for a client that has come back to a round.
THEOREM NobodyUnknown == MatchSpec => []NoUnknownPlayer
<1>1. BoardSafe => NoUnknownPlayer
  BY DEF BoardSafe
<1> QED
  BY <1>1, BoardIsSafe, PTL

\* With no packet under way the client's view is the room's.
LEMMA ViewIsRooms ==
    ASSUME BoardSafe, connected, inbox = <<>>, gameState \notin Ended
    PROVE  ~silent /\ \E v \in Views : IsMine(v) /\ IsRooms(v)
<1>1. Len(inbox) = 0 /\ 0 \in 0..0 /\ \A i \in 1..0 : FALSE
  OBVIOUS
<1>2. ~silent
  BY <1>1 DEF BoardSafe, LastWordOK
<1>3. PICK view \in [0..Len(inbox) -> Views] : Explains(view)
  BY DEF BoardSafe, InformedOK, Ended
<1> QED
  BY <1>1, <1>2, <1>3 DEF Explains

\* When everything that was sent has been handled, the board shows as present
\* whom the server reaches and nobody else, also in a client that has come back.
THEOREM BoardIsOnline == MatchSpec => []BoardShowsOnline
<1>1. BoardSafe => BoardShowsOnline
  <2> SUFFICES ASSUME BoardSafe, connected, inbox = <<>>, gameState \notin Ended
               PROVE  Present(playerInfos) = online
    BY DEF BoardShowsOnline, Present
  <2> QED
    BY ViewIsRooms DEF IsMine, IsRooms
<1> QED
  BY <1>1, BoardIsSafe, PTL

\* A client that was there from the beginning has the whole room on its board,
\* with the same players absent, though it forgets or marks them by its own
\* idea of the phase.
THEOREM BoardIsTheRoom ==
    ASSUME ~Rejoins
    PROVE  MatchSpec => []BoardMatchesRoom
<1>1. BoardSafe => BoardMatchesRoom
  <2> SUFFICES ASSUME BoardSafe, connected, inbox = <<>>, gameState \notin Ended
               PROVE  /\ DOMAIN playerInfos = Range(room)
                      /\ \A p \in Range(room) : playerInfos[p].isDisconnected <=> p \notin online
    BY DEF BoardMatchesRoom
  <2>1. PICK v \in Views : IsMine(v) /\ IsRooms(v)
    BY ViewIsRooms
  <2>2. DOMAIN playerInfos = Range(room) /\ Present(playerInfos) = online
    BY <2>1 DEF IsMine, IsRooms, Ended
  <2>3. \A p \in DOMAIN playerInfos : playerInfos[p].isDisconnected \in BOOLEAN
    BY DEF BoardSafe, MatchSafe, Safe, TypeOK, IsPartialFunction, PlayerInfo
  <2> QED
    BY <2>2, <2>3 DEF Present
<1> QED
  BY <1>1, BoardIsSafe, PTL

\* No handler of such a client fails: no unknown player, no result without the
\* local player, no object of the other scene.
THEOREM NothingFails ==
    ASSUME ~Rejoins
    PROVE  MatchSpec => []NoFailure
<1>1. BoardSafe => NoFailure
  BY DEF BoardSafe, SceneOK
<1> QED
  BY <1>1, BoardIsSafe, PTL

\* Its scene holds the objects of one kind, the scene's own.
THEOREM OneKind ==
    ASSUME ~Rejoins
    PROVE  MatchSpec => []SceneHoldsOneKind
<1>1. BoardSafe => SceneHoldsOneKind
  BY DEF BoardSafe, SceneOK
<1> QED
  BY <1>1, BoardIsSafe, PTL

\* The crown on its board is at any moment where a new search would put it,
\* though not every change of playerInfos_ makes one.
THEOREM CrownCurrent ==
    ASSUME ~Rejoins
    PROVE  MatchSpec => []CrownIsCurrent
<1>1. BoardSafe => CrownIsCurrent
  BY DEF BoardSafe, SceneOK
<1> QED
  BY <1>1, BoardIsSafe, PTL

\* While it waits for a silent server nobody on its scene moves.
THEOREM AllFrozen ==
    ASSUME ~Rejoins
    PROVE  MatchSpec => []AllFrozenWhileConnecting
<1>1. BoardSafe => AllFrozenWhileConnecting
  BY DEF BoardSafe, SceneOK
<1> QED
  BY <1>1, BoardIsSafe, PTL

-----------------------------------------------------------------------------
(* How a game ends.                                                         *)

\* The connection is given up only with the game.
ConnectionOK == ~connected \/ quitPending => gameState \in Ended

\* What tells the client that the round has been decided: the result, or the loss of
\* the connection.
Decides(packet) ==
    \/ packet.type = "connectionLost"
    \/ packet.type = "gameOver" /\ packet.winner = verdict

\* A decision stays under way until it has ended the game.
DecisionOK ==
    phase = "over" /\ gameState \notin Ended => \E i \in 1..Len(inbox) : Decides(inbox[i])

\* A last word that is read ends the game, and nothing else closes the connection.
LEMMA DeliverEnds ==
    ASSUME BoardSafe, ConnectionOK, Deliver, gameState \notin Ended
    PROVE  /\ IsLastWord(Head(inbox)) \/ ~connected' => gameState' \in Ended
           /\ ConnectionOK'
<1>1. PICK k \in Packets : k = Head(inbox) /\ k = inbox[1]
  BY HeadTailProperties DEF BoardSafe, MatchSafe, InboxOK, Deliver
<1>2. connected /\ gameState # "waitDisconnection" /\ ~quitPending
  BY DEF ConnectionOK, Ended
<1>3. PICK v \in Views : IsMine(v) /\ Fits(v, k)
  <2>1. PICK view \in [0..Len(inbox) -> Views] : Explains(view)
    BY <1>2 DEF BoardSafe, InformedOK
  <2>2. Len(inbox) \in Nat \ {0}
    BY EmptySeq DEF BoardSafe, MatchSafe, InboxOK, Deliver
  <2>3. 0 \in 0..Len(inbox) /\ 1 \in 1..Len(inbox) /\ 1 - 1 = 0
    BY <2>2
  <2> QED
    BY <1>1, <2>1, <2>3 DEF Explains
<1>4. IsLastWord(k) => ~connected' \/ gameState' \in Ended
  BY <1>1, <1>2, <1>3, PacketHandled DEF Handled
<1>5. UNCHANGED quitPending /\ (connected' = connected \/ gameState' \in Ended)
  <2>1. \/ StartWithPlayerId(Local)
        \/ HandleConnectedPlayers(k.list)
        \/ HandleDisconnectedPlayer(k.id)
        \/ HandleCountdownToGame
        \/ HandleJumpInfo(k.listed, {}) \/ HandleFightInfo(k.listed, {}, k.time)
        \/ HandleGameOverInfo(DOMAIN k.time, k.time, k.winner)
        \/ HandleServerDisconnectedEvent
    BY <1>1 DEF Deliver
  <2>2. ASSUME NEW why, Fail(why)
        PROVE  UNCHANGED <<quitPending, connected>>
    BY <2>2 DEF Fail
  <2>3. CASE StartWithPlayerId(Local) \/ HandleConnectedPlayers(k.list)
    BY <2>3 DEF StartWithPlayerId, HandleConnectedPlayers
  <2>4. CASE HandleDisconnectedPlayer(k.id)
    BY <2>4 DEF HandleDisconnectedPlayer, StopAndWaitDisconnection, vars
  <2>5. CASE HandleCountdownToGame
    BY <2>5 DEF HandleCountdownToGame
  <2>6. CASE HandleJumpInfo(k.listed, {}) \/ HandleFightInfo(k.listed, {}, k.time)
    BY <2>2, <2>6 DEF HandleJumpInfo, HandleFightInfo, SynchronizeScene, vars
  <2>7. CASE HandleGameOverInfo(DOMAIN k.time, k.time, k.winner)
    BY <2>2, <2>7 DEF HandleGameOverInfo, Ended
  <2>8. CASE HandleServerDisconnectedEvent
    BY <2>8 DEF HandleServerDisconnectedEvent, StopAndWaitDisconnection, Ended
  <2> QED
    BY <2>1, <2>3, <2>4, <2>5, <2>6, <2>7, <2>8
<1> QED
  BY <1>1, <1>2, <1>4, <1>5 DEF ConnectionOK

\* The user closes the connection only after he has quit.
LEMMA ConnectionStays ==
    ASSUME BoardSafe, ConnectionOK, [MatchNext]_matchVars
    PROVE  ConnectionOK'
<1>1. gameState \in Ended => gameState' \in Ended
  BY EndStep DEF BoardSafe
<1>2. CASE gameState \in Ended
  BY <1>1, <1>2 DEF ConnectionOK
<1>3. CASE gameState \notin Ended
  <2>1. connected /\ ~quitPending
    BY <1>3 DEF ConnectionOK
  <2>2. CASE Deliver
    BY <1>3, <2>2, DeliverEnds
  <2>3. CASE ServerStep \/ UNCHANGED matchVars
    BY <2>1, <2>3, ServerStepIsStutter DEF ConnectionOK, matchVars, vars
  <2>4. CASE MatchQuit \/ MatchUpdate \/ MatchDisconnect
    BY <2>1, <2>4
       DEF MatchQuit, MatchUpdate, MatchDisconnect, Quit, Update, Disconnect, ConnectionOK, Ended
  <2> QED
    BY <2>2, <2>3, <2>4 DEF MatchNext, ServerStep
<1> QED
  BY <1>2, <1>3

\* A packet that is sent stays behind those that were there.
LEMMA SendKeeps ==
    ASSUME BoardSafe, NEW packet, Send(packet)
    PROVE  /\ \A i \in 1..Len(inbox) : i \in 1..Len(inbox') /\ inbox'[i] = inbox[i]
           /\ Len(inbox') \in 1..Len(inbox') /\ inbox'[Len(inbox')] = packet
<1>1. inbox \in Seq(Packets \cup {packet}) /\ packet \in Packets \cup {packet}
  <2>1. inbox \in Seq(Packets)
    BY DEF BoardSafe, MatchSafe, InboxOK
  <2> QED
    BY <2>1, ElementOfSeq, SeqDef
<1>2. /\ Len(inbox) \in Nat /\ Len(inbox') = Len(inbox) + 1
      /\ \A i \in 1..Len(inbox) : inbox'[i] = inbox[i]
      /\ inbox'[Len(inbox) + 1] = packet
  BY <1>1, LenProperties, AppendProperties DEF Send
<1> QED
  BY <1>2

\* The server decides once, and says so; nothing takes the decision out of the queue
\* but its reader.
LEMMA DecisionStays ==
    ASSUME BoardSafe, ConnectionOK, DecisionOK, [MatchNext]_matchVars
    PROVE  DecisionOK'
<1> SUFFICES ASSUME phase' = "over", gameState' \notin Ended
             PROVE  \E i \in 1..Len(inbox') : Decides(inbox[i])'
  BY DEF DecisionOK, Decides, Ended
<1>1. gameState \notin Ended /\ connected /\ ~quitPending
  BY EndStep DEF BoardSafe, ConnectionOK
<1>2. ASSUME UNCHANGED <<phase, verdict, inbox>>
      PROVE  \E i \in 1..Len(inbox') : Decides(inbox[i])'
  BY <1>1, <1>2 DEF DecisionOK, Decides
<1>3. ASSUME NEW packet, Send(packet), UNCHANGED <<phase, verdict>>
      PROVE  \E i \in 1..Len(inbox') : Decides(inbox[i])'
  <2>1. PICK i \in 1..Len(inbox) : Decides(inbox[i])
    BY <1>1, <1>3 DEF DecisionOK
  <2>2. i \in 1..Len(inbox') /\ inbox'[i] = inbox[i]
    BY <1>3, SendKeeps
  <2> QED
    BY <1>3, <2>1, <2>2 DEF Decides
<1>4. CASE SendGameOver
  <2>1. PICK packet : Send(packet) /\ packet.type = "gameOver" /\ packet.winner = verdict'
    BY <1>4 DEF SendGameOver
  <2>2. Len(inbox') \in 1..Len(inbox') /\ inbox'[Len(inbox')] = packet
    BY <2>1, SendKeeps
  <2> QED
    BY <2>1, <2>2 DEF Decides
<1>5. CASE ServerStep /\ ~SendGameOver
  <2>1. UNCHANGED <<phase, verdict>>
    BY <1>5
       DEF ServerStep, Join, Leave, Return, ChangeScene, HoldPlatform, StartCountdown,
           StartRound, SendJumpInfo, SendFightInfo, Expel, LoseConnection, serverVars
  <2>2. UNCHANGED inbox \/ \E packet : Send(packet)
    BY <1>5
       DEF ServerStep, Join, Leave, Return, ChangeScene, HoldPlatform, StartCountdown,
           StartRound, SendJumpInfo, SendFightInfo, Expel, LoseConnection, Announce
  <2> QED
    BY <1>2, <1>3, <2>1, <2>2
<1>6. CASE Deliver
  <2>1. /\ UNCHANGED serverVars /\ connected' /\ ~IsLastWord(Head(inbox))
        /\ inbox' = Tail(inbox)
    BY <1>1, <1>6, DeliverEnds DEF Deliver
  <2>2. inbox \in Seq(Packets) /\ inbox # <<>> /\ Len(inbox) \in Nat \ {0}
    BY <1>6, EmptySeq, LenProperties DEF BoardSafe, MatchSafe, InboxOK, Deliver
  <2>3. /\ Len(inbox') = Len(inbox) - 1 /\ Head(inbox) = inbox[1]
        /\ \A i \in 1..Len(inbox') : inbox'[i] = inbox[i + 1]
    BY <2>1, <2>2, HeadTailProperties
  <2>4. PICK i \in 1..Len(inbox) : Decides(inbox[i])
    BY <1>1, <2>1 DEF DecisionOK, serverVars
  <2>5. i # 1
    BY <2>1, <2>3, <2>4 DEF Decides, IsLastWord
  <2>6. i - 1 \in 1..Len(inbox') /\ inbox'[i - 1] = inbox[i]
    BY <2>2, <2>3, <2>5
  <2> QED
    BY <2>1, <2>4, <2>6 DEF Decides, serverVars
<1>7. CASE MatchQuit \/ MatchUpdate \/ MatchDisconnect \/ UNCHANGED matchVars
  <2>1. ~MatchDisconnect
    BY <1>1 DEF MatchDisconnect, Disconnect
  <2> QED
    BY <1>2, <1>7, <2>1 DEF MatchQuit, MatchUpdate, matchVars, serverVars
<1> QED
  BY <1>4, <1>5, <1>6, <1>7 DEF MatchNext, ServerStep

LEMMA InitEnds == MatchInit => ConnectionOK /\ DecisionOK
BY DEF MatchInit, Init, ConnectionOK, DecisionOK

LEMMA SpecEnds == MatchSpec => [](BoardSafe /\ ConnectionOK /\ DecisionOK)
<1>1. BoardSafe /\ ConnectionOK /\ [MatchNext]_matchVars => ConnectionOK'
  BY ConnectionStays
<1>2. BoardSafe /\ ConnectionOK /\ DecisionOK /\ [MatchNext]_matchVars => DecisionOK'
  BY DecisionStays
<1> QED
  BY <1>1, <1>2, InitEnds, BoardIsSafe, PTL DEF MatchSpec

\* The safety half of RoundEnds.  A game that goes on is connected, to a server that
\* speaks or has left a last word; and once the round is decided the result with the
\* server's own winner, or the loss of the connection, is on its way, also to a client
\* that the server's silence has frozen.
THEOREM EndIsUnderWay ==
    MatchSpec => [](gameState \notin Ended =>
                       /\ connected
                       /\ silent => \E i \in 1..Len(inbox) : IsLastWord(inbox[i])
                       /\ phase = "over" => \E i \in 1..Len(inbox) : Decides(inbox[i]))
<1>1. ASSUME BoardSafe, ConnectionOK, DecisionOK, gameState \notin Ended
      PROVE  /\ connected
             /\ silent => \E i \in 1..Len(inbox) : IsLastWord(inbox[i])
             /\ phase = "over" => \E i \in 1..Len(inbox) : Decides(inbox[i])
  BY <1>1 DEF ConnectionOK, DecisionOK, BoardSafe, LastWordOK
<1> QED
  BY <1>1, SpecEnds, PTL

\* A last word that is read ends the game: no handler passes over it because of the
\* state it finds, the waiting for a silent server included.
THEOREM LastWordEndsTheGame ==
    MatchSpec => [][Deliver /\ IsLastWord(Head(inbox)) => gameState' \in Ended]_matchVars
<1>1. ASSUME BoardSafe, ConnectionOK, Deliver, IsLastWord(Head(inbox))
      PROVE  gameState' \in Ended
  <2>1. CASE gameState \in Ended
    BY <1>1, <2>1, EndStep DEF BoardSafe, MatchNext
  <2>2. CASE gameState \notin Ended
    BY <1>1, <2>2, DeliverEnds
  <2> QED
    BY <2>1, <2>2
<1> QED
  BY <1>1, SpecEnds, PTL

=============================================================================
