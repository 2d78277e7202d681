---------------------------- MODULE Matchmaking ----------------------------
(***************************************************************************)
(* How players come to a table: the player's agent (RoomStartMatch and     *)
(* RoomMatchCancel in ma_userroom.lua), the matching service               *)
(* (ddz_match_mgr.lua), the pool of robots (ddz_robot_mgr.lua), the room   *)
(* manager (ddz_room_mgr.lua) and the rooms, up to the moment the players  *)
(* leave them.  One game and one room level: others have queues of their   *)
(* own, but the queues of all levels are in one object.  The object of a   *)
(* new user or of a configured match is deleted with all of them, when a   *)
(* user of one level leaves or is matched; what that does to users of      *)
(* another level is not in the model.                                      *)
(*                                                                         *)
(* Every service handles a message at a time; messages from one service to *)
(* another arrive in order.  A queue object of the matching service        *)
(* outlives its entry in MatchQueue as long as a remove closure in         *)
(* MatchUserArr refers to it; the numbers in Objects stand for the objects *)
(* and are used again once nothing refers to them.                         *)
(* How long the first player has waited, and how long ago the last robot   *)
(* was ordered, is left open: the matching tick does either or nothing.    *)
(***************************************************************************)
EXTENDS Integers, Sequences, FiniteSets, SequencesExt

CONSTANTS Users,       \* people
          Robots,      \* identities of robots
          PlayerNum,   \* players at a table (3, or 4)
          Kind,        \* GameSubType of each user's matches, or NoRoom: a game with
                       \* prices but no rooms (SwapThree, DdzFour)
          Objects,     \* queue objects
          RoomIds,     \* rooms that exist at the same time
          MaxCancels,  \* bound on a user's unanswered cancellations
          MaxOrders    \* bound on the robots ordered and not created yet

Players == Users \cup Robots
Kinds   == {"Default", "Prison", "NewUser", "MatchServer", "NoRoom"}

ASSUME MatchAssumption ==
    /\ Users \cap Robots = {}
    /\ PlayerNum \in Nat \ {0}
    /\ Kind \in [Users -> Kinds]
    /\ Objects \subseteq Nat \ {0} /\ RoomIds \subseteq Nat \ {0}
    /\ MaxCancels \in Nat /\ MaxOrders \in Nat

\* queueKey: a new user has a queue of his own, a configured match has one for the
\* users it names (here all of that kind).
Key(u) == IF Kind[u] = "NewUser" THEN <<"NewUser", u>> ELSE <<Kind[u], "all">>

Keys == {Key(u) : u \in Users}

PublicKey == <<"Default", "all">>
NoKey     == <<"none", "all">>

VARIABLES
    roomState,     \* userInfo.roomState of each user's agent
    roomAddr,      \* userInfo.roomAddr, 0 for nil
    starting,      \* users whose RoomStartMatch waits for the database
    requests,      \* StartMatch and MatchCancel on their way to the matching service
    replies,       \* answers to MatchCancel on their way to the agent
    MatchQueue,    \* ServerData.MatchQueue, 0 for nil
    queue,         \* the players in each queue object
    rules,         \* the kind the object was created with: which tick, robots or not
    MatchUserArr,  \* the object each player's remove closure refers to, 0 for nil
    orders,        \* CreateRobot messages, by the key they carry
    robot,         \* where each robot is, and the key it was created with
    rooms,         \* the rooms: stage, players, and who is not seated yet
    toManager,     \* what each room has sent to ddz_room_mgr
    registered,    \* ddz_room_mgr's table of rooms
    over           \* RoomGameOver_C on its way to a user's agent

agentVars == <<roomState, roomAddr, starting>>
queueVars == <<MatchQueue, queue, rules, MatchUserArr>>
roomVars  == <<rooms, toManager, registered, over>>
vars == <<agentVars, requests, replies, queueVars, orders, robot, roomVars>>

NoRoom == [at |-> "none", players |-> {}, absent |-> {}]

TypeOK ==
    /\ roomState \in [Users -> {"Idle", "Matching", "Gameing"}]
    /\ roomAddr \in [Users -> RoomIds \cup {0}]
    /\ starting \subseteq Users
    /\ requests \in [Users -> Seq({"StartMatch", "MatchCancel"})]
    /\ replies \in [Users -> Seq(BOOLEAN)]
    /\ MatchQueue \in [Keys -> Objects \cup {0}]
    /\ queue \in [Objects -> Seq(Players)]
    /\ rules \in [Objects -> Kinds]
    /\ MatchUserArr \in [Players -> Objects \cup {0}]
    /\ orders \in [Keys -> Nat]
    /\ robot \in [Robots -> [at : {"free", "starting", "playing", "leaving"},
                             key : Keys \cup {NoKey}]]
    /\ rooms \in [RoomIds -> [at : {"none", "init", "playing", "ended"},
                              players : SUBSET Players, absent : SUBSET Players]]
    /\ toManager \in [RoomIds -> Seq({"init", "room_exit"})]
    /\ registered \subseteq RoomIds
    /\ over \subseteq Users \X RoomIds

\* Which object is taken does not matter: the least one.
IsLeast(o, S) == o \in S /\ \A x \in S : o <= x

\* The public queue is made when the service starts.
Init ==
    /\ roomState = [u \in Users |-> "Idle"]
    /\ roomAddr = [u \in Users |-> 0]
    /\ starting = {}
    /\ requests = [u \in Users |-> <<>>]
    /\ replies = [u \in Users |-> <<>>]
    /\ \E o \in Objects : /\ IsLeast(o, Objects)
                         /\ MatchQueue = [k \in Keys |-> IF k = PublicKey THEN o ELSE 0]
    /\ queue = [o \in Objects |-> <<>>]
    /\ rules = [o \in Objects |-> "Default"]
    /\ MatchUserArr = [p \in Players |-> 0]
    /\ orders = [k \in Keys |-> 0]
    /\ robot = [r \in Robots |-> [at |-> "free", key |-> NoKey]]
    /\ rooms = [i \in RoomIds |-> NoRoom]
    /\ toManager = [i \in RoomIds |-> <<>>]
    /\ registered = {} /\ over = {}

-----------------------------------------------------------------------------
(***************************************************************************)
(* The agent.                                                              *)
(***************************************************************************)

Ask(u, what) == requests' = [requests EXCEPT ![u] = Append(@, what)]

\* A user who is matching or at a table is turned away.
MayStart(u) == roomState[u] = "Idle"

\* Only for the two public kinds the prison has to be looked up first. A game without
\* rooms is refused, but only after the state has been set.
RoomStartMatch(u) ==
    /\ MayStart(u)
    /\ roomState' = [roomState EXCEPT ![u] = "Matching"]
    /\ starting' = IF Kind[u] \in {"Default", "Prison"} THEN starting \cup {u} ELSE starting
    /\ IF Kind[u] \in {"NewUser", "MatchServer"} THEN Ask(u, "StartMatch") ELSE UNCHANGED requests
    /\ UNCHANGED <<roomAddr, replies, queueVars, orders, robot, roomVars>>

PrisonLookedUp(u) ==
    /\ u \in starting
    /\ starting' = starting \ {u}
    /\ Ask(u, "StartMatch")
    /\ UNCHANGED <<roomState, roomAddr, replies, queueVars, orders, robot, roomVars>>

Cancels(u) ==
    Len(replies[u]) + Cardinality({i \in DOMAIN requests[u] : requests[u][i] = "MatchCancel"})

\* By the client, or because the user went offline
RoomMatchCancel(u) ==
    /\ roomState[u] = "Matching"
    /\ Cancels(u) < MaxCancels
    /\ Ask(u, "MatchCancel")
    /\ UNCHANGED <<agentVars, replies, queueVars, orders, robot, roomVars>>

\* Mutant of CancelAnswered: the state stays.
CancelForgotten(u) ==
    /\ replies[u] # <<>>
    /\ replies' = [replies EXCEPT ![u] = Tail(@)]
    /\ UNCHANGED <<agentVars, requests, queueVars, orders, robot, roomVars>>

CancelAnswered(u) ==
    /\ replies[u] # <<>>
    /\ replies' = [replies EXCEPT ![u] = Tail(@)]
    /\ roomState' = [roomState EXCEPT ![u] = IF Head(replies[u]) THEN "Idle" ELSE @]
    /\ UNCHANGED <<roomAddr, starting, requests, queueVars, orders, robot, roomVars>>

\* RoomGameOver_C, as far as exitRoom
LeaveRoom(u, i) ==
    /\ <<u, i>> \in over
    /\ over' = over \ {<<u, i>>}
    /\ roomAddr' = [roomAddr EXCEPT ![u] = 0]
    /\ roomState' = [roomState EXCEPT ![u] = "Idle"]
    /\ UNCHANGED <<starting, requests, replies, queueVars, orders, robot, rooms,
                   toManager, registered>>

-----------------------------------------------------------------------------
(***************************************************************************)
(* The matching service.                                                   *)
(***************************************************************************)

Removable(o) == rules[o] \in {"NewUser", "MatchServer"}

Unused == {o \in Objects : /\ \A k \in Keys : MatchQueue[k] # o
                           /\ \A p \in Players : MatchUserArr[p] # o}

\* GetMatchQueueObj and AddPlayer: p joins the queue of the key, made with the rules of
\* the kind if there is none.
AddPlayer(p, key, kind) ==
    \/ /\ MatchQueue[key] # 0
       /\ queue' = [queue EXCEPT ![MatchQueue[key]] = Append(@, p)]
       /\ MatchUserArr' = [MatchUserArr EXCEPT ![p] = MatchQueue[key]]
       /\ UNCHANGED <<MatchQueue, rules>>
    \/ /\ MatchQueue[key] = 0
       /\ \E o \in Unused :
              /\ IsLeast(o, Unused)
              /\ MatchQueue' = [MatchQueue EXCEPT ![key] = o]
              /\ queue' = [queue EXCEPT ![o] = <<p>>]
              /\ rules' = [rules EXCEPT ![o] = kind]
              /\ MatchUserArr' = [MatchUserArr EXCEPT ![p] = o]

\* CMD.StartMatch
StartMatch(u) ==
    /\ requests[u] # <<>> /\ Head(requests[u]) = "StartMatch"
    /\ requests' = [requests EXCEPT ![u] = Tail(@)]
    /\ IF MatchUserArr[u] # 0 THEN UNCHANGED queueVars ELSE AddPlayer(u, Key(u), Kind[u])
    /\ UNCHANGED <<agentVars, replies, orders, robot, roomVars>>

Within(s) == {s[i] : i \in DOMAIN s}

\* Mutant of remove: the player stays in the queue.
RemoveNobody(u) ==
    /\ MatchUserArr' = [MatchUserArr EXCEPT ![u] = 0]
    /\ UNCHANGED <<MatchQueue, queue, robot>>

(***************************************************************************)
(* remove, and the reset of MatchUserArr.  A queue that is not public is   *)
(* deleted, that is, whatever queue now has its key, and the robots in it  *)
(* are sent away, though they stay in the object.                          *)
(***************************************************************************)
remove(u) ==
    LET o     == MatchUserArr[u]
        found == u \in Within(queue[o])
        gone  == IF found /\ Removable(o) THEN Within(queue[o]) \cap Robots ELSE {}
    IN  /\ IF found THEN \E n \in DOMAIN queue[o] :
                             /\ queue[o][n] = u
                             /\ queue' = [queue EXCEPT ![o] = RemoveAt(queue[o], n)]
           ELSE UNCHANGED queue
        /\ MatchUserArr' = [p \in Players |-> IF p = u \/ p \in gone THEN 0 ELSE MatchUserArr[p]]
        /\ MatchQueue' = IF found /\ Removable(o) THEN [MatchQueue EXCEPT ![Key(u)] = 0] ELSE MatchQueue
        /\ robot' = [r \in Robots |-> IF r \in gone THEN [robot[r] EXCEPT !.at = "leaving"] ELSE robot[r]]

\* CMD.MatchCancel
MatchCancel(u) ==
    /\ requests[u] # <<>> /\ Head(requests[u]) = "MatchCancel"
    /\ requests' = [requests EXCEPT ![u] = Tail(@)]
    /\ replies' = [replies EXCEPT ![u] = Append(@, MatchUserArr[u] # 0)]
    /\ IF MatchUserArr[u] # 0 THEN remove(u) ELSE UNCHANGED <<MatchQueue, queue, MatchUserArr, robot>>
    /\ UNCHANGED <<agentVars, rules, orders, roomVars>>

FreeRooms ==
    {i \in RoomIds : /\ rooms[i].at = "none" /\ \A u \in Users : <<u, i>> \notin over
                     /\ \A u \in Users : roomAddr[u] # i}

\* Mutant of Spliced: the players who came last.
SplicedLast(s, n) ==
    [taken |-> SubSeq(s, Len(s) - n + 1, Len(s)), left |-> SubSeq(s, 1, Len(s) - n)]

\* table.splice(queue, 1, n): the players who have waited longest, and the others
Spliced(s, n) == [taken |-> SubSeq(s, 1, n), left |-> SubSeq(s, n + 1, Len(s))]

\* Mutant of Matched: MatchUserArr is not reset.
MatchedStillCancellable(key, o, n) ==
    /\ queue' = [queue EXCEPT ![o] = Spliced(queue[o], n).left]
    /\ MatchQueue' = IF Removable(o) THEN [MatchQueue EXCEPT ![key] = 0] ELSE MatchQueue
    /\ UNCHANGED MatchUserArr

\* What match_ok and the splice before it do to the queue
Matched(key, o, n) ==
    LET first == Within(Spliced(queue[o], n).taken)
    IN  /\ queue' = [queue EXCEPT ![o] = Spliced(queue[o], n).left]
        /\ MatchQueue' = IF Removable(o) THEN [MatchQueue EXCEPT ![key] = 0] ELSE MatchQueue
        /\ MatchUserArr' = [p \in Players |-> IF p \in first THEN 0 ELSE MatchUserArr[p]]

\* match_ok for n players, at one table or, sorted by their beans, at several;
\* create_room is sent for each table.
MatchOk(key, o, n) ==
    LET first == Within(Spliced(queue[o], n).taken)
    IN  /\ Matched(key, o, n)
        /\ \E table \in [first -> FreeRooms] :
               LET at(i) == {p \in first : table[p] = i}
               IN  /\ \A p \in first : Cardinality(at(table[p])) = PlayerNum
                   /\ rooms' = [i \in RoomIds |->
                          IF at(i) = {} THEN rooms[i]
                          ELSE [at |-> "init", players |-> at(i), absent |-> at(i)]]
        /\ UNCHANGED <<orders, rules, robot, agentVars, requests, replies, toManager,
                       registered, over>>

\* TickDefault and TickRecycle for one queue, once the first player has waited enough.
\* (TickDefault's branch for anchors is dead: no agent sets is_anchor.)
Tick(key) ==
    LET o      == MatchQueue[key]
        len    == Len(queue[o])
        tables == IF rules[o] = "NewUser" THEN 1 ELSE len \div PlayerNum
    IN  /\ o # 0 /\ len > 0
        /\ \/ len >= PlayerNum /\ MatchOk(key, o, PlayerNum * tables)
           \/ /\ len < PlayerNum /\ rules[o] # "MatchServer"
              /\ orders[key] < MaxOrders
              /\ orders' = [orders EXCEPT ![key] = @ + 1]
              /\ UNCHANGED <<agentVars, requests, replies, queueVars, robot, roomVars>>

-----------------------------------------------------------------------------
(***************************************************************************)
(* Robots.                                                                 *)
(***************************************************************************)

\* CMD.CreateRobot: an identity that is free, or an error message. It looks at five
\* groups of identities only, and may miss a free one once some are in use.
CreateRobot(key) ==
    /\ orders[key] > 0
    /\ orders' = [orders EXCEPT ![key] = @ - 1]
    /\ \/ \E r \in Robots :
              /\ robot[r].at = "free"
              /\ robot' = [robot EXCEPT ![r] = [at |-> "starting", key |-> key]]
       \/ (\E r \in Robots : robot[r].at # "free") /\ UNCHANGED robot
    /\ UNCHANGED <<agentVars, requests, replies, queueVars, roomVars>>

\* The robot's StartMatch. It names the key itself: a queue it has to make is public.
RobotStartMatch(r) ==
    /\ robot[r].at = "starting"
    /\ robot' = [robot EXCEPT ![r].at = "playing"]
    /\ IF MatchUserArr[r] # 0 THEN UNCHANGED queueVars ELSE AddPlayer(r, robot[r].key, "Default")
    /\ UNCHANGED <<agentVars, requests, replies, orders, roomVars>>

\* robot_gameover reaches the pool.
RobotReturns(r) ==
    /\ robot[r].at = "leaving"
    /\ robot' = [robot EXCEPT ![r] = [at |-> "free", key |-> NoKey]]
    /\ UNCHANGED <<agentVars, requests, replies, queueVars, orders, roomVars>>

-----------------------------------------------------------------------------
(***************************************************************************)
(* Rooms and ddz_room_mgr.                                                 *)
(***************************************************************************)

\* Room.init calls RoomUserInfoGet of one player; after the last one the game starts
\* and init returns to the manager.
Seat(i, p) ==
    /\ rooms[i].at = "init" /\ p \in rooms[i].absent
    /\ LET absent == rooms[i].absent \ {p}
       IN  /\ rooms' = [rooms EXCEPT ![i].absent = absent,
                                     ![i].at = IF absent = {} THEN "playing" ELSE "init"]
           /\ toManager' = IF absent = {} THEN [toManager EXCEPT ![i] = Append(@, "init")]
                           ELSE toManager
    /\ roomAddr' = [u \in Users |-> IF u = p THEN i ELSE roomAddr[u]]
    /\ roomState' = [u \in Users |-> IF u = p THEN "Gameing" ELSE roomState[u]]
    /\ UNCHANGED <<starting, requests, replies, queueVars, orders, robot, registered, over>>

\* Mutant of GameOver: the room goes on.
GameOverAgain(i) ==
    /\ rooms[i].at = "playing"
    /\ Len(toManager[i]) < 3
    /\ over' = over \cup ((rooms[i].players \cap Users) \X {i})
    /\ toManager' = [toManager EXCEPT ![i] = Append(@, "room_exit")]
    /\ UNCHANGED <<agentVars, requests, replies, queueVars, orders, robot, rooms, registered>>

\* Room.gameover: RoomGameOver_C to everybody, then room_exit to the manager
GameOver(i) ==
    /\ rooms[i].at = "playing"
    /\ rooms' = [rooms EXCEPT ![i].at = "ended"]
    /\ over' = over \cup ((rooms[i].players \cap Users) \X {i})
    /\ robot' = [r \in Robots |->
           IF r \in rooms[i].players THEN [robot[r] EXCEPT !.at = "leaving"] ELSE robot[r]]
    /\ toManager' = [toManager EXCEPT ![i] = Append(@, "room_exit")]
    /\ UNCHANGED <<agentVars, requests, replies, queueVars, orders, registered>>

\* create_room goes on after init: the room is entered in the manager's table.
Registered(i) ==
    /\ toManager[i] # <<>> /\ Head(toManager[i]) = "init"
    /\ toManager' = [toManager EXCEPT ![i] = Tail(@)]
    /\ registered' = registered \cup {i}
    /\ UNCHANGED <<agentVars, requests, replies, queueVars, orders, robot, rooms, over>>

\* CMD.room_exit, whose return ends the room
RoomExit(i) ==
    /\ toManager[i] # <<>> /\ Head(toManager[i]) = "room_exit"
    /\ toManager' = [toManager EXCEPT ![i] = Tail(@)]
    /\ registered' = registered \ {i}
    /\ rooms' = [rooms EXCEPT ![i] = NoRoom]
    /\ UNCHANGED <<agentVars, requests, replies, queueVars, orders, robot, over>>

-----------------------------------------------------------------------------
Next ==
    \/ \E u \in Users :
           \/ RoomStartMatch(u) \/ RoomMatchCancel(u) \/ PrisonLookedUp(u) \/ CancelAnswered(u)
           \/ StartMatch(u) \/ MatchCancel(u)
           \/ \E i \in RoomIds : LeaveRoom(u, i)
    \/ \E k \in Keys : Tick(k) \/ CreateRobot(k)
    \/ \E r \in Robots : RobotStartMatch(r) \/ RobotReturns(r)
    \/ \E i \in RoomIds :
           \/ \E p \in Players : Seat(i, p)
           \/ GameOver(i) \/ Registered(i) \/ RoomExit(i)

Spec == Init /\ [][Next]_vars

(***************************************************************************)
(* Messages are handled, services answer, games end (DdzRoom!RoomCloses).  *)
(* The tick comes every tenth of a second whatever the others do: that is  *)
(* strong fairness.  Nothing is assumed of the users.                      *)
(***************************************************************************)
Fairness ==
    /\ \A u \in Users :
           /\ WF_vars(PrisonLookedUp(u)) /\ WF_vars(CancelAnswered(u))
           /\ WF_vars(StartMatch(u) \/ MatchCancel(u))
           /\ \A i \in RoomIds : WF_vars(LeaveRoom(u, i))
    /\ \A k \in Keys : SF_vars(Tick(k)) /\ WF_vars(CreateRobot(k))
    /\ \A r \in Robots : WF_vars(RobotStartMatch(r) \/ RobotReturns(r))
    /\ \A i \in RoomIds :
           /\ WF_vars((\E p \in Players : Seat(i, p)) \/ GameOver(i))
           /\ WF_vars(Registered(i) \/ RoomExit(i))

FairSpec == Spec /\ Fairness

-----------------------------------------------------------------------------
(***************************************************************************)
(* Properties                                                              *)
(***************************************************************************)

\* RoomUserInfoGet never logs "user.roomAddr error!": a user who is given a seat has
\* left every other room.
SeatedOnce ==
    \A i \in RoomIds, u \in Users : u \in rooms[i].absent => roomAddr[u] = 0

\* A user whose agent says Idle, after a cancellation that raced the match or after a
\* game, is in no queue, at no table, and has no request for one under way.
IdleIsNowhere ==
    \A u \in Users : roomState[u] = "Idle" =>
        /\ u \notin starting /\ MatchUserArr[u] = 0
        /\ \A n \in DOMAIN requests[u] : requests[u][n] # "StartMatch"
        /\ \A o \in Objects : u \notin Within(queue[o])
        /\ \A i \in RoomIds : u \in rooms[i].players => rooms[i].at = "ended"

\* UserRoomState.Matching means that a match is under way: the request for one is being
\* prepared or sent, the user is in a queue, a table calls, or a cancellation has succeeded.
MatchingIsReal ==
    \A u \in Users : roomState[u] = "Matching" =>
        \/ u \in starting
        \/ \E n \in DOMAIN requests[u] : requests[u][n] = "StartMatch"
        \/ MatchUserArr[u] # 0 /\ u \in Within(queue[MatchUserArr[u]])
        \/ \E i \in RoomIds : u \in rooms[i].absent
        \/ \E n \in DOMAIN replies[u] : replies[u][n]

\* Agent, matching service and rooms agree on what the user is doing.
AgentsAgree == TypeOK /\ IdleIsNowhere /\ MatchingIsReal

\* The assertion of room_exit: the manager knows every room that ends, though it enters
\* a room only after the players are in it.
ExitFindsRoom ==
    \A i \in RoomIds : toManager[i] # <<>> /\ Head(toManager[i]) = "room_exit" => i \in registered

\* Whoever waits in a queue waits in one that the tick visits: a queue that is not
\* public is deleted when the match is made (comment at ddz_match_mgr.lua, line 52).
WaitersAreTicked ==
    \A u \in Users : MatchUserArr[u] # 0 => MatchQueue[Key(u)] = MatchUserArr[u]

\* In a public queue every user who asks for a match gets a seat or has cancelled, even
\* if other users come and go for ever.
MatchingEnds == \A u \in Users : roomState[u] = "Matching" ~> roomState[u] # "Matching"

=============================================================================
