------------------------- MODULE Matchmaking_proofs -------------------------
(***************************************************************************)
(* For any number of users, robots and rooms: a user is at one place only  *)
(* between the moment he asks for a match and the end of the game, his     *)
(* agent's state says which kind of place, and the room manager knows the  *)
(* rooms that end.                                                         *)
(***************************************************************************)
EXTENDS Matchmaking, SequenceTheorems, TLAPS

\* x occurs in the sequence s; x occurs in it once at most.
Has(s, x)  == \E n \in DOMAIN s : s[n] = x
Once(s, x) == \A m, n \in DOMAIN s : s[m] = x /\ s[n] = x => m = n

\* The places a user who is matching can be at, besides starting and MatchUserArr.
Asked(u)     == Has(requests[u], "StartMatch")
Called(u)    == \E i \in RoomIds : u \in rooms[i].absent
Cancelled(u) == Has(replies[u], TRUE)

\* The places a user who is playing can be at.
SeatedIn(u, i) == u \in rooms[i].players /\ u \notin rooms[i].absent /\ rooms[i].at \in {"init", "playing"}
Told(u, i)     == <<u, i>> \in over

(***************************************************************************)
(* A user is at one place at most, and his agent's state goes with it.     *)
(***************************************************************************)
StageInv(u) ==
    /\ u \in starting => /\ roomState[u] = "Matching" /\ MatchUserArr[u] = 0
                         /\ ~Asked(u) /\ ~Called(u) /\ ~Cancelled(u)
    /\ Asked(u) => /\ roomState[u] = "Matching" /\ MatchUserArr[u] = 0
                   /\ ~Called(u) /\ ~Cancelled(u)
    /\ MatchUserArr[u] # 0 => roomState[u] = "Matching" /\ ~Called(u) /\ ~Cancelled(u)
    /\ Called(u) => roomState[u] = "Matching" /\ ~Cancelled(u)
    /\ Cancelled(u) => roomState[u] = "Matching"
    /\ roomState[u] = "Matching" => \/ Kind[u] = "NoRoom" \/ u \in starting \/ Asked(u)
                                    \/ MatchUserArr[u] # 0 \/ Called(u) \/ Cancelled(u)

\* Only one request for a match and one successful cancellation are under way, and only
\* one room calls.
OnceInv(u) ==
    /\ Once(requests[u], "StartMatch")
    /\ Once(replies[u], TRUE)
    /\ \A i, j \in RoomIds : u \in rooms[i].absent /\ u \in rooms[j].absent => i = j

\* roomAddr is the room where the user plays or has played until now.
SeatInv(u) ==
    /\ \A i \in RoomIds : SeatedIn(u, i) => roomState[u] = "Gameing" /\ roomAddr[u] = i /\ ~Told(u, i)
    /\ \A i \in RoomIds : Told(u, i) => roomState[u] = "Gameing" /\ roomAddr[u] = i
    /\ IF roomState[u] = "Gameing"
       THEN roomAddr[u] # 0 /\ (SeatedIn(u, roomAddr[u]) \/ Told(u, roomAddr[u]))
       ELSE roomAddr[u] = 0

\* A room and what it has sent to the manager
RoomInv(i) ==
    /\ rooms[i].absent \subseteq rooms[i].players
    /\ rooms[i].at # "init" => rooms[i].absent = {}
    /\ rooms[i].at = "none" => rooms[i].players = {}
    /\ rooms[i].at = "none" => toManager[i] = <<>>
    /\ rooms[i].at = "init" => toManager[i] = <<>>
    /\ rooms[i].at = "playing" => \/ toManager[i] = <<"init">>
                                  \/ toManager[i] = <<>> /\ i \in registered
    /\ rooms[i].at = "ended" => \/ toManager[i] = <<"init", "room_exit">>
                                \/ toManager[i] = <<"room_exit">> /\ i \in registered

\* A user is in the queue object that MatchUserArr names, once, and in no other.
QueueInv ==
    \A o \in Objects, u \in Users :
        /\ Has(queue[o], u) <=> MatchUserArr[u] = o
        /\ Once(queue[o], u)

\* The rules of a queue go with its key: a queue that is deleted is that of a configured
\* match or that of a new user, who is the first in it.
RulesInv ==
    /\ \A r \in Robots : robot[r].at = "starting" => robot[r].key \in Keys
    /\ \A k \in Keys : MatchQueue[k] # 0 =>
           LET o == MatchQueue[k]
           IN  /\ rules[o] = "MatchServer" => k[1] = "MatchServer"
               /\ rules[o] = "NewUser" => /\ queue[o] # <<>> /\ queue[o][1] \in Users
                                          /\ Kind[queue[o][1]] = "NewUser" /\ k = Key(queue[o][1])

\* Who waits in a queue other than that of a configured match waits in the one that the
\* tick visits.
TickedInv ==
    \A u \in Users : Kind[u] # "MatchServer" /\ MatchUserArr[u] # 0 =>
        MatchQueue[Key(u)] = MatchUserArr[u]

MatchInv ==
    /\ TypeOK /\ QueueInv /\ RulesInv /\ TickedInv
    /\ \A u \in Users : StageInv(u) /\ OnceInv(u) /\ SeatInv(u)
    /\ \A i \in RoomIds : RoomInv(i)

-----------------------------------------------------------------------------
(***************************************************************************)
(* Sequences                                                               *)
(***************************************************************************)

\* What Append does to the occurrences of x
LEMMA AppendHas ==
    ASSUME NEW S, NEW s \in Seq(S), NEW e \in S, NEW x
    PROVE  /\ Append(s, e) \in Seq(S)
           /\ Has(Append(s, e), x) <=> Has(s, x) \/ e = x
           /\ Once(s, x) /\ ~(Has(s, x) /\ e = x) => Once(Append(s, e), x)
  BY DEF Has, Once

\* What Tail does to them
LEMMA TailHas ==
    ASSUME NEW S, NEW s \in Seq(S), s # <<>>, NEW x
    PROVE  /\ Tail(s) \in Seq(S)
           /\ Head(s) \in S
           /\ Has(s, x) <=> Has(Tail(s), x) \/ Head(s) = x
           /\ Once(s, x) => Once(Tail(s), x)
           /\ Once(s, x) /\ Head(s) = x => ~Has(Tail(s), x)
<1>1. /\ Tail(s) \in Seq(S) /\ Head(s) \in S /\ Head(s) = s[1]
      /\ Len(s) \in Nat /\ Len(s) >= 1 /\ DOMAIN s = 1 .. Len(s)
      /\ DOMAIN Tail(s) = 1 .. Len(s) - 1
      /\ \A n \in 1 .. Len(s) - 1 : Tail(s)[n] = s[n + 1]
  OBVIOUS
<1> DEFINE t == Tail(s)
           h == Head(s)
<1>2. /\ h = s[1] /\ DOMAIN t = 1 .. Len(s) - 1
      /\ \A n \in 1 .. Len(s) - 1 : t[n] = s[n + 1]
  BY <1>1
<1> HIDE DEF t, h
<1>3. Has(t, x) => Has(s, x)
  <2>1. SUFFICES ASSUME NEW n \in DOMAIN t, t[n] = x
                 PROVE  Has(s, x)
    BY DEF Has
  <2>2. n + 1 \in DOMAIN s /\ s[n + 1] = x
    BY <1>1, <1>2, <2>1
  <2> QED
    BY <2>2 DEF Has
<1>4. Has(s, x) => Has(t, x) \/ h = x
  <2>1. SUFFICES ASSUME NEW n \in DOMAIN s, s[n] = x, n # 1
                 PROVE  Has(t, x)
    BY <1>2 DEF Has
  <2>2. n - 1 \in DOMAIN t /\ t[n - 1] = x
    BY <1>1, <1>2, <2>1
  <2> QED
    BY <2>2 DEF Has
<1>5. h = x => Has(s, x)
  BY <1>1, <1>2 DEF Has
<1>6. Once(s, x) => Once(t, x)
  <2>1. SUFFICES ASSUME Once(s, x), NEW m \in DOMAIN t, NEW n \in DOMAIN t, t[m] = x, t[n] = x
                 PROVE  m = n
    BY DEF Once
  <2>2. /\ m + 1 \in DOMAIN s /\ s[m + 1] = x /\ n + 1 \in DOMAIN s /\ s[n + 1] = x
        /\ m \in Nat /\ n \in Nat
    BY <1>1, <1>2, <2>1
  <2>3. m + 1 = n + 1
    BY <2>1, <2>2 DEF Once
  <2> QED
    BY <2>2, <2>3
<1>7. Once(s, x) /\ h = x => ~Has(t, x)
  <2>1. SUFFICES ASSUME Once(s, x), h = x, NEW n \in DOMAIN t, t[n] = x
                 PROVE  FALSE
    BY DEF Has
  <2>2. n + 1 \in DOMAIN s /\ s[n + 1] = x /\ 1 \in DOMAIN s /\ s[1] = x /\ n + 1 # 1
    BY <1>1, <1>2, <2>1
  <2> QED
    BY <2>1, <2>2 DEF Once
<1> QED
  BY <1>1, <1>3, <1>4, <1>5, <1>6, <1>7 DEF t, h

\* What table.remove does to them
LEMMA RemoveAtHas ==
    ASSUME NEW S, NEW s \in Seq(S), NEW n \in DOMAIN s, NEW x
    PROVE  /\ RemoveAt(s, n) \in Seq(S)
           /\ x # s[n] => (Has(RemoveAt(s, n), x) <=> Has(s, x))
           /\ Once(s, x) => Once(RemoveAt(s, n), x)
           /\ Once(s, x) /\ x = s[n] => ~Has(RemoveAt(s, n), x)
           /\ n # 1 => RemoveAt(s, n) # <<>> /\ RemoveAt(s, n)[1] = s[1]
<1> DEFINE a == SubSeq(s, 1, n - 1)
           b == SubSeq(s, n + 1, Len(s))
           t == a \o b
<1>1. Len(s) \in Nat /\ DOMAIN s = 1 .. Len(s) /\ n \in 1 .. Len(s)
  OBVIOUS
<1>2. /\ a \in Seq(S) /\ Len(a) = n - 1
      /\ \A i \in 1 .. n - 1 : a[i] = s[i]
  <2>1. \A i \in 1 .. n - 1 : i \in 1 .. Len(s)
    BY <1>1
  <2>2. /\ a \in Seq(S)
        /\ Len(a) = IF 1 <= n - 1 THEN (n - 1) - 1 + 1 ELSE 0
        /\ \A i \in 1 .. (n - 1) - 1 + 1 : a[i] = s[1 + i - 1]
    BY <1>1, <2>1, SubSeqProperties
  <2> QED
    BY <1>1, <2>2
<1>3. /\ b \in Seq(S) /\ Len(b) = Len(s) - n
      /\ \A i \in 1 .. Len(s) - n : b[i] = s[n + i]
  <2>1. \A i \in n + 1 .. Len(s) : i \in 1 .. Len(s)
    BY <1>1
  <2>2. /\ b \in Seq(S)
        /\ Len(b) = IF n + 1 <= Len(s) THEN Len(s) - (n + 1) + 1 ELSE 0
        /\ \A i \in 1 .. Len(s) - (n + 1) + 1 : b[i] = s[(n + 1) + i - 1]
    BY <1>1, <2>1, SubSeqProperties, SMTT(30)
  <2> QED
    BY <1>1, <2>2, SMTT(30)
<1> HIDE DEF a, b
<1>4. /\ t \in Seq(S) /\ DOMAIN t = 1 .. Len(s) - 1
      /\ \A i \in 1 .. n - 1 : t[i] = s[i]
      /\ \A i \in n .. Len(s) - 1 : t[i] = s[i + 1]
  <2>1. /\ t \in Seq(S) /\ Len(t) = Len(a) + Len(b)
        /\ \A i \in 1 .. Len(a) + Len(b) : t[i] = IF i <= Len(a) THEN a[i] ELSE b[i - Len(a)]
    BY <1>2, <1>3, ConcatProperties
  <2> HIDE DEF t
  <2>2. DOMAIN t = 1 .. Len(s) - 1
    BY <1>1, <1>2, <1>3, <2>1
  <2>3. ASSUME NEW i \in n .. Len(s) - 1
        PROVE  t[i] = s[i + 1]
    <3>1. i \in 1 .. Len(a) + Len(b) /\ ~(i <= Len(a)) /\ i - Len(a) \in 1 .. Len(s) - n
      BY <1>1, <1>2, <1>3
    <3>2. t[i] = b[i - Len(a)]
      BY <2>1, <3>1
    <3>3. b[i - Len(a)] = s[n + (i - Len(a))] /\ n + (i - Len(a)) = i + 1
      BY <1>1, <1>2, <1>3, <3>1, SMTT(30)
    <3> QED
      BY <3>2, <3>3
  <2> QED
    BY <1>1, <1>2, <1>3, <2>1, <2>2, <2>3
<1>5. RemoveAt(s, n) = t
  BY DEF RemoveAt, a, b
<1> HIDE DEF t
<1> DEFINE up(i) == IF i < n THEN i ELSE i + 1
<1>6. \A i \in DOMAIN t : up(i) \in DOMAIN s /\ up(i) # n /\ t[i] = s[up(i)]
  BY <1>1, <1>4
<1>7. \A i, j \in DOMAIN t : up(i) = up(j) => i = j
  BY <1>1, <1>4
<1>8. \A i \in DOMAIN s : i # n => \E j \in DOMAIN t : up(j) = i
  <2>1. SUFFICES ASSUME NEW i \in DOMAIN s, i # n
                 PROVE  \E j \in DOMAIN t : up(j) = i
    OBVIOUS
  <2>2. CASE i < n
    BY <1>1, <1>4, <2>1, <2>2
  <2>3. CASE i > n
    <3>1. i - 1 \in DOMAIN t /\ up(i - 1) = i
      BY <1>1, <1>4, <2>1, <2>3
    <3> QED
      BY <3>1
  <2> QED
    BY <1>1, <2>1, <2>2, <2>3
<1> HIDE DEF up
<1>9. x # s[n] => (Has(t, x) <=> Has(s, x))
  BY <1>6, <1>8 DEF Has
<1>10. Once(s, x) => Once(t, x)
  BY <1>6, <1>7 DEF Once
<1>11. Once(s, x) /\ x = s[n] => ~Has(t, x)
  BY <1>6 DEF Once, Has
<1>12. n # 1 => t # <<>> /\ t[1] = s[1]
  <2>1. n # 1 => 1 \in 1 .. n - 1 /\ 1 \in 1 .. Len(s) - 1
    BY <1>1
  <2> QED
    BY <1>4, <2>1
<1> QED
  BY <1>4, <1>5, <1>9, <1>10, <1>11, <1>12

\* What table.splice does to them
LEMMA SplicedHas ==
    ASSUME NEW S, NEW s \in Seq(S), NEW n \in 0 .. Len(s), NEW x
    PROVE  /\ Spliced(s, n).taken \in Seq(S)
           /\ Spliced(s, n).left \in Seq(S)
           /\ Has(s, x) <=> Has(Spliced(s, n).taken, x) \/ Has(Spliced(s, n).left, x)
           /\ Once(s, x) => ~(Has(Spliced(s, n).taken, x) /\ Has(Spliced(s, n).left, x))
           /\ Once(s, x) => Once(Spliced(s, n).left, x)
           /\ n > 0 => Has(Spliced(s, n).taken, s[1])
<1> DEFINE a == SubSeq(s, 1, n)
           b == SubSeq(s, n + 1, Len(s))
<1>1. Len(s) \in Nat /\ DOMAIN s = 1 .. Len(s) /\ n \in Nat /\ n <= Len(s)
  OBVIOUS
<1>2. /\ a \in Seq(S) /\ DOMAIN a = 1 .. n
      /\ \A i \in 1 .. n : a[i] = s[i]
  <2>1. \A i \in 1 .. n : i \in 1 .. Len(s)
    BY <1>1
  <2>2. a \in Seq(S) /\ Len(a) = n /\ \A i \in 1 .. n : a[i] = s[i]
    BY <1>1, <2>1, SubSeqProperties
  <2> QED
    BY <2>2
<1>3. /\ b \in Seq(S) /\ DOMAIN b = 1 .. Len(s) - n
      /\ \A i \in 1 .. Len(s) - n : b[i] = s[n + i]
  <2>1. \A i \in n + 1 .. Len(s) : i \in 1 .. Len(s)
    BY <1>1
  <2>2. /\ b \in Seq(S)
        /\ Len(b) = IF n + 1 <= Len(s) THEN Len(s) - (n + 1) + 1 ELSE 0
        /\ \A i \in 1 .. Len(s) - (n + 1) + 1 : b[i] = s[(n + 1) + i - 1]
    BY <1>1, <2>1, SubSeqProperties
  <2> QED
    BY <1>1, <2>2
<1>4. Spliced(s, n).taken = a /\ Spliced(s, n).left = b
  BY DEF Spliced
<1> HIDE DEF a, b
<1>5. \A i \in DOMAIN a : i \in DOMAIN s /\ i <= n /\ a[i] = s[i]
  BY <1>1, <1>2
<1>6. \A i \in DOMAIN b : n + i \in DOMAIN s /\ ~(n + i <= n) /\ b[i] = s[n + i]
  BY <1>1, <1>3
<1>7. \A i \in DOMAIN s : i \in DOMAIN a \/ \E j \in DOMAIN b : n + j = i
  <2>1. SUFFICES ASSUME NEW i \in DOMAIN s, i \notin DOMAIN a
                 PROVE  i - n \in DOMAIN b /\ n + (i - n) = i
    OBVIOUS
  <2> QED
    BY <1>1, <1>2, <1>3, <2>1
<1>8. \A i, j \in DOMAIN b : n + i = n + j => i = j
  BY <1>1, <1>3
<1>9. Has(s, x) <=> Has(a, x) \/ Has(b, x)
  BY <1>5, <1>6, <1>7 DEF Has
<1>10. Once(s, x) => ~(Has(a, x) /\ Has(b, x))
  BY <1>5, <1>6 DEF Once, Has
<1>11. Once(s, x) => Once(b, x)
  BY <1>6, <1>8 DEF Once
<1>12. n > 0 => Has(a, s[1])
  <2>1. n > 0 => 1 \in DOMAIN a
    BY <1>1, <1>2
  <2> QED
    BY <1>5, <2>1 DEF Has
<1> QED
  BY <1>2, <1>3, <1>4, <1>9, <1>10, <1>11, <1>12

-----------------------------------------------------------------------------
(***************************************************************************)
(* What a step leaves alone                                                *)
(***************************************************************************)

UserInv(u) == StageInv(u) /\ OnceInv(u) /\ SeatInv(u)

\* A user whom the step does not touch stays where he is.
LEMMA UserFrame ==
    ASSUME NEW v \in Users, UserInv(v), roomAddr[v] \in RoomIds \cup {0},
           roomState'[v] = roomState[v], roomAddr'[v] = roomAddr[v], v \in starting' <=> v \in starting,
           requests'[v] = requests[v], replies'[v] = replies[v], MatchUserArr'[v] = MatchUserArr[v],
           \A i \in RoomIds : v \in rooms'[i].absent <=> v \in rooms[i].absent,
           \A i \in RoomIds : SeatedIn(v, i)' <=> SeatedIn(v, i),
           \A i \in RoomIds : Told(v, i)' <=> Told(v, i)
    PROVE  UserInv(v)'
<1>1. /\ Asked(v)' <=> Asked(v)
      /\ Cancelled(v)' <=> Cancelled(v)
      /\ Called(v)' <=> Called(v)
  BY DEF Asked, Cancelled, Called
<1>2. StageInv(v)'
  BY <1>1 DEF UserInv, StageInv
<1>3. OnceInv(v)'
  BY DEF UserInv, OnceInv
<1>4. SeatInv(v)'
  BY DEF UserInv, SeatInv
<1> QED
  BY <1>2, <1>3, <1>4 DEF UserInv

\* The same where the rooms stay.
LEMMA UserFrameRooms ==
    ASSUME NEW v \in Users, UserInv(v), roomAddr[v] \in RoomIds \cup {0},
           roomState'[v] = roomState[v], roomAddr'[v] = roomAddr[v], v \in starting' <=> v \in starting,
           requests'[v] = requests[v], replies'[v] = replies[v], MatchUserArr'[v] = MatchUserArr[v],
           UNCHANGED rooms, \A i \in RoomIds : Told(v, i)' <=> Told(v, i)
    PROVE  UserInv(v)'
<1>1. \A i \in RoomIds : v \in rooms'[i].absent <=> v \in rooms[i].absent
  OBVIOUS
<1>2. \A i \in RoomIds : SeatedIn(v, i)' <=> SeatedIn(v, i)
  BY DEF SeatedIn
<1> QED
  BY <1>1, <1>2, UserFrame

\* A user whose seat the step does not touch
LEMMA SeatFrame ==
    ASSUME NEW v \in Users, SeatInv(v),
           roomState[v] = "Gameing" <=> roomState'[v] = "Gameing", roomAddr'[v] = roomAddr[v],
           UNCHANGED <<rooms, over>>
    PROVE  SeatInv(v)'
  BY DEF SeatInv, SeatedIn, Told

\* The matching service's tables
LEMMA QueueFrame ==
    ASSUME QueueInv, RulesInv, TickedInv, UNCHANGED queueVars,
           \A r \in Robots : robot'[r].at = "starting" => robot'[r].key \in Keys
    PROVE  QueueInv' /\ RulesInv' /\ TickedInv'
<1> USE DEF queueVars
<1>1. QueueInv'
  BY DEF QueueInv
<1>2. RulesInv'
  BY DEF RulesInv
<1>3. TickedInv'
  BY DEF TickedInv
<1> QED
  BY <1>1, <1>2, <1>3

\* The rooms
LEMMA RoomFrame ==
    ASSUME NEW i \in RoomIds, RoomInv(i), rooms'[i] = rooms[i], toManager'[i] = toManager[i],
           i \in registered' <=> i \in registered
    PROVE  RoomInv(i)'
  BY DEF RoomInv

\* A step of an agent changes neither.
LEMMA AgentFrame ==
    ASSUME MatchInv, UNCHANGED <<queueVars, robot, rooms, toManager, registered>>
    PROVE  /\ QueueInv' /\ RulesInv' /\ TickedInv'
           /\ \A i \in RoomIds : RoomInv(i)'
<1>1. \A r \in Robots : robot'[r].at = "starting" => robot'[r].key \in Keys
  BY DEF MatchInv, RulesInv
<1>2. QueueInv' /\ RulesInv' /\ TickedInv'
  BY <1>1, QueueFrame DEF MatchInv
<1>3. \A i \in RoomIds : RoomInv(i)'
  BY RoomFrame DEF MatchInv
<1> QED
  BY <1>2, <1>3

-----------------------------------------------------------------------------
(***************************************************************************)
(* The agent's steps                                                       *)
(***************************************************************************)

\* An idle user is nowhere: now he is looked up or asks.
LEMMA StepRoomStartMatch ==
    ASSUME MatchInv, NEW u \in Users, RoomStartMatch(u)
    PROVE  MatchInv'
<1> USE DEF queueVars, roomVars
<1>1. /\ QueueInv' /\ RulesInv' /\ TickedInv'
      /\ \A i \in RoomIds : RoomInv(i)'
  BY AgentFrame DEF RoomStartMatch
<1>2. /\ requests' \in [Users -> Seq({"StartMatch", "MatchCancel"})]
      /\ \A v \in Users : v # u => requests'[v] = requests[v]
  <2>1. requests \in [Users -> Seq({"StartMatch", "MatchCancel"})]
    BY DEF MatchInv, TypeOK
  <2>2. \/ requests' = [requests EXCEPT ![u] = Append(@, "StartMatch")]
        \/ UNCHANGED requests
    BY DEF RoomStartMatch, Ask
  <2>3. CASE requests' = [requests EXCEPT ![u] = Append(@, "StartMatch")]
    BY <2>1, <2>3
  <2>4. CASE UNCHANGED requests
    BY <2>1, <2>4
  <2> QED
    BY <2>2, <2>3, <2>4
<1>3. TypeOK'
  BY <1>2 DEF RoomStartMatch, MatchInv, TypeOK
<1>4. ASSUME NEW v \in Users, v # u
      PROVE  UserInv(v)'
  <2>1. UserInv(v) /\ roomAddr[v] \in RoomIds \cup {0}
    BY DEF MatchInv, UserInv, TypeOK
  <2>2. /\ roomState'[v] = roomState[v] /\ roomAddr'[v] = roomAddr[v] /\ (v \in starting' <=> v \in starting)
        /\ requests'[v] = requests[v] /\ replies'[v] = replies[v] /\ MatchUserArr'[v] = MatchUserArr[v]
        /\ UNCHANGED rooms /\ \A i \in RoomIds : Told(v, i)' <=> Told(v, i)
    BY <1>2, <1>4 DEF RoomStartMatch, MatchInv, TypeOK, Told
  <2> QED
    BY <2>1, <2>2, UserFrameRooms
<1>5. UserInv(u)'
  <2>1. /\ StageInv(u) /\ OnceInv(u) /\ SeatInv(u)
        /\ roomState[u] = "Idle" /\ roomState'[u] = "Matching"
    BY DEF RoomStartMatch, MayStart, MatchInv, TypeOK
  <2>2. /\ u \notin starting /\ ~Asked(u) /\ MatchUserArr[u] = 0 /\ ~Called(u) /\ ~Cancelled(u)
    BY <2>1 DEF StageInv
  <2>3. /\ ~Called(u)' /\ ~Cancelled(u)' /\ MatchUserArr'[u] = 0
    BY <2>2 DEF Called, Cancelled, RoomStartMatch
  <2>4. SeatInv(u)'
    BY <2>1, SeatFrame DEF RoomStartMatch
  <2>5. CASE Kind[u] \in {"NewUser", "MatchServer"}
    <3>1. requests[u] \in Seq({"StartMatch", "MatchCancel"}) /\ requests'[u] = Append(requests[u], "StartMatch")
      BY <2>5 DEF RoomStartMatch, Ask, MatchInv, TypeOK
    <3>2. Asked(u)' /\ Once(requests'[u], "StartMatch")
      BY <2>1, <2>2, <3>1, AppendHas DEF Asked, OnceInv
    <3>3. u \notin starting'
      BY <2>2, <2>5 DEF RoomStartMatch
    <3>4. StageInv(u)'
      BY <2>1, <2>3, <3>2, <3>3 DEF StageInv
    <3>5. OnceInv(u)'
      BY <2>1, <3>2 DEF OnceInv, RoomStartMatch
    <3> QED
      BY <2>4, <3>4, <3>5 DEF UserInv
  <2>6. CASE Kind[u] \notin {"NewUser", "MatchServer"}
    <3>1. UNCHANGED requests
      BY <2>6 DEF RoomStartMatch
    <3>2. ~Asked(u)'
      BY <2>2, <3>1 DEF Asked
    <3>3. u \in starting' \/ Kind[u] = "NoRoom"
      BY <2>6, MatchAssumption DEF RoomStartMatch, Kinds
    <3>4. StageInv(u)'
      BY <2>1, <2>3, <3>2, <3>3 DEF StageInv
    <3>5. OnceInv(u)'
      BY <2>1, <3>1 DEF OnceInv, RoomStartMatch
    <3> QED
      BY <2>4, <3>4, <3>5 DEF UserInv
  <2> QED
    BY <2>5, <2>6
<1> QED
  BY <1>1, <1>3, <1>4, <1>5 DEF MatchInv, UserInv

\* From being looked up to asking
LEMMA StepPrisonLookedUp ==
    ASSUME MatchInv, NEW u \in Users, PrisonLookedUp(u)
    PROVE  MatchInv'
<1> USE DEF queueVars, roomVars
<1>1. /\ QueueInv' /\ RulesInv' /\ TickedInv'
      /\ \A i \in RoomIds : RoomInv(i)'
  BY AgentFrame DEF PrisonLookedUp
<1>2. /\ requests' \in [Users -> Seq({"StartMatch", "MatchCancel"})]
      /\ \A v \in Users : v # u => requests'[v] = requests[v]
      /\ requests[u] \in Seq({"StartMatch", "MatchCancel"})
      /\ requests'[u] = Append(requests[u], "StartMatch")
  BY DEF PrisonLookedUp, Ask, MatchInv, TypeOK
<1>3. TypeOK'
  BY <1>2 DEF PrisonLookedUp, MatchInv, TypeOK
<1>4. ASSUME NEW v \in Users, v # u
      PROVE  UserInv(v)'
  <2>1. UserInv(v) /\ roomAddr[v] \in RoomIds \cup {0}
    BY DEF MatchInv, UserInv, TypeOK
  <2>2. /\ roomState'[v] = roomState[v] /\ roomAddr'[v] = roomAddr[v] /\ (v \in starting' <=> v \in starting)
        /\ requests'[v] = requests[v] /\ replies'[v] = replies[v] /\ MatchUserArr'[v] = MatchUserArr[v]
        /\ UNCHANGED rooms /\ \A i \in RoomIds : Told(v, i)' <=> Told(v, i)
    BY <1>2, <1>4 DEF PrisonLookedUp, MatchInv, TypeOK, Told
  <2> QED
    BY <2>1, <2>2, UserFrameRooms
<1>5. UserInv(u)'
  <2>1. /\ StageInv(u) /\ OnceInv(u) /\ SeatInv(u) /\ u \in starting
    BY DEF PrisonLookedUp, MatchInv
  <2>2. /\ roomState[u] = "Matching" /\ ~Asked(u) /\ MatchUserArr[u] = 0 /\ ~Called(u) /\ ~Cancelled(u)
    BY <2>1 DEF StageInv
  <2>3. /\ ~Called(u)' /\ ~Cancelled(u)' /\ MatchUserArr'[u] = 0 /\ roomState'[u] = "Matching" /\ u \notin starting'
    BY <2>2 DEF Called, Cancelled, PrisonLookedUp
  <2>4. SeatInv(u)'
    BY <2>1, SeatFrame DEF PrisonLookedUp
  <2>5. Asked(u)' /\ Once(requests'[u], "StartMatch")
    BY <1>2, <2>1, <2>2, AppendHas DEF Asked, OnceInv
  <2>6. StageInv(u)'
    BY <2>3, <2>5 DEF StageInv
  <2>7. OnceInv(u)'
    BY <2>1, <2>5 DEF OnceInv, PrisonLookedUp
  <2> QED
    BY <2>4, <2>6, <2>7 DEF UserInv
<1> QED
  BY <1>1, <1>3, <1>4, <1>5 DEF MatchInv, UserInv

\* A cancellation that is only on its way changes nothing.
LEMMA StepRoomMatchCancel ==
    ASSUME MatchInv, NEW u \in Users, RoomMatchCancel(u)
    PROVE  MatchInv'
<1> USE DEF agentVars, queueVars, roomVars
<1>1. /\ QueueInv' /\ RulesInv' /\ TickedInv'
      /\ \A i \in RoomIds : RoomInv(i)'
  BY AgentFrame DEF RoomMatchCancel
<1>2. /\ requests' \in [Users -> Seq({"StartMatch", "MatchCancel"})]
      /\ \A v \in Users : v # u => requests'[v] = requests[v]
      /\ requests[u] \in Seq({"StartMatch", "MatchCancel"})
      /\ requests'[u] = Append(requests[u], "MatchCancel")
  BY DEF RoomMatchCancel, Ask, MatchInv, TypeOK
<1>3. TypeOK'
  BY <1>2 DEF RoomMatchCancel, MatchInv, TypeOK
<1>4. ASSUME NEW v \in Users, v # u
      PROVE  UserInv(v)'
  <2>1. UserInv(v) /\ roomAddr[v] \in RoomIds \cup {0}
    BY DEF MatchInv, UserInv, TypeOK
  <2>2. /\ roomState'[v] = roomState[v] /\ roomAddr'[v] = roomAddr[v] /\ (v \in starting' <=> v \in starting)
        /\ requests'[v] = requests[v] /\ replies'[v] = replies[v] /\ MatchUserArr'[v] = MatchUserArr[v]
        /\ UNCHANGED rooms /\ \A i \in RoomIds : Told(v, i)' <=> Told(v, i)
    BY <1>2, <1>4 DEF RoomMatchCancel, MatchInv, TypeOK, Told
  <2> QED
    BY <2>1, <2>2, UserFrameRooms
<1>5. UserInv(u)'
  <2>1. /\ StageInv(u) /\ OnceInv(u) /\ SeatInv(u)
    BY DEF MatchInv
  <2>2. (Called(u)' <=> Called(u)) /\ (Cancelled(u)' <=> Cancelled(u)) /\ UNCHANGED <<MatchUserArr, roomState, starting>>
    BY DEF Called, Cancelled, RoomMatchCancel
  <2>3. (Asked(u)' <=> Asked(u)) /\ Once(requests'[u], "StartMatch")
    BY <1>2, <2>1, AppendHas DEF Asked, OnceInv
  <2>4. StageInv(u)'
    BY <2>1, <2>2, <2>3 DEF StageInv
  <2>5. OnceInv(u)'
    BY <2>1, <2>3 DEF OnceInv, RoomMatchCancel
  <2>6. SeatInv(u)'
    BY <2>1, SeatFrame DEF RoomMatchCancel
  <2> QED
    BY <2>4, <2>5, <2>6 DEF UserInv
<1> QED
  BY <1>1, <1>3, <1>4, <1>5 DEF MatchInv, UserInv

\* Whoever has cancelled is at no other place, so Idle is right.
LEMMA StepCancelAnswered ==
    ASSUME MatchInv, NEW u \in Users, CancelAnswered(u)
    PROVE  MatchInv'
<1> USE DEF queueVars, roomVars
<1>1. /\ QueueInv' /\ RulesInv' /\ TickedInv'
      /\ \A i \in RoomIds : RoomInv(i)'
  BY AgentFrame DEF CancelAnswered
<1>2. /\ replies \in [Users -> Seq(BOOLEAN)] /\ replies[u] # <<>>
      /\ replies' = [replies EXCEPT ![u] = Tail(replies[u])]
  BY DEF CancelAnswered, MatchInv, TypeOK
<1>3. /\ replies[u] \in Seq(BOOLEAN) /\ replies'[u] = Tail(replies[u])
      /\ \A v \in Users : v # u => replies'[v] = replies[v]
  BY <1>2
<1>4. Tail(replies[u]) \in Seq(BOOLEAN) /\ Head(replies[u]) \in BOOLEAN
  BY <1>2, <1>3, TailHas
<1>5. replies' \in [Users -> Seq(BOOLEAN)]
  BY <1>2, <1>4
<1>6. \/ Head(replies[u]) = TRUE /\ roomState' = [roomState EXCEPT ![u] = "Idle"]
      \/ Head(replies[u]) # TRUE /\ roomState' = [roomState EXCEPT ![u] = @]
  <2>1. roomState' = [roomState EXCEPT ![u] = IF Head(replies[u]) THEN "Idle" ELSE roomState[u]]
    BY DEF CancelAnswered
  <2>2. CASE Head(replies[u]) = TRUE
    BY <2>1, <2>2
  <2>3. CASE Head(replies[u]) = FALSE
    BY <2>1, <2>3
  <2> QED
    BY <1>4, <2>2, <2>3
<1>7. /\ roomState \in [Users -> {"Idle", "Matching", "Gameing"}]
      /\ roomState' \in [Users -> {"Idle", "Matching", "Gameing"}]
      /\ \A v \in Users : v # u => roomState'[v] = roomState[v]
  <2>1. roomState \in [Users -> {"Idle", "Matching", "Gameing"}]
    BY DEF MatchInv, TypeOK
  <2> QED
    BY <1>6, <2>1
<1>8. TypeOK'
  BY <1>5, <1>7 DEF CancelAnswered, MatchInv, TypeOK
<1>9. ASSUME NEW v \in Users, v # u
      PROVE  UserInv(v)'
  <2>1. UserInv(v) /\ roomAddr[v] \in RoomIds \cup {0}
    BY DEF MatchInv, UserInv, TypeOK
  <2>2. roomState'[v] = roomState[v] /\ replies'[v] = replies[v]
    BY <1>3, <1>7, <1>9
  <2>3. UNCHANGED <<roomAddr, starting, requests, MatchUserArr, rooms, over>>
    BY DEF CancelAnswered
  <2>4. \A i \in RoomIds : Told(v, i)' <=> Told(v, i)
    BY <2>3 DEF Told
  <2> QED
    BY <2>1, <2>2, <2>3, <2>4, UserFrameRooms
<1>10. UserInv(u)'
  <2>1. /\ StageInv(u) /\ OnceInv(u) /\ SeatInv(u)
    BY DEF MatchInv
  <2>2. UNCHANGED <<roomAddr, starting, requests, MatchUserArr, rooms, over>>
    BY DEF CancelAnswered
  <2>3. (Called(u)' <=> Called(u)) /\ (Asked(u)' <=> Asked(u))
    BY <2>2 DEF Called, Asked
  <2>4. Once(replies'[u], TRUE)
    BY <1>2, <1>3, <2>1, TailHas DEF OnceInv
  <2>5. OnceInv(u)'
    BY <2>1, <2>2, <2>4 DEF OnceInv
  <2>6. CASE Head(replies[u]) = TRUE
    <3>1. Cancelled(u) /\ ~Cancelled(u)'
      BY <1>2, <1>3, <2>1, <2>6, TailHas DEF OnceInv, Cancelled
    <3>2. roomState[u] = "Matching" /\ roomState'[u] = "Idle"
      BY <1>6, <1>7, <2>1, <2>6, <3>1 DEF StageInv
    <3>3. StageInv(u)'
      BY <2>1, <2>2, <2>3, <3>1, <3>2 DEF StageInv
    <3>4. SeatInv(u)'
      BY <2>1, <2>2, <3>2, SeatFrame
    <3> QED
      BY <2>5, <3>3, <3>4 DEF UserInv
  <2>7. CASE Head(replies[u]) # TRUE
    <3>1. Cancelled(u)' <=> Cancelled(u)
      BY <1>2, <1>3, <2>7, TailHas DEF Cancelled
    <3>2. roomState'[u] = roomState[u]
      BY <1>6, <1>7, <2>7
    <3>3. StageInv(u)'
      BY <2>1, <2>2, <2>3, <3>1, <3>2 DEF StageInv
    <3>4. SeatInv(u)'
      BY <2>1, <2>2, <3>2, SeatFrame
    <3> QED
      BY <2>5, <3>3, <3>4 DEF UserInv
  <2> QED
    BY <2>6, <2>7
<1> QED
  BY <1>1, <1>8, <1>9, <1>10 DEF MatchInv, UserInv

\* From being told to being nowhere
LEMMA StepLeaveRoom ==
    ASSUME MatchInv, NEW u \in Users, NEW i \in RoomIds, LeaveRoom(u, i)
    PROVE  MatchInv'
<1> USE DEF queueVars
<1>1. /\ QueueInv' /\ RulesInv' /\ TickedInv'
      /\ \A j \in RoomIds : RoomInv(j)'
  BY AgentFrame DEF LeaveRoom
<1>2. TypeOK'
  BY DEF LeaveRoom, MatchInv, TypeOK
<1>3. ASSUME NEW v \in Users, v # u
      PROVE  UserInv(v)'
  <2>1. UserInv(v) /\ roomAddr[v] \in RoomIds \cup {0}
    BY DEF MatchInv, UserInv, TypeOK
  <2>2. /\ roomState'[v] = roomState[v] /\ roomAddr'[v] = roomAddr[v]
        /\ UNCHANGED <<starting, requests, replies, MatchUserArr, rooms>>
        /\ \A j \in RoomIds : Told(v, j)' <=> Told(v, j)
    BY <1>3 DEF LeaveRoom, MatchInv, TypeOK, Told
  <2> QED
    BY <2>1, <2>2, UserFrameRooms
<1>4. UserInv(u)'
  <2>1. /\ StageInv(u) /\ OnceInv(u) /\ SeatInv(u) /\ Told(u, i)
    BY DEF MatchInv, LeaveRoom, Told
  <2>2. roomState[u] = "Gameing" /\ roomAddr[u] = i
    BY <2>1 DEF SeatInv
  <2>3. roomState'[u] = "Idle" /\ roomAddr'[u] = 0
    BY DEF LeaveRoom, MatchInv, TypeOK
  <2>4. /\ (Called(u)' <=> Called(u)) /\ (Asked(u)' <=> Asked(u)) /\ (Cancelled(u)' <=> Cancelled(u))
        /\ UNCHANGED <<MatchUserArr, starting, requests, replies, rooms>>
    BY DEF Called, Asked, Cancelled, LeaveRoom
  <2>5. StageInv(u)'
    BY <2>1, <2>2, <2>3, <2>4 DEF StageInv
  <2>6. OnceInv(u)'
    BY <2>1, <2>4 DEF OnceInv
  <2>7. \A j \in RoomIds : ~Told(u, j)'
    BY <2>1 DEF SeatInv, Told, LeaveRoom
  <2>8. \A j \in RoomIds : ~SeatedIn(u, j)'
    BY <2>1, <2>2, <2>4 DEF SeatInv, SeatedIn
  <2>9. SeatInv(u)'
    BY <2>3, <2>7, <2>8 DEF SeatInv
  <2> QED
    BY <2>5, <2>6, <2>9 DEF UserInv
<1> QED
  BY <1>1, <1>2, <1>3, <1>4 DEF MatchInv, UserInv

-----------------------------------------------------------------------------
(***************************************************************************)
(* The matching service's steps                                            *)
(***************************************************************************)

\* Facts about the tables that the steps below start from
LEMMA QueueTypes ==
    ASSUME MatchInv
    PROVE  /\ MatchQueue \in [Keys -> Objects \cup {0}]
           /\ queue \in [Objects -> Seq(Players)]
           /\ rules \in [Objects -> Kinds]
           /\ MatchUserArr \in [Players -> Objects \cup {0}]
           /\ QueueInv /\ RulesInv /\ TickedInv
           /\ 0 \notin Objects
  BY MatchAssumption DEF MatchInv, TypeOK

\* AddPlayer, for a player who is in no queue
LEMMA AddPlayerStep ==
    ASSUME MatchInv, NEW p \in Players, NEW key \in Keys, NEW kind \in Kinds,
           AddPlayer(p, key, kind), MatchUserArr[p] = 0,
           p \in Users => key = Key(p) /\ kind = Kind[p],
           p \notin Users => kind = "Default",
           \A r \in Robots : robot'[r].at = "starting" => robot'[r].key \in Keys
    PROVE  /\ MatchQueue' \in [Keys -> Objects \cup {0}]
           /\ queue' \in [Objects -> Seq(Players)]
           /\ rules' \in [Objects -> Kinds]
           /\ MatchUserArr' \in [Players -> Objects \cup {0}]
           /\ QueueInv' /\ RulesInv' /\ TickedInv'
           /\ MatchUserArr'[p] # 0
           /\ \A q \in Players : q # p => MatchUserArr'[q] = MatchUserArr[q]
<1>1. /\ MatchQueue \in [Keys -> Objects \cup {0}]
      /\ queue \in [Objects -> Seq(Players)]
      /\ rules \in [Objects -> Kinds]
      /\ MatchUserArr \in [Players -> Objects \cup {0}]
      /\ QueueInv /\ RulesInv /\ TickedInv
      /\ 0 \notin Objects
  BY QueueTypes
<1>2. Users \subseteq Players /\ \A u \in Users : Key(u) \in Keys
  BY DEF Players, Keys
<1>3. CASE /\ MatchQueue[key] # 0
           /\ queue' = [queue EXCEPT ![MatchQueue[key]] = Append(@, p)]
           /\ MatchUserArr' = [MatchUserArr EXCEPT ![p] = MatchQueue[key]]
           /\ UNCHANGED <<MatchQueue, rules>>
  <2> DEFINE o == MatchQueue[key]
             s == Append(queue[o], p)
  <2>1. o \in Objects /\ queue[o] \in Seq(Players)
    BY <1>1, <1>3
  <2>2. s \in Seq(Players) /\ \A v : Has(s, v) <=> Has(queue[o], v) \/ p = v
    BY <2>1, AppendHas
  <2>3. \A v \in Users : Once(s, v)
    <3>1. SUFFICES ASSUME NEW v \in Users PROVE Once(s, v)
      OBVIOUS
    <3>2. Once(queue[o], v) /\ ~(Has(queue[o], v) /\ p = v)
      BY <1>1, <2>1 DEF QueueInv
    <3> QED
      BY <2>1, <3>2, AppendHas
  <2>4. queue[o] # <<>> => s # <<>> /\ s[1] = queue[o][1]
    BY <2>1
  <2>5. /\ queue' = [queue EXCEPT ![o] = s]
        /\ MatchUserArr' = [MatchUserArr EXCEPT ![p] = o]
    BY <1>3
  <2> HIDE DEF s, o
  <2>6. /\ queue' \in [Objects -> Seq(Players)]
        /\ queue'[o] = s /\ \A x \in Objects : x # o => queue'[x] = queue[x]
    BY <1>1, <2>1, <2>2, <2>5
  <2>7. /\ MatchUserArr' \in [Players -> Objects \cup {0}]
        /\ MatchUserArr'[p] = o /\ \A q \in Players : q # p => MatchUserArr'[q] = MatchUserArr[q]
    BY <1>1, <2>1, <2>5
  <2>8. QueueInv'
    <3>1. SUFFICES ASSUME NEW x \in Objects, NEW v \in Users
                   PROVE  /\ Has(queue'[x], v) <=> MatchUserArr'[v] = x
                          /\ Once(queue'[x], v)
      BY DEF QueueInv
    <3>2. CASE x = o
      BY <1>1, <1>2, <2>1, <2>2, <2>3, <2>6, <2>7, <3>2 DEF QueueInv
    <3>3. CASE x # o
      BY <1>1, <1>2, <2>1, <2>6, <2>7, <3>3 DEF QueueInv
    <3> QED
      BY <3>2, <3>3
  <2>9. RulesInv'
    <3>1. SUFFICES ASSUME NEW k \in Keys, MatchQueue[k] # 0
                   PROVE  LET x == MatchQueue[k]
                          IN  /\ rules[x] = "MatchServer" => k[1] = "MatchServer"
                              /\ rules[x] = "NewUser" => /\ queue'[x] # <<>> /\ queue'[x][1] \in Users
                                                         /\ Kind[queue'[x][1]] = "NewUser"
                                                         /\ k = Key(queue'[x][1])
      BY <1>3 DEF RulesInv, Key
    <3>2. MatchQueue[k] \in Objects
      BY <1>1, <3>1
    <3> DEFINE x == MatchQueue[k]
    <3>3. /\ rules[x] = "MatchServer" => k[1] = "MatchServer"
          /\ rules[x] = "NewUser" => /\ queue[x] # <<>> /\ queue[x][1] \in Users
                                     /\ Kind[queue[x][1]] = "NewUser" /\ k = Key(queue[x][1])
      BY <1>1, <3>1 DEF RulesInv
    <3>4. queue[x] # <<>> => queue'[x] # <<>> /\ queue'[x][1] = queue[x][1]
      <4>1. CASE x = o
        BY <2>4, <2>6, <4>1
      <4>2. CASE x # o
        BY <2>6, <3>2, <4>2
      <4> QED
        BY <4>1, <4>2
    <3> QED
      BY <3>3, <3>4
  <2>10. TickedInv'
    <3>1. SUFFICES ASSUME NEW v \in Users, Kind[v] # "MatchServer", MatchUserArr'[v] # 0
                   PROVE  MatchQueue[Key(v)] = MatchUserArr'[v]
      BY <1>3 DEF TickedInv, Key
    <3>2. CASE v = p
      BY <2>7, <3>2 DEF o
    <3>3. CASE v # p
      BY <1>1, <1>2, <2>7, <3>1, <3>3 DEF TickedInv
    <3> QED
      BY <3>2, <3>3
  <2> QED
    BY <1>1, <1>3, <2>1, <2>6, <2>7, <2>8, <2>9, <2>10
<1>4. ASSUME NEW o \in Unused, MatchQueue[key] = 0,
             MatchQueue' = [MatchQueue EXCEPT ![key] = o],
             queue' = [queue EXCEPT ![o] = <<p>>],
             rules' = [rules EXCEPT ![o] = kind],
             MatchUserArr' = [MatchUserArr EXCEPT ![p] = o]
      PROVE  /\ MatchQueue' \in [Keys -> Objects \cup {0}]
             /\ queue' \in [Objects -> Seq(Players)]
             /\ rules' \in [Objects -> Kinds]
             /\ MatchUserArr' \in [Players -> Objects \cup {0}]
             /\ QueueInv' /\ RulesInv' /\ TickedInv'
             /\ MatchUserArr'[p] # 0
             /\ \A q \in Players : q # p => MatchUserArr'[q] = MatchUserArr[q]
  <2> DEFINE s == <<p>>
  <2>1. /\ o \in Objects
        /\ \A k \in Keys : MatchQueue[k] # o
        /\ \A q \in Players : MatchUserArr[q] # o
    BY DEF Unused
  <2>2. s \in Seq(Players) /\ s # <<>> /\ s[1] = p /\ DOMAIN s = {1}
    OBVIOUS
  <2>3. queue' = [queue EXCEPT ![o] = s]
    BY <1>4
  <2> HIDE DEF s
  <2>4. \A v : (Has(s, v) <=> p = v) /\ Once(s, v)
    BY <2>2 DEF Has, Once
  <2>5. /\ queue' \in [Objects -> Seq(Players)]
        /\ queue'[o] = s /\ \A x \in Objects : x # o => queue'[x] = queue[x]
    BY <1>1, <2>1, <2>2, <2>3
  <2>6. /\ MatchUserArr' \in [Players -> Objects \cup {0}]
        /\ MatchUserArr'[p] = o /\ \A q \in Players : q # p => MatchUserArr'[q] = MatchUserArr[q]
    BY <1>1, <1>4, <2>1
  <2>7. /\ MatchQueue' \in [Keys -> Objects \cup {0}]
        /\ MatchQueue'[key] = o /\ \A k \in Keys : k # key => MatchQueue'[k] = MatchQueue[k]
    BY <1>1, <1>4, <2>1
  <2>8. /\ rules' \in [Objects -> Kinds]
        /\ rules'[o] = kind /\ \A x \in Objects : x # o => rules'[x] = rules[x]
    BY <1>1, <1>4, <2>1
  <2>9. QueueInv'
    <3>1. SUFFICES ASSUME NEW x \in Objects, NEW v \in Users
                   PROVE  /\ Has(queue'[x], v) <=> MatchUserArr'[v] = x
                          /\ Once(queue'[x], v)
      BY DEF QueueInv
    <3>2. CASE x = o
      BY <1>2, <2>1, <2>4, <2>5, <2>6, <3>2
    <3>3. CASE x # o
      BY <1>1, <1>2, <2>1, <2>5, <2>6, <3>3 DEF QueueInv
    <3> QED
      BY <3>2, <3>3
  <2>10. RulesInv'
    <3>1. SUFFICES ASSUME NEW k \in Keys, MatchQueue'[k] # 0
                   PROVE  LET x == MatchQueue'[k]
                          IN  /\ rules'[x] = "MatchServer" => k[1] = "MatchServer"
                              /\ rules'[x] = "NewUser" => /\ queue'[x] # <<>> /\ queue'[x][1] \in Users
                                                          /\ Kind[queue'[x][1]] = "NewUser"
                                                          /\ k = Key(queue'[x][1])
      BY DEF RulesInv, Key
    <3>2. CASE k = key
      <4>1. kind = "MatchServer" => key[1] = "MatchServer"
        BY DEF Key
      <4>2. kind = "NewUser" => p \in Users /\ Kind[p] = "NewUser" /\ key = Key(p)
        OBVIOUS
      <4> QED
        BY <2>2, <2>5, <2>7, <2>8, <3>2, <4>1, <4>2
    <3>3. CASE k # key
      <4>1. MatchQueue'[k] = MatchQueue[k] /\ MatchQueue[k] \in Objects /\ MatchQueue[k] # o
        BY <1>1, <2>1, <2>7, <3>1, <3>3
      <4>2. queue'[MatchQueue[k]] = queue[MatchQueue[k]] /\ rules'[MatchQueue[k]] = rules[MatchQueue[k]]
        BY <2>5, <2>8, <4>1
      <4> QED
        BY <1>1, <3>1, <4>1, <4>2 DEF RulesInv
    <3> QED
      BY <3>2, <3>3
  <2>11. TickedInv'
    <3>1. SUFFICES ASSUME NEW v \in Users, Kind[v] # "MatchServer", MatchUserArr'[v] # 0
                   PROVE  MatchQueue'[Key(v)] = MatchUserArr'[v]
      BY DEF TickedInv, Key
    <3>2. CASE v = p
      BY <2>6, <2>7, <3>2
    <3>3. CASE v # p
      <4>1. MatchUserArr'[v] = MatchUserArr[v] /\ MatchQueue[Key(v)] = MatchUserArr[v]
        BY <1>1, <1>2, <2>6, <3>1, <3>3 DEF TickedInv
      <4> QED
        BY <1>2, <1>4, <2>7, <3>1, <4>1
    <3> QED
      BY <3>2, <3>3
  <2> QED
    BY <1>1, <2>1, <2>5, <2>6, <2>7, <2>8, <2>9, <2>10, <2>11
<1> QED
  BY <1>3, <1>4 DEF AddPlayer

\* From asking to waiting in a queue
LEMMA StepStartMatch ==
    ASSUME MatchInv, NEW u \in Users, StartMatch(u)
    PROVE  MatchInv'
<1> USE DEF agentVars, roomVars
<1>1. /\ requests \in [Users -> Seq({"StartMatch", "MatchCancel"})]
      /\ requests[u] \in Seq({"StartMatch", "MatchCancel"}) /\ requests[u] # <<>>
      /\ Head(requests[u]) = "StartMatch"
      /\ requests' = [requests EXCEPT ![u] = Tail(requests[u])]
  BY DEF StartMatch, MatchInv, TypeOK
<1>2. Tail(requests[u]) \in Seq({"StartMatch", "MatchCancel"})
  BY <1>1, TailHas
<1>3. /\ requests' \in [Users -> Seq({"StartMatch", "MatchCancel"})]
      /\ requests'[u] = Tail(requests[u])
      /\ \A v \in Users : v # u => requests'[v] = requests[v]
  BY <1>1, <1>2
<1>4. StageInv(u) /\ OnceInv(u) /\ SeatInv(u)
  BY DEF MatchInv
<1>5. Asked(u) /\ ~Asked(u)' /\ Once(requests'[u], "StartMatch")
  <2>1. Has(requests[u], "StartMatch") /\ ~Has(Tail(requests[u]), "StartMatch")
        /\ Once(Tail(requests[u]), "StartMatch")
    BY <1>1, <1>4, TailHas DEF OnceInv
  <2> QED
    BY <1>3, <2>1 DEF Asked
<1>6. roomState[u] = "Matching" /\ MatchUserArr[u] = 0 /\ ~Called(u) /\ ~Cancelled(u) /\ u \notin starting
  BY <1>4, <1>5 DEF StageInv
<1>7. UNCHANGED <<roomState, roomAddr, starting, replies, orders, robot, rooms, toManager, registered, over>>
  BY DEF StartMatch
<1>8. /\ u \in Players /\ Key(u) \in Keys /\ Kind[u] \in Kinds
      /\ \A r \in Robots : robot'[r].at = "starting" => robot'[r].key \in Keys
  BY <1>7, MatchAssumption DEF Players, Keys, MatchInv, RulesInv
<1>9. AddPlayer(u, Key(u), Kind[u])
  BY <1>6 DEF StartMatch
<1>10. /\ MatchQueue' \in [Keys -> Objects \cup {0}]
       /\ queue' \in [Objects -> Seq(Players)]
       /\ rules' \in [Objects -> Kinds]
       /\ MatchUserArr' \in [Players -> Objects \cup {0}]
       /\ QueueInv' /\ RulesInv' /\ TickedInv'
       /\ MatchUserArr'[u] # 0
       /\ \A q \in Players : q # u => MatchUserArr'[q] = MatchUserArr[q]
  BY <1>6, <1>8, <1>9, AddPlayerStep
<1>11. TypeOK'
  BY <1>3, <1>7, <1>10 DEF MatchInv, TypeOK
<1>12. \A i \in RoomIds : RoomInv(i)'
  BY <1>7, RoomFrame DEF MatchInv
<1>13. ASSUME NEW v \in Users, v # u
       PROVE  UserInv(v)'
  <2>1. UserInv(v) /\ roomAddr[v] \in RoomIds \cup {0} /\ v \in Players
    BY DEF MatchInv, UserInv, TypeOK, Players
  <2>2. \A i \in RoomIds : Told(v, i)' <=> Told(v, i)
    BY <1>7 DEF Told
  <2> QED
    BY <1>3, <1>7, <1>10, <1>13, <2>1, <2>2, UserFrameRooms
<1>14. UserInv(u)'
  <2>1. ~Called(u)' /\ ~Cancelled(u)'
    BY <1>6, <1>7 DEF Called, Cancelled
  <2>2. StageInv(u)'
    BY <1>5, <1>6, <1>7, <1>10, <2>1 DEF StageInv
  <2>3. OnceInv(u)'
    BY <1>4, <1>5, <1>7 DEF OnceInv
  <2>4. SeatInv(u)'
    BY <1>4, <1>7, SeatFrame
  <2> QED
    BY <2>2, <2>3, <2>4 DEF UserInv
<1> QED
  BY <1>10, <1>11, <1>12, <1>13, <1>14 DEF MatchInv, UserInv

\* A step that concerns robots and queues leaves every user where he is.
LEMMA UsersStay ==
    ASSUME MatchInv, UNCHANGED <<roomState, roomAddr, starting, requests, replies, rooms, over>>,
           \A u \in Users : MatchUserArr'[u] = MatchUserArr[u]
    PROVE  \A u \in Users : UserInv(u)'
<1>1. SUFFICES ASSUME NEW v \in Users PROVE UserInv(v)'
  OBVIOUS
<1>2. UserInv(v) /\ roomAddr[v] \in RoomIds \cup {0}
  BY DEF MatchInv, UserInv, TypeOK
<1>3. \A i \in RoomIds : Told(v, i)' <=> Told(v, i)
  BY DEF Told
<1> QED
  BY <1>2, <1>3, UserFrameRooms

\* A robot joins or makes a queue.
LEMMA StepRobotStartMatch ==
    ASSUME MatchInv, NEW r \in Robots, RobotStartMatch(r)
    PROVE  MatchInv'
<1>1. UNCHANGED <<roomState, roomAddr, starting, requests, replies, orders, rooms, toManager, registered, over>>
  BY DEF RobotStartMatch, agentVars, roomVars
<1>2. /\ robot' \in [Robots -> [at : {"free", "starting", "playing", "leaving"}, key : Keys \cup {NoKey}]]
      /\ \A x \in Robots : robot'[x].at = "starting" => robot'[x].key \in Keys
  BY DEF RobotStartMatch, MatchInv, TypeOK, RulesInv
<1>3. r \in Players /\ r \notin Users /\ robot[r].key \in Keys /\ "Default" \in Kinds
  BY MatchAssumption DEF RobotStartMatch, MatchInv, RulesInv, Players, Kinds
<1>4. /\ MatchQueue' \in [Keys -> Objects \cup {0}]
      /\ queue' \in [Objects -> Seq(Players)]
      /\ rules' \in [Objects -> Kinds]
      /\ MatchUserArr' \in [Players -> Objects \cup {0}]
      /\ QueueInv' /\ RulesInv' /\ TickedInv'
      /\ \A q \in Players : q # r => MatchUserArr'[q] = MatchUserArr[q]
  <2>1. CASE MatchUserArr[r] # 0
    <3>1. UNCHANGED queueVars
      BY <2>1 DEF RobotStartMatch
    <3>2. QueueInv' /\ RulesInv' /\ TickedInv'
      BY <1>2, <3>1, QueueFrame DEF MatchInv
    <3> QED
      BY <3>1, <3>2, QueueTypes DEF queueVars
  <2>2. CASE MatchUserArr[r] = 0
    <3>1. AddPlayer(r, robot[r].key, "Default")
      BY <2>2 DEF RobotStartMatch
    <3> QED
      BY <1>2, <1>3, <2>2, <3>1, AddPlayerStep
  <2> QED
    BY <2>1, <2>2
<1>5. TypeOK'
  BY <1>1, <1>2, <1>4 DEF MatchInv, TypeOK
<1>6. \A i \in RoomIds : RoomInv(i)'
  BY <1>1, RoomFrame DEF MatchInv
<1>7. \A u \in Users : UserInv(u)'
  <2>1. \A u \in Users : MatchUserArr'[u] = MatchUserArr[u]
    BY <1>3, <1>4 DEF Players
  <2> QED
    BY <1>1, <2>1, UsersStay
<1> QED
  BY <1>4, <1>5, <1>6, <1>7 DEF MatchInv, UserInv

\* A robot that starts knows its queue's key.
LEMMA StepCreateRobot ==
    ASSUME MatchInv, NEW key \in Keys, CreateRobot(key)
    PROVE  MatchInv'
<1>1. /\ UNCHANGED <<roomState, roomAddr, starting, requests, replies, rooms, toManager, registered, over>>
      /\ UNCHANGED queueVars
  BY DEF CreateRobot, agentVars, roomVars
<1>2. orders' \in [Keys -> Nat]
  BY DEF CreateRobot, MatchInv, TypeOK
<1>3. /\ robot' \in [Robots -> [at : {"free", "starting", "playing", "leaving"}, key : Keys \cup {NoKey}]]
      /\ \A x \in Robots : robot'[x].at = "starting" => robot'[x].key \in Keys
  <2>1. /\ robot \in [Robots -> [at : {"free", "starting", "playing", "leaving"}, key : Keys \cup {NoKey}]]
        /\ \A x \in Robots : robot[x].at = "starting" => robot[x].key \in Keys
    BY DEF MatchInv, TypeOK, RulesInv
  <2>2. ASSUME NEW r \in Robots, robot' = [robot EXCEPT ![r] = [at |-> "starting", key |-> key]]
        PROVE  /\ robot' \in [Robots -> [at : {"free", "starting", "playing", "leaving"}, key : Keys \cup {NoKey}]]
               /\ \A x \in Robots : robot'[x].at = "starting" => robot'[x].key \in Keys
    BY <2>1, <2>2
  <2>3. CASE UNCHANGED robot
    BY <2>1, <2>3
  <2> QED
    BY <2>2, <2>3 DEF CreateRobot
<1>4. TypeOK'
  BY <1>1, <1>2, <1>3 DEF MatchInv, TypeOK, queueVars
<1>5. QueueInv' /\ RulesInv' /\ TickedInv'
  BY <1>1, <1>3, QueueFrame DEF MatchInv
<1>6. \A i \in RoomIds : RoomInv(i)'
  BY <1>1, RoomFrame DEF MatchInv
<1>7. \A u \in Users : UserInv(u)'
  BY <1>1, UsersStay DEF queueVars
<1> QED
  BY <1>4, <1>5, <1>6, <1>7 DEF MatchInv, UserInv

\* A robot is free again.
LEMMA StepRobotReturns ==
    ASSUME MatchInv, NEW r \in Robots, RobotReturns(r)
    PROVE  MatchInv'
<1>1. /\ UNCHANGED <<roomState, roomAddr, starting, requests, replies, orders, rooms, toManager, registered, over>>
      /\ UNCHANGED queueVars
  BY DEF RobotReturns, agentVars, roomVars
<1>2. /\ robot' \in [Robots -> [at : {"free", "starting", "playing", "leaving"}, key : Keys \cup {NoKey}]]
      /\ \A x \in Robots : robot'[x].at = "starting" => robot'[x].key \in Keys
  BY DEF RobotReturns, MatchInv, TypeOK, RulesInv
<1>3. TypeOK'
  BY <1>1, <1>2 DEF MatchInv, TypeOK, queueVars
<1>4. QueueInv' /\ RulesInv' /\ TickedInv'
  BY <1>1, <1>2, QueueFrame DEF MatchInv
<1>5. \A i \in RoomIds : RoomInv(i)'
  BY <1>1, RoomFrame DEF MatchInv
<1>6. \A u \in Users : UserInv(u)'
  BY <1>1, UsersStay DEF queueVars
<1> QED
  BY <1>3, <1>4, <1>5, <1>6 DEF MatchInv, UserInv

\* Who shares a queue
LEMMA KeyFacts ==
    ASSUME NEW u \in Users, NEW v \in Users
    PROVE  /\ Key(u) \in Keys /\ Key(u)[1] = Kind[u]
           /\ Key(u) = Key(v) => Kind[u] = Kind[v]
           /\ Key(u) = Key(v) /\ Kind[u] = "NewUser" => u = v
  BY DEF Key, Keys

\* remove, for a user who is in a queue
LEMMA RemoveStep ==
    ASSUME MatchInv, NEW u \in Users, MatchUserArr[u] # 0, remove(u), UNCHANGED rules
    PROVE  /\ MatchQueue' \in [Keys -> Objects \cup {0}]
           /\ queue' \in [Objects -> Seq(Players)]
           /\ MatchUserArr' \in [Players -> Objects \cup {0}]
           /\ robot' \in [Robots -> [at : {"free", "starting", "playing", "leaving"}, key : Keys \cup {NoKey}]]
           /\ QueueInv' /\ RulesInv' /\ TickedInv'
           /\ MatchUserArr'[u] = 0
           /\ \A v \in Users : v # u => MatchUserArr'[v] = MatchUserArr[v]
<1>1. /\ MatchQueue \in [Keys -> Objects \cup {0}]
      /\ queue \in [Objects -> Seq(Players)]
      /\ rules \in [Objects -> Kinds]
      /\ MatchUserArr \in [Players -> Objects \cup {0}]
      /\ QueueInv /\ RulesInv /\ TickedInv
      /\ 0 \notin Objects
  BY QueueTypes
<1>2. Users \subseteq Players /\ Users \cap Robots = {}
  BY MatchAssumption DEF Players
<1> DEFINE o    == MatchUserArr[u]
           gone == IF u \in Within(queue[o]) /\ Removable(o) THEN Within(queue[o]) \cap Robots ELSE {}
<1>3. /\ gone \subseteq Robots
      /\ MatchUserArr' = [p \in Players |-> IF p = u \/ p \in gone THEN 0 ELSE MatchUserArr[p]]
      /\ robot' = [r \in Robots |-> IF r \in gone THEN [robot[r] EXCEPT !.at = "leaving"] ELSE robot[r]]
  BY DEF remove
<1>4. o \in Objects /\ queue[o] \in Seq(Players) /\ Has(queue[o], u) /\ Once(queue[o], u)
  BY <1>1, <1>2 DEF QueueInv
<1>5. u \in Within(queue[o])
  BY <1>4 DEF Within, Has
<1>6. MatchQueue' = IF Removable(o) THEN [MatchQueue EXCEPT ![Key(u)] = 0] ELSE MatchQueue
  BY <1>5 DEF remove
<1>7. PICK n \in DOMAIN queue[o] : queue[o][n] = u /\ queue' = [queue EXCEPT ![o] = RemoveAt(queue[o], n)]
  BY <1>5 DEF remove
<1> HIDE DEF gone, o
<1>8. /\ MatchUserArr' \in [Players -> Objects \cup {0}]
      /\ MatchUserArr'[u] = 0
      /\ \A v \in Users : v # u => MatchUserArr'[v] = MatchUserArr[v]
  <2>1. \A v \in Users : v \notin gone
    BY <1>2, <1>3
  <2> QED
    BY <1>1, <1>2, <1>3, <2>1
<1>9. /\ robot' \in [Robots -> [at : {"free", "starting", "playing", "leaving"}, key : Keys \cup {NoKey}]]
      /\ \A r \in Robots : robot'[r].at = "starting" => robot'[r].key \in Keys
  <2>1. /\ robot \in [Robots -> [at : {"free", "starting", "playing", "leaving"}, key : Keys \cup {NoKey}]]
        /\ \A r \in Robots : robot[r].at = "starting" => robot[r].key \in Keys
    BY DEF MatchInv, TypeOK, RulesInv
  <2>2. ASSUME NEW r \in Robots
        PROVE  /\ robot'[r] \in [at : {"free", "starting", "playing", "leaving"}, key : Keys \cup {NoKey}]
               /\ robot'[r].at = "starting" => robot'[r].key \in Keys
    BY <1>3, <2>1
  <2> QED
    BY <1>3, <2>2
<1>10. /\ MatchQueue' \in [Keys -> Objects \cup {0}]
       /\ \A k \in Keys : MatchQueue'[k] # 0 => MatchQueue'[k] = MatchQueue[k]
       /\ \A k \in Keys : k # Key(u) => MatchQueue'[k] = MatchQueue[k]
       /\ Removable(o) => MatchQueue'[Key(u)] = 0
       /\ ~Removable(o) => MatchQueue' = MatchQueue
  <2>1. Key(u) \in Keys
    BY DEF Keys
  <2> QED
    BY <1>1, <1>6, <2>1
<1> DEFINE t == RemoveAt(queue[o], n)
<1>11. /\ t \in Seq(Players)
       /\ \A v : v # u => (Has(t, v) <=> Has(queue[o], v))
       /\ \A v : Once(queue[o], v) => Once(t, v)
       /\ ~Has(t, u)
       /\ n # 1 => t # <<>> /\ t[1] = queue[o][1]
  BY <1>4, <1>7, RemoveAtHas
<1>12. queue' = [queue EXCEPT ![o] = t]
  BY <1>7
<1> HIDE DEF t
<1>13. /\ queue' \in [Objects -> Seq(Players)]
       /\ queue'[o] = t /\ \A x \in Objects : x # o => queue'[x] = queue[x]
  BY <1>1, <1>4, <1>11, <1>12
<1>14. QueueInv'
  <2>1. SUFFICES ASSUME NEW x \in Objects, NEW v \in Users
                 PROVE  /\ Has(queue'[x], v) <=> MatchUserArr'[v] = x
                        /\ Once(queue'[x], v)
    BY DEF QueueInv
  <2>2. (Has(queue[x], v) <=> MatchUserArr[v] = x) /\ Once(queue[x], v)
    BY <1>1 DEF QueueInv
  <2>3. CASE x = o
    BY <1>1, <1>8, <1>11, <1>13, <2>2, <2>3
  <2>4. CASE x # o
    BY <1>1, <1>8, <1>13, <2>2, <2>4 DEF o
  <2> QED
    BY <2>3, <2>4
<1>15. RulesInv'
  <2>1. SUFFICES ASSUME NEW k \in Keys, MatchQueue'[k] # 0
                 PROVE  LET x == MatchQueue'[k]
                        IN  /\ rules[x] = "MatchServer" => k[1] = "MatchServer"
                            /\ rules[x] = "NewUser" => /\ queue'[x] # <<>> /\ queue'[x][1] \in Users
                                                       /\ Kind[queue'[x][1]] = "NewUser"
                                                       /\ k = Key(queue'[x][1])
    BY <1>9 DEF RulesInv, Key
  <2> DEFINE x == MatchQueue[k]
  <2>2. MatchQueue'[k] = x /\ x \in Objects
    BY <1>1, <1>10, <2>1
  <2>3. /\ rules[x] = "MatchServer" => k[1] = "MatchServer"
        /\ rules[x] = "NewUser" => /\ queue[x] # <<>> /\ queue[x][1] \in Users
                                   /\ Kind[queue[x][1]] = "NewUser" /\ k = Key(queue[x][1])
    BY <1>1, <2>1, <2>2 DEF RulesInv
  <2>4. rules[x] = "NewUser" => queue'[x] # <<>> /\ queue'[x][1] = queue[x][1]
    <3>1. CASE x # o
      BY <1>13, <2>2, <2>3, <3>1
    <3>2. ASSUME x = o, rules[x] = "NewUser" PROVE n # 1
      <4>1. Removable(o)
        BY <3>2 DEF Removable
      <4>2. k # Key(u)
        BY <1>10, <2>1, <4>1
      <4> QED
        BY <1>7, <2>3, <3>2, <4>2
    <3>3. CASE x = o
      BY <1>11, <1>13, <3>2, <3>3
    <3> QED
      BY <3>1, <3>3
  <2> QED
    BY <2>2, <2>3, <2>4
<1>16. TickedInv'
  <2>1. SUFFICES ASSUME NEW v \in Users, Kind[v] # "MatchServer", MatchUserArr'[v] # 0
                 PROVE  MatchQueue'[Key(v)] = MatchUserArr'[v]
    BY DEF TickedInv, Key
  <2>2. v # u /\ MatchUserArr'[v] = MatchUserArr[v] /\ MatchUserArr[v] # 0
    BY <1>8, <2>1
  <2>3. MatchQueue[Key(v)] = MatchUserArr[v] /\ Key(v) \in Keys
    BY <1>1, <2>1, <2>2, KeyFacts DEF TickedInv
  <2>4. ASSUME Removable(o), Key(v) = Key(u)
        PROVE  FALSE
    <3>1. Kind[u] = Kind[v] /\ Kind[u] # "NewUser" /\ Kind[u] # "MatchServer"
      BY <2>1, <2>2, <2>4, KeyFacts
    <3>2. MatchQueue[Key(u)] = o /\ Key(u) \in Keys /\ Key(u)[1] = Kind[u]
      BY <1>1, <3>1, KeyFacts DEF TickedInv, o
    <3>3. rules[o] \in {"NewUser", "MatchServer"}
      BY <2>4 DEF Removable
    <3>4. rules[o] # "MatchServer"
      BY <1>1, <1>4, <3>1, <3>2 DEF RulesInv
    <3>5. queue[o][1] \in Users /\ Kind[queue[o][1]] = "NewUser" /\ Key(u) = Key(queue[o][1])
      BY <1>1, <1>4, <3>2, <3>3, <3>4 DEF RulesInv
    <3> QED
      BY <3>1, <3>5, KeyFacts
  <2> QED
    BY <1>10, <2>2, <2>3, <2>4
<1> QED
  BY <1>8, <1>9, <1>10, <1>13, <1>14, <1>15, <1>16

\* From a queue to having cancelled, or too late: then nothing changes
LEMMA StepMatchCancel ==
    ASSUME MatchInv, NEW u \in Users, MatchCancel(u)
    PROVE  MatchInv'
<1> USE DEF agentVars, roomVars
<1> DEFINE found == MatchUserArr[u] # 0
<1>1. /\ requests \in [Users -> Seq({"StartMatch", "MatchCancel"})]
      /\ requests[u] \in Seq({"StartMatch", "MatchCancel"}) /\ requests[u] # <<>>
      /\ Head(requests[u]) = "MatchCancel"
      /\ requests' = [requests EXCEPT ![u] = Tail(requests[u])]
  BY DEF MatchCancel, MatchInv, TypeOK
<1>2. Tail(requests[u]) \in Seq({"StartMatch", "MatchCancel"})
  BY <1>1, TailHas
<1>3. /\ requests' \in [Users -> Seq({"StartMatch", "MatchCancel"})]
      /\ requests'[u] = Tail(requests[u])
      /\ \A v \in Users : v # u => requests'[v] = requests[v]
  BY <1>1, <1>2
<1>4. StageInv(u) /\ OnceInv(u) /\ SeatInv(u)
  BY DEF MatchInv
<1>5. (Asked(u)' <=> Asked(u)) /\ Once(requests'[u], "StartMatch")
  <2>1. /\ Has(requests[u], "StartMatch") <=> Has(Tail(requests[u]), "StartMatch")
        /\ Once(Tail(requests[u]), "StartMatch")
    BY <1>1, <1>4, TailHas DEF OnceInv
  <2> QED
    BY <1>3, <2>1 DEF Asked
<1>6. UNCHANGED <<roomState, roomAddr, starting, rules, orders, rooms, toManager, registered, over>>
  BY DEF MatchCancel
<1>7. /\ replies \in [Users -> Seq(BOOLEAN)] /\ replies[u] \in Seq(BOOLEAN) /\ found \in BOOLEAN
      /\ replies' = [replies EXCEPT ![u] = Append(replies[u], found)]
  <2>1. replies \in [Users -> Seq(BOOLEAN)]
    BY DEF MatchInv, TypeOK
  <2>2. replies' = [replies EXCEPT ![u] = Append(replies[u], found)]
    BY DEF MatchCancel
  <2> QED
    BY <2>1, <2>2
<1>8. \/ found = TRUE /\ MatchUserArr[u] # 0
      \/ found = FALSE /\ MatchUserArr[u] = 0
  OBVIOUS
<1> HIDE DEF found
<1>9. Append(replies[u], found) \in Seq(BOOLEAN)
  BY <1>7, AppendHas
<1>10. /\ replies' \in [Users -> Seq(BOOLEAN)] /\ replies'[u] = Append(replies[u], found)
       /\ \A v \in Users : v # u => replies'[v] = replies[v]
  BY <1>7, <1>9
<1>11. /\ MatchQueue' \in [Keys -> Objects \cup {0}]
       /\ queue' \in [Objects -> Seq(Players)]
       /\ MatchUserArr' \in [Players -> Objects \cup {0}]
       /\ robot' \in [Robots -> [at : {"free", "starting", "playing", "leaving"}, key : Keys \cup {NoKey}]]
       /\ QueueInv' /\ RulesInv' /\ TickedInv'
       /\ MatchUserArr'[u] = 0
       /\ \A v \in Users : v # u => MatchUserArr'[v] = MatchUserArr[v]
  <2>1. CASE MatchUserArr[u] # 0
    <3>1. remove(u)
      BY <2>1 DEF MatchCancel
    <3> QED
      BY <1>6, <2>1, <3>1, RemoveStep
  <2>2. CASE MatchUserArr[u] = 0
    <3>1. UNCHANGED <<MatchQueue, queue, rules, MatchUserArr, robot>>
      BY <2>2 DEF MatchCancel
    <3>2. \A r \in Robots : robot'[r].at = "starting" => robot'[r].key \in Keys
      BY <3>1 DEF MatchInv, RulesInv
    <3>3. QueueInv' /\ RulesInv' /\ TickedInv'
      BY <3>1, <3>2, QueueFrame DEF MatchInv, queueVars
    <3> QED
      BY <2>2, <3>1, <3>3 DEF MatchInv, TypeOK
  <2> QED
    BY <2>1, <2>2
<1>12. TypeOK'
  BY <1>3, <1>6, <1>10, <1>11 DEF MatchInv, TypeOK
<1>13. \A i \in RoomIds : RoomInv(i)'
  BY <1>6, RoomFrame DEF MatchInv
<1>14. ASSUME NEW v \in Users, v # u
       PROVE  UserInv(v)'
  <2>1. UserInv(v) /\ roomAddr[v] \in RoomIds \cup {0}
    BY DEF MatchInv, UserInv, TypeOK
  <2>2. \A i \in RoomIds : Told(v, i)' <=> Told(v, i)
    BY <1>6 DEF Told
  <2>3. requests'[v] = requests[v] /\ replies'[v] = replies[v] /\ MatchUserArr'[v] = MatchUserArr[v]
    BY <1>3, <1>10, <1>11, <1>14
  <2> QED
    BY <1>6, <2>1, <2>2, <2>3, UserFrameRooms
<1>15. UserInv(u)'
  <2>1. Called(u)' <=> Called(u)
    BY <1>6 DEF Called
  <2>2. SeatInv(u)'
    BY <1>4, <1>6, SeatFrame
  <2>3. CASE found = TRUE /\ MatchUserArr[u] # 0
    <3>1. roomState[u] = "Matching" /\ ~Called(u) /\ ~Cancelled(u) /\ ~Asked(u) /\ u \notin starting
      BY <1>4, <2>3 DEF StageInv
    <3>2. Cancelled(u)' /\ Once(replies'[u], TRUE)
      <4>1. found = TRUE /\ ~Has(replies[u], TRUE) /\ Once(replies[u], TRUE)
        BY <1>4, <2>3, <3>1 DEF Cancelled, OnceInv
      <4>2. \A x : /\ Has(Append(replies[u], found), x) <=> Has(replies[u], x) \/ found = x
                   /\ Once(replies[u], x) /\ ~(Has(replies[u], x) /\ found = x)
                          => Once(Append(replies[u], found), x)
        BY <1>7, AppendHas
      <4>3. Has(Append(replies[u], found), TRUE) /\ Once(Append(replies[u], found), TRUE)
        BY <4>1, <4>2, Zenon
      <4> QED
        BY <1>10, <4>3 DEF Cancelled
    <3>3. StageInv(u)'
      BY <1>5, <1>6, <1>11, <2>1, <3>1, <3>2 DEF StageInv
    <3>4. OnceInv(u)'
      BY <1>4, <1>5, <1>6, <3>2 DEF OnceInv
    <3> QED
      BY <2>2, <3>3, <3>4 DEF UserInv
  <2>4. CASE found = FALSE /\ MatchUserArr[u] = 0
    <3>1. (Cancelled(u)' <=> Cancelled(u)) /\ Once(replies'[u], TRUE)
      <4>1. found # TRUE
        BY <2>4
      <4> QED
        BY <1>4, <1>7, <1>10, <4>1, AppendHas DEF Cancelled, OnceInv
    <3>2. StageInv(u)'
      BY <1>4, <1>5, <1>6, <1>11, <2>1, <2>4, <3>1 DEF StageInv
    <3>3. OnceInv(u)'
      BY <1>4, <1>5, <1>6, <3>1 DEF OnceInv
    <3> QED
      BY <2>2, <3>2, <3>3 DEF UserInv
  <2> QED
    BY <1>8, <2>3, <2>4
<1> QED
  BY <1>11, <1>12, <1>13, <1>14, <1>15 DEF MatchInv, UserInv

\* The tick takes a positive number of players, and not more than there are.
LEMMA TablesFit ==
    ASSUME NEW len \in Nat, len >= PlayerNum
    PROVE  /\ PlayerNum * 1 \in 1 .. len
           /\ PlayerNum * (len \div PlayerNum) \in 1 .. len
<1>1. PlayerNum \in Nat \ {0}
  BY MatchAssumption
<1>2. PlayerNum * 1 \in 1 .. len
  BY <1>1
<1>3. PlayerNum * (len \div PlayerNum) \in Nat /\ PlayerNum * (len \div PlayerNum) <= len
  BY <1>1
<1>4. PlayerNum * (len \div PlayerNum) >= 1
  BY <1>1
<1> QED
  BY <1>2, <1>3, <1>4

\* What the tick takes out of a queue
LEMMA MatchedStep ==
    ASSUME MatchInv, NEW key \in Keys, NEW o \in Objects, o = MatchQueue[key],
           NEW n \in 1 .. Len(queue[o]), Matched(key, o, n), UNCHANGED <<rules, robot>>,
           NEW first, first = Within(Spliced(queue[o], n).taken)
    PROVE  /\ MatchQueue' \in [Keys -> Objects \cup {0}]
           /\ queue' \in [Objects -> Seq(Players)]
           /\ MatchUserArr' \in [Players -> Objects \cup {0}]
           /\ QueueInv' /\ RulesInv' /\ TickedInv'
           /\ first \subseteq Players
           /\ \A u \in Users : IF u \in first THEN MatchUserArr[u] # 0 /\ MatchUserArr'[u] = 0
                                              ELSE MatchUserArr'[u] = MatchUserArr[u]
<1>1. /\ MatchQueue \in [Keys -> Objects \cup {0}]
      /\ queue \in [Objects -> Seq(Players)]
      /\ rules \in [Objects -> Kinds]
      /\ MatchUserArr \in [Players -> Objects \cup {0}]
      /\ QueueInv /\ RulesInv /\ TickedInv
      /\ 0 \notin Objects
  BY QueueTypes
<1>2. Users \subseteq Players
  BY DEF Players
<1> DEFINE taken == Spliced(queue[o], n).taken
           left  == Spliced(queue[o], n).left
<1>3. queue[o] \in Seq(Players) /\ n \in 0 .. Len(queue[o]) /\ n > 0
  BY <1>1
<1>4. /\ taken \in Seq(Players) /\ left \in Seq(Players)
      /\ \A v : Has(queue[o], v) <=> Has(taken, v) \/ Has(left, v)
      /\ \A v : Once(queue[o], v) => ~(Has(taken, v) /\ Has(left, v)) /\ Once(left, v)
      /\ Has(taken, queue[o][1])
  BY <1>3, SplicedHas
<1>5. /\ queue' = [queue EXCEPT ![o] = left]
      /\ MatchQueue' = IF Removable(o) THEN [MatchQueue EXCEPT ![key] = 0] ELSE MatchQueue
      /\ MatchUserArr' = [p \in Players |-> IF p \in first THEN 0 ELSE MatchUserArr[p]]
  BY DEF Matched
<1>6. first = Within(taken)
  OBVIOUS
<1> HIDE DEF taken, left
<1>7. first \subseteq Players /\ \A v : v \in first <=> Has(taken, v)
  <2>1. \A v : v \in first <=> Has(taken, v)
    BY <1>6 DEF Within, Has
  <2>2. \A m \in DOMAIN taken : taken[m] \in Players
    BY <1>4
  <2> QED
    BY <2>1, <2>2 DEF Has
<1>8. /\ queue' \in [Objects -> Seq(Players)]
      /\ queue'[o] = left /\ \A x \in Objects : x # o => queue'[x] = queue[x]
  BY <1>1, <1>4, <1>5
<1>9. MatchUserArr' \in [Players -> Objects \cup {0}]
  BY <1>1, <1>5
<1>10. \A u \in Users : IF u \in first THEN MatchUserArr[u] = o /\ MatchUserArr'[u] = 0
                                      ELSE MatchUserArr'[u] = MatchUserArr[u]
  <2>1. SUFFICES ASSUME NEW u \in Users
                 PROVE  IF u \in first THEN MatchUserArr[u] = o /\ MatchUserArr'[u] = 0
                                       ELSE MatchUserArr'[u] = MatchUserArr[u]
    OBVIOUS
  <2>2. u \in first => MatchUserArr[u] = o
    BY <1>1, <1>4, <1>7 DEF QueueInv
  <2> QED
    BY <1>2, <1>5, <2>2
<1>11. /\ MatchQueue' \in [Keys -> Objects \cup {0}]
       /\ \A k \in Keys : MatchQueue'[k] # 0 => MatchQueue'[k] = MatchQueue[k]
       /\ \A k \in Keys : k # key => MatchQueue'[k] = MatchQueue[k]
       /\ Removable(o) => MatchQueue'[key] = 0
       /\ ~Removable(o) => MatchQueue' = MatchQueue
  BY <1>1, <1>5
<1>12. QueueInv'
  <2>1. SUFFICES ASSUME NEW x \in Objects, NEW v \in Users
                 PROVE  /\ Has(queue'[x], v) <=> MatchUserArr'[v] = x
                        /\ Once(queue'[x], v)
    BY DEF QueueInv
  <2>2. (Has(queue[x], v) <=> MatchUserArr[v] = x) /\ Once(queue[x], v)
    BY <1>1 DEF QueueInv
  <2>3. CASE x = o
    BY <1>1, <1>4, <1>7, <1>8, <1>10, <2>2, <2>3
  <2>4. CASE x # o
    BY <1>1, <1>8, <1>10, <2>2, <2>4
  <2> QED
    BY <2>3, <2>4
<1>13. RulesInv'
  <2>1. SUFFICES ASSUME NEW k \in Keys, MatchQueue'[k] # 0
                 PROVE  LET x == MatchQueue'[k]
                        IN  /\ rules[x] = "MatchServer" => k[1] = "MatchServer"
                            /\ rules[x] = "NewUser" => /\ queue'[x] # <<>> /\ queue'[x][1] \in Users
                                                       /\ Kind[queue'[x][1]] = "NewUser"
                                                       /\ k = Key(queue'[x][1])
    BY <1>1 DEF RulesInv, Key
  <2> DEFINE x == MatchQueue[k]
  <2>2. MatchQueue'[k] = x /\ x \in Objects
    BY <1>1, <1>11, <2>1
  <2>3. /\ rules[x] = "MatchServer" => k[1] = "MatchServer"
        /\ rules[x] = "NewUser" => /\ queue[x] # <<>> /\ queue[x][1] \in Users
                                   /\ Kind[queue[x][1]] = "NewUser" /\ k = Key(queue[x][1])
    BY <1>1, <2>1, <2>2 DEF RulesInv
  <2>4. ASSUME rules[x] = "NewUser" PROVE x # o
    <3>1. SUFFICES ASSUME x = o PROVE FALSE
      OBVIOUS
    <3>2. o # 0 /\ MatchQueue[key] = o
      BY <1>1
    <3>3. key = Key(queue[o][1])
      BY <1>1, <2>4, <3>1, <3>2, SMTT(30) DEF RulesInv
    <3>4. key = k /\ Removable(o)
      BY <2>3, <2>4, <3>1, <3>3 DEF Removable
    <3> QED
      BY <1>11, <2>1, <3>4
  <2>5. rules[x] = "NewUser" => queue'[x] = queue[x]
    BY <1>8, <2>2, <2>4
  <2> QED
    BY <2>2, <2>3, <2>5
<1>14. TickedInv'
  <2>1. SUFFICES ASSUME NEW v \in Users, Kind[v] # "MatchServer", MatchUserArr'[v] # 0
                 PROVE  MatchQueue'[Key(v)] = MatchUserArr'[v]
    BY DEF TickedInv, Key
  <2>2. v \notin first /\ MatchUserArr'[v] = MatchUserArr[v] /\ MatchUserArr[v] # 0
    BY <1>10, <2>1
  <2>3. MatchQueue[Key(v)] = MatchUserArr[v] /\ Key(v) \in Keys /\ Key(v)[1] = Kind[v]
    BY <1>1, <2>1, <2>2, KeyFacts DEF TickedInv
  <2>4. ASSUME Removable(o), Key(v) = key
        PROVE  FALSE
    <3>1. rules[o] \in {"NewUser", "MatchServer"} /\ MatchQueue[key] = o /\ o # 0
      BY <1>1, <2>4 DEF Removable
    <3>2. rules[o] # "MatchServer"
      BY <1>1, <2>1, <2>3, <2>4, <3>1 DEF RulesInv
    <3>3. queue[o][1] \in Users /\ Kind[queue[o][1]] = "NewUser" /\ key = Key(queue[o][1])
      BY <1>1, <3>1, <3>2, SMTT(30) DEF RulesInv
    <3>4. v = queue[o][1]
      BY <2>4, <3>3, KeyFacts
    <3> QED
      BY <1>4, <1>7, <2>2, <3>4
  <2> QED
    BY <1>11, <2>2, <2>3, <2>4
<1> QED
  BY <1>1, <1>7, <1>8, <1>9, <1>10, <1>11, <1>12, <1>13, <1>14

\* From the queue to being called by the one room that got the table
LEMMA StepMatchOk ==
    ASSUME MatchInv, NEW key \in Keys, NEW o \in Objects, o = MatchQueue[key],
           NEW n \in 1 .. Len(queue[o]), MatchOk(key, o, n)
    PROVE  MatchInv'
<1> DEFINE first == Within(Spliced(queue[o], n).taken)
<1>1. /\ Matched(key, o, n)
      /\ UNCHANGED <<orders, rules, robot, roomState, roomAddr, starting, requests, replies,
                     toManager, registered, over>>
  BY DEF MatchOk, agentVars
<1>2. PICK table \in [first -> FreeRooms] :
          rooms' = [i \in RoomIds |->
              IF {p \in first : table[p] = i} = {} THEN rooms[i]
              ELSE [at |-> "init", players |-> {p \in first : table[p] = i},
                    absent |-> {p \in first : table[p] = i}]]
  BY DEF MatchOk
<1>3. /\ MatchQueue' \in [Keys -> Objects \cup {0}]
      /\ queue' \in [Objects -> Seq(Players)]
      /\ MatchUserArr' \in [Players -> Objects \cup {0}]
      /\ QueueInv' /\ RulesInv' /\ TickedInv'
      /\ first \subseteq Players
      /\ \A u \in Users : IF u \in first THEN MatchUserArr[u] # 0 /\ MatchUserArr'[u] = 0
                                         ELSE MatchUserArr'[u] = MatchUserArr[u]
  BY <1>1, MatchedStep
<1> HIDE DEF first
<1> DEFINE at(i) == {p \in first : table[p] = i}
<1>4. /\ rooms \in [RoomIds -> [at : {"none", "init", "playing", "ended"},
                                players : SUBSET Players, absent : SUBSET Players]]
      /\ \A i \in RoomIds : RoomInv(i)
  BY DEF MatchInv, TypeOK
<1>5. \A p \in first : /\ table[p] \in RoomIds /\ rooms[table[p]].at = "none"
                       /\ \A u \in Users : ~Told(u, table[p]) /\ roomAddr[u] # table[p]
  BY DEF FreeRooms, Told
<1>6. ASSUME NEW i \in RoomIds
      PROVE  /\ at(i) = {} => rooms'[i] = rooms[i]
             /\ at(i) # {} => /\ rooms'[i].at = "init" /\ rooms'[i].players = at(i) /\ rooms'[i].absent = at(i)
                              /\ rooms[i].at = "none"
             /\ rooms'[i] \in [at : {"none", "init", "playing", "ended"},
                               players : SUBSET Players, absent : SUBSET Players]
  <2>1. CASE at(i) = {}
    <3>1. rooms'[i] = rooms[i]
      BY <1>2, <2>1
    <3> QED
      BY <1>4, <2>1, <3>1
  <2>2. CASE at(i) # {}
    <3>1. rooms'[i] = [at |-> "init", players |-> at(i), absent |-> at(i)]
      BY <1>2, <2>2
    <3>2. at(i) \subseteq Players
      BY <1>3
    <3>3. rooms[i].at = "none"
      BY <1>5, <2>2
    <3> HIDE DEF at
    <3> QED
      BY <2>2, <3>1, <3>2, <3>3
  <2> QED
    BY <2>1, <2>2
<1>7. rooms' \in [RoomIds -> [at : {"none", "init", "playing", "ended"},
                              players : SUBSET Players, absent : SUBSET Players]]
  BY <1>2, <1>6
<1>8. TypeOK'
  BY <1>1, <1>3, <1>7 DEF MatchInv, TypeOK
<1>9. ASSUME NEW i \in RoomIds PROVE RoomInv(i)'
  <2>1. CASE at(i) = {}
    BY <1>1, <1>4, <1>6, <2>1, RoomFrame
  <2>2. CASE at(i) # {}
    <3>1. toManager[i] = <<>>
      BY <1>4, <1>6, <2>2 DEF RoomInv
    <3> HIDE DEF at
    <3> QED
      BY <1>1, <1>6, <2>2, <3>1 DEF RoomInv
  <2> QED
    BY <2>1, <2>2
<1>10. ASSUME NEW i \in RoomIds, NEW u \in Users
       PROVE  /\ u \in rooms'[i].absent <=> u \in rooms[i].absent \/ u \in at(i)
              /\ SeatedIn(u, i)' <=> SeatedIn(u, i)
  <2>1. CASE at(i) = {}
    BY <1>6, <2>1 DEF SeatedIn
  <2>2. CASE at(i) # {}
    <3>1. rooms[i].absent = {} /\ rooms[i].at = "none"
      BY <1>4, <1>6, <2>2 DEF RoomInv
    <3> HIDE DEF at
    <3> QED
      BY <1>6, <2>2, <3>1 DEF SeatedIn
  <2> QED
    BY <2>1, <2>2
<1>11. ASSUME NEW u \in Users PROVE UserInv(u)'
  <2>1. StageInv(u) /\ OnceInv(u) /\ SeatInv(u) /\ UserInv(u) /\ roomAddr[u] \in RoomIds \cup {0}
    BY DEF MatchInv, UserInv, TypeOK
  <2>2. \A i \in RoomIds : Told(u, i)' <=> Told(u, i)
    BY <1>1 DEF Told
  <2>3. CASE u \notin first
    <3>1. \A i \in RoomIds : u \in rooms'[i].absent <=> u \in rooms[i].absent
      BY <1>10, <2>3
    <3>2. \A i \in RoomIds : SeatedIn(u, i)' <=> SeatedIn(u, i)
      BY <1>10
    <3>3. MatchUserArr'[u] = MatchUserArr[u]
      BY <1>3, <2>3
    <3> QED
      BY <1>1, <2>1, <2>2, <3>1, <3>2, <3>3, UserFrame
  <2>4. CASE u \in first
    <3>1. MatchUserArr[u] # 0 /\ MatchUserArr'[u] = 0
      BY <1>3, <2>4
    <3>2. roomState[u] = "Matching" /\ ~Called(u) /\ ~Cancelled(u) /\ ~Asked(u) /\ u \notin starting
      BY <2>1, <3>1 DEF StageInv
    <3>3. \A i \in RoomIds : u \in rooms'[i].absent <=> i = table[u]
      BY <1>10, <2>4, <3>2 DEF Called
    <3>4. Called(u)' /\ ~Cancelled(u)' /\ ~Asked(u)'
      BY <1>1, <1>5, <2>4, <3>2, <3>3 DEF Called, Cancelled, Asked
    <3>5. StageInv(u)'
      BY <1>1, <3>1, <3>2, <3>4 DEF StageInv
    <3>6. OnceInv(u)'
      BY <1>1, <2>1, <3>3 DEF OnceInv
    <3>7. SeatInv(u)'
      BY <1>1, <1>10, <2>1, <2>2, <3>2 DEF SeatInv
    <3> QED
      BY <3>5, <3>6, <3>7 DEF UserInv
  <2> QED
    BY <2>3, <2>4
<1> QED
  BY <1>3, <1>8, <1>9, <1>11 DEF MatchInv, UserInv

\* The tick makes tables or orders a robot.
LEMMA StepTick ==
    ASSUME MatchInv, NEW key \in Keys, Tick(key)
    PROVE  MatchInv'
<1> DEFINE o   == MatchQueue[key]
           len == Len(queue[o])
<1>1. o \in Objects /\ queue[o] \in Seq(Players) /\ len \in Nat
  <2>1. /\ MatchQueue \in [Keys -> Objects \cup {0}]
        /\ queue \in [Objects -> Seq(Players)]
    BY QueueTypes
  <2>2. o # 0
    BY DEF Tick
  <2>3. o \in Objects
    BY <2>1, <2>2
  <2> QED
    BY <2>1, <2>3
<1>2. CASE len >= PlayerNum /\ rules[o] = "NewUser" /\ MatchOk(key, o, PlayerNum * 1)
  <2>1. PlayerNum * 1 \in 1 .. len
    BY <1>1, <1>2, TablesFit
  <2> HIDE DEF o, len
  <2>2. o = MatchQueue[key] /\ len = Len(queue[o])
    BY DEF o, len
  <2> QED
    BY <1>1, <1>2, <2>1, <2>2, StepMatchOk
<1>3. CASE len >= PlayerNum /\ rules[o] # "NewUser" /\ MatchOk(key, o, PlayerNum * (len \div PlayerNum))
  <2>1. PlayerNum * (len \div PlayerNum) \in 1 .. len
    BY <1>1, <1>3, TablesFit
  <2> HIDE DEF o, len
  <2>2. o = MatchQueue[key] /\ len = Len(queue[o])
    BY DEF o, len
  <2> QED
    BY <1>1, <1>3, <2>1, <2>2, StepMatchOk
<1>4. CASE /\ orders' = [orders EXCEPT ![key] = @ + 1]
           /\ UNCHANGED <<agentVars, requests, replies, queueVars, robot, roomVars>>
  <2>1. /\ UNCHANGED <<roomState, roomAddr, starting, requests, replies, robot, rooms, toManager, registered, over>>
        /\ UNCHANGED queueVars
    BY <1>4 DEF agentVars, roomVars
  <2>2. orders' \in [Keys -> Nat]
    BY <1>4 DEF MatchInv, TypeOK
  <2>3. TypeOK'
    BY <2>1, <2>2 DEF MatchInv, TypeOK, queueVars
  <2>4. \A r \in Robots : robot'[r].at = "starting" => robot'[r].key \in Keys
    BY <2>1 DEF MatchInv, RulesInv
  <2>5. QueueInv' /\ RulesInv' /\ TickedInv'
    BY <2>1, <2>4, QueueFrame DEF MatchInv
  <2>6. \A i \in RoomIds : RoomInv(i)'
    BY <2>1, RoomFrame DEF MatchInv
  <2>7. \A u \in Users : UserInv(u)'
    BY <2>1, UsersStay DEF queueVars
  <2> QED
    BY <2>3, <2>5, <2>6, <2>7 DEF MatchInv, UserInv
<1> QED
  BY <1>2, <1>3, <1>4 DEF Tick

-----------------------------------------------------------------------------
(***************************************************************************)
(* The steps of rooms and of ddz_room_mgr                                  *)
(***************************************************************************)

\* From being called to having a seat
LEMMA StepSeat ==
    ASSUME MatchInv, NEW i \in RoomIds, NEW p \in Players, Seat(i, p)
    PROVE  MatchInv'
<1>1. UNCHANGED <<starting, requests, replies, MatchQueue, queue, rules, MatchUserArr, orders, robot, registered, over>>
  BY DEF Seat, queueVars
<1>2. /\ rooms \in [RoomIds -> [at : {"none", "init", "playing", "ended"},
                                players : SUBSET Players, absent : SUBSET Players]]
      /\ toManager \in [RoomIds -> Seq({"init", "room_exit"})]
      /\ roomState \in [Users -> {"Idle", "Matching", "Gameing"}]
      /\ roomAddr \in [Users -> RoomIds \cup {0}]
      /\ RoomInv(i)
  BY DEF MatchInv, TypeOK
<1> DEFINE absent == rooms[i].absent \ {p}
           stage  == IF absent = {} THEN "playing" ELSE "init"
<1>3. /\ rooms[i].at = "init" /\ p \in rooms[i].absent
      /\ rooms' = [rooms EXCEPT ![i].absent = absent, ![i].at = stage]
      /\ toManager' = IF absent = {} THEN [toManager EXCEPT ![i] = Append(@, "init")] ELSE toManager
      /\ roomAddr' = [u \in Users |-> IF u = p THEN i ELSE roomAddr[u]]
      /\ roomState' = [u \in Users |-> IF u = p THEN "Gameing" ELSE roomState[u]]
  BY DEF Seat
<1>4. /\ stage \in {"init", "playing"} /\ (stage = "playing" <=> absent = {})
      /\ absent \subseteq rooms[i].players /\ absent \subseteq Players
  BY <1>2 DEF RoomInv
<1>5. \A q : q \in absent <=> q \in rooms[i].absent /\ q # p
  OBVIOUS
<1> HIDE DEF absent, stage
<1>6. /\ rooms'[i].at = stage /\ rooms'[i].absent = absent /\ rooms'[i].players = rooms[i].players
      /\ \A j \in RoomIds : j # i => rooms'[j] = rooms[j]
  BY <1>2, <1>3
<1>7. rooms' \in [RoomIds -> [at : {"none", "init", "playing", "ended"},
                              players : SUBSET Players, absent : SUBSET Players]]
  BY <1>2, <1>3, <1>4, ZenonT(40)
<1>8. toManager[i] = <<>>
  BY <1>2, <1>3 DEF RoomInv
<1>9. /\ toManager' \in [RoomIds -> Seq({"init", "room_exit"})]
      /\ \A j \in RoomIds : j # i => toManager'[j] = toManager[j]
      /\ toManager'[i] = IF absent = {} THEN <<"init">> ELSE <<>>
  <2>1. CASE absent = {}
    BY <1>2, <1>3, <1>8, <2>1
  <2>2. CASE absent # {}
    BY <1>2, <1>3, <1>8, <2>2
  <2> QED
    BY <2>1, <2>2
<1>10. TypeOK'
  BY <1>1, <1>2, <1>3, <1>7, <1>9 DEF MatchInv, TypeOK
<1>11. QueueInv' /\ RulesInv' /\ TickedInv'
  <2>1. \A r \in Robots : robot'[r].at = "starting" => robot'[r].key \in Keys
    BY <1>1 DEF MatchInv, RulesInv
  <2> QED
    BY <1>1, <2>1, QueueFrame DEF MatchInv, queueVars
<1>12. ASSUME NEW j \in RoomIds PROVE RoomInv(j)'
  <2>1. CASE j # i
    BY <1>1, <1>6, <1>9, <2>1, RoomFrame DEF MatchInv
  <2>2. CASE j = i
    BY <1>4, <1>6, <1>9, <2>2 DEF RoomInv
  <2> QED
    BY <2>1, <2>2
<1>13. ASSUME NEW j \in RoomIds, NEW u \in Users, u # p \/ j # i
       PROVE  /\ u \in rooms'[j].absent <=> u \in rooms[j].absent
              /\ SeatedIn(u, j)' <=> SeatedIn(u, j)
  <2>1. CASE j # i
    BY <1>6, <2>1 DEF SeatedIn
  <2>2. CASE j = i
    BY <1>3, <1>4, <1>5, <1>6, <1>13, <2>2 DEF SeatedIn
  <2> QED
    BY <2>1, <2>2
<1>14. ASSUME NEW u \in Users PROVE UserInv(u)'
  <2>1. StageInv(u) /\ OnceInv(u) /\ SeatInv(u) /\ UserInv(u) /\ roomAddr[u] \in RoomIds \cup {0}
    BY DEF MatchInv, UserInv, TypeOK
  <2>2. \A j \in RoomIds : Told(u, j)' <=> Told(u, j)
    BY <1>1 DEF Told
  <2>3. CASE u # p
    <3>1. roomState'[u] = roomState[u] /\ roomAddr'[u] = roomAddr[u]
      BY <1>3, <2>3
    <3>2. \A j \in RoomIds : /\ u \in rooms'[j].absent <=> u \in rooms[j].absent
                             /\ SeatedIn(u, j)' <=> SeatedIn(u, j)
      BY <1>13, <2>3
    <3> QED
      BY <1>1, <2>1, <2>2, <3>1, <3>2, UserFrame
  <2>4. CASE u = p
    <3>1. u \in rooms[i].absent /\ roomState'[u] = "Gameing" /\ roomAddr'[u] = i /\ i # 0
      BY <1>3, <2>4, MatchAssumption
    <3>2. Called(u)
      BY <3>1 DEF Called
    <3>3. roomState[u] = "Matching" /\ ~Cancelled(u) /\ ~Asked(u) /\ u \notin starting /\ MatchUserArr[u] = 0
      BY <2>1, <3>2 DEF StageInv
    <3>4. \A j \in RoomIds : u \notin rooms'[j].absent
      BY <1>5, <1>6, <1>13, <2>1, <2>4, <3>1 DEF OnceInv
    <3>5. ~Called(u)' /\ ~Cancelled(u)' /\ ~Asked(u)'
      BY <1>1, <3>3, <3>4 DEF Called, Cancelled, Asked
    <3>6. StageInv(u)'
      BY <1>1, <3>1, <3>3, <3>5 DEF StageInv
    <3>7. OnceInv(u)'
      BY <1>1, <2>1, <3>4 DEF OnceInv
    <3>8. \A j \in RoomIds : ~Told(u, j)' /\ (SeatedIn(u, j)' <=> j = i)
      <4>1. \A j \in RoomIds : ~Told(u, j) /\ ~SeatedIn(u, j)
        BY <2>1, <3>3 DEF SeatInv
      <4>2. SeatedIn(u, i)'
        BY <1>2, <1>4, <1>6, <3>1, <3>4 DEF SeatedIn, RoomInv
      <4> QED
        BY <1>13, <2>2, <4>1, <4>2
    <3>9. SeatInv(u)'
      BY <3>1, <3>8 DEF SeatInv
    <3> QED
      BY <3>6, <3>7, <3>9 DEF UserInv
  <2> QED
    BY <2>3, <2>4
<1> QED
  BY <1>10, <1>11, <1>12, <1>14 DEF MatchInv, UserInv

\* The messages a room sends to the manager
LEMMA ManagerMail ==
    /\ Append(<<>>, "room_exit") = <<"room_exit">>
    /\ Append(<<"init">>, "room_exit") = <<"init", "room_exit">>
    /\ Tail(<<"init">>) = <<>>
    /\ Tail(<<"init", "room_exit">>) = <<"room_exit">>
    /\ Head(<<"room_exit">>) = "room_exit"
<1>1. Append(<<>>, "room_exit") = <<"room_exit">>
  OBVIOUS
<1>2. Append(<<"init">>, "room_exit") = <<"init", "room_exit">>
  <2> DEFINE s == Append(<<"init">>, "room_exit")
             t == <<"init", "room_exit">>
  <2>1. s \in Seq({"init", "room_exit"}) /\ Len(s) = 2 /\ s[1] = "init" /\ s[2] = "room_exit"
    OBVIOUS
  <2>2. t \in Seq({"init", "room_exit"}) /\ Len(t) = 2 /\ t[1] = "init" /\ t[2] = "room_exit"
    OBVIOUS
  <2> HIDE DEF s, t
  <2>3. s = t
    BY <2>1, <2>2, SeqEqual
  <2> QED
    BY <2>3 DEF s, t
<1>3. Tail(<<"init">>) = <<>>
  OBVIOUS
<1>4. Tail(<<"init", "room_exit">>) = <<"room_exit">>
  OBVIOUS
<1>5. Head(<<"room_exit">>) = "room_exit"
  OBVIOUS
<1> QED
  BY <1>1, <1>2, <1>3, <1>4, <1>5

\* From the seat to being told; the room's last message follows the first.
LEMMA StepGameOver ==
    ASSUME MatchInv, NEW i \in RoomIds, GameOver(i)
    PROVE  MatchInv'
<1>1. UNCHANGED <<roomState, roomAddr, starting, requests, replies, MatchQueue, queue, rules, MatchUserArr,
                  orders, registered>>
  BY DEF GameOver, agentVars, queueVars
<1>2. /\ rooms \in [RoomIds -> [at : {"none", "init", "playing", "ended"},
                                players : SUBSET Players, absent : SUBSET Players]]
      /\ toManager \in [RoomIds -> Seq({"init", "room_exit"})]
      /\ over \subseteq Users \X RoomIds
      /\ RoomInv(i) /\ rooms[i].at = "playing"
  BY DEF MatchInv, TypeOK, GameOver
<1>3. /\ rooms' \in [RoomIds -> [at : {"none", "init", "playing", "ended"},
                                 players : SUBSET Players, absent : SUBSET Players]]
      /\ rooms'[i].at = "ended" /\ rooms'[i].players = rooms[i].players /\ rooms'[i].absent = rooms[i].absent
      /\ \A j \in RoomIds : j # i => rooms'[j] = rooms[j]
  BY <1>2 DEF GameOver
<1>4. rooms[i].absent = {}
  BY <1>2 DEF RoomInv
<1>5. /\ over' \subseteq Users \X RoomIds
      /\ \A u \in Users, j \in RoomIds : Told(u, j)' <=> Told(u, j) \/ (j = i /\ u \in rooms[i].players)
  BY <1>2 DEF GameOver, Told
<1>6. /\ robot' \in [Robots -> [at : {"free", "starting", "playing", "leaving"}, key : Keys \cup {NoKey}]]
      /\ \A r \in Robots : robot'[r].at = "starting" => robot'[r].key \in Keys
  <2>1. /\ robot \in [Robots -> [at : {"free", "starting", "playing", "leaving"}, key : Keys \cup {NoKey}]]
        /\ \A r \in Robots : robot[r].at = "starting" => robot[r].key \in Keys
        /\ robot' = [r \in Robots |-> IF r \in rooms[i].players THEN [robot[r] EXCEPT !.at = "leaving"]
                                      ELSE robot[r]]
    BY DEF MatchInv, TypeOK, RulesInv, GameOver
  <2>2. ASSUME NEW r \in Robots
        PROVE  /\ robot'[r] \in [at : {"free", "starting", "playing", "leaving"}, key : Keys \cup {NoKey}]
               /\ robot'[r].at = "starting" => robot'[r].key \in Keys
    BY <2>1
  <2> QED
    BY <2>1, <2>2
<1>7. /\ toManager' \in [RoomIds -> Seq({"init", "room_exit"})]
      /\ toManager'[i] = Append(toManager[i], "room_exit")
      /\ \A j \in RoomIds : j # i => toManager'[j] = toManager[j]
  BY <1>2 DEF GameOver
<1>8. TypeOK'
  BY <1>1, <1>3, <1>5, <1>6, <1>7 DEF MatchInv, TypeOK
<1>9. QueueInv' /\ RulesInv' /\ TickedInv'
  BY <1>1, <1>6, QueueFrame DEF MatchInv, queueVars
<1>10. ASSUME NEW j \in RoomIds PROVE RoomInv(j)'
  <2>1. CASE j # i
    BY <1>1, <1>3, <1>7, <2>1, RoomFrame DEF MatchInv
  <2>2. CASE j = i
    <3>1. \/ toManager'[i] = <<"init", "room_exit">>
          \/ toManager'[i] = <<"room_exit">> /\ i \in registered'
      <4>1. \/ toManager[i] = <<"init">>
            \/ toManager[i] = <<>> /\ i \in registered
        BY <1>2 DEF RoomInv
      <4> QED
        BY <1>1, <1>7, <4>1, ManagerMail
    <3> QED
      BY <1>3, <1>4, <2>2, <3>1 DEF RoomInv
  <2> QED
    BY <2>1, <2>2
<1>11. ASSUME NEW j \in RoomIds, NEW u \in Users
       PROVE  /\ u \in rooms'[j].absent <=> u \in rooms[j].absent
              /\ SeatedIn(u, j)' <=> SeatedIn(u, j) /\ j # i
              /\ SeatedIn(u, i) <=> u \in rooms[i].players
  BY <1>2, <1>3, <1>4 DEF SeatedIn
<1>12. ASSUME NEW u \in Users PROVE UserInv(u)'
  <2>1. StageInv(u) /\ OnceInv(u) /\ SeatInv(u) /\ roomAddr[u] \in RoomIds \cup {0}
    BY DEF MatchInv, TypeOK
  <2>2. (Asked(u)' <=> Asked(u)) /\ (Cancelled(u)' <=> Cancelled(u)) /\ (Called(u)' <=> Called(u))
    BY <1>1, <1>11 DEF Asked, Cancelled, Called
  <2>3. StageInv(u)'
    BY <1>1, <2>1, <2>2 DEF StageInv
  <2>4. OnceInv(u)'
    BY <1>1, <1>11, <2>1 DEF OnceInv
  <2>5. \A j \in RoomIds : SeatedIn(u, j) => roomState[u] = "Gameing" /\ roomAddr[u] = j /\ ~Told(u, j)
    BY <2>1 DEF SeatInv
  <2>6. \A j \in RoomIds : /\ SeatedIn(u, j)' <=> SeatedIn(u, j) /\ j # i
                           /\ Told(u, j)' <=> Told(u, j) \/ (j = i /\ SeatedIn(u, i))
    BY <1>5, <1>11
  <2>7. SeatInv(u)'
    BY <1>1, <2>1, <2>5, <2>6 DEF SeatInv
  <2> QED
    BY <2>3, <2>4, <2>7 DEF UserInv
<1> QED
  BY <1>8, <1>9, <1>10, <1>12 DEF MatchInv, UserInv

\* The manager enters a room that has told it so.
LEMMA StepRegistered ==
    ASSUME MatchInv, NEW i \in RoomIds, Registered(i)
    PROVE  MatchInv'
<1>1. /\ UNCHANGED <<roomState, roomAddr, starting, requests, replies, orders, robot, rooms, over>>
      /\ UNCHANGED queueVars
  BY DEF Registered, agentVars
<1>2. /\ toManager \in [RoomIds -> Seq({"init", "room_exit"})] /\ registered \subseteq RoomIds
      /\ toManager' = [toManager EXCEPT ![i] = Tail(toManager[i])] /\ registered' = registered \cup {i}
      /\ toManager[i] # <<>> /\ Head(toManager[i]) = "init"
  BY DEF MatchInv, TypeOK, Registered
<1>3. /\ toManager' \in [RoomIds -> Seq({"init", "room_exit"})] /\ registered' \subseteq RoomIds
      /\ toManager'[i] = Tail(toManager[i]) /\ i \in registered'
      /\ \A j \in RoomIds : j # i => toManager'[j] = toManager[j] /\ (j \in registered' <=> j \in registered)
  BY <1>2
<1>4. TypeOK'
  BY <1>1, <1>3 DEF MatchInv, TypeOK, queueVars
<1>5. \A r \in Robots : robot'[r].at = "starting" => robot'[r].key \in Keys
  BY <1>1 DEF MatchInv, RulesInv
<1>6. QueueInv' /\ RulesInv' /\ TickedInv'
  BY <1>1, <1>5, QueueFrame DEF MatchInv
<1>7. \A u \in Users : UserInv(u)'
  BY <1>1, UsersStay DEF queueVars
<1>8. ASSUME NEW j \in RoomIds PROVE RoomInv(j)'
  <2>1. CASE j # i
    BY <1>1, <1>3, <2>1, RoomFrame DEF MatchInv
  <2>2. CASE j = i
    <3>1. RoomInv(i) /\ rooms[i].at \in {"none", "init", "playing", "ended"}
      BY DEF MatchInv, TypeOK
    <3>2. \/ rooms[i].at = "playing" /\ toManager'[i] = <<>>
          \/ rooms[i].at = "ended" /\ toManager'[i] = <<"room_exit">>
      <4>1. \/ rooms[i].at = "playing" /\ toManager[i] = <<"init">>
            \/ rooms[i].at = "ended" /\ toManager[i] = <<"init", "room_exit">>
            \/ toManager[i] = <<"room_exit">>
        BY <1>2, <3>1 DEF RoomInv
      <4> QED
        BY <1>2, <1>3, <4>1, ManagerMail
    <3> QED
      BY <1>1, <1>3, <2>2, <3>1, <3>2 DEF RoomInv
  <2> QED
    BY <2>1, <2>2
<1> QED
  BY <1>4, <1>6, <1>7, <1>8 DEF MatchInv, UserInv

\* A room that ends is one whose players have been told.
LEMMA StepRoomExit ==
    ASSUME MatchInv, NEW i \in RoomIds, RoomExit(i)
    PROVE  MatchInv'
<1>1. UNCHANGED <<roomState, roomAddr, starting, requests, replies, MatchQueue, queue, rules, MatchUserArr,
                  orders, robot, over>>
  BY DEF RoomExit, agentVars, queueVars
<1>2. /\ toManager \in [RoomIds -> Seq({"init", "room_exit"})] /\ registered \subseteq RoomIds
      /\ rooms \in [RoomIds -> [at : {"none", "init", "playing", "ended"},
                                players : SUBSET Players, absent : SUBSET Players]]
      /\ toManager' = [toManager EXCEPT ![i] = Tail(toManager[i])] /\ registered' = registered \ {i}
      /\ rooms' = [rooms EXCEPT ![i] = NoRoom]
      /\ toManager[i] # <<>> /\ Head(toManager[i]) = "room_exit"
      /\ RoomInv(i)
  BY DEF MatchInv, TypeOK, RoomExit
<1>3. rooms[i].at = "ended" /\ toManager[i] = <<"room_exit">> /\ rooms[i].absent = {}
  BY <1>2 DEF RoomInv
<1>4. /\ toManager' \in [RoomIds -> Seq({"init", "room_exit"})] /\ registered' \subseteq RoomIds
      /\ toManager'[i] = <<>>
      /\ \A j \in RoomIds : j # i => toManager'[j] = toManager[j] /\ (j \in registered' <=> j \in registered)
  BY <1>2, <1>3
<1>5. /\ rooms' \in [RoomIds -> [at : {"none", "init", "playing", "ended"},
                                 players : SUBSET Players, absent : SUBSET Players]]
      /\ rooms'[i].at = "none" /\ rooms'[i].players = {} /\ rooms'[i].absent = {}
      /\ \A j \in RoomIds : j # i => rooms'[j] = rooms[j]
  BY <1>2 DEF NoRoom
<1>6. TypeOK'
  BY <1>1, <1>4, <1>5 DEF MatchInv, TypeOK
<1>7. \A r \in Robots : robot'[r].at = "starting" => robot'[r].key \in Keys
  BY <1>1 DEF MatchInv, RulesInv
<1>8. QueueInv' /\ RulesInv' /\ TickedInv'
  BY <1>1, <1>7, QueueFrame DEF MatchInv, queueVars
<1>9. ASSUME NEW j \in RoomIds PROVE RoomInv(j)'
  <2>1. CASE j # i
    BY <1>4, <1>5, <2>1, RoomFrame DEF MatchInv
  <2>2. CASE j = i
    BY <1>4, <1>5, <2>2 DEF RoomInv
  <2> QED
    BY <2>1, <2>2
<1>10. ASSUME NEW u \in Users PROVE UserInv(u)'
  <2>1. UserInv(u) /\ roomAddr[u] \in RoomIds \cup {0}
    BY DEF MatchInv, UserInv, TypeOK
  <2>2. \A j \in RoomIds : Told(u, j)' <=> Told(u, j)
    BY <1>1 DEF Told
  <2>3. \A j \in RoomIds : /\ u \in rooms'[j].absent <=> u \in rooms[j].absent
                           /\ SeatedIn(u, j)' <=> SeatedIn(u, j)
    BY <1>3, <1>5 DEF SeatedIn
  <2> QED
    BY <1>1, <2>1, <2>2, <2>3, UserFrame
<1> QED
  BY <1>6, <1>8, <1>9, <1>10 DEF MatchInv, UserInv

-----------------------------------------------------------------------------
(***************************************************************************)
(* The theorems                                                            *)
(***************************************************************************)

\* At the start everybody is idle and every room and queue empty.
LEMMA MatchInitially == Init => MatchInv
<1>1. SUFFICES ASSUME Init PROVE MatchInv
  OBVIOUS
<1>2. PICK o \in Objects : MatchQueue = [k \in Keys |-> IF k = PublicKey THEN o ELSE 0]
  BY <1>1 DEF Init
<1>3. 0 \notin Objects /\ 0 \notin RoomIds
  BY MatchAssumption
<1>4. TypeOK
  <2>1. MatchQueue \in [Keys -> Objects \cup {0}]
    BY <1>2
  <2>2. replies \in [Users -> Seq(BOOLEAN)]
    BY <1>1 DEF Init
  <2>3. rooms \in [RoomIds -> [at : {"none", "init", "playing", "ended"},
                               players : SUBSET Players, absent : SUBSET Players]]
    BY <1>1 DEF Init, NoRoom
  <2>4. rules \in [Objects -> Kinds]
    BY <1>1 DEF Init, Kinds
  <2> QED
    BY <1>1, <2>1, <2>2, <2>3, <2>4 DEF Init, TypeOK
<1>5. \A x : ~Has(<<>>, x) /\ Once(<<>>, x)
  BY DEF Has, Once
<1>6. QueueInv
  <2>1. SUFFICES ASSUME NEW x \in Objects, NEW u \in Users
                 PROVE  (Has(queue[x], u) <=> MatchUserArr[u] = x) /\ Once(queue[x], u)
    BY DEF QueueInv
  <2>2. queue[x] = <<>> /\ MatchUserArr[u] = 0
    BY <1>1 DEF Init, Players
  <2> QED
    BY <1>3, <1>5, <2>2
<1>7. RulesInv
  BY <1>1, <1>2 DEF Init, RulesInv
<1>8. TickedInv
  BY <1>1 DEF Init, TickedInv, Players
<1>9. \A i \in RoomIds : rooms[i].at = "none" /\ rooms[i].players = {} /\ rooms[i].absent = {} /\ toManager[i] = <<>>
  BY <1>1 DEF Init, NoRoom
<1>10. \A i \in RoomIds : RoomInv(i)
  BY <1>9 DEF RoomInv
<1>11. ASSUME NEW u \in Users PROVE StageInv(u) /\ OnceInv(u) /\ SeatInv(u)
  <2>1. /\ roomState[u] = "Idle" /\ roomAddr[u] = 0 /\ u \notin starting /\ MatchUserArr[u] = 0
        /\ requests[u] = <<>> /\ replies[u] = <<>>
    BY <1>1 DEF Init, Players
  <2>2. ~Asked(u) /\ ~Called(u) /\ ~Cancelled(u)
    BY <1>5, <1>9, <2>1 DEF Asked, Called, Cancelled
  <2>3. \A i \in RoomIds : ~SeatedIn(u, i) /\ ~Told(u, i)
    BY <1>1, <1>9 DEF SeatedIn, Told, Init
  <2>4. StageInv(u)
    BY <2>1, <2>2 DEF StageInv
  <2>5. OnceInv(u)
    BY <1>5, <1>9, <2>1 DEF OnceInv
  <2>6. SeatInv(u)
    BY <2>1, <2>3 DEF SeatInv
  <2> QED
    BY <2>4, <2>5, <2>6
<1> QED
  BY <1>4, <1>6, <1>7, <1>8, <1>10, <1>11 DEF MatchInv

\* Every step keeps the invariant.
LEMMA MatchInductive == MatchInv /\ [Next]_vars => MatchInv'
<1>1. SUFFICES ASSUME MatchInv, [Next]_vars PROVE MatchInv'
  OBVIOUS
<1>2. ASSUME NEW u \in Users,
             \/ RoomStartMatch(u) \/ RoomMatchCancel(u) \/ PrisonLookedUp(u) \/ CancelAnswered(u)
             \/ StartMatch(u) \/ MatchCancel(u)
      PROVE  MatchInv'
  BY <1>1, <1>2, StepRoomStartMatch, StepRoomMatchCancel, StepPrisonLookedUp, StepCancelAnswered,
     StepStartMatch, StepMatchCancel
<1>3. ASSUME NEW u \in Users, NEW i \in RoomIds, LeaveRoom(u, i) PROVE MatchInv'
  BY <1>1, <1>3, StepLeaveRoom
<1>4. ASSUME NEW k \in Keys, Tick(k) \/ CreateRobot(k) PROVE MatchInv'
  BY <1>1, <1>4, StepTick, StepCreateRobot
<1>5. ASSUME NEW r \in Robots, RobotStartMatch(r) \/ RobotReturns(r) PROVE MatchInv'
  BY <1>1, <1>5, StepRobotStartMatch, StepRobotReturns
<1>6. ASSUME NEW i \in RoomIds, NEW p \in Players, Seat(i, p) PROVE MatchInv'
  BY <1>1, <1>6, StepSeat
<1>7. ASSUME NEW i \in RoomIds, GameOver(i) \/ Registered(i) \/ RoomExit(i) PROVE MatchInv'
  BY <1>1, <1>7, StepGameOver, StepRegistered, StepRoomExit
<1>8. CASE UNCHANGED vars
  <2>1. /\ UNCHANGED <<roomState, roomAddr, starting, requests, replies, orders, robot, rooms, toManager,
                       registered, over>>
        /\ UNCHANGED queueVars
    BY <1>8 DEF vars, agentVars, roomVars
  <2>2. TypeOK'
    BY <1>1, <2>1 DEF MatchInv, TypeOK, queueVars
  <2>3. QueueInv' /\ RulesInv' /\ TickedInv' /\ \A i \in RoomIds : RoomInv(i)'
    BY <1>1, <2>1, AgentFrame
  <2>4. \A u \in Users : UserInv(u)'
    BY <1>1, <2>1, UsersStay DEF queueVars
  <2> QED
    BY <2>2, <2>3, <2>4 DEF MatchInv, UserInv
<1> QED
  BY <1>1, <1>2, <1>3, <1>4, <1>5, <1>6, <1>7, <1>8 DEF Next

(***************************************************************************)
(* Whatever the interleaving of requests, cancellations, ticks and games,  *)
(* a user is at one place at most (being looked up, asking, in one queue,  *)
(* once, called by one room, at one table, told that the game is over, or  *)
(* cancelled), and his agent's roomState and roomAddr go with the place.   *)
(***************************************************************************)
THEOREM MatchInvariance == Spec => []MatchInv
<1>1. Init => MatchInv
  BY MatchInitially
<1>2. MatchInv /\ [Next]_vars => MatchInv'
  BY MatchInductive
<1> QED
  BY <1>1, <1>2, PTL DEF Spec

\* RoomUserInfoGet never finds roomAddr set: a user whom a room calls has left every other.
THEOREM RoomsCallOnlyTheFree == Spec => []SeatedOnce
<1>1. MatchInv => SeatedOnce
  <2>1. SUFFICES ASSUME MatchInv, NEW i \in RoomIds, NEW u \in Users, u \in rooms[i].absent
                 PROVE  roomAddr[u] = 0
    BY DEF SeatedOnce
  <2>2. Called(u) /\ StageInv(u) /\ SeatInv(u)
    BY <2>1 DEF Called, MatchInv
  <2> QED
    BY <2>2 DEF StageInv, SeatInv
<1> QED
  BY <1>1, MatchInvariance, PTL

\* The assertion of CMD.room_exit never fails: the manager has entered the room.
THEOREM ManagerKnowsTheRoom == Spec => []ExitFindsRoom
<1>1. MatchInv => ExitFindsRoom
  <2>1. SUFFICES ASSUME MatchInv, NEW i \in RoomIds, toManager[i] # <<>>, Head(toManager[i]) = "room_exit"
                 PROVE  i \in registered
    BY DEF ExitFindsRoom
  <2>2. RoomInv(i) /\ rooms[i].at \in {"none", "init", "playing", "ended"}
    BY <2>1 DEF MatchInv, TypeOK
  <2> QED
    BY <2>1, <2>2 DEF RoomInv
<1> QED
  BY <1>1, MatchInvariance, PTL

\* A user whose agent says Idle is in no queue, at no table and has no request under way.
THEOREM IdleUsersAreNowhere == Spec => []IdleIsNowhere
<1>1. MatchInv => IdleIsNowhere
  <2>1. SUFFICES ASSUME MatchInv, NEW u \in Users, roomState[u] = "Idle"
                 PROVE  /\ u \notin starting /\ MatchUserArr[u] = 0
                        /\ \A n \in DOMAIN requests[u] : requests[u][n] # "StartMatch"
                        /\ \A o \in Objects : u \notin Within(queue[o])
                        /\ \A i \in RoomIds : u \in rooms[i].players => rooms[i].at = "ended"
    BY DEF IdleIsNowhere
  <2>2. StageInv(u) /\ SeatInv(u) /\ QueueInv /\ 0 \notin Objects
    BY <2>1, MatchAssumption DEF MatchInv
  <2>3. u \notin starting /\ MatchUserArr[u] = 0 /\ ~Asked(u) /\ ~Called(u)
    BY <2>1, <2>2 DEF StageInv
  <2>4. \A o \in Objects : u \notin Within(queue[o])
    <3>1. \A o \in Objects : ~Has(queue[o], u)
      BY <2>2, <2>3 DEF QueueInv
    <3> QED
      BY <3>1 DEF Has, Within
  <2>5. ASSUME NEW i \in RoomIds, u \in rooms[i].players PROVE rooms[i].at = "ended"
    <3>1. u \notin rooms[i].absent /\ ~SeatedIn(u, i)
      BY <2>1, <2>2, <2>3 DEF Called, SeatInv
    <3>2. RoomInv(i) /\ rooms[i].at \in {"none", "init", "playing", "ended"}
      BY <2>1 DEF MatchInv, TypeOK
    <3> QED
      BY <2>5, <3>1, <3>2 DEF RoomInv, SeatedIn
  <2> QED
    BY <2>3, <2>4, <2>5 DEF Asked, Has
<1> QED
  BY <1>1, MatchInvariance, PTL

(***************************************************************************)
(* Agents, matching service and rooms agree on what every user is doing,   *)
(* if nobody asks for a match in a game that has prices but no rooms: such *)
(* a user stays Matching with nothing under way (ma_userroom.lua, 465).    *)
(***************************************************************************)
THEOREM AgentsAndServicesAgree ==
    ASSUME \A u \in Users : Kind[u] # "NoRoom"
    PROVE  Spec => []AgentsAgree
<1>1. MatchInv => MatchingIsReal
  <2>1. SUFFICES ASSUME MatchInv, NEW u \in Users, roomState[u] = "Matching"
                 PROVE  \/ u \in starting
                        \/ \E n \in DOMAIN requests[u] : requests[u][n] = "StartMatch"
                        \/ MatchUserArr[u] # 0 /\ u \in Within(queue[MatchUserArr[u]])
                        \/ \E i \in RoomIds : u \in rooms[i].absent
                        \/ \E n \in DOMAIN replies[u] : replies[u][n]
    BY DEF MatchingIsReal
  <2>2. u \in starting \/ Asked(u) \/ MatchUserArr[u] # 0 \/ Called(u) \/ Cancelled(u)
    BY <2>1 DEF MatchInv, StageInv
  <2>3. MatchUserArr[u] # 0 => u \in Within(queue[MatchUserArr[u]])
    <3>1. MatchUserArr[u] \in Objects \cup {0} /\ QueueInv
      BY <2>1 DEF MatchInv, TypeOK, Players
    <3>2. MatchUserArr[u] # 0 => Has(queue[MatchUserArr[u]], u)
      BY <3>1 DEF QueueInv
    <3> QED
      BY <3>2 DEF Has, Within
  <2>4. Cancelled(u) => \E n \in DOMAIN replies[u] : replies[u][n]
    BY DEF Cancelled, Has
  <2> QED
    BY <2>2, <2>3, <2>4 DEF Asked, Called, Has
<1>2. MatchInv => TypeOK
  BY DEF MatchInv
<1> QED
  BY <1>1, <1>2, MatchInvariance, IdleUsersAreNowhere, PTL DEF AgentsAgree

(***************************************************************************)
(* Where no match is configured for named users, whoever waits in a queue  *)
(* waits in one that the tick visits: the queues that the comment at       *)
(* ddz_match_mgr.lua, line 52, deletes too early are those of configured   *)
(* matches only.                                                           *)
(***************************************************************************)
THEOREM WaitersAreTickedUnlessNamed ==
    ASSUME \A u \in Users : Kind[u] # "MatchServer"
    PROVE  Spec => []WaitersAreTicked
<1>1. MatchInv => WaitersAreTicked
  BY DEF MatchInv, TickedInv, WaitersAreTicked
<1> QED
  BY <1>1, MatchInvariance, PTL

\* Only the room itself ends a user's game: RoomGameOver_C of the room where he plays.
OnlyTheRoomEndsTheGame ==
    \A u \in Users : roomState[u] = "Gameing" /\ roomState'[u] # "Gameing" =>
        Told(u, roomAddr[u]) /\ roomState'[u] = "Idle"

\* An answer to a cancellation that the match has overtaken never takes a user out of his
\* game: CancelAnswered sets Idle only for a user who is still matching.
THEOREM LateAnswersDoNoHarm == Spec => [][OnlyTheRoomEndsTheGame]_vars
<1>1. MatchInv /\ [Next]_vars => [OnlyTheRoomEndsTheGame]_vars
  <2>1. SUFFICES ASSUME MatchInv, Next, NEW u \in Users, roomState[u] = "Gameing", roomState'[u] # "Gameing"
                 PROVE  Told(u, roomAddr[u]) /\ roomState'[u] = "Idle"
    BY DEF OnlyTheRoomEndsTheGame
  <2>2. StageInv(u) /\ SeatInv(u) /\ roomState \in [Users -> {"Idle", "Matching", "Gameing"}]
        /\ replies \in [Users -> Seq(BOOLEAN)]
    BY <2>1 DEF MatchInv, TypeOK
  <2>3. ASSUME NEW v \in Users, NEW i \in RoomIds, LeaveRoom(v, i)
        PROVE  Told(u, roomAddr[u]) /\ roomState'[u] = "Idle"
    <3>1. v = u /\ roomState'[u] = "Idle" /\ Told(u, i)
      BY <2>1, <2>2, <2>3 DEF LeaveRoom, Told
    <3> QED
      BY <2>2, <3>1 DEF SeatInv
  <2>4. ASSUME NEW v \in Users, CancelAnswered(v) PROVE FALSE
    <3>1. /\ v = u /\ replies[u] # <<>> /\ replies[u] \in Seq(BOOLEAN)
          /\ roomState' = [roomState EXCEPT ![u] = IF Head(replies[u]) THEN "Idle" ELSE @]
      BY <2>1, <2>2, <2>4 DEF CancelAnswered
    <3>2. Head(replies[u]) \in BOOLEAN
      BY <3>1, TailHas
    <3>3. CASE Head(replies[u]) = FALSE
      BY <2>1, <2>2, <3>1, <3>3
    <3>4. CASE Head(replies[u]) = TRUE
      <4>1. Has(replies[u], TRUE)
        BY <3>1, <3>4, TailHas
      <4> QED
        BY <2>1, <2>2, <4>1 DEF StageInv, Cancelled
    <3> QED
      BY <3>2, <3>3, <3>4
  <2>5. ASSUME NEW v \in Users, RoomStartMatch(v) PROVE FALSE
    BY <2>1, <2>2, <2>5 DEF RoomStartMatch, MayStart
  <2>6. ASSUME NEW i \in RoomIds, NEW p \in Players, Seat(i, p) PROVE FALSE
    BY <2>1, <2>2, <2>6, SMTT(30) DEF Seat
  <2>7. \/ UNCHANGED roomState
        \/ \E v \in Users : RoomStartMatch(v) \/ CancelAnswered(v) \/ \E i \in RoomIds : LeaveRoom(v, i)
        \/ \E i \in RoomIds, p \in Players : Seat(i, p)
    BY <2>1 DEF Next, RoomMatchCancel, PrisonLookedUp, StartMatch, MatchCancel, Tick, MatchOk, CreateRobot,
       RobotStartMatch, RobotReturns, GameOver, Registered, RoomExit, agentVars
  <2> QED
    BY <2>1, <2>3, <2>4, <2>5, <2>6, <2>7
<1> QED
  BY <1>1, MatchInvariance, PTL DEF Spec

=============================================================================
