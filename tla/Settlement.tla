----------------------------- MODULE Settlement -----------------------------
(***************************************************************************)
(* The beans at stake in one landlord room: Room.gameover                  *)
(* (business/game/ddz/Room.lua) settles on the copies of the players'      *)
(* balances the room holds; each player's agent keeps the balance itself   *)
(* (ma_useritem.lua), tells the room of every change (SyncRoomData) and    *)
(* applies the room's verdict (RoomGameOver_C in ma_userroom_ddz.lua).     *)
(*                                                                         *)
(* An agent's change of balance waits for the database (dbx.update is a    *)
(* skynet.call, and db_manager.lua spreads updates over a pool of          *)
(* connections) before it tells the room, so the news may leave the agent  *)
(* in another order than the changes were made.  From the agent to the     *)
(* room messages are first in, first out.  The game itself is module       *)
(* DdzRoom; here it may end at any time.                                   *)
(*                                                                         *)
(* goldRealNum is computed in floating point.  As long as beans times      *)
(* multiple stay below 2^52 its error is less than the distance of any     *)
(* fraction to the next integer, so only an integral quotient can come out *)
(* wrong: just below itself, to be rounded down to the integer before.     *)
(***************************************************************************)
EXTENDS Integers, Sequences

CONSTANTS Difen,       \* cfgData.difen: beans per multiple
          Capped,      \* cfgData.capped_num: most a farmer wins or loses, if >= 0
          Golds,       \* balances the players may start with
          Publics,     \* products of roomObj.multiple
          Doubles,     \* values of doubleMultiple, 1 for nil
          Maxes,       \* values of doubleMaxMultiple, 1 for nil
          Deltas,      \* what an agent may add to a balance, or take
          MaxChanges   \* bound on those changes during a game

ASSUME SettlementAssumption ==
    /\ Difen \in Nat \ {0} /\ Capped \in Int
    /\ Golds \subseteq Nat
    /\ Publics \subseteq Nat \ {0} /\ Doubles \subseteq Nat \ {0} /\ Maxes \subseteq Nat \ {0}
    /\ Deltas \subseteq Int /\ MaxChanges \in Nat

Seats    == 1 .. 3
Landlord == 1
Farmers  == {2, 3}

VARIABLES
    public,     \* product of roomObj.multiple
    double,     \* player.doubleMultiple
    doubleMax,  \* player.doubleMaxMultiple
    gold,       \* player.userObj.gold, the room's copy
    change,     \* goldChange in the room's verdict, 0 before
    over,       \* the room has settled and is gone
    balance,    \* userInfo.gold of each player's agent
    saving,     \* changes of balance that wait for the database
    syncs,      \* SyncRoomData messages on their way to the room
    inRoom,     \* players whose agent has userInfo.roomAddr
    changes,    \* number of changes made outside the game
    ledger,     \* history: the beans of all three, had there been no game
    spent       \* history: someone spent beans during the game

fixed  == <<public, double, doubleMax>>
ghosts == <<changes, ledger, spent>>
vars   == <<fixed, gold, change, over, balance, saving, syncs, inRoom, ghosts>>

TypeOK ==
    /\ public \in Nat \ {0}
    /\ double \in [Seats -> Nat \ {0}] /\ doubleMax \in [Seats -> Nat \ {0}]
    /\ gold \in [Seats -> Nat]
    /\ change \in [Seats -> Int]
    /\ over \in BOOLEAN
    /\ balance \in [Seats -> Nat]
    /\ saving \subseteq [id : Nat, who : Seats, num : Nat]
    /\ syncs \in [Seats -> Seq(Nat)]
    /\ inRoom \subseteq Seats
    /\ changes \in Nat /\ ledger \in Int /\ spent \in BOOLEAN

Total(b) == b[1] + b[2] + b[3]

\* RoomUserInfoGet gives the room the balances of the moment.
Init ==
    /\ public \in Publics
    /\ double \in [Seats -> Doubles] /\ doubleMax \in [Seats -> Maxes]
    /\ balance \in [Seats -> Golds] /\ gold = balance
    /\ change = [p \in Seats |-> 0]
    /\ over = FALSE
    /\ saving = {} /\ syncs = [p \in Seats |-> <<>>]
    /\ inRoom = Seats
    /\ changes = 0 /\ ledger = Total(balance) /\ spent = FALSE

-----------------------------------------------------------------------------
Lesser(a, b) == IF a <= b THEN a ELSE b

Factor(p) == double[p] * doubleMax[p]

\* Player:getMultiple
Multiple(p) ==
    LET common == public * Factor(Landlord)
    IN  common * (IF p = Landlord THEN Factor(2) + Factor(3) ELSE Factor(p))

\* getMultipleMax, for a room with a cap
RewardMax ==
    LET twice(p) == IF doubleMax[p] > 1 THEN 2 ELSE 1
    IN  Capped * twice(1) * twice(2) * twice(3)

\* Mutant of GoldReal: rounded to the next integer, as line 424 once did.
GoldRealRounded(f) ==
    {k \in 0 .. gold[Landlord] :
        /\ (2 * k - 1) * Multiple(Landlord) <= 2 * gold[Landlord] * Multiple(f)
        /\ 2 * gold[Landlord] * Multiple(f) < (2 * k + 1) * Multiple(Landlord)}

\* What math.floor(landlord.gold / landlord.multiple * farmer.multiple) may return
GoldReal(f) ==
    {k \in 0 .. gold[Landlord] :
        /\ k * Multiple(Landlord) <= gold[Landlord] * Multiple(f)
        /\ gold[Landlord] * Multiple(f) <= (k + 1) * Multiple(Landlord)}

\* Mutant of Limit: the farmer's own beans do not count.
LimitOfRoom(f) ==
    LET goldBase == Difen * Multiple(f)
    IN  IF Capped < 0 THEN goldBase ELSE Lesser(goldBase, RewardMax)

\* Most the farmer may win or lose, were the landlord rich enough
Limit(f) ==
    LET goldBase == Difen * Multiple(f)
    IN  Lesser(gold[f], IF Capped < 0 THEN goldBase ELSE Lesser(goldBase, RewardMax))

\* farmer.goldChange, before it gets its sign
Stake(f, goldReal) == Lesser(goldReal, Limit(f))

(***************************************************************************)
(* "The system eats one bean".  The code also asks whether the shares,     *)
(* before rounding, add up to at least the landlord's beans; they always   *)
(* do, the two farmers' multiples adding up to the landlord's.             *)
(***************************************************************************)
Eaten(landlordWins, sum) ==
    IF ~landlordWins /\ gold[Landlord] - sum = 1 THEN 1 ELSE 0

\* Room.gameover. The room then leaves ddz_room_mgr and exits; messages that still
\* wait for it are lost.
GameOver(landlordWins, goldReal2, goldReal3) ==
    LET stake2 == Stake(2, goldReal2)
        stake3 == Stake(3, goldReal3)
        sum    == stake2 + stake3
        sign   == IF landlordWins THEN 1 ELSE -1
    IN  /\ ~over
        /\ goldReal2 \in GoldReal(2) /\ goldReal3 \in GoldReal(3)
        /\ change' = [p \in Seats |->
               IF p = Landlord THEN sign * (sum + Eaten(landlordWins, sum))
               ELSE IF p = 2 THEN -sign * stake2 ELSE -sign * stake3]
        /\ over' = TRUE
        /\ syncs' = [p \in Seats |-> <<>>]
        /\ UNCHANGED <<fixed, gold, balance, saving, inRoom, ghosts>>

-----------------------------------------------------------------------------
\* An agent's _add or _remove of beans up to the call of dbx.update. What is not
\* there cannot be removed.
ChangeGold(p, delta) ==
    LET num == balance[p] + delta
    IN  /\ changes < MaxChanges
        /\ num >= 0
        /\ balance' = [balance EXCEPT ![p] = num]
        /\ changes' = changes + 1
        /\ saving' = saving \cup {[id |-> changes', who |-> p, num |-> num]}
        /\ ledger' = ledger + delta
        /\ spent' = (spent \/ delta < 0)
        /\ UNCHANGED <<fixed, gold, change, over, syncs, inRoom>>

\* The rest of it: the listener of UserItemUpdate tells the room, if it still exists.
Saved(s) ==
    /\ saving' = saving \ {s}
    /\ syncs' = IF over THEN syncs ELSE [syncs EXCEPT ![s.who] = Append(@, s.num)]
    /\ UNCHANGED <<fixed, gold, change, over, balance, inRoom, ghosts>>

\* Player:SyncRoomData
SyncRoomData(p) ==
    /\ syncs[p] # <<>>
    /\ gold' = [gold EXCEPT ![p] = Head(syncs[p])]
    /\ syncs' = [syncs EXCEPT ![p] = Tail(@)]
    /\ UNCHANGED <<fixed, change, over, balance, saving, inRoom, ghosts>>

\* Mutant of Applied: the balance is not looked at again.
AppliedBlindly(p) == change[p]

\* What RoomGameOver_C adds to the balance: a loser pays what is left of it at most.
Applied(p) == IF change[p] >= 0 THEN change[p] ELSE -Lesser(-change[p], balance[p])

\* The beans in RoomGameOver_C, which has left the room (exitRoom) before it counts
\* them: nobody hears of this change.
RoomGameOver_C(p) ==
    /\ over /\ p \in inRoom
    /\ inRoom' = inRoom \ {p}
    /\ balance' = [balance EXCEPT ![p] = @ + Applied(p)]
    /\ UNCHANGED <<fixed, gold, change, over, saving, syncs, ghosts>>

Next ==
    \/ \E landlordWins \in BOOLEAN, goldReal2, goldReal3 \in 0 .. gold[Landlord] :
           GameOver(landlordWins, goldReal2, goldReal3)
    \/ \E p \in Seats, delta \in Deltas : ChangeGold(p, delta)
    \/ \E s \in saving : Saved(s)
    \/ \E p \in Seats : SyncRoomData(p) \/ RoomGameOver_C(p)

Spec == Init /\ [][Next]_vars

-----------------------------------------------------------------------------
\* Room.gameover never takes more from a player than the player was known to have,
\* whatever the caps, the doubles, the rounding and the bean the system eats.
NobodyOverdrawn == \A p \in Seats : gold[p] + change[p] >= 0 \/ ~over

\* Once all three agents have applied the verdict, at most one bean is gone, and none
\* was made unless someone spent beans during the game, behind the room's back.
SettlementConserves ==
    over /\ inRoom = {} =>
        /\ Total(balance) >= ledger - 1
        /\ Total(balance) > ledger => spent

=============================================================================
