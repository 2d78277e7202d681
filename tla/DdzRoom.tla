------------------------------ MODULE DdzRoom ------------------------------
(***************************************************************************)
(* One landlord room (business/game/ddz): dealing, bidding for landlord,   *)
(* doubling, playing, settlement.                                          *)
(*                                                                         *)
(* A room is one skynet service.  Client requests and timer callbacks run  *)
(* inside the service's critical section cs (game/ddz/main.lua; module     *)
(* CriticalSection), one at a time and atomically up to the next yield.    *)
(* A handler that yields (a sleep, or a call to the player's agent) keeps  *)
(* cs: the variable `cs' is the suspended rest of that handler.            *)
(* Four delayed steps run OUTSIDE cs, whatever cs is doing: the end of the *)
(* deal animation, the two barriers of the doubling phases, and the end of *)
(* the game.  `pending' counts those that are scheduled.                   *)
(*                                                                         *)
(* Timers are abstract here: any timer callback the room may receive is a  *)
(* Tick or a ClockEnd below, at any moment when cs is free.  Module        *)
(* TurnTimer models when they fire.  Cards are counted, not named; which   *)
(* combination beats which is left to the players' choice.                 *)
(***************************************************************************)
EXTENDS Integers, FiniteSets

CONSTANTS HandSize,    \* cards dealt to each player (17)
          BottomSize,  \* cards the landlord gets on top (3)
          MaxDeal,     \* deals before a landlord is imposed (3)
          Users,       \* seats taken by people; the others are robots
          Skill,       \* hero skill of each seat
          Showers,     \* seats whose player uses ShowCard
          Doublers     \* seats whose player uses Double_4 and DoubleMax

Pos == 1 .. 3

ASSUME RoomAssumption ==
    /\ HandSize \in Nat \ {0} /\ BottomSize \in Nat \ {0}
    /\ MaxDeal \in Nat \ {0}
    /\ Users \subseteq Pos /\ Showers \subseteq Pos /\ Doublers \subseteq Pos
    /\ Skill \in [Pos -> {"none", "forceRob", "freeMax"}]

VARIABLES
    roomState,          \* roomObj.state
    actionIndex,        \* roomObj.actionIndex
    dealCardCount,      \* roomObj.dealCardCount
    landlordPlayer,     \* seat of roomObj.landlordPlayer, 0 for nil
    multiple,           \* how often each key of roomObj.multiple was raised
    lastPlay,           \* seat of roomObj.lastPlayCardObj, 0 for nil
    pstate,             \* player.state
    lastAction,         \* player.lastAction
    prevAction,         \* the entry of player.actionQueue before the last
    hand,               \* #player.cards
    playCount,          \* player.playCount, 2 standing for 2 and more
    playCardState,      \* player.playCardState
    doubled,            \* player.doubleAction ("nil" as long as unset)
    maxed,              \* player.doubleMaxAction
    isShowcard,         \* player.isShowcard
    isTrusteeship,      \* player.isTrusteeship
    skillState,         \* player.skillState
    bottomSeen,         \* deal of which player.bottomCards holds the cards, 0 for {}
    cs,                 \* the suspended handler that owns cs
    pending,            \* steps scheduled outside cs
    spent,              \* items taken from the agents: <<seat, item>>
    topBidder           \* history: who last called or robbed, until a landlord is set

roomVars == <<roomState, actionIndex, landlordPlayer, pstate>>
bidVars  == <<dealCardCount, lastAction, prevAction, topBidder>>
handVars == <<hand, playCount, playCardState, lastPlay>>
dblVars  == <<doubled, maxed, spent>>
infoVars == <<isShowcard, skillState, bottomSeen>>
vars == <<roomVars, bidVars, handVars, dblVars, infoVars, multiple,
          isTrusteeship, cs, pending>>

-----------------------------------------------------------------------------
RoomStates == {"DealCard", "CallLandlord", "RobLandlord", "Doubleing",
               "DoubleMax", "Playing", "Ended", "Exited"}

\* player states in which a turn clock runs (TIME, Player.lua)
ActionStates == {"CallLandlord", "RobLandlord", "Doubleing", "DoubleMax", "Playing"}

PlayerStates == {"Waiting", "DealCard"} \cup ActionStates

Actions == {"nil", "CallLandlord", "NotCall", "RobLandlord", "NotRob",
            "Double", "DoubleMax", "PlayCard"}

Bids == {"CallLandlord", "RobLandlord"}

\* The keys of roomObj.multiple that some property tells apart; the factors of the
\* bids, of a skill and of bombs are data of module Settlement.
Keys == {"showCard", "bottomCard", "spring", "springReverse"}

\* Steps scheduled outside cs, named by the room state they lead to.
Delayed == {"CallLandlord", "DoubleMax", "Playing", "Ended", "Exited"}

(***************************************************************************)
(* Where a handler that owns cs is suspended:                              *)
(*   landlordDelay, landlordWait   the two sleeps of Room.setLandlord      *)
(*   doubleQuery, maxQuery         waiting for hasItem/buyStore            *)
(*   doubleRemove, maxRemove       removeItem called, agent has not acted  *)
(*   doubleReply, maxReply         agent took the item, reply under way    *)
(*   effect, next                  the two sleeps after a card is played   *)
(*   bottom, other                 BottomCardInfo; requests that change no *)
(*                                 room state but call the agent           *)
(***************************************************************************)
Points == {"free", "landlordDelay", "landlordWait", "doubleQuery", "maxQuery",
           "doubleRemove", "maxRemove", "doubleReply", "maxReply",
           "effect", "next", "bottom", "other"}

Free == [at |-> "free", who |-> 0]
Held(at, p) == [at |-> at, who |-> p]

TypeOK ==
    /\ roomState \in RoomStates
    /\ actionIndex \in Pos
    /\ dealCardCount \in 1 .. MaxDeal
    /\ landlordPlayer \in 0 .. 3
    /\ multiple \in [Keys -> Nat]
    /\ lastPlay \in 0 .. 3
    /\ pstate \in [Pos -> PlayerStates]
    /\ lastAction \in [Pos -> Actions]
    /\ prevAction \in [Pos -> Actions]
    /\ hand \in [Pos -> 0 .. HandSize + BottomSize]
    /\ playCount \in [Pos -> 0 .. 2]
    /\ playCardState \in [Pos -> {"Default", "First", "Play", "Normal"}]
    /\ doubled \in [Pos -> {"nil", "plain", "super"}]
    /\ maxed \in [Pos -> {"nil", "plain", "max"}]
    /\ isShowcard \in [Pos -> BOOLEAN]
    /\ isTrusteeship \in [Pos -> BOOLEAN]
    /\ skillState \in [Pos -> BOOLEAN]
    /\ bottomSeen \in [Pos -> 0 .. MaxDeal]
    /\ cs \in [at : Points, who : 0 .. 3]
    /\ pending \in [Delayed -> Nat]
    /\ spent \subseteq Pos \X {"super", "max"}
    /\ topBidder \in 0 .. 3

-----------------------------------------------------------------------------
\* getActionPlayerNext
NextPos(p) == IF p + 1 = 4 THEN 1 ELSE p + 1

\* addMultiple for a set of keys
Raise(m, keys) == [k \in Keys |-> IF k \in keys THEN m[k] + 1 ELSE m[k]]

Schedule(s) == pending' = [pending EXCEPT ![s] = @ + 1]

\* Room.init followed by its first dealCard: the skills that trigger are random.
SkillRoll(old) ==
    {f \in [Pos -> BOOLEAN] : \A p \in Pos :
        /\ old[p] => f[p]
        /\ f[p] => old[p] \/ Skill[p] # "none"}

Init ==
    /\ roomState = "DealCard"
    /\ actionIndex = 1
    /\ dealCardCount = 1
    /\ landlordPlayer = 0
    /\ multiple = [k \in Keys |-> 0]
    /\ lastPlay = 0
    /\ pstate = [p \in Pos |-> "DealCard"]
    /\ lastAction = [p \in Pos |-> "nil"]
    /\ prevAction = [p \in Pos |-> "nil"]
    /\ hand = [p \in Pos |-> HandSize]
    /\ playCount = [p \in Pos |-> 0]
    /\ playCardState = [p \in Pos |-> "Default"]
    /\ doubled = [p \in Pos |-> "nil"]
    /\ maxed = [p \in Pos |-> "nil"]
    /\ isShowcard = [p \in Pos |-> FALSE]
    /\ isTrusteeship = [p \in Pos |-> FALSE]
    /\ skillState \in SkillRoll([p \in Pos |-> FALSE])
    /\ bottomSeen = [p \in Pos |-> 0]
    /\ cs = Free
    /\ pending = [s \in Delayed |-> IF s = "CallLandlord" THEN 1 ELSE 0]
    /\ spent = {}
    /\ topBidder = 0

-----------------------------------------------------------------------------
(***************************************************************************)
(* Bidding.  p's handler has put p in Waiting; it ends in one of           *)
(*   Turn(s, q, ...)   action(s, q): q is asked to call or to rob          *)
(*   Elect(q, ...)     setLandlord(q), which sleeps before the next phase  *)
(*   Redeal            action(DealCard): everybody passed                  *)
(***************************************************************************)

\* addAction
AddAction(p, a) ==
    /\ lastAction' = [lastAction EXCEPT ![p] = a]
    /\ prevAction' = [prevAction EXCEPT ![p] = lastAction[p]]

\* addAction and addMultiple of a bid
Bid(p, a) ==
    /\ AddAction(p, a)
    /\ topBidder' = IF a \in Bids THEN p ELSE topBidder

Turn(s, q, p, a) ==
    /\ Bid(p, a)
    /\ roomState' = s
    /\ actionIndex' = q
    /\ pstate' = [pstate EXCEPT ![p] = "Waiting", ![q] = s]
    /\ UNCHANGED <<landlordPlayer, hand, dealCardCount, multiple, cs, pending,
                   infoVars>>

\* The caller holds cs through the sleep; roomState stays as it is meanwhile.
\* actionIndex is where the search for the next bidder left it.
Elect(q, i, p, a) ==
    /\ Bid(p, a)
    /\ multiple' = Raise(multiple, {"bottomCard"})
    /\ landlordPlayer' = q
    /\ hand' = [hand EXCEPT ![q] = @ + BottomSize]
    /\ cs' = Held("landlordWait", q)
    /\ actionIndex' = i
    /\ pstate' = [pstate EXCEPT ![p] = "Waiting"]
    /\ UNCHANGED <<roomState, dealCardCount, pending, infoVars>>

\* Room.dealCard, and the part of action(DealCard) that runs at once.
FreshDeal(p) ==
    /\ dealCardCount' = dealCardCount + 1
    /\ multiple' = [multiple EXCEPT !["showCard"] = 0]
    /\ lastAction' = [q \in Pos |-> "nil"]
    /\ prevAction' = [q \in Pos |-> "nil"]
    /\ topBidder' = 0
    /\ hand' = [q \in Pos |-> HandSize]
    /\ roomState' = "DealCard"
    /\ actionIndex' = p
    /\ pstate' = [q \in Pos |-> "DealCard"]
    /\ skillState' \in SkillRoll(skillState)
    /\ Schedule("CallLandlord")
    /\ UNCHANGED <<landlordPlayer, cs>>

\* Mutant of Redeal: player.bottomCards survives the deal.
RedealKeepingPeeks(p) ==
    FreshDeal(p) /\ isShowcard' = [q \in Pos |-> FALSE] /\ UNCHANGED bottomSeen

Redeal(p) ==
    /\ FreshDeal(p)
    /\ isShowcard' = [q \in Pos |-> FALSE]
    /\ bottomSeen' = [q \in Pos |-> 0]

LastDeal == dealCardCount >= MaxDeal

\* Mutant of NextPhase: the neighbour is asked to rob though nobody called.
AlwaysRob(a) == "RobLandlord"

\* What the neighbour who was not asked yet is asked after p called or passed.
NextPhase(a) == IF a = "CallLandlord" THEN "RobLandlord" ELSE "CallLandlord"

\* Player:CallLandlord and the CallLandlord branch of Room.actionEnd
CallLandlord(p, a) ==
    /\ pstate[p] = "CallLandlord"
    /\ a \in {"CallLandlord", "NotCall"}
    /\ LET next  == NextPos(p)
           acted == lastAction[next] # "nil"
       IN  \/ ~acted /\ Turn(NextPhase(a), next, p, a)
           \/ acted /\ a = "CallLandlord" /\ Elect(p, p, p, a)
           \/ acted /\ a = "NotCall" /\ LastDeal /\ Elect(next, p, p, a)
           \/ acted /\ a = "NotCall" /\ ~LastDeal /\ Redeal(p)
    /\ UNCHANGED <<playCount, playCardState, lastPlay, dblVars>>

\* The loop of lines 268-275: from p's neighbour, skip who has passed. It gives up
\* after ten steps, so if everybody had passed it would stop at p + 2.
NextBidder(p, la) ==
    LET n == NextPos(p)
        passed(q) == la[q] \in {"NotCall", "NotRob"}
    IN  CASE ~passed(n)                   -> n
          [] passed(n) /\ ~passed(NextPos(n)) -> NextPos(n)
          [] passed(n) /\ passed(NextPos(n)) /\ ~passed(p) -> p
          [] OTHER                        -> NextPos(n)

\* The player before q: where the loop leaves actionIndex when it stops at q.
PrevPos(q) == NextPos(NextPos(q))

\* Mutant of RobEnd: the round ends when everybody was asked once, and whoever bid
\* may become landlord.
RobEndOneRound(p, a) ==
    IF lastAction[NextPos(p)] = "nil"
    THEN Turn("RobLandlord", NextPos(p), p, a)
    ELSE \E r \in Pos : /\ [lastAction EXCEPT ![p] = a][r] \in Bids
                        /\ Elect(r, p, p, a)

\* The RobLandlord branch of Room.actionEnd
RobEnd(p, a) ==
    LET la   == [lastAction EXCEPT ![p] = a]
        next == NextPos(p)
        q    == NextBidder(p, la)
        arr  == {r \in Pos : la[r] \in Bids}
        overlord == lastAction[p] \in Bids /\ a = "RobLandlord"
    IN  IF la[next] = "nil" THEN Turn("RobLandlord", next, p, a)
        ELSE IF overlord THEN Elect(p, p, p, a)
        ELSE IF q = p THEN Elect(p, PrevPos(q), p, a)
        ELSE IF Cardinality(arr) = 1
        THEN Elect(CHOOSE r \in arr : TRUE, PrevPos(q), p, a)
        ELSE Turn("RobLandlord", q, p, a)

\* Player:RobLandlord
RobLandlord(p, a) ==
    /\ pstate[p] = "RobLandlord"
    /\ a \in {"RobLandlord", "NotRob"}
    /\ RobEnd(p, a)
    /\ UNCHANGED <<playCount, playCardState, lastPlay, dblVars>>

\* Player:ForceRobLandlord: a hero's skill ends the bidding at once.
ForceRobLandlord(p) ==
    /\ landlordPlayer = 0
    /\ roomState \in {"CallLandlord", "RobLandlord"}
    /\ skillState[p] /\ Skill[p] = "forceRob"
    /\ pstate' = [q \in Pos |-> "Waiting"]
    /\ landlordPlayer' = p
    /\ hand' = [hand EXCEPT ![p] = @ + BottomSize]
    /\ cs' = Held("landlordDelay", p)
    /\ UNCHANGED <<roomState, actionIndex, bidVars, playCount, playCardState,
                   lastPlay, dblVars, infoVars, multiple, pending>>

\* Mutant of LandlordDelayOver: the bottom cards are handed out again.
BottomCardsTwice ==
    /\ cs.at = "landlordDelay"
    /\ multiple' = Raise(multiple, {"bottomCard"})
    /\ cs' = Held("landlordWait", cs.who)
    /\ hand' = [hand EXCEPT ![cs.who] = @ + BottomSize]
    /\ UNCHANGED <<roomVars, bidVars, playCount, playCardState, lastPlay, dblVars,
                   infoVars, isTrusteeship, pending>>

\* setLandlord after the optional first sleep
LandlordDelayOver ==
    /\ cs.at = "landlordDelay"
    /\ multiple' = Raise(multiple, {"bottomCard"})
    /\ cs' = Held("landlordWait", cs.who)
    /\ UNCHANGED <<roomVars, bidVars, handVars, dblVars, infoVars,
                   isTrusteeship, pending>>

\* setLandlord after SetLandlordWaite: action(Doubleing, player)
LandlordWaitOver ==
    /\ cs.at = "landlordWait"
    /\ roomState' = "Doubleing"
    /\ actionIndex' = cs.who
    /\ pstate' = [q \in Pos |-> "Doubleing"]
    /\ cs' = Free
    /\ topBidder' = 0
    /\ UNCHANGED <<landlordPlayer, dealCardCount, lastAction, prevAction, handVars,
                   dblVars, infoVars, multiple, isTrusteeship, pending>>

-----------------------------------------------------------------------------
(***************************************************************************)
(* Doubling.  All three players decide at the same time, in Doubleing and  *)
(* again in DoubleMax; who decides last schedules the next phase.          *)
(***************************************************************************)

\* Mutant of AllDecided: the first decision opens the barrier.
AnyDecided(f) == \E q \in Pos : f[q] # "nil"

\* lines 298-300 and 308-310
AllDecided(f) == \A q \in Pos : f[q] # "nil"

\* self.state = Waiting and clearClock
LeaveTurn(p) == pstate' = [pstate EXCEPT ![p] = "Waiting"]

\* Player:Double from line 174, with the Doubleing branch of actionEnd. kind is
\* "super" for Double_4, "plain" for NotDouble and Double_2.
ApplyDouble(p, kind) ==
    /\ doubled' = [doubled EXCEPT ![p] = kind]
    /\ AddAction(p, "Double")
    /\ LeaveTurn(p)
    /\ actionIndex' = p
    /\ IF AllDecided(doubled')
       THEN Schedule("DoubleMax") ELSE UNCHANGED pending
    /\ UNCHANGED <<roomState, landlordPlayer, dealCardCount, topBidder, handVars,
                   maxed, spent, infoVars, multiple>>

\* Player:DoubleMax from line 236, with the DoubleMax branch of actionEnd
ApplyDoubleMax(p, kind) ==
    /\ maxed' = [maxed EXCEPT ![p] = kind]
    /\ AddAction(p, "DoubleMax")
    /\ LeaveTurn(p)
    /\ actionIndex' = p
    /\ IF AllDecided(maxed')
       THEN Schedule("Playing") ELSE UNCHANGED pending
    /\ UNCHANGED <<roomState, landlordPlayer, dealCardCount, topBidder, handVars,
                   doubled, spent, infoVars, multiple>>

\* A request that calls the player's agent first and keeps cs while it waits.
Suspend(at, p) ==
    /\ cs' = Held(at, p)
    /\ UNCHANGED <<roomVars, bidVars, handVars, dblVars, infoVars, multiple,
                   isTrusteeship, pending>>

\* A suspended request gives up: an item is missing, or the state has moved on.
GiveUp ==
    /\ cs' = Free
    /\ UNCHANGED <<roomVars, bidVars, handVars, dblVars, infoVars, multiple,
                   isTrusteeship, pending>>

\* Mutant of DoubleQueried: the item is looked for but not taken.
DoubleWithoutPaying ==
    /\ cs.at = "doubleQuery"
    /\ \/ GiveUp
       \/ /\ pstate[cs.who] = "Doubleing"
          /\ ApplyDouble(cs.who, "super")
          /\ cs' = Free
          /\ UNCHANGED isTrusteeship

\* Line 147 on: the agent said whether the item is there or could be bought.
DoubleQueried ==
    /\ cs.at = "doubleQuery"
    /\ \/ GiveUp
       \/ pstate[cs.who] = "Doubleing" /\ Suspend("doubleRemove", cs.who)

MaxQueried ==
    /\ cs.at = "maxQuery"
    /\ \/ GiveUp
       \/ pstate[cs.who] = "DoubleMax" /\ Suspend("maxRemove", cs.who)
       \* UserHeroSkillUse: the hero's skill pays (line 210)
       \/ /\ pstate[cs.who] = "DoubleMax"
          /\ skillState[cs.who] /\ Skill[cs.who] = "freeMax"
          /\ ApplyDoubleMax(cs.who, "max")
          /\ cs' = Free
          /\ UNCHANGED isTrusteeship

\* The agent executes UserItemRemove; it may still find the item gone.
AgentRemovesItem ==
    \/ cs.at \in {"doubleRemove", "maxRemove"} /\ GiveUp
    \/ /\ cs.at \in {"doubleRemove", "maxRemove"}
       /\ LET super == cs.at = "doubleRemove"
          IN  /\ spent' = spent \cup {<<cs.who, IF super THEN "super" ELSE "max">>}
              /\ cs' = Held(IF super THEN "doubleReply" ELSE "maxReply", cs.who)
       /\ UNCHANGED <<roomVars, bidVars, handVars, doubled, maxed, infoVars,
                      multiple, isTrusteeship, pending>>

\* The reply arrives. The state is not looked at again (comment at line 168).
DoubleReplied ==
    /\ cs.at = "doubleReply"
    /\ ApplyDouble(cs.who, "super")
    /\ cs' = Free
    /\ UNCHANGED isTrusteeship

MaxReplied ==
    /\ cs.at = "maxReply"
    /\ ApplyDoubleMax(cs.who, "max")
    /\ cs' = Free
    /\ UNCHANGED isTrusteeship

-----------------------------------------------------------------------------
(***************************************************************************)
(* Playing.                                                                *)
(***************************************************************************)

\* Mutant of TurnEnd: an empty hand does not end the game.
TurnEndAlwaysNext(p, h) ==
    /\ actionIndex' = p
    /\ cs' = Held("next", p)
    /\ UNCHANGED pending

\* The Playing branch of Room.actionEnd: p has played or passed; h is what every
\* hand holds now. The hand-over to the next player follows a sleep inside cs.
TurnEnd(p, h) ==
    /\ actionIndex' = p
    /\ IF h[p] = 0
       THEN cs' = Free /\ Schedule("Ended")
       ELSE cs' = Held("next", p) /\ UNCHANGED pending

\* Player:PlayCard with cards: n of them leave the hand. A combination with a
\* subtype shows an effect first (line 360), inside cs.
PlayCards(p, n, effect) ==
    /\ pstate[p] = "Playing"
    /\ n \in 1 .. hand[p]
    /\ hand' = [hand EXCEPT ![p] = @ - n]
    /\ playCount' = [playCount EXCEPT ![p] = IF @ = 2 THEN 2 ELSE @ + 1]
    /\ lastPlay' = p
    /\ LeaveTurn(p)
    /\ AddAction(p, "PlayCard")
    /\ IF effect
       THEN cs' = Held("effect", p) /\ UNCHANGED <<actionIndex, pending>>
       ELSE TurnEnd(p, hand')
    /\ UNCHANGED <<roomState, landlordPlayer, dealCardCount, topBidder,
                   playCardState, dblVars, infoVars, multiple>>

\* Mutant of MayPass: who opens a round may pass too.
MayAlwaysPass(p) == TRUE

\* line 279
MayPass(p) == playCardState[p] = "Normal"

\* Player:PlayCard without cards; only who answers another's cards may pass.
Pass(p) ==
    /\ pstate[p] = "Playing"
    /\ MayPass(p)
    /\ LeaveTurn(p)
    /\ AddAction(p, "PlayCard")
    /\ TurnEnd(p, hand)
    /\ UNCHANGED <<roomState, landlordPlayer, dealCardCount, topBidder,
                   handVars, dblVars, infoVars, multiple>>

EffectOver ==
    /\ cs.at = "effect"
    /\ TurnEnd(cs.who, hand)
    /\ UNCHANGED <<roomState, landlordPlayer, pstate, bidVars, handVars, dblVars,
                   infoVars, multiple, isTrusteeship>>

\* Mutant of PlayStateOf: nobody has to open a round but the first player.
NormalUnlessFirst(q) == IF lastPlay = 0 THEN "First" ELSE "Normal"

\* lines 197-201
PlayStateOf(q) ==
    IF lastPlay = 0 THEN "First" ELSE IF lastPlay = q THEN "Play" ELSE "Normal"

\* Player q's turn: action(Playing, q).
StartTurn(q) ==
    /\ roomState' = "Playing"
    /\ actionIndex' = q
    /\ pstate' = [pstate EXCEPT ![q] = "Playing"]
    /\ playCardState' = [playCardState EXCEPT ![q] = PlayStateOf(q)]
    /\ UNCHANGED <<landlordPlayer, bidVars, hand, playCount, lastPlay, dblVars,
                   infoVars, multiple, isTrusteeship>>

\* Mutant of NextTurn: play goes round the other way.
TurnBackwards ==
    /\ cs.at = "next"
    /\ StartTurn(PrevPos(actionIndex))
    /\ cs' = Free
    /\ UNCHANGED pending

\* After the sleep of line 323: actionIndex is read only now.
NextTurn ==
    /\ cs.at = "next"
    /\ StartTurn(NextPos(actionIndex))
    /\ cs' = Free
    /\ UNCHANGED pending

-----------------------------------------------------------------------------
(***************************************************************************)
(* Steps outside cs.                                                       *)
(***************************************************************************)

Due(s) == pending[s] > 0 /\ pending' = [pending EXCEPT ![s] = @ - 1]

\* The DealCardWaite timeout: a random player is asked to call first.
DealCardWaitOver ==
    /\ Due("CallLandlord")
    /\ \E q \in Pos :
           /\ pstate' = [p \in Pos |-> IF p = q THEN "CallLandlord" ELSE "Waiting"]
           /\ actionIndex' = q
    /\ roomState' = "CallLandlord"
    /\ UNCHANGED <<landlordPlayer, bidVars, handVars, dblVars, infoVars, multiple,
                   isTrusteeship, cs>>

\* The fork of line 302: action(DoubleMax)
DoubleingOver ==
    /\ Due("DoubleMax")
    /\ roomState' = "DoubleMax"
    /\ pstate' = [p \in Pos |-> "DoubleMax"]
    /\ UNCHANGED <<actionIndex, landlordPlayer, bidVars, handVars, dblVars,
                   infoVars, multiple, isTrusteeship, cs>>

\* The fork of line 312: action(Playing, landlordPlayer)
DoubleMaxOver ==
    /\ Due("Playing")
    /\ StartTurn(landlordPlayer)
    /\ UNCHANGED cs

Farmers == Pos \ {landlordPlayer}

\* The timeout of line 319: action(Ended, player), which settles the game (module
\* Settlement) and then calls ddz_room_mgr. The player is the one with no cards.
GameOver ==
    /\ pending["Ended"] > 0
    /\ pending' = [pending EXCEPT !["Ended"] = @ - 1, !["Exited"] = @ + 1]
    /\ roomState' = "Ended"
    /\ \E w \in Pos :
           /\ hand[w] = 0
           /\ actionIndex' = w
           /\ multiple' = Raise(multiple,
                IF w = landlordPlayer
                THEN IF \A f \in Farmers : playCount[f] = 0 THEN {"spring"} ELSE {}
                ELSE IF playCount[landlordPlayer] = 1 THEN {"springReverse"} ELSE {})
    /\ UNCHANGED <<landlordPlayer, pstate, bidVars, handVars, dblVars, infoVars,
                   isTrusteeship, cs>>

\* room_exit has returned: skynet.exit ends the service and all its coroutines.
RoomExit ==
    /\ Due("Exited")
    /\ roomState' = "Exited"
    /\ cs' = Free
    /\ UNCHANGED <<actionIndex, landlordPlayer, pstate, bidVars, handVars, dblVars,
                   infoVars, multiple, isTrusteeship>>

-----------------------------------------------------------------------------
(***************************************************************************)
(* Client requests and timer callbacks: everything that has to enter cs.   *)
(***************************************************************************)

CanEnter == cs = Free /\ roomState # "Exited"

\* Mutant of TimerCanEnter: timer callbacks do not go through cs.
TimerUnlocked == roomState # "Exited"

\* timer.create as replaced in main.lua, lines 8-22
TimerCanEnter == cs = Free /\ roomState # "Exited"

\* Player:trusteeshipAction for the current state. The robot's choice of cards
\* (external) is any legal one.
TrusteeshipAction(p) ==
    \/ CallLandlord(p, "NotCall")
    \/ RobLandlord(p, "NotRob")
    \/ pstate[p] = "Doubleing" /\ ApplyDouble(p, "plain") /\ UNCHANGED cs
    \/ pstate[p] = "DoubleMax" /\ ApplyDoubleMax(p, "plain") /\ UNCHANGED cs
    \/ \E n \in 1 .. HandSize + BottomSize, effect \in BOOLEAN : PlayCards(p, n, effect)
    \/ Pass(p)

\* Player:SetTrusteeship, with the action it takes at once when a turn is open
SetTrusteeship(p, on) ==
    /\ isTrusteeship[p] # on
    /\ isTrusteeship' = [isTrusteeship EXCEPT ![p] = on]
    /\ IF on /\ pstate[p] \in ActionStates
       THEN TrusteeshipAction(p)
       ELSE UNCHANGED <<roomVars, bidVars, handVars, dblVars, infoVars, multiple,
                        cs, pending>>

ReqBid(p) ==
    /\ CanEnter
    /\ \/ \E a \in {"CallLandlord", "NotCall"} : CallLandlord(p, a)
       \/ \E a \in {"RobLandlord", "NotRob"} : RobLandlord(p, a)
       \/ ForceRobLandlord(p)
    /\ UNCHANGED isTrusteeship

\* Player:Double and Player:DoubleMax as requested by the client. Only people pay;
\* their agent is asked before player.state is looked at.
ReqDouble(p) ==
    /\ CanEnter
    /\ \/ /\ pstate[p] = "Doubleing"
          /\ \/ ApplyDouble(p, "plain")
             \/ p \in Doublers \ Users /\ ApplyDouble(p, "super")
          /\ UNCHANGED <<cs, isTrusteeship>>
       \/ /\ pstate[p] = "DoubleMax"
          /\ \/ ApplyDoubleMax(p, "plain")
             \/ p \in Doublers \ Users /\ ApplyDoubleMax(p, "max")
          /\ UNCHANGED <<cs, isTrusteeship>>
       \/ p \in Doublers \cap Users /\ Suspend("doubleQuery", p)
       \/ p \in Doublers \cap Users /\ Suspend("maxQuery", p)

ReqPlay(p) ==
    /\ CanEnter
    /\ \/ \E n \in 1 .. HandSize + BottomSize, effect \in BOOLEAN : PlayCards(p, n, effect)
       \/ Pass(p)
    /\ UNCHANGED isTrusteeship

ReqTrusteeship(p) == CanEnter /\ p \in Users /\ \E on \in BOOLEAN : SetTrusteeship(p, on)

\* Player:ShowCard
ReqShowCard(p) ==
    /\ CanEnter
    /\ p \in Showers
    /\ ~isShowcard[p]
    /\ isShowcard' = [isShowcard EXCEPT ![p] = TRUE]
    /\ multiple' = IF roomState \in {"DealCard", "CallLandlord", "RobLandlord"}
                   THEN Raise(multiple, {"showCard"}) ELSE multiple
    /\ UNCHANGED <<roomVars, bidVars, handVars, dblVars, skillState, bottomSeen,
                   isTrusteeship, cs, pending>>

\* Player:BottomCardInfo, EmoticonSend and CardRecordInfo of a person
ReqInfo(p) ==
    /\ CanEnter
    /\ p \in Users
    /\ \/ bottomSeen[p] = 0 /\ Suspend("bottom", p)
       \/ Suspend("other", p)

BottomReplied ==
    /\ cs.at = "bottom"
    /\ bottomSeen' = [bottomSeen EXCEPT ![cs.who] = dealCardCount]
    /\ cs' = Free
    /\ UNCHANGED <<roomVars, bidVars, handVars, dblVars, isShowcard, skillState,
                   multiple, isTrusteeship, pending>>

InfoFailed == cs.at \in {"bottom", "other"} /\ GiveUp

\* A tick of the first two seconds of a turn clock (Player:setActionState)
Tick(p) ==
    /\ TimerCanEnter
    /\ isTrusteeship[p]
    /\ TrusteeshipAction(p)
    /\ UNCHANGED isTrusteeship

\* A turn clock runs out: trusteeship, except in the doubling phases. A clock may
\* outlive its turn (module TurnTimer), so trusteeship can hit a waiting player.
ClockEnd(p) ==
    /\ TimerCanEnter
    /\ \/ SetTrusteeship(p, TRUE)
       \/ /\ pstate[p] \in {"Doubleing", "DoubleMax"}
          /\ TrusteeshipAction(p)
          /\ UNCHANGED isTrusteeship

CsResume ==
    \/ LandlordDelayOver \/ LandlordWaitOver
    \/ DoubleQueried \/ MaxQueried \/ AgentRemovesItem \/ DoubleReplied \/ MaxReplied
    \/ EffectOver \/ NextTurn
    \/ BottomReplied \/ InfoFailed

DelayedStep ==
    DealCardWaitOver \/ DoubleingOver \/ DoubleMaxOver \/ GameOver \/ RoomExit

Request(p) ==
    ReqBid(p) \/ ReqDouble(p) \/ ReqPlay(p) \/ ReqTrusteeship(p)
    \/ ReqShowCard(p) \/ ReqInfo(p)

Timer(p) == Tick(p) \/ ClockEnd(p)

Terminated == roomState = "Exited" /\ UNCHANGED vars

Next ==
    \/ \E p \in Pos : Request(p) \/ Timer(p)
    \/ roomState # "Exited" /\ CsResume
    \/ DelayedStep
    \/ Terminated

Spec == Init /\ [][Next]_vars

(***************************************************************************)
(* Sleeps end, agents answer, scheduled steps run.  A timer callback waits *)
(* for cs behind a FIFO queue, so it gets in however many requests players *)
(* send (CriticalSection!WaitersEnter): strong fairness.  That a turn has  *)
(* a running clock at all is TurnTimer's liveness property.                *)
(***************************************************************************)
Fairness ==
    /\ WF_vars(CsResume)
    /\ WF_vars(DelayedStep)
    /\ \A p \in Pos : SF_vars(Timer(p))

FairSpec == Spec /\ Fairness

-----------------------------------------------------------------------------
(***************************************************************************)
(* Properties                                                              *)
(***************************************************************************)

TurnOpen   == \E p \in Pos : pstate[p] \in ActionStates
InHandOver == cs.at \in {"landlordDelay", "landlordWait", "effect", "next"}
Scheduled  == \E s \in Delayed : pending[s] > 0

\* At every moment exactly one thing carries the game on: an open turn, a sleep
\* between two turns inside cs, or one step scheduled outside cs. Nothing is lost
\* (the room would hang) and no two run side by side (the barriers of the doubling
\* phases and the timeouts run outside the lock).
ExactlyOneMover ==
    roomState # "Exited" =>
        /\ TurnOpen \/ InHandOver \/ Scheduled
        /\ ~(TurnOpen /\ InHandOver) /\ ~(TurnOpen /\ Scheduled)
        /\ ~(InHandOver /\ Scheduled)
        /\ \A s, t \in Delayed : pending[s] > 0 /\ pending[t] > 0 => s = t
        /\ \A s \in Delayed : pending[s] <= 1

\* A player's state is never that of another phase, and outside the doubling
\* phases only one player has the turn.
TurnsFollowPhase ==
    /\ \A p \in Pos : pstate[p] \in ActionStates => pstate[p] = roomState
    /\ \A p, q \in Pos :
           /\ pstate[p] \in {"CallLandlord", "RobLandlord", "Playing"}
           /\ pstate[q] = pstate[p]
           => p = q

\* Room.actionEnd, line 284: "RobLandlord error!" is never logged. While players
\* are asked to rob, somebody holds a bid.
NoRobError ==
    roomState = "RobLandlord" => \E p \in Pos : lastAction[p] \in Bids

\* The landlord is whoever made the last bid of the deal, a player who forced it by
\* skill, or, when everybody passed the last deal, the first one who was asked.
HighestBidderWins ==
    [][ landlordPlayer' # landlordPlayer =>
          \/ topBidder' # 0 /\ landlordPlayer' = topBidder'
          \/ skillState[landlordPlayer'] /\ cs'.at = "landlordDelay"
          \/ /\ dealCardCount = MaxDeal
             /\ \A p \in Pos : lastAction'[p] = "NotCall"
             /\ landlordPlayer' = NextPos(actionIndex) ]_vars

\* The landlord is set once in a game and gets the bottom cards once; the bottom
\* cards' factor is applied once. Hands nobody has played from are complete.
BottomCardsOnce ==
    /\ multiple["bottomCard"] =
           IF landlordPlayer = 0 \/ cs.at = "landlordDelay" THEN 0 ELSE 1
    /\ \A p \in Pos : playCount[p] = 0 =>
           hand[p] = HandSize + IF p = landlordPlayer THEN BottomSize ELSE 0

\* A person pays for a doubling exactly when it takes effect, although the room
\* waits for the agent between the check and the assignment, and does not check
\* again (PlayerAction.lua line 168). Only a hero's skill may pay instead.
PaidIffDoubled ==
    \A p \in Users :
        /\ <<p, "super">> \in spent <=>
               doubled[p] = "super" \/ cs = Held("doubleReply", p)
        /\ <<p, "max">> \in spent =>
               maxed[p] = "max" \/ cs = Held("maxReply", p)
        /\ maxed[p] = "max" =>
               <<p, "max">> \in spent \/ (skillState[p] /\ Skill[p] = "freeMax")

\* The comment of line 168, "no need to check, the timers are in the queue": while
\* Double or DoubleMax waits for removeItem its player's turn is still open.
TurnKeptWhilePaying ==
    /\ cs.at \in {"doubleRemove", "doubleReply"} => pstate[cs.who] = "Doubleing"
    /\ cs.at \in {"maxRemove", "maxReply"} => pstate[cs.who] = "DoubleMax"

\* The phases that follow a barrier find every decision made.
BarriersComplete ==
    /\ roomState \in {"DoubleMax", "Playing", "Ended"} =>
           \A p \in Pos : doubled[p] # "nil"
    /\ roomState \in {"Playing", "Ended"} => \A p \in Pos : maxed[p] # "nil"

\* A player who may pass answers somebody else's cards (PlayCard, line 305, would
\* index a nil lastPlayCardObj otherwise).
PassHasTarget ==
    \A p \in Pos : pstate[p] = "Playing" /\ playCardState[p] = "Normal" =>
        lastPlay \notin {0, p}

\* A peek at the bottom cards, paid for while other handlers wait, is never one at
\* the cards of an earlier deal; the factor for shown hands counts the hands shown
\* in this deal.
InfoOfThisDeal ==
    /\ \A p \in Pos : bottomSeen[p] \in {0, dealCardCount}
    /\ roomState \in {"DealCard", "CallLandlord", "RobLandlord"} =>
           multiple["showCard"] = Cardinality({p \in Pos : isShowcard[p]})

\* The game is over for one player only, who had the last turn, and a spring means
\* that the farmers still hold every card they were dealt.
OneWinner ==
    /\ \A p \in Pos : hand[p] = 0 => p = actionIndex
    /\ roomState \in {"Ended", "Exited"} => hand[actionIndex] = 0
    /\ multiple["spring"] > 0 => \A f \in Farmers : hand[f] = HandSize

\* The phase the players see.
PhaseOf == CASE roomState \in {"DealCard", "CallLandlord", "RobLandlord"} -> "bidding"
             [] roomState \in {"Doubleing", "DoubleMax"} -> "doubling"
             [] roomState = "Playing" -> "playing"
             [] OTHER -> "over"

Game == INSTANCE LandlordGame
        WITH phase <- PhaseOf, deals <- dealCardCount, landlord <- landlordPlayer,
             turn <- IF PhaseOf \in {"playing", "over"} THEN actionIndex ELSE 0

\* The room, with its lock, its timers and the steps outside the lock, plays the
\* game of LandlordGame.
PlaysTheGame == Game!GameSpec

\* Whatever the players do or leave undone, the room settles and exits.
RoomCloses == <>(roomState = "Exited")

-----------------------------------------------------------------------------
(***************************************************************************)
(* The inductive invariant: phase by phase, who may move and what is       *)
(* scheduled.                                                              *)
(***************************************************************************)

Quiet   == \A s \in Delayed : pending[s] = 0
Only(s) == \A t \in Delayed : pending[t] = IF t = s THEN 1 ELSE 0

AllWaiting   == \A p \in Pos : pstate[p] = "Waiting"
TurnOf(q, s) == \A p \in Pos : pstate[p] = IF p = q THEN s ELSE "Waiting"
Undecided(f) == \A p \in Pos : f[p] = "nil"

Electing == cs.at \in {"landlordDelay", "landlordWait"}

DealInv ==
    roomState = "DealCard" =>
        /\ landlordPlayer = 0
        /\ Only("CallLandlord")
        /\ \A p \in Pos : pstate[p] = "DealCard"

BidInv ==
    roomState \in {"CallLandlord", "RobLandlord"} =>
        /\ Quiet
        /\ Electing => landlordPlayer = cs.who /\ AllWaiting
        /\ ~Electing => landlordPlayer = 0 /\ TurnOf(actionIndex, roomState)

DoubleInv ==
    /\ roomState \in {"DealCard", "CallLandlord", "RobLandlord"} =>
           Undecided(doubled) /\ Undecided(maxed)
    /\ roomState = "Doubleing" =>
           /\ Undecided(maxed)
           /\ \A p \in Pos : pstate[p] = IF doubled[p] = "nil" THEN "Doubleing" ELSE "Waiting"
           /\ IF AllDecided(doubled) THEN Only("DoubleMax") ELSE Quiet
    /\ roomState = "DoubleMax" =>
           /\ AllDecided(doubled)
           /\ \A p \in Pos : pstate[p] = IF maxed[p] = "nil" THEN "DoubleMax" ELSE "Waiting"
           /\ IF AllDecided(maxed) THEN Only("Playing") ELSE Quiet
    /\ roomState \in {"Playing", "Ended", "Exited"} =>
           AllDecided(doubled) /\ AllDecided(maxed)

PlayInv ==
    /\ roomState = "Playing" =>
           IF cs.at \in {"effect", "next"}
           THEN AllWaiting /\ Quiet /\ cs.who = actionIndex
           ELSE IF hand[actionIndex] = 0
           THEN AllWaiting /\ Only("Ended")
           ELSE TurnOf(actionIndex, "Playing") /\ Quiet
    /\ roomState = "Ended" => AllWaiting /\ Only("Exited")
    /\ roomState = "Exited" => AllWaiting /\ Quiet
    /\ roomState \in {"Ended", "Exited"} => hand[actionIndex] = 0
    /\ roomState \in {"Playing", "Ended", "Exited"} =>
           \A p \in Pos : p # actionIndex => hand[p] > 0

HandInv ==
    /\ landlordPlayer = 0 => \A p \in Pos : hand[p] = HandSize
    /\ roomState \notin {"Playing", "Ended", "Exited"} => \A p \in Pos : hand[p] > 0
    /\ roomState \notin {"DealCard", "CallLandlord", "RobLandlord"} => landlordPlayer # 0

CsInv ==
    /\ cs.at = "free" => cs = Free
    /\ cs.at # "free" => cs.who \in Pos
    /\ Electing => roomState \in {"CallLandlord", "RobLandlord"}
    /\ cs.at \in {"effect", "next"} => roomState = "Playing"
    /\ cs.at = "next" => hand[actionIndex] > 0
    /\ cs.at \in {"doubleRemove", "doubleReply"} =>
           roomState = "Doubleing" /\ doubled[cs.who] = "nil"
    /\ cs.at \in {"maxRemove", "maxReply"} =>
           roomState = "DoubleMax" /\ maxed[cs.who] = "nil"

PhaseInv == DealInv /\ BidInv /\ DoubleInv /\ PlayInv /\ HandInv /\ CsInv

(***************************************************************************)
(* What the phases leave out, and the properties of the deal and of the    *)
(* winner need: who has been asked for a bid, and when a spring counts.    *)
(***************************************************************************)

Bidding(s) == roomState = s /\ ~Electing

\* Players are asked in the order of their seats. While they are asked to call, the
\* player who is asked has not answered, and the others have passed or were not asked
\* yet. While they are asked to rob, the highest bidder is the last of the other two who
\* holds a bid, the one before the player who is asked being the later one.
BidOrder ==
    LET asked  == actionIndex
        after  == NextPos(actionIndex)
        before == PrevPos(actionIndex)
    IN  /\ roomState = "DealCard" => \A p \in Pos : lastAction[p] = "nil"
        /\ Bidding("CallLandlord") =>
               /\ lastAction[asked] = "nil"
               /\ \A p \in Pos : lastAction[p] \in {"nil", "NotCall"}
               /\ lastAction[before] = "nil" => lastAction[after] = "nil"
        /\ Bidding("RobLandlord") =>
               /\ topBidder = IF lastAction[before] \in Bids THEN before ELSE after
               /\ lastAction[topBidder] \in Bids

\* A spring is counted when the game is over, and the farmers have played nothing.
SpringInv ==
    multiple["spring"] > 0 =>
        roomState \in {"Ended", "Exited"} /\ \A f \in Farmers : playCount[f] = 0

\* While the answer to the removal of the dearer item is under way, the item is gone.
\* (PaidIffDoubled says it of the other item only: the hero's skill cannot pay for that.)
TakenInv == cs.at = "maxReply" => <<cs.who, "max">> \in spent

DealingInv == BidOrder /\ SpringInv /\ NoRobError /\ BottomCardsOnce /\ InfoOfThisDeal
PlayerInv  == PassHasTarget /\ PaidIffDoubled /\ TakenInv

=============================================================================
