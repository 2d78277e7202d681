--------------------------- MODULE DdzRoom_proofs ---------------------------
(***************************************************************************)
(* Proofs about the landlord room for every hand size, number of deals,    *)
(* choice of skills and choice of people and robots.                       *)
(***************************************************************************)
EXTENDS DdzRoom, FiniteSetTheorems, TLAPS

IndInv == TypeOK /\ PhaseInv

\* NextPos and PrevPos stay at the table.
LEMMA NextPosType == \A p \in Pos : NextPos(p) \in Pos /\ PrevPos(p) \in Pos
  BY DEF Pos, NextPos, PrevPos

\* The search for the next bidder ends at one of the three seats.
LEMMA NextBidderType ==
    ASSUME NEW p \in Pos, NEW la
    PROVE  NextBidder(p, la) \in Pos
  BY NextPosType DEF NextBidder

\* Who is asked for a bid has the only open turn; no landlord is set, nothing is
\* scheduled and no election is under way.
LEMMA BidTurn ==
    ASSUME IndInv, NEW p \in Pos, pstate[p] \in {"CallLandlord", "RobLandlord"}
    PROVE  /\ roomState = pstate[p] /\ p = actionIndex
           /\ landlordPlayer = 0 /\ Quiet /\ ~Electing
           /\ \A q \in Pos : q # p => pstate[q] = "Waiting"
           /\ Undecided(doubled) /\ Undecided(maxed)
           /\ \A q \in Pos : hand[q] = HandSize
  <1>1. roomState \in {"CallLandlord", "RobLandlord"} /\ ~Electing
    BY DEF IndInv, PhaseInv, DealInv, BidInv, DoubleInv, PlayInv, TypeOK, RoomStates,
           AllWaiting, TurnOf
  <1>2. landlordPlayer = 0 /\ Quiet /\ TurnOf(actionIndex, roomState)
    BY <1>1 DEF IndInv, PhaseInv, BidInv
  <1>3. QED
    BY <1>1, <1>2 DEF IndInv, PhaseInv, DoubleInv, HandInv, TurnOf

\* What a bid leaves alone whichever way it ends.
BidRest == UNCHANGED <<playCount, playCardState, lastPlay, dblVars>>

\* A bid ends in one of three ways: a turn for q, the election of q, a new deal.
LEMMA BidEnds ==
    ASSUME IndInv, NEW p \in Pos, NEW a,
           CallLandlord(p, a) \/ RobLandlord(p, a)
    PROVE  /\ pstate[p] \in {"CallLandlord", "RobLandlord"}
           /\ a \in {"CallLandlord", "NotCall", "RobLandlord", "NotRob"}
           /\ BidRest
           /\ \/ \E q \in Pos, s \in {"CallLandlord", "RobLandlord"} : Turn(s, q, p, a)
              \/ \E q, i \in Pos : Elect(q, i, p, a)
              \/ dealCardCount < MaxDeal /\ Redeal(p)
  <1>1. CASE CallLandlord(p, a)
    <2>1. /\ pstate[p] = "CallLandlord" /\ a \in {"CallLandlord", "NotCall"}
          /\ BidRest
          /\ \/ Turn(NextPhase(a), NextPos(p), p, a)
             \/ Elect(p, p, p, a)
             \/ Elect(NextPos(p), p, p, a)
             \/ ~LastDeal /\ Redeal(p)
      BY <1>1 DEF CallLandlord, BidRest
    <2>2. NextPhase(a) \in {"CallLandlord", "RobLandlord"}
      BY DEF NextPhase
    <2>3. ~LastDeal => dealCardCount < MaxDeal
      BY RoomAssumption DEF LastDeal, IndInv, TypeOK
    <2>4. QED
      BY <2>1, <2>2, <2>3, NextPosType
  <1>2. CASE RobLandlord(p, a)
    <2> DEFINE la  == [lastAction EXCEPT ![p] = a]
               q   == NextBidder(p, la)
               arr == {r \in Pos : la[r] \in Bids}
               one == CHOOSE r \in arr : TRUE
    <2>1. /\ pstate[p] = "RobLandlord" /\ a \in {"RobLandlord", "NotRob"}
          /\ BidRest
          /\ \/ Turn("RobLandlord", NextPos(p), p, a)
             \/ Elect(p, p, p, a)
             \/ Elect(p, PrevPos(q), p, a)
             \/ Cardinality(arr) = 1 /\ Elect(one, PrevPos(q), p, a)
             \/ Turn("RobLandlord", q, p, a)
      BY <1>2 DEF RobLandlord, RobEnd, BidRest
    <2>2. q \in Pos /\ PrevPos(q) \in Pos
      BY NextPosType, NextBidderType
    <2>3. Cardinality(arr) = 1 => one \in Pos
      <3>1. Cardinality(arr) = 1 => arr # {}
        BY FS_EmptySet
      <3>2. arr # {} => one \in arr
        OBVIOUS
      <3>3. QED
        BY <3>1, <3>2
    <2> HIDE DEF q, arr, one
    <2>4. QED
      BY <2>1, <2>2, <2>3, NextPosType
  <1>3. QED
    BY <1>1, <1>2

\* A turn for q keeps the invariant.
LEMMA TurnPreserves ==
    ASSUME IndInv, cs = Free, isTrusteeship' \in [Pos -> BOOLEAN],
           NEW p \in Pos, pstate[p] \in {"CallLandlord", "RobLandlord"},
           NEW a \in {"CallLandlord", "NotCall", "RobLandlord", "NotRob"},
           NEW q \in Pos, NEW s \in {"CallLandlord", "RobLandlord"},
           Turn(s, q, p, a), BidRest
    PROVE  IndInv'
  <1> USE DEF IndInv, PhaseInv
  <1>1. TypeOK'
    BY DEF TypeOK, Turn, Bid, AddAction, BidRest, dblVars, infoVars, RoomStates,
           PlayerStates, ActionStates, Actions, Pos
  <1>2. /\ landlordPlayer' = 0 /\ Quiet' /\ cs' = cs
        /\ TurnOf(q, s)' /\ actionIndex' = q /\ roomState' = s
        /\ Undecided(doubled)' /\ Undecided(maxed)'
        /\ \A r \in Pos : hand'[r] = HandSize
    BY BidTurn DEF Turn, TypeOK, BidRest, dblVars, TurnOf, Quiet, Undecided
  <1>3. DealInv' /\ BidInv' /\ DoubleInv' /\ PlayInv'
    BY <1>2 DEF DealInv, BidInv, DoubleInv, PlayInv, Electing, Free, TurnOf
  <1>4. HandInv' /\ CsInv'
    BY <1>2, RoomAssumption DEF HandInv, CsInv, Free, Electing
  <1>5. QED
    BY <1>1, <1>3, <1>4

\* The election of q keeps the invariant.
LEMMA ElectPreserves ==
    ASSUME IndInv, cs = Free, isTrusteeship' \in [Pos -> BOOLEAN],
           NEW p \in Pos, pstate[p] \in {"CallLandlord", "RobLandlord"},
           NEW a \in {"CallLandlord", "NotCall", "RobLandlord", "NotRob"},
           NEW q \in Pos, NEW i \in Pos,
           Elect(q, i, p, a), BidRest
    PROVE  IndInv'
  <1> USE DEF IndInv, PhaseInv
  <1>0. /\ roomState \in {"CallLandlord", "RobLandlord"} /\ landlordPlayer = 0 /\ Quiet
        /\ \A r \in Pos : r # p => pstate[r] = "Waiting"
        /\ Undecided(doubled) /\ Undecided(maxed)
        /\ \A r \in Pos : hand[r] = HandSize
    BY BidTurn
  <1>1. TypeOK'
    BY <1>0, RoomAssumption
       DEF TypeOK, Elect, Bid, AddAction, BidRest, dblVars, infoVars, RoomStates, Raise,
           PlayerStates, ActionStates, Actions, Pos, Held, Points, Keys
  <1>2. /\ landlordPlayer' = q /\ Quiet' /\ cs' = Held("landlordWait", q)
        /\ AllWaiting' /\ roomState' \in {"CallLandlord", "RobLandlord"}
        /\ Undecided(doubled)' /\ Undecided(maxed)'
        /\ \A r \in Pos : hand'[r] > 0
    BY <1>0, RoomAssumption
       DEF Elect, TypeOK, BidRest, dblVars, AllWaiting, Quiet, Undecided
  <1>3. DealInv' /\ BidInv' /\ DoubleInv' /\ PlayInv'
    BY <1>2 DEF DealInv, BidInv, DoubleInv, PlayInv, Electing, Held
  <1>4. HandInv' /\ CsInv'
    BY <1>2 DEF HandInv, CsInv, Held, Electing, Pos
  <1>5. QED
    BY <1>1, <1>3, <1>4

\* A new deal keeps the invariant.
LEMMA RedealPreserves ==
    ASSUME IndInv, cs = Free, isTrusteeship' \in [Pos -> BOOLEAN],
           NEW p \in Pos, pstate[p] \in {"CallLandlord", "RobLandlord"},
           dealCardCount < MaxDeal, Redeal(p), BidRest
    PROVE  IndInv'
  <1> USE DEF IndInv, PhaseInv
  <1>0. /\ landlordPlayer = 0 /\ Quiet /\ Undecided(doubled) /\ Undecided(maxed)
    BY BidTurn
  <1>1. TypeOK'
    BY RoomAssumption
       DEF TypeOK, Redeal, FreshDeal, SkillRoll, Schedule, BidRest, dblVars, RoomStates,
           PlayerStates, ActionStates, Actions, Pos, Keys, Delayed
  <1>2. /\ landlordPlayer' = 0 /\ Only("CallLandlord")' /\ cs' = cs
        /\ roomState' = "DealCard" /\ pstate' = [r \in Pos |-> "DealCard"]
        /\ Undecided(doubled)' /\ Undecided(maxed)'
        /\ \A r \in Pos : hand'[r] = HandSize
    BY <1>0 DEF Redeal, FreshDeal, Schedule, TypeOK, BidRest, dblVars, Quiet, Only, Undecided,
                Delayed
  <1>3. DealInv' /\ BidInv' /\ DoubleInv' /\ PlayInv'
    BY <1>2 DEF DealInv, BidInv, DoubleInv, PlayInv
  <1>4. HandInv' /\ CsInv'
    BY <1>2, RoomAssumption DEF HandInv, CsInv, Free, Electing
  <1>5. QED
    BY <1>1, <1>3, <1>4

\* Every bid keeps the invariant.
LEMMA BidPreserves ==
    ASSUME IndInv, cs = Free, isTrusteeship' \in [Pos -> BOOLEAN],
           NEW p \in Pos, NEW a, CallLandlord(p, a) \/ RobLandlord(p, a)
    PROVE  IndInv'
  BY BidEnds, TurnPreserves, ElectPreserves, RedealPreserves

-----------------------------------------------------------------------------
\* A forced landlord keeps the invariant: the turn that was open is closed.
LEMMA ForcePreserves ==
    ASSUME IndInv, cs = Free, isTrusteeship' \in [Pos -> BOOLEAN],
           NEW p \in Pos, ForceRobLandlord(p)
    PROVE  IndInv'
  <1> USE DEF IndInv, PhaseInv
  <1>1. TypeOK'
    BY RoomAssumption
       DEF TypeOK, ForceRobLandlord, bidVars, dblVars, infoVars, HandInv, Held, Points,
           PlayerStates, Pos
  <1>2. /\ landlordPlayer' = p /\ Quiet' /\ cs' = Held("landlordDelay", p)
        /\ AllWaiting' /\ roomState' \in {"CallLandlord", "RobLandlord"}
        /\ Undecided(doubled)' /\ Undecided(maxed)'
        /\ \A r \in Pos : hand'[r] > 0
    BY RoomAssumption
       DEF ForceRobLandlord, TypeOK, dblVars, AllWaiting, Quiet, Undecided, BidInv,
           DoubleInv, HandInv
  <1>3. DealInv' /\ BidInv' /\ DoubleInv' /\ PlayInv'
    BY <1>2 DEF DealInv, BidInv, DoubleInv, PlayInv, Electing, Held
  <1>4. HandInv' /\ CsInv'
    BY <1>2 DEF HandInv, CsInv, Held, Electing, Pos
  <1>5. QED
    BY <1>1, <1>3, <1>4

\* The two sleeps of setLandlord.
LEMMA LandlordPreserves ==
    ASSUME IndInv, LandlordDelayOver \/ LandlordWaitOver
    PROVE  IndInv'
  <1> USE DEF IndInv, PhaseInv
  <1>1. CASE LandlordDelayOver
    <2>1. TypeOK'
      BY <1>1 DEF LandlordDelayOver, TypeOK, roomVars, bidVars, handVars, dblVars, infoVars,
                  Raise, Held, Points, Keys, CsInv, Pos
    <2>2. PhaseInv'
      BY <1>1 DEF LandlordDelayOver, TypeOK, roomVars, bidVars, handVars, dblVars, DealInv,
                  BidInv, DoubleInv, PlayInv, HandInv, CsInv, Electing, Held, Quiet,
                  AllWaiting, Undecided
    <2>3. QED
      BY <2>1, <2>2
  <1>2. CASE LandlordWaitOver
    <2>1. TypeOK'
      BY <1>2 DEF LandlordWaitOver, TypeOK, handVars, dblVars, infoVars, RoomStates,
                  PlayerStates, ActionStates, Free, Points, CsInv, Pos
    <2>2. /\ roomState' = "Doubleing" /\ cs' = Free /\ Quiet' /\ landlordPlayer' # 0
          /\ pstate' = [q \in Pos |-> "Doubleing"]
          /\ Undecided(doubled)' /\ Undecided(maxed)'
          /\ \A r \in Pos : hand'[r] > 0
      BY <1>2 DEF LandlordWaitOver, handVars, dblVars, BidInv, DoubleInv, HandInv, CsInv,
                  Electing, Quiet, Undecided, Pos, TypeOK
    <2>3. DealInv' /\ BidInv' /\ DoubleInv' /\ PlayInv'
      BY <2>2 DEF DealInv, BidInv, DoubleInv, PlayInv, AllDecided, Undecided, Pos
    <2>4. HandInv' /\ CsInv'
      BY <2>2 DEF HandInv, CsInv, Free, Electing
    <2>5. QED
      BY <2>1, <2>3, <2>4
  <1>3. QED
    BY <1>1, <1>2

-----------------------------------------------------------------------------
\* A decision of the first doubling phase, taken at once or after paying.
LEMMA DoublePreserves ==
    ASSUME IndInv, isTrusteeship' \in [Pos -> BOOLEAN],
           NEW p \in Pos, pstate[p] = "Doubleing", NEW kind \in {"plain", "super"},
           cs' = Free, ~Electing, ApplyDouble(p, kind)
    PROVE  IndInv'
  <1> USE DEF IndInv, PhaseInv
  <1>0. /\ roomState = "Doubleing" /\ doubled[p] = "nil" /\ Undecided(maxed)
        /\ Quiet /\ landlordPlayer # 0 /\ \A r \in Pos : hand[r] > 0
        /\ \A r \in Pos : pstate[r] = IF doubled[r] = "nil" THEN "Doubleing" ELSE "Waiting"
    BY DEF TypeOK, RoomStates, DealInv, BidInv, DoubleInv, PlayInv, HandInv, TurnOf,
           AllWaiting, AllDecided
  <1>1. TypeOK'
    BY DEF TypeOK, ApplyDouble, AddAction, LeaveTurn, Schedule, handVars, infoVars,
           PlayerStates, Actions, Delayed, Free, Points, Pos
  <1>2. /\ roomState' = "Doubleing" /\ Undecided(maxed)' /\ landlordPlayer' # 0
        /\ \A r \in Pos : hand'[r] > 0
        /\ \A r \in Pos : pstate'[r] = IF doubled'[r] = "nil" THEN "Doubleing" ELSE "Waiting"
    BY <1>0 DEF ApplyDouble, LeaveTurn, Undecided, handVars, TypeOK
  <1>3. IF AllDecided(doubled)' THEN Only("DoubleMax")' ELSE Quiet'
    BY <1>0 DEF ApplyDouble, AllDecided, Schedule, Only, Quiet, Delayed, TypeOK
  <1>4. DealInv' /\ BidInv' /\ DoubleInv' /\ PlayInv'
    BY <1>2, <1>3 DEF DealInv, BidInv, DoubleInv, PlayInv
  <1>5. HandInv' /\ CsInv'
    BY <1>2 DEF HandInv, CsInv, Free, Electing
  <1>6. QED
    BY <1>1, <1>4, <1>5

\* A decision of the second doubling phase.
LEMMA DoubleMaxPreserves ==
    ASSUME IndInv, isTrusteeship' \in [Pos -> BOOLEAN],
           NEW p \in Pos, pstate[p] = "DoubleMax", NEW kind \in {"plain", "max"},
           cs' = Free, ~Electing, ApplyDoubleMax(p, kind)
    PROVE  IndInv'
  <1> USE DEF IndInv, PhaseInv
  <1>0. /\ roomState = "DoubleMax" /\ maxed[p] = "nil" /\ AllDecided(doubled)
        /\ Quiet /\ landlordPlayer # 0 /\ \A r \in Pos : hand[r] > 0
        /\ \A r \in Pos : pstate[r] = IF maxed[r] = "nil" THEN "DoubleMax" ELSE "Waiting"
    BY DEF TypeOK, RoomStates, DealInv, BidInv, DoubleInv, PlayInv, HandInv, TurnOf,
           AllWaiting, AllDecided
  <1>1. TypeOK'
    BY DEF TypeOK, ApplyDoubleMax, AddAction, LeaveTurn, Schedule, handVars, infoVars,
           PlayerStates, Actions, Delayed, Free, Points, Pos
  <1>2. /\ roomState' = "DoubleMax" /\ AllDecided(doubled)' /\ landlordPlayer' # 0
        /\ \A r \in Pos : hand'[r] > 0
        /\ \A r \in Pos : pstate'[r] = IF maxed'[r] = "nil" THEN "DoubleMax" ELSE "Waiting"
    BY <1>0 DEF ApplyDoubleMax, LeaveTurn, AllDecided, handVars, TypeOK
  <1>3. IF AllDecided(maxed)' THEN Only("Playing")' ELSE Quiet'
    BY <1>0 DEF ApplyDoubleMax, AllDecided, Schedule, Only, Quiet, Delayed, TypeOK
  <1>4. DealInv' /\ BidInv' /\ DoubleInv' /\ PlayInv'
    BY <1>2, <1>3 DEF DealInv, BidInv, DoubleInv, PlayInv
  <1>5. HandInv' /\ CsInv'
    BY <1>2 DEF HandInv, CsInv, Free, Electing
  <1>6. QED
    BY <1>1, <1>4, <1>5

\* Who has an open turn outside the bidding, and what it tells of the room.
LEMMA OpenTurn ==
    ASSUME IndInv, NEW p \in Pos
    PROVE  /\ pstate[p] = "Doubleing" => roomState = "Doubleing" /\ doubled[p] = "nil"
           /\ pstate[p] = "DoubleMax" => roomState = "DoubleMax" /\ maxed[p] = "nil"
           /\ pstate[p] = "Playing" =>
                  /\ roomState = "Playing" /\ p = actionIndex /\ Quiet
                  /\ cs.at \notin {"effect", "next"}
                  /\ \A q \in Pos : hand[q] > 0 /\ (q # p => pstate[q] = "Waiting")
  BY DEF IndInv, PhaseInv, TypeOK, RoomStates, DealInv, BidInv, DoubleInv, PlayInv, TurnOf,
         AllWaiting

\* A step that changes neither the phase nor the decisions nor the hands, and neither
\* begins nor ends a hand-over of the turn.
LEMMA AsidePreserves ==
    ASSUME IndInv, TypeOK', CsInv', ~InHandOver, ~InHandOver',
           UNCHANGED <<roomVars, hand, doubled, maxed, pending>>
    PROVE  IndInv'
  <1>1. /\ roomState' = roomState /\ actionIndex' = actionIndex
        /\ landlordPlayer' = landlordPlayer /\ pstate' = pstate /\ hand' = hand
        /\ doubled' = doubled /\ maxed' = maxed /\ pending' = pending
        /\ ~Electing /\ ~Electing'
        /\ cs.at \notin {"effect", "next"} /\ cs'.at \notin {"effect", "next"}
    BY DEF roomVars, Electing, InHandOver
  <1>2. DealInv' /\ BidInv' /\ DoubleInv'
    BY <1>1 DEF IndInv, PhaseInv, DealInv, BidInv, DoubleInv, Only, Quiet, TurnOf, Undecided,
                AllDecided
  <1>3. PlayInv' /\ HandInv'
    BY <1>1 DEF IndInv, PhaseInv, PlayInv, HandInv, Only, Quiet, TurnOf, AllWaiting
  <1>4. QED
    BY <1>2, <1>3 DEF IndInv, PhaseInv

\* Nothing but cs changes: a request is suspended, or gives up.
LEMMA SuspendPreserves ==
    ASSUME IndInv, cs \in [at : Points, who : Pos] \/ cs = Free, ~InHandOver, NEW p \in Pos,
           NEW at \in {"doubleQuery", "maxQuery", "doubleRemove", "maxRemove", "bottom",
                       "other"},
           at = "doubleRemove" => pstate[p] = "Doubleing",
           at = "maxRemove" => pstate[p] = "DoubleMax",
           Suspend(at, p) \/ GiveUp
    PROVE  IndInv'
  <1>1. TypeOK'
    BY DEF IndInv, TypeOK, Suspend, GiveUp, roomVars, bidVars, handVars, dblVars, infoVars,
           Held, Free, Points, Pos
  <1>2. CsInv' /\ ~InHandOver'
    BY OpenTurn DEF IndInv, PhaseInv, CsInv, Suspend, GiveUp, roomVars, bidVars, handVars,
                    dblVars, Held, Free, InHandOver, Electing
  <1>3. QED
    BY <1>1, <1>2, AsidePreserves DEF Suspend, GiveUp, handVars, dblVars

\* What happens while a Double or DoubleMax that has to be paid for holds cs.
LEMMA PayingPreserves ==
    ASSUME IndInv, DoubleQueried \/ MaxQueried \/ AgentRemovesItem \/ DoubleReplied \/ MaxReplied
    PROVE  IndInv'
  <1>0. /\ cs.who \in Pos /\ ~InHandOver /\ ~Electing /\ cs \in [at : Points, who : Pos]
        /\ isTrusteeship' \in [Pos -> BOOLEAN]
    BY DEF IndInv, PhaseInv, TypeOK, CsInv, InHandOver, Electing, DoubleQueried, MaxQueried,
           AgentRemovesItem, DoubleReplied, MaxReplied, GiveUp, Suspend
  <1>1. CASE GiveUp \/ \E at \in {"doubleRemove", "maxRemove"} :
                 /\ Suspend(at, cs.who)
                 /\ at = "doubleRemove" => pstate[cs.who] = "Doubleing"
                 /\ at = "maxRemove" => pstate[cs.who] = "DoubleMax"
    BY <1>0, <1>1, SuspendPreserves
  <1>2. CASE /\ cs.at = "maxQuery" /\ pstate[cs.who] = "DoubleMax"
             /\ ApplyDoubleMax(cs.who, "max") /\ cs' = Free
    BY <1>0, <1>2, DoubleMaxPreserves
  <1>3. CASE /\ cs.at \in {"doubleRemove", "maxRemove"}
             /\ spent' = spent \cup {<<cs.who, IF cs.at = "doubleRemove" THEN "super" ELSE "max">>}
             /\ cs' = Held(IF cs.at = "doubleRemove" THEN "doubleReply" ELSE "maxReply", cs.who)
             /\ UNCHANGED <<roomVars, bidVars, handVars, doubled, maxed, infoVars,
                            multiple, isTrusteeship, pending>>
    <2>1. TypeOK'
      BY <1>0, <1>3 DEF IndInv, TypeOK, roomVars, bidVars, handVars, infoVars, Held, Points, Pos
    <2>2. CsInv' /\ ~InHandOver'
      BY <1>0, <1>3 DEF IndInv, PhaseInv, CsInv, roomVars, Held, Free, InHandOver, Electing
    <2>3. QED
      BY <1>0, <1>3, <2>1, <2>2, AsidePreserves DEF handVars
  <1>4. CASE DoubleReplied
    <2>1. pstate[cs.who] = "Doubleing"
      BY <1>0, <1>4 DEF DoubleReplied, IndInv, PhaseInv, CsInv, DoubleInv
    <2>2. QED
      BY <1>0, <1>4, <2>1, DoublePreserves DEF DoubleReplied
  <1>5. CASE MaxReplied
    <2>1. pstate[cs.who] = "DoubleMax"
      BY <1>0, <1>5 DEF MaxReplied, IndInv, PhaseInv, CsInv, DoubleInv
    <2>2. QED
      BY <1>0, <1>5, <2>1, DoubleMaxPreserves DEF MaxReplied
  <1>6. QED
    BY <1>1, <1>2, <1>3, <1>4, <1>5 DEF DoubleQueried, MaxQueried, AgentRemovesItem

-----------------------------------------------------------------------------
\* The end of a turn in Playing: either a hand-over follows or the game is over.
LEMMA TurnEndPreserves ==
    ASSUME IndInv, TypeOK', roomState = "Playing", roomState' = roomState, Quiet,
           landlordPlayer' = landlordPlayer, doubled' = doubled, maxed' = maxed,
           NEW p \in Pos, AllWaiting', \A q \in Pos : q # p => hand'[q] > 0,
           \/ TurnEnd(p, hand')
           \/ cs' = Held("effect", p) /\ pending' = pending /\ actionIndex' = p
    PROVE  IndInv'
  <1> USE DEF IndInv, PhaseInv
  <1>1. roomState' = "Playing" /\ actionIndex' = p /\ landlordPlayer' # 0
    BY DEF TurnEnd, HandInv
  <1>2. IF cs'.at \in {"effect", "next"}
        THEN Quiet' /\ cs'.who = p /\ (cs'.at = "next" => hand'[p] > 0) /\ cs' = Held(cs'.at, p)
        ELSE cs' = Free /\ hand'[p] = 0 /\ Only("Ended")'
    <2>1. CASE cs' = Held("effect", p) /\ pending' = pending
      BY <2>1 DEF Held, Quiet
    <2>2. CASE TurnEnd(p, hand') /\ hand'[p] = 0
      BY <2>2 DEF TurnEnd, Schedule, Free, Quiet, Only, Delayed, TypeOK
    <2>3. CASE TurnEnd(p, hand') /\ hand'[p] # 0
      BY <2>3, RoomAssumption DEF TurnEnd, Held, Quiet, TypeOK
    <2>4. QED
      BY <2>1, <2>2, <2>3
  <1>3. DealInv' /\ BidInv' /\ HandInv'
    BY <1>1 DEF DealInv, BidInv, HandInv
  <1>4. DoubleInv'
    BY <1>1 DEF DoubleInv, AllDecided
  <1>5. PlayInv'
    BY <1>1, <1>2 DEF PlayInv
  <1>6. CsInv'
    BY <1>1, <1>2 DEF CsInv, Free, Held, Electing
  <1>7. QED
    BY <1>3, <1>4, <1>5, <1>6

\* Playing cards, passing, and the end of the effect shown for some cards.
LEMMA PlayPreserves ==
    ASSUME IndInv, isTrusteeship' \in [Pos -> BOOLEAN], cs = Free, NEW p \in Pos,
           \/ \E n \in 1 .. HandSize + BottomSize, effect \in BOOLEAN : PlayCards(p, n, effect)
           \/ Pass(p)
    PROVE  IndInv'
  <1>0. /\ pstate[p] = "Playing" /\ LeaveTurn(p)
        /\ UNCHANGED <<roomState, landlordPlayer, dblVars>>
    BY DEF PlayCards, Pass
  <1>1. /\ roomState = "Playing" /\ p = actionIndex /\ Quiet
        /\ \A q \in Pos : hand[q] > 0 /\ (q # p => pstate[q] = "Waiting")
    BY <1>0, OpenTurn
  <1>2. AllWaiting' /\ doubled' = doubled /\ maxed' = maxed
    BY <1>0, <1>1 DEF LeaveTurn, AllWaiting, IndInv, TypeOK, dblVars
  <1>3. CASE Pass(p)
    <2>1. TypeOK'
      BY <1>3 DEF Pass, IndInv, TypeOK, LeaveTurn, AddAction, TurnEnd, Schedule, handVars,
                  dblVars, infoVars, PlayerStates, Actions, Delayed, Free, Held, Points, Pos
    <2>2. TurnEnd(p, hand') /\ hand' = hand
      BY <1>3 DEF Pass, handVars
    <2>3. QED
      BY <1>0, <1>1, <1>2, <2>1, <2>2, TurnEndPreserves
  <1>4. ASSUME NEW n \in 1 .. HandSize + BottomSize, NEW effect \in BOOLEAN,
               PlayCards(p, n, effect)
        PROVE  IndInv'
    <2>1. hand' = [hand EXCEPT ![p] = @ - n] /\ n \in 1 .. hand[p]
      BY <1>4 DEF PlayCards
    <2>2. \/ TurnEnd(p, hand')
          \/ cs' = Held("effect", p) /\ pending' = pending /\ actionIndex' = p
      BY <1>1, <1>4 DEF PlayCards
    <2>3. TypeOK'
      <3>1. hand' \in [Pos -> 0 .. HandSize + BottomSize]
        BY <2>1, RoomAssumption DEF IndInv, TypeOK
      <3>2. /\ cs' \in [at : Points, who : 0 .. 3] /\ pending' \in [Delayed -> Nat]
            /\ actionIndex' \in Pos
        BY <2>2 DEF IndInv, TypeOK, TurnEnd, Schedule, Delayed, Free, Held, Points, Pos
      <3>3. QED
        BY <1>4, <3>1, <3>2
           DEF PlayCards, IndInv, TypeOK, LeaveTurn, AddAction, dblVars, infoVars,
               PlayerStates, Actions, Pos
    <2>4. \A q \in Pos : q # p => hand'[q] > 0
      BY <1>1, <2>1 DEF IndInv, TypeOK
    <2>5. QED
      BY <1>0, <1>1, <1>2, <2>2, <2>3, <2>4, TurnEndPreserves
  <1>5. QED
    BY <1>3, <1>4

LEMMA EffectPreserves ==
    ASSUME IndInv, EffectOver PROVE IndInv'
  <1>1. /\ roomState = "Playing" /\ cs.who \in Pos /\ AllWaiting /\ Quiet
        /\ cs.who = actionIndex /\ \A q \in Pos : q # cs.who => hand[q] > 0
    BY DEF EffectOver, IndInv, PhaseInv, CsInv, PlayInv
  <1>2. /\ UNCHANGED <<roomState, landlordPlayer, pstate, bidVars, handVars, dblVars,
                       infoVars, multiple, isTrusteeship>>
        /\ TurnEnd(cs.who, hand') /\ hand' = hand
    BY DEF EffectOver, handVars
  <1>3. TypeOK'
    BY <1>1, <1>2 DEF IndInv, TypeOK, TurnEnd, Schedule, bidVars, handVars, dblVars, infoVars,
                      Delayed, Free, Held, Points, Pos
  <1>4. AllWaiting' /\ doubled' = doubled /\ maxed' = maxed
    BY <1>1, <1>2 DEF AllWaiting, dblVars
  <1>5. QED
    BY <1>1, <1>2, <1>3, <1>4, TurnEndPreserves

\* A turn opens in Playing when everybody waits and nothing is scheduled any more.
LEMMA StartTurnPreserves ==
    ASSUME IndInv, NEW q \in Pos, StartTurn(q), AllWaiting, landlordPlayer # 0,
           \A p \in Pos : hand[p] > 0, AllDecided(doubled), AllDecided(maxed),
           Quiet', pending' \in [Delayed -> Nat],
           cs' \in [at : Points, who : 0 .. 3], cs'.at # "free" => cs'.who \in Pos,
           cs'.at = "free" => cs' = Free,
           cs'.at \in {"free", "doubleQuery", "maxQuery", "bottom", "other"}
    PROVE  IndInv'
  <1> USE DEF IndInv, PhaseInv
  <1>1. TypeOK'
    BY DEF StartTurn, TypeOK, PlayStateOf, bidVars, dblVars, infoVars, RoomStates,
           PlayerStates, ActionStates
  <1>2. /\ roomState' = "Playing" /\ actionIndex' = q /\ TurnOf(q, "Playing")'
        /\ landlordPlayer' # 0 /\ AllDecided(doubled)' /\ AllDecided(maxed)'
        /\ \A p \in Pos : hand'[p] > 0
    BY DEF StartTurn, TypeOK, AllWaiting, TurnOf, dblVars, AllDecided
  <1>3. DealInv' /\ BidInv' /\ DoubleInv' /\ PlayInv' /\ HandInv'
    BY <1>2 DEF DealInv, BidInv, DoubleInv, PlayInv, HandInv
  <1>4. CsInv'
    BY <1>2 DEF CsInv, Electing
  <1>5. QED
    BY <1>1, <1>3, <1>4

LEMMA NextTurnPreserves ==
    ASSUME IndInv, NextTurn PROVE IndInv'
  <1>1. /\ roomState = "Playing" /\ AllWaiting /\ Quiet /\ landlordPlayer # 0
        /\ AllDecided(doubled) /\ AllDecided(maxed) /\ actionIndex \in Pos
        /\ \A q \in Pos : hand[q] > 0
    BY DEF NextTurn, IndInv, PhaseInv, TypeOK, CsInv, PlayInv, HandInv, DoubleInv
  <1>2. NextPos(actionIndex) \in Pos
    BY <1>1, NextPosType
  <1>3. /\ StartTurn(NextPos(actionIndex)) /\ cs' = Free /\ Quiet'
        /\ pending' \in [Delayed -> Nat]
    BY <1>1 DEF NextTurn, Quiet, IndInv, TypeOK
  <1>4. QED
    BY <1>1, <1>2, <1>3, StartTurnPreserves DEF Free, Points

-----------------------------------------------------------------------------
\* Each step outside cs is scheduled in one situation only, and nothing else is
\* scheduled then.
LEMMA WhenDue ==
    ASSUME IndInv
    PROVE  /\ \A s \in Delayed : pending[s] > 0 => Only(s)
           /\ pending["CallLandlord"] > 0 => roomState = "DealCard"
           /\ pending["DoubleMax"] > 0 => roomState = "Doubleing" /\ AllDecided(doubled)
           /\ pending["Playing"] > 0 => roomState = "DoubleMax" /\ AllDecided(maxed)
           /\ pending["Ended"] > 0 =>
                  /\ roomState = "Playing" /\ hand[actionIndex] = 0 /\ AllWaiting
                  /\ cs.at \notin {"effect", "next"}
           /\ pending["Exited"] > 0 => roomState = "Ended"
  BY DEF IndInv, PhaseInv, TypeOK, RoomStates, Delayed, Only, Quiet, DealInv, BidInv,
         DoubleInv, PlayInv

\* Running the only scheduled step leaves nothing scheduled.
LEMMA DueClears ==
    ASSUME IndInv, NEW s \in Delayed, Due(s)
    PROVE  Quiet' /\ pending' \in [Delayed -> Nat]
  <1>1. Only(s) /\ pending \in [Delayed -> Nat] /\ pending' = [pending EXCEPT ![s] = @ - 1]
    BY WhenDue DEF Due, IndInv, TypeOK
  <1>2. QED
    BY <1>1 DEF Only, Quiet

LEMMA DealCardWaitPreserves ==
    ASSUME IndInv, DealCardWaitOver PROVE IndInv'
  <1> USE DEF IndInv, PhaseInv
  <1>1. roomState = "DealCard" /\ Quiet' /\ pending' \in [Delayed -> Nat]
    BY WhenDue, DueClears DEF DealCardWaitOver, Due, Delayed
  <1>2. /\ landlordPlayer = 0 /\ Undecided(doubled) /\ Undecided(maxed)
        /\ \A p \in Pos : hand[p] = HandSize
    BY <1>1 DEF DealInv, DoubleInv, HandInv
  <1>3. /\ roomState' = "CallLandlord" /\ landlordPlayer' = 0 /\ cs' = cs
        /\ TurnOf(actionIndex, roomState)' /\ hand' = hand
        /\ doubled' = doubled /\ maxed' = maxed
    BY <1>2 DEF DealCardWaitOver, TurnOf, handVars, dblVars
  <1>4. TypeOK'
    BY <1>1 DEF DealCardWaitOver, TypeOK, bidVars, handVars, dblVars, infoVars, RoomStates,
                PlayerStates, ActionStates
  <1>5. CsInv' /\ ~Electing'
    BY <1>1, <1>3 DEF CsInv, Electing
  <1>6. DealInv' /\ BidInv' /\ DoubleInv' /\ PlayInv' /\ HandInv'
    BY <1>1, <1>2, <1>3, <1>5, RoomAssumption
       DEF DealInv, BidInv, DoubleInv, PlayInv, HandInv, Undecided
  <1>7. QED
    BY <1>4, <1>5, <1>6

LEMMA DoubleingOverPreserves ==
    ASSUME IndInv, DoubleingOver PROVE IndInv'
  <1> USE DEF IndInv, PhaseInv
  <1>1. /\ roomState = "Doubleing" /\ AllDecided(doubled)
        /\ Quiet' /\ pending' \in [Delayed -> Nat]
    BY WhenDue, DueClears DEF DoubleingOver, Due, Delayed
  <1>2. Undecided(maxed) /\ landlordPlayer # 0 /\ \A p \in Pos : hand[p] > 0
    BY <1>1 DEF DoubleInv, HandInv
  <1>3. /\ roomState' = "DoubleMax" /\ landlordPlayer' = landlordPlayer /\ cs' = cs
        /\ pstate' = [p \in Pos |-> "DoubleMax"] /\ hand' = hand
        /\ doubled' = doubled /\ maxed' = maxed
    BY DEF DoubleingOver, handVars, dblVars
  <1>4. TypeOK'
    BY <1>1 DEF DoubleingOver, TypeOK, bidVars, handVars, dblVars, infoVars, RoomStates,
                PlayerStates, ActionStates
  <1>5. CsInv'
    BY <1>1, <1>3 DEF CsInv, Electing, AllDecided
  <1>6. DealInv' /\ BidInv' /\ DoubleInv' /\ PlayInv' /\ HandInv'
    BY <1>1, <1>2, <1>3
       DEF DealInv, BidInv, DoubleInv, PlayInv, HandInv, Undecided, AllDecided, Pos
  <1>7. QED
    BY <1>4, <1>5, <1>6

LEMMA DoubleMaxOverPreserves ==
    ASSUME IndInv, DoubleMaxOver PROVE IndInv'
  <1>1. /\ roomState = "DoubleMax" /\ AllDecided(maxed)
        /\ Quiet' /\ pending' \in [Delayed -> Nat]
    BY WhenDue, DueClears DEF DoubleMaxOver, Due, Delayed
  <1>2. /\ AllDecided(doubled) /\ landlordPlayer \in Pos /\ AllWaiting
        /\ \A p \in Pos : hand[p] > 0
    BY <1>1 DEF IndInv, PhaseInv, TypeOK, DoubleInv, HandInv, AllDecided, AllWaiting, Pos
  <1>3. /\ cs \in [at : Points, who : 0 .. 3] /\ (cs.at # "free" => cs.who \in Pos)
        /\ (cs.at = "free" => cs = Free)
        /\ cs.at \in {"free", "doubleQuery", "maxQuery", "bottom", "other"}
    BY <1>1 DEF IndInv, PhaseInv, TypeOK, CsInv, Electing, AllDecided, Points
  <1>4. StartTurn(landlordPlayer) /\ cs' = cs
    BY DEF DoubleMaxOver
  <1>5. landlordPlayer # 0
    BY <1>2 DEF Pos
  <1>6. QED
    BY <1>1, <1>2, <1>3, <1>4, <1>5, StartTurnPreserves

LEMMA GameOverPreserves ==
    ASSUME IndInv, GameOver PROVE IndInv'
  <1> USE DEF IndInv, PhaseInv
  <1>1. /\ roomState = "Playing" /\ hand[actionIndex] = 0 /\ Only("Ended") /\ AllWaiting
        /\ cs.at \notin {"effect", "next"}
    BY WhenDue DEF GameOver, Delayed
  <1>2. PICK w \in Pos : hand[w] = 0 /\ actionIndex' = w
    BY DEF GameOver
  <1>3. actionIndex' = actionIndex /\ landlordPlayer # 0
    BY <1>1, <1>2 DEF PlayInv, HandInv
  <1>4. Only("Exited")' /\ pending' \in [Delayed -> Nat]
    <2>1. /\ pending' = [pending EXCEPT !["Ended"] = @ - 1, !["Exited"] = @ + 1]
          /\ pending \in [Delayed -> Nat]
      BY DEF GameOver, TypeOK
    <2>2. /\ pending["Ended"] = 1 /\ pending["Exited"] = 0
          /\ \A t \in Delayed : t # "Ended" => pending[t] = 0
      BY <1>1 DEF Only, Delayed
    <2>3. QED
      BY <2>1, <2>2 DEF Only, Delayed
  <1>5. /\ roomState' = "Ended" /\ landlordPlayer' = landlordPlayer /\ cs' = cs
        /\ pstate' = pstate /\ hand' = hand /\ doubled' = doubled /\ maxed' = maxed
    BY DEF GameOver, handVars, dblVars
  <1>6. multiple' \in [Keys -> Nat]
    BY DEF GameOver, Raise, TypeOK
  <1>7. TypeOK'
    BY <1>3, <1>4, <1>6
       DEF GameOver, TypeOK, bidVars, handVars, dblVars, infoVars, RoomStates
  <1>8. CsInv'
    BY <1>1, <1>5 DEF CsInv, Electing
  <1>9. DealInv' /\ BidInv' /\ DoubleInv' /\ PlayInv' /\ HandInv'
    BY <1>1, <1>3, <1>4, <1>5
       DEF DealInv, BidInv, DoubleInv, PlayInv, HandInv, AllWaiting, AllDecided
  <1>10. QED
    BY <1>7, <1>8, <1>9

LEMMA RoomExitPreserves ==
    ASSUME IndInv, RoomExit PROVE IndInv'
  <1> USE DEF IndInv, PhaseInv
  <1>1. roomState = "Ended" /\ Quiet' /\ pending' \in [Delayed -> Nat]
    BY WhenDue, DueClears DEF RoomExit, Due, Delayed
  <1>2. /\ roomState' = "Exited" /\ landlordPlayer' = landlordPlayer /\ cs' = Free
        /\ actionIndex' = actionIndex
        /\ pstate' = pstate /\ hand' = hand /\ doubled' = doubled /\ maxed' = maxed
    BY DEF RoomExit, handVars, dblVars
  <1>3. TypeOK'
    BY <1>1 DEF RoomExit, TypeOK, bidVars, handVars, dblVars, infoVars, RoomStates, Free, Points
  <1>4. DealInv' /\ BidInv' /\ DoubleInv' /\ PlayInv' /\ HandInv' /\ CsInv'
    BY <1>1, <1>2
       DEF DealInv, BidInv, DoubleInv, PlayInv, HandInv, CsInv, AllWaiting, AllDecided,
           Electing, Free
  <1>5. QED
    BY <1>3, <1>4

-----------------------------------------------------------------------------
\* Whatever trusteeship decides for a player keeps the invariant.
LEMMA TrusteeshipPreserves ==
    ASSUME IndInv, cs = Free, isTrusteeship' \in [Pos -> BOOLEAN], NEW p \in Pos,
           TrusteeshipAction(p)
    PROVE  IndInv'
  <1>1. ~Electing
    BY DEF Electing, Free
  <1>2. QED
    BY <1>1, BidPreserves, DoublePreserves, DoubleMaxPreserves, PlayPreserves
       DEF TrusteeshipAction

\* A step that changes only what a player shows, sees or has set.
LEMMA InfoPreserves ==
    ASSUME IndInv, ~InHandOver, cs' = cs \/ cs' = Free,
           UNCHANGED <<roomVars, bidVars, handVars, dblVars, pending>>,
           multiple' \in [Keys -> Nat], isShowcard' \in [Pos -> BOOLEAN],
           isTrusteeship' \in [Pos -> BOOLEAN], skillState' = skillState,
           bottomSeen' \in [Pos -> 0 .. MaxDeal]
    PROVE  IndInv'
  <1>1. TypeOK'
    BY DEF IndInv, TypeOK, roomVars, bidVars, handVars, dblVars, Free, Points
  <1>2. CsInv' /\ ~InHandOver'
    BY DEF IndInv, PhaseInv, CsInv, Electing, InHandOver, Free, roomVars, handVars, dblVars
  <1>3. QED
    BY <1>1, <1>2, AsidePreserves DEF handVars, dblVars

LEMMA SetTrusteeshipPreserves ==
    ASSUME IndInv, cs = Free, NEW p \in Pos, NEW on \in BOOLEAN, SetTrusteeship(p, on)
    PROVE  IndInv'
  <1>1. isTrusteeship' \in [Pos -> BOOLEAN]
    BY DEF SetTrusteeship, IndInv, TypeOK
  <1>2. CASE TrusteeshipAction(p)
    BY <1>1, <1>2, TrusteeshipPreserves
  <1>3. CASE UNCHANGED <<roomVars, bidVars, handVars, dblVars, infoVars, multiple, cs, pending>>
    <2>1. /\ ~InHandOver /\ multiple' \in [Keys -> Nat] /\ isShowcard' \in [Pos -> BOOLEAN]
          /\ bottomSeen' \in [Pos -> 0 .. MaxDeal] /\ skillState' = skillState
      BY <1>3 DEF IndInv, TypeOK, infoVars, InHandOver, Free
    <2>2. QED
      BY <1>1, <1>3, <2>1, InfoPreserves
  <1>4. QED
    BY <1>2, <1>3 DEF SetTrusteeship

\* Every request a player sends keeps the invariant.
LEMMA RequestPreserves ==
    ASSUME IndInv, NEW p \in Pos, Request(p) PROVE IndInv'
  <1>0. cs = Free /\ ~InHandOver /\ ~Electing
    BY DEF Request, ReqBid, ReqDouble, ReqPlay, ReqTrusteeship, ReqShowCard, ReqInfo,
           CanEnter, InHandOver, Electing, Free
  <1>1. isTrusteeship \in [Pos -> BOOLEAN]
    BY DEF IndInv, TypeOK
  <1>2. CASE ReqBid(p)
    BY <1>0, <1>1, <1>2, BidPreserves, ForcePreserves DEF ReqBid
  <1>3. CASE ReqDouble(p)
    <2>1. CASE \E at \in {"doubleQuery", "maxQuery"} : Suspend(at, p)
      BY <1>0, <2>1, SuspendPreserves
    <2>2. CASE /\ pstate[p] = "Doubleing"
               /\ \E kind \in {"plain", "super"} : ApplyDouble(p, kind)
               /\ UNCHANGED <<cs, isTrusteeship>>
      BY <1>0, <1>1, <2>2, DoublePreserves
    <2>3. CASE /\ pstate[p] = "DoubleMax"
               /\ \E kind \in {"plain", "max"} : ApplyDoubleMax(p, kind)
               /\ UNCHANGED <<cs, isTrusteeship>>
      BY <1>0, <1>1, <2>3, DoubleMaxPreserves
    <2>4. QED
      BY <1>3, <2>1, <2>2, <2>3 DEF ReqDouble
  <1>4. CASE ReqPlay(p)
    BY <1>0, <1>1, <1>4, PlayPreserves DEF ReqPlay
  <1>5. CASE ReqTrusteeship(p)
    BY <1>0, <1>5, SetTrusteeshipPreserves DEF ReqTrusteeship
  <1>6. CASE ReqShowCard(p)
    <2>1. /\ isShowcard' \in [Pos -> BOOLEAN] /\ multiple' \in [Keys -> Nat]
          /\ bottomSeen' \in [Pos -> 0 .. MaxDeal]
      BY <1>6 DEF ReqShowCard, Raise, IndInv, TypeOK
    <2>2. QED
      BY <1>0, <1>1, <1>6, <2>1, InfoPreserves DEF ReqShowCard
  <1>7. CASE ReqInfo(p)
    BY <1>0, <1>7, SuspendPreserves DEF ReqInfo
  <1>8. QED
    BY <1>2, <1>3, <1>4, <1>5, <1>6, <1>7 DEF Request

\* Every timer callback keeps the invariant.
LEMMA TimerPreserves ==
    ASSUME IndInv, NEW p \in Pos, Timer(p) PROVE IndInv'
  <1>1. cs = Free /\ isTrusteeship \in [Pos -> BOOLEAN]
    BY DEF Timer, Tick, ClockEnd, TimerCanEnter, IndInv, TypeOK
  <1>2. QED
    BY <1>1, TrusteeshipPreserves, SetTrusteeshipPreserves DEF Timer, Tick, ClockEnd

\* Every suspended handler that resumes keeps the invariant.
LEMMA ResumePreserves ==
    ASSUME IndInv, CsResume PROVE IndInv'
  <1>1. CASE BottomReplied
    <2>1. bottomSeen' \in [Pos -> 0 .. MaxDeal]
      <3>1. dealCardCount \in 0 .. MaxDeal /\ bottomSeen \in [Pos -> 0 .. MaxDeal]
        BY RoomAssumption DEF IndInv, TypeOK
      <3>2. QED
        BY <1>1, <3>1 DEF BottomReplied
    <2>2. /\ multiple' \in [Keys -> Nat] /\ ~InHandOver
          /\ isShowcard' \in [Pos -> BOOLEAN] /\ isTrusteeship' \in [Pos -> BOOLEAN]
      BY <1>1 DEF BottomReplied, IndInv, TypeOK, InHandOver
    <2>3. QED
      BY <1>1, <2>1, <2>2, InfoPreserves DEF BottomReplied
  <1>2. CASE InfoFailed
    <2>1. /\ bottomSeen' \in [Pos -> 0 .. MaxDeal] /\ multiple' \in [Keys -> Nat]
          /\ isShowcard' \in [Pos -> BOOLEAN] /\ isTrusteeship' \in [Pos -> BOOLEAN]
          /\ ~InHandOver /\ skillState' = skillState
      BY <1>2 DEF InfoFailed, GiveUp, infoVars, IndInv, TypeOK, InHandOver
    <2>2. QED
      BY <1>2, <2>1, InfoPreserves DEF InfoFailed, GiveUp
  <1>3. QED
    BY <1>1, <1>2, LandlordPreserves, PayingPreserves, EffectPreserves, NextTurnPreserves
       DEF CsResume

LEMMA Inductive == IndInv /\ [Next]_vars => IndInv'
  <1> SUFFICES ASSUME IndInv, [Next]_vars PROVE IndInv'
    OBVIOUS
  <1>1. CASE \E p \in Pos : Request(p) \/ Timer(p)
    BY <1>1, RequestPreserves, TimerPreserves
  <1>2. CASE CsResume
    BY <1>2, ResumePreserves
  <1>3. CASE DelayedStep
    BY <1>3, DealCardWaitPreserves, DoubleingOverPreserves, DoubleMaxOverPreserves,
       GameOverPreserves, RoomExitPreserves DEF DelayedStep
  <1>4. CASE UNCHANGED vars
    <2>1. /\ UNCHANGED <<roomVars, hand, doubled, maxed, pending>> /\ cs' = cs
          /\ UNCHANGED <<bidVars, handVars, dblVars, infoVars, multiple, isTrusteeship>>
      BY <1>4 DEF vars, handVars, dblVars
    <2>2. TypeOK'
      BY <2>1 DEF IndInv, TypeOK, roomVars, bidVars, handVars, dblVars, infoVars
    <2>3. CsInv'
      BY <2>1 DEF IndInv, PhaseInv, CsInv, Electing, roomVars
    <2>4. DealInv' /\ BidInv' /\ DoubleInv'
      BY <2>1 DEF IndInv, PhaseInv, DealInv, BidInv, DoubleInv, Only, Quiet, TurnOf,
                  Undecided, AllDecided, AllWaiting, Electing, roomVars
    <2>5. PlayInv' /\ HandInv'
      BY <2>1 DEF IndInv, PhaseInv, PlayInv, HandInv, Only, Quiet, TurnOf, AllWaiting, roomVars
    <2>6. QED
      BY <2>2, <2>3, <2>4, <2>5 DEF IndInv, PhaseInv
  <1>5. QED
    BY <1>1, <1>2, <1>3, <1>4 DEF Next, Terminated

LEMMA Initially == Init => IndInv
  <1> SUFFICES ASSUME Init PROVE IndInv
    OBVIOUS
  <1> USE RoomAssumption DEF Init, Pos
  <1>1. TypeOK
    BY DEF TypeOK, RoomStates, PlayerStates, Actions, Keys, Delayed, Points, Free, SkillRoll
  <1>2. PhaseInv
    BY DEF PhaseInv, DealInv, BidInv, DoubleInv, PlayInv, HandInv, CsInv, Only, Undecided,
           Delayed, Free, Electing
  <1>3. QED
    BY <1>1, <1>2 DEF IndInv

\* The inductive invariant holds in every reachable state of the room.
THEOREM Invariance == Spec => []IndInv
  BY Initially, Inductive, PTL DEF Spec

-----------------------------------------------------------------------------
\* Type correctness of the room.
THEOREM RoomTypes == Spec => []TypeOK
  <1>1. IndInv => TypeOK
    BY DEF IndInv
  <1>2. QED
    BY <1>1, Invariance, PTL

\* Phases as written down with the inductive invariant hold in every state.
THEOREM RoomPhases == Spec => []PhaseInv
  <1>1. IndInv => PhaseInv
    BY DEF IndInv
  <1>2. QED
    BY <1>1, Invariance, PTL

\* Exactly one thing carries the game on, although the barriers and the end of the
\* game run outside the lock.
THEOREM OneMover == Spec => []ExactlyOneMover
  <1>1. ASSUME IndInv, roomState # "Exited" PROVE ExactlyOneMover
    <2> USE <1>1 DEF IndInv, PhaseInv
    <2>1. (\A s \in Delayed : pending[s] = 0 \/ pending[s] > 0) /\ actionIndex \in Pos
      BY DEF TypeOK
    <2>2. CASE roomState = "DealCard"
      BY <2>2, <2>1 DEF DealInv, CsInv, Only, Delayed, ExactlyOneMover, TurnOpen, InHandOver,
                  Scheduled, ActionStates, Electing
    <2>3. CASE roomState \in {"CallLandlord", "RobLandlord"}
      BY <2>3, <2>1 DEF BidInv, CsInv, Quiet, TurnOf, AllWaiting, ExactlyOneMover, TurnOpen,
                  InHandOver, Scheduled, ActionStates, Electing
    <2>4. CASE roomState = "Doubleing"
      BY <2>4, <2>1 DEF DoubleInv, CsInv, Quiet, Only, AllDecided, Delayed, ExactlyOneMover,
                  TurnOpen, InHandOver, Scheduled, ActionStates, Electing
    <2>5. CASE roomState = "DoubleMax"
      BY <2>5, <2>1 DEF DoubleInv, CsInv, Quiet, Only, AllDecided, Delayed, ExactlyOneMover,
                  TurnOpen, InHandOver, Scheduled, ActionStates, Electing
    <2>6. CASE roomState = "Playing"
      BY <2>6, <2>1 DEF PlayInv, CsInv, Quiet, Only, TurnOf, AllWaiting, Delayed,
                  ExactlyOneMover, TurnOpen, InHandOver, Scheduled, ActionStates, Electing
    <2>7. CASE roomState = "Ended"
      BY <2>7, <2>1 DEF PlayInv, CsInv, Only, AllWaiting, Delayed, ExactlyOneMover, TurnOpen,
                  InHandOver, Scheduled, ActionStates, Electing
    <2>8. QED
      BY <2>2, <2>3, <2>4, <2>5, <2>6, <2>7 DEF TypeOK, RoomStates
  <1>2. IndInv => ExactlyOneMover
    BY <1>1 DEF ExactlyOneMover
  <1>3. QED
    BY <1>2, Invariance, PTL

\* No player's state outlives its phase, and outside the doubling phases at most one
\* player has the turn.
THEOREM TurnDiscipline == Spec => []TurnsFollowPhase
  <1>1. IndInv => TurnsFollowPhase
    BY DEF IndInv, PhaseInv, TypeOK, RoomStates, ActionStates, DealInv, BidInv, DoubleInv,
           PlayInv, TurnOf, AllWaiting, TurnsFollowPhase
  <1>2. QED
    BY <1>1, Invariance, PTL

\* The barriers of the doubling phases open only when every decision is made.
THEOREM Barriers == Spec => []BarriersComplete
  <1>1. IndInv => BarriersComplete
    BY DEF IndInv, PhaseInv, DoubleInv, AllDecided, BarriersComplete
  <1>2. QED
    BY <1>1, Invariance, PTL

\* The comment at PlayerAction.lua line 168 is right: nothing ends a player's turn
\* while that player's payment is under way.
THEOREM NoRecheckNeeded == Spec => []TurnKeptWhilePaying
  <1>1. IndInv => TurnKeptWhilePaying
    BY DEF IndInv, PhaseInv, CsInv, DoubleInv, TurnKeptWhilePaying
  <1>2. QED
    BY <1>1, Invariance, PTL

-----------------------------------------------------------------------------
(***************************************************************************)
(* The kinds of steps a room can take, whoever causes them: a request, a   *)
(* tick or the end of a clock may all take the same action.                *)
(***************************************************************************)

BidStep(p, a) == cs = Free /\ (CallLandlord(p, a) \/ RobLandlord(p, a))

ForceStep(p) == cs = Free /\ ForceRobLandlord(p)

\* Only a robot doubles without the reply of an agent.
DoubleStep(p, kind) ==
    /\ pstate[p] = "Doubleing" /\ ApplyDouble(p, kind) /\ cs' = Free
    /\ \/ cs = Free /\ (kind = "super" => p \notin Users)
       \/ cs = Held("doubleReply", p) /\ kind = "super"

MaxStep(p, kind) ==
    /\ pstate[p] = "DoubleMax" /\ ApplyDoubleMax(p, kind) /\ cs' = Free
    /\ \/ cs = Free /\ (kind = "max" => p \notin Users)
       \/ cs = Held("maxReply", p) /\ kind = "max"
       \/ cs = Held("maxQuery", p) /\ kind = "max" /\ skillState[p] /\ Skill[p] = "freeMax"

\* The agent takes the item.
PayStep(p, item) ==
    /\ cs = Held(IF item = "super" THEN "doubleRemove" ELSE "maxRemove", p)
    /\ cs' = Held(IF item = "super" THEN "doubleReply" ELSE "maxReply", p)
    /\ spent' = spent \cup {<<p, item>>}
    /\ UNCHANGED <<roomVars, bidVars, handVars, doubled, maxed, infoVars, multiple, pending>>

PlayStep(p) ==
    /\ cs = Free
    /\ \/ \E n \in 1 .. HandSize + BottomSize, effect \in BOOLEAN : PlayCards(p, n, effect)
       \/ Pass(p)

ShowStep(p) == cs = Free /\ ReqShowCard(p)

\* Nothing the game depends on changes.
AsideStep ==
    /\ UNCHANGED <<roomVars, bidVars, handVars, dblVars, infoVars, multiple, pending>>
    /\ \/ cs' = cs
       \/ /\ ~InHandOver /\ ~InHandOver'
          /\ cs.at \notin {"doubleReply", "maxReply"}
          /\ cs'.at \notin {"doubleReply", "maxReply"}

\* What trusteeship does is a step of one of these kinds.
LEMMA TrusteeshipKinds ==
    ASSUME cs = Free, NEW p \in Pos, TrusteeshipAction(p)
    PROVE  \/ \E a \in Actions : BidStep(p, a)
           \/ \E kind \in {"plain", "super"} : DoubleStep(p, kind)
           \/ \E kind \in {"plain", "max"} : MaxStep(p, kind)
           \/ PlayStep(p)
  <1>1. CASE CallLandlord(p, "NotCall") \/ RobLandlord(p, "NotRob")
    BY <1>1 DEF BidStep, Actions
  <1>2. CASE pstate[p] = "Doubleing" /\ ApplyDouble(p, "plain") /\ UNCHANGED cs
    BY <1>2 DEF DoubleStep
  <1>3. CASE pstate[p] = "DoubleMax" /\ ApplyDoubleMax(p, "plain") /\ UNCHANGED cs
    BY <1>3 DEF MaxStep
  <1>4. CASE PlayStep(p)
    BY <1>4
  <1>5. QED
    BY <1>1, <1>2, <1>3, <1>4 DEF TrusteeshipAction, PlayStep

\* Every step of a room is of one of these kinds.
LEMMA StepKinds ==
    ASSUME IndInv, [Next]_vars
    PROVE  \/ \E p \in Pos, a \in Actions : BidStep(p, a)
           \/ \E p \in Pos : ForceStep(p) \/ PlayStep(p) \/ ShowStep(p)
           \/ \E p \in Pos, kind \in {"plain", "super"} : DoubleStep(p, kind)
           \/ \E p \in Pos, kind \in {"plain", "max"} : MaxStep(p, kind)
           \/ \E p \in Pos, item \in {"super", "max"} : PayStep(p, item)
           \/ LandlordDelayOver \/ LandlordWaitOver \/ EffectOver \/ NextTurn \/ BottomReplied
           \/ DelayedStep
           \/ AsideStep
  <1>0. /\ cs \in [at : Points, who : 0 .. 3]
        /\ cs.at # "free" => cs.who \in Pos
        /\ \A at \in Points : cs.at = at => cs = Held(at, cs.who)
    BY DEF IndInv, TypeOK, PhaseInv, CsInv, Held
  <1>1. ASSUME NEW p \in Pos, NEW on \in BOOLEAN, cs = Free, SetTrusteeship(p, on)
        PROVE  TrusteeshipAction(p) \/ AsideStep
    BY <1>1 DEF SetTrusteeship, AsideStep
  <1>2. ASSUME NEW p \in Pos, NEW at \in Points, cs = Free, Suspend(at, p),
               at \notin {"doubleReply", "maxReply", "landlordDelay", "landlordWait",
                          "effect", "next"}
        PROVE  AsideStep
    BY <1>2 DEF Suspend, AsideStep, Free, Held, InHandOver
  <1>3. CASE \E p \in Pos : Request(p)
    <2>1. PICK p \in Pos : Request(p)
      BY <1>3
    <2>2. cs = Free
      BY <2>1 DEF Request, ReqBid, ReqDouble, ReqPlay, ReqTrusteeship, ReqShowCard, ReqInfo,
                  CanEnter
    <2>3. CASE ReqBid(p)
      BY <2>2, <2>3 DEF ReqBid, BidStep, ForceStep, Actions
    <2>4. CASE ReqDouble(p)
      <3>1. CASE Suspend("doubleQuery", p) \/ Suspend("maxQuery", p)
        BY <2>2, <3>1, <1>2 DEF Points
      <3>2. CASE /\ pstate[p] = "Doubleing"
                 /\ \/ ApplyDouble(p, "plain")
                    \/ p \in Doublers \ Users /\ ApplyDouble(p, "super")
                 /\ UNCHANGED <<cs, isTrusteeship>>
        BY <2>2, <3>2 DEF DoubleStep
      <3>3. CASE /\ pstate[p] = "DoubleMax"
                 /\ \/ ApplyDoubleMax(p, "plain")
                    \/ p \in Doublers \ Users /\ ApplyDoubleMax(p, "max")
                 /\ UNCHANGED <<cs, isTrusteeship>>
        BY <2>2, <3>3 DEF MaxStep
      <3>4. QED
        BY <2>4, <3>1, <3>2, <3>3 DEF ReqDouble
    <2>5. CASE ReqPlay(p)
      BY <2>2, <2>5 DEF ReqPlay, PlayStep
    <2>6. CASE ReqTrusteeship(p)
      BY <2>2, <2>6, <1>1, TrusteeshipKinds DEF ReqTrusteeship
    <2>7. CASE ReqShowCard(p)
      BY <2>2, <2>7 DEF ShowStep
    <2>8. CASE ReqInfo(p)
      BY <2>2, <2>8, <1>2 DEF ReqInfo, Points
    <2>9. QED
      BY <2>1, <2>3, <2>4, <2>5, <2>6, <2>7, <2>8 DEF Request
  <1>4. CASE \E p \in Pos : Timer(p)
    <2>1. PICK p \in Pos : Timer(p)
      BY <1>4
    <2>2. cs = Free
      BY <2>1 DEF Timer, Tick, ClockEnd, TimerCanEnter
    <2>3. TrusteeshipAction(p) \/ AsideStep
      BY <2>1, <2>2, <1>1 DEF Timer, Tick, ClockEnd
    <2>4. QED
      BY <2>2, <2>3, TrusteeshipKinds
  <1>5. CASE CsResume
    <2>1. CASE GiveUp /\ cs.at \in {"doubleQuery", "maxQuery", "doubleRemove", "maxRemove",
                                    "bottom", "other"}
      BY <2>1 DEF GiveUp, AsideStep, Free, InHandOver
    <2>2. CASE DoubleQueried
      BY <1>0, <2>1, <2>2 DEF DoubleQueried, Suspend, AsideStep, Held, InHandOver
    <2>3. CASE MaxQueried
      <3>1. CASE Suspend("maxRemove", cs.who)
        BY <2>3, <3>1 DEF MaxQueried, Suspend, AsideStep, Held, InHandOver
      <3>2. CASE /\ pstate[cs.who] = "DoubleMax"
                 /\ skillState[cs.who] /\ Skill[cs.who] = "freeMax"
                 /\ ApplyDoubleMax(cs.who, "max") /\ cs' = Free
        <4>1. cs = Held("maxQuery", cs.who) /\ cs.who \in Pos
          BY <1>0, <2>3 DEF MaxQueried, Points
        <4>2. MaxStep(cs.who, "max")
          BY <3>2, <4>1 DEF MaxStep
        <4>3. QED
          BY <4>1, <4>2
      <3>3. QED
        BY <2>1, <2>3, <3>1, <3>2 DEF MaxQueried
    <2>4. CASE AgentRemovesItem
      <3>1. CASE cs.at = "doubleRemove" /\ ~GiveUp
        <4>1. cs = Held("doubleRemove", cs.who) /\ cs.who \in Pos
          BY <1>0, <3>1 DEF Points
        <4>2. PayStep(cs.who, "super")
          BY <2>4, <3>1, <4>1 DEF AgentRemovesItem, PayStep
        <4>3. QED
          BY <4>1, <4>2
      <3>2. CASE cs.at = "maxRemove" /\ ~GiveUp
        <4>1. cs = Held("maxRemove", cs.who) /\ cs.who \in Pos
          BY <1>0, <3>2 DEF Points
        <4>2. PayStep(cs.who, "max")
          BY <2>4, <3>2, <4>1 DEF AgentRemovesItem, PayStep
        <4>3. QED
          BY <4>1, <4>2
      <3>3. QED
        BY <2>1, <2>4, <3>1, <3>2 DEF AgentRemovesItem
    <2>5. CASE DoubleReplied
      <3>1. cs = Held("doubleReply", cs.who) /\ cs.who \in Pos /\ pstate[cs.who] = "Doubleing"
        BY <1>0, <2>5 DEF DoubleReplied, Points, IndInv, PhaseInv, CsInv, DoubleInv
      <3>2. DoubleStep(cs.who, "super")
        BY <2>5, <3>1 DEF DoubleReplied, DoubleStep
      <3>3. QED
        BY <3>1, <3>2
    <2>6. CASE MaxReplied
      <3>1. cs = Held("maxReply", cs.who) /\ cs.who \in Pos /\ pstate[cs.who] = "DoubleMax"
        BY <1>0, <2>6 DEF MaxReplied, Points, IndInv, PhaseInv, CsInv, DoubleInv
      <3>2. MaxStep(cs.who, "max")
        BY <2>6, <3>1 DEF MaxReplied, MaxStep
      <3>3. QED
        BY <3>1, <3>2
    <2>7. CASE InfoFailed
      BY <2>1, <2>7 DEF InfoFailed
    <2>8. QED
      BY <1>5, <2>2, <2>3, <2>4, <2>5, <2>6, <2>7 DEF CsResume
  <1>6. CASE UNCHANGED vars
    BY <1>6 DEF vars, AsideStep
  <1>7. QED
    BY <1>3, <1>4, <1>5, <1>6 DEF Next, Terminated

-----------------------------------------------------------------------------
(***************************************************************************)
(* The properties of the play: kept by every kind of step.                 *)
(***************************************************************************)

\* A player who may pass still answers another's cards after any step.
LEMMA PassPreserves ==
    ASSUME IndInv, PassHasTarget, [Next]_vars
    PROVE  PassHasTarget'
  <1> USE DEF roomVars, bidVars, handVars, dblVars, infoVars
  <1>0. pstate \in [Pos -> PlayerStates] /\ playCardState \in [Pos -> {"Default", "First", "Play", "Normal"}]
    BY DEF IndInv, TypeOK
  <1>1. ASSUME NEW q \in Pos, StartTurn(q), AllWaiting PROVE PassHasTarget'
    BY <1>0, <1>1 DEF StartTurn, AllWaiting, PlayStateOf, PassHasTarget
  <1>2. CASE \E p \in Pos, a \in Actions : BidStep(p, a)
    BY <1>0, <1>2, BidEnds DEF BidStep, Turn, Elect, Redeal, FreshDeal, BidRest, PassHasTarget
  <1>3. CASE \E p \in Pos : PlayStep(p)
    <2>1. PICK p \in Pos : PlayStep(p)
      BY <1>3
    <2>2. pstate[p] = "Playing" /\ LeaveTurn(p) /\ playCardState' = playCardState
      BY <2>1 DEF PlayStep, PlayCards, Pass
    <2>3. \A q \in Pos : q # p => pstate[q] = "Waiting"
      BY <2>2, OpenTurn
    <2>4. QED
      BY <1>0, <2>2, <2>3 DEF LeaveTurn, PassHasTarget
  <1>4. CASE \E p \in Pos, kind \in {"plain", "super"} : DoubleStep(p, kind)
    BY <1>0, <1>4 DEF DoubleStep, ApplyDouble, LeaveTurn, PassHasTarget
  <1>5. CASE \E p \in Pos, kind \in {"plain", "max"} : MaxStep(p, kind)
    BY <1>0, <1>5 DEF MaxStep, ApplyDoubleMax, LeaveTurn, PassHasTarget
  <1>6. CASE \/ \E p \in Pos : ForceStep(p) \/ ShowStep(p)
             \/ \E p \in Pos, item \in {"super", "max"} : PayStep(p, item)
             \/ LandlordDelayOver \/ LandlordWaitOver \/ EffectOver \/ BottomReplied
             \/ DealCardWaitOver \/ DoubleingOver \/ GameOver \/ RoomExit \/ AsideStep
    BY <1>0, <1>6
       DEF ForceStep, ForceRobLandlord, ShowStep, ReqShowCard, PayStep, LandlordDelayOver,
           LandlordWaitOver, EffectOver, BottomReplied, DealCardWaitOver, DoubleingOver,
           GameOver, RoomExit, AsideStep, PassHasTarget
  <1>7. CASE NextTurn
    <2>1. AllWaiting /\ NextPos(actionIndex) \in Pos
      BY <1>7, NextPosType DEF NextTurn, IndInv, PhaseInv, TypeOK, CsInv, PlayInv
    <2>2. QED
      BY <1>1, <1>7, <2>1 DEF NextTurn
  <1>8. CASE DoubleMaxOver
    <2>1. roomState = "DoubleMax" /\ AllDecided(maxed)
      BY <1>8, WhenDue DEF DoubleMaxOver, Due
    <2>2. AllWaiting /\ landlordPlayer \in Pos
      BY <2>1 DEF IndInv, PhaseInv, TypeOK, DoubleInv, HandInv, AllDecided, AllWaiting, Pos
    <2>3. QED
      BY <1>1, <1>8, <2>2 DEF DoubleMaxOver
  <1>9. QED
    BY <1>2, <1>3, <1>4, <1>5, <1>6, <1>7, <1>8, StepKinds DEF DelayedStep

\* Payment and doubling go together after any step.
LEMMA PaidPreserves ==
    ASSUME IndInv, PaidIffDoubled, TakenInv, [Next]_vars
    PROVE  PaidIffDoubled' /\ TakenInv'
  <1> USE DEF roomVars, bidVars, handVars, dblVars, infoVars
  <1>0. /\ doubled \in [Pos -> {"nil", "plain", "super"}] /\ maxed \in [Pos -> {"nil", "plain", "max"}]
        /\ spent \subseteq Pos \X {"super", "max"} /\ Users \subseteq Pos
        /\ skillState \in [Pos -> BOOLEAN]
    BY RoomAssumption DEF IndInv, TypeOK
  <1>1. ASSUME UNCHANGED <<doubled, maxed, spent>>,
               \A q \in Users : skillState[q] => skillState'[q],
               cs' = cs \/ (/\ cs.at \notin {"doubleReply", "maxReply"}
                            /\ cs'.at \notin {"doubleReply", "maxReply"})
        PROVE  PaidIffDoubled' /\ TakenInv'
    <2>1. ASSUME NEW q \in Users
          PROVE  /\ cs' = Held("doubleReply", q) <=> cs = Held("doubleReply", q)
                 /\ cs' = Held("maxReply", q) <=> cs = Held("maxReply", q)
      BY <1>1 DEF Held
    <2>2. QED
      BY <1>1, <2>1 DEF PaidIffDoubled, TakenInv
  <1>2. CASE \E p \in Pos, a \in Actions : BidStep(p, a)
    <2>1. PICK p \in Pos, a \in Actions : BidStep(p, a)
      BY <1>2
    <2>2. UNCHANGED <<doubled, maxed, spent>> /\ cs.at \notin {"doubleReply", "maxReply"}
      BY <2>1, BidEnds DEF BidStep, BidRest, Free
    <2>3. /\ cs' = cs \/ cs'.at = "landlordWait"
          /\ \A q \in Users : skillState[q] => skillState'[q]
      BY <1>0, <2>1, BidEnds
         DEF BidStep, Turn, Elect, Redeal, FreshDeal, SkillRoll, Held
    <2>4. QED
      BY <1>1, <2>2, <2>3
  <1>3. CASE \E p \in Pos : PlayStep(p)
    <2>1. /\ UNCHANGED <<doubled, maxed, spent, skillState>> /\ cs = Free
          /\ cs'.at \in {"free", "effect", "next"}
      BY <1>3 DEF PlayStep, PlayCards, Pass, TurnEnd, Held, Free
    <2>2. QED
      BY <1>1, <2>1 DEF Free
  <1>4. CASE \E p \in Pos, kind \in {"plain", "super"} : DoubleStep(p, kind)
    <2>1. PICK p \in Pos, kind \in {"plain", "super"} : DoubleStep(p, kind)
      BY <1>4
    <2>2. /\ doubled' = [doubled EXCEPT ![p] = kind] /\ doubled[p] = "nil" /\ cs' = Free
          /\ UNCHANGED <<maxed, spent, skillState>>
      BY <2>1, OpenTurn DEF DoubleStep, ApplyDouble
    <2>3. CASE cs = Free /\ (kind = "super" => p \notin Users)
      BY <1>0, <2>2, <2>3 DEF PaidIffDoubled, TakenInv, Free, Held
    <2>4. CASE cs = Held("doubleReply", p) /\ kind = "super"
      BY <1>0, <2>2, <2>4 DEF PaidIffDoubled, TakenInv, Free, Held
    <2>5. QED
      BY <2>1, <2>3, <2>4 DEF DoubleStep
  <1>5. CASE \E p \in Pos, kind \in {"plain", "max"} : MaxStep(p, kind)
    <2>1. PICK p \in Pos, kind \in {"plain", "max"} : MaxStep(p, kind)
      BY <1>5
    <2>2. /\ maxed' = [maxed EXCEPT ![p] = kind] /\ maxed[p] = "nil" /\ cs' = Free
          /\ UNCHANGED <<doubled, spent, skillState>>
      BY <2>1, OpenTurn DEF MaxStep, ApplyDoubleMax
    <2>3. CASE cs = Free /\ (kind = "max" => p \notin Users)
      BY <1>0, <2>2, <2>3 DEF PaidIffDoubled, TakenInv, Free, Held
    <2>4. CASE cs = Held("maxReply", p) /\ kind = "max"
      BY <1>0, <2>2, <2>4 DEF PaidIffDoubled, TakenInv, Free, Held
    <2>5. CASE cs = Held("maxQuery", p) /\ kind = "max" /\ skillState[p] /\ Skill[p] = "freeMax"
      BY <1>0, <2>2, <2>5 DEF PaidIffDoubled, TakenInv, Free, Held
    <2>6. QED
      BY <2>1, <2>3, <2>4, <2>5 DEF MaxStep
  <1>6. CASE \E p \in Pos, item \in {"super", "max"} : PayStep(p, item)
    <2>1. PICK p \in Pos, item \in {"super", "max"} : PayStep(p, item)
      BY <1>6
    <2>2. /\ spent' = spent \cup {<<p, item>>} /\ UNCHANGED <<doubled, maxed, skillState>>
          /\ cs = Held(IF item = "super" THEN "doubleRemove" ELSE "maxRemove", p)
          /\ cs' = Held(IF item = "super" THEN "doubleReply" ELSE "maxReply", p)
      BY <2>1 DEF PayStep
    <2>3. CASE item = "super"
      BY <1>0, <2>2, <2>3 DEF PaidIffDoubled, TakenInv, Held
    <2>4. CASE item = "max"
      BY <1>0, <2>2, <2>4 DEF PaidIffDoubled, TakenInv, Held
    <2>5. QED
      BY <2>3, <2>4
  <1>7. CASE RoomExit
    <2>1. roomState = "Ended"
      BY <1>7, WhenDue DEF RoomExit, Due
    <2>2. cs.at \notin {"doubleReply", "maxReply"}
      BY <2>1 DEF IndInv, PhaseInv, CsInv
    <2>3. QED
      BY <1>1, <1>7, <2>2 DEF RoomExit, Free
  <1>8. CASE \/ \E p \in Pos : ForceStep(p) \/ ShowStep(p)
             \/ LandlordDelayOver \/ LandlordWaitOver \/ EffectOver \/ BottomReplied
             \/ NextTurn \/ DealCardWaitOver \/ DoubleingOver \/ DoubleMaxOver \/ GameOver
             \/ AsideStep
    <2>1. UNCHANGED <<doubled, maxed, spent, skillState>>
      BY <1>8
         DEF ForceStep, ForceRobLandlord, ShowStep, ReqShowCard, LandlordDelayOver,
             LandlordWaitOver, EffectOver, BottomReplied, NextTurn, StartTurn,
             DealCardWaitOver, DoubleingOver, DoubleMaxOver, GameOver, AsideStep
    <2>2. cs' = cs \/ (/\ cs.at \notin {"doubleReply", "maxReply"}
                       /\ cs'.at \notin {"doubleReply", "maxReply"})
      BY <1>8
         DEF ForceStep, ForceRobLandlord, ShowStep, ReqShowCard, LandlordDelayOver,
             LandlordWaitOver, EffectOver, TurnEnd, BottomReplied, NextTurn,
             DealCardWaitOver, DoubleingOver, DoubleMaxOver, GameOver, AsideStep, Held, Free
    <2>3. QED
      BY <1>1, <2>1, <2>2
  <1>9. QED
    BY <1>2, <1>3, <1>4, <1>5, <1>6, <1>7, <1>8, StepKinds DEF DelayedStep

-----------------------------------------------------------------------------
(***************************************************************************)
(* The bidding: who is asked, who holds the highest bid, who is elected.   *)
(***************************************************************************)

\* The three seats round the table.
LEMMA Seats ==
    ASSUME NEW p \in Pos
    PROVE  /\ NextPos(p) \in Pos /\ PrevPos(p) \in Pos
           /\ NextPos(p) # p /\ PrevPos(p) # p /\ NextPos(p) # PrevPos(p)
           /\ NextPos(NextPos(p)) = PrevPos(p) /\ PrevPos(NextPos(p)) = p
           /\ NextPos(PrevPos(p)) = p /\ PrevPos(PrevPos(p)) = NextPos(p)
           /\ \A q \in Pos : q \in {p, NextPos(p), PrevPos(p)}
  BY DEF Pos, NextPos, PrevPos

\* What HighestBidderWins says of one step.
FairElection ==
    landlordPlayer' # landlordPlayer =>
        \/ topBidder' # 0 /\ landlordPlayer' = topBidder'
        \/ skillState[landlordPlayer'] /\ cs'.at = "landlordDelay"
        \/ /\ dealCardCount = MaxDeal
           /\ \A p \in Pos : lastAction'[p] = "NotCall"
           /\ landlordPlayer' = NextPos(actionIndex)

\* A call or a pass keeps the order of the bids, and elects only whom it may.
LEMMA CallKeepsOrder ==
    ASSUME IndInv, BidOrder, cs = Free, NEW p \in Pos, NEW a, CallLandlord(p, a)
    PROVE  BidOrder' /\ NoRobError' /\ FairElection
  <1> DEFINE n == NextPos(p)
             b == PrevPos(p)
  <1>0. /\ pstate[p] = "CallLandlord" /\ a \in {"CallLandlord", "NotCall"}
        /\ roomState = "CallLandlord" /\ p = actionIndex /\ landlordPlayer = 0 /\ ~Electing
        /\ lastAction \in [Pos -> Actions] /\ dealCardCount \in 1 .. MaxDeal
    BY BidTurn DEF CallLandlord, IndInv, TypeOK
  <1>1. /\ lastAction[p] = "nil" /\ lastAction[n] \in {"nil", "NotCall"}
        /\ lastAction[b] \in {"nil", "NotCall"}
        /\ lastAction[b] = "nil" => lastAction[n] = "nil"
    BY <1>0, Seats DEF BidOrder, Bidding
  <1>2. /\ n \in Pos /\ b \in Pos /\ n # p /\ b # p /\ n # b
        /\ NextPos(n) = b /\ PrevPos(n) = p /\ \A r \in Pos : r \in {p, n, b}
    BY Seats
  <1>3. CASE lastAction[n] = "nil" /\ Turn(NextPhase(a), n, p, a)
    <2>1. /\ lastAction' = [lastAction EXCEPT ![p] = a] /\ actionIndex' = n
          /\ roomState' = NextPhase(a) /\ cs' = cs /\ landlordPlayer' = landlordPlayer
          /\ topBidder' = IF a \in Bids THEN p ELSE topBidder
      BY <1>3 DEF Turn, Bid, AddAction
    <2>2. CASE a = "CallLandlord"
      <3>1. roomState' = "RobLandlord" /\ lastAction'[p] = a /\ topBidder' = p
        BY <1>0, <2>1, <2>2 DEF NextPhase, Bids
      <3>2. BidOrder'
        BY <1>2, <2>1, <2>2, <3>1 DEF BidOrder, Bidding, Bids
      <3>3. QED
        BY <2>1, <2>2, <3>1, <3>2 DEF NoRobError, Bids, FairElection
    <2>3. CASE a = "NotCall"
      <3>1. /\ roomState' = "CallLandlord" /\ lastAction'[p] = a
            /\ lastAction'[n] = "nil" /\ lastAction'[b] = lastAction[b]
        BY <1>0, <1>2, <1>3, <2>1, <2>3 DEF NextPhase
      <3>2. BidOrder'
        BY <1>1, <1>2, <2>1, <2>3, <3>1 DEF BidOrder, Bidding
      <3>3. QED
        BY <2>1, <3>1, <3>2 DEF NoRobError, FairElection
    <2>4. QED
      BY <1>0, <2>2, <2>3
  <1>4. ASSUME NEW q \in Pos, Elect(q, p, p, a), \/ q = p /\ a = "CallLandlord"
                                                 \/ q = n /\ a = "NotCall" /\ LastDeal,
               lastAction[n] # "nil"
        PROVE  BidOrder' /\ NoRobError' /\ FairElection
    <2>1. /\ lastAction' = [lastAction EXCEPT ![p] = a] /\ roomState' = "CallLandlord"
          /\ topBidder' = IF a \in Bids THEN p ELSE topBidder
          /\ landlordPlayer' = q /\ cs' = Held("landlordWait", q)
      BY <1>0, <1>4 DEF Elect, Bid, AddAction
    <2>2. Electing' /\ NoRobError'
      BY <2>1 DEF Electing, Held, NoRobError
    <2>3. BidOrder'
      BY <2>1, <2>2 DEF BidOrder, Bidding
    <2>4. CASE q = p /\ a = "CallLandlord"
      BY <2>1, <2>2, <2>3, <2>4 DEF FairElection, Bids, Pos
    <2>5. CASE q = n /\ a = "NotCall" /\ LastDeal
      <3>1. dealCardCount = MaxDeal
        BY <1>0, <2>5, RoomAssumption DEF LastDeal
      <3>2. \A r \in Pos : lastAction'[r] = "NotCall"
        BY <1>0, <1>1, <1>2, <1>4, <2>1, <2>5
      <3>3. QED
        BY <1>0, <2>1, <2>2, <2>3, <2>5, <3>1, <3>2 DEF FairElection
    <2>6. QED
      BY <1>4, <2>4, <2>5
  <1>5. CASE Redeal(p)
    <2>1. /\ roomState' = "DealCard" /\ landlordPlayer' = landlordPlayer
          /\ lastAction' = [q \in Pos |-> "nil"]
      BY <1>5 DEF Redeal, FreshDeal
    <2>2. QED
      BY <2>1 DEF BidOrder, Bidding, NoRobError, FairElection
  <1>6. QED
    BY <1>2, <1>3, <1>4, <1>5 DEF CallLandlord

\* A rob or a pass keeps the order of the bids. Only who robs again, or holds the only
\* bid left, is elected: the loop over the seats never comes back to who is asked.
LEMMA RobKeepsOrder ==
    ASSUME IndInv, BidOrder, cs = Free, NEW p \in Pos, NEW a, RobLandlord(p, a)
    PROVE  BidOrder' /\ NoRobError' /\ FairElection
  <1> DEFINE n   == NextPos(p)
             b   == PrevPos(p)
             t   == topBidder
             la  == [lastAction EXCEPT ![p] = a]
             q   == NextBidder(p, la)
             arr == {r \in Pos : la[r] \in Bids}
             one == CHOOSE r \in arr : TRUE
  <1>0. /\ pstate[p] = "RobLandlord" /\ a \in {"RobLandlord", "NotRob"}
        /\ roomState = "RobLandlord" /\ p = actionIndex /\ landlordPlayer = 0 /\ ~Electing
        /\ lastAction \in [Pos -> Actions]
    BY BidTurn DEF RobLandlord, IndInv, TypeOK
  <1>1. /\ n \in Pos /\ b \in Pos /\ n # p /\ b # p /\ n # b
        /\ NextPos(n) = b /\ PrevPos(n) = p /\ NextPos(b) = p /\ PrevPos(b) = n
        /\ \A r \in Pos : r \in {p, n, b}
    BY Seats
  <1>2. /\ t = (IF lastAction[b] \in Bids THEN b ELSE n) /\ lastAction[t] \in Bids
        /\ t \in Pos /\ t # p /\ t # 0
    BY <1>0, <1>1 DEF BidOrder, Bidding, Pos
  <1>3. la[p] = a /\ la[n] = lastAction[n] /\ la[b] = lastAction[b] /\ la[t] = lastAction[t]
    BY <1>0, <1>1, <1>2
  <1>4. q = IF la[n] \in {"NotCall", "NotRob"} THEN b ELSE n
    <2>1. CASE la[n] \notin {"NotCall", "NotRob"}
      BY <2>1 DEF NextBidder
    <2>2. CASE la[n] \in {"NotCall", "NotRob"}
      <3>1. la[b] \notin {"NotCall", "NotRob"}
        BY <1>2, <1>3, <2>2 DEF Bids
      <3>2. QED
        BY <1>1, <2>2, <3>1 DEF NextBidder
    <2>3. QED
      BY <2>1, <2>2
  <1>5. IsFiniteSet(arr)
    BY FS_Interval, FS_Subset DEF Pos
  <1>6. t \in arr /\ (p \in arr <=> a = "RobLandlord")
    BY <1>0, <1>2, <1>3 DEF Bids
  <1>7. Cardinality(arr) = 1 => one = t /\ a = "NotRob"
    <2>1. Cardinality(arr) = 1 => \E x : arr = {x}
      BY <1>5, FS_Singleton
    <2>2. Cardinality(arr) = 1 => arr = {t}
      BY <2>1, <1>6
    <2>3. QED
      BY <2>2, <1>0, <1>2, <1>6
  <1>8. Cardinality(arr) # 1 /\ a = "NotRob" => la[n] \in Bids /\ la[b] \in Bids
    <2>1. Cardinality(arr) # 1 => arr # {t}
      BY FS_Singleton
    <2>2. Cardinality(arr) # 1 => \E r \in arr : r # t
      BY <2>1, <1>6
    <2>3. QED
      BY <2>2, <1>1, <1>2, <1>6
  <1>9. \/ la[n] = "nil" /\ Turn("RobLandlord", n, p, a)
        \/ a = "RobLandlord" /\ Elect(p, p, p, a)
        \/ Cardinality(arr) = 1 /\ Elect(one, PrevPos(q), p, a)
        \/ /\ la[n] # "nil" /\ Cardinality(arr) # 1
           /\ ~(lastAction[p] \in Bids /\ a = "RobLandlord")
           /\ Turn("RobLandlord", q, p, a)
    <2>1. q # p
      BY <1>1, <1>4
    <2>2. QED
      BY <2>1 DEF RobLandlord, RobEnd
  <1> HIDE DEF q, arr, one, la
  <1>10. ASSUME NEW s \in Pos, Turn("RobLandlord", s, p, a)
         PROVE  /\ lastAction' = la /\ actionIndex' = s /\ roomState' = "RobLandlord"
                /\ cs' = cs /\ landlordPlayer' = landlordPlayer
                /\ topBidder' = IF a = "RobLandlord" THEN p ELSE t
    BY <1>0, <1>10 DEF Turn, Bid, AddAction, Bids, la
  <1>11. ASSUME NEW s \in Pos, Turn("RobLandlord", s, p, a), BidOrder'
         PROVE  NoRobError' /\ FairElection
    BY <1>0, <1>2, <1>3, <1>10, <1>11 DEF NoRobError, FairElection, Bids
  <1>12. CASE la[n] = "nil" /\ Turn("RobLandlord", n, p, a)
    <2>1. t = b /\ la[b] \in Bids
      BY <1>2, <1>3, <1>12 DEF Bids
    <2>2. BidOrder'
      BY <1>0, <1>1, <1>3, <1>10, <1>12, <2>1 DEF BidOrder, Bidding, Bids
    <2>3. QED
      BY <1>1, <1>11, <1>12, <2>2
  <1>13. ASSUME NEW r \in Pos, NEW i, Elect(r, i, p, a),
                r = IF a = "RobLandlord" THEN p ELSE t
         PROVE  BidOrder' /\ NoRobError' /\ FairElection
    <2>1. /\ lastAction' = la /\ roomState' = "RobLandlord"
          /\ topBidder' = r /\ landlordPlayer' = r /\ cs' = Held("landlordWait", r)
      BY <1>0, <1>13 DEF Elect, Bid, AddAction, Bids, la
    <2>2. Electing'
      BY <2>1 DEF Electing, Held
    <2>3. la[r] \in Bids
      BY <1>0, <1>2, <1>3, <1>13 DEF Bids
    <2>4. QED
      BY <2>1, <2>2, <2>3 DEF BidOrder, Bidding, NoRobError, FairElection, Pos
  <1>14. CASE a = "RobLandlord" /\ Elect(p, p, p, a)
    BY <1>13, <1>14
  <1>15. CASE Cardinality(arr) = 1 /\ Elect(one, PrevPos(q), p, a)
    BY <1>2, <1>7, <1>13, <1>15
  <1>16. CASE /\ la[n] # "nil" /\ Cardinality(arr) # 1 /\ Turn("RobLandlord", q, p, a)
    <2>1. q \in Pos
      BY <1>1, <1>4
    <2>2. CASE a = "NotRob"
      <3>1. la[n] \in Bids /\ la[b] \in Bids /\ t = b /\ q = n
        BY <1>2, <1>3, <1>4, <1>8, <1>16, <2>2 DEF Bids
      <3>2. BidOrder'
        BY <1>0, <1>1, <1>3, <1>10, <1>16, <2>2, <3>1 DEF BidOrder, Bidding, Bids
      <3>3. QED
        BY <1>11, <1>16, <2>1, <3>2
    <2>3. CASE a = "RobLandlord"
      <3>1. CASE q = n
        <4>1. BidOrder'
          BY <1>0, <1>1, <1>3, <1>10, <1>16, <2>1, <2>3, <3>1 DEF BidOrder, Bidding, Bids
        <4>2. QED
          BY <1>11, <1>16, <2>1, <4>1
      <3>2. CASE q = b /\ la[n] \in {"NotCall", "NotRob"}
        <4>1. BidOrder'
          BY <1>0, <1>1, <1>3, <1>10, <1>16, <2>1, <2>3, <3>2 DEF BidOrder, Bidding, Bids
        <4>2. QED
          BY <1>11, <1>16, <2>1, <4>1
      <3>3. QED
        BY <1>4, <3>1, <3>2
    <2>4. QED
      BY <1>0, <2>2, <2>3
  <1>17. QED
    BY <1>9, <1>12, <1>14, <1>15, <1>16

\* The order of the bids is kept by every step, and every election is fair.
LEMMA OrderPreserves ==
    ASSUME IndInv, BidOrder, NoRobError, [Next]_vars
    PROVE  BidOrder' /\ NoRobError' /\ FairElection
  <1> USE DEF roomVars, bidVars, handVars, dblVars, infoVars
  <1>1. CASE \E p \in Pos, a \in Actions : BidStep(p, a)
    BY <1>1, CallKeepsOrder, RobKeepsOrder DEF BidStep
  <1>2. CASE \E p \in Pos : ForceStep(p)
    <2>1. PICK p \in Pos : ForceStep(p)
      BY <1>2
    <2>2. /\ roomState \in {"CallLandlord", "RobLandlord"} /\ roomState' = roomState
          /\ lastAction' = lastAction /\ landlordPlayer' = p /\ skillState[p]
          /\ cs' = Held("landlordDelay", p)
      BY <2>1 DEF ForceStep, ForceRobLandlord
    <2>3. QED
      BY <2>2 DEF BidOrder, Bidding, Electing, Held, NoRobError, FairElection
  <1>3. CASE DealCardWaitOver
    <2>1. roomState = "DealCard" /\ cs' = cs
      BY <1>3, WhenDue DEF DealCardWaitOver, Due
    <2>2. /\ \A p \in Pos : lastAction'[p] = "nil"
          /\ roomState' = "CallLandlord" /\ landlordPlayer' = landlordPlayer
          /\ actionIndex' \in Pos
      BY <1>3, <2>1 DEF DealCardWaitOver, BidOrder
    <2>3. QED
      BY <2>2, Seats DEF BidOrder, Bidding, NoRobError, FairElection
  <1>4. CASE LandlordDelayOver
    <2>1. /\ roomState' = roomState /\ lastAction' = lastAction /\ Electing'
          /\ roomState \in {"CallLandlord", "RobLandlord"} /\ landlordPlayer' = landlordPlayer
      BY <1>4 DEF LandlordDelayOver, Electing, Held, IndInv, PhaseInv, CsInv
    <2>2. QED
      BY <2>1 DEF BidOrder, Bidding, NoRobError, FairElection
  <1>5. CASE /\ UNCHANGED <<roomState, actionIndex, lastAction, topBidder, landlordPlayer>>
             /\ Electing' = Electing
    BY <1>5 DEF BidOrder, Bidding, NoRobError, FairElection
  <1>6. CASE \/ \E p \in Pos : ShowStep(p)
             \/ \E p \in Pos, item \in {"super", "max"} : PayStep(p, item)
             \/ BottomReplied \/ AsideStep
    <2>1. UNCHANGED <<roomState, actionIndex, lastAction, topBidder, landlordPlayer>>
      BY <1>6 DEF ShowStep, ReqShowCard, PayStep, BottomReplied, AsideStep
    <2>2. Electing' = Electing
      BY <1>6 DEF ShowStep, ReqShowCard, PayStep, BottomReplied, AsideStep, Electing,
                  InHandOver, Held, Free
    <2>3. QED
      BY <1>5, <2>1, <2>2
  <1>7. ASSUME roomState' \notin {"DealCard", "CallLandlord", "RobLandlord"},
               landlordPlayer' = landlordPlayer
        PROVE  BidOrder' /\ NoRobError' /\ FairElection
    BY <1>7 DEF BidOrder, Bidding, NoRobError, FairElection
  <1>8. CASE \/ LandlordWaitOver \/ EffectOver \/ NextTurn \/ DoubleingOver \/ DoubleMaxOver
             \/ GameOver \/ RoomExit
    <2>1. EffectOver => roomState = "Playing"
      BY DEF EffectOver, IndInv, PhaseInv, CsInv
    <2>2. /\ roomState' \notin {"DealCard", "CallLandlord", "RobLandlord"}
          /\ landlordPlayer' = landlordPlayer
      BY <1>8, <2>1 DEF LandlordWaitOver, EffectOver, NextTurn, StartTurn, DoubleingOver,
                  DoubleMaxOver, GameOver, RoomExit
    <2>3. QED
      BY <1>7, <2>2
  <1>9. CASE \E p \in Pos : PlayStep(p)
    <2>1. roomState = "Playing" /\ UNCHANGED <<roomState, landlordPlayer>>
      BY <1>9, OpenTurn DEF PlayStep, PlayCards, Pass
    <2>2. QED
      BY <1>7, <2>1
  <1>10. CASE \/ \E p \in Pos, kind \in {"plain", "super"} : DoubleStep(p, kind)
              \/ \E p \in Pos, kind \in {"plain", "max"} : MaxStep(p, kind)
    <2>1. roomState \in {"Doubleing", "DoubleMax"} /\ UNCHANGED <<roomState, landlordPlayer>>
      BY <1>10, OpenTurn DEF DoubleStep, MaxStep, ApplyDouble, ApplyDoubleMax
    <2>2. QED
      BY <1>7, <2>1
  <1>11. QED
    BY <1>1, <1>2, <1>3, <1>4, <1>6, <1>8, <1>9, <1>10, StepKinds DEF DelayedStep

\* The bottom cards are given out once, and a spring is counted for farmers who hold all
\* their cards.
LEMMA BottomPreserves ==
    ASSUME IndInv, BottomCardsOnce, SpringInv, [Next]_vars
    PROVE  BottomCardsOnce' /\ SpringInv'
  <1> USE DEF roomVars, bidVars, handVars, dblVars, infoVars
  <1>0. /\ multiple \in [Keys -> Nat] /\ hand \in [Pos -> 0 .. HandSize + BottomSize]
        /\ playCount \in [Pos -> 0 .. 2] /\ landlordPlayer \in 0 .. 3
        /\ HandSize \in Nat /\ BottomSize \in Nat
        /\ {"spring", "bottomCard", "showCard", "springReverse"} = Keys /\ 0 \notin Pos
    BY RoomAssumption DEF IndInv, TypeOK, Keys, Pos
  <1>1. ASSUME UNCHANGED <<multiple, hand, playCount, landlordPlayer>>,
               cs.at = "landlordDelay" <=> cs'.at = "landlordDelay",
               roomState \in {"Ended", "Exited"} => roomState' \in {"Ended", "Exited"}
        PROVE  BottomCardsOnce' /\ SpringInv'
    BY <1>1 DEF BottomCardsOnce, SpringInv, Farmers
  <1>2. CASE \E p \in Pos, a \in Actions : BidStep(p, a)
    <2>1. PICK p \in Pos, a \in Actions : BidStep(p, a)
      BY <1>2
    <2>2. /\ cs = Free /\ playCount' = playCount /\ landlordPlayer = 0
          /\ roomState \in {"CallLandlord", "RobLandlord"} /\ \A r \in Pos : hand[r] = HandSize
          /\ \/ \E q \in Pos, s \in {"CallLandlord", "RobLandlord"} : Turn(s, q, p, a)
             \/ \E q, i \in Pos : Elect(q, i, p, a)
             \/ Redeal(p)
      BY <2>1, BidEnds, BidTurn DEF BidStep, BidRest
    <2>3. CASE \E q \in Pos, s \in {"CallLandlord", "RobLandlord"} : Turn(s, q, p, a)
      BY <1>1, <2>2, <2>3 DEF Turn
    <2>4. CASE \E q, i \in Pos : Elect(q, i, p, a)
      <3>1. PICK q \in Pos, i \in Pos : Elect(q, i, p, a)
        BY <2>4
      <3>2. /\ multiple' = Raise(multiple, {"bottomCard"}) /\ landlordPlayer' = q
            /\ hand' = [hand EXCEPT ![q] = @ + BottomSize] /\ cs'.at = "landlordWait"
            /\ multiple["bottomCard"] = 0 /\ multiple["spring"] = 0
        BY <1>0, <2>2, <3>1 DEF Elect, Held, BottomCardsOnce, SpringInv
      <3>3. BottomCardsOnce'
        BY <1>0, <2>2, <3>2 DEF Raise, BottomCardsOnce
      <3>4. QED
        BY <1>0, <3>2, <3>3 DEF Raise, SpringInv
    <2>5. CASE Redeal(p)
      <3>1. /\ multiple' = [multiple EXCEPT !["showCard"] = 0] /\ landlordPlayer' = 0
            /\ hand' = [r \in Pos |-> HandSize] /\ multiple["bottomCard"] = 0
            /\ multiple["spring"] = 0
        BY <1>0, <2>2, <2>5 DEF Redeal, FreshDeal, BottomCardsOnce, SpringInv
      <3>2. QED
        BY <1>0, <3>1 DEF BottomCardsOnce, SpringInv
    <2>6. QED
      BY <2>2, <2>3, <2>4, <2>5
  <1>3. CASE \E p \in Pos : ForceStep(p)
    <2>1. PICK p \in Pos : ForceStep(p)
      BY <1>3
    <2>2. /\ landlordPlayer = 0 /\ landlordPlayer' = p /\ cs'.at = "landlordDelay"
          /\ hand' = [hand EXCEPT ![p] = @ + BottomSize]
          /\ UNCHANGED <<multiple, playCount>>
          /\ multiple["bottomCard"] = 0 /\ multiple["spring"] = 0
      BY <1>0, <2>1 DEF ForceStep, ForceRobLandlord, Held, BottomCardsOnce, SpringInv
    <2>3. QED
      BY <1>0, <2>2 DEF BottomCardsOnce, SpringInv
  <1>4. CASE LandlordDelayOver
    <2>1. /\ multiple' = Raise(multiple, {"bottomCard"}) /\ cs'.at = "landlordWait"
          /\ landlordPlayer # 0
          /\ UNCHANGED <<hand, playCount, landlordPlayer>>
          /\ multiple["bottomCard"] = 0 /\ multiple["spring"] = 0
      BY <1>0, <1>4 DEF LandlordDelayOver, Held, BottomCardsOnce, SpringInv, IndInv, PhaseInv,
                  CsInv, BidInv, Electing
    <2>2. QED
      BY <1>0, <2>1 DEF Raise, BottomCardsOnce, SpringInv
  <1>5. CASE \E p \in Pos : PlayStep(p)
    <2>1. PICK p \in Pos : PlayStep(p)
      BY <1>5
    <2>2. /\ roomState = "Playing" /\ UNCHANGED <<multiple, landlordPlayer>>
          /\ cs.at # "landlordDelay" /\ cs'.at # "landlordDelay"
      BY <2>1, OpenTurn DEF PlayStep, PlayCards, Pass, TurnEnd, Free, Held
    <2>3. UNCHANGED <<hand, playCount>>
          \/ \E n \in Nat : /\ hand' = [hand EXCEPT ![p] = @ - n]
                            /\ playCount' = [playCount EXCEPT ![p] = IF @ = 2 THEN 2 ELSE @ + 1]
      BY <1>0, <2>1 DEF PlayStep, PlayCards, Pass
    <2>4. QED
      BY <1>0, <2>2, <2>3 DEF BottomCardsOnce, SpringInv
  <1>6. CASE GameOver
    <2>1. /\ roomState' = "Ended" /\ cs' = cs /\ UNCHANGED <<hand, playCount, landlordPlayer>>
          /\ Farmers' = Farmers
      BY <1>6 DEF GameOver, Farmers
    <2>2. roomState = "Playing"
      BY <1>6, WhenDue DEF GameOver
    <2>3. PICK keys \in SUBSET {"spring", "springReverse"} :
              /\ multiple' = Raise(multiple, keys)
              /\ "spring" \in keys => \A f \in Farmers : playCount[f] = 0
      <3>1. PICK w \in Pos :
                multiple' = Raise(multiple,
                    IF w = landlordPlayer
                    THEN IF \A f \in Farmers : playCount[f] = 0 THEN {"spring"} ELSE {}
                    ELSE IF playCount[landlordPlayer] = 1 THEN {"springReverse"} ELSE {})
        BY <1>6 DEF GameOver
      <3>2. QED
        BY <3>1
    <2>4. multiple'["bottomCard"] = multiple["bottomCard"]
          /\ ("spring" \in keys \/ multiple'["spring"] = multiple["spring"])
      BY <1>0, <2>3 DEF Raise
    <2>5. QED
      BY <1>0, <2>1, <2>2, <2>3, <2>4 DEF BottomCardsOnce, SpringInv
  <1>7. CASE \E p \in Pos : ShowStep(p)
    <2>1. /\ UNCHANGED <<hand, playCount, landlordPlayer, cs, roomState>>
          /\ multiple' \in {multiple, Raise(multiple, {"showCard"})}
      BY <1>7 DEF ShowStep, ReqShowCard
    <2>2. UNCHANGED <<multiple["bottomCard"], multiple["spring"]>>
      BY <1>0, <2>1 DEF Raise
    <2>3. QED
      BY <2>1, <2>2 DEF BottomCardsOnce, SpringInv, Farmers
  <1>8. CASE \/ \E p \in Pos, kind \in {"plain", "super"} : DoubleStep(p, kind)
             \/ \E p \in Pos, kind \in {"plain", "max"} : MaxStep(p, kind)
    <2>1. /\ UNCHANGED <<multiple, hand, playCount, landlordPlayer, roomState>>
          /\ cs.at # "landlordDelay" /\ cs'.at # "landlordDelay"
      BY <1>8 DEF DoubleStep, MaxStep, ApplyDouble, ApplyDoubleMax, Free, Held
    <2>2. QED
      BY <1>1, <2>1
  <1>9. CASE \/ \E p \in Pos, item \in {"super", "max"} : PayStep(p, item)
             \/ LandlordWaitOver \/ EffectOver \/ NextTurn \/ BottomReplied \/ AsideStep
             \/ DealCardWaitOver \/ DoubleingOver \/ DoubleMaxOver \/ RoomExit
    <2>1. UNCHANGED <<multiple, hand, playCount, landlordPlayer>>
      BY <1>9 DEF PayStep, LandlordWaitOver, EffectOver, NextTurn, StartTurn, BottomReplied,
                  AsideStep, DealCardWaitOver, DoubleingOver, DoubleMaxOver, RoomExit
    <2>2. RoomExit => roomState = "Ended"
      BY WhenDue DEF RoomExit, Due
    <2>3. cs.at = "landlordDelay" <=> cs'.at = "landlordDelay"
      BY <1>9, <2>2 DEF PayStep, LandlordWaitOver, EffectOver, TurnEnd, NextTurn, BottomReplied,
                  AsideStep, DealCardWaitOver, DoubleingOver, DoubleMaxOver, RoomExit, Free,
                  Held, InHandOver, IndInv, PhaseInv, CsInv, Electing
    <2>4. roomState \in {"Ended", "Exited"} => roomState' \in {"Ended", "Exited"}
      <3>1. /\ LandlordWaitOver => roomState \in {"CallLandlord", "RobLandlord"}
            /\ NextTurn => roomState = "Playing"
        BY DEF LandlordWaitOver, NextTurn, IndInv, PhaseInv, CsInv, Electing
      <3>2. /\ DealCardWaitOver => roomState = "DealCard"
            /\ DoubleingOver => roomState = "Doubleing"
            /\ DoubleMaxOver => roomState = "DoubleMax"
        BY WhenDue DEF DealCardWaitOver, DoubleingOver, DoubleMaxOver, Due
      <3>3. QED
        BY <1>9, <3>1, <3>2 DEF PayStep, EffectOver, BottomReplied, AsideStep, RoomExit
    <2>5. QED
      BY <1>1, <2>1, <2>3, <2>4
  <1>10. QED
    BY <1>2, <1>3, <1>4, <1>5, <1>6, <1>7, <1>8, <1>9, StepKinds DEF DelayedStep

\* There are finitely many seats.
LEMMA PosFinite == IsFiniteSet(Pos)
  <1>1. 1 \in Int /\ 3 \in Int
    OBVIOUS
  <1>2. IsFiniteSet(1 .. 3)
    BY <1>1, FS_Interval, Zenon
  <1>3. QED
    BY <1>2 DEF Pos

\* What players have shown and seen is always of this deal.
LEMMA InfoKept ==
    ASSUME IndInv, InfoOfThisDeal, [Next]_vars
    PROVE  InfoOfThisDeal'
  <1> USE DEF roomVars, bidVars, handVars, dblVars, infoVars
  <1> DEFINE Early  == {"DealCard", "CallLandlord", "RobLandlord"}
             Shown  == {p \in Pos : isShowcard[p]}
  <1>0. /\ multiple \in [Keys -> Nat] /\ "showCard" \in Keys
        /\ isShowcard \in [Pos -> BOOLEAN] /\ bottomSeen \in [Pos -> 0 .. MaxDeal]
        /\ IsFiniteSet(Shown)
    <2>1. IsFiniteSet(Pos)
      BY PosFinite
    <2>2. IsFiniteSet(Shown)
      BY <2>1, FS_Subset
    <2>3. QED
      BY <2>2 DEF IndInv, TypeOK, Keys
  <1>1. ASSUME UNCHANGED <<isShowcard, bottomSeen, dealCardCount>>,
               roomState' \in Early => roomState \in Early,
               multiple'["showCard"] = multiple["showCard"]
        PROVE  InfoOfThisDeal'
    BY <1>1 DEF InfoOfThisDeal
  <1>2. CASE \E p \in Pos, a \in Actions : BidStep(p, a)
    <2>1. PICK p \in Pos, a \in Actions : BidStep(p, a)
      BY <1>2
    <2>2. /\ roomState \in Early
          /\ \/ \E q \in Pos, s \in {"CallLandlord", "RobLandlord"} : Turn(s, q, p, a)
             \/ \E q, i \in Pos : Elect(q, i, p, a)
             \/ Redeal(p)
      BY <2>1, BidEnds, BidTurn DEF BidStep
    <2>3. CASE \/ \E q \in Pos, s \in {"CallLandlord", "RobLandlord"} : Turn(s, q, p, a)
               \/ \E q, i \in Pos : Elect(q, i, p, a)
      BY <1>0, <1>1, <2>2, <2>3 DEF Turn, Elect, Raise
    <2>4. CASE Redeal(p)
      <3>1. /\ bottomSeen' = [q \in Pos |-> 0] /\ isShowcard' = [q \in Pos |-> FALSE]
            /\ multiple'["showCard"] = 0
        BY <1>0, <2>4 DEF Redeal, FreshDeal
      <3>2. {q \in Pos : isShowcard'[q]} = {}
        BY <3>1
      <3>3. QED
        BY <3>1, <3>2, FS_EmptySet DEF InfoOfThisDeal
    <2>5. QED
      BY <2>2, <2>3, <2>4
  <1>3. CASE \E p \in Pos : ShowStep(p)
    <2>1. PICK p \in Pos : ShowStep(p)
      BY <1>3
    <2>2. /\ ~isShowcard[p] /\ isShowcard' = [isShowcard EXCEPT ![p] = TRUE]
          /\ UNCHANGED <<bottomSeen, dealCardCount, roomState>>
          /\ roomState \in Early => multiple'["showCard"] = multiple["showCard"] + 1
      BY <1>0, <2>1 DEF ShowStep, ReqShowCard, Raise
    <2>3. {q \in Pos : isShowcard'[q]} = Shown \cup {p} /\ p \notin Shown
      BY <1>0, <2>2
    <2>4. Cardinality(Shown \cup {p}) = Cardinality(Shown) + 1
      BY <1>0, <2>3, FS_AddElement
    <2>5. QED
      BY <2>2, <2>3, <2>4 DEF InfoOfThisDeal
  <1>4. CASE BottomReplied
    <2>1. /\ bottomSeen' = [bottomSeen EXCEPT ![cs.who] = dealCardCount]
          /\ UNCHANGED <<isShowcard, dealCardCount, roomState, multiple>>
      BY <1>4 DEF BottomReplied
    <2>2. QED
      BY <1>0, <2>1 DEF InfoOfThisDeal
  <1>5. CASE GameOver
    <2>1. /\ UNCHANGED <<isShowcard, bottomSeen, dealCardCount>> /\ roomState' = "Ended"
      BY <1>5 DEF GameOver
    <2>2. QED
      BY <2>1 DEF InfoOfThisDeal
  <1>6. CASE \E p \in Pos : ForceStep(p) \/ PlayStep(p)
    BY <1>1, <1>6 DEF ForceStep, ForceRobLandlord, PlayStep, PlayCards, Pass
  <1>7. CASE \/ \E p \in Pos, kind \in {"plain", "super"} : DoubleStep(p, kind)
             \/ \E p \in Pos, kind \in {"plain", "max"} : MaxStep(p, kind)
    BY <1>1, <1>7 DEF DoubleStep, MaxStep, ApplyDouble, ApplyDoubleMax
  <1>8. CASE \/ \E p \in Pos, item \in {"super", "max"} : PayStep(p, item)
             \/ LandlordWaitOver \/ EffectOver \/ NextTurn \/ AsideStep
             \/ DoubleingOver \/ DoubleMaxOver \/ RoomExit
    BY <1>1, <1>8 DEF PayStep, LandlordWaitOver, EffectOver, NextTurn, StartTurn,
                AsideStep, DoubleingOver, DoubleMaxOver, RoomExit
  <1>9. CASE LandlordDelayOver
    BY <1>0, <1>1, <1>9 DEF LandlordDelayOver, Raise
  <1>10. CASE DealCardWaitOver
    <2>1. roomState = "DealCard"
      BY <1>10, WhenDue DEF DealCardWaitOver, Due
    <2>2. QED
      BY <1>1, <1>10, <2>1 DEF DealCardWaitOver
  <1>11. QED
    BY <1>2, <1>3, <1>4, <1>5, <1>6, <1>7, <1>8, <1>9, <1>10, StepKinds DEF DelayedStep

\* The room's invariant with the conjuncts the properties below are read off from.
FullInv == IndInv /\ DealingInv /\ PlayerInv

LEMMA FullInitially == Init => FullInv
  <1> SUFFICES ASSUME Init PROVE DealingInv /\ PlayerInv
    BY Initially DEF FullInv
  <1> USE RoomAssumption DEF Init, Pos
  <1>1. BidOrder /\ SpringInv /\ NoRobError /\ BottomCardsOnce
    BY DEF BidOrder, Bidding, SpringInv, NoRobError, BottomCardsOnce, Keys
  <1>2. InfoOfThisDeal
    <2>1. {p \in Pos : isShowcard[p]} = {}
      OBVIOUS
    <2>2. QED
      BY <2>1, FS_EmptySet DEF InfoOfThisDeal, Keys
  <1>3. PassHasTarget /\ TakenInv
    BY DEF PassHasTarget, TakenInv, Free
  <1>4. PaidIffDoubled
    BY DEF PaidIffDoubled, Free, Held
  <1>5. QED
    BY <1>1, <1>2, <1>3, <1>4 DEF DealingInv, PlayerInv

LEMMA FullInductive == FullInv /\ [Next]_vars => FullInv' /\ FairElection
  BY Inductive, PassPreserves, PaidPreserves, OrderPreserves, BottomPreserves, InfoKept
     DEF FullInv, DealingInv, PlayerInv

\* The invariant of the deal and of the players holds in every state of the room.
THEOREM RoomInvariance == Spec => []FullInv
  BY FullInitially, FullInductive, PTL DEF Spec

\* "RobLandlord error!" is never logged: while players are asked to rob, somebody holds
\* a bid, and the ten-step search for the next bidder always finds another player.
THEOREM RobNeverFails == Spec => []NoRobError
  <1>1. FullInv => NoRobError
    BY DEF FullInv, DealingInv
  <1>2. QED
    BY <1>1, RoomInvariance, PTL

\* Whoever becomes landlord made the last bid, forced it by skill, or was the first to
\* be asked in the last deal that everybody passed (Room.actionEnd).
THEOREM LastBidWins == Spec => HighestBidderWins
  <1>1. FullInv /\ [Next]_vars => FairElection
    BY FullInductive
  <1>2. QED
    BY <1>1, RoomInvariance, PTL DEF Spec, HighestBidderWins, FairElection

\* setLandlord gives the bottom cards and their factor to one player, once, also when a
\* skill has delayed it.
THEOREM BottomCardsGivenOnce == Spec => []BottomCardsOnce
  <1>1. FullInv => BottomCardsOnce
    BY DEF FullInv, DealingInv
  <1>2. QED
    BY <1>1, RoomInvariance, PTL

\* Peeks at the bottom cards and shown hands are of the current deal.
THEOREM NothingFromEarlierDeals == Spec => []InfoOfThisDeal
  <1>1. FullInv => InfoOfThisDeal
    BY DEF FullInv, DealingInv
  <1>2. QED
    BY <1>1, RoomInvariance, PTL

\* PlayCard without cards never looks at a lastPlayCardObj that is nil or the player's own.
THEOREM PassAnswersSomebody == Spec => []PassHasTarget
  <1>1. FullInv => PassHasTarget
    BY DEF FullInv, PlayerInv
  <1>2. QED
    BY <1>1, RoomInvariance, PTL

\* A person pays for a doubling exactly when it takes effect, whatever happens while the
\* agent is asked.
THEOREM DoublingIsPaid == Spec => []PaidIffDoubled
  <1>1. FullInv => PaidIffDoubled
    BY DEF FullInv, PlayerInv
  <1>2. QED
    BY <1>1, RoomInvariance, PTL

\* One player wins, in that player's turn, and a spring is counted only for farmers who
\* hold every card they were dealt.
THEOREM WinnerIsUnique == Spec => []OneWinner
  <1>1. ASSUME FullInv PROVE OneWinner
    <2>1. /\ \A p \in Pos : hand[p] = 0 => p = actionIndex
          /\ roomState \in {"Ended", "Exited"} => hand[actionIndex] = 0
      BY <1>1 DEF FullInv, IndInv, PhaseInv, PlayInv, HandInv
    <2>2. multiple["spring"] > 0 => \A f \in Farmers : hand[f] = HandSize
      BY <1>1, RoomAssumption DEF FullInv, DealingInv, SpringInv, BottomCardsOnce, Farmers
    <2>3. QED
      BY <2>1, <2>2 DEF OneWinner
  <1>2. QED
    BY <1>1, RoomInvariance, PTL

-----------------------------------------------------------------------------
(***************************************************************************)
(* The room implements LandlordGame: every step of a room is a step of     *)
(* that game or leaves it as it is.                                        *)
(***************************************************************************)

LEMMA AfterIsNext == \A p \in Pos : Game!After(p) = NextPos(p)
  BY DEF Pos, Game!After, NextPos

\* A step that changes neither phase nor deal nor landlord, nor the turn while it shows.
LEMMA GameStutters ==
    ASSUME PhaseOf' = PhaseOf, UNCHANGED <<dealCardCount, landlordPlayer>>,
           PhaseOf \in {"playing", "over"} => actionIndex' = actionIndex
    PROVE  UNCHANGED Game!gameVars
  BY DEF Game!gameVars

LEMMA StepImplements ==
    ASSUME IndInv, [Next]_vars
    PROVE  [Game!GameNext]_(Game!gameVars)
  <1> USE DEF roomVars, bidVars, handVars, dblVars, infoVars
  <1>1. CASE \E p \in Pos, a \in Actions : BidStep(p, a)
    <2>1. PICK p \in Pos, a \in Actions : BidStep(p, a)
      BY <1>1
    <2>2. /\ roomState \in {"CallLandlord", "RobLandlord"} /\ landlordPlayer = 0
          /\ \/ \E q \in Pos, s \in {"CallLandlord", "RobLandlord"} : Turn(s, q, p, a)
             \/ \E q, i \in Pos : Elect(q, i, p, a)
             \/ dealCardCount < MaxDeal /\ Redeal(p)
      BY <2>1, BidEnds, BidTurn DEF BidStep
    <2>3. CASE \E q \in Pos, s \in {"CallLandlord", "RobLandlord"} : Turn(s, q, p, a)
      BY <2>2, <2>3, GameStutters DEF Turn, PhaseOf
    <2>4. CASE \E q, i \in Pos : Elect(q, i, p, a)
      <3>1. \E q \in Pos : Game!Choose(q)
        BY <2>2, <2>4 DEF Elect, Game!Choose, PhaseOf
      <3>2. QED
        BY <3>1 DEF Game!GameNext, Game!Seats, Pos
    <2>5. CASE dealCardCount < MaxDeal /\ Redeal(p)
      <3>1. Game!DealAgain
        BY <2>2, <2>5 DEF Redeal, FreshDeal, Game!DealAgain, PhaseOf
      <3>2. QED
        BY <3>1 DEF Game!GameNext
    <2>6. QED
      BY <2>2, <2>3, <2>4, <2>5
  <1>2. CASE \E p \in Pos : ForceStep(p)
    <2>1. \E q \in Pos : Game!Choose(q)
      BY <1>2 DEF ForceStep, ForceRobLandlord, Game!Choose, PhaseOf
    <2>2. QED
      BY <2>1 DEF Game!GameNext, Game!Seats, Pos
  <1>3. CASE LandlordWaitOver
    <2>1. roomState \in {"CallLandlord", "RobLandlord"} /\ landlordPlayer # 0
      BY <1>3 DEF LandlordWaitOver, IndInv, PhaseInv, CsInv, BidInv, Electing, Pos
    <2>2. Game!BeginDoubling
      BY <1>3, <2>1 DEF LandlordWaitOver, Game!BeginDoubling, PhaseOf
    <2>3. QED
      BY <2>2 DEF Game!GameNext
  <1>4. CASE DoubleMaxOver
    <2>1. roomState = "DoubleMax"
      BY <1>4, WhenDue DEF DoubleMaxOver, Due
    <2>2. Game!BeginPlay
      BY <1>4, <2>1 DEF DoubleMaxOver, StartTurn, Game!BeginPlay, PhaseOf
    <2>3. QED
      BY <2>2 DEF Game!GameNext
  <1>5. CASE NextTurn
    <2>1. roomState = "Playing" /\ actionIndex \in Pos
      BY <1>5 DEF NextTurn, IndInv, TypeOK, PhaseInv, CsInv
    <2>2. Game!After(actionIndex) = NextPos(actionIndex)
      BY <2>1, AfterIsNext
    <2>3. Game!PassTheTurn
      BY <1>5, <2>1, <2>2 DEF NextTurn, StartTurn, Game!PassTheTurn, PhaseOf
    <2>4. QED
      BY <2>3 DEF Game!GameNext
  <1>6. CASE GameOver
    <2>1. roomState = "Playing" /\ hand[actionIndex] = 0
      BY <1>6, WhenDue DEF GameOver
    <2>2. actionIndex' = actionIndex
      BY <1>6, <2>1 DEF GameOver, IndInv, TypeOK, PhaseInv, PlayInv
    <2>3. Game!Finish
      BY <1>6, <2>1, <2>2 DEF GameOver, Game!Finish, PhaseOf
    <2>4. QED
      BY <2>3 DEF Game!GameNext
  <1>7. CASE \E p \in Pos : PlayStep(p)
    <2>1. PICK p \in Pos : PlayStep(p)
      BY <1>7
    <2>2. pstate[p] = "Playing"
      BY <2>1 DEF PlayStep, PlayCards, Pass
    <2>3. p = actionIndex
      BY <2>2, OpenTurn
    <2>4. UNCHANGED <<roomState, actionIndex, dealCardCount, landlordPlayer>>
      BY <2>1, <2>3 DEF PlayStep, PlayCards, Pass, TurnEnd
    <2>5. QED
      BY <2>4, GameStutters DEF PhaseOf
  <1>8. CASE EffectOver
    <2>1. cs.who = actionIndex
      BY <1>8 DEF EffectOver, IndInv, PhaseInv, CsInv, PlayInv
    <2>2. UNCHANGED <<roomState, actionIndex, dealCardCount, landlordPlayer>>
      BY <1>8, <2>1 DEF EffectOver, TurnEnd
    <2>3. QED
      BY <2>2, GameStutters DEF PhaseOf
  <1>9. CASE \/ \E p \in Pos, kind \in {"plain", "super"} : DoubleStep(p, kind)
             \/ \E p \in Pos, kind \in {"plain", "max"} : MaxStep(p, kind)
    <2>1. /\ roomState \in {"Doubleing", "DoubleMax"}
          /\ UNCHANGED <<roomState, dealCardCount, landlordPlayer>>
      BY <1>9, OpenTurn DEF DoubleStep, MaxStep, ApplyDouble, ApplyDoubleMax
    <2>2. QED
      BY <2>1, GameStutters DEF PhaseOf
  <1>10. CASE DealCardWaitOver \/ DoubleingOver
    <2>1. /\ DealCardWaitOver => roomState = "DealCard"
          /\ DoubleingOver => roomState = "Doubleing"
      BY WhenDue DEF DealCardWaitOver, DoubleingOver, Due
    <2>2. QED
      BY <1>10, <2>1, GameStutters DEF DealCardWaitOver, DoubleingOver, PhaseOf
  <1>11. CASE RoomExit
    <2>1. roomState = "Ended"
      BY <1>11, WhenDue DEF RoomExit, Due
    <2>2. QED
      BY <1>11, <2>1, GameStutters DEF RoomExit, PhaseOf
  <1>12. CASE \/ \E p \in Pos : ShowStep(p)
              \/ \E p \in Pos, item \in {"super", "max"} : PayStep(p, item)
              \/ LandlordDelayOver \/ BottomReplied \/ AsideStep
    BY <1>12, GameStutters DEF ShowStep, ReqShowCard, PayStep, LandlordDelayOver, BottomReplied,
                               AsideStep, PhaseOf
  <1>13. QED
    BY <1>1, <1>2, <1>3, <1>4, <1>5, <1>6, <1>7, <1>8, <1>9, <1>10, <1>11, <1>12, StepKinds
       DEF DelayedStep

\* The room, with its lock, its timers and the steps outside the lock, plays the game of
\* LandlordGame: at most MaxDeal deals, one landlord, who opens the play, and turns that
\* go round the table.
THEOREM RoomPlaysTheGame == Spec => PlaysTheGame
  <1>1. Init => Game!GameInit
    BY DEF Init, Game!GameInit, PhaseOf
  <1>2. IndInv /\ [Next]_vars => [Game!GameNext]_(Game!gameVars)
    BY StepImplements
  <1>3. QED
    BY <1>1, <1>2, Invariance, PTL DEF Spec, PlaysTheGame, Game!GameSpec

=============================================================================
