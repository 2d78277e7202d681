----------------------------- MODULE TurnTimer -----------------------------
(***************************************************************************)
(* The clock of one player's turns (Player:setActionState in               *)
(* game/ddz/Player.lua, timer.create in lualib/timer.lua and its override  *)
(* in game/ddz/main.lua).                                                  *)
(*                                                                         *)
(* A turn starts a timer of Ticks ticks; when it ends, its on_end callback *)
(* starts a second one that counts the rest of the clock in seconds.       *)
(* player.cancel_timer is the handle of the timer created last.  Cancelling*)
(* only clears the callback: a tick that is already waiting for cs runs,   *)
(* and if it was the last one the timer's on_end runs too.                 *)
(*                                                                         *)
(* Turns[i] is the kind of the player's i-th turn.  When turns start is    *)
(* DdzRoom's business: here one may start whenever none is open, inside cs *)
(* or outside.  cs is its FIFO queue and its holder (CriticalSection shows *)
(* that the lock behaves like that); a holder may sleep, and only then     *)
(* does time pass with cs taken.  One time unit is the 0.1 s of a tick.    *)
(***************************************************************************)
EXTENDS Integers, Sequences

CONSTANTS Turns,      \* kinds of the turns: "Bid", "Double", "Play"
          Ticks,      \* ticks of the first timer (20)
          Shortest,   \* least random delay of trusteeship, in ticks (12)
          Clock,      \* seconds left to the second timer (3 to 18)
          Second,     \* time units in a second (10)
          MaxQueue    \* bound on the requests waiting for cs

Kinds == {"Bid", "Double", "Play"}

ASSUME TimerAssumption ==
    /\ Turns \in Seq(Kinds)
    /\ Ticks \in Nat \ {0} /\ Shortest \in 1 .. Ticks
    /\ Clock \in Nat \ {0} /\ Second \in Nat \ {0} /\ MaxQueue \in Nat

TurnIds  == 1 .. Len(Turns)
TimerIds == TurnIds \X {1, 2}

\* What the player, or another player's handler, may ask for: the turn's action (pay:
\* after a call to the agent), trusteeship on or off, actionStopAll, or something
\* that only takes time.
Requests == {"act", "pay", "on", "off", "stop", "other"}

Nobody  == <<0, 0>>
Request == <<0, 1>>
Paying  == <<0, 2>>

VARIABLES
    turn,           \* number of the turn started last
    open,           \* player.state is that turn's state (else Waiting)
    isTrusteeship,  \* player.isTrusteeship
    clock,          \* player.clock, -1 standing for every negative value
    cancel_timer,   \* the timer player.cancel_timer cancels, Nobody at first
    timers,         \* the timers created so far
    queue,          \* threads waiting for cs: timers (func or on_end) and requests
    holder,         \* who is in cs: a timer's func, a request, or Nobody
    asleep          \* the holder is in a skynet.sleep or skynet.call

vars == <<turn, open, isTrusteeship, clock, cancel_timer, timers, queue, holder, asleep>>

(***************************************************************************)
(* at: none    not created             func  waiting for cs to run func    *)
(*     sleep   skynet.timeout pending   run   func is running in cs        *)
(*     done    over, or cancelled       end   waiting for cs to run on_end *)
(* live: func is not nil.  left: iteration.  wait: time to the next tick.  *)
(* trusteeshipTime: as in the first timer's func.                          *)
(***************************************************************************)
TimerRecord == [at : {"none", "sleep", "func", "run", "end", "done"}, live : BOOLEAN,
                left : -1 .. (Ticks + Clock), wait : 0 .. (1 + Second),
                trusteeshipTime : 0 .. Ticks]

TypeOK ==
    /\ turn \in 0 .. Len(Turns)
    /\ open \in BOOLEAN
    /\ isTrusteeship \in BOOLEAN
    /\ clock \in -1 .. Clock
    /\ cancel_timer \in TimerIds \cup {Nobody}
    /\ timers \in [TimerIds -> TimerRecord]
    /\ queue \in Seq([thread : TimerIds \cup {Request}, ask : Requests \cup {"timer"}])
    /\ holder \in TimerIds \cup {Nobody, Request, Paying}
    /\ asleep \in BOOLEAN

Callback(id) == [thread |-> id, ask |-> "timer"]
Asking(r)    == [thread |-> Request, ask |-> r]

Timer(left, wait, t) ==
    [at |-> "sleep", live |-> TRUE, left |-> left, wait |-> wait, trusteeshipTime |-> t]

\* what is left of a timer that is not referenced any more, or not created yet
Absent(at) == [at |-> at, live |-> FALSE, left |-> 0, wait |-> 0, trusteeshipTime |-> 0]
Over == Absent("done")

Init ==
    /\ turn = 0 /\ open = FALSE
    /\ isTrusteeship = FALSE
    /\ clock = 0
    /\ cancel_timer = Nobody
    /\ timers = [id \in TimerIds |-> Absent("none")]
    /\ queue = <<>>
    /\ holder = Nobody /\ asleep = FALSE

-----------------------------------------------------------------------------
\* Player:setActionState for a state with a clock
StartTurn ==
    /\ ~open /\ turn < Len(Turns)
    /\ turn' = turn + 1
    /\ open' = TRUE
    /\ clock' = Clock
    /\ \E t \in Shortest .. Ticks :
           timers' = [timers EXCEPT ![<<turn + 1, 1>>] = Timer(Ticks, 1, t)]
    /\ cancel_timer' = <<turn + 1, 1>>
    /\ UNCHANGED <<isTrusteeship, queue, holder, asleep>>

\* cancel_handle
Cancelled(ts) ==
    [id \in TimerIds |-> IF id = cancel_timer THEN [ts[id] EXCEPT !.live = FALSE] ELSE ts[id]]

(***************************************************************************)
(* The turn's action: state = Waiting, clearClock, and what follows in cs, *)
(* with or without a sleep.  ts are the timers as the caller leaves them.  *)
(***************************************************************************)
EndTurn(ts) ==
    /\ open' = FALSE
    /\ clock' = 0
    /\ timers' = Cancelled(ts)
    /\ asleep' \in BOOLEAN
    /\ UNCHANGED <<turn, cancel_timer>>

NoAction(ts) ==
    /\ timers' = ts
    /\ asleep' = FALSE
    /\ UNCHANGED <<turn, open, clock, cancel_timer>>

\* Player:trusteeshipAction(state) with the state of turn i: its request checks that
\* this is still player.state.
TrusteeshipAction(i, ts) ==
    IF open /\ Turns[i] = Turns[turn] THEN EndTurn(ts) ELSE NoAction(ts)

\* Player:SetTrusteeship. Unlike the timers it acts for the current state.
SetTrusteeship(on, ts) ==
    /\ isTrusteeship' = on
    /\ IF on /\ ~isTrusteeship /\ open THEN EndTurn(ts) ELSE NoAction(ts)

-----------------------------------------------------------------------------
\* The callback cb of timer.create: func is looked at before cs is entered.
Fire(id) ==
    /\ timers[id].at = "sleep" /\ timers[id].wait = 0
    /\ IF timers[id].live
       THEN /\ timers' = [timers EXCEPT ![id].at = "func"]
            /\ queue' = Append(queue, Callback(id))
       ELSE /\ timers' = [timers EXCEPT ![id] = Over]
            /\ UNCHANGED queue
    /\ UNCHANGED <<turn, open, isTrusteeship, clock, cancel_timer, holder, asleep>>

\* Mutant of Tick: trusteeshipTime has to fall below zero.
TickBelowZero(id) ==
    LET t  == timers[id].trusteeshipTime
        t1 == IF t = 0 THEN 0 ELSE t - 1
        ts == [timers EXCEPT ![id].at = "run", ![id].trusteeshipTime = t1]
    IN  /\ IF t = 0 /\ isTrusteeship THEN TrusteeshipAction(id[1], ts) ELSE NoAction(ts)
        /\ UNCHANGED isTrusteeship

\* The first timer's func
Tick(id) ==
    LET t  == timers[id].trusteeshipTime
        t1 == IF t = 0 THEN 0 ELSE t - 1
        ts == [timers EXCEPT ![id].at = "run", ![id].trusteeshipTime = t1]
    IN  /\ IF t1 = 0 /\ isTrusteeship THEN TrusteeshipAction(id[1], ts) ELSE NoAction(ts)
        /\ UNCHANGED isTrusteeship

\* The second timer's func
CountDown(id) ==
    /\ clock' = IF clock <= 0 THEN -1 ELSE clock - 1
    /\ timers' = [timers EXCEPT ![id].at = "run"]
    /\ asleep' = FALSE
    /\ UNCHANGED <<turn, open, isTrusteeship, cancel_timer>>

\* Mutant of StartCountDown: the second timer is not started.
NoCountDown(id) ==
    /\ timers' = [timers EXCEPT ![id] = Over]
    /\ UNCHANGED <<turn, open, isTrusteeship, clock, cancel_timer>>

\* The first timer's on_end
StartCountDown(id) ==
    /\ timers' = [timers EXCEPT ![id] = Over, ![<<id[1], 2>>] = Timer(clock, Second, 0)]
    /\ cancel_timer' = <<id[1], 2>>
    /\ UNCHANGED <<turn, open, isTrusteeship, clock>>

\* The second timer's on_end
TimeOut(id) ==
    LET ts == [timers EXCEPT ![id] = Over]
    IN  IF Turns[id[1]] = "Double"
        THEN TrusteeshipAction(id[1], ts) /\ UNCHANGED isTrusteeship
        ELSE SetTrusteeship(TRUE, ts)

\* A timer's thread gets cs, for func or for on_end.
EnterTimer(id) ==
    /\ holder = Nobody /\ queue # <<>> /\ Head(queue) = Callback(id)
    /\ queue' = Tail(queue)
    /\ \/ /\ timers[id].at = "func"
          /\ holder' = id
          /\ IF id[2] = 1 THEN Tick(id) ELSE CountDown(id)
       \/ /\ timers[id].at = "end" /\ id[2] = 1
          /\ StartCountDown(id)
          /\ UNCHANGED <<holder, asleep>>
       \/ /\ timers[id].at = "end" /\ id[2] = 2
          /\ TimeOut(id)
          /\ holder' = IF asleep' THEN Request ELSE Nobody

\* Mutant of Continue: the timer never gets to its end.
NeverEnds(id, left) ==
    /\ timers' = [timers EXCEPT ![id].at = "sleep", ![id].left = left,
                                ![id].wait = IF id[2] = 1 THEN 1 ELSE Second]
    /\ UNCHANGED queue

\* cb after func returned: another round, or on_end, which has to enter cs again
Continue(id, left) ==
    IF left # 0
    THEN /\ timers' = [timers EXCEPT ![id].at = "sleep", ![id].left = left,
                                     ![id].wait = IF id[2] = 1 THEN 1 ELSE Second]
         /\ UNCHANGED queue
    ELSE /\ timers' = [timers EXCEPT ![id].at = "end", ![id].left = 0]
         /\ queue' = Append(queue, Callback(id))

OneLess(left) == IF left > 0 THEN left - 1 ELSE left

FuncReturns(id) ==
    /\ holder = id
    /\ holder' = Nobody /\ asleep' = FALSE
    /\ Continue(id, OneLess(timers[id].left))
    /\ UNCHANGED <<turn, open, isTrusteeship, clock, cancel_timer>>

-----------------------------------------------------------------------------
RequestArrives(r) ==
    /\ Len(queue) < MaxQueue
    /\ queue' = Append(queue, Asking(r))
    /\ UNCHANGED <<turn, open, isTrusteeship, clock, cancel_timer, timers, holder, asleep>>

\* Player:playerRequest inside cs
EnterRequest(r) ==
    /\ holder = Nobody /\ queue # <<>> /\ Head(queue) = Asking(r)
    /\ queue' = Tail(queue)
    /\ \/ /\ r = "act" /\ UNCHANGED isTrusteeship
          /\ IF open THEN EndTurn(timers) ELSE NoAction(timers)
       \/ /\ r = "stop" /\ UNCHANGED isTrusteeship
          /\ IF turn > 0 /\ Turns[turn] = "Bid" THEN EndTurn(timers) ELSE NoAction(timers)
       \/ r = "on" /\ SetTrusteeship(TRUE, timers)
       \/ r = "off" /\ SetTrusteeship(FALSE, timers)
       \/ /\ r = "other" \/ (r = "pay" /\ open)
          /\ asleep' = TRUE
          /\ UNCHANGED <<turn, open, isTrusteeship, clock, cancel_timer, timers>>
       \/ r = "pay" /\ ~open /\ NoAction(timers) /\ UNCHANGED isTrusteeship
    /\ holder' = IF ~asleep' THEN Nobody ELSE IF r = "pay" THEN Paying ELSE Request

\* A request that slept goes on; one that waited for the agent acts only now.
RequestReturns ==
    /\ \/ /\ holder = Request
          /\ asleep' = FALSE
          /\ UNCHANGED <<turn, open, clock, cancel_timer, timers>>
       \/ holder = Paying /\ EndTurn(timers)
    /\ holder' = IF asleep' THEN Request ELSE Nobody
    /\ UNCHANGED <<isTrusteeship, queue>>

\* Time passes once every expired timeout was delivered, however far the service is
\* behind with what waits for cs.
Advance ==
    /\ \A id \in TimerIds : timers[id].at = "sleep" => timers[id].wait > 0
    /\ \E id \in TimerIds : timers[id].at = "sleep"
    /\ timers' = [id \in TimerIds |->
           IF timers[id].at = "sleep" THEN [timers[id] EXCEPT !.wait = @ - 1] ELSE timers[id]]
    /\ UNCHANGED <<turn, open, isTrusteeship, clock, cancel_timer, queue, holder, asleep>>

CsStep ==
    \/ \E id \in TimerIds : EnterTimer(id) \/ FuncReturns(id)
    \/ \E r \in Requests : EnterRequest(r)
    \/ RequestReturns

FireSome == \E id \in TimerIds : Fire(id)

Next ==
    \/ StartTurn
    \/ \E r \in Requests : RequestArrives(r)
    \/ FireSome \/ CsStep \/ Advance

Spec == Init /\ [][Next]_vars

(***************************************************************************)
(* Expired timeouts are delivered, who may enter cs does and who sleeps    *)
(* wakes up.  Time passes however busily players send requests: strong     *)
(* fairness.                                                               *)
(***************************************************************************)
FairSpec == Spec /\ WF_vars(FireSome) /\ WF_vars(CsStep) /\ SF_vars(Advance)

-----------------------------------------------------------------------------
\* A timer that goes on: no cancellation reaches it any more, or none has.
Running(id) ==
    \/ timers[id].at \in {"func", "run", "end"}
    \/ timers[id].at = "sleep" /\ timers[id].live

\* An open turn has a clock of its own that nothing has cancelled, whatever the
\* clocks of earlier turns, which may still run, do to player.cancel_timer.
TurnHasClock == open => \E phase \in {1, 2} : Running(<<turn, phase>>)

(***************************************************************************)
(* Every turn ends, even if its player never answers, but for one case:    *)
(* the rounds of its second timer are player.clock when the first one ends,*)
(* and the clocks of two earlier turns that still run can have counted it  *)
(* below zero, which timer.create takes for a timer without an end.  One   *)
(* stale clock is not enough: the first two turns end.                     *)
(***************************************************************************)
Endless(id) == timers[id].left = -1

TurnEnds == open ~> ~open \/ (turn > 2 /\ Endless(<<turn, 2>>))

\* Under trusteeship no turn waits for its clock to run out, which would do nothing:
\* SetTrusteeship returns early then. The ticks of the first two seconds see to it,
\* the longest random delay being just as long as they are.
TrusteeshipPlays == open /\ isTrusteeship ~> ~open \/ ~isTrusteeship

-----------------------------------------------------------------------------
(***************************************************************************)
(* The inductive invariant.  An open turn is at one of four stages of its  *)
(* own clock; a player in trusteeship never gets past the first timer,     *)
(* because trusteeshipTime is used up before its ticks are.                *)
(***************************************************************************)

ClockStage(i) ==
    LET first == timers[<<i, 1>>]
    IN  \/ /\ first.at \in {"sleep", "func"} /\ first.live /\ first.left >= 1
           /\ isTrusteeship => first.trusteeshipTime \in 1 .. first.left
        \/ /\ first.at = "run" /\ first.live /\ first.left >= 1
           /\ isTrusteeship => first.trusteeshipTime \in 1 .. first.left - 1
        \/ first.at = "end" /\ ~isTrusteeship
        \/ first.at = "done" /\ ~isTrusteeship /\ Running(<<i, 2>>) /\ timers[<<i, 2>>].live

ClockInv ==
    /\ open => turn > 0 /\ ClockStage(turn)
    /\ holder \in TimerIds => timers[holder].at = "run"
    /\ \A id \in TimerIds : id[1] > turn => timers[id].at = "none"

=============================================================================
