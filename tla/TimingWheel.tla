---------------------------- MODULE TimingWheel ----------------------------
(***************************************************************************)
(* The timers of a skynet node, skynet_timer.c: a near list per tick of    *)
(* the current block, and four levels of lists for blocks further away.    *)
(* The timer thread advances the wheel tick by tick; any thread adds       *)
(* timers with skynet_timeout.  The spinlock of the wheel is held except   *)
(* while a list of due timers is dispatched.                               *)
(*                                                                         *)
(* The sizes of the lists are constants, so that a word (32 bits in the    *)
(* code) is small enough to wrap.  They are powers of two in the code; the *)
(* shifts and masks by them are \div and % here, and that they are powers  *)
(* of two is not used.  A timer has an identity that is free again once    *)
(* its message is sent, and "wait" counts, beside the program's variables, *)
(* the ticks it still has to wait.                                         *)
(***************************************************************************)
EXTENDS Integers, Sequences, FiniteSets

CONSTANTS TIME_NEAR,    \* 2^8 in the code
          TIME_LEVEL,   \* 2^6 in the code
          Timers,       \* identities of timers: a bound on those that exist at a time
          Delays,       \* the arguments of skynet_timeout
          MaxLag        \* bound on the ticks that pass between two calls of skynet_updatetime

\* The ticks that near and the levels below i cover together: the mask add_node compares
\* with at level i - 1, and timer_shift at level i.
Cover[i \in 0..4] == IF i = 0 THEN TIME_NEAR ELSE Cover[i - 1] * TIME_LEVEL

Word == Cover[4]

ASSUME WheelAssumption ==
    /\ TIME_NEAR \in Nat \ {0, 1} /\ TIME_LEVEL \in Nat \ {0, 1}
    /\ Delays \subseteq Int /\ \A d \in Delays : d < Word \div 2
    /\ MaxLag \in Nat \ {0}

VARIABLES near,     \* T->near
          t,        \* T->t
          time,     \* T->time
          due,      \* the list that dispatch_list goes through, outside the lock
          pc,       \* the timer thread: "idle", "first" and "second" timer_execute, "shift"
          clock,    \* the ticks of gettime() that skynet_updatetime has not seen
          diff,     \* the calls of timer_update left of this skynet_updatetime
          current,  \* TI->current, modulo Word
          wait      \* for each timer, the ticks left to wait; -1 when there is none

vars == <<near, t, time, due, pc, clock, diff, current, wait>>

\* Bit operations on words: x | (2^n - 1) compares equal for x and y when this does.
SameBlock(x, y, n) == x \div n = y \div n

\* Mutant of Level: the blocks compared are one level too small.
LevelTooHigh(expire, now) ==
    CHOOSE i \in 0..3 : /\ i = 3 \/ SameBlock(expire, now, Cover[i])
                        /\ \A j \in 0..(i - 1) : ~SameBlock(expire, now, Cover[j])

\* The level add_node chooses for a timer that is not near.
Level(expire, now) ==
    CHOOSE i \in 0..3 : /\ i = 3 \/ SameBlock(expire, now, Cover[i + 1])
                        /\ \A j \in 0..(i - 1) : ~SameBlock(expire, now, Cover[j + 1])

\* Mutant of add_node: a node is linked in at the head of its list.
AddFirst(wheel, node, now) ==
    IF SameBlock(node.expire, now, TIME_NEAR)
    THEN [wheel EXCEPT !.near[node.expire % TIME_NEAR] = <<node>> \o @]
    ELSE LET i == Level(node.expire, now)
             idx == (node.expire \div Cover[i]) % TIME_LEVEL
         IN  [wheel EXCEPT !.t[i][idx] = <<node>> \o @]

\* add_node, into the pair of a near array and a level array.
add_node(wheel, node, now) ==
    IF SameBlock(node.expire, now, TIME_NEAR)
    THEN [wheel EXCEPT !.near[node.expire % TIME_NEAR] = Append(@, node)]
    ELSE LET i == Level(node.expire, now)
             idx == (node.expire \div Cover[i]) % TIME_LEVEL
         IN  [wheel EXCEPT !.t[i][idx] = Append(@, node)]

\* The wheel after the first nodes of the list, for each number of them, have been added.
Relinked(wheel, list, now) ==
    LET relinked[n \in 0..Len(list)] ==
            IF n = 0 THEN wheel ELSE add_node(relinked[n - 1], list[n], now)
    IN  relinked

\* Mutant of move_list: the nodes are taken to be near.
MoveToNear(wheel, level, idx, now) ==
    [near |-> [k \in DOMAIN wheel.near |-> wheel.near[k] \o
                  SelectSeq(wheel.t[level][idx], LAMBDA n : n.expire % TIME_NEAR = k)],
     t |-> [wheel.t EXCEPT ![level][idx] = <<>>]]

\* move_list: the nodes of the list are added again, in their order.
move_list(wheel, level, idx, now) ==
    LET list == wheel.t[level][idx]
    IN  Relinked([wheel EXCEPT !.t[level][idx] = <<>>], list, now)[Len(list)]

\* The levels timer_shift looks at, at tick ct, until it has moved a list: the lowest with
\* an index other than 0 counts, if all the bits below are 0.
Shifting(ct) == {i \in 0..3 : ct % Cover[i] = 0 /\ (ct \div Cover[i]) % TIME_LEVEL # 0}

\* Mutant of timer_shift: nothing is done when the time wraps.
ShiftWithoutWrap(wheel, ct) ==
    IF Shifting(ct) = {} THEN wheel
    ELSE LET i == CHOOSE i \in Shifting(ct) : \A j \in Shifting(ct) : i <= j
         IN  move_list(wheel, i, (ct \div Cover[i]) % TIME_LEVEL, ct)

timer_shift(wheel, ct) ==
    IF ct = 0 THEN move_list(wheel, 3, 0, ct)
    ELSE IF Shifting(ct) = {} THEN wheel
    ELSE LET i == CHOOSE i \in Shifting(ct) : \A j \in Shifting(ct) : i <= j
         IN  move_list(wheel, i, (ct \div Cover[i]) % TIME_LEVEL, ct)

Init ==
    /\ near = [i \in 0..(TIME_NEAR - 1) |-> <<>>]
    /\ t = [i \in 0..3 |-> [j \in 0..(TIME_LEVEL - 1) |-> <<>>]]
    /\ time = 0
    /\ due = <<>>
    /\ pc = "idle"
    /\ clock = 0 /\ diff = 0 /\ current = 0
    /\ wait = [x \in Timers |-> -1]

\* The lock of the wheel is free: outside timer_update, so also between two ticks of one
\* skynet_updatetime, and while a list is dispatched.
Unlocked == pc \in {"idle", "first"} \/ due # <<>>

\* skynet_timeout; with no time to wait the message is sent at once.
skynet_timeout(x, delay) ==
    /\ wait[x] = -1
    /\ IF delay <= 0
       THEN UNCHANGED <<near, t, wait>>
       ELSE /\ Unlocked
            /\ LET w == add_node([near |-> near, t |-> t],
                                 [id |-> x, expire |-> (delay + time) % Word], time)
               IN  near' = w.near /\ t' = w.t
            /\ wait' = [wait EXCEPT ![x] = delay]
    /\ UNCHANGED <<time, due, pc, clock, diff, current>>

\* gettime() goes on.
Elapse ==
    /\ clock < MaxLag
    /\ clock' = clock + 1
    /\ UNCHANGED <<near, t, time, due, pc, diff, current, wait>>

\* Mutant of skynet_updatetime: one tick, however late the thread is.
UpdateOnce ==
    /\ pc = "idle" /\ diff = 0 /\ clock > 0
    /\ diff' = 1
    /\ current' = (current + clock) % Word
    /\ clock' = 0
    /\ pc' = "first"
    /\ UNCHANGED <<near, t, time, due, wait>>

\* skynet_updatetime: a tick for each centisecond since the last call.
skynet_updatetime ==
    /\ pc = "idle" /\ diff = 0 /\ clock > 0
    /\ diff' = clock
    /\ current' = (current + clock) % Word
    /\ clock' = 0
    /\ pc' = "first"
    /\ UNCHANGED <<near, t, time, due, wait>>

\* timer_execute, as far as the lock is held: the list of this tick is taken, if there is
\* one; otherwise timer_update goes on.
timer_execute ==
    /\ pc \in {"first", "second"} /\ due = <<>>
    /\ LET idx == time % TIME_NEAR IN
       IF near[idx] # <<>>
       THEN /\ due' = near[idx]
            /\ near' = [near EXCEPT ![idx] = <<>>]
            /\ UNCHANGED <<pc, diff>>
       ELSE /\ IF pc = "first" THEN pc' = "shift" /\ UNCHANGED diff
               ELSE /\ diff' = diff - 1
                    /\ pc' = IF diff > 1 THEN "first" ELSE "idle"
            /\ UNCHANGED <<near, due>>
    /\ UNCHANGED <<t, time, clock, current, wait>>

\* Mutant of Dispatch: the rest of the list is forgotten after its first timer.
DispatchOne ==
    /\ due # <<>>
    /\ wait' = [wait EXCEPT ![Head(due).id] = -1]
    /\ due' = <<>>
    /\ UNCHANGED <<near, t, time, pc, clock, diff, current>>

\* dispatch_list, one message at a time.
Dispatch ==
    /\ due # <<>>
    /\ wait' = [wait EXCEPT ![Head(due).id] = -1]
    /\ due' = Tail(due)
    /\ UNCHANGED <<near, t, time, pc, clock, diff, current>>

\* timer_shift, in the locked part of timer_update.
Shift ==
    /\ pc = "shift"
    /\ time' = (time + 1) % Word
    /\ LET w == timer_shift([near |-> near, t |-> t], time')
       IN  near' = w.near /\ t' = w.t
    /\ wait' = [x \in Timers |-> IF wait[x] > 0 THEN wait[x] - 1 ELSE wait[x]]
    /\ pc' = "second"
    /\ UNCHANGED <<due, clock, diff, current>>

TimerThread == skynet_updatetime \/ timer_execute \/ Dispatch \/ Shift

Next ==
    \/ \E x \in Timers, d \in Delays : skynet_timeout(x, d)
    \/ Elapse
    \/ TimerThread

Spec == Init /\ [][Next]_vars

\* The timer thread runs, and time passes.
FairSpec == Spec /\ WF_vars(TimerThread) /\ WF_vars(Elapse)

----------------------------------------------------------------------------
Nodes == [id : Timers, expire : 0..(Word - 1)]

Ids(list) == {list[i].id : i \in DOMAIN list}

TypeOK ==
    /\ near \in [0..(TIME_NEAR - 1) -> Seq(Nodes)]
    /\ t \in [0..3 -> [0..(TIME_LEVEL - 1) -> Seq(Nodes)]]
    /\ time \in 0..(Word - 1) /\ due \in Seq(Nodes)
    /\ pc \in {"idle", "first", "shift", "second"}
    /\ clock \in 0..MaxLag /\ diff \in 0..MaxLag /\ current \in 0..(Word - 1)
    /\ wait \in [Timers -> -1..(Word - 1)]

\* A timer that waits is in the list that add_node would choose for it now, with every
\* wait that is left: no list is moved too late, and the wrap of the 32-bit time is met by
\* list 0 of the highest level.
InPlace ==
    \A x \in Timers : wait[x] >= 0 =>
        LET e == (time + wait[x]) % Word
            placed == add_node([near |-> [i \in DOMAIN near |-> <<>>],
                                t |-> [i \in 0..3 |-> [j \in DOMAIN t[i] |-> <<>>]]],
                               [id |-> x, expire |-> e], time)
        IN  \/ x \in Ids(due)
            \/ \E i \in DOMAIN near : x \in Ids(near[i]) /\ placed.near[i] # <<>>
            \/ \E i \in 0..3 : \E j \in DOMAIN t[i] : x \in Ids(t[i][j]) /\ placed.t[i][j] # <<>>

\* A timer fires in the tick it was set for: when the lists of a tick are done, no timer
\* is left that had to fire.
NoneIsLate == pc \in {"idle", "first", "shift"} => \A x \in Timers : wait[x] # 0

\* A message is sent only for a timer that has waited as long as it was asked to, or at
\* once for one that has nothing to wait for.
NoneIsEarly == [][\A x \in Timers : wait[x] > 0 => wait'[x] # -1]_vars

Ordered(list, x, y) ==
    \E a, b \in DOMAIN list : a < b /\ list[a].id = x /\ list[b].id = y

Before(x, y) ==
    \/ Ordered(due, x, y)
    \/ \E k \in DOMAIN near : Ordered(near[k], x, y)
    \/ \E i \in 0..3 : \E j \in DOMAIN t[i] : Ordered(t[i][j], x, y)

\* Of two timers due in the same tick the one set first fires first: the later one comes
\* behind the earlier one, however many levels down that has moved, no move of a list
\* turns them round, and the lists are dispatched from the front.
FirstSetFirst ==
    [][\A x, y \in Timers : x # y /\ wait[x] >= 0 =>
          /\ wait'[x] >= 0 /\ wait'[x] = wait'[y] /\ (wait[y] = -1 \/ Before(x, y))
                => Before(x, y)'
          /\ wait'[x] = -1 /\ wait[x] = wait[y] => Before(x, y)]_vars

\* The wheel catches up with skynet_now(), which is set ahead before the updates: no tick
\* is skipped and none is taken twice.  (A timer set meanwhile is late or early by no more
\* than what is left to catch up.)
InStep == (time + diff - (IF pc = "second" THEN 1 ELSE 0)) % Word = current

\* Every timer is where its wait says, none is overdue when a tick is done, and the wheel
\* keeps up with the clock.
OnTime == TypeOK /\ InPlace /\ NoneIsLate /\ InStep

\* Every timer fires.
TimersFire == \A x \in Timers : wait[x] >= 0 ~> wait[x] = -1

----------------------------------------------------------------------------
(* The inductive invariant *)

\* The node is the one of a timer that waits, and expires when that has waited enough.
Fits(node, now, left) ==
    left[node.id] >= 0 /\ node.expire = (now + left[node.id]) % Word

\* add_node would link the node into near[k], or into t[i][j].
BelongsNear(node, now, k) ==
    SameBlock(node.expire, now, TIME_NEAR) /\ k = node.expire % TIME_NEAR

BelongsAt(node, now, i, j) ==
    /\ ~SameBlock(node.expire, now, TIME_NEAR)
    /\ i = Level(node.expire, now)
    /\ j = (node.expire \div Cover[i]) % TIME_LEVEL

NoTwice(list) == \A a, b \in DOMAIN list : list[a].id = list[b].id => a = b

\* Every list of the wheel holds nodes that belong there, and none twice.
Sound(wheel, now, left) ==
    /\ \A k \in 0..(TIME_NEAR - 1) :
          /\ NoTwice(wheel.near[k])
          /\ \A n \in DOMAIN wheel.near[k] :
                Fits(wheel.near[k][n], now, left) /\ BelongsNear(wheel.near[k][n], now, k)
    /\ \A i \in 0..3 : \A j \in 0..(TIME_LEVEL - 1) :
          /\ NoTwice(wheel.t[i][j])
          /\ \A n \in DOMAIN wheel.t[i][j] :
                Fits(wheel.t[i][j][n], now, left) /\ BelongsAt(wheel.t[i][j][n], now, i, j)

InWheel(wheel, x) ==
    \/ \E k \in 0..(TIME_NEAR - 1) : x \in Ids(wheel.near[k])
    \/ \E i \in 0..3 : \E j \in 0..(TIME_LEVEL - 1) : x \in Ids(wheel.t[i][j])

\* The list that is dispatched holds the timers of this tick, and no other list does.
DueInv ==
    /\ NoTwice(due)
    /\ \A n \in DOMAIN due : wait[due[n].id] = 0
    /\ due # <<>> => pc = "second" /\ near[time % TIME_NEAR] = <<>>

WheelInv ==
    /\ TypeOK
    /\ Sound([near |-> near, t |-> t], time, wait)
    /\ \A x \in Timers : wait[x] >= 0 => x \in Ids(due) \/ InWheel([near |-> near, t |-> t], x)
    /\ \A x \in Timers : 2 * wait[x] < Word
    /\ DueInv
    /\ NoneIsLate
    /\ InStep
    /\ diff = 0 <=> pc = "idle"

=============================================================================
