# A verification of the Hulu Landlord server

TLA+ models of the core of `src/hulu-landlord-server`: the landlord rooms, their lock
and their clocks, the settlement of a game, the way players come to a table, the
session of a user, and below them the scheduler, the message queues and the timers of
the runtime. TLC
checks the models on small instances; TLAPS proves the central invariants for every
value of the constants. `PROJECT.json` lists the components, the runs, the mutants
that show each property can fail, the source lines of every definition, the hazards
and the findings.

Paths below are relative to `src/hulu-landlord-server/business` unless they start with
`server/`.

## 1. The system

The server is a set of Lua services on a vendored copy of skynet. A service handles one
message at a time; a handler gives way to others whenever it sleeps or calls another
service (`skynet.sleep`, `skynet.call`, and through them every access to the database).
Messages from one service to another keep their order; nothing else is ordered. So the
hard parts are what a handler finds changed after it gave way, and the order in which
services learn of each other's decisions. skynet itself is C with threads: workers that
run the services, a timer thread and a socket thread share queues, a handle table and
reference counts.

`main.lua` starts the services. Those with protocol state of their own:

| Component | State | Operations | Interacts with | What makes it correct |
|---|---|---|---|---|
| critical section, `server/lualib/skynet/queue.lua` | owner, nesting count, FIFO of waiting coroutines | call, wait, resume, return | every handler of a room | exclusion; no waiter is lost or starved |
| landlord room, `game/ddz` | phase, seats, hands, bids, doublings, pending steps | client requests, timer callbacks, delayed steps | agents (items, balances), room manager | exactly one thing carries the game on; the right landlord, once; who pays gets the doubling; one winner; the room closes |
| turn clock, `lualib/timer.lua`, `game/ddz/Player.lua`, `game/ddz/main.lua` | timers, `cancel_timer`, trusteeship | set, tick, end, cancel | room's critical section | an open turn always has a clock; trusteeship is never stuck |
| settlement, `Room.gameover`, `ma_useritem.lua`, `ma_userroom_ddz.lua` | balances at the agents, copies in the room | bean changes, SyncRoomData, game over | agents, database | nobody overdrawn; beans conserved |
| matchmaking, `services/ddz_match_mgr.lua` | queues by key, who may cancel | StartMatch, MatchCancel, tick | agents, robots, room manager | agent, queue and room agree on where a user is; every request for a match ends |
| room manager, `services/ddz_room_mgr.lua` | table of rooms | create_room, room_exit | rooms, event centre | a room that ends is known |
| robots, `services/ddz_robot_mgr.lua`, `game/robot` | pool of identities | CreateRobot, robot_gameover | matchmaking, rooms | identities come back |
| player agent, `msgagent.lua`, `msgagent_module/ma_*.lua` | the user's record, `roomState`, `roomAddr` | client requests, events | everything | see matchmaking and settlement |
| session: `logind.lua`, `gated.lua`, `server/lualib/snax/msgserver.lua`, `services/agent_mgr.lua`, `msgagent.lua` | who is online at the login server, at the gate and at the agent, connections, the count of users | login, kick, handshake, logout, afk, heartbeat, exit | agents | every caller gets one answer; the tables agree where one acts on another's word; nobody is locked out for good |
| scheduler, `server/skynet-src/skynet_{mq,server,handle,start}.c` | message queues, global list, handle table, reference counts, sleeping workers | send, dispatch, launch, kill, abort, sleep, wake | every service | no message lost, doubled or reordered; one worker per service; references are counted; the node ends |
| timers, `server/skynet-src/skynet_timer.c` | the timing wheel | add, shift, dispatch | every service | a timer fires once, at its time, first set first |
| items, mail, pay, gift codes | records in the database | grant, claim, redeem | agents | at most once |
| Seven Sparrow room, `game/sevensparrow` | a second game's state machine | as the landlord room | as the landlord room | as the landlord room |
| event centre, `services/eventcenter.lua` | subscriptions | pub, sub | many | delivery |
| friends, rank lists, seasons, gourds, activities, tasks | mostly one user's record each | | agents | |
| configuration, announcements, statistics, web front ends, database wrappers | none to speak of | | | |

`game/ddz3` (except `helper.lua`), `matching_mgr`, `mail_mgr`, `friend_mgr`, `team2v2`,
`ranklist_mgr`, `rank_two_mgr` and `booster_mgr` are not started by `main.lua`.

### Where it is hard

- A room has one lock, but four delayed steps (the end of the deal animation, the two
  doubling barriers, the end of the game) run outside it, at any moment of a handler
  that sleeps with the lock held.
- `Double` and `DoubleMax` check the turn, wait for the agent to take an item, and do
  not check again.
- Cancelling a timer does not stop a tick that already waits for the lock. If it was
  the last tick, the timer's `on_end` runs and creates the second timer of a turn that
  is over.
- The room settles on copies of balances. News of a change leaves the agent only after
  the database has answered, and possibly in another order than the changes.
- A cancellation races the tick that matches the user and the room that seats the user;
  `RoomStartMatch` may wait for the database with `roomState` already set.
- Private queues are deleted by key while users and robots still refer to the object.
- The gate's handshake is commented as atomic but waits for an agent to start and to log
  in; kicks, logouts, disconnections and the agent's own exit come in between, and login
  server, gate and agent each keep a record of the session.
- A worker decides to sleep without the lock that a waker would need to see it; a queue
  enters and leaves the global list under two locks; a service can be killed while it is
  being launched, sent to and run.
- The wheel's time wraps, and due timers are dispatched without its lock.

`PROJECT.json` lists these and further hazards with the line where each one bites.

## 2. The modules

| Module | Models | State |
|---|---|---|
| `CriticalSection` | `skynet.queue` | owner, `ref`, FIFO, nesting depth of each coroutine |
| `DdzRoom` | one landlord room | phase, seats, hands, the suspended handler that owns the lock, the scheduled steps |
| `LandlordGame` | what the room promises its players: the abstract specification | phase, deals, landlord, turn |
| `TurnTimer` | the clocks of one player's turns | timers, the lock's queue and holder, trusteeship |
| `Settlement` | the beans of one game | room's copies, agents' balances, messages, unsaved changes |
| `Matchmaking` | agents, matching service, robots, room manager and rooms, up to leaving the room | `roomState`, queues, closures, orders for robots, rooms |
| `Session` | login server, gate, agents and the count of users, for one user | the tables of each, connections, handshakes, logins and logouts under way, three kinds of message queue |
| `MessageQueue` | the ring of a service's messages, as functions | |
| `SkynetNode` | the scheduler of a node | contexts, handle table, queues, global list, where each thread is |
| `TimingWheel` | the timers of a node | the lists, the time, the list being dispatched |
| `MC*` | values of the constants for TLC | |
| `*_proofs` | the theorems | |

How they fit together. `CriticalSection` shows that a body holds the lock alone and
that waiters enter in order. `DdzRoom` uses that: its variable `cs` is the suspended
rest of the handler that owns the lock, and every request and timer callback needs
`cs` free. `TurnTimer` uses it too, with the queue made explicit, and justifies the
fairness `DdzRoom` assumes of the clocks. `Matchmaking` assumes that a game ends, which
is `DdzRoom!RoomCloses`. `Settlement` starts where `DdzRoom!GameOver` settles.
`SkynetNode` and `TimingWheel` justify what all of these take for granted: messages from
one service to another arrive in order (`OrderKept`), a service runs one handler at a
time (`QueuesScheduled`), a message is handled or given back (`MessagesArrive`), timeouts come
in the order they were set (`FirstSetFirst`, `TimersFire`), and a caller of a service
that has gone gets an error. `SkynetNode` extends `MessageQueue`.

### CriticalSection

`Call` is the closure `skynet.queue` returns: it takes the lock, takes it again if the
caller owns it, or waits. `Resume` is what follows `skynet.wait`; `Return` is
`xpcall_ret` with the hand-over to the longest waiting coroutine. Bodies are arbitrary
and may yield, so every interleaving of calls is a behaviour.

### DdzRoom

One action per request (`ReqBid`, `ReqDouble`, `ReqPlay`, `ReqTrusteeship`,
`ReqShowCard`, `ReqInfo` cover the requests of `PlayerAction.lua`), per timer callback
(`Tick`, `ClockEnd`), per resumption of a handler that gave way (`LandlordDelayOver`,
`DoubleQueried`, `DoubleReplied`, `EffectOver`, `NextTurn`, ...), and per delayed step
outside the lock (`DealCardWaitOver`, `DoubleingOver`, `DoubleMaxOver`, `GameOver`,
`RoomExit`). `pending` counts the delayed steps that are scheduled, so a step scheduled
twice would show.

Cards are counted. Which combination beats which (`util/ddz_classic`) is left to the
players: whoever may answer may play any number of cards or, unless leading, pass.
Robots and trusteeship play like that as well. Multiples are kept where a property
tells them apart (shown hands, bottom cards, springs).

`LandlordGame` is the game without locks, timers or barriers: at most `MaxDeal` deals,
a landlord chosen once who opens the play, a turn that goes round seat by seat, an end.
`DdzRoom!PlaysTheGame` is the refinement, with `actionIndex` as the turn once the play
has begun.

### TurnTimer

A turn creates a timer of `Ticks` ticks (20 in the code, a tenth of a second each)
whose end creates a second one that counts `clock` down in seconds. The timers of
earlier turns stay in the model. A timer record says where its coroutine is: asleep,
waiting for the lock, running, waiting to run `on_end`, or gone (`Over`: nothing reads its
counters again). Time passes in units
of a tick, and only when every expired timeout has been delivered.

### Settlement

`GameOver` is `Room.gameover`: what each farmer wins or loses, capped by the room, the
farmer's beans and the landlord's, the rounding, and the bean the system takes.
`ChangeGold`, `Saved` and `SyncRoomData` are the three parts of a change of balance
outside the game (assignment, database answered, room told); `RoomGameOver_C` is what
an agent does with the verdict. The share of the landlord's beans is computed in
floating point; as long as beans times multiple stay below 2^52 only an exact quotient
can come out wrong, one too low, and the action allows both results. Larger amounts are
not covered.

### Matchmaking

`RoomStartMatch`, `PrisonLookedUp`, `RoomMatchCancel`, `CancelAnswered` and `LeaveRoom`
are the agent; `StartMatch`, `MatchCancel` and `Tick` the matching service;
`CreateRobot`, `RobotStartMatch` and `RobotReturns` the robots; `Seat`, `GameOver`,
`Registered` and `RoomExit` the rooms and their manager. A queue object lives on after
its entry in `MatchQueue` is deleted as long as a closure in `MatchUserArr` refers to
it. `remove` is the Lua function of that name: it takes the user out at the place it finds,
and if the queue's rules say so deletes the queue and sends its robots away, without
taking them out of the object; `Spliced` is the removal of the first
players of a full table. How long a user has waited is left open. The game and the room
level are fixed. Queues of other levels share the pool of robots, and an object that can be
deleted holds the queues of all levels (`services/ddz_match_mgr.lua:83`): the deletion by
`remove`, or after a match, strands users of the other levels as well. The model shows it
for those of the same level.

### Session

`Accept`, `KickAnswered`, `LoginAnswered` and `LogindLogout` are the login server, which
serves one login of a user at a time; `GateLogin`, `GateKick`, `GateLogout`, `AgentExit`
and the three steps of the handshake (`Handshake`, `GotAgent`, `LoginReply`) the gate;
`LoginStart`, `LoginMarked`, `LoginEnd`, `LoginForbidden`, `Reconnect`, `Afk`, `Logout`,
`ClientLogout`, `HeartbeatOut`, `WentOffline`, `LogoutDone` and `AgentDies` an agent.
`AgentDies` includes what `skynet.exit` does for the callers it leaves behind
(`Errors`): it answers with errors in any order, because it walks a table with `pairs`.
Each service has one queue. A message is a record of its type and of what its handler
reads; `LoginMessages`, `GateMessages` and `AgentMessages` are what each queue may hold,
and `AcceptTokens`, `LoginTokens` and `LogoutTokens` count the places from which a caller
can still be answered.

`FailLogout` is the error `_logoutComplete` raises for a user who is logged in but whose
data are not there yet (`ma_data.userInfo` is an empty table whose metatable indexes nil):
the logout ends, nobody is told, and for a kick the error is the answer.

Simplified: the several times a login waits for data are one wait; a second message on
a connection that is still in its handshake is left out; the user is in no room (an
agent whose user is in a room does not exit); the heartbeat runs out neither while a
login that has just started it waits for data nor during an exit, which take less than
its five minutes; third parties that check a token say yes.

### MessageQueue and SkynetNode

`Enqueue`, `expand_queue`, `Dequeue` and `PopEmpty` are the operations under a queue's
spinlock. A step of `SkynetNode` is what one thread does under one lock or in one atomic
operation; `th[t]` says where thread `t` is and what it holds: a queue (`q`), a context
with a counted reference (`ctx`, `ref`, `born`), a message (`msg`). A service's callback
is any sequence of the commands send, KILL, LAUNCH and ABORT. A worker that finds the
global list empty sleeps on the condition variable; wake-ups may be lost, where the code
tests without the mutex, or spurious.

KILL takes any handle, also that of a service whose launch is not over. After the launcher
has given up its reference it goes on to use its pointer: for `ctx->init = true`
(`server/skynet-src/skynet_server.c:166`), for the log (line 170) and for the answer to
LAUNCH (line 494). A KILL by another worker, or an ABORT, frees the context under it.
`SetInit` does nothing then, and `ReferencesAlive` is about the handle table and the
counted references, not about this pointer: the hazard is listed and not excluded.

### TimingWheel

`add_node`, `move_list`, `timer_shift` and `timer_execute` keep the code's names. The
numbers of lists, `TIME_NEAR` and `TIME_LEVEL`, are constants, so that the time wraps
within a run. They are powers of two in the code, which the model does not use: shifts and
masks are quotients and remainders, and `Cover[i]`, the ticks that near and the levels
below `i` cover together, stands for the masks of `add_node` and `timer_shift`. `move_list`
is a recursive function on the prefixes of the list, `Relinked`. The clock is the
monotonic one and never goes back. The lock is free (`Unlocked`) outside
`timer_update`, so also between two ticks of one `skynet_updatetime`, and while a list is
dispatched. `wait`, which is not in the code, counts the ticks a
timer still has to wait; `InPlace`, `NoneIsLate` and `NoneIsEarly` compare the lists with
it.

## 3. The runs

All but the violation run `matching_server` must finish without an error. Every property of a
passing run has a mutant of the code that breaks it. Type invariants are a part of
`AgentsAgree`, `RecordsAgree`, `ContextsSound` and `OnTime`; those of the critical section,
of the room and of the clocks are proved and in no run. The inductive invariants (`IndInv`,
`FullInv`, `ClockInv`, `NodeInv`, `MessageInv`, `MatchInv`, `WheelInv`, `SessionInv`) were
checked with TLC on the runs' instances before they were proved and are in no run either.

| Run | Instance | Shows |
|---|---|---|
| `cs` | 4 coroutines, nesting 2 | exclusion, the assertion of line 29, no lost wake-up, every waiter enters |
| `bidding` | 3 deals, hands of 2 and 1 bottom card, a hero that forces the landlord, a player who shows cards | `NoRobError`, `BottomCardsOnce`, `InfoOfThisDeal`, `HighestBidderWins`, `PassHasTarget`, `OneWinner` |
| `playing` | 1 deal, hands of 1 and 1 bottom card, one person who may double and pay for it, two robots | `ExactlyOneMover`, `PaidIffDoubled`, `TurnKeptWhilePaying`, `BarriersComplete`, the refinement of `LandlordGame`, `RoomCloses` |
| `timer` | a bid, a doubling and a play | `TurnHasClock`, `TurnEnds` (with its one exception), `TrusteeshipPlays` |
| `settlement` | balances 1, 4 and 5, one factor of 1 or 2 per player, cap 3, two changes of -2 or +1 | nobody overdrawn, at most one bean gone, none made unless somebody spent |
| `matching_tables` | 3 users, 1 robot, 2 tables | `SeatedOnce`, `AgentsAgree` (`IdleIsNowhere`, `MatchingIsReal`), `ExitFindsRoom` |
| `matching_public` | 2 users, 1 robot, 1 table, two cancellations at once | `MatchingEnds` |
| `matching_server` | a match configured for named users | the finding below |
| `session` | 1 user, 2 agents, 3 logins, 2 connections, one logout request, forbidden login or heartbeat exit | `OneAnswer`, `LockoutEnds`, `RecordsAgree` (`KickFindsSession`, `CountNeverShort`), and no deadlock except where nothing is under way |
| `node` | 2 workers, timer and socket thread, two services booted and one launched and killed, 2 messages, rings of 2 slots | `QueuesScheduled`, `ContextsSound` (`RefCount`, `ReferencesAlive`, `DispatchedAfterInit`), `MessagesKept` (`OneCopy`, `OrderKept`) |
| `node_live` | one service booted and one launched, both killable, 1 message, the command ABORT, fair scheduling | `MessagesArrive`, `QueuesFreed`, `NodeEnds` |
| `wheel` | 2 timers, all delays, a 5-bit time, a thread up to 2 ticks late | `OnTime` (`InPlace`, `NoneIsLate`, `InStep`), `NoneIsEarly`, `FirstSetFirst`, `TimersFire` |

### Bounds

- Three seats are the game's own number. The hands are small: the code tests only
  whether a hand is empty, whether its owner has played, and how many cards remain.
  With hands of two (`bidding`) a player can play twice and pass in between.
- Three deals are the code's limit (`bidding`). `playing` starts with the last deal, because
  nothing of the doubling depends on the number of deals, and has hands of one, so that
  liveness can be checked; the landlord still plays twice. The proofs hold for any number
  of deals and any hands.
- Three turns of one player bring two stale clocks into an open turn, enough to make
  `player.clock` negative, so that the exception in `TurnEnds` occurs; that more stale
  clocks do not take a turn's own clock away is proved. Two ticks are the least with a tick
  that is not the last. The second timer counts three seconds, so that the clock of the
  first turn can end in the second.
- Balances of 1, 4 and 5 with a cap of 3 make each of the three limits the effective one,
  give shares that come out even and shares that do not, and leave a bean to round. The
  two kinds of doubling only enter as their product, so one of them varies. Two changes are the least that can be saved out of order.
- Tables of two instead of three or four: `PlayerNum` only enters comparisons of lengths.
  Three users and a robot fill two tables at once. The queues of new users, one
  for each and with rules of their own, are in the model but in no run; the theorems
  about `Matchmaking` cover them, and any number of seats, users and tables.
- `MaxCancels` and `MaxOrders` bound what may be under way, not how often it happens.
  `Objects` and `RoomIds` are numbers in use at one time and are used again; a match
  waits while every table is taken, where the server would open another one.
- Two agents and two connections are the least with an old and a new one of each; the
  third login comes after a logout that overlapped the second. `MaxExtras` bounds what
  starts a logout beside the kicks; each of the three kinds is reached.
- A ring of two slots holds one message, so the second one expands it; `Lap` turns the
  ring of the booted service first, so that the expansion starts at a head that is not 0.
  Two booted services let one launch the third while the other kills it, at every point of
  the launch; TLC treats the two as symmetric. That a booted service is killed, and ABORT,
  are in `node_live`; the safety properties hold of them by the theorems. Rings of every size are covered by the
  theorems about `MessageQueue`.
- One bit per level and one for the near lists give a time of 5 bits that wraps every 32
  ticks. All delays up to half the word are used, from every time. Two timers are the
  least with an order.

### Fairness

- `CriticalSection`: the scheduler resumes what it was told to wake up, and a coroutine
  does not nest bodies for ever.
- `DdzRoom`: sleeps end, agents answer, scheduled steps run (weak). A timer callback
  waits in a FIFO queue, so requests cannot keep it out (strong; `WaitersEnter`).
- `TurnTimer`: expired timeouts are delivered, who may enter the lock does, sleepers
  wake (weak); time passes however busy the players are (strong).
- `SkynetNode`: a thread that can go on does (weak); `Stop`, the end of the timer
  thread, needs a mutex that workers hold for moments (strong). Nothing is assumed of
  signals, nor that a callback sends anything.
- `TimingWheel`: the timer thread runs and time passes (weak).
- `Matchmaking`: messages are handled, agents and the database answer, games end (weak);
  the tick comes every tenth of a second whatever else happens (strong).

Nothing is assumed of the players.

### Findings

- `matching_server`: in a match configured for named users the first cancellation deletes
  the queue, not the completed match, and the other users wait in a queue the tick no
  longer visits (`services/ddz_match_mgr.lua:129`, against the comment in line 55). `WaitersAreTickedUnlessNamed` proves
  that nobody is stranded like that where no match is configured.

Without a run of their own:

- `player.clock`, which the protocol calls a countdown (`sproto/3000_4000_room.lua:19`),
  goes below zero when the last tick of the first timer was queued behind the action that
  ended the turn (`game/ddz/Player.lua:193`). With two such clocks left over, a third turn
  can start its second timer with a negative number of rounds (line 194), which
  `lualib/timer.lua:27` counts as one without an end: that turn ends only if its player
  acts. The run `timer` reaches it; `TurnEnds` excepts it by name (`Endless`).
- The bean taken from a losing landlord is meant to be the one rounding leaves
  (`game/ddz/Room.lua:426`); the test in line 449 is always true, and the bean is taken
  even where no share was rounded.
- `do_auth` is commented "atomic , no yield" (`server/lualib/snax/msgserver.lua:181`) but
  waits for the agent. Two handshakes of one login can start two agents, of which the
  first is forgotten; `OneAnswer` and `LockoutEnds` hold all the same.
- `RoomStartMatch` sets `roomState` before it looks at the game
  type, and `cfg_room_cost` has rows for two games without rooms (2 and 4). A request for
  one of them is refused and leaves the user in state Matching for good
  (`msgagent_module/ma_userroom.lua:465` and `545`). The model has that path (`Kind` is
  `NoRoom`); the runs have no such user, and `MatchingIsReal` would fail at once. It is
  the one hypothesis of the theorem `AgentsAndServicesAgree`.

## 4. The proofs

`CriticalSection_proofs` (any set of coroutines, any depth; nothing is assumed but that
`NoThread` is none of them). `IndInv` says that the owner is exactly the coroutine that
is inside or about to resume, that `ref` is its depth, and that the FIFO holds exactly
the waiting coroutines, once each. The last part is needed for the hand-over: the woken
coroutine must not be queued a second time. `Mutex`, `AssertionHolds` and
`WakeupsNotLost` follow.

`DdzRoom_proofs` (any hand size, number of deals and distribution of people, robots,
skills and items; `RoomAssumption`), in three layers.

- `IndInv` is `TypeOK /\ PhaseInv`. `PhaseInv` says for every phase which players have a
  turn, which handler may be suspended in the lock and which delayed step is scheduled.
  None of its parts is inductive alone: that a barrier opens once depends on the
  decisions being made once, which depends on the lock being held while an agent is
  asked. `RoomTypes`, `RoomPhases`, `OneMover`, `TurnDiscipline`, `Barriers` and
  `NoRecheckNeeded` follow; the last one is the reason the missing second check in
  `Double` is sound.
- `FullInv` adds `DealingInv` and `PlayerInv`. The steps are first sorted by what they
  change (`StepKinds`), so that each conjunct is argued about for the few kinds that
  touch it. `RobNeverFails` and `LastBidWins` rest on `BidOrder`: players are asked in
  the order of their seats, so the highest bidder is the later of the two others who
  holds a bid (`CallKeepsOrder`, `RobKeepsOrder`). `BottomCardsGivenOnce`,
  `NothingFromEarlierDeals`, `PassAnswersSomebody`, `DoublingIsPaid` and
  `WinnerIsUnique` are read off. `DoublingIsPaid` needs `TakenInv`: the reply that sets
  the doubling comes after the item was taken, whatever ran in between.
- `RoomPlaysTheGame` is the refinement: an initial room is an initial game, and in a state
  that satisfies `FullInv` every step of the room is a deal, an election, a play or an
  end of `LandlordGame`, or leaves all it sees as it was.

`TurnTimer_proofs` (any number of turns, any lengths; `TimerAssumption`). `ClockInv`
says at which of four stages an open turn's own clock is, and that a player in
trusteeship is always at the first of them, because the random delay is used up
before the ticks are. It quantifies over nothing but the current turn: stale clocks may
be anywhere, and they cannot hurt because a cancellation only reaches the timer created
last and every turn creates its own. `ClockTypes` and `TurnAlwaysHasClock` follow.

`Settlement_proofs` (any balances, multiples, caps and changes; `SettlementAssumption`).
The invariant ties the room's copy to the balance through the messages that are under
way and adds up what was paid; the arithmetic of `Room.gameover` is proved in lemmas of
its own. `BalancesNonnegative`, `NeverOverdrawn` and `Conservation` follow.

`SkynetNode_proofs`, first part: the ring of `MessageQueue` (any initial size above one,
any messages, any position of head and tail; `QueueAssumption`). `Contents` reads the ring
as a sequence. `CreatedEmpty`, `PushAppends` and `PopTakesFirst` say that the ring
implements create, append and tail of that sequence and stays `WellFormed`, also when it is
moved to a larger ring. The argument is that two positions less than a round apart are
different slots, so a write at the tail touches no message, and that one slot always stays
free, so a full ring and an empty one are told apart. `WellFormed` is part of
`SkynetNode!TypeOK`, which is proved for every queue of the node from these lemmas. What
the overload threshold becomes is not part of the theorems.

The rest of `SkynetNode_proofs` is about the node (any finite sets of workers, services and messages, rings of any
initial size above one; `NodeAssumption`). `NodeInv` says what the place of a thread
implies for what it holds (`ThreadInv`), which references a context's count stands for
and which contexts and queues are in memory (`LifeInv`), in which state a queue's flags
are (`QueueInv`), who may see a context before `ctx->init` (`InitInv`), how many
workers sleep (`SleepInv`), and where the turn of a queue is (`TurnInv`). The count is the
hard part. A reference is taken under one lock and given up under none, so the
invariant counts the threads that hold one, and `CountSolo` says how a count changes when
one thread moves. The steps are sorted twice: by what they do to references (`LifeStep`:
grabbed, handed over, retired, dropped, deleted, entered, made, same) and by what they do
to turns (`TurnStep`: taken, given, made, ended, born, same), and each part of `NodeInv` is
shown to survive every sort. `ContextsAreSound` and `QueuesAreScheduled` follow. `ContextsSound`
says nothing of the pointer the launcher keeps after its release: that one can dangle.

`MessagesAreKept` stands on `NodeInv` and a second invariant, `MessageInv`. A message that
travels is in a queue or in the hands of a thread (`TravelInv`), at one such place only
(`PlaceInv`), and what a thread is about to push is younger than everything its sender has
in any queue (`SenderInv`); with the push lemmas of the ring the order per sender
(`OrderKept`) follows. That last part needs `NodeInv`: a service has one sender at a time
because its turn is in one hand, so the text a worker holds carries the name of the service
whose callback it runs. The steps are sorted once more, by what happens to a
message: started, refused, pushed, popped, given back, nothing (`KeptStarted` and so on).

`TimingWheel_proofs` (any number of near lists and of lists per level above one, any
finite or infinite set of timers and of delays below half a word; `WheelAssumption`).
`WheelInv` says that every list holds exactly the timers `add_node` would link there *now*,
once each, and that the list being dispatched holds those of this tick. Only one kind of
step changes what `add_node` would choose, the next tick, and it changes it for the nodes
of one list, the one `timer_shift` moves (`StaysInBlock`, `StaysAtLevel`, `NotFirst`): a
tick enters a new block of a level exactly if all the bits below are 0, and then it is the
lowest level whose index is not 0 whose list falls due. That a wait is less than half the
word (`WheelAssumption`: the argument of `skynet_timeout` is an `int`) is needed at the
wrap, where list 0 of the highest level stands for the next round. `TimersAreOnTime` and
`NoTimerIsEarly` follow. `FirstSetFiresFirst` holds because `add_node` appends and
`move_list` goes through its list from the front; that two nodes of one tick are always in
the same list comes from `WheelInv`.

`Session_proofs` (any agents, logins, connections and extra requests; `SessionAssumption`).
`SessionInv` has eight parts beside the types. `TablesInv` and `HandlersInv` say who knows
whom: which objects, records and agents belong together and in which agent a suspended
handler waits. `AcceptInv`, `AuthInv` and `LogoutInv` count for each of the three callers the
places its answer can come from, in queues and in handlers, and find one while it waits and
none otherwise; they need `HandlersInv` when an agent exits, where the errors must go to the
same callers whose messages and coroutines disappear, each once in whatever order
(`OrderOf`). `RecordsInv` says which session the login server has heard of, will hear of or
is asking the gate to kick; it rests on `AcceptInv`: when a kick is sent nothing of an earlier login
is left on its way. `CountNeverShort` needs only the types and `HandlersInv`.
`LockoutInv` looks into the future of the agent in the way of a login: if it has exited, the
gate will hear of it, otherwise it has, or after the logins in its queue will have, the
subid of the session and a heartbeat (`WillHave`, `WillBeat`). `AnswersAreUnique`,
`RecordsAgreement` and `LockoutsEnd` follow. The proof has one lemma for each action about
what it changes (`...Facts`), frame lemmas for each part of the invariant, and one lemma for
each part that goes through the actions (`TypeStep`, `TablesStep`, ..., `LockoutStep`).

`Matchmaking_proofs` (any users, robots, tables, seats and kinds of match;
`MatchAssumption`). `MatchInv` says for every user at which single place the request is
and that `roomState` and `roomAddr` go with it (`StageInv`, `OnceInv`, `SeatInv`), for every
room what it has told its manager (`RoomInv`), and of the queues that a user is in the
object `MatchUserArr` names and in no other (`QueueInv`), that the rules go with the key
(`RulesInv`) and that the tick visits the queue (`TickedInv`). The places must exclude each
other for a reason in the code: the answer to a successful cancellation sets `roomState` to
Idle without looking at it, which is right only if a user with such an answer on the way
is in no queue and called to no table. `RulesInv` is needed because `remove` deletes the
queue of a new user by key: the first in it is its owner, so nobody else loses a queue.
Without further hypotheses: `RoomsCallOnlyTheFree`, `ManagerKnowsTheRoom`,
`IdleUsersAreNowhere` and `LateAnswersDoNoHarm`, an action property. The two theorems with
a hypothesis leave out exactly the requests of the two findings above:
`AgentsAndServicesAgree` those for a game without rooms, `WaitersAreTickedUnlessNamed`
those for a configured match.

Only model-checked:

- the liveness properties (`WaitersEnter`, `RoomCloses`, `TurnEnds`, `TrusteeshipPlays`,
  `MatchingEnds`, `MessagesArrive`, `QueuesFreed`, `NodeEnds`, `TimersFire`), which need
  fairness and `ENABLED`, out of reach of the prover;
- the absence of deadlock, which every run but `settlement` checks (a game that is settled
  ends there) and no theorem states.

Every safety invariant and action property of the runs is the subject of a theorem.

Recursion: `Cover` and `Relinked` of `TimingWheel` are recursive functions. That they are
what their definitions say (`CoverIs`, `RelinkedIs`), and what holds of a list after
`move_list`, is proved from the least-number principle (`LeastExists`, `UpTo`), for one
set at a time; induction theorems with an operator as parameter are not used.

## 5. Limits

- `TurnEnds` has an exception: two stale clocks can make `player.clock` negative when a
  turn's first timer ends, and the second timer then never ends. That needs three
  turns of one player within a few seconds while ticks wait for the lock. `RoomCloses`
  assumes it does not happen.
- What the deletion of a private queue does to users of another room level is not in
  `Matchmaking`.
- Errors raised in a callback (a robot's choice of cards, an agent that fails while a
  room is created) are not modelled.
- `Matchmaking` and `Session` are separate: that an agent whose user is matched or in a
  room goes offline is a cancellation in the one and does not occur in the other.
- `LockoutEnds` allows a user to be refused for the five minutes an agent without client
  takes to exit. `CountNeverShort` allows the count of users online to grow too large.
- `MatchingEnds` is checked for one public queue. Two queues that share too few robots
  could each hold the ones the other needs.
- The growth of the handle table, and the pointer the launcher of a service uses after
  it has released it, are hazards without a property.
- `LandlordGame` says nothing of what a player may bid or play.
- Experience, seasons, tasks and items at the end of a game are not modelled, nor are
  sockets, harbor and cluster, the database, the web front ends, and the services listed
  as `not_modelled` in `PROJECT.json`.
- Most lines of the repository are vendored: the Lua interpreter, jemalloc and
  parsers under `server/3rd`, and the socket layer of skynet. The models cover the
  server's own logic, which is in Lua, and the part of skynet it rests on; as a share of
  all C lines that is small.

## 6. The plan

Done: the critical section, the landlord room with its abstract game, the turn clock,
the settlement, matchmaking, the session, the scheduler with its message queues, the
timing wheel; theorems about all of them, for every safety property the runs check.

Left, in this order:

1. The user in `Matchmaking` and in `Session` as one: an agent whose user is at a table
   goes offline, and does not exit.
2. Items, mail, payment and gift codes: at most once across failures of the database
   call and repeated requests. The skill and the purchase of `DoubleMax` belong here.
3. Seven Sparrow: the second game on the same lock and timers, with its own turn order.
4. Card combinations as pure operators against a reference definition, if the
   combinations can be bounded.
