-------------------------- MODULE TurnTimer_proofs --------------------------
(***************************************************************************)
(* Every open turn has a clock that goes on, for every list of turns, every*)
(* length of the timers and every number of requests.                      *)
(***************************************************************************)
EXTENDS TurnTimer, TLAPS

IndInv == TypeOK /\ ClockInv

Stages  == {"none", "sleep", "func", "run", "end", "done"}
Entries == [thread : TimerIds \cup {Request}, ask : Requests \cup {"timer"}]

\* The marks for "nobody", "a request" and "a paying request" are not timers.
LEMMA Marks ==
    /\ Nobody \notin TimerIds /\ Request \notin TimerIds /\ Paying \notin TimerIds
    /\ Nobody # Request /\ Nobody # Paying /\ Request # Paying
  BY DEF Nobody, Request, Paying, TimerIds, TurnIds

\* The ids of the two timers of a turn.
LEMMA Ids ==
    /\ \A i \in TurnIds : <<i, 1>> \in TimerIds /\ <<i, 2>> \in TimerIds
    /\ \A id \in TimerIds : id[1] \in TurnIds /\ id[2] \in {1, 2} /\ id = <<id[1], id[2]>>
    /\ \A i \in TurnIds : i \in Nat \ {0}
  BY DEF TimerIds, TurnIds

\* Fields of timer records that are changed keep their types.
LEMMA Fields ==
    /\ \A r \in TimerRecord : [r EXCEPT !.live = FALSE] \in TimerRecord
    /\ \A r \in TimerRecord, a \in Stages : [r EXCEPT !.at = a] \in TimerRecord
    /\ \A r \in TimerRecord, a \in Stages, t \in 0 .. Ticks :
           [r EXCEPT !.at = a, !.trusteeshipTime = t] \in TimerRecord
    /\ \A r \in TimerRecord, a \in Stages, n \in -1 .. (Ticks + Clock), w \in 0 .. (1 + Second) :
           [r EXCEPT !.at = a, !.left = n, !.wait = w] \in TimerRecord
    /\ \A r \in TimerRecord, a \in Stages, n \in -1 .. (Ticks + Clock) :
           [r EXCEPT !.at = a, !.left = n] \in TimerRecord
    /\ \A r \in TimerRecord, w \in 0 .. (1 + Second) : [r EXCEPT !.wait = w] \in TimerRecord
    /\ \A n \in -1 .. (Ticks + Clock), w \in 0 .. (1 + Second), t \in 0 .. Ticks :
           Timer(n, w, t) \in TimerRecord
  BY DEF TimerRecord, Stages, Timer

\* Fields of timer records that are not changed keep their values.
LEMMA Kept ==
    \A q : \A r \in TimerRecord, w \in 0 .. (1 + Second) :
        q = [r EXCEPT !.wait = w] =>
            /\ q \in TimerRecord /\ q.at = r.at /\ q.live = r.live /\ q.left = r.left
            /\ q.trusteeshipTime = r.trusteeshipTime
  BY DEF TimerRecord

\* A timer that is over, or was never created.
LEMMA Absentees ==
    /\ Over \in TimerRecord /\ Over.at = "done"
    /\ Absent("none") \in TimerRecord /\ Absent("none").at = "none"
  BY TimerAssumption DEF Over, Absent, TimerRecord

\* What enters the queue of cs is a callback or a request.
LEMMA Queueing ==
    ASSUME IndInv
    PROVE  /\ \A id \in TimerIds : Append(queue, Callback(id)) \in Seq(Entries)
           /\ \A r \in Requests : Append(queue, Asking(r)) \in Seq(Entries)
           /\ queue \in Seq(Entries) /\ (queue # <<>> => Tail(queue) \in Seq(Entries))
  <1>1. queue \in Seq(Entries)
    BY DEF IndInv, TypeOK, Entries
  <1>2. \A id \in TimerIds : Callback(id) \in Entries
    BY DEF Callback, Entries
  <1>3. \A r \in Requests : Asking(r) \in Entries
    BY DEF Asking, Entries
  <1>4. QED
    BY <1>1, <1>2, <1>3

\* The ranges the timers are set to, and what the types say of one timer.
LEMMA Ranges ==
    /\ 0 \in -1 .. Clock /\ -1 \in -1 .. Clock /\ Clock \in -1 .. Clock
    /\ Ticks \in -1 .. (Ticks + Clock) /\ Ticks \in Nat \ {0} /\ 0 \in 0 .. Ticks
    /\ 1 \in 0 .. (1 + Second) /\ Second \in 0 .. (1 + Second)
    /\ \A c \in -1 .. Clock : c \in -1 .. (Ticks + Clock)
    /\ Shortest .. Ticks \subseteq 0 .. Ticks /\ Shortest .. Ticks \subseteq 1 .. Ticks
    /\ \A r \in TimerRecord : /\ r.left \in -1 .. (Ticks + Clock)
                              /\ OneLess(r.left) \in -1 .. (Ticks + Clock)
                              /\ r.wait \in 0 .. (1 + Second)
                              /\ r.trusteeshipTime \in 0 .. Ticks /\ r.at \in Stages
  BY TimerAssumption DEF TimerRecord, OneLess, Stages

\* Type correctness, piece by piece.
LEMMA Types ==
    ASSUME turn' \in 0 .. Len(Turns), open' \in BOOLEAN, isTrusteeship' \in BOOLEAN,
           clock' \in -1 .. Clock, cancel_timer' \in TimerIds \cup {Nobody},
           timers' \in [TimerIds -> TimerRecord], queue' \in Seq(Entries),
           holder' \in TimerIds \cup {Nobody, Request, Paying}, asleep' \in BOOLEAN
    PROVE  TypeOK'
  BY DEF TypeOK, Entries

\* A turn that ends leaves no turn open; only liveness of a timer changes.
LEMMA EndTurnPreserves ==
    ASSUME IndInv, NEW ts \in [TimerIds -> TimerRecord], EndTurn(ts),
           isTrusteeship' \in BOOLEAN, queue' \in Seq(Entries),
           holder' \in TimerIds \cup {Nobody, Request, Paying},
           holder' \in TimerIds => ts[holder'].at = "run",
           \A id \in TimerIds : id[1] > turn => ts[id].at = "none"
    PROVE  IndInv'
  <1>1. timers' \in [TimerIds -> TimerRecord] /\ \A id \in TimerIds : timers'[id].at = ts[id].at
    <2>1. timers' = Cancelled(ts)
      BY DEF EndTurn
    <2>2. \A id \in TimerIds : [ts[id] EXCEPT !.live = FALSE].at = ts[id].at
      <3>1. \A r \in TimerRecord : [r EXCEPT !.live = FALSE].at = r.at
        BY DEF TimerRecord
      <3>2. QED
        BY <3>1
    <2>3. QED
      BY <2>1, <2>2, Fields DEF Cancelled
  <1>2. /\ turn' \in 0 .. Len(Turns) /\ cancel_timer' \in TimerIds \cup {Nobody}
        /\ clock' \in -1 .. Clock /\ turn' = turn
    BY Ranges DEF IndInv, TypeOK, EndTurn
  <1>3. open' = FALSE /\ asleep' \in BOOLEAN
    BY DEF EndTurn
  <1>4. TypeOK'
    BY <1>1, <1>2, <1>3, Types
  <1>5. ClockInv'
    BY <1>1, <1>2, <1>3 DEF ClockInv
  <1>6. QED
    BY <1>4, <1>5 DEF IndInv

\* A step that leaves the clock of the open turn as it is and does not switch
\* trusteeship on.
LEMMA AsidePreserves ==
    ASSUME IndInv, TypeOK', turn' = turn, open' = open,
           open => timers'[<<turn, 1>>] = timers[<<turn, 1>>],
           open => timers'[<<turn, 2>>] = timers[<<turn, 2>>],
           open /\ isTrusteeship' => isTrusteeship,
           holder' \in TimerIds => timers'[holder'].at = "run",
           \A id \in TimerIds : id[1] > turn => timers'[id].at = "none"
    PROVE  IndInv'
  <1>1. open => ClockStage(turn)'
    BY DEF IndInv, ClockInv, ClockStage, Running
  <1>2. QED
    BY <1>1 DEF IndInv, ClockInv

LEMMA StartTurnPreserves ==
    ASSUME IndInv, StartTurn PROVE IndInv'
  <1>1. turn + 1 \in TurnIds /\ turn \in Nat
    BY TimerAssumption DEF StartTurn, IndInv, TypeOK, TurnIds
  <1>2. <<turn + 1, 1>> \in TimerIds /\ timers \in [TimerIds -> TimerRecord]
    BY <1>1, Ids DEF IndInv, TypeOK
  <1>3. PICK t \in Shortest .. Ticks :
            timers' = [timers EXCEPT ![<<turn + 1, 1>>] = Timer(Ticks, 1, t)]
    BY DEF StartTurn
  <1>4. timers' \in [TimerIds -> TimerRecord]
    BY <1>2, <1>3, Fields, Ranges
  <1>5. turn' \in 0 .. Len(Turns) /\ clock' \in -1 .. Clock /\ cancel_timer' \in TimerIds
    BY <1>1, <1>2, Ranges DEF StartTurn, TurnIds
  <1>6. TypeOK'
    BY <1>4, <1>5, Types DEF StartTurn, IndInv, TypeOK, Entries
  <1>7. ClockStage(turn)'
    <2>1. timers'[<<turn', 1>>] = Timer(Ticks, 1, t)
      BY <1>2, <1>3 DEF StartTurn
    <2>2. t \in 1 .. Ticks /\ Ticks >= 1
      BY Ranges
    <2>3. QED
      BY <2>1, <2>2 DEF ClockStage, Timer
  <1>8. holder \in TimerIds => holder # <<turn + 1, 1>>
    BY <1>1, <1>2 DEF IndInv, ClockInv
  <1>9. ClockInv'
    <2>1. \A id \in TimerIds : id # <<turn + 1, 1>> => timers'[id] = timers[id]
      BY <1>2, <1>3
    <2>2. \A id \in TimerIds : id[1] > turn + 1 => id # <<turn + 1, 1>> /\ id[1] > turn
      BY <1>1, Ids
    <2>3. turn' = turn + 1 /\ turn' > 0 /\ holder' = holder
      BY <1>1 DEF StartTurn
    <2>4. holder' \in TimerIds => timers'[holder'].at = "run"
      BY <1>8, <2>1, <2>3 DEF IndInv, ClockInv
    <2>5. \A id \in TimerIds : id[1] > turn' => timers'[id].at = "none"
      BY <2>1, <2>2, <2>3 DEF IndInv, ClockInv
    <2>6. QED
      BY <1>7, <2>3, <2>4, <2>5 DEF ClockInv
  <1>10. QED
    BY <1>6, <1>9 DEF IndInv

\* Time passing changes no stage.
LEMMA AdvancePreserves ==
    ASSUME IndInv, Advance PROVE IndInv'
  <1>1. timers \in [TimerIds -> TimerRecord]
    BY DEF IndInv, TypeOK
  <1>2. \A id \in TimerIds : timers'[id] = IF timers[id].at = "sleep"
                                           THEN [timers[id] EXCEPT !.wait = @ - 1] ELSE timers[id]
    BY DEF Advance
  <1>3. \A id \in TimerIds :
            /\ timers'[id] \in TimerRecord /\ timers'[id].at = timers[id].at
            /\ timers'[id].live = timers[id].live /\ timers'[id].left = timers[id].left
            /\ timers'[id].trusteeshipTime = timers[id].trusteeshipTime
    <2> SUFFICES ASSUME NEW id \in TimerIds
                 PROVE  /\ timers'[id] \in TimerRecord /\ timers'[id].at = timers[id].at
                        /\ timers'[id].live = timers[id].live /\ timers'[id].left = timers[id].left
                        /\ timers'[id].trusteeshipTime = timers[id].trusteeshipTime
      OBVIOUS
    <2>1. CASE timers[id].at = "sleep"
      <3>1. timers[id].wait - 1 \in 0 .. (1 + Second)
        BY <1>1, <2>1, Ranges, TimerAssumption, SMTT(30) DEF Advance
      <3>2. QED
        <4> DEFINE r == timers[id]
                   w == timers[id].wait - 1
        <4>1. r \in TimerRecord /\ w \in 0 .. (1 + Second)
          BY <1>1, <3>1
        <4>2. timers'[id] = [r EXCEPT !.wait = w]
          BY <1>2, <2>1
        <4> HIDE DEF w
        <4>3. QED
          BY <4>1, <4>2, Kept
    <2>2. CASE timers[id].at # "sleep"
      BY <1>1, <1>2, <2>2
    <2>3. QED
      BY <2>1, <2>2
  <1>4. timers' \in [TimerIds -> TimerRecord]
    BY <1>3 DEF Advance
  <1>5. TypeOK'
    BY <1>4, Types DEF Advance, IndInv, TypeOK, Entries
  <1>6. open => turn \in TurnIds
    BY TimerAssumption DEF IndInv, TypeOK, ClockInv, TurnIds
  <1>7. open => ClockStage(turn)'
    BY <1>3, <1>6, Ids DEF Advance, IndInv, ClockInv, ClockStage, Running
  <1>8. QED
    BY <1>3, <1>5, <1>7 DEF Advance, IndInv, ClockInv

\* A timeout that is delivered moves one timer on.
LEMMA FirePreserves ==
    ASSUME IndInv, NEW id \in TimerIds, Fire(id) PROVE IndInv'
  <1>1. timers \in [TimerIds -> TimerRecord]
    BY DEF IndInv, TypeOK
  <1>2. PICK q \in TimerRecord :
            /\ timers' = [timers EXCEPT ![id] = q]
            /\ timers[id].at = "sleep"
            /\ \/ timers[id].live /\ q = [timers[id] EXCEPT !.at = "func"]
               \/ ~timers[id].live /\ q = Over
    <2>1. CASE timers[id].live
      <3>1. [timers[id] EXCEPT !.at = "func"] \in TimerRecord
        BY <1>1 DEF TimerRecord
      <3>2. QED
        BY <1>1, <2>1, <3>1 DEF Fire
    <2>2. CASE ~timers[id].live
      BY <2>2, Absentees DEF Fire
    <2>3. QED
      BY <2>1, <2>2
  <1>3. timers' \in [TimerIds -> TimerRecord]
    BY <1>1, <1>2
  <1>4. queue' \in Seq(Entries)
    BY Queueing DEF Fire
  <1>5. TypeOK'
    BY <1>3, <1>4, Types DEF Fire, IndInv, TypeOK
  <1>6. /\ \A j \in TimerIds : j # id => timers'[j] = timers[j]
        /\ timers'[id] = q
    BY <1>1, <1>2
  <1>7. open => turn \in TurnIds
    BY TimerAssumption DEF IndInv, TypeOK, ClockInv, TurnIds
  <1>8. open => ClockStage(turn)'
    <2>1. CASE id \notin {<<turn, 1>>, <<turn, 2>>}
      BY <1>6, <1>7, <2>1, Ids DEF Fire, IndInv, ClockInv, ClockStage, Running
    <2>2. CASE id = <<turn, 1>> /\ open
      <3>1. timers'[<<turn, 2>>] = timers[<<turn, 2>>]
        BY <1>6, <1>7, <2>2, Ids
      <3>2. timers[id].live /\ timers'[id].at = "func" /\ timers'[id].live
             /\ timers'[id].left = timers[id].left
             /\ timers'[id].trusteeshipTime = timers[id].trusteeshipTime
        BY <1>1, <1>2, <1>6, <2>2 DEF IndInv, ClockInv, ClockStage, TimerRecord
      <3>3. QED
        BY <2>2, <3>1, <3>2 DEF Fire, IndInv, ClockInv, ClockStage
    <2>3. CASE id = <<turn, 2>> /\ open
      <3>1. timers'[<<turn, 1>>] = timers[<<turn, 1>>]
        BY <1>6, <1>7, <2>3, Ids
      <3>2. timers[id].live => timers'[id].at = "func" /\ timers'[id].live
        BY <1>1, <1>2, <1>6 DEF TimerRecord
      <3>3. QED
        BY <1>2, <2>3, <3>1, <3>2 DEF Fire, IndInv, ClockInv, ClockStage, Running
    <2>4. QED
      BY <2>1, <2>2, <2>3
  <1>9. QED
    <2>1. holder \in TimerIds => holder # id
      BY <1>2 DEF IndInv, ClockInv
    <2>2. id[1] <= turn
      BY <1>2, Ids DEF IndInv, ClockInv, TypeOK
    <2>3. QED
      BY <1>5, <1>6, <1>8, <2>1, <2>2, Ids DEF Fire, IndInv, ClockInv

-----------------------------------------------------------------------------
\* What is known when the thread of a timer enters cs.
LEMMA Entering ==
    ASSUME IndInv, NEW id \in TimerIds, EnterTimer(id)
    PROVE  /\ timers \in [TimerIds -> TimerRecord] /\ timers[id].at \in {"func", "end"}
           /\ holder = Nobody /\ queue' \in Seq(Entries) /\ id[1] <= turn
           /\ open => turn \in TurnIds
  <1>1. timers \in [TimerIds -> TimerRecord] /\ timers[id].at \in {"func", "end"}
    BY DEF IndInv, TypeOK, EnterTimer
  <1>2. holder = Nobody /\ queue' \in Seq(Entries)
    BY Queueing DEF EnterTimer
  <1>3. id[1] <= turn
    BY <1>1, Ids DEF IndInv, ClockInv, TypeOK
  <1>4. open => turn \in TurnIds
    BY TimerAssumption DEF IndInv, TypeOK, ClockInv, TurnIds
  <1>5. QED
    BY <1>1, <1>2, <1>3, <1>4

\* trusteeshipAction, called by the timer id of an earlier turn or of this one.
LEMMA ActionPreserves ==
    ASSUME IndInv, NEW id \in TimerIds, NEW ts \in [TimerIds -> TimerRecord],
           TrusteeshipAction(id[1], ts), isTrusteeship' = isTrusteeship,
           queue' \in Seq(Entries), holder' \in TimerIds \cup {Nobody, Request, Paying},
           holder' \in TimerIds => ts[holder'].at = "run",
           \A j \in TimerIds : j[1] > turn => ts[j].at = "none",
           \A j \in TimerIds : j # id => ts[j] = timers[j]
    PROVE  IndInv'
  <1>1. CASE EndTurn(ts)
    <2>1. isTrusteeship' \in BOOLEAN
      BY DEF IndInv, TypeOK
    <2>2. QED
      BY <1>1, <2>1, EndTurnPreserves
  <1>2. CASE NoAction(ts) /\ ~(open /\ Turns[id[1]] = Turns[turn])
    <2>1. TypeOK'
      BY <1>2, Types DEF NoAction, IndInv, TypeOK
    <2>2. open => turn \in TurnIds /\ id # <<turn, 1>> /\ id # <<turn, 2>>
      BY <1>2, Ids, TimerAssumption, SMTT(30) DEF IndInv, TypeOK, ClockInv, TurnIds
    <2>3. timers' = ts /\ turn' = turn /\ open' = open
      BY <1>2 DEF NoAction
    <2>4. open => /\ timers'[<<turn, 1>>] = timers[<<turn, 1>>]
                  /\ timers'[<<turn, 2>>] = timers[<<turn, 2>>]
      BY <2>2, <2>3, Ids
    <2>5. QED
      BY <2>1, <2>3, <2>4, AsidePreserves
  <1>3. QED
    BY <1>1, <1>2 DEF TrusteeshipAction

\* A tick of the first timer, in cs.
LEMMA TickPreserves ==
    ASSUME IndInv, NEW id \in TimerIds, EnterTimer(id), timers[id].at = "func", id[2] = 1,
           holder' = id, Tick(id)
    PROVE  IndInv'
  <1> DEFINE t  == timers[id].trusteeshipTime
             t1 == IF t = 0 THEN 0 ELSE t - 1
             ts == [timers EXCEPT ![id].at = "run", ![id].trusteeshipTime = t1]
  <1>0. /\ timers \in [TimerIds -> TimerRecord] /\ queue' \in Seq(Entries)
        /\ id[1] <= turn /\ (open => turn \in TurnIds) /\ isTrusteeship' = isTrusteeship
    BY Entering DEF Tick
  <1>1. t \in 0 .. Ticks /\ t1 \in 0 .. Ticks
    BY <1>0, Ranges, SMTT(30)
  <1>2. /\ ts \in [TimerIds -> TimerRecord]
        /\ ts[id] = [timers[id] EXCEPT !.at = "run", !.trusteeshipTime = t1]
        /\ \A j \in TimerIds : j # id => ts[j] = timers[j]
    <2>1. ts = [timers EXCEPT ![id] = [timers[id] EXCEPT !.at = "run", !.trusteeshipTime = t1]]
      BY <1>0
    <2> HIDE DEF t1
    <2>2. [timers[id] EXCEPT !.at = "run", !.trusteeshipTime = t1] \in TimerRecord
      BY <1>0, <1>1, Fields DEF Stages
    <2> HIDE DEF ts
    <2>3. QED
      BY <1>0, <2>1, <2>2
  <1>3. /\ ts[id].at = "run" /\ ts[id].trusteeshipTime = t1
        /\ ts[id].live = timers[id].live /\ ts[id].left = timers[id].left
    <2> HIDE DEF t1, ts
    <2>1. timers[id] \in TimerRecord
      BY <1>0
    <2>2. QED
      BY <1>2, <2>1 DEF TimerRecord
  <1>4. \A j \in TimerIds : j[1] > turn => ts[j].at = "none"
    <2> HIDE DEF ts
    <2>1. \A j \in TimerIds : j[1] > turn => j # id
      BY <1>0, Ids DEF IndInv, TypeOK
    <2>2. QED
      BY <1>2, <2>1 DEF IndInv, ClockInv
  <1>5. IF t1 = 0 /\ isTrusteeship THEN TrusteeshipAction(id[1], ts) ELSE NoAction(ts)
    BY DEF Tick
  <1> HIDE DEF ts
  <1>6. CASE TrusteeshipAction(id[1], ts)
    BY <1>0, <1>2, <1>3, <1>4, <1>6, ActionPreserves
  <1>7. CASE NoAction(ts) /\ ~(t1 = 0 /\ isTrusteeship)
    <2>1. TypeOK'
      BY <1>0, <1>2, <1>7, Types DEF NoAction, IndInv, TypeOK
    <2>2. timers' = ts /\ turn' = turn /\ open' = open
      BY <1>7 DEF NoAction
    <2>3. open => ClockStage(turn)'
      <3>1. CASE open /\ id = <<turn, 1>>
        <4>1. timers[id].live /\ timers[id].left >= 1
              /\ (isTrusteeship => t \in 1 .. timers[id].left)
          BY <3>1 DEF IndInv, ClockInv, ClockStage
        <4>2. isTrusteeship => t1 \in 1 .. timers[id].left - 1
          BY <1>0, <1>1, <1>7, <4>1, Ranges, SMTT(30)
        <4>3. QED
          BY <1>0, <1>3, <2>2, <3>1, <4>1, <4>2 DEF ClockStage
      <3>2. CASE open /\ id # <<turn, 1>>
        <4>1. id # <<turn, 2>>
          BY Ids
        <4>2. /\ timers'[<<turn, 1>>] = timers[<<turn, 1>>]
              /\ timers'[<<turn, 2>>] = timers[<<turn, 2>>]
          BY <1>0, <1>2, <2>2, <3>2, <4>1, Ids
        <4>3. QED
          BY <1>0, <2>2, <3>2, <4>2 DEF IndInv, ClockInv, ClockStage, Running
      <3>3. QED
        BY <3>1, <3>2
    <2>4. QED
      BY <1>3, <1>4, <2>1, <2>2, <2>3 DEF IndInv, ClockInv
  <1>8. QED
    BY <1>5, <1>6, <1>7

\* One timer moves to another stage and nothing else about the timers changes.
LEMMA Moved ==
    \A ts : \A T \in [TimerIds -> TimerRecord], id \in TimerIds, a \in Stages :
        ts = [T EXCEPT ![id].at = a] =>
            /\ ts \in [TimerIds -> TimerRecord] /\ ts[id].at = a
            /\ \A j \in TimerIds : j # id => ts[j] = T[j]
  <1> SUFFICES ASSUME NEW T \in [TimerIds -> TimerRecord], NEW id \in TimerIds, NEW a \in Stages,
                      NEW ts, ts = [T EXCEPT ![id].at = a]
               PROVE  /\ ts \in [TimerIds -> TimerRecord] /\ ts[id].at = a
                      /\ \A j \in TimerIds : j # id => ts[j] = T[j]
    OBVIOUS
  <1> DEFINE q == [T[id] EXCEPT !.at = a]
  <1>1. ts = [T EXCEPT ![id] = q]
    OBVIOUS
  <1>2. \A r \in TimerRecord : [r EXCEPT !.at = a] \in TimerRecord /\ [r EXCEPT !.at = a].at = a
    BY Fields DEF TimerRecord
  <1>3. q \in TimerRecord /\ q.at = a
    BY <1>2
  <1> HIDE DEF q
  <1>4. QED
    BY <1>1, <1>3

\* A second of the second timer, in cs.
LEMMA CountDownPreserves ==
    ASSUME IndInv, NEW id \in TimerIds, EnterTimer(id), timers[id].at = "func", id[2] = 2,
           holder' = id, CountDown(id)
    PROVE  IndInv'
  <1>0. /\ timers \in [TimerIds -> TimerRecord] /\ queue' \in Seq(Entries)
        /\ id[1] <= turn /\ (open => turn \in TurnIds)
    BY Entering
  <1>1. /\ timers' \in [TimerIds -> TimerRecord] /\ timers'[id].at = "run"
        /\ \A j \in TimerIds : j # id => timers'[j] = timers[j]
    <2>1. timers' = [timers EXCEPT ![id].at = "run"] /\ "run" \in Stages
      BY DEF CountDown, Stages
    <2>2. QED
      BY <1>0, <2>1, Moved
  <1>2. clock' \in -1 .. Clock
    BY TimerAssumption DEF CountDown, IndInv, TypeOK
  <1>3. TypeOK'
    BY <1>0, <1>1, <1>2, Types DEF CountDown, IndInv, TypeOK
  <1>4. open => ClockStage(turn)'
    <2>0. open => <<turn, 1>> \in TimerIds /\ <<turn, 2>> \in TimerIds /\ <<turn, 1>> # id
      BY <1>0, Ids
    <2>1. open => timers'[<<turn, 1>>] = timers[<<turn, 1>>]
      BY <1>1, <2>0
    <2>2. CASE open /\ id = <<turn, 2>>
      <3>1. timers'[id].live = timers[id].live
        BY <1>0 DEF CountDown, TimerRecord
      <3>2. QED
        BY <1>1, <2>1, <2>2, <3>1 DEF CountDown, IndInv, ClockInv, ClockStage, Running
    <2>3. CASE open /\ id # <<turn, 2>>
      <3>1. timers'[<<turn, 2>>] = timers[<<turn, 2>>]
        BY <1>0, <1>1, <2>3, Ids
      <3>2. QED
        BY <2>1, <2>3, <3>1 DEF CountDown, IndInv, ClockInv, ClockStage, Running
    <2>4. QED
      BY <2>2, <2>3
  <1>5. \A j \in TimerIds : j[1] > turn => j # id
    BY <1>0, Ids DEF IndInv, TypeOK
  <1>6. QED
    BY <1>1, <1>3, <1>4, <1>5 DEF CountDown, IndInv, ClockInv

\* The end of the first timer: the second one takes over.
LEMMA StartCountDownPreserves ==
    ASSUME IndInv, NEW id \in TimerIds, EnterTimer(id), timers[id].at = "end", id[2] = 1,
           StartCountDown(id), UNCHANGED <<holder, asleep>>
    PROVE  IndInv'
  <1> DEFINE next == <<id[1], 2>>
             new  == Timer(clock, Second, 0)
  <1>0. /\ timers \in [TimerIds -> TimerRecord] /\ queue' \in Seq(Entries)
        /\ id[1] <= turn /\ (open => turn \in TurnIds) /\ holder = Nobody
    BY Entering
  <1>1. next \in TimerIds /\ next # id /\ next[1] = id[1]
    BY Ids
  <1>2. new \in TimerRecord /\ new.at = "sleep" /\ new.live
    <2>1. clock \in -1 .. (Ticks + Clock)
      BY Ranges DEF IndInv, TypeOK
    <2>2. new \in TimerRecord
      BY <2>1, Ranges, Fields
    <2>3. QED
      BY <2>2 DEF Timer
  <1>3. timers' = [timers EXCEPT ![id] = Over, ![next] = new]
    BY DEF StartCountDown
  <1> HIDE DEF new, next
  <1>4. /\ timers' \in [TimerIds -> TimerRecord] /\ timers'[id].at = "done"
        /\ timers'[next] = new
        /\ \A j \in TimerIds : j # id /\ j # next => timers'[j] = timers[j]
    <2> DEFINE ts == [timers EXCEPT ![id] = Over]
    <2>1. /\ ts \in [TimerIds -> TimerRecord] /\ ts[id].at = "done"
          /\ \A j \in TimerIds : j # id => ts[j] = timers[j]
      BY <1>0, Absentees
    <2>2. timers' = [ts EXCEPT ![next] = new]
      BY <1>3
    <2> HIDE DEF ts
    <2>3. QED
      BY <1>1, <1>2, <2>1, <2>2
  <1>5. TypeOK'
    <2>1. cancel_timer' \in TimerIds
      BY <1>1 DEF StartCountDown, next
    <2>2. QED
      BY <1>0, <1>4, <2>1, Types DEF StartCountDown, IndInv, TypeOK
  <1>6. open => ClockStage(turn)'
    <2>1. CASE open /\ id = <<turn, 1>>
      <3>1. ~isTrusteeship
        BY <2>1 DEF IndInv, ClockInv, ClockStage
      <3>2. next = <<turn, 2>>
        BY <2>1 DEF next
      <3>3. QED
        BY <1>2, <1>4, <2>1, <3>1, <3>2 DEF StartCountDown, ClockStage, Running
    <2>2. CASE open /\ id # <<turn, 1>>
      <3>1. id[1] # turn
        BY <2>2, Ids
      <3>2. <<turn, 1>> # id /\ <<turn, 2>> # id /\ <<turn, 1>> # next /\ <<turn, 2>> # next
        BY <3>1 DEF next
      <3>3. /\ timers'[<<turn, 1>>] = timers[<<turn, 1>>]
            /\ timers'[<<turn, 2>>] = timers[<<turn, 2>>]
        BY <1>0, <1>4, <2>2, <3>2, Ids
      <3>4. QED
        BY <2>2, <3>3 DEF StartCountDown, IndInv, ClockInv, ClockStage, Running
    <2>3. QED
      BY <2>1, <2>2
  <1>7. \A j \in TimerIds : j[1] > turn => j # id /\ j # next
    BY <1>0, <1>1, Ids DEF IndInv, TypeOK
  <1>8. QED
    BY <1>0, <1>4, <1>5, <1>6, <1>7, Marks DEF StartCountDown, IndInv, ClockInv

\* SetTrusteeship, called by the timer id or, for ts = timers, by a request.
LEMMA SetTrusteeshipPreserves ==
    ASSUME IndInv, NEW ts \in [TimerIds -> TimerRecord], NEW on \in BOOLEAN,
           SetTrusteeship(on, ts), queue' \in Seq(Entries),
           holder' \in {Nobody, Request},
           \A j \in TimerIds : j[1] > turn => ts[j].at = "none",
           ts = timers \/ (on /\ \A j \in TimerIds : j[2] = 1 => ts[j] = timers[j])
    PROVE  IndInv'
  <1>0. isTrusteeship' = on /\ isTrusteeship' \in BOOLEAN /\ holder' \notin TimerIds
    BY Marks DEF SetTrusteeship
  <1>1. CASE EndTurn(ts)
    BY <1>0, <1>1, EndTurnPreserves
  <1>2. CASE NoAction(ts) /\ ~(on /\ ~isTrusteeship /\ open)
    <2>1. TypeOK'
      BY <1>0, <1>2, Types DEF NoAction, IndInv, TypeOK
    <2>2. timers' = ts /\ turn' = turn /\ open' = open
      BY <1>2 DEF NoAction
    <2>3. open => ClockStage(turn)'
      <3>1. CASE open /\ on /\ isTrusteeship
        <4>1. turn \in TurnIds
          BY <3>1, TimerAssumption DEF IndInv, TypeOK, ClockInv, TurnIds
        <4>2. timers'[<<turn, 1>>] = timers[<<turn, 1>>]
          BY <2>2, <4>1, Ids
        <4>3. QED
          BY <1>0, <2>2, <3>1, <4>2 DEF IndInv, ClockInv, ClockStage
      <3>2. CASE open /\ ~on
        <4>1. timers' = timers
          BY <2>2, <3>2
        <4>2. QED
          BY <1>0, <2>2, <3>2, <4>1 DEF IndInv, ClockInv, ClockStage, Running
      <3>3. QED
        BY <1>2, <3>1, <3>2
    <2>4. QED
      BY <1>0, <2>1, <2>2, <2>3 DEF IndInv, ClockInv
  <1>3. QED
    BY <1>1, <1>2 DEF SetTrusteeship

\* The second timer runs out.
LEMMA TimeOutPreserves ==
    ASSUME IndInv, NEW id \in TimerIds, EnterTimer(id), timers[id].at = "end", id[2] = 2,
           TimeOut(id), holder' = IF asleep' THEN Request ELSE Nobody
    PROVE  IndInv'
  <1> DEFINE ts == [timers EXCEPT ![id] = Over]
  <1>0. /\ timers \in [TimerIds -> TimerRecord] /\ queue' \in Seq(Entries)
        /\ id[1] <= turn /\ holder' \in {Nobody, Request} /\ holder' \notin TimerIds
    BY Entering, Marks
  <1>1. /\ ts \in [TimerIds -> TimerRecord]
        /\ \A j \in TimerIds : j # id => ts[j] = timers[j]
    BY <1>0, Absentees
  <1>2. \/ TrusteeshipAction(id[1], ts) /\ isTrusteeship' = isTrusteeship
        \/ SetTrusteeship(TRUE, ts)
    BY DEF TimeOut
  <1> HIDE DEF ts
  <1>3. \A j \in TimerIds : j[1] > turn => ts[j].at = "none"
    <2>1. \A j \in TimerIds : j[1] > turn => j # id
      BY <1>0, Ids DEF IndInv, TypeOK
    <2>2. QED
      BY <1>1, <2>1 DEF IndInv, ClockInv
  <1>4. CASE TrusteeshipAction(id[1], ts) /\ isTrusteeship' = isTrusteeship
    BY <1>0, <1>1, <1>3, <1>4, ActionPreserves
  <1>5. CASE SetTrusteeship(TRUE, ts)
    <2>1. \A j \in TimerIds : j[2] = 1 => ts[j] = timers[j]
      BY <1>1
    <2>2. QED
      BY <1>0, <1>1, <1>3, <1>5, <2>1, SetTrusteeshipPreserves
  <1>6. QED
    BY <1>2, <1>4, <1>5

LEMMA EnterTimerPreserves ==
    ASSUME IndInv, NEW id \in TimerIds, EnterTimer(id) PROVE IndInv'
  <1>1. id[2] \in {1, 2}
    BY Ids
  <1>2. CASE timers[id].at = "func"
    BY <1>1, <1>2, TickPreserves, CountDownPreserves DEF EnterTimer
  <1>3. CASE timers[id].at = "end"
    BY <1>3, StartCountDownPreserves, TimeOutPreserves DEF EnterTimer
  <1>4. QED
    BY <1>2, <1>3, Entering

\* cb after func: a cancelled or an exhausted timer is no obstacle, as the turn's own
\* timer has either ticks left or no trusteeship to serve.
LEMMA FuncReturnsPreserves ==
    ASSUME IndInv, NEW id \in TimerIds, FuncReturns(id) PROVE IndInv'
  <1> DEFINE n == OneLess(timers[id].left)
  <1>0. /\ timers \in [TimerIds -> TimerRecord] /\ timers[id].at = "run"
        /\ timers[id] \in TimerRecord /\ n \in -1 .. (Ticks + Clock)
        /\ (open => turn \in TurnIds) /\ turn \in Nat
    BY Ranges, TimerAssumption DEF IndInv, TypeOK, ClockInv, FuncReturns, TurnIds
  <1>1. id[1] <= turn
    BY <1>0, Ids DEF IndInv, ClockInv
  <1>2. PICK a \in {"sleep", "end"}, w \in 0 .. (1 + Second) :
            /\ timers' \in [TimerIds -> TimerRecord] /\ timers'[id].at = a
            /\ timers'[id].live = timers[id].live /\ timers'[id].left = n
            /\ timers'[id].trusteeshipTime = timers[id].trusteeshipTime
            /\ \A j \in TimerIds : j # id => timers'[j] = timers[j]
            /\ a = "end" <=> n = 0
    <2>1. CASE n # 0
      <3> DEFINE w == IF id[2] = 1 THEN 1 ELSE Second
                 q == [timers[id] EXCEPT !.at = "sleep", !.left = n, !.wait = w]
      <3>1. timers' = [timers EXCEPT ![id] = q] /\ w \in 0 .. (1 + Second)
        BY <1>0, <2>1, Ranges DEF FuncReturns, Continue
      <3> HIDE DEF w, n
      <3>2. /\ q \in TimerRecord /\ q.at = "sleep" /\ q.live = timers[id].live /\ q.left = n
            /\ q.trusteeshipTime = timers[id].trusteeshipTime
        BY <1>0, <3>1 DEF TimerRecord
      <3> HIDE DEF q
      <3>3. QED
        BY <1>0, <2>1, <3>1, <3>2
    <2>2. CASE n = 0
      <3> DEFINE q == [timers[id] EXCEPT !.at = "end", !.left = n]
      <3>1. timers' = [timers EXCEPT ![id] = q]
        BY <1>0, <2>2 DEF FuncReturns, Continue
      <3> HIDE DEF n
      <3>2. /\ q \in TimerRecord /\ q.at = "end" /\ q.live = timers[id].live /\ q.left = n
            /\ q.trusteeshipTime = timers[id].trusteeshipTime
        BY <1>0 DEF TimerRecord
      <3> HIDE DEF q
      <3>3. 1 \in 0 .. (1 + Second)
        BY Ranges
      <3>4. QED
        BY <1>0, <2>2, <3>1, <3>2, <3>3
    <2>3. QED
      BY <2>1, <2>2
  <1>3. TypeOK'
    <2>1. queue' \in Seq(Entries)
      BY Queueing DEF FuncReturns, Continue
    <2>2. QED
      BY <1>2, <2>1, Types DEF FuncReturns, IndInv, TypeOK
  <1>4. open => ClockStage(turn)'
    <2>0. turn' = turn /\ isTrusteeship' = isTrusteeship
      BY DEF FuncReturns
    <2>1. CASE open /\ id = <<turn, 1>>
      <3>1. /\ timers[id].live /\ timers[id].left >= 1
            /\ (isTrusteeship => timers[id].trusteeshipTime \in 1 .. timers[id].left - 1)
        BY <1>0, <2>1 DEF IndInv, ClockInv, ClockStage
      <3>2. n = timers[id].left - 1 /\ timers[id].left \in Int
        BY <1>0, <3>1, Ranges DEF OneLess
      <3> HIDE DEF n
      <3>3. CASE n = 0
        <4>1. ~isTrusteeship
          BY <3>1, <3>2, <3>3
        <4>2. QED
          BY <1>2, <2>0, <2>1, <3>3, <4>1 DEF ClockStage
      <3>4. CASE n # 0
        <4>1. n >= 1 /\ (isTrusteeship => timers[id].trusteeshipTime \in 1 .. n)
          BY <3>1, <3>2, <3>4
        <4>2. QED
          BY <1>2, <2>0, <2>1, <3>1, <3>4, <4>1 DEF ClockStage
      <3>5. QED
        BY <3>3, <3>4
    <2>2. CASE open /\ id = <<turn, 2>>
      <3>1. timers'[<<turn, 1>>] = timers[<<turn, 1>>]
        BY <1>0, <1>2, <2>2, Ids
      <3>2. timers[id].live => Running(<<turn, 2>>)' /\ timers'[id].live
        BY <1>0, <1>2, <2>0, <2>2 DEF Running
      <3>3. QED
        BY <2>0, <2>2, <3>1, <3>2 DEF IndInv, ClockInv, ClockStage
    <2>3. CASE open /\ id # <<turn, 1>> /\ id # <<turn, 2>>
      <3>1. /\ timers'[<<turn, 1>>] = timers[<<turn, 1>>]
            /\ timers'[<<turn, 2>>] = timers[<<turn, 2>>]
        BY <1>0, <1>2, <2>3, Ids
      <3>2. QED
        BY <2>0, <2>3, <3>1 DEF IndInv, ClockInv, ClockStage, Running
    <2>4. QED
      BY <2>1, <2>2, <2>3
  <1>5. \A j \in TimerIds : j[1] > turn => j # id
    BY <1>0, <1>1, Ids
  <1>6. QED
    BY <1>2, <1>3, <1>4, <1>5, Marks DEF FuncReturns, IndInv, ClockInv

-----------------------------------------------------------------------------
\* A step that touches neither timers nor turns, with no timer's func left in cs.
LEMMA IdlePreserves ==
    ASSUME IndInv, UNCHANGED <<turn, open, isTrusteeship, clock, cancel_timer, timers>>,
           queue' \in Seq(Entries), asleep' \in BOOLEAN,
           holder' \in {Nobody, Request, Paying} \/ holder' = holder
    PROVE  IndInv'
  <1>1. TypeOK'
    BY Types DEF IndInv, TypeOK
  <1>2. holder' \in TimerIds => timers'[holder'].at = "run"
    BY Marks DEF IndInv, ClockInv
  <1>3. \A id \in TimerIds : id[1] > turn => timers'[id].at = "none"
    BY DEF IndInv, ClockInv
  <1>4. QED
    BY <1>1, <1>2, <1>3, AsidePreserves

LEMMA EnterRequestPreserves ==
    ASSUME IndInv, NEW r \in Requests, EnterRequest(r) PROVE IndInv'
  <1>0. /\ timers \in [TimerIds -> TimerRecord] /\ isTrusteeship \in BOOLEAN
        /\ \A j \in TimerIds : j[1] > turn => timers[j].at = "none"
    BY DEF IndInv, TypeOK, ClockInv
  <1>1. queue' \in Seq(Entries)
    BY Queueing DEF EnterRequest
  <1>2. holder' \in {Nobody, Request, Paying} /\ (r # "pay" => holder' \in {Nobody, Request})
    BY DEF EnterRequest
  <1>3. holder' \notin TimerIds
    BY <1>2, Marks
  <1>4. CASE EndTurn(timers) /\ isTrusteeship' = isTrusteeship
    BY <1>0, <1>1, <1>2, <1>3, <1>4, EndTurnPreserves
  <1>5. CASE NoAction(timers) /\ isTrusteeship' = isTrusteeship
    <2>1. asleep' \in BOOLEAN /\ UNCHANGED <<turn, open, isTrusteeship, clock, cancel_timer, timers>>
      BY <1>5 DEF NoAction
    <2>2. QED
      BY <1>1, <1>2, <2>1, IdlePreserves
  <1>6. CASE r # "pay" /\ \E on \in BOOLEAN : SetTrusteeship(on, timers)
    <2>1. PICK on \in BOOLEAN : SetTrusteeship(on, timers)
      BY <1>6
    <2>2. QED
      BY <1>0, <1>1, <1>2, <1>6, <2>1, SetTrusteeshipPreserves
  <1>7. CASE /\ asleep' = TRUE
             /\ UNCHANGED <<turn, open, isTrusteeship, clock, cancel_timer, timers>>
    <2>1. asleep' \in BOOLEAN
      BY <1>7
    <2>2. QED
      BY <1>1, <1>2, <1>7, <2>1, IdlePreserves
  <1>8. QED
    BY <1>4, <1>5, <1>6, <1>7 DEF EnterRequest

LEMMA RequestReturnsPreserves ==
    ASSUME IndInv, RequestReturns PROVE IndInv'
  <1>0. /\ timers \in [TimerIds -> TimerRecord] /\ isTrusteeship' \in BOOLEAN
        /\ \A j \in TimerIds : j[1] > turn => timers[j].at = "none"
    BY DEF IndInv, TypeOK, ClockInv, RequestReturns
  <1>1. queue' \in Seq(Entries)
    BY Queueing DEF RequestReturns
  <1>2. holder' \in {Nobody, Request} /\ holder' \notin TimerIds
    BY Marks DEF RequestReturns
  <1>3. CASE EndTurn(timers)
    BY <1>0, <1>1, <1>2, <1>3, EndTurnPreserves
  <1>4. CASE asleep' = FALSE /\ UNCHANGED <<turn, open, clock, cancel_timer, timers>>
    <2>1. asleep' \in BOOLEAN /\ isTrusteeship' = isTrusteeship
      BY <1>4 DEF RequestReturns
    <2>2. QED
      BY <1>1, <1>2, <1>4, <2>1, IdlePreserves
  <1>5. QED
    BY <1>3, <1>4 DEF RequestReturns

LEMMA ArrivalPreserves ==
    ASSUME IndInv, NEW r \in Requests, RequestArrives(r) PROVE IndInv'
  <1>1. queue' \in Seq(Entries)
    BY Queueing DEF RequestArrives
  <1>2. asleep' \in BOOLEAN
    BY DEF RequestArrives, IndInv, TypeOK
  <1>3. QED
    BY <1>1, <1>2, IdlePreserves DEF RequestArrives

LEMMA Initially ==
    ASSUME Init PROVE IndInv
  <1>1. \A id \in TimerIds : timers[id] \in TimerRecord /\ timers[id].at = "none"
    BY Absentees DEF Init
  <1>2. turn \in 0 .. Len(Turns) /\ clock \in -1 .. Clock
    BY TimerAssumption DEF Init
  <1>3. TypeOK
    <2>1. timers \in [TimerIds -> TimerRecord]
      <3>1. timers = [id \in TimerIds |-> timers[id]]
        BY DEF Init
      <3>2. QED
        BY <1>1, <3>1
    <2>2. /\ open \in BOOLEAN /\ isTrusteeship \in BOOLEAN /\ asleep \in BOOLEAN
          /\ cancel_timer = Nobody /\ holder = Nobody
      BY DEF Init
    <2>3. queue \in Seq(Entries)
      BY DEF Init
    <2>4. QED
      BY <1>2, <2>1, <2>2, <2>3 DEF TypeOK, Entries
  <1>4. ClockInv
    BY <1>1, Marks DEF Init, ClockInv
  <1>5. QED
    BY <1>3, <1>4 DEF IndInv

LEMMA Inductive ==
    ASSUME IndInv, [Next]_vars PROVE IndInv'
  <1>1. CASE StartTurn
    BY <1>1, StartTurnPreserves
  <1>2. CASE \E r \in Requests : RequestArrives(r)
    BY <1>2, ArrivalPreserves
  <1>3. CASE FireSome
    BY <1>3, FirePreserves DEF FireSome
  <1>4. CASE CsStep
    <2>1. CASE \E id \in TimerIds : EnterTimer(id)
      BY <2>1, EnterTimerPreserves
    <2>2. CASE \E id \in TimerIds : FuncReturns(id)
      BY <2>2, FuncReturnsPreserves
    <2>3. CASE \E r \in Requests : EnterRequest(r)
      BY <2>3, EnterRequestPreserves
    <2>4. CASE RequestReturns
      BY <2>4, RequestReturnsPreserves
    <2>5. QED
      BY <1>4, <2>1, <2>2, <2>3, <2>4 DEF CsStep
  <1>5. CASE Advance
    BY <1>5, AdvancePreserves
  <1>6. CASE UNCHANGED vars
    BY <1>6 DEF vars, IndInv, TypeOK, ClockInv, ClockStage, Running
  <1>7. QED
    BY <1>1, <1>2, <1>3, <1>4, <1>5, <1>6 DEF Next

\* The inductive invariant holds of every behaviour of a player's clocks.
THEOREM ClockInvariance == Spec => []IndInv
  <1>1. Init => IndInv
    BY Initially
  <1>2. IndInv /\ [Next]_vars => IndInv'
    BY Inductive
  <1>3. QED
    BY <1>1, <1>2, PTL DEF Spec

\* No timer's count leaves its range, however many stale timers write player.clock.
THEOREM ClockTypes == Spec => []TypeOK
  <1>1. IndInv => TypeOK
    BY DEF IndInv
  <1>2. QED
    BY <1>1, ClockInvariance, PTL

\* setActionState, cancel_handle and the callbacks of lualib/timer.lua: for any number
\* of turns, ticks, seconds and queued requests, an open turn has a timer of its own
\* that no cancellation, not even one by a stale timer's callback, has stopped.
THEOREM TurnAlwaysHasClock == Spec => []TurnHasClock
  <1>1. IndInv => TurnHasClock
    BY DEF IndInv, ClockInv, ClockStage, TurnHasClock, Running
  <1>2. QED
    BY <1>1, ClockInvariance, PTL

=============================================================================
