----------------------------- MODULE SkynetNode -----------------------------
(***************************************************************************)
(* The scheduler of a skynet node: the services' contexts with their       *)
(* reference counts and the handle table (skynet_server.c,                 *)
(* skynet_handle.c), the message queues and the global list of the queues  *)
(* that have work (skynet_mq.c), and the threads that run them             *)
(* (skynet_start.c): the workers, the timer thread, and the socket thread  *)
(* as far as it sends messages.                                            *)
(*                                                                         *)
(* A step is what the code does under one lock, or one atomic operation.   *)
(* A callback of a service is any sequence of the commands a service can   *)
(* give: send a message, KILL a service, LAUNCH one, ABORT the node.  A    *)
(* handle is not given twice (the index that grows is 24 bits wide), so a  *)
(* service stands for its handle, its context and its queue.               *)
(* Each message keeps its number until someone has had it: when its queue  *)
(* is dropped the number goes on as the error message to the sender.       *)
(***************************************************************************)
EXTENDS MessageQueue, FiniteSets

CONSTANTS Services,      \* the handles that can be in use
          Booted,        \* the services skynet_start launches before it starts the threads
          Workers,       \* worker threads
          Weight,        \* thread_worker's weight of each worker
          Ids,           \* numbers of messages, 1..n: a bound on the messages sent
          Killable,      \* the services a KILL may name
          MayAbort,      \* whether a service may give the command ABORT
          Lap,           \* how far the rings of the booted services have gone round
          None           \* NULL

Timer    == "timer"
Socket   == "socket"
Outside  == {Timer, Socket}        \* threads that only send: their names stand for source 0
Threads  == Workers \cup Outside
Kinds    == {"text", "error"}

ASSUME NodeAssumption ==
    /\ IsFiniteSet(Services) /\ Booted \subseteq Services /\ Killable \subseteq Services
    /\ Workers # {} /\ IsFiniteSet(Workers) /\ Workers \cap Outside = {}
    /\ Weight \in [Workers -> -1..3]
    /\ Ids \subseteq Nat \ {0} /\ IsFiniteSet(Ids)
    /\ MayAbort \in BOOLEAN
    /\ Lap \in 0..(DEFAULT_QUEUE_SIZE - 1)
    /\ None \notin Services \cup Outside /\ Services \cap Outside = {}
    /\ Messages = [id : Ids, src : Services \cup Outside, kind : Kinds]

VARIABLES
    slot,      \* the handle table: "free", "unset" (ctx->handle is still 0) or "set"
    ref,       \* ctx->ref
    init,      \* ctx->init
    ctxMem,    \* memory of the context: "none", "alive" or "freed"
    mq,        \* the services' queues
    mqMem,     \* memory of the queue: "none", "alive" or "freed"
    global,    \* the global list of queues
    total,     \* G_NODE.total
    th,        \* the threads: where each is and its local variables
    sleep,     \* monitor.sleep
    quit,      \* monitor.quit
    fate       \* what has become of each message number

memVars   == <<slot, ref, init, ctxMem, total>>
queueVars == <<mq, mqMem, global>>
vars      == <<memVars, queueVars, th, sleep, quit, fate>>

\* A thread: its place; the queue and the context of message_dispatch, the queue popped
\* to take its place, how many messages are left of this turn and whether it has had one;
\* the queue that mq_release is called for; the message being sent and the service a
\* command is about; the context grabbed by a command or about to be released, and the
\* one being launched; where to go on after a send or a release; what
\* skynet_handle_retireall has not looked at yet, and whether this pass retired any.
Idle == [pc |-> "loop", q |-> None, ctx |-> None, nq |-> None, left |-> 0, first |-> TRUE,
         dq |-> None, msg |-> Vacant, dst |-> None, ref |-> None, born |-> None,
         after |-> "loop", scan |-> {}, found |-> FALSE]

NoQueue == [mq_create EXCEPT !.in_global = FALSE]

\* The booted services have handled their first messages; their queues wait in the global
\* list for a worker to find them empty.
Init ==
    /\ slot   = [s \in Services |-> IF s \in Booted THEN "set" ELSE "free"]
    /\ ref    = [s \in Services |-> IF s \in Booted THEN 1 ELSE 0]
    /\ init   = [s \in Services |-> s \in Booted]
    /\ ctxMem = [s \in Services |-> IF s \in Booted THEN "alive" ELSE "none"]
    /\ mqMem  = ctxMem
    /\ mq     = [s \in Services |-> IF s \in Booted THEN [mq_create EXCEPT !.head = Lap, !.tail = Lap]
                                    ELSE NoQueue]
    /\ global \in {g \in [1..Cardinality(Booted) -> Booted] :
                      \A i, j \in DOMAIN g : g[i] = g[j] => i = j}
    /\ total  = Cardinality(Booted)
    /\ th     = [t \in Threads |-> IF t \in Workers THEN Idle ELSE [Idle EXCEPT !.pc = "idle"]]
    /\ sleep  = 0
    /\ quit   = FALSE
    /\ fate   = [i \in Ids |-> "unsent"]

At(t, l) == th[t].pc = l

\* Thread t goes to l; its other fields stay.
Goto(t, l) == th' = [th EXCEPT ![t].pc = l]

\* Thread t releases its reference to context s and goes on at l.
ReleaseThen(r, s, l) == [r EXCEPT !.pc = "release", !.ref = s, !.after = l]

----------------------------------------------------------------------------
(* skynet_context_message_dispatch *)

\* while (!m->quit); a turn without a queue of its own starts with the global list.
TakeQueue(w) ==
    /\ At(w, "loop") /\ ~quit /\ th[w].q = None
    /\ IF global = <<>>
       THEN Goto(w, "sleep") /\ UNCHANGED global
       ELSE /\ th' = [th EXCEPT ![w].pc = "grab", ![w].q = Head(global)]
            /\ global' = Tail(global)
    /\ UNCHANGED <<memVars, mq, mqMem, sleep, quit, fate>>

\* skynet_handle_grab of the queue's handle.
GrabContext(w) ==
    /\ At(w, "grab") \/ (At(w, "loop") /\ ~quit /\ th[w].q # None)
    /\ LET s == th[w].q IN
       IF slot[s] = "set"
       THEN /\ ref' = [ref EXCEPT ![s] = @ + 1]
            /\ th' = [th EXCEPT ![w].pc = "pop", ![w].ctx = s, ![w].first = TRUE]
       ELSE /\ th' = [th EXCEPT ![w].pc = "mqrelease", ![w].dq = s, ![w].q = None]
            /\ UNCHANGED ref
    /\ UNCHANGED <<slot, init, ctxMem, total, queueVars, sleep, quit, fate>>

\* skynet_mq_pop: the message goes to the callback.  An empty queue is left alone, and
\* whoever puts a message into it puts it into the global list.
PopMessage(w) ==
    /\ At(w, "pop")
    /\ LET s == th[w].ctx IN
       IF Empty(mq[th[w].q])
       THEN /\ mq' = [mq EXCEPT ![th[w].q] = PopEmpty(@)]
            /\ th' = [th EXCEPT ![w] = ReleaseThen([@ EXCEPT !.ctx = None, !.q = None, !.left = 0],
                                                   s, "next")]
            /\ UNCHANGED fate
       ELSE LET m == mq[s].queue[mq[s].head] IN
            /\ mq' = [mq EXCEPT ![s] = [Dequeue(@) EXCEPT !.overload = 0]]
            /\ fate' = [fate EXCEPT ![m.id] = IF m.kind = "text" THEN "handled" ELSE "bounced"]
            /\ Goto(w, IF th[w].first /\ Weight[w] >= 0 THEN "length" ELSE "callback")
    /\ UNCHANGED <<memVars, mqMem, global, sleep, quit>>

\* n >> k, for the weights that thread_worker is given.
ShiftRight(n, k) == n \div <<1, 2, 4, 8>>[k + 1]

\* n = skynet_mq_length(q) >> weight, of which the message in hand is one.
CountMessages(w) ==
    /\ At(w, "length")
    /\ LET n == ShiftRight(mq_length(mq[th[w].q]), Weight[w])
       IN  th' = [th EXCEPT ![w].pc = "callback", ![w].left = IF n > 1 THEN n - 1 ELSE 0]
    /\ UNCHANGED <<memVars, queueVars, sleep, quit, fate>>

\* The callback returns: the next message of this turn, or the end of the turn.
EndCallback(w) ==
    /\ At(w, "callback")
    /\ IF th[w].left > 0
       THEN th' = [th EXCEPT ![w].pc = "pop", ![w].left = @ - 1, ![w].first = FALSE]
       ELSE Goto(w, "swap")
    /\ UNCHANGED <<memVars, queueVars, sleep, quit, fate>>

\* The end of the turn: if another queue waits, q goes behind it, otherwise the worker
\* keeps q.
SwapQueue(w) ==
    /\ At(w, "swap")
    /\ IF global = <<>>
       THEN /\ th' = [th EXCEPT ![w] = ReleaseThen([@ EXCEPT !.ctx = None], th[w].ctx, "loop")]
            /\ UNCHANGED global
       ELSE /\ th' = [th EXCEPT ![w].pc = "pushback", ![w].nq = Head(global)]
            /\ global' = Tail(global)
    /\ UNCHANGED <<memVars, mq, mqMem, sleep, quit, fate>>

PushBack(w) ==
    /\ At(w, "pushback")
    /\ global' = Append(global, th[w].q)
    /\ th' = [th EXCEPT ![w] = ReleaseThen([@ EXCEPT !.ctx = None, !.q = th[w].nq, !.nq = None],
                                           th[w].ctx, "loop")]
    /\ UNCHANGED <<memVars, mq, mqMem, sleep, quit, fate>>

\* return skynet_globalmq_pop(), after a queue that is empty or released.
NextQueue(w) ==
    /\ At(w, "next")
    /\ IF global = <<>>
       THEN Goto(w, "sleep") /\ UNCHANGED global
       ELSE /\ th' = [th EXCEPT ![w].pc = "loop", ![w].q = Head(global)]
            /\ global' = Tail(global)
    /\ UNCHANGED <<memVars, mq, mqMem, sleep, quit, fate>>

----------------------------------------------------------------------------
(* skynet_mq_release, called by message_dispatch or by a launch that failed *)

\* Where its caller goes on.
Caller(t) == IF th[t].ctx = None THEN "next" ELSE "callback"

\* Mutant of ReleaseQueue: a queue that is not marked yet is not pushed back.
ReleaseOnce(w) ==
    /\ At(w, "mqrelease")
    /\ th' = [th EXCEPT ![w].pc = IF mq[th[w].dq].release THEN "drop" ELSE Caller(w),
                        ![w].dq = IF mq[th[w].dq].release THEN @ ELSE None]
    /\ UNCHANGED <<memVars, queueVars, sleep, quit, fate>>

\* The queue is dropped once its context is deleted, and goes to the global list until
\* then.
ReleaseQueue(w) ==
    /\ At(w, "mqrelease")
    /\ LET s == th[w].dq IN
       IF mq[s].release
       THEN Goto(w, "drop") /\ UNCHANGED global
       ELSE /\ global' = Append(global, s)
            /\ th' = [th EXCEPT ![w].pc = Caller(w), ![w].dq = None]
    /\ UNCHANGED <<memVars, mq, mqMem, sleep, quit, fate>>

\* drop_message: an error goes to the source of the message, unless that is 0.
Bounce(w, m, s) ==
    IF m.src \in Outside
    THEN fate' = [fate EXCEPT ![m.id] = "refused"] /\ UNCHANGED th
    ELSE /\ th' = [th EXCEPT ![w].pc = "push", ![w].dst = m.src, ![w].after = "drop",
                             ![w].msg = [id |-> m.id, src |-> s, kind |-> "error"]]
         /\ UNCHANGED fate

\* One round of _drop_queue; the last one frees the queue.
DropQueue(w) ==
    /\ At(w, "drop")
    /\ LET s == th[w].dq IN
       IF Empty(mq[s])
       THEN /\ mq' = [mq EXCEPT ![s] = PopEmpty(@)]
            /\ mqMem' = [mqMem EXCEPT ![s] = "freed"]
            /\ th' = [th EXCEPT ![w].pc = Caller(w), ![w].dq = None]
            /\ UNCHANGED fate
       ELSE /\ Bounce(w, mq[s].queue[mq[s].head], s)
            /\ mq' = [mq EXCEPT ![s] = Dequeue(@)]
            /\ UNCHANGED mqMem
    /\ UNCHANGED <<memVars, global, sleep, quit>>

----------------------------------------------------------------------------
(* skynet_send and skynet_context_push, by a service's callback, by its    *)
(* init function (service_snlua.c sends its first message to itself), by   *)
(* drop_message, or by the timer and the socket thread                     *)

\* The next number that has not been used.
Fresh(i) == fate[i] = "unsent" /\ \A j \in Ids : fate[j] = "unsent" => i <= j

\* A command to send starts at place l, where it also ends.
StartSend(t, l, src, d, back) ==
    /\ At(t, l)
    /\ \E i \in Ids :
          /\ Fresh(i)
          /\ fate' = [fate EXCEPT ![i] = "travelling"]
          /\ th' = [th EXCEPT ![t].pc = "push", ![t].dst = d, ![t].after = back,
                              ![t].msg = [id |-> i, src |-> src, kind |-> "text"]]
    /\ UNCHANGED <<memVars, queueVars, sleep, quit>>

\* A handle that is or was in use, from its registration on: the init function of a
\* service that is being launched may have told it to others.
Known(s) == mqMem[s] # "none"

Send(w, d)     == Known(d) /\ StartSend(w, "callback", th[w].ctx, d, "callback")
InitSend(w)    == StartSend(w, "init", th[w].born, th[w].born, "init")
Timeout(d)     == Known(d) /\ StartSend(Timer, "idle", Timer, d, "idle")
Forward(d)     == Known(d) /\ StartSend(Socket, "idle", Socket, d, "wakeup")

\* Mutant of GrabDestination: the destination is found but not grabbed.
FindDestination(t) ==
    /\ At(t, "push")
    /\ LET s == th[t].dst IN
       IF slot[s] = "set"
       THEN th' = [th EXCEPT ![t].pc = "enqueue", ![t].ref = s] /\ UNCHANGED fate
       ELSE /\ th' = [th EXCEPT ![t].pc = th[t].after, ![t].msg = Vacant, ![t].dst = None]
            /\ fate' = [fate EXCEPT ![th[t].msg.id] = "refused"]
    /\ UNCHANGED <<memVars, queueVars, sleep, quit>>

\* skynet_handle_grab of the destination; the message is freed if there is none.
GrabDestination(t) ==
    /\ At(t, "push")
    /\ LET s == th[t].dst IN
       IF slot[s] = "set"
       THEN /\ ref' = [ref EXCEPT ![s] = @ + 1]
            /\ th' = [th EXCEPT ![t].pc = "enqueue", ![t].ref = s]
            /\ UNCHANGED fate
       ELSE /\ th' = [th EXCEPT ![t].pc = th[t].after, ![t].msg = Vacant, ![t].dst = None]
            /\ fate' = [fate EXCEPT ![th[t].msg.id] = "refused"]
            /\ UNCHANGED ref
    /\ UNCHANGED <<slot, init, ctxMem, total, queueVars, sleep, quit>>

\* Mutant of PushMessage: in_global is not looked at.
PushAlways(t) ==
    /\ At(t, "enqueue")
    /\ LET s == th[t].dst IN
       /\ mq' = [mq EXCEPT ![s] = [Enqueue(@, th[t].msg) EXCEPT !.in_global = TRUE]]
       /\ global' = Append(global, s)
       /\ th' = [th EXCEPT ![t].pc = "release", ![t].msg = Vacant, ![t].dst = None]
    /\ UNCHANGED <<memVars, mqMem, sleep, quit, fate>>

\* skynet_mq_push, then skynet_context_release.
PushMessage(t) ==
    /\ At(t, "enqueue")
    /\ LET s == th[t].dst IN
       /\ mq' = [mq EXCEPT ![s] = [Enqueue(@, th[t].msg) EXCEPT !.in_global = TRUE]]
       /\ global' = IF mq[s].in_global THEN global ELSE Append(global, s)
       /\ th' = [th EXCEPT ![t].pc = "release", ![t].msg = Vacant, ![t].dst = None]
    /\ UNCHANGED <<memVars, mqMem, sleep, quit, fate>>

----------------------------------------------------------------------------
(* skynet_context_release and delete_context *)

Release(t) ==
    /\ At(t, "release")
    /\ LET s == th[t].ref IN
       /\ ref' = [ref EXCEPT ![s] = @ - 1]
       /\ IF ref[s] = 1
          THEN Goto(t, "delete")
          ELSE th' = [th EXCEPT ![t].pc = th[t].after, ![t].ref = None]
    /\ UNCHANGED <<slot, init, ctxMem, total, queueVars, sleep, quit, fate>>

\* Mutant of mark_release: a queue that is not in the global list is left where it is.
MarkOnly(s) == mq' = [mq EXCEPT ![s].release = TRUE] /\ UNCHANGED global

\* skynet_mq_mark_release leaves in_global alone: nobody can push any more.
mark_release(s) ==
    /\ mq' = [mq EXCEPT ![s].release = TRUE]
    /\ global' = IF mq[s].in_global THEN global ELSE Append(global, s)

\* A launch whose context is deleted here does not set ctx->init.
DeleteContext(t) ==
    /\ At(t, "delete")
    /\ LET s == th[t].ref IN
       /\ mark_release(s)
       /\ ctxMem' = [ctxMem EXCEPT ![s] = "freed"]
       /\ total' = total - 1
       /\ th' = [th EXCEPT ![t].pc = IF th[t].after = "setinit" THEN "pushnew" ELSE th[t].after,
                           ![t].ref = None]
    /\ UNCHANGED <<slot, ref, init, mqMem, sleep, quit, fate>>

----------------------------------------------------------------------------
(* KILL and EXIT, LAUNCH, ABORT *)

\* skynet_handle_retire: the context leaves the table, and the table's reference is
\* released after that.
RetireThen(r, s, l) == IF slot[s] = "set" THEN ReleaseThen(r, s, l) ELSE [r EXCEPT !.pc = l]

\* Mutant of FreeSlot: the retired context stays in the table.
KeepSlot(s) == UNCHANGED slot

FreeSlot(s) == slot' = [slot EXCEPT ![s] = IF @ = "set" THEN "free" ELSE @]

\* Any registered handle, also that of a service that is still being launched.
Kill(w, s) ==
    /\ At(w, "callback") /\ s \in Killable /\ slot[s] = "set"
    /\ FreeSlot(s)
    /\ th' = [th EXCEPT ![w] = RetireThen(@, s, "callback")]
    /\ UNCHANGED <<ref, init, ctxMem, total, queueVars, sleep, quit, fate>>

\* skynet_context_new: the context enters the handle table before it knows its handle.
Launch(w, s) ==
    /\ At(w, "callback") /\ ctxMem[s] = "none"
    /\ slot' = [slot EXCEPT ![s] = "unset"]
    /\ ref' = [ref EXCEPT ![s] = 2]
    /\ ctxMem' = [ctxMem EXCEPT ![s] = "alive"]
    /\ th' = [th EXCEPT ![w].pc = "newqueue", ![w].born = s]
    /\ UNCHANGED <<init, total, queueVars, sleep, quit, fate>>

\* ctx->handle is set, its queue created, and context_inc called.
CreateQueue(w) ==
    /\ At(w, "newqueue")
    /\ LET s == th[w].born IN
       /\ slot' = [slot EXCEPT ![s] = "set"]
       /\ mq' = [mq EXCEPT ![s] = mq_create]
       /\ mqMem' = [mqMem EXCEPT ![s] = "alive"]
    /\ total' = total + 1
    /\ Goto(w, "init")
    /\ UNCHANGED <<ref, init, ctxMem, global, sleep, quit, fate>>

\* Mutant of InitSucceeds: the queue is pushed without ctx->init being set.
InitUnset(w) ==
    /\ At(w, "init")
    /\ th' = [th EXCEPT ![w] = ReleaseThen([@ EXCEPT !.born = None, !.dst = th[w].born],
                                           th[w].born, "pushnew")]
    /\ UNCHANGED <<memVars, queueVars, sleep, quit, fate>>

InitSucceeds(w) ==
    /\ At(w, "init")
    /\ th' = [th EXCEPT ![w] = ReleaseThen([@ EXCEPT !.born = None, !.dst = th[w].born],
                                           th[w].born, "setinit")]
    /\ UNCHANGED <<memVars, queueVars, sleep, quit, fate>>

\* ctx->init = true.  The launch no longer holds a reference here: after a KILL or an
\* ABORT the context may have been freed, and the assignment then writes to memory that
\* is no longer its own.  That write, like the later reads of the same pointer for the log
\* and for the answer to LAUNCH, is taken to have no effect.
SetInit(w) ==
    /\ At(w, "setinit")
    /\ init' = [init EXCEPT ![th[w].dst] = ctxMem[th[w].dst] = "alive"]
    /\ Goto(w, "pushnew")
    /\ UNCHANGED <<slot, ref, ctxMem, total, queueVars, sleep, quit, fate>>

\* skynet_globalmq_push(queue)
PushNewQueue(w) ==
    /\ At(w, "pushnew")
    /\ global' = Append(global, th[w].dst)
    /\ th' = [th EXCEPT ![w].pc = "callback", ![w].dst = None]
    /\ UNCHANGED <<memVars, mq, mqMem, sleep, quit, fate>>

InitFails(w) ==
    /\ At(w, "init")
    /\ th' = [th EXCEPT ![w] = ReleaseThen([@ EXCEPT !.born = None, !.dst = th[w].born],
                                           th[w].born, "unborn")]
    /\ UNCHANGED <<memVars, queueVars, sleep, quit, fate>>

\* skynet_handle_retire(handle), then skynet_mq_release(queue)
RetireUnborn(w) ==
    /\ At(w, "unborn")
    /\ FreeSlot(th[w].dst)
    /\ th' = [th EXCEPT ![w] = RetireThen([@ EXCEPT !.dq = th[w].dst, !.dst = None],
                                          th[w].dst, "mqrelease")]
    /\ UNCHANGED <<ref, init, ctxMem, total, queueVars, sleep, quit, fate>>

\* skynet_handle_retireall visits slot after slot, until a pass has retired nothing.
\* (ABORT in a node without services would change nothing.)
Abort(w) ==
    /\ At(w, "callback") /\ MayAbort
    /\ \E s \in Services : slot[s] = "set"
    /\ th' = [th EXCEPT ![w].pc = "scan", ![w].scan = Services, ![w].found = FALSE]
    /\ UNCHANGED <<memVars, queueVars, sleep, quit, fate>>

VisitSlot(w, s) ==
    /\ At(w, "scan") /\ s \in th[w].scan
    /\ FreeSlot(s)
    /\ th' = [th EXCEPT ![w] = RetireThen([@ EXCEPT !.scan = th[w].scan \ {s},
                                                    !.found = th[w].found \/ slot[s] = "set"],
                                         s, "scan")]
    /\ UNCHANGED <<ref, init, ctxMem, total, queueVars, sleep, quit, fate>>

EndPass(w) ==
    /\ At(w, "scan") /\ th[w].scan = {}
    /\ th' = [th EXCEPT ![w].scan = IF th[w].found THEN Services ELSE {}, ![w].found = FALSE,
                        ![w].pc = IF th[w].found THEN "scan" ELSE "callback"]
    /\ UNCHANGED <<memVars, queueVars, sleep, quit, fate>>

----------------------------------------------------------------------------
(* skynet_start.c: sleeping and waking, and the end *)

\* m->mutex is held between ++m->sleep and pthread_cond_wait.
MutexFree == \A w \in Workers : ~At(w, "enter")

Waiting == {w \in Workers : At(w, "waiting")}

StartSleep(w) ==
    /\ At(w, "sleep") /\ MutexFree
    /\ sleep' = sleep + 1
    /\ Goto(w, "enter")
    /\ UNCHANGED <<memVars, queueVars, quit, fate>>

EnterWait(w) ==
    /\ At(w, "enter")
    /\ IF quit
       THEN sleep' = sleep - 1 /\ Goto(w, "loop")
       ELSE Goto(w, "waiting") /\ UNCHANGED sleep
    /\ UNCHANGED <<memVars, queueVars, quit, fate>>

LeaveWait(w) ==
    /\ At(w, "woken") /\ MutexFree
    /\ sleep' = sleep - 1
    /\ Goto(w, "loop")
    /\ UNCHANGED <<memVars, queueVars, quit, fate>>

\* while (!m->quit) ends; what the worker holds is abandoned.
Leave(w) ==
    /\ At(w, "loop") /\ quit
    /\ th' = [th EXCEPT ![w] = [Idle EXCEPT !.pc = "done"]]
    /\ UNCHANGED <<memVars, queueVars, sleep, quit, fate>>

\* "spurious wakeup" is harmless
SpuriousWakeup(w) ==
    /\ At(w, "waiting")
    /\ Goto(w, "woken")
    /\ UNCHANGED <<memVars, queueVars, sleep, quit, fate>>

\* thread_timer: wakeup(m, m->count - 1) with one sleeper or more, outside the mutex.  A
\* signal while no worker waits is lost.
Tick ==
    /\ At(Timer, "idle") /\ total # 0
    /\ sleep >= 1
    /\ \E w \in Waiting : Goto(w, "woken")
    /\ UNCHANGED <<memVars, queueVars, sleep, quit, fate>>

\* Mutant of Stop: quit is set without the broadcast.
StopSilently ==
    /\ At(Timer, "idle") /\ total = 0 /\ MutexFree
    /\ quit' = TRUE
    /\ Goto(Timer, "done")
    /\ UNCHANGED <<memVars, queueVars, sleep, fate>>

\* thread_timer: CHECK_ABORT, then m->quit and the broadcast under the mutex.
Stop ==
    /\ At(Timer, "idle") /\ total = 0 /\ MutexFree
    /\ quit' = TRUE
    /\ th' = [t \in Threads |-> IF t = Timer THEN [th[t] EXCEPT !.pc = "done"]
                                ELSE IF t \in Waiting THEN [th[t] EXCEPT !.pc = "woken"]
                                ELSE th[t]]
    /\ UNCHANGED <<memVars, queueVars, sleep, fate>>

\* thread_socket after a message: wakeup(m, 0), only when all the workers sleep.
SocketWakeup ==
    /\ At(Socket, "wakeup")
    /\ IF sleep >= Cardinality(Workers) /\ Waiting # {}
       THEN \E w \in Waiting : th' = [th EXCEPT ![Socket].pc = "idle", ![w].pc = "woken"]
       ELSE Goto(Socket, "idle")
    /\ UNCHANGED <<memVars, queueVars, sleep, quit, fate>>

\* skynet_socket_exit has been called by the timer thread, and skynet_socket_poll returns 0.
SocketExit ==
    /\ At(Socket, "idle") /\ At(Timer, "done")
    /\ Goto(Socket, "done")
    /\ UNCHANGED <<memVars, queueVars, sleep, quit, fate>>

\* The threads are joined: the process ends.
Joined == (\A t \in Threads : At(t, "done")) /\ UNCHANGED vars

----------------------------------------------------------------------------
\* What a service's callback does before it returns.
Command(w) ==
    \/ \E s \in Services : Send(w, s) \/ Kill(w, s) \/ Launch(w, s)
    \/ Abort(w)

\* The steps a worker takes by itself.
Work(w) ==
    \/ TakeQueue(w) \/ GrabContext(w) \/ PopMessage(w) \/ CountMessages(w)
    \/ EndCallback(w) \/ SwapQueue(w) \/ PushBack(w) \/ NextQueue(w)
    \/ ReleaseQueue(w) \/ DropQueue(w)
    \/ CreateQueue(w) \/ InitSucceeds(w) \/ InitFails(w) \/ SetInit(w) \/ PushNewQueue(w)
    \/ RetireUnborn(w) \/ EndPass(w) \/ \E s \in Services : VisitSlot(w, s)
    \/ StartSleep(w) \/ EnterWait(w) \/ LeaveWait(w) \/ Leave(w)

\* The steps of a send and of a release, by any thread.
Deliver(t) == GrabDestination(t) \/ PushMessage(t) \/ Release(t) \/ DeleteContext(t)

Next ==
    \/ \E w \in Workers : Work(w) \/ Command(w) \/ InitSend(w) \/ SpuriousWakeup(w)
    \/ \E t \in Threads : Deliver(t)
    \/ \E s \in Services : Timeout(s) \/ Forward(s)
    \/ Tick \/ Stop \/ SocketWakeup \/ SocketExit
    \/ Joined

Spec == Init /\ [][Next]_vars

\* Every thread goes on, the timer thread looks every 2.5 ms, and it gets the mutex in the
\* end, which the workers hold only for moments.
FairSpec ==
    /\ Spec
    /\ \A w \in Workers : WF_vars(Work(w))
    /\ \A t \in Threads : WF_vars(Deliver(t))
    /\ WF_vars(Tick) /\ SF_vars(Stop) /\ WF_vars(SocketWakeup) /\ WF_vars(SocketExit)

----------------------------------------------------------------------------
Places == {"loop", "grab", "pop", "length", "callback", "swap", "pushback", "next",
           "mqrelease", "drop", "push", "enqueue", "release", "delete", "newqueue", "init",
           "setinit", "pushnew", "unborn", "scan", "sleep", "enter", "waiting", "woken",
           "idle", "wakeup", "done"}

ThreadStates ==
    LET Some == Services \cup {None} IN
    [pc : Places, q : Some, ctx : Some, nq : Some, left : Nat, first : BOOLEAN,
     dq : Some, msg : Messages \cup {Vacant}, dst : Some, ref : Some, born : Some,
     after : Places, scan : SUBSET Services, found : BOOLEAN]

TypeOK ==
    /\ slot \in [Services -> {"free", "unset", "set"}]
    /\ ref \in [Services -> Nat]
    /\ init \in [Services -> BOOLEAN]
    /\ ctxMem \in [Services -> {"none", "alive", "freed"}]
    /\ mqMem \in [Services -> {"none", "alive", "freed"}]
    /\ DOMAIN mq = Services /\ \A s \in Services : WellFormed(mq[s])
    /\ global \in Seq(Services)
    /\ total \in Nat
    /\ th \in [Threads -> ThreadStates]
    /\ sleep \in 0..Cardinality(Workers)
    /\ quit \in BOOLEAN
    /\ fate \in [Ids -> {"unsent", "travelling", "handled", "bounced", "refused"}]

\* Where a queue's turn is: its positions in the global list and the threads that have it
\* in hand, by q, nq or dq.  A launch has the new queue in hand until it pushes it.
Turns(s) ==
    {<<"global", i>> : i \in {i \in DOMAIN global : global[i] = s}}
    \cup {<<w, "q">> : w \in {w \in Workers : th[w].q = s}}
    \cup {<<w, "nq">> : w \in {w \in Workers : th[w].nq = s}}
    \cup {<<w, "dq">> : w \in {w \in Workers : th[w].dq = s}}
    \cup {<<w, "launch">> : w \in {w \in Workers :
              \/ th[w].born = s /\ ~At(w, "newqueue")
              \/ th[w].dst = s /\ (\/ th[w].pc \in {"setinit", "pushnew", "unborn"}
                                   \/ /\ th[w].pc \in {"release", "delete"}
                                      /\ th[w].after \in {"setinit", "unborn"})}}

\* A message waits in the queue, or the queue of a deleted context waits to be freed.
HasWork(s) == mqMem[s] = "alive" /\ (~Empty(mq[s]) \/ mq[s].release)

\* A queue has its turn in one place at most: none is in the global list twice (the
\* assertion queue->next == NULL of globalmq_push), and none is dispatched by two workers,
\* so that a service's callback runs in one thread at a time.  And a queue with work has
\* one: mq_pop of the last message and a mq_push beside it do not lose the queue.
QueuesScheduled ==
    \A s \in Services :
        LET n == Cardinality(Turns(s)) IN n <= 1 /\ (HasWork(s) /\ ~quit => n = 1)

\* The reference count is the number of references: the handle table's, and those of
\* the threads.
RefCount ==
    \A s \in Services :
        ref[s] = (IF slot[s] # "free" THEN 1 ELSE 0)
                 + Cardinality({t \in Threads : th[t].ctx = s})
                 + Cardinality({t \in Threads : th[t].ref = s /\ ~At(t, "delete")})
                 + Cardinality({t \in Threads : th[t].born = s})

\* What is counted is alive: a context in the handle table or referenced by a thread, and a
\* queue that is listed, in a thread's hand or about to be pushed to, has not been freed,
\* and no context is deleted twice (the assertion release == 0 of mark_release).  The
\* pointer a launch goes on to use after it has released its reference (SetInit) is not
\* counted and not covered; it dangles only once the service has left the table.
ReferencesAlive ==
    /\ \A s \in Services : slot[s] # "free" => ctxMem[s] = "alive"
    /\ \A t \in Threads : \A s \in Services :
        /\ s \in {th[t].ctx, th[t].ref, th[t].born} => ctxMem[s] = "alive"
        /\ At(t, "delete") /\ th[t].ref = s => ~mq[s].release /\ mqMem[s] = "alive"
        /\ At(t, "enqueue") /\ th[t].dst = s => mqMem[s] = "alive" /\ ~mq[s].release
        /\ s \in {th[t].q, th[t].nq, th[t].dq} => mqMem[s] = "alive"
    /\ \A i \in DOMAIN global : mqMem[global[i]] = "alive"

\* assert(ctx->init) in dispatch_message: no message reaches a service whose launch has
\* not set ctx->init.
DispatchedAfterInit == \A w \in Workers : At(w, "callback") => init[th[w].ctx]

\* The life of contexts and queues over launch, kill and abort: references are counted,
\* what is referenced is alive, and no service is called before its launch has set
\* ctx->init.
ContextsSound == TypeOK /\ RefCount /\ ReferencesAlive /\ DispatchedAfterInit

----------------------------------------------------------------------------
(* Why the invariants hold: what each place of a thread implies            *)

\* A send or a release is an errand, which a thread runs for the place it goes on at.
Errands == {"push", "enqueue", "release", "delete"}

Base(r) == IF r.pc \in Errands THEN r.after ELSE r.pc

\* The places where a worker has a context in hand: the turn of a queue.
InTurn == {"pop", "length", "callback", "swap", "pushback", "newqueue", "init", "setinit",
           "pushnew", "unborn", "scan"}

\* Which of its variables a thread uses at which place.
Placed(r) ==
    /\ Base(r) \notin Errands
    /\ r.pc \in {"push", "enqueue"} => r.after \in {"callback", "init", "drop", "idle", "wakeup"}
    /\ r.pc \in {"release", "delete"} =>
           r.after \in {"next", "loop", "callback", "scan", "init", "drop", "setinit", "unborn",
                        "mqrelease", "idle", "wakeup"}
    /\ Base(r) \in InTurn => r.ctx # None
    /\ r.ctx # None => r.ctx = r.q /\ Base(r) \in InTurn \cup {"mqrelease", "drop"}
    /\ r.q # None => r.ctx = r.q \/ Base(r) \in {"loop", "grab"}
    /\ Base(r) = "grab" => r.q # None
    /\ r.nq # None <=> Base(r) = "pushback"
    /\ r.dq # None <=> Base(r) \in {"mqrelease", "drop"}
    /\ r.born # None <=> Base(r) \in {"newqueue", "init"}
    /\ r.ref # None <=> r.pc \in {"enqueue", "release", "delete"}
    /\ r.dst # None <=> r.pc \in {"push", "enqueue"} \/ Base(r) \in {"setinit", "pushnew", "unborn"}
    /\ r.pc = "enqueue" => r.ref = r.dst
    /\ r.pc \in {"release", "delete"} /\ r.after \in {"setinit", "unborn"} => r.ref = r.dst
    /\ r.msg # Vacant <=> r.pc \in {"push", "enqueue"}

\* The workers dispatch, the timer and the socket thread only send.
ThreadInv ==
    /\ \A t \in Threads : Placed(th[t])
    /\ \A w \in Workers : Base(th[w]) \notin {"idle", "wakeup"} /\ (At(w, "length") => Weight[w] >= 0)
    /\ \A t \in Outside : Base(th[t]) \in {"idle", "wakeup", "done"} /\ th[t].q = None

\* The queue that a launch has created and not pushed yet.
Launched(r) == IF Base(r) = "init" THEN r.born
               ELSE IF Base(r) \in {"setinit", "pushnew", "unborn"} THEN r.dst
               ELSE None

Holds(r, s) == s \in {r.q, r.nq, r.dq, Launched(r)}

\* A context lives as long as it is referenced, or is being deleted; its queue lives from
\* the end of its creation on until after the context.
ContextInv(s) ==
    /\ ref[s] > 0 => ctxMem[s] = "alive"
    /\ mq[s].release <=> ctxMem[s] = "freed"
    /\ mqMem[s] = "none" <=> ctxMem[s] = "none" \/ slot[s] = "unset"
    /\ mqMem[s] = "freed" => ctxMem[s] = "freed"

\* What a thread can rely on: the last reference is released once, and a context being
\* made is known to its launch alone.
ReferenceInv(t) ==
    /\ At(t, "delete") => ctxMem[th[t].ref] = "alive" /\ ref[th[t].ref] = 0
    /\ \A u \in Threads : At(t, "delete") /\ At(u, "delete") /\ th[t].ref = th[u].ref => t = u
    /\ At(t, "newqueue") => slot[th[t].born] = "unset"
    /\ \A u \in Threads : At(t, "newqueue") /\ At(u, "newqueue") /\ th[t].born = th[u].born => t = u
    /\ \A s \in Services : slot[s] = "unset" =>
           /\ s \notin {th[t].ctx, th[t].ref}
           /\ th[t].born = s => At(t, "newqueue")

LifeInv ==
    /\ RefCount
    /\ \A s \in Services : ContextInv(s)
    /\ \A t \in Threads : ReferenceInv(t)
    /\ total = Cardinality({s \in Services : ctxMem[s] = "alive" /\ slot[s] # "unset"})

\* A queue is emptied of messages only after its context is gone, and is not in the
\* global list only when it has none.
QueueInv ==
    /\ \A s \in Services : (~mq[s].in_global => Empty(mq[s])) /\ Contents(mq[s]) \in Seq(Messages)
    /\ \A t \in Threads : Base(th[t]) = "drop" => ctxMem[th[t].dq] = "freed"

\* A queue that a worker can come by belongs to a service whose ctx->init is set, or to
\* one that has left the handle table.
Shows(r, s) == s \in {r.q, r.nq, r.dq} \/ (r.pc = "pushnew" /\ r.dst = s)

Listed(s) == \E i \in DOMAIN global : global[i] = s

Found(s) == Listed(s) \/ ~mq[s].in_global \/ \E t \in Threads : Shows(th[t], s)

InitInv ==
    /\ \A t \in Threads : th[t].ctx # None => init[th[t].ctx]
    /\ \A s \in Services : Found(s) /\ slot[s] = "set" => init[s]

SleepInv == sleep = Cardinality({w \in Workers : th[w].pc \in {"enter", "waiting", "woken"}})

\* mq->in_global, or release after it, says whether the queue has its turn somewhere.
Busy(s) == mqMem[s] = "alive" /\ (mq[s].in_global \/ mq[s].release)

Apart(r) ==
    /\ r.nq # None => r.nq # r.q
    /\ r.dq # None => r.dq # r.q
    /\ Launched(r) # None => Launched(r) # r.q

TurnInv ==
    /\ \A i, j \in DOMAIN global : global[i] = global[j] => i = j
    /\ \A t \in Threads : \A s \in Services :
          /\ Holds(th[t], s) => ~Listed(s)
          /\ \A u \in Threads : Holds(th[t], s) /\ Holds(th[u], s) => t = u
    /\ \A t \in Threads : Apart(th[t])
    /\ \A s \in Services :
          /\ Listed(s) \/ (\E t \in Threads : Holds(th[t], s)) => Busy(s)
          /\ Busy(s) /\ ~quit => Listed(s) \/ \E t \in Threads : Holds(th[t], s)

NodeInv == TypeOK /\ ThreadInv /\ LifeInv /\ QueueInv /\ InitInv /\ SleepInv /\ TurnInv

\* The places of number i in the queue of s.
InQueue(s, i) == {<<s, k>> : k \in {k \in DOMAIN Contents(mq[s]) : Contents(mq[s])[k].id = i}}

\* Every number that is on its way is in one place: in a queue or in the hand of a thread
\* that sends it.  None is lost, none is there twice.
Copies(i) ==
    (UNION {InQueue(s, i) : s \in {s \in Services : mqMem[s] = "alive"}})
    \cup {<<t, 0>> : t \in {t \in Threads : th[t].msg # Vacant /\ th[t].msg.id = i}}

OneCopy == \A i \in Ids : Cardinality(Copies(i)) = IF fate[i] = "travelling" THEN 1 ELSE 0

\* The messages of one sender wait at a service in the order they were sent, also when the
\* ring has been moved to a larger one.
OrderKept ==
    \A s \in Services : \A i, j \in DOMAIN Contents(mq[s]) :
        LET m == Contents(mq[s]) IN
        i < j /\ m[i].src = m[j].src /\ {m[i].kind, m[j].kind} = {"text"}
            => m[i].id < m[j].id

\* What the queues promise their senders: each message once, and in order.
MessagesKept == OneCopy /\ OrderKept

----------------------------------------------------------------------------
(* Why messages are kept: where each one is, and who sends it              *)

\* Thread t sends a message.
Sending(t) == th[t].msg # Vacant

\* The numbers are used in their order, and those that are on their way are in a queue or
\* in a thread's hand.
TravelInv ==
    /\ \A i, j \in Ids : j < i /\ fate[i] # "unsent" => fate[j] # "unsent"
    /\ \A s \in Services : mqMem[s] # "alive" => Empty(mq[s])
    /\ \A s \in Services : \A k \in DOMAIN Contents(mq[s]) : fate[Contents(mq[s])[k].id] = "travelling"
    /\ \A t \in Threads : Sending(t) => fate[th[t].msg.id] = "travelling"
    /\ \A i \in Ids : fate[i] = "travelling" =>
           \/ \E s \in Services : \E k \in DOMAIN Contents(mq[s]) : Contents(mq[s])[k].id = i
           \/ \E t \in Threads : Sending(t) /\ th[t].msg.id = i

\* No two places have the same number.
PlaceInv ==
    /\ \A r, s \in Services : \A j \in DOMAIN Contents(mq[r]), k \in DOMAIN Contents(mq[s]) :
           Contents(mq[r])[j].id = Contents(mq[s])[k].id => r = s /\ j = k
    /\ \A t \in Threads : Sending(t) =>
           /\ \A s \in Services : \A k \in DOMAIN Contents(mq[s]) : Contents(mq[s])[k].id # th[t].msg.id
           /\ \A u \in Threads : Sending(u) /\ th[u].msg.id = th[t].msg.id => t = u

\* The source of a text is the service whose callback or launch the thread runs, or the
\* thread itself outside the services.
Origin(t) == IF t \in Outside THEN t ELSE IF th[t].after = "init" THEN th[t].born ELSE th[t].ctx

\* A text in a thread's hand is younger than those its source has sent before.
SenderInv ==
    \A t \in Threads : Sending(t) =>
        IF th[t].after = "drop" THEN th[t].msg.kind = "error"
        ELSE /\ th[t].msg.kind = "text" /\ th[t].msg.src = Origin(t)
             /\ \A s \in Services : \A k \in DOMAIN Contents(mq[s]) :
                    LET m == Contents(mq[s])[k] IN
                    m.kind = "text" /\ m.src = th[t].msg.src => m.id < th[t].msg.id

MessageInv == TravelInv /\ PlaceInv /\ SenderInv /\ OrderKept

\* What is sent to a service is handled by it, given back, or refused, unless the node
\* ends first: also when signals to the condition variable get lost.
MessagesArrive == \A i \in Ids : fate[i] = "travelling" ~> (fate[i] # "travelling" \/ quit)

\* The queue of a deleted context is freed, unless the node ends first.
QueuesFreed == \A s \in Services : ctxMem[s] = "freed" ~> (mqMem[s] = "freed" \/ quit)

\* A node without services ends, and all its threads with it.
NodeEnds ==
    (\A s \in Services : slot[s] = "free")
        ~> ((\A t \in Threads : At(t, "done")) \/ (\E s \in Services : slot[s] # "free"))

=============================================================================
