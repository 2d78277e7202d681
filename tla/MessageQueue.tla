---------------------------- MODULE MessageQueue ----------------------------
(***************************************************************************)
(* The message queue of a service, struct message_queue in skynet_mq.c: a  *)
(* ring of cap slots, of which one is always left free, that doubles when  *)
(* it fills up.  These are the operations under the queue's own spinlock,  *)
(* as functions from queue to queue; who calls them, and the list of the   *)
(* queues that have work, is the module SkynetNode.                        *)
(***************************************************************************)
EXTENDS Integers, Sequences

CONSTANTS Messages,            \* what a slot can hold
          Vacant,              \* a slot whose content will not be read again
          DEFAULT_QUEUE_SIZE,  \* 64 in the code
          MQ_OVERLOAD          \* 1024 in the code

ASSUME QueueAssumption ==
    /\ DEFAULT_QUEUE_SIZE \in Nat /\ DEFAULT_QUEUE_SIZE > 1
    /\ MQ_OVERLOAD \in Nat \ {0}
    /\ Vacant \notin Messages

\* in_global is 1 from the creation on: the service's launch pushes the queue into the
\* global list itself.
mq_create ==
    [cap |-> DEFAULT_QUEUE_SIZE, head |-> 0, tail |-> 0,
     queue |-> [i \in 0..(DEFAULT_QUEUE_SIZE - 1) |-> Vacant],
     in_global |-> TRUE, release |-> FALSE,
     overload |-> 0, overload_threshold |-> MQ_OVERLOAD]

mq_length(q) == IF q.head <= q.tail THEN q.tail - q.head ELSE q.tail + q.cap - q.head

\* The messages in the queue, oldest first.  (What the ring stands for; the code has
\* no such function.)
Contents(q) == [i \in 1..mq_length(q) |-> q.queue[(q.head + i - 1) % q.cap]]

\* A ring as the operations leave it: a record of these fields, and head and tail are slots.
WellFormed(q) ==
    /\ q \in [cap : {q.cap}, head : {q.head}, tail : {q.tail}, queue : {q.queue},
              in_global : {q.in_global}, release : {q.release},
              overload : {q.overload}, overload_threshold : {q.overload_threshold}]
    /\ q.cap \in Nat /\ q.cap > 1
    /\ q.head \in 0..(q.cap - 1) /\ q.tail \in 0..(q.cap - 1)
    /\ q.queue \in [0..(q.cap - 1) -> Messages \cup {Vacant}]

\* Mutant of expand_queue: the slots are copied from the first one on.
ExpandFromZero(q) ==
    [q EXCEPT !.queue = [i \in 0..(2 * q.cap - 1) |-> IF i < q.cap THEN q.queue[i] ELSE Vacant],
              !.head = 0,
              !.tail = q.cap,
              !.cap = 2 * q.cap]

\* The ring as expand_queue finds it is full, head = tail, so all cap slots are copied.
expand_queue(q) ==
    [q EXCEPT !.queue = [i \in 0..(2 * q.cap - 1) |->
                            IF i < q.cap THEN q.queue[(q.head + i) % q.cap] ELSE Vacant],
              !.head = 0,
              !.tail = q.cap,
              !.cap = 2 * q.cap]

\* Mutant of Enqueue: the ring does not grow when it is full.
EnqueueFull(q, m) ==
    [q EXCEPT !.queue[q.tail] = m, !.tail = IF q.tail + 1 >= q.cap THEN 0 ELSE q.tail + 1]

\* mq_push up to the test of in_global.
Enqueue(q, m) ==
    LET t == IF q.tail + 1 >= q.cap THEN 0 ELSE q.tail + 1
        p == [q EXCEPT !.queue[q.tail] = m, !.tail = t]
    IN  IF q.head = t THEN expand_queue(p) ELSE p

\* The threshold doubles until it is no longer below the length.
Threshold(t, length) ==
    LET n == CHOOSE k \in 0..length :
                /\ t * 2^k >= length
                /\ \A j \in 0..(k - 1) : t * 2^j < length
    IN  t * 2^n

\* mq_pop of a queue that has a message: the message is q.queue[q.head].
Dequeue(q) ==
    LET h == IF q.head + 1 >= q.cap THEN 0 ELSE q.head + 1
        length == IF q.tail - h < 0 THEN q.tail - h + q.cap ELSE q.tail - h
    IN  [q EXCEPT !.queue[q.head] = Vacant, !.head = h,
                  !.overload = IF length > q.overload_threshold THEN length ELSE @,
                  !.overload_threshold = Threshold(@, length)]

\* Mutant of PopEmpty: the queue counts as still being in the global list.
PopEmptyUnseen(q) == [q EXCEPT !.overload_threshold = MQ_OVERLOAD]

\* mq_pop of an empty queue: it leaves the global list, or the hands of the worker.
PopEmpty(q) == [q EXCEPT !.overload_threshold = MQ_OVERLOAD, !.in_global = FALSE]

Empty(q) == q.head = q.tail

=============================================================================
