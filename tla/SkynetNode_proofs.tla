------------------------- MODULE SkynetNode_proofs -------------------------
(***************************************************************************)
(* The ring of skynet_mq.c is a first-in, first-out queue for every        *)
(* capacity and every position of head and tail.  The contexts, the        *)
(* reference counts and the turns of the queues of a skynet node are sound *)
(* for every number of services, workers and messages and every            *)
(* interleaving of the threads, and no message is lost, doubled or         *)
(* overtaken by a later one of its sender.  NodeInv is the inductive       *)
(* invariant of the contexts and queues: the steps are sorted by what they *)
(* do to the references and by what they do to the turns, and each part of *)
(* NodeInv is shown to survive every sort of step.  MessageInv, beside it, *)
(* is the one of the messages, whose steps are sorted by how a message     *)
(* moves.                                                                  *)
(***************************************************************************)
EXTENDS SkynetNode, FiniteSetTheorems, TLAPS

----------------------------------------------------------------------------
(* The ring of skynet_mq.c *)

\* What % does below the modulus, and within the next round.
LEMMA ModSmall ==
    ASSUME NEW c \in Nat, c > 0, NEW x \in Nat, x < c
    PROVE  x % c = x
  OBVIOUS

LEMMA ModOnce ==
    ASSUME NEW c \in Nat, c > 0, NEW x \in Nat, c <= x, x < 2 * c
    PROVE  x % c = x - c
  OBVIOUS

\* The slots that mq_length counts: less than the capacity, since one slot stays free.
LEMMA LengthRange ==
    ASSUME NEW q, WellFormed(q)
    PROVE  /\ mq_length(q) \in 0..(q.cap - 1)
           /\ mq_length(q) = 0 <=> q.head = q.tail
           /\ q.tail = (q.head + mq_length(q)) % q.cap
  <1>1. q.cap \in Nat /\ q.cap > 1 /\ q.head \in 0..(q.cap - 1) /\ q.tail \in 0..(q.cap - 1)
    BY DEF WellFormed
  <1>2. CASE q.head <= q.tail
    <2>1. mq_length(q) = q.tail - q.head
      BY <1>2 DEF mq_length
    <2>2. q.tail % q.cap = q.tail
      BY <1>1, ModSmall
    <2> QED BY <1>1, <1>2, <2>1, <2>2, SMTT(30)
  <1>3. CASE q.head > q.tail
    <2>1. mq_length(q) = q.tail + q.cap - q.head
      BY <1>1, <1>3 DEF mq_length
    <2>2. (q.tail + q.cap) % q.cap = q.tail
      BY <1>1, ModOnce
    <2> QED BY <1>1, <1>3, <2>1, <2>2
  <1> QED BY <1>1, <1>2, <1>3

\* A position less than a round behind the head, as a slot.
LEMMA SlotIs ==
    ASSUME NEW c \in Nat, c > 0, NEW h \in 0..(c - 1), NEW k \in 0..(c - 1)
    PROVE  (h + k) % c = IF h + k < c THEN h + k ELSE h + k - c
  <1>1. CASE h + k < c
    BY <1>1, ModSmall
  <1>2. CASE h + k >= c
    BY <1>2, ModOnce
  <1> QED BY <1>1, <1>2

\* Two positions less than a round apart are in different slots.
LEMMA SlotsDiffer ==
    ASSUME NEW c \in Nat, c > 0, NEW h \in 0..(c - 1), NEW i \in 0..(c - 1), NEW j \in 0..(c - 1),
           i # j
    PROVE  (h + i) % c # (h + j) % c
  <1>1. /\ (h + i) % c = IF h + i < c THEN h + i ELSE h + i - c
        /\ (h + j) % c = IF h + j < c THEN h + j ELSE h + j - c
    BY SlotIs
  <1> QED BY <1>1

\* The slot after a given one.
After(x, c) == IF x + 1 >= c THEN 0 ELSE x + 1

\* The number of slots from one to another.
Distance(h, t, c) == IF h <= t THEN t - h ELSE t + c - h

\* What happens to the distance when the tail, or the head, moves on by one.
LEMMA TailMoves ==
    ASSUME NEW c \in Nat, c > 1, NEW h \in 0..(c - 1), NEW t \in 0..(c - 1)
    PROVE  /\ Distance(h, t, c) \in Nat
           /\ After(t, c) \in 0..(c - 1)
           /\ h # After(t, c) => Distance(h, After(t, c), c) = Distance(h, t, c) + 1
           /\ h = After(t, c) => Distance(h, t, c) + 1 = c
  <1>1. CASE t + 1 >= c
    BY <1>1 DEF Distance, After
  <1>2. CASE t + 1 < c
    BY <1>2 DEF Distance, After
  <1> QED BY <1>1, <1>2

LEMMA HeadMoves ==
    ASSUME NEW c \in Nat, c > 1, NEW h \in 0..(c - 1), NEW t \in 0..(c - 1), h # t
    PROVE  /\ Distance(h, t, c) \in 1..(c - 1)
           /\ After(h, c) \in 0..(c - 1)
           /\ Distance(After(h, c), t, c) = Distance(h, t, c) - 1
  <1>1. CASE h + 1 >= c
    BY <1>1 DEF Distance, After
  <1>2. CASE h + 1 < c
    BY <1>2 DEF Distance, After
  <1> QED BY <1>1, <1>2

\* The i-th position behind the new head is the (i + 1)-st behind the old one, and not its slot.
LEMMA HeadLeaves ==
    ASSUME NEW c \in Nat, c > 1, NEW h \in 0..(c - 1), NEW i \in 1..(c - 1)
    PROVE  /\ (After(h, c) + (i - 1)) % c = (h + i) % c
           /\ (h + i) % c # h
           /\ (h + i) % c \in 0..(c - 1)
           /\ (h + (1 - 1)) % c = h
  <1>1. (h + i) % c = IF h + i < c THEN h + i ELSE h + i - c
    BY SlotIs
  <1>2. h % c = h /\ h + (1 - 1) = h
    BY ModSmall
  <1>3. CASE h + 1 >= c
    <2>1. After(h, c) + (i - 1) = i - 1 /\ i - 1 \in Nat /\ i - 1 < c /\ h + i >= c
          /\ h + i - c = i - 1
      BY <1>3 DEF After
    <2>2. (i - 1) % c = i - 1
      BY <2>1, ModSmall
    <2> QED BY <1>1, <1>2, <2>1, <2>2
  <1>4. CASE h + 1 < c
    <2>1. After(h, c) + (i - 1) = h + i
      BY <1>4 DEF After
    <2> QED BY <1>1, <1>2, <2>1
  <1> QED BY <1>3, <1>4

LEMMA LengthIsDistance ==
    ASSUME NEW q
    PROVE  mq_length(q) = Distance(q.head, q.tail, q.cap)
  BY DEF mq_length, Distance

LEMMA SlotRange ==
    ASSUME NEW c \in Nat, c > 0, NEW h \in 0..(c - 1), NEW i \in Nat
    PROVE  (h + i) % c \in 0..(c - 1)
  OBVIOUS

LEMMA ContentsIsSeq ==
    ASSUME NEW q, WellFormed(q)
    PROVE  /\ Contents(q) \in Seq(Messages \cup {Vacant})
           /\ Len(Contents(q)) = mq_length(q)
           /\ DOMAIN Contents(q) = 1..mq_length(q)
           /\ \A i \in 1..mq_length(q) : Contents(q)[i] = q.queue[(q.head + (i - 1)) % q.cap]
  <1>1. q.cap \in Nat /\ q.cap > 1 /\ q.head \in 0..(q.cap - 1)
        /\ q.queue \in [0..(q.cap - 1) -> Messages \cup {Vacant}]
    BY DEF WellFormed
  <1>2. mq_length(q) \in Nat
    BY <1>1, LengthRange
  <1>3. \A i \in 1..mq_length(q) : /\ q.head + i - 1 = q.head + (i - 1)
                                   /\ (q.head + (i - 1)) % q.cap \in 0..(q.cap - 1)
    BY <1>1, <1>2, SlotRange
  <1>4. \A i \in 1..mq_length(q) : q.queue[(q.head + i - 1) % q.cap] \in Messages \cup {Vacant}
    BY <1>1, <1>3
  <1> QED BY <1>2, <1>3, <1>4 DEF Contents

\* The ring after the assignment of mq_push, before it is looked at whether it is full: the
\* new message is in the slot behind the others, which are where they were.
LEMMA Written ==
    ASSUME NEW q, WellFormed(q), NEW m \in Messages,
           NEW i \in 1..(mq_length(q) + 1)
    PROVE  [q.queue EXCEPT ![q.tail] = m][(q.head + (i - 1)) % q.cap]
              = Append(Contents(q), m)[i]
  <1> DEFINE n == mq_length(q)
             f == [q.queue EXCEPT ![q.tail] = m]
             place == (q.head + (i - 1)) % q.cap
  <1>1. q.cap \in Nat /\ q.cap > 1 /\ q.head \in 0..(q.cap - 1) /\ q.tail \in 0..(q.cap - 1)
        /\ q.queue \in [0..(q.cap - 1) -> Messages \cup {Vacant}]
    BY DEF WellFormed
  <1>2. n \in 0..(q.cap - 1) /\ q.tail = (q.head + n) % q.cap
    BY LengthRange
  <1>3. Len(Contents(q)) = n /\ Contents(q) \in Seq(Messages \cup {Vacant})
        /\ \A j \in 1..n : Contents(q)[j] = q.queue[(q.head + (j - 1)) % q.cap]
    BY ContentsIsSeq
  <1>4. place \in 0..(q.cap - 1)
    BY <1>1, <1>2, SlotRange, SMTT(30)
  <1>5. CASE i = n + 1
    <2>1. place = q.tail
      BY <1>2, <1>5
    <2>2. f[place] = m
      BY <1>1, <2>1
    <2>3. Append(Contents(q), m)[i] = m
      BY <1>3, <1>5
    <2> QED BY <2>2, <2>3
  <1>6. CASE i \in 1..n
    <2>1. i - 1 \in 0..(q.cap - 1) /\ i - 1 # n
      BY <1>1, <1>2, <1>6
    <2> DEFINE k == i - 1
    <2>2. place # q.tail
      <3>1. q.cap > 0 /\ k \in 0..(q.cap - 1) /\ n \in 0..(q.cap - 1) /\ k # n
        BY <1>1, <1>2, <2>1
      <3> HIDE DEF k, n
      <3>2. (q.head + k) % q.cap # (q.head + n) % q.cap
        BY <1>1, <3>1, SlotsDiffer, Zenon
      <3> USE DEF k, n
      <3> QED BY <1>2, <3>2
    <2>3. f[place] = q.queue[place]
      BY <1>1, <1>4, <2>2
    <2>4. Append(Contents(q), m)[i] = Contents(q)[i]
      BY <1>3, <1>6
    <2> QED BY <1>3, <1>6, <2>3, <2>4
  <1>7. i = n + 1 \/ i \in 1..n
    BY <1>1, <1>2
  <1> QED BY <1>5, <1>6, <1>7

(***************************************************************************)
(* skynet_mq_create: a new queue is an empty ring of DEFAULT_QUEUE_SIZE    *)
(* slots.                                                                  *)
(***************************************************************************)
THEOREM CreatedEmpty ==
    WellFormed(mq_create) /\ Contents(mq_create) = <<>>
  <1>1. WellFormed(mq_create)
    BY QueueAssumption DEF WellFormed, mq_create
  <1>2. mq_length(mq_create) = 0
    BY DEF mq_length, mq_create
  <1>3. Len(Contents(mq_create)) = 0 /\ Contents(mq_create) \in Seq(Messages \cup {Vacant})
    BY <1>1, <1>2, ContentsIsSeq
  <1> QED BY <1>1, <1>3

\* mq_push into a ring that does not become full.
LEMMA EnqueueRoom ==
    ASSUME NEW q, WellFormed(q), NEW m \in Messages,
           NEW t, t = After(q.tail, q.cap), q.head # t
    PROVE  /\ WellFormed(Enqueue(q, m))
           /\ Contents(Enqueue(q, m)) = Append(Contents(q), m)
  <1> DEFINE f == [q.queue EXCEPT ![q.tail] = m]
             p == [q EXCEPT !.queue[q.tail] = m, !.tail = t]
             n == mq_length(q)
  <1>1. q.cap \in Nat /\ q.cap > 1 /\ q.head \in 0..(q.cap - 1) /\ q.tail \in 0..(q.cap - 1)
        /\ q.queue \in [0..(q.cap - 1) -> Messages \cup {Vacant}]
    BY DEF WellFormed
  <1>2. Enqueue(q, m) = p
    BY DEF Enqueue, After
  <1>3. p.cap = q.cap /\ p.head = q.head /\ p.tail = t /\ p.queue = f
        /\ p \in [cap : {p.cap}, head : {p.head}, tail : {p.tail}, queue : {p.queue},
                  in_global : {p.in_global}, release : {p.release},
                  overload : {p.overload}, overload_threshold : {p.overload_threshold}]
    BY DEF WellFormed
  <1>4. t \in 0..(q.cap - 1)
    BY <1>1, TailMoves
  <1>5. f \in [0..(q.cap - 1) -> Messages \cup {Vacant}]
    BY <1>1
  <1>6. WellFormed(p)
    <2> HIDE DEF p, f
    <2> QED BY <1>1, <1>3, <1>4, <1>5 DEF WellFormed
  <1>7. mq_length(p) = n + 1 /\ n \in Nat
    <2>1. mq_length(p) = Distance(q.head, t, q.cap) /\ n = Distance(q.head, q.tail, q.cap)
      <3> HIDE DEF p
      <3> QED BY <1>3, LengthIsDistance
    <2> HIDE DEF p, n
    <2> QED BY <1>1, <2>1, TailMoves
  <1>8. /\ Contents(q) \in Seq(Messages \cup {Vacant}) /\ Len(Contents(q)) = n
    BY ContentsIsSeq
  <1>9. /\ Contents(p) \in Seq(Messages \cup {Vacant}) /\ Len(Contents(p)) = n + 1
        /\ \A i \in 1..(n + 1) : Contents(p)[i] = f[(q.head + (i - 1)) % q.cap]
    <2> HIDE DEF p, f, n
    <2> QED BY <1>3, <1>6, <1>7, ContentsIsSeq
  <1>10. \A i \in 1..(n + 1) : f[(q.head + (i - 1)) % q.cap] = Append(Contents(q), m)[i]
    BY Written
  <1>11. /\ Append(Contents(q), m) \in Seq(Messages \cup {Vacant})
         /\ Len(Append(Contents(q), m)) = n + 1
    BY <1>8
  <1>12. Contents(p) = Append(Contents(q), m)
    <2> HIDE DEF p, f, n
    <2> DEFINE a == Contents(p)
               b == Append(Contents(q), m)
    <2>1. a \in Seq(Messages \cup {Vacant}) /\ b \in Seq(Messages \cup {Vacant})
          /\ Len(a) = n + 1 /\ Len(b) = n + 1 /\ \A i \in 1..(n + 1) : a[i] = b[i]
      BY <1>9, <1>10, <1>11
    <2> HIDE DEF a, b
    <2>2. a = b
      BY <1>7, <2>1
    <2> QED BY <2>2 DEF a, b
  <1> HIDE DEF p
  <1> QED BY <1>2, <1>6, <1>12

\* mq_push into the last free slot: expand_queue moves the messages to the first slots of a
\* ring of twice the size.
LEMMA EnqueueExpand ==
    ASSUME NEW q, WellFormed(q), NEW m \in Messages,
           q.head = After(q.tail, q.cap)
    PROVE  /\ WellFormed(Enqueue(q, m))
           /\ Contents(Enqueue(q, m)) = Append(Contents(q), m)
  <1> DEFINE f == [q.queue EXCEPT ![q.tail] = m]
             w == [q EXCEPT !.queue[q.tail] = m, !.tail = q.head]
             g == [i \in 0..(2 * q.cap - 1) |->
                      IF i < q.cap THEN f[(q.head + i) % q.cap] ELSE Vacant]
             p == expand_queue(w)
             n == mq_length(q)
  <1>1. q.cap \in Nat /\ q.cap > 1 /\ q.head \in 0..(q.cap - 1) /\ q.tail \in 0..(q.cap - 1)
        /\ q.queue \in [0..(q.cap - 1) -> Messages \cup {Vacant}]
    BY DEF WellFormed
  <1>2. Enqueue(q, m) = p
    BY DEF Enqueue, After
  <1>3. w.cap = q.cap /\ w.head = q.head /\ w.queue = f
        /\ w \in [cap : {w.cap}, head : {w.head}, tail : {w.tail}, queue : {w.queue},
                  in_global : {w.in_global}, release : {w.release},
                  overload : {w.overload}, overload_threshold : {w.overload_threshold}]
    BY DEF WellFormed
  <1>4. p = [w EXCEPT !.queue = g, !.head = 0, !.tail = q.cap, !.cap = 2 * q.cap]
    <2> HIDE DEF w, f
    <2> QED BY <1>3 DEF expand_queue
  <1>5. p.cap = 2 * q.cap /\ p.head = 0 /\ p.tail = q.cap /\ p.queue = g
        /\ p \in [cap : {p.cap}, head : {p.head}, tail : {p.tail}, queue : {p.queue},
                  in_global : {p.in_global}, release : {p.release},
                  overload : {p.overload}, overload_threshold : {p.overload_threshold}]
    <2> HIDE DEF w, f, g, p
    <2> QED BY <1>3, <1>4
  <1>6. f \in [0..(q.cap - 1) -> Messages \cup {Vacant}]
    BY <1>1
  <1>7. g \in [0..(2 * q.cap - 1) -> Messages \cup {Vacant}]
    <2>1. \A i \in 0..(2 * q.cap - 1) : (q.head + i) % q.cap \in 0..(q.cap - 1)
      <3> TAKE i \in 0..(2 * q.cap - 1)
      <3>1. i \in Nat /\ q.cap > 0
        BY <1>1
      <3> QED BY <1>1, <3>1, SlotRange
    <2> HIDE DEF f
    <2> QED BY <1>1, <1>6, <2>1
  <1>8. WellFormed(p)
    <2> HIDE DEF p, g
    <2> QED BY <1>1, <1>5, <1>7 DEF WellFormed
  <1>9. n + 1 = q.cap /\ n \in Nat
    <2>1. n = Distance(q.head, q.tail, q.cap)
      BY LengthIsDistance
    <2> HIDE DEF n
    <2> QED BY <1>1, <2>1, TailMoves
  <1>10. mq_length(p) = n + 1
    <2> HIDE DEF p, n
    <2> QED BY <1>1, <1>5, <1>9 DEF mq_length
  <1>11. /\ Contents(q) \in Seq(Messages \cup {Vacant}) /\ Len(Contents(q)) = n
    BY ContentsIsSeq
  <1>12. /\ Contents(p) \in Seq(Messages \cup {Vacant}) /\ Len(Contents(p)) = n + 1
         /\ \A i \in 1..(n + 1) : Contents(p)[i] = g[(0 + (i - 1)) % (2 * q.cap)]
    <2> HIDE DEF p, g, n
    <2> QED BY <1>5, <1>8, <1>10, ContentsIsSeq
  <1>13. \A i \in 1..(n + 1) : g[(0 + (i - 1)) % (2 * q.cap)] = f[(q.head + (i - 1)) % q.cap]
    <2> TAKE i \in 1..(n + 1)
    <2>1. i - 1 \in 0..(q.cap - 1) /\ 0 + (i - 1) = i - 1 /\ i - 1 \in 0..(2 * q.cap - 1)
      BY <1>1, <1>9
    <2> DEFINE k == i - 1
               c == 2 * q.cap
    <2>2. k % c = k
      <3>1. k \in Nat /\ c \in Nat /\ c > 0 /\ k < c
        BY <1>1, <2>1
      <3> HIDE DEF k, c
      <3> QED BY <3>1, ModSmall
    <2>3. g[k] = f[(q.head + k) % q.cap]
      BY <1>1, <2>1
    <2> HIDE DEF g, f
    <2> QED BY <2>1, <2>2, <2>3
  <1>14. \A i \in 1..(n + 1) : f[(q.head + (i - 1)) % q.cap] = Append(Contents(q), m)[i]
    BY Written
  <1>15. /\ Append(Contents(q), m) \in Seq(Messages \cup {Vacant})
         /\ Len(Append(Contents(q), m)) = n + 1
    BY <1>11
  <1>16. Contents(p) = Append(Contents(q), m)
    <2> HIDE DEF p, f, g, n
    <2> DEFINE a == Contents(p)
               b == Append(Contents(q), m)
    <2>1. a \in Seq(Messages \cup {Vacant}) /\ b \in Seq(Messages \cup {Vacant})
          /\ Len(a) = n + 1 /\ Len(b) = n + 1 /\ \A i \in 1..(n + 1) : a[i] = b[i]
      BY <1>12, <1>13, <1>14, <1>15
    <2> HIDE DEF a, b
    <2>2. a = b
      BY <1>9, <2>1
    <2> QED BY <2>2 DEF a, b
  <1> HIDE DEF p
  <1> QED BY <1>2, <1>8, <1>16

(***************************************************************************)
(* skynet_mq_push: a message pushed is the last one of the queue and the   *)
(* others keep their places, at every position of head and tail, and also  *)
(* when expand_queue moves them to a ring of twice the size.               *)
(***************************************************************************)
THEOREM PushAppends ==
    ASSUME NEW q, WellFormed(q), NEW m \in Messages
    PROVE  /\ WellFormed(Enqueue(q, m))
           /\ Contents(Enqueue(q, m)) = Append(Contents(q), m)
  <1>1. CASE q.head = After(q.tail, q.cap)
    BY <1>1, EnqueueExpand
  <1>2. CASE q.head # After(q.tail, q.cap)
    BY <1>2, EnqueueRoom
  <1> QED BY <1>1, <1>2

(***************************************************************************)
(* skynet_mq_pop: a queue that is not empty hands out its first message    *)
(* and keeps the others in their order; the slot left behind is not read   *)
(* again.                                                                  *)
(***************************************************************************)
THEOREM PopTakesFirst ==
    ASSUME NEW q, WellFormed(q), ~Empty(q)
    PROVE  /\ Contents(q) # <<>> /\ q.queue[q.head] = Head(Contents(q))
           /\ WellFormed(Dequeue(q))
           /\ Contents(Dequeue(q)) = Tail(Contents(q))
  <1> DEFINE h == After(q.head, q.cap)
             length == IF q.tail - h < 0 THEN q.tail - h + q.cap ELSE q.tail - h
             o == IF length > q.overload_threshold THEN length ELSE q.overload
             limit == Threshold(q.overload_threshold, length)
             f == [q.queue EXCEPT ![q.head] = Vacant]
             p == [q EXCEPT !.queue[q.head] = Vacant, !.head = h, !.overload = o,
                            !.overload_threshold = limit]
             n == mq_length(q)
  <1>0. q.head # q.tail
    BY DEF Empty
  <1>1. q.cap \in Nat /\ q.cap > 1 /\ q.head \in 0..(q.cap - 1) /\ q.tail \in 0..(q.cap - 1)
        /\ q.queue \in [0..(q.cap - 1) -> Messages \cup {Vacant}]
    BY DEF WellFormed
  <1>2. Dequeue(q) = p
    BY DEF Dequeue, After
  <1>3. p.cap = q.cap /\ p.head = h /\ p.tail = q.tail /\ p.queue = f
        /\ p \in [cap : {p.cap}, head : {p.head}, tail : {p.tail}, queue : {p.queue},
                  in_global : {p.in_global}, release : {p.release},
                  overload : {p.overload}, overload_threshold : {p.overload_threshold}]
    <2> HIDE DEF o, limit, h
    <2> QED BY DEF WellFormed
  <1>4. h \in 0..(q.cap - 1)
    BY <1>0, <1>1, HeadMoves
  <1>5. f \in [0..(q.cap - 1) -> Messages \cup {Vacant}]
    BY <1>1
  <1>6. WellFormed(p)
    <2> HIDE DEF p, f, h
    <2> QED BY <1>1, <1>3, <1>4, <1>5 DEF WellFormed
  <1>7. n \in 1..(q.cap - 1) /\ mq_length(p) = n - 1
    <2>1. mq_length(p) = Distance(h, q.tail, q.cap) /\ n = Distance(q.head, q.tail, q.cap)
      <3> HIDE DEF p, h
      <3> QED BY <1>3, LengthIsDistance
    <2> HIDE DEF p, n
    <2> QED BY <1>0, <1>1, <2>1, HeadMoves
  <1>8. /\ Contents(q) \in Seq(Messages \cup {Vacant}) /\ Len(Contents(q)) = n
        /\ \A i \in 1..n : Contents(q)[i] = q.queue[(q.head + (i - 1)) % q.cap]
    BY ContentsIsSeq
  <1>9. /\ Contents(p) \in Seq(Messages \cup {Vacant}) /\ Len(Contents(p)) = n - 1
        /\ \A i \in 1..(n - 1) : Contents(p)[i] = f[(h + (i - 1)) % q.cap]
    <2> HIDE DEF p, f, h, n
    <2> QED BY <1>3, <1>6, <1>7, ContentsIsSeq
  <1>10. \A i \in 1..(n - 1) : f[(h + (i - 1)) % q.cap] = q.queue[(q.head + i) % q.cap]
    <2> TAKE i \in 1..(n - 1)
    <2>1. i \in 1..(q.cap - 1)
      BY <1>1, <1>7
    <2>2. /\ (h + (i - 1)) % q.cap = (q.head + i) % q.cap
          /\ (q.head + i) % q.cap # q.head
          /\ (q.head + i) % q.cap \in 0..(q.cap - 1)
      BY <1>1, <2>1, HeadLeaves
    <2> HIDE DEF h
    <2> QED BY <1>1, <2>2
  <1>11. Contents(q) # <<>> /\ q.queue[q.head] = Head(Contents(q))
    <2>1. Contents(q)[1] = q.queue[(q.head + (1 - 1)) % q.cap]
      BY <1>7, <1>8
    <2>2. (q.head + (1 - 1)) % q.cap = q.head
      <3>1. 1 \in 1..(q.cap - 1)
        BY <1>1
      <3> QED BY <1>1, <3>1, HeadLeaves
    <2> HIDE DEF n
    <2> QED BY <1>7, <1>8, <2>1, <2>2
  <1>12. Contents(p) = Tail(Contents(q))
    <2> HIDE DEF p, f, n, h
    <2> DEFINE a == Contents(p)
               c == Contents(q)
               b == Tail(c)
    <2>1. c \in Seq(Messages \cup {Vacant}) /\ Len(c) = n /\ n \in Nat /\ n > 0
          /\ \A i \in 1..n : c[i] = q.queue[(q.head + (i - 1)) % q.cap]
      BY <1>1, <1>7, <1>8
    <2>2. b \in Seq(Messages \cup {Vacant}) /\ Len(b) = n - 1
          /\ \A i \in 1..(n - 1) : b[i] = c[i + 1]
      <3> HIDE DEF c
      <3> QED BY <2>1
    <2>3. \A i \in 1..(n - 1) : a[i] = b[i]
      <3> TAKE i \in 1..(n - 1)
      <3>1. i + 1 \in 1..n /\ (i + 1) - 1 = i
        BY <2>1
      <3>2. c[i + 1] = q.queue[(q.head + i) % q.cap]
        BY <2>1, <3>1
      <3>3. a[i] = q.queue[(q.head + i) % q.cap]
        BY <1>9, <1>10
      <3> HIDE DEF a, b, c
      <3> QED BY <2>2, <3>2, <3>3
    <2>4. a \in Seq(Messages \cup {Vacant}) /\ Len(a) = n - 1
      BY <1>9
    <2> HIDE DEF a, b
    <2>5. a = b
      BY <2>1, <2>2, <2>3, <2>4
    <2> QED BY <2>5 DEF a, b
  <1> HIDE DEF p
  <1> QED BY <1>2, <1>6, <1>11, <1>12

----------------------------------------------------------------------------
(* Counting *)

\* Two subsets of a finite set that differ in one element at most.
LEMMA CountSolo ==
    ASSUME NEW T, IsFiniteSet(T), NEW x \in T, NEW A \in SUBSET T, NEW B \in SUBSET T,
           \A u \in T \ {x} : u \in A <=> u \in B
    PROVE  /\ Cardinality(A) \in Nat /\ Cardinality(B) \in Nat
           /\ Cardinality(B) = Cardinality(A) - (IF x \in A THEN 1 ELSE 0) + (IF x \in B THEN 1 ELSE 0)
           /\ x \in A => Cardinality(A) >= 1
  <1>1. IsFiniteSet(A) /\ IsFiniteSet(B)
    BY FS_Subset
  <1>2. Cardinality(A) \in Nat /\ Cardinality(B) \in Nat
    BY <1>1, FS_CardinalityType
  <1>3. A \ {x} = B \ {x}
    OBVIOUS
  <1>4. /\ x \in A => Cardinality(A \ {x}) = Cardinality(A) - 1
        /\ x \in B => Cardinality(B \ {x}) = Cardinality(B) - 1
    BY <1>1, FS_RemoveElement
  <1>5. /\ x \notin A => A \ {x} = A
        /\ x \notin B => B \ {x} = B
    OBVIOUS
  <1>6. Cardinality(A \ {x}) \in Nat
    BY <1>1, FS_RemoveElement, FS_CardinalityType
  <1> DEFINE a == Cardinality(A)  b == Cardinality(B)  c == Cardinality(A \ {x})
  <1>7. Cardinality(B \ {x}) = c
    BY <1>3, Zenon
  <1>8. (x \in A => c = a - 1) /\ (x \in B => c = b - 1)
    BY <1>4, <1>7
  <1>9. (x \notin A => c = a) /\ (x \notin B => c = b)
    BY <1>5, <1>7, Zenon
  <1>10. a \in Nat /\ b \in Nat /\ c \in Nat
    BY <1>2, <1>6
  <1> HIDE DEF a, b, c
  <1>11. b = a - (IF x \in A THEN 1 ELSE 0) + (IF x \in B THEN 1 ELSE 0) /\ (x \in A => a >= 1)
    BY <1>8, <1>9, <1>10
  <1> QED BY <1>10, <1>11, Zenon DEF a, b

LEMMA ThreadsFinite == IsFiniteSet(Threads) /\ Workers \subseteq Threads /\ IsFiniteSet(Workers)
                       /\ Outside \subseteq Threads
  <1>1. IsFiniteSet({Timer}) /\ IsFiniteSet({Socket})
    BY FS_Singleton
  <1>2. Outside = {Timer} \cup {Socket}
    BY DEF Outside
  <1>3. IsFiniteSet(Outside)
    BY <1>1, <1>2, FS_Union
  <1> QED BY <1>3, FS_Union, NodeAssumption DEF Threads

\* The references a thread has to a context, and those that all have.
Uses(r, s) ==
    (IF r.ctx = s THEN 1 ELSE 0) + (IF r.ref = s /\ r.pc # "delete" THEN 1 ELSE 0)
    + (IF r.born = s THEN 1 ELSE 0)

Counted(s) ==
    Cardinality({t \in Threads : th[t].ctx = s})
    + Cardinality({t \in Threads : th[t].ref = s /\ ~At(t, "delete")})
    + Cardinality({t \in Threads : th[t].born = s})

Tabled(s) == IF slot[s] # "free" THEN 1 ELSE 0

\* A step of one thread.
Solo(t) == \A u \in Threads \ {t} : th'[u] = th[u]

LEMMA CountedStep ==
    ASSUME NEW t \in Threads, Solo(t), NEW s
    PROVE  /\ Counted(s) \in Nat /\ Counted(s)' \in Nat
           /\ Counted(s)' = Counted(s) - Uses(th[t], s) + Uses(th'[t], s)
           /\ Uses(th[t], s) <= Counted(s)
  <1> DEFINE A1 == {u \in Threads : th[u].ctx = s}
             A2 == {u \in Threads : th[u].ref = s /\ ~At(u, "delete")}
             A3 == {u \in Threads : th[u].born = s}
             B1 == {u \in Threads : th'[u].ctx = s}
             B2 == {u \in Threads : th'[u].ref = s /\ ~(th'[u].pc = "delete")}
             B3 == {u \in Threads : th'[u].born = s}
  <1>0. IsFiniteSet(Threads)
    BY ThreadsFinite
  <1>1. \A u \in Threads \ {t} : u \in A1 <=> u \in B1
    BY DEF Solo
  <1>2. \A u \in Threads \ {t} : u \in A2 <=> u \in B2
    BY DEF Solo, At
  <1>3. \A u \in Threads \ {t} : u \in A3 <=> u \in B3
    BY DEF Solo
  <1>4. A1 \in SUBSET Threads /\ B1 \in SUBSET Threads /\ A2 \in SUBSET Threads
        /\ B2 \in SUBSET Threads /\ A3 \in SUBSET Threads /\ B3 \in SUBSET Threads
    OBVIOUS
  <1>5. /\ t \in A1 <=> th[t].ctx = s
        /\ t \in B1 <=> th'[t].ctx = s
        /\ t \in A2 <=> th[t].ref = s /\ th[t].pc # "delete"
        /\ t \in B2 <=> th'[t].ref = s /\ th'[t].pc # "delete"
        /\ t \in A3 <=> th[t].born = s
        /\ t \in B3 <=> th'[t].born = s
    BY DEF At
  <1>6. Counted(s) = Cardinality(A1) + Cardinality(A2) + Cardinality(A3)
    BY DEF Counted
  <1>7. Counted(s)' = Cardinality(B1) + Cardinality(B2) + Cardinality(B3)
    BY DEF Counted, At
  <1> HIDE DEF A1, A2, A3, B1, B2, B3
  <1>8. /\ Cardinality(A1) \in Nat /\ Cardinality(B1) \in Nat
        /\ Cardinality(B1) = Cardinality(A1) - (IF t \in A1 THEN 1 ELSE 0) + (IF t \in B1 THEN 1 ELSE 0)
        /\ t \in A1 => Cardinality(A1) >= 1
    BY <1>0, <1>1, <1>4, CountSolo, Zenon
  <1>9. /\ Cardinality(A2) \in Nat /\ Cardinality(B2) \in Nat
        /\ Cardinality(B2) = Cardinality(A2) - (IF t \in A2 THEN 1 ELSE 0) + (IF t \in B2 THEN 1 ELSE 0)
        /\ t \in A2 => Cardinality(A2) >= 1
    BY <1>0, <1>2, <1>4, CountSolo, Zenon
  <1>10. /\ Cardinality(A3) \in Nat /\ Cardinality(B3) \in Nat
         /\ Cardinality(B3) = Cardinality(A3) - (IF t \in A3 THEN 1 ELSE 0) + (IF t \in B3 THEN 1 ELSE 0)
         /\ t \in A3 => Cardinality(A3) >= 1
    BY <1>0, <1>3, <1>4, CountSolo, Zenon
  <1> DEFINE a1 == Cardinality(A1)  a2 == Cardinality(A2)  a3 == Cardinality(A3)
             b1 == Cardinality(B1)  b2 == Cardinality(B2)  b3 == Cardinality(B3)
  <1>11. /\ a1 \in Nat /\ b1 \in Nat /\ (th[t].ctx = s => a1 >= 1)
         /\ b1 = a1 - (IF th[t].ctx = s THEN 1 ELSE 0) + (IF th'[t].ctx = s THEN 1 ELSE 0)
    BY <1>5, <1>8
  <1>12. /\ a2 \in Nat /\ b2 \in Nat /\ (th[t].ref = s /\ th[t].pc # "delete" => a2 >= 1)
         /\ b2 = a2 - (IF th[t].ref = s /\ th[t].pc # "delete" THEN 1 ELSE 0)
                   + (IF th'[t].ref = s /\ th'[t].pc # "delete" THEN 1 ELSE 0)
    BY <1>5, <1>9
  <1>13. /\ a3 \in Nat /\ b3 \in Nat /\ (th[t].born = s => a3 >= 1)
         /\ b3 = a3 - (IF th[t].born = s THEN 1 ELSE 0) + (IF th'[t].born = s THEN 1 ELSE 0)
    BY <1>5, <1>10
  <1>14. Counted(s) = a1 + a2 + a3 /\ Counted(s)' = b1 + b2 + b3
    BY <1>6, <1>7, Zenon
  <1> HIDE DEF a1, a2, a3, b1, b2, b3
  <1> QED BY <1>11, <1>12, <1>13, <1>14 DEF Uses

LEMMA CountedNow ==
    ASSUME NEW t \in Threads, NEW s
    PROVE  Counted(s) \in Nat /\ Uses(th[t], s) <= Counted(s) /\ Uses(th[t], s) \in 0..3
  <1>1. IsFiniteSet(Threads)
    BY ThreadsFinite
  <1> DEFINE A1 == {u \in Threads : th[u].ctx = s}
             A2 == {u \in Threads : th[u].ref = s /\ ~At(u, "delete")}
             A3 == {u \in Threads : th[u].born = s}
  <1>2. A1 \in SUBSET Threads /\ A2 \in SUBSET Threads /\ A3 \in SUBSET Threads
    OBVIOUS
  <1>3. /\ t \in A1 <=> th[t].ctx = s
        /\ t \in A2 <=> th[t].ref = s /\ th[t].pc # "delete"
        /\ t \in A3 <=> th[t].born = s
    BY DEF At
  <1>4. Counted(s) = Cardinality(A1) + Cardinality(A2) + Cardinality(A3)
    BY DEF Counted
  <1> HIDE DEF A1, A2, A3
  <1>5. Cardinality(A1) \in Nat /\ (t \in A1 => Cardinality(A1) >= 1)
    BY <1>1, <1>2, CountSolo, Zenon
  <1>6. Cardinality(A2) \in Nat /\ (t \in A2 => Cardinality(A2) >= 1)
    BY <1>1, <1>2, CountSolo, Zenon
  <1>7. Cardinality(A3) \in Nat /\ (t \in A3 => Cardinality(A3) >= 1)
    BY <1>1, <1>2, CountSolo, Zenon
  <1> QED BY <1>3, <1>4, <1>5, <1>6, <1>7 DEF Uses

----------------------------------------------------------------------------
(* The queues *)

\* What NodeInv says of the ring itself.
Sound(q) == WellFormed(q) /\ Contents(q) \in Seq(Messages) /\ (~q.in_global => Empty(q))

LEMMA SameRing ==
    ASSUME NEW q, NEW p, p.cap = q.cap, p.head = q.head, p.tail = q.tail, p.queue = q.queue
    PROVE  Contents(p) = Contents(q) /\ mq_length(p) = mq_length(q) /\ (Empty(p) <=> Empty(q))
  <1>1. mq_length(p) = mq_length(q)
    BY DEF mq_length
  <1> QED BY <1>1 DEF Contents, Empty

\* The fields beside the ring.
LEMMA EnqueueFlags ==
    ASSUME NEW q, WellFormed(q), NEW m
    PROVE  Enqueue(q, m).release = q.release
  <1> DEFINE t == IF q.tail + 1 >= q.cap THEN 0 ELSE q.tail + 1
             p == [q EXCEPT !.queue[q.tail] = m, !.tail = t]
  <1>1. p.release = q.release
    BY DEF WellFormed
  <1>2. expand_queue(p).release = q.release
    BY DEF WellFormed, expand_queue
  <1>3. Enqueue(q, m) = IF q.head = t THEN expand_queue(p) ELSE p
    BY DEF Enqueue
  <1> HIDE DEF p, t
  <1> QED BY <1>1, <1>2, <1>3

LEMMA DequeueFlags ==
    ASSUME NEW q, WellFormed(q)
    PROVE  Dequeue(q).release = q.release /\ Dequeue(q).in_global = q.in_global
  BY DEF WellFormed, Dequeue

\* mq_push
LEMMA PushSound ==
    ASSUME NEW q, Sound(q), NEW m \in Messages,
           NEW p, p = [Enqueue(q, m) EXCEPT !.in_global = TRUE]
    PROVE  Sound(p) /\ p.release = q.release /\ p.in_global = TRUE
  <1> DEFINE e == Enqueue(q, m)
  <1>1. WellFormed(e) /\ Contents(e) = Append(Contents(q), m) /\ e.release = q.release
    BY PushAppends, EnqueueFlags DEF Sound
  <1>2. Contents(e) \in Seq(Messages)
    BY <1>1 DEF Sound
  <1> HIDE DEF e
  <1>3. p = [e EXCEPT !.in_global = TRUE]
    BY DEF e
  <1>4. /\ p.cap = e.cap /\ p.head = e.head /\ p.tail = e.tail /\ p.queue = e.queue
        /\ p.release = e.release /\ p.in_global = TRUE
    BY <1>1, <1>3 DEF WellFormed
  <1>5. WellFormed(p)
    BY <1>1, <1>3, <1>4 DEF WellFormed
  <1>6. Contents(p) = Contents(e)
    BY <1>4, SameRing
  <1> QED BY <1>1, <1>2, <1>4, <1>5, <1>6 DEF Sound

\* mq_pop of a message, and skynet_mq_overload after it.
LEMMA PopSound ==
    ASSUME NEW q, Sound(q), ~Empty(q)
    PROVE  /\ q.queue[q.head] \in Messages
           /\ Sound(Dequeue(q))
           /\ Dequeue(q).release = q.release /\ Dequeue(q).in_global = q.in_global
  <1> DEFINE d == Dequeue(q)
  <1>1. WellFormed(d) /\ Contents(d) = Tail(Contents(q)) /\ Contents(q) # <<>>
        /\ q.queue[q.head] = Head(Contents(q))
    BY PopTakesFirst DEF Sound
  <1>2. d.release = q.release /\ d.in_global = q.in_global
    BY DequeueFlags DEF Sound
  <1>3. Contents(d) \in Seq(Messages) /\ Head(Contents(q)) \in Messages
    BY <1>1 DEF Sound
  <1> HIDE DEF d
  <1>4. q.in_global
    BY DEF Sound
  <1>5. Sound(d)
    BY <1>1, <1>2, <1>3, <1>4 DEF Sound
  <1> QED BY <1>1, <1>2, <1>3, <1>5 DEF d

LEMMA OverloadSound ==
    ASSUME NEW q, Sound(q), NEW p, p = [q EXCEPT !.overload = 0]
    PROVE  Sound(p) /\ p.release = q.release /\ p.in_global = q.in_global
  <1>1. /\ p.cap = q.cap /\ p.head = q.head /\ p.tail = q.tail /\ p.queue = q.queue
        /\ p.release = q.release /\ p.in_global = q.in_global
    BY DEF Sound, WellFormed
  <1>2. WellFormed(p)
    BY <1>1 DEF Sound, WellFormed
  <1> QED BY <1>1, <1>2, SameRing DEF Sound

\* mq_pop of an empty queue.
LEMMA PopEmptySound ==
    ASSUME NEW q, Sound(q), Empty(q)
    PROVE  Sound(PopEmpty(q)) /\ PopEmpty(q).release = q.release /\ PopEmpty(q).in_global = FALSE
  <1> DEFINE p == PopEmpty(q)
  <1>1. /\ p.cap = q.cap /\ p.head = q.head /\ p.tail = q.tail /\ p.queue = q.queue
        /\ p.release = q.release /\ p.in_global = FALSE
    BY DEF Sound, WellFormed, PopEmpty
  <1>2. WellFormed(p)
    BY <1>1 DEF Sound, WellFormed, PopEmpty
  <1> HIDE DEF p
  <1>3. Sound(p)
    BY <1>1, <1>2, SameRing DEF Sound
  <1> QED BY <1>1, <1>3 DEF p

\* skynet_mq_mark_release
LEMMA MarkSound ==
    ASSUME NEW q, Sound(q), NEW p, p = [q EXCEPT !.release = TRUE]
    PROVE  Sound(p) /\ p.release = TRUE /\ p.in_global = q.in_global
  <1>1. /\ p.cap = q.cap /\ p.head = q.head /\ p.tail = q.tail /\ p.queue = q.queue
        /\ p.release = TRUE /\ p.in_global = q.in_global
    BY DEF Sound, WellFormed
  <1>2. WellFormed(p)
    BY <1>1 DEF Sound, WellFormed
  <1> QED BY <1>1, <1>2, SameRing DEF Sound

\* skynet_mq_create; also the ring of a booted service, which has gone round Lap slots,
\* and of one that does not exist yet.
LEMMA CreateSound ==
    /\ Sound(mq_create) /\ mq_create.release = FALSE /\ mq_create.in_global = TRUE
    /\ LET b == [mq_create EXCEPT !.head = Lap, !.tail = Lap]
       IN  Sound(b) /\ b.release = FALSE /\ b.in_global = TRUE
    /\ Sound(NoQueue) /\ NoQueue.release = FALSE /\ NoQueue.in_global = FALSE
  <1> DEFINE b == [mq_create EXCEPT !.head = Lap, !.tail = Lap]
  <1>1. mq_create.release = FALSE /\ mq_create.in_global = TRUE /\ Empty(mq_create)
    BY DEF mq_create, Empty
  <1>2. Sound(mq_create)
    BY <1>1, CreatedEmpty DEF Sound
  <1>3. /\ b.cap = DEFAULT_QUEUE_SIZE /\ b.head = Lap /\ b.tail = Lap
        /\ b.release = FALSE /\ b.in_global = TRUE
    BY DEF mq_create
  <1>4. WellFormed(b)
    BY QueueAssumption, NodeAssumption DEF WellFormed, mq_create
  <1> HIDE DEF b
  <1>5. mq_length(b) = 0
    BY <1>3, NodeAssumption DEF mq_length
  <1>6. Contents(b) = <<>>
    <2>1. Len(Contents(b)) = 0 /\ Contents(b) \in Seq(Messages \cup {Vacant})
      BY <1>4, <1>5, ContentsIsSeq
    <2> QED BY <2>1
  <1>7. Sound(b)
    BY <1>3, <1>4, <1>6 DEF Sound
  <1> DEFINE n == NoQueue
  <1>8. /\ n.cap = mq_create.cap /\ n.head = mq_create.head /\ n.tail = mq_create.tail
        /\ n.queue = mq_create.queue /\ n.release = FALSE /\ n.in_global = FALSE
    BY DEF NoQueue, mq_create
  <1>9. WellFormed(n)
    BY <1>8, CreatedEmpty DEF WellFormed, NoQueue, mq_create
  <1> HIDE DEF n
  <1>10. Sound(n)
    BY <1>1, <1>2, <1>8, <1>9, SameRing DEF Sound
  <1> QED BY <1>1, <1>2, <1>3, <1>7, <1>8, <1>10 DEF b, n

----------------------------------------------------------------------------
(* The global list *)

Once(g) == \A i, j \in DOMAIN g : g[i] = g[j] => i = j
In(g, s) == \E i \in DOMAIN g : g[i] = s

LEMMA AppendOnce ==
    ASSUME NEW S, NEW g \in Seq(S), NEW x \in S
    PROVE  /\ Append(g, x) \in Seq(S)
           /\ \A s : In(Append(g, x), s) <=> In(g, s) \/ s = x
           /\ Once(g) /\ ~In(g, x) => Once(Append(g, x))
  <1> DEFINE h == Append(g, x)
  <1>1. /\ h \in Seq(S) /\ DOMAIN h = 1..(Len(g) + 1) /\ DOMAIN g = 1..Len(g) /\ Len(g) \in Nat
        /\ h[Len(g) + 1] = x /\ \A i \in 1..Len(g) : h[i] = g[i]
    OBVIOUS
  <1> HIDE DEF h
  <1>2. \A s : In(h, s) <=> In(g, s) \/ s = x
    <2> TAKE s
    <2>1. ASSUME In(h, s) PROVE In(g, s) \/ s = x
      <3>1. PICK i \in DOMAIN h : h[i] = s
        BY <2>1 DEF In
      <3>2. CASE i = Len(g) + 1
        BY <1>1, <3>1, <3>2
      <3>3. CASE i \in 1..Len(g)
        BY <1>1, <3>1, <3>3 DEF In
      <3> QED BY <1>1, <3>2, <3>3
    <2>2. ASSUME In(g, s) PROVE In(h, s)
      <3>1. PICK i \in DOMAIN g : g[i] = s
        BY <2>2 DEF In
      <3>2. i \in DOMAIN h /\ h[i] = s
        BY <1>1, <3>1
      <3> QED BY <3>2 DEF In
    <2>3. Len(g) + 1 \in DOMAIN h
      BY <1>1
    <2>4. In(h, x)
      BY <1>1, <2>3 DEF In
    <2> QED BY <2>1, <2>2, <2>4
  <1>3. ASSUME Once(g), ~In(g, x) PROVE Once(h)
    <2>1. SUFFICES ASSUME NEW i \in DOMAIN h, NEW j \in DOMAIN h, h[i] = h[j] PROVE i = j
      BY DEF Once
    <2>2. \A k \in 1..Len(g) : g[k] # x
      BY <1>1, <1>3 DEF In
    <2>3. \A k, l \in 1..Len(g) : g[k] = g[l] => k = l
      BY <1>1, <1>3 DEF Once
    <2> QED BY <1>1, <2>1, <2>2, <2>3
  <1> QED BY <1>1, <1>2, <1>3 DEF h

LEMMA TailOnce ==
    ASSUME NEW S, NEW g \in Seq(S), g # <<>>
    PROVE  /\ Tail(g) \in Seq(S) /\ Head(g) \in S /\ In(g, Head(g))
           /\ Once(g) => Once(Tail(g))
           /\ Once(g) => \A s : In(Tail(g), s) <=> In(g, s) /\ s # Head(g)
           /\ \A s : In(Tail(g), s) => In(g, s)
  <1> DEFINE h == Tail(g)
  <1>1. /\ h \in Seq(S) /\ Len(g) \in Nat /\ Len(g) > 0 /\ DOMAIN h = 1..(Len(g) - 1)
        /\ DOMAIN g = 1..Len(g)
        /\ Head(g) = g[1] /\ \A i \in 1..(Len(g) - 1) : h[i] = g[i + 1]
    OBVIOUS
  <1>2. Head(g) \in S
    BY <1>1
  <1> HIDE DEF h
  <1>3. In(g, Head(g))
    BY <1>1 DEF In
  <1>4. ASSUME NEW s, In(h, s) PROVE In(g, s) /\ (Once(g) => s # Head(g))
    <2>1. PICK i \in DOMAIN h : h[i] = s
      BY <1>4 DEF In
    <2>2. i + 1 \in DOMAIN g /\ g[i + 1] = s /\ 1 \in DOMAIN g /\ i + 1 # 1
      BY <1>1, <2>1
    <2>3. Once(g) => s # g[1]
      BY <2>2 DEF Once
    <2> QED BY <1>1, <2>2, <2>3 DEF In
  <1>5. ASSUME NEW s, In(g, s), s # Head(g) PROVE In(h, s)
    <2>1. PICK i \in DOMAIN g : g[i] = s
      BY <1>5 DEF In
    <2>2. i - 1 \in DOMAIN h /\ h[i - 1] = s
      BY <1>1, <1>5, <2>1
    <2> QED BY <2>2 DEF In
  <1>6. ASSUME Once(g) PROVE Once(h)
    <2>1. SUFFICES ASSUME NEW i \in DOMAIN h, NEW j \in DOMAIN h, h[i] = h[j] PROVE i = j
      BY DEF Once
    <2>2. g[i + 1] = g[j + 1] /\ i + 1 \in DOMAIN g /\ j + 1 \in DOMAIN g
      BY <1>1, <2>1
    <2>3. i + 1 = j + 1
      BY <1>6, <2>2 DEF Once
    <2> QED BY <1>1, <2>3
  <1> QED BY <1>1, <1>2, <1>3, <1>4, <1>5, <1>6 DEF h

LEMMA ListedIsIn == ASSUME NEW s PROVE (Listed(s) <=> In(global, s)) /\ (Listed(s)' <=> In(global', s))
  BY DEF Listed, In

----------------------------------------------------------------------------
(* What a step does to the turns of the queues *)

BusySame == \A s \in Services : Busy(s)' <=> Busy(s)

HandsSame == \A u \in Threads :
    Apart(th'[u]) /\ \A s \in Services : Holds(th'[u], s) <=> Holds(th[u], s)

\* Nothing, or the node is told to end.
TurnSame ==
    global' = global /\ HandsSame /\ BusySame /\ (quit => quit')

\* skynet_globalmq_pop
TurnTaken(t) ==
    /\ Solo(t) /\ BusySame /\ quit' = quit
    /\ global # <<>> /\ global' = Tail(global)
    /\ \A s \in Services : Holds(th'[t], s) <=> Holds(th[t], s) \/ s = Head(global)
    /\ Head(global) # th[t].q => Apart(th'[t])

\* skynet_globalmq_push of a queue that the thread has in hand.
TurnGiven(t, x) ==
    /\ Solo(t) /\ BusySame /\ quit' = quit
    /\ Holds(th[t], x) /\ global' = Append(global, x)
    /\ \A s \in Services : Holds(th'[t], s) <=> Holds(th[t], s) /\ s # x
    /\ Apart(th'[t])

\* A queue without a turn gets one: in_global is set, or release.
TurnMade(x) ==
    /\ HandsSame /\ quit' = quit
    /\ ~Busy(x) /\ global' = Append(global, x)
    /\ \A s \in Services : Busy(s)' <=> Busy(s) \/ s = x

\* A queue has no turn any more: it was empty, or has been freed, or the worker leaves.
TurnEnded(t, x) ==
    /\ Solo(t) /\ quit' = quit /\ global' = global
    /\ Holds(th[t], x)
    /\ \A s \in Services : Holds(th'[t], s) <=> Holds(th[t], s) /\ s # x
    /\ Apart(th'[t])
    /\ (quit /\ BusySame) \/ \A s \in Services : Busy(s)' <=> Busy(s) /\ s # x

\* The queue of a launch.
TurnBorn(t, x) ==
    /\ Solo(t) /\ quit' = quit /\ global' = global /\ ~Busy(x)
    /\ \A s \in Services : Holds(th'[t], s) <=> Holds(th[t], s) \/ s = x
    /\ x # th[t].q => Apart(th'[t])
    /\ \A s \in Services : Busy(s)' <=> Busy(s) \/ s = x

TurnStep ==
    \/ TurnSame
    \/ \E t \in Threads : TurnTaken(t)
    \/ \E t \in Threads : \E x \in Services : TurnGiven(t, x) \/ TurnEnded(t, x) \/ TurnBorn(t, x)
    \/ \E x \in Services : TurnMade(x)

\* TurnInv, with the list and the hands of the threads as predicates.
LEMMA TurnInvIs ==
    ASSUME TurnInv
    PROVE  /\ Once(global)
           /\ \A t \in Threads : \A s \in Services : Holds(th[t], s) => ~In(global, s)
           /\ \A t, u \in Threads : \A s \in Services : Holds(th[t], s) /\ Holds(th[u], s) => t = u
           /\ \A t \in Threads : Apart(th[t])
           /\ \A s \in Services : In(global, s) => Busy(s)
           /\ \A t \in Threads : \A s \in Services : Holds(th[t], s) => Busy(s)
           /\ \A s \in Services : Busy(s) /\ ~quit => In(global, s) \/ \E t \in Threads : Holds(th[t], s)
  BY ListedIsIn DEF TurnInv, Once

LEMMA TurnInvNext ==
    ASSUME Once(global'),
           \A t \in Threads : \A s \in Services : Holds(th'[t], s) => ~In(global', s),
           \A t, u \in Threads : \A s \in Services : Holds(th'[t], s) /\ Holds(th'[u], s) => t = u,
           \A t \in Threads : Apart(th'[t]),
           \A s \in Services : In(global', s) => Busy(s)',
           \A t \in Threads : \A s \in Services : Holds(th'[t], s) => Busy(s)',
           \A s \in Services : Busy(s)' /\ ~quit' => In(global', s) \/ \E t \in Threads : Holds(th'[t], s)
    PROVE  TurnInv'
  <1>1. \A s : Listed(s)' <=> In(global', s)
    BY ListedIsIn
  <1>2. TurnInv' <=>
          /\ \A i, j \in DOMAIN global' : global'[i] = global'[j] => i = j
          /\ \A t \in Threads : \A s \in Services :
                /\ Holds(th'[t], s) => ~Listed(s)'
                /\ \A u \in Threads : Holds(th'[t], s) /\ Holds(th'[u], s) => t = u
          /\ \A t \in Threads : Apart(th'[t])
          /\ \A s \in Services :
                /\ Listed(s)' \/ (\E t \in Threads : Holds(th'[t], s)) => Busy(s)'
                /\ Busy(s)' /\ ~quit' => Listed(s)' \/ \E t \in Threads : Holds(th'[t], s)
    BY DEF TurnInv, Holds, Launched, Base, Apart
  <1> QED BY <1>1, <1>2 DEF Once

LEMMA TurnPreserved ==
    ASSUME global \in Seq(Services), \A t \in Threads : th[t].q \in Services \cup {None},
           TurnInv, TurnStep
    PROVE  TurnInv' /\ global' \in Seq(Services)
  <1> DEFINE H(t, s) == Holds(th[t], s)
             K(t, s) == Holds(th'[t], s)
             B(s) == Busy(s)
             C(s) == Busy(s)'
             N(t) == Apart(th'[t])
  <1>0. /\ Once(global)
        /\ \A t \in Threads : \A s \in Services : H(t, s) => ~In(global, s)
        /\ \A t, u \in Threads : \A s \in Services : H(t, s) /\ H(u, s) => t = u
        /\ \A t \in Threads : Apart(th[t])
        /\ \A s \in Services : In(global, s) => B(s)
        /\ \A t \in Threads : \A s \in Services : H(t, s) => B(s)
        /\ \A s \in Services : B(s) /\ ~quit => In(global, s) \/ \E t \in Threads : H(t, s)
    BY TurnInvIs
  <1>9. SUFFICES /\ global' \in Seq(Services) /\ Once(global')
                 /\ \A t \in Threads : \A s \in Services : K(t, s) => ~In(global', s)
                 /\ \A t, u \in Threads : \A s \in Services : K(t, s) /\ K(u, s) => t = u
                 /\ \A t \in Threads : N(t)
                 /\ \A s \in Services : In(global', s) => C(s)
                 /\ \A t \in Threads : \A s \in Services : K(t, s) => C(s)
                 /\ \A s \in Services : C(s) /\ ~quit' => In(global', s) \/ \E t \in Threads : K(t, s)
    BY TurnInvNext, Zenon
  <1>8. \A t, u \in Threads : Solo(t) /\ u # t => N(u) /\ \A s \in Services : K(u, s) <=> H(u, s)
    BY <1>0 DEF Solo
  <1>7. \A t \in Threads : \A s \in Services : s = th[t].q => H(t, s)
    BY DEF Holds
  <1>1. CASE TurnSame
    <2>1. /\ global' = global /\ (quit => quit')
          /\ \A u \in Threads : N(u) /\ \A s \in Services : K(u, s) <=> H(u, s)
          /\ \A s \in Services : C(s) <=> B(s)
      BY <1>1 DEF TurnSame, HandsSame, BusySame
    <2> HIDE DEF H, K, B, C, N
    <2> QED BY <1>0, <2>1
  <1>2. ASSUME NEW t \in Threads, TurnTaken(t) PROVE <1>9!1
    <2> DEFINE x == Head(global)
    <2>1. /\ Solo(t) /\ quit' = quit /\ global # <<>> /\ global' = Tail(global)
          /\ \A s \in Services : C(s) <=> B(s)
          /\ \A s \in Services : K(t, s) <=> H(t, s) \/ s = x
          /\ x # th[t].q => N(t)
      BY <1>2 DEF TurnTaken, BusySame
    <2>2. /\ global' \in Seq(Services) /\ x \in Services /\ In(global, x) /\ Once(global')
          /\ \A s : In(global', s) <=> In(global, s) /\ s # x
      BY <1>0, <2>1, TailOnce
    <2> HIDE DEF H, K, B, C, N, x
    <2>3. x # th[t].q
      BY <1>0, <1>7, <2>2
    <2>4. \A u \in Threads : N(u) /\ \A s \in Services : K(u, s) <=> H(u, s) \/ (u = t /\ s = x)
      BY <1>8, <2>1, <2>3
    <2> QED BY <1>0, <2>1, <2>2, <2>4
  <1>3. ASSUME NEW t \in Threads, NEW x \in Services, TurnGiven(t, x) PROVE <1>9!1
    <2>1. /\ Solo(t) /\ quit' = quit /\ global' = Append(global, x)
          /\ \A s \in Services : C(s) <=> B(s)
          /\ H(t, x)
          /\ \A s \in Services : K(t, s) <=> H(t, s) /\ s # x
          /\ N(t)
      BY <1>3 DEF TurnGiven, BusySame
    <2>2. ~In(global, x)
      BY <1>0, <2>1
    <2>3. /\ global' \in Seq(Services) /\ Once(global')
          /\ \A s : In(global', s) <=> In(global, s) \/ s = x
      BY <1>0, <2>1, <2>2, AppendOnce
    <2> HIDE DEF H, K, B, C, N
    <2>4. \A u \in Threads : N(u) /\ \A s \in Services : K(u, s) <=> H(u, s) /\ s # x
      BY <1>0, <1>8, <2>1
    <2> QED BY <1>0, <2>1, <2>3, <2>4
  <1>4. ASSUME NEW t \in Threads, NEW x \in Services, TurnEnded(t, x) PROVE <1>9!1
    <2>1. /\ Solo(t) /\ quit' = quit /\ global' = global
          /\ H(t, x)
          /\ \A s \in Services : K(t, s) <=> H(t, s) /\ s # x
          /\ N(t)
          /\ (quit /\ \A s \in Services : C(s) <=> B(s)) \/ \A s \in Services : C(s) <=> B(s) /\ s # x
      BY <1>4 DEF TurnEnded, BusySame
    <2> HIDE DEF H, K, B, C, N
    <2>4. \A u \in Threads : N(u) /\ \A s \in Services : K(u, s) <=> H(u, s) /\ s # x
      BY <1>0, <1>8, <2>1
    <2>5. \A s \in Services : In(global, s) => s # x
      BY <1>0, <2>1
    <2> QED BY <1>0, <2>1, <2>4, <2>5
  <1>5. ASSUME NEW t \in Threads, NEW x \in Services, TurnBorn(t, x) PROVE <1>9!1
    <2>1. /\ Solo(t) /\ quit' = quit /\ global' = global /\ ~B(x)
          /\ \A s \in Services : K(t, s) <=> H(t, s) \/ s = x
          /\ x # th[t].q => N(t)
          /\ \A s \in Services : C(s) <=> B(s) \/ s = x
      BY <1>5 DEF TurnBorn
    <2> HIDE DEF H, K, B, C, N
    <2>3. x # th[t].q
      BY <1>0, <1>7, <2>1
    <2>4. \A u \in Threads : N(u) /\ \A s \in Services : K(u, s) <=> H(u, s) \/ (u = t /\ s = x)
      BY <1>8, <2>1, <2>3
    <2> QED BY <1>0, <2>1, <2>4
  <1>6. ASSUME NEW x \in Services, TurnMade(x) PROVE <1>9!1
    <2>1. /\ quit' = quit /\ global' = Append(global, x) /\ ~B(x)
          /\ \A u \in Threads : N(u) /\ \A s \in Services : K(u, s) <=> H(u, s)
          /\ \A s \in Services : C(s) <=> B(s) \/ s = x
      BY <1>6 DEF TurnMade, HandsSame
    <2>2. ~In(global, x)
      BY <1>0, <2>1
    <2>3. /\ global' \in Seq(Services) /\ Once(global')
          /\ \A s : In(global', s) <=> In(global, s) \/ s = x
      BY <1>0, <2>1, <2>2, AppendOnce
    <2> HIDE DEF H, K, B, C, N
    <2> QED BY <1>0, <2>1, <2>3
  <1> HIDE DEF H, K, B, C, N
  <1> QED BY <1>1, <1>2, <1>3, <1>4, <1>5, <1>6 DEF TurnStep

----------------------------------------------------------------------------
(* What a step does to the references and the contexts *)

SameRefs(r, r2) ==
    /\ r2.ctx = r.ctx /\ r2.ref = r.ref /\ r2.born = r.born
    /\ r2.pc = "delete" <=> r.pc = "delete"
    /\ r2.pc = "newqueue" <=> r.pc = "newqueue"

MarksSame == \A s \in Services : mq'[s].release = mq[s].release

\* Not at a place that makes or deletes a context.
Steady(r) == r.pc \notin {"delete", "newqueue"}

\* No reference is taken, moved or given back; the queue of a deleted context may be freed.
LifeSame ==
    /\ slot' = slot /\ ref' = ref /\ ctxMem' = ctxMem /\ total' = total /\ MarksSame
    /\ \A u \in Threads : SameRefs(th[u], th'[u])
    /\ \A s \in Services :
          mqMem'[s] = mqMem[s]
          \/ (mqMem[s] = "alive" /\ mqMem'[s] = "freed" /\ ctxMem[s] = "freed")

\* skynet_handle_grab
Grabbed(t, s) ==
    /\ slot' = slot /\ ctxMem' = ctxMem /\ total' = total /\ mqMem' = mqMem /\ MarksSame
    /\ slot[s] = "set" /\ ref' = [ref EXCEPT ![s] = @ + 1]
    /\ Solo(t) /\ Steady(th[t]) /\ Steady(th'[t]) /\ th'[t].born = th[t].born
    /\ \/ th[t].ctx = None /\ th'[t].ctx = s /\ th'[t].ref = th[t].ref
       \/ th[t].ref = None /\ th'[t].ref = s /\ th'[t].ctx = th[t].ctx

\* A reference of message_dispatch, or of a launch, is about to be released.
HandedOver(t) ==
    /\ slot' = slot /\ ref' = ref /\ ctxMem' = ctxMem /\ total' = total /\ mqMem' = mqMem /\ MarksSame
    /\ Solo(t) /\ Steady(th[t]) /\ Steady(th'[t]) /\ th[t].ref = None /\ th'[t].ref \in Services
    /\ \/ th'[t].ref = th[t].ctx /\ th'[t].ctx = None /\ th'[t].born = th[t].born
       \/ th'[t].ref = th[t].born /\ th'[t].born = None /\ th'[t].ctx = th[t].ctx

\* skynet_handle_retire
Retired(t, s) ==
    /\ ref' = ref /\ ctxMem' = ctxMem /\ total' = total /\ mqMem' = mqMem /\ MarksSame
    /\ slot[s] = "set" /\ slot' = [slot EXCEPT ![s] = "free"]
    /\ Solo(t) /\ Steady(th[t]) /\ Steady(th'[t]) /\ th[t].ref = None /\ th'[t].ref = s
    /\ th'[t].ctx = th[t].ctx /\ th'[t].born = th[t].born

\* skynet_context_release, of one reference among several or of the last
Dropped(t, s) ==
    /\ slot' = slot /\ ctxMem' = ctxMem /\ total' = total /\ mqMem' = mqMem /\ MarksSame
    /\ ref' = [ref EXCEPT ![s] = @ - 1]
    /\ Solo(t) /\ Steady(th[t]) /\ th[t].ref = s
    /\ th'[t].ctx = th[t].ctx /\ th'[t].born = th[t].born /\ th'[t].pc # "newqueue"
    /\ \/ ref[s] # 1 /\ th'[t].ref = None /\ th'[t].pc # "delete"
       \/ ref[s] = 1 /\ th'[t].ref = s /\ th'[t].pc = "delete"

\* delete_context
Deleted(t, s) ==
    /\ slot' = slot /\ ref' = ref /\ mqMem' = mqMem
    /\ ctxMem' = [ctxMem EXCEPT ![s] = "freed"] /\ total' = total - 1
    /\ \A x \in Services : IF x = s THEN mq'[x].release = TRUE ELSE mq'[x].release = mq[x].release
    /\ Solo(t) /\ th[t].pc = "delete" /\ th[t].ref = s
    /\ Steady(th'[t]) /\ th'[t].ref = None
    /\ th'[t].ctx = th[t].ctx /\ th'[t].born = th[t].born

\* skynet_context_new, before and after the new context knows its handle
Entered(t, s) ==
    /\ ctxMem[s] = "none" /\ ctxMem' = [ctxMem EXCEPT ![s] = "alive"]
    /\ slot' = [slot EXCEPT ![s] = "unset"] /\ ref' = [ref EXCEPT ![s] = 2]
    /\ total' = total /\ mqMem' = mqMem /\ MarksSame
    /\ Solo(t) /\ Steady(th[t]) /\ th[t].born = None /\ th'[t].born = s /\ th'[t].pc = "newqueue"
    /\ th'[t].ctx = th[t].ctx /\ th'[t].ref = th[t].ref

Made(t, s) ==
    /\ ctxMem' = ctxMem /\ ref' = ref
    /\ slot' = [slot EXCEPT ![s] = "set"] /\ total' = total + 1
    /\ mqMem' = [mqMem EXCEPT ![s] = "alive"]
    /\ \A x \in Services : IF x = s THEN mq'[x].release = FALSE ELSE mq'[x].release = mq[x].release
    /\ Solo(t) /\ th[t].pc = "newqueue" /\ th[t].born = s
    /\ Steady(th'[t]) /\ th'[t].ctx = th[t].ctx /\ th'[t].ref = th[t].ref /\ th'[t].born = s

LifeStep ==
    \/ LifeSame
    \/ \E t \in Threads : HandedOver(t)
    \/ \E t \in Threads : \E s \in Services :
          Grabbed(t, s) \/ Retired(t, s) \/ Dropped(t, s) \/ Deleted(t, s) \/ Entered(t, s) \/ Made(t, s)

\* What LifeInv says about the state, and how to show it of the next one.
Counts == \A s \in Services : ref[s] = Tabled(s) + Counted(s)

LEMMA RefCountIs == RefCount <=> Counts
  <1> DEFINE a(s) == Cardinality({t \in Threads : th[t].ctx = s})
             b(s) == Cardinality({t \in Threads : th[t].ref = s /\ ~At(t, "delete")})
             c(s) == Cardinality({t \in Threads : th[t].born = s})
  <1>1. \A s : a(s) \in Nat /\ b(s) \in Nat /\ c(s) \in Nat
    <2> TAKE s
    <2>1. /\ IsFiniteSet({t \in Threads : th[t].ctx = s})
          /\ IsFiniteSet({t \in Threads : th[t].ref = s /\ ~At(t, "delete")})
          /\ IsFiniteSet({t \in Threads : th[t].born = s})
      BY ThreadsFinite, FS_Subset
    <2> QED BY <2>1, FS_CardinalityType
  <1>2. RefCount <=> \A s \in Services : ref[s] = Tabled(s) + a(s) + b(s) + c(s)
    BY DEF RefCount, Tabled
  <1>3. Counts <=> \A s \in Services : ref[s] = Tabled(s) + (a(s) + b(s) + c(s))
    BY DEF Counts, Counted
  <1>4. \A s : Tabled(s) \in Nat
    BY DEF Tabled
  <1> HIDE DEF a, b, c
  <1>5. \A s : Tabled(s) + a(s) + b(s) + c(s) = Tabled(s) + (a(s) + b(s) + c(s))
    BY <1>1, <1>4
  <1> QED BY <1>2, <1>3, <1>5

LifeTypes ==
    /\ slot \in [Services -> {"free", "unset", "set"}]
    /\ ref \in [Services -> Nat]
    /\ ctxMem \in [Services -> {"none", "alive", "freed"}]
    /\ mqMem \in [Services -> {"none", "alive", "freed"}]
    /\ th \in [Threads -> ThreadStates]

\* A thread that uses a context has a reference of it, and so it is alive.
LEMMA UsedIsAlive ==
    ASSUME LifeTypes, RefCount, \A s \in Services : ContextInv(s), \A t \in Threads : ReferenceInv(t),
           NEW t \in Threads, NEW s \in Services
    PROVE  /\ s \in {th[t].ctx, th[t].ref, th[t].born} => ctxMem[s] = "alive"
           /\ Uses(th[t], s) > 0 => ref[s] > 0
           /\ slot[s] # "free" => ref[s] > 0 /\ ctxMem[s] = "alive"
           /\ At(t, "delete") /\ th[t].ref = s => ref[s] = 0 /\ Counted(s) = 0 /\ slot[s] = "free"
  <1>1. /\ ref[s] = Tabled(s) + Counted(s) /\ Counted(s) \in Nat /\ Uses(th[t], s) <= Counted(s)
        /\ Uses(th[t], s) \in 0..3
    BY RefCountIs, CountedNow DEF Counts
  <1>2. Tabled(s) \in {0, 1} /\ (slot[s] # "free" => Tabled(s) = 1)
    BY DEF Tabled
  <1>3. ref[s] > 0 => ctxMem[s] = "alive"
    BY DEF ContextInv
  <1>4. At(t, "delete") /\ th[t].ref = s => ctxMem[s] = "alive" /\ ref[s] = 0
    BY DEF ReferenceInv
  <1>5. s \in {th[t].ctx, th[t].ref, th[t].born} =>
           Uses(th[t], s) > 0 \/ (At(t, "delete") /\ th[t].ref = s)
    BY DEF Uses, At
  <1> QED BY <1>1, <1>2, <1>3, <1>4, <1>5

\* RefCount after a step of one thread.
LEMMA CountsStep ==
    ASSUME NEW t \in Threads, Solo(t), Counts, LifeTypes,
           \A s \in Services : ref'[s] \in Int,
           \A s \in Services : ref'[s] - Tabled(s)' = ref[s] - Tabled(s) - Uses(th[t], s) + Uses(th'[t], s)
    PROVE  Counts'
  <1>1. SUFFICES ASSUME NEW s \in Services PROVE ref'[s] = Tabled(s)' + Counted(s)'
    BY DEF Counts
  <1>2. /\ Counted(s) \in Nat /\ Counted(s)' \in Nat
        /\ Counted(s)' = Counted(s) - Uses(th[t], s) + Uses(th'[t], s)
    BY CountedStep
  <1>3. ref[s] = Tabled(s) + Counted(s) /\ ref[s] \in Nat
    BY DEF Counts, LifeTypes
  <1>4. Uses(th[t], s) \in Nat /\ Uses(th'[t], s) \in Nat /\ Tabled(s) \in Nat /\ Tabled(s)' \in Nat
    BY DEF Uses, Tabled
  <1>5. ref'[s] - Tabled(s)' = ref[s] - Tabled(s) - Uses(th[t], s) + Uses(th'[t], s) /\ ref'[s] \in Int
    OBVIOUS
  <1> HIDE DEF Counts
  <1> QED BY <1>2, <1>3, <1>4, <1>5

LEMMA CountsSame ==
    ASSUME Counts, slot' = slot, ref' = ref, \A u \in Threads : SameRefs(th[u], th'[u])
    PROVE  Counts'
  <1>1. SUFFICES ASSUME NEW s \in Services PROVE ref'[s] = Tabled(s)' + Counted(s)'
    BY DEF Counts
  <1>2. {u \in Threads : th'[u].ctx = s} = {u \in Threads : th[u].ctx = s}
    BY DEF SameRefs
  <1>3. {u \in Threads : th'[u].ref = s /\ ~(th'[u].pc = "delete")}
        = {u \in Threads : th[u].ref = s /\ ~(th[u].pc = "delete")}
    BY DEF SameRefs
  <1>4. {u \in Threads : th'[u].born = s} = {u \in Threads : th[u].born = s}
    BY DEF SameRefs
  <1>5. Counted(s)' = Counted(s)
    BY <1>2, <1>3, <1>4, Zenon DEF Counted, At
  <1>6. Tabled(s)' = Tabled(s)
    BY DEF Tabled
  <1> QED BY <1>5, <1>6 DEF Counts

\* The contexts that G_NODE.total counts.
Living == {s \in Services : ctxMem[s] = "alive" /\ slot[s] # "unset"}

LEMMA TotalStep ==
    ASSUME LifeTypes, total = Cardinality(Living), NEW x \in Services,
           \A s \in Services \ {x} : s \in Living <=> s \in Living',
           total' = total - (IF x \in Living THEN 1 ELSE 0) + (IF x \in Living' THEN 1 ELSE 0)
    PROVE  total' = Cardinality(Living')
  <1>1. IsFiniteSet(Services)
    BY NodeAssumption
  <1>2. Living \in SUBSET Services /\ Living' \in SUBSET Services
    BY DEF Living
  <1> DEFINE A == Living  B == Living'
  <1> HIDE DEF A, B
  <1>3. /\ A \in SUBSET Services /\ B \in SUBSET Services
        /\ \A s \in Services \ {x} : s \in A <=> s \in B
    BY <1>2 DEF A, B
  <1>4. /\ Cardinality(A) \in Nat /\ Cardinality(B) \in Nat
        /\ Cardinality(B) = Cardinality(A) - (IF x \in A THEN 1 ELSE 0) + (IF x \in B THEN 1 ELSE 0)
        /\ x \in A => Cardinality(A) >= 1
    <2>1. A \in SUBSET Services
      BY <1>3
    <2>2. B \in SUBSET Services
      BY <1>3
    <2>3. \A s \in Services \ {x} : s \in A <=> s \in B
      BY <1>3
    <2> QED BY <1>1, <2>1, <2>2, <2>3, CountSolo, ZenonT(40)
  <1>5. total' = Cardinality(A) - (IF x \in A THEN 1 ELSE 0) + (IF x \in B THEN 1 ELSE 0)
    BY Zenon DEF A, B
  <1> QED BY <1>4, <1>5 DEF B

\* LifeInv in these terms.
LEMMA LifeInvIs ==
    LifeInv <=> /\ Counts /\ total = Cardinality(Living)
                /\ \A s \in Services : ContextInv(s)
                /\ \A t \in Threads : ReferenceInv(t)
  BY RefCountIs DEF LifeInv, Living

LEMMA LifeInvNext ==
    (LifeInv <=> /\ Counts /\ total = Cardinality(Living)
                 /\ \A s \in Services : ContextInv(s)
                 /\ \A t \in Threads : ReferenceInv(t))'
  BY LifeInvIs, PTL

\* The two parts of LifeInv that speak of contexts and threads, after a step.
LEMMA LifeSamePreserves ==
    ASSUME LifeTypes, LifeInv, LifeSame
    PROVE  LifeInv'
  <1>1. Counts' /\ Living' = Living
    BY CountsSame, LifeInvIs DEF LifeSame, Living
  <1>2. \A s \in Services : ContextInv(s)'
    <2> TAKE s \in Services
    <2>1. slot[s] # "free" => ctxMem[s] = "alive"
      BY UsedIsAlive, ThreadsFinite, NodeAssumption DEF LifeInv
    <2>2. ContextInv(s)
      BY DEF LifeInv
    <2> QED BY <2>1, <2>2 DEF LifeSame, ContextInv, MarksSame
  <1>3. \A u \in Threads : ReferenceInv(u)'
    BY DEF LifeInv, LifeSame, ReferenceInv, SameRefs, At
  <1> QED BY <1>1, <1>2, <1>3, LifeInvIs, LifeInvNext DEF LifeSame

LEMMA GrabbedPreserves ==
    ASSUME LifeTypes, LifeInv, NEW t \in Threads, NEW s \in Services, Grabbed(t, s)
    PROVE  LifeInv'
  <1>0. slot[s] = "set" /\ ref[s] \in Nat /\ ref'[s] = ref[s] + 1
        /\ (\A x \in Services \ {s} : ref'[x] = ref[x]) /\ s # None /\ ref[s] > 0
        /\ \A u \in Threads : ~(At(u, "delete") /\ th[u].ref = s)
    BY UsedIsAlive, NodeAssumption DEF Grabbed, LifeTypes, LifeInv
  <1>1. Counts'
    <2>1. \A x \in Services : ref'[x] \in Int /\ ref[x] \in Nat
      BY <1>0 DEF LifeTypes
    <2>2. \A x \in Services : Tabled(x)' = Tabled(x)
      BY DEF Grabbed, Tabled
    <2>3. \A x \in Services :
             Uses(th'[t], x) = Uses(th[t], x) + (IF x = s THEN 1 ELSE 0)
      BY <1>0, NodeAssumption DEF Grabbed, Steady, Uses
    <2>4. \A x \in Services : Uses(th[t], x) \in Nat /\ Tabled(x) \in Nat
      BY DEF Uses, Tabled
    <2>5. \A x \in Services :
             ref'[x] - Tabled(x)' = ref[x] - Tabled(x) - Uses(th[t], x) + Uses(th'[t], x)
      BY <1>0, <2>1, <2>2, <2>3, <2>4
    <2> QED BY <2>1, <2>5, CountsStep, LifeInvIs DEF Grabbed
  <1>2. \A x \in Services : ContextInv(x)'
    BY <1>0, UsedIsAlive DEF LifeInv, Grabbed, ContextInv, MarksSame
  <1>3. \A u \in Threads : ReferenceInv(u)'
    <2> TAKE u \in Threads
    <2>1. u # t => th'[u] = th[u]
      BY DEF Grabbed, Solo
    <2>2. ReferenceInv(u)
      BY DEF LifeInv
    <2>3. \A v \in Threads : v # t => th'[v] = th[v]
      BY DEF Grabbed, Solo
    <2> QED BY <1>0, <2>1, <2>2, <2>3 DEF Grabbed, ReferenceInv, Steady, At
  <1>4. Living' = Living /\ total' = total
    BY DEF Grabbed, Living
  <1> QED BY <1>1, <1>2, <1>3, <1>4, LifeInvIs, LifeInvNext DEF Grabbed

LEMMA HandedOverPreserves ==
    ASSUME LifeTypes, LifeInv, NEW t \in Threads, HandedOver(t)
    PROVE  LifeInv'
  <1>1. Counts'
    <2>2. \A x \in Services : Tabled(x)' = Tabled(x) /\ Tabled(x) \in Nat /\ ref[x] \in Nat
      BY DEF HandedOver, Tabled, LifeTypes
    <2>3. \A x \in Services : Uses(th'[t], x) = Uses(th[t], x) /\ Uses(th[t], x) \in Nat
      BY NodeAssumption DEF HandedOver, Steady, Uses
    <2>5. \A x \in Services :
             ref'[x] - Tabled(x)' = ref[x] - Tabled(x) - Uses(th[t], x) + Uses(th'[t], x)
      BY <2>2, <2>3 DEF HandedOver
    <2> QED BY <2>2, <2>5, CountsStep, LifeInvIs DEF HandedOver
  <1>2. \A x \in Services : ContextInv(x)'
    BY DEF LifeInv, HandedOver, ContextInv, MarksSame
  <1>3. \A u \in Threads : ReferenceInv(u)'
    <2> TAKE u \in Threads
    <2>2. ReferenceInv(u)
      BY DEF LifeInv
    <2>3. \A v \in Threads : v # t => th'[v] = th[v]
      BY DEF HandedOver, Solo
    <2>4. None \notin Services
      BY NodeAssumption
    <2> QED BY <2>2, <2>3, <2>4 DEF HandedOver, ReferenceInv, Steady, At
  <1>4. Living' = Living /\ total' = total
    BY DEF HandedOver, Living
  <1> QED BY <1>1, <1>2, <1>3, <1>4, LifeInvIs, LifeInvNext DEF HandedOver

LEMMA RetiredPreserves ==
    ASSUME LifeTypes, LifeInv, NEW t \in Threads, NEW s \in Services, Retired(t, s)
    PROVE  LifeInv'
  <1>0. /\ slot[s] = "set" /\ slot'[s] = "free" /\ (\A x \in Services \ {s} : slot'[x] = slot[x])
        /\ s # None /\ ref[s] > 0 /\ ctxMem[s] = "alive" /\ \A u \in Threads : ~(At(u, "delete") /\ th[u].ref = s)
    BY UsedIsAlive, NodeAssumption DEF Retired, LifeTypes, LifeInv
  <1>1. Counts'
    <2>2. \A x \in Services : /\ Tabled(x)' = Tabled(x) - (IF x = s THEN 1 ELSE 0)
                              /\ Tabled(x) \in Nat /\ ref[x] \in Nat
      BY <1>0 DEF Tabled, LifeTypes
    <2>3. \A x \in Services : /\ Uses(th'[t], x) = Uses(th[t], x) + (IF x = s THEN 1 ELSE 0)
                              /\ Uses(th[t], x) \in Nat
      BY <1>0, NodeAssumption DEF Retired, Steady, Uses
    <2>5. \A x \in Services :
             ref'[x] - Tabled(x)' = ref[x] - Tabled(x) - Uses(th[t], x) + Uses(th'[t], x)
      BY <2>2, <2>3 DEF Retired
    <2> QED BY <2>2, <2>5, CountsStep, LifeInvIs DEF Retired
  <1>2. \A x \in Services : ContextInv(x)'
    BY <1>0 DEF LifeInv, Retired, ContextInv, MarksSame
  <1>3. \A u \in Threads : ReferenceInv(u)'
    <2> TAKE u \in Threads
    <2>2. ReferenceInv(u)
      BY DEF LifeInv
    <2>3. \A v \in Threads : v # t => th'[v] = th[v]
      BY DEF Retired, Solo
    <2>4. th[u].born \in Services \cup {None} /\ (At(u, "newqueue") => th[u].born # s)
      BY <1>0, <2>2 DEF LifeTypes, ThreadStates, ReferenceInv
    <2> QED BY <1>0, <2>2, <2>3, <2>4 DEF Retired, ReferenceInv, Steady, At
  <1>4. Living' = Living /\ total' = total
    BY <1>0 DEF Retired, Living
  <1> QED BY <1>1, <1>2, <1>3, <1>4, LifeInvIs, LifeInvNext DEF Retired

LEMMA DroppedPreserves ==
    ASSUME LifeTypes, LifeInv, NEW t \in Threads, NEW s \in Services, Dropped(t, s)
    PROVE  LifeInv' /\ ref[s] > 0
  <1>0. /\ ref[s] > 0 /\ ref[s] \in Nat /\ ref'[s] = ref[s] - 1
        /\ (\A x \in Services \ {s} : ref'[x] = ref[x]) /\ s # None
        /\ ctxMem[s] = "alive" /\ \A u \in Threads : ~(At(u, "delete") /\ th[u].ref = s)
    <2>1. Uses(th[t], s) > 0
      BY DEF Dropped, Uses, Steady
    <2> QED BY <2>1, UsedIsAlive, NodeAssumption DEF Dropped, LifeTypes, LifeInv
  <1>1. Counts'
    <2>2. \A x \in Services : Tabled(x)' = Tabled(x) /\ Tabled(x) \in Nat /\ ref[x] \in Nat /\ ref'[x] \in Int
      BY <1>0 DEF Dropped, Tabled, LifeTypes
    <2>3. \A x \in Services : /\ Uses(th'[t], x) = Uses(th[t], x) - (IF x = s THEN 1 ELSE 0)
                              /\ Uses(th[t], x) \in Nat
      BY <1>0, NodeAssumption DEF Dropped, Steady, Uses
    <2>5. \A x \in Services :
             ref'[x] - Tabled(x)' = ref[x] - Tabled(x) - Uses(th[t], x) + Uses(th'[t], x)
      BY <1>0, <2>2, <2>3
    <2> QED BY <2>2, <2>5, CountsStep, LifeInvIs DEF Dropped
  <1>2. \A x \in Services : ContextInv(x)'
    BY <1>0 DEF LifeInv, Dropped, ContextInv, MarksSame
  <1>3. \A u \in Threads : ReferenceInv(u)'
    <2> TAKE u \in Threads
    <2>2. ReferenceInv(u) /\ ReferenceInv(t)
      BY DEF LifeInv
    <2>3. \A v \in Threads : v # t => th'[v] = th[v]
      BY DEF Dropped, Solo
    <2>4. None \notin Services
      BY NodeAssumption
    <2>5. slot[s] # "unset"
      BY <2>2 DEF ReferenceInv, Dropped
    <2>6. th[u].ref \in Services \cup {None} /\ (At(u, "delete") => th[u].ref \in Services \ {s} \/ th[u].ref = None)
      BY <1>0 DEF LifeTypes, ThreadStates
    <2>7. CASE th'[t].pc # "delete"
      BY <1>0, <2>2, <2>3, <2>4, <2>5, <2>6, <2>7 DEF Dropped, ReferenceInv, Steady, At
    <2>8. CASE th'[t].pc = "delete" /\ ref[s] = 1 /\ th'[t].ref = s
      BY <1>0, <2>2, <2>3, <2>4, <2>5, <2>6, <2>8 DEF Dropped, ReferenceInv, Steady, At
    <2> QED BY <2>7, <2>8 DEF Dropped
  <1>4. Living' = Living /\ total' = total
    BY DEF Dropped, Living
  <1> QED BY <1>0, <1>1, <1>2, <1>3, <1>4, LifeInvIs, LifeInvNext DEF Dropped

LEMMA DeletedPreserves ==
    ASSUME LifeTypes, LifeInv, NEW t \in Threads, NEW s \in Services, Deleted(t, s)
    PROVE  LifeInv'
  <1>0. /\ ref[s] = 0 /\ slot[s] = "free" /\ s # None /\ ctxMem[s] = "alive"
        /\ ctxMem'[s] = "freed" /\ (\A x \in Services \ {s} : ctxMem'[x] = ctxMem[x])
        /\ \A u \in Threads \ {t} : s \notin {th[u].ctx, th[u].ref, th[u].born}
    <2>1. /\ ref[s] = 0 /\ Counted(s) = 0 /\ slot[s] = "free" /\ s # None /\ ctxMem[s] = "alive"
          /\ ctxMem'[s] = "freed" /\ (\A x \in Services \ {s} : ctxMem'[x] = ctxMem[x])
      BY UsedIsAlive, NodeAssumption DEF Deleted, LifeTypes, LifeInv, At
    <2>2. \A u \in Threads : Uses(th[u], s) = 0
      BY <2>1, CountedNow
    <2>3. \A u \in Threads \ {t} : ~(At(u, "delete") /\ th[u].ref = s)
      BY DEF LifeInv, ReferenceInv, Deleted, At
    <2> QED BY <2>1, <2>2, <2>3 DEF Uses, At
  <1>1. Counts'
    <2>2. \A x \in Services : Tabled(x)' = Tabled(x) /\ Tabled(x) \in Nat /\ ref[x] \in Nat
      BY DEF Deleted, Tabled, LifeTypes
    <2>3. \A x \in Services : Uses(th'[t], x) = Uses(th[t], x) /\ Uses(th[t], x) \in Nat
      BY <1>0, NodeAssumption DEF Deleted, Steady, Uses
    <2>5. \A x \in Services :
             ref'[x] - Tabled(x)' = ref[x] - Tabled(x) - Uses(th[t], x) + Uses(th'[t], x)
      BY <2>2, <2>3 DEF Deleted
    <2> QED BY <2>2, <2>5, CountsStep, LifeInvIs DEF Deleted
  <1>2. \A x \in Services : ContextInv(x)'
    <2> TAKE x \in Services
    <2>1. ContextInv(x)
      BY DEF LifeInv
    <2>2. CASE x = s
      BY <1>0, <2>1, <2>2 DEF Deleted, ContextInv
    <2>3. CASE x # s
      BY <1>0, <2>1, <2>3 DEF Deleted, ContextInv
    <2> QED BY <2>2, <2>3
  <1>3. \A u \in Threads : ReferenceInv(u)'
    <2> TAKE u \in Threads
    <2>2. ReferenceInv(u)
      BY DEF LifeInv
    <2>3. \A v \in Threads : v # t => th'[v] = th[v]
      BY DEF Deleted, Solo
    <2>4. None \notin Services
      BY NodeAssumption
    <2>5. u # t /\ At(u, "delete") => ctxMem'[th[u].ref] = "alive"
      <3>1. th[u].ref \in Services \cup {None}
        BY DEF LifeTypes, ThreadStates
      <3>2. CASE th[u].ref \in Services
        BY <1>0, <2>2, <3>2 DEF ReferenceInv
      <3>3. CASE th[u].ref = None
        BY <2>2, <2>4, <3>3 DEF ReferenceInv, Deleted, LifeTypes
      <3> QED BY <3>1, <3>2, <3>3
    <2> QED BY <1>0, <2>2, <2>3, <2>4, <2>5 DEF Deleted, ReferenceInv, Steady, At
  <1>4. total' = Cardinality(Living')
    <2>1. s \in Living /\ s \notin Living' /\ \A x \in Services \ {s} : x \in Living <=> x \in Living'
      BY <1>0 DEF Deleted, Living
    <2>2. total = Cardinality(Living) /\ total' = total - 1
      BY LifeInvIs DEF Deleted
    <2>3. IsFiniteSet(Living)
      BY FS_Subset, NodeAssumption DEF Living
    <2>4. total \in Nat
      BY <2>2, <2>3, FS_CardinalityType
    <2>5. total' = total - (IF s \in Living THEN 1 ELSE 0) + (IF s \in Living' THEN 1 ELSE 0)
      BY <2>1, <2>2, <2>4
    <2> QED BY <2>1, <2>2, <2>5, TotalStep
  <1> QED BY <1>1, <1>2, <1>3, <1>4, LifeInvIs, LifeInvNext

LEMMA EnteredPreserves ==
    ASSUME LifeTypes, LifeInv, NEW t \in Threads, NEW s \in Services, Entered(t, s)
    PROVE  LifeInv'
  <1>0. /\ ref[s] = 0 /\ slot[s] = "free" /\ s # None /\ ctxMem[s] = "none"
        /\ ctxMem'[s] = "alive" /\ (\A x \in Services \ {s} : ctxMem'[x] = ctxMem[x])
        /\ slot'[s] = "unset" /\ (\A x \in Services \ {s} : slot'[x] = slot[x])
        /\ ref'[s] = 2 /\ (\A x \in Services \ {s} : ref'[x] = ref[x])
        /\ \A u \in Threads : s \notin {th[u].ctx, th[u].ref, th[u].born}
    <2>1. /\ s # None /\ ctxMem[s] = "none"
          /\ ctxMem'[s] = "alive" /\ (\A x \in Services \ {s} : ctxMem'[x] = ctxMem[x])
          /\ slot'[s] = "unset" /\ (\A x \in Services \ {s} : slot'[x] = slot[x])
          /\ ref'[s] = 2 /\ (\A x \in Services \ {s} : ref'[x] = ref[x])
      BY NodeAssumption DEF Entered, LifeTypes
    <2>2. ref[s] \in Nat /\ (ref[s] > 0 => ctxMem[s] = "alive")
      BY DEF LifeInv, ContextInv, LifeTypes
    <2>3. \A u \in Threads : s \notin {th[u].ctx, th[u].ref, th[u].born} /\ slot[s] = "free"
      BY <2>1, UsedIsAlive DEF LifeInv
    <2> QED BY <2>1, <2>2, <2>3
  <1>1. Counts'
    <2>2. \A x \in Services : /\ Tabled(x)' = Tabled(x) + (IF x = s THEN 1 ELSE 0)
                              /\ Tabled(x) \in Nat /\ ref[x] \in Nat /\ ref'[x] \in Int
      BY <1>0 DEF Tabled, LifeTypes
    <2>3. \A x \in Services : /\ Uses(th'[t], x) = Uses(th[t], x) + (IF x = s THEN 1 ELSE 0)
                              /\ Uses(th[t], x) \in Nat
      BY <1>0, NodeAssumption DEF Entered, Steady, Uses
    <2>5. \A x \in Services :
             ref'[x] - Tabled(x)' = ref[x] - Tabled(x) - Uses(th[t], x) + Uses(th'[t], x)
      <3> TAKE x \in Services
      <3>1. CASE x = s
        BY <1>0, <2>2, <2>3, <3>1
      <3>2. CASE x # s
        BY <1>0, <2>2, <2>3, <3>2
      <3> QED BY <3>1, <3>2
    <2> QED BY <2>2, <2>5, CountsStep, LifeInvIs DEF Entered
  <1>2. \A x \in Services : ContextInv(x)'
    <2> TAKE x \in Services
    <2>1. ContextInv(x)
      BY DEF LifeInv
    <2>2. CASE x = s
      BY <1>0, <2>1, <2>2 DEF Entered, ContextInv, MarksSame
    <2>3. CASE x # s
      BY <1>0, <2>1, <2>3 DEF Entered, ContextInv, MarksSame
    <2> QED BY <2>2, <2>3
  <1>3. \A u \in Threads : ReferenceInv(u)'
    <2> TAKE u \in Threads
    <2>2. ReferenceInv(u)
      BY DEF LifeInv
    <2>3. \A v \in Threads : v # t => th'[v] = th[v]
      BY DEF Entered, Solo
    <2>4. None \notin Services
      BY NodeAssumption
    <2>5. /\ At(u, "delete") => /\ ctxMem[th[u].ref] = "alive" /\ ref[th[u].ref] = 0
                                /\ (th[u].ref \in Services => th[u].ref # s)
          /\ At(u, "newqueue") => slot[th[u].born] = "unset"
      BY <1>0, <2>2 DEF ReferenceInv
    <2>6. /\ At(u, "delete") => ctxMem'[th[u].ref] = "alive" /\ ref'[th[u].ref] = 0
          /\ At(u, "newqueue") => slot'[th[u].born] = "unset"
      <3>1. \A x : x # s => ctxMem'[x] = ctxMem[x] /\ ref'[x] = ref[x] /\ slot'[x] = slot[x]
        BY DEF Entered, LifeTypes
      <3> QED BY <1>0, <2>5, <3>1
    <2>7. CASE u = t
      BY <1>0, <2>2, <2>3, <2>4, <2>7 DEF Entered, ReferenceInv, Steady, At
    <2>8. CASE u # t
      BY <1>0, <2>2, <2>3, <2>4, <2>6, <2>8 DEF Entered, ReferenceInv, Steady, At
    <2> QED BY <2>7, <2>8
  <1>4. Living' = Living /\ total' = total
    BY <1>0 DEF Entered, Living
  <1> QED BY <1>1, <1>2, <1>3, <1>4, LifeInvIs, LifeInvNext

LEMMA MadePreserves ==
    ASSUME LifeTypes, LifeInv, NEW t \in Threads, NEW s \in Services, Made(t, s)
    PROVE  LifeInv'
  <1>0. /\ slot[s] = "unset" /\ s # None /\ ctxMem[s] = "alive"
        /\ slot'[s] = "set" /\ (\A x \in Services \ {s} : slot'[x] = slot[x])
        /\ mqMem'[s] = "alive" /\ (\A x \in Services \ {s} : mqMem'[x] = mqMem[x])
        /\ \A u \in Threads \ {t} : At(u, "newqueue") => th[u].born # s
    <2>1. slot[s] = "unset" /\ \A u \in Threads \ {t} : At(u, "newqueue") => th[u].born # s
      BY DEF LifeInv, ReferenceInv, Made, At
    <2>2. ctxMem[s] = "alive"
      BY <2>1, UsedIsAlive DEF LifeInv
    <2> QED BY <2>1, <2>2, NodeAssumption DEF Made, LifeTypes
  <1>1. Counts'
    <2>2. \A x \in Services : Tabled(x)' = Tabled(x) /\ Tabled(x) \in Nat /\ ref[x] \in Nat
      BY <1>0 DEF Tabled, LifeTypes
    <2>3. \A x \in Services : Uses(th'[t], x) = Uses(th[t], x) /\ Uses(th[t], x) \in Nat
      BY NodeAssumption DEF Made, Steady, Uses
    <2>5. \A x \in Services :
             ref'[x] - Tabled(x)' = ref[x] - Tabled(x) - Uses(th[t], x) + Uses(th'[t], x)
      BY <2>2, <2>3 DEF Made
    <2> QED BY <2>2, <2>5, CountsStep, LifeInvIs DEF Made
  <1>2. \A x \in Services : ContextInv(x)'
    <2> TAKE x \in Services
    <2>1. ContextInv(x)
      BY DEF LifeInv
    <2>2. CASE x = s
      BY <1>0, <2>1, <2>2 DEF Made, ContextInv
    <2>3. CASE x # s
      BY <1>0, <2>1, <2>3 DEF Made, ContextInv
    <2> QED BY <2>2, <2>3
  <1>3. \A u \in Threads : ReferenceInv(u)'
    <2> TAKE u \in Threads
    <2>2. ReferenceInv(u)
      BY DEF LifeInv
    <2>3. \A v \in Threads : v # t => th'[v] = th[v]
      BY DEF Made, Solo
    <2>4. u # t /\ At(u, "newqueue") => slot'[th[u].born] = "unset"
      <3>1. \A x : x # s => slot'[x] = slot[x]
        BY DEF Made, LifeTypes
      <3> QED BY <1>0, <2>2, <3>1 DEF ReferenceInv
    <2> QED BY <1>0, <2>2, <2>3, <2>4 DEF Made, ReferenceInv, Steady, At
  <1>4. total' = Cardinality(Living')
    <2>1. s \notin Living /\ s \in Living' /\ \A x \in Services \ {s} : x \in Living <=> x \in Living'
      BY <1>0 DEF Made, Living
    <2>2. total = Cardinality(Living) /\ total' = total + 1
      BY LifeInvIs DEF Made
    <2>3. IsFiniteSet(Living)
      BY FS_Subset, NodeAssumption DEF Living
    <2>4. total \in Nat
      BY <2>2, <2>3, FS_CardinalityType
    <2>5. total' = total - (IF s \in Living THEN 1 ELSE 0) + (IF s \in Living' THEN 1 ELSE 0)
      BY <2>1, <2>2, <2>4
    <2> QED BY <2>1, <2>2, <2>5, TotalStep
  <1> QED BY <1>1, <1>2, <1>3, <1>4, LifeInvIs, LifeInvNext

LEMMA LifePreserved ==
    ASSUME LifeTypes, LifeInv, LifeStep
    PROVE  LifeInv'
  BY LifeSamePreserves, GrabbedPreserves, HandedOverPreserves, RetiredPreserves, DroppedPreserves,
     DeletedPreserves, EnteredPreserves, MadePreserves DEF LifeStep

----------------------------------------------------------------------------
(* What is left of NodeInv, for a step of one thread *)

\* ThreadInv of one thread.
PlaceOK(t, r) ==
    /\ Placed(r)
    /\ t \in Workers => Base(r) \notin {"idle", "wakeup"} /\ (r.pc = "length" => Weight[t] >= 0)
    /\ t \in Outside => Base(r) \in {"idle", "wakeup", "done"} /\ r.q = None

Asleep(r) == r.pc \in {"enter", "waiting", "woken"}

LEMMA ThreadInvIs == ThreadInv <=> \A t \in Threads : PlaceOK(t, th[t])
  BY DEF ThreadInv, PlaceOK, Threads, At

LEMMA ThreadInvNext == ThreadInv' <=> \A t \in Threads : PlaceOK(t, th'[t])
  BY DEF ThreadInv, PlaceOK, Threads, Placed, Base, InTurn, Errands, At

\* The rings after a step, and the thread that drops one.
RingsOK == DOMAIN mq' = Services /\ \A s \in Services : Sound(mq'[s])

DropOK(t) ==
    /\ \A s \in Services : ctxMem[s] = "freed" => ctxMem'[s] = "freed"
    /\ Base(th'[t]) = "drop" => ctxMem'[th'[t].dq] = "freed"

\* No queue can be come by that could not before, unless its service has left the table.
FoundOK(t) ==
    /\ init' = init
    /\ \/ th'[t].ctx \in {None, th[t].ctx}
       \/ th'[t].ctx = th[t].q /\ slot[th[t].q] = "set"
    /\ \A s \in Services : slot'[s] = "set" =>
          /\ slot[s] = "set"
          /\ Listed(s)' => Found(s)
          /\ ~mq'[s].in_global => Found(s)
          /\ Shows(th'[t], s) => Found(s)

SmallTypes ==
    /\ slot \in [Services -> {"free", "unset", "set"}]
    /\ ref \in [Services -> Nat]
    /\ init \in [Services -> BOOLEAN]
    /\ ctxMem \in [Services -> {"none", "alive", "freed"}]
    /\ mqMem \in [Services -> {"none", "alive", "freed"}]
    /\ quit \in BOOLEAN
    /\ fate \in [Ids -> {"unsent", "travelling", "handled", "bounced", "refused"}]

LEMMA TypesIs ==
    TypeOK <=> /\ SmallTypes /\ th \in [Threads -> ThreadStates] /\ global \in Seq(Services)
               /\ DOMAIN mq = Services /\ \A s \in Services : WellFormed(mq[s])
               /\ total \in Nat /\ sleep \in 0..Cardinality(Workers)
  BY DEF TypeOK, SmallTypes

LEMMA TypesNext ==
    (TypeOK <=> /\ SmallTypes /\ th \in [Threads -> ThreadStates] /\ global \in Seq(Services)
                /\ DOMAIN mq = Services /\ \A s \in Services : WellFormed(mq[s])
                /\ total \in Nat /\ sleep \in 0..Cardinality(Workers))'
  BY TypesIs, PTL

\* What is known of each thread.
LEMMA ThreadFacts ==
    ASSUME NodeInv, NEW t \in Threads
    PROVE  /\ th[t] \in ThreadStates /\ PlaceOK(t, th[t])
           /\ {th[t].q, th[t].nq, th[t].dq, th[t].ctx, th[t].dst, th[t].ref, th[t].born}
                 \subseteq Services \cup {None}
           /\ Launched(th[t]) \in Services \cup {None}
  <1>1. th[t] \in ThreadStates /\ PlaceOK(t, th[t])
    BY ThreadInvIs DEF NodeInv, TypeOK
  <1> QED BY <1>1 DEF ThreadStates, Launched

LEMMA RingFacts ==
    ASSUME NodeInv PROVE DOMAIN mq = Services /\ \A s \in Services : Sound(mq[s])
  BY DEF NodeInv, TypeOK, QueueInv, Sound

LEMMA SleepBound ==
    ASSUME SleepInv PROVE sleep \in 0..Cardinality(Workers) /\ Cardinality(Workers) \in Nat
  <1> DEFINE S == {w \in Workers : th[w].pc \in {"enter", "waiting", "woken"}}
  <1>1. IsFiniteSet(S) /\ Cardinality(S) <= Cardinality(Workers)
    BY ThreadsFinite, FS_Subset
  <1>2. Cardinality(S) \in Nat /\ Cardinality(Workers) \in Nat
    BY <1>1, ThreadsFinite, FS_CardinalityType
  <1>3. sleep = Cardinality(S)
    BY DEF SleepInv
  <1> HIDE DEF S
  <1> QED BY <1>1, <1>2, <1>3

LEMMA SleepBoundNext == (SleepInv => sleep \in 0..Cardinality(Workers))'
  <1>1. SleepInv => sleep \in 0..Cardinality(Workers)
    BY SleepBound
  <1> QED BY <1>1, PTL

LEMMA TotalType ==
    ASSUME LifeInv PROVE total \in Nat
  <1>1. IsFiniteSet(Living)
    BY FS_Subset, NodeAssumption DEF Living
  <1> QED BY <1>1, LifeInvIs, FS_CardinalityType

LEMMA TotalTypeNext == (LifeInv => total \in Nat)'
  <1>1. LifeInv => total \in Nat
    BY TotalType
  <1> QED BY <1>1, PTL

\* The parts together.
LEMMA Assemble ==
    ASSUME NodeInv, SmallTypes', th' \in [Threads -> ThreadStates],
           \A t \in Threads : PlaceOK(t, th'[t]),
           LifeStep, TurnStep, RingsOK,
           \A t \in Threads : Base(th'[t]) = "drop" => ctxMem'[th'[t].dq] = "freed",
           InitInv', SleepInv'
    PROVE  NodeInv'
  <1>1. LifeInv'
    BY LifePreserved DEF NodeInv, TypeOK, LifeTypes
  <1>2. TurnInv' /\ global' \in Seq(Services)
    BY TurnPreserved, ThreadFacts DEF NodeInv, TypeOK
  <1>3. ThreadInv'
    BY ThreadInvNext
  <1>4. QueueInv'
    BY DEF QueueInv, RingsOK, Sound, Base
  <1>5. total' \in Nat /\ sleep' \in 0..Cardinality(Workers)
    BY <1>1, TotalTypeNext, SleepBoundNext
  <1>6. DOMAIN mq' = Services /\ \A s \in Services : WellFormed(mq'[s])
    BY DEF RingsOK, Sound
  <1>7. TypeOK'
    BY <1>2, <1>5, <1>6, TypesNext DEF WellFormed
  <1> QED BY <1>1, <1>2, <1>3, <1>4, <1>7 DEF NodeInv

\* A thread's record is replaced.
LEMMA MoveSolo ==
    ASSUME th \in [Threads -> ThreadStates], NEW t \in Threads, NEW r \in ThreadStates,
           th' = [th EXCEPT ![t] = r]
    PROVE  Solo(t) /\ th'[t] = r /\ th' \in [Threads -> ThreadStates]
  BY DEF Solo

LEMMA FoundNext ==
    ASSUME NEW s
    PROVE  Found(s)' <=> Listed(s)' \/ ~mq'[s].in_global \/ \E t \in Threads : Shows(th'[t], s)
  BY DEF Found, Shows

LEMMA InitSolo ==
    ASSUME NodeInv, NEW t \in Threads, Solo(t), FoundOK(t)
    PROVE  InitInv'
  <1>1. \A u \in Threads : th[u].ctx # None => init[th[u].ctx]
    BY DEF NodeInv, InitInv
  <1>2. \A s \in Services : Found(s) /\ slot[s] = "set" => init[s]
    BY DEF NodeInv, InitInv
  <1>3. th[t].q \in Services \cup {None} /\ None \notin Services /\ slot \in [Services -> {"free", "unset", "set"}]
    BY ThreadFacts, NodeAssumption DEF NodeInv, TypeOK
  <1>4. \A u \in Threads : \A s \in Services : Shows(th[u], s) => Found(s)
    BY DEF Found
  <1>5. \A u \in Threads : th'[u].ctx # None => init'[th'[u].ctx]
    <2> TAKE u \in Threads
    <2>1. CASE u # t
      BY <1>1, <2>1 DEF Solo, FoundOK
    <2>2. CASE u = t /\ th'[t].ctx \in {None, th[t].ctx}
      BY <1>1, <2>2 DEF FoundOK
    <2>3. CASE u = t /\ th'[t].ctx = th[t].q /\ slot[th[t].q] = "set" /\ th[t].q # None
      <3>1. Found(th[t].q) /\ th[t].q \in Services
        BY <1>3, <1>4, <2>3 DEF Shows
      <3> QED BY <1>2, <2>3, <3>1 DEF FoundOK
    <2> QED BY <2>1, <2>2, <2>3 DEF FoundOK
  <1>6. \A s \in Services : Found(s)' /\ slot'[s] = "set" => init'[s]
    <2> TAKE s \in Services
    <2>1. SUFFICES ASSUME Found(s)', slot'[s] = "set" PROVE init'[s]
      OBVIOUS
    <2>2. slot[s] = "set" /\ (Listed(s)' => Found(s)) /\ (~mq'[s].in_global => Found(s))
          /\ (Shows(th'[t], s) => Found(s)) /\ init' = init
      BY <2>1 DEF FoundOK
    <2>3. Found(s)
      BY <1>4, <2>1, <2>2, FoundNext DEF Solo
    <2> QED BY <1>2, <2>2, <2>3
  <1> QED BY <1>5, <1>6 DEF InitInv

Sleepers == {w \in Workers : th[w].pc \in {"enter", "waiting", "woken"}}

LEMMA SleepSame ==
    ASSUME SleepInv, sleep' = sleep, \A w \in Workers : Asleep(th'[w]) <=> Asleep(th[w])
    PROVE  SleepInv'
  <1>1. Sleepers' = Sleepers
    BY DEF Sleepers, Asleep
  <1> QED BY <1>1 DEF SleepInv, Sleepers

LEMMA SleepSolo ==
    ASSUME NodeInv, NEW t \in Workers, Solo(t),
           \/ Asleep(th'[t]) /\ ~Asleep(th[t]) /\ sleep' = sleep + 1
           \/ ~Asleep(th'[t]) /\ Asleep(th[t]) /\ sleep' = sleep - 1
    PROVE  SleepInv'
  <1> DEFINE A == Sleepers  B == Sleepers'
  <1>1. sleep = Cardinality(A) /\ sleep \in Nat
    BY SleepBound DEF NodeInv, SleepInv, Sleepers
  <1>2. IsFiniteSet(Workers)
    BY NodeAssumption
  <1>3. A \in SUBSET Workers
    BY DEF Sleepers
  <1>4. B \in SUBSET Workers
    BY DEF Sleepers
  <1>5. \A u \in Workers \ {t} : u \in A <=> u \in B
    BY DEF Sleepers, Solo, Threads
  <1>6. (t \in A <=> Asleep(th[t])) /\ (t \in B <=> Asleep(th'[t]))
    BY DEF Sleepers, Asleep
  <1>8. SleepInv' <=> sleep' = Cardinality(B)
    BY DEF SleepInv, Sleepers
  <1> HIDE DEF A, B
  <1>7. /\ Cardinality(A) \in Nat /\ Cardinality(B) \in Nat
        /\ Cardinality(B) = Cardinality(A) - (IF t \in A THEN 1 ELSE 0) + (IF t \in B THEN 1 ELSE 0)
        /\ t \in A => Cardinality(A) >= 1
    BY <1>2, <1>3, <1>4, <1>5, CountSolo, Zenon
  <1> QED BY <1>1, <1>6, <1>7, <1>8

\* A step of one thread that is not about sleeping.
LEMMA SoloStepInit ==
    ASSUME NodeInv, NEW t \in Threads, NEW r \in ThreadStates, th' = [th EXCEPT ![t] = r],
           PlaceOK(t, r), ~Asleep(th[t]), ~Asleep(r), sleep' = sleep, SmallTypes',
           LifeStep, TurnStep, RingsOK, DropOK(t), InitInv'
    PROVE  NodeInv'
  <1>1. Solo(t) /\ th'[t] = r /\ th' \in [Threads -> ThreadStates]
    BY MoveSolo DEF NodeInv, TypeOK
  <1>2. \A u \in Threads : PlaceOK(u, th'[u])
    BY <1>1, ThreadFacts DEF Solo
  <1>3. \A u \in Threads : Base(th'[u]) = "drop" => ctxMem'[th'[u].dq] = "freed"
    <2> TAKE u \in Threads
    <2>1. CASE u = t
      BY <2>1 DEF DropOK
    <2>2. CASE u # t
      <3>1. th'[u] = th[u] /\ (Base(th[u]) = "drop" => ctxMem[th[u].dq] = "freed")
        BY <1>1, <2>2 DEF Solo, NodeInv, QueueInv
      <3>2. Base(th[u]) = "drop" => th[u].dq \in Services
        BY ThreadFacts DEF PlaceOK, Placed
      <3> QED BY <3>1, <3>2 DEF DropOK
    <2> QED BY <2>1, <2>2
  <1>4. SleepInv'
    BY <1>1, SleepSame, ThreadsFinite DEF Solo, NodeInv
  <1> QED BY <1>1, <1>2, <1>3, <1>4, Assemble

LEMMA SoloStep ==
    ASSUME NodeInv, NEW t \in Threads, NEW r \in ThreadStates, th' = [th EXCEPT ![t] = r],
           PlaceOK(t, r), ~Asleep(th[t]), ~Asleep(r), sleep' = sleep, SmallTypes',
           LifeStep, TurnStep, RingsOK, DropOK(t), FoundOK(t)
    PROVE  NodeInv'
  <1>1. Solo(t)
    BY MoveSolo DEF NodeInv, TypeOK
  <1>2. InitInv'
    BY <1>1, InitSolo
  <1> QED BY <1>2, SoloStepInit

\* What a record has of references and queues.
Alike(r, r2) ==
    /\ SameRefs(r, r2)
    /\ r2.q = r.q /\ r2.nq = r.nq /\ r2.dq = r.dq /\ Launched(r2) = Launched(r)
    /\ r2.pc = "pushnew" => r.pc = "pushnew" /\ r2.dst = r.dst

FlagsSame == \A s \in Services : mq'[s].release = mq[s].release /\ mq'[s].in_global = mq[s].in_global

\* A step of a thread that only goes on, or sends or takes a message.
LEMMA AlikeKinds ==
    ASSUME NodeInv, NEW t \in Threads, NEW r \in ThreadStates, th' = [th EXCEPT ![t] = r],
           Alike(th[t], r), FlagsSame, UNCHANGED <<memVars, mqMem, global, quit>>
    PROVE  LifeStep /\ TurnStep /\ FoundOK(t)
  <1>1. Solo(t) /\ th'[t] = r
    BY MoveSolo DEF NodeInv, TypeOK
  <1>2. LifeSame
    BY <1>1 DEF LifeSame, MarksSame, FlagsSame, Alike, SameRefs, Solo, memVars
  <1>3. TurnSame
    <2>1. BusySame
      BY DEF BusySame, Busy, FlagsSame
    <2>2. \A u \in Threads : Apart(th[u])
      BY DEF NodeInv, TurnInv
    <2>3. Apart(r) /\ \A s \in Services : Holds(r, s) <=> Holds(th[t], s)
      BY <2>2 DEF Apart, Holds, Alike
    <2>4. HandsSame
      BY <1>1, <2>2, <2>3 DEF HandsSame, Solo
    <2> QED BY <2>1, <2>4 DEF TurnSame
  <1>4. FoundOK(t)
    <2>1. \A s : Listed(s)' <=> Listed(s)
      BY DEF Listed
    <2>2. \A s \in Services : Shows(r, s) => Shows(th[t], s)
      BY DEF Shows, Alike
    <2>3. r.ctx = th[t].ctx
      BY DEF Alike, SameRefs
    <2> QED BY <1>1, <2>1, <2>2, <2>3 DEF FoundOK, Found, FlagsSame, memVars
  <1> QED BY <1>2, <1>3, <1>4 DEF LifeStep, TurnStep

LEMMA PlainStep ==
    ASSUME NodeInv, NEW t \in Threads, NEW r \in ThreadStates, th' = [th EXCEPT ![t] = r],
           PlaceOK(t, r), Alike(th[t], r), ~Asleep(th[t]), ~Asleep(r),
           Base(r) = "drop" => Base(th[t]) = "drop" \/ ctxMem[th[t].dq] = "freed",
           UNCHANGED <<memVars, mqMem, global, quit, sleep>>, FlagsSame, RingsOK,
           fate' \in [Ids -> {"unsent", "travelling", "handled", "bounced", "refused"}]
    PROVE  NodeInv'
  <1>1. LifeStep /\ TurnStep /\ FoundOK(t)
    BY AlikeKinds
  <1>2. th'[t] = r
    BY MoveSolo DEF NodeInv, TypeOK
  <1>3. DropOK(t)
    BY <1>2 DEF DropOK, Alike, NodeInv, QueueInv, memVars
  <1>4. SmallTypes'
    BY TypesIs DEF SmallTypes, memVars, NodeInv
  <1> QED BY <1>1, <1>3, <1>4, SoloStep

LEMMA QuietStep ==
    ASSUME NodeInv, NEW t \in Threads, NEW r \in ThreadStates, th' = [th EXCEPT ![t] = r],
           PlaceOK(t, r), Alike(th[t], r), ~Asleep(th[t]), ~Asleep(r),
           Base(r) = "drop" => Base(th[t]) = "drop" \/ ctxMem[th[t].dq] = "freed",
           UNCHANGED <<memVars, queueVars, quit, sleep>>,
           fate' \in [Ids -> {"unsent", "travelling", "handled", "bounced", "refused"}]
    PROVE  NodeInv'
  <1>1. FlagsSame /\ RingsOK /\ UNCHANGED <<memVars, mqMem, global, quit, sleep>>
    BY RingFacts DEF FlagsSame, RingsOK, queueVars
  <1> QED BY <1>1, PlainStep

----------------------------------------------------------------------------
(* The steps that only lead a thread from place to place *)

LEMMA CountMessagesKeeps ==
    ASSUME NodeInv, NEW w \in Workers, CountMessages(w)
    PROVE  NodeInv'
  <1> DEFINE l == ShiftRight(mq_length(mq[th[w].q]), Weight[w])
             n == IF l > 1 THEN l - 1 ELSE 0
             r == [th[w] EXCEPT !.pc = "callback", !.left = n]
  <1>0. w \in Threads /\ th[w] \in ThreadStates /\ PlaceOK(w, th[w]) /\ th \in [Threads -> ThreadStates]
        /\ th[w].pc = "length"
    BY ThreadFacts, ThreadsFinite DEF NodeInv, TypeOK, CountMessages, At
  <1>1. n \in Nat
    <2>1. th[w].q \in Services
      BY <1>0 DEF PlaceOK, Placed, Base, InTurn, Errands, ThreadStates
    <2>2. mq_length(mq[th[w].q]) \in Nat
      <3>1. WellFormed(mq[th[w].q])
        BY <2>1, RingFacts DEF Sound
      <3>2. mq_length(mq[th[w].q]) \in 0..(mq[th[w].q].cap - 1) /\ mq[th[w].q].cap \in Nat
        BY <3>1, LengthRange DEF WellFormed
      <3> QED BY <3>2
    <2>3. Weight[w] \in 0..3
      BY <1>0, NodeAssumption DEF PlaceOK
    <2>4. <<1, 2, 4, 8>>[Weight[w] + 1] \in {1, 2, 4, 8}
      BY <2>3
    <2>5. l \in Nat
      BY <2>2, <2>4 DEF ShiftRight
    <2> QED BY <2>5
  <1> HIDE DEF l, n
  <1>2. th' = [th EXCEPT ![w] = r]
    BY <1>0 DEF CountMessages, n, l
  <1>3. r \in ThreadStates
    BY <1>0, <1>1, ZenonT(40) DEF ThreadStates, Places
  <1>4. Alike(th[w], r) /\ ~Asleep(th[w]) /\ ~Asleep(r) /\ Base(r) # "drop"
    BY <1>0 DEF ThreadStates, Base, Errands, Alike, SameRefs, Launched, Asleep
  <1>5. PlaceOK(w, r)
    BY <1>0 DEF ThreadStates, PlaceOK, Placed, Base, InTurn, Errands
  <1> QED BY <1>0, <1>2, <1>3, <1>4, <1>5, QuietStep DEF CountMessages, NodeInv, TypeOK

\* The fields of a thread that NodeInv speaks of.
Has(r, pc, after, msg, q, ctx, nq, dq, dst, ref_, born) ==
    /\ r.pc = pc /\ r.after = after /\ r.msg = msg /\ r.q = q /\ r.ctx = ctx /\ r.nq = nq
    /\ r.dq = dq /\ r.dst = dst /\ r.ref = ref_ /\ r.born = born

LEMMA EndCallbackKeeps ==
    ASSUME NodeInv, NEW w \in Workers, EndCallback(w)
    PROVE  NodeInv'
  <1>0. w \in Threads /\ th[w] \in ThreadStates /\ PlaceOK(w, th[w])
        /\ th \in [Threads -> ThreadStates] /\ th[w].pc = "callback"
    BY ThreadFacts, ThreadsFinite DEF NodeInv, TypeOK, EndCallback, At
  <1>1. CASE th[w].left > 0
    <2> DEFINE n == th[w].left - 1
    <2>0. n \in Nat
      BY <1>0, <1>1 DEF ThreadStates
    <2> DEFINE r == [th[w] EXCEPT !.pc = "pop", !.left = n, !.first = FALSE]
    <2>1. th' = [th EXCEPT ![w] = r]
      BY <1>0, <1>1 DEF EndCallback, Goto
    <2> HIDE DEF n
    <2>2. r \in ThreadStates /\ Has(r, "pop", th[w].after, th[w].msg, th[w].q, th[w].ctx, th[w].nq, th[w].dq, th[w].dst, th[w].ref, th[w].born)
      <3>1. r \in ThreadStates
        BY <1>0, <2>0, ZenonT(40) DEF ThreadStates, Places
      <3>2. Has(r, "pop", th[w].after, th[w].msg, th[w].q, th[w].ctx, th[w].nq, th[w].dq, th[w].dst, th[w].ref, th[w].born)
        BY <1>0, <2>0 DEF ThreadStates, Has
      <3> QED BY <3>1, <3>2
    <2> HIDE DEF r
    <2>3. PlaceOK(w, r)
      BY <1>0, <1>1, <2>2 DEF PlaceOK, Placed, Base, InTurn, Errands, Has
    <2>4. Alike(th[w], r) /\ ~Asleep(th[w]) /\ ~Asleep(r)
      BY <1>0, <2>2 DEF Alike, SameRefs, Launched, Asleep, PlaceOK, Placed, Base, InTurn, Errands, Has
    <2>5. Base(r) # "drop"
      BY <2>2 DEF Base, Errands, Has
    <2> QED BY <1>0, <2>1, <2>2, <2>3, <2>4, <2>5, QuietStep DEF EndCallback, NodeInv, TypeOK
  <1>2. CASE ~(th[w].left > 0)
    <2> DEFINE r == [th[w] EXCEPT !.pc = "swap"]
    <2>1. th' = [th EXCEPT ![w] = r]
      BY <1>0, <1>2 DEF EndCallback, Goto
    <2>2. r \in ThreadStates /\ Has(r, "swap", th[w].after, th[w].msg, th[w].q, th[w].ctx, th[w].nq, th[w].dq, th[w].dst, th[w].ref, th[w].born)
      <3>1. r \in ThreadStates
        BY <1>0, <1>2 DEF ThreadStates, Places
      <3>2. Has(r, "swap", th[w].after, th[w].msg, th[w].q, th[w].ctx, th[w].nq, th[w].dq, th[w].dst, th[w].ref, th[w].born)
        BY <1>0, <1>2 DEF ThreadStates, Has
      <3> QED BY <3>1, <3>2
    <2> HIDE DEF r
    <2>3. PlaceOK(w, r)
      BY <1>0, <1>2, <2>2 DEF PlaceOK, Placed, Base, InTurn, Errands, Has
    <2>4. Alike(th[w], r) /\ ~Asleep(th[w]) /\ ~Asleep(r)
      BY <1>0, <2>2 DEF Alike, SameRefs, Launched, Asleep, PlaceOK, Placed, Base, InTurn, Errands, Has
    <2>5. Base(r) # "drop"
      BY <2>2 DEF Base, Errands, Has
    <2> QED BY <1>0, <2>1, <2>2, <2>3, <2>4, <2>5, QuietStep DEF EndCallback, NodeInv, TypeOK
  <1> QED BY <1>1, <1>2

LEMMA AbortKeeps ==
    ASSUME NodeInv, NEW w \in Workers, Abort(w)
    PROVE  NodeInv'
  <1> DEFINE r == [th[w] EXCEPT !.pc = "scan", !.scan = Services, !.found = FALSE]
  <1>0. w \in Threads /\ th[w] \in ThreadStates /\ PlaceOK(w, th[w]) /\ th \in [Threads -> ThreadStates]
        /\ th[w].pc = "callback"
    BY ThreadFacts, ThreadsFinite DEF NodeInv, TypeOK, Abort, At
  <1>2. th' = [th EXCEPT ![w] = r]
    BY <1>0 DEF Abort
  <1>3. r \in ThreadStates /\ PlaceOK(w, r) /\ Alike(th[w], r) /\ ~Asleep(th[w]) /\ ~Asleep(r)
        /\ Base(r) # "drop"
    BY <1>0, ZenonT(40) DEF ThreadStates, PlaceOK, Placed, Base, InTurn, Errands, Places, Alike, SameRefs,
                      Launched, Asleep
  <1> QED BY <1>0, <1>2, <1>3, QuietStep DEF Abort, NodeInv, TypeOK

LEMMA EndPassKeeps ==
    ASSUME NodeInv, NEW w \in Workers, EndPass(w)
    PROVE  NodeInv'
  <1>0. w \in Threads /\ th[w] \in ThreadStates /\ PlaceOK(w, th[w])
        /\ th \in [Threads -> ThreadStates] /\ th[w].pc = "scan"
    BY ThreadFacts, ThreadsFinite DEF NodeInv, TypeOK, EndPass, At
  <1>1. CASE th[w].found
    <2> DEFINE r == [th[w] EXCEPT !.scan = Services, !.found = FALSE, !.pc = "scan"]
    <2>1. th' = [th EXCEPT ![w] = r]
      BY <1>0, <1>1 DEF EndPass
    <2>2. r \in ThreadStates /\ Has(r, "scan", th[w].after, th[w].msg, th[w].q, th[w].ctx, th[w].nq, th[w].dq, th[w].dst, th[w].ref, th[w].born)
      <3>1. r \in ThreadStates
        BY <1>0, ZenonT(40) DEF ThreadStates, Places
      <3>2. Has(r, "scan", th[w].after, th[w].msg, th[w].q, th[w].ctx, th[w].nq, th[w].dq, th[w].dst, th[w].ref, th[w].born)
        BY <1>0 DEF ThreadStates, Has
      <3> QED BY <3>1, <3>2
    <2> HIDE DEF r
    <2>3. PlaceOK(w, r)
      BY <1>0, <1>1, <2>2 DEF PlaceOK, Placed, Base, InTurn, Errands, Has
    <2>4. Alike(th[w], r) /\ ~Asleep(th[w]) /\ ~Asleep(r)
      BY <1>0, <2>2 DEF Alike, SameRefs, Launched, Asleep, PlaceOK, Placed, Base, InTurn, Errands, Has
    <2>5. Base(r) # "drop"
      BY <2>2 DEF Base, Errands, Has
    <2> QED BY <1>0, <2>1, <2>2, <2>3, <2>4, <2>5, QuietStep DEF EndPass, NodeInv, TypeOK
  <1>2. CASE ~th[w].found
    <2> DEFINE r == [th[w] EXCEPT !.scan = {}, !.found = FALSE, !.pc = "callback"]
    <2>1. th' = [th EXCEPT ![w] = r]
      BY <1>0, <1>2 DEF EndPass
    <2>2. r \in ThreadStates /\ Has(r, "callback", th[w].after, th[w].msg, th[w].q, th[w].ctx, th[w].nq, th[w].dq, th[w].dst, th[w].ref, th[w].born)
      <3>1. r \in ThreadStates
        BY <1>0, ZenonT(40) DEF ThreadStates, Places
      <3>2. Has(r, "callback", th[w].after, th[w].msg, th[w].q, th[w].ctx, th[w].nq, th[w].dq, th[w].dst, th[w].ref, th[w].born)
        BY <1>0 DEF ThreadStates, Has
      <3> QED BY <3>1, <3>2
    <2> HIDE DEF r
    <2>3. PlaceOK(w, r)
      BY <1>0, <1>2, <2>2 DEF PlaceOK, Placed, Base, InTurn, Errands, Has
    <2>4. Alike(th[w], r) /\ ~Asleep(th[w]) /\ ~Asleep(r)
      BY <1>0, <2>2 DEF Alike, SameRefs, Launched, Asleep, PlaceOK, Placed, Base, InTurn, Errands, Has
    <2>5. Base(r) # "drop"
      BY <2>2 DEF Base, Errands, Has
    <2> QED BY <1>0, <2>1, <2>2, <2>3, <2>4, <2>5, QuietStep DEF EndPass, NodeInv, TypeOK
  <1> QED BY <1>1, <1>2

\* A command to send, of a callback, an init function, the timer or the socket thread.
LEMMA StartSendKeeps ==
    ASSUME NodeInv, NEW t \in Threads, NEW l, NEW src \in Services \cup Outside,
           NEW d \in Services, NEW back, StartSend(t, l, src, d, back),
           \/ t \in Workers /\ back = l /\ l \in {"callback", "init"}
           \/ t \in Outside /\ l = "idle" /\ back \in {"idle", "wakeup"}
    PROVE  NodeInv'
  <1>0. t \in Threads /\ th[t] \in ThreadStates /\ PlaceOK(t, th[t])
        /\ th \in [Threads -> ThreadStates] /\ th[t].pc = l
    BY ThreadFacts, ThreadsFinite DEF NodeInv, TypeOK, StartSend, At
  <1>1. PICK i \in Ids :
          /\ fate' = [fate EXCEPT ![i] = "travelling"]
          /\ th' = [th EXCEPT ![t].pc = "push", ![t].dst = d, ![t].after = back,
                              ![t].msg = [id |-> i, src |-> src, kind |-> "text"]]
    BY DEF StartSend
  <1> DEFINE m == [id |-> i, src |-> src, kind |-> "text"]
  <1>2. m \in Messages /\ m # Vacant
    BY NodeAssumption, QueueAssumption DEF Kinds
  <1>3. d # None /\ Workers \cap Outside = {}
    BY NodeAssumption
  <1>4. back \in {"callback", "init", "idle", "wakeup"}
    OBVIOUS
  <1> DEFINE r == [th[t] EXCEPT !.pc = "push", !.dst = d, !.after = back, !.msg = m]
  <1>5. th' = [th EXCEPT ![t] = r]
    BY <1>0, <1>1
  <1> HIDE DEF m
  <1>6. r \in ThreadStates
    BY <1>0, <1>2, <1>4, ZenonT(40) DEF ThreadStates, Places
  <1>7. Has(r, "push", back, m, th[t].q, th[t].ctx, th[t].nq, th[t].dq, d, th[t].ref, th[t].born)
    BY <1>0 DEF ThreadStates, Has
  <1> HIDE DEF r
  <1>8. PlaceOK(t, r)
    BY <1>0, <1>2, <1>3, <1>7 DEF PlaceOK, Placed, Base, InTurn, Errands, Has
  <1>9. Alike(th[t], r) /\ ~Asleep(th[t]) /\ ~Asleep(r) /\ Base(r) # "drop"
    BY <1>0, <1>3, <1>7 DEF Alike, SameRefs, Launched, Asleep, PlaceOK, Placed, Base, InTurn, Errands, Has
  <1>10. fate' \in [Ids -> {"unsent", "travelling", "handled", "bounced", "refused"}]
    BY <1>1 DEF NodeInv, TypeOK
  <1> QED BY <1>0, <1>5, <1>6, <1>8, <1>9, <1>10, QuietStep DEF StartSend

----------------------------------------------------------------------------
(* The steps that take a queue or a reference, or give one back *)

\* The turns stay where they are while a thread goes on.
LEMMA TurnSameSolo ==
    ASSUME NodeInv, NEW t \in Threads, Solo(t), global' = global, quit' = quit, BusySame,
           Apart(th'[t]), \A s \in Services : Holds(th'[t], s) <=> Holds(th[t], s)
    PROVE  TurnStep
  BY DEF NodeInv, TurnInv, TurnSame, HandsSame, TurnStep, Solo

LEMMA TurnFacts ==
    ASSUME NodeInv, NEW t \in Threads
    PROVE  /\ Apart(th[t])
           /\ \A s \in Services : Holds(th[t], s) => ~Listed(s) /\ Busy(s)
           /\ \A s \in Services : Shows(th[t], s) => Found(s)
           /\ \A s \in Services : Listed(s) => Found(s) /\ Busy(s)
  BY DEF NodeInv, TurnInv, Found

LEMMA ListFacts ==
    ASSUME NodeInv
    PROVE  /\ global \in Seq(Services)
           /\ global # <<>> => Head(global) \in Services /\ Listed(Head(global)) /\ Head(global) # None
           /\ global # <<>> /\ global' = Tail(global) => \A s : Listed(s)' => Listed(s)
           /\ \A x \in Services : global' = Append(global, x) => \A s : Listed(s)' => Listed(s) \/ s = x
           /\ global' = global => \A s : Listed(s)' => Listed(s)
  <1>1. global \in Seq(Services)
    BY DEF NodeInv, TypeOK
  <1>2. ASSUME global # <<>>
        PROVE  Head(global) \in Services /\ Listed(Head(global)) /\ Head(global) # None
    BY <1>1, <1>2, TailOnce, ListedIsIn, NodeAssumption
  <1>3. ASSUME global # <<>>, global' = Tail(global), NEW s, Listed(s)' PROVE Listed(s)
    BY <1>1, <1>3, TailOnce, ListedIsIn
  <1>4. ASSUME NEW x \in Services, global' = Append(global, x), NEW s, Listed(s)'
        PROVE  Listed(s) \/ s = x
    BY <1>1, <1>4, AppendOnce, ListedIsIn
  <1>5. ASSUME global' = global, NEW s, Listed(s)' PROVE Listed(s)
    BY <1>5, ListedIsIn
  <1> QED BY <1>1, <1>2, <1>3, <1>4, <1>5

LEMMA TakeQueueKeeps ==
    ASSUME NodeInv, NEW w \in Workers, TakeQueue(w) \/ NextQueue(w)
    PROVE  NodeInv'
  <1>0. w \in Threads /\ th[w] \in ThreadStates /\ PlaceOK(w, th[w]) /\ th[w].q = None
        /\ th \in [Threads -> ThreadStates] /\ th[w].pc \in {"loop", "next"}
        /\ UNCHANGED <<memVars, mq, mqMem, sleep, quit, fate>>
    <2>1. w \in Threads /\ th[w] \in ThreadStates /\ PlaceOK(w, th[w]) /\ th \in [Threads -> ThreadStates]
      BY ThreadFacts, ThreadsFinite DEF NodeInv, TypeOK
    <2> QED BY <2>1 DEF TakeQueue, NextQueue, At, PlaceOK, Placed, Base, InTurn, Errands
  <1>1. CASE global = <<>>
    <2> DEFINE r == [th[w] EXCEPT !.pc = "sleep"]
    <2>1. th' = [th EXCEPT ![w] = r]
      BY <1>0, <1>1 DEF TakeQueue, NextQueue, Goto
    <2>2. r \in ThreadStates /\ Has(r, "sleep", th[w].after, th[w].msg, th[w].q, th[w].ctx, th[w].nq, th[w].dq, th[w].dst, th[w].ref, th[w].born)
      <3>1. r \in ThreadStates
        BY <1>0 DEF ThreadStates, Places
      <3>2. Has(r, "sleep", th[w].after, th[w].msg, th[w].q, th[w].ctx, th[w].nq, th[w].dq, th[w].dst, th[w].ref, th[w].born)
        BY <1>0 DEF ThreadStates, Has
      <3> QED BY <3>1, <3>2
    <2> HIDE DEF r
    <2>3. PlaceOK(w, r)
      BY <1>0, <2>2 DEF PlaceOK, Placed, Base, InTurn, Errands, Has
    <2>4. Alike(th[w], r) /\ ~Asleep(th[w]) /\ ~Asleep(r)
      BY <1>0, <2>2 DEF Alike, SameRefs, Launched, Asleep, PlaceOK, Placed, Base, InTurn, Errands, Has
    <2>5. Base(r) # "drop" /\ global' = global
      BY <1>1, <2>2 DEF Base, Errands, Has, TakeQueue, NextQueue
    <2> QED BY <1>0, <2>1, <2>2, <2>3, <2>4, <2>5, QuietStep DEF queueVars, NodeInv, TypeOK
  <1>2. ASSUME global # <<>>,
               NEW p \in {"grab", "loop"}, th' = [th EXCEPT ![w].pc = p, ![w].q = Head(global)],
               global' = Tail(global)
        PROVE  NodeInv'
    <2>0. Head(global) \in Services /\ Listed(Head(global)) /\ Head(global) # None
          /\ \A s : Listed(s)' => Listed(s)
      BY <1>2, ListFacts
    <2> DEFINE r == [th[w] EXCEPT !.pc = p, !.q = Head(global)]
    <2>1. th' = [th EXCEPT ![w] = r]
      BY <1>0, <1>2
    <2>2. r \in ThreadStates /\ Has(r, p, th[w].after, th[w].msg, Head(global), th[w].ctx, th[w].nq, th[w].dq, th[w].dst, th[w].ref, th[w].born)
      <3>1. r \in ThreadStates
        BY <1>0, <2>0, <1>2 DEF ThreadStates, Places
      <3>2. Has(r, p, th[w].after, th[w].msg, Head(global), th[w].ctx, th[w].nq, th[w].dq, th[w].dst, th[w].ref, th[w].born)
        BY <1>0, <2>0, <1>2 DEF ThreadStates, Has
      <3> QED BY <3>1, <3>2
    <2> HIDE DEF r
    <2>3. PlaceOK(w, r)
      BY <1>0, <2>0, <1>2, <2>2 DEF PlaceOK, Placed, Base, InTurn, Errands, Has
    <2>4. Solo(w) /\ th'[w] = r
      BY <1>0, <2>1, <2>2, MoveSolo
    <2>5. /\ ~Asleep(th[w]) /\ ~Asleep(r) /\ Base(r) # "drop" /\ SameRefs(th[w], r)
          /\ Launched(r) = None /\ Launched(th[w]) = None /\ r.nq = None /\ r.dq = None
          /\ th[w].nq = None /\ th[w].dq = None /\ r.pc # "pushnew"
      BY <1>0, <1>2, <2>2, <2>3 DEF Asleep, SameRefs, Launched, PlaceOK, Placed, Base, InTurn, Errands, Has
    <2>6. LifeStep
      BY <1>0, <2>4, <2>5 DEF LifeStep, LifeSame, MarksSame, Solo, SameRefs, memVars
    <2>7. TurnTaken(w)
      <3>1. BusySame
        BY <1>0 DEF BusySame, Busy
      <3>2. \A s \in Services : Holds(r, s) <=> Holds(th[w], s) \/ s = Head(global)
        BY <1>0, <2>0, <2>2, <2>5, NodeAssumption DEF Holds, Has
      <3>3. Apart(r)
        BY <2>0, <2>5 DEF Apart
      <3> QED BY <1>0, <1>2, <2>4, <3>1, <3>2, <3>3 DEF TurnTaken
    <2>8. FoundOK(w)
      <3>1. \A s \in Services : Shows(r, s) => s = Head(global)
        BY <2>2, <2>5, NodeAssumption DEF Shows, Has
      <3>2. \A s \in Services : Listed(s) => Found(s)
        BY TurnFacts, <1>0
      <3>3. r.ctx = th[w].ctx
        BY <2>2 DEF Has
      <3>4. \A s \in Services : ~mq[s].in_global => Found(s)
        BY DEF Found
      <3> QED BY <1>0, <2>0, <2>4, <3>1, <3>2, <3>3, <3>4 DEF FoundOK, memVars
    <2>9. RingsOK /\ DropOK(w) /\ SmallTypes' /\ sleep' = sleep
      BY <1>0, <2>4, <2>5, RingFacts, TypesIs DEF RingsOK, DropOK, SmallTypes, memVars, NodeInv
    <2> QED BY <1>0, <2>1, <2>2, <2>3, <2>5, <2>6, <2>7, <2>8, <2>9, SoloStep DEF TurnStep
  <1> QED BY <1>1, <1>2 DEF TakeQueue, NextQueue

LEMMA SwapQueueKeeps ==
    ASSUME NodeInv, NEW w \in Workers, SwapQueue(w)
    PROVE  NodeInv'
  <1>0. w \in Threads /\ th[w] \in ThreadStates /\ PlaceOK(w, th[w])
        /\ th \in [Threads -> ThreadStates] /\ th[w].pc = "swap"
    BY ThreadFacts, ThreadsFinite DEF NodeInv, TypeOK, SwapQueue, At
  <1>1. CASE global = <<>>
    <2>0. global' = global /\ UNCHANGED <<memVars, mq, mqMem, sleep, quit, fate>>
          /\ th[w].ctx \in Services /\ th[w].ctx = th[w].q
      BY <1>0, <1>1 DEF SwapQueue, PlaceOK, Placed, Base, InTurn, Errands, ThreadStates
    <2> DEFINE r == [th[w] EXCEPT !.ctx = None, !.pc = "release", !.ref = th[w].ctx, !.after = "loop"]
    <2>1. th' = [th EXCEPT ![w] = r]
      BY <1>0, <1>1 DEF SwapQueue, ReleaseThen
    <2>2. r \in ThreadStates /\ Has(r, "release", "loop", th[w].msg, th[w].q, None, th[w].nq, th[w].dq, th[w].dst, th[w].ctx, th[w].born)
      <3>1. r \in ThreadStates
        BY <1>0, <2>0, ZenonT(40) DEF ThreadStates, Places
      <3>2. Has(r, "release", "loop", th[w].msg, th[w].q, None, th[w].nq, th[w].dq, th[w].dst, th[w].ctx, th[w].born)
        BY <1>0, <2>0 DEF ThreadStates, Has
      <3> QED BY <3>1, <3>2
    <2> HIDE DEF r
    <2>3. PlaceOK(w, r)
      BY <1>0, <2>0, <2>2 DEF PlaceOK, Placed, Base, InTurn, Errands, Has
    <2>4. Solo(w) /\ th'[w] = r
      BY <1>0, <2>1, <2>2, MoveSolo
    <2>5. ~Asleep(th[w]) /\ ~Asleep(r) /\ Base(r) # "drop" /\ Steady(r) /\ Steady(th[w])
          /\ th[w].ref = None /\ Launched(r) = Launched(th[w]) /\ r.pc # "pushnew"
      BY <1>0, <2>2 DEF Asleep, Steady, Launched, PlaceOK, Placed, Base, InTurn, Errands, Has
    <2>6. LifeStep
      <3>1. HandedOver(w)
        BY <2>0, <2>2, <2>4, <2>5 DEF HandedOver, MarksSame, memVars, Has
      <3> QED BY <1>0, <3>1 DEF LifeStep
    <2>7. TurnStep
      <3>1. BusySame
        BY <2>0 DEF BusySame, Busy
      <3>2. Apart(r) /\ \A s \in Services : Holds(r, s) <=> Holds(th[w], s)
        BY <1>0, <2>2, <2>5, TurnFacts DEF Apart, Holds, Has
      <3> QED BY <1>0, <2>0, <2>4, <3>1, <3>2, TurnSameSolo
    <2>8. FoundOK(w)
      <3>1. \A s \in Services : Shows(r, s) => Shows(th[w], s)
        BY <2>2, <2>5 DEF Shows, Has
      <3>2. \A s : Listed(s)' => Listed(s)
        BY <2>0, ListFacts
      <3>3. r.ctx = None
        BY <2>2 DEF Has
      <3> QED BY <1>0, <2>0, <2>4, <3>1, <3>2, <3>3, TurnFacts DEF FoundOK, memVars, Found
    <2>9. RingsOK /\ DropOK(w) /\ SmallTypes' /\ sleep' = sleep
      BY <2>0, <2>4, <2>5, RingFacts, TypesIs DEF RingsOK, DropOK, SmallTypes, memVars, queueVars, NodeInv
    <2> QED BY <1>0, <2>1, <2>2, <2>3, <2>5, <2>6, <2>7, <2>8, <2>9, SoloStep DEF TurnStep
  <1>2. CASE global # <<>>
    <2>0. /\ Head(global) \in Services /\ Listed(Head(global)) /\ Head(global) # None
          /\ (\A s : Listed(s)' => Listed(s)) /\ global' = Tail(global)
          /\ UNCHANGED <<memVars, mq, mqMem, sleep, quit, fate>>
      BY <1>2, ListFacts DEF SwapQueue
    <2> DEFINE r == [th[w] EXCEPT !.pc = "pushback", !.nq = Head(global)]
    <2>1. th' = [th EXCEPT ![w] = r]
      BY <1>0, <1>2 DEF SwapQueue
    <2>2. r \in ThreadStates /\ Has(r, "pushback", th[w].after, th[w].msg, th[w].q, th[w].ctx, Head(global), th[w].dq, th[w].dst, th[w].ref, th[w].born)
      <3>1. r \in ThreadStates
        BY <1>0, <2>0, ZenonT(40) DEF ThreadStates, Places
      <3>2. Has(r, "pushback", th[w].after, th[w].msg, th[w].q, th[w].ctx, Head(global), th[w].dq, th[w].dst, th[w].ref, th[w].born)
        BY <1>0, <2>0 DEF ThreadStates, Has
      <3> QED BY <3>1, <3>2
    <2> HIDE DEF r
    <2>3. PlaceOK(w, r)
      BY <1>0, <2>0, <2>2 DEF PlaceOK, Placed, Base, InTurn, Errands, Has
    <2>4. Solo(w) /\ th'[w] = r
      BY <1>0, <2>1, <2>2, MoveSolo
    <2>5. /\ ~Asleep(th[w]) /\ ~Asleep(r) /\ Base(r) # "drop" /\ SameRefs(th[w], r)
          /\ Launched(r) = None /\ Launched(th[w]) = None /\ r.dq = None
          /\ th[w].nq = None /\ th[w].dq = None /\ r.pc # "pushnew"
      BY <1>0, <2>2, <2>3 DEF Asleep, SameRefs, Launched, PlaceOK, Placed, Base, InTurn, Errands, Has
    <2>6. LifeStep
      BY <2>0, <2>4, <2>5 DEF LifeStep, LifeSame, MarksSame, Solo, SameRefs, memVars
    <2>7. TurnStep
      <3>1. BusySame
        BY <2>0 DEF BusySame, Busy
      <3>2. \A s \in Services : Holds(r, s) <=> Holds(th[w], s) \/ s = Head(global)
        BY <1>0, <2>0, <2>2, <2>5, NodeAssumption DEF Holds, Has
      <3>3. Head(global) # th[w].q => Apart(r)
        BY <2>2, <2>5 DEF Apart, Has
      <3>4. TurnTaken(w)
        BY <1>2, <2>0, <2>4, <3>1, <3>2, <3>3 DEF TurnTaken
      <3> QED BY <1>0, <3>4 DEF TurnStep
    <2>8. FoundOK(w)
      <3>1. \A s \in Services : Shows(r, s) => Shows(th[w], s) \/ s = Head(global)
        BY <2>2, <2>5 DEF Shows, Has
      <3>2. r.ctx = th[w].ctx
        BY <2>2 DEF Has
      <3> QED BY <1>0, <2>0, <2>4, <3>1, <3>2, TurnFacts DEF FoundOK, memVars, Found
    <2>9. RingsOK /\ DropOK(w) /\ SmallTypes' /\ sleep' = sleep
      BY <2>0, <2>4, <2>5, RingFacts, TypesIs DEF RingsOK, DropOK, SmallTypes, memVars, queueVars, NodeInv
    <2> QED BY <1>0, <2>1, <2>2, <2>3, <2>5, <2>6, <2>7, <2>8, <2>9, SoloStep DEF TurnStep
  <1> QED BY <1>1, <1>2

LEMMA PushBackKeeps ==
    ASSUME NodeInv, NEW w \in Workers, PushBack(w)
    PROVE  NodeInv'
  <1>0. w \in Threads /\ th[w] \in ThreadStates /\ PlaceOK(w, th[w])
        /\ th \in [Threads -> ThreadStates] /\ th[w].pc = "pushback"
    BY ThreadFacts, ThreadsFinite DEF NodeInv, TypeOK, PushBack, At
  <1>1. CASE TRUE
    <2>0. /\ global' = Append(global, th[w].q) /\ UNCHANGED <<memVars, mq, mqMem, sleep, quit, fate>>
          /\ th[w].ctx \in Services /\ th[w].ctx = th[w].q /\ th[w].nq \in Services /\ None \notin Services
          /\ \A s : Listed(s)' => Listed(s) \/ s = th[w].q
      BY <1>0, ListFacts, NodeAssumption DEF PushBack, PlaceOK, Placed, Base, InTurn, Errands, ThreadStates
    <2> DEFINE r == [th[w] EXCEPT !.ctx = None, !.q = th[w].nq, !.nq = None, !.pc = "release", !.ref = th[w].ctx, !.after = "loop"]
    <2>1. th' = [th EXCEPT ![w] = r]
      BY <1>0 DEF PushBack, ReleaseThen
    <2>2. r \in ThreadStates /\ Has(r, "release", "loop", th[w].msg, th[w].nq, None, None, th[w].dq, th[w].dst, th[w].ctx, th[w].born)
      <3>0. th[w] \in ThreadStates /\ th[w].ctx \in Services /\ th[w].nq \in Services
        BY <1>0, <2>0
      <3>1. r \in ThreadStates
        BY <3>0, ZenonT(60) DEF ThreadStates, Places
      <3>2. Has(r, "release", "loop", th[w].msg, th[w].nq, None, None, th[w].dq, th[w].dst, th[w].ctx, th[w].born)
        BY <3>0 DEF ThreadStates, Has
      <3> QED BY <3>1, <3>2
    <2> HIDE DEF r
    <2>3. PlaceOK(w, r)
      BY <1>0, <2>0, <2>2 DEF PlaceOK, Placed, Base, InTurn, Errands, Has
    <2>4. Solo(w) /\ th'[w] = r
      BY <1>0, <2>1, <2>2, MoveSolo
    <2>5. /\ ~Asleep(th[w]) /\ ~Asleep(r)
          /\ Base(r) # "drop" /\ Steady(r) /\ Steady(th[w])
          /\ th[w].ref = None /\ Launched(r) = None /\ Launched(th[w]) = None /\ r.pc # "pushnew"
          /\ th[w].dq = None /\ th[w].pc # "pushnew"
      BY <1>0, <2>0, <2>2, <2>3 DEF Asleep, SameRefs, Steady, Launched, PlaceOK, Placed, Base, InTurn, Errands, Has
    <2>6. LifeStep
      <3>1. HandedOver(w)
        BY <1>0, <2>0, <2>2, <2>4, <2>5 DEF HandedOver, MarksSame, memVars, queueVars, Has
      <3> QED BY <1>0, <2>0, <3>1 DEF LifeStep
    <2>7. TurnStep
      <3>1. BusySame
        BY <2>0 DEF BusySame, Busy, queueVars
      <3>2. \A s \in Services : Holds(r, s) <=> Holds(th[w], s) /\ s # th[w].q
        BY <1>0, <2>0, <2>2, <2>5, TurnFacts, NodeAssumption DEF Holds, Apart, Has
      <3>3. Apart(r)
        BY <1>0, <2>0, <2>2, <2>5, TurnFacts, NodeAssumption DEF Apart, Has
      <3>4. TurnGiven(w, th[w].q)
        BY <1>0, <2>0, <2>2, <2>4, <2>5, <3>1, <3>2, <3>3 DEF TurnGiven, Holds, Has, queueVars
      <3> QED BY <1>0, <2>0, <3>4 DEF TurnStep
    <2>8. FoundOK(w)
      <3>1. \A s \in Services : Shows(r, s) => Shows(th[w], s)
        BY <1>0, <2>0, <2>2, <2>5, NodeAssumption DEF Shows, Has
      <3>4. Shows(th[w], th[w].q)
        BY DEF Shows
      <3>2. r.ctx = None
        BY <1>0, <2>0, <2>2 DEF Has
      <3>3. \A s \in Services : (Shows(th[w], s) => Found(s)) /\ (Listed(s) => Found(s))
        BY <1>0, TurnFacts
      <3> QED BY <1>0, <2>0, <2>4, <3>1, <3>2, <3>3, <3>4 DEF FoundOK, memVars, queueVars, Found
    <2>9. RingsOK /\ DropOK(w) /\ SmallTypes' /\ sleep' = sleep
      BY <2>0, <2>4, <2>5, RingFacts, TypesIs DEF RingsOK, DropOK, SmallTypes, memVars, queueVars, NodeInv
    <2> QED BY <1>0, <2>1, <2>2, <2>3, <2>5, <2>6, <2>7, <2>8, <2>9, SoloStep
  <1> QED BY <1>1

LEMMA GrabContextKeeps ==
    ASSUME NodeInv, NEW w \in Workers, GrabContext(w)
    PROVE  NodeInv'
  <1>0. w \in Threads /\ th[w] \in ThreadStates /\ PlaceOK(w, th[w])
        /\ th \in [Threads -> ThreadStates] /\ th[w].pc \in {"loop", "grab"} /\ th[w].q # None
    BY ThreadFacts, ThreadsFinite DEF NodeInv, TypeOK, GrabContext, At, PlaceOK, Placed, Base, Errands
  <1>1. CASE slot[th[w].q] = "set"
    <2>0. /\ ref' = [ref EXCEPT ![th[w].q] = @ + 1]
          /\ UNCHANGED <<slot, init, ctxMem, total, queueVars, sleep, quit, fate>>
          /\ th[w].q \in Services /\ th[w].ctx = None
          /\ \A s : Listed(s)' => Listed(s)
      BY <1>0, <1>1, ListFacts DEF GrabContext, PlaceOK, Placed, Base, InTurn, Errands, ThreadStates, queueVars
    <2> DEFINE r == [th[w] EXCEPT !.pc = "pop", !.ctx = th[w].q, !.first = TRUE]
    <2>1. th' = [th EXCEPT ![w] = r]
      BY <1>0, <1>1 DEF GrabContext
    <2>2. r \in ThreadStates /\ Has(r, "pop", th[w].after, th[w].msg, th[w].q, th[w].q, th[w].nq, th[w].dq, th[w].dst, th[w].ref, th[w].born)
      <3>0. th[w] \in ThreadStates /\ th[w].q \in Services
        BY <1>0, <2>0
      <3>1. r \in ThreadStates
        BY <3>0, ZenonT(60) DEF ThreadStates, Places
      <3>2. Has(r, "pop", th[w].after, th[w].msg, th[w].q, th[w].q, th[w].nq, th[w].dq, th[w].dst, th[w].ref, th[w].born)
        BY <3>0 DEF ThreadStates, Has
      <3> QED BY <3>1, <3>2
    <2> HIDE DEF r
    <2>3. PlaceOK(w, r)
      BY <1>0, <2>0, <2>2 DEF PlaceOK, Placed, Base, InTurn, Errands, Has
    <2>4. Solo(w) /\ th'[w] = r
      BY <1>0, <2>1, <2>2, MoveSolo
    <2>5. /\ ~Asleep(th[w]) /\ ~Asleep(r)
          /\ Base(r) # "drop" /\ Steady(r) /\ Steady(th[w])
          /\ Launched(r) = None /\ Launched(th[w]) = None /\ r.pc # "pushnew"
      BY <1>0, <2>0, <2>2, <2>3 DEF Asleep, SameRefs, Steady, Launched, PlaceOK, Placed, Base, InTurn, Errands, Has
    <2>6. LifeStep
      <3>1. Grabbed(w, th[w].q)
        BY <1>0, <2>0, <2>2, <2>4, <2>5, <1>1 DEF Grabbed, MarksSame, memVars, queueVars, Has
      <3> QED BY <1>0, <2>0, <3>1 DEF LifeStep
    <2>7. TurnStep
      <3>1. BusySame
        BY <2>0 DEF BusySame, Busy, queueVars
      <3>2. Apart(r) /\ \A s \in Services : Holds(r, s) <=> Holds(th[w], s)
        BY <1>0, <2>0, <2>2, <2>5, TurnFacts, NodeAssumption DEF Apart, Holds, Has
      <3> QED BY <1>0, <2>0, <2>4, <3>1, <3>2, TurnSameSolo DEF queueVars
    <2>8. FoundOK(w)
      <3>1. \A s \in Services : Shows(r, s) => Shows(th[w], s)
        BY <1>0, <2>0, <2>2, <2>5, NodeAssumption DEF Shows, Has
      <3>2. r.ctx = th[w].q
        BY <1>0, <2>0, <2>2 DEF Has
      <3>3. \A s \in Services : (Shows(th[w], s) => Found(s)) /\ (Listed(s) => Found(s))
        BY <1>0, TurnFacts
      <3> QED BY <1>0, <2>0, <2>4, <3>1, <3>2, <3>3, <1>1 DEF FoundOK, memVars, queueVars, Found
    <2>9. RingsOK /\ DropOK(w) /\ SmallTypes' /\ sleep' = sleep
      <3>1. ref' \in [Services -> Nat]
        BY <2>0 DEF NodeInv, TypeOK
      <3> QED BY <2>0, <2>4, <2>5, <3>1, RingFacts, TypesIs DEF RingsOK, DropOK, SmallTypes, queueVars, NodeInv
    <2> QED BY <1>0, <2>1, <2>2, <2>3, <2>5, <2>6, <2>7, <2>8, <2>9, SoloStep
  <1>2. CASE slot[th[w].q] # "set"
    <2>0. /\ UNCHANGED <<memVars, queueVars, sleep, quit, fate>>
          /\ th[w].q \in Services /\ th[w].ctx = None
          /\ \A s : Listed(s)' => Listed(s)
      BY <1>0, <1>2, ListFacts DEF GrabContext, PlaceOK, Placed, Base, InTurn, Errands, ThreadStates, queueVars, memVars
    <2> DEFINE r == [th[w] EXCEPT !.pc = "mqrelease", !.dq = th[w].q, !.q = None]
    <2>1. th' = [th EXCEPT ![w] = r]
      BY <1>0, <1>2 DEF GrabContext
    <2>2. r \in ThreadStates /\ Has(r, "mqrelease", th[w].after, th[w].msg, None, th[w].ctx, th[w].nq, th[w].q, th[w].dst, th[w].ref, th[w].born)
      <3>0. th[w] \in ThreadStates /\ th[w].q \in Services
        BY <1>0, <2>0
      <3>1. r \in ThreadStates
        BY <3>0, ZenonT(40) DEF ThreadStates, Places
      <3>2. Has(r, "mqrelease", th[w].after, th[w].msg, None, th[w].ctx, th[w].nq, th[w].q, th[w].dst, th[w].ref, th[w].born)
        BY <3>0 DEF ThreadStates, Has
      <3> QED BY <3>1, <3>2
    <2> HIDE DEF r
    <2>3. PlaceOK(w, r)
      BY <1>0, <2>0, <2>2 DEF PlaceOK, Placed, Base, InTurn, Errands, Has
    <2>4. Solo(w) /\ th'[w] = r
      BY <1>0, <2>1, <2>2, MoveSolo
    <2>5. /\ ~Asleep(th[w]) /\ ~Asleep(r)
          /\ Base(r) # "drop" /\ SameRefs(th[w], r)
          /\ Launched(r) = None /\ Launched(th[w]) = None /\ r.pc # "pushnew"
          /\ th[w].nq = None /\ th[w].dq = None
      BY <1>0, <2>0, <2>2, <2>3 DEF Asleep, SameRefs, Steady, Launched, PlaceOK, Placed, Base, InTurn, Errands, Has
    <2>6. LifeStep
      BY <1>0, <2>0, <2>4, <2>5 DEF LifeStep, LifeSame, MarksSame, Solo, SameRefs, memVars, queueVars
    <2>7. TurnStep
      <3>1. BusySame
        BY <2>0 DEF BusySame, Busy, queueVars
      <3>2. Apart(r) /\ \A s \in Services : Holds(r, s) <=> Holds(th[w], s)
        BY <1>0, <2>0, <2>2, <2>5, TurnFacts, NodeAssumption DEF Apart, Holds, Has
      <3> QED BY <1>0, <2>0, <2>4, <3>1, <3>2, TurnSameSolo DEF queueVars
    <2>8. FoundOK(w)
      <3>1. \A s \in Services : Shows(r, s) => Shows(th[w], s)
        BY <1>0, <2>0, <2>2, <2>5, NodeAssumption DEF Shows, Has
      <3>2. r.ctx = th[w].ctx
        BY <1>0, <2>0, <2>2 DEF Has
      <3>3. \A s \in Services : (Shows(th[w], s) => Found(s)) /\ (Listed(s) => Found(s))
        BY <1>0, TurnFacts
      <3> QED BY <1>0, <2>0, <2>4, <3>1, <3>2, <3>3 DEF FoundOK, memVars, queueVars, Found
    <2>9. RingsOK /\ DropOK(w) /\ SmallTypes' /\ sleep' = sleep
      BY <2>0, <2>4, <2>5, RingFacts, TypesIs DEF RingsOK, DropOK, SmallTypes, memVars, queueVars, NodeInv
    <2> QED BY <1>0, <2>1, <2>2, <2>3, <2>5, <2>6, <2>7, <2>8, <2>9, SoloStep
  <1> QED BY <1>1, <1>2

\* One ring is replaced.
LEMMA RingSet ==
    ASSUME NodeInv, NEW x \in Services, NEW p, Sound(p), mq' = [mq EXCEPT ![x] = p]
    PROVE  RingsOK /\ mq'[x] = p /\ \A y \in Services \ {x} : mq'[y] = mq[y]
  BY RingFacts DEF RingsOK

\* A context that a thread uses is alive, and its queue is not marked.
LEMMA AliveFacts ==
    ASSUME NodeInv, NEW t \in Threads, NEW s \in Services, s \in {th[t].ctx, th[t].ref, th[t].born}
    PROVE  ctxMem[s] = "alive" /\ ~mq[s].release
  BY UsedIsAlive DEF NodeInv, TypeOK, LifeTypes, LifeInv, ContextInv

LEMMA FreedFacts ==
    ASSUME NodeInv, NEW s \in Services
    PROVE  /\ mq[s].release <=> ctxMem[s] = "freed"
           /\ ctxMem[s] = "freed" => slot[s] = "free"
           /\ slot[s] # "free" => ctxMem[s] = "alive"
  <1>1. ContextInv(s)
    BY DEF NodeInv, LifeInv
  <1>2. Timer \in Threads
    BY DEF Threads, Outside
  <1>3. slot[s] # "free" => ctxMem[s] = "alive"
    BY <1>2, UsedIsAlive, SMTT(30) DEF NodeInv, TypeOK, LifeTypes, LifeInv
  <1> QED BY <1>1, <1>3 DEF ContextInv

LEMMA PopMessageKeeps ==
    ASSUME NodeInv, NEW w \in Workers, PopMessage(w)
    PROVE  NodeInv'
  <1>0. w \in Threads /\ th[w] \in ThreadStates /\ PlaceOK(w, th[w])
        /\ th \in [Threads -> ThreadStates] /\ th[w].pc = "pop"
    BY ThreadFacts, ThreadsFinite DEF NodeInv, TypeOK, PopMessage, At
  <1>1. th[w].ctx \in Services /\ th[w].q = th[w].ctx /\ UNCHANGED <<memVars, mqMem, global, sleep, quit>>
    BY <1>0 DEF PlaceOK, Placed, Base, InTurn, Errands, ThreadStates, PopMessage
  <1>2. Sound(mq[th[w].q])
    BY <1>1, RingFacts
  <1>3. CASE Empty(mq[th[w].q])
    <2>0. /\ UNCHANGED <<memVars, mqMem, global, sleep, quit, fate>>
          /\ mq' = [mq EXCEPT ![th[w].q] = PopEmpty(@)]
          /\ \A s : Listed(s)' => Listed(s)
      BY <1>1, <1>3, ListFacts DEF PopMessage
    <2> DEFINE r == [th[w] EXCEPT !.ctx = None, !.q = None, !.left = 0, !.pc = "release", !.ref = th[w].ctx, !.after = "next"]
    <2>1. th' = [th EXCEPT ![w] = r]
      BY <1>0, <1>3 DEF PopMessage, ReleaseThen
    <2>2. r \in ThreadStates /\ Has(r, "release", "next", th[w].msg, None, None, th[w].nq, th[w].dq, th[w].dst, th[w].ctx, th[w].born)
      <3>0. th[w] \in ThreadStates /\ th[w].ctx \in Services
        BY <1>0, <1>1
      <3>1. r \in ThreadStates
        BY <3>0, ZenonT(60) DEF ThreadStates, Places
      <3>2. Has(r, "release", "next", th[w].msg, None, None, th[w].nq, th[w].dq, th[w].dst, th[w].ctx, th[w].born)
        BY <3>0 DEF ThreadStates, Has
      <3> QED BY <3>1, <3>2
    <2> HIDE DEF r
    <2>3. PlaceOK(w, r)
      BY <1>0, <1>1, NodeAssumption, <2>2 DEF PlaceOK, Placed, Base, InTurn, Errands, Has
    <2>4. Solo(w) /\ th'[w] = r
      BY <1>0, <2>1, <2>2, MoveSolo
    <2>5. /\ ~Asleep(th[w]) /\ ~Asleep(r)
          /\ Base(r) # "drop" /\ Steady(r) /\ Steady(th[w])
          /\ Launched(r) = None /\ Launched(th[w]) = None /\ r.pc # "pushnew" /\ th[w].ref = None
          /\ th[w].nq = None /\ th[w].dq = None
      BY <1>0, <2>0, <2>2, <2>3 DEF Asleep, SameRefs, Steady, Launched, PlaceOK, Placed, Base, InTurn, Errands, Has
    <2>10. /\ RingsOK
           /\ \A s \in Services : mq'[s].release = mq[s].release
           /\ mq'[th[w].q].in_global = FALSE /\ mq[th[w].q].release = FALSE
           /\ \A s \in Services \ {th[w].q} : mq'[s] = mq[s]
      <3>1. Sound(PopEmpty(mq[th[w].q])) /\ PopEmpty(mq[th[w].q]).release = mq[th[w].q].release
            /\ PopEmpty(mq[th[w].q]).in_global = FALSE
        BY <1>2, <1>3, PopEmptySound
      <3>2. /\ RingsOK /\ mq'[th[w].q] = PopEmpty(mq[th[w].q])
            /\ \A s \in Services \ {th[w].q} : mq'[s] = mq[s]
        BY <1>1, <2>0, <3>1, RingSet
      <3>3. ~mq[th[w].q].release
        BY <1>0, <1>1, AliveFacts
      <3> QED BY <1>1, <3>1, <3>2, <3>3
    <2>6. LifeStep
      <3>1. HandedOver(w)
        BY <1>0, <2>0, <2>2, <2>4, <2>5, <1>1, <2>10 DEF HandedOver, MarksSame, memVars, queueVars, Has
      <3> QED BY <1>0, <2>0, <3>1 DEF LifeStep
    <2>7. TurnStep
      <3>1. \A s \in Services : Busy(s)' <=> Busy(s) /\ s # th[w].q
        BY <1>1, <2>0, <2>10 DEF Busy
      <3>2. \A s \in Services : Holds(r, s) <=> Holds(th[w], s) /\ s # th[w].q
        BY <1>0, <1>1, <2>0, <2>2, <2>5, TurnFacts, NodeAssumption DEF Holds, Apart, Has
      <3>3. Apart(r)
        BY <1>0, <1>1, <2>0, <2>2, <2>5, TurnFacts, NodeAssumption DEF Apart, Has
      <3>4. TurnEnded(w, th[w].q)
        BY <1>0, <1>1, <2>0, <2>2, <2>4, <2>5, <3>1, <3>2, <3>3, <1>1 DEF TurnEnded, Holds, Has, queueVars
      <3> QED BY <1>0, <2>0, <3>4, <1>1 DEF TurnStep
    <2>8. FoundOK(w)
      <3>1. \A s \in Services : Shows(r, s) => FALSE
        BY <1>0, <2>0, <2>2, <2>5, NodeAssumption DEF Shows, Has
      <3>4. Shows(th[w], th[w].q)
        BY DEF Shows
      <3>2. r.ctx = None
        BY <1>0, <2>0, <2>2 DEF Has
      <3>3. \A s \in Services : (Shows(th[w], s) => Found(s)) /\ (Listed(s) => Found(s))
        BY <1>0, TurnFacts
      <3> QED BY <1>0, <2>0, <2>4, <3>1, <3>2, <3>3, <1>1, <2>10, <3>4 DEF FoundOK, memVars, queueVars, Found
    <2>9. RingsOK /\ DropOK(w) /\ SmallTypes' /\ sleep' = sleep
      BY <2>0, <2>4, <2>5, <2>10, RingFacts, TypesIs DEF RingsOK, DropOK, SmallTypes, memVars, queueVars, NodeInv
    <2> QED BY <1>0, <2>1, <2>2, <2>3, <2>5, <2>6, <2>7, <2>8, <2>9, SoloStep
  <1>4. CASE ~Empty(mq[th[w].q])
    <2> DEFINE s == th[w].q
               d == Dequeue(mq[s])
               m == mq[s].queue[mq[s].head]
               p == IF th[w].first /\ Weight[w] >= 0 THEN "length" ELSE "callback"
               f == IF m.kind = "text" THEN "handled" ELSE "bounced"
    <2>0. /\ mq' = [mq EXCEPT ![s] = [d EXCEPT !.overload = 0]]
          /\ fate' = [fate EXCEPT ![m.id] = f]
          /\ th' = [th EXCEPT ![w].pc = p]
      BY <1>0, <1>1, <1>4, ZenonT(40) DEF PopMessage, Goto
    <2>a. p \in {"length", "callback"} /\ (p = "length" => Weight[w] >= 0)
      BY SMTT(30)
    <2>b. fate' \in [Ids -> {"unsent", "travelling", "handled", "bounced", "refused"}]
      BY <2>0 DEF NodeInv, TypeOK
    <2>c. RingsOK /\ FlagsSame
      <3>1. Sound(d) /\ d.release = mq[s].release /\ d.in_global = mq[s].in_global
        BY <1>2, <1>4, PopSound
      <3> DEFINE e == [d EXCEPT !.overload = 0]
      <3>2. Sound(e) /\ e.release = d.release /\ e.in_global = d.in_global
        BY <3>1, OverloadSound, SMTT(30)
      <3> HIDE DEF d, e
      <3>3. RingsOK /\ mq'[s] = e /\ \A x \in Services \ {s} : mq'[x] = mq[x]
        BY <1>1, <2>0, <3>2, RingSet DEF e
      <3> QED BY <3>1, <3>2, <3>3 DEF FlagsSame
    <2> HIDE DEF p
    <2> DEFINE r == [th[w] EXCEPT !.pc = p]
    <2>1. th' = [th EXCEPT ![w] = r]
      BY <1>0, <2>0
    <2>2. r \in ThreadStates /\ Has(r, p, th[w].after, th[w].msg, th[w].q, th[w].ctx, th[w].nq, th[w].dq, th[w].dst, th[w].ref, th[w].born)
      <3>0. th[w] \in ThreadStates /\ p \in {"length", "callback"}
        BY <1>0, <2>a
      <3>1. r \in ThreadStates
        BY <3>0, ZenonT(60) DEF ThreadStates, Places
      <3>2. Has(r, p, th[w].after, th[w].msg, th[w].q, th[w].ctx, th[w].nq, th[w].dq, th[w].dst, th[w].ref, th[w].born)
        BY <3>0 DEF ThreadStates, Has
      <3> QED BY <3>1, <3>2
    <2> HIDE DEF r
    <2>3. PlaceOK(w, r)
      BY <1>0, <2>a, <2>2 DEF PlaceOK, Placed, Base, InTurn, Errands, Has
    <2>4. Alike(th[w], r) /\ ~Asleep(th[w]) /\ ~Asleep(r)
      BY <1>0, <2>a, <2>2 DEF Alike, SameRefs, Launched, Asleep, PlaceOK, Placed, Base, InTurn, Errands, Has
    <2>5. Base(r) # "drop"
      BY <2>2, <2>a DEF Base, Errands, Has
    <2> QED BY <1>0, <1>1, <2>1, <2>2, <2>3, <2>4, <2>5, <2>b, <2>c, PlainStep
  <1> QED BY <1>3, <1>4, SMTT(30)

LEMMA ReleaseQueueKeeps ==
    ASSUME NodeInv, NEW w \in Workers, ReleaseQueue(w)
    PROVE  NodeInv'
  <1>0. w \in Threads /\ th[w] \in ThreadStates /\ PlaceOK(w, th[w])
        /\ th \in [Threads -> ThreadStates] /\ th[w].pc = "mqrelease"
    BY ThreadFacts, ThreadsFinite DEF NodeInv, TypeOK, ReleaseQueue, At
  <1>1. th[w].dq \in Services /\ th[w].q = th[w].ctx /\ UNCHANGED <<memVars, mq, mqMem, sleep, quit, fate>>
    BY <1>0 DEF PlaceOK, Placed, Base, InTurn, Errands, ThreadStates, ReleaseQueue
  <1>2. CASE mq[th[w].dq].release
    <2>0. global' = global /\ ctxMem[th[w].dq] = "freed"
      BY <1>1, <1>2, FreedFacts DEF ReleaseQueue
    <2> DEFINE r == [th[w] EXCEPT !.pc = "drop"]
    <2>1. th' = [th EXCEPT ![w] = r]
      BY <1>0, <1>2 DEF ReleaseQueue, Goto
    <2>2. r \in ThreadStates /\ Has(r, "drop", th[w].after, th[w].msg, th[w].q, th[w].ctx, th[w].nq, th[w].dq, th[w].dst, th[w].ref, th[w].born)
      <3>0. th[w] \in ThreadStates
        BY <1>0
      <3>1. r \in ThreadStates
        BY <3>0, ZenonT(60) DEF ThreadStates, Places
      <3>2. Has(r, "drop", th[w].after, th[w].msg, th[w].q, th[w].ctx, th[w].nq, th[w].dq, th[w].dst, th[w].ref, th[w].born)
        BY <3>0 DEF ThreadStates, Has
      <3> QED BY <3>1, <3>2
    <2> HIDE DEF r
    <2>3. PlaceOK(w, r)
      BY <1>0, <2>2 DEF PlaceOK, Placed, Base, InTurn, Errands, Has
    <2>4. Alike(th[w], r) /\ ~Asleep(th[w]) /\ ~Asleep(r)
      BY <1>0, <2>2 DEF Alike, SameRefs, Launched, Asleep, PlaceOK, Placed, Base, InTurn, Errands, Has
    <2> QED BY <1>0, <1>1, <2>0, <2>1, <2>2, <2>3, <2>4, QuietStep DEF queueVars, NodeInv, TypeOK
  <1>3. CASE ~mq[th[w].dq].release /\ th[w].ctx = None
    <2>0. /\ global' = Append(global, th[w].dq) /\ UNCHANGED <<memVars, mq, mqMem, sleep, quit, fate>>
          /\ th[w].dq \in Services /\ th[w].dq # None /\ th[w].q = th[w].ctx
          /\ \A s : Listed(s)' => Listed(s) \/ s = th[w].dq
      BY <1>1, <1>3, ListFacts, NodeAssumption DEF ReleaseQueue
    <2> DEFINE r == [th[w] EXCEPT !.pc = "next", !.dq = None]
    <2>1. th' = [th EXCEPT ![w] = r]
      BY <1>0, <1>3 DEF ReleaseQueue, Caller
    <2>2. r \in ThreadStates /\ Has(r, "next", th[w].after, th[w].msg, th[w].q, th[w].ctx, th[w].nq, None, th[w].dst, th[w].ref, th[w].born)
      <3>0. th[w] \in ThreadStates
        BY <1>0, <1>3
      <3>1. r \in ThreadStates
        BY <3>0, ZenonT(40) DEF ThreadStates, Places
      <3>2. Has(r, "next", th[w].after, th[w].msg, th[w].q, th[w].ctx, th[w].nq, None, th[w].dst, th[w].ref, th[w].born)
        BY <3>0 DEF ThreadStates, Has
      <3> QED BY <3>1, <3>2
    <2> HIDE DEF r
    <2>3. PlaceOK(w, r)
      BY <1>0, <1>3, <2>2 DEF PlaceOK, Placed, Base, InTurn, Errands, Has
    <2>4. Solo(w) /\ th'[w] = r
      BY <1>0, <2>1, <2>2, MoveSolo
    <2>5. /\ ~Asleep(th[w]) /\ ~Asleep(r)
          /\ Base(r) # "drop" /\ SameRefs(th[w], r) /\ th[w].nq = None
          /\ Launched(r) = None /\ Launched(th[w]) = None /\ r.pc # "pushnew" /\ th[w].pc # "pushnew"
      BY <1>0, <2>0, <2>2, <2>3 DEF Asleep, SameRefs, Steady, Launched, PlaceOK, Placed, Base, InTurn, Errands, Has
    <2>6. LifeStep
      BY <1>0, <2>0, <2>4, <2>5 DEF LifeStep, LifeSame, MarksSame, Solo, SameRefs, memVars, queueVars
    <2>7. TurnStep
      <3>1. BusySame
        BY <2>0 DEF BusySame, Busy, queueVars
      <3>2. \A s \in Services : Holds(r, s) <=> Holds(th[w], s) /\ s # th[w].dq
        BY <1>0, <2>0, <2>2, <2>5, TurnFacts, NodeAssumption DEF Holds, Apart, Has
      <3>3. Apart(r)
        BY <1>0, <2>0, <2>2, <2>5, TurnFacts, NodeAssumption DEF Apart, Has
      <3>4. TurnGiven(w, th[w].dq)
        BY <1>0, <2>0, <2>2, <2>4, <2>5, <3>1, <3>2, <3>3 DEF TurnGiven, Holds, Has, queueVars
      <3> QED BY <1>0, <2>0, <3>4 DEF TurnStep
    <2>8. FoundOK(w)
      <3>1. \A s \in Services : Shows(r, s) => Shows(th[w], s)
        BY <1>0, <2>0, <2>2, <2>5, NodeAssumption DEF Shows, Has
      <3>4. Shows(th[w], th[w].dq)
        BY DEF Shows
      <3>2. r.ctx = th[w].ctx
        BY <1>0, <2>0, <2>2 DEF Has
      <3>3. \A s \in Services : (Shows(th[w], s) => Found(s)) /\ (Listed(s) => Found(s))
        BY <1>0, TurnFacts
      <3> QED BY <1>0, <2>0, <2>4, <3>1, <3>2, <3>3, <3>4 DEF FoundOK, memVars, queueVars, Found
    <2>9. RingsOK /\ DropOK(w) /\ SmallTypes' /\ sleep' = sleep
      BY <2>0, <2>4, <2>5, RingFacts, TypesIs DEF RingsOK, DropOK, SmallTypes, memVars, queueVars, NodeInv
    <2> QED BY <1>0, <2>1, <2>2, <2>3, <2>5, <2>6, <2>7, <2>8, <2>9, SoloStep
  <1>4. CASE ~mq[th[w].dq].release /\ th[w].ctx # None
    <2>0. /\ global' = Append(global, th[w].dq) /\ UNCHANGED <<memVars, mq, mqMem, sleep, quit, fate>>
          /\ th[w].dq \in Services /\ th[w].dq # None /\ th[w].q = th[w].ctx
          /\ \A s : Listed(s)' => Listed(s) \/ s = th[w].dq
      BY <1>1, <1>4, ListFacts, NodeAssumption DEF ReleaseQueue
    <2> DEFINE r == [th[w] EXCEPT !.pc = "callback", !.dq = None]
    <2>1. th' = [th EXCEPT ![w] = r]
      BY <1>0, <1>4 DEF ReleaseQueue, Caller
    <2>2. r \in ThreadStates /\ Has(r, "callback", th[w].after, th[w].msg, th[w].q, th[w].ctx, th[w].nq, None, th[w].dst, th[w].ref, th[w].born)
      <3>0. th[w] \in ThreadStates
        BY <1>0, <1>4
      <3>1. r \in ThreadStates
        BY <3>0, ZenonT(40) DEF ThreadStates, Places
      <3>2. Has(r, "callback", th[w].after, th[w].msg, th[w].q, th[w].ctx, th[w].nq, None, th[w].dst, th[w].ref, th[w].born)
        BY <3>0 DEF ThreadStates, Has
      <3> QED BY <3>1, <3>2
    <2> HIDE DEF r
    <2>3. PlaceOK(w, r)
      BY <1>0, <1>4, <2>2 DEF PlaceOK, Placed, Base, InTurn, Errands, Has
    <2>4. Solo(w) /\ th'[w] = r
      BY <1>0, <2>1, <2>2, MoveSolo
    <2>5. /\ ~Asleep(th[w]) /\ ~Asleep(r)
          /\ Base(r) # "drop" /\ SameRefs(th[w], r) /\ th[w].nq = None
          /\ Launched(r) = None /\ Launched(th[w]) = None /\ r.pc # "pushnew" /\ th[w].pc # "pushnew"
      BY <1>0, <2>0, <2>2, <2>3 DEF Asleep, SameRefs, Steady, Launched, PlaceOK, Placed, Base, InTurn, Errands, Has
    <2>6. LifeStep
      BY <1>0, <2>0, <2>4, <2>5 DEF LifeStep, LifeSame, MarksSame, Solo, SameRefs, memVars, queueVars
    <2>7. TurnStep
      <3>1. BusySame
        BY <2>0 DEF BusySame, Busy, queueVars
      <3>2. \A s \in Services : Holds(r, s) <=> Holds(th[w], s) /\ s # th[w].dq
        BY <1>0, <2>0, <2>2, <2>5, TurnFacts, NodeAssumption DEF Holds, Apart, Has
      <3>3. Apart(r)
        BY <1>0, <2>0, <2>2, <2>5, TurnFacts, NodeAssumption DEF Apart, Has
      <3>4. TurnGiven(w, th[w].dq)
        BY <1>0, <2>0, <2>2, <2>4, <2>5, <3>1, <3>2, <3>3 DEF TurnGiven, Holds, Has, queueVars
      <3> QED BY <1>0, <2>0, <3>4 DEF TurnStep
    <2>8. FoundOK(w)
      <3>1. \A s \in Services : Shows(r, s) => Shows(th[w], s)
        BY <1>0, <2>0, <2>2, <2>5, NodeAssumption DEF Shows, Has
      <3>4. Shows(th[w], th[w].dq)
        BY DEF Shows
      <3>2. r.ctx = th[w].ctx
        BY <1>0, <2>0, <2>2 DEF Has
      <3>3. \A s \in Services : (Shows(th[w], s) => Found(s)) /\ (Listed(s) => Found(s))
        BY <1>0, TurnFacts
      <3> QED BY <1>0, <2>0, <2>4, <3>1, <3>2, <3>3, <3>4 DEF FoundOK, memVars, queueVars, Found
    <2>9. RingsOK /\ DropOK(w) /\ SmallTypes' /\ sleep' = sleep
      BY <2>0, <2>4, <2>5, RingFacts, TypesIs DEF RingsOK, DropOK, SmallTypes, memVars, queueVars, NodeInv
    <2> QED BY <1>0, <2>1, <2>2, <2>3, <2>5, <2>6, <2>7, <2>8, <2>9, SoloStep
  <1> QED BY <1>2, <1>3, <1>4

LEMMA DropQueueKeeps ==
    ASSUME NodeInv, NEW w \in Workers, DropQueue(w)
    PROVE  NodeInv'
  <1>0. w \in Threads /\ th[w] \in ThreadStates /\ PlaceOK(w, th[w])
        /\ th \in [Threads -> ThreadStates] /\ th[w].pc = "drop"
    BY ThreadFacts, ThreadsFinite DEF NodeInv, TypeOK, DropQueue, At
  <1>1. th[w].dq \in Services /\ th[w].dq # None /\ th[w].q = th[w].ctx
        /\ UNCHANGED <<memVars, global, sleep, quit>>
    BY <1>0, NodeAssumption DEF PlaceOK, Placed, Base, InTurn, Errands, ThreadStates, DropQueue
  <1>2. Sound(mq[th[w].dq])
    BY <1>1, RingFacts
  <1>3. ctxMem[th[w].dq] = "freed" /\ mqMem[th[w].dq] = "alive" /\ mqMem \in [Services -> {"none", "alive", "freed"}]
    <2>1. ctxMem[th[w].dq] = "freed"
      BY <1>0 DEF NodeInv, QueueInv, Base, Errands
    <2>2. Busy(th[w].dq)
      BY <1>0, <1>1, TurnFacts DEF Holds
    <2> QED BY <2>1, <2>2 DEF Busy, NodeInv, TypeOK
  <1>4. CASE Empty(mq[th[w].dq]) /\ th[w].ctx = None
    <2>0. /\ global' = global /\ UNCHANGED <<memVars, sleep, quit, fate>>
          /\ mq' = [mq EXCEPT ![th[w].dq] = PopEmpty(@)]
          /\ mqMem' = [mqMem EXCEPT ![th[w].dq] = "freed"]
          /\ \A s : Listed(s)' => Listed(s)
      BY <1>1, <1>4, ListFacts DEF DropQueue
    <2> DEFINE r == [th[w] EXCEPT !.pc = "next", !.dq = None]
    <2>1. th' = [th EXCEPT ![w] = r]
      BY <1>0, <1>4 DEF DropQueue, Caller
    <2>2. r \in ThreadStates /\ Has(r, "next", th[w].after, th[w].msg, th[w].q, th[w].ctx, th[w].nq, None, th[w].dst, th[w].ref, th[w].born)
      <3>0. th[w] \in ThreadStates
        BY <1>0, <1>4
      <3>1. r \in ThreadStates
        BY <3>0, ZenonT(60) DEF ThreadStates, Places
      <3>2. Has(r, "next", th[w].after, th[w].msg, th[w].q, th[w].ctx, th[w].nq, None, th[w].dst, th[w].ref, th[w].born)
        BY <3>0 DEF ThreadStates, Has
      <3> QED BY <3>1, <3>2
    <2> HIDE DEF r
    <2>3. PlaceOK(w, r)
      BY <1>0, <1>1, <1>4, <2>2 DEF PlaceOK, Placed, Base, InTurn, Errands, Has
    <2>4. Solo(w) /\ th'[w] = r
      BY <1>0, <2>1, <2>2, MoveSolo
    <2>5. /\ ~Asleep(th[w]) /\ ~Asleep(r)
          /\ Base(r) # "drop" /\ SameRefs(th[w], r) /\ th[w].nq = None
          /\ Launched(r) = None /\ Launched(th[w]) = None /\ r.pc # "pushnew" /\ th[w].pc # "pushnew"
      BY <1>0, <1>1, <2>2, <2>3 DEF Asleep, SameRefs, Steady, Launched, PlaceOK, Placed, Base, InTurn, Errands, Has
    <2>10. /\ RingsOK
           /\ \A s \in Services : mq'[s].release = mq[s].release
           /\ \A s \in Services \ {th[w].dq} : mq'[s] = mq[s] /\ mqMem'[s] = mqMem[s]
           /\ mqMem'[th[w].dq] = "freed" /\ mqMem' \in [Services -> {"none", "alive", "freed"}]
      <3>1. Sound(PopEmpty(mq[th[w].dq])) /\ PopEmpty(mq[th[w].dq]).release = mq[th[w].dq].release
        BY <1>2, <1>4, PopEmptySound
      <3>2. /\ RingsOK /\ mq'[th[w].dq] = PopEmpty(mq[th[w].dq])
            /\ \A s \in Services \ {th[w].dq} : mq'[s] = mq[s]
        BY <1>1, <2>0, <3>1, RingSet
      <3> QED BY <1>1, <1>3, <2>0, <3>1, <3>2
    <2>6. LifeStep
      <3>1. LifeSame
        BY <1>0, <2>0, <2>2, <2>4, <2>5, <1>1, <1>3, <2>10 DEF LifeSame, Solo, SameRefs, MarksSame, memVars, queueVars, Has
      <3> QED BY <1>0, <2>0, <3>1 DEF LifeStep
    <2>7. TurnStep
      <3>1. \A s \in Services : Busy(s)' <=> Busy(s) /\ s # th[w].dq
        BY <1>1, <2>10 DEF Busy
      <3>2. \A s \in Services : Holds(r, s) <=> Holds(th[w], s) /\ s # th[w].dq
        BY <1>0, <1>1, <2>0, <2>2, <2>5, TurnFacts, NodeAssumption DEF Holds, Apart, Has
      <3>3. Apart(r)
        BY <1>0, <1>1, <2>0, <2>2, <2>5, TurnFacts, NodeAssumption DEF Apart, Has
      <3>4. TurnEnded(w, th[w].dq)
        BY <1>0, <1>1, <2>0, <2>2, <2>4, <2>5, <3>1, <3>2, <3>3, <1>1 DEF TurnEnded, Holds, Has, queueVars
      <3> QED BY <1>0, <2>0, <3>4, <1>1 DEF TurnStep
    <2>8. FoundOK(w)
      <3>1. \A s \in Services : Shows(r, s) => Shows(th[w], s)
        BY <1>0, <2>0, <2>2, <2>5, NodeAssumption DEF Shows, Has
      <3>4. Shows(th[w], th[w].dq)
        BY DEF Shows
      <3>2. r.ctx = th[w].ctx
        BY <1>0, <2>0, <2>2 DEF Has
      <3>3. \A s \in Services : (Shows(th[w], s) => Found(s)) /\ (Listed(s) => Found(s))
        BY <1>0, TurnFacts
      <3> QED BY <1>0, <2>0, <2>4, <3>1, <3>2, <3>3, <1>1, <2>10, <3>4 DEF FoundOK, memVars, queueVars, Found
    <2>9. RingsOK /\ DropOK(w) /\ SmallTypes' /\ sleep' = sleep
      BY <2>0, <2>4, <2>5, <2>10, TypesIs DEF DropOK, SmallTypes, memVars, NodeInv
    <2> QED BY <1>0, <2>1, <2>2, <2>3, <2>5, <2>6, <2>7, <2>8, <2>9, SoloStep
  <1>5. CASE Empty(mq[th[w].dq]) /\ th[w].ctx # None
    <2>0. /\ global' = global /\ UNCHANGED <<memVars, sleep, quit, fate>>
          /\ mq' = [mq EXCEPT ![th[w].dq] = PopEmpty(@)]
          /\ mqMem' = [mqMem EXCEPT ![th[w].dq] = "freed"]
          /\ \A s : Listed(s)' => Listed(s)
      BY <1>1, <1>5, ListFacts DEF DropQueue
    <2> DEFINE r == [th[w] EXCEPT !.pc = "callback", !.dq = None]
    <2>1. th' = [th EXCEPT ![w] = r]
      BY <1>0, <1>5 DEF DropQueue, Caller
    <2>2. r \in ThreadStates /\ Has(r, "callback", th[w].after, th[w].msg, th[w].q, th[w].ctx, th[w].nq, None, th[w].dst, th[w].ref, th[w].born)
      <3>0. th[w] \in ThreadStates
        BY <1>0, <1>5
      <3>1. r \in ThreadStates
        BY <3>0, ZenonT(60) DEF ThreadStates, Places
      <3>2. Has(r, "callback", th[w].after, th[w].msg, th[w].q, th[w].ctx, th[w].nq, None, th[w].dst, th[w].ref, th[w].born)
        BY <3>0 DEF ThreadStates, Has
      <3> QED BY <3>1, <3>2
    <2> HIDE DEF r
    <2>3. PlaceOK(w, r)
      BY <1>0, <1>1, <1>5, <2>2 DEF PlaceOK, Placed, Base, InTurn, Errands, Has
    <2>4. Solo(w) /\ th'[w] = r
      BY <1>0, <2>1, <2>2, MoveSolo
    <2>5. /\ ~Asleep(th[w]) /\ ~Asleep(r)
          /\ Base(r) # "drop" /\ SameRefs(th[w], r) /\ th[w].nq = None
          /\ Launched(r) = None /\ Launched(th[w]) = None /\ r.pc # "pushnew" /\ th[w].pc # "pushnew"
      BY <1>0, <1>1, <2>2, <2>3 DEF Asleep, SameRefs, Steady, Launched, PlaceOK, Placed, Base, InTurn, Errands, Has
    <2>10. /\ RingsOK
           /\ \A s \in Services : mq'[s].release = mq[s].release
           /\ \A s \in Services \ {th[w].dq} : mq'[s] = mq[s] /\ mqMem'[s] = mqMem[s]
           /\ mqMem'[th[w].dq] = "freed" /\ mqMem' \in [Services -> {"none", "alive", "freed"}]
      <3>1. Sound(PopEmpty(mq[th[w].dq])) /\ PopEmpty(mq[th[w].dq]).release = mq[th[w].dq].release
        BY <1>2, <1>5, PopEmptySound
      <3>2. /\ RingsOK /\ mq'[th[w].dq] = PopEmpty(mq[th[w].dq])
            /\ \A s \in Services \ {th[w].dq} : mq'[s] = mq[s]
        BY <1>1, <2>0, <3>1, RingSet
      <3> QED BY <1>1, <1>3, <2>0, <3>1, <3>2
    <2>6. LifeStep
      <3>1. LifeSame
        BY <1>0, <2>0, <2>2, <2>4, <2>5, <1>1, <1>3, <2>10 DEF LifeSame, Solo, SameRefs, MarksSame, memVars, queueVars, Has
      <3> QED BY <1>0, <2>0, <3>1 DEF LifeStep
    <2>7. TurnStep
      <3>1. \A s \in Services : Busy(s)' <=> Busy(s) /\ s # th[w].dq
        BY <1>1, <2>10 DEF Busy
      <3>2. \A s \in Services : Holds(r, s) <=> Holds(th[w], s) /\ s # th[w].dq
        BY <1>0, <1>1, <2>0, <2>2, <2>5, TurnFacts, NodeAssumption DEF Holds, Apart, Has
      <3>3. Apart(r)
        BY <1>0, <1>1, <2>0, <2>2, <2>5, TurnFacts, NodeAssumption DEF Apart, Has
      <3>4. TurnEnded(w, th[w].dq)
        BY <1>0, <1>1, <2>0, <2>2, <2>4, <2>5, <3>1, <3>2, <3>3, <1>1 DEF TurnEnded, Holds, Has, queueVars
      <3> QED BY <1>0, <2>0, <3>4, <1>1 DEF TurnStep
    <2>8. FoundOK(w)
      <3>1. \A s \in Services : Shows(r, s) => Shows(th[w], s)
        BY <1>0, <2>0, <2>2, <2>5, NodeAssumption DEF Shows, Has
      <3>4. Shows(th[w], th[w].dq)
        BY DEF Shows
      <3>2. r.ctx = th[w].ctx
        BY <1>0, <2>0, <2>2 DEF Has
      <3>3. \A s \in Services : (Shows(th[w], s) => Found(s)) /\ (Listed(s) => Found(s))
        BY <1>0, TurnFacts
      <3> QED BY <1>0, <2>0, <2>4, <3>1, <3>2, <3>3, <1>1, <2>10, <3>4 DEF FoundOK, memVars, queueVars, Found
    <2>9. RingsOK /\ DropOK(w) /\ SmallTypes' /\ sleep' = sleep
      BY <2>0, <2>4, <2>5, <2>10, TypesIs DEF DropOK, SmallTypes, memVars, NodeInv
    <2> QED BY <1>0, <2>1, <2>2, <2>3, <2>5, <2>6, <2>7, <2>8, <2>9, SoloStep
  <1>6. CASE ~Empty(mq[th[w].dq])
    <2> DEFINE s == th[w].dq
               d == Dequeue(mq[s])
               m == mq[s].queue[mq[s].head]
               e == [id |-> m.id, src |-> s, kind |-> "error"]
    <2>1. mq' = [mq EXCEPT ![s] = d] /\ mqMem' = mqMem /\ Bounce(w, m, s)
      BY <1>6 DEF DropQueue
    <2>2. m \in Messages /\ Sound(d) /\ d.release = mq[s].release /\ d.in_global = mq[s].in_global
      BY <1>2, <1>6, PopSound
    <2>3. RingsOK /\ FlagsSame
      <3> HIDE DEF d
      <3>1. RingsOK /\ mq'[s] = d /\ \A x \in Services \ {s} : mq'[x] = mq[x]
        BY <1>1, <2>1, <2>2, RingSet
      <3> QED BY <2>2, <3>1 DEF FlagsSame
    <2>4. m.id \in Ids /\ (m.src \notin Outside => m.src \in Services /\ m.src # None)
          /\ e \in Messages /\ e # Vacant
      BY <1>1, <2>2, NodeAssumption, QueueAssumption DEF Kinds
    <2> HIDE DEF d, m, e
    <2>5. CASE m.src \in Outside
      <3>1. th' = [th EXCEPT ![w] = th[w]]
        BY <1>0, <2>1, <2>5 DEF Bounce
      <3>2. fate' \in [Ids -> {"unsent", "travelling", "handled", "bounced", "refused"}]
        BY <2>1, <2>5 DEF Bounce, NodeInv, TypeOK
      <3>3. Alike(th[w], th[w]) /\ ~Asleep(th[w])
        BY <1>0 DEF Alike, SameRefs, Asleep
      <3> QED BY <1>0, <1>1, <2>1, <2>3, <3>1, <3>2, <3>3, PlainStep
    <2>6. CASE m.src \notin Outside
      <3> DEFINE r == [th[w] EXCEPT !.pc = "push", !.dst = m.src, !.after = "drop", !.msg = e]
      <3>1. th' = [th EXCEPT ![w] = r]
        BY <1>0, <2>1, <2>6 DEF Bounce, e
      <3>2. r \in ThreadStates /\ Has(r, "push", "drop", e, th[w].q, th[w].ctx, th[w].nq, th[w].dq, m.src, th[w].ref, th[w].born)
        <4>0. th[w] \in ThreadStates /\ m.src \in Services /\ e \in Messages
          BY <1>0, <2>4, <2>6
        <4>1. r \in ThreadStates
          BY <4>0, ZenonT(40) DEF ThreadStates, Places
        <4>2. Has(r, "push", "drop", e, th[w].q, th[w].ctx, th[w].nq, th[w].dq, m.src, th[w].ref, th[w].born)
          BY <4>0 DEF ThreadStates, Has
        <4> QED BY <4>1, <4>2
      <3> HIDE DEF r
      <3>3. PlaceOK(w, r)
        BY <1>0, <2>4, <2>6, <3>2 DEF PlaceOK, Placed, Base, InTurn, Errands, Has
      <3>4. Alike(th[w], r) /\ ~Asleep(th[w]) /\ ~Asleep(r) /\ Base(th[w]) = "drop"
        BY <1>0, <3>2 DEF Alike, SameRefs, Launched, Asleep, PlaceOK, Placed, Base, InTurn, Errands, Has
      <3>5. fate' \in [Ids -> {"unsent", "travelling", "handled", "bounced", "refused"}]
        BY <2>1, <2>6 DEF Bounce, NodeInv, TypeOK
      <3> QED BY <1>0, <1>1, <2>1, <2>3, <3>1, <3>2, <3>3, <3>4, <3>5, PlainStep
    <2> QED BY <2>5, <2>6
  <1> QED BY <1>4, <1>5, <1>6

LEMMA GrabDestinationKeeps ==
    ASSUME NodeInv, NEW t \in Threads, GrabDestination(t)
    PROVE  NodeInv'
  <1>0. t \in Threads /\ th[t] \in ThreadStates /\ PlaceOK(t, th[t])
        /\ th \in [Threads -> ThreadStates] /\ th[t].pc = "push"
    BY ThreadFacts, ThreadsFinite DEF NodeInv, TypeOK, GrabDestination, At
  <1>1. th[t].dst \in Services /\ th[t].dst # None /\ UNCHANGED <<slot, init, ctxMem, total, queueVars, sleep, quit>>
    BY <1>0, NodeAssumption DEF PlaceOK, Placed, Base, InTurn, Errands, ThreadStates, GrabDestination
  <1>2. CASE slot[th[t].dst] = "set"
    <2>0. /\ ref' = [ref EXCEPT ![th[t].dst] = @ + 1]
          /\ UNCHANGED <<slot, init, ctxMem, total, queueVars, sleep, quit, fate>>
          /\ th[t].dst \in Services /\ th[t].ref = None
          /\ \A s : Listed(s)' => Listed(s)
      BY <1>0, <1>1, <1>2, ListFacts DEF GrabDestination, PlaceOK, Placed, Base, InTurn, Errands, ThreadStates, queueVars
    <2> DEFINE r == [th[t] EXCEPT !.pc = "enqueue", !.ref = th[t].dst]
    <2>1. th' = [th EXCEPT ![t] = r]
      BY <1>0, <1>2 DEF GrabDestination
    <2>2. r \in ThreadStates /\ Has(r, "enqueue", th[t].after, th[t].msg, th[t].q, th[t].ctx, th[t].nq, th[t].dq, th[t].dst, th[t].dst, th[t].born)
      <3>0. th[t] \in ThreadStates /\ th[t].dst \in Services
        BY <1>0, <1>1
      <3>1. r \in ThreadStates
        BY <3>0, ZenonT(60) DEF ThreadStates, Places
      <3>2. Has(r, "enqueue", th[t].after, th[t].msg, th[t].q, th[t].ctx, th[t].nq, th[t].dq, th[t].dst, th[t].dst, th[t].born)
        BY <3>0 DEF ThreadStates, Has
      <3> QED BY <3>1, <3>2
    <2> HIDE DEF r
    <2>3. PlaceOK(t, r)
      BY <1>0, <1>1, <2>2 DEF PlaceOK, Placed, Base, InTurn, Errands, Has
    <2>4. Solo(t) /\ th'[t] = r
      BY <1>0, <2>1, <2>2, MoveSolo
    <2>5. /\ ~Asleep(th[t]) /\ ~Asleep(r)
          /\ Base(r) = Base(th[t]) /\ Steady(r) /\ Steady(th[t])
          /\ Launched(r) = Launched(th[t]) /\ r.pc # "pushnew"
      BY <1>0, <2>0, <2>2, <2>3 DEF Asleep, SameRefs, Steady, Launched, PlaceOK, Placed, Base, InTurn, Errands, Has
    <2>6. LifeStep
      <3>1. Grabbed(t, th[t].dst)
        BY <1>0, <2>0, <2>2, <2>4, <2>5, <1>2 DEF Grabbed, MarksSame, memVars, queueVars, Has
      <3> QED BY <1>0, <2>0, <3>1 DEF LifeStep
    <2>7. TurnStep
      <3>1. BusySame
        BY <2>0 DEF BusySame, Busy, queueVars
      <3>2. Apart(r) /\ \A s \in Services : Holds(r, s) <=> Holds(th[t], s)
        BY <1>0, <2>0, <2>2, <2>5, TurnFacts, NodeAssumption DEF Apart, Holds, Has
      <3> QED BY <1>0, <2>0, <2>4, <3>1, <3>2, TurnSameSolo DEF queueVars
    <2>8. FoundOK(t)
      <3>1. \A s \in Services : Shows(r, s) => Shows(th[t], s)
        BY <1>0, <2>0, <2>2, <2>5, NodeAssumption DEF Shows, Has
      <3>2. r.ctx = th[t].ctx
        BY <1>0, <2>0, <2>2 DEF Has
      <3>3. \A s \in Services : (Shows(th[t], s) => Found(s)) /\ (Listed(s) => Found(s))
        BY <1>0, TurnFacts
      <3> QED BY <1>0, <2>0, <2>4, <3>1, <3>2, <3>3, <1>2 DEF FoundOK, memVars, queueVars, Found
    <2>9. RingsOK /\ DropOK(t) /\ SmallTypes' /\ sleep' = sleep
      <3>1. ref' \in [Services -> Nat]
        BY <2>0 DEF NodeInv, TypeOK
      <3>2. r.dq = th[t].dq /\ (Base(th[t]) = "drop" => ctxMem[th[t].dq] = "freed")
        BY <1>0, <2>2 DEF NodeInv, QueueInv, Has
      <3> QED BY <2>0, <2>4, <2>5, <3>1, <3>2, RingFacts, TypesIs DEF RingsOK, DropOK, SmallTypes, queueVars, NodeInv
    <2> QED BY <1>0, <2>1, <2>2, <2>3, <2>5, <2>6, <2>7, <2>8, <2>9, SoloStep
  <1>3. CASE slot[th[t].dst] # "set"
    <2>0. ref' = ref /\ fate' = [fate EXCEPT ![th[t].msg.id] = "refused"]
      BY <1>3 DEF GrabDestination
    <2> DEFINE r == [th[t] EXCEPT !.pc = th[t].after, !.msg = Vacant, !.dst = None]
    <2>1. th' = [th EXCEPT ![t] = r]
      BY <1>0, <1>3 DEF GrabDestination
    <2>2. r \in ThreadStates /\ Has(r, th[t].after, th[t].after, Vacant, th[t].q, th[t].ctx, th[t].nq, th[t].dq, None, th[t].ref, th[t].born)
      <3>0. th[t] \in ThreadStates /\ th[t].after \in Places
        BY <1>0 DEF ThreadStates
      <3>1. r \in ThreadStates
        BY <3>0 DEF ThreadStates
      <3>2. Has(r, th[t].after, th[t].after, Vacant, th[t].q, th[t].ctx, th[t].nq, th[t].dq, None, th[t].ref, th[t].born)
        BY <3>0 DEF ThreadStates, Has
      <3> QED BY <3>1, <3>2
    <2> HIDE DEF r
    <2>3. PlaceOK(t, r)
      BY <1>0, <2>2 DEF PlaceOK, Placed, Base, InTurn, Errands, Has
    <2>4. Alike(th[t], r) /\ ~Asleep(th[t]) /\ ~Asleep(r)
      BY <1>0, <2>2 DEF Alike, SameRefs, Launched, Asleep, PlaceOK, Placed, Base, InTurn, Errands, Has
    <2>5. Base(r) = Base(th[t])
      BY <1>0, <2>2 DEF Base, Has, PlaceOK, Placed, Errands
    <2>6. fate' \in [Ids -> {"unsent", "travelling", "handled", "bounced", "refused"}]
      BY <2>0 DEF NodeInv, TypeOK
    <2> QED BY <1>0, <1>1, <2>0, <2>1, <2>2, <2>3, <2>4, <2>5, <2>6, QuietStep DEF memVars
  <1> QED BY <1>2, <1>3

\* The queue of a context that a thread uses lives.
LEMMA QueueLives ==
    ASSUME NodeInv, NEW t \in Threads, NEW s \in Services, s \in {th[t].ctx, th[t].ref}
    PROVE  mqMem[s] = "alive" /\ ctxMem[s] = "alive" /\ ~mq[s].release
  <1>1. ctxMem[s] = "alive" /\ ~mq[s].release
    BY AliveFacts
  <1>2. slot[s] # "unset"
    BY DEF NodeInv, LifeInv, ReferenceInv
  <1>3. ContextInv(s) /\ mqMem[s] \in {"none", "alive", "freed"}
    BY DEF NodeInv, LifeInv, TypeOK
  <1> QED BY <1>1, <1>2, <1>3 DEF ContextInv

LEMMA PushMessageKeeps ==
    ASSUME NodeInv, NEW t \in Threads, PushMessage(t)
    PROVE  NodeInv'
  <1>0. t \in Threads /\ th[t] \in ThreadStates /\ PlaceOK(t, th[t])
        /\ th \in [Threads -> ThreadStates] /\ th[t].pc = "enqueue"
    BY ThreadFacts, ThreadsFinite DEF NodeInv, TypeOK, PushMessage, At
  <1>1. th[t].dst \in Services /\ th[t].ref = th[t].dst /\ th[t].msg \in Messages
        /\ UNCHANGED <<memVars, mqMem, sleep, quit, fate>>
    BY <1>0, NodeAssumption DEF PlaceOK, Placed, Base, InTurn, Errands, ThreadStates, PushMessage
  <1>2. mqMem[th[t].dst] = "alive" /\ ~mq[th[t].dst].release
    BY <1>0, <1>1, QueueLives
  <1>3. /\ RingsOK
        /\ \A s \in Services : mq'[s].release = mq[s].release
        /\ mq'[th[t].dst].in_global = TRUE
        /\ \A s \in Services \ {th[t].dst} : mq'[s] = mq[s]
    <2> DEFINE p == [Enqueue(mq[th[t].dst], th[t].msg) EXCEPT !.in_global = TRUE]
    <2>1. mq' = [mq EXCEPT ![th[t].dst] = p]
      BY DEF PushMessage
    <2>2. Sound(p) /\ p.release = mq[th[t].dst].release /\ p.in_global = TRUE
      BY <1>1, RingFacts, PushSound
    <2> HIDE DEF p
    <2>3. /\ RingsOK /\ mq'[th[t].dst] = p /\ \A s \in Services \ {th[t].dst} : mq'[s] = mq[s]
      BY <1>1, <2>1, <2>2, RingSet
    <2> QED BY <2>2, <2>3
  <1>4. CASE mq[th[t].dst].in_global
    <2>0. /\ global' = global
          /\ UNCHANGED <<memVars, mqMem, sleep, quit, fate>>
          /\ \A s : Listed(s)' => Listed(s)
      BY <1>1, <1>4, ListFacts DEF PushMessage
    <2> DEFINE r == [th[t] EXCEPT !.pc = "release", !.msg = Vacant, !.dst = None]
    <2>1. th' = [th EXCEPT ![t] = r]
      BY <1>0 DEF PushMessage
    <2>2. r \in ThreadStates /\ Has(r, "release", th[t].after, Vacant, th[t].q, th[t].ctx, th[t].nq, th[t].dq, None, th[t].ref, th[t].born)
      <3>0. th[t] \in ThreadStates
        BY <1>0
      <3>1. r \in ThreadStates
        BY <3>0, ZenonT(40) DEF ThreadStates, Places
      <3>2. Has(r, "release", th[t].after, Vacant, th[t].q, th[t].ctx, th[t].nq, th[t].dq, None, th[t].ref, th[t].born)
        BY <3>0 DEF ThreadStates, Has
      <3> QED BY <3>1, <3>2
    <2> HIDE DEF r
    <2>3. PlaceOK(t, r)
      BY <1>0, <2>2 DEF PlaceOK, Placed, Base, InTurn, Errands, Has
    <2>4. Solo(t) /\ th'[t] = r
      BY <1>0, <2>1, <2>2, MoveSolo
    <2>5. /\ ~Asleep(th[t]) /\ ~Asleep(r)
          /\ Base(r) = Base(th[t]) /\ SameRefs(th[t], r)
          /\ Launched(r) = Launched(th[t]) /\ r.pc # "pushnew"
      BY <1>0, <2>0, <2>2, <2>3 DEF Asleep, SameRefs, Steady, Launched, PlaceOK, Placed, Base, InTurn, Errands, Has
    <2>6. LifeStep
      <3>1. LifeSame
        BY <1>0, <2>0, <2>2, <2>4, <2>5, <1>3 DEF LifeSame, Solo, SameRefs, MarksSame, memVars, queueVars, Has
      <3> QED BY <1>0, <2>0, <3>1 DEF LifeStep
    <2>7. TurnStep
      <3>1. BusySame
        BY <1>1, <1>2, <1>3, <1>4, <2>0 DEF BusySame, Busy
      <3>2. Apart(r) /\ \A s \in Services : Holds(r, s) <=> Holds(th[t], s)
        BY <1>0, <2>0, <2>2, <2>5, TurnFacts, NodeAssumption DEF Apart, Holds, Has
      <3> QED BY <1>0, <2>0, <2>4, <3>1, <3>2, TurnSameSolo DEF queueVars
    <2>8. FoundOK(t)
      <3>1. \A s \in Services : Shows(r, s) => Shows(th[t], s)
        BY <1>0, <2>0, <2>2, <2>5, NodeAssumption DEF Shows, Has
      <3>2. r.ctx = th[t].ctx
        BY <1>0, <2>0, <2>2 DEF Has
      <3>3. \A s \in Services : (Shows(th[t], s) => Found(s)) /\ (Listed(s) => Found(s))
        BY <1>0, TurnFacts
      <3> QED BY <1>0, <2>0, <2>4, <3>1, <3>2, <3>3, <1>1, <1>3, <1>4 DEF FoundOK, memVars, queueVars, Found
    <2>9. RingsOK /\ DropOK(t) /\ SmallTypes' /\ sleep' = sleep
      <3>1. r.dq = th[t].dq /\ (Base(th[t]) = "drop" => ctxMem[th[t].dq] = "freed")
        BY <1>0, <2>2 DEF NodeInv, QueueInv, Has
      <3> QED BY <1>1, <1>3, <2>0, <2>4, <2>5, <3>1, TypesIs DEF DropOK, SmallTypes, memVars, NodeInv
    <2> QED BY <1>0, <2>1, <2>2, <2>3, <2>5, <2>6, <2>7, <2>8, <2>9, SoloStep
  <1>5. CASE ~mq[th[t].dst].in_global
    <2>0. /\ global' = Append(global, th[t].dst)
          /\ UNCHANGED <<memVars, mqMem, sleep, quit, fate>>
          /\ \A s : Listed(s)' => Listed(s) \/ s = th[t].dst
      BY <1>1, <1>5, ListFacts DEF PushMessage
    <2> DEFINE r == [th[t] EXCEPT !.pc = "release", !.msg = Vacant, !.dst = None]
    <2>1. th' = [th EXCEPT ![t] = r]
      BY <1>0 DEF PushMessage
    <2>2. r \in ThreadStates /\ Has(r, "release", th[t].after, Vacant, th[t].q, th[t].ctx, th[t].nq, th[t].dq, None, th[t].ref, th[t].born)
      <3>0. th[t] \in ThreadStates
        BY <1>0
      <3>1. r \in ThreadStates
        BY <3>0, ZenonT(60) DEF ThreadStates, Places
      <3>2. Has(r, "release", th[t].after, Vacant, th[t].q, th[t].ctx, th[t].nq, th[t].dq, None, th[t].ref, th[t].born)
        BY <3>0 DEF ThreadStates, Has
      <3> QED BY <3>1, <3>2
    <2> HIDE DEF r
    <2>3. PlaceOK(t, r)
      BY <1>0, <2>2 DEF PlaceOK, Placed, Base, InTurn, Errands, Has
    <2>4. Solo(t) /\ th'[t] = r
      BY <1>0, <2>1, <2>2, MoveSolo
    <2>5. /\ ~Asleep(th[t]) /\ ~Asleep(r)
          /\ Base(r) = Base(th[t]) /\ SameRefs(th[t], r)
          /\ Launched(r) = Launched(th[t]) /\ r.pc # "pushnew"
      BY <1>0, <2>0, <2>2, <2>3 DEF Asleep, SameRefs, Steady, Launched, PlaceOK, Placed, Base, InTurn, Errands, Has
    <2>6. LifeStep
      <3>1. LifeSame
        BY <1>0, <2>0, <2>2, <2>4, <2>5, <1>3 DEF LifeSame, Solo, SameRefs, MarksSame, memVars, queueVars, Has
      <3> QED BY <1>0, <2>0, <3>1 DEF LifeStep
    <2>7. TurnStep
      <3>1. \A s \in Services : Busy(s)' <=> Busy(s) \/ s = th[t].dst
        BY <1>1, <1>2, <1>3, <2>0 DEF Busy
      <3>2. Apart(r) /\ \A s \in Services : Holds(r, s) <=> Holds(th[t], s)
        BY <1>0, <2>0, <2>2, <2>5, TurnFacts, NodeAssumption DEF Apart, Holds, Has
      <3>3. HandsSame
        BY <2>4, <3>2, TurnFacts DEF HandsSame, Solo
      <3>4. ~Busy(th[t].dst)
        BY <1>2, <1>5 DEF Busy
      <3>5. TurnMade(th[t].dst)
        BY <2>0, <3>1, <3>3, <3>4 DEF TurnMade
      <3> QED BY <1>1, <3>5 DEF TurnStep
    <2>8. FoundOK(t)
      <3>1. \A s \in Services : Shows(r, s) => Shows(th[t], s)
        BY <1>0, <2>0, <2>2, <2>5, NodeAssumption DEF Shows, Has
      <3>2. r.ctx = th[t].ctx
        BY <1>0, <2>0, <2>2 DEF Has
      <3>3. \A s \in Services : (Shows(th[t], s) => Found(s)) /\ (Listed(s) => Found(s))
        BY <1>0, TurnFacts
      <3> QED BY <1>0, <2>0, <2>4, <3>1, <3>2, <3>3, <1>1, <1>3, <1>5 DEF FoundOK, memVars, queueVars, Found
    <2>9. RingsOK /\ DropOK(t) /\ SmallTypes' /\ sleep' = sleep
      <3>1. r.dq = th[t].dq /\ (Base(th[t]) = "drop" => ctxMem[th[t].dq] = "freed")
        BY <1>0, <2>2 DEF NodeInv, QueueInv, Has
      <3> QED BY <1>1, <1>3, <2>0, <2>4, <2>5, <3>1, TypesIs DEF DropOK, SmallTypes, memVars, NodeInv
    <2> QED BY <1>0, <2>1, <2>2, <2>3, <2>5, <2>6, <2>7, <2>8, <2>9, SoloStep
  <1> QED BY <1>4, <1>5

LEMMA ReleaseKeeps ==
    ASSUME NodeInv, NEW t \in Threads, Release(t)
    PROVE  NodeInv'
  <1>0. t \in Threads /\ th[t] \in ThreadStates /\ PlaceOK(t, th[t])
        /\ th \in [Threads -> ThreadStates] /\ th[t].pc = "release"
    BY ThreadFacts, ThreadsFinite DEF NodeInv, TypeOK, Release, At
  <1>1. th[t].ref \in Services /\ th[t].ref # None
        /\ UNCHANGED <<slot, init, ctxMem, total, queueVars, sleep, quit, fate>>
        /\ ref' = [ref EXCEPT ![th[t].ref] = @ - 1]
    BY <1>0, NodeAssumption DEF PlaceOK, Placed, Base, InTurn, Errands, ThreadStates, Release
  <1>2. CASE ref[th[t].ref] = 1
    <2>0. /\ UNCHANGED <<slot, init, ctxMem, total, queueVars, sleep, quit, fate>>
          /\ \A s : Listed(s)' => Listed(s)
      BY <1>1, ListFacts DEF queueVars
    <2> DEFINE r == [th[t] EXCEPT !.pc = "delete"]
    <2>1. th' = [th EXCEPT ![t] = r]
      BY <1>0, <1>2 DEF Release, Goto
    <2>2. r \in ThreadStates /\ Has(r, "delete", th[t].after, th[t].msg, th[t].q, th[t].ctx, th[t].nq, th[t].dq, th[t].dst, th[t].ref, th[t].born)
      <3>0. th[t] \in ThreadStates
        BY <1>0
      <3>1. r \in ThreadStates
        BY <3>0, ZenonT(60) DEF ThreadStates, Places
      <3>2. Has(r, "delete", th[t].after, th[t].msg, th[t].q, th[t].ctx, th[t].nq, th[t].dq, th[t].dst, th[t].ref, th[t].born)
        BY <3>0 DEF ThreadStates, Has
      <3> QED BY <3>1, <3>2
    <2> HIDE DEF r
    <2>3. PlaceOK(t, r)
      BY <1>0, <2>2 DEF PlaceOK, Placed, Base, InTurn, Errands, Has
    <2>4. Solo(t) /\ th'[t] = r
      BY <1>0, <2>1, <2>2, MoveSolo
    <2>5. /\ ~Asleep(th[t]) /\ ~Asleep(r)
          /\ Base(r) = Base(th[t]) /\ Steady(th[t]) /\ r.pc # "newqueue"
          /\ Launched(r) = Launched(th[t]) /\ r.pc # "pushnew"
      BY <1>0, <2>0, <2>2, <2>3 DEF Asleep, SameRefs, Steady, Launched, PlaceOK, Placed, Base, InTurn, Errands, Has
    <2>10. Dropped(t, th[t].ref)
      BY <1>0, <1>1, <1>2, <2>2, <2>4, <2>5 DEF Dropped, MarksSame, queueVars, Has
    <2>6. LifeStep
      BY <1>0, <1>1, <2>10 DEF LifeStep
    <2>7. TurnStep
      <3>1. BusySame
        BY <2>0 DEF BusySame, Busy, queueVars
      <3>2. Apart(r) /\ \A s \in Services : Holds(r, s) <=> Holds(th[t], s)
        BY <1>0, <2>0, <2>2, <2>5, TurnFacts, NodeAssumption DEF Apart, Holds, Has
      <3> QED BY <1>0, <2>0, <2>4, <3>1, <3>2, TurnSameSolo DEF queueVars
    <2>8. FoundOK(t)
      <3>1. \A s \in Services : Shows(r, s) => Shows(th[t], s)
        BY <1>0, <2>0, <2>2, <2>5, NodeAssumption DEF Shows, Has
      <3>2. r.ctx = th[t].ctx
        BY <1>0, <2>0, <2>2 DEF Has
      <3>3. \A s \in Services : (Shows(th[t], s) => Found(s)) /\ (Listed(s) => Found(s))
        BY <1>0, TurnFacts
      <3> QED BY <1>0, <2>0, <2>4, <3>1, <3>2, <3>3 DEF FoundOK, memVars, queueVars, Found
    <2>9. RingsOK /\ DropOK(t) /\ SmallTypes' /\ sleep' = sleep
      <3>1. ref' \in [Services -> Nat]
        <4>1. ref \in [Services -> Nat] /\ LifeTypes /\ LifeInv
          BY DEF NodeInv, TypeOK, LifeTypes
        <4>2. ref[th[t].ref] > 0
          BY <1>0, <1>1, <2>10, <4>1, DroppedPreserves
        <4> QED BY <1>1, <4>1, <4>2
      <3>2. r.dq = th[t].dq /\ (Base(th[t]) = "drop" => ctxMem[th[t].dq] = "freed")
        BY <1>0, <2>2 DEF NodeInv, QueueInv, Has
      <3> QED BY <2>0, <2>4, <2>5, <3>1, <3>2, RingFacts, TypesIs DEF RingsOK, DropOK, SmallTypes, queueVars, NodeInv
    <2> QED BY <1>0, <2>1, <2>2, <2>3, <2>5, <2>6, <2>7, <2>8, <2>9, SoloStep
  <1>3. CASE ref[th[t].ref] # 1
    <2>0. /\ UNCHANGED <<slot, init, ctxMem, total, queueVars, sleep, quit, fate>>
          /\ \A s : Listed(s)' => Listed(s)
      BY <1>1, ListFacts DEF queueVars
    <2> DEFINE r == [th[t] EXCEPT !.pc = th[t].after, !.ref = None]
    <2>1. th' = [th EXCEPT ![t] = r]
      BY <1>0, <1>3 DEF Release
    <2>2. r \in ThreadStates /\ Has(r, th[t].after, th[t].after, th[t].msg, th[t].q, th[t].ctx, th[t].nq, th[t].dq, th[t].dst, None, th[t].born)
      <3>0. th[t] \in ThreadStates /\ th[t].after \in Places
        BY <1>0 DEF ThreadStates
      <3>1. r \in ThreadStates
        BY <3>0 DEF ThreadStates
      <3>2. Has(r, th[t].after, th[t].after, th[t].msg, th[t].q, th[t].ctx, th[t].nq, th[t].dq, th[t].dst, None, th[t].born)
        BY <3>0 DEF ThreadStates, Has
      <3> QED BY <3>1, <3>2
    <2> HIDE DEF r
    <2>3. PlaceOK(t, r)
      BY <1>0, <2>2 DEF PlaceOK, Placed, Base, InTurn, Errands, Has
    <2>4. Solo(t) /\ th'[t] = r
      BY <1>0, <2>1, <2>2, MoveSolo
    <2>5. /\ ~Asleep(th[t]) /\ ~Asleep(r)
          /\ Base(r) = Base(th[t]) /\ Steady(th[t]) /\ Steady(r)
          /\ Launched(r) = Launched(th[t]) /\ r.pc # "pushnew"
      BY <1>0, <2>0, <2>2, <2>3 DEF Asleep, SameRefs, Steady, Launched, PlaceOK, Placed, Base, InTurn, Errands, Has
    <2>10. Dropped(t, th[t].ref)
      BY <1>0, <1>1, <1>3, <2>2, <2>4, <2>5 DEF Dropped, Steady, MarksSame, queueVars, Has
    <2>6. LifeStep
      BY <1>0, <1>1, <2>10 DEF LifeStep
    <2>7. TurnStep
      <3>1. BusySame
        BY <2>0 DEF BusySame, Busy, queueVars
      <3>2. Apart(r) /\ \A s \in Services : Holds(r, s) <=> Holds(th[t], s)
        BY <1>0, <2>0, <2>2, <2>5, TurnFacts, NodeAssumption DEF Apart, Holds, Has
      <3> QED BY <1>0, <2>0, <2>4, <3>1, <3>2, TurnSameSolo DEF queueVars
    <2>8. FoundOK(t)
      <3>1. \A s \in Services : Shows(r, s) => Shows(th[t], s)
        BY <1>0, <2>0, <2>2, <2>5, NodeAssumption DEF Shows, Has
      <3>2. r.ctx = th[t].ctx
        BY <1>0, <2>0, <2>2 DEF Has
      <3>3. \A s \in Services : (Shows(th[t], s) => Found(s)) /\ (Listed(s) => Found(s))
        BY <1>0, TurnFacts
      <3> QED BY <1>0, <2>0, <2>4, <3>1, <3>2, <3>3 DEF FoundOK, memVars, queueVars, Found
    <2>9. RingsOK /\ DropOK(t) /\ SmallTypes' /\ sleep' = sleep
      <3>1. ref' \in [Services -> Nat]
        <4>1. ref \in [Services -> Nat] /\ LifeTypes /\ LifeInv
          BY DEF NodeInv, TypeOK, LifeTypes
        <4>2. ref[th[t].ref] > 0
          BY <1>0, <1>1, <2>10, <4>1, DroppedPreserves
        <4> QED BY <1>1, <4>1, <4>2
      <3>2. r.dq = th[t].dq /\ (Base(th[t]) = "drop" => ctxMem[th[t].dq] = "freed")
        BY <1>0, <2>2 DEF NodeInv, QueueInv, Has
      <3> QED BY <2>0, <2>4, <2>5, <3>1, <3>2, RingFacts, TypesIs DEF RingsOK, DropOK, SmallTypes, queueVars, NodeInv
    <2> QED BY <1>0, <2>1, <2>2, <2>3, <2>5, <2>6, <2>7, <2>8, <2>9, SoloStep
  <1> QED BY <1>2, <1>3

LEMMA DeleteContextKeeps ==
    ASSUME NodeInv, NEW t \in Threads, DeleteContext(t)
    PROVE  NodeInv'
  <1>0. t \in Threads /\ th[t] \in ThreadStates /\ PlaceOK(t, th[t])
        /\ th \in [Threads -> ThreadStates] /\ th[t].pc = "delete"
    BY ThreadFacts, ThreadsFinite DEF NodeInv, TypeOK, DeleteContext, At
  <1>1. th[t].ref \in Services /\ th[t].ref # None /\ mark_release(th[t].ref)
        /\ ctxMem' = [ctxMem EXCEPT ![th[t].ref] = "freed"] /\ total' = total - 1
        /\ UNCHANGED <<slot, ref, init, mqMem, sleep, quit, fate>>
    BY <1>0, NodeAssumption DEF PlaceOK, Placed, Base, InTurn, Errands, ThreadStates, DeleteContext
  <1>2. mqMem[th[t].ref] = "alive" /\ ~mq[th[t].ref].release /\ slot[th[t].ref] = "free"
    <2>1. slot[th[t].ref] = "free"
      BY <1>0, <1>1, UsedIsAlive DEF NodeInv, TypeOK, LifeTypes, LifeInv, At
    <2> QED BY <1>0, <1>1, <2>1, QueueLives
  <1>3. /\ RingsOK
        /\ \A s \in Services : IF s = th[t].ref THEN mq'[s].release = TRUE ELSE mq'[s].release = mq[s].release
        /\ mq'[th[t].ref].in_global = mq[th[t].ref].in_global
        /\ \A s \in Services \ {th[t].ref} : mq'[s] = mq[s]
    <2> DEFINE p == [mq[th[t].ref] EXCEPT !.release = TRUE]
    <2>1. mq' = [mq EXCEPT ![th[t].ref] = p]
      BY <1>1 DEF mark_release
    <2>2. Sound(p) /\ p.release = TRUE /\ p.in_global = mq[th[t].ref].in_global
      BY <1>1, RingFacts, MarkSound
    <2> HIDE DEF p
    <2>3. /\ RingsOK /\ mq'[th[t].ref] = p /\ \A s \in Services \ {th[t].ref} : mq'[s] = mq[s]
      BY <1>1, <2>1, <2>2, RingSet
    <2> QED BY <2>2, <2>3
  <1> DEFINE p == IF th[t].after = "setinit" THEN "pushnew" ELSE th[t].after
  <1>4. th' = [th EXCEPT ![t].pc = p, ![t].ref = None]
    BY DEF DeleteContext
  <1>5. /\ \/ th[t].after = "setinit" /\ p = "pushnew" /\ th[t].dst = th[t].ref
           \/ th[t].after # "setinit" /\ p = th[t].after
        /\ p \in Places
    BY <1>0 DEF PlaceOK, Placed, Base, InTurn, Errands, ThreadStates, Places
  <1> HIDE DEF p
  <1>6. CASE mq[th[t].ref].in_global
    <2>0. /\ global' = global
          /\ ctxMem' = [ctxMem EXCEPT ![th[t].ref] = "freed"] /\ total' = total - 1
          /\ UNCHANGED <<slot, ref, init, mqMem, sleep, quit, fate>>
          /\ \A s : Listed(s)' => Listed(s)
      BY <1>1, <1>6, ListFacts DEF mark_release
    <2> DEFINE r == [th[t] EXCEPT !.pc = p, !.ref = None]
    <2>1. th' = [th EXCEPT ![t] = r]
      BY <1>0, <1>4
    <2>2. r \in ThreadStates /\ Has(r, p, th[t].after, th[t].msg, th[t].q, th[t].ctx, th[t].nq, th[t].dq, th[t].dst, None, th[t].born)
      <3>0. th[t] \in ThreadStates /\ p \in Places
        BY <1>0, <1>5
      <3>1. r \in ThreadStates
        BY <3>0 DEF ThreadStates
      <3>2. Has(r, p, th[t].after, th[t].msg, th[t].q, th[t].ctx, th[t].nq, th[t].dq, th[t].dst, None, th[t].born)
        BY <3>0 DEF ThreadStates, Has
      <3> QED BY <3>1, <3>2
    <2> HIDE DEF r
    <2>3. PlaceOK(t, r)
      BY <1>0, <1>5, <2>2 DEF PlaceOK, Placed, Base, InTurn, Errands, Has
    <2>4. Solo(t) /\ th'[t] = r
      BY <1>0, <2>1, <2>2, MoveSolo
    <2>5. /\ ~Asleep(th[t]) /\ ~Asleep(r)
          /\ (Base(r) = "drop" => Base(th[t]) = "drop") /\ Steady(r) /\ Launched(r) = Launched(th[t])
          /\ r.pc = "pushnew" => r.dst = th[t].ref
      BY <1>0, <2>0, <2>2, <2>3, <1>5 DEF Asleep, SameRefs, Steady, Launched, PlaceOK, Placed, Base, InTurn, Errands, Has
    <2>6. LifeStep
      <3>1. Deleted(t, th[t].ref)
        BY <1>0, <2>0, <2>2, <2>4, <2>5, <1>1, <1>3 DEF Deleted, MarksSame, memVars, queueVars, Has
      <3> QED BY <1>0, <1>1, <3>1 DEF LifeStep
    <2>7. TurnStep
      <3>1. BusySame
        BY <1>1, <1>2, <1>3, <1>6, <2>0 DEF BusySame, Busy
      <3>2. Apart(r) /\ \A s \in Services : Holds(r, s) <=> Holds(th[t], s)
        BY <1>0, <2>0, <2>2, <2>5, TurnFacts, NodeAssumption DEF Apart, Holds, Has
      <3> QED BY <1>0, <2>0, <2>4, <3>1, <3>2, TurnSameSolo DEF queueVars
    <2>8. FoundOK(t)
      <3>1. \A s \in Services : Shows(r, s) => Shows(th[t], s) \/ s = th[t].ref
        BY <1>0, <2>0, <2>2, <2>5, NodeAssumption DEF Shows, Has
      <3>2. r.ctx = th[t].ctx
        BY <1>0, <2>0, <2>2 DEF Has
      <3>3. \A s \in Services : (Shows(th[t], s) => Found(s)) /\ (Listed(s) => Found(s))
        BY <1>0, TurnFacts
      <3> QED BY <1>0, <2>0, <2>4, <3>1, <3>2, <3>3, <1>1, <1>2, <1>3 DEF FoundOK, memVars, queueVars, Found
    <2>9. RingsOK /\ DropOK(t) /\ SmallTypes' /\ sleep' = sleep
      <3>1. r.dq = th[t].dq /\ (Base(th[t]) = "drop" => ctxMem[th[t].dq] = "freed")
        BY <1>0, <2>2 DEF NodeInv, QueueInv, Has
      <3>2. SmallTypes
        BY TypesIs DEF NodeInv
      <3>3. SmallTypes'
        BY <2>0, <3>2 DEF SmallTypes
      <3>4. \A s \in Services : ctxMem[s] = "freed" => ctxMem'[s] = "freed"
        BY <2>0, <3>2 DEF SmallTypes
      <3>5. Base(r) = "drop" => th[t].dq \in Services
        BY <1>0, <2>5, ThreadFacts DEF PlaceOK, Placed
      <3> QED BY <1>3, <2>0, <2>4, <2>5, <3>1, <3>3, <3>4, <3>5 DEF DropOK
    <2> QED BY <1>0, <2>1, <2>2, <2>3, <2>5, <2>6, <2>7, <2>8, <2>9, SoloStep
  <1>7. CASE ~mq[th[t].ref].in_global
    <2>0. /\ global' = Append(global, th[t].ref)
          /\ ctxMem' = [ctxMem EXCEPT ![th[t].ref] = "freed"] /\ total' = total - 1
          /\ UNCHANGED <<slot, ref, init, mqMem, sleep, quit, fate>>
          /\ \A s : Listed(s)' => Listed(s) \/ s = th[t].ref
      BY <1>1, <1>7, ListFacts DEF mark_release
    <2> DEFINE r == [th[t] EXCEPT !.pc = p, !.ref = None]
    <2>1. th' = [th EXCEPT ![t] = r]
      BY <1>0, <1>4
    <2>2. r \in ThreadStates /\ Has(r, p, th[t].after, th[t].msg, th[t].q, th[t].ctx, th[t].nq, th[t].dq, th[t].dst, None, th[t].born)
      <3>0. th[t] \in ThreadStates /\ p \in Places
        BY <1>0, <1>5
      <3>1. r \in ThreadStates
        BY <3>0 DEF ThreadStates
      <3>2. Has(r, p, th[t].after, th[t].msg, th[t].q, th[t].ctx, th[t].nq, th[t].dq, th[t].dst, None, th[t].born)
        BY <3>0 DEF ThreadStates, Has
      <3> QED BY <3>1, <3>2
    <2> HIDE DEF r
    <2>3. PlaceOK(t, r)
      BY <1>0, <1>5, <2>2 DEF PlaceOK, Placed, Base, InTurn, Errands, Has
    <2>4. Solo(t) /\ th'[t] = r
      BY <1>0, <2>1, <2>2, MoveSolo
    <2>5. /\ ~Asleep(th[t]) /\ ~Asleep(r)
          /\ (Base(r) = "drop" => Base(th[t]) = "drop") /\ Steady(r) /\ Launched(r) = Launched(th[t])
          /\ r.pc = "pushnew" => r.dst = th[t].ref
      BY <1>0, <2>0, <2>2, <2>3, <1>5 DEF Asleep, SameRefs, Steady, Launched, PlaceOK, Placed, Base, InTurn, Errands, Has
    <2>6. LifeStep
      <3>1. Deleted(t, th[t].ref)
        BY <1>0, <2>0, <2>2, <2>4, <2>5, <1>1, <1>3 DEF Deleted, MarksSame, memVars, queueVars, Has
      <3> QED BY <1>0, <1>1, <3>1 DEF LifeStep
    <2>7. TurnStep
      <3>1. \A s \in Services : Busy(s)' <=> Busy(s) \/ s = th[t].ref
        BY <1>1, <1>2, <1>3, <2>0 DEF Busy
      <3>2. Apart(r) /\ \A s \in Services : Holds(r, s) <=> Holds(th[t], s)
        BY <1>0, <2>0, <2>2, <2>5, TurnFacts, NodeAssumption DEF Apart, Holds, Has
      <3>3. HandsSame
        BY <2>4, <3>2, TurnFacts DEF HandsSame, Solo
      <3>4. ~Busy(th[t].ref)
        BY <1>2, <1>7 DEF Busy
      <3>5. TurnMade(th[t].ref)
        BY <2>0, <3>1, <3>3, <3>4 DEF TurnMade
      <3> QED BY <1>1, <3>5 DEF TurnStep
    <2>8. FoundOK(t)
      <3>1. \A s \in Services : Shows(r, s) => Shows(th[t], s) \/ s = th[t].ref
        BY <1>0, <2>0, <2>2, <2>5, NodeAssumption DEF Shows, Has
      <3>2. r.ctx = th[t].ctx
        BY <1>0, <2>0, <2>2 DEF Has
      <3>3. \A s \in Services : (Shows(th[t], s) => Found(s)) /\ (Listed(s) => Found(s))
        BY <1>0, TurnFacts
      <3> QED BY <1>0, <2>0, <2>4, <3>1, <3>2, <3>3, <1>1, <1>2, <1>3 DEF FoundOK, memVars, queueVars, Found
    <2>9. RingsOK /\ DropOK(t) /\ SmallTypes' /\ sleep' = sleep
      <3>1. r.dq = th[t].dq /\ (Base(th[t]) = "drop" => ctxMem[th[t].dq] = "freed")
        BY <1>0, <2>2 DEF NodeInv, QueueInv, Has
      <3>2. SmallTypes
        BY TypesIs DEF NodeInv
      <3>3. SmallTypes'
        BY <2>0, <3>2 DEF SmallTypes
      <3>4. \A s \in Services : ctxMem[s] = "freed" => ctxMem'[s] = "freed"
        BY <2>0, <3>2 DEF SmallTypes
      <3>5. Base(r) = "drop" => th[t].dq \in Services
        BY <1>0, <2>5, ThreadFacts DEF PlaceOK, Placed
      <3> QED BY <1>3, <2>0, <2>4, <2>5, <3>1, <3>3, <3>4, <3>5 DEF DropOK
    <2> QED BY <1>0, <2>1, <2>2, <2>3, <2>5, <2>6, <2>7, <2>8, <2>9, SoloStep
  <1> QED BY <1>6, <1>7

----------------------------------------------------------------------------
(* The life of a service *)

\* skynet_handle_retire frees the slot of a service that is in the table.
LEMMA FreeSlotSets ==
    ASSUME NodeInv, NEW s \in Services, FreeSlot(s)
    PROVE  /\ slot[s] = "set" => slot' = [slot EXCEPT ![s] = "free"]
           /\ slot[s] # "set" => slot' = slot
           /\ slot' \in [Services -> {"free", "unset", "set"}] /\ slot'[s] # "set"
           /\ \A x \in Services : slot'[x] = "set" => slot[x] = "set"
  BY DEF FreeSlot, NodeInv, TypeOK

LEMMA KillKeeps ==
    ASSUME NodeInv, NEW w \in Workers, NEW s \in Services, Kill(w, s)
    PROVE  NodeInv'
  <1>0. w \in Threads /\ th[w] \in ThreadStates /\ PlaceOK(w, th[w])
        /\ th \in [Threads -> ThreadStates] /\ th[w].pc = "callback"
    BY ThreadFacts, ThreadsFinite DEF NodeInv, TypeOK, Kill, At
  <1>1. CASE TRUE
    <2>0. /\ UNCHANGED <<ref, init, ctxMem, total, queueVars, sleep, quit, fate>>
          /\ s \in Services /\ slot[s] = "set" /\ slot' = [slot EXCEPT ![s] = "free"]
          /\ slot' \in [Services -> {"free", "unset", "set"}] /\ slot'[s] # "set"
          /\ \A x \in Services : slot'[x] = "set" => slot[x] = "set"
          /\ \A x : Listed(x)' => Listed(x)
      BY ListFacts, FreeSlotSets DEF Kill, queueVars
    <2> DEFINE r == [th[w] EXCEPT !.pc = "release", !.ref = s, !.after = "callback"]
    <2>1. th' = [th EXCEPT ![w] = r]
      BY <1>0 DEF Kill, RetireThen, ReleaseThen
    <2>2. r \in ThreadStates /\ Has(r, "release", "callback", th[w].msg, th[w].q, th[w].ctx, th[w].nq, th[w].dq, th[w].dst, s, th[w].born)
      <3>0. th[w] \in ThreadStates /\ s \in Services
        BY <1>0
      <3>1. r \in ThreadStates
        BY <3>0, ZenonT(40) DEF ThreadStates, Places
      <3>2. Has(r, "release", "callback", th[w].msg, th[w].q, th[w].ctx, th[w].nq, th[w].dq, th[w].dst, s, th[w].born)
        BY <3>0 DEF ThreadStates, Has
      <3> QED BY <3>1, <3>2
    <2> HIDE DEF r
    <2>3. PlaceOK(w, r)
      BY <1>0, NodeAssumption, <2>2 DEF PlaceOK, Placed, Base, InTurn, Errands, Has
    <2>4. Solo(w) /\ th'[w] = r
      BY <1>0, <2>1, <2>2, MoveSolo
    <2>5. /\ ~Asleep(th[w]) /\ ~Asleep(r)
          /\ Base(r) # "drop" /\ Steady(r) /\ Steady(th[w]) /\ th[w].ref = None /\ th[w].pc # "pushnew"
          /\ Launched(r) = None /\ Launched(th[w]) = None /\ r.pc # "pushnew"
      BY <1>0, <2>0, <2>2, <2>3 DEF Asleep, SameRefs, Steady, Launched, PlaceOK, Placed, Base, InTurn, Errands, Has
    <2>6. LifeStep
      <3>1. Retired(w, s)
        BY <1>0, <2>0, <2>2, <2>4, <2>5 DEF Retired, MarksSame, memVars, queueVars, Has
      <3> QED BY <1>0, <2>0, <3>1 DEF LifeStep
    <2>7. TurnStep
      <3>1. BusySame
        BY <2>0 DEF BusySame, Busy, queueVars
      <3>2. Apart(r) /\ \A x \in Services : Holds(r, x) <=> Holds(th[w], x)
        BY <1>0, <2>0, <2>2, <2>5, TurnFacts, NodeAssumption DEF Apart, Holds, Has
      <3> QED BY <1>0, <2>0, <2>4, <3>1, <3>2, TurnSameSolo DEF queueVars
    <2>8. FoundOK(w)
      <3>1. \A x \in Services : Shows(r, x) => Shows(th[w], x)
        BY <1>0, <2>0, <2>2, <2>5, NodeAssumption DEF Shows, Has
      <3>2. r.ctx = th[w].ctx
        BY <1>0, <2>0, <2>2 DEF Has
      <3>3. \A x \in Services : (Shows(th[w], x) => Found(x)) /\ (Listed(x) => Found(x))
        BY <1>0, TurnFacts
      <3> QED BY <1>0, <2>0, <2>4, <3>1, <3>2, <3>3 DEF FoundOK, memVars, queueVars, Found
    <2>9. RingsOK /\ DropOK(w) /\ SmallTypes' /\ sleep' = sleep
      BY <2>0, <2>4, <2>5, RingFacts, TypesIs DEF RingsOK, DropOK, SmallTypes, queueVars, memVars, NodeInv
    <2> QED BY <1>0, <2>1, <2>2, <2>3, <2>5, <2>6, <2>7, <2>8, <2>9, SoloStep
  <1> QED BY <1>1

LEMMA VisitSlotKeeps ==
    ASSUME NodeInv, NEW w \in Workers, NEW s \in Services, VisitSlot(w, s)
    PROVE  NodeInv'
  <1>0. w \in Threads /\ th[w] \in ThreadStates /\ PlaceOK(w, th[w])
        /\ th \in [Threads -> ThreadStates] /\ th[w].pc = "scan"
    BY ThreadFacts, ThreadsFinite DEF NodeInv, TypeOK, VisitSlot, At
  <1> DEFINE c == th[w].scan \ {s}
             f == th[w].found \/ slot[s] = "set"
  <1>1. c \in SUBSET Services /\ f \in BOOLEAN
    BY <1>0 DEF ThreadStates
  <1>2. /\ slot[s] = "set" => th' = [th EXCEPT ![w] = [th[w] EXCEPT !.scan = c, !.found = f, !.pc = "release", !.ref = s, !.after = "scan"]]
        /\ slot[s] # "set" => th' = [th EXCEPT ![w] = [th[w] EXCEPT !.scan = c, !.found = f, !.pc = "scan"]]
    <2> DEFINE a == [th[w] EXCEPT !.scan = c, !.found = f]
    <2>1. th' = [th EXCEPT ![w] = RetireThen(a, s, "scan")]
      BY <1>0 DEF VisitSlot
    <2> QED BY <2>1 DEF RetireThen, ReleaseThen
  <1> HIDE DEF c, f
  <1>3. CASE slot[s] = "set"
    <2>0. /\ UNCHANGED <<ref, init, ctxMem, total, queueVars, sleep, quit, fate>>
          /\ s \in Services /\ slot[s] = "set" /\ slot' = [slot EXCEPT ![s] = "free"]
          /\ slot' \in [Services -> {"free", "unset", "set"}] /\ slot'[s] # "set"
          /\ \A x \in Services : slot'[x] = "set" => slot[x] = "set"
          /\ \A x : Listed(x)' => Listed(x)
      BY <1>3, ListFacts, FreeSlotSets DEF VisitSlot, queueVars
    <2> DEFINE r == [th[w] EXCEPT !.scan = c, !.found = f, !.pc = "release", !.ref = s, !.after = "scan"]
    <2>1. th' = [th EXCEPT ![w] = r]
      BY <1>2, <1>3
    <2>2. r \in ThreadStates /\ Has(r, "release", "scan", th[w].msg, th[w].q, th[w].ctx, th[w].nq, th[w].dq, th[w].dst, s, th[w].born)
      <3>0. th[w] \in ThreadStates /\ s \in Services /\ c \in SUBSET Services /\ f \in BOOLEAN
        BY <1>0, <1>1
      <3>1. r \in ThreadStates
        BY <3>0, ZenonT(40) DEF ThreadStates, Places
      <3>2. Has(r, "release", "scan", th[w].msg, th[w].q, th[w].ctx, th[w].nq, th[w].dq, th[w].dst, s, th[w].born)
        BY <3>0 DEF ThreadStates, Has
      <3> QED BY <3>1, <3>2
    <2> HIDE DEF r
    <2>3. PlaceOK(w, r)
      BY <1>0, NodeAssumption, <2>2 DEF PlaceOK, Placed, Base, InTurn, Errands, Has
    <2>4. Solo(w) /\ th'[w] = r
      BY <1>0, <2>1, <2>2, MoveSolo
    <2>5. /\ ~Asleep(th[w]) /\ ~Asleep(r)
          /\ Base(r) # "drop" /\ Steady(r) /\ Steady(th[w]) /\ th[w].ref = None /\ th[w].pc # "pushnew"
          /\ Launched(r) = None /\ Launched(th[w]) = None /\ r.pc # "pushnew"
      BY <1>0, <2>0, <2>2, <2>3 DEF Asleep, SameRefs, Steady, Launched, PlaceOK, Placed, Base, InTurn, Errands, Has
    <2>6. LifeStep
      <3>1. Retired(w, s)
        BY <1>0, <2>0, <2>2, <2>4, <2>5 DEF Retired, MarksSame, memVars, queueVars, Has
      <3> QED BY <1>0, <2>0, <3>1 DEF LifeStep
    <2>7. TurnStep
      <3>1. BusySame
        BY <2>0 DEF BusySame, Busy, queueVars
      <3>2. Apart(r) /\ \A x \in Services : Holds(r, x) <=> Holds(th[w], x)
        BY <1>0, <2>0, <2>2, <2>5, TurnFacts, NodeAssumption DEF Apart, Holds, Has
      <3> QED BY <1>0, <2>0, <2>4, <3>1, <3>2, TurnSameSolo DEF queueVars
    <2>8. FoundOK(w)
      <3>1. \A x \in Services : Shows(r, x) => Shows(th[w], x)
        BY <1>0, <2>0, <2>2, <2>5, NodeAssumption DEF Shows, Has
      <3>2. r.ctx = th[w].ctx
        BY <1>0, <2>0, <2>2 DEF Has
      <3>3. \A x \in Services : (Shows(th[w], x) => Found(x)) /\ (Listed(x) => Found(x))
        BY <1>0, TurnFacts
      <3> QED BY <1>0, <2>0, <2>4, <3>1, <3>2, <3>3 DEF FoundOK, memVars, queueVars, Found
    <2>9. RingsOK /\ DropOK(w) /\ SmallTypes' /\ sleep' = sleep
      BY <2>0, <2>4, <2>5, RingFacts, TypesIs DEF RingsOK, DropOK, SmallTypes, queueVars, memVars, NodeInv
    <2> QED BY <1>0, <2>1, <2>2, <2>3, <2>5, <2>6, <2>7, <2>8, <2>9, SoloStep
  <1>4. CASE slot[s] # "set"
    <2>0. slot' = slot /\ UNCHANGED <<ref, init, ctxMem, total, queueVars, sleep, quit, fate>>
      BY <1>4, FreeSlotSets DEF VisitSlot
    <2> DEFINE r == [th[w] EXCEPT !.scan = c, !.found = f, !.pc = "scan"]
    <2>1. th' = [th EXCEPT ![w] = r]
      BY <1>2, <1>4
    <2>2. r \in ThreadStates /\ Has(r, "scan", th[w].after, th[w].msg, th[w].q, th[w].ctx, th[w].nq, th[w].dq, th[w].dst, th[w].ref, th[w].born)
      <3>0. th[w] \in ThreadStates /\ c \in SUBSET Services /\ f \in BOOLEAN
        BY <1>0, <1>1
      <3>1. r \in ThreadStates
        BY <3>0, ZenonT(40) DEF ThreadStates, Places
      <3>2. Has(r, "scan", th[w].after, th[w].msg, th[w].q, th[w].ctx, th[w].nq, th[w].dq, th[w].dst, th[w].ref, th[w].born)
        BY <3>0 DEF ThreadStates, Has
      <3> QED BY <3>1, <3>2
    <2> HIDE DEF r
    <2>3. PlaceOK(w, r)
      BY <1>0, <1>1, <2>2 DEF PlaceOK, Placed, Base, InTurn, Errands, Has
    <2>4. Alike(th[w], r) /\ ~Asleep(th[w]) /\ ~Asleep(r)
      BY <1>0, <2>2 DEF Alike, SameRefs, Launched, Asleep, PlaceOK, Placed, Base, InTurn, Errands, Has
    <2>5. Base(r) # "drop"
      BY <2>2 DEF Base, Errands, Has
    <2> QED BY <1>0, <2>0, <2>1, <2>2, <2>3, <2>4, <2>5, QuietStep DEF memVars, NodeInv, TypeOK
  <1> QED BY <1>3, <1>4

LEMMA RetireUnbornKeeps ==
    ASSUME NodeInv, NEW w \in Workers, RetireUnborn(w)
    PROVE  NodeInv'
  <1>0. w \in Threads /\ th[w] \in ThreadStates /\ PlaceOK(w, th[w])
        /\ th \in [Threads -> ThreadStates] /\ th[w].pc = "unborn"
    BY ThreadFacts, ThreadsFinite DEF NodeInv, TypeOK, RetireUnborn, At
  <1>1. th[w].dst \in Services /\ th[w].dst # None /\ FreeSlot(th[w].dst) /\ UNCHANGED <<ref, init, ctxMem, total, queueVars, sleep, quit, fate>>
    BY <1>0, NodeAssumption DEF PlaceOK, Placed, Base, InTurn, Errands, ThreadStates, RetireUnborn
  <1>2. CASE slot[th[w].dst] = "set"
    <2>0. /\ UNCHANGED <<ref, init, ctxMem, total, queueVars, sleep, quit, fate>>
          /\ th[w].dst \in Services /\ slot[th[w].dst] = "set" /\ slot' = [slot EXCEPT ![th[w].dst] = "free"]
          /\ slot' \in [Services -> {"free", "unset", "set"}] /\ slot'[th[w].dst] # "set"
          /\ \A x \in Services : slot'[x] = "set" => slot[x] = "set"
          /\ \A x : Listed(x)' => Listed(x)
      BY <1>1, <1>2, ListFacts, FreeSlotSets DEF queueVars
    <2> DEFINE r == [th[w] EXCEPT !.dq = th[w].dst, !.dst = None, !.pc = "release", !.ref = th[w].dst, !.after = "mqrelease"]
    <2>1. th' = [th EXCEPT ![w] = r]
      BY <1>0, <1>2 DEF RetireUnborn, RetireThen, ReleaseThen
    <2>2. r \in ThreadStates /\ Has(r, "release", "mqrelease", th[w].msg, th[w].q, th[w].ctx, th[w].nq, th[w].dst, None, th[w].dst, th[w].born)
      <3>0. th[w] \in ThreadStates /\ th[w].dst \in Services
        BY <1>0, <1>1
      <3>1. r \in ThreadStates
        BY <3>0, ZenonT(40) DEF ThreadStates, Places
      <3>2. Has(r, "release", "mqrelease", th[w].msg, th[w].q, th[w].ctx, th[w].nq, th[w].dst, None, th[w].dst, th[w].born)
        BY <3>0 DEF ThreadStates, Has
      <3> QED BY <3>1, <3>2
    <2> HIDE DEF r
    <2>3. PlaceOK(w, r)
      BY <1>0, <1>1, <2>2 DEF PlaceOK, Placed, Base, InTurn, Errands, Has
    <2>4. Solo(w) /\ th'[w] = r
      BY <1>0, <2>1, <2>2, MoveSolo
    <2>5. /\ ~Asleep(th[w]) /\ ~Asleep(r)
          /\ Base(r) # "drop" /\ Steady(r) /\ Steady(th[w]) /\ th[w].ref = None
          /\ Launched(r) = None /\ Launched(th[w]) = th[w].dst /\ r.pc # "pushnew"
          /\ th[w].nq = None /\ th[w].dq = None
      BY <1>0, <2>0, <2>2, <2>3 DEF Asleep, SameRefs, Steady, Launched, PlaceOK, Placed, Base, InTurn, Errands, Has
    <2>6. LifeStep
      <3>1. Retired(w, th[w].dst)
        BY <1>0, <2>0, <2>2, <2>4, <2>5 DEF Retired, MarksSame, memVars, queueVars, Has
      <3> QED BY <1>0, <2>0, <3>1 DEF LifeStep
    <2>7. TurnStep
      <3>1. BusySame
        BY <2>0 DEF BusySame, Busy, queueVars
      <3>2. Apart(r) /\ \A x \in Services : Holds(r, x) <=> Holds(th[w], x)
        BY <1>0, <2>0, <2>2, <2>5, TurnFacts, NodeAssumption DEF Apart, Holds, Has
      <3> QED BY <1>0, <2>0, <2>4, <3>1, <3>2, TurnSameSolo DEF queueVars
    <2>8. FoundOK(w)
      <3>1. \A x \in Services : Shows(r, x) => Shows(th[w], x) \/ x = th[w].dst
        BY <1>0, <2>0, <2>2, <2>5, NodeAssumption DEF Shows, Has
      <3>2. r.ctx = th[w].ctx
        BY <1>0, <2>0, <2>2 DEF Has
      <3>3. \A x \in Services : (Shows(th[w], x) => Found(x)) /\ (Listed(x) => Found(x))
        BY <1>0, TurnFacts
      <3> QED BY <1>0, <2>0, <2>4, <3>1, <3>2, <3>3 DEF FoundOK, memVars, queueVars, Found
    <2>9. RingsOK /\ DropOK(w) /\ SmallTypes' /\ sleep' = sleep
      BY <2>0, <2>4, <2>5, RingFacts, TypesIs DEF RingsOK, DropOK, SmallTypes, queueVars, memVars, NodeInv
    <2> QED BY <1>0, <2>1, <2>2, <2>3, <2>5, <2>6, <2>7, <2>8, <2>9, SoloStep
  <1>3. CASE slot[th[w].dst] # "set"
    <2>0. /\ UNCHANGED <<ref, init, ctxMem, total, queueVars, sleep, quit, fate>>
          /\ slot' = slot /\ slot[th[w].dst] # "set"
          /\ \A x : Listed(x)' => Listed(x)
      BY <1>1, <1>3, ListFacts, FreeSlotSets DEF queueVars
    <2> DEFINE r == [th[w] EXCEPT !.dq = th[w].dst, !.dst = None, !.pc = "mqrelease"]
    <2>1. th' = [th EXCEPT ![w] = r]
      BY <1>0, <1>3 DEF RetireUnborn, RetireThen
    <2>2. r \in ThreadStates /\ Has(r, "mqrelease", th[w].after, th[w].msg, th[w].q, th[w].ctx, th[w].nq, th[w].dst, None, th[w].ref, th[w].born)
      <3>0. th[w] \in ThreadStates /\ th[w].dst \in Services
        BY <1>0, <1>1
      <3>1. r \in ThreadStates
        BY <3>0, ZenonT(40) DEF ThreadStates, Places
      <3>2. Has(r, "mqrelease", th[w].after, th[w].msg, th[w].q, th[w].ctx, th[w].nq, th[w].dst, None, th[w].ref, th[w].born)
        BY <3>0 DEF ThreadStates, Has
      <3> QED BY <3>1, <3>2
    <2> HIDE DEF r
    <2>3. PlaceOK(w, r)
      BY <1>0, <1>1, <2>2 DEF PlaceOK, Placed, Base, InTurn, Errands, Has
    <2>4. Solo(w) /\ th'[w] = r
      BY <1>0, <2>1, <2>2, MoveSolo
    <2>5. /\ ~Asleep(th[w]) /\ ~Asleep(r)
          /\ Base(r) # "drop" /\ SameRefs(th[w], r)
          /\ Launched(r) = None /\ Launched(th[w]) = th[w].dst /\ r.pc # "pushnew"
          /\ th[w].nq = None /\ th[w].dq = None
      BY <1>0, <2>0, <2>2, <2>3 DEF Asleep, SameRefs, Steady, Launched, PlaceOK, Placed, Base, InTurn, Errands, Has
    <2>6. LifeStep
      BY <1>0, <2>0, <2>4, <2>5 DEF LifeStep, LifeSame, MarksSame, Solo, SameRefs, memVars, queueVars
    <2>7. TurnStep
      <3>1. BusySame
        BY <2>0 DEF BusySame, Busy, queueVars
      <3>2. Apart(r) /\ \A x \in Services : Holds(r, x) <=> Holds(th[w], x)
        BY <1>0, <2>0, <2>2, <2>5, TurnFacts, NodeAssumption DEF Apart, Holds, Has
      <3> QED BY <1>0, <2>0, <2>4, <3>1, <3>2, TurnSameSolo DEF queueVars
    <2>8. FoundOK(w)
      <3>1. \A x \in Services : Shows(r, x) => Shows(th[w], x) \/ x = th[w].dst
        BY <1>0, <2>0, <2>2, <2>5, NodeAssumption DEF Shows, Has
      <3>2. r.ctx = th[w].ctx
        BY <1>0, <2>0, <2>2 DEF Has
      <3>3. \A x \in Services : (Shows(th[w], x) => Found(x)) /\ (Listed(x) => Found(x))
        BY <1>0, TurnFacts
      <3> QED BY <1>0, <2>0, <2>4, <3>1, <3>2, <3>3 DEF FoundOK, memVars, queueVars, Found
    <2>9. RingsOK /\ DropOK(w) /\ SmallTypes' /\ sleep' = sleep
      BY <2>0, <2>4, <2>5, RingFacts, TypesIs DEF RingsOK, DropOK, SmallTypes, memVars, queueVars, NodeInv
    <2> QED BY <1>0, <2>1, <2>2, <2>3, <2>5, <2>6, <2>7, <2>8, <2>9, SoloStep
  <1> QED BY <1>2, <1>3

LEMMA LaunchKeeps ==
    ASSUME NodeInv, NEW w \in Workers, NEW s \in Services, Launch(w, s)
    PROVE  NodeInv'
  <1>0. w \in Threads /\ th[w] \in ThreadStates /\ PlaceOK(w, th[w])
        /\ th \in [Threads -> ThreadStates] /\ th[w].pc = "callback"
    BY ThreadFacts, ThreadsFinite DEF NodeInv, TypeOK, Launch, At
  <1>1. CASE TRUE
    <2>0. /\ UNCHANGED <<init, total, queueVars, sleep, quit, fate>>
          /\ ctxMem[s] = "none" /\ ctxMem' = [ctxMem EXCEPT ![s] = "alive"]
          /\ slot' = [slot EXCEPT ![s] = "unset"] /\ ref' = [ref EXCEPT ![s] = 2]
          /\ \A x : Listed(x)' => Listed(x)
      BY ListFacts DEF Launch, queueVars
    <2> DEFINE r == [th[w] EXCEPT !.pc = "newqueue", !.born = s]
    <2>1. th' = [th EXCEPT ![w] = r]
      BY <1>0 DEF Launch
    <2>2. r \in ThreadStates /\ Has(r, "newqueue", th[w].after, th[w].msg, th[w].q, th[w].ctx, th[w].nq, th[w].dq, th[w].dst, th[w].ref, s)
      <3>0. th[w] \in ThreadStates /\ s \in Services
        BY <1>0
      <3>1. r \in ThreadStates
        BY <3>0, ZenonT(40) DEF ThreadStates, Places
      <3>2. Has(r, "newqueue", th[w].after, th[w].msg, th[w].q, th[w].ctx, th[w].nq, th[w].dq, th[w].dst, th[w].ref, s)
        BY <3>0 DEF ThreadStates, Has
      <3> QED BY <3>1, <3>2
    <2> HIDE DEF r
    <2>3. PlaceOK(w, r)
      BY <1>0, NodeAssumption, <2>2 DEF PlaceOK, Placed, Base, InTurn, Errands, Has
    <2>4. Solo(w) /\ th'[w] = r
      BY <1>0, <2>1, <2>2, MoveSolo
    <2>5. /\ ~Asleep(th[w]) /\ ~Asleep(r)
          /\ Base(r) # "drop" /\ Steady(th[w]) /\ th[w].born = None /\ th[w].pc # "pushnew"
          /\ Launched(r) = None /\ Launched(th[w]) = None /\ r.pc # "pushnew"
      BY <1>0, <2>0, <2>2, <2>3 DEF Asleep, SameRefs, Steady, Launched, PlaceOK, Placed, Base, InTurn, Errands, Has
    <2>6. LifeStep
      <3>1. Entered(w, s)
        BY <1>0, <2>0, <2>2, <2>4, <2>5 DEF Entered, MarksSame, memVars, queueVars, Has
      <3> QED BY <1>0, <2>0, <3>1 DEF LifeStep
    <2>7. TurnStep
      <3>1. BusySame
        BY <2>0 DEF BusySame, Busy, queueVars
      <3>2. Apart(r) /\ \A x \in Services : Holds(r, x) <=> Holds(th[w], x)
        BY <1>0, <2>0, <2>2, <2>5, TurnFacts, NodeAssumption DEF Apart, Holds, Has
      <3> QED BY <1>0, <2>0, <2>4, <3>1, <3>2, TurnSameSolo DEF queueVars
    <2>8. FoundOK(w)
      <3>1. \A x \in Services : Shows(r, x) => Shows(th[w], x)
        BY <1>0, <2>0, <2>2, <2>5, NodeAssumption DEF Shows, Has
      <3>4. \A x \in Services : slot'[x] = "set" => slot[x] = "set"
        BY <2>0 DEF NodeInv, TypeOK
      <3>2. r.ctx = th[w].ctx
        BY <1>0, <2>0, <2>2 DEF Has
      <3>3. \A x \in Services : (Shows(th[w], x) => Found(x)) /\ (Listed(x) => Found(x))
        BY <1>0, TurnFacts
      <3> QED BY <1>0, <2>0, <2>4, <3>1, <3>2, <3>3, <3>4 DEF FoundOK, memVars, queueVars, Found
    <2>9. RingsOK /\ DropOK(w) /\ SmallTypes' /\ sleep' = sleep
      <3>1. SmallTypes
        BY TypesIs DEF NodeInv
      <3>2. SmallTypes'
        BY <2>0, <3>1 DEF SmallTypes, queueVars
      <3>3. \A x \in Services : ctxMem[x] = "freed" => ctxMem'[x] = "freed"
        BY <2>0, <3>1 DEF SmallTypes, queueVars
      <3> QED BY <2>0, <2>4, <2>5, <3>2, <3>3, RingFacts DEF RingsOK, DropOK, queueVars
    <2> QED BY <1>0, <2>1, <2>2, <2>3, <2>5, <2>6, <2>7, <2>8, <2>9, SoloStep
  <1> QED BY <1>1

LEMMA InitSucceedsKeeps ==
    ASSUME NodeInv, NEW w \in Workers, InitSucceeds(w)
    PROVE  NodeInv'
  <1>0. w \in Threads /\ th[w] \in ThreadStates /\ PlaceOK(w, th[w])
        /\ th \in [Threads -> ThreadStates] /\ th[w].pc = "init"
    BY ThreadFacts, ThreadsFinite DEF NodeInv, TypeOK, InitSucceeds, At
  <1>1. CASE TRUE
    <2>0. /\ UNCHANGED <<memVars, queueVars, sleep, quit, fate>>
          /\ th[w].born \in Services /\ th[w].born # None
          /\ \A s : Listed(s)' => Listed(s)
      BY <1>0, ListFacts, NodeAssumption DEF InitSucceeds, queueVars, PlaceOK, Placed, Base, InTurn, Errands, ThreadStates
    <2> DEFINE r == [th[w] EXCEPT !.born = None, !.dst = th[w].born, !.pc = "release", !.ref = th[w].born, !.after = "setinit"]
    <2>1. th' = [th EXCEPT ![w] = r]
      BY <1>0 DEF InitSucceeds, ReleaseThen
    <2>2. r \in ThreadStates /\ Has(r, "release", "setinit", th[w].msg, th[w].q, th[w].ctx, th[w].nq, th[w].dq, th[w].born, th[w].born, None)
      <3>0. th[w] \in ThreadStates /\ th[w].born \in Services
        BY <1>0, <2>0
      <3>1. r \in ThreadStates
        BY <3>0, ZenonT(60) DEF ThreadStates, Places
      <3>2. Has(r, "release", "setinit", th[w].msg, th[w].q, th[w].ctx, th[w].nq, th[w].dq, th[w].born, th[w].born, None)
        BY <3>0 DEF ThreadStates, Has
      <3> QED BY <3>1, <3>2
    <2> HIDE DEF r
    <2>3. PlaceOK(w, r)
      BY <1>0, <2>0, <2>2 DEF PlaceOK, Placed, Base, InTurn, Errands, Has
    <2>4. Solo(w) /\ th'[w] = r
      BY <1>0, <2>1, <2>2, MoveSolo
    <2>5. /\ ~Asleep(th[w]) /\ ~Asleep(r)
          /\ Base(r) # "drop" /\ Steady(r) /\ Steady(th[w]) /\ th[w].ref = None
          /\ Launched(r) = th[w].born /\ Launched(th[w]) = th[w].born /\ r.pc # "pushnew"
      BY <1>0, <2>0, <2>2, <2>3 DEF Asleep, SameRefs, Steady, Launched, PlaceOK, Placed, Base, InTurn, Errands, Has
    <2>6. LifeStep
      <3>1. HandedOver(w)
        BY <1>0, <2>0, <2>2, <2>4, <2>5 DEF HandedOver, MarksSame, memVars, queueVars, Has
      <3> QED BY <1>0, <2>0, <3>1 DEF LifeStep
    <2>7. TurnStep
      <3>1. BusySame
        BY <2>0 DEF BusySame, Busy, queueVars
      <3>2. Apart(r) /\ \A s \in Services : Holds(r, s) <=> Holds(th[w], s)
        BY <1>0, <2>0, <2>2, <2>5, TurnFacts, NodeAssumption DEF Apart, Holds, Has
      <3> QED BY <1>0, <2>0, <2>4, <3>1, <3>2, TurnSameSolo DEF queueVars
    <2>8. FoundOK(w)
      <3>1. \A s \in Services : Shows(r, s) => Shows(th[w], s)
        BY <1>0, <2>0, <2>2, <2>5, NodeAssumption DEF Shows, Has
      <3>2. r.ctx = th[w].ctx
        BY <1>0, <2>0, <2>2 DEF Has
      <3>3. \A s \in Services : (Shows(th[w], s) => Found(s)) /\ (Listed(s) => Found(s))
        BY <1>0, TurnFacts
      <3> QED BY <1>0, <2>0, <2>4, <3>1, <3>2, <3>3 DEF FoundOK, memVars, queueVars, Found
    <2>9. RingsOK /\ DropOK(w) /\ SmallTypes' /\ sleep' = sleep
      BY <2>0, <2>4, <2>5, RingFacts, TypesIs DEF RingsOK, DropOK, SmallTypes, memVars, queueVars, NodeInv
    <2> QED BY <1>0, <2>1, <2>2, <2>3, <2>5, <2>6, <2>7, <2>8, <2>9, SoloStep
  <1> QED BY <1>1

LEMMA InitFailsKeeps ==
    ASSUME NodeInv, NEW w \in Workers, InitFails(w)
    PROVE  NodeInv'
  <1>0. w \in Threads /\ th[w] \in ThreadStates /\ PlaceOK(w, th[w])
        /\ th \in [Threads -> ThreadStates] /\ th[w].pc = "init"
    BY ThreadFacts, ThreadsFinite DEF NodeInv, TypeOK, InitFails, At
  <1>1. CASE TRUE
    <2>0. /\ UNCHANGED <<memVars, queueVars, sleep, quit, fate>>
          /\ th[w].born \in Services /\ th[w].born # None
          /\ \A s : Listed(s)' => Listed(s)
      BY <1>0, ListFacts, NodeAssumption DEF InitFails, queueVars, PlaceOK, Placed, Base, InTurn, Errands, ThreadStates
    <2> DEFINE r == [th[w] EXCEPT !.born = None, !.dst = th[w].born, !.pc = "release", !.ref = th[w].born, !.after = "unborn"]
    <2>1. th' = [th EXCEPT ![w] = r]
      BY <1>0 DEF InitFails, ReleaseThen
    <2>2. r \in ThreadStates /\ Has(r, "release", "unborn", th[w].msg, th[w].q, th[w].ctx, th[w].nq, th[w].dq, th[w].born, th[w].born, None)
      <3>0. th[w] \in ThreadStates /\ th[w].born \in Services
        BY <1>0, <2>0
      <3>1. r \in ThreadStates
        BY <3>0, ZenonT(40) DEF ThreadStates, Places
      <3>2. Has(r, "release", "unborn", th[w].msg, th[w].q, th[w].ctx, th[w].nq, th[w].dq, th[w].born, th[w].born, None)
        BY <3>0 DEF ThreadStates, Has
      <3> QED BY <3>1, <3>2
    <2> HIDE DEF r
    <2>3. PlaceOK(w, r)
      BY <1>0, <2>0, <2>2 DEF PlaceOK, Placed, Base, InTurn, Errands, Has
    <2>4. Solo(w) /\ th'[w] = r
      BY <1>0, <2>1, <2>2, MoveSolo
    <2>5. /\ ~Asleep(th[w]) /\ ~Asleep(r)
          /\ Base(r) # "drop" /\ Steady(r) /\ Steady(th[w]) /\ th[w].ref = None
          /\ Launched(r) = th[w].born /\ Launched(th[w]) = th[w].born /\ r.pc # "pushnew"
      BY <1>0, <2>0, <2>2, <2>3 DEF Asleep, SameRefs, Steady, Launched, PlaceOK, Placed, Base, InTurn, Errands, Has
    <2>6. LifeStep
      <3>1. HandedOver(w)
        BY <1>0, <2>0, <2>2, <2>4, <2>5 DEF HandedOver, MarksSame, memVars, queueVars, Has
      <3> QED BY <1>0, <2>0, <3>1 DEF LifeStep
    <2>7. TurnStep
      <3>1. BusySame
        BY <2>0 DEF BusySame, Busy, queueVars
      <3>2. Apart(r) /\ \A s \in Services : Holds(r, s) <=> Holds(th[w], s)
        BY <1>0, <2>0, <2>2, <2>5, TurnFacts, NodeAssumption DEF Apart, Holds, Has
      <3> QED BY <1>0, <2>0, <2>4, <3>1, <3>2, TurnSameSolo DEF queueVars
    <2>8. FoundOK(w)
      <3>1. \A s \in Services : Shows(r, s) => Shows(th[w], s)
        BY <1>0, <2>0, <2>2, <2>5, NodeAssumption DEF Shows, Has
      <3>2. r.ctx = th[w].ctx
        BY <1>0, <2>0, <2>2 DEF Has
      <3>3. \A s \in Services : (Shows(th[w], s) => Found(s)) /\ (Listed(s) => Found(s))
        BY <1>0, TurnFacts
      <3> QED BY <1>0, <2>0, <2>4, <3>1, <3>2, <3>3 DEF FoundOK, memVars, queueVars, Found
    <2>9. RingsOK /\ DropOK(w) /\ SmallTypes' /\ sleep' = sleep
      BY <2>0, <2>4, <2>5, RingFacts, TypesIs DEF RingsOK, DropOK, SmallTypes, memVars, queueVars, NodeInv
    <2> QED BY <1>0, <2>1, <2>2, <2>3, <2>5, <2>6, <2>7, <2>8, <2>9, SoloStep
  <1> QED BY <1>1

LEMMA PushNewQueueKeeps ==
    ASSUME NodeInv, NEW w \in Workers, PushNewQueue(w)
    PROVE  NodeInv'
  <1>0. w \in Threads /\ th[w] \in ThreadStates /\ PlaceOK(w, th[w])
        /\ th \in [Threads -> ThreadStates] /\ th[w].pc = "pushnew"
    BY ThreadFacts, ThreadsFinite DEF NodeInv, TypeOK, PushNewQueue, At
  <1>1. CASE TRUE
    <2>0. /\ global' = Append(global, th[w].dst) /\ UNCHANGED <<memVars, mq, mqMem, sleep, quit, fate>>
          /\ th[w].dst \in Services /\ th[w].dst # None
          /\ \A s : Listed(s)' => Listed(s) \/ s = th[w].dst
      BY <1>0, ListFacts, NodeAssumption DEF PushNewQueue, PlaceOK, Placed, Base, InTurn, Errands, ThreadStates
    <2> DEFINE r == [th[w] EXCEPT !.pc = "callback", !.dst = None]
    <2>1. th' = [th EXCEPT ![w] = r]
      BY <1>0 DEF PushNewQueue
    <2>2. r \in ThreadStates /\ Has(r, "callback", th[w].after, th[w].msg, th[w].q, th[w].ctx, th[w].nq, th[w].dq, None, th[w].ref, th[w].born)
      <3>0. th[w] \in ThreadStates
        BY <1>0
      <3>1. r \in ThreadStates
        BY <3>0, ZenonT(40) DEF ThreadStates, Places
      <3>2. Has(r, "callback", th[w].after, th[w].msg, th[w].q, th[w].ctx, th[w].nq, th[w].dq, None, th[w].ref, th[w].born)
        BY <3>0 DEF ThreadStates, Has
      <3> QED BY <3>1, <3>2
    <2> HIDE DEF r
    <2>3. PlaceOK(w, r)
      BY <1>0, <2>2 DEF PlaceOK, Placed, Base, InTurn, Errands, Has
    <2>4. Solo(w) /\ th'[w] = r
      BY <1>0, <2>1, <2>2, MoveSolo
    <2>5. /\ ~Asleep(th[w]) /\ ~Asleep(r)
          /\ Base(r) # "drop" /\ SameRefs(th[w], r) /\ Launched(r) = None /\ Launched(th[w]) = th[w].dst
          /\ r.pc # "pushnew" /\ th[w].nq = None /\ th[w].dq = None
      BY <1>0, <2>0, <2>2, <2>3 DEF Asleep, SameRefs, Steady, Launched, PlaceOK, Placed, Base, InTurn, Errands, Has
    <2>6. LifeStep
      BY <1>0, <2>0, <2>4, <2>5 DEF LifeStep, LifeSame, MarksSame, Solo, SameRefs, memVars, queueVars
    <2>7. TurnStep
      <3>1. BusySame
        BY <2>0 DEF BusySame, Busy, queueVars
      <3>2. \A s \in Services : Holds(r, s) <=> Holds(th[w], s) /\ s # th[w].dst
        BY <1>0, <2>0, <2>2, <2>5, TurnFacts, NodeAssumption DEF Holds, Apart, Has
      <3>3. Apart(r)
        BY <1>0, <2>0, <2>2, <2>5, TurnFacts, NodeAssumption DEF Apart, Has
      <3>4. TurnGiven(w, th[w].dst)
        BY <1>0, <2>0, <2>2, <2>4, <2>5, <3>1, <3>2, <3>3 DEF TurnGiven, Holds, Has, queueVars
      <3> QED BY <1>0, <2>0, <3>4 DEF TurnStep
    <2>8. FoundOK(w)
      <3>1. \A s \in Services : Shows(r, s) => Shows(th[w], s)
        BY <1>0, <2>0, <2>2, <2>5, NodeAssumption DEF Shows, Has
      <3>4. Shows(th[w], th[w].dst)
        BY <1>0 DEF Shows
      <3>2. r.ctx = th[w].ctx
        BY <1>0, <2>0, <2>2 DEF Has
      <3>3. \A s \in Services : (Shows(th[w], s) => Found(s)) /\ (Listed(s) => Found(s))
        BY <1>0, TurnFacts
      <3> QED BY <1>0, <2>0, <2>4, <3>1, <3>2, <3>3, <3>4 DEF FoundOK, memVars, queueVars, Found
    <2>9. RingsOK /\ DropOK(w) /\ SmallTypes' /\ sleep' = sleep
      BY <2>0, <2>4, <2>5, RingFacts, TypesIs DEF RingsOK, DropOK, SmallTypes, memVars, queueVars, NodeInv
    <2> QED BY <1>0, <2>1, <2>2, <2>3, <2>5, <2>6, <2>7, <2>8, <2>9, SoloStep
  <1> QED BY <1>1

LEMMA LeaveKeeps ==
    ASSUME NodeInv, NEW w \in Workers, Leave(w)
    PROVE  NodeInv'
  <1>0. w \in Threads /\ th[w] \in ThreadStates /\ PlaceOK(w, th[w])
        /\ th \in [Threads -> ThreadStates] /\ th[w].pc = "loop"
    BY ThreadFacts, ThreadsFinite DEF NodeInv, TypeOK, Leave, At
  <1>1. /\ UNCHANGED <<memVars, queueVars, sleep, quit, fate>> /\ quit
        /\ \A s : Listed(s)' => Listed(s)
        /\ th[w].q \in Services \cup {None} /\ th[w].ctx = None /\ th[w].ref = None /\ th[w].born = None
    BY <1>0, ListFacts DEF Leave, queueVars, PlaceOK, Placed, Base, InTurn, Errands, ThreadStates
  <1> DEFINE r == [Idle EXCEPT !.pc = "done"]
  <1>2. th' = [th EXCEPT ![w] = r]
    BY DEF Leave
  <1>3. r \in ThreadStates /\ Has(r, "done", "loop", Vacant, None, None, None, None, None, None, None)
    BY DEF Idle, ThreadStates, Places, Has
  <1> HIDE DEF r
  <1>4. PlaceOK(w, r) /\ Solo(w) /\ th'[w] = r
    BY <1>0, <1>2, <1>3, MoveSolo, NodeAssumption DEF PlaceOK, Placed, Base, InTurn, Errands, Has
  <1>5. /\ ~Asleep(th[w]) /\ ~Asleep(r) /\ Base(r) # "drop" /\ SameRefs(th[w], r) /\ Launched(r) = None
        /\ Launched(th[w]) = None /\ th[w].nq = None /\ th[w].dq = None
    BY <1>0, <1>1, <1>3 DEF Asleep, SameRefs, Launched, PlaceOK, Placed, Base, InTurn, Errands, Has
  <1>6. LifeStep
    BY <1>1, <1>4, <1>5 DEF LifeStep, LifeSame, MarksSame, Solo, SameRefs, memVars, queueVars
  <1>7. TurnStep
    <2>1. BusySame
      BY <1>1 DEF BusySame, Busy, queueVars
    <2>2. Apart(r) /\ \A s \in Services : ~Holds(r, s) /\ (Holds(th[w], s) <=> s = th[w].q)
      BY <1>3, <1>5, NodeAssumption DEF Apart, Holds, Has
    <2>3. CASE th[w].q = None
      BY <1>0, <1>1, <1>4, <2>1, <2>2, <2>3, TurnSameSolo, NodeAssumption DEF queueVars
    <2>4. CASE th[w].q # None
      <3>1. TurnEnded(w, th[w].q)
        BY <1>1, <1>4, <2>1, <2>2, <2>4 DEF TurnEnded, queueVars
      <3> QED BY <1>0, <1>1, <2>4, <3>1 DEF TurnStep
    <2> QED BY <2>3, <2>4
  <1>8. FoundOK(w)
    <2>1. \A s \in Services : ~Shows(r, s)
      BY <1>3, NodeAssumption DEF Shows, Has
    <2>2. r.ctx = th[w].ctx
      BY <1>1, <1>3 DEF Has
    <2> QED BY <1>1, <1>4, <2>1, <2>2 DEF FoundOK, memVars, queueVars, Found
  <1>9. RingsOK /\ DropOK(w) /\ SmallTypes' /\ sleep' = sleep
    BY <1>1, <1>4, <1>5, RingFacts, TypesIs DEF RingsOK, DropOK, SmallTypes, memVars, queueVars, NodeInv
  <1> QED BY <1>0, <1>2, <1>3, <1>4, <1>5, <1>6, <1>7, <1>8, <1>9, SoloStep

\* ctx->handle is set and the queue created: nobody can come by it yet.
LEMMA CreateQueueKeeps ==
    ASSUME NodeInv, NEW w \in Workers, CreateQueue(w)
    PROVE  NodeInv'
  <1> DEFINE s == th[w].born
             r == [th[w] EXCEPT !.pc = "init"]
  <1>0. w \in Threads /\ th[w] \in ThreadStates /\ PlaceOK(w, th[w])
        /\ th \in [Threads -> ThreadStates] /\ th[w].pc = "newqueue"
    BY ThreadFacts, ThreadsFinite DEF NodeInv, TypeOK, CreateQueue, At
  <1>1. /\ s \in Services /\ s # None
        /\ slot' = [slot EXCEPT ![s] = "set"] /\ mq' = [mq EXCEPT ![s] = mq_create]
        /\ mqMem' = [mqMem EXCEPT ![s] = "alive"] /\ total' = total + 1
        /\ UNCHANGED <<ref, init, ctxMem, global, sleep, quit, fate>>
    BY <1>0, NodeAssumption DEF PlaceOK, Placed, Base, InTurn, Errands, ThreadStates, CreateQueue
  <1>2. th' = [th EXCEPT ![w] = r]
    BY <1>0 DEF CreateQueue, Goto
  <1>3. r \in ThreadStates /\ Has(r, "init", th[w].after, th[w].msg, th[w].q, th[w].ctx, th[w].nq, th[w].dq, th[w].dst, th[w].ref, th[w].born)
    <2>1. r \in ThreadStates
      BY <1>0 DEF ThreadStates, Places
    <2>2. Has(r, "init", th[w].after, th[w].msg, th[w].q, th[w].ctx, th[w].nq, th[w].dq, th[w].dst, th[w].ref, th[w].born)
      BY <1>0 DEF ThreadStates, Has
    <2> QED BY <2>1, <2>2
  <1> HIDE DEF r
  <1>4. PlaceOK(w, r) /\ Solo(w) /\ th'[w] = r
    BY <1>0, <1>2, <1>3, MoveSolo DEF PlaceOK, Placed, Base, InTurn, Errands, Has
  <1>5. /\ ~Asleep(th[w]) /\ ~Asleep(r) /\ Base(r) # "drop" /\ Steady(r)
        /\ Launched(r) = s /\ Launched(th[w]) = None /\ r.pc # "pushnew"
    BY <1>0, <1>3 DEF Asleep, Steady, Launched, PlaceOK, Placed, Base, InTurn, Errands, Has
  <1>6. /\ slot[s] = "unset" /\ mqMem[s] = "none"
        /\ slot \in [Services -> {"free", "unset", "set"}] /\ mqMem \in [Services -> {"none", "alive", "freed"}]
    BY <1>0, <1>1 DEF NodeInv, LifeInv, ReferenceInv, ContextInv, At, TypeOK
  <1>7. /\ RingsOK /\ mq'[s].release = FALSE /\ mq'[s].in_global = TRUE
        /\ \A x \in Services \ {s} : mq'[x] = mq[x]
    <2>1. RingsOK /\ mq'[s] = mq_create /\ \A x \in Services \ {s} : mq'[x] = mq[x]
      BY <1>1, CreateSound, RingSet
    <2> QED BY <2>1, CreateSound
  <1>8. LifeStep
    <2>1. Made(w, s)
      BY <1>0, <1>1, <1>3, <1>4, <1>5, <1>7 DEF Made, Has
    <2> QED BY <1>0, <1>1, <2>1 DEF LifeStep
  <1>9. TurnStep
    <2>1. ~Busy(s) /\ \A x \in Services : Busy(x)' <=> Busy(x) \/ x = s
      BY <1>1, <1>6, <1>7 DEF Busy
    <2>2. \A x \in Services : Holds(r, x) <=> Holds(th[w], x) \/ x = s
      BY <1>3, <1>5, NodeAssumption DEF Holds, Has
    <2>3. s # th[w].q => Apart(r)
      BY <1>0, <1>3, <1>5, TurnFacts DEF Apart, Has
    <2>4. TurnBorn(w, s)
      BY <1>1, <1>4, <2>1, <2>2, <2>3 DEF TurnBorn
    <2> QED BY <1>0, <1>1, <2>4 DEF TurnStep
  <1>10. InitInv'
    <2>1. ~Listed(s) /\ \A u \in Threads : ~Shows(th[u], s)
      <3>1. \A u \in Threads : Shows(th[u], s) => Holds(th[u], s)
        BY DEF Shows, Holds, Launched, Base, Errands
      <3>2. ~Busy(s)
        BY <1>6 DEF Busy
      <3> QED BY <1>0, <1>1, <3>1, <3>2, TurnFacts
    <2>2. \A x : Listed(x)' => Listed(x)
      BY <1>1, ListFacts
    <2>3. \A u \in Threads : \A x : Shows(th'[u], x) => Shows(th[u], x)
      BY <1>3, <1>4, <1>5 DEF Solo, Shows, Has
    <2>4. \A u \in Threads : th'[u].ctx = th[u].ctx
      BY <1>3, <1>4 DEF Solo, Has
    <2>5. \A x \in Services : Found(x)' => Found(x) /\ x # s
      BY <1>1, <1>7, <2>1, <2>2, <2>3, FoundNext DEF Found
    <2>6. \A u \in Threads : th'[u].ctx # None => init'[th'[u].ctx]
      BY <1>1, <2>4 DEF NodeInv, InitInv
    <2>7. \A x \in Services : Found(x)' /\ slot'[x] = "set" => init'[x]
      BY <1>1, <1>6, <2>5 DEF NodeInv, InitInv
    <2> QED BY <2>6, <2>7 DEF InitInv
  <1>11. DropOK(w) /\ SmallTypes'
    BY <1>1, <1>4, <1>5, TypesIs DEF DropOK, SmallTypes, NodeInv
  <1> QED BY <1>0, <1>1, <1>2, <1>3, <1>4, <1>5, <1>7, <1>8, <1>9, <1>10, <1>11, SoloStepInit

\* ctx->init = true, if the context has not been deleted since its launch gave it up.
LEMMA SetInitKeeps ==
    ASSUME NodeInv, NEW w \in Workers, SetInit(w)
    PROVE  NodeInv'
  <1> DEFINE s == th[w].dst
             r == [th[w] EXCEPT !.pc = "pushnew"]
  <1>0. w \in Threads /\ th[w] \in ThreadStates /\ PlaceOK(w, th[w])
        /\ th \in [Threads -> ThreadStates] /\ th[w].pc = "setinit"
    BY ThreadFacts, ThreadsFinite DEF NodeInv, TypeOK, SetInit, At
  <1>1. /\ s \in Services /\ s # None
        /\ init' = [init EXCEPT ![s] = (ctxMem[s] = "alive")]
        /\ UNCHANGED <<slot, ref, ctxMem, total, queueVars, sleep, quit, fate>>
    BY <1>0, NodeAssumption DEF PlaceOK, Placed, Base, InTurn, Errands, ThreadStates, SetInit
  <1>2. th' = [th EXCEPT ![w] = r]
    BY <1>0 DEF SetInit, Goto
  <1>3. r \in ThreadStates /\ Has(r, "pushnew", th[w].after, th[w].msg, th[w].q, th[w].ctx, th[w].nq, th[w].dq, th[w].dst, th[w].ref, th[w].born)
    <2>1. r \in ThreadStates
      BY <1>0 DEF ThreadStates, Places
    <2>2. Has(r, "pushnew", th[w].after, th[w].msg, th[w].q, th[w].ctx, th[w].nq, th[w].dq, th[w].dst, th[w].ref, th[w].born)
      BY <1>0 DEF ThreadStates, Has
    <2> QED BY <2>1, <2>2
  <1> HIDE DEF r
  <1>4. PlaceOK(w, r) /\ Solo(w) /\ th'[w] = r
    BY <1>0, <1>2, <1>3, MoveSolo DEF PlaceOK, Placed, Base, InTurn, Errands, Has
  <1>5. /\ ~Asleep(th[w]) /\ ~Asleep(r) /\ Base(r) # "drop" /\ SameRefs(th[w], r)
        /\ Launched(r) = s /\ Launched(th[w]) = s
    BY <1>0, <1>3 DEF Asleep, SameRefs, Launched, PlaceOK, Placed, Base, InTurn, Errands, Has
  <1>6. LifeStep
    BY <1>1, <1>4, <1>5 DEF LifeStep, LifeSame, MarksSame, Solo, SameRefs, queueVars
  <1>7. TurnStep
    <2>1. BusySame
      BY <1>1 DEF BusySame, Busy, queueVars
    <2>2. Apart(r) /\ \A x \in Services : Holds(r, x) <=> Holds(th[w], x)
      BY <1>0, <1>3, <1>5, TurnFacts DEF Apart, Holds, Has
    <2> QED BY <1>0, <1>1, <1>4, <2>1, <2>2, TurnSameSolo DEF queueVars
  <1>8. init \in [Services -> BOOLEAN] /\ init' \in [Services -> BOOLEAN]
        /\ (\A x \in Services \ {s} : init'[x] = init[x]) /\ (ctxMem[s] = "alive" => init'[s])
    <2>1. init \in [Services -> BOOLEAN]
      BY DEF NodeInv, TypeOK
    <2> DEFINE b == ctxMem[s] = "alive"
    <2>2. b \in BOOLEAN /\ (ctxMem[s] = "alive" => b) /\ init' = [init EXCEPT ![s] = b]
      BY <1>1
    <2> HIDE DEF b
    <2> QED BY <1>1, <2>1, <2>2
  <1>9. InitInv'
    <2>1. \A u \in Threads : th'[u].ctx # None => init'[th'[u].ctx]
      <3> TAKE u \in Threads
      <3>1. th'[u].ctx = th[u].ctx
        BY <1>3, <1>4 DEF Solo, Has
      <3>2. th[u].ctx \in Services \cup {None} /\ (th[u].ctx # None => init[th[u].ctx])
        BY ThreadFacts DEF NodeInv, InitInv
      <3>3. th[u].ctx = s => ctxMem[s] = "alive"
        BY <1>1, AliveFacts
      <3> QED BY <1>8, <3>1, <3>2, <3>3
    <2>2. ASSUME NEW x \in Services, Found(x)', slot'[x] = "set" PROVE init'[x]
      <3>1. CASE x = s
        <4>1. ctxMem[s] = "alive"
          BY <1>0, <1>1, <2>2, <3>1, UsedIsAlive DEF NodeInv, TypeOK, LifeTypes, LifeInv
        <4> QED BY <1>8, <3>1, <4>1
      <3>2. CASE x # s
        <4>1. \A u \in Threads : Shows(th'[u], x) => Shows(th[u], x)
          BY <1>3, <1>4, <3>2 DEF Solo, Shows, Has
        <4>2. Listed(x)' => Listed(x)
          BY <1>1, ListFacts DEF queueVars
        <4>3. Found(x)
          BY <1>1, <2>2, <4>1, <4>2, FoundNext DEF Found, queueVars
        <4> QED BY <1>1, <1>8, <2>2, <3>2, <4>3 DEF NodeInv, InitInv
      <3> QED BY <3>1, <3>2
    <2> QED BY <2>1, <2>2 DEF InitInv
  <1>10. RingsOK /\ DropOK(w) /\ SmallTypes' /\ sleep' = sleep
    BY <1>1, <1>4, <1>5, <1>8, RingFacts, TypesIs DEF RingsOK, DropOK, SmallTypes, queueVars, NodeInv
  <1> QED BY <1>0, <1>2, <1>3, <1>4, <1>5, <1>6, <1>7, <1>9, <1>10, SoloStepInit

----------------------------------------------------------------------------
(* Sleeping, waking and the end *)

\* Threads that only go on to other places.
LEMMA AlikeStep ==
    ASSUME NodeInv, th' \in [Threads -> ThreadStates], quit' \in BOOLEAN, quit => quit',
           \A t \in Threads : /\ PlaceOK(t, th'[t]) /\ Alike(th[t], th'[t])
                              /\ Base(th'[t]) = "drop" => Base(th[t]) = "drop",
           UNCHANGED <<memVars, queueVars, fate>>, SleepInv'
    PROVE  NodeInv'
  <1>1. LifeSame
    BY DEF LifeSame, MarksSame, Alike, memVars, queueVars
  <1>2. TurnSame
    <2>1. BusySame
      BY DEF BusySame, Busy, queueVars
    <2>2. \A u \in Threads : Apart(th[u])
      BY DEF NodeInv, TurnInv
    <2>3. HandsSame
      BY <2>2 DEF HandsSame, Apart, Holds, Alike
    <2> QED BY <2>1, <2>3 DEF TurnSame, queueVars
  <1>3. InitInv'
    <2>1. \A s : Listed(s)' <=> Listed(s)
      BY DEF Listed, queueVars
    <2>2. \A u \in Threads : \A s \in Services : Shows(th'[u], s) => Shows(th[u], s)
      BY DEF Shows, Alike
    <2>3. \A u \in Threads : th'[u].ctx = th[u].ctx
      BY DEF Alike, SameRefs
    <2>4. \A s \in Services : Found(s)' => Found(s)
      BY <2>1, <2>2, FoundNext DEF Found, queueVars
    <2>5. \A u \in Threads : th'[u].ctx # None => init'[th'[u].ctx]
      BY <2>3 DEF NodeInv, InitInv, memVars
    <2>6. \A s \in Services : Found(s)' /\ slot'[s] = "set" => init'[s]
      BY <2>4 DEF NodeInv, InitInv, memVars
    <2> QED BY <2>5, <2>6 DEF InitInv
  <1>4. \A t \in Threads : Base(th'[t]) = "drop" => ctxMem'[th'[t].dq] = "freed"
    BY DEF NodeInv, QueueInv, Alike, memVars
  <1>5. RingsOK
    BY RingFacts DEF RingsOK, queueVars
  <1>6. SmallTypes'
    BY TypesIs DEF SmallTypes, memVars, queueVars, NodeInv
  <1> QED BY <1>1, <1>2, <1>3, <1>4, <1>5, <1>6, Assemble DEF LifeStep, TurnStep

LEMMA NothingKeeps ==
    ASSUME NodeInv, UNCHANGED vars PROVE NodeInv'
  <1>1. SleepInv'
    BY SleepSame DEF vars, NodeInv
  <1>2. \A t \in Threads : Alike(th[t], th'[t])
    BY DEF Alike, SameRefs, vars
  <1> QED BY <1>1, <1>2, AlikeStep, ThreadFacts DEF vars, NodeInv, TypeOK

\* A worker that has nothing to do and goes to another place of thread_worker's sleep.
SleepPlaces == {"sleep", "enter", "waiting", "woken", "loop"}

LEMMA SleeperMoves ==
    ASSUME NodeInv, NEW t \in Workers, NEW l \in SleepPlaces,
           th[t].pc \in SleepPlaces \ {"loop"}
    PROVE  LET r == [th[t] EXCEPT !.pc = l] IN
           r \in ThreadStates /\ PlaceOK(t, r) /\ Alike(th[t], r) /\ Base(r) # "drop" /\ r.pc = l
  <1> DEFINE r == [th[t] EXCEPT !.pc = l]
  <1>0. t \in Threads /\ th[t] \in ThreadStates /\ PlaceOK(t, th[t])
    BY ThreadFacts, ThreadsFinite
  <1>1. r \in ThreadStates /\ Has(r, l, th[t].after, th[t].msg, th[t].q, th[t].ctx, th[t].nq, th[t].dq, th[t].dst, th[t].ref, th[t].born)
    <2>1. r \in ThreadStates
      BY <1>0 DEF ThreadStates, Places, SleepPlaces
    <2>2. Has(r, l, th[t].after, th[t].msg, th[t].q, th[t].ctx, th[t].nq, th[t].dq, th[t].dst, th[t].ref, th[t].born)
      BY <1>0 DEF ThreadStates, Has
    <2> QED BY <2>1, <2>2
  <1> HIDE DEF r
  <1>2. PlaceOK(t, r)
    BY <1>0, <1>1 DEF PlaceOK, Placed, Base, InTurn, Errands, Has, SleepPlaces
  <1>3. Alike(th[t], r) /\ Base(r) # "drop" /\ r.pc = l
    BY <1>0, <1>1 DEF Alike, SameRefs, Launched, PlaceOK, Placed, Base, InTurn, Errands, Has, SleepPlaces
  <1> QED BY <1>1, <1>2, <1>3 DEF r

LEMMA SleeperKeeps ==
    ASSUME NodeInv, NEW w \in Workers, NEW l \in SleepPlaces, Goto(w, l),
           th[w].pc \in SleepPlaces \ {"loop"},
           UNCHANGED <<memVars, queueVars, quit, fate>>,
           \/ th[w].pc = "sleep" /\ l = "enter" /\ sleep' = sleep + 1
           \/ th[w].pc \in {"enter", "woken"} /\ l = "loop" /\ sleep' = sleep - 1
           \/ th[w].pc \in {"enter", "waiting"} /\ l \in {"waiting", "woken"} /\ sleep' = sleep
    PROVE  NodeInv'
  <1> DEFINE r == [th[w] EXCEPT !.pc = l]
  <1>0. w \in Threads /\ th \in [Threads -> ThreadStates]
    BY ThreadsFinite DEF NodeInv, TypeOK
  <1>1. r \in ThreadStates /\ PlaceOK(w, r) /\ Alike(th[w], r) /\ Base(r) # "drop" /\ r.pc = l
    BY SleeperMoves
  <1>2. th' = [th EXCEPT ![w] = r]
    BY <1>0 DEF Goto
  <1> HIDE DEF r
  <1>3. Solo(w) /\ th'[w] = r /\ th' \in [Threads -> ThreadStates]
    BY <1>0, <1>1, <1>2, MoveSolo
  <1>4. SleepInv'
    <2>1. CASE sleep' = sleep
      <3>1. \A u \in Workers : Asleep(th'[u]) <=> Asleep(th[u])
        <4>1. \A u \in Workers \ {w} : th'[u] = th[u]
          BY <1>3, ThreadsFinite DEF Solo
        <4>2. sleep \in Nat
          BY SleepBound DEF NodeInv
        <4> QED BY <1>1, <1>3, <2>1, <4>1, <4>2 DEF Asleep
      <3> QED BY <2>1, <3>1, SleepSame DEF NodeInv
    <2>2. CASE sleep' # sleep
      BY <1>1, <1>3, <2>2, SleepSolo DEF Asleep
    <2> QED BY <2>1, <2>2
  <1>5. \A t \in Threads : /\ PlaceOK(t, th'[t]) /\ Alike(th[t], th'[t])
                           /\ Base(th'[t]) = "drop" => Base(th[t]) = "drop"
    BY <1>1, <1>3, ThreadFacts DEF Solo, Alike, SameRefs
  <1> QED BY <1>3, <1>4, <1>5, AlikeStep DEF NodeInv, TypeOK

LEMMA SleepKeeps ==
    ASSUME NodeInv, NEW w \in Workers,
           StartSleep(w) \/ EnterWait(w) \/ LeaveWait(w) \/ SpuriousWakeup(w)
    PROVE  NodeInv'
  <1> USE DEF SleepPlaces, At
  <1>1. CASE StartSleep(w)
    BY <1>1, SleeperKeeps DEF StartSleep
  <1>2. CASE EnterWait(w)
    BY <1>2, SleeperKeeps DEF EnterWait
  <1>3. CASE LeaveWait(w)
    BY <1>3, SleeperKeeps DEF LeaveWait
  <1>4. CASE SpuriousWakeup(w)
    BY <1>4, SleeperKeeps DEF SpuriousWakeup
  <1> QED BY <1>1, <1>2, <1>3, <1>4

LEMMA TickKeeps ==
    ASSUME NodeInv, Tick PROVE NodeInv'
  <1>1. PICK w \in Waiting : Goto(w, "woken")
    BY DEF Tick
  <1>2. w \in Workers /\ th[w].pc = "waiting" /\ UNCHANGED <<memVars, queueVars, sleep, quit, fate>>
    BY DEF Waiting, At, Tick
  <1> QED BY <1>1, <1>2, SleeperKeeps DEF SleepPlaces

\* The timer and the socket thread go on where they wait.
LEMMA OutsideMoves ==
    ASSUME NodeInv, NEW t \in Outside, NEW l \in {"idle", "done"}, th[t].pc \in {"idle", "wakeup"}
    PROVE  LET r == [th[t] EXCEPT !.pc = l] IN
           r \in ThreadStates /\ PlaceOK(t, r) /\ Alike(th[t], r) /\ Base(r) # "drop" /\ r.pc = l
  <1> DEFINE r == [th[t] EXCEPT !.pc = l]
  <1>0. t \in Threads /\ t \notin Workers /\ th[t] \in ThreadStates /\ PlaceOK(t, th[t])
    BY ThreadFacts, NodeAssumption DEF Threads
  <1>1. r \in ThreadStates /\ Has(r, l, th[t].after, th[t].msg, th[t].q, th[t].ctx, th[t].nq, th[t].dq, th[t].dst, th[t].ref, th[t].born)
    <2>1. r \in ThreadStates
      BY <1>0 DEF ThreadStates, Places
    <2>2. Has(r, l, th[t].after, th[t].msg, th[t].q, th[t].ctx, th[t].nq, th[t].dq, th[t].dst, th[t].ref, th[t].born)
      BY <1>0 DEF ThreadStates, Has
    <2> QED BY <2>1, <2>2
  <1> HIDE DEF r
  <1>2. PlaceOK(t, r)
    BY <1>0, <1>1 DEF PlaceOK, Placed, Base, InTurn, Errands, Has
  <1>3. Alike(th[t], r) /\ Base(r) # "drop" /\ r.pc = l
    BY <1>0, <1>1 DEF Alike, SameRefs, Launched, PlaceOK, Placed, Base, InTurn, Errands, Has
  <1> QED BY <1>1, <1>2, <1>3 DEF r

LEMMA StopKeeps ==
    ASSUME NodeInv, Stop PROVE NodeInv'
  <1> DEFINE a == [th[Timer] EXCEPT !.pc = "done"]
             b(t) == [th[t] EXCEPT !.pc = "woken"]
  <1>0. Timer \in Threads /\ Timer \in Outside /\ Timer \notin Workers /\ Timer \notin Waiting
        /\ th \in [Threads -> ThreadStates]
    BY NodeAssumption DEF Threads, Outside, Waiting, NodeInv, TypeOK
  <1>1. a \in ThreadStates /\ PlaceOK(Timer, a) /\ Alike(th[Timer], a) /\ Base(a) # "drop" /\ a.pc = "done"
    BY <1>0, OutsideMoves DEF Stop, At
  <1>2. \A t \in Waiting : /\ b(t) \in ThreadStates /\ PlaceOK(t, b(t)) /\ Alike(th[t], b(t))
                           /\ Base(b(t)) # "drop" /\ b(t).pc = "woken"
    <2>1. SUFFICES ASSUME NEW t \in Waiting PROVE <1>2!(t)
      OBVIOUS
    <2>2. t \in Workers /\ th[t].pc = "waiting"
      BY DEF Waiting, At
    <2> QED BY <2>2, SleeperMoves DEF SleepPlaces
  <1>3. th' = [t \in Threads |-> IF t = Timer THEN a ELSE IF t \in Waiting THEN b(t) ELSE th[t]]
    BY DEF Stop
  <1> HIDE DEF a, b
  <1>4. \A t \in Threads : \/ t = Timer /\ th'[t] = a
                           \/ t \in Waiting /\ th'[t] = b(t)
                           \/ t \notin Waiting /\ th'[t] = th[t]
    BY <1>0, <1>3
  <1>5. th' \in [Threads -> ThreadStates]
    BY <1>0, <1>1, <1>2, <1>3
  <1>6. \A t \in Threads : /\ PlaceOK(t, th'[t]) /\ Alike(th[t], th'[t])
                           /\ Base(th'[t]) = "drop" => Base(th[t]) = "drop"
    BY <1>1, <1>2, <1>4, ThreadFacts DEF Alike, SameRefs
  <1>7. SleepInv'
    <2>1. \A w \in Workers : Asleep(th'[w]) <=> Asleep(th[w])
      BY <1>0, <1>2, <1>4, ThreadsFinite DEF Asleep, Waiting, At
    <2> QED BY <2>1, SleepSame DEF Stop, NodeInv
  <1> QED BY <1>5, <1>6, <1>7, AlikeStep DEF Stop

LEMMA SocketKeeps ==
    ASSUME NodeInv, SocketWakeup \/ SocketExit PROVE NodeInv'
  <1> DEFINE a(l) == [th[Socket] EXCEPT !.pc = l]
             b(t) == [th[t] EXCEPT !.pc = "woken"]
  <1>0. Socket \in Threads /\ Socket \in Outside /\ Socket \notin Workers /\ Socket \notin Waiting
        /\ th \in [Threads -> ThreadStates] /\ UNCHANGED <<memVars, queueVars, sleep, quit, fate>>
        /\ th[Socket].pc \in {"idle", "wakeup"}
    BY NodeAssumption DEF Threads, Outside, Waiting, NodeInv, TypeOK, SocketWakeup, SocketExit, At
  <1>1. \A l \in {"idle", "done"} : /\ a(l) \in ThreadStates /\ PlaceOK(Socket, a(l)) /\ Alike(th[Socket], a(l))
                                    /\ Base(a(l)) # "drop"
    BY <1>0, OutsideMoves
  <1>2. \A t \in Waiting : /\ b(t) \in ThreadStates /\ PlaceOK(t, b(t)) /\ Alike(th[t], b(t))
                           /\ Base(b(t)) # "drop" /\ b(t).pc = "woken"
    <2>1. SUFFICES ASSUME NEW t \in Waiting PROVE <1>2!(t)
      OBVIOUS
    <2>2. t \in Workers /\ th[t].pc = "waiting"
      BY DEF Waiting, At
    <2> QED BY <2>2, SleeperMoves DEF SleepPlaces
  <1>3. \E l \in {"idle", "done"} :
           \/ th' = [th EXCEPT ![Socket] = a(l)]
           \/ \E w \in Waiting : th' = [th EXCEPT ![Socket] = a(l), ![w] = b(w)]
    <2>1. CASE SocketExit
      BY <1>0, <2>1 DEF SocketExit, Goto
    <2>2. CASE SocketWakeup /\ ~(sleep >= Cardinality(Workers) /\ Waiting # {})
      BY <1>0, <2>2 DEF SocketWakeup, Goto
    <2>3. CASE SocketWakeup /\ sleep >= Cardinality(Workers) /\ Waiting # {}
      <3>1. PICK w \in Waiting : th' = [th EXCEPT ![Socket].pc = "idle", ![w].pc = "woken"]
        BY <2>3 DEF SocketWakeup
      <3>2. w # Socket /\ w \in Threads
        BY <1>0, ThreadsFinite DEF Waiting
      <3>3. th' = [th EXCEPT ![Socket] = a("idle"), ![w] = b(w)]
        BY <1>0, <3>1, <3>2
      <3> QED BY <3>3
    <2> QED BY <2>1, <2>2, <2>3
  <1> HIDE DEF a, b
  <1>4. PICK l \in {"idle", "done"} :
           \/ th' = [th EXCEPT ![Socket] = a(l)]
           \/ \E w \in Waiting : th' = [th EXCEPT ![Socket] = a(l), ![w] = b(w)]
    BY <1>3
  <1>5. \A t \in Threads : \/ t = Socket /\ th'[t] = a(l)
                           \/ t \in Waiting /\ th'[t] = b(t)
                           \/ t # Socket /\ th'[t] = th[t]
    BY <1>0, <1>4
  <1>6. th' \in [Threads -> ThreadStates]
    BY <1>0, <1>1, <1>2, <1>4
  <1>7. \A t \in Threads : /\ PlaceOK(t, th'[t]) /\ Alike(th[t], th'[t])
                           /\ Base(th'[t]) = "drop" => Base(th[t]) = "drop"
    BY <1>1, <1>2, <1>5, ThreadFacts DEF Alike, SameRefs
  <1>8. SleepInv'
    <2>1. \A w \in Workers : Asleep(th'[w]) <=> Asleep(th[w])
      BY <1>0, <1>2, <1>5, ThreadsFinite DEF Asleep, Waiting, At
    <2> QED BY <1>0, <2>1, SleepSame DEF NodeInv
  <1> QED BY <1>0, <1>6, <1>7, <1>8, AlikeStep DEF NodeInv, TypeOK

----------------------------------------------------------------------------
(* The invariant *)

\* The queue of each booted service is in the global list.
LEMMA BootedListed ==
    ASSUME Init, NEW s \in Booted PROVE \E i \in DOMAIN global : global[i] = s
  <1> DEFINE n == Cardinality(Booted)
  <1>1. IsFiniteSet(Booted) /\ n \in Nat
    BY NodeAssumption, FS_Subset, FS_CardinalityType
  <1>2. global \in [1..n -> Booted] /\ \A i, j \in 1..n : global[i] = global[j] => i = j
    BY DEF Init
  <1>3. global \in Injection(1..n, Booted)
    BY <1>2 DEF Injection, IsInjective
  <1>4. Cardinality(1..n) = n
    BY <1>1, FS_Interval
  <1>5. global \in Surjection(1..n, Booted)
    BY <1>1, <1>3, <1>4, FS_Injection
  <1> HIDE DEF n
  <1> QED BY <1>2, <1>5 DEF Surjection

LEMMA NodeInitially == ASSUME Init PROVE NodeInv
  <1> DEFINE n == Cardinality(Booted)
  <1>0. IsFiniteSet(Booted) /\ n \in Nat /\ Booted \subseteq Services /\ None \notin Services
        /\ Workers \cap Outside = {} /\ IsFiniteSet(Workers) /\ IsFiniteSet(Threads)
    BY NodeAssumption, FS_Subset, FS_CardinalityType, ThreadsFinite
  <1>1. ThreadInv /\ th \in [Threads -> ThreadStates]
        /\ \A t \in Threads : /\ th[t].pc \in {"loop", "idle"} /\ th[t].q = None /\ th[t].nq = None
                              /\ th[t].dq = None /\ th[t].ctx = None /\ th[t].ref = None
                              /\ th[t].born = None /\ th[t].dst = None
    <2> DEFINE e == [Idle EXCEPT !.pc = "idle"]
    <2>1. Idle \in ThreadStates /\ Has(Idle, "loop", "loop", Vacant, None, None, None, None, None, None, None)
      BY DEF Idle, ThreadStates, Places, Has
    <2>2. e \in ThreadStates /\ Has(e, "idle", "loop", Vacant, None, None, None, None, None, None, None)
      BY DEF Idle, ThreadStates, Places, Has
    <2>3. th = [t \in Threads |-> IF t \in Workers THEN Idle ELSE e]
      BY DEF Init
    <2> HIDE DEF e
    <2>4. \A t \in Threads : th[t] \in ThreadStates /\ (t \in Workers => th[t] = Idle) /\ (t \notin Workers => th[t] = e)
      BY <2>1, <2>2, <2>3
    <2>5. \A t \in Threads : PlaceOK(t, th[t])
      BY <1>0, <2>1, <2>2, <2>4 DEF PlaceOK, Placed, Base, InTurn, Errands, Has
    <2>6. th \in [Threads -> ThreadStates]
      BY <2>1, <2>2, <2>3
    <2> QED BY <2>1, <2>2, <2>4, <2>5, <2>6, ThreadInvIs DEF Has
  <1>2. /\ slot \in [Services -> {"free", "set"}] /\ ref \in [Services -> Nat] /\ init \in [Services -> BOOLEAN]
        /\ ctxMem \in [Services -> {"none", "alive"}] /\ mqMem = ctxMem /\ quit = FALSE /\ sleep = 0
        /\ \A s \in Services : IF s \in Booted THEN slot[s] = "set" /\ ref[s] = 1 /\ init[s] /\ ctxMem[s] = "alive"
                               ELSE slot[s] = "free" /\ ref[s] = 0 /\ ctxMem[s] = "none"
    <2>1. init = [s \in Services |-> s \in Booted]
      BY DEF Init
    <2>2. init \in [Services -> BOOLEAN] /\ \A s \in Services : s \in Booted => init[s]
      <3>1. init \in [Services -> BOOLEAN]
        BY <2>1
      <3>2. \A s \in Services : s \in Booted => init[s]
        BY <2>1
      <3> QED BY <3>1, <3>2
    <2>3. /\ slot = [s \in Services |-> IF s \in Booted THEN "set" ELSE "free"]
          /\ ref = [s \in Services |-> IF s \in Booted THEN 1 ELSE 0]
          /\ ctxMem = [s \in Services |-> IF s \in Booted THEN "alive" ELSE "none"]
          /\ mqMem = ctxMem /\ quit = FALSE /\ sleep = 0
      BY DEF Init
    <2> QED BY <2>2, <2>3
  <1>3. /\ DOMAIN mq = Services /\ \A s \in Services : Sound(mq[s]) /\ ~mq[s].release /\ (mq[s].in_global <=> s \in Booted)
    <2> DEFINE b == [mq_create EXCEPT !.head = Lap, !.tail = Lap]
    <2>1. mq = [s \in Services |-> IF s \in Booted THEN b ELSE NoQueue]
      BY DEF Init
    <2>2. /\ Sound(b) /\ b.release = FALSE /\ b.in_global = TRUE
          /\ Sound(NoQueue) /\ NoQueue.release = FALSE /\ NoQueue.in_global = FALSE
      BY CreateSound
    <2> HIDE DEF b
    <2> QED BY <2>1, <2>2
  <1>4. /\ global \in Seq(Services) /\ \A i, j \in DOMAIN global : global[i] = global[j] => i = j
        /\ \A s \in Services : Listed(s) <=> s \in Booted
    <2>1. global \in [1..n -> Booted] /\ \A i, j \in 1..n : global[i] = global[j] => i = j
      BY DEF Init
    <2>2. \A s \in Booted : Listed(s)
      BY BootedListed DEF Listed
    <2> HIDE DEF n
    <2>3. global \in Seq(Services)
      BY <1>0, <2>1
    <2> QED BY <1>0, <2>1, <2>2, <2>3 DEF Listed
  <1>5. TypeOK
    <2>1. total \in Nat /\ fate \in [Ids -> {"unsent", "travelling", "handled", "bounced", "refused"}]
      BY <1>0 DEF Init
    <2>2. Cardinality(Workers) \in Nat /\ sleep \in 0..Cardinality(Workers)
      BY <1>0, <1>2, FS_CardinalityType
    <2>3. \A s \in Services : WellFormed(mq[s])
      BY <1>3 DEF Sound
    <2> QED BY <1>1, <1>2, <1>3, <1>4, <2>1, <2>2, <2>3 DEF TypeOK
  <1>6. LifeInv
    <2>1. Counts
      <3> SUFFICES ASSUME NEW s \in Services PROVE ref[s] = Tabled(s) + Counted(s)
        BY DEF Counts
      <3>1. /\ {t \in Threads : th[t].ctx = s} = {}
            /\ {t \in Threads : th[t].ref = s /\ ~At(t, "delete")} = {}
            /\ {t \in Threads : th[t].born = s} = {}
        BY <1>0, <1>1
      <3>2. Counted(s) = 0
        BY <3>1, FS_EmptySet DEF Counted
      <3> QED BY <1>2, <3>2 DEF Tabled
    <2>2. \A s \in Services : ContextInv(s)
      BY <1>2, <1>3 DEF ContextInv
    <2>3. \A t \in Threads : ReferenceInv(t)
      BY <1>0, <1>1, <1>2 DEF ReferenceInv, At
    <2>4. {s \in Services : ctxMem[s] = "alive" /\ slot[s] # "unset"} = Booted
      BY <1>0, <1>2
    <2> QED BY <2>1, <2>2, <2>3, <2>4, RefCountIs DEF LifeInv, Init
  <1>7. QueueInv
    BY <1>1, <1>3 DEF QueueInv, Sound, Base, Errands
  <1>8. InitInv
    BY <1>1, <1>2 DEF InitInv
  <1>9. SleepInv
    <2>1. {w \in Workers : th[w].pc \in {"enter", "waiting", "woken"}} = {}
      BY <1>1, ThreadsFinite
    <2> QED BY <1>2, <2>1, FS_EmptySet DEF SleepInv
  <1>10. TurnInv
    <2>1. \A t \in Threads : Launched(th[t]) = None
      BY <1>1 DEF Launched, Base, Errands
    <2>2. \A t \in Threads : Apart(th[t]) /\ \A s \in Services : ~Holds(th[t], s)
      BY <1>0, <1>1, <2>1 DEF Apart, Holds
    <2>3. \A s \in Services : Busy(s) <=> s \in Booted
      BY <1>2, <1>3 DEF Busy
    <2> QED BY <1>4, <2>2, <2>3 DEF TurnInv
  <1> QED BY <1>1, <1>5, <1>6, <1>7, <1>8, <1>9, <1>10 DEF NodeInv

LEMMA SendKeeps ==
    ASSUME NodeInv, NEW d \in Services,
           (\E w \in Workers : Send(w, d) \/ InitSend(w)) \/ Timeout(d) \/ Forward(d)
    PROVE  NodeInv'
  <1>1. ASSUME NEW w \in Workers, Send(w, d) PROVE NodeInv'
    <2>1. w \in Threads /\ th[w] \in ThreadStates /\ PlaceOK(w, th[w]) /\ th[w].pc = "callback"
      BY <1>1, ThreadFacts, ThreadsFinite, ZenonT(40) DEF Send, StartSend, At
    <2>2. th[w].ctx \in Services
      BY <2>1 DEF PlaceOK, Placed, Base, InTurn, Errands, ThreadStates
    <2> QED BY <1>1, <2>1, <2>2, StartSendKeeps DEF Send
  <1>2. ASSUME NEW w \in Workers, InitSend(w) PROVE NodeInv'
    <2>1. w \in Threads /\ th[w] \in ThreadStates /\ PlaceOK(w, th[w]) /\ th[w].pc = "init"
      BY <1>2, ThreadFacts, ThreadsFinite, ZenonT(40) DEF InitSend, StartSend, At
    <2>2. th[w].born \in Services
      BY <2>1 DEF PlaceOK, Placed, Base, InTurn, Errands, ThreadStates
    <2> QED BY <1>2, <2>1, <2>2, StartSendKeeps DEF InitSend
  <1>3. Timer \in Threads /\ Socket \in Threads /\ Timer \in Outside /\ Socket \in Outside
    BY DEF Threads, Outside
  <1>4. CASE Timeout(d)
    BY <1>3, <1>4, StartSendKeeps DEF Timeout
  <1>5. CASE Forward(d)
    BY <1>3, <1>5, StartSendKeeps DEF Forward
  <1> QED BY <1>1, <1>2, <1>4, <1>5

LEMMA WorkKeeps ==
    ASSUME NodeInv, NEW w \in Workers, Work(w) PROVE NodeInv'
  <1>1. CASE TakeQueue(w) \/ GrabContext(w) \/ PopMessage(w) \/ CountMessages(w)
             \/ EndCallback(w) \/ SwapQueue(w) \/ PushBack(w) \/ NextQueue(w)
    BY <1>1, TakeQueueKeeps, GrabContextKeeps, PopMessageKeeps, CountMessagesKeeps, EndCallbackKeeps,
       SwapQueueKeeps, PushBackKeeps
  <1>2. CASE ReleaseQueue(w) \/ DropQueue(w) \/ CreateQueue(w) \/ InitSucceeds(w) \/ InitFails(w)
             \/ SetInit(w) \/ PushNewQueue(w)
    BY <1>2, ReleaseQueueKeeps, DropQueueKeeps, CreateQueueKeeps, InitSucceedsKeeps, InitFailsKeeps,
       SetInitKeeps, PushNewQueueKeeps
  <1>3. CASE RetireUnborn(w) \/ EndPass(w) \/ \E s \in Services : VisitSlot(w, s)
    BY <1>3, RetireUnbornKeeps, EndPassKeeps, VisitSlotKeeps
  <1>4. CASE StartSleep(w) \/ EnterWait(w) \/ LeaveWait(w) \/ Leave(w)
    BY <1>4, SleepKeeps, LeaveKeeps
  <1> QED BY <1>1, <1>2, <1>3, <1>4 DEF Work

LEMMA NodeInductive ==
    ASSUME NodeInv, [Next]_vars PROVE NodeInv'
  <1>1. ASSUME NEW w \in Workers, Work(w) \/ Command(w) \/ InitSend(w) \/ SpuriousWakeup(w)
        PROVE  NodeInv'
    <2>1. CASE Work(w)
      BY <2>1, WorkKeeps
    <2>2. CASE Command(w)
      BY <2>2, SendKeeps, KillKeeps, LaunchKeeps, AbortKeeps DEF Command
    <2>3. CASE InitSend(w)
      <3>1. w \in Threads /\ th[w] \in ThreadStates /\ PlaceOK(w, th[w]) /\ th[w].pc = "init"
        BY <2>3, ThreadFacts, ThreadsFinite DEF InitSend, StartSend, At
      <3>2. th[w].born \in Services
        BY <3>1 DEF PlaceOK, Placed, Base, InTurn, Errands, ThreadStates
      <3> QED BY <2>3, <3>2, SendKeeps
    <2>4. CASE SpuriousWakeup(w)
      BY <2>4, SleepKeeps
    <2> QED BY <1>1, <2>1, <2>2, <2>3, <2>4
  <1>2. ASSUME NEW t \in Threads, Deliver(t) PROVE NodeInv'
    BY <1>2, GrabDestinationKeeps, PushMessageKeeps, ReleaseKeeps, DeleteContextKeeps DEF Deliver
  <1>3. ASSUME NEW s \in Services, Timeout(s) \/ Forward(s) PROVE NodeInv'
    BY <1>3, SendKeeps
  <1>4. CASE Tick \/ Stop \/ SocketWakeup \/ SocketExit
    BY <1>4, TickKeeps, StopKeeps, SocketKeeps
  <1>5. CASE Joined \/ UNCHANGED vars
    BY <1>5, NothingKeeps DEF Joined
  <1> QED BY <1>1, <1>2, <1>3, <1>4, <1>5 DEF Next

\* What each place of a thread implies holds for any services, workers and messages, over
\* launch, kill, abort and the end of the node: the invariant behind the theorems below.
THEOREM NodeInvariance == Spec => []NodeInv
  BY NodeInitially, NodeInductive, PTL DEF Spec

\* What is counted is alive; the pointer a launch keeps after its release is not counted.
LEMMA CountedIsAlive == ASSUME NodeInv PROVE ReferencesAlive
  <1>1. ASSUME NEW t \in Threads, NEW s \in Services
        PROVE  /\ s \in {th[t].ctx, th[t].ref, th[t].born} => ctxMem[s] = "alive"
               /\ At(t, "delete") /\ th[t].ref = s => ~mq[s].release /\ mqMem[s] = "alive"
               /\ At(t, "enqueue") /\ th[t].dst = s => mqMem[s] = "alive" /\ ~mq[s].release
               /\ s \in {th[t].q, th[t].nq, th[t].dq} => mqMem[s] = "alive"
    <2>1. s \in {th[t].ctx, th[t].ref, th[t].born} => ctxMem[s] = "alive"
      BY AliveFacts
    <2>2. th[t].ref = s => mqMem[s] = "alive" /\ ~mq[s].release
      BY QueueLives
    <2>3. At(t, "enqueue") => th[t].ref = th[t].dst
      BY ThreadFacts DEF PlaceOK, Placed, At
    <2>4. s \in {th[t].q, th[t].nq, th[t].dq} => mqMem[s] = "alive"
      BY TurnFacts DEF Holds, Busy
    <2> QED BY <2>1, <2>2, <2>3, <2>4
  <1>2. ASSUME NEW i \in DOMAIN global PROVE mqMem[global[i]] = "alive"
    <2>1. Timer \in Threads /\ global[i] \in Services /\ Listed(global[i])
      BY DEF Threads, Outside, NodeInv, TypeOK, Listed
    <2> QED BY <2>1, TurnFacts DEF Busy
  <1>3. \A s \in Services : slot[s] # "free" => ctxMem[s] = "alive"
    BY FreedFacts
  <1> QED BY <1>1, <1>2, <1>3 DEF ReferencesAlive

\* The life of the contexts: the reference counts are exact, whatever is counted by them or
\* registered in the handle table is alive, no context is deleted twice, and no message
\* reaches a service before its ctx->init, for any number of services, workers and
\* messages.  It says nothing of the pointer that skynet_context_new goes on to use after
\* it has released its reference (skynet_server.c:166 and 170, cmd_launch at 494): that
\* pointer is counted nowhere.
THEOREM ContextsAreSound == Spec => []ContextsSound
  <1>1. ASSUME NodeInv PROVE ContextsSound
    <2>1. DispatchedAfterInit
      <3> SUFFICES ASSUME NEW w \in Workers, At(w, "callback") PROVE init[th[w].ctx]
        BY DEF DispatchedAfterInit
      <3>1. w \in Threads /\ th[w].ctx # None
        BY <1>1, ThreadsFinite, ThreadFacts DEF PlaceOK, Placed, Base, InTurn, Errands, At
      <3> QED BY <1>1, <3>1 DEF NodeInv, InitInv
    <2> QED BY <1>1, <2>1, CountedIsAlive DEF ContextsSound, NodeInv, LifeInv
  <1> QED BY <1>1, NodeInvariance, PTL

\* The launch that has the new queue in hand.
LEMMA LaunchTurn ==
    ASSUME NodeInv, NEW w \in Workers, NEW s \in Services
    PROVE  Launched(th[w]) = s <=>
              \/ th[w].born = s /\ ~At(w, "newqueue")
              \/ th[w].dst = s /\ (\/ th[w].pc \in {"setinit", "pushnew", "unborn"}
                                   \/ /\ th[w].pc \in {"release", "delete"}
                                      /\ th[w].after \in {"setinit", "unborn"})
  <1>1. w \in Threads
    BY ThreadsFinite
  <1>2. PlaceOK(w, th[w]) /\ s # None
    BY <1>1, ThreadFacts, NodeAssumption
  <1> QED BY <1>2 DEF PlaceOK, Placed, Base, Errands, InTurn, Launched, At

\* The places of a queue's turn, thread by thread.
LEMMA TurnsAre ==
    ASSUME NodeInv, NEW s \in Services, NEW x
    PROVE  x \in Turns(s) <=>
              \/ \E i \in DOMAIN global : global[i] = s /\ x = <<"global", i>>
              \/ \E w \in Workers : \/ th[w].q = s /\ x = <<w, "q">>
                                    \/ th[w].nq = s /\ x = <<w, "nq">>
                                    \/ th[w].dq = s /\ x = <<w, "dq">>
                                    \/ Launched(th[w]) = s /\ x = <<w, "launch">>
  <1> DEFINE L(w) == \/ th[w].born = s /\ ~At(w, "newqueue")
                     \/ th[w].dst = s /\ (\/ th[w].pc \in {"setinit", "pushnew", "unborn"}
                                          \/ /\ th[w].pc \in {"release", "delete"}
                                             /\ th[w].after \in {"setinit", "unborn"})
  <1>1. \A w \in Workers : Launched(th[w]) = s <=> L(w)
    BY LaunchTurn
  <1>2. Turns(s) = {<<"global", i>> : i \in {i \in DOMAIN global : global[i] = s}}
                   \cup {<<w, "q">> : w \in {w \in Workers : th[w].q = s}}
                   \cup {<<w, "nq">> : w \in {w \in Workers : th[w].nq = s}}
                   \cup {<<w, "dq">> : w \in {w \in Workers : th[w].dq = s}}
                   \cup {<<w, "launch">> : w \in {w \in Workers : L(w)}}
    BY Zenon DEF Turns
  <1> HIDE DEF L
  <1> QED BY <1>1, <1>2, Zenon

LEMMA TurnIsUnique ==
    ASSUME NodeInv, NEW s \in Services, NEW x \in Turns(s), NEW y \in Turns(s)
    PROVE  x = y
  <1>1. /\ \A i, j \in DOMAIN global : global[i] = global[j] => i = j
        /\ \A w \in Workers : Holds(th[w], s) => ~Listed(s)
        /\ \A w, u \in Workers : Holds(th[w], s) /\ Holds(th[u], s) => w = u
    BY ThreadsFinite DEF NodeInv, TurnInv
  <1>2. \A w \in Workers : \A p, q \in {"q", "nq", "dq", "launch"} :
           LET At_(l) == CASE l = "q" -> th[w].q [] l = "nq" -> th[w].nq [] l = "dq" -> th[w].dq
                           [] OTHER -> Launched(th[w])
           IN  At_(p) = s /\ At_(q) = s => p = q
    <2> TAKE w \in Workers
    <2>1. w \in Threads
      BY ThreadsFinite
    <2>2. PlaceOK(w, th[w]) /\ Apart(th[w]) /\ s # None
      BY <2>1, ThreadFacts, TurnFacts, NodeAssumption
    <2>3. /\ ~(th[w].q = s /\ th[w].nq = s) /\ ~(th[w].q = s /\ th[w].dq = s)
          /\ ~(th[w].q = s /\ Launched(th[w]) = s)
      BY <2>2 DEF Apart
    <2>4. /\ ~(th[w].nq = s /\ th[w].dq = s) /\ ~(th[w].nq = s /\ Launched(th[w]) = s)
          /\ ~(th[w].dq = s /\ Launched(th[w]) = s)
      BY <2>2 DEF PlaceOK, Placed, Launched
    <2> QED BY <2>3, <2>4
  <1>3. \/ \E i \in DOMAIN global : global[i] = s /\ x = <<"global", i>>
        \/ \E w \in Workers : \/ th[w].q = s /\ x = <<w, "q">>
                              \/ th[w].nq = s /\ x = <<w, "nq">>
                              \/ th[w].dq = s /\ x = <<w, "dq">>
                              \/ Launched(th[w]) = s /\ x = <<w, "launch">>
    BY TurnsAre
  <1>4. \/ \E i \in DOMAIN global : global[i] = s /\ y = <<"global", i>>
        \/ \E w \in Workers : \/ th[w].q = s /\ y = <<w, "q">>
                              \/ th[w].nq = s /\ y = <<w, "nq">>
                              \/ th[w].dq = s /\ y = <<w, "dq">>
                              \/ Launched(th[w]) = s /\ y = <<w, "launch">>
    BY TurnsAre
  <1>5. CASE Listed(s)
    <2>1. \A w \in Workers : th[w].q # s /\ th[w].nq # s /\ th[w].dq # s /\ Launched(th[w]) # s
      BY <1>1, <1>5 DEF Holds
    <2> QED BY <1>1, <1>3, <1>4, <2>1
  <1>6. CASE ~Listed(s)
    <2>1. PICK w \in Workers : \/ th[w].q = s /\ x = <<w, "q">>
                               \/ th[w].nq = s /\ x = <<w, "nq">>
                               \/ th[w].dq = s /\ x = <<w, "dq">>
                               \/ Launched(th[w]) = s /\ x = <<w, "launch">>
      BY <1>3, <1>6 DEF Listed
    <2>2. PICK u \in Workers : \/ th[u].q = s /\ y = <<u, "q">>
                               \/ th[u].nq = s /\ y = <<u, "nq">>
                               \/ th[u].dq = s /\ y = <<u, "dq">>
                               \/ Launched(th[u]) = s /\ y = <<u, "launch">>
      BY <1>4, <1>6 DEF Listed
    <2>3. u = w
      BY <1>1, <2>1, <2>2 DEF Holds
    <2> QED BY <1>2, <2>1, <2>2, <2>3
  <1> QED BY <1>5, <1>6

LEMMA WorkHasTurn ==
    ASSUME NodeInv, NEW s \in Services, HasWork(s), ~quit
    PROVE  Turns(s) # {}
  <1>1. Busy(s)
    BY DEF HasWork, Busy, NodeInv, QueueInv
  <1>2. Listed(s) \/ \E t \in Threads : Holds(th[t], s)
    BY <1>1 DEF NodeInv, TurnInv
  <1>3. CASE Listed(s)
    BY <1>3, TurnsAre DEF Listed
  <1>4. ASSUME NEW t \in Threads, Holds(th[t], s) PROVE Turns(s) # {}
    <2>1. PlaceOK(t, th[t]) /\ s # None
      BY ThreadFacts, NodeAssumption
    <2>2. t \in Workers
      BY <1>4, <2>1, NodeAssumption DEF PlaceOK, Placed, Holds, Launched, Threads
    <2>3. \/ <<t, "q">> \in Turns(s) \/ <<t, "nq">> \in Turns(s) \/ <<t, "dq">> \in Turns(s)
          \/ <<t, "launch">> \in Turns(s)
      <3>1. /\ th[t].q = s => <<t, "q">> \in Turns(s)
            /\ th[t].nq = s => <<t, "nq">> \in Turns(s)
            /\ th[t].dq = s => <<t, "dq">> \in Turns(s)
            /\ Launched(th[t]) = s => <<t, "launch">> \in Turns(s)
        BY <2>2, TurnsAre
      <3> QED BY <1>4, <3>1 DEF Holds
    <2> QED BY <2>3
  <1> QED BY <1>2, <1>3, <1>4

\* A queue has its turn in one place at most, in the global list or in the hands of one
\* worker, so that globalmq_push never finds it there already and no callback runs twice at
\* once; and a queue with work has its turn until the node ends.
THEOREM QueuesAreScheduled == Spec => []QueuesScheduled
  <1>1. ASSUME NodeInv PROVE QueuesScheduled
    <2> SUFFICES ASSUME NEW s \in Services
                 PROVE  /\ Cardinality(Turns(s)) <= 1
                        /\ HasWork(s) /\ ~quit => Cardinality(Turns(s)) = 1
      BY DEF QueuesScheduled
    <2>1. CASE Turns(s) = {}
      BY <1>1, <2>1, WorkHasTurn, FS_EmptySet
    <2>2. CASE Turns(s) # {}
      <3>1. PICK x : x \in Turns(s)
        BY <2>2
      <3>2. Turns(s) = {x}
        BY <1>1, <3>1, TurnIsUnique
      <3> QED BY <3>2, FS_Singleton
    <2> QED BY <2>1, <2>2
  <1> QED BY <1>1, NodeInvariance, PTL

----------------------------------------------------------------------------
(* The messages: c is what the queues hold, h what the threads have in     *)
(* hand, f the fate of each number, and o the source a thread sends for,   *)
(* None where it gives a message back                                      *)

Texts(c, h) == c \in [Services -> Seq(Messages)] /\ h \in [Threads -> Messages \cup {Vacant}]

Travel(c, h, f) ==
    /\ \A i, j \in Ids : j < i /\ f[i] # "unsent" => f[j] # "unsent"
    /\ \A s \in Services : \A k \in DOMAIN c[s] : f[c[s][k].id] = "travelling"
    /\ \A t \in Threads : h[t] # Vacant => f[h[t].id] = "travelling"
    /\ \A i \in Ids : f[i] = "travelling" =>
           \/ \E s \in Services : \E k \in DOMAIN c[s] : c[s][k].id = i
           \/ \E t \in Threads : h[t] # Vacant /\ h[t].id = i

Apartness(c, h) ==
    /\ \A r, s \in Services : \A j \in DOMAIN c[r], k \in DOMAIN c[s] :
           c[r][j].id = c[s][k].id => r = s /\ j = k
    /\ \A t \in Threads : h[t] # Vacant =>
           /\ \A s \in Services : \A k \in DOMAIN c[s] : c[s][k].id # h[t].id
           /\ \A u \in Threads : h[u] # Vacant /\ h[u].id = h[t].id => t = u

Younger(c, m) ==
    \A s \in Services : \A k \in DOMAIN c[s] :
        c[s][k].kind = "text" /\ c[s][k].src = m.src => c[s][k].id < m.id

Sender(c, h, o) ==
    \A t \in Threads : h[t] # Vacant =>
        IF o[t] = None THEN h[t].kind = "error"
        ELSE h[t].kind = "text" /\ h[t].src = o[t] /\ Younger(c, h[t])

Ordered(c) ==
    \A s \in Services : \A i, j \in DOMAIN c[s] :
        /\ i < j /\ c[s][i].src = c[s][j].src /\ c[s][i].kind = "text" /\ c[s][j].kind = "text"
        => c[s][i].id < c[s][j].id

Kept(c, h, f, o) == Travel(c, h, f) /\ Apartness(c, h) /\ Sender(c, h, o) /\ Ordered(c)

\* No two threads send for the same source.
OneSender(h, o) ==
    \A t, u \in Threads : h[t] # Vacant /\ h[u] # Vacant /\ o[t] # None /\ o[t] = o[u] => t = u

LEMMA MessageFields ==
    ASSUME NEW m \in Messages PROVE m.id \in Ids /\ m.id \in Nat /\ m # Vacant
  BY NodeAssumption, QueueAssumption

LEMMA KeptSame ==
    ASSUME NEW c, NEW h, NEW f, NEW o, NEW p, Kept(c, h, f, o),
           \A t \in Threads : h[t] # Vacant => p[t] = o[t]
    PROVE  Kept(c, h, f, p)
  BY DEF Kept, Sender

\* A message gets the next number, and is in the hand of the thread that sends it.
LEMMA KeptStarted ==
    ASSUME NEW c, NEW h, NEW f, NEW o, Texts(c, h), Kept(c, h, f, o),
           NEW p, NEW t \in Threads, NEW m \in Messages,
           h[t] = Vacant, m.kind = "text", p[t] # None, m.src = p[t],
           \A u \in Threads \ {t} : h[u] # Vacant => p[u] = o[u],
           DOMAIN f = Ids, f[m.id] = "unsent", \A j \in Ids : f[j] = "unsent" => m.id <= j
    PROVE  Kept(c, [h EXCEPT ![t] = m], [f EXCEPT ![m.id] = "travelling"], p)
  <1> DEFINE g == [f EXCEPT ![m.id] = "travelling"]
             e == [h EXCEPT ![t] = m]
  <1>1. m.id \in Ids /\ Ids \subseteq Nat /\ m # Vacant
    BY MessageFields, NodeAssumption
  <1>2. g[m.id] = "travelling" /\ \A i \in Ids : i # m.id => g[i] = f[i]
    BY <1>1
  <1>3. e[t] = m /\ \A u \in Threads : u # t => e[u] = h[u]
    BY DEF Texts
  <1>4. \A s \in Services : \A k \in DOMAIN c[s] : c[s][k].id \in Ids /\ c[s][k].id # m.id /\ c[s][k].id < m.id
    <2> TAKE s \in Services
    <2> TAKE k \in DOMAIN c[s]
    <2>1. c[s][k] \in Messages
      BY DEF Texts
    <2>2. c[s][k].id \in Ids /\ f[c[s][k].id] = "travelling"
      BY <2>1, MessageFields DEF Kept, Travel
    <2>3. ~(m.id < c[s][k].id)
      BY <1>1, <2>2 DEF Kept, Travel
    <2>4. c[s][k].id \in Nat /\ m.id \in Nat /\ c[s][k].id # m.id
      BY <1>1, <2>2
    <2> QED BY <2>2, <2>3, <2>4
  <1>5. \A u \in Threads : h[u] # Vacant => h[u].id \in Ids /\ h[u].id # m.id
    <2> TAKE u \in Threads
    <2>1. h[u] # Vacant => h[u] \in Messages
      BY DEF Texts
    <2> QED BY <2>1, MessageFields DEF Kept, Travel
  <1> HIDE DEF g, e
  <1>6. Travel(c, e, g)
    <2>1. \A i, j \in Ids : j < i /\ g[i] # "unsent" => g[j] # "unsent"
      BY <1>1, <1>2 DEF Kept, Travel
    <2>2. \A s \in Services : \A k \in DOMAIN c[s] : g[c[s][k].id] = "travelling"
      BY <1>2, <1>4 DEF Kept, Travel
    <2>3. \A u \in Threads : e[u] # Vacant => g[e[u].id] = "travelling"
      BY <1>2, <1>3, <1>5 DEF Kept, Travel
    <2>4. ASSUME NEW i \in Ids, g[i] = "travelling"
          PROVE  \/ \E s \in Services : \E k \in DOMAIN c[s] : c[s][k].id = i
                 \/ \E u \in Threads : e[u] # Vacant /\ e[u].id = i
      <3>1. CASE i = m.id
        BY <1>1, <1>3, <3>1
      <3>2. CASE i # m.id
        <4>1. \/ \E s \in Services : \E k \in DOMAIN c[s] : c[s][k].id = i
              \/ \E u \in Threads : h[u] # Vacant /\ h[u].id = i
          BY <1>2, <2>4, <3>2 DEF Kept, Travel
        <4> QED BY <1>3, <4>1
      <3> QED BY <3>1, <3>2
    <2> QED BY <2>1, <2>2, <2>3, <2>4 DEF Travel
  <1>7. Apartness(c, e)
    BY <1>3, <1>4, <1>5 DEF Kept, Apartness
  <1>8. Sender(c, e, p)
    <2>1. Younger(c, m)
      BY <1>4 DEF Younger
    <2> QED BY <1>3, <2>1 DEF Kept, Sender
  <1> QED BY <1>6, <1>7, <1>8 DEF Kept, g, e

\* A message in a thread's hand is freed: skynet_context_push finds no destination.
LEMMA KeptRefused ==
    ASSUME NEW c, NEW h, NEW f, NEW o, Texts(c, h), Kept(c, h, f, o),
           NEW p, NEW t \in Threads, h[t] # Vacant, DOMAIN f = Ids,
           \A u \in Threads \ {t} : h[u] # Vacant => p[u] = o[u]
    PROVE  Kept(c, [h EXCEPT ![t] = Vacant], [f EXCEPT ![h[t].id] = "refused"], p)
  <1> DEFINE n == h[t].id
             g == [f EXCEPT ![n] = "refused"]
             e == [h EXCEPT ![t] = Vacant]
  <1>1. n \in Ids /\ Ids \subseteq Nat
    BY MessageFields, NodeAssumption DEF Texts
  <1>2. g[n] = "refused" /\ \A i \in Ids : i # n => g[i] = f[i]
    BY <1>1
  <1>3. e[t] = Vacant /\ \A u \in Threads : u # t => e[u] = h[u]
    BY DEF Texts
  <1>4. \A s \in Services : \A k \in DOMAIN c[s] : c[s][k].id \in Ids /\ c[s][k].id # n
    <2> TAKE s \in Services
    <2> TAKE k \in DOMAIN c[s]
    <2>1. c[s][k] \in Messages
      BY DEF Texts
    <2> QED BY <2>1, MessageFields DEF Kept, Apartness
  <1>5. \A u \in Threads : u # t /\ h[u] # Vacant => h[u].id \in Ids /\ h[u].id # n
    <2> TAKE u \in Threads
    <2>1. h[u] # Vacant => h[u] \in Messages
      BY DEF Texts
    <2> QED BY <2>1, MessageFields DEF Kept, Apartness
  <1>6. f[n] = "travelling"
    BY DEF Kept, Travel
  <1> HIDE DEF g, e, n
  <1>7. Travel(c, e, g)
    <2>1. \A i, j \in Ids : j < i /\ g[i] # "unsent" => g[j] # "unsent"
      BY <1>1, <1>2, <1>6 DEF Kept, Travel
    <2>2. \A s \in Services : \A k \in DOMAIN c[s] : g[c[s][k].id] = "travelling"
      BY <1>2, <1>4 DEF Kept, Travel
    <2>3. \A u \in Threads : e[u] # Vacant => g[e[u].id] = "travelling"
      BY <1>2, <1>3, <1>5 DEF Kept, Travel
    <2>4. ASSUME NEW i \in Ids, g[i] = "travelling"
          PROVE  \/ \E s \in Services : \E k \in DOMAIN c[s] : c[s][k].id = i
                 \/ \E u \in Threads : e[u] # Vacant /\ e[u].id = i
      <3>1. i # n /\ f[i] = "travelling"
        BY <1>2, <2>4
      <3>2. \/ \E s \in Services : \E k \in DOMAIN c[s] : c[s][k].id = i
            \/ \E u \in Threads : h[u] # Vacant /\ h[u].id = i
        BY <3>1 DEF Kept, Travel
      <3> QED BY <1>3, <3>1, <3>2 DEF n
    <2> QED BY <2>1, <2>2, <2>3, <2>4 DEF Travel
  <1>8. Apartness(c, e)
    BY <1>3 DEF Kept, Apartness
  <1>9. Sender(c, e, p)
    BY <1>3 DEF Kept, Sender
  <1> QED BY <1>7, <1>8, <1>9 DEF Kept, g, e, n

\* What Append and Tail do, position by position.
LEMMA AppendPositions ==
    ASSUME NEW S, NEW q \in Seq(S), NEW m \in S
    PROVE  /\ Append(q, m) \in Seq(S) /\ DOMAIN q = 1..Len(q) /\ Len(q) \in Nat
           /\ DOMAIN Append(q, m) = 1..(Len(q) + 1)
           /\ \A k \in 1..Len(q) : Append(q, m)[k] = q[k]
           /\ Append(q, m)[Len(q) + 1] = m
  OBVIOUS

LEMMA TailPositions ==
    ASSUME NEW S, NEW q \in Seq(S), q # <<>>
    PROVE  /\ Tail(q) \in Seq(S) /\ DOMAIN q = 1..Len(q) /\ Len(q) \in Nat /\ Len(q) >= 1
           /\ DOMAIN Tail(q) = 1..(Len(q) - 1)
           /\ \A k \in 1..(Len(q) - 1) : k + 1 \in 1..Len(q) /\ Tail(q)[k] = q[k + 1]
           /\ Head(q) = q[1] /\ q[1] \in S /\ 1 \in 1..Len(q)
           /\ \A k \in 1..Len(q) : k # 1 => k - 1 \in 1..(Len(q) - 1) /\ q[k] = Tail(q)[k - 1]
  <1>1. /\ Tail(q) \in Seq(S) /\ DOMAIN q = 1..Len(q) /\ Len(q) \in Nat /\ Len(q) >= 1
        /\ Len(Tail(q)) = Len(q) - 1
        /\ \A k \in 1..(Len(q) - 1) : k + 1 \in 1..Len(q) /\ Tail(q)[k] = q[k + 1]
    OBVIOUS
  <1>2. DOMAIN Tail(q) = 1..(Len(q) - 1) /\ Head(q) = q[1] /\ q[1] \in S /\ 1 \in 1..Len(q)
    BY <1>1
  <1>3. \A k \in 1..Len(q) : k # 1 => k - 1 \in 1..(Len(q) - 1) /\ (k - 1) + 1 = k
    BY <1>1
  <1>4. \A k \in 1..Len(q) : k # 1 => q[k] = Tail(q)[k - 1]
    BY <1>1, <1>3
  <1> QED BY <1>1, <1>2, <1>3, <1>4

\* mq_push: the message goes from the thread's hand behind the others of the queue.
LEMMA KeptPushed ==
    ASSUME NEW c, NEW h, NEW f, NEW o, Texts(c, h), Kept(c, h, f, o), OneSender(h, o),
           NEW p, NEW t \in Threads, NEW s \in Services, h[t] # Vacant,
           \A u \in Threads \ {t} : h[u] # Vacant => p[u] = o[u]
    PROVE  Kept([c EXCEPT ![s] = Append(c[s], h[t])], [h EXCEPT ![t] = Vacant], f, p)
  <1> DEFINE m == h[t]
             n == Len(c[s])
             d == [c EXCEPT ![s] = Append(c[s], h[t])]
             e == [h EXCEPT ![t] = Vacant]
  <1>1. m \in Messages /\ m # Vacant /\ m.id \in Ids /\ m.id \in Nat
    BY MessageFields DEF Texts
  <1>2. /\ n \in Nat /\ DOMAIN c[s] = 1..n /\ DOMAIN d[s] = 1..(n + 1)
        /\ \A k \in 1..n : d[s][k] = c[s][k]
        /\ d[s][n + 1] = m
        /\ \A r \in Services : r # s => d[r] = c[r]
    <2>1. c[s] \in Seq(Messages) /\ d[s] = Append(c[s], m) /\ \A r \in Services : r # s => d[r] = c[r]
      BY DEF Texts
    <2> HIDE DEF d, m
    <2> QED BY <1>1, <2>1, AppendPositions
  <1>3. e[t] = Vacant /\ \A u \in Threads : u # t => e[u] = h[u]
    BY DEF Texts
  <1>4. n + 1 \in 1..(n + 1) /\ \A k \in 1..(n + 1) : k \in 1..n \/ (k = n + 1 /\ k \notin 1..n)
    BY <1>2
  <1> HIDE DEF m, d, e, n
  <1>5. \A r \in Services : \A k \in DOMAIN d[r] :
           \/ k \in DOMAIN c[r] /\ d[r][k] = c[r][k]
           \/ r = s /\ k = n + 1 /\ k \notin DOMAIN c[r] /\ d[r][k] = m
    BY <1>2, <1>4
  <1>6. /\ \A r \in Services : \A k \in DOMAIN c[r] : k \in DOMAIN d[r] /\ d[r][k] = c[r][k]
        /\ n + 1 \in DOMAIN d[s] /\ d[s][n + 1] = m
    BY <1>2, <1>4
  <1>7. Travel(d, e, f)
    <2>1. \A i, j \in Ids : j < i /\ f[i] # "unsent" => f[j] # "unsent"
      BY DEF Kept, Travel
    <2>2. \A r \in Services : \A k \in DOMAIN d[r] : f[d[r][k].id] = "travelling"
      BY <1>5 DEF Kept, Travel, m
    <2>3. \A u \in Threads : e[u] # Vacant => f[e[u].id] = "travelling"
      BY <1>3 DEF Kept, Travel
    <2>4. ASSUME NEW i \in Ids, f[i] = "travelling"
          PROVE  \/ \E r \in Services : \E k \in DOMAIN d[r] : d[r][k].id = i
                 \/ \E u \in Threads : e[u] # Vacant /\ e[u].id = i
      <3>1. CASE \E r \in Services : \E k \in DOMAIN c[r] : c[r][k].id = i
        BY <1>6, <3>1
      <3>2. ASSUME NEW u \in Threads, h[u] # Vacant, h[u].id = i
            PROVE  \/ \E r \in Services : \E k \in DOMAIN d[r] : d[r][k].id = i
                   \/ \E v \in Threads : e[v] # Vacant /\ e[v].id = i
        <4>1. CASE u = t
          BY <1>6, <3>2, <4>1 DEF m
        <4>2. CASE u # t
          BY <1>3, <3>2, <4>2
        <4> QED BY <4>1, <4>2
      <3> QED BY <2>4, <3>1, <3>2 DEF Kept, Travel
    <2> QED BY <2>1, <2>2, <2>3, <2>4 DEF Travel
  <1>8. \A r \in Services : \A k \in DOMAIN c[r] : c[r][k].id # m.id
    BY DEF Kept, Apartness, m
  <1>9. Apartness(d, e)
    <2>1. ASSUME NEW r \in Services, NEW x \in Services, NEW j \in DOMAIN d[r], NEW k \in DOMAIN d[x],
                 d[r][j].id = d[x][k].id
          PROVE  r = x /\ j = k
      BY <1>5, <1>8, <2>1 DEF Kept, Apartness
    <2>2. ASSUME NEW u \in Threads, e[u] # Vacant, NEW x \in Services, NEW k \in DOMAIN d[x]
          PROVE  d[x][k].id # e[u].id
      BY <1>3, <1>5, <2>2 DEF Kept, Apartness, m
    <2>3. ASSUME NEW u \in Threads, e[u] # Vacant, NEW v \in Threads, e[v] # Vacant, e[v].id = e[u].id
          PROVE  u = v
      BY <1>3, <2>3 DEF Kept, Apartness
    <2> QED BY <2>1, <2>2, <2>3 DEF Apartness
  <1>10. Sender(d, e, p)
    <2> SUFFICES ASSUME NEW u \in Threads, e[u] # Vacant
                 PROVE  IF p[u] = None THEN e[u].kind = "error"
                        ELSE e[u].kind = "text" /\ e[u].src = p[u] /\ Younger(d, e[u])
      BY DEF Sender
    <2>1. u # t /\ e[u] = h[u] /\ p[u] = o[u]
      BY <1>3
    <2>2. CASE o[u] = None
      BY <2>1, <2>2 DEF Kept, Sender
    <2>3. CASE o[u] # None
      <3>1. h[u].kind = "text" /\ h[u].src = o[u] /\ Younger(c, h[u])
        BY <2>1, <2>3 DEF Kept, Sender
      <3>2. ~(m.kind = "text" /\ m.src = o[u])
        <4>1. ASSUME m.kind = "text", m.src = o[u] PROVE FALSE
          <5>1. o[t] = o[u]
            BY <1>1, <4>1 DEF Kept, Sender, m
          <5> QED BY <1>1, <2>1, <2>3, <5>1 DEF OneSender
        <4> QED BY <4>1
      <3>3. Younger(d, h[u])
        BY <1>5, <3>1, <3>2 DEF Younger
      <3> QED BY <2>1, <2>3, <3>1, <3>3
    <2> QED BY <2>2, <2>3
  <1>11. Ordered(d)
    <2> SUFFICES ASSUME NEW r \in Services, NEW i \in DOMAIN d[r], NEW j \in DOMAIN d[r], i < j,
                        d[r][i].src = d[r][j].src, d[r][i].kind = "text", d[r][j].kind = "text"
                 PROVE  d[r][i].id < d[r][j].id
      BY DEF Ordered
    <2>1. CASE j \in DOMAIN c[r]
      <3>1. i \in DOMAIN c[r]
        BY <1>2, <1>4, <1>5, <2>1
      <3> QED BY <1>6, <2>1, <3>1 DEF Kept, Ordered
    <2>2. CASE j \notin DOMAIN c[r]
      <3>1. r = s /\ j = n + 1 /\ d[r][j] = m
        BY <1>5, <2>2
      <3>2. i \in DOMAIN c[r] /\ d[r][i] = c[r][i]
        BY <1>2, <1>4, <1>5, <3>1
      <3>3. Younger(c, m)
        BY <1>1, <3>1 DEF Kept, Sender, m
      <3> QED BY <3>1, <3>2, <3>3 DEF Younger
    <2> QED BY <2>1, <2>2
  <1> QED BY <1>7, <1>9, <1>10, <1>11 DEF Kept, d, e, m

\* mq_pop: the first message leaves the queue, and somebody has had it, or its sender
\* cannot be told.
LEMMA KeptPopped ==
    ASSUME NEW c, NEW h, NEW f, NEW o, Texts(c, h), Kept(c, h, f, o), DOMAIN f = Ids,
           NEW p, \A u \in Threads : h[u] # Vacant => p[u] = o[u],
           NEW s \in Services, c[s] # <<>>, NEW a, a \notin {"unsent", "travelling"}
    PROVE  Kept([c EXCEPT ![s] = Tail(c[s])], h, [f EXCEPT ![Head(c[s]).id] = a], p)
  <1> DEFINE m == Head(c[s])
             n == Len(c[s])
             d == [c EXCEPT ![s] = Tail(c[s])]
             g == [f EXCEPT ![m.id] = a]
  <1>1. /\ n \in Nat /\ n >= 1 /\ DOMAIN c[s] = 1..n /\ DOMAIN d[s] = 1..(n - 1)
        /\ \A k \in 1..(n - 1) : k + 1 \in 1..n /\ d[s][k] = c[s][k + 1]
        /\ m = c[s][1] /\ m \in Messages /\ 1 \in 1..n
        /\ \A k \in 1..n : k # 1 => k - 1 \in 1..(n - 1) /\ c[s][k] = d[s][k - 1]
        /\ \A r \in Services : r # s => d[r] = c[r]
    <2>1. c[s] \in Seq(Messages) /\ d[s] = Tail(c[s]) /\ \A r \in Services : r # s => d[r] = c[r]
      BY DEF Texts
    <2> HIDE DEF d
    <2> QED BY <2>1, TailPositions
  <1>2. m.id \in Ids /\ g[m.id] = a /\ \A i \in Ids : i # m.id => g[i] = f[i]
    BY <1>1, MessageFields
  <1> HIDE DEF m, d, g, n
  <1> DEFINE back(r, k) == IF r = s THEN k + 1 ELSE k
  <1>3. \A r \in Services : \A k \in DOMAIN d[r] :
           /\ back(r, k) \in DOMAIN c[r] /\ d[r][k] = c[r][back(r, k)]
           /\ r = s => back(r, k) # 1
    BY <1>1
  <1>4. \A r \in Services : \A k \in DOMAIN c[r] :
           \/ r = s /\ k = 1 /\ c[r][k] = m
           \/ \E j \in DOMAIN d[r] : d[r][j] = c[r][k]
    <2> TAKE r \in Services
    <2> TAKE k \in DOMAIN c[r]
    <2>1. CASE r = s /\ k = 1
      BY <1>1, <2>1
    <2>2. CASE r = s /\ k # 1
      <3>1. k - 1 \in DOMAIN d[r] /\ d[r][k - 1] = c[r][k]
        BY <1>1, <2>2
      <3> QED BY <3>1
    <2>3. CASE r # s
      BY <1>1, <2>3
    <2> QED BY <2>1, <2>2, <2>3
  <1>5. \A r \in Services : \A j, k \in DOMAIN d[r] :
           (back(r, j) = back(r, k) => j = k) /\ (j < k => back(r, j) < back(r, k))
    <2> TAKE r \in Services
    <2>1. CASE r = s
      BY <1>1, <2>1
    <2>2. CASE r # s
      BY <2>2
    <2> QED BY <2>1, <2>2
  <1> HIDE DEF back
  <1>6. \A r \in Services : \A k \in DOMAIN c[r] : c[r][k].id \in Ids /\ (c[r][k].id = m.id => r = s /\ k = 1)
    <2> TAKE r \in Services
    <2> TAKE k \in DOMAIN c[r]
    <2>1. c[r][k] \in Messages
      BY DEF Texts
    <2> QED BY <1>1, <2>1, MessageFields DEF Kept, Apartness
  <1>7. \A r \in Services : \A k \in DOMAIN d[r] : d[r][k].id \in Ids /\ d[r][k].id # m.id
    BY <1>3, <1>6
  <1>8. \A u \in Threads : h[u] # Vacant => h[u].id \in Ids /\ h[u].id # m.id
    <2> TAKE u \in Threads
    <2>1. h[u] # Vacant => h[u] \in Messages
      BY DEF Texts
    <2> QED BY <1>1, <2>1, MessageFields DEF Kept, Apartness
  <1>9. Travel(d, h, g)
    <2>1. f[m.id] = "travelling"
      BY <1>1 DEF Kept, Travel
    <2>2. \A i, j \in Ids : j < i /\ g[i] # "unsent" => g[j] # "unsent"
      BY <1>2, <2>1 DEF Kept, Travel
    <2>3. \A r \in Services : \A k \in DOMAIN d[r] : g[d[r][k].id] = "travelling"
      BY <1>2, <1>3, <1>7 DEF Kept, Travel
    <2>4. \A u \in Threads : h[u] # Vacant => g[h[u].id] = "travelling"
      BY <1>2, <1>8 DEF Kept, Travel
    <2>5. ASSUME NEW i \in Ids, g[i] = "travelling"
          PROVE  \/ \E r \in Services : \E k \in DOMAIN d[r] : d[r][k].id = i
                 \/ \E u \in Threads : h[u] # Vacant /\ h[u].id = i
      <3>1. i # m.id /\ f[i] = "travelling"
        BY <1>2, <2>5
      <3>2. CASE \E r \in Services : \E k \in DOMAIN c[r] : c[r][k].id = i
        BY <1>4, <3>1, <3>2
      <3>3. CASE \E u \in Threads : h[u] # Vacant /\ h[u].id = i
        BY <3>3
      <3> QED BY <3>1, <3>2, <3>3 DEF Kept, Travel
    <2> QED BY <2>2, <2>3, <2>4, <2>5 DEF Travel
  <1>10. Apartness(d, h)
    <2>1. ASSUME NEW r \in Services, NEW x \in Services, NEW j \in DOMAIN d[r], NEW k \in DOMAIN d[x],
                 d[r][j].id = d[x][k].id
          PROVE  r = x /\ j = k
      <3>1. r = x /\ back(r, j) = back(x, k)
        BY <1>3, <2>1 DEF Kept, Apartness
      <3> QED BY <1>5, <3>1
    <2>2. ASSUME NEW u \in Threads, h[u] # Vacant, NEW x \in Services, NEW k \in DOMAIN d[x]
          PROVE  d[x][k].id # h[u].id
      BY <1>3, <2>2 DEF Kept, Apartness
    <2> QED BY <2>1, <2>2 DEF Apartness, Kept
  <1>11. Sender(d, h, p)
    <2>1. \A u \in Threads : Younger(c, h[u]) => Younger(d, h[u])
      BY <1>3 DEF Younger
    <2> QED BY <2>1 DEF Kept, Sender
  <1>12. Ordered(d)
    <2> SUFFICES ASSUME NEW r \in Services, NEW i \in DOMAIN d[r], NEW j \in DOMAIN d[r], i < j,
                        d[r][i].src = d[r][j].src, d[r][i].kind = "text", d[r][j].kind = "text"
                 PROVE  d[r][i].id < d[r][j].id
      BY DEF Ordered
    <2>1. /\ back(r, i) \in DOMAIN c[r] /\ back(r, j) \in DOMAIN c[r] /\ back(r, i) < back(r, j)
          /\ d[r][i] = c[r][back(r, i)] /\ d[r][j] = c[r][back(r, j)]
      BY <1>3, <1>5
    <2> QED BY <2>1 DEF Kept, Ordered
  <1> QED BY <1>9, <1>10, <1>11, <1>12 DEF Kept, d, g, m

\* drop_message: the first message of a dropped queue goes back as an error.
LEMMA KeptBounced ==
    ASSUME NEW c, NEW h, NEW f, NEW o, Texts(c, h), Kept(c, h, f, o),
           NEW t \in Threads, NEW p, p[t] = None, h[t] = Vacant,
           \A u \in Threads \ {t} : h[u] # Vacant => p[u] = o[u],
           NEW s \in Services, c[s] # <<>>,
           NEW e \in Messages, e.id = Head(c[s]).id, e.kind = "error"
    PROVE  Kept([c EXCEPT ![s] = Tail(c[s])], [h EXCEPT ![t] = e], f, p)
  <1> DEFINE m == Head(c[s])
             n == Len(c[s])
             d == [c EXCEPT ![s] = Tail(c[s])]
             g == [h EXCEPT ![t] = e]
  <1>1. /\ n \in Nat /\ n >= 1 /\ DOMAIN c[s] = 1..n /\ DOMAIN d[s] = 1..(n - 1)
        /\ \A k \in 1..(n - 1) : k + 1 \in 1..n /\ d[s][k] = c[s][k + 1]
        /\ m = c[s][1] /\ m \in Messages /\ 1 \in 1..n
        /\ \A k \in 1..n : k # 1 => k - 1 \in 1..(n - 1) /\ c[s][k] = d[s][k - 1]
        /\ \A r \in Services : r # s => d[r] = c[r]
    <2>1. c[s] \in Seq(Messages) /\ d[s] = Tail(c[s]) /\ \A r \in Services : r # s => d[r] = c[r]
      BY DEF Texts
    <2> HIDE DEF d
    <2> QED BY <2>1, TailPositions
  <1>2. g[t] = e /\ e # Vacant /\ \A u \in Threads : u # t => g[u] = h[u]
    BY MessageFields DEF Texts
  <1> HIDE DEF d, g, n
  <1> DEFINE back(r, k) == IF r = s THEN k + 1 ELSE k
  <1>3. \A r \in Services : \A k \in DOMAIN d[r] :
           /\ back(r, k) \in DOMAIN c[r] /\ d[r][k] = c[r][back(r, k)]
           /\ r = s => back(r, k) # 1
    BY <1>1
  <1>4. \A r \in Services : \A k \in DOMAIN c[r] :
           \/ r = s /\ k = 1 /\ c[r][k].id = e.id
           \/ \E j \in DOMAIN d[r] : d[r][j] = c[r][k]
    <2> TAKE r \in Services
    <2> TAKE k \in DOMAIN c[r]
    <2>1. CASE r = s /\ k = 1
      BY <1>1, <2>1
    <2>2. CASE r = s /\ k # 1
      <3>1. k - 1 \in DOMAIN d[r] /\ d[r][k - 1] = c[r][k]
        BY <1>1, <2>2
      <3> QED BY <3>1
    <2>3. CASE r # s
      BY <1>1, <2>3
    <2> QED BY <2>1, <2>2, <2>3
  <1>5. \A r \in Services : \A j, k \in DOMAIN d[r] :
           (back(r, j) = back(r, k) => j = k) /\ (j < k => back(r, j) < back(r, k))
    <2> TAKE r \in Services
    <2>1. CASE r = s
      BY <1>1, <2>1
    <2>2. CASE r # s
      BY <2>2
    <2> QED BY <2>1, <2>2
  <1> HIDE DEF back, m
  <1>6. \A r \in Services : \A k \in DOMAIN c[r] : c[r][k].id = e.id => r = s /\ k = 1
    BY <1>1 DEF Kept, Apartness, m
  <1>7. \A r \in Services : \A k \in DOMAIN d[r] : d[r][k].id # e.id
    BY <1>3, <1>6
  <1>8. \A u \in Threads : h[u] # Vacant => h[u].id # e.id
    BY <1>1 DEF Kept, Apartness, m
  <1>9. Travel(d, g, f)
    <2>1. f[e.id] = "travelling"
      BY <1>1 DEF Kept, Travel, m
    <2>2. \A i, j \in Ids : j < i /\ f[i] # "unsent" => f[j] # "unsent"
      BY DEF Kept, Travel
    <2>3. \A r \in Services : \A k \in DOMAIN d[r] : f[d[r][k].id] = "travelling"
      BY <1>3 DEF Kept, Travel
    <2>4. \A u \in Threads : g[u] # Vacant => f[g[u].id] = "travelling"
      BY <1>2, <2>1 DEF Kept, Travel
    <2>5. ASSUME NEW i \in Ids, f[i] = "travelling"
          PROVE  \/ \E r \in Services : \E k \in DOMAIN d[r] : d[r][k].id = i
                 \/ \E u \in Threads : g[u] # Vacant /\ g[u].id = i
      <3>1. CASE i = e.id
        BY <1>2, <3>1
      <3>2. CASE i # e.id /\ \E r \in Services : \E k \in DOMAIN c[r] : c[r][k].id = i
        BY <1>4, <3>2
      <3>3. CASE \E u \in Threads : h[u] # Vacant /\ h[u].id = i
        BY <1>2, <3>3
      <3> QED BY <2>5, <3>1, <3>2, <3>3 DEF Kept, Travel
    <2> QED BY <2>2, <2>3, <2>4, <2>5 DEF Travel
  <1>10. Apartness(d, g)
    <2>1. ASSUME NEW r \in Services, NEW x \in Services, NEW j \in DOMAIN d[r], NEW k \in DOMAIN d[x],
                 d[r][j].id = d[x][k].id
          PROVE  r = x /\ j = k
      <3>1. r = x /\ back(r, j) = back(x, k)
        BY <1>3, <2>1 DEF Kept, Apartness
      <3> QED BY <1>5, <3>1
    <2>2. ASSUME NEW u \in Threads, g[u] # Vacant, NEW x \in Services, NEW k \in DOMAIN d[x]
          PROVE  d[x][k].id # g[u].id
      BY <1>2, <1>3, <1>7, <2>2 DEF Kept, Apartness
    <2>3. ASSUME NEW u \in Threads, g[u] # Vacant, NEW v \in Threads, g[v] # Vacant, g[v].id = g[u].id
          PROVE  u = v
      BY <1>2, <1>8, <2>3 DEF Kept, Apartness
    <2> QED BY <2>1, <2>2, <2>3 DEF Apartness
  <1>11. Sender(d, g, p)
    <2>1. \A u \in Threads : Younger(c, h[u]) => Younger(d, h[u])
      BY <1>3 DEF Younger
    <2> QED BY <1>2, <2>1 DEF Kept, Sender
  <1>12. Ordered(d)
    <2> SUFFICES ASSUME NEW r \in Services, NEW i \in DOMAIN d[r], NEW j \in DOMAIN d[r], i < j,
                        d[r][i].src = d[r][j].src, d[r][i].kind = "text", d[r][j].kind = "text"
                 PROVE  d[r][i].id < d[r][j].id
      BY DEF Ordered
    <2>1. /\ back(r, i) \in DOMAIN c[r] /\ back(r, j) \in DOMAIN c[r] /\ back(r, i) < back(r, j)
          /\ d[r][i] = c[r][back(r, i)] /\ d[r][j] = c[r][back(r, j)]
      BY <1>3, <1>5
    <2> QED BY <2>1 DEF Kept, Ordered
  <1> QED BY <1>9, <1>10, <1>11, <1>12 DEF Kept, d, g, m

----------------------------------------------------------------------------
(* The state, seen that way *)

Chans   == [s \in Services |-> Contents(mq[s])]
Hands   == [t \in Threads |-> th[t].msg]
Sources == [t \in Threads |-> IF th[t].after = "drop" THEN None ELSE Origin(t)]

GoneEmpty == \A s \in Services : mqMem[s] # "alive" => Empty(mq[s])

LEMMA ViewTexts ==
    ASSUME NodeInv PROVE Texts(Chans, Hands) /\ DOMAIN fate = Ids
  <1>1. \A t \in Threads : th[t].msg \in Messages \cup {Vacant}
    BY DEF NodeInv, TypeOK, ThreadStates
  <1>2. \A s \in Services : Contents(mq[s]) \in Seq(Messages)
    BY DEF NodeInv, QueueInv
  <1> QED BY <1>1, <1>2 DEF Texts, Chans, Hands, NodeInv, TypeOK

\* The source of a thread that sends a text.
LEMMA SourceFacts ==
    ASSUME NodeInv, NEW t \in Threads, th[t].msg # Vacant, th[t].after # "drop"
    PROVE  \/ t \in Outside /\ Origin(t) = t /\ t # None
           \/ /\ t \in Workers /\ t \notin Outside /\ Origin(t) \in Services /\ Origin(t) # None
              /\ Holds(th[t], Origin(t))
  <1>1. th[t] \in ThreadStates /\ PlaceOK(t, th[t]) /\ th[t].pc \in {"push", "enqueue"}
    BY ThreadFacts DEF PlaceOK, Placed
  <1>2. CASE t \in Outside
    BY <1>2, NodeAssumption DEF Origin
  <1>3. CASE t \notin Outside
    <2>1. t \in Workers
      BY <1>3 DEF Threads
    <2>2. th[t].after \in {"callback", "init"}
      BY <1>1, <2>1 DEF PlaceOK, Placed, Base, Errands
    <2>3. CASE th[t].after = "init"
      <3>1. Origin(t) = th[t].born /\ Launched(th[t]) = th[t].born /\ th[t].born # None
        BY <1>1, <1>3, <2>3 DEF Origin, Launched, Base, Errands, PlaceOK, Placed
      <3> QED BY <1>1, <1>3, <2>1, <3>1 DEF ThreadStates, Holds
    <2>4. CASE th[t].after = "callback"
      <3>1. Origin(t) = th[t].ctx /\ th[t].q = th[t].ctx /\ th[t].ctx # None
        BY <1>1, <1>3, <2>4 DEF Origin, Base, Errands, InTurn, PlaceOK, Placed
      <3> QED BY <1>1, <1>3, <2>1, <3>1 DEF ThreadStates, Holds
    <2> QED BY <2>2, <2>3, <2>4
  <1> QED BY <1>2, <1>3

LEMMA ViewSender ==
    ASSUME NodeInv PROVE OneSender(Hands, Sources)
  <1> SUFFICES ASSUME NEW t \in Threads, NEW u \in Threads, Hands[t] # Vacant, Hands[u] # Vacant,
                      Sources[t] # None, Sources[t] = Sources[u]
               PROVE  t = u
    BY DEF OneSender
  <1>1. /\ th[t].msg # Vacant /\ th[t].after # "drop" /\ th[u].msg # Vacant /\ th[u].after # "drop"
        /\ Origin(t) = Origin(u)
    BY DEF Hands, Sources
  <1>2. \/ t \in Outside /\ Origin(t) = t
        \/ t \in Workers /\ Origin(t) \in Services /\ Holds(th[t], Origin(t))
    BY <1>1, SourceFacts
  <1>3. \/ u \in Outside /\ Origin(u) = u
        \/ u \in Workers /\ Origin(u) \in Services /\ Holds(th[u], Origin(u))
    BY <1>1, SourceFacts
  <1> QED BY <1>1, <1>2, <1>3, NodeAssumption DEF NodeInv, TurnInv

LEMMA ViewKept ==
    ASSUME NodeInv, MessageInv PROVE Kept(Chans, Hands, fate, Sources) /\ GoneEmpty
  <1>1. \A s \in Services : Chans[s] = Contents(mq[s])
    BY DEF Chans
  <1>2. \A t \in Threads : Hands[t] = th[t].msg
    BY DEF Hands
  <1>3. Travel(Chans, Hands, fate)
    BY <1>1, <1>2 DEF MessageInv, TravelInv, Travel, Sending
  <1>4. Apartness(Chans, Hands)
    <2>1. ASSUME NEW r \in Services, NEW s \in Services, NEW j \in DOMAIN Chans[r],
                 NEW k \in DOMAIN Chans[s], Chans[r][j].id = Chans[s][k].id
          PROVE  r = s /\ j = k
      BY <1>1, <2>1 DEF MessageInv, PlaceInv
    <2>2. ASSUME NEW t \in Threads, Hands[t] # Vacant, NEW s \in Services, NEW k \in DOMAIN Chans[s]
          PROVE  Chans[s][k].id # Hands[t].id
      BY <1>1, <1>2, <2>2 DEF MessageInv, PlaceInv, Sending
    <2>3. ASSUME NEW t \in Threads, Hands[t] # Vacant, NEW u \in Threads, Hands[u] # Vacant,
                 Hands[u].id = Hands[t].id
          PROVE  t = u
      BY <1>2, <2>3 DEF MessageInv, PlaceInv, Sending
    <2> QED BY <2>1, <2>2, <2>3 DEF Apartness
  <1>5. Sender(Chans, Hands, Sources)
    <2> SUFFICES ASSUME NEW t \in Threads, Hands[t] # Vacant
                 PROVE  IF Sources[t] = None THEN Hands[t].kind = "error"
                        ELSE Hands[t].kind = "text" /\ Hands[t].src = Sources[t] /\ Younger(Chans, Hands[t])
      BY DEF Sender
    <2>1. CASE th[t].after = "drop"
      BY <1>2, <2>1 DEF MessageInv, SenderInv, Sending, Sources
    <2>2. CASE th[t].after # "drop"
      <3>1. Sources[t] = Origin(t) /\ Origin(t) # None
        BY <1>2, <2>2, SourceFacts DEF Sources
      <3>2. /\ th[t].msg.kind = "text" /\ th[t].msg.src = Origin(t)
            /\ \A s \in Services : \A k \in DOMAIN Contents(mq[s]) :
                    LET m == Contents(mq[s])[k] IN
                    m.kind = "text" /\ m.src = th[t].msg.src => m.id < th[t].msg.id
        BY <1>2, <2>2 DEF MessageInv, SenderInv, Sending
      <3> QED BY <1>1, <1>2, <3>1, <3>2 DEF Younger
    <2> QED BY <2>1, <2>2
  <1>6. Ordered(Chans)
    BY <1>1 DEF MessageInv, OrderKept, Ordered
  <1> QED BY <1>3, <1>4, <1>5, <1>6 DEF Kept, GoneEmpty, MessageInv, TravelInv

LEMMA ViewNext ==
    ASSUME Kept(Chans', Hands', fate', Sources'), GoneEmpty',
           \A t \in Threads : th'[t].msg # Vacant /\ th'[t].after # "drop" => Sources'[t] # None
    PROVE  MessageInv'
  <1>1. \A s \in Services : Chans'[s] = Contents(mq'[s])
    BY DEF Chans
  <1>2. \A t \in Threads : Hands'[t] = th'[t].msg
    BY DEF Hands
  <1>3. TravelInv'
    <2>0. Travel(Chans', Hands', fate')
      BY DEF Kept
    <2>1. /\ \A i, j \in Ids : j < i /\ fate'[i] # "unsent" => fate'[j] # "unsent"
          /\ \A s \in Services : mqMem'[s] # "alive" => Empty(mq'[s])
      BY <2>0 DEF Travel, GoneEmpty
    <2>2. \A s \in Services : \A k \in DOMAIN Contents(mq'[s]) :
              fate'[Contents(mq'[s])[k].id] = "travelling"
      BY <2>0, <1>1 DEF Travel
    <2>3. \A t \in Threads : th'[t].msg # Vacant => fate'[th'[t].msg.id] = "travelling"
      BY <2>0, <1>2 DEF Travel
    <2>4. \A i \in Ids : fate'[i] = "travelling" =>
              \/ \E s \in Services : \E k \in DOMAIN Contents(mq'[s]) : Contents(mq'[s])[k].id = i
              \/ \E t \in Threads : th'[t].msg # Vacant /\ th'[t].msg.id = i
      BY <2>0, <1>1, <1>2 DEF Travel
    <2> QED BY <2>1, <2>2, <2>3, <2>4 DEF TravelInv, Sending
  <1>4. PlaceInv'
    BY <1>1, <1>2 DEF Kept, PlaceInv, Apartness, Sending
  <1>5. SenderInv'
    <2> SUFFICES ASSUME NEW t \in Threads, th'[t].msg # Vacant
                 PROVE  IF th'[t].after = "drop" THEN th'[t].msg.kind = "error"
                        ELSE /\ th'[t].msg.kind = "text" /\ th'[t].msg.src = Origin(t)'
                             /\ \A s \in Services : \A k \in DOMAIN Contents(mq'[s]) :
                                    LET m == Contents(mq'[s])[k] IN
                                    m.kind = "text" /\ m.src = th'[t].msg.src => m.id < th'[t].msg.id
      BY DEF SenderInv, Sending
    <2>1. CASE th'[t].after = "drop"
      <3>1. Sources'[t] = None
        BY <2>1 DEF Sources
      <3> QED BY <1>2, <2>1, <3>1 DEF Kept, Sender
    <2>2. CASE th'[t].after # "drop"
      <3>1. Sources'[t] = Origin(t)' /\ Sources'[t] # None
        BY <2>2 DEF Sources
      <3>2. Hands'[t].kind = "text" /\ Hands'[t].src = Sources'[t] /\ Younger(Chans', Hands'[t])
        BY <1>2, <3>1 DEF Kept, Sender
      <3> QED BY <1>1, <1>2, <2>2, <3>1, <3>2 DEF Younger
    <2> QED BY <2>1, <2>2
  <1>6. OrderKept'
    BY <1>1 DEF Kept, OrderKept, Ordered
  <1> QED BY <1>3, <1>4, <1>5, <1>6 DEF MessageInv

\* A step of one thread, seen that way.
LEMMA ViewSolo ==
    ASSUME NodeInv, NEW t \in Threads, Solo(t)
    PROVE  /\ Hands' = [Hands EXCEPT ![t] = th'[t].msg]
           /\ \A u \in Threads \ {t} : Sources'[u] = Sources[u]
  <1>1. \A u \in Threads \ {t} : th'[u] = th[u]
    BY DEF Solo
  <1> QED BY <1>1 DEF Hands, Sources, Origin

\* The ways a step can leave the queues' memory: those that are not alive have no messages.
LEMMA GoneSame ==
    ASSUME GoneEmpty, UNCHANGED <<mq, mqMem>> PROVE GoneEmpty'
  BY DEF GoneEmpty

\* A step that leaves every message where it is.
Untouched ==
    /\ \A t \in Threads : /\ th'[t].msg = th[t].msg
                          /\ th[t].msg # Vacant => /\ th'[t].after = th[t].after
                                                   /\ th'[t].ctx = th[t].ctx /\ th'[t].born = th[t].born
    /\ \A s \in Services : Contents(mq'[s]) = Contents(mq[s])
    /\ fate' = fate

LEMMA UntouchedKeeps ==
    ASSUME NodeInv, MessageInv, Untouched, GoneEmpty' PROVE MessageInv'
  <1>1. Chans' = Chans /\ Hands' = Hands
    BY DEF Untouched, Chans, Hands
  <1>2. \A t \in Threads : Hands[t] # Vacant => Sources'[t] = Sources[t]
    BY DEF Untouched, Hands, Sources, Origin
  <1>3. Kept(Chans, Hands, fate, Sources)
    BY ViewKept
  <1>4. Kept(Chans', Hands', fate', Sources')
    <2>1. Kept(Chans, Hands, fate, Sources')
      BY <1>2, <1>3, KeptSame
    <2> QED BY <1>1, <2>1 DEF Untouched
  <1>5. \A t \in Threads : th'[t].msg # Vacant /\ th'[t].after # "drop" => Sources'[t] # None
    <2> SUFFICES ASSUME NEW t \in Threads, th'[t].msg # Vacant, th'[t].after # "drop"
                 PROVE  Sources'[t] # None
      OBVIOUS
    <2>1. th[t].msg # Vacant /\ th[t].after # "drop" /\ Sources'[t] = Sources[t] /\ Sources[t] = Origin(t)
      BY <1>2 DEF Untouched, Hands, Sources
    <2> QED BY <2>1, SourceFacts
  <1> QED BY <1>4, <1>5, ViewNext

\* A message is in hand from its start on until it is pushed or freed.
InHand(r) == r.pc \in {"push", "enqueue"}

LEMMA HandFacts ==
    ASSUME NodeInv
    PROVE  \A t \in Threads : /\ th[t].msg # Vacant <=> InHand(th[t])
                              /\ th[t].msg # Vacant /\ th[t].after # "drop" => Sources[t] # None
  <1>1. \A t \in Threads : th[t].msg # Vacant /\ th[t].after # "drop" => Sources[t] # None
    BY SourceFacts DEF Sources
  <1>2. \A t \in Threads : th[t].msg # Vacant <=> InHand(th[t])
    BY ThreadFacts DEF PlaceOK, Placed, InHand
  <1> QED BY <1>1, <1>2

LEMMA HandFactsNext ==
    (NodeInv => \A t \in Threads : /\ th[t].msg # Vacant <=> InHand(th[t])
                                   /\ th[t].msg # Vacant /\ th[t].after # "drop" => Sources[t] # None)'
  <1>1. NodeInv => \A t \in Threads : /\ th[t].msg # Vacant <=> InHand(th[t])
                                      /\ th[t].msg # Vacant /\ th[t].after # "drop" => Sources[t] # None
    BY HandFacts
  <1> QED BY <1>1, PTL

\* A step of threads that have no message in hand, neither before nor after it.
Quiet == \A t \in Threads : th'[t] = th[t] \/ (~InHand(th[t]) /\ ~InHand(th'[t]))

LEMMA QuietKeeps ==
    ASSUME NodeInv, NodeInv', MessageInv, Quiet, fate' = fate,
           \A s \in Services : Contents(mq'[s]) = Contents(mq[s]), GoneEmpty'
    PROVE  MessageInv'
  <1>1. Untouched
    BY HandFacts, HandFactsNext DEF Untouched, Quiet
  <1> QED BY <1>1, UntouchedKeeps

LEMMA PlainQuiet ==
    ASSUME NodeInv, NodeInv', MessageInv, Quiet, UNCHANGED <<mq, mqMem, fate>>
    PROVE  MessageInv'
  BY QuietKeeps, GoneSame, ViewKept

LEMMA WorkIsQuiet ==
    ASSUME NodeInv, NEW w \in Workers,
           \/ TakeQueue(w) \/ GrabContext(w) \/ CountMessages(w) \/ EndCallback(w) \/ SwapQueue(w)
           \/ PushBack(w) \/ NextQueue(w) \/ ReleaseQueue(w) \/ InitSucceeds(w) \/ InitFails(w)
           \/ SetInit(w) \/ PushNewQueue(w) \/ RetireUnborn(w) \/ EndPass(w)
           \/ (\E s \in Services : VisitSlot(w, s) \/ Kill(w, s) \/ Launch(w, s)) \/ Abort(w)
           \/ StartSleep(w) \/ EnterWait(w) \/ LeaveWait(w) \/ Leave(w) \/ SpuriousWakeup(w)
    PROVE  Quiet /\ UNCHANGED <<mq, mqMem, fate>>
  <1>1. w \in Threads /\ th \in [Threads -> ThreadStates]
    BY ThreadsFinite DEF NodeInv, TypeOK
  <1> USE DEF Quiet, InHand, At, Goto, ReleaseThen, RetireThen, ThreadStates, queueVars, Caller
  <1>2. CASE TakeQueue(w) \/ GrabContext(w) \/ CountMessages(w) \/ EndCallback(w)
    <2>1. CASE TakeQueue(w)
      BY <1>1, <2>1 DEF TakeQueue
    <2>2. CASE GrabContext(w)
      BY <1>1, <2>2 DEF GrabContext
    <2>3. CASE CountMessages(w)
      BY <1>1, <2>3 DEF CountMessages
    <2>4. CASE EndCallback(w)
      BY <1>1, <2>4 DEF EndCallback
    <2> QED BY <1>2, <2>1, <2>2, <2>3, <2>4
  <1>3. CASE SwapQueue(w) \/ PushBack(w) \/ NextQueue(w) \/ ReleaseQueue(w)
    <2>1. CASE SwapQueue(w)
      <3>1. CASE global = <<>>
        BY <1>1, <2>1, <3>1 DEF SwapQueue
      <3>2. CASE global # <<>>
        BY <1>1, <2>1, <3>2 DEF SwapQueue
      <3> QED BY <3>1, <3>2
    <2>2. CASE PushBack(w)
      BY <1>1, <2>2 DEF PushBack
    <2>3. CASE NextQueue(w)
      BY <1>1, <2>3 DEF NextQueue
    <2>4. CASE ReleaseQueue(w)
      BY <1>1, <2>4 DEF ReleaseQueue
    <2> QED BY <1>3, <2>1, <2>2, <2>3, <2>4
  <1>4. CASE InitSucceeds(w) \/ InitFails(w) \/ SetInit(w) \/ PushNewQueue(w)
    <2>1. CASE InitSucceeds(w)
      BY <1>1, <2>1 DEF InitSucceeds
    <2>2. CASE InitFails(w)
      BY <1>1, <2>2 DEF InitFails
    <2>3. CASE SetInit(w)
      BY <1>1, <2>3 DEF SetInit
    <2>4. CASE PushNewQueue(w)
      BY <1>1, <2>4 DEF PushNewQueue
    <2> QED BY <1>4, <2>1, <2>2, <2>3, <2>4
  <1>5. CASE RetireUnborn(w) \/ EndPass(w) \/ Abort(w) \/ Leave(w)
    <2>1. CASE RetireUnborn(w)
      BY <1>1, <2>1 DEF RetireUnborn
    <2>2. CASE EndPass(w)
      BY <1>1, <2>2 DEF EndPass
    <2>3. CASE Abort(w)
      BY <1>1, <2>3 DEF Abort
    <2>4. CASE Leave(w)
      BY <1>1, <2>4 DEF Leave, Idle
    <2> QED BY <1>5, <2>1, <2>2, <2>3, <2>4
  <1>6. ASSUME NEW s \in Services, VisitSlot(w, s) \/ Kill(w, s) \/ Launch(w, s)
        PROVE  Quiet /\ UNCHANGED <<mq, mqMem, fate>>
    <2>1. CASE VisitSlot(w, s)
      BY <1>1, <2>1 DEF VisitSlot
    <2>2. CASE Kill(w, s)
      BY <1>1, <2>2 DEF Kill
    <2>3. CASE Launch(w, s)
      BY <1>1, <2>3 DEF Launch
    <2> QED BY <1>6, <2>1, <2>2, <2>3
  <1>7. CASE StartSleep(w) \/ EnterWait(w) \/ LeaveWait(w) \/ SpuriousWakeup(w)
    <2>1. CASE StartSleep(w)
      BY <1>1, <2>1 DEF StartSleep
    <2>2. CASE EnterWait(w)
      BY <1>1, <2>2 DEF EnterWait
    <2>3. CASE LeaveWait(w)
      BY <1>1, <2>3 DEF LeaveWait
    <2>4. CASE SpuriousWakeup(w)
      BY <1>1, <2>4 DEF SpuriousWakeup
    <2> QED BY <1>7, <2>1, <2>2, <2>3, <2>4
  <1> QED BY <1>2, <1>3, <1>4, <1>5, <1>6, <1>7

LEMMA RestIsQuiet ==
    ASSUME NodeInv,
           \/ Tick \/ Stop \/ SocketWakeup \/ SocketExit \/ UNCHANGED vars
           \/ \E t \in Threads : Release(t)
    PROVE  Quiet /\ UNCHANGED <<mq, mqMem, fate>>
  <1>1. /\ Workers \subseteq Threads /\ th \in [Threads -> ThreadStates]
        /\ Timer \in Threads /\ Socket \in Threads /\ Timer \notin Workers /\ Socket \notin Workers
    BY ThreadsFinite, NodeAssumption DEF NodeInv, TypeOK, Outside, Threads
  <1> USE DEF Quiet, InHand, At, Goto, ThreadStates, queueVars, Waiting
  <1>2. CASE Tick
    BY <1>1, <1>2 DEF Tick
  <1>3. CASE Stop
    BY <1>1, <1>3 DEF Stop
  <1>4. CASE SocketWakeup
    BY <1>1, <1>4 DEF SocketWakeup
  <1>5. CASE SocketExit
    BY <1>1, <1>5 DEF SocketExit
  <1>6. CASE UNCHANGED vars
    BY <1>6 DEF vars
  <1>7. ASSUME NEW t \in Threads, Release(t) PROVE Quiet /\ UNCHANGED <<mq, mqMem, fate>>
    <2>1. th[t].after \notin {"push", "enqueue"}
      BY <1>7, ThreadFacts DEF PlaceOK, Placed, Base, Errands, Release
    <2> QED BY <1>1, <1>7, <2>1 DEF Release
  <1> QED BY <1>2, <1>3, <1>4, <1>5, <1>6, <1>7

----------------------------------------------------------------------------
(* The steps that touch a queue or a message *)

\* What the operations on a ring do to the messages in it.
LEMMA PushContents ==
    ASSUME NEW q, Sound(q), NEW m \in Messages
    PROVE  Contents([Enqueue(q, m) EXCEPT !.in_global = TRUE]) = Append(Contents(q), m)
  <1> DEFINE e == Enqueue(q, m)
             p == [e EXCEPT !.in_global = TRUE]
  <1>1. WellFormed(e) /\ Contents(e) = Append(Contents(q), m)
    BY PushAppends DEF Sound
  <1> HIDE DEF e
  <1>2. p.cap = e.cap /\ p.head = e.head /\ p.tail = e.tail /\ p.queue = e.queue
    BY <1>1 DEF WellFormed
  <1> HIDE DEF p
  <1>3. Contents(p) = Contents(e)
    BY <1>2, SameRing
  <1> QED BY <1>1, <1>3 DEF p, e

LEMMA PopContents ==
    ASSUME NEW q, Sound(q), ~Empty(q)
    PROVE  /\ Contents(q) # <<>> /\ q.queue[q.head] = Head(Contents(q))
           /\ Contents(Dequeue(q)) = Tail(Contents(q))
           /\ Contents([Dequeue(q) EXCEPT !.overload = 0]) = Tail(Contents(q))
  <1> DEFINE d == Dequeue(q)
             p == [d EXCEPT !.overload = 0]
  <1>1. /\ Contents(q) # <<>> /\ q.queue[q.head] = Head(Contents(q))
        /\ WellFormed(d) /\ Contents(d) = Tail(Contents(q))
    BY PopTakesFirst DEF Sound
  <1> HIDE DEF d
  <1>2. p.cap = d.cap /\ p.head = d.head /\ p.tail = d.tail /\ p.queue = d.queue
    BY <1>1 DEF WellFormed
  <1> HIDE DEF p
  <1>3. Contents(p) = Contents(d)
    BY <1>2, SameRing
  <1> QED BY <1>1, <1>3 DEF p, d

LEMMA PopEmptyContents ==
    ASSUME NEW q, Sound(q)
    PROVE  Contents(PopEmpty(q)) = Contents(q) /\ (Empty(PopEmpty(q)) <=> Empty(q))
  <1> DEFINE p == PopEmpty(q)
  <1>1. p.cap = q.cap /\ p.head = q.head /\ p.tail = q.tail /\ p.queue = q.queue
    BY DEF Sound, WellFormed, PopEmpty
  <1> HIDE DEF p
  <1>2. Contents(p) = Contents(q) /\ (Empty(p) <=> Empty(q))
    BY <1>1, SameRing
  <1> QED BY <1>2 DEF p

LEMMA MarkContents ==
    ASSUME NEW q, Sound(q), NEW p, p = [q EXCEPT !.release = TRUE]
    PROVE  Contents(p) = Contents(q) /\ (Empty(p) <=> Empty(q))
  <1>1. p.cap = q.cap /\ p.head = q.head /\ p.tail = q.tail /\ p.queue = q.queue
    BY DEF Sound, WellFormed
  <1> QED BY <1>1, SameRing

LEMMA EmptyContents ==
    ASSUME NEW q, Sound(q), Empty(q) PROVE Contents(q) = <<>>
  <1>1. Contents(q) \in Seq(Messages \cup {Vacant}) /\ Len(Contents(q)) = mq_length(q) /\ mq_length(q) = 0
    BY ContentsIsSeq, LengthRange DEF Sound, Empty
  <1> QED BY <1>1

LEMMA ChansSet ==
    ASSUME NodeInv, NEW x \in Services, NEW p, mq' = [mq EXCEPT ![x] = p]
    PROVE  /\ Chans' = [Chans EXCEPT ![x] = Contents(p)]
           /\ mq'[x] = p /\ \A y \in Services : y # x => mq'[y] = mq[y]
           /\ Chans[x] = Contents(mq[x])
  <1>1. mq'[x] = p /\ \A y \in Services : y # x => mq'[y] = mq[y]
    BY RingFacts
  <1>2. Chans = [y \in Services |-> Contents(mq[y])] /\ Chans' = [y \in Services |-> Contents(mq'[y])]
    BY DEF Chans
  <1>3. \A y \in Services : Contents(mq'[y]) = IF y = x THEN Contents(p) ELSE Contents(mq[y])
    BY <1>1
  <1>4. [Chans EXCEPT ![x] = Contents(p)] = [y \in Services |-> IF y = x THEN Contents(p) ELSE Contents(mq[y])]
    BY <1>2
  <1> QED BY <1>1, <1>2, <1>3, <1>4

\* The messages of a queue that is replaced, and leaves them as they are.
LEMMA RefilledKeeps ==
    ASSUME NodeInv, NodeInv', MessageInv, Quiet, fate' = fate, NEW x \in Services, NEW p,
           mq' = [mq EXCEPT ![x] = p], Contents(p) = Contents(mq[x]),
           \A y \in Services : y # x => mqMem'[y] = mqMem[y],
           mqMem'[x] # "alive" => Empty(p)
    PROVE  MessageInv'
  <1>1. mq'[x] = p /\ \A y \in Services : y # x => mq'[y] = mq[y]
    BY ChansSet
  <1>2. GoneEmpty
    BY ViewKept
  <1>3. GoneEmpty'
    BY <1>1, <1>2 DEF GoneEmpty
  <1> QED BY <1>1, <1>3, QuietKeeps

LEMMA CreateQueueMessages ==
    ASSUME NodeInv, NodeInv', MessageInv, NEW w \in Workers, CreateQueue(w) PROVE MessageInv'
  <1> DEFINE s == th[w].born
  <1>1. w \in Threads /\ th \in [Threads -> ThreadStates] /\ th[w].pc = "newqueue" /\ PlaceOK(w, th[w])
    BY ThreadFacts, ThreadsFinite DEF NodeInv, TypeOK, CreateQueue, At
  <1>2. s \in Services /\ mqMem[s] = "none"
    <2>1. s \in Services
      BY <1>1 DEF PlaceOK, Placed, Base, Errands, ThreadStates
    <2>2. slot[s] = "unset"
      BY <1>1 DEF NodeInv, LifeInv, ReferenceInv, At
    <2> QED BY <2>1, <2>2 DEF NodeInv, LifeInv, ContextInv
  <1>3. Quiet
    BY <1>1 DEF CreateQueue, Quiet, InHand, Goto, ThreadStates
  <1>4. Contents(mq[s]) = <<>>
    <2>1. Empty(mq[s])
      BY <1>2, ViewKept DEF GoneEmpty
    <2> QED BY <1>2, <2>1, RingFacts, EmptyContents
  <1>5. /\ mq' = [mq EXCEPT ![s] = mq_create] /\ fate' = fate
        /\ mqMem' = [mqMem EXCEPT ![s] = "alive"] /\ DOMAIN mqMem = Services
    BY DEF CreateQueue, NodeInv, TypeOK
  <1>6. mqMem'[s] = "alive" /\ \A y \in Services : y # s => mqMem'[y] = mqMem[y]
    BY <1>2, <1>5
  <1> QED BY <1>2, <1>3, <1>4, <1>5, <1>6, CreatedEmpty, RefilledKeeps

LEMMA DeleteContextMessages ==
    ASSUME NodeInv, NodeInv', MessageInv, NEW t \in Threads, DeleteContext(t) PROVE MessageInv'
  <1> DEFINE s == th[t].ref
             p == [mq[s] EXCEPT !.release = TRUE]
  <1>1. th \in [Threads -> ThreadStates] /\ th[t].pc = "delete" /\ PlaceOK(t, th[t])
    BY ThreadFacts DEF NodeInv, TypeOK, DeleteContext, At
  <1>2. s \in Services /\ th[t].after \notin {"push", "enqueue"}
    BY <1>1 DEF PlaceOK, Placed, Base, Errands, ThreadStates
  <1>3. Quiet
    BY <1>1, <1>2 DEF DeleteContext, Quiet, InHand, ThreadStates
  <1>4. mq' = [mq EXCEPT ![s] = p] /\ fate' = fate /\ mqMem' = mqMem
    BY <1>2, RingFacts DEF DeleteContext, mark_release
  <1>5. Contents(p) = Contents(mq[s]) /\ (Empty(p) <=> Empty(mq[s]))
    BY <1>2, RingFacts, MarkContents
  <1> HIDE DEF p
  <1>6. mqMem'[s] # "alive" => Empty(p)
    BY <1>2, <1>4, <1>5, ViewKept DEF GoneEmpty
  <1> QED BY <1>2, <1>3, <1>4, <1>5, <1>6, RefilledKeeps

LEMMA StartSendMessages ==
    ASSUME NodeInv, NodeInv', MessageInv, NEW t \in Threads, NEW l, NEW src \in Services \cup Outside,
           NEW d \in Services, NEW back, StartSend(t, l, src, d, back),
           \/ t \in Workers /\ back = l /\ l = "callback" /\ src = th[t].ctx
           \/ t \in Workers /\ back = l /\ l = "init" /\ src = th[t].born
           \/ t \in Outside /\ l = "idle" /\ back \in {"idle", "wakeup"} /\ src = t
    PROVE  MessageInv'
  <1>1. PICK i \in Ids :
          /\ Fresh(i)
          /\ fate' = [fate EXCEPT ![i] = "travelling"]
          /\ th' = [th EXCEPT ![t].pc = "push", ![t].dst = d, ![t].after = back,
                              ![t].msg = [id |-> i, src |-> src, kind |-> "text"]]
    BY DEF StartSend
  <1> DEFINE m == [id |-> i, src |-> src, kind |-> "text"]
  <1>2. m \in Messages /\ m.id = i /\ m.kind = "text" /\ m.src = src /\ src # None
    BY NodeAssumption DEF Kinds
  <1> HIDE DEF m
  <1>3. th \in [Threads -> ThreadStates] /\ th[t].pc = l /\ UNCHANGED <<mq, mqMem>>
    BY DEF NodeInv, TypeOK, StartSend, At, queueVars
  <1>4. /\ th'[t].msg = m /\ th'[t].after = back /\ th'[t].ctx = th[t].ctx /\ th'[t].born = th[t].born
        /\ Solo(t)
    BY <1>1, <1>3 DEF ThreadStates, Solo, m
  <1>5. Sources'[t] = src
    BY <1>4, NodeAssumption DEF Sources, Origin
  <1>6. Hands' = [Hands EXCEPT ![t] = m] /\ \A u \in Threads \ {t} : Sources'[u] = Sources[u]
    BY <1>4, ViewSolo
  <1>7. Hands[t] = Vacant
    BY <1>3, HandFacts DEF Hands, InHand
  <1>8. Chans' = Chans /\ GoneEmpty'
    BY <1>3, GoneSame, ViewKept DEF Chans
  <1>9. Kept(Chans, [Hands EXCEPT ![t] = m], [fate EXCEPT ![m.id] = "travelling"], Sources')
    <2>1. Texts(Chans, Hands) /\ DOMAIN fate = Ids /\ Kept(Chans, Hands, fate, Sources)
      BY ViewTexts, ViewKept
    <2>2. fate[m.id] = "unsent" /\ \A j \in Ids : fate[j] = "unsent" => m.id <= j
      BY <1>1, <1>2 DEF Fresh
    <2>3. \A u \in Threads \ {t} : Hands[u] # Vacant => Sources'[u] = Sources[u]
      BY <1>6
    <2>4. Sources'[t] # None /\ m.src = Sources'[t]
      BY <1>2, <1>5
    <2> QED BY <1>2, <1>7, <2>1, <2>2, <2>3, <2>4, KeptStarted, Zenon
  <1>10. Kept(Chans', Hands', fate', Sources')
    BY <1>1, <1>2, <1>6, <1>8, <1>9
  <1> QED BY <1>8, <1>10, HandFactsNext, ViewNext

LEMMA GrabDestinationMessages ==
    ASSUME NodeInv, NodeInv', MessageInv, NEW t \in Threads, GrabDestination(t) PROVE MessageInv'
  <1>1. th \in [Threads -> ThreadStates] /\ th[t].pc = "push" /\ UNCHANGED <<mq, mqMem>>
    BY DEF NodeInv, TypeOK, GrabDestination, At, queueVars
  <1>2. Chans' = Chans /\ GoneEmpty'
    BY <1>1, GoneSame, ViewKept DEF Chans
  <1>3. CASE slot[th[t].dst] = "set"
    <2>1. Untouched
      BY <1>1, <1>3 DEF GrabDestination, Untouched, ThreadStates
    <2> QED BY <1>2, <2>1, UntouchedKeeps
  <1>4. CASE slot[th[t].dst] # "set"
    <2>1. /\ th' = [th EXCEPT ![t].pc = th[t].after, ![t].msg = Vacant, ![t].dst = None]
          /\ fate' = [fate EXCEPT ![th[t].msg.id] = "refused"]
      BY <1>4 DEF GrabDestination
    <2>2. th'[t].msg = Vacant /\ Solo(t)
      BY <1>1, <2>1 DEF ThreadStates, Solo
    <2>3. Hands' = [Hands EXCEPT ![t] = Vacant] /\ \A u \in Threads \ {t} : Sources'[u] = Sources[u]
      BY <2>2, ViewSolo
    <2>4. Hands[t] = th[t].msg /\ Hands[t] # Vacant
      BY <1>1, HandFacts DEF Hands, InHand
    <2>5. Texts(Chans, Hands) /\ DOMAIN fate = Ids /\ Kept(Chans, Hands, fate, Sources)
      BY ViewTexts, ViewKept
    <2>6. Kept(Chans, [Hands EXCEPT ![t] = Vacant], [fate EXCEPT ![Hands[t].id] = "refused"], Sources')
      BY <2>3, <2>4, <2>5, KeptRefused
    <2>7. Kept(Chans', Hands', fate', Sources')
      BY <1>2, <2>1, <2>3, <2>4, <2>6
    <2> QED BY <1>2, <2>7, HandFactsNext, ViewNext
  <1> QED BY <1>3, <1>4

LEMMA PushMessageMessages ==
    ASSUME NodeInv, NodeInv', MessageInv, NEW t \in Threads, PushMessage(t) PROVE MessageInv'
  <1> DEFINE s == th[t].dst
             p == [Enqueue(mq[s], th[t].msg) EXCEPT !.in_global = TRUE]
  <1>1. th \in [Threads -> ThreadStates] /\ th[t].pc = "enqueue" /\ PlaceOK(t, th[t])
    BY ThreadFacts DEF NodeInv, TypeOK, PushMessage, At
  <1>2. s \in Services /\ th[t].msg \in Messages /\ th[t].ref = s
    BY <1>1 DEF PlaceOK, Placed, Base, Errands, ThreadStates
  <1>3. mq' = [mq EXCEPT ![s] = p] /\ fate' = fate /\ mqMem' = mqMem
    BY DEF PushMessage
  <1>4. Contents(p) = Append(Contents(mq[s]), th[t].msg)
    BY <1>2, RingFacts, PushContents
  <1> HIDE DEF p
  <1>5. /\ Chans' = [Chans EXCEPT ![s] = Append(Chans[s], th[t].msg)]
        /\ \A y \in Services : y # s => mq'[y] = mq[y]
    <2>1. /\ Chans' = [Chans EXCEPT ![s] = Contents(p)]
          /\ \A y \in Services : y # s => mq'[y] = mq[y]
          /\ Chans[s] = Contents(mq[s])
      BY <1>2, <1>3, ChansSet
    <2> QED BY <1>4, <2>1
  <1>6. GoneEmpty'
    <2>1. mqMem[s] = "alive"
      BY <1>2, QueueLives
    <2> QED BY <1>3, <1>5, <2>1, ViewKept DEF GoneEmpty
  <1>7. th'[t].msg = Vacant /\ Solo(t)
    BY <1>1 DEF PushMessage, ThreadStates, Solo
  <1>8. Hands' = [Hands EXCEPT ![t] = Vacant] /\ \A u \in Threads \ {t} : Sources'[u] = Sources[u]
    BY <1>7, ViewSolo
  <1>9. Hands[t] = th[t].msg /\ Hands[t] # Vacant
    BY <1>1, HandFacts DEF Hands, InHand
  <1>10. Texts(Chans, Hands) /\ Kept(Chans, Hands, fate, Sources) /\ OneSender(Hands, Sources)
    BY ViewTexts, ViewKept, ViewSender
  <1>11. Kept([Chans EXCEPT ![s] = Append(Chans[s], Hands[t])], [Hands EXCEPT ![t] = Vacant], fate, Sources')
    <2>1. \A u \in Threads \ {t} : Hands[u] # Vacant => Sources'[u] = Sources[u]
      BY <1>8
    <2>2. s \in Services /\ Hands[t] # Vacant
      BY <1>2, <1>9
    <2> HIDE DEF s
    <2> QED BY <1>10, <2>1, <2>2, KeptPushed, Zenon
  <1>12. Kept(Chans', Hands', fate', Sources')
    BY <1>3, <1>5, <1>8, <1>9, <1>11
  <1> QED BY <1>6, <1>12, HandFactsNext, ViewNext

LEMMA PopMessageMessages ==
    ASSUME NodeInv, NodeInv', MessageInv, NEW w \in Workers, PopMessage(w) PROVE MessageInv'
  <1> DEFINE s == th[w].ctx
  <1>1. w \in Threads /\ th \in [Threads -> ThreadStates] /\ th[w].pc = "pop" /\ PlaceOK(w, th[w])
    BY ThreadFacts, ThreadsFinite DEF NodeInv, TypeOK, PopMessage, At
  <1>2. s \in Services /\ th[w].q = s /\ Sound(mq[s]) /\ mqMem' = mqMem
    BY <1>1, RingFacts DEF PlaceOK, Placed, Base, Errands, InTurn, ThreadStates, PopMessage
  <1>3. mqMem[s] = "alive"
    BY <1>1, <1>2, QueueLives
  <1>4. Quiet
    <2>1. CASE Empty(mq[th[w].q])
      BY <1>1, <2>1 DEF PopMessage, Quiet, InHand, ReleaseThen, ThreadStates
    <2>2. CASE ~Empty(mq[th[w].q])
      <3>1. PICK l \in {"length", "callback"} : Goto(w, l)
        BY <2>2 DEF PopMessage
      <3> QED BY <1>1, <3>1 DEF Quiet, InHand, Goto, ThreadStates
    <2> QED BY <2>1, <2>2
  <1>5. CASE Empty(mq[s])
    <2>1. mq' = [mq EXCEPT ![s] = PopEmpty(mq[s])] /\ fate' = fate
      BY <1>2, <1>5 DEF PopMessage
    <2>2. Contents(PopEmpty(mq[s])) = Contents(mq[s])
      BY <1>2, PopEmptyContents
    <2> QED BY <1>2, <1>3, <1>4, <2>1, <2>2, RefilledKeeps
  <1>6. CASE ~Empty(mq[s])
    <2> DEFINE m == mq[s].queue[mq[s].head]
               p == [Dequeue(mq[s]) EXCEPT !.overload = 0]
               a == IF m.kind = "text" THEN "handled" ELSE "bounced"
    <2>1. mq' = [mq EXCEPT ![s] = p] /\ fate' = [fate EXCEPT ![m.id] = a]
      BY <1>2, <1>6, ZenonT(40) DEF PopMessage
    <2>2. Contents(mq[s]) # <<>> /\ m = Head(Contents(mq[s])) /\ Contents(p) = Tail(Contents(mq[s]))
      BY <1>2, <1>6, PopContents
    <2>3. a \notin {"unsent", "travelling"}
      OBVIOUS
    <2> HIDE DEF p, m, a
    <2>4. /\ Chans' = [Chans EXCEPT ![s] = Contents(p)] /\ Chans[s] = Contents(mq[s])
          /\ \A y \in Services : y # s => mq'[y] = mq[y]
      BY <1>2, <2>1, ChansSet
    <2>5. GoneEmpty'
      BY <1>2, <1>3, <2>4, ViewKept DEF GoneEmpty
    <2>6. Hands' = Hands /\ \A u \in Threads : Hands[u] # Vacant => Sources'[u] = Sources[u]
      <3>1. \A u \in Threads : th'[u].msg = th[u].msg /\ (th[u].msg # Vacant => th'[u] = th[u])
        BY <1>4, HandFacts, HandFactsNext DEF Quiet
      <3> QED BY <3>1 DEF Hands, Sources, Origin
    <2>7. Texts(Chans, Hands) /\ DOMAIN fate = Ids /\ Kept(Chans, Hands, fate, Sources)
      BY ViewTexts, ViewKept
    <2>8. Chans[s] # <<>> /\ Contents(p) = Tail(Chans[s]) /\ m = Head(Chans[s])
      BY <2>2, <2>4
    <2>9. Kept([Chans EXCEPT ![s] = Tail(Chans[s])], Hands, [fate EXCEPT ![Head(Chans[s]).id] = a], Sources')
      <3> HIDE DEF s
      <3> QED BY <1>2, <2>3, <2>6, <2>7, <2>8, KeptPopped, Zenon
    <2>10. Kept(Chans', Hands', fate', Sources')
      BY <2>1, <2>4, <2>6, <2>8, <2>9
    <2> QED BY <2>5, <2>10, HandFactsNext, ViewNext
  <1> QED BY <1>5, <1>6

LEMMA DropQueueMessages ==
    ASSUME NodeInv, NodeInv', MessageInv, NEW w \in Workers, DropQueue(w) PROVE MessageInv'
  <1> DEFINE s == th[w].dq
  <1>1. w \in Threads /\ th \in [Threads -> ThreadStates] /\ th[w].pc = "drop" /\ PlaceOK(w, th[w])
    BY ThreadFacts, ThreadsFinite DEF NodeInv, TypeOK, DropQueue, At
  <1>2. s \in Services /\ Sound(mq[s]) /\ DOMAIN mqMem = Services
    BY <1>1, RingFacts DEF PlaceOK, Placed, Base, Errands, ThreadStates, NodeInv, TypeOK
  <1>3. CASE Empty(mq[s])
    <2>1. /\ mq' = [mq EXCEPT ![s] = PopEmpty(mq[s])] /\ fate' = fate
          /\ mqMem' = [mqMem EXCEPT ![s] = "freed"]
      BY <1>3 DEF DropQueue
    <2>2. Contents(PopEmpty(mq[s])) = Contents(mq[s]) /\ Empty(PopEmpty(mq[s]))
      BY <1>2, <1>3, PopEmptyContents
    <2>3. Quiet
      BY <1>1, <1>3 DEF DropQueue, Quiet, InHand, Caller, ThreadStates
    <2>4. \A y \in Services : y # s => mqMem'[y] = mqMem[y]
      BY <1>2, <2>1
    <2> QED BY <1>2, <2>1, <2>2, <2>3, <2>4, RefilledKeeps
  <1>4. CASE ~Empty(mq[s])
    <2> DEFINE m == mq[s].queue[mq[s].head]
               p == Dequeue(mq[s])
    <2>1. mq' = [mq EXCEPT ![s] = p] /\ mqMem' = mqMem /\ Bounce(w, m, s)
      BY <1>4 DEF DropQueue
    <2>2. /\ Contents(mq[s]) # <<>> /\ m = Head(Contents(mq[s])) /\ Contents(p) = Tail(Contents(mq[s]))
          /\ m \in Messages
      BY <1>2, <1>4, PopContents, PopSound
    <2> HIDE DEF p, m
    <2>4. /\ Chans' = [Chans EXCEPT ![s] = Contents(p)] /\ Chans[s] = Contents(mq[s])
          /\ \A y \in Services : y # s => mq'[y] = mq[y]
      BY <1>2, <2>1, ChansSet
    <2>5. GoneEmpty'
      <3>1. mqMem[s] = "alive"
        BY <1>2, <1>4, ViewKept DEF GoneEmpty
      <3> QED BY <1>2, <2>1, <2>4, <3>1, ViewKept DEF GoneEmpty
    <2>7. Texts(Chans, Hands) /\ DOMAIN fate = Ids /\ Kept(Chans, Hands, fate, Sources)
      BY ViewTexts, ViewKept
    <2>8. Chans[s] # <<>> /\ Contents(p) = Tail(Chans[s]) /\ m = Head(Chans[s])
      BY <2>2, <2>4
    <2>9. CASE m.src \in Outside
      <3>1. fate' = [fate EXCEPT ![m.id] = "refused"] /\ th' = th
        BY <2>1, <2>9 DEF Bounce
      <3>2. Hands' = Hands /\ \A u \in Threads : Hands[u] # Vacant => Sources'[u] = Sources[u]
        BY <3>1 DEF Hands, Sources, Origin
      <3>3. Kept([Chans EXCEPT ![s] = Tail(Chans[s])], Hands, [fate EXCEPT ![Head(Chans[s]).id] = "refused"], Sources')
        <4>1. "refused" \notin {"unsent", "travelling"}
          OBVIOUS
        <4> HIDE DEF s
        <4> QED BY <1>2, <2>7, <2>8, <3>2, <4>1, KeptPopped, Zenon
      <3>4. Kept(Chans', Hands', fate', Sources')
        BY <2>4, <2>8, <3>1, <3>2, <3>3
      <3> QED BY <2>5, <3>4, HandFactsNext, ViewNext
    <2>10. CASE m.src \notin Outside
      <3> DEFINE e == [id |-> m.id, src |-> s, kind |-> "error"]
      <3>1. /\ fate' = fate
            /\ th' = [th EXCEPT ![w].pc = "push", ![w].dst = m.src, ![w].after = "drop", ![w].msg = e]
        BY <2>1, <2>10 DEF Bounce
      <3>2. e \in Messages /\ e.id = m.id /\ e.kind = "error"
        BY <1>2, <2>2, NodeAssumption DEF Kinds
      <3> HIDE DEF e
      <3>3. th'[w].msg = e /\ th'[w].after = "drop" /\ Solo(w)
        BY <1>1, <3>1 DEF ThreadStates, Solo
      <3>4. Hands' = [Hands EXCEPT ![w] = e] /\ \A u \in Threads \ {w} : Hands[u] # Vacant => Sources'[u] = Sources[u]
        BY <1>1, <3>3, ViewSolo
      <3>5. Sources'[w] = None /\ Hands[w] = Vacant
        BY <1>1, <3>3, HandFacts DEF Sources, Hands, InHand
      <3>6. e.id = Head(Chans[s]).id
        BY <2>8, <3>2
      <3>7. Kept([Chans EXCEPT ![s] = Tail(Chans[s])], [Hands EXCEPT ![w] = e], fate, Sources')
        <4> HIDE DEF s
        <4> QED BY <1>1, <1>2, <2>7, <2>8, <3>2, <3>4, <3>5, <3>6, KeptBounced, Zenon
      <3>8. Kept(Chans', Hands', fate', Sources')
        BY <2>4, <2>8, <3>1, <3>4, <3>7
      <3> QED BY <2>5, <3>8, HandFactsNext, ViewNext
    <2> QED BY <2>9, <2>10
  <1> QED BY <1>3, <1>4

LEMMA MessageInductive ==
    ASSUME NodeInv, NodeInv', MessageInv, [Next]_vars PROVE MessageInv'
  <1>1. ASSUME NEW w \in Workers, Work(w) PROVE MessageInv'
    <2>1. CASE PopMessage(w) \/ DropQueue(w) \/ CreateQueue(w)
      BY <2>1, PopMessageMessages, DropQueueMessages, CreateQueueMessages
    <2>2. CASE ~(PopMessage(w) \/ DropQueue(w) \/ CreateQueue(w))
      <3>1. Quiet /\ UNCHANGED <<mq, mqMem, fate>>
        BY <1>1, <2>2, WorkIsQuiet, Zenon DEF Work
      <3> QED BY <3>1, PlainQuiet
    <2> QED BY <2>1, <2>2
  <1>2. ASSUME NEW w \in Workers, Command(w) \/ InitSend(w) \/ SpuriousWakeup(w) PROVE MessageInv'
    <2>0. w \in Threads /\ th[w] \in ThreadStates /\ PlaceOK(w, th[w])
      BY ThreadFacts, ThreadsFinite
    <2>1. ASSUME NEW d \in Services, Send(w, d) PROVE MessageInv'
      <3>1. th[w].pc = "callback"
        BY <2>1 DEF Send, StartSend, At
      <3>2. th[w].ctx \in Services
        BY <2>0, <3>1 DEF PlaceOK, Placed, Base, InTurn, Errands, ThreadStates
      <3> QED BY <2>0, <2>1, <3>2, StartSendMessages DEF Send
    <2>2. CASE InitSend(w)
      <3>1. th[w].pc = "init"
        BY <2>2 DEF InitSend, StartSend, At
      <3>2. th[w].born \in Services
        BY <2>0, <3>1 DEF PlaceOK, Placed, Base, InTurn, Errands, ThreadStates
      <3> QED BY <2>0, <2>2, <3>2, StartSendMessages DEF InitSend
    <2>3. CASE SpuriousWakeup(w) \/ Abort(w) \/ \E s \in Services : Kill(w, s) \/ Launch(w, s)
      <3>1. Quiet /\ UNCHANGED <<mq, mqMem, fate>>
        BY <2>3, WorkIsQuiet, Zenon
      <3> QED BY <3>1, PlainQuiet
    <2> QED BY <1>2, <2>1, <2>2, <2>3 DEF Command
  <1>3. ASSUME NEW t \in Threads, Deliver(t) PROVE MessageInv'
    <2>1. CASE Release(t)
      <3>1. Quiet /\ UNCHANGED <<mq, mqMem, fate>>
        BY <2>1, RestIsQuiet, Zenon
      <3> QED BY <3>1, PlainQuiet
    <2> QED BY <1>3, <2>1, GrabDestinationMessages, PushMessageMessages, DeleteContextMessages DEF Deliver
  <1>4. ASSUME NEW d \in Services, Timeout(d) \/ Forward(d) PROVE MessageInv'
    <2>1. Timer \in Threads /\ Socket \in Threads /\ Timer \in Outside /\ Socket \in Outside
      BY DEF Threads, Outside
    <2>2. CASE Timeout(d)
      BY <2>1, <2>2, StartSendMessages DEF Timeout
    <2>3. CASE Forward(d)
      BY <2>1, <2>3, StartSendMessages DEF Forward
    <2> QED BY <1>4, <2>2, <2>3
  <1>5. CASE Tick \/ Stop \/ SocketWakeup \/ SocketExit \/ Joined \/ UNCHANGED vars
    <2>1. Quiet /\ UNCHANGED <<mq, mqMem, fate>>
      BY <1>5, RestIsQuiet, Zenon DEF Joined
    <2> QED BY <2>1, PlainQuiet
  <1> QED BY <1>1, <1>2, <1>3, <1>4, <1>5 DEF Next

LEMMA MessageInitially == ASSUME Init PROVE MessageInv
  <1>1. NodeInv
    BY NodeInitially
  <1>2. \A s \in Services : Empty(mq[s])
    <2>1. Empty(mq_create) /\ Empty(NoQueue) /\ Empty([mq_create EXCEPT !.head = Lap, !.tail = Lap])
      BY DEF Empty, mq_create, NoQueue
    <2>2. mq = [s \in Services |-> IF s \in Booted THEN [mq_create EXCEPT !.head = Lap, !.tail = Lap]
                                   ELSE NoQueue]
      BY DEF Init
    <2> QED BY <2>1, <2>2
  <1>3. \A s \in Services : Contents(mq[s]) = <<>>
    BY <1>1, <1>2, RingFacts, EmptyContents
  <1>4. \A s \in Services : DOMAIN Contents(mq[s]) = {}
    BY <1>3
  <1>5. \A t \in Threads : th[t].msg = Vacant
    BY DEF Init, Idle
  <1>6. fate = [i \in Ids |-> "unsent"]
    BY DEF Init
  <1>7. TravelInv
    BY <1>2, <1>4, <1>5, <1>6 DEF TravelInv, Sending
  <1>8. PlaceInv /\ SenderInv /\ OrderKept
    BY <1>4, <1>5 DEF PlaceInv, SenderInv, OrderKept, Sending
  <1> QED BY <1>7, <1>8 DEF MessageInv

LEMMA CopiesAre ==
    ASSUME NodeInv, MessageInv, NEW i \in Ids, NEW x
    PROVE  x \in Copies(i) <=>
              \/ \E s \in Services : \E k \in DOMAIN Contents(mq[s]) :
                    Contents(mq[s])[k].id = i /\ x = <<s, k>>
              \/ \E t \in Threads : th[t].msg # Vacant /\ th[t].msg.id = i /\ x = <<t, 0>>
  <1>1. ASSUME NEW s \in Services, NEW k \in DOMAIN Contents(mq[s]) PROVE mqMem[s] = "alive"
    <2>1. CASE Empty(mq[s])
      <3>1. Contents(mq[s]) = <<>>
        BY <2>1, RingFacts, EmptyContents
      <3> QED BY <1>1, <3>1
    <2> QED BY <2>1 DEF MessageInv, TravelInv
  <1> DEFINE A == {s \in Services : mqMem[s] = "alive"}
             T == {t \in Threads : th[t].msg # Vacant /\ th[t].msg.id = i}
             U == UNION {InQueue(s, i) : s \in A}
             V == {<<t, 0>> : t \in T}
  <1>2. Copies(i) = U \cup V
    BY Zenon DEF Copies
  <1>3. x \in Copies(i) <=>
              \/ \E s \in Services : mqMem[s] = "alive" /\ \E k \in DOMAIN Contents(mq[s]) :
                    Contents(mq[s])[k].id = i /\ x = <<s, k>>
              \/ \E t \in Threads : th[t].msg # Vacant /\ th[t].msg.id = i /\ x = <<t, 0>>
    <2>1. \A s : x \in InQueue(s, i) <=> \E k \in DOMAIN Contents(mq[s]) :
                                            Contents(mq[s])[k].id = i /\ x = <<s, k>>
      BY DEF InQueue
    <2>2. x \in V <=> \E t \in Threads : th[t].msg # Vacant /\ th[t].msg.id = i /\ x = <<t, 0>>
      OBVIOUS
    <2>3. x \in U <=> \E s \in A : x \in InQueue(s, i)
      BY Zenon
    <2> HIDE DEF U, V
    <2> QED BY <1>2, <2>1, <2>2, <2>3, Zenon
  <1> QED BY <1>1, <1>3, Zenon

\* What the queues promise their senders, for any number of services, workers, messages and
\* places in the rings: a message on its way is in one place, in a queue or in the hand of
\* the thread that sends it, also while queues grow and are dropped, and the messages of a
\* sender to a service keep their order.
THEOREM MessagesAreKept == Spec => []MessagesKept
  <1>1. ASSUME NodeInv, MessageInv PROVE MessagesKept
    <2>1. OneCopy
      <3> SUFFICES ASSUME NEW i \in Ids
                   PROVE  Cardinality(Copies(i)) = IF fate[i] = "travelling" THEN 1 ELSE 0
        BY DEF OneCopy
      <3>1. CASE fate[i] # "travelling"
        <4>1. \A x : x \notin Copies(i)
          BY <1>1, <3>1, CopiesAre DEF MessageInv, TravelInv, Sending
        <4>2. Copies(i) = {}
          BY <4>1
        <4> QED BY <3>1, <4>2, FS_EmptySet
      <3>2. CASE fate[i] = "travelling"
        <4>1. PICK x : x \in Copies(i)
          <5>1. CASE \E s \in Services : \E k \in DOMAIN Contents(mq[s]) : Contents(mq[s])[k].id = i
            <6>1. PICK s \in Services : \E k \in DOMAIN Contents(mq[s]) : Contents(mq[s])[k].id = i
              BY <5>1
            <6>2. PICK k \in DOMAIN Contents(mq[s]) : Contents(mq[s])[k].id = i
              BY <6>1
            <6>3. <<s, k>> \in Copies(i)
              BY <1>1, <6>2, CopiesAre
            <6> QED BY <6>3
          <5>2. CASE \E t \in Threads : Sending(t) /\ th[t].msg.id = i
            <6>1. PICK t \in Threads : Sending(t) /\ th[t].msg.id = i
              BY <5>2
            <6>2. <<t, 0>> \in Copies(i)
              BY <1>1, <6>1, CopiesAre DEF Sending
            <6> QED BY <6>2
          <5> QED BY <1>1, <3>2, <5>1, <5>2 DEF MessageInv, TravelInv
        <4>2. ASSUME NEW y \in Copies(i) PROVE y = x
          <5>1. \/ \E s \in Services : \E k \in DOMAIN Contents(mq[s]) :
                      Contents(mq[s])[k].id = i /\ x = <<s, k>>
                \/ \E t \in Threads : th[t].msg # Vacant /\ th[t].msg.id = i /\ x = <<t, 0>>
            BY <1>1, <4>1, CopiesAre
          <5>2. \/ \E s \in Services : \E k \in DOMAIN Contents(mq[s]) :
                      Contents(mq[s])[k].id = i /\ y = <<s, k>>
                \/ \E t \in Threads : th[t].msg # Vacant /\ th[t].msg.id = i /\ y = <<t, 0>>
            BY <1>1, <4>2, CopiesAre
          <5>3. ASSUME NEW s \in Services, NEW k \in DOMAIN Contents(mq[s]), Contents(mq[s])[k].id = i,
                       x = <<s, k>>
                PROVE  y = x
            BY <1>1, <5>2, <5>3 DEF MessageInv, PlaceInv, Sending
          <5>4. ASSUME NEW t \in Threads, th[t].msg # Vacant, th[t].msg.id = i, x = <<t, 0>>
                PROVE  y = x
            BY <1>1, <5>2, <5>4 DEF MessageInv, PlaceInv, Sending
          <5> QED BY <5>1, <5>3, <5>4
        <4>3. Copies(i) = {x}
          BY <4>1, <4>2
        <4> QED BY <3>2, <4>3, FS_Singleton
      <3> QED BY <3>1, <3>2
    <2> QED BY <1>1, <2>1 DEF MessagesKept, MessageInv
  <1>2. Init => NodeInv /\ MessageInv
    BY NodeInitially, MessageInitially
  <1>3. NodeInv /\ MessageInv /\ [Next]_vars => (NodeInv /\ MessageInv)'
    BY NodeInductive, MessageInductive
  <1> QED BY <1>1, <1>2, <1>3, PTL DEF Spec

=============================================================================
