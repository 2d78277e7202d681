---------------------- MODULE CriticalSection_proofs ----------------------
(***************************************************************************)
(* Proofs about skynet.queue for any set of coroutines and any nesting     *)
(* bound.                                                                  *)
(***************************************************************************)
EXTENDS CriticalSection, TLAPS

\* Removing the head of a non-empty sequence: what xpcall_ret does to the
\* waiting queue.
LEMMA TailFacts ==
    ASSUME NEW S, NEW s \in Seq(S), s # << >>
    PROVE  /\ Head(s) = s[1] /\ Head(s) \in S
           /\ Len(s) \in Nat /\ Len(s) > 0
           /\ Tail(s) \in Seq(S)
           /\ Len(Tail(s)) = Len(s) - 1
           /\ \A i \in 1 .. Len(s) - 1 : Tail(s)[i] = s[i + 1]
  OBVIOUS

\* The initial state, with nobody using the queue, satisfies the invariant.
LEMMA InitInv == Init => IndInv
  BY ThreadsAssumption
     DEF Init, IndInv, TypeOK, OwnerInv, RefInv, QueueInv, PCs

\* cs(f) keeps the invariant, whether the caller waits or goes in.
LEMMA CallInv ==
    ASSUME IndInv, NEW t \in Threads, Call(t)
    PROVE  IndInv'
  <1> USE ThreadsAssumption DEF IndInv, TypeOK, PCs
  <1>1. CASE current_thread # NoThread /\ current_thread # t
    <2>1. /\ thread_queue' = Append(thread_queue, t)
          /\ pc' = [pc EXCEPT ![t] = "waiting"]
          /\ UNCHANGED <<current_thread, ref, depth>>
      BY <1>1 DEF Call, Enter, Wait
    <2>2. pc[t] = "out"
      BY <1>1 DEF Call, Enter, OwnerInv
    <2>3. TypeOK'
      BY <2>1
    <2>4. OwnerInv' /\ RefInv'
      BY <1>1, <2>1, <2>2 DEF OwnerInv, RefInv
    <2>5. QueueInv'
      <3>1. /\ Len(thread_queue') = Len(thread_queue) + 1
            /\ \A i \in 1 .. Len(thread_queue) :
                   thread_queue'[i] = thread_queue[i]
            /\ thread_queue'[Len(thread_queue) + 1] = t
            /\ Len(thread_queue) \in Nat
        BY <2>1
      <3>2. \A i \in 1 .. Len(thread_queue) : thread_queue[i] # t
        BY <2>2 DEF QueueInv
      <3>3. \A i \in 1 .. Len(thread_queue)' : pc'[thread_queue'[i]] = "waiting"
        BY <2>1, <3>1 DEF QueueInv
      <3>4. \A i, j \in 1 .. Len(thread_queue)' :
                thread_queue'[i] = thread_queue'[j] => i = j
        <4>1. ASSUME NEW i \in 1 .. Len(thread_queue) + 1,
                     NEW j \in 1 .. Len(thread_queue) + 1,
                     thread_queue'[i] = thread_queue'[j]
              PROVE  i = j
          <5>1. CASE i \in 1 .. Len(thread_queue) /\ j \in 1 .. Len(thread_queue)
            BY <3>1, <4>1, <5>1 DEF QueueInv
          <5>2. CASE i = Len(thread_queue) + 1 \/ j = Len(thread_queue) + 1
            BY <3>1, <3>2, <4>1, <5>2, SMTT(30)
          <5>3. QED
            BY <3>1, <5>1, <5>2
        <4>2. QED
          BY <3>1, <4>1
      <3>5. ASSUME NEW u \in Threads, pc'[u] = "waiting"
            PROVE  \E i \in 1 .. Len(thread_queue)' : thread_queue'[i] = u
        <4>1. CASE u = t
          BY <3>1, <4>1
        <4>2. CASE u # t
          <5>1. PICK i \in 1 .. Len(thread_queue) : thread_queue[i] = u
            BY <2>1, <3>5, <4>2 DEF QueueInv
          <5>2. QED
            BY <3>1, <5>1
        <4>3. QED
          BY <4>1, <4>2
      <3>6. QED
        BY <3>3, <3>4, <3>5 DEF QueueInv
    <2>6. QED
      BY <2>3, <2>4, <2>5
  <1>2. CASE ~(current_thread # NoThread /\ current_thread # t)
    <2>1. /\ current_thread' = t
          /\ ref' = ref + 1
          /\ pc' = [pc EXCEPT ![t] = "in"]
          /\ depth' = [depth EXCEPT ![t] = @ + 1]
          /\ UNCHANGED thread_queue
          /\ pc[t] \in {"out", "in"} /\ depth[t] < MaxDepth
      BY <1>2 DEF Call, Enter, Grab
    <2>2. TypeOK'
      BY <2>1
    <2>3. OwnerInv' /\ RefInv' /\ QueueInv'
      BY <1>2, <2>1 DEF OwnerInv, RefInv, QueueInv
    <2>4. QED
      BY <2>2, <2>3
  <1>3. QED
    BY <1>1, <1>2

\* The resumption of a woken coroutine keeps the invariant.
LEMMA ResumeInv ==
    ASSUME IndInv, NEW t \in Threads, Resume(t)
    PROVE  IndInv'
  <1> USE ThreadsAssumption DEF IndInv, TypeOK, PCs
  <1>1. /\ current_thread' = t
        /\ ref' = ref + 1
        /\ pc' = [pc EXCEPT ![t] = "in"]
        /\ depth' = [depth EXCEPT ![t] = @ + 1]
        /\ UNCHANGED thread_queue
        /\ pc[t] = "woken"
    BY DEF Resume, Grab
  <1>2. current_thread = t /\ ref = 0 /\ depth[t] = 0
    BY <1>1 DEF OwnerInv, RefInv
  <1>3. TypeOK'
    BY <1>1, <1>2
  <1>4. OwnerInv' /\ RefInv' /\ QueueInv'
    BY <1>1, <1>2 DEF OwnerInv, RefInv, QueueInv
  <1>5. QED
    BY <1>3, <1>4

\* The end of a body keeps the invariant: the outermost one hands the queue to
\* the thread that waited longest.
LEMMA ReturnInv ==
    ASSUME IndInv, NEW t \in Threads, Return(t)
    PROVE  IndInv'
  <1> USE ThreadsAssumption DEF IndInv, TypeOK, PCs
  <1>1. /\ pc[t] = "in" /\ current_thread = t /\ depth[t] = ref /\ ref > 0
        /\ ref' = ref - 1
        /\ depth' = [depth EXCEPT ![t] = @ - 1]
    BY DEF Return, OwnerInv, RefInv
  <1>2. CASE ref = 1 /\ thread_queue = << >>
    <2>1. /\ current_thread' = NoThread
          /\ pc' = [pc EXCEPT ![t] = "out"]
          /\ UNCHANGED thread_queue
      BY <1>1, <1>2 DEF Return, HandOver, FreeTheQueue
    <2>2. TypeOK'
      BY <1>1, <2>1
    <2>3. OwnerInv' /\ RefInv' /\ QueueInv'
      BY <1>1, <1>2, <2>1 DEF OwnerInv, RefInv, QueueInv
    <2>4. QED
      BY <2>2, <2>3
  <1>3. CASE ref = 1 /\ thread_queue # << >>
    <2> DEFINE h == Head(thread_queue)
    <2>1. /\ current_thread' = h
          /\ pc' = [[pc EXCEPT ![t] = "out"] EXCEPT ![h] = "woken"]
          /\ thread_queue' = Tail(thread_queue)
      BY <1>1, <1>3 DEF Return, HandOver
    <2>2. /\ h = thread_queue[1] /\ h \in Threads
          /\ Len(thread_queue) \in Nat /\ Len(thread_queue) > 0
          /\ thread_queue' \in Seq(Threads)
          /\ Len(thread_queue') = Len(thread_queue) - 1
          /\ \A i \in 1 .. Len(thread_queue) - 1 :
                 thread_queue'[i] = thread_queue[i + 1]
      BY <1>3, <2>1, TailFacts
    <2>3. pc[h] = "waiting" /\ h # t
      BY <1>1, <2>2, SMTT(30) DEF QueueInv
    <2> HIDE DEF h
    <2>4. TypeOK'
      BY <1>1, <1>3, <2>1, <2>2, SMTT(30)
    <2>5. OwnerInv' /\ RefInv'
      <3>1. \A u \in Threads : pc'[u] = IF u = h THEN "woken" ELSE
                                        IF u = t THEN "out" ELSE pc[u]
        BY <2>1, <2>2
      <3>2. \A u \in Threads : u # t => pc[u] \notin {"in", "woken"} /\ depth[u] = 0
        BY <1>1 DEF OwnerInv, RefInv
      <3>3. \A u \in Threads : depth'[u] = 0
        BY <1>1, <1>3, <3>2
      <3>4. OwnerInv'
        BY <2>1, <2>2, <3>1, <3>2 DEF OwnerInv
      <3>5. ref' = 0 /\ current_thread' # NoThread
        BY <1>1, <1>3, <2>1, <2>2
      <3>6. RefInv'
        BY <3>1, <3>2, <3>3, <3>5 DEF RefInv
      <3>7. QED
        BY <3>4, <3>6
    <2>6. QueueInv'
      <3>1. \A i \in 1 .. Len(thread_queue)' : pc'[thread_queue'[i]] = "waiting"
        <4>1. ASSUME NEW i \in 1 .. Len(thread_queue)'
              PROVE  pc'[thread_queue'[i]] = "waiting"
          <5>1. i + 1 \in 1 .. Len(thread_queue) /\ i + 1 # 1
            BY <2>2
          <5>2. /\ pc[thread_queue[i + 1]] = "waiting"
                /\ thread_queue[i + 1] # h
                /\ thread_queue[i + 1] # t
                /\ thread_queue[i + 1] \in Threads
            BY <1>1, <2>2, <5>1, SMTT(30) DEF QueueInv
          <5>3. QED
            BY <2>1, <2>2, <5>1, <5>2
        <4>2. QED
          BY <4>1
      <3>2. \A i, j \in 1 .. Len(thread_queue)' :
                thread_queue'[i] = thread_queue'[j] => i = j
        <4>1. ASSUME NEW i \in 1 .. Len(thread_queue) - 1,
                     NEW j \in 1 .. Len(thread_queue) - 1,
                     thread_queue'[i] = thread_queue'[j]
              PROVE  i = j
          <5>1. i + 1 \in 1 .. Len(thread_queue) /\ j + 1 \in 1 .. Len(thread_queue)
            BY <2>2
          <5>2. thread_queue[i + 1] = thread_queue[j + 1]
            BY <2>2, <4>1
          <5>3. i + 1 = j + 1
            BY <5>1, <5>2 DEF QueueInv
          <5>4. QED
            BY <5>3
        <4>2. QED
          BY <2>2, <4>1
      <3>3. ASSUME NEW u \in Threads, pc'[u] = "waiting"
            PROVE  \E i \in 1 .. Len(thread_queue)' : thread_queue'[i] = u
        <4>1. pc[u] = "waiting" /\ u # h
          BY <2>1, <2>2, <3>3
        <4>2. PICK i \in 1 .. Len(thread_queue) : thread_queue[i] = u
          BY <4>1 DEF QueueInv
        <4>3. i # 1
          BY <2>2, <4>1, <4>2
        <4>4. i - 1 \in 1 .. Len(thread_queue)' /\ thread_queue'[i - 1] = u
          <5>1. i - 1 \in 1 .. Len(thread_queue) - 1 /\ (i - 1) + 1 = i
            BY <2>2, <4>3
          <5>2. thread_queue'[i - 1] = thread_queue[(i - 1) + 1]
            BY <2>2, <5>1
          <5>3. QED
            BY <2>2, <4>2, <5>1, <5>2
        <4>5. QED
          BY <4>4
      <3>4. QED
        BY <3>1, <3>2, <3>3 DEF QueueInv
    <2>7. QED
      BY <2>4, <2>5, <2>6
  <1>4. CASE ref # 1
    <2>1. /\ pc' = pc
          /\ UNCHANGED <<current_thread, thread_queue>>
      BY <1>1, <1>4 DEF Return
    <2>2. TypeOK'
      BY <1>1, <2>1
    <2>3. OwnerInv' /\ RefInv' /\ QueueInv'
      BY <1>1, <1>4, <2>1 DEF OwnerInv, RefInv, QueueInv
    <2>4. QED
      BY <2>2, <2>3
  <1>5. QED
    BY <1>2, <1>3, <1>4

\* The invariant holds in every reachable state of the queue.
LEMMA Inductive == Spec => []IndInv
  <1>1. IndInv /\ [Next]_vars => IndInv'
    <2> SUFFICES ASSUME IndInv, [Next]_vars PROVE IndInv'
      OBVIOUS
    <2>1. CASE UNCHANGED vars
      BY <2>1 DEF vars, IndInv, TypeOK, OwnerInv, RefInv, QueueInv
    <2>2. ASSUME NEW t \in Threads, Call(t) \/ Resume(t) \/ Return(t)
          PROVE  IndInv'
      BY <2>2, CallInv, ResumeInv, ReturnInv
    <2>3. QED
      BY <2>1, <2>2 DEF Next
  <1>2. QED
    BY <1>1, InitInv, PTL DEF Spec

\* skynet.queue is a mutual-exclusion lock for any number of coroutines and any
\* nesting: no two of them are ever inside bodies of one queue.
THEOREM Mutex == Spec => []MutualExclusion
  <1>1. IndInv => MutualExclusion
    BY DEF IndInv, OwnerInv, MutualExclusion
  <1>2. QED
    BY <1>1, Inductive, PTL

\* The assertion of queue.lua line 29 never fails.
THEOREM AssertionHolds == Spec => []WakeupAssertion
  <1>1. IndInv => WakeupAssertion
    BY DEF IndInv, OwnerInv, RefInv, WakeupAssertion
  <1>2. QED
    BY <1>1, Inductive, PTL

\* A free queue has no waiter and no pending wake-up.
THEOREM WakeupsNotLost == Spec => []NoLostWakeup
  <1>1. IndInv => NoLostWakeup
    <2> SUFFICES ASSUME IndInv, current_thread = NoThread, NEW t \in Threads
                 PROVE  pc[t] = "out"
      BY DEF NoLostWakeup
    <2>1. pc[t] \notin {"in", "woken"}
      BY ThreadsAssumption DEF IndInv, OwnerInv
    <2>2. thread_queue = << >>
      BY DEF IndInv, RefInv
    <2>3. ~ \E i \in 1 .. Len(thread_queue) : thread_queue[i] = t
      BY <2>2
    <2>4. pc[t] # "waiting"
      BY <2>3 DEF IndInv, QueueInv
    <2>5. QED
      BY <2>1, <2>4 DEF IndInv, TypeOK, PCs
  <1>2. QED
    BY <1>1, Inductive, PTL

=============================================================================
