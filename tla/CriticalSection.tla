-------------------------- MODULE CriticalSection --------------------------
(***************************************************************************)
(* skynet.queue: the reentrant critical section that serialises the        *)
(* coroutines of one service (server/lualib/skynet/queue.lua).  A room      *)
(* runs every client request and every timer callback through one such     *)
(* queue `cs' (business/game/ddz/main.lua).                                *)
(*                                                                         *)
(* Coroutines are cooperative: between two yields a coroutine runs alone,  *)
(* so the code between the entry of cs(f) and its skynet.wait, the code     *)
(* after the wake-up, and xpcall_ret are one step each.  The body f may     *)
(* yield, so anything may happen while a thread is inside.                 *)
(***************************************************************************)
EXTENDS Naturals, Sequences

CONSTANTS Threads,   \* the coroutines of the service
          NoThread,  \* nil
          MaxDepth   \* bound on the nesting of cs() calls of one thread

ASSUME ThreadsAssumption ==
    /\ NoThread \notin Threads
    /\ MaxDepth \in Nat \ {0}

VARIABLES current_thread,  \* the thread that owns the queue, or NoThread
          ref,             \* nesting depth of the owner
          thread_queue,    \* FIFO of waiting threads
          pc,              \* where each coroutine is
          depth            \* number of cs() bodies each coroutine is inside of

vars == <<current_thread, ref, thread_queue, pc, depth>>

(***************************************************************************)
(* pc: "out"      the coroutine is not using the queue                     *)
(*     "waiting"  it is suspended in skynet.wait (line 28)                 *)
(*     "woken"    skynet.wakeup was called for it, it has not resumed yet  *)
(*     "in"       it is inside a body f, running or suspended              *)
(***************************************************************************)
PCs == {"out", "waiting", "woken", "in"}

TypeOK ==
    /\ current_thread \in Threads \cup {NoThread}
    /\ ref \in Nat
    /\ thread_queue \in Seq(Threads)
    /\ pc \in [Threads -> PCs]
    /\ depth \in [Threads -> 0 .. MaxDepth]

Init ==
    /\ current_thread = NoThread
    /\ ref = 0
    /\ thread_queue = << >>
    /\ pc = [t \in Threads |-> "out"]
    /\ depth = [t \in Threads |-> 0]

\* Lines 31-34: take the queue and start (another) body.
Grab(t) ==
    /\ current_thread' = t
    /\ ref' = ref + 1
    /\ pc' = [pc EXCEPT ![t] = "in"]
    /\ depth' = [depth EXCEPT ![t] = @ + 1]

\* cs(f, ...): the queue is owned by another coroutine, wait for it.
Wait(t) ==
    /\ thread_queue' = Append(thread_queue, t)
    /\ pc' = [pc EXCEPT ![t] = "waiting"]
    /\ UNCHANGED <<current_thread, ref, depth>>

\* A coroutine calls cs(f), from outside or from within a body of its own.
Enter(t, owned) ==
    /\ pc[t] \in {"out", "in"}
    /\ depth[t] < MaxDepth
    /\ IF owned THEN Wait(t) ELSE Grab(t) /\ UNCHANGED thread_queue

\* A mutant of Call: the queue counts as owned only while a body runs.
CallTestingRef(t) == Enter(t, ref > 0 /\ current_thread # t)

Call(t) == Enter(t, current_thread # NoThread /\ current_thread # t)

\* The scheduler resumes a coroutine that was woken up (line 29 onwards).
Resume(t) ==
    /\ pc[t] = "woken"
    /\ Grab(t)
    /\ UNCHANGED thread_queue

\* Nobody waits (and a mutant of HandOver: nobody is ever looked for).
FreeTheQueue(left) ==
    /\ current_thread' = NoThread
    /\ pc' = left
    /\ UNCHANGED thread_queue

\* Lines 15-18: the outermost body ended; the thread that waited longest owns the
\* queue from now on and is woken up. left is pc once the body's thread is out.
HandOver(left) ==
    IF thread_queue = << >>
    THEN FreeTheQueue(left)
    ELSE /\ current_thread' = Head(thread_queue)
         /\ thread_queue' = Tail(thread_queue)
         /\ pc' = [left EXCEPT ![Head(thread_queue)] = "woken"]

\* xpcall_ret: the innermost body of t ended, normally or with an error (the
\* error is raised again only after the hand-over, line 20).
Return(t) ==
    /\ pc[t] = "in"
    /\ ref' = ref - 1
    /\ depth' = [depth EXCEPT ![t] = @ - 1]
    /\ LET left == [pc EXCEPT ![t] = IF depth[t] = 1 THEN "out" ELSE "in"]
       IN  IF ref = 1
           THEN HandOver(left)
           ELSE pc' = left /\ UNCHANGED <<current_thread, thread_queue>>

Next == \E t \in Threads : Call(t) \/ Resume(t) \/ Return(t)

\* The scheduler resumes what it was asked to wake up, and a coroutine does not
\* nest bodies for ever: its outermost body ends.
Fairness ==
    \A t \in Threads :
        /\ WF_vars(Resume(t))
        /\ WF_vars(Return(t))
        /\ SF_vars(depth[t] = 1 /\ Return(t))

Spec == Init /\ [][Next]_vars

FairSpec == Spec /\ Fairness

-----------------------------------------------------------------------------
(***************************************************************************)
(* Properties                                                              *)
(***************************************************************************)

\* Two coroutines are never inside bodies of the same queue, whatever the
\* bodies' yields and nested calls: what every room handler relies on when it
\* checks a state, calls another service and then uses the state.
MutualExclusion ==
    \A t, u \in Threads : pc[t] = "in" /\ pc[u] = "in" => t = u

\* The assertion of line 29: a thread that resumes from skynet.wait finds
\* ref = 0 and itself as the owner, though others called cs in between.
WakeupAssertion ==
    \A t \in Threads : pc[t] = "woken" => ref = 0 /\ current_thread = t

\* The lock is never lost: when nobody owns the queue nobody waits for it.
NoLostWakeup ==
    current_thread = NoThread => \A t \in Threads : pc[t] = "out"

\* Every coroutine that waits for the queue gets it: requests and timer
\* callbacks queued behind a body that sleeps are delayed, never dropped.
WaitersEnter == \A t \in Threads : pc[t] = "waiting" ~> pc[t] = "in"

-----------------------------------------------------------------------------
(***************************************************************************)
(* The inductive invariant behind MutualExclusion and WakeupAssertion: the *)
(* owner is exactly the thread that is inside or about to resume, and the  *)
(* queue holds exactly the suspended threads, each once.                   *)
(***************************************************************************)

OwnerInv ==
    \A t \in Threads : pc[t] \in {"in", "woken"} <=> current_thread = t

RefInv ==
    /\ \A t \in Threads : pc[t] = "in" => depth[t] = ref /\ ref > 0
    /\ \A t \in Threads : pc[t] # "in" => depth[t] = 0
    /\ \A t \in Threads : pc[t] = "woken" => ref = 0
    /\ current_thread = NoThread => ref = 0 /\ thread_queue = << >>

QueueInv ==
    /\ \A i \in 1 .. Len(thread_queue) : pc[thread_queue[i]] = "waiting"
    /\ \A i, j \in 1 .. Len(thread_queue) :
           thread_queue[i] = thread_queue[j] => i = j
    /\ \A t \in Threads : pc[t] = "waiting" =>
           \E i \in 1 .. Len(thread_queue) : thread_queue[i] = t

IndInv == TypeOK /\ OwnerInv /\ RefInv /\ QueueInv

=============================================================================
