------------------------------ MODULE RingQueue ------------------------------
(***************************************************************************)
(* The ring queue behind a spinlock and the threads that use it            *)
(* (src/app/test/quene.c).  Every access to shared memory is a step.  The  *)
(* program always enqueues the number 2; here the n-th value to enter is n *)
(* so that values can be told apart.                                       *)
(***************************************************************************)
EXTENDS Naturals, Sequences, FiniteSets

CONSTANTS
    Workers,        \* the threads of producer_task
    QueueSize,      \* QUEUE_SIZE
    TaskTime        \* task_time: how many values to produce
ASSUME QueueAssumption == QueueSize \in Nat \ {0} /\ TaskTime \in Nat
ASSUME WorkersAssumption == IsFiniteSet(Workers) /\ Workers # {}

VARIABLES
    worker,         \* what each thread is about to do
    ring,           \* struct Queue
    tally,          \* produced and consumed
    history         \* the values that went in and came out (for the properties)
ringVars == <<worker, ring, tally, history>>

RingInit ==
    /\ worker = [w \in Workers |-> "loop"]
    /\ ring = [lock |-> 0, num |-> 0, head |-> 0, tail |-> 0, value |-> [i \in 0 .. QueueSize - 1 |-> 0]]
    /\ tally = [produced |-> 0, consumed |-> 0]
    /\ history = [in |-> <<>>, out |-> <<>>]

Goto(w, from, to) == worker[w] = from /\ worker' = [worker EXCEPT ![w] = to]

\* produced is read outside the lock: several threads may see the last one
\* missing.
Loop(w) ==
    /\ Goto(w, "loop", IF tally.produced < TaskTime THEN "enqueue" ELSE "ended")
    /\ UNCHANGED <<ring, tally, history>>

\* Mutant: the lock is read and then written.
Acquire_Slip(w) == ring' = [ring EXCEPT !.lock = 1]
Acquire(w) == ring.lock = 0 /\ ring' = [ring EXCEPT !.lock = 1]
\* spinlock_lock; a thread that fails yields and tries again.
Lock(w) ==
    /\ \/ Goto(w, "enqueue", "look for room")
       \/ Goto(w, "dequeue", "look for value")
    /\ Acquire(w)
    /\ UNCHANGED <<tally, history>>

LookForRoom(w) ==
    /\ Goto(w, "look for room", IF ring.num = QueueSize THEN "release full" ELSE "put")
    /\ UNCHANGED <<ring, tally, history>>
Put(w) ==
    /\ Goto(w, "put", "count put")
    /\ history' = [history EXCEPT !.in = Append(@, Len(@) + 1)]
    /\ ring' = [ring EXCEPT !.value[ring.head] = Len(history.in) + 1, !.head = (@ + 1) % QueueSize]
    /\ UNCHANGED tally
CountPut(w) ==
    /\ Goto(w, "count put", "release put")
    /\ ring' = [ring EXCEPT !.num = @ + 1]
    /\ UNCHANGED <<tally, history>>

LookForValue(w) ==
    /\ Goto(w, "look for value", IF ring.num = 0 THEN "release empty" ELSE "take")
    /\ UNCHANGED <<ring, tally, history>>
TakeValue(w) ==
    /\ Goto(w, "take", "count take")
    /\ history' = [history EXCEPT !.out = Append(@, ring.value[ring.tail])]
    /\ ring' = [ring EXCEPT !.tail = (@ + 1) % QueueSize]
    /\ UNCHANGED tally
CountTake(w) ==
    /\ Goto(w, "count take", "release take")
    /\ ring' = [ring EXCEPT !.num = @ - 1]
    /\ UNCHANGED <<tally, history>>

\* spinlock_unlock: a plain store.
Release(w) ==
    /\ \/ Goto(w, "release full", "dequeue")
       \/ Goto(w, "release put", "produced")
       \/ Goto(w, "release empty", "loop")
       \/ Goto(w, "release take", "consumed")
    /\ ring' = [ring EXCEPT !.lock = 0]
    /\ UNCHANGED <<tally, history>>

\* The counters are added to after the lock is released.
Produced(w) ==
    /\ Goto(w, "produced", "dequeue")
    /\ tally' = [tally EXCEPT !.produced = @ + 1]
    /\ UNCHANGED <<ring, history>>
Consumed(w) ==
    /\ Goto(w, "consumed", "loop")
    /\ tally' = [tally EXCEPT !.consumed = @ + 1]
    /\ UNCHANGED <<ring, history>>

Work(w) ==
    \/ Loop(w) \/ Lock(w) \/ LookForRoom(w) \/ Put(w) \/ CountPut(w) \/ LookForValue(w) \/ TakeValue(w)
    \/ CountTake(w) \/ Release(w) \/ Produced(w) \/ Consumed(w)
RingNext == \E w \in Workers : Work(w)

----------------------------------------------------------------------------
(* Properties                                                              *)

Holding == {w \in Workers : worker[w] \notin {"loop", "enqueue", "dequeue", "produced", "consumed", "ended"}}
InQueue == SubSeq(history.in, Len(history.out) + 1, Len(history.in))
AllEnded == \A w \in Workers : worker[w] = "ended"

\* One thread at a time is between lock and unlock, and while nobody is, the
\* ring holds the values that went in and have not come out, in order: nothing
\* is lost, repeated or overtaken.  The numbers that main prints agree: what
\* was consumed and what is left make up what was produced, which exceeds
\* task_time by less than the number of threads.
QueueSound ==
    /\ \A v, w \in Holding : v = w
    /\ history.out = SubSeq(history.in, 1, Len(history.out))
    /\ ring.lock = 0 =>
         /\ Holding = {} /\ ring.num = Len(InQueue) /\ ring.num <= QueueSize
         /\ \A i \in 1 .. ring.num : ring.value[(ring.tail + i - 1) % QueueSize] = InQueue[i]
    /\ tally.produced < TaskTime + Cardinality(Workers)
    /\ AllEnded => tally.produced >= TaskTime /\ tally.produced = tally.consumed + ring.num
=============================================================================
