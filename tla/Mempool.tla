------------------------------ MODULE Mempool ------------------------------
(***************************************************************************)
(* lib/thread/mempool.c: the registry that records, per thread, the blocks *)
(* its malloc calls returned, so that a background worker can give back    *)
(* what an exited thread left behind.                                      *)
(*                                                                         *)
(* thread_id_idx[] and thread_mem_list[] are `idx` and `rec`; a thread's   *)
(* list of mem_chunks is a sequence of blocks.  The registry calls         *)
(* (register, mark) and the worker hold the spinlock; malloc takes no lock *)
(* at all, and runs here read by read and write by write.                  *)
(*                                                                         *)
(* The library is sound only for some clients.  What a client does is a    *)
(* record that Init picks from Clients and no step changes; each property  *)
(* says of which clients it speaks.                                        *)
(***************************************************************************)
EXTENDS Naturals, Sequences, FiniteSets

CONSTANTS
    Thread,        \* kernel tids
    Main,          \* the tid recorded by tlibc_mem_pool_init
    MaxThread,     \* MAX_THREAD_OF_MEMPOOL, 65536 in the code
    Rec,           \* addresses of struct thread_mem_list
    Block,         \* addresses mmap may return for malloc's blocks
    None,          \* tid 0 in thread_id_idx, a NULL list pointer, no owner
    Clients        \* the clients considered

ASSUME MainAssumption == Main \in Thread
Op == {"malloc", "register", "registerZero", "mark", "markMain"}
ASSUME NoneAssumption == None \notin Thread \cup Rec \cup Block \cup Op
ASSUME SizeAssumption == MaxThread \in Nat \ {0}
\* What a client may do.  serial: its malloc overlaps no other pool operation
\* and stops for good when the worker starts; reclaims: it calls
\* tlibc_mempool_enable_auto_reclaim; marks: an exiting thread calls
\* tlibc_mempool_mark_exit; frees: it calls tlibc_free on malloc'ed blocks;
\* cleans: it calls tlibc_clean_thread_mem; errs: it marks the main thread or
\* registers a zero stack; reuses: the kernel gives a dead thread's tid to a
\* new thread; chunks: the bound on the blocks one thread's list records.
Client == [serial : BOOLEAN, reclaims : BOOLEAN, marks : BOOLEAN, frees : BOOLEAN,
           cleans : BOOLEAN, errs : BOOLEAN, reuses : BOOLEAN, chunks : Nat]
ASSUME ClientAssumption == Clients \subseteq Client

VARIABLES
    client,   \* the client, never changed
    life,     \* of each thread: "unborn", "alive", "marked" or "exited"
    lock,     \* global_mem_list->spinlock.lock
    idx,      \* thread_id_idx[0 .. MaxThread]
    rec,      \* thread_mem_list[0 .. MaxThread]
    state,    \* ->state of each record
    chain,    \* the blocks on each record's mem_chunk list
    num,      \* ->chunk_num
    owner,    \* whose block each address is; None: not mapped
    pc, op, at, blk, loc,   \* per thread: control and locals
    tail,     \* of each thread: the list whose last chunk m_ptr points to
    wpc, wat, wk,                 \* the worker: control, slot, chunk
    stop,     \* work_thread_exit
    fault     \* the process has died of a memory fault

threadVars == <<pc, op, at, blk, loc, tail>>
workerVars == <<wpc, wat, wk>>
listVars == <<state, chain, num>>
vars == <<client, life, lock, idx, rec, listVars, owner, threadVars, workerVars, stop, fault>>

Slot == 0 .. MaxThread

Init ==
    /\ client \in Clients
    /\ life = [t \in Thread |-> IF t = Main THEN "alive" ELSE "unborn"]
    /\ lock = FALSE
    /\ idx = [i \in Slot |-> IF i = 0 THEN Main ELSE None]
    /\ \E r \in Rec :   \* tlibc_mem_pool_init records the main thread
         /\ rec = [i \in Slot |-> IF i = 0 THEN r ELSE None]
         /\ state = [q \in Rec |-> IF q = r THEN "main" ELSE "unknown"]
    /\ chain = [q \in Rec |-> << >>]
    /\ num = [q \in Rec |-> 0]
    /\ owner = [a \in Block |-> None]
    /\ pc = [t \in Thread |-> "idle"]
    /\ op = [t \in Thread |-> None]
    /\ at = [t \in Thread |-> 0]
    /\ blk = [t \in Thread |-> None]
    /\ loc = [t \in Thread |-> None]
    /\ tail = [t \in Thread |-> << >>]
    /\ wpc = "off" /\ wat = 0 /\ wk = 0
    /\ stop = FALSE
    /\ fault = FALSE

\* tlibc_malloc of a thread_mem_list: memory nothing points to.
FreshRec(r) ==
    /\ \A i \in Slot : rec[i] # r
    /\ \A t \in Thread : loc[t] # r

\* Nobody is inside the pool.
Quiet == wpc = "off" /\ \A t \in Thread : pc[t] = "idle"

InMalloc == \E t \in Thread : op[t] = "malloc"

----------------------------------------------------------------------------
(* Entering the pool *)

\* malloc: the block is mapped first, then recorded (lines 211 ff.).
MallocBegin(t, a) ==
    /\ pc[t] = "idle" /\ life[t] = "alive"
    /\ client.serial => Quiet
    /\ owner[a] = None
    /\ Cardinality({b \in Block : owner[b] = t}) < client.chunks
    /\ \A i \in Slot : idx[i] = t /\ rec[i] # None => Len(chain[rec[i]]) < client.chunks
    /\ owner' = [owner EXCEPT ![a] = t]
    /\ blk' = [blk EXCEPT ![t] = a]
    /\ op' = [op EXCEPT ![t] = "malloc"]
    /\ at' = [at EXCEPT ![t] = 0]
    /\ pc' = [pc EXCEPT ![t] = "scan"]
    /\ UNCHANGED <<life, lock, idx, rec, listVars, loc, tail, workerVars, stop, fault>>

\* tlibc_register_thread_stack and tlibc_mempool_mark_exit, up to the lock.
\* "registerZero" passes stack_base 0, "markMain" the main thread's tid.
CallBegin(t, call) ==
    /\ pc[t] = "idle" /\ life[t] = "alive"
    /\ \/ call = "register"
       \/ call = "mark" /\ client.marks /\ t # Main
       \/ call \in {"registerZero", "markMain"} /\ client.errs
    /\ client.serial => ~InMalloc
    /\ op' = [op EXCEPT ![t] = call]
    /\ at' = [at EXCEPT ![t] = 0]
    /\ pc' = [pc EXCEPT ![t] = "lock"]
    /\ UNCHANGED <<life, lock, idx, rec, listVars, owner, blk, loc, tail, workerVars, stop, fault>>

\* spinlock_lock: one successful compare-and-exchange.
Lock(t) ==
    /\ pc[t] = "lock"
    /\ ~lock
    /\ lock' = TRUE
    /\ pc' = [pc EXCEPT ![t] = "scan"]
    /\ UNCHANGED <<life, idx, rec, listVars, owner, op, at, blk, loc, tail, workerVars, stop, fault>>

----------------------------------------------------------------------------
(* tlibc_find_or_alloc_thread_idx, and the copy of its loop inside malloc *)

Key(t) == IF op[t] = "markMain" THEN Main ELSE t

\* One turn of the loop.  With the table full a registry call unlocks and
\* returns -1; malloc goes on to use thread_mem_list[-1], which is the last,
\* always zero, element of thread_id_idx: a NULL record.
Scan(t) ==
    /\ pc[t] = "scan"
    /\ IF at[t] = MaxThread
         THEN /\ pc' = [pc EXCEPT ![t] = "idle"]
              /\ fault' = (op[t] = "malloc")
              /\ lock' = IF op[t] = "malloc" THEN lock ELSE FALSE
              /\ at' = at
         ELSE /\ pc' = [pc EXCEPT ![t] =
                            IF idx[at[t]] = None THEN "claim"
                            ELSE IF idx[at[t]] = Key(t) THEN "use"
                            ELSE "scan"]
              /\ at' = [at EXCEPT ![t] = IF pc'[t] = "scan" THEN @ + 1 ELSE @]
              /\ UNCHANGED <<fault, lock>>
    /\ UNCHANGED <<life, idx, rec, listVars, owner, op, blk, loc, tail, workerVars, stop>>

\* A zeroed record is allocated and the tid stored ...
Claim(t, r) ==
    /\ pc[t] = "claim"
    /\ FreshRec(r)
    /\ idx' = [idx EXCEPT ![at[t]] = Key(t)]
    /\ state' = [state EXCEPT ![r] = "unknown"]
    /\ chain' = [chain EXCEPT ![r] = << >>]
    /\ num' = [num EXCEPT ![r] = 0]
    /\ loc' = [loc EXCEPT ![t] = r]
    /\ pc' = [pc EXCEPT ![t] = "publish"]
    /\ UNCHANGED <<life, lock, rec, owner, op, at, blk, tail, workerVars, stop, fault>>

\* ... before the record is.
Publish(t) ==
    /\ pc[t] = "publish"
    /\ rec' = [rec EXCEPT ![at[t]] = loc[t]]
    /\ loc' = [loc EXCEPT ![t] = None]
    /\ pc' = [pc EXCEPT ![t] = "use"]
    /\ UNCHANGED <<life, lock, idx, listVars, owner, op, at, blk, tail, workerVars, stop, fault>>

----------------------------------------------------------------------------
(* What each call does with its slot *)

\* malloc reads the record from the slot again and walks to the list's end.
FindTail(t) ==
    /\ pc[t] = "use" /\ op[t] = "malloc"
    /\ IF rec[at[t]] = None
         THEN fault' = TRUE /\ UNCHANGED <<pc, loc, tail>>
         ELSE /\ loc' = [loc EXCEPT ![t] = rec[at[t]]]
              /\ tail' = [tail EXCEPT ![t] = chain[rec[at[t]]]]
              /\ pc' = [pc EXCEPT ![t] = "link"]
              /\ fault' = fault
    /\ UNCHANGED <<life, lock, idx, rec, listVars, owner, op, at, blk, workerVars, stop>>

\* Mutant: the new mem_chunk replaces the list.
Link_Replaces(t) ==
    /\ pc[t] = "link"
    /\ chain' = [chain EXCEPT ![loc[t]] = <<blk[t]>>]
    /\ pc' = [pc EXCEPT ![t] = "count"]
    /\ UNCHANGED <<life, lock, idx, rec, state, num, owner, op, at, blk, loc, tail, workerVars, stop, fault>>

\* The new mem_chunk goes behind the last one seen, whose successor it
\* becomes; that one may have been cut off the list meanwhile.
OnList(seen, c) == Len(seen) <= Len(c) /\ seen = SubSeq(c, 1, Len(seen))
Link(t) ==
    /\ pc[t] = "link"
    /\ chain' = [chain EXCEPT ![loc[t]] = IF OnList(tail[t], @) THEN Append(tail[t], blk[t]) ELSE @]
    /\ pc' = [pc EXCEPT ![t] = "count"]
    /\ UNCHANGED <<life, lock, idx, rec, state, num, owner, op, at, blk, loc, tail, workerVars, stop, fault>>

\* chunk_num++, and malloc returns.
Count(t) ==
    /\ pc[t] = "count"
    /\ num' = [num EXCEPT ![loc[t]] = @ + 1]
    /\ pc' = [pc EXCEPT ![t] = "idle"]
    /\ op' = [op EXCEPT ![t] = None]
    /\ at' = [at EXCEPT ![t] = 0]
    /\ blk' = [blk EXCEPT ![t] = None]
    /\ loc' = [loc EXCEPT ![t] = None]
    /\ tail' = [tail EXCEPT ![t] = << >>]
    /\ UNCHANGED <<life, lock, idx, rec, state, chain, owner, workerVars, stop, fault>>

\* A registry call is over.
Return(t) ==
    /\ pc' = [pc EXCEPT ![t] = "idle"]
    /\ op' = [op EXCEPT ![t] = None]
    /\ at' = [at EXCEPT ![t] = 0]
    /\ UNCHANGED <<blk, loc, tail>>

\* register: state ALIVE; with stack_base 0 it returns with the lock held.
UseRegister(t) ==
    /\ pc[t] = "use"
    /\ \/ /\ op[t] = "register"
          /\ state' = [state EXCEPT ![rec[at[t]]] = "alive"]
          /\ lock' = FALSE
       \/ /\ op[t] = "registerZero"
          /\ UNCHANGED <<state, lock>>
    /\ Return(t)
    /\ UNCHANGED <<life, idx, rec, chain, num, owner, workerVars, stop, fault>>

\* mark_exit: state EXIT; for the main thread it returns with the lock held.
UseMark(t) ==
    /\ pc[t] = "use" /\ op[t] \in {"mark", "markMain"}
    /\ IF state[rec[at[t]]] = "main"
         THEN UNCHANGED <<state, lock>>
         ELSE /\ state' = [state EXCEPT ![rec[at[t]]] = "exit"]
              /\ lock' = FALSE
    /\ life' = [life EXCEPT ![t] = IF op[t] = "mark" THEN "marked" ELSE @]
    /\ Return(t)
    /\ UNCHANGED <<idx, rec, chain, num, owner, workerVars, stop, fault>>

----------------------------------------------------------------------------
(* Client code around the pool *)

Birth(t) ==
    /\ life[t] = "unborn" \/ (client.reuses /\ life[t] = "exited")
    /\ life' = [life EXCEPT ![t] = "alive"]
    /\ UNCHANGED <<lock, idx, rec, listVars, owner, threadVars, workerVars, stop, fault>>

\* pthread_exit: nothing in it tells the pool.
ThreadExit(t) ==
    /\ t # Main /\ pc[t] = "idle"
    /\ life[t] = IF client.marks THEN "marked" ELSE "alive"
    /\ life' = [life EXCEPT ![t] = "exited"]
    /\ UNCHANGED <<lock, idx, rec, listVars, owner, threadVars, workerVars, stop, fault>>

\* tlibc_free unmaps the block; the chunk that records it stays.
Free(t, a) ==
    /\ client.frees
    /\ pc[t] = "idle" /\ life[t] = "alive" /\ owner[a] = t
    /\ owner' = [owner EXCEPT ![a] = None]
    /\ UNCHANGED <<life, lock, idx, rec, listVars, threadVars, workerVars, stop, fault>>

\* Mutant: the slot is zeroed, the ones behind it do not move.
ShiftDown_Hole(f, i) == [f EXCEPT ![i] = None]

\* Elements i+1 .. of both arrays move down by one.
ShiftDown(f, i) == [j \in Slot |-> IF j < i \/ j = MaxThread THEN f[j] ELSE f[j + 1]]

\* tlibc_clean_thread_mem, called while nobody else uses the pool: every
\* recorded block is unmapped and the record dropped.
CleanThreadMem(t, q) ==
    /\ client.cleans /\ Quiet /\ life[t] = "alive"
    /\ life[q] \in {"marked", "exited"}
    /\ \E i \in Slot :
         /\ idx[i] = q
         /\ LET blocks == {chain[rec[i]][k] : k \in 1 .. num[rec[i]]} IN
              /\ owner' = [a \in Block |-> IF a \in blocks THEN None ELSE owner[a]]
              /\ fault' = \E a \in blocks : owner[a] = None
         /\ idx' = ShiftDown(idx, i)
         /\ rec' = ShiftDown(rec, i)
    /\ UNCHANGED <<life, lock, listVars, threadVars, workerVars, stop>>

----------------------------------------------------------------------------
(* The background worker *)

\* tlibc_mempool_enable_auto_reclaim
Enable ==
    /\ client.reclaims /\ wpc = "off"
    /\ client.serial => ~InMalloc
    /\ wpc' = "sleep"
    /\ UNCHANGED <<life, lock, idx, rec, listVars, owner, threadVars, wat, wk, stop, fault>>

\* tlibc_mempool_stop_worker
StopWorker ==
    /\ wpc # "off" /\ ~stop
    /\ stop' = TRUE
    /\ UNCHANGED <<life, lock, idx, rec, listVars, owner, threadVars, workerVars, fault>>

\* The flag is read before the one-second sleep.
WorkerTurn ==
    /\ wpc = "sleep"
    /\ wpc' = IF stop THEN "gone" ELSE "lock"
    /\ UNCHANGED <<life, lock, idx, rec, listVars, owner, threadVars, wat, wk, stop, fault>>

WorkerLock ==
    /\ wpc = "lock" /\ ~lock
    /\ lock' = TRUE
    /\ wpc' = "scan" /\ wat' = 0
    /\ UNCHANGED <<life, idx, rec, listVars, owner, threadVars, wk, stop, fault>>

\* Mutant: every thread but main is taken for exited.
WorkerScan_NotMain ==
    /\ wpc = "scan"
    /\ \/ /\ wat = MaxThread \/ idx[wat] = None
          /\ wpc' = "sleep" /\ wat' = 0 /\ wk' = 0 /\ lock' = FALSE
       \/ /\ wat < MaxThread /\ idx[wat] # None
          /\ IF state[rec[wat]] # "main"
               THEN wpc' = "free" /\ wk' = 1 /\ wat' = wat
               ELSE wpc' = "scan" /\ wk' = wk /\ wat' = wat + 1
          /\ lock' = lock
    /\ UNCHANGED <<life, idx, rec, listVars, owner, threadVars, stop, fault>>

\* Mutant: the scan ends at the first thread that has not exited.
WorkerScan_Breaks ==
    /\ wpc = "scan"
    /\ IF wat < MaxThread /\ idx[wat] # None /\ state[rec[wat]] = "exit"
         THEN wpc' = "free" /\ wk' = 1 /\ UNCHANGED <<wat, lock>>
         ELSE wpc' = "sleep" /\ wat' = 0 /\ wk' = 0 /\ lock' = FALSE
    /\ UNCHANGED <<life, idx, rec, listVars, owner, threadVars, stop, fault>>

\* One turn of tlibc_mempool_clean_thread's loop.
WorkerScan ==
    /\ wpc = "scan"
    /\ \/ /\ wat = MaxThread \/ idx[wat] = None
          /\ wpc' = "sleep" /\ wat' = 0 /\ wk' = 0 /\ lock' = FALSE
          /\ fault' = fault
       \/ /\ wat < MaxThread /\ idx[wat] # None
          /\ IF rec[wat] = None
               THEN fault' = TRUE /\ UNCHANGED workerVars
               ELSE /\ fault' = fault
                    /\ IF state[rec[wat]] = "exit"
                         THEN wpc' = "free" /\ wk' = 1 /\ wat' = wat
                         ELSE wpc' = "scan" /\ wk' = wk /\ wat' = wat + 1
          /\ lock' = lock
    /\ UNCHANGED <<life, idx, rec, listVars, owner, threadVars, stop>>

\* Mutant: the loop runs once too often.
WorkerFree_OneMore ==
    /\ wpc = "free" /\ wk <= num[rec[wat]] + 1
    /\ LET c == chain[rec[wat]] IN
         IF wk > Len(c) \/ owner[c[wk]] = None
           THEN fault' = TRUE /\ UNCHANGED <<owner, wk>>
           ELSE /\ owner' = [owner EXCEPT ![c[wk]] = None]
                /\ wk' = wk + 1 /\ fault' = fault
    /\ UNCHANGED <<life, lock, idx, rec, listVars, threadVars, wpc, wat, stop>>

\* tlibc_free of the next recorded block; it reads the size in front of it.
WorkerFree ==
    /\ wpc = "free" /\ wk <= num[rec[wat]]
    /\ LET c == chain[rec[wat]] IN
         IF wk > Len(c) \/ owner[c[wk]] = None
           THEN fault' = TRUE /\ UNCHANGED <<owner, wk>>
           ELSE /\ owner' = [owner EXCEPT ![c[wk]] = None]
                /\ wk' = wk + 1 /\ fault' = fault
    /\ UNCHANGED <<life, lock, idx, rec, listVars, threadVars, wpc, wat, stop>>

\* All blocks are gone: the slots behind close up.
WorkerShift ==
    /\ wpc = "free" /\ wk > num[rec[wat]]
    /\ idx' = ShiftDown(idx, wat)
    /\ rec' = ShiftDown(rec, wat)
    /\ wpc' = "scan" /\ wk' = 0
    /\ UNCHANGED <<life, lock, listVars, owner, threadVars, wat, stop, fault>>

----------------------------------------------------------------------------
PoolStep(t) ==
    \/ Lock(t)
    \/ Scan(t)
    \/ \E r \in Rec : Claim(t, r)
    \/ Publish(t)
    \/ FindTail(t) \/ Link(t) \/ Count(t)
    \/ UseRegister(t)
    \/ UseMark(t)

ClientStep(t) ==
    \/ \E a \in Block : MallocBegin(t, a)
    \/ \E call \in Op \ {"malloc"} : CallBegin(t, call)
    \/ Birth(t)
    \/ ThreadExit(t)
    \/ \E a \in Block : Free(t, a)
    \/ \E q \in Thread : CleanThreadMem(t, q)

WorkerStep ==
    WorkerTurn \/ WorkerLock \/ WorkerScan \/ WorkerFree \/ WorkerShift

\* A memory fault ends the process; the client stays what it is.
Sound == ~fault /\ UNCHANGED client

Next ==
    /\ Sound
    /\ \/ \E t \in Thread : PoolStep(t) \/ ClientStep(t)
       \/ Enable \/ StopWorker
       \/ WorkerStep

Spec == Init /\ [][Next]_vars

\* Threads inside the pool and the worker are scheduled; a spinning locker
\* gets the lock if it is free again and again (strong fairness on the CAS).
Fairness ==
    /\ \A t \in Thread : WF_vars(Sound /\ PoolStep(t)) /\ SF_vars(Sound /\ Lock(t))
    /\ WF_vars(Sound /\ WorkerStep) /\ SF_vars(Sound /\ WorkerLock)

FairSpec == Spec /\ Fairness

----------------------------------------------------------------------------
(* Properties *)

TypeOK ==
    /\ life \in [Thread -> {"unborn", "alive", "marked", "exited"}]
    /\ lock \in BOOLEAN /\ stop \in BOOLEAN /\ fault \in BOOLEAN
    /\ idx \in [Slot -> Thread \cup {None}]
    /\ rec \in [Slot -> Rec \cup {None}]
    /\ state \in [Rec -> {"unknown", "main", "alive", "exit"}]
    /\ chain \in [Rec -> Seq(Block)]
    /\ num \in [Rec -> Nat]
    /\ owner \in [Block -> Thread \cup {None}]
    /\ pc \in [Thread -> {"idle", "lock", "scan", "claim", "publish", "use", "link", "count"}]
    /\ op \in [Thread -> Op \cup {None}]
    /\ at \in [Thread -> Slot]
    /\ blk \in [Thread -> Block \cup {None}]
    /\ loc \in [Thread -> Rec \cup {None}]
    /\ tail \in [Thread -> Seq(Block)]
    /\ wpc \in {"off", "sleep", "lock", "scan", "free", "gone"}
    /\ wat \in Slot /\ wk \in Nat

\* The process never dies in the pool: no NULL record, no list shorter than
\* its count, no block freed twice.  Two kinds of client are excepted: one whose
\* malloc calls overlap, and one that frees a block which the worker or
\* tlibc_clean_thread_mem will free again.
NoFault == client.serial /\ ~(client.frees /\ (client.reclaims \/ client.cleans)) => ~fault

\* Every loop over the table stops at the first zero slot, so the occupied
\* slots must be a prefix; and no thread has two records.
RegistryCompact ==
    client.serial =>
        /\ \A i, j \in Slot : i < j /\ idx[j] # None => idx[i] # None
        /\ \A i, j \in Slot : i # j /\ idx[i] # None => idx[i] # idx[j]
        /\ \A i \in Slot : rec[i] = None =>
               idx[i] = None \/ (\E t \in Thread : pc[t] = "publish" /\ at[t] = i)

\* A block a client holds is on the list of the thread that allocated it,
\* counted, and on no other: otherwise it is never given back, or given back
\* when another thread exits.
RecordsOf(a) == {r \in Rec : \E k \in 1 .. num[r] : k <= Len(chain[r]) /\ chain[r][k] = a}
AllRecorded ==
    \A a \in Block :
        owner[a] # None /\ (\A t \in Thread : blk[t] # a) =>
            /\ \E i \in Slot : idx[i] = owner[a]
            /\ \A i \in Slot :
                 rec[i] \in Rec => (rec[i] \in RecordsOf(a) <=> idx[i] = owner[a])

\* ... which the code ensures for a client whose malloc calls overlap nothing
\* and that leaves freeing to the pool.
BlockRecorded == client.serial /\ ~client.frees => AllRecorded

\* The worker gives back only what a thread left behind that is exiting.
\* Excepted are malloc calls that overlap, and book a block on another thread; a
\* re-used tid, which inherits the record of the dead thread; blocks freed by
\* hand, whose addresses the next malloc may get; and a main thread that
\* registers a stack, is no longer known as the main thread, and is marked.
ReclaimOnlyExited ==
    [][\A a \in Block :
         wpc = "free" /\ owner[a] # None /\ owner'[a] = None
         /\ client.serial /\ ~client.reuses /\ ~client.frees /\ ~client.errs
            => life[owner[a]] \in {"marked", "exited"}]_vars

\* The worker gives back everything a thread marked EXIT has left, unless an
\* erroneous call has left the lock held for ever.
MarkedReclaimed ==
    \A t \in Thread :
        life[t] = "marked" /\ wpc # "off" /\ ~client.errs
            ~> (stop \/ \A a \in Block : owner[a] # t)
=============================================================================
