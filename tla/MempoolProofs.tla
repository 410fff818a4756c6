--------------------------- MODULE MempoolProofs ---------------------------
(***************************************************************************)
(* For any number of threads, slots, records and blocks, and for every     *)
(* client whose malloc calls overlap no other call of the pool: the        *)
(* registry stays a gapless table with one record per thread, each block a *)
(* client holds is on the list of the thread that allocated it, the worker *)
(* gives back only what an exiting thread leaves behind, and the pool      *)
(* faults only when a malloc finds the table full.                         *)
(*                                                                         *)
(* The invariant has three layers.  Table, Control and Places say what the *)
(* registry holds and what a call knows of the slot it stands on; Books    *)
(* what the lists say of the blocks; Marks whose record is marked EXIT.    *)
(* Each is preserved for its own kind of client, on the ground of the ones *)
(* before it.                                                              *)
(***************************************************************************)
EXTENDS Mempool, FiniteSetTheorems, TLAPS

----------------------------------------------------------------------------
(* Types, and what a call's locals are when it needs them                  *)

\* A thread that has got past the lock, or needs none.
Inside(t) == pc[t] \notin {"idle", "lock"}
\* The worker holds the table.
Working == wpc \in {"scan", "free"}
\* malloc has its block, only malloc appends to a list, the erroneous calls are
\* made by a client that errs, and the worker runs where it was asked for.
Locals ==
    /\ client \in Client /\ (wpc # "off" => client.reclaims)
    /\ \A t \in Thread :
         /\ op[t] = "malloc" => blk[t] \in Block
         /\ pc[t] \in {"link", "count"} => op[t] = "malloc"
         /\ op[t] \in {"registerZero", "markMain"} => client.errs
\* The typing invariant.
TypeInv == TypeOK /\ Locals

\* Malloc maps its block: the types are kept.
LEMMA MallocBeginTypes ==
  ASSUME TypeInv, Sound, NEW t \in Thread, NEW a \in Block, MallocBegin(t, a)
  PROVE  TypeInv'
<1>1. TypeOK'
  BY SizeAssumption, NoneAssumption, MainAssumption
  DEF TypeInv, TypeOK, listVars, workerVars, Slot, Op, MallocBegin
<1>2. Locals'
  BY NoneAssumption DEF TypeInv, TypeOK, Locals, Sound, workerVars, MallocBegin
<1>. QED
  BY <1>1, <1>2 DEF TypeInv

\* A registry call is made: the types are kept.
LEMMA CallBeginTypes ==
  ASSUME TypeInv, Sound, NEW t \in Thread, NEW call \in Op \ {"malloc"}, CallBegin(t, call)
  PROVE  TypeInv'
<1>1. TypeOK'
  BY SizeAssumption, NoneAssumption, MainAssumption
  DEF TypeInv, TypeOK, listVars, workerVars, Slot, CallBegin
<1>2. Locals'
  BY NoneAssumption DEF TypeInv, Locals, Sound, workerVars, CallBegin
<1>. QED
  BY <1>1, <1>2 DEF TypeInv

\* A registry call gets the lock: the types are kept.
LEMMA LockTypes ==
  ASSUME TypeInv, Sound, NEW t \in Thread, Lock(t)
  PROVE  TypeInv'
<1>1. TypeOK'
  BY SizeAssumption, NoneAssumption, MainAssumption
  DEF TypeInv, TypeOK, listVars, workerVars, Lock
<1>2. Locals'
  BY NoneAssumption DEF TypeInv, Locals, Sound, workerVars, Lock
<1>. QED
  BY <1>1, <1>2 DEF TypeInv

\* The record is stored: the types are kept.
LEMMA PublishTypes ==
  ASSUME TypeInv, Sound, NEW t \in Thread, Publish(t)
  PROVE  TypeInv'
<1>1. TypeOK'
  BY SizeAssumption, NoneAssumption, MainAssumption
  DEF TypeInv, TypeOK, listVars, workerVars, Publish
<1>2. Locals'
  BY NoneAssumption DEF TypeInv, Locals, Sound, workerVars, Publish
<1>. QED
  BY <1>1, <1>2 DEF TypeInv

\* A thread is created: the types are kept.
LEMMA BirthTypes ==
  ASSUME TypeInv, Sound, NEW t \in Thread, Birth(t)
  PROVE  TypeInv'
<1>1. TypeOK'
  BY SizeAssumption, NoneAssumption, MainAssumption
  DEF TypeInv, TypeOK, listVars, threadVars, workerVars, Birth
<1>2. Locals'
  BY NoneAssumption DEF TypeInv, Locals, Sound, threadVars, workerVars, Birth
<1>. QED
  BY <1>1, <1>2 DEF TypeInv

\* A thread exits: the types are kept.
LEMMA ThreadExitTypes ==
  ASSUME TypeInv, Sound, NEW t \in Thread, ThreadExit(t)
  PROVE  TypeInv'
<1>1. TypeOK'
  BY SizeAssumption, NoneAssumption, MainAssumption
  DEF TypeInv, TypeOK, listVars, threadVars, workerVars, ThreadExit
<1>2. Locals'
  BY NoneAssumption DEF TypeInv, Locals, Sound, threadVars, workerVars, ThreadExit
<1>. QED
  BY <1>1, <1>2 DEF TypeInv

\* A block is freed by hand: the types are kept.
LEMMA FreeTypes ==
  ASSUME TypeInv, Sound, NEW t \in Thread, NEW a \in Block, Free(t, a)
  PROVE  TypeInv'
<1>1. TypeOK'
  BY SizeAssumption, NoneAssumption, MainAssumption
  DEF TypeInv, TypeOK, listVars, threadVars, workerVars, Free
<1>2. Locals'
  BY NoneAssumption DEF TypeInv, Locals, Sound, threadVars, workerVars, Free
<1>. QED
  BY <1>1, <1>2 DEF TypeInv

\* tlibc_clean_thread_mem: the types are kept.
LEMMA CleanThreadMemTypes ==
  ASSUME TypeInv, Sound, NEW t \in Thread, NEW q \in Thread, CleanThreadMem(t, q)
  PROVE  TypeInv'
<1>1. TypeOK'
  BY SizeAssumption, NoneAssumption, MainAssumption
  DEF TypeInv, TypeOK, Locals, Sound, listVars, threadVars, workerVars, Slot,
      CleanThreadMem, ShiftDown
<1>2. Locals'
  BY NoneAssumption
  DEF TypeInv, Locals, Sound, threadVars, workerVars, CleanThreadMem, ShiftDown
<1>. QED
  BY <1>1, <1>2 DEF TypeInv

\* The worker is started: the types are kept.
LEMMA EnableTypes ==
  ASSUME TypeInv, Sound, Enable
  PROVE  TypeInv'
<1>1. TypeOK'
  BY SizeAssumption, NoneAssumption, MainAssumption
  DEF TypeInv, TypeOK, listVars, threadVars, Enable
<1>2. Locals'
  BY NoneAssumption DEF TypeInv, Locals, Sound, threadVars, Enable
<1>. QED
  BY <1>1, <1>2 DEF TypeInv

\* The worker is told to stop: the types are kept.
LEMMA StopWorkerTypes ==
  ASSUME TypeInv, Sound, StopWorker
  PROVE  TypeInv'
<1>1. TypeOK'
  BY SizeAssumption, NoneAssumption, MainAssumption
  DEF TypeInv, TypeOK, listVars, threadVars, workerVars, StopWorker
<1>2. Locals'
  BY NoneAssumption DEF TypeInv, Locals, Sound, threadVars, StopWorker
<1>. QED
  BY <1>1, <1>2 DEF TypeInv

\* The worker wakes or ends: the types are kept.
LEMMA WorkerTurnTypes ==
  ASSUME TypeInv, Sound, WorkerTurn
  PROVE  TypeInv'
<1>1. TypeOK'
  BY SizeAssumption, NoneAssumption, MainAssumption
  DEF TypeInv, TypeOK, listVars, threadVars, WorkerTurn
<1>2. Locals'
  BY NoneAssumption DEF TypeInv, Locals, Sound, threadVars, WorkerTurn
<1>. QED
  BY <1>1, <1>2 DEF TypeInv

\* The worker gets the lock: the types are kept.
LEMMA WorkerLockTypes ==
  ASSUME TypeInv, Sound, WorkerLock
  PROVE  TypeInv'
<1>1. TypeOK'
  BY SizeAssumption, NoneAssumption, MainAssumption
  DEF TypeInv, TypeOK, listVars, threadVars, Slot, WorkerLock
<1>2. Locals'
  BY NoneAssumption DEF TypeInv, Locals, Sound, threadVars, WorkerLock
<1>. QED
  BY <1>1, <1>2 DEF TypeInv

\* The worker closes the gap: the types are kept.
LEMMA WorkerShiftTypes ==
  ASSUME TypeInv, Sound, WorkerShift
  PROVE  TypeInv'
<1>1. TypeOK'
  BY SizeAssumption, NoneAssumption, MainAssumption
  DEF TypeInv, TypeOK, listVars, threadVars, Slot, WorkerShift, ShiftDown
<1>2. Locals'
  BY NoneAssumption DEF TypeInv, Locals, Sound, threadVars, WorkerShift, ShiftDown
<1>. QED
  BY <1>1, <1>2 DEF TypeInv

\* The four outcomes of one turn of the loop over the table.
ScanFull(t) ==
    /\ at[t] = MaxThread
    /\ pc' = [pc EXCEPT ![t] = "idle"] /\ at' = at
    /\ fault' = (op[t] = "malloc") /\ lock' = IF op[t] = "malloc" THEN lock ELSE FALSE
ScanEmpty(t) ==
    /\ at[t] # MaxThread /\ idx[at[t]] = None
    /\ pc' = [pc EXCEPT ![t] = "claim"] /\ UNCHANGED <<at, fault, lock>>
ScanHit(t) ==
    /\ at[t] # MaxThread /\ idx[at[t]] # None /\ idx[at[t]] = Key(t)
    /\ pc' = [pc EXCEPT ![t] = "use"] /\ UNCHANGED <<at, fault, lock>>
ScanMiss(t) ==
    /\ at[t] # MaxThread /\ idx[at[t]] \notin {None, Key(t)}
    /\ at' = [at EXCEPT ![t] = @ + 1] /\ UNCHANGED <<pc, fault, lock>>
ScanFrame(t) ==
    /\ pc[t] = "scan"
    /\ UNCHANGED <<life, idx, rec, state, chain, num, owner, op, blk, loc, tail, wpc, wat, wk, stop>>

\* The loop's turn has one of the four outcomes.
LEMMA ScanCases ==
  ASSUME TypeOK, NEW t \in Thread, Scan(t)
  PROVE  ScanFrame(t) /\ (ScanFull(t) \/ ScanEmpty(t) \/ ScanHit(t) \/ ScanMiss(t))
<1>. /\ pc \in [Thread -> {"idle", "lock", "scan", "claim", "publish", "use", "link", "count"}]
     /\ at \in [Thread -> Slot]
  BY DEF TypeOK
<1>1. ScanFrame(t)
  BY DEF Scan, ScanFrame, listVars, workerVars
<1>2. CASE at[t] = MaxThread
  BY <1>1, <1>2 DEF Scan, ScanFull
<1>3. CASE at[t] # MaxThread /\ idx[at[t]] = None
  <2>1. /\ pc' = [pc EXCEPT ![t] = "claim"]
        /\ at' = [at EXCEPT ![t] = IF pc'[t] = "scan" THEN @ + 1 ELSE @]
        /\ UNCHANGED <<fault, lock>>
    BY <1>3 DEF Scan
  <2>2. at' = at
    BY <2>1
  <2>. QED
    BY <1>1, <1>3, <2>1, <2>2 DEF ScanEmpty
<1>4. CASE at[t] # MaxThread /\ idx[at[t]] # None /\ idx[at[t]] = Key(t)
  <2>1. /\ pc' = [pc EXCEPT ![t] = "use"]
        /\ at' = [at EXCEPT ![t] = IF pc'[t] = "scan" THEN @ + 1 ELSE @]
        /\ UNCHANGED <<fault, lock>>
    BY <1>4 DEF Scan
  <2>2. at' = at
    BY <2>1
  <2>. QED
    BY <1>1, <1>4, <2>1, <2>2 DEF ScanHit
<1>5. CASE at[t] # MaxThread /\ idx[at[t]] \notin {None, Key(t)}
  <2>1. /\ pc' = [pc EXCEPT ![t] = "scan"]
        /\ at' = [at EXCEPT ![t] = IF pc'[t] = "scan" THEN @ + 1 ELSE @]
        /\ UNCHANGED <<fault, lock>>
    BY <1>5 DEF Scan
  <2>2. pc' = pc
    BY <1>1, <2>1 DEF ScanFrame
  <2>3. at' = [at EXCEPT ![t] = @ + 1]
    BY <1>1, <2>1, <2>2 DEF ScanFrame
  <2>. QED
    BY <1>1, <1>5, <2>1, <2>2, <2>3 DEF ScanMiss
<1>. QED
  BY <1>1, <1>2, <1>3, <1>4, <1>5

\* One turn of the loop over the table: the types are kept.
LEMMA ScanTypes ==
  ASSUME TypeInv, Sound, NEW t \in Thread, Scan(t)
  PROVE  TypeInv'
<1>1. ScanFrame(t) /\ (ScanFull(t) \/ ScanEmpty(t) \/ ScanHit(t) \/ ScanMiss(t))
  BY ScanCases DEF TypeInv
<1>2. TypeOK'
  <2>1. CASE ScanFull(t)
    BY <1>1, <2>1 DEF TypeInv, TypeOK, ScanFrame, ScanFull
  <2>2. CASE ScanEmpty(t)
    BY <1>1, <2>2 DEF TypeInv, TypeOK, ScanFrame, ScanEmpty
  <2>3. CASE ScanHit(t)
    BY <1>1, <2>3 DEF TypeInv, TypeOK, ScanFrame, ScanHit
  <2>4. CASE ScanMiss(t)
    BY <1>1, <2>4, SizeAssumption DEF TypeInv, TypeOK, ScanFrame, ScanMiss, Slot
  <2>. QED
    BY <1>1, <2>1, <2>2, <2>3, <2>4
<1>3. Locals'
  BY ZenonT(60), <1>1
  DEF TypeInv, TypeOK, Locals, Sound, ScanFrame, ScanFull, ScanEmpty, ScanHit, ScanMiss
<1>. QED
  BY <1>2, <1>3 DEF TypeInv

\* A tid is stored: the types are kept.
LEMMA ClaimTypes ==
  ASSUME TypeInv, Sound, NEW t \in Thread, NEW r \in Rec, Claim(t, r)
  PROVE  TypeInv'
<1>1. idx' \in [Slot -> Thread \cup {None}] /\ at' = at
  BY MainAssumption DEF TypeInv, TypeOK, Claim, Key
<1>2. chain' \in [Rec -> Seq(Block)]
  BY <1>1 DEF TypeInv, TypeOK, Claim
<1>3. TypeOK'
  BY <1>1, <1>2 DEF TypeInv, TypeOK, Claim, workerVars
<1>4. Locals'
  BY DEF TypeInv, TypeOK, Locals, Sound, Claim, workerVars
<1>. QED
  BY <1>3, <1>4 DEF TypeInv

\* Malloc walks its list: the types are kept.
LEMMA FindTailTypes ==
  ASSUME TypeInv, Sound, NEW t \in Thread, FindTail(t)
  PROVE  TypeInv'
<1>1. CASE rec[at[t]] = None
  BY <1>1 DEF TypeInv, TypeOK, Locals, Sound, FindTail, listVars, workerVars
<1>2. CASE rec[at[t]] # None
  <2>1. chain[rec[at[t]]] \in Seq(Block) /\ rec[at[t]] \in Rec
    BY <1>2 DEF TypeInv, TypeOK
  <2>2. TypeOK'
    BY <1>2, <2>1 DEF TypeInv, TypeOK, FindTail, listVars, workerVars
  <2>3. Locals'
    BY <1>2 DEF TypeInv, TypeOK, Locals, Sound, FindTail, workerVars
  <2>. QED
    BY <2>2, <2>3 DEF TypeInv
<1>. QED
  BY <1>1, <1>2 DEF TypeInv

\* The chunk is appended: the types are kept.
LEMMA LinkTypes ==
  ASSUME TypeInv, Sound, NEW t \in Thread, Link(t)
  PROVE  TypeInv'
<1>1. blk[t] \in Block /\ tail[t] \in Seq(Block)
  BY DEF TypeInv, TypeOK, Locals, Link
<1>2. Append(tail[t], blk[t]) \in Seq(Block)
  BY <1>1
<1>3. chain' \in [Rec -> Seq(Block)]
  BY <1>2 DEF TypeInv, TypeOK, Link
<1>4. TypeOK'
  BY <1>3 DEF TypeInv, TypeOK, Link, workerVars
<1>5. Locals'
  BY DEF TypeInv, TypeOK, Locals, Sound, Link, workerVars
<1>. QED
  BY <1>4, <1>5 DEF TypeInv

\* The chunk is counted: the types are kept.
LEMMA CountTypes ==
  ASSUME TypeInv, Sound, NEW t \in Thread, Count(t)
  PROVE  TypeInv'
<1>1. tail' \in [Thread -> Seq(Block)]
  BY DEF TypeInv, TypeOK, Count
<1>2. num' \in [Rec -> Nat]
  <2>1. num' = [q \in Rec |-> IF q = loc[t] THEN num[q] + 1 ELSE num[q]]
    BY DEF TypeInv, TypeOK, Count
  <2>. QED
    BY <2>1 DEF TypeInv, TypeOK
<1>3. at' \in [Thread -> Slot]
  BY SizeAssumption DEF TypeInv, TypeOK, Count, Slot
<1>4. TypeOK'
  BY <1>1, <1>2, <1>3 DEF TypeInv, TypeOK, Count, workerVars
<1>5. Locals'
  BY NoneAssumption DEF TypeInv, TypeOK, Locals, Sound, Count, Op, workerVars
<1>. QED
  BY <1>4, <1>5 DEF TypeInv

\* Registering sets ALIVE: the types are kept.
LEMMA UseRegisterTypes ==
  ASSUME TypeInv, Sound, NEW t \in Thread, UseRegister(t)
  PROVE  TypeInv'
<1>1. state' \in [Rec -> {"unknown", "main", "alive", "exit"}] /\ lock' \in BOOLEAN
  BY DEF TypeInv, TypeOK, UseRegister
<1>2. at' \in [Thread -> Slot]
  BY SizeAssumption DEF TypeInv, TypeOK, UseRegister, Return, Slot
<1>3. TypeOK'
  BY <1>1, <1>2 DEF TypeInv, TypeOK, UseRegister, Return, workerVars
<1>4. Locals'
  BY NoneAssumption DEF TypeInv, Locals, Sound, UseRegister, Return, Op, workerVars
<1>. QED
  BY <1>3, <1>4 DEF TypeInv

\* mark_exit sets EXIT: the types are kept.
LEMMA UseMarkTypes ==
  ASSUME TypeInv, Sound, NEW t \in Thread, UseMark(t)
  PROVE  TypeInv'
<1>1. state' \in [Rec -> {"unknown", "main", "alive", "exit"}] /\ lock' \in BOOLEAN
  BY DEF TypeInv, TypeOK, UseMark
<1>2. at' \in [Thread -> Slot]
  BY SizeAssumption DEF TypeInv, TypeOK, UseMark, Return, Slot
<1>3. life' \in [Thread -> {"unborn", "alive", "marked", "exited"}]
  BY DEF TypeInv, TypeOK, UseMark
<1>4. TypeOK'
  BY <1>1, <1>2, <1>3 DEF TypeInv, TypeOK, UseMark, Return, workerVars
<1>5. Locals'
  BY NoneAssumption DEF TypeInv, Locals, Sound, UseMark, Return, Op, workerVars
<1>. QED
  BY <1>4, <1>5 DEF TypeInv

\* One turn of the worker's loop: the types are kept.
LEMMA WorkerScanTypes ==
  ASSUME TypeInv, Sound, WorkerScan
  PROVE  TypeInv'
<1>1. wpc' \in {"off", "sleep", "lock", "scan", "free", "gone"} /\ wat' \in Slot /\ wk' \in Nat
  BY SizeAssumption DEF TypeInv, TypeOK, WorkerScan, workerVars, Slot
<1>2. lock' \in BOOLEAN /\ fault' \in BOOLEAN
  BY DEF TypeInv, TypeOK, WorkerScan
<1>3. TypeOK'
  BY <1>1, <1>2 DEF TypeInv, TypeOK, WorkerScan, listVars, threadVars
<1>4. Locals'
  BY DEF TypeInv, Locals, Sound, WorkerScan, threadVars, workerVars
<1>. QED
  BY <1>3, <1>4 DEF TypeInv

\* The worker gives a block back: the types are kept.
LEMMA WorkerFreeTypes ==
  ASSUME TypeInv, Sound, WorkerFree
  PROVE  TypeInv'
<1>1. wk' \in Nat
  <2>1. wk' = wk \/ wk' = wk + 1
    BY Zenon DEF WorkerFree
  <2>. QED
    BY <2>1 DEF TypeInv, TypeOK
<1>5. fault' \in BOOLEAN
  BY Zenon DEF TypeInv, TypeOK, WorkerFree
<1>2. owner' \in [Block -> Thread \cup {None}]
  BY DEF TypeInv, TypeOK, WorkerFree
<1>3. TypeOK'
  BY <1>1, <1>2, <1>5 DEF TypeInv, TypeOK, WorkerFree, listVars, threadVars
<1>4. Locals'
  BY DEF TypeInv, Locals, Sound, WorkerFree, threadVars, workerVars
<1>. QED
  BY <1>3, <1>4 DEF TypeInv

----------------------------------------------------------------------------
(* The registry                                                            *)

\* One thread at most is inside the pool, and no thread while the worker holds
\* the table; a malloc is alone; what runs under the lock holds it.
Control ==
    /\ \A t \in Thread : Inside(t) => ~Working /\ \A u \in Thread : Inside(u) => u = t
    /\ \A t \in Thread : Inside(t) => lock \/ op[t] = "malloc"
    /\ Working => lock
    /\ \A t \in Thread : op[t] = "malloc" =>
           Inside(t) /\ wpc = "off" /\ \A u \in Thread : u # t => pc[u] = "idle"
    /\ \A t \in Thread : pc[t] # "idle" => op[t] \in Op

\* A slot whose record is still to be stored.
Publishing(i) == \E t \in Thread : pc[t] = "publish" /\ at[t] = i

\* The occupied slots are a prefix, tids and records occur once, and a slot
\* has both or none.
Table ==
    /\ idx[MaxThread] = None
    /\ \A i, j \in Slot : i < j /\ idx[j] # None => idx[i] # None
    /\ \A i, j \in Slot : idx[i] # None /\ idx[i] = idx[j] => i = j
    /\ \A i, j \in Slot : rec[i] # None /\ rec[i] = rec[j] => i = j
    /\ \A i \in Slot : idx[i] = None => rec[i] = None
    /\ \A i \in Slot : idx[i] # None /\ rec[i] = None => Publishing(i)

\* The slots in front of n are others' than the key's.
Before(n, key) == \A j \in Slot : j < n => idx[j] \notin {None, key}

\* What a call has found out about the slot it stands on.
Place(t) ==
    /\ pc[t] = "lock" => at[t] = 0
    /\ pc[t] \in {"scan", "claim"} => Before(at[t], Key(t))
    /\ pc[t] = "claim" => at[t] < MaxThread /\ idx[at[t]] = None
    /\ pc[t] = "publish" =>
         /\ at[t] < MaxThread /\ idx[at[t]] = Key(t) /\ rec[at[t]] = None
         /\ loc[t] \in Rec /\ (\A i \in Slot : rec[i] # loc[t])
         /\ state[loc[t]] = "unknown" /\ chain[loc[t]] = << >> /\ num[loc[t]] = 0
    /\ pc[t] \in {"use", "link", "count"} =>
         at[t] < MaxThread /\ idx[at[t]] = Key(t) /\ rec[at[t]] # None
    /\ pc[t] \in {"link", "count"} => loc[t] = rec[at[t]]
    /\ pc[t] = "link" => tail[t] = chain[loc[t]]
\* The slot whose blocks the worker is giving back.
WorkerPlace ==
    wpc = "free" =>
       /\ wat < MaxThread /\ idx[wat] # None /\ rec[wat] # None
       /\ state[rec[wat]] = "exit" /\ wk >= 1
\* What the calls and the worker know.
Places == (\A t \in Thread : Place(t)) /\ WorkerPlace

\* Where the element of slot j comes from when the slots behind i move down.
Source(i, j) == IF j < i \/ j = MaxThread THEN j ELSE j + 1

\* Closing the gap at i keeps the order of the other slots and loses none of
\* them.
LEMMA SourceFacts ==
  ASSUME NEW i \in Slot, i < MaxThread
  PROVE  /\ \A j \in Slot : Source(i, j) \in Slot /\ j <= Source(i, j) /\ Source(i, j) # i
         /\ \A j, k \in Slot : j < k => Source(i, j) < Source(i, k) \/ Source(i, j) = MaxThread
         /\ \A s \in Slot : s # i => \E j \in Slot : s = Source(i, j) /\ j <= s
         /\ \A j \in Slot : j < i => Source(i, j) = j
         /\ Source(i, MaxThread) = MaxThread
<1>1. \A s \in Slot : s # i => \E j \in Slot : s = Source(i, j) /\ j <= s
  <2>1. SUFFICES ASSUME NEW s \in Slot, s # i
                 PROVE  \E j \in Slot : s = Source(i, j) /\ j <= s
    OBVIOUS
  <2>2. CASE s < i
    <3>. WITNESS s \in Slot
    <3>. QED
      BY <2>2, SizeAssumption DEF Slot, Source
  <2>3. CASE s > i
    <3>. DEFINE j == s - 1
    <3>1. j \in Slot /\ ~(j < i) /\ j # MaxThread /\ s = j + 1
      BY <2>3, SizeAssumption DEF Slot
    <3>. QED
      BY <3>1, SizeAssumption DEF Slot, Source
  <2>. QED
    BY <2>1, <2>2, <2>3, SizeAssumption DEF Slot
<1>. QED
  BY <1>1, SizeAssumption DEF Slot, Source

\* ShiftDown, in terms of where each element comes from.
LEMMA ShiftDownIs ==
  ASSUME NEW i \in Slot, NEW f
  PROVE  ShiftDown(f, i) = [j \in Slot |-> f[Source(i, j)]]
  BY SizeAssumption DEF ShiftDown, Source, Slot

\* Closing the gap keeps the table a table.
LEMMA TableRemoval ==
  ASSUME TypeOK, Table, NEW i \in Slot, idx[i] # None, \A j \in Slot : ~Publishing(j),
         idx' = ShiftDown(idx, i), rec' = ShiftDown(rec, i)
  PROVE  Table'
<1>. /\ idx \in [Slot -> Thread \cup {None}] /\ rec \in [Slot -> Rec \cup {None}]
     /\ MaxThread \in Slot
  BY SizeAssumption DEF TypeOK, Slot
<1>1. i < MaxThread
  BY SizeAssumption DEF Table, Slot
<1>2. /\ idx' = [j \in Slot |-> idx[Source(i, j)]]
      /\ rec' = [j \in Slot |-> rec[Source(i, j)]]
  BY ShiftDownIs
<1>3. idx'[MaxThread] = None
  BY <1>1, <1>2, SourceFacts DEF Table
<1>4. ASSUME NEW j \in Slot, NEW k \in Slot, j < k, idx'[k] # None
      PROVE  idx'[j] # None
  <2>1. /\ Source(i, j) \in Slot /\ Source(i, k) \in Slot
        /\ Source(i, j) < Source(i, k) \/ Source(i, j) = MaxThread
        /\ Source(i, k) # MaxThread
    BY <1>1, <1>2, <1>4, SourceFacts DEF Table
  <2>2. Source(i, j) < Source(i, k)
    BY <1>1, <1>4, <2>1, SizeAssumption DEF Slot, Source
  <2>. QED
    BY <1>2, <1>4, <2>1, <2>2 DEF Table
<1>5. ASSUME NEW j \in Slot, NEW k \in Slot, j < k, idx'[j] # None
      PROVE  idx'[j] # idx'[k]
  <2>1. /\ Source(i, j) \in Slot /\ Source(i, k) \in Slot
        /\ Source(i, j) < Source(i, k) \/ Source(i, j) = MaxThread
    BY <1>1, <1>5, SourceFacts
  <2>2. idx'[j] = idx[Source(i, j)] /\ idx'[k] = idx[Source(i, k)]
    BY <1>2
  <2>. QED
    BY <1>5, <2>1, <2>2 DEF Table, Slot
<1>6. ASSUME NEW j \in Slot, NEW k \in Slot, j < k, rec'[j] # None
      PROVE  rec'[j] # rec'[k]
  <2>1. /\ Source(i, j) \in Slot /\ Source(i, k) \in Slot
        /\ Source(i, j) < Source(i, k) \/ Source(i, j) = MaxThread
    BY <1>1, <1>6, SourceFacts
  <2>2. rec'[j] = rec[Source(i, j)] /\ rec'[k] = rec[Source(i, k)]
    BY <1>2
  <2>3. rec[MaxThread] = None
    BY DEF Table
  <2>. QED
    BY <1>6, <2>1, <2>2, <2>3 DEF Table, Slot
<1>7. \A j \in Slot : idx'[j] = None <=> rec'[j] = None
  BY <1>1, <1>2, SourceFacts DEF Table
<1>8. \A j, k \in Slot : j = k \/ j < k \/ k < j
  BY SizeAssumption DEF Slot
<1>9. \A j, k \in Slot : idx'[j] # None /\ idx'[j] = idx'[k] => j = k
  BY <1>5, <1>8
<1>10. \A j, k \in Slot : rec'[j] # None /\ rec'[j] = rec'[k] => j = k
  BY <1>6, <1>8
<1>. QED
  BY <1>3, <1>4, <1>7, <1>9, <1>10 DEF Table

\* One turn of the loop over the table: the table stays a table, and the calls
\* know their slots.
LEMMA ScanRegistry ==
  ASSUME TypeInv, TypeInv', Table, Control, Places, Sound, client.serial,
         NEW t \in Thread, Scan(t)
  PROVE  Table' /\ (~fault' => Control' /\ Places')
<1>0. ScanFrame(t) /\ (ScanFull(t) \/ ScanEmpty(t) \/ ScanHit(t) \/ ScanMiss(t))
  BY ScanCases DEF TypeInv
<1>. /\ pc \in [Thread -> {"idle", "lock", "scan", "claim", "publish", "use", "link", "count"}]
     /\ at \in [Thread -> Slot]
  BY DEF TypeInv, TypeOK
<1>5. ASSUME NEW u \in Thread, u # t PROVE pc'[u] = pc[u] /\ at'[u] = at[u]
  <2>1. CASE ScanFull(t)
    BY <1>5, <2>1 DEF ScanFull
  <2>2. CASE ScanEmpty(t)
    BY <1>5, <2>2 DEF ScanEmpty
  <2>3. CASE ScanHit(t)
    BY <1>5, <2>3 DEF ScanHit
  <2>4. CASE ScanMiss(t)
    BY <1>5, <2>4 DEF ScanMiss
  <2>. QED
    BY <1>0, <2>1, <2>2, <2>3, <2>4
<1>1. Table'
  <2>1. ASSUME NEW i \in Slot, NEW u \in Thread, pc[u] = "publish" /\ at[u] = i
        PROVE  pc'[u] = "publish" /\ at'[u] = i
    BY <1>0, <1>5, <2>1 DEF ScanFrame
  <2>. QED
    BY <1>0, <2>1 DEF Table, ScanFrame, Publishing
<1>2. ASSUME ~fault' PROVE Control'
  <2>1. CASE ScanFull(t)
    <3>1. op[t] # "malloc" /\ lock' = FALSE /\ pc' = [pc EXCEPT ![t] = "idle"]
      BY <1>2, <2>1 DEF ScanFull
    <3>. QED
      BY <1>0, <3>1 DEF Control, Inside, Working, ScanFrame
  <2>2. CASE ScanEmpty(t)
    BY <1>0, <2>2 DEF Control, Inside, Working, ScanFrame, ScanEmpty
  <2>3. CASE ScanHit(t)
    BY <1>0, <2>3 DEF Control, Inside, Working, ScanFrame, ScanHit
  <2>4. CASE ScanMiss(t)
    BY <1>0, <2>4 DEF Control, Inside, Working, ScanFrame, ScanMiss
  <2>. QED
    BY <1>0, <2>1, <2>2, <2>3, <2>4
<1>3. ASSUME ~fault', NEW u \in Thread PROVE Place(u)'
  <2>1. u # t => ~Inside(u) /\ pc'[u] = pc[u] /\ at'[u] = at[u]
    BY <1>0, <1>5 DEF Control, Inside, ScanFrame
  <2>2. CASE u # t
    BY <2>1, <2>2 DEF Inside, Place, Places
  <2>3. ASSUME u = t PROVE Place(t)'
    <3>1. Place(t) /\ Before(at[t], Key(t)) /\ Key(t)' = Key(t) /\ at[t] \in Slot
      BY <1>0 DEF Places, Place, ScanFrame, Key, TypeInv, TypeOK
    <3>2. at[t] # MaxThread => at[t] < MaxThread
      BY <3>1, SizeAssumption DEF Slot
    <3>3. CASE ScanFull(t)
      BY <3>3 DEF ScanFull, Place
    <3>4. CASE ScanEmpty(t)
      BY <1>0, <3>1, <3>2, <3>4 DEF ScanFrame, ScanEmpty, Place, Before
    <3>5. CASE ScanHit(t)
      <4>1. rec[at[t]] # None
        BY <1>0, <3>1, <3>5 DEF Table, Publishing, Control, Inside, ScanFrame, ScanHit
      <4>. QED
        BY <1>0, <3>1, <3>2, <3>5, <4>1 DEF ScanFrame, ScanHit, Place
    <3>6. CASE ScanMiss(t)
      <4>1. pc'[t] = "scan" /\ at'[t] = at[t] + 1 /\ idx' = idx
        BY <1>0, <3>6 DEF ScanFrame, ScanMiss, TypeInv, TypeOK
      <4>2. Before(at[t] + 1, Key(t))
        BY <3>1, <3>6, SizeAssumption DEF ScanMiss, Before, Slot
      <4>. QED
        BY <3>1, <4>1, <4>2 DEF Place, Before
    <3>. QED
      BY <1>0, <3>3, <3>4, <3>5, <3>6
  <2>. QED
    BY <2>2, <2>3
<1>4. ASSUME ~fault' PROVE WorkerPlace'
  BY <1>0 DEF Control, Inside, Working, ScanFrame, WorkerPlace
<1>. QED
  BY <1>1, <1>2, <1>3, <1>4 DEF Places

\* A tid is stored: the table stays a table, and the calls know their slots.
LEMMA ClaimRegistry ==
  ASSUME TypeInv, TypeInv', Table, Control, Places, Sound, client.serial,
         NEW t \in Thread, NEW r \in Rec, Claim(t, r)
  PROVE  Table' /\ (~fault' => Control' /\ Places')
<1>. DEFINE n == at[t]
<1>1. /\ n \in Slot /\ n < MaxThread /\ idx[n] = None /\ rec[n] = None
      /\ Before(n, Key(t)) /\ Key(t) \in Thread /\ Key(t) # None
  BY MainAssumption, NoneAssumption
     DEF TypeInv, TypeOK, Claim, Places, Place, Table, Key
<1>2. /\ idx' = [idx EXCEPT ![n] = Key(t)] /\ rec' = rec /\ at' = at /\ op' = op
      /\ pc' = [pc EXCEPT ![t] = "publish"] /\ loc' = [loc EXCEPT ![t] = r]
      /\ pc \in [Thread -> {"idle", "lock", "scan", "claim", "publish", "use", "link", "count"}]
      /\ idx \in [Slot -> Thread \cup {None}]
  BY DEF Claim, TypeInv, TypeOK
<1>7. \A u \in Thread : pc[u] # "publish"
  BY DEF Claim, Control, Inside
<1>3. Table'
  <2>1. idx'[n] = Key(t) /\ \A j \in Slot : j # n => idx'[j] = idx[j]
    BY <1>1, <1>2
  <2>2. \A j \in Slot : n < j => idx[j] = None
    BY <1>1 DEF Table
  <2>3. \A j \in Slot : idx[j] # Key(t) /\ (j < n => idx[j] # None)
    BY <1>1, <2>2, SizeAssumption DEF Before, Slot
  <2>4. idx'[MaxThread] = None
    BY <1>1, <2>1, SizeAssumption DEF Table, Slot
  <2>5. \A i, j \in Slot : i < j /\ idx'[j] # None => idx'[i] # None
    BY <1>1, <2>1, <2>2, <2>3, SizeAssumption DEF Slot
  <2>6. \A i, j \in Slot : idx'[i] # None /\ idx'[i] = idx'[j] => i = j
    BY <2>1, <2>3 DEF Table
  <2>7. \A i \in Slot : idx'[i] # None /\ rec'[i] = None => Publishing(i)'
    BY <1>2, <1>7, <2>1 DEF Table, Publishing
  <2>8. \A i \in Slot : idx'[i] = None => rec'[i] = None
    BY <1>1, <1>2, <2>1 DEF Table
  <2>. QED
    BY <1>2, <2>4, <2>5, <2>6, <2>7, <2>8 DEF Table
<1>4. Control'
  BY DEF Claim, Control, Inside, Working, workerVars
<1>5. ASSUME NEW u \in Thread PROVE Place(u)'
  <2>1. CASE u # t
    BY <1>2, <2>1 DEF Claim, Control, Inside, Place, Places
  <2>2. ASSUME u = t PROVE Place(t)'
    <3>1. /\ pc'[t] = "publish" /\ loc'[t] = r /\ at'[t] = n /\ Key(t)' = Key(t) /\ idx'[n] = Key(t)
      BY <1>1, <1>2 DEF Key, TypeInv, TypeOK
    <3>2. /\ state'[r] = "unknown" /\ chain'[r] = << >> /\ num'[r] = 0
          /\ \A i \in Slot : rec[i] # r
      BY DEF Claim, FreshRec, TypeInv, TypeOK
    <3>. QED
      BY <1>1, <1>2, <3>1, <3>2 DEF Place
  <2>. QED
    BY <2>1, <2>2
<1>6. WorkerPlace'
  BY DEF Claim, Control, Inside, Working, workerVars, WorkerPlace
<1>. QED
  BY <1>3, <1>4, <1>5, <1>6 DEF Places

\* The record is stored: the table stays a table, and the calls know their
\* slots.
LEMMA PublishRegistry ==
  ASSUME TypeInv, TypeInv', Table, Control, Places, Sound, client.serial,
         NEW t \in Thread, Publish(t)
  PROVE  Table' /\ (~fault' => Control' /\ Places')
<1>. DEFINE n == at[t]
<1>1. /\ n \in Slot /\ n < MaxThread /\ idx[n] = Key(t) /\ rec[n] = None
      /\ loc[t] \in Rec /\ \A i \in Slot : rec[i] # loc[t]
      /\ Key(t) \in Thread /\ Key(t) # None /\ loc[t] # None
  BY MainAssumption, NoneAssumption
     DEF TypeInv, TypeOK, Publish, Places, Place, Key
<1>2. /\ rec' = [rec EXCEPT ![n] = loc[t]] /\ idx' = idx /\ at' = at /\ op' = op
      /\ pc' = [pc EXCEPT ![t] = "use"]
      /\ \A u \in Thread : u # t => pc[u] \in {"idle", "lock"}
      /\ pc \in [Thread -> {"idle", "lock", "scan", "claim", "publish", "use", "link", "count"}]
      /\ rec \in [Slot -> Rec \cup {None}]
  BY DEF Publish, Control, Inside, TypeInv, TypeOK
<1>3. Table'
  <2>1. rec'[n] = loc[t] /\ \A j \in Slot : j # n => rec'[j] = rec[j]
    BY <1>1, <1>2
  <2>2. \A i \in Slot : idx'[i] # None /\ rec'[i] = None => Publishing(i)'
    BY <1>1, <1>2, <2>1 DEF Table, Publishing
  <2>3. \A i, j \in Slot : rec'[i] # None /\ rec'[i] = rec'[j] => i = j
    BY <1>1, <2>1 DEF Table
  <2>4. \A i \in Slot : idx'[i] = None => rec'[i] = None
    BY <1>1, <1>2, <2>1 DEF Table
  <2>. QED
    BY <1>2, <2>2, <2>3, <2>4 DEF Table
<1>4. Control'
  BY DEF Publish, Control, Inside, Working, workerVars
<1>5. ASSUME NEW u \in Thread PROVE Place(u)'
  <2>1. CASE u # t
    BY <1>2, <2>1 DEF Place, Places
  <2>2. ASSUME u = t PROVE Place(t)'
    BY <1>1, <1>2 DEF Place, Key
  <2>. QED
    BY <2>1, <2>2
<1>6. WorkerPlace'
  BY DEF Publish, Control, Inside, Working, workerVars, WorkerPlace
<1>. QED
  BY <1>3, <1>4, <1>5, <1>6 DEF Places

\* tlibc_clean_thread_mem: the table stays a table, and the calls know their
\* slots.
LEMMA CleanThreadMemRegistry ==
  ASSUME TypeInv, TypeInv', Table, Control, Places, Sound, client.serial,
         NEW t \in Thread, NEW q \in Thread, CleanThreadMem(t, q)
  PROVE  Table' /\ (~fault' => Control' /\ Places')
<1>1. /\ wpc = "off" /\ (\A u \in Thread : pc[u] = "idle")
      /\ UNCHANGED <<lock, pc, op, at, wpc>>
  BY DEF CleanThreadMem, Quiet, threadVars, workerVars
<1>2. Table'
  <2>1. PICK i \in Slot : /\ idx[i] = q
                          /\ idx' = ShiftDown(idx, i) /\ rec' = ShiftDown(rec, i)
    BY DEF CleanThreadMem
  <2>2. \A j \in Slot : ~Publishing(j)
    BY <1>1 DEF Publishing
  <2>3. idx[i] # None
    BY <2>1, NoneAssumption
  <2>. QED
    BY <2>1, <2>2, <2>3, TableRemoval DEF TypeInv
<1>3. Control'
  BY <1>1 DEF Control, Inside, Working
<1>4. Places'
  BY <1>1 DEF Places, Place, WorkerPlace
<1>. QED
  BY <1>2, <1>3, <1>4

\* The worker closes the gap: the table stays a table, and the calls know
\* their slots.
LEMMA WorkerShiftRegistry ==
  ASSUME TypeInv, TypeInv', Table, Control, Places, Sound, client.serial, WorkerShift
  PROVE  Table' /\ (~fault' => Control' /\ Places')
<1>1. /\ wpc = "free" /\ wpc' = "scan" /\ UNCHANGED <<lock, pc, op, at>>
      /\ \A u \in Thread : pc[u] \in {"idle", "lock"}
  BY DEF WorkerShift, threadVars, Control, Inside, Working
<1>2. Table'
  <2>1. /\ wat \in Slot /\ idx[wat] # None
        /\ idx' = ShiftDown(idx, wat) /\ rec' = ShiftDown(rec, wat)
    BY DEF WorkerShift, Places, WorkerPlace, TypeInv, TypeOK
  <2>2. \A j \in Slot : ~Publishing(j)
    BY <1>1 DEF Publishing
  <2>. QED
    BY <2>1, <2>2, TableRemoval DEF TypeInv
<1>3. Control'
  BY <1>1 DEF Control, Inside, Working
<1>4. Places'
  BY <1>1 DEF Places, Place, WorkerPlace
<1>. QED
  BY <1>2, <1>3, <1>4

\* A registry call gets the lock: the table stays a table, and the calls know
\* their slots.
LEMMA LockRegistry ==
  ASSUME TypeInv, TypeInv', Table, Control, Places, Sound, client.serial,
         NEW t \in Thread, Lock(t)
  PROVE  Table' /\ (~fault' => Control' /\ Places')
<1>1. /\ pc[t] = "lock" /\ ~lock /\ lock' = TRUE /\ pc' = [pc EXCEPT ![t] = "scan"]
      /\ UNCHANGED <<idx, rec, state, chain, num, op, at, loc, tail, wpc, wat, wk>>
      /\ \A u \in Thread : ~Inside(u)
      /\ pc \in [Thread -> {"idle", "lock", "scan", "claim", "publish", "use", "link", "count"}]
  BY ZenonT(60) DEF Lock, listVars, workerVars, Control, Inside, TypeInv, TypeOK
<1>2. Table'
  BY <1>1 DEF Table, Publishing
<1>3. Control'
  BY <1>1 DEF Control, Inside, Working
<1>4. ASSUME NEW u \in Thread PROVE Place(u)'
  <2>1. CASE u # t
    BY <1>1, <2>1 DEF Places, Place, Before, Key
  <2>2. ASSUME u = t PROVE Place(t)'
    <3>1. pc'[t] = "scan" /\ at'[t] = 0
      BY <1>1 DEF Places, Place
    <3>2. Before(0, Key(t))'
      BY SizeAssumption DEF Before, Slot
    <3>. QED
      BY <3>1, <3>2 DEF Place
  <2>. QED
    BY <2>1, <2>2
<1>5. WorkerPlace'
  BY <1>1 DEF Places, WorkerPlace
<1>. QED
  BY <1>2, <1>3, <1>4, <1>5 DEF Places

\* Malloc walks its list: the table stays a table, and the calls know their
\* slots.
LEMMA FindTailRegistry ==
  ASSUME TypeInv, TypeInv', Table, Control, Places, Sound, client.serial,
         NEW t \in Thread, FindTail(t)
  PROVE  Table' /\ (~fault' => Control' /\ Places')
<1>1. rec[at[t]] # None
  BY DEF FindTail, Places, Place
<1>2. /\ pc[t] = "use" /\ op[t] = "malloc" /\ pc' = [pc EXCEPT ![t] = "link"]
      /\ loc' = [loc EXCEPT ![t] = rec[at[t]]] /\ tail' = [tail EXCEPT ![t] = chain[rec[at[t]]]]
      /\ UNCHANGED <<lock, idx, rec, state, chain, num, op, at, wpc, wat, wk>>
      /\ pc \in [Thread -> {"idle", "lock", "scan", "claim", "publish", "use", "link", "count"}]
  BY <1>1 DEF FindTail, listVars, workerVars, TypeInv, TypeOK
<1>3. Table'
  BY <1>2 DEF Table, Publishing
<1>4. Control'
  BY <1>2 DEF Control, Inside, Working
<1>5. ASSUME NEW u \in Thread PROVE Place(u)'
  BY <1>2 DEF Places, Place, Key, Before, TypeInv, TypeOK
<1>6. WorkerPlace'
  BY <1>2 DEF Places, WorkerPlace
<1>. QED
  BY <1>3, <1>4, <1>5, <1>6 DEF Places

\* Registering sets ALIVE: the table stays a table, and the calls know their
\* slots.
LEMMA UseRegisterRegistry ==
  ASSUME TypeInv, TypeInv', Table, Control, Places, Sound, client.serial,
         NEW t \in Thread, UseRegister(t)
  PROVE  Table' /\ (~fault' => Control' /\ Places')
<1>1. /\ pc[t] = "use" /\ op[t] \in {"register", "registerZero"}
      /\ pc' = [pc EXCEPT ![t] = "idle"] /\ op' = [op EXCEPT ![t] = None] /\ at' = [at EXCEPT ![t] = 0]
      /\ UNCHANGED <<idx, rec, chain, num, loc, tail, wpc, wat, wk>>
      /\ pc \in [Thread -> {"idle", "lock", "scan", "claim", "publish", "use", "link", "count"}]
      /\ op \in [Thread -> Op \cup {None}]
  BY DEF UseRegister, Return, workerVars, TypeInv, TypeOK
<1>2. \A u \in Thread : u # t => pc[u] \in {"idle", "lock"} /\ op[u] # "malloc"
  BY <1>1 DEF Control, Inside
<1>3. ~Working
  BY <1>1 DEF Control, Inside
<1>4. Table'
  BY <1>1 DEF Table, Publishing
<1>5. Control'
  BY <1>1, <1>2, <1>3, NoneAssumption DEF Control, Inside, Working, Op
<1>6. ASSUME NEW u \in Thread PROVE Place(u)'
  BY <1>1, <1>2 DEF Places, Place
<1>7. WorkerPlace'
  BY <1>1, <1>3 DEF WorkerPlace, Working
<1>. QED
  BY <1>4, <1>5, <1>6, <1>7 DEF Places

\* mark_exit sets EXIT: the table stays a table, and the calls know their
\* slots.
LEMMA UseMarkRegistry ==
  ASSUME TypeInv, TypeInv', Table, Control, Places, Sound, client.serial,
         NEW t \in Thread, UseMark(t)
  PROVE  Table' /\ (~fault' => Control' /\ Places')
<1>1. /\ pc[t] = "use" /\ op[t] \in {"mark", "markMain"}
      /\ pc' = [pc EXCEPT ![t] = "idle"] /\ op' = [op EXCEPT ![t] = None] /\ at' = [at EXCEPT ![t] = 0]
      /\ UNCHANGED <<idx, rec, chain, num, loc, tail, wpc, wat, wk>>
      /\ pc \in [Thread -> {"idle", "lock", "scan", "claim", "publish", "use", "link", "count"}]
      /\ op \in [Thread -> Op \cup {None}]
  BY DEF UseMark, Return, workerVars, TypeInv, TypeOK
<1>2. \A u \in Thread : u # t => pc[u] \in {"idle", "lock"} /\ op[u] # "malloc"
  BY <1>1 DEF Control, Inside
<1>3. ~Working
  BY <1>1 DEF Control, Inside
<1>4. Table'
  BY <1>1 DEF Table, Publishing
<1>5. Control'
  BY <1>1, <1>2, <1>3, NoneAssumption DEF Control, Inside, Working, Op
<1>6. ASSUME NEW u \in Thread PROVE Place(u)'
  BY <1>1, <1>2 DEF Places, Place
<1>7. WorkerPlace'
  BY <1>1, <1>3 DEF WorkerPlace, Working
<1>. QED
  BY <1>4, <1>5, <1>6, <1>7 DEF Places


\* Malloc maps its block: the table stays a table, and the calls know their
\* slots.
LEMMA MallocBeginRegistry ==
  ASSUME TypeInv, TypeInv', Table, Control, Places, Sound, client.serial,
         NEW t \in Thread, NEW a \in Block, MallocBegin(t, a)
  PROVE  Table' /\ (~fault' => Control' /\ Places')
<1>1. Table'
  <2>1. ASSUME NEW i \in Slot, NEW u \in Thread, pc[u] = "publish" /\ at[u] = i
        PROVE  pc'[u] = "publish" /\ at'[u] = i
    BY <2>1 DEF MallocBegin, TypeInv, TypeOK
  <2>. QED
    BY <2>1 DEF MallocBegin, Table, Publishing
<1>2. ASSUME ~fault' PROVE Control'
  BY <1>2, NoneAssumption
  DEF TypeInv, TypeOK, workerVars, MallocBegin, Quiet, Op, Control, Inside, Working
<1>3. ASSUME ~fault', NEW u \in Thread PROVE Place(u)'
  BY <1>3, NoneAssumption
  DEF TypeInv, TypeOK, MallocBegin, Quiet, Slot, Before, Key, Table, Control, Inside,
      Working, Publishing, Places, Place
<1>4. ASSUME ~fault' PROVE WorkerPlace'
  BY <1>4, NoneAssumption
  DEF workerVars, MallocBegin, Quiet, Table, Control, Inside, Working, Publishing,
      Places, WorkerPlace
<1>. QED
  BY <1>1, <1>2, <1>3, <1>4 DEF Places

\* A registry call is made: the table stays a table, and the calls know their
\* slots.
LEMMA CallBeginRegistry ==
  ASSUME TypeInv, TypeInv', Table, Control, Places, Sound, client.serial,
         NEW t \in Thread, NEW call \in Op \ {"malloc"}, CallBegin(t, call)
  PROVE  Table' /\ (~fault' => Control' /\ Places')
<1>1. Table'
  <2>1. ASSUME NEW i \in Slot, NEW u \in Thread, pc[u] = "publish" /\ at[u] = i
        PROVE  pc'[u] = "publish" /\ at'[u] = i
    BY <2>1 DEF CallBegin, TypeInv, TypeOK
  <2>. QED
    BY <2>1 DEF CallBegin, Table, Publishing
<1>2. ASSUME ~fault' PROVE Control'
  BY <1>2, NoneAssumption
  DEF TypeInv, TypeOK, workerVars, CallBegin, InMalloc, Control, Inside, Working
<1>3. ASSUME ~fault', NEW u \in Thread PROVE Place(u)'
  BY <1>3, NoneAssumption
  DEF TypeInv, TypeOK, listVars, CallBegin, Slot, Before, Key, Table, Control, Inside,
      Working, Publishing, Places, Place
<1>4. ASSUME ~fault' PROVE WorkerPlace'
  BY <1>4, NoneAssumption
  DEF listVars, workerVars, CallBegin, Table, Control, Inside, Working, Publishing,
      Places, WorkerPlace
<1>. QED
  BY <1>1, <1>2, <1>3, <1>4 DEF Places

\* The chunk is appended: the table stays a table, and the calls know their
\* slots.
LEMMA LinkRegistry ==
  ASSUME TypeInv, TypeInv', Table, Control, Places, Sound, client.serial,
         NEW t \in Thread, Link(t)
  PROVE  Table' /\ (~fault' => Control' /\ Places')
<1>1. Table'
  BY NoneAssumption DEF Link, Table, Control, Inside, Working, Publishing, Place, Places
<1>2. ASSUME ~fault' PROVE Control'
  BY <1>2, NoneAssumption DEF workerVars, Link, Control, Inside, Working
<1>3. ASSUME ~fault', NEW u \in Thread PROVE Place(u)'
  BY <1>3, NoneAssumption
  DEF TypeInv, TypeOK, Link, Before, Key, Table, Control, Inside, Working, Publishing,
      Places, Place
<1>4. ASSUME ~fault' PROVE WorkerPlace'
  BY <1>4, NoneAssumption
  DEF workerVars, Link, Control, Inside, Working, Publishing, Places, WorkerPlace
<1>. QED
  BY <1>1, <1>2, <1>3, <1>4 DEF Places

\* The chunk is counted: the table stays a table, and the calls know their
\* slots.
LEMMA CountRegistry ==
  ASSUME TypeInv, TypeInv', Table, Control, Places, Sound, client.serial,
         NEW t \in Thread, Count(t)
  PROVE  Table' /\ (~fault' => Control' /\ Places')
<1>1. Table'
  BY NoneAssumption DEF Count, Table, Control, Inside, Working, Publishing, Place, Places
<1>2. ASSUME ~fault' PROVE Control'
  BY <1>2, NoneAssumption
  DEF TypeInv, TypeOK, workerVars, Count, Op, Control, Inside, Working
<1>3. ASSUME ~fault', NEW u \in Thread PROVE Place(u)'
  BY <1>3, NoneAssumption
  DEF TypeInv, TypeOK, Count, Before, Key, Table, Control, Inside, Working, Publishing,
      Places, Place
<1>4. ASSUME ~fault' PROVE WorkerPlace'
  BY <1>4, NoneAssumption
  DEF workerVars, Count, Control, Inside, Working, Publishing, Places, WorkerPlace
<1>. QED
  BY <1>1, <1>2, <1>3, <1>4 DEF Places

\* A thread is created: the table stays a table, and the calls know their
\* slots.
LEMMA BirthRegistry ==
  ASSUME TypeInv, TypeInv', Table, Control, Places, Sound, client.serial,
         NEW t \in Thread, Birth(t)
  PROVE  Table' /\ (~fault' => Control' /\ Places')
<1>1. Table'
  BY NoneAssumption
  DEF threadVars, Birth, Table, Control, Inside, Working, Publishing, Place, Places
<1>2. ASSUME ~fault' PROVE Control'
  BY <1>2, NoneAssumption DEF threadVars, workerVars, Birth, Control, Inside, Working
<1>3. ASSUME ~fault', NEW u \in Thread PROVE Place(u)'
  BY <1>3, NoneAssumption
  DEF listVars, threadVars, Birth, Before, Key, Table, Control, Inside, Working,
      Publishing, Places, Place
<1>4. ASSUME ~fault' PROVE WorkerPlace'
  BY <1>4, NoneAssumption
  DEF listVars, workerVars, Birth, Control, Inside, Working, Publishing, Places,
      WorkerPlace
<1>. QED
  BY <1>1, <1>2, <1>3, <1>4 DEF Places

\* A thread exits: the table stays a table, and the calls know their slots.
LEMMA ThreadExitRegistry ==
  ASSUME TypeInv, TypeInv', Table, Control, Places, Sound, client.serial,
         NEW t \in Thread, ThreadExit(t)
  PROVE  Table' /\ (~fault' => Control' /\ Places')
<1>1. Table'
  BY NoneAssumption
  DEF threadVars, ThreadExit, Table, Control, Inside, Working, Publishing, Place, Places
<1>2. ASSUME ~fault' PROVE Control'
  BY <1>2, NoneAssumption DEF threadVars, workerVars, ThreadExit, Control, Inside, Working
<1>3. ASSUME ~fault', NEW u \in Thread PROVE Place(u)'
  BY <1>3, NoneAssumption
  DEF listVars, threadVars, ThreadExit, Before, Key, Table, Control, Inside, Working,
      Publishing, Places, Place
<1>4. ASSUME ~fault' PROVE WorkerPlace'
  BY <1>4, NoneAssumption
  DEF listVars, workerVars, ThreadExit, Control, Inside, Working, Publishing, Places,
      WorkerPlace
<1>. QED
  BY <1>1, <1>2, <1>3, <1>4 DEF Places

\* A block is freed by hand: the table stays a table, and the calls know their
\* slots.
LEMMA FreeRegistry ==
  ASSUME TypeInv, TypeInv', Table, Control, Places, Sound, client.serial,
         NEW t \in Thread, NEW a \in Block, Free(t, a)
  PROVE  Table' /\ (~fault' => Control' /\ Places')
<1>1. Table'
  BY NoneAssumption
  DEF threadVars, Free, Table, Control, Inside, Working, Publishing, Place, Places
<1>2. ASSUME ~fault' PROVE Control'
  BY <1>2, NoneAssumption DEF threadVars, workerVars, Free, Control, Inside, Working
<1>3. ASSUME ~fault', NEW u \in Thread PROVE Place(u)'
  BY <1>3, NoneAssumption
  DEF listVars, threadVars, Free, Before, Key, Table, Control, Inside, Working,
      Publishing, Places, Place
<1>4. ASSUME ~fault' PROVE WorkerPlace'
  BY <1>4, NoneAssumption
  DEF listVars, workerVars, Free, Control, Inside, Working, Publishing, Places,
      WorkerPlace
<1>. QED
  BY <1>1, <1>2, <1>3, <1>4 DEF Places

\* The worker is started: the table stays a table, and the calls know their
\* slots.
LEMMA EnableRegistry ==
  ASSUME TypeInv, TypeInv', Table, Control, Places, Sound, client.serial,
         Enable
  PROVE  Table' /\ (~fault' => Control' /\ Places')
<1>1. Table'
  BY NoneAssumption
  DEF threadVars, Enable, Table, Control, Inside, Working, Publishing, Place, Places
<1>2. ASSUME ~fault' PROVE Control'
  BY <1>2, NoneAssumption DEF threadVars, Enable, InMalloc, Control, Inside, Working
<1>3. ASSUME ~fault', NEW u \in Thread PROVE Place(u)'
  BY <1>3, NoneAssumption
  DEF listVars, threadVars, Enable, Slot, Before, Key, Table, Control, Inside, Working,
      Publishing, Places, Place
<1>4. ASSUME ~fault' PROVE WorkerPlace'
  BY <1>4, NoneAssumption
  DEF Enable, Table, Control, Inside, Working, Publishing, Places, WorkerPlace
<1>. QED
  BY <1>1, <1>2, <1>3, <1>4 DEF Places

\* The worker is told to stop: the table stays a table, and the calls know
\* their slots.
LEMMA StopWorkerRegistry ==
  ASSUME TypeInv, TypeInv', Table, Control, Places, Sound, client.serial,
         StopWorker
  PROVE  Table' /\ (~fault' => Control' /\ Places')
<1>1. Table'
  BY NoneAssumption
  DEF threadVars, StopWorker, Table, Control, Inside, Working, Publishing, Place, Places
<1>2. ASSUME ~fault' PROVE Control'
  BY <1>2, NoneAssumption DEF threadVars, workerVars, StopWorker, Control, Inside, Working
<1>3. ASSUME ~fault', NEW u \in Thread PROVE Place(u)'
  BY <1>3, NoneAssumption
  DEF listVars, threadVars, StopWorker, Before, Key, Table, Control, Inside, Working,
      Publishing, Places, Place
<1>4. ASSUME ~fault' PROVE WorkerPlace'
  BY <1>4, NoneAssumption
  DEF listVars, workerVars, StopWorker, Control, Inside, Working, Publishing, Places,
      WorkerPlace
<1>. QED
  BY <1>1, <1>2, <1>3, <1>4 DEF Places

\* The worker wakes or ends: the table stays a table, and the calls know their
\* slots.
LEMMA WorkerTurnRegistry ==
  ASSUME TypeInv, TypeInv', Table, Control, Places, Sound, client.serial,
         WorkerTurn
  PROVE  Table' /\ (~fault' => Control' /\ Places')
<1>1. Table'
  BY NoneAssumption
  DEF threadVars, WorkerTurn, Table, Control, Inside, Working, Publishing, Place, Places
<1>2. ASSUME ~fault' PROVE Control'
  BY <1>2, NoneAssumption DEF threadVars, WorkerTurn, Control, Inside, Working
<1>3. ASSUME ~fault', NEW u \in Thread PROVE Place(u)'
  BY <1>3, NoneAssumption
  DEF listVars, threadVars, WorkerTurn, Before, Key, Table, Control, Inside, Working,
      Publishing, Places, Place
<1>4. ASSUME ~fault' PROVE WorkerPlace'
  BY <1>4, NoneAssumption
  DEF WorkerTurn, Control, Inside, Working, Publishing, Places, WorkerPlace
<1>. QED
  BY <1>1, <1>2, <1>3, <1>4 DEF Places

\* The worker gets the lock: the table stays a table, and the calls know their
\* slots.
LEMMA WorkerLockRegistry ==
  ASSUME TypeInv, TypeInv', Table, Control, Places, Sound, client.serial,
         WorkerLock
  PROVE  Table' /\ (~fault' => Control' /\ Places')
<1>1. Table'
  BY NoneAssumption
  DEF WorkerLock, Table, Control, Inside, Working, Publishing, Place, Places
<1>2. ASSUME ~fault' PROVE Control'
  BY <1>2, NoneAssumption DEF threadVars, WorkerLock, Control, Inside, Working
<1>3. ASSUME ~fault', NEW u \in Thread PROVE Place(u)'
  BY <1>3, NoneAssumption
  DEF threadVars, WorkerLock, Before, Key, Table, Control, Inside, Working, Publishing,
      Places, Place
<1>4. ASSUME ~fault' PROVE WorkerPlace'
  BY <1>4, NoneAssumption
  DEF WorkerLock, Control, Inside, Working, Publishing, Places, WorkerPlace
<1>. QED
  BY <1>1, <1>2, <1>3, <1>4 DEF Places

\* One turn of the worker's loop: the table stays a table, and the calls know
\* their slots.
LEMMA WorkerScanRegistry ==
  ASSUME TypeInv, TypeInv', Table, Control, Places, Sound, client.serial,
         WorkerScan
  PROVE  Table' /\ (~fault' => Control' /\ Places')
<1>1. Table'
  BY NoneAssumption
  DEF WorkerScan, Table, Control, Inside, Working, Publishing, Place, Places
<1>2. ASSUME ~fault' PROVE Control'
  BY <1>2, NoneAssumption DEF threadVars, WorkerScan, Control, Inside, Working
<1>3. ASSUME ~fault', NEW u \in Thread PROVE Place(u)'
  BY <1>3, NoneAssumption
  DEF threadVars, WorkerScan, Before, Key, Table, Control, Inside, Working, Publishing,
      Places, Place
<1>4. ASSUME ~fault' PROVE WorkerPlace'
  BY <1>4, NoneAssumption
  DEF listVars, WorkerScan, Control, Inside, Working, Publishing, Places, WorkerPlace
<1>. QED
  BY <1>1, <1>2, <1>3, <1>4 DEF Places

\* The worker gives a block back: the table stays a table, and the calls know
\* their slots.
LEMMA WorkerFreeRegistry ==
  ASSUME TypeInv, TypeInv', Table, Control, Places, Sound, client.serial,
         WorkerFree
  PROVE  Table' /\ (~fault' => Control' /\ Places')
<1>1. Table'
  BY NoneAssumption
  DEF WorkerFree, Table, Control, Inside, Working, Publishing, Place, Places
<1>2. ASSUME ~fault' PROVE Control'
  BY <1>2, NoneAssumption DEF threadVars, WorkerFree, Control, Inside, Working
<1>3. ASSUME ~fault', NEW u \in Thread PROVE Place(u)'
  BY <1>3, NoneAssumption
  DEF threadVars, WorkerFree, Before, Key, Table, Control, Inside, Working, Publishing,
      Places, Place
<1>4. ASSUME ~fault' PROVE WorkerPlace'
  BY <1>4, NoneAssumption
  DEF TypeInv, TypeOK, listVars, WorkerFree, Control, Inside, Working, Publishing,
      Places, WorkerPlace
<1>. QED
  BY <1>1, <1>2, <1>3, <1>4 DEF Places

----------------------------------------------------------------------------
(* The books: what the lists of a client's threads say of its blocks        *)

Recorded == {i \in Slot : rec[i] # None}
\* The places on the list of slot i.
On(i) == 1 .. Len(chain[rec[i]])
\* Linked, but not yet counted.
Uncounted(i) == \E t \in Thread : pc[t] = "count" /\ at[t] = i
\* Given back by the worker already.
Freed(i, k) == wpc = "free" /\ i = wat /\ k < wk

\* chunk_num is the length of the list, but for the chunk being counted.
Counted ==
    \A i \in Recorded :
        /\ ~Uncounted(i) => Len(chain[rec[i]]) = num[rec[i]]
        /\ Uncounted(i) => Len(chain[rec[i]]) = num[rec[i]] + 1
\* No list records a block twice.
Distinct ==
    \A i \in Recorded : \A k, l \in On(i) : chain[rec[i]][k] = chain[rec[i]][l] => k = l
\* A recorded block belongs to the thread of the slot, unless given back already.
Owned ==
    \A i \in Recorded : \A k \in On(i) :
        owner[chain[rec[i]][k]] = IF Freed(i, k) THEN None ELSE idx[i]
\* A block somebody holds is on a list or about to be put there.
Listed ==
    \A a \in Block : owner[a] # None =>
        \/ \E t \in Thread : blk[t] = a
        \/ \E i \in Recorded : \E k \in On(i) : chain[rec[i]][k] = a
\* A call that holds a block is a malloc of its owner, and has recorded it at most
\* as the last of the list it counts.
Held ==
    \A t \in Thread : blk[t] # None =>
        /\ op[t] = "malloc" /\ owner[blk[t]] = t
        /\ \A i \in Recorded : \A k \in On(i) :
              chain[rec[i]][k] = blk[t] => pc[t] = "count" /\ i = at[t] /\ k = Len(chain[rec[i]])
\* A chunk to be counted is the last of its list.
Linked ==
    \A t \in Thread : pc[t] = "count" =>
        /\ Len(chain[rec[at[t]]]) >= 1
        /\ chain[rec[at[t]]][Len(chain[rec[at[t]]])] = blk[t]
\* The worker's counter runs to one past the list's end.
FreeLoop == wpc = "free" => wk <= num[rec[wat]] + 1

\* Every block is accounted for.
Books == Counted /\ Distinct /\ Owned /\ Listed /\ Held /\ Linked /\ FreeLoop

\* Nobody is in malloc, so that no block is held.
LEMMA NoneHeld ==
  ASSUME TypeInv, Control, Held, \A t \in Thread : op[t] # "malloc"
  PROVE  /\ \A t \in Thread : blk[t] = None /\ pc[t] # "count"
         /\ \A i \in Slot : ~Uncounted(i)
  BY DEF Held, Uncounted, TypeInv, Locals

\* A thread that is inside the pool is there alone.
LEMMA AloneInside ==
  ASSUME TypeInv, Control, NEW t \in Thread, Inside(t)
  PROVE  /\ wpc \notin {"scan", "free"}
         /\ \A u \in Thread : u # t => pc[u] \in {"idle", "lock"}
  BY DEF Control, Inside, Working

\* A step that leaves the lists and the owners alone, and the parts of the
\* control that the books speak of.
BooksKept ==
    /\ UNCHANGED <<idx, rec, chain, num, owner, blk>>
    /\ wpc = "free" <=> wpc' = "free"
    /\ wpc = "free" => UNCHANGED <<wat, wk>>
    /\ \A t \in Thread : /\ (pc[t] = "count") = (pc'[t] = "count")
                         /\ pc[t] = "count" => at'[t] = at[t]
                         /\ blk[t] # None => op'[t] = op[t]

\* Such a step keeps the books true.
LEMMA BooksFrame ==
  ASSUME Books, BooksKept
  PROVE  Books'
<1>1. \A i \in Slot : Uncounted(i)' <=> Uncounted(i)
  BY DEF BooksKept, Uncounted
<1>2. Counted'
  BY <1>1 DEF Books, BooksKept, Counted, Recorded
<1>3. Distinct'
  BY DEF Books, BooksKept, Distinct, Recorded, On
<1>4. Owned'
  BY DEF Books, BooksKept, Owned, Recorded, On, Freed
<1>5. Listed'
  BY ZenonT(60) DEF Books, BooksKept, Listed, Recorded, On
<1>6. Held'
  BY DEF Books, BooksKept, Held, Recorded, On
<1>7. Linked'
  BY DEF Books, BooksKept, Linked
<1>8. FreeLoop'
  BY DEF Books, BooksKept, FreeLoop
<1>. QED
  BY <1>2, <1>3, <1>4, <1>5, <1>6, <1>7, <1>8 DEF Books

\* Malloc maps its block: the books stay true.
LEMMA MallocBeginBooks ==
  ASSUME TypeInv, Table, Control, Places, Books, Sound, client.serial,
         NEW t \in Thread, NEW a \in Block, MallocBegin(t, a)
  PROVE  Books'
<1>1. /\ wpc = "off" /\ \A u \in Thread : pc[u] = "idle" /\ op[u] # "malloc"
      /\ owner[a] = None /\ owner' = [owner EXCEPT ![a] = t] /\ blk' = [blk EXCEPT ![t] = a]
      /\ op' = [op EXCEPT ![t] = "malloc"] /\ pc' = [pc EXCEPT ![t] = "scan"]
      /\ UNCHANGED <<idx, rec, chain, num, wpc>>
  BY DEF MallocBegin, Quiet, listVars, workerVars, Control, Inside
<1>2. /\ \A u \in Thread : blk[u] = None
      /\ blk \in [Thread -> Block \cup {None}] /\ owner \in [Block -> Thread \cup {None}]
      /\ pc \in [Thread -> {"idle", "lock", "scan", "claim", "publish", "use", "link", "count"}]
      /\ op \in [Thread -> Op \cup {None}]
  BY <1>1, NoneHeld DEF Books, TypeInv, TypeOK
<1>3. \A u \in Thread : pc[u] # "count" /\ pc'[u] # "count"
  BY <1>1, <1>2
<1>4. \A i \in Recorded : \A k \in On(i) : chain[rec[i]][k] \in Block /\ owner[chain[rec[i]][k]] = idx[i] /\ idx[i] # None
  BY <1>1 DEF Books, Owned, Freed, Recorded, On, TypeInv, TypeOK, Table
<1>5. \A i \in Recorded : \A k \in On(i) : chain[rec[i]][k] # a
  BY <1>1, <1>4
<1>6. Counted' /\ Distinct' /\ Linked' /\ FreeLoop'
  BY <1>1, <1>3 DEF Books, Counted, Distinct, Linked, FreeLoop, Recorded, On, Uncounted
<1>7. Owned'
  BY <1>1, <1>2, <1>4, <1>5 DEF Owned, Recorded, On, Freed
<1>8. Listed'
  <2>1. SUFFICES ASSUME NEW b \in Block, owner'[b] # None, b # a
                 PROVE  \E i \in Recorded : \E k \in On(i) : chain[rec[i]][k] = b
    BY <1>1, <1>2 DEF Listed, Recorded, On
  <2>2. owner[b] # None
    BY <1>1, <1>2, <2>1
  <2>. QED
    BY <1>2, <2>2, NoneAssumption DEF Books, Listed
<1>9. Held'
  BY <1>1, <1>2, <1>5 DEF Held, Recorded, On
<1>. QED
  BY <1>6, <1>7, <1>8, <1>9 DEF Books

\* A tid is stored: the books stay true.
LEMMA ClaimBooks ==
  ASSUME TypeInv, Table, Control, Places, Books, Sound, client.serial,
         NEW t \in Thread, NEW r \in Rec, Claim(t, r)
  PROVE  Books'
<1>. DEFINE n == at[t]
<1>1. /\ pc[t] = "claim" /\ n \in Slot /\ rec[n] = None /\ idx' = [idx EXCEPT ![n] = Key(t)]
      /\ \A i \in Slot : rec[i] # r
      /\ chain' = [chain EXCEPT ![r] = << >>] /\ num' = [num EXCEPT ![r] = 0]
      /\ pc' = [pc EXCEPT ![t] = "publish"] /\ loc' = [loc EXCEPT ![t] = r]
      /\ UNCHANGED <<rec, owner, op, at, blk, wpc, wat, wk>>
  BY DEF Claim, FreshRec, workerVars, Places, Place, Table, TypeInv, TypeOK
<1>2. /\ \A u \in Thread : pc[u] # "count" /\ pc'[u] # "count"
      /\ wpc # "free"
  BY ZenonT(60), <1>1, AloneInside DEF Inside, TypeInv, TypeOK
<1>3. /\ Recorded' = Recorded
      /\ \A i \in Recorded : idx'[i] = idx[i] /\ chain'[rec[i]] = chain[rec[i]] /\ num'[rec[i]] = num[rec[i]]
  BY <1>1 DEF Recorded, TypeInv, TypeOK
<1>4. Counted' /\ Distinct' /\ Linked' /\ FreeLoop'
  BY SMTT(30), <1>1, <1>2, <1>3 DEF Books, Counted, Distinct, Linked, FreeLoop, On, Uncounted
<1>5. Owned'
  BY <1>1, <1>2, <1>3 DEF Books, Owned, On, Freed
<1>6. Listed'
  <2>1. \A i \in Recorded : On(i)' = On(i) /\ chain'[rec'[i]] = chain[rec[i]]
    BY <1>1, <1>3 DEF On
  <2>2. owner' = owner /\ blk' = blk
    BY <1>1
  <2>. QED
    BY <1>3, <2>1, <2>2 DEF Books, Listed
<1>7. Held'
  BY <1>1, <1>2, <1>3 DEF Books, Held, On
<1>. QED
  BY <1>4, <1>5, <1>6, <1>7 DEF Books

\* The record is stored: the books stay true.
LEMMA PublishBooks ==
  ASSUME TypeInv, Table, Control, Places, Books, Sound, client.serial,
         NEW t \in Thread, Publish(t)
  PROVE  Books'
<1>. DEFINE n == at[t]
<1>1. /\ pc[t] = "publish" /\ n \in Slot /\ rec[n] = None /\ loc[t] \in Rec /\ loc[t] # None
      /\ chain[loc[t]] = << >> /\ num[loc[t]] = 0
      /\ rec' = [rec EXCEPT ![n] = loc[t]] /\ pc' = [pc EXCEPT ![t] = "use"]
      /\ UNCHANGED <<idx, chain, num, owner, op, at, blk, wpc, wat, wk>>
  BY DEF Publish, listVars, workerVars, Places, Place, TypeInv, TypeOK
<1>2. /\ \A u \in Thread : pc[u] # "count" /\ pc'[u] # "count"
      /\ wpc # "free"
  BY <1>1, AloneInside DEF Inside, TypeInv, TypeOK
<1>3. /\ Recorded' = Recorded \cup {n} /\ rec'[n] = loc[t]
      /\ \A i \in Recorded : rec'[i] = rec[i]
  BY <1>1 DEF Recorded, TypeInv, TypeOK
<1>4. On(n)' = {} /\ Len(chain'[rec'[n]]) = 0 /\ \A i \in Recorded : On(i)' = On(i)
  BY <1>1, <1>3 DEF On
<1>5. Counted' /\ Distinct' /\ FreeLoop'
  BY <1>1, <1>2, <1>3, <1>4 DEF Books, Counted, Distinct, FreeLoop, Uncounted
<1>9. Linked'
  BY <1>2 DEF Linked
<1>6. Owned'
  BY <1>1, <1>2, <1>3, <1>4 DEF Books, Owned, Freed
<1>7. Listed'
  BY <1>1, <1>3, <1>4 DEF Books, Listed
<1>8. Held'
  BY <1>1, <1>2, <1>3, <1>4 DEF Books, Held
<1>. QED
  BY <1>5, <1>6, <1>7, <1>8, <1>9 DEF Books

\* The chunk is appended: the books stay true.
LEMMA LinkBooks ==
  ASSUME TypeInv, Table, Control, Places, Books, Sound, client.serial,
         NEW t \in Thread, Link(t)
  PROVE  Books'
<1>. DEFINE n == at[t]
            r == rec[n]
            c == chain[r]
<1>1. /\ pc[t] = "link" /\ op[t] = "malloc" /\ blk[t] \in Block /\ blk[t] # None
      /\ n \in Slot /\ n \in Recorded /\ r \in Rec /\ idx[n] = t
      /\ loc[t] = r /\ tail[t] = c /\ c \in Seq(Block)
  BY NoneAssumption DEF Link, TypeInv, TypeOK, Locals, Places, Place, Key, Recorded
<1>2. OnList(c, c)
  <2>1. c = SubSeq(c, 1, Len(c))
    BY <1>1
  <2>. QED
    BY <1>1, <2>1 DEF OnList
<1>3. /\ chain' = [chain EXCEPT ![r] = Append(c, blk[t])] /\ pc' = [pc EXCEPT ![t] = "count"]
      /\ UNCHANGED <<idx, rec, num, owner, op, at, blk, loc, wpc, wat, wk>>
  BY <1>1, <1>2 DEF Link, workerVars
<1>4. /\ chain'[r] = Append(c, blk[t]) /\ Len(chain'[r]) = Len(c) + 1
      /\ chain'[r][Len(c) + 1] = blk[t] /\ \A k \in 1 .. Len(c) : chain'[r][k] = c[k]
      /\ Len(c) \in Nat
  BY <1>1, <1>3 DEF TypeInv, TypeOK
<1>5. \A i \in Recorded : i # n => rec[i] # r /\ chain'[rec[i]] = chain[rec[i]]
  BY <1>1, <1>3 DEF Recorded, Table, TypeInv, TypeOK
<1>6. /\ wpc = "off" /\ pc'[t] = "count"
      /\ \A u \in Thread : u # t => pc[u] = "idle" /\ pc'[u] = "idle" /\ op[u] # "malloc"
  BY <1>1, <1>3 DEF Control, Inside, TypeInv, TypeOK
<1>7. Recorded' = Recorded
  BY <1>3 DEF Recorded
<1>8. /\ On(n)' = On(n) \cup {Len(c) + 1} /\ \A i \in Recorded : i # n => On(i)' = On(i)
      /\ Len(c) + 1 \notin On(n)
  BY <1>3, <1>4, <1>5 DEF On
<1>9. \A i \in Recorded : ~Uncounted(i) /\ (Uncounted(i)' <=> i = n)
  BY <1>1, <1>3, <1>6 DEF Uncounted
<1>10. Counted'
  BY <1>3, <1>4, <1>5, <1>7, <1>9 DEF Books, Counted
<1>11. \A i \in Recorded : \A k \in On(i) : chain[rec[i]][k] # blk[t]
  BY <1>1 DEF Books, Held
<1>12. Distinct'
  BY SMTT(30), SMTT(30), <1>3, <1>4, <1>5, <1>7, <1>8, <1>11 DEF Books, Distinct, On
<1>17. owner[blk[t]] = t
  BY <1>1 DEF Books, Held
<1>18. ASSUME NEW u \in Thread, blk[u] # None PROVE u = t
  <2>1. op[u] = "malloc"
    BY <1>18 DEF Books, Held
  <2>. QED
    BY <1>6, <2>1
<1>13. Owned'
  <2>1. ASSUME NEW i \in Recorded, NEW k \in On(i)'
        PROVE  owner'[chain'[rec'[i]][k]] = idx'[i]
    <3>1. CASE k \in On(i)
      <4>1. chain'[rec'[i]][k] = chain[rec[i]][k]
        <5>1. CASE i = n
          BY <1>3, <1>4, <3>1, <5>1 DEF On
        <5>2. CASE i # n
          BY <1>3, <1>5, <5>2
        <5>. QED
          BY <5>1, <5>2
      <4>2. owner[chain[rec[i]][k]] = idx[i]
        BY <1>6, <3>1 DEF Books, Owned, Freed
      <4>. QED
        BY <1>3, <4>1, <4>2
    <3>2. CASE k \notin On(i)
      <4>0. k \in 1 .. Len(chain'[rec[i]]) /\ k \notin 1 .. Len(chain[rec[i]])
        BY <1>3, <2>1, <3>2 DEF On
      <4>1. i = n /\ k = Len(c) + 1
        BY <1>4, <1>5, <4>0
      <4>2. chain'[rec'[i]][k] = blk[t]
        BY <1>3, <1>4, <4>1
      <4>3. owner'[blk[t]] = t /\ idx'[i] = t
        BY <1>1, <1>3, <1>17, <4>1
      <4>. QED
        BY <4>2, <4>3
    <3>. QED
      BY <3>1, <3>2
  <2>2. \A i, k : ~Freed(i, k)'
    BY <1>3, <1>6 DEF Freed
  <2>. QED
    BY <1>7, <2>1, <2>2 DEF Owned
<1>14. Listed'
  <2>1. ASSUME NEW i \in Recorded, NEW k \in On(i)
        PROVE  k \in On(i)' /\ chain'[rec'[i]][k] = chain[rec[i]][k]
    <3>1. CASE i = n
      BY <1>3, <1>4, <1>8, <3>1 DEF On
    <3>2. CASE i # n
      <4>1. chain'[rec'[i]] = chain[rec[i]]
        BY <1>3, <1>5, <3>2
      <4>2. On(i)' = On(i)
        BY <4>1, Zenon DEF On
      <4>. QED
        BY <4>1, <4>2
    <3>. QED
      BY <3>1, <3>2
  <2>2. SUFFICES ASSUME NEW a \in Block, owner[a] # None, \A u \in Thread : blk[u] # a
                 PROVE  \E i \in Recorded : \E k \in On(i)' : chain'[rec'[i]][k] = a
    BY <1>3, <1>7 DEF Listed
  <2>3. PICK i \in Recorded : \E k \in On(i) : chain[rec[i]][k] = a
    BY <2>2 DEF Books, Listed
  <2>. QED
    BY <2>1, <2>3
<1>15. Held'
  <2>1. ASSUME NEW i \in Recorded, NEW k \in On(i)', chain'[rec'[i]][k] = blk[t]
        PROVE  i = n /\ k = Len(chain'[rec'[i]])
    <3>1. CASE i # n
      <4>1. chain'[rec'[i]] = chain[rec[i]]
        BY <1>3, <1>5, <3>1
      <4>2. k \in On(i)
        BY <4>1, Zenon DEF On
      <4>. QED
        BY <1>11, <2>1, <4>1, <4>2
    <3>2. CASE i = n
      <4>1. chain'[rec'[i]] = chain'[r] /\ k \in On(n) \cup {Len(c) + 1}
        BY <1>3, <1>8, <3>2
      <4>2. k \notin 1 .. Len(c)
        BY <1>1, <1>4, <1>11, <2>1, <4>1 DEF On
      <4>. QED
        BY <1>4, <3>2, <4>1, <4>2 DEF On
    <3>. QED
      BY <3>1, <3>2
  <2>2. ASSUME NEW u \in Thread, blk'[u] # None
        PROVE  /\ u = t /\ op'[u] = "malloc" /\ owner'[blk'[u]] = u
               /\ blk'[u] = blk[t] /\ pc'[u] = "count" /\ at'[u] = n
    BY <1>1, <1>3, <1>6, <1>17, <1>18, <2>2
  <2>. QED
    BY <1>7, <2>1, <2>2 DEF Held
<1>16. Linked' /\ FreeLoop'
  BY SMTT(30), <1>1, <1>3, <1>4, <1>6 DEF Linked, FreeLoop
<1>. QED
  BY <1>10, <1>12, <1>13, <1>14, <1>15, <1>16 DEF Books

\* The chunk is counted: the books stay true.
LEMMA CountBooks ==
  ASSUME TypeInv, Table, Control, Places, Books, Sound, client.serial,
         NEW t \in Thread, Count(t)
  PROVE  Books'
<1>. DEFINE n == at[t]
            r == rec[n]
<1>1. /\ pc[t] = "count" /\ op[t] = "malloc" /\ n \in Slot /\ n \in Recorded /\ r \in Rec
      /\ loc[t] = r /\ chain[r] \in Seq(Block) /\ num[r] \in Nat
  BY DEF Count, TypeInv, TypeOK, Locals, Places, Place, Recorded
<1>2. /\ num' = [num EXCEPT ![r] = @ + 1] /\ pc' = [pc EXCEPT ![t] = "idle"]
      /\ op' = [op EXCEPT ![t] = None] /\ blk' = [blk EXCEPT ![t] = None]
      /\ UNCHANGED <<idx, rec, chain, owner, wpc, wat, wk>>
  BY <1>1 DEF Count, workerVars
<1>3. /\ wpc = "off"
      /\ \A u \in Thread : pc'[u] = "idle" /\ (u # t => pc[u] = "idle" /\ op[u] # "malloc")
  BY <1>1, <1>2 DEF Control, Inside, TypeInv, TypeOK
<1>4. \A u \in Thread : blk'[u] = None
  BY <1>2, <1>3 DEF Books, Held, TypeInv, TypeOK
<1>5. /\ Recorded' = Recorded /\ \A i \in Recorded : On(i)' = On(i)
      /\ \A i \in Recorded : ~Uncounted(i)' /\ (Uncounted(i) <=> i = n)
  BY <1>1, <1>2, <1>3 DEF Recorded, On, Uncounted
<1>6. \A i \in Recorded : num'[rec[i]] = IF i = n THEN num[rec[i]] + 1 ELSE num[rec[i]]
  BY <1>1, <1>2 DEF Recorded, Table, TypeInv, TypeOK
<1>7. Counted'
  BY <1>2, <1>5, <1>6 DEF Books, Counted
<1>8. Distinct' /\ Linked' /\ FreeLoop'
  BY <1>2, <1>3, <1>5 DEF Books, Distinct, Linked, FreeLoop
<1>9. Owned'
  BY <1>2, <1>3, <1>5 DEF Books, Owned, Freed
<1>10. Listed'
  <2>1. Len(chain[r]) \in On(n) /\ chain[rec[n]][Len(chain[r])] = blk[t]
    BY <1>1 DEF Books, Linked, On
  <2>2. \A u \in Thread : u # t => blk[u] = None
    BY <1>3 DEF Books, Held
  <2>. QED
    BY <1>1, <1>2, <1>5, <2>1, <2>2 DEF Books, Listed
<1>11. Held'
  BY <1>4 DEF Held
<1>. QED
  BY <1>7, <1>8, <1>9, <1>10, <1>11 DEF Books

\* A slot whose blocks are all given back is removed.
LEMMA BooksRemoval ==
  ASSUME TypeOK, Table, Counted, Distinct, Listed, NEW i \in Recorded, i < MaxThread,
         idx' = ShiftDown(idx, i), rec' = ShiftDown(rec, i), UNCHANGED <<chain, num, blk>>,
         wpc' # "free",
         \A t \in Thread : blk[t] = None /\ pc[t] # "count" /\ pc'[t] # "count",
         \A j \in Recorded : j # i => \A k \in On(j) : owner'[chain[rec[j]][k]] = idx[j],
         \A k \in On(i) : owner'[chain[rec[i]][k]] = None,
         \A a \in Block : owner'[a] # None => owner[a] # None
  PROVE  Books'
<1>. /\ idx \in [Slot -> Thread \cup {None}] /\ rec \in [Slot -> Rec \cup {None}]
     /\ i \in Slot
  BY DEF TypeOK, Recorded
<1>1. /\ idx' = [j \in Slot |-> idx[Source(i, j)]]
      /\ rec' = [j \in Slot |-> rec[Source(i, j)]]
  BY ShiftDownIs
<1>2. ASSUME NEW j \in Recorded'
      PROVE  /\ Source(i, j) \in Recorded /\ Source(i, j) # i /\ j \in Slot
             /\ rec'[j] = rec[Source(i, j)] /\ idx'[j] = idx[Source(i, j)]
             /\ On(j)' = On(Source(i, j))
  BY <1>1, SourceFacts DEF Recorded, On
<1>3. ASSUME NEW s \in Recorded, s # i
      PROVE  \E j \in Recorded' : rec'[j] = rec[s] /\ On(j)' = On(s)
  BY <1>1, <1>3, SourceFacts DEF Recorded, On
<1>4. Counted'
  <2>1. ASSUME NEW j \in Recorded' PROVE ~Uncounted(j)' /\ Len(chain'[rec'[j]]) = num'[rec'[j]]
    BY <1>2 DEF Counted, Uncounted
  <2>. QED
    BY <2>1 DEF Counted
<1>5. Distinct'
  BY <1>2 DEF Distinct
<1>6. Owned'
  BY <1>2 DEF Owned, Freed
<1>7. Listed'
  <2>1. SUFFICES ASSUME NEW a \in Block, owner'[a] # None
                 PROVE  \E j \in Recorded' : \E k \in On(j)' : chain'[rec'[j]][k] = a
    BY DEF Listed
  <2>4. PICK s \in Recorded : \E k \in On(s) : chain[rec[s]][k] = a
    BY <2>1, NoneAssumption DEF Listed
  <2>2. PICK k \in On(s) : chain[rec[s]][k] = a
    BY <2>4
  <2>3. s # i
    BY <2>1, <2>2
  <2>. QED
    BY <1>3, <2>2, <2>3
<1>8. Held' /\ Linked' /\ FreeLoop'
  BY DEF Held, Linked, FreeLoop
<1>. QED
  BY <1>4, <1>5, <1>6, <1>7, <1>8 DEF Books

\* tlibc_clean_thread_mem: the books stay true.
LEMMA CleanThreadMemBooks ==
  ASSUME TypeInv, Table, Control, Places, Books, Sound, client.serial,
         NEW t \in Thread, NEW q \in Thread, CleanThreadMem(t, q)
  PROVE  Books' /\ ~fault'
<1>1. /\ wpc = "off" /\ wpc' = "off" /\ (\A u \in Thread : pc[u] = "idle" /\ pc'[u] = "idle")
      /\ UNCHANGED <<chain, num, blk>>
      /\ \A u \in Thread : op[u] # "malloc"
  BY DEF CleanThreadMem, Quiet, threadVars, workerVars, listVars, Control, Inside
<1>2. \A u \in Thread : blk[u] = None
  BY <1>1, NoneHeld DEF Books
<1>. DEFINE blocks(i) == {chain[rec[i]][k] : k \in 1 .. num[rec[i]]}
<1>3. PICK i \in Slot :
        /\ idx[i] = q
        /\ owner' = [a \in Block |-> IF a \in blocks(i) THEN None ELSE owner[a]]
        /\ fault' = \E a \in blocks(i) : owner[a] = None
        /\ idx' = ShiftDown(idx, i) /\ rec' = ShiftDown(rec, i)
  BY Zenon DEF CleanThreadMem
<1>4. idx[i] # None /\ i < MaxThread
  BY <1>3, NoneAssumption, SizeAssumption DEF Table, Slot
<1>5. i \in Recorded
  BY <1>1, <1>4 DEF Table, Publishing, Recorded
<1>6. blocks(i) = {chain[rec[i]][k] : k \in On(i)}
  BY <1>1, <1>5 DEF Books, Counted, Uncounted, On
<1>7. \A j \in Recorded : \A k \in On(j) : chain[rec[j]][k] \in Block /\ owner[chain[rec[j]][k]] = idx[j]
  BY <1>1 DEF Books, Owned, Freed, Recorded, On, TypeInv, TypeOK
<1>8. \A j \in Recorded : j # i => idx[j] # idx[i]
  BY <1>4, <1>5 DEF Table, Recorded
<1>9. \A j \in Recorded : j # i => \A k \in On(j) : owner'[chain[rec[j]][k]] = idx[j]
  <2>1. ASSUME NEW j \in Recorded, j # i, NEW k \in On(j)
        PROVE  owner'[chain[rec[j]][k]] = idx[j]
    <3>1. chain[rec[j]][k] \in Block /\ owner[chain[rec[j]][k]] = idx[j]
      BY <1>7
    <3>2. \A b \in blocks(i) : owner[b] = idx[i]
      BY SMTT(30), <1>5, <1>6, <1>7
    <3>3. chain[rec[j]][k] \notin blocks(i)
      BY <1>8, <2>1, <3>1, <3>2
    <3>. QED
      BY <1>3, <3>1, <3>3
  <2>. QED
    BY <2>1
<1>10. \A k \in On(i) : owner'[chain[rec[i]][k]] = None
  BY <1>3, <1>5, <1>6, <1>7
<1>11. ~fault'
  BY <1>3, <1>4, <1>5, <1>6, <1>7
<1>12. \A a \in Block : owner'[a] # None => owner[a] # None
  BY <1>3
<1>13. Books'
  BY <1>1, <1>2, <1>3, <1>4, <1>5, <1>9, <1>10, <1>12, BooksRemoval DEF Books, TypeInv
<1>. QED
  BY <1>11, <1>13

\* One turn of the worker's loop: the books stay true.
LEMMA WorkerScanBooks ==
  ASSUME TypeInv, Table, Control, Places, Books, Sound, client.serial, WorkerScan
  PROVE  Books' /\ ~fault'
<1>1. /\ wpc = "scan" /\ UNCHANGED <<idx, rec, chain, num, owner, pc, op, at, blk, loc>>
      /\ \A u \in Thread : pc[u] \in {"idle", "lock"} /\ op[u] # "malloc"
  BY DEF WorkerScan, listVars, threadVars, Control, Inside, Working
<1>5. \A u \in Thread : blk[u] = None
  BY <1>1, NoneHeld DEF Books
<1>2. CASE wat = MaxThread \/ idx[wat] = None
  <2>1. ~(wat < MaxThread /\ idx[wat] # None)
    BY <1>2, SizeAssumption DEF TypeInv, TypeOK, Slot
  <2>2. wpc' # "free" /\ fault' = fault
    BY <2>1, Zenon DEF WorkerScan
  <2>3. BooksKept
    BY <1>1, <1>5, <2>2 DEF BooksKept
  <2>. QED
    BY <2>2, <2>3, BooksFrame DEF Sound
<1>3. CASE wat < MaxThread /\ idx[wat] # None
  <2>1. wat \in Recorded
    BY <1>1, <1>3 DEF Table, Publishing, Recorded, TypeInv, TypeOK
  <2>2. ~fault' /\ (wpc' = "free" => wk' = 1 /\ wat' = wat)
    BY <1>3, <2>1 DEF WorkerScan, Recorded, Sound
  <2>3. num[rec[wat]] \in Nat
    BY <2>1 DEF Recorded, TypeInv, TypeOK
  <2>4. Counted' /\ Distinct' /\ Listed' /\ Held' /\ Linked'
    BY <1>1 DEF Books, Counted, Distinct, Listed, Held, Linked, Recorded, On, Uncounted
  <2>5. Owned'
    BY <1>1, <2>2 DEF Books, Owned, Freed, Recorded, On
  <2>6. FreeLoop'
    BY <1>1, <2>2, <2>3 DEF FreeLoop
  <2>. QED
    BY <2>2, <2>4, <2>5, <2>6 DEF Books
<1>4. wat = MaxThread \/ wat < MaxThread
  BY SizeAssumption DEF TypeInv, TypeOK, Slot
<1>. QED
  BY <1>2, <1>3, <1>4

\* The worker gives a block back: the books stay true.
LEMMA WorkerFreeBooks ==
  ASSUME TypeInv, Table, Control, Places, Books, Sound, client.serial, WorkerFree
  PROVE  /\ Books' /\ ~fault'
         /\ wat \in Recorded /\ wk \in On(wat)
         /\ owner' = [owner EXCEPT ![chain[rec[wat]][wk]] = None]
         /\ owner[chain[rec[wat]][wk]] = idx[wat]
<1>. DEFINE c == chain[rec[wat]]
<1>1. /\ wpc = "free" /\ wk <= num[rec[wat]] /\ wk \in Nat /\ wk >= 1
      /\ UNCHANGED <<idx, rec, chain, num, pc, op, at, blk, loc, wpc, wat>>
      /\ wat \in Recorded /\ idx[wat] # None
      /\ \A u \in Thread : pc[u] \in {"idle", "lock"} /\ op[u] # "malloc"
  BY DEF WorkerFree, listVars, threadVars, Places, WorkerPlace, Recorded, Control,
         Inside, Working,
         TypeInv, TypeOK
<1>2. \A u \in Thread : blk[u] = None
  BY <1>1, NoneHeld DEF Books
<1>3. Len(c) = num[rec[wat]] /\ wk \in On(wat)
  <2>1. Len(c) = num[rec[wat]] /\ num[rec[wat]] \in Nat
    BY ZenonT(60), <1>1 DEF Books, Counted, Uncounted, Recorded, TypeInv, TypeOK
  <2>. QED
    BY <1>1, <2>1 DEF On
<1>4. owner[c[wk]] = idx[wat]
  BY <1>1, <1>3 DEF Books, Owned, Freed
<1>5. /\ owner' = [owner EXCEPT ![c[wk]] = None] /\ wk' = wk + 1 /\ fault' = fault
  <2>1. ~(wk > Len(c) \/ owner[c[wk]] = None)
    BY <1>1, <1>3, <1>4 DEF On
  <2>. QED
    BY <2>1, Zenon DEF WorkerFree
<1>6. \A j \in Recorded : \A k \in On(j) : chain[rec[j]][k] \in Block
  BY DEF Recorded, On, TypeInv, TypeOK
<1>7. Counted' /\ Distinct' /\ Held' /\ Linked'
  BY <1>1, <1>2 DEF Books, Counted, Distinct, Held, Linked, Recorded, On, Uncounted
<1>8. Owned'
  <2>1. ASSUME NEW j \in Recorded, NEW k \in On(j)
        PROVE  owner'[chain[rec[j]][k]] = IF wat = j /\ k < wk + 1 THEN None ELSE idx[j]
    <3>1. CASE j # wat
      <4>1. idx[j] # idx[wat] /\ owner[chain[rec[j]][k]] = idx[j]
        BY <1>1, <3>1 DEF Table, Recorded, Books, Owned, Freed
      <4>. QED
        BY <1>4, <1>5, <1>6, <3>1, <4>1 DEF TypeInv, TypeOK
    <3>2. CASE j = wat /\ k = wk
      <4>1. c[wk] \in Block /\ wk < wk + 1
        BY <1>1, <1>3, <1>6
      <4>. QED
        BY <1>5, <3>2, <4>1 DEF TypeInv, TypeOK
    <3>3. CASE j = wat /\ k # wk
      <4>1. c[k] # c[wk]
        BY <1>1, <1>3, <3>3 DEF Books, Distinct
      <4>2. owner[c[k]] = IF k < wk THEN None ELSE idx[wat]
        BY <1>1, <3>3 DEF Books, Owned, Freed
      <4>3. k \in Nat
        BY DEF On
      <4>. QED
        BY <1>1, <1>5, <1>6, <3>3, <4>1, <4>2, <4>3
    <3>. QED
      BY <3>1, <3>2, <3>3
  <2>2. Recorded' = Recorded /\ \A j \in Recorded : On(j)' = On(j)
    BY <1>1 DEF Recorded, On
  <2>. QED
    BY <1>1, <1>5, <2>1, <2>2 DEF Owned, Freed
<1>9. Listed'
  <2>1. \A a \in Block : owner'[a] # None => owner[a] # None
    BY <1>5 DEF TypeInv, TypeOK
  <2>. QED
    BY <1>1, <2>1 DEF Books, Listed, Recorded, On
<1>10. FreeLoop'
  BY <1>1, <1>5 DEF FreeLoop, Recorded, TypeInv, TypeOK
<1>. QED
  BY <1>1, <1>3, <1>4, <1>5, <1>7, <1>8, <1>9, <1>10 DEF Books, Sound

\* The worker closes the gap: the books stay true.
LEMMA WorkerShiftBooks ==
  ASSUME TypeInv, Table, Control, Places, Books, Sound, client.serial, WorkerShift
  PROVE  Books'
<1>1. /\ wpc = "free" /\ wpc' = "scan" /\ wk > num[rec[wat]] /\ wk \in Nat
      /\ UNCHANGED <<chain, num, owner, pc, op, at, blk, loc>>
      /\ idx' = ShiftDown(idx, wat) /\ rec' = ShiftDown(rec, wat)
      /\ wat \in Recorded /\ wat < MaxThread
      /\ \A u \in Thread : pc[u] \in {"idle", "lock"} /\ op[u] # "malloc"
  BY DEF WorkerShift, listVars, threadVars, Places, WorkerPlace, Recorded, Control,
         Inside, Working,
         TypeInv, TypeOK
<1>2. \A u \in Thread : blk[u] = None
  BY <1>1, NoneHeld DEF Books
<1>3. Len(chain[rec[wat]]) = num[rec[wat]] /\ num[rec[wat]] \in Nat
  BY ZenonT(60), <1>1 DEF Books, Counted, Uncounted, Recorded, TypeInv, TypeOK
<1>4. \A k \in On(wat) : owner[chain[rec[wat]][k]] = None
  BY <1>1, <1>3 DEF Books, Owned, Freed, On
<1>5. \A j \in Recorded : j # wat => \A k \in On(j) : owner[chain[rec[j]][k]] = idx[j]
  BY DEF Books, Owned, Freed
<1>. QED
  BY <1>1, <1>2, <1>4, <1>5, BooksRemoval DEF Books, TypeInv


----------------------------------------------------------------------------
(* Every step                                                              *)

\* Every step keeps the types.
LEMMA TypesNext ==
  ASSUME TypeInv, Next
  PROVE  TypeInv'
<1>1. ASSUME NEW t \in Thread, PoolStep(t), Sound PROVE TypeInv'
  BY <1>1, LockTypes, ScanTypes, ClaimTypes, PublishTypes, FindTailTypes, LinkTypes,
     CountTypes,
     UseRegisterTypes, UseMarkTypes DEF PoolStep
<1>2. ASSUME NEW t \in Thread, ClientStep(t), Sound PROVE TypeInv'
  BY <1>2, MallocBeginTypes, CallBeginTypes, BirthTypes, ThreadExitTypes, FreeTypes,
     CleanThreadMemTypes DEF ClientStep
<1>3. ASSUME WorkerStep, Sound PROVE TypeInv'
  BY <1>3, WorkerTurnTypes, WorkerLockTypes, WorkerScanTypes, WorkerFreeTypes,
     WorkerShiftTypes
     DEF WorkerStep
<1>. QED
  BY <1>1, <1>2, <1>3, EnableTypes, StopWorkerTypes DEF Next

\* Every step keeps the table, and unless the process dies what the calls know
\* of it.
LEMMA RegistryNext ==
  ASSUME TypeInv, Table, Control, Places, client.serial, Next
  PROVE  Table' /\ (~fault' => Control' /\ Places')
<1>. TypeInv'
  BY TypesNext
<1>1. ASSUME NEW t \in Thread, PoolStep(t), Sound PROVE Table' /\ (~fault' => Control' /\ Places')
  BY <1>1, LockRegistry, ScanRegistry, ClaimRegistry, PublishRegistry, FindTailRegistry,
     LinkRegistry, CountRegistry, UseRegisterRegistry, UseMarkRegistry DEF PoolStep
<1>2. ASSUME NEW t \in Thread, ClientStep(t), Sound PROVE Table' /\ (~fault' => Control' /\ Places')
  BY <1>2, MallocBeginRegistry, CallBeginRegistry, BirthRegistry, ThreadExitRegistry,
     FreeRegistry, CleanThreadMemRegistry DEF ClientStep
<1>3. ASSUME WorkerStep, Sound PROVE Table' /\ (~fault' => Control' /\ Places')
  BY <1>3, WorkerTurnRegistry, WorkerLockRegistry, WorkerScanRegistry, WorkerFreeRegistry,
     WorkerShiftRegistry DEF WorkerStep
<1>. QED
  BY <1>1, <1>2, <1>3, EnableRegistry, StopWorkerRegistry DEF Next

\* The steps that leave the books alone.
LEMMA KeepsBooks ==
  ASSUME TypeInv, Table, Control, Places, Books, Sound, client.serial
  PROVE  /\ \A t \in Thread : /\ Lock(t) \/ Scan(t) \/ FindTail(t) \/ UseRegister(t) \/ UseMark(t) => BooksKept
                              /\ Birth(t) \/ ThreadExit(t) => BooksKept
                              /\ \A call \in Op \ {"malloc"} : CallBegin(t, call) => BooksKept
         /\ Enable \/ StopWorker \/ WorkerTurn \/ WorkerLock => BooksKept
<1>. /\ pc \in [Thread -> {"idle", "lock", "scan", "claim", "publish", "use", "link", "count"}]
     /\ op \in [Thread -> Op \cup {None}]
  BY DEF TypeInv, TypeOK
<1>1. ASSUME NEW t \in Thread, Lock(t) PROVE BooksKept
  BY <1>1 DEF Lock, BooksKept, listVars, workerVars
<1>2. ASSUME NEW t \in Thread, Scan(t) PROVE BooksKept
  <2>1. ScanFrame(t) /\ (ScanFull(t) \/ ScanEmpty(t) \/ ScanHit(t) \/ ScanMiss(t))
    BY <1>2, ScanCases DEF TypeInv
  <2>2. CASE ScanFull(t)
    BY <2>1, <2>2 DEF BooksKept, ScanFrame, ScanFull
  <2>3. CASE ScanEmpty(t) \/ ScanHit(t)
    BY <2>1, <2>3 DEF BooksKept, ScanFrame, ScanEmpty, ScanHit
  <2>4. CASE ScanMiss(t)
    BY <2>1, <2>4 DEF BooksKept, ScanFrame, ScanMiss, TypeInv, TypeOK
  <2>. QED
    BY <2>1, <2>2, <2>3, <2>4
<1>3. ASSUME NEW t \in Thread, FindTail(t) PROVE BooksKept
  BY <1>3 DEF FindTail, BooksKept, listVars, workerVars
<1>4. ASSUME NEW t \in Thread, UseRegister(t) \/ UseMark(t) PROVE BooksKept
  <2>1. /\ pc[t] = "use" /\ op[t] # "malloc" /\ pc' = [pc EXCEPT ![t] = "idle"]
        /\ op' = [op EXCEPT ![t] = None] /\ at' = [at EXCEPT ![t] = 0]
        /\ UNCHANGED <<idx, rec, chain, num, owner, blk, wpc, wat, wk>>
    BY <1>4 DEF UseRegister, UseMark, Return, workerVars
  <2>2. blk[t] = None
    BY <2>1 DEF Books, Held
  <2>. QED
    BY <2>1, <2>2 DEF BooksKept, TypeInv, TypeOK
<1>5. ASSUME NEW t \in Thread, Birth(t) \/ ThreadExit(t) PROVE BooksKept
  BY <1>5 DEF Birth, ThreadExit, BooksKept, listVars, threadVars, workerVars
<1>6. ASSUME NEW t \in Thread, NEW call \in Op \ {"malloc"}, CallBegin(t, call) PROVE BooksKept
  <2>1. /\ pc[t] = "idle" /\ op[t] # "malloc" /\ pc' = [pc EXCEPT ![t] = "lock"]
        /\ op' = [op EXCEPT ![t] = call] /\ at' = [at EXCEPT ![t] = 0]
        /\ UNCHANGED <<idx, rec, chain, num, owner, blk, wpc, wat, wk>>
    BY <1>6 DEF CallBegin, InMalloc, listVars, workerVars
  <2>2. blk[t] = None
    BY <2>1 DEF Books, Held
  <2>. QED
    BY <2>1, <2>2 DEF BooksKept, TypeInv, TypeOK
<1>7. ASSUME Enable \/ StopWorker \/ WorkerTurn \/ WorkerLock PROVE BooksKept
  <2>1. UNCHANGED <<idx, rec, chain, num, owner, pc, op, at, blk>>
    BY <1>7 DEF Enable, StopWorker, WorkerTurn, WorkerLock, listVars, threadVars
  <2>. QED
    BY <1>7, <2>1 DEF Enable, StopWorker, WorkerTurn, WorkerLock, workerVars, BooksKept
<1>. QED
  BY <1>1, <1>2, <1>3, <1>4, <1>5, <1>6, <1>7

\* Every step keeps the books true, for a client that frees no block by hand.
LEMMA BooksNext ==
  ASSUME TypeInv, Table, Control, Places, Books, client.serial, ~client.frees, Next
  PROVE  Books'
<1>1. ASSUME NEW t \in Thread, PoolStep(t), Sound PROVE Books'
  BY <1>1, KeepsBooks, BooksFrame, ClaimBooks, PublishBooks, LinkBooks, CountBooks
  DEF PoolStep
<1>2. ASSUME NEW t \in Thread, ClientStep(t), Sound PROVE Books'
  BY <1>2, KeepsBooks, BooksFrame, MallocBeginBooks, CleanThreadMemBooks
  DEF ClientStep, Free
<1>3. ASSUME WorkerStep, Sound PROVE Books'
  BY <1>3, KeepsBooks, BooksFrame, WorkerScanBooks, WorkerFreeBooks, WorkerShiftBooks
  DEF WorkerStep
<1>. QED
  BY <1>1, <1>2, <1>3, KeepsBooks, BooksFrame DEF Next

----------------------------------------------------------------------------
(* Who is marked EXIT                                                      *)

\* A record is marked EXIT only when its thread is exiting.
Marks == \A i \in Recorded : state[rec[i]] = "exit" => life[idx[i]] \in {"marked", "exited"}

\* Nothing the marks depend on changes.
LEMMA MarksFrame ==
  ASSUME Marks, UNCHANGED <<idx, rec, state, life>>
  PROVE  Marks'
  BY DEF Marks, Recorded

\* Closing a gap keeps the marks true.
LEMMA MarksRemoval ==
  ASSUME TypeOK, Marks, NEW i \in Slot, i < MaxThread,
         idx' = ShiftDown(idx, i), rec' = ShiftDown(rec, i), UNCHANGED <<state, life>>
  PROVE  Marks'
<1>1. /\ idx' = [j \in Slot |-> idx[Source(i, j)]]
      /\ rec' = [j \in Slot |-> rec[Source(i, j)]]
  BY ShiftDownIs
<1>2. ASSUME NEW j \in Recorded'
      PROVE  Source(i, j) \in Recorded /\ rec'[j] = rec[Source(i, j)] /\ idx'[j] = idx[Source(i, j)]
  BY <1>1, SourceFacts DEF Recorded
<1>. QED
  BY <1>2 DEF Marks

\* A tid is stored in an empty slot, and the fresh record is not marked.
LEMMA ClaimMarks ==
  ASSUME TypeInv, Control, Places, Marks, NEW t \in Thread, NEW r \in Rec, Claim(t, r), Table
  PROVE  Marks'
<1>1. /\ at[t] \in Slot /\ rec[at[t]] = None /\ \A i \in Slot : rec[i] # r
      /\ idx' = [idx EXCEPT ![at[t]] = Key(t)] /\ state' = [state EXCEPT ![r] = "unknown"]
      /\ UNCHANGED <<rec, life>>
  BY DEF Claim, FreshRec, Places, Place, Table, TypeInv, TypeOK
<1>. QED
  BY <1>1 DEF Marks, Recorded, TypeInv, TypeOK

\* The record that is stored is not marked.
LEMMA PublishMarks ==
  ASSUME TypeInv, Places, Marks, NEW t \in Thread, Publish(t)
  PROVE  Marks'
<1>1. /\ at[t] \in Slot /\ rec' = [rec EXCEPT ![at[t]] = loc[t]] /\ state[loc[t]] = "unknown"
      /\ UNCHANGED <<idx, state, life>>
  BY DEF Publish, listVars, Places, Place, TypeInv, TypeOK
<1>. QED
  BY <1>1 DEF Marks, Recorded, TypeInv, TypeOK

\* register: its own record is not EXIT any more.
LEMMA UseRegisterMarks ==
  ASSUME TypeInv, Places, Marks, NEW t \in Thread, UseRegister(t)
  PROVE  Marks'
<1>1. /\ state' = state \/ state' = [state EXCEPT ![rec[at[t]]] = "alive"]
      /\ UNCHANGED <<idx, rec, life>>
  BY DEF UseRegister
<1>. QED
  BY <1>1 DEF Marks, Recorded, TypeInv, TypeOK

\* mark_exit: the record is that of the thread that is exiting.
LEMMA UseMarkMarks ==
  ASSUME TypeInv, Table, Places, Marks, ~client.errs, NEW t \in Thread, UseMark(t)
  PROVE  Marks'
<1>1. op[t] = "mark" /\ Key(t) = t
  BY DEF UseMark, TypeInv, Locals, Key
<1>2. /\ at[t] \in Slot /\ idx[at[t]] = t /\ life' = [life EXCEPT ![t] = "marked"]
      /\ state' = state \/ state' = [state EXCEPT ![rec[at[t]]] = "exit"]
      /\ UNCHANGED <<idx, rec>>
  BY <1>1 DEF UseMark, Places, Place, TypeInv, TypeOK
<1>3. \A i \in Recorded : i # at[t] => rec[i] # rec[at[t]]
  BY <1>2 DEF Table, Recorded
<1>4. \A u \in Thread : life'[u] = IF u = t THEN "marked" ELSE life[u]
  BY <1>2 DEF TypeInv, TypeOK
<1>5. \A i \in Recorded : idx[i] \in Thread
  BY DEF Table, Recorded, TypeInv, TypeOK
<1>6. \A i \in Recorded : i # at[t] => state'[rec[i]] = state[rec[i]]
  BY <1>2, <1>3 DEF Recorded, TypeInv, TypeOK
<1>. QED
  BY <1>2, <1>4, <1>5, <1>6 DEF Marks, Recorded

\* A thread is created or exits: no exiting thread comes back to life, tids
\* not being re-used.
LEMMA LifeMarks ==
  ASSUME TypeInv, Table, Marks, ~client.reuses, NEW t \in Thread, Birth(t) \/ ThreadExit(t)
  PROVE  Marks'
<1>1. /\ UNCHANGED <<idx, rec, state>>
      /\ \A u \in Thread : life[u] \in {"marked", "exited"} => life'[u] \in {"marked", "exited"}
  BY DEF Birth, ThreadExit, listVars, TypeInv, TypeOK
<1>2. \A i \in Recorded : idx[i] \in Thread
  BY DEF Table, Recorded, TypeInv, TypeOK
<1>. QED
  BY <1>1, <1>2 DEF Marks, Recorded

\* Both removals close a gap.
LEMMA RemovalMarks ==
  ASSUME TypeInv, Table, Places, Marks, WorkerShift \/ \E t, q \in Thread : CleanThreadMem(t, q)
  PROVE  Marks'
<1>1. CASE WorkerShift
  BY <1>1, MarksRemoval DEF WorkerShift, listVars, Places, WorkerPlace, TypeInv, TypeOK
<1>2. CASE \E t, q \in Thread : CleanThreadMem(t, q)
  <2>1. PICK q \in Thread : \E t \in Thread : CleanThreadMem(t, q)
    BY <1>2
  <2>2. PICK i \in Slot : idx[i] = q /\ idx' = ShiftDown(idx, i) /\ rec' = ShiftDown(rec, i)
    BY <2>1 DEF CleanThreadMem
  <2>3. i < MaxThread
    BY <2>2, NoneAssumption, SizeAssumption DEF Table, Slot
  <2>4. UNCHANGED <<state, life>>
    BY <2>1 DEF CleanThreadMem, listVars
  <2>. QED
    BY <2>2, <2>3, <2>4, MarksRemoval DEF TypeInv
<1>. QED
  BY <1>1, <1>2

\* Every step keeps the marks true, for a client that neither errs nor re-uses
\* tids.
LEMMA MarksNext ==
  ASSUME TypeInv, Table, Control, Places, Marks, ~client.errs, ~client.reuses, Next
  PROVE  Marks'
<1>1. ASSUME NEW t \in Thread, PoolStep(t) PROVE Marks'
  <2>1. ASSUME Lock(t) \/ Scan(t) \/ FindTail(t) \/ Link(t) \/ Count(t)
        PROVE  UNCHANGED <<idx, rec, state, life>>
    BY <2>1 DEF Lock, Scan, FindTail, Link, Count, listVars
  <2>. QED
    BY <1>1, <2>1, MarksFrame, ClaimMarks, PublishMarks, UseRegisterMarks, UseMarkMarks
    DEF PoolStep
<1>2. ASSUME NEW t \in Thread, ClientStep(t) PROVE Marks'
  <2>1. ASSUME \/ \E a \in Block : MallocBegin(t, a) \/ Free(t, a)
               \/ \E call \in Op \ {"malloc"} : CallBegin(t, call)
        PROVE  UNCHANGED <<idx, rec, state, life>>
    BY <2>1 DEF MallocBegin, CallBegin, Free, listVars
  <2>. QED
    BY <1>2, <2>1, MarksFrame, LifeMarks, RemovalMarks DEF ClientStep
<1>3. ASSUME WorkerStep \/ Enable \/ StopWorker PROVE Marks'
  <2>1. ASSUME Enable \/ StopWorker \/ WorkerTurn \/ WorkerLock \/ WorkerScan \/ WorkerFree
        PROVE  UNCHANGED <<idx, rec, state, life>>
    BY <2>1 DEF Enable, StopWorker, WorkerTurn, WorkerLock, WorkerScan, WorkerFree, listVars
  <2>. QED
    BY <1>3, <2>1, MarksFrame, RemovalMarks DEF WorkerStep
<1>. QED
  BY <1>1, <1>2, <1>3 DEF Next

----------------------------------------------------------------------------
(* The inductive invariant                                                 *)

\* The registry for serial clients, as long as the process lives; the books if
\* freeing is left to the pool; the marks if no call is wrong and no tid re-used.
IInv ==
    /\ TypeInv
    /\ client.serial => Table /\ (~fault => Control /\ Places)
    /\ client.serial /\ ~client.frees => Books
    /\ client.serial /\ ~client.errs /\ ~client.reuses => Marks

\* The initial states satisfy the invariant.
LEMMA InitIInv == Init => IInv
<1>. SUFFICES ASSUME Init PROVE IInv
  OBVIOUS
<1>1. 0 \in Slot /\ MaxThread \in Slot /\ MaxThread # 0
  BY SizeAssumption DEF Slot
<1>2. PICK r \in Rec : /\ rec = [i \in Slot |-> IF i = 0 THEN r ELSE None]
                       /\ state = [q \in Rec |-> IF q = r THEN "main" ELSE "unknown"]
  BY DEF Init
<1>3. r # None /\ Main # None
  BY NoneAssumption, MainAssumption
<1>4. TypeOK
  <2>1. << >> \in Seq(Block)
    OBVIOUS
  <2>. QED
    BY <1>1, <1>2, <2>1, MainAssumption DEF Init, TypeOK
<1>5. Locals
  BY ClientAssumption, NoneAssumption DEF Init, Locals, Op
<1>6. Table
  BY <1>1, <1>2, <1>3, SizeAssumption DEF Init, Table, Slot
<1>7. Control
  BY NoneAssumption DEF Init, Control, Inside, Working, Op
<1>8. Places
  BY DEF Init, Places, Place, WorkerPlace
<1>9. Books
  <2>1. \A i \in Recorded : rec[i] = r /\ chain[rec[i]] = << >> /\ num[rec[i]] = 0 /\ On(i) = {}
    BY <1>2 DEF Init, Recorded, On
  <2>2. \A i \in Slot : ~Uncounted(i)
    BY DEF Init, Uncounted
  <2>3. Counted
    BY <2>1, <2>2 DEF Counted, Recorded
  <2>5. Distinct /\ Owned
    BY <2>1, Zenon DEF Distinct, Owned
  <2>4. Listed /\ Held /\ Linked /\ FreeLoop
    BY DEF Init, Listed, Held, Linked, FreeLoop
  <2>. QED
    BY <2>3, <2>4, <2>5 DEF Books
<1>10. Marks
  BY <1>2 DEF Marks, Recorded
<1>. QED
  BY <1>4, <1>5, <1>6, <1>7, <1>8, <1>9, <1>10 DEF IInv, TypeInv

\* Every step, and every stuttering step, preserves it.
LEMMA IInvNext == IInv /\ [Next]_vars => IInv'
<1>1. ASSUME IInv, Next PROVE IInv'
  <2>1. client' = client /\ ~fault /\ TypeInv
    BY <1>1 DEF Next, Sound, IInv
  <2>2. TypeInv'
    BY <1>1, <2>1, TypesNext
  <2>. QED
    BY <1>1, <2>1, <2>2, RegistryNext, BooksNext, MarksNext DEF IInv
<1>2. ASSUME IInv, UNCHANGED vars PROVE IInv'
  <2>1. TypeInv'
    BY <1>2 DEF IInv, TypeInv, TypeOK, Locals, vars, listVars, threadVars, workerVars
  <2>2. Table <=> Table'
    BY <1>2 DEF Table, Publishing, vars, threadVars
  <2>3. Control <=> Control'
    BY <1>2 DEF Control, Inside, Working, vars, threadVars, workerVars
  <2>4. Places <=> Places'
    BY <1>2
    DEF Places, Place, WorkerPlace, Before, Key, vars, listVars, threadVars, workerVars
  <2>5. BooksKept
    BY <1>2 DEF BooksKept, vars, listVars, threadVars, workerVars
  <2>6. UNCHANGED <<idx, rec, state, life, client, fault>>
    BY <1>2 DEF vars, listVars
  <2>. QED
    BY <1>2, <2>1, <2>2, <2>3, <2>4, <2>5, <2>6, BooksFrame, MarksFrame DEF IInv
<1>. QED
  BY <1>1, <1>2

----------------------------------------------------------------------------
(* The theorems                                                            *)

\* A malloc has searched the whole table and found every slot but the last
\* taken by some other thread.
TableFull ==
    \E t \in Thread : op[t] = "malloc" /\ \A j \in Slot : j < MaxThread => idx[j] \in Thread \ {t}

\* The clients NoFault speaks of.
Careful == client.serial /\ ~(client.frees /\ (client.reclaims \/ client.cleans))

\* The one step that faults is malloc's, at the end of a full table: no call
\* finds a NULL record, and neither removal finds a block that is gone.
LEMMA FaultNext ==
  ASSUME IInv, Next, Careful, fault'
  PROVE  TableFull'
<1>1. /\ TypeInv /\ Table /\ Control /\ Places /\ Sound /\ client.serial /\ (~client.frees => Books)
  BY DEF IInv, Careful, Next, Sound
<1>2. ASSUME NEW t \in Thread, Scan(t) PROVE TableFull'
  <2>1. ScanFrame(t) /\ ScanFull(t)
    BY <1>1, <1>2, ScanCases DEF TypeInv, ScanEmpty, ScanHit, ScanMiss, Sound
  <2>2. at[t] = MaxThread /\ op[t] = "malloc" /\ UNCHANGED <<idx, op>> /\ Before(MaxThread, t)
    BY <1>1, <2>1 DEF ScanFrame, ScanFull, Places, Place, Key
  <2>3. \A j \in Slot : j < MaxThread => idx[j] \in Thread \ {t}
    BY <1>1, <2>2 DEF Before, TypeInv, TypeOK
  <2>. QED
    BY <2>2, <2>3 DEF TableFull
<1>3. ASSUME NEW t \in Thread, PoolStep(t), ~Scan(t) PROVE FALSE
  <2>1. ~FindTail(t)
    BY <1>1 DEF FindTail, Places, Place, Sound
  <2>. QED
    BY <1>1, <1>3, <2>1
    DEF PoolStep, Lock, Claim, Publish, Link, Count, UseRegister, UseMark, Sound
<1>4. ASSUME NEW t \in Thread, ClientStep(t) PROVE FALSE
  <2>1. \A q \in Thread : ~CleanThreadMem(t, q)
    <3>1. client.cleans => Books
      BY <1>1 DEF Careful
    <3>. QED
      BY <1>1, <3>1, CleanThreadMemBooks DEF CleanThreadMem
  <2>. QED
    BY <1>1, <1>4, <2>1
    DEF ClientStep, MallocBegin, CallBegin, Birth, ThreadExit, Free, Sound
<1>5. ASSUME WorkerStep \/ Enable \/ StopWorker PROVE FALSE
  <2>1. ~WorkerScan /\ ~WorkerFree
    <3>1. wpc # "off" => Books
      BY <1>1 DEF Careful, TypeInv, Locals
    <3>. QED
      BY <1>1, <3>1, WorkerScanBooks, WorkerFreeBooks DEF WorkerScan, WorkerFree
  <2>. QED
    BY <1>1, <1>5, <2>1
    DEF WorkerStep, WorkerTurn, WorkerLock, WorkerShift, Enable, StopWorker, Sound
<1>. QED
  BY <1>2, <1>3, <1>4, <1>5 DEF Next

\* The invariant holds in every reachable state.
THEOREM InvariantHolds == Spec => []IInv
BY InitIInv, IInvNext, PTL DEF Spec

\* Every variable keeps its type.
THEOREM TypeCorrect == Spec => []TypeOK
<1>1. IInv => TypeOK
  BY DEF IInv, TypeInv
<1>. QED
  BY <1>1, InvariantHolds, PTL

\* The loops over the table, which stop at the first zero slot, see every
\* thread that is recorded (mempool.c, tlibc_find_or_alloc_thread_idx and the
\* removals).
THEOREM RegistryCompactHolds == Spec => []RegistryCompact
<1>1. IInv => RegistryCompact
  <2>. SUFFICES ASSUME IInv, client.serial PROVE RegistryCompact
    BY DEF RegistryCompact
  <2>. QED
    BY DEF IInv, Table, Publishing, RegistryCompact
<1>. QED
  BY <1>1, InvariantHolds, PTL

\* What the books say of a block nobody is about to record.
LEMMA BooksRecord ==
  ASSUME TypeInv, Table, Books
  PROVE  AllRecorded
<1>1. SUFFICES ASSUME NEW a \in Block, owner[a] # None, \A t \in Thread : blk[t] # a
               PROVE  /\ \E i \in Slot : idx[i] = owner[a]
                      /\ \A j \in Slot : rec[j] \in Rec => (rec[j] \in RecordsOf(a) <=> idx[j] = owner[a])
  BY DEF AllRecorded
<1>2. PICK i \in Recorded : \E k \in On(i) : chain[rec[i]][k] = a
  BY <1>1 DEF Books, Listed
<1>3. PICK k \in On(i) : chain[rec[i]][k] = a
  BY <1>2
<1>4. i \in Slot /\ rec[i] \in Rec /\ chain[rec[i]] \in Seq(Block) /\ num[rec[i]] \in Nat
  BY DEF Recorded, TypeInv, TypeOK
<1>5. idx[i] = owner[a] /\ idx[i] # None
  BY <1>1, <1>3 DEF Books, Owned
<1>6. k <= num[rec[i]]
  <2>1. CASE ~Uncounted(i)
    BY <1>3, <1>4, <2>1 DEF Books, Counted, On
  <2>2. CASE Uncounted(i)
    <3>1. PICK t \in Thread : pc[t] = "count" /\ at[t] = i
      BY <2>2 DEF Uncounted
    <3>2. k # Len(chain[rec[i]])
      BY <1>1, <1>3, <3>1 DEF Books, Linked
    <3>3. Len(chain[rec[i]]) = num[rec[i]] + 1
      BY <2>2 DEF Books, Counted
    <3>. QED
      BY <1>4, <3>2, <3>3 DEF On
  <2>. QED
    BY <2>1, <2>2
<1>7. rec[i] \in RecordsOf(a)
  BY <1>3, <1>4, <1>6 DEF RecordsOf, On
<1>8. ASSUME NEW j \in Slot, rec[j] \in Rec, rec[j] \in RecordsOf(a) PROVE idx[j] = owner[a]
  <2>1. j \in Recorded /\ \E l \in On(j) : chain[rec[j]][l] = a
    BY <1>8, NoneAssumption DEF RecordsOf, On, Recorded, TypeInv, TypeOK
  <2>. QED
    BY <1>1, <2>1 DEF Books, Owned
<1>9. ASSUME NEW j \in Slot, idx[j] = owner[a] PROVE j = i
  BY <1>4, <1>5, <1>9 DEF Table
<1>. QED
  BY <1>4, <1>5, <1>7, <1>8, <1>9

\* A block that malloc has returned is on the list of the thread it was
\* allocated by, counted, and on no other (mempool.c, malloc), if no two malloc
\* calls overlap and the program frees nothing by hand.
THEOREM BlockRecordedHolds == Spec => []BlockRecorded
<1>1. IInv => BlockRecorded
  BY BooksRecord DEF IInv, BlockRecorded
<1>. QED
  BY <1>1, InvariantHolds, PTL

\* The pool touches bad memory in one case only: malloc has found the table
\* full and uses thread_mem_list[-1] (mempool.c, the unchecked idx in malloc).
THEOREM FaultOnlyWhenFull == Spec => [](Careful /\ fault => TableFull)
<1>1. Init => (Careful /\ fault => TableFull)
  BY DEF Init
<1>2. IInv /\ (Careful /\ fault => TableFull) /\ [Next]_vars => (Careful /\ fault => TableFull)'
  <2>1. ASSUME IInv, Next, Careful', fault' PROVE TableFull'
    <3>1. Careful
      BY <2>1 DEF Careful, Next, Sound
    <3>. QED
      BY <2>1, <3>1, FaultNext
  <2>2. ASSUME Careful /\ fault => TableFull, UNCHANGED vars, Careful', fault' PROVE TableFull'
    BY <2>2 DEF Careful, TableFull, vars, threadVars
  <2>. QED
    BY <2>1, <2>2
<1>. QED
  BY <1>1, <1>2, InvariantHolds, PTL DEF Spec

\* So it never does when the table has room for every thread there is: the
\* slots taken by others would map into too few threads.
THEOREM NoFaultHolds ==
  ASSUME IsFiniteSet(Thread), Cardinality(Thread) <= MaxThread
  PROVE  Spec => []NoFault
<1>1. IInv /\ (Careful /\ fault => TableFull) => NoFault
  <2>1. SUFFICES ASSUME IInv, Careful, TableFull PROVE FALSE
    BY DEF NoFault, Careful
  <2>2. PICK t \in Thread : \A j \in Slot : j < MaxThread => idx[j] \in Thread \ {t}
    BY <2>1 DEF TableFull
  <2>. DEFINE S == 0 .. MaxThread - 1
              T == Thread \ {t}
              f == [j \in S |-> idx[j]]
  <2>3. S \subseteq Slot /\ \A j \in S : j < MaxThread
    BY SizeAssumption DEF Slot
  <2>4. f \in [S -> T]
    BY <2>2, <2>3
  <2>5. \A i, j \in S : f[i] = f[j] => i = j
    <3>1. Table
      BY <2>1 DEF IInv, Careful
    <3>2. \A i \in S : idx[i] # None
      BY <2>2, <2>3, NoneAssumption
    <3>. QED
      BY <2>3, <3>1, <3>2 DEF Table
  <2>6. IsFiniteSet(S) /\ Cardinality(S) = MaxThread
    <3>1. IsFiniteSet(S) /\ Cardinality(S) = IF 0 > MaxThread - 1 THEN 0 ELSE MaxThread - 1 - 0 + 1
      BY FS_Interval, SizeAssumption
    <3>. QED
      BY <3>1, SizeAssumption
  <2>7. IsFiniteSet(T) /\ Cardinality(T) = Cardinality(Thread) - 1
    BY FS_RemoveElement
  <2>8. Cardinality(Thread) \in Nat
    BY FS_CardinalityType
  <2>9. Cardinality(T) < Cardinality(S)
    BY <2>6, <2>7, <2>8, SizeAssumption
  <2>. HIDE DEF S, T, f
  <2>. QED
    BY <2>4, <2>5, <2>6, <2>7, <2>9, FS_PigeonHole
<1>. QED
  BY <1>1, InvariantHolds, FaultOnlyWhenFull, PTL

\* The worker frees no block of a thread that is neither marked nor gone
\* (mempool.c, tlibc_mempool_clean_thread), as long as no two malloc calls
\* overlap, no tid comes back and the program neither frees by hand nor errs.
THEOREM ReclaimsOnlyExited == Spec => ReclaimOnlyExited
<1>. DEFINE A == \A a \in Block :
                   wpc = "free" /\ owner[a] # None /\ owner'[a] = None
                   /\ client.serial /\ ~client.reuses /\ ~client.frees /\ ~client.errs
                      => life[owner[a]] \in {"marked", "exited"}
<1>1. IInv /\ [Next]_vars => [A]_vars
  <2>1. SUFFICES ASSUME IInv, Next, NEW a \in Block, wpc = "free", owner[a] # None, owner'[a] = None,
                        client.serial, ~client.reuses, ~client.frees, ~client.errs
                 PROVE  life[owner[a]] \in {"marked", "exited"}
    OBVIOUS
  <2>2. TypeInv /\ Table /\ Control /\ Places /\ Books /\ Marks /\ Sound
    BY <2>1 DEF IInv, Next, Sound
  <2>3. ASSUME ~WorkerFree PROVE FALSE
    <3>1. ASSUME NEW t \in Thread, ClientStep(t) PROVE FALSE
      BY <2>1, <3>1
      DEF ClientStep, MallocBegin, CallBegin, Birth, ThreadExit, Free, CleanThreadMem,
          Quiet
    <3>2. ASSUME NEW t \in Thread, PoolStep(t) PROVE FALSE
      BY <2>1, <3>2
      DEF PoolStep, Lock, Scan, Claim, Publish, FindTail, Link, Count, UseRegister,
          UseMark
    <3>3. ~(Enable \/ StopWorker \/ WorkerStep)
      BY <2>1, <2>3
      DEF WorkerStep, WorkerTurn, WorkerLock, WorkerScan, WorkerShift, Enable,
          StopWorker
    <3>. QED
      BY <2>1, <3>1, <3>2, <3>3 DEF Next
  <2>4. /\ wat \in Recorded /\ state[rec[wat]] = "exit"
        /\ owner' = [owner EXCEPT ![chain[rec[wat]][wk]] = None]
        /\ owner[chain[rec[wat]][wk]] = idx[wat]
    BY <2>1, <2>2, <2>3, WorkerFreeBooks DEF Places, WorkerPlace
  <2>5. a = chain[rec[wat]][wk]
    BY <2>1, <2>2, <2>4 DEF TypeInv, TypeOK
  <2>. QED
    BY <2>2, <2>4, <2>5 DEF Marks
<1>. QED
  BY <1>1, InvariantHolds, PTL DEF Spec, ReclaimOnlyExited
=============================================================================
