--------------------------- MODULE PthreadProofs ---------------------------
(***************************************************************************)
(* Proofs about Pthread, for any sets of threads, stack mappings and       *)
(* result values.  The inductive invariant IInv adds to the invariants of  *)
(* Pthread who may touch a struct pthread: handles have one holder, a      *)
(* struct under construction has none, a cleared tid means that no running *)
(* thread stands on that stack.                                            *)
(***************************************************************************)
EXTENDS Pthread, TLAPS

\* A thread that does not exist has no struct; only the original main thread
\* runs on MainPth, which is never unmapped and whose tid never changes.
ThreadShape ==
    /\ \A t \in Thread : IF pc[t] = "none" THEN self[t] = NoPth ELSE self[t] \in Pth
    /\ \A t \in Thread : self[t] = MainPth => t = Main
    /\ MainPth \in mapped
    /\ tid[MainPth] = Main

\* A held handle has a tid, is held once and is not under construction.
HandleShape ==
    /\ \A t, u \in Thread : t # u => own[t] \cap own[u] = {}
    /\ \A t \in Thread : \A m \in own[t] : tid[m] # Fresh
    /\ \A t, u \in Thread : pc[t] \in CreatePc => cur[t] \notin own[u]

\* A struct under construction is a stack of one creator's own, and nobody
\* runs on it until clone.
CreateShape ==
    /\ \A t \in Thread : pc[t] \in CreatePc => cur[t] \in Stack
    /\ \A t, u \in Thread :
           pc[t] \in CreatePc /\ pc[u] \in CreatePc /\ cur[t] = cur[u] => t = u
    /\ \A t \in Thread : pc[t] = "clone" => tid[cur[t]] = Fresh
    /\ \A t \in Thread : pc[t] = "store" => tid[cur[t]] # Fresh

\* A joiner works on a handle it holds.
JoinShape ==
    \A t \in Thread :
        /\ pc[t] \in JoinPc => cur[t] \in own[t]
        /\ pc[t] \in {"result", "unmap"} => tid[cur[t]] = Cleared

\* A thread leaves its result before its tid is cleared.
ResultShape ==
    /\ \A t \in Thread : pc[t] = "exiting" => result[self[t]] \in Value
    /\ \A m \in mapped : tid[m] = Cleared => result[m] \in Value

\* A detached struct is mapped and no join of it is under way.
DetachShape ==
    /\ detached \subseteq mapped
    /\ \A t \in Thread : pc[t] \in JoinPc \cup {"clone"} => cur[t] \notin detached

IInv ==
    /\ TypeOK
    /\ ThreadShape
    /\ StackInUse
    /\ HandleMapped
    /\ HandleShape
    /\ CreateShape
    /\ JoinShape
    /\ ResultShape
    /\ DetachShape
    /\ SleepJustified

----------------------------------------------------------------------------
(* One lemma per action: it preserves every part of the invariant.          *)
\* CreateMap keeps every part of the invariant.
LEMMA CreateMapStep ==
  ASSUME IInv, NEW t \in Thread, NEW m \in Stack, CreateMap(t, m)
  PROVE  IInv'
<1>1. TypeOK'
  BY DEF IInv, TypeOK, CreateMap, Pth, Tid, Pc, LivePc, CreatePc
<1>2. ThreadShape'
  BY DEF IInv, TypeOK, ThreadShape, CreateMap
<1>3. StackInUse'
  BY DEF IInv, TypeOK, StackInUse, CreateMap, Pc
<1>4. HandleMapped'
  BY DEF IInv, TypeOK, HandleMapped, CreateMap
<1>5. HandleShape'
  BY DEF IInv, TypeOK, HandleMapped, HandleShape, CreateMap
<1>6. CreateShape'
  BY DEF IInv, TypeOK, HandleMapped, CreateShape, CreateMap, Pth, Pc, LivePc
<1>7. JoinShape'
  BY DEF IInv, HandleMapped, JoinShape, CreateMap, JoinPc
<1>8. ResultShape'
  BY TidAssumption DEF IInv, TypeOK, StackInUse, ResultShape, CreateMap, Pth,
     Pc
<1>9. DetachShape'
  BY DEF IInv, TypeOK, DetachShape, CreateMap
<1>10. SleepJustified'
  BY DEF IInv, TypeOK, HandleMapped, SleepJustified, CreateMap, Pc, LivePc
<1>. QED
  BY <1>1, <1>2, <1>3, <1>4, <1>5, <1>6, <1>7, <1>8, <1>9, <1>10 DEF IInv

\* CloneChild keeps every part of the invariant.
LEMMA CloneChildStep ==
  ASSUME IInv, NEW t \in Thread, NEW c \in Thread, CloneChild(t, c)
  PROVE  IInv'
<1>1. TypeOK'
  BY DEF IInv, TypeOK, CloneChild, Tid, Pc, LivePc, CreatePc
<1>2. ThreadShape'
  BY MainAssumption DEF IInv, TypeOK, ThreadShape, CreateShape, CloneChild,
     Pth, Pc, LivePc, JoinPc
<1>3. StackInUse'
  BY TidAssumption DEF IInv, TypeOK, StackInUse, HandleMapped, CreateShape,
     CloneChild, Pc, LivePc
<1>4. HandleMapped'
  BY DEF IInv, TypeOK, HandleMapped, CloneChild, JoinPc, CreatePc
<1>5. HandleShape'
  BY DEF IInv, TypeOK, HandleShape, CloneChild, CreatePc
<1>6. CreateShape'
  BY TidAssumption DEF IInv, TypeOK, CreateShape, CloneChild, Pth, CreatePc
<1>7. JoinShape'
  BY DEF IInv, TypeOK, HandleShape, JoinShape, CloneChild, Pc, LivePc, JoinPc
<1>8. ResultShape'
  BY TidAssumption DEF IInv, TypeOK, ResultShape, CloneChild
<1>9. DetachShape'
  BY DEF IInv, TypeOK, DetachShape, CloneChild, JoinPc
<1>10. SleepJustified'
  BY DEF IInv, TypeOK, SleepJustified, CloneChild
<1>. QED
  BY <1>1, <1>2, <1>3, <1>4, <1>5, <1>6, <1>7, <1>8, <1>9, <1>10 DEF IInv

\* CloneFails keeps every part of the invariant.
LEMMA CloneFailsStep ==
  ASSUME IInv, NEW t \in Thread, CloneFails(t)
  PROVE  IInv'
<1>1. TypeOK'
  BY DEF IInv, TypeOK, CloneFails, Pc, LivePc
<1>2. ThreadShape'
  BY MainAssumption DEF IInv, TypeOK, ThreadShape, CreateShape, CloneFails,
     Pc, LivePc, JoinPc
<1>3. StackInUse'
  BY TidAssumption DEF IInv, TypeOK, StackInUse, CreateShape, CloneFails, Pc
<1>4. HandleMapped'
  BY DEF IInv, TypeOK, HandleMapped, HandleShape, CreateShape, JoinShape,
     CloneFails, JoinPc, CreatePc
<1>5. HandleShape'
  BY DEF IInv, TypeOK, HandleShape, CloneFails, CreatePc
<1>6. CreateShape'
  BY DEF IInv, TypeOK, CreateShape, CloneFails, CreatePc
<1>7. JoinShape'
  BY DEF IInv, JoinShape, CloneFails, JoinPc
<1>8. ResultShape'
  BY DEF IInv, TypeOK, ResultShape, CloneFails
<1>9. DetachShape'
  BY DEF IInv, TypeOK, DetachShape, CloneFails, JoinPc
<1>10. SleepJustified'
  BY DEF IInv, TypeOK, SleepJustified, CloneFails
<1>. QED
  BY <1>1, <1>2, <1>3, <1>4, <1>5, <1>6, <1>7, <1>8, <1>9, <1>10 DEF IInv

\* StoreHandle keeps every part of the invariant.
LEMMA StoreHandleStep ==
  ASSUME IInv, NEW t \in Thread, StoreHandle(t)
  PROVE  IInv'
<1>1. TypeOK'
  BY DEF IInv, TypeOK, HandleMapped, StoreHandle, Pc, LivePc
<1>2. ThreadShape'
  BY DEF IInv, TypeOK, ThreadShape, StoreHandle
<1>3. StackInUse'
  BY DEF IInv, TypeOK, StackInUse, StoreHandle, Pc
<1>4. HandleMapped'
  BY DEF IInv, TypeOK, HandleMapped, StoreHandle, JoinPc, CreatePc
<1>5. HandleShape'
  BY DEF IInv, TypeOK, HandleShape, CreateShape, StoreHandle, CreatePc
<1>6. CreateShape'
  BY DEF IInv, TypeOK, CreateShape, StoreHandle, CreatePc
<1>7. JoinShape'
  BY DEF IInv, JoinShape, StoreHandle, JoinPc
<1>8. ResultShape'
  BY DEF IInv, TypeOK, ResultShape, StoreHandle
<1>9. DetachShape'
  BY DEF IInv, DetachShape, StoreHandle, JoinPc
<1>10. SleepJustified'
  BY DEF IInv, TypeOK, SleepJustified, StoreHandle
<1>. QED
  BY <1>1, <1>2, <1>3, <1>4, <1>5, <1>6, <1>7, <1>8, <1>9, <1>10 DEF IInv

\* JoinBegin keeps every part of the invariant.
LEMMA JoinBeginStep ==
  ASSUME IInv, NEW t \in Thread, NEW m \in Pth, JoinBegin(t, m)
  PROVE  IInv'
<1>1. TypeOK'
  BY DEF IInv, TypeOK, JoinBegin, Pc, LivePc, JoinPc
<1>2. ThreadShape'
  BY DEF IInv, TypeOK, ThreadShape, JoinBegin
<1>3. StackInUse'
  BY DEF IInv, TypeOK, StackInUse, JoinBegin, Pc
<1>4. HandleMapped'
  BY DEF IInv, TypeOK, HandleMapped, JoinBegin
<1>5. HandleShape'
  BY DEF IInv, HandleShape, JoinBegin, CreatePc
<1>6. CreateShape'
  BY DEF IInv, CreateShape, JoinBegin, CreatePc
<1>7. JoinShape'
  BY DEF IInv, TypeOK, JoinShape, JoinBegin
<1>8. ResultShape'
  BY DEF IInv, TypeOK, ResultShape, JoinBegin
<1>9. DetachShape'
  BY DEF IInv, TypeOK, DetachShape, JoinBegin
<1>10. SleepJustified'
  BY DEF IInv, TypeOK, SleepJustified, JoinBegin
<1>. QED
  BY <1>1, <1>2, <1>3, <1>4, <1>5, <1>6, <1>7, <1>8, <1>9, <1>10 DEF IInv

\* JoinTest keeps every part of the invariant.
LEMMA JoinTestStep ==
  ASSUME IInv, NEW t \in Thread, JoinTest(t)
  PROVE  IInv'
<1>1. TypeOK'
  BY DEF IInv, TypeOK, JoinTest, Tid, Pc, LivePc, JoinPc
<1>2. ThreadShape'
  BY DEF IInv, TypeOK, ThreadShape, JoinTest
<1>3. StackInUse'
  BY DEF IInv, TypeOK, StackInUse, JoinTest, Pc
<1>4. HandleMapped'
  BY DEF IInv, TypeOK, HandleMapped, JoinTest, Pc, LivePc
<1>5. HandleShape'
  BY DEF IInv, HandleShape, JoinTest, CreatePc
<1>6. CreateShape'
  BY DEF IInv, CreateShape, JoinTest, CreatePc
<1>7. JoinShape'
  BY DEF IInv, JoinShape, JoinTest, JoinPc
<1>8. ResultShape'
  BY DEF IInv, TypeOK, ResultShape, JoinTest
<1>9. DetachShape'
  BY DEF IInv, DetachShape, JoinTest, JoinPc
<1>10. SleepJustified'
  BY DEF IInv, TypeOK, SleepJustified, JoinTest
<1>. QED
  BY <1>1, <1>2, <1>3, <1>4, <1>5, <1>6, <1>7, <1>8, <1>9, <1>10 DEF IInv

\* JoinLoad keeps every part of the invariant.
LEMMA JoinLoadStep ==
  ASSUME IInv, NEW t \in Thread, JoinLoad(t)
  PROVE  IInv'
<1>1. TypeOK'
  BY DEF IInv, TypeOK, HandleMapped, JoinLoad, Pc, LivePc, JoinPc
<1>2. ThreadShape'
  BY DEF IInv, TypeOK, ThreadShape, JoinLoad
<1>3. StackInUse'
  BY DEF IInv, TypeOK, StackInUse, JoinLoad, Pc
<1>4. HandleMapped'
  BY DEF IInv, TypeOK, HandleMapped, JoinLoad, Pc, LivePc
<1>5. HandleShape'
  BY DEF IInv, HandleShape, JoinLoad, CreatePc
<1>6. CreateShape'
  BY DEF IInv, CreateShape, JoinLoad, CreatePc
<1>7. JoinShape'
  BY DEF IInv, JoinShape, JoinLoad, JoinPc
<1>8. ResultShape'
  BY DEF IInv, TypeOK, ResultShape, JoinLoad
<1>9. DetachShape'
  BY DEF IInv, DetachShape, JoinLoad, JoinPc
<1>10. SleepJustified'
  BY DEF IInv, TypeOK, SleepJustified, JoinLoad
<1>. QED
  BY <1>1, <1>2, <1>3, <1>4, <1>5, <1>6, <1>7, <1>8, <1>9, <1>10 DEF IInv

\* FutexWait keeps every part of the invariant.
LEMMA FutexWaitStep ==
  ASSUME IInv, NEW t \in Thread, FutexWait(t)
  PROVE  IInv'
<1>1. TypeOK'
  BY DEF IInv, TypeOK, FutexWait, Pc, LivePc, JoinPc
<1>2. ThreadShape'
  BY DEF IInv, TypeOK, ThreadShape, FutexWait
<1>3. StackInUse'
  BY DEF IInv, TypeOK, StackInUse, FutexWait, Pc
<1>4. HandleMapped'
  BY DEF IInv, TypeOK, HandleMapped, FutexWait, Pc, LivePc
<1>5. HandleShape'
  BY DEF IInv, HandleShape, FutexWait, CreatePc
<1>6. CreateShape'
  BY DEF IInv, CreateShape, FutexWait, CreatePc
<1>7. JoinShape'
  BY DEF IInv, JoinShape, FutexWait, JoinPc
<1>8. ResultShape'
  BY DEF IInv, TypeOK, ResultShape, FutexWait
<1>9. DetachShape'
  BY DEF IInv, DetachShape, FutexWait, JoinPc
<1>10. SleepJustified'
  BY DEF IInv, TypeOK, HandleShape, JoinShape, SleepJustified, FutexWait, Tid,
     JoinPc
<1>. QED
  BY <1>1, <1>2, <1>3, <1>4, <1>5, <1>6, <1>7, <1>8, <1>9, <1>10 DEF IInv

\* FutexInterrupted keeps every part of the invariant.
LEMMA FutexInterruptedStep ==
  ASSUME IInv, NEW t \in Thread, FutexInterrupted(t)
  PROVE  IInv'
<1>1. TypeOK'
  BY DEF IInv, TypeOK, FutexInterrupted, Pc, LivePc, JoinPc
<1>2. ThreadShape'
  BY DEF IInv, TypeOK, ThreadShape, FutexInterrupted
<1>3. StackInUse'
  BY DEF IInv, TypeOK, StackInUse, FutexInterrupted, Pc
<1>4. HandleMapped'
  BY DEF IInv, TypeOK, HandleMapped, FutexInterrupted, Pc, LivePc
<1>5. HandleShape'
  BY DEF IInv, HandleShape, FutexInterrupted, CreatePc
<1>6. CreateShape'
  BY DEF IInv, CreateShape, FutexInterrupted, CreatePc
<1>7. JoinShape'
  BY DEF IInv, JoinShape, FutexInterrupted, JoinPc
<1>8. ResultShape'
  BY DEF IInv, TypeOK, ResultShape, FutexInterrupted
<1>9. DetachShape'
  BY DEF IInv, DetachShape, FutexInterrupted, JoinPc
<1>10. SleepJustified'
  BY DEF IInv, TypeOK, SleepJustified, FutexInterrupted
<1>. QED
  BY <1>1, <1>2, <1>3, <1>4, <1>5, <1>6, <1>7, <1>8, <1>9, <1>10 DEF IInv

\* JoinResult keeps every part of the invariant.
LEMMA JoinResultStep ==
  ASSUME IInv, NEW t \in Thread, JoinResult(t)
  PROVE  IInv'
<1>1. TypeOK'
  BY DEF IInv, TypeOK, JoinResult, Pc, LivePc, JoinPc
<1>2. ThreadShape'
  BY DEF IInv, TypeOK, ThreadShape, JoinResult
<1>3. StackInUse'
  BY DEF IInv, TypeOK, StackInUse, JoinResult, Pc
<1>4. HandleMapped'
  BY DEF IInv, TypeOK, HandleMapped, JoinResult, Pc, LivePc
<1>5. HandleShape'
  BY DEF IInv, HandleShape, JoinResult, CreatePc
<1>6. CreateShape'
  BY DEF IInv, CreateShape, JoinResult, CreatePc
<1>7. JoinShape'
  BY DEF IInv, JoinShape, JoinResult, JoinPc
<1>8. ResultShape'
  BY DEF IInv, TypeOK, ResultShape, JoinResult
<1>9. DetachShape'
  BY DEF IInv, DetachShape, JoinResult, JoinPc
<1>10. SleepJustified'
  BY DEF IInv, TypeOK, SleepJustified, JoinResult
<1>. QED
  BY <1>1, <1>2, <1>3, <1>4, <1>5, <1>6, <1>7, <1>8, <1>9, <1>10 DEF IInv

\* JoinUnmap keeps every part of the invariant.
LEMMA JoinUnmapStep ==
  ASSUME IInv, NEW t \in Thread, JoinUnmap(t)
  PROVE  IInv'
<1>1. TypeOK'
  BY DEF IInv, TypeOK, JoinUnmap, Pc, LivePc
<1>2. ThreadShape'
  BY MainAssumption DEF IInv, ThreadShape, JoinUnmap
<1>3. StackInUse'
  BY TidAssumption DEF IInv, TypeOK, StackInUse, JoinShape, JoinUnmap, Pc
<1>4. HandleMapped'
  BY DEF IInv, TypeOK, HandleMapped, HandleShape, JoinShape, JoinUnmap,
     JoinPc, CreatePc
<1>5. HandleShape'
  BY DEF IInv, HandleShape, JoinUnmap, CreatePc
<1>6. CreateShape'
  BY DEF IInv, CreateShape, JoinUnmap, CreatePc
<1>7. JoinShape'
  BY DEF IInv, TypeOK, JoinShape, JoinUnmap, JoinPc
<1>8. ResultShape'
  BY DEF IInv, TypeOK, ResultShape, JoinUnmap
<1>9. DetachShape'
  BY DEF IInv, TypeOK, DetachShape, JoinUnmap, JoinPc
<1>10. SleepJustified'
  BY DEF IInv, TypeOK, SleepJustified, JoinUnmap
<1>. QED
  BY <1>1, <1>2, <1>3, <1>4, <1>5, <1>6, <1>7, <1>8, <1>9, <1>10 DEF IInv

\* PthreadExit keeps every part of the invariant.
LEMMA PthreadExitStep ==
  ASSUME IInv, NEW t \in Thread, NEW v \in Value, PthreadExit(t, v)
  PROVE  IInv'
<1>1. TypeOK'
  BY DEF IInv, TypeOK, PthreadExit, Pc, LivePc
<1>2. ThreadShape'
  BY DEF IInv, TypeOK, ThreadShape, PthreadExit
<1>3. StackInUse'
  BY DEF IInv, TypeOK, StackInUse, PthreadExit, Pc
<1>4. HandleMapped'
  BY DEF IInv, HandleMapped, PthreadExit, JoinPc, CreatePc
<1>5. HandleShape'
  BY DEF IInv, HandleShape, PthreadExit, CreatePc
<1>6. CreateShape'
  BY DEF IInv, CreateShape, PthreadExit, CreatePc
<1>7. JoinShape'
  BY DEF IInv, JoinShape, PthreadExit, JoinPc
<1>8. ResultShape'
  BY DEF IInv, TypeOK, ThreadShape, ResultShape, PthreadExit
<1>9. DetachShape'
  BY DEF IInv, DetachShape, PthreadExit, JoinPc
<1>10. SleepJustified'
  BY DEF IInv, TypeOK, SleepJustified, PthreadExit
<1>. QED
  BY <1>1, <1>2, <1>3, <1>4, <1>5, <1>6, <1>7, <1>8, <1>9, <1>10 DEF IInv

\* KernelClear keeps every part of the invariant.
LEMMA KernelClearStep ==
  ASSUME IInv, NEW t \in Thread, KernelClear(t)
  PROVE  IInv'
<1>1. TypeOK'
  BY DEF IInv, TypeOK, KernelClear, Tid, Pc
<1>2. ThreadShape'
  BY DEF IInv, TypeOK, ThreadShape, KernelClear
<1>3. StackInUse'
  BY DEF IInv, StackInUse, KernelClear, LivePc, JoinPc, CreatePc
<1>4. HandleMapped'
  BY DEF IInv, HandleMapped, KernelClear, JoinPc, CreatePc
<1>5. HandleShape'
  BY TidAssumption DEF IInv, HandleShape, KernelClear, CreatePc
<1>6. CreateShape'
  BY TidAssumption DEF IInv, TypeOK, StackInUse, CreateShape, KernelClear, Pc,
     CreatePc
<1>7. JoinShape'
  BY DEF IInv, JoinShape, KernelClear, JoinPc
<1>8. ResultShape'
  BY DEF IInv, TypeOK, ResultShape, KernelClear
<1>9. DetachShape'
  BY DEF IInv, DetachShape, KernelClear, JoinPc
<1>10. SleepJustified'
  BY DEF IInv, TypeOK, SleepJustified, KernelClear
<1>. QED
  BY <1>1, <1>2, <1>3, <1>4, <1>5, <1>6, <1>7, <1>8, <1>9, <1>10 DEF IInv

\* KernelWake keeps every part of the invariant.
LEMMA KernelWakeStep ==
  ASSUME IInv, NEW t \in Thread, KernelWake(t)
  PROVE  IInv'
<1>1. TypeOK'
  BY DEF IInv, TypeOK, KernelWake, Pc, LivePc, JoinPc
<1>2. ThreadShape'
  BY NoPthAssumption DEF IInv, TypeOK, ThreadShape, KernelWake
<1>3. StackInUse'
  BY DEF IInv, TypeOK, StackInUse, KernelWake, LivePc, JoinPc, CreatePc
<1>4. HandleMapped'
  BY DEF IInv, TypeOK, HandleMapped, KernelWake, JoinPc, CreatePc
<1>5. HandleShape'
  BY DEF IInv, TypeOK, HandleShape, KernelWake, CreatePc
<1>6. CreateShape'
  BY DEF IInv, TypeOK, CreateShape, KernelWake, CreatePc
<1>7. JoinShape'
  BY DEF IInv, TypeOK, JoinShape, KernelWake, JoinPc
<1>8. ResultShape'
  BY DEF IInv, TypeOK, ResultShape, KernelWake
<1>9. DetachShape'
  BY DEF IInv, TypeOK, DetachShape, KernelWake, JoinPc
<1>10. SleepJustified'
  BY DEF IInv, TypeOK, HandleShape, JoinShape, SleepJustified, KernelWake,
     JoinPc
<1>. QED
  BY <1>1, <1>2, <1>3, <1>4, <1>5, <1>6, <1>7, <1>8, <1>9, <1>10 DEF IInv

\* PthreadDetach keeps every part of the invariant.
LEMMA PthreadDetachStep ==
  ASSUME IInv, NEW t \in Thread, NEW m \in Pth, PthreadDetach(t, m)
  PROVE  IInv'
<1>1. TypeOK'
  BY DEF IInv, TypeOK, PthreadDetach
<1>2. ThreadShape'
  BY DEF IInv, TypeOK, ThreadShape, PthreadDetach
<1>3. StackInUse'
  BY DEF IInv, TypeOK, StackInUse, PthreadDetach
<1>4. HandleMapped'
  BY DEF IInv, TypeOK, HandleMapped, PthreadDetach
<1>5. HandleShape'
  BY DEF IInv, TypeOK, HandleShape, PthreadDetach
<1>6. CreateShape'
  BY DEF IInv, TypeOK, CreateShape, PthreadDetach
<1>7. JoinShape'
  BY DEF IInv, TypeOK, JoinShape, PthreadDetach
<1>8. ResultShape'
  BY DEF IInv, TypeOK, ResultShape, PthreadDetach
<1>9. DetachShape'
  BY DEF IInv, TypeOK, HandleMapped, HandleShape, JoinShape, DetachShape,
     PthreadDetach, Pc, LivePc, JoinPc
<1>10. SleepJustified'
  BY DEF IInv, TypeOK, SleepJustified, PthreadDetach
<1>. QED
  BY <1>1, <1>2, <1>3, <1>4, <1>5, <1>6, <1>7, <1>8, <1>9, <1>10 DEF IInv

\* PassHandle keeps every part of the invariant.
LEMMA PassHandleStep ==
  ASSUME IInv, NEW t \in Thread, NEW u \in Thread, NEW m \in Pth, PassHandle(t, u, m)
  PROVE  IInv'
<1>1. TypeOK'
  BY DEF IInv, TypeOK, PassHandle
<1>2. ThreadShape'
  BY DEF IInv, TypeOK, ThreadShape, PassHandle
<1>3. StackInUse'
  BY DEF IInv, TypeOK, StackInUse, PassHandle
<1>4. HandleMapped'
  BY DEF IInv, TypeOK, HandleMapped, PassHandle
<1>5. HandleShape'
  BY DEF IInv, TypeOK, HandleShape, PassHandle
<1>6. CreateShape'
  BY DEF IInv, TypeOK, CreateShape, PassHandle
<1>7. JoinShape'
  BY DEF IInv, TypeOK, JoinShape, PassHandle, JoinPc
<1>8. ResultShape'
  BY DEF IInv, TypeOK, ResultShape, PassHandle
<1>9. DetachShape'
  BY DEF IInv, TypeOK, DetachShape, PassHandle
<1>10. SleepJustified'
  BY DEF IInv, TypeOK, SleepJustified, PassHandle
<1>. QED
  BY <1>1, <1>2, <1>3, <1>4, <1>5, <1>6, <1>7, <1>8, <1>9, <1>10 DEF IInv

----------------------------------------------------------------------------
(* The invariant                                                            *)

\* The initial state satisfies the invariant.
LEMMA InitInv == Init => IInv
<1> SUFFICES ASSUME Init PROVE IInv
  OBVIOUS
<1> USE MainAssumption, NoPthAssumption, TidAssumption DEF Init
<1>1. TypeOK
  BY DEF TypeOK, Pth, Tid, Pc, LivePc
<1>2. ThreadShape
  BY DEF ThreadShape, Pth
<1>3. StackInUse
  BY DEF StackInUse, Pth, LivePc, JoinPc, CreatePc
<1>4. HandleMapped /\ HandleShape /\ CreateShape
  BY DEF HandleMapped, HandleShape, CreateShape, Pth, JoinPc, CreatePc
<1>5. JoinShape /\ ResultShape /\ DetachShape /\ SleepJustified
  BY DEF JoinShape, ResultShape, DetachShape, SleepJustified, Pth, JoinPc
<1>. QED
  BY <1>1, <1>2, <1>3, <1>4, <1>5 DEF IInv

\* So does a state that differs in nothing.
LEMMA StutterInv ==
  ASSUME IInv, UNCHANGED vars
  PROVE  IInv'
BY DEF IInv, TypeOK, ThreadShape, StackInUse, HandleMapped, HandleShape,
   CreateShape, JoinShape, ResultShape, DetachShape, SleepJustified, vars

\* The invariant is inductive.
LEMMA NextInv ==
  ASSUME IInv, [Next]_vars
  PROVE  IInv'
<1>1. CASE UNCHANGED vars
  BY <1>1, StutterInv
<1>2. ASSUME NEW t \in Thread, Create(t) PROVE IInv'
  BY <1>2, CreateMapStep, CloneChildStep, CloneFailsStep, StoreHandleStep DEF Create
<1>3. ASSUME NEW t \in Thread, Join(t) PROVE IInv'
  <2>1. CASE \E m \in Pth : JoinBegin(t, m)
    BY <2>1, JoinBeginStep
  <2>2. CASE JoinTest(t) \/ JoinLoad(t)
    BY <2>2, JoinTestStep, JoinLoadStep
  <2>3. CASE FutexWait(t) \/ FutexInterrupted(t)
    BY <2>3, FutexWaitStep, FutexInterruptedStep
  <2>4. CASE JoinResult(t) \/ JoinUnmap(t)
    BY <2>4, JoinResultStep, JoinUnmapStep
  <2>. QED
    BY <1>3, <2>1, <2>2, <2>3, <2>4 DEF Join
<1>4. ASSUME NEW t \in Thread, NEW v \in Value, PthreadExit(t, v) PROVE IInv'
  BY <1>4, PthreadExitStep
<1>5. ASSUME NEW t \in Thread, KernelClear(t) \/ KernelWake(t) PROVE IInv'
  BY <1>5, KernelClearStep, KernelWakeStep
<1>6. ASSUME NEW t \in Thread, NEW m \in Pth, PthreadDetach(t, m) PROVE IInv'
  BY <1>6, PthreadDetachStep
<1>7. ASSUME NEW t \in Thread, NEW u \in Thread, NEW m \in Pth, PassHandle(t, u, m)
      PROVE  IInv'
  BY <1>7, PassHandleStep
<1>. QED
  BY <1>1, <1>2, <1>3, <1>4, <1>5, <1>6, <1>7 DEF Next

\* The inductive invariant holds in every reachable state.
THEOREM Invariance == Spec => []IInv
<1>. QED
  BY InitInv, NextInv, PTL DEF Spec

----------------------------------------------------------------------------
(* What the library promises                                                *)

\* Every variable keeps its type.
THEOREM TypeCorrect == Spec => []TypeOK
<1>1. IInv => TypeOK
  BY DEF IInv
<1>. QED
  BY <1>1, Invariance, PTL

\* pthread_join never unmaps a stack on which a thread still runs, and a
\* running thread's struct pthread carries its own tid.
THEOREM StacksAreSafe == Spec => []StackInUse
<1>1. IInv => StackInUse
  BY DEF IInv
<1>. QED
  BY <1>1, Invariance, PTL

\* pthread_join and pthread_detach never touch an unmapped struct pthread.
THEOREM HandlesAreMapped == Spec => []HandleMapped
<1>1. IInv => HandleMapped
  BY DEF IInv
<1>. QED
  BY <1>1, Invariance, PTL

\* JoinAfterExit follows from the invariant: whoever still runs on the stack
\* has its tid there, and that is 0.
LEMMA JoinAfterExitInv == IInv => JoinAfterExit
<1> SUFFICES ASSUME IInv, NEW t \in Thread, pc[t] \in {"result", "unmap"}
             PROVE  /\ tid[cur[t]] = Cleared
                    /\ result[cur[t]] \in Value
                    /\ \A u \in Thread : self[u] = cur[t] => pc[u] \in {"wake"}
  BY DEF JoinAfterExit
<1>1. cur[t] \in own[t] /\ tid[cur[t]] = Cleared
  BY DEF IInv, JoinShape, JoinPc
<1>2. cur[t] \in mapped /\ cur[t] \in Pth
  BY <1>1 DEF IInv, HandleMapped, TypeOK
<1>3. result[cur[t]] \in Value
  BY <1>1, <1>2 DEF IInv, ResultShape
<1>4. ASSUME NEW u \in Thread, self[u] = cur[t] PROVE pc[u] = "wake"
  <2>1. pc[u] # "none"
    BY <1>2, <1>4, NoPthAssumption DEF IInv, ThreadShape
  <2>2. pc[u] \notin LivePc
    BY <1>1, <1>4, TidAssumption DEF IInv, StackInUse
  <2>. QED
    BY <2>1, <2>2 DEF IInv, TypeOK, Pc
<1>. QED
  BY <1>1, <1>3, <1>4

\* A join takes the result only after the thread has left it and is gone.
THEOREM JoinsAfterExit == Spec => []JoinAfterExit
<1>. QED
  BY Invariance, JoinAfterExitInv, PTL

\* The only sleeper nobody will wake is one whose second read of tid saw 0.
THEOREM SleepersJustified == Spec => []SleepJustified
<1>1. IInv => SleepJustified
  BY DEF IInv
<1>. QED
  BY <1>1, Invariance, PTL

\* A step out of a state of the invariant keeps what is detached mapped.
LEMMA DetachedStep ==
  ASSUME IInv, [Next]_vars, NEW m \in Pth, m \in detached
  PROVE  m \in mapped' /\ m \in detached'
<1>1. m \in mapped
  BY DEF IInv, DetachShape
<1>2. CASE UNCHANGED vars
  BY <1>1, <1>2 DEF vars
<1>3. ASSUME NEW t \in Thread, Create(t) PROVE m \in mapped' /\ m \in detached'
  <2>1. CASE \E s \in Stack : CreateMap(t, s)
    BY <1>1, <2>1 DEF CreateMap
  <2>2. CASE \E c \in Thread : CloneChild(t, c)
    BY <1>1, <2>2 DEF CloneChild
  <2>3. CASE CloneFails(t)
    BY <1>1, <2>3 DEF CloneFails, IInv, DetachShape
  <2>4. CASE StoreHandle(t)
    BY <1>1, <2>4 DEF StoreHandle
  <2>. QED
    BY <1>3, <2>1, <2>2, <2>3, <2>4 DEF Create
<1>4. ASSUME NEW t \in Thread, Join(t) PROVE m \in mapped' /\ m \in detached'
  <2>1. CASE JoinUnmap(t)
    BY <1>1, <2>1 DEF JoinUnmap, IInv, DetachShape, JoinPc
  <2>2. CASE ~JoinUnmap(t)
    BY <1>1, <1>4, <2>2 DEF Join, JoinBegin, JoinTest, JoinLoad, FutexWait,
       FutexInterrupted, JoinResult
  <2>. QED
    BY <2>1, <2>2
<1>5. ASSUME NEW t \in Thread, NEW v \in Value, PthreadExit(t, v)
      PROVE  m \in mapped' /\ m \in detached'
  BY <1>1, <1>5 DEF PthreadExit
<1>6. ASSUME NEW t \in Thread, KernelClear(t) \/ KernelWake(t)
      PROVE  m \in mapped' /\ m \in detached'
  BY <1>1, <1>6 DEF KernelClear, KernelWake
<1>7. ASSUME NEW t \in Thread, NEW n \in Pth, PthreadDetach(t, n)
      PROVE  m \in mapped' /\ m \in detached'
  BY <1>1, <1>7 DEF PthreadDetach
<1>8. ASSUME NEW t \in Thread, NEW u \in Thread, NEW n \in Pth, PassHandle(t, u, n)
      PROVE  m \in mapped' /\ m \in detached'
  BY <1>1, <1>8 DEF PassHandle
<1>. QED
  BY <1>2, <1>3, <1>4, <1>5, <1>6, <1>7, <1>8 DEF Next

\* The stack of a detached thread is never given back.
THEOREM DetachedIsKept == Spec => DetachedKept
<1>1. ASSUME IInv, [Next]_vars
      PROVE  [\A m \in Pth : m \in detached => m \in mapped' /\ m \in detached']_vars
  BY <1>1, DetachedStep
<1>. QED
  BY <1>1, Invariance, PTL DEF Spec, DetachedKept

----------------------------------------------------------------------------
(* Pthread implements ThreadLifecycle                                       *)

\* The initial state is the abstract one.
LEMMA RefineInit == Init => Lifecycle!Init
<1> SUFFICES ASSUME Init PROVE Lifecycle!Init
  OBVIOUS
<1> USE MainAssumption, TidAssumption DEF Init, Pth
<1>1. AbsPhase = [m \in Pth |-> IF m = MainPth THEN "live" ELSE "free"]
  BY DEF AbsPhase
<1>2. AbsValue = [m \in Pth |-> NoValue]
  BY <1>1 DEF AbsValue
<1>. QED
  BY <1>1, <1>2 DEF Lifecycle!Init

\* A function that differs from another at one point is its update there.
LEMMA UpdateAt ==
  ASSUME NEW S, NEW f, NEW g, NEW a \in S, NEW b,
         f = [x \in S |-> f[x]], g = [x \in S |-> g[x]],
         g[a] = b, \A x \in S : x # a => g[x] = f[x]
  PROVE  g = [f EXCEPT ![a] = b]
OBVIOUS

\* AbsPhase is a function on the handles, before and after a step.
LEMMA AbsPhaseFunction ==
  /\ AbsPhase = [m \in Pth |-> AbsPhase[m]]
  /\ AbsPhase' = [m \in Pth |-> AbsPhase'[m]]
<1>1. AbsPhase = [m \in Pth |-> AbsPhase[m]]
  BY DEF AbsPhase
<1>2. AbsPhase' = [m \in Pth |-> AbsPhase'[m]]
  BY DEF AbsPhase
<1>. QED
  BY <1>1, <1>2

\* What keeps the phases and the detached set is a stutter.
LEMMA AbsStutter ==
  ASSUME AbsPhase' = AbsPhase, detached' = detached,
         \A m \in Pth : AbsPhase[m] = "done" => result'[m] = result[m]
  PROVE  UNCHANGED Lifecycle!avars
<1>1. AbsValue' = AbsValue
  BY DEF AbsValue
<1>. QED
  BY <1>1 DEF Lifecycle!avars

\* clone starts the thread of the handle under construction.
LEMMA RefineCloneChild ==
  ASSUME IInv, NEW t \in Thread, NEW c \in Thread, CloneChild(t, c)
  PROVE  Lifecycle!Start(cur[t])
<1>1. cur[t] \in Pth /\ cur[t] \in mapped /\ tid[cur[t]] = Fresh
  BY DEF CloneChild, IInv, TypeOK, HandleMapped, CreateShape, CreatePc, Pth
<1>2. \A u \in Thread : pc[u] = "unmap" => cur[u] # cur[t]
  BY DEF CloneChild, IInv, HandleShape, JoinShape, CreatePc, JoinPc
<1>3. AbsPhase[cur[t]] = "free"
  BY <1>1 DEF AbsPhase
<1>4. AbsPhase' = [AbsPhase EXCEPT ![cur[t]] = "live"]
  <2>1. tid' = [tid EXCEPT ![cur[t]] = c] /\ c # Fresh /\ c # Cleared
    BY TidAssumption DEF CloneChild
  <2>2. \A u \in Thread : pc'[u] = "unmap" <=> pc[u] = "unmap"
    BY DEF CloneChild, IInv, TypeOK
  <2>3. mapped' = mapped /\ cur' = cur
    BY DEF CloneChild
  <2>4. AbsPhase'[cur[t]] = "live"
    BY <1>1, <1>2, <2>1, <2>2, <2>3 DEF AbsPhase, IInv, TypeOK
  <2>5. ASSUME NEW m \in Pth, m # cur[t] PROVE AbsPhase'[m] = AbsPhase[m]
    BY <2>1, <2>2, <2>3, <2>5 DEF AbsPhase, IInv, TypeOK
  <2>. QED
    BY <1>1, <2>4, <2>5, AbsPhaseFunction, UpdateAt
<1>5. AbsValue' = AbsValue
  BY <1>3, <1>4 DEF AbsValue, CloneChild, AbsPhase
<1>. QED
  BY <1>3, <1>4, <1>5 DEF Lifecycle!Start, CloneChild

\* The kernel's store of 0 finishes the thread, with the result it has left.
LEMMA RefineKernelClear ==
  ASSUME IInv, NEW t \in Thread, KernelClear(t)
  PROVE  \/ \E h \in Pth, v \in Value : Lifecycle!Finish(h, v)
         \/ UNCHANGED Lifecycle!avars
<1>1. self[t] \in Pth /\ self[t] \in mapped /\ tid[self[t]] = t /\ result[self[t]] \in Value
  BY DEF KernelClear, IInv, ThreadShape, StackInUse, ResultShape, LivePc
<1>2. \A u \in Thread : pc'[u] = "unmap" <=> pc[u] = "unmap"
  BY DEF KernelClear, IInv, TypeOK
<1>3. \A u \in Thread : pc[u] = "unmap" => cur[u] # self[t]
  BY <1>1, TidAssumption DEF IInv, JoinShape
<1>4. mapped' = mapped /\ cur' = cur /\ result' = result /\ detached' = detached
  BY DEF KernelClear
<1>5. CASE tid' = tid
  <2>1. AbsPhase' = AbsPhase
    BY <1>2, <1>4, <1>5 DEF AbsPhase
  <2>. QED
    BY <2>1, <1>4, AbsStutter
<1>6. CASE tid' = [tid EXCEPT ![self[t]] = Cleared]
  <2>1. AbsPhase[self[t]] = "live"
    BY <1>1, <1>3, TidAssumption DEF AbsPhase
  <2>2. AbsPhase'[self[t]] = "done"
    BY <1>1, <1>2, <1>3, <1>4, <1>6, TidAssumption DEF AbsPhase, IInv, TypeOK
  <2>3. ASSUME NEW m \in Pth, m # self[t] PROVE AbsPhase'[m] = AbsPhase[m]
    BY <1>2, <1>4, <1>6, <2>3 DEF AbsPhase, IInv, TypeOK
  <2>4. AbsPhase' = [AbsPhase EXCEPT ![self[t]] = "done"]
    BY ZenonT(40), <1>1, <2>2, <2>3 DEF AbsPhase
  <2>5. AbsValue' = [AbsValue EXCEPT ![self[t]] = result[self[t]]]
    BY <1>1, <1>4, <2>2, <2>3 DEF AbsValue
  <2>6. Lifecycle!Finish(self[t], result[self[t]])
    BY <1>4, <2>1, <2>4, <2>5 DEF Lifecycle!Finish
  <2>. QED
    BY <1>1, <2>6
<1>. QED
  BY <1>5, <1>6 DEF KernelClear

\* Taking the result collects the handle.
LEMMA RefineJoinResult ==
  ASSUME IInv, NEW t \in Thread, JoinResult(t)
  PROVE  Lifecycle!Collect(cur[t])
<1>1. /\ cur[t] \in Pth /\ cur[t] \in mapped /\ cur[t] \in own[t]
      /\ tid[cur[t]] = Cleared /\ cur[t] \notin detached
  BY DEF JoinResult, IInv, TypeOK, HandleMapped, JoinShape, DetachShape, JoinPc
<1>2. ASSUME NEW u \in Thread, pc[u] = "unmap" PROVE cur[u] # cur[t]
  BY <1>1, <1>2 DEF JoinResult, IInv, HandleShape, JoinShape, JoinPc
<1>3. AbsPhase[cur[t]] = "done"
  BY <1>1, <1>2, TidAssumption DEF AbsPhase
<1>4. /\ pc' = [pc EXCEPT ![t] = "unmap"]
      /\ UNCHANGED <<cur, tid, mapped, result, detached>>
  BY DEF JoinResult
<1>5. AbsPhase'[cur[t]] = "free"
  BY <1>1, <1>4 DEF AbsPhase, IInv, TypeOK
<1>6. ASSUME NEW m \in Pth, m # cur[t] PROVE AbsPhase'[m] = AbsPhase[m]
  <2>1. (\E u \in Thread : pc'[u] = "unmap" /\ cur'[u] = m)
          <=> (\E u \in Thread : pc[u] = "unmap" /\ cur[u] = m)
    BY <1>4, <1>6 DEF IInv, TypeOK, JoinResult
  <2>. QED
    BY <1>4, <2>1 DEF AbsPhase
<1>7. AbsPhase' = [AbsPhase EXCEPT ![cur[t]] = "free"]
  BY <1>1, <1>5, <1>6, AbsPhaseFunction, UpdateAt
<1>8. AbsValue' = [AbsValue EXCEPT ![cur[t]] = NoValue]
  BY <1>1, <1>4, <1>5, <1>6 DEF AbsValue
<1>. QED
  BY <1>1, <1>3, <1>4, <1>7, <1>8 DEF Lifecycle!Collect

\* A detach of the code is a detach of the abstract handle.
LEMMA RefineDetach ==
  ASSUME IInv, NEW t \in Thread, NEW m \in Pth, PthreadDetach(t, m)
  PROVE  Lifecycle!Detach(m)
<1>1. m \in own[t] /\ m \in mapped /\ tid[m] # Fresh
  BY DEF PthreadDetach, IInv, HandleMapped, HandleShape
<1>2. ASSUME NEW u \in Thread, pc[u] = "unmap" PROVE cur[u] # m
  BY <1>1, <1>2 DEF PthreadDetach, IInv, HandleShape, JoinShape, JoinPc
<1>3. AbsPhase[m] # "free"
  BY <1>1, <1>2 DEF AbsPhase
<1>4. AbsPhase' = AbsPhase /\ AbsValue' = AbsValue
  BY DEF PthreadDetach, AbsPhase, AbsValue
<1>. QED
  BY <1>3, <1>4 DEF PthreadDetach, Lifecycle!Detach

\* The steps before clone: the mapping is free before and after.
LEMMA RefineCreate ==
  ASSUME IInv, NEW t \in Thread,
         \/ \E m \in Stack : CreateMap(t, m)
         \/ CloneFails(t)
         \/ StoreHandle(t)
  PROVE  UNCHANGED Lifecycle!avars
<1>1. ASSUME NEW m \in Stack, CreateMap(t, m) PROVE UNCHANGED Lifecycle!avars
  <2>1. m \notin mapped /\ detached' = detached
    BY <1>1 DEF CreateMap, IInv, DetachShape
  <2>2. \A u \in Thread, n \in Pth :
            pc'[u] = "unmap" /\ cur'[u] = n <=> pc[u] = "unmap" /\ cur[u] = n
    BY <1>1 DEF CreateMap, IInv, TypeOK
  <2>3. \A n \in Pth : AbsPhase'[n] = AbsPhase[n]
    <3>1. AbsPhase[m] = "free" /\ AbsPhase'[m] = "free"
      BY <1>1, <2>1 DEF CreateMap, AbsPhase, IInv, TypeOK, Pth
    <3>2. ASSUME NEW n \in Pth, n # m PROVE AbsPhase'[n] = AbsPhase[n]
      BY <1>1, <2>2, <3>2 DEF CreateMap, AbsPhase, IInv, TypeOK
    <3>. QED
      BY <3>1, <3>2
  <2>4. \A n \in Pth : AbsPhase[n] = "done" => result'[n] = result[n]
    BY <1>1, <2>1 DEF CreateMap, AbsPhase, IInv, TypeOK
  <2>5. AbsPhase' = AbsPhase
    BY <2>3 DEF AbsPhase
  <2>. QED
    BY <2>1, <2>4, <2>5, AbsStutter
<1>2. CASE CloneFails(t)
  <2>1. /\ tid[cur[t]] = Fresh /\ tid' = tid /\ mapped' = mapped \ {cur[t]}
        /\ detached' = detached /\ result' = result
    BY <1>2 DEF CloneFails, IInv, CreateShape
  <2>2. \A u \in Thread, n \in Pth :
            pc'[u] = "unmap" /\ cur'[u] = n <=> pc[u] = "unmap" /\ cur[u] = n
    BY <1>2 DEF CloneFails, IInv, TypeOK
  <2>3. AbsPhase' = AbsPhase
    BY <2>1, <2>2 DEF AbsPhase
  <2>. QED
    BY <2>1, <2>3, AbsStutter
<1>3. CASE StoreHandle(t)
  <2>1. \A u \in Thread, n \in Pth :
            pc'[u] = "unmap" /\ cur'[u] = n <=> pc[u] = "unmap" /\ cur[u] = n
    BY <1>3 DEF StoreHandle, IInv, TypeOK
  <2>2. AbsPhase' = AbsPhase
    BY <1>3, <2>1 DEF StoreHandle, AbsPhase
  <2>. QED
    BY <1>3, <2>2, AbsStutter DEF StoreHandle
<1>. QED
  BY <1>1, <1>2, <1>3

\* Waiting in a join, and returning from it, change no handle: what JoinUnmap
\* takes away was given up when the result was read.
LEMMA RefineJoin ==
  ASSUME IInv, NEW t \in Thread, Join(t), ~JoinResult(t)
  PROVE  UNCHANGED Lifecycle!avars
<1>1. CASE JoinUnmap(t)
  <2>1. cur[t] \in Stack
    BY <1>1, TidAssumption, MainAssumption
       DEF JoinUnmap, IInv, TypeOK, HandleMapped, JoinShape, ThreadShape, JoinPc, Pth
  <2>2. \A n \in Pth : n # cur[t] => AbsPhase'[n] = AbsPhase[n]
    BY <1>1, <2>1 DEF JoinUnmap, AbsPhase, IInv, TypeOK
  <2>3. AbsPhase[cur[t]] = "free" /\ AbsPhase'[cur[t]] = "free"
    BY <1>1, <2>1 DEF JoinUnmap, AbsPhase, Pth
  <2>4. AbsPhase' = AbsPhase
    BY <2>2, <2>3 DEF AbsPhase
  <2>. QED
    BY <1>1, <2>4, AbsStutter DEF JoinUnmap
<1>2. CASE ~JoinUnmap(t)
  <2>1. /\ \/ \E m \in Pth : JoinBegin(t, m)
           \/ JoinTest(t) \/ JoinLoad(t) \/ FutexWait(t) \/ FutexInterrupted(t)
    BY <1>2 DEF Join
  <2>2. UNCHANGED <<tid, mapped, result, detached>>
    BY <2>1 DEF JoinBegin, JoinTest, JoinLoad, FutexWait, FutexInterrupted
  <2>3. \A u \in Thread, n \in Pth :
            pc'[u] = "unmap" /\ cur'[u] = n <=> pc[u] = "unmap" /\ cur[u] = n
    BY <2>1 DEF JoinBegin, JoinTest, JoinLoad, FutexWait, FutexInterrupted, IInv, TypeOK
  <2>4. AbsPhase' = AbsPhase
    BY <2>2, <2>3 DEF AbsPhase
  <2>. QED
    BY <2>2, <2>4, AbsStutter
<1>. QED
  BY <1>1, <1>2

\* Client steps and the wake-up change no handle.
LEMMA RefineOther ==
  ASSUME IInv, NEW t \in Thread,
         \/ \E v \in Value : PthreadExit(t, v)
         \/ KernelWake(t)
         \/ \E u \in Thread, m \in Pth : PassHandle(t, u, m)
  PROVE  UNCHANGED Lifecycle!avars
<1>1. UNCHANGED <<cur, tid, mapped, detached>>
  BY DEF PthreadExit, KernelWake, PassHandle
<1>2. \A u \in Thread : pc'[u] = "unmap" <=> pc[u] = "unmap"
  BY DEF PthreadExit, KernelWake, PassHandle, IInv, TypeOK
<1>3. AbsPhase' = AbsPhase
  BY <1>1, <1>2 DEF AbsPhase
<1>4. ASSUME NEW m \in Pth, AbsPhase[m] = "done" PROVE result'[m] = result[m]
  <2>1. CASE \E v \in Value : PthreadExit(t, v)
    <3>1. self[t] # m
      BY <1>4, <2>1, TidAssumption DEF PthreadExit, AbsPhase, IInv, StackInUse, LivePc
    <3>. QED
      BY <2>1, <3>1 DEF PthreadExit, IInv, TypeOK
  <2>2. CASE ~ \E v \in Value : PthreadExit(t, v)
    BY <2>2 DEF KernelWake, PassHandle
  <2>. QED
    BY <2>1, <2>2
<1>. QED
  BY <1>1, <1>3, <1>4, AbsStutter

\* Every step of the code is a step of ThreadLifecycle or changes nothing there.
LEMMA RefineNext ==
  ASSUME IInv, [Next]_vars
  PROVE  [Lifecycle!Next]_(Lifecycle!avars)
<1>1. CASE UNCHANGED vars
  BY <1>1 DEF vars, Lifecycle!avars, AbsPhase, AbsValue
<1>2. ASSUME NEW t \in Thread, Create(t) PROVE [Lifecycle!Next]_(Lifecycle!avars)
  <2>1. ASSUME NEW c \in Thread, CloneChild(t, c) PROVE Lifecycle!Next
    <3>1. cur[t] \in Pth
      BY <2>1 DEF CloneChild, IInv, CreateShape, CreatePc, Pth
    <3>. QED
      BY <2>1, <3>1, RefineCloneChild DEF Lifecycle!Next
  <2>. QED
    BY <1>2, <2>1, RefineCreate DEF Create
<1>3. ASSUME NEW t \in Thread, Join(t) PROVE [Lifecycle!Next]_(Lifecycle!avars)
  <2>1. CASE JoinResult(t)
    <3>1. cur[t] \in Pth
      BY <2>1 DEF JoinResult, IInv, TypeOK, JoinShape, JoinPc
    <3>. QED
      BY <2>1, <3>1, RefineJoinResult DEF Lifecycle!Next
  <2>. QED
    BY <1>3, <2>1, RefineJoin
<1>4. ASSUME NEW t \in Thread, KernelClear(t) PROVE [Lifecycle!Next]_(Lifecycle!avars)
  BY <1>4, RefineKernelClear DEF Lifecycle!Next
<1>5. ASSUME NEW t \in Thread, NEW m \in Pth, PthreadDetach(t, m)
      PROVE  Lifecycle!Next
  BY <1>5, RefineDetach DEF Lifecycle!Next
<1>6. ASSUME NEW t \in Thread,
             \/ \E v \in Value : PthreadExit(t, v)
             \/ KernelWake(t)
             \/ \E u \in Thread, m \in Pth : PassHandle(t, u, m)
      PROVE  UNCHANGED Lifecycle!avars
  BY <1>6, RefineOther
<1>. QED
  BY <1>1, <1>2, <1>3, <1>4, <1>5, <1>6 DEF Next

\* The pthread code implements the thread life cycle its clients rely on.
THEOREM Implements == Spec => Refines
<1>. QED
  BY InitInv, RefineInit, RefineNext, Invariance, PTL DEF Spec, Refines, Lifecycle!Spec
=============================================================================
