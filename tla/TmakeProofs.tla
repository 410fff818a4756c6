---------------------------- MODULE TmakeProofs ----------------------------
(***************************************************************************)
(* What tmake.c guarantees for any number of files and of jobs: of its job *)
(* loops (JobPool), and of its builds (Tmake).                             *)
(*                                                                         *)
(* The job loops.  PidsExact alone is not inductive: that a new child is   *)
(* not listed yet needs that no child works on a file behind the cursor,   *)
(* and that the loop's end leaves no child behind needs what `active` and  *)
(* `failed` have to do with the children's statuses.                       *)
(***************************************************************************)
EXTENDS JobPool, Tmake, TLAPS, FiniteSetTheorems

Live(j) == status[j] \in {"running", "ok", "exit1", "killed"}

\* Files behind the cursor, and files that need no work, have no child.
Ahead ==
    /\ \A j \in Job : status[j] # "none" => j \in stale
    /\ \A j \in Job : j > next => status[j] = "none"
    /\ (env.mode = "pool" \/ pc = "fill") => \A j \in Job : j = next => status[j] = "none"

\* pids[0 .. active - 1] lists every live child once.
Listed ==
    env.mode = "pool" =>
        /\ \A i \in 0 .. active - 1 : Live(pids[i])
        /\ \A j \in Job : Live(j) => \E i \in 0 .. active - 1 : pids[i] = j
        /\ \A i, k \in 0 .. active - 1 : pids[i] = pids[k] => i = k

\* The pool's flag and its ends.
PoolEnds ==
    env.mode = "pool" =>
        /\ failed <=> \E j \in Job : status[j] \in Bad
        /\ pc \in {"fill", "wait", "returned"}
        /\ pc = "wait" => active > 0
        /\ pc = "returned" => \A j \in Job : status[j] # "running"
        /\ pc = "returned" /\ ~env.noSigchld => active = 0 /\ (failed \/ next = Total)
        /\ pc = "returned" => ret = Result(failed)
        /\ \A j \in stale : j < next => status[j] # "none"

\* A serial loop has at most the child at the cursor, and a loop that stops at
\* failures has none behind it that failed.
SerialEnds ==
    env.mode # "pool" =>
        /\ \A j \in Job : j # next => ~Live(j)
        /\ pc = "wait" => next \in Job /\ Live(next)
        /\ pc # "wait" => \A j \in Job : ~Live(j)
        /\ LooksAtStatus /\ pc \in {"fill", "wait"} =>
               \A j \in stale : j < next => status[j] = "okReaped"
        /\ LooksAtStatus /\ pc = "wait" => status[next] \notin Bad
        /\ LooksAtStatus /\ pc = "returned" /\ ret = 0 =>
               \A j \in stale : status[j] = "okReaped"

IInv == TypeOK /\ Ahead /\ Listed /\ PoolEnds /\ SerialEnds

----------------------------------------------------------------------------
\* The pool has at least one place and never more than files.
LEMMA WidthFact == Width \in Nat \ {0} /\ Width <= Total /\ Total \in Nat \ {0}
BY TotalAssumption, MaxJobsAssumption DEF Width

\* What collecting a child makes of its status.
LEMMA ReapFact ==
    ASSUME NEW s \in Finished
    PROVE  /\ reap[s] \in Reaped
           /\ reap[s] = "okReaped" <=> s = "ok"
           /\ reap[s] \in Bad <=> s # "ok"
<1>1. CASE s = "ok" BY <1>1 DEF reap, Reaped, Bad
<1>2. CASE s = "exit1" BY <1>2 DEF reap, Reaped, Bad
<1>3. CASE s = "killed" BY <1>3 DEF reap, Reaped, Bad
<1> QED BY <1>1, <1>2, <1>3 DEF Finished

\* The invariant holds at the start of a loop.
LEMMA InitHolds == Init => IInv
<1> SUFFICES ASSUME Init PROVE IInv OBVIOUS
<1> USE WidthFact DEF Init
<1>1. TypeOK
  <2>1. pids \in [0 .. Width - 1 -> Job] BY DEF Job
  <2>2. status \in [Job -> Status] BY DEF Status
  <2>3. next \in 0 .. Total /\ active \in 0 .. Width OBVIOUS
  <2> QED BY <2>1, <2>2, <2>3 DEF TypeOK
<1>2. Ahead BY DEF Ahead
<1>3. Listed BY DEF Listed, Live
<1>4. PoolEnds BY DEF PoolEnds, Bad, Job
<1>5. SerialEnds BY DEF SerialEnds, Live, Job, Bad
<1> QED BY <1>1, <1>2, <1>3, <1>4, <1>5 DEF IInv

\* The invariant survives passing over an up-to-date file.
LEMMA SkipKeeps == ASSUME IInv, Skip, UNCHANGED env PROVE IInv'
<1> USE WidthFact DEF IInv, TypeOK, Skip, Job, CanStart
<1>1. TypeOK' BY ReapFact DEF Status, Finished, Reaped, Result
<1>2. Ahead' BY DEF Ahead, Live
<1>3. Listed' BY DEF Listed, Live, Ahead
<1>4. PoolEnds' BY ReapFact DEF PoolEnds, Listed, Live, Ahead, Bad, Finished, Reaped, Result
<1>5. SerialEnds' BY ReapFact DEF SerialEnds, Live, Ahead, LooksAtStatus, Bad, Finished, Reaped
<1> QED BY <1>1, <1>2, <1>3, <1>4, <1>5

\* The invariant survives starting a child.
LEMMA StartKeeps == ASSUME IInv, Start, UNCHANGED env PROVE IInv'
<1> USE WidthFact DEF IInv, TypeOK, Start, Job, CanStart
<1>1. TypeOK' BY ReapFact DEF Status, Finished, Reaped, Result
<1>2. Ahead' BY DEF Ahead, Live
<1>3. Listed' BY SMTT(30) DEF Listed, Live, Ahead
<1>4. PoolEnds' BY ReapFact DEF PoolEnds, Listed, Live, Ahead, Bad, Finished, Reaped, Result
<1>5. SerialEnds' BY ReapFact DEF SerialEnds, Live, Ahead, LooksAtStatus, Bad, Finished, Reaped
<1> QED BY <1>1, <1>2, <1>3, <1>4, <1>5

\* The invariant survives a failing fork in the pool.
LEMMA StartFailsKeeps == ASSUME IInv, StartFails, UNCHANGED env PROVE IInv'
<1> USE WidthFact DEF IInv, TypeOK, StartFails, Job, CanStart
<1>1. TypeOK' BY ReapFact DEF Status, Finished, Reaped, Result
<1>2. Ahead' BY DEF Ahead, Live
<1>3. Listed' BY DEF Listed, Live, Ahead
<1>4. PoolEnds' BY ReapFact DEF PoolEnds, Listed, Live, Ahead, Bad, Finished, Reaped, Result
<1>5. SerialEnds' BY ReapFact DEF SerialEnds, Live, Ahead, LooksAtStatus, Bad, Finished, Reaped
<1> QED BY <1>1, <1>2, <1>3, <1>4, <1>5

\* The invariant survives the end of the inner loop.
LEMMA FilledKeeps == ASSUME IInv, Filled, UNCHANGED env PROVE IInv'
<1> USE WidthFact DEF IInv, TypeOK, Filled, Job, CanStart
<1>1. TypeOK' BY ReapFact DEF Status, Finished, Reaped, Result
<1>2. Ahead' BY DEF Ahead, Live
<1>3. Listed' BY DEF Listed, Live, Ahead
<1>4. PoolEnds' BY ReapFact DEF PoolEnds, Listed, Live, Ahead, Bad, Finished, Reaped, Result
<1>5. SerialEnds' BY ReapFact DEF SerialEnds, Live, Ahead, LooksAtStatus, Bad, Finished, Reaped
<1> QED BY <1>1, <1>2, <1>3, <1>4, <1>5

\* The invariant survives collecting a child and closing the gap in pids.
LEMMA ReapKeeps == ASSUME IInv, NEW j \in Job, Reap(j), UNCHANGED env PROVE IInv'
<1> USE WidthFact DEF IInv, TypeOK, Reap, Job, CanStart
<1>1. TypeOK' BY ReapFact DEF Status, Finished, Reaped, Result
<1>2. Ahead' BY DEF Ahead, Live, Finished
<1>3. Listed'
  <2>1. PICK i \in 0 .. active - 1 : /\ pids[i] = j
                                    /\ pids' = [pids EXCEPT ![i] = pids[active - 1]]
    OBVIOUS
  <2>2. active \in Nat /\ active' = active - 1 /\ active - 1 \in 0 .. active - 1
    BY <2>1
  <2>3. reap[status[j]] \in Reaped BY ReapFact
  <2> DEFINE LiveNext(k) == status'[k] \in {"running", "ok", "exit1", "killed"}
  <2>4. \A k \in Job : LiveNext(k) <=> Live(k) /\ k # j
    BY <2>3 DEF Live, Reaped, Finished
  <2>5. \A h \in 0 .. active' - 1 :
           /\ pids'[h] = IF h = i THEN pids[active - 1] ELSE pids[h]
           /\ h \in 0 .. active - 1 /\ h # active - 1
    BY <2>1, <2>2
  <2>6. \A h, k \in 0 .. active - 1 : pids[h] = pids[k] => h = k
    BY DEF Listed
  <2>7. ASSUME NEW h \in 0 .. active' - 1 PROVE LiveNext(pids'[h])
    <3>1. PICK k \in 0 .. active - 1 : pids'[h] = pids[k] /\ k # i
      BY <2>1, <2>2, <2>5
    <3>2. pids[k] \in Job /\ Live(pids[k]) BY DEF Listed
    <3>3. pids[k] # j BY <2>1, <2>6, <3>1
    <3> QED BY <2>4, <3>1, <3>2, <3>3
  <2>8. ASSUME NEW k \in Job, LiveNext(k)
        PROVE  \E h \in 0 .. active' - 1 : pids'[h] = k
    <3>1. Live(k) /\ k # j BY <2>4, <2>8
    <3>2. PICK h \in 0 .. active - 1 : pids[h] = k BY <3>1 DEF Listed
    <3>3. CASE h = active - 1 BY <2>1, <2>2, <2>5, <3>1, <3>2, <3>3
    <3>4. CASE h # active - 1 BY <2>1, <2>2, <2>5, <3>1, <3>2, <3>4
    <3> QED BY <3>3, <3>4
  <2>9. \A h, k \in 0 .. active' - 1 : pids'[h] = pids'[k] => h = k
    BY <2>2, <2>5, <2>6
  <2> QED BY <2>7, <2>8, <2>9 DEF Listed, Live
<1>4. PoolEnds' BY ZenonT(40), ReapFact DEF PoolEnds, Listed, Live, Ahead, Bad, Finished, Reaped, Result
<1>5. SerialEnds' BY ReapFact DEF SerialEnds, Live, Ahead, LooksAtStatus, Bad, Finished, Reaped
<1> QED BY <1>1, <1>2, <1>3, <1>4, <1>5

\* The invariant survives a failing waitpid.
LEMMA WaitFailsKeeps == ASSUME IInv, WaitFails, UNCHANGED env PROVE IInv'
<1> USE WidthFact DEF IInv, TypeOK, WaitFails, Job, CanStart
<1>1. TypeOK' BY ReapFact DEF Status, Finished, Reaped, Result
<1>2. Ahead' BY DEF Ahead, Live
<1>3. Listed' BY DEF Listed, Live, Ahead
<1>4. PoolEnds' BY ReapFact DEF PoolEnds, Listed, Live, Ahead, Bad, Finished, Reaped, Result
<1>5. SerialEnds' BY ReapFact DEF SerialEnds, Live, Ahead, LooksAtStatus, Bad, Finished, Reaped
<1> QED BY <1>1, <1>2, <1>3, <1>4, <1>5

\* The invariant survives a serial loop's next file.
LEMMA SerialNextKeeps == ASSUME IInv, SerialNext, UNCHANGED env PROVE IInv'
<1> USE WidthFact DEF IInv, TypeOK, SerialNext, Job
<1>1. TypeOK' BY ReapFact DEF Status, Finished, Reaped, Result
<1>2. Ahead' BY DEF Ahead, Live
<1>3. Listed' BY DEF Listed, Live, Ahead
<1>4. PoolEnds' BY ReapFact DEF PoolEnds, Listed, Live, Ahead, Bad, Finished, Reaped, Result
<1>5. SerialEnds' BY ReapFact DEF SerialEnds, Live, Ahead, LooksAtStatus, Bad, Finished, Reaped
<1> QED BY <1>1, <1>2, <1>3, <1>4, <1>5

\* The invariant survives a failing fork in a serial loop.
LEMMA SerialForkFailsKeeps == ASSUME IInv, SerialForkFails, UNCHANGED env PROVE IInv'
<1> USE WidthFact DEF IInv, TypeOK, SerialForkFails, Job
<1>1. TypeOK' BY ReapFact DEF Status, Finished, Reaped, Result
<1>2. Ahead' BY DEF Ahead, Live
<1>3. Listed' BY DEF Listed, Live, Ahead
<1>4. PoolEnds' BY ReapFact DEF PoolEnds, Listed, Live, Ahead, Bad, Finished, Reaped, Result
<1>5. SerialEnds' BY ReapFact DEF SerialEnds, Live, Ahead, LooksAtStatus, Bad, Finished, Reaped
<1> QED BY <1>1, <1>2, <1>3, <1>4, <1>5

\* The invariant survives the end of a serial loop's child.
LEMMA SerialReapKeeps == ASSUME IInv, SerialReap, UNCHANGED env PROVE IInv'
<1> USE WidthFact DEF IInv, TypeOK, SerialReap, Job
<1>1. TypeOK'
  <2>1. next \in Job BY DEF SerialEnds
  <2>2. status' \in [Job -> Status]
    <3>1. reap[status[next]] \in Status BY ReapFact DEF Status
    <3> QED BY <3>1
  <2>3. pc' \in {"fill", "returned", "exited"} /\ ret' \in {-1, 0} /\ next' \in 0 .. Total
    BY <2>1
  <2> QED BY <2>2, <2>3
<1>2. Ahead' BY DEF Ahead, Live, Finished
<1>3. Listed' BY DEF Listed, Live, Ahead
<1>4. PoolEnds' BY ReapFact DEF PoolEnds, Listed, Live, Ahead, Bad, Finished, Reaped, Result
<1>5. SerialEnds' BY ReapFact DEF SerialEnds, Live, Ahead, LooksAtStatus, Bad, Finished, Reaped
<1> QED BY <1>1, <1>2, <1>3, <1>4, <1>5

\* The invariant survives a serial loop's end.
LEMMA SerialReturnKeeps == ASSUME IInv, SerialReturn, UNCHANGED env PROVE IInv'
<1> USE WidthFact DEF IInv, TypeOK, SerialReturn, Job
<1>1. TypeOK' BY ReapFact DEF Status, Finished, Reaped, Result
<1>2. Ahead' BY DEF Ahead, Live
<1>3. Listed' BY DEF Listed, Live, Ahead
<1>4. PoolEnds' BY ReapFact DEF PoolEnds, Listed, Live, Ahead, Bad, Finished, Reaped, Result
<1>5. SerialEnds' BY ReapFact DEF SerialEnds, Live, Ahead, LooksAtStatus, Bad, Finished, Reaped
<1> QED BY <1>1, <1>2, <1>3, <1>4, <1>5

\* The invariant survives a child's end.
LEMMA ChildEndsKeeps == ASSUME IInv, NEW j \in Job, ChildEnds(j), UNCHANGED env PROVE IInv'
<1> USE WidthFact DEF IInv, TypeOK, ChildEnds, Job
<1>1. TypeOK' BY ReapFact DEF Status, Finished, Reaped, Result
<1>2. Ahead' BY DEF Ahead, Live
<1>3. Listed'
  <2>1. \A k \in Job : Live(k)' <=> Live(k) BY DEF Live, Finished
  <2>2. \A i \in 0 .. active - 1 : pids[i] \in Job OBVIOUS
  <2> QED BY <2>1, <2>2 DEF Listed
<1>4. PoolEnds' BY ReapFact DEF PoolEnds, Listed, Live, Ahead, Bad, Finished, Reaped, Result
<1>5. SerialEnds' BY ReapFact DEF SerialEnds, Live, Ahead, LooksAtStatus, Bad, Finished, Reaped
<1> QED BY <1>1, <1>2, <1>3, <1>4, <1>5

----------------------------------------------------------------------------
\* The invariant survives every step.
LEMMA StepKeeps == IInv /\ [Next]_vars => IInv'
<1> SUFFICES ASSUME IInv, [Next]_vars PROVE IInv' OBVIOUS
<1>1. CASE UNCHANGED vars
  <2> USE <1>1 DEF vars
  <2>1. TypeOK' BY DEF IInv, TypeOK
  <2>2. Ahead' BY DEF IInv, Ahead
  <2>3. Listed' BY DEF IInv, Listed, Live
  <2>4. PoolEnds' BY DEF IInv, PoolEnds
  <2>5. SerialEnds' BY DEF IInv, SerialEnds, Live, LooksAtStatus
  <2> QED BY <2>1, <2>2, <2>3, <2>4, <2>5 DEF IInv
<1>2. CASE UNCHANGED env /\ Pool
  BY <1>2, SkipKeeps, StartKeeps, StartFailsKeeps, FilledKeeps, ReapKeeps, WaitFailsKeeps DEF Pool
<1>3. CASE UNCHANGED env /\ Serial
  BY <1>3, SerialNextKeeps, SerialForkFailsKeeps, SerialReapKeeps, SerialReturnKeeps DEF Serial
<1>4. CASE UNCHANGED env /\ \E j \in Job : ChildEnds(j)
  BY <1>4, ChildEndsKeeps
<1> QED BY <1>1, <1>2, <1>3, <1>4 DEF Next

\* The invariant holds throughout.
LEMMA Invariant == Spec => []IInv
BY InitHolds, StepKeeps, PTL DEF Spec

\* Every variable has its type; active never exceeds the width of pids.
THEOREM TypeCorrect == Spec => []TypeOK
BY Invariant, PTL DEF IInv

\* The pids array lists every child not waited for, once: the swap with the
\* last entry in parallel_compile_task loses and doubles nothing.
THEOREM BooksAreExact == Spec => []PidsExact
<1>1. IInv => PidsExact
  <2> SUFFICES ASSUME IInv, env.mode = "pool" PROVE
         /\ active <= Width
         /\ Unreaped = {pids[i] : i \in 0 .. active - 1}
         /\ \A i, k \in 0 .. active - 1 : pids[i] = pids[k] => i = k
    BY DEF PidsExact
  <2>1. \A j \in Job : j \in Unreaped <=> Live(j) BY DEF Unreaped, Live, Finished
  <2>2. \A i \in 0 .. active - 1 : pids[i] \in Job BY WidthFact DEF IInv, TypeOK
  <2>3. Unreaped \subseteq Job BY DEF Unreaped
  <2>4. active <= Width BY WidthFact DEF IInv, TypeOK
  <2> QED BY <2>1, <2>2, <2>3, <2>4 DEF IInv, Listed
<1> QED BY <1>1, Invariant, PTL

\* No dispatch loop returns, or ends tmake, while a child of its own runs.
THEOREM NoneIsOrphaned == Spec => []NoOrphans
<1>1. IInv => NoOrphans
  BY DEF IInv, PoolEnds, SerialEnds, Live, NoOrphans, TypeOK
<1> QED BY <1>1, Invariant, PTL

\* A loop that looks at its children's statuses returns 0 only when all that
\* had to be built was built, or lost to a failing fork in the pool.
THEOREM SuccessIsBuilt == Spec => []SuccessMeansBuilt
<1>1. IInv => SuccessMeansBuilt
  <2> SUFFICES ASSUME IInv, LooksAtStatus, pc = "returned", ret = 0
               PROVE  IF env.mode = "pool" THEN \A j \in stale : status[j] \in {"okReaped", "lost"}
                                           ELSE AllBuilt
    BY DEF SuccessMeansBuilt
  <2>1. CASE env.mode = "pool"
    <3>1. ~failed /\ next = Total /\ active = 0
      BY <2>1 DEF IInv, PoolEnds, LooksAtStatus, Result
    <3>2. ASSUME NEW j \in stale PROVE status[j] \in {"okReaped", "lost"}
      <4>1. j \in Job /\ status[j] \in Status BY DEF IInv, TypeOK
      <4>2. j < next BY <3>1, <4>1, WidthFact DEF Job
      <4>3. status[j] # "none" BY <2>1, <4>2 DEF IInv, PoolEnds
      <4>4. status[j] \notin Bad BY <2>1, <3>1, <4>1 DEF IInv, PoolEnds
      <4>5. ~Live(j) BY <2>1, <3>1, <4>1 DEF IInv, Listed
      <4> QED BY <4>1, <4>3, <4>4, <4>5 DEF Status, Finished, Reaped, Bad, Live
    <3> QED BY <2>1, <3>2
  <2>2. CASE env.mode # "pool"
    BY <2>2 DEF IInv, SerialEnds, AllBuilt
  <2> QED BY <2>1, <2>2
<1> QED BY <1>1, Invariant, PTL

\* Once waitpid has reported a failure, no loop that looks at it starts another
\* child.
THEOREM FailsFast == Spec => FailFast
<1> DEFINE A == LooksAtStatus /\ (\E j \in Job : status[j] \in Bad)
                  => \A j \in Job : status[j] = "none" => status'[j] = "none"
<1>1. ASSUME IInv, Next, LooksAtStatus, NEW b \in Job, status[b] \in Bad,
             NEW j \in Job, status[j] = "none"
      PROVE  status'[j] = "none"
  <2>1. CASE env.mode = "pool"
    <3>1. failed BY <1>1, <2>1 DEF IInv, PoolEnds
    <3>2. ~CanStart BY <3>1 DEF CanStart
    <3>3. CASE Pool
      BY <1>1, <3>2, <3>3 DEF Pool, Skip, Start, StartFails, Filled, Reap, WaitFails, Finished, IInv, TypeOK
    <3>4. CASE Serial
      BY <2>1, <3>4 DEF Serial, SerialNext, SerialForkFails, SerialReap, SerialReturn
    <3>5. CASE \E k \in Job : ChildEnds(k)
      BY <1>1, <3>5 DEF ChildEnds, IInv, TypeOK
    <3> QED BY <1>1, <3>3, <3>4, <3>5 DEF Next
  <2>2. CASE env.mode # "pool"
    <3>1. pc \notin {"fill", "wait"}
      <4>1. status[b] # "none" BY <1>1 DEF Bad
      <4>2. b \in stale /\ b <= next BY <1>1, <4>1, WidthFact DEF IInv, Ahead, Job, TypeOK
      <4>3. b < next => status[b] = "okReaped" \/ pc \notin {"fill", "wait"}
        BY <1>1, <2>2, <4>2 DEF IInv, SerialEnds
      <4>4. b = next => pc # "fill" BY <1>1, <4>1 DEF IInv, Ahead
      <4>5. b = next => pc # "wait" BY <1>1, <2>2 DEF IInv, SerialEnds
      <4>6. next \in Int /\ b \in Int BY <1>1 DEF IInv, TypeOK, Job
      <4> QED BY <1>1, <4>2, <4>3, <4>4, <4>5, <4>6 DEF Bad
    <3>2. ~Serial
      BY <3>1 DEF Serial, SerialNext, SerialForkFails, SerialReap, SerialReturn
    <3>3. ~Pool
      BY <2>2 DEF Pool, Skip, Start, StartFails, Filled, Reap, WaitFails
    <3>4. CASE \E k \in Job : ChildEnds(k)
      BY <1>1, <3>4 DEF ChildEnds, IInv, TypeOK
    <3> QED BY <1>1, <3>2, <3>3, <3>4 DEF Next
  <2> QED BY <2>1, <2>2
<1>2. IInv /\ [Next]_vars => [A]_vars
  <2> SUFFICES ASSUME IInv, Next PROVE A OBVIOUS
  <2> QED BY <1>1
<1> QED BY <1>2, Invariant, PTL DEF Spec, FailFast

----------------------------------------------------------------------------
(* What a tmakelist is read as: sequences, whatever stands in it           *)

\* The k-th of a finite set of numbers is there, and each of them is one.
LEMMA NthIs ==
    ASSUME NEW S, S \subseteq Int, IsFiniteSet(S)
    PROVE  /\ Cardinality(S) \in Nat
           /\ \A k \in 1 .. Cardinality(S) : Nth(S, k) \in S
           /\ \A i \in S : \E k \in 1 .. Cardinality(S) : Nth(S, k) = i
<1> DEFINE n == Cardinality(S)
           Before(i) == {j \in S : j < i}
           rank == [i \in S |-> Cardinality(Before(i)) + 1]
<1>1. n \in Nat BY FS_CardinalityType
<1>2. ASSUME NEW i \in S
      PROVE  /\ IsFiniteSet(Before(i)) /\ Cardinality(Before(i)) \in Nat /\ rank[i] \in 1 .. n
             /\ IsFiniteSet(Before(i) \cup {i}) /\ Cardinality(Before(i) \cup {i}) = Cardinality(Before(i)) + 1
    <2>1. Before(i) \subseteq S /\ i \notin Before(i) /\ Before(i) \cup {i} \subseteq S BY <1>2
    <2> HIDE DEF Before
    <2>2. IsFiniteSet(Before(i)) BY <2>1, FS_Subset
    <2>3. Cardinality(Before(i)) \in Nat BY <2>2, FS_CardinalityType
    <2>4. IsFiniteSet(Before(i) \cup {i}) /\ Cardinality(Before(i) \cup {i}) = Cardinality(Before(i)) + 1
        BY <2>1, <2>2, FS_AddElement
    <2>5. Cardinality(Before(i) \cup {i}) <= n BY <2>1, FS_Subset
    <2>6. rank[i] = Cardinality(Before(i)) + 1 BY <1>2
    <2> HIDE DEF rank, n
    <2> QED BY <1>1, <2>2, <2>3, <2>4, <2>5, <2>6
<1>3. ASSUME NEW i \in S, NEW j \in S, i < j PROVE rank[i] < rank[j]
    <2>0. i \in Int /\ j \in Int /\ \A x \in S : x \in Int OBVIOUS
    <2>1. Before(i) \cup {i} \subseteq Before(j)
        <3>1. \A x \in S : x < i => x < j BY <1>3, <2>0
        <3> QED BY <1>3, <3>1
    <2> HIDE DEF Before
    <2>2. IsFiniteSet(Before(j)) /\ Cardinality(Before(j)) \in Nat /\ Cardinality(Before(i)) \in Nat BY <1>2
    <2>3. Cardinality(Before(i) \cup {i}) <= Cardinality(Before(j)) BY <2>1, <2>2, FS_Subset
    <2>4. Cardinality(Before(i) \cup {i}) = Cardinality(Before(i)) + 1 BY <1>2
    <2> QED BY <2>2, <2>3, <2>4
<1>4. rank \in [S -> 1 .. n]
    <2>1. \A i \in S : rank[i] \in 1 .. n BY <1>2
    <2> HIDE DEF n
    <2> QED BY <2>1
<1> HIDE DEF rank
<1>5. \A i, j \in S : rank[i] = rank[j] => i = j
    <2> SUFFICES ASSUME NEW i \in S, NEW j \in S, rank[i] = rank[j] PROVE i = j OBVIOUS
    <2>1. i \in Int /\ j \in Int /\ rank[i] \in Int /\ rank[j] \in Int BY <1>1, <1>4
    <2>2. ~(i < j) /\ ~(j < i) BY <1>3, <2>1
    <2> QED BY <2>1, <2>2
<1>6. \A k \in 1 .. n : \E i \in S : rank[i] = k
    <2> HIDE DEF n
    <2>1. DOMAIN rank = S BY <1>4
    <2>2. rank \in Injection(S, 1 .. n) BY <1>4, <1>5, <2>1 DEF Injection, IsInjective
    <2>3. IsFiniteSet(1 .. n) /\ Cardinality(1 .. n) = n BY <1>1, FS_Interval
    <2>4. Cardinality(S) = Cardinality(1 .. n) BY <2>3 DEF n
    <2>5. rank \in Surjection(S, 1 .. n) BY <2>2, <2>3, <2>4, FS_Injection
    <2> QED BY <2>5 DEF Surjection
<1>7. ASSUME NEW k \in 1 .. n PROVE Nth(S, k) \in S /\ rank[Nth(S, k)] = k
    <2>1. PICK i \in S : rank[i] = k BY <1>6
    <2>2. \A x \in S : rank[x] = k <=> Cardinality({j \in S : j < x}) = k - 1
        <3> SUFFICES ASSUME NEW x \in S PROVE rank[x] = k <=> Cardinality(Before(x)) = k - 1 OBVIOUS
        <3>1. rank[x] = Cardinality(Before(x)) + 1 BY DEF rank
        <3>2. Cardinality(Before(x)) \in Nat BY <1>2
        <3>4. k \in Int OBVIOUS
        <3> HIDE DEF Before
        <3> QED BY <3>1, <3>2, <3>4
    <2>3. \E x \in S : Cardinality({j \in S : j < x}) = k - 1 BY <2>1, <2>2
    <2>4. Nth(S, k) \in S /\ Cardinality({j \in S : j < Nth(S, k)}) = k - 1
        BY <2>3, Zenon DEF Nth
    <2> QED BY <2>2, <2>4
<1>8. ASSUME NEW i \in S PROVE \E k \in 1 .. n : Nth(S, k) = i
    <2>1. rank[i] \in 1 .. n BY <1>4
    <2>2. Nth(S, rank[i]) \in S /\ rank[Nth(S, rank[i])] = rank[i] BY <1>7, <2>1
    <2> QED BY <1>5, <2>1, <2>2
<1> QED BY <1>1, <1>7, <1>8

\* What is taken of a sequence is its elements that are in the set.
LEMMA AmongIs ==
    ASSUME NEW s, NEW n \in Nat, DOMAIN s = 1 .. n, NEW set
    PROVE  /\ Among(s, set) \in Seq(set)
           /\ ToSet(Among(s, set)) = {s[i] : i \in DOMAIN s} \cap set
<1> DEFINE at == {i \in DOMAIN s : s[i] \in set}
           m == Cardinality(at)
           a == Among(s, set)
<1>1. IsFiniteSet(1 .. n) BY FS_Interval
<1>2. at \subseteq 1 .. n /\ 1 .. n \subseteq Int OBVIOUS
<1>3. \A i \in at : i \in DOMAIN s /\ s[i] \in set OBVIOUS
<1>4. \A i \in DOMAIN s : s[i] \in set => i \in at OBVIOUS
<1>5. a = [k \in 1 .. m |-> s[Nth(at, k)]] BY DEF Among
<1> HIDE DEF at, a
<1>6. IsFiniteSet(at) BY <1>1, <1>2, FS_Subset
<1>7. m \in Nat /\ (\A k \in 1 .. m : Nth(at, k) \in at) /\ \A i \in at : \E k \in 1 .. m : Nth(at, k) = i
    BY <1>2, <1>6, NthIs
<1> HIDE DEF m
<1>8. a \in Seq(set) /\ DOMAIN a = 1 .. m
    <2>1. a \in [1 .. m -> set] BY <1>3, <1>5, <1>7
    <2> QED BY <1>7, <2>1
<1>9. ASSUME NEW x PROVE x \in ToSet(a) <=> x \in {s[i] : i \in DOMAIN s} \cap set
    <2>1. x \in ToSet(a) <=> \E k \in 1 .. m : x = a[k] BY <1>8 DEF ToSet
    <2>2. \A k \in 1 .. m : a[k] = s[Nth(at, k)] BY <1>5
    <2> QED BY <1>3, <1>4, <1>7, <2>1, <2>2
<1> QED BY <1>8, <1>9 DEF a

\* A finite set becomes a sequence of its elements.
LEMMA SetToSeqIs ==
    ASSUME NEW S, IsFiniteSet(S)
    PROVE  SetToSeq(S) \in Seq(S)
<1> DEFINE n == Cardinality(S)
<1>1. n \in Nat /\ ExistsBijection(1 .. n, S) BY FS_CardinalityType
<1> HIDE DEF n
<1>2. \E f \in [1 .. n -> S] : IsInjective(f) BY <1>1 DEF ExistsBijection, Bijection, Injection
<1>3. SetToSeq(S) \in [1 .. n -> S] BY <1>2, Zenon DEF SetToSeq, n
<1> QED BY <1>1, <1>3

\* What a part of a text is.
LEMMA PieceIs ==
    ASSUME NEW U, NEW s \in Seq(U), NEW a \in Int, NEW b \in Int, 1 <= a, b <= Len(s)
    PROVE  SubSeq(s, a, b) \in Seq(U)
OBVIOUS

\* The places of a character are some of the text's.
LEMMA PlacesAre ==
    ASSUME NEW U, NEW text \in Seq(U), NEW c
    PROVE  Places(text, c) \subseteq 1 .. Len(text) /\ IsFiniteSet(Places(text, c)) /\ Len(text) \in Nat
<1>1. Places(text, c) \subseteq 1 .. Len(text) /\ Len(text) \in Nat BY DEF Places
<1>2. IsFiniteSet(1 .. Len(text)) BY <1>1, FS_Interval
<1> QED BY <1>1, <1>2, FS_Subset

\* The lines of a text are texts.
LEMMA ListLinesAre ==
    ASSUME NEW U, NEW text \in Seq(U)
    PROVE  /\ ListLines(text) \in Seq(Seq(U))
           /\ IsFiniteSet(DOMAIN ListLines(text)) /\ DOMAIN ListLines(text) \subseteq Int
<1> DEFINE ends == Places(text, "\n") \cup {0, Len(text) + 1}
           n == Cardinality(ends)
           F(k) == SubSeq(text, Nth(ends, k) + 1, Nth(ends, k + 1) - 1)
<1>1. Len(text) \in Nat /\ Places(text, "\n") \subseteq 1 .. Len(text) /\ IsFiniteSet(Places(text, "\n")) BY PlacesAre
<1>2. ends \subseteq 0 .. Len(text) + 1 /\ ends \subseteq Int /\ ends # {} BY <1>1
<1>3. IsFiniteSet(ends)
    <2>1. IsFiniteSet(0 .. Len(text) + 1) BY <1>1, FS_Interval
    <2> HIDE DEF ends
    <2> QED BY <1>2, <2>1, FS_Subset
<1>4. ListLines(text) = [k \in 1 .. n - 1 |-> F(k)] BY DEF ListLines
<1> HIDE DEF ends, n
<1>5. n \in Nat /\ n # 0 /\ \A k \in 1 .. n : Nth(ends, k) \in ends BY <1>2, <1>3, NthIs, FS_EmptySet DEF n
<1>6. ASSUME NEW k \in 1 .. n - 1 PROVE F(k) \in Seq(U)
    <2>1. k \in 1 .. n /\ k + 1 \in 1 .. n BY <1>5
    <2>2. Nth(ends, k) \in 0 .. Len(text) + 1 /\ Nth(ends, k + 1) \in 0 .. Len(text) + 1 BY <1>2, <1>5, <2>1
    <2> DEFINE a == Nth(ends, k) + 1
               b == Nth(ends, k + 1) - 1
    <2>3. a \in Int /\ b \in Int /\ 1 <= a /\ b <= Len(text) BY <1>1, <2>2
    <2> HIDE DEF a, b
    <2>4. SubSeq(text, a, b) \in Seq(U) BY <2>3, PieceIs
    <2> QED BY <2>4 DEF a, b
<1>7. n - 1 \in Nat BY <1>5
<1> HIDE DEF F
<1>8. ListLines(text) \in [1 .. n - 1 -> Seq(U)] BY <1>4, <1>6
<1>9. DOMAIN ListLines(text) = 1 .. n - 1 /\ ListLines(text) \in Seq(Seq(U)) BY <1>7, <1>8
<1>10. IsFiniteSet(1 .. n - 1) BY <1>7, FS_Interval
<1> QED BY <1>7, <1>9, <1>10

\* The words of a text are a sequence.
LEMMA WordsAre ==
    ASSUME NEW U, NEW text \in Seq(U)
    PROVE  \E n \in Nat : DOMAIN WordsOf(text) = 1 .. n /\ Len(WordsOf(text)) = n /\ WordsOf(text) \in Seq(ToSet(WordsOf(text)))
<1> DEFINE cut == Places(text, "#")
           used == IF cut = {} THEN text ELSE SubSeq(text, 1, Nth(cut, 1) - 1)
           starts == {i \in DOMAIN used : used[i] \notin Blank /\ (i = 1 \/ used[i - 1] \in Blank)}
           ends == {i \in DOMAIN used : used[i] \notin Blank /\ (i = Len(used) \/ used[i + 1] \in Blank)}
           n == Cardinality(starts)
           w == WordsOf(text)
<1>1. used \in Seq(U)
    <2>1. CASE cut = {} BY <2>1
    <2>2. CASE cut # {}
        <3>1. Len(text) \in Nat /\ cut \subseteq 1 .. Len(text) /\ IsFiniteSet(cut) /\ cut \subseteq Int BY PlacesAre
        <3> HIDE DEF cut
        <3>2. 1 \in 1 .. Cardinality(cut)
            <4>1. Cardinality(cut) \in Nat /\ Cardinality(cut) # 0 BY <2>2, <3>1, FS_EmptySet, FS_CardinalityType
            <4> QED BY <4>1
        <3>3. Nth(cut, 1) \in 1 .. Len(text)
            <4>1. Nth(cut, 1) \in cut BY <3>1, <3>2, NthIs
            <4> QED BY <3>1, <4>1
        <3> DEFINE b == Nth(cut, 1) - 1
        <3>4. b \in Int /\ b <= Len(text) /\ 1 \in Int /\ 1 <= 1 BY <3>1, <3>3
        <3> HIDE DEF b
        <3>5. SubSeq(text, 1, b) \in Seq(U) BY <3>4, PieceIs
        <3> QED BY <2>2, <3>5 DEF b
    <2> QED BY <2>1, <2>2
<1>2. w = [k \in 1 .. n |-> SubSeq(used, Nth(starts, k), Nth(ends, k))] BY DEF WordsOf
<1> HIDE DEF used
<1>3. starts \subseteq 1 .. Len(used) /\ Len(used) \in Nat BY <1>1
<1> HIDE DEF starts, ends, w
<1>4. n \in Nat
    <2>0. IsFiniteSet(1 .. Len(used)) BY <1>3, FS_Interval
    <2>1. IsFiniteSet(starts) BY <1>3, <2>0, FS_Subset
    <2> QED BY <2>1, FS_CardinalityType
<1> HIDE DEF n
<1>5. DOMAIN w = 1 .. n /\ w \in [1 .. n -> ToSet(w)] BY <1>2 DEF ToSet
<1>6. w \in Seq(ToSet(w)) /\ Len(w) = n BY <1>4, <1>5
<1> QED BY <1>4, <1>5, <1>6 DEF w

\* A well-formed line has a sequence of sources.
LEMMA TargetIs ==
    ASSUME NEW U, NEW line \in Seq(U), WellFormed(line)
    PROVE  Len(TargetIn(line).srcs) \in Nat
<1> DEFINE P == Places(line, ":")
           c == Colon(line)
           words == SourcesIn(line)
<1>1. Len(line) \in Nat /\ P \subseteq 1 .. Len(line) /\ IsFiniteSet(P) /\ P \subseteq Int BY PlacesAre
<1>2. c \in 1 .. Len(line)
    <2>1. P # {} BY DEF WellFormed
    <2> HIDE DEF P
    <2>2. Cardinality(P) \in Nat /\ Cardinality(P) # 0 BY <1>1, <2>1, FS_EmptySet, FS_CardinalityType
    <2>3. 1 \in 1 .. Cardinality(P) BY <2>2
    <2>4. Nth(P, 1) \in P BY <1>1, <2>3, NthIs
    <2> QED BY <1>1, <2>4 DEF Colon, P
<1> HIDE DEF c
<1>3. SubSeq(line, c + 1, Len(line)) \in Seq(U)
    <2> DEFINE a == c + 1
               b == Len(line)
    <2>1. a \in Int /\ b \in Int /\ 1 <= a /\ b <= Len(line) BY <1>1, <1>2
    <2> HIDE DEF a, b
    <2>2. SubSeq(line, a, b) \in Seq(U) BY <2>1, PieceIs
    <2> QED BY <2>2 DEF a, b
<1>4. \E n \in Nat : DOMAIN words = 1 .. n /\ Len(words) = n /\ words \in Seq(ToSet(words)) BY <1>3, WordsAre DEF SourcesIn, c
<1> HIDE DEF words
<1>5. MaxTargetSources \in Nat BY TmakeAssumption
<1>6. ASSUME MaxTargetSources < Len(words) PROVE Len(SubSeq(words, 1, MaxTargetSources)) \in Nat
    <2>1. SubSeq(words, 1, MaxTargetSources) \in Seq(ToSet(words)) BY <1>4, <1>5, <1>6, PieceIs
    <2> QED BY <2>1
<1>7. TargetIn(line).srcs = IF Len(words) <= MaxTargetSources THEN words ELSE SubSeq(words, 1, MaxTargetSources)
    BY DEF TargetIn, words
<1> QED BY <1>4, <1>5, <1>6, <1>7

\* The targets of a list are a sequence, and so are their sources.
LEMMA ListIs ==
    ASSUME NEW dir
    PROVE  \E n \in Nat : DOMAIN ListOf(dir) = 1 .. n /\ \A i \in 1 .. n : Len(ListOf(dir)[i].srcs) \in Nat
<1>1. CASE dir \notin DOMAIN ListText
    <2>1. ListOf(dir) = <<>> BY <1>1 DEF ListOf
    <2>2. DOMAIN ListOf(dir) = 1 .. 0 BY <2>1
    <2> QED BY <2>2
<1>2. CASE dir \in DOMAIN ListText
    <2> DEFINE text == ListText[dir]
               lines == ListLines(text)
               used == {i \in DOMAIN lines : HasContent(lines[i])}
               n == Cardinality(used)
    <2>1. lines \in Seq(Seq(ToSet(text))) /\ IsFiniteSet(DOMAIN lines) /\ DOMAIN lines \subseteq Int
        BY <1>2, TmakeAssumption, ListLinesAre
    <2>2. ListOf(dir) = ReadTmakelist(text).list BY <1>2 DEF ListOf
    <2>3. \/ ListOf(dir) = <<>>
          \/ ListOf(dir) = [k \in 1 .. n |-> TargetIn(lines[Nth(used, k)])] /\ \A i \in used : WellFormed(lines[i])
        BY <2>2 DEF ReadTmakelist, ListRead, TargetsIn
    <2> HIDE DEF lines
    <2>4. used \subseteq DOMAIN lines OBVIOUS
    <2> HIDE DEF used
    <2>5. IsFiniteSet(used) /\ used \subseteq Int BY <2>1, <2>4, FS_Subset
    <2>6. n \in Nat /\ \A k \in 1 .. n : Nth(used, k) \in used BY <2>5, NthIs
    <2> HIDE DEF n
    <2>7. CASE ListOf(dir) = <<>>
        <3>1. DOMAIN ListOf(dir) = 1 .. 0 BY <2>7
        <3> QED BY <3>1
    <2>8. CASE ListOf(dir) = [k \in 1 .. n |-> TargetIn(lines[Nth(used, k)])] /\ \A i \in used : WellFormed(lines[i])
        <3>1. ASSUME NEW k \in 1 .. n PROVE Len(TargetIn(lines[Nth(used, k)]).srcs) \in Nat
            <4>1. Nth(used, k) \in used /\ lines[Nth(used, k)] \in Seq(ToSet(text)) BY <2>1, <2>4, <2>6
            <4> QED BY <2>8, <4>1, TargetIs
        <3> QED BY <2>6, <2>8, <3>1
    <2> QED BY <2>3, <2>7, <2>8
<1> QED BY <1>1, <1>2

\* The parts of a program are source files.
LEMMA PartsAre ==
    ASSUME NEW u \in SourceUnits
    PROVE  AloneParts(u) \in Seq(SourceUnits)
<1>1. CASE OwnTargets(u) = {} BY <1>1 DEF AloneParts
<1>2. CASE OwnTargets(u) # {}
    <2> DEFINE O == OwnTargets(u)
               t == ListOf(u.dir)[Nth(O, 1)]
               s == NamedUnits(u.dir, t)
    <2>1. PICK n \in Nat : DOMAIN ListOf(u.dir) = 1 .. n /\ \A i \in 1 .. n : Len(ListOf(u.dir)[i].srcs) \in Nat BY ListIs
    <2>2. O \subseteq 1 .. n /\ O \subseteq Int BY <2>1 DEF OwnTargets
    <2> HIDE DEF O
    <2>0. IsFiniteSet(1 .. n) BY FS_Interval
    <2>3. IsFiniteSet(O) BY <2>0, <2>2, FS_Subset
    <2>4. Cardinality(O) \in Nat /\ Cardinality(O) # 0 BY <1>2, <2>3, FS_EmptySet, FS_CardinalityType DEF O
    <2>5. 1 \in 1 .. Cardinality(O) BY <2>4
    <2>6. Nth(O, 1) \in O BY <2>2, <2>3, <2>5, NthIs
    <2>7. Len(t.srcs) \in Nat BY <2>1, <2>2, <2>6
    <2> HIDE DEF t
    <2>8. Len(t.srcs) + 1 \in Nat /\ DOMAIN s = 1 .. Len(t.srcs) + 1 BY <2>7 DEF NamedUnits
    <2> HIDE DEF s
    <2>9. Among(s, SourceUnits) \in Seq(SourceUnits) BY <2>8, AmongIs
    <2> QED BY <1>2, <2>9 DEF AloneParts, s, t, O
<1> QED BY <1>1, <1>2

----------------------------------------------------------------------------
(* The builds.  BuildSound alone is not inductive: that a fresh object     *)
(* stays one needs what it was read from and when, with the clock; that    *)
(* all parts of a program are linked needs, for each part, that it still   *)
(* waits, is being compiled or is fresh; that a tool stays whole needs     *)
(* that its copy has another name.                                         *)

\* No file is newer than the clock.
Clock ==
    /\ now \in Nat /\ builds \in Nat
    /\ edited \in [SourceUnits \cup HeaderFiles -> Nat]
    /\ \A f \in SourceUnits \cup HeaderFiles : edited[f] <= now

\* What was read at a tick, or later: what has changed since is as new.
ReadSince(made, tick, u) == \A f \in Inputs(u) : made[f] = edited[f] \/ edited[f] >= tick
ObjectsDated ==
    /\ DOMAIN objectOf = SourceUnits
    /\ \A u \in SourceUnits : objectOf[u] # Missing =>
           /\ {objectOf[u].from, objectOf[u].at} \subseteq Nat /\ objectOf[u].deps \in BOOLEAN
           /\ objectOf[u].from <= objectOf[u].at /\ objectOf[u].at <= now
           /\ ReadSince(objectOf[u].made, objectOf[u].from, u)

Stages == {"lib", "app", "link", "install", "core", "rename"}
Compiles == building.stage \in {"lib", "app"}
BuildFields == {"stage", "target", "serial", "gcc", "todo", "doing", "failed", "begun"}
\* The record of the build under way, or of the last one.
Record ==
    /\ \/ building = NoBuild /\ builds = 0
       \/ DOMAIN building = {"stage", "result", "target", "begun"} /\ building.stage = "idle"
       \/ DOMAIN building = BuildFields /\ building.stage \in Stages /\ building.gcc \in BOOLEAN
    /\ building # NoBuild =>
           building.target \in TheApps \cup {All} /\ building.begun \in Nat /\ building.begun <= now
\* What it has still to do.
Todo ==
    /\ Compiles => building.todo \in Seq(SourceUnits)
    /\ building.stage \in {"core", "rename"} => building.todo \in Seq(CoreTools \cap DOMAIN programs)
    /\ At("rename") => building.todo # <<>>
\* What its compiler has read.
Compiling ==
    Compiles /\ building.doing # Missing =>
        /\ building.doing.unit \in SourceUnits /\ building.doing.from \in Nat
        /\ building.begun <= building.doing.from /\ building.doing.from <= now
        /\ ReadSince(building.doing.made, building.doing.from, building.doing.unit)

\* An object is one that a build begun then may use.
Fresh(u, begun) ==
    /\ objectOf[u] # Missing
    /\ \A f \in Inputs(u) : objectOf[u].made[f] = edited[f] \/ Unnoticed(u, f) \/ edited[f] >= begun
OfOne == building # NoBuild /\ building.target # All
PartsOfIt == ToSet(AloneParts(building.target))
AllFresh == \A u \in PartsOfIt : Fresh(u, building.begun)
LinkedAlone == programs[building.target.name].objs = {[unit |-> u, made |-> objectOf[u].made] : u \in PartsOfIt}
\* The build of one program: each part waits, is compiled, or is fresh; all are
\* linked.
OneBuild ==
    OfOne =>
        /\ At("app") =>
               /\ ~building.failed
               /\ \A u \in PartsOfIt :
                      \/ u \in ToSet(building.todo)
                      \/ building.doing # Missing /\ building.doing.unit = u
                      \/ Fresh(u, building.begun)
        /\ At("link") =>
               /\ AllFresh
               /\ \/ building.todo = <<>> /\ LinkedAlone
                  \/ \E multi \in BOOLEAN, objs \in Seq(SourceUnits) :
                         /\ building.todo = <<[name |-> building.target.name, multi |-> multi, objs |-> objs]>>
                         /\ ToSet(objs) = PartsOfIt
        /\ building.stage \in {"install", "core", "rename"} \/ (At("idle") /\ building.result = "done") =>
               AllFresh /\ LinkedAlone

\* No program is cut short when it is linked.
ProgramsWhole == \A name \in DOMAIN programs : programs[name] # CutShort

BuildInv == Clock /\ ObjectsDated /\ Record /\ Todo /\ Compiling /\ OneBuild /\ ProgramsWhole /\ CoreToolsWhole

\* What a file is made of are sources and headers.
LEMMA InputsAre == ASSUME NEW u \in SourceUnits PROVE Inputs(u) \subseteq SourceUnits \cup HeaderFiles /\ Inputs(u) \subseteq {u} \cup HeaderFiles
BY TmakeAssumption DEF Inputs

\* An object that is passed over is as its sources are, but for what goes
\* unnoticed (needs_rebuild).
LEMMA PassedOverIs ==
    ASSUME Clock, ObjectsDated, NEW u \in SourceUnits, ~NeedsRebuild(u)
    PROVE  objectOf[u] # Missing /\ \A f \in Inputs(u) : objectOf[u].made[f] = edited[f] \/ Unnoticed(u, f)
<1>1. objectOf[u] # Missing /\ edited[u] <= objectOf[u].at /\ ~NewerDependency(u)
    <2>1. edited[u] \in Nat /\ (objectOf[u] # Missing => objectOf[u].at \in Nat) BY DEF Clock, ObjectsDated
    <2> QED BY <2>1 DEF NeedsRebuild
<1>2. /\ {objectOf[u].from, objectOf[u].at} \subseteq Nat /\ objectOf[u].deps \in BOOLEAN
      /\ \A f \in Inputs(u) : objectOf[u].made[f] = edited[f] \/ edited[f] >= objectOf[u].from
    BY <1>1 DEF ObjectsDated, ReadSince
<1>3. SUFFICES ASSUME NEW f \in Inputs(u), objectOf[u].made[f] # edited[f] PROVE Unnoticed(u, f) BY <1>1
<1>4. edited[f] >= objectOf[u].from BY <1>2, <1>3
<1>5. edited[f] \in Nat BY InputsAre DEF Clock
<1>6. CASE f = u BY <1>1, <1>2, <1>4, <1>5, <1>6 DEF Unnoticed
<1>7. CASE f \in IncludedBy[u]
    <2>1. f \in HeaderFiles BY <1>7, TmakeAssumption
    <2>2. CASE ~objectOf[u].deps BY <2>1, <2>2 DEF Unnoticed
    <2>3. CASE objectOf[u].deps
        <3>1. ~(edited[f] > objectOf[u].at) BY <1>1, <1>7, <2>3 DEF NewerDependency
        <3>2. edited[f] <= objectOf[u].at BY <1>2, <1>5, <3>1
        <3> QED BY <1>2, <1>4, <1>5, <3>2 DEF Unnoticed
    <2> QED BY <1>2, <2>2, <2>3
<1> QED BY <1>6, <1>7 DEF Inputs

\* No build has begun at the start.
LEMMA BuildStarts == ASSUME BuildStart PROVE BuildInv
<1> USE DEF BuildStart
<1>1. Clock BY DEF Clock
<1>2. ObjectsDated BY DEF ObjectsDated, Missing
<1>3. Record BY DEF Record
<1>4. Todo /\ Compiling /\ OneBuild BY DEF Todo, Compiling, OneBuild, OfOne, Compiles, NoBuild, At
<1>5. ProgramsWhole /\ CoreToolsWhole BY DEF ProgramsWhole, CoreToolsWhole, NoProgram
<1> QED BY <1>1, <1>2, <1>3, <1>4, <1>5 DEF BuildInv

\* A file that is edited is newer than what was read of it.
LEMMA EditKeeps == ASSUME BuildInv, NEW f \in SourceUnits \cup HeaderFiles, EditFile(f) PROVE BuildInv'
<1>1. PICK t \in {now, now + 1} : t > edited[f] /\ now' = t /\ edited' = [edited EXCEPT ![f] = t]
    BY DEF EditFile
<1>2. UNCHANGED <<objectOf, library, programs, homeBin, coreBin, building, builds, copyFailed>> BY DEF EditFile
<1>3. Clock /\ ObjectsDated /\ Record /\ Todo /\ Compiling /\ OneBuild /\ ProgramsWhole /\ CoreToolsWhole BY DEF BuildInv
<1>4. now \in Nat /\ now' \in Nat /\ now <= now' BY <1>1, <1>3 DEF Clock
<1>5. \A g \in SourceUnits \cup HeaderFiles : edited[g] \in Nat /\ edited'[g] \in Nat /\ edited'[g] <= now'
      /\ (edited'[g] = edited[g] \/ edited'[g] >= now)
    BY <1>1, <1>3 DEF Clock
<1>6. ASSUME NEW made, NEW tick \in Nat, tick <= now, NEW u \in SourceUnits, ReadSince(made, tick, u)
      PROVE  \A g \in Inputs(u) : made[g] = edited'[g] \/ edited'[g] >= tick
    <2> SUFFICES ASSUME NEW g \in Inputs(u) PROVE made[g] = edited'[g] \/ edited'[g] >= tick OBVIOUS
    <2>1. g \in SourceUnits \cup HeaderFiles BY InputsAre
    <2>2. made[g] = edited[g] \/ edited[g] >= tick BY <1>6 DEF ReadSince
    <2> QED BY <1>4, <1>5, <1>6, <2>1, <2>2
<1>7. Clock' BY <1>1, <1>2, <1>3, <1>4, <1>5 DEF Clock
<1>8. ObjectsDated'
    <2>1. DOMAIN objectOf' = SourceUnits BY <1>2, <1>3 DEF ObjectsDated
    <2>2. ASSUME NEW u \in SourceUnits, objectOf[u] # Missing
          PROVE  /\ {objectOf[u].from, objectOf[u].at} \subseteq Nat /\ objectOf[u].deps \in BOOLEAN
                 /\ objectOf[u].from <= objectOf[u].at /\ objectOf[u].at <= now'
                 /\ \A g \in Inputs(u) : objectOf[u].made[g] = edited'[g] \/ edited'[g] >= objectOf[u].from
        <3>1. /\ objectOf[u].from \in Nat /\ objectOf[u].at \in Nat /\ objectOf[u].deps \in BOOLEAN
              /\ objectOf[u].from <= objectOf[u].at /\ objectOf[u].at <= now
              /\ ReadSince(objectOf[u].made, objectOf[u].from, u)
            BY <1>3, <2>2 DEF ObjectsDated
        <3>2. objectOf[u].from <= now /\ objectOf[u].at <= now' BY <1>4, <3>1
        <3> QED BY <1>6, <3>1, <3>2
    <2> QED BY <1>2, <2>1, <2>2 DEF ObjectsDated, ReadSince, Inputs
<1>9. Record' BY <1>2, <1>3, <1>4 DEF Record
<1>10. Todo' BY <1>2, <1>3 DEF Todo, Compiles, At
<1>11. Compiling'
    <2> SUFFICES ASSUME Compiles, building.doing # Missing
                 PROVE  /\ building.doing.unit \in SourceUnits /\ building.doing.from \in Nat
                        /\ building.begun <= building.doing.from /\ building.doing.from <= now'
                        /\ \A g \in Inputs(building.doing.unit) : building.doing.made[g] = edited'[g] \/ edited'[g] >= building.doing.from
        BY <1>2 DEF Compiling, Compiles, ReadSince, Inputs
    <2>1. /\ building.doing.unit \in SourceUnits /\ building.doing.from \in Nat
          /\ building.begun <= building.doing.from /\ building.doing.from <= now
          /\ ReadSince(building.doing.made, building.doing.from, building.doing.unit)
        BY <1>3 DEF Compiling
    <2>2. building.doing.from <= now' BY <1>4, <2>1
    <2> QED BY <1>6, <2>1, <2>2
<1>12. ASSUME OfOne, NEW u \in SourceUnits, Fresh(u, building.begun) PROVE Fresh(u, building.begun)'
    <2>1. building.begun \in Nat /\ building.begun <= now BY <1>3, <1>12 DEF Record, OfOne
    <2>2. objectOf[u] # Missing BY <1>12 DEF Fresh
    <2>3. ASSUME NEW g \in Inputs(u)
          PROVE  objectOf[u].made[g] = edited'[g] \/ Unnoticed(u, g)' \/ edited'[g] >= building.begun
        <3>1. g \in SourceUnits \cup HeaderFiles BY InputsAre
        <3>2. objectOf[u].made[g] = edited[g] \/ Unnoticed(u, g) \/ edited[g] >= building.begun BY <1>12 DEF Fresh
        <3>3. CASE edited'[g] = edited[g] BY <1>2, <3>2, <3>3 DEF Unnoticed
        <3>4. CASE edited'[g] >= now BY <1>4, <1>5, <2>1, <3>1, <3>4
        <3> QED BY <1>5, <3>1, <3>3, <3>4
    <2> QED BY <1>2, <2>2, <2>3 DEF Fresh, Inputs
<1>13. OneBuild'
    <2> SUFFICES ASSUME OfOne PROVE OneBuild' BY <1>2 DEF OneBuild, OfOne
    <2>1. building.target \in SourceUnits BY <1>3 DEF Record, OfOne, TheApps
    <2>2. PartsOfIt \subseteq SourceUnits /\ PartsOfIt' = PartsOfIt BY <1>2, <2>1, PartsAre DEF PartsOfIt, ToSet
    <2>3. AllFresh => AllFresh' BY <1>2, <1>12, <2>2 DEF AllFresh
    <2>4. LinkedAlone' <=> LinkedAlone BY <1>2, <2>2 DEF LinkedAlone
    <2>5. \A u \in PartsOfIt : Fresh(u, building.begun) => Fresh(u, building.begun)' BY <1>12, <2>2
    <2> QED BY <1>2, <1>3, <2>2, <2>3, <2>4, <2>5 DEF OneBuild, At
<1>14. ProgramsWhole' /\ CoreToolsWhole' BY <1>2, <1>3 DEF ProgramsWhole, CoreToolsWhole
<1> QED BY <1>7, <1>8, <1>9, <1>10, <1>11, <1>13, <1>14 DEF BuildInv

\* Where no file changes, objects stay as they were.
LEMMA SameFiles ==
    ASSUME Clock, ObjectsDated, UNCHANGED <<edited, now, objectOf>>, builds' \in Nat
    PROVE  Clock' /\ ObjectsDated'
<1>1. Clock' BY DEF Clock
<1>2. ObjectsDated' BY DEF ObjectsDated, ReadSince, Inputs
<1> QED BY <1>1, <1>2

\* Nor does what a build knows of them change.
LEMMA SameBuild ==
    ASSUME UNCHANGED <<edited, objectOf>>, building'.begun = building.begun, building'.target = building.target
    PROVE  /\ \A u : Fresh(u, building.begun) => Fresh(u, building.begun)'
           /\ PartsOfIt' = PartsOfIt /\ (AllFresh => AllFresh')
           /\ UNCHANGED programs => (LinkedAlone' <=> LinkedAlone)
<1>1. ASSUME NEW u, Fresh(u, building.begun) PROVE Fresh(u, building.begun)' BY <1>1 DEF Fresh, Unnoticed, Inputs
<1>2. PartsOfIt' = PartsOfIt BY DEF PartsOfIt
<1>3. AllFresh => AllFresh' BY <1>1, <1>2 DEF AllFresh
<1>4. UNCHANGED programs => (LinkedAlone' <=> LinkedAlone) BY <1>2 DEF LinkedAlone
<1> QED BY <1>1, <1>2, <1>3, <1>4

\* The files of a set as a sequence.
LEMMA FilesAre == ASSUME NEW set, set \subseteq SourceUnits PROVE SetToSeq(set) \in Seq(SourceUnits)
<1>1. IsFiniteSet(set) BY TmakeAssumption, FS_Subset
<1>2. SetToSeq(set) \in Seq(set) BY <1>1, SetToSeqIs
<1> QED BY <1>2

\* What the record of a build under way is.
LEMMA UnderWay ==
    ASSUME Record, building.stage \in Stages
    PROVE  /\ DOMAIN building = BuildFields /\ building.gcc \in BOOLEAN /\ building # NoBuild
           /\ building.target \in TheApps \cup {All} /\ building.begun \in Nat /\ building.begun <= now
<1>1. building.stage # "idle" BY DEF Stages
<1> QED BY <1>1 DEF Record, NoBuild

\* A build that is over has nothing to do; if it is not done, it claims nothing.
LEMMA OverKeeps ==
    ASSUME Record, Clock, building.stage \in Stages, UNCHANGED now, NEW result,
           BuildOver(result)
    PROVE  Record' /\ Todo' /\ Compiling' /\ (result # "done" => OneBuild')
<1>1. building' = [stage |-> "idle", result |-> result, target |-> building.target, begun |-> building.begun] BY DEF BuildOver, Go
<1>2. DOMAIN building' = {"stage", "result", "target", "begun"} /\ building'.stage = "idle" /\ building'.result = result
      /\ building'.target = building.target /\ building'.begun = building.begun
    BY <1>1
<1>3. Record' BY <1>2, UnderWay DEF Record
<1>4. Todo' /\ Compiling' BY <1>2 DEF Todo, Compiling, Compiles, At
<1>5. result # "done" => OneBuild' BY <1>2 DEF OneBuild, At
<1> QED BY <1>3, <1>4, <1>5

\* A full build starts with no object.
LEMMA FullBuildKeeps == ASSUME BuildInv, NEW serial \in BOOLEAN, NEW gcc \in BOOLEAN, FullBuild(serial, gcc) PROVE BuildInv'
<1>1. Clock /\ ObjectsDated /\ Record /\ ProgramsWhole /\ CoreToolsWhole BY DEF BuildInv
<1>2. /\ objectOf' = [u \in SourceUnits |-> Missing] /\ builds' = builds + 1
      /\ programs' = (IF gcc THEN NoProgram ELSE programs)
      /\ building' = NewBuild(All, serial, gcc, "lib", SetToSeq(Compiled(TheLibrary)))
      /\ UNCHANGED <<edited, now, coreBin, copyFailed>>
    BY DEF FullBuild, Go
<1>3. /\ DOMAIN building' = BuildFields /\ building'.stage = "lib" /\ building'.target = All /\ building'.gcc = gcc
      /\ building'.todo = SetToSeq(Compiled(TheLibrary)) /\ building'.doing = Missing /\ building'.begun = now
    BY <1>2 DEF NewBuild, BuildFields
<1>4. Clock' BY <1>1, <1>2 DEF Clock
<1>5. ObjectsDated' BY <1>2 DEF ObjectsDated
<1>6. Record' BY <1>1, <1>2, <1>3 DEF Record, Stages, Clock
<1>7. Todo'
    <2>1. Compiled(TheLibrary) \subseteq SourceUnits BY DEF Compiled, TheLibrary
    <2>2. building'.todo \in Seq(SourceUnits) BY <1>3, <2>1, FilesAre
    <2> QED BY <1>3, <2>2 DEF Todo, At
<1>8. Compiling' BY <1>3 DEF Compiling
<1>9. OneBuild' BY <1>3 DEF OneBuild, OfOne
<1>10. ProgramsWhole' /\ CoreToolsWhole' BY <1>1, <1>2 DEF ProgramsWhole, CoreToolsWhole, NoProgram
<1> QED BY <1>4, <1>5, <1>6, <1>7, <1>8, <1>9, <1>10 DEF BuildInv

\* The build of one program starts with all its parts, or with the library.
LEMMA SingleBuildKeeps ==
    ASSUME BuildInv, NEW u \in TheApps, NEW serial \in BOOLEAN, NEW gcc \in BOOLEAN, SingleBuild(u, serial, gcc)
    PROVE  BuildInv'
<1>1. Clock /\ ObjectsDated /\ Record /\ ProgramsWhole /\ CoreToolsWhole BY DEF BuildInv
<1>2. /\ UNCHANGED <<edited, now, objectOf, programs, coreBin, copyFailed>> /\ builds' = builds + 1
      /\ \/ building' = NewBuild(u, TRUE, gcc, "app", AloneParts(u))
         \/ building' = NewBuild(u, serial, gcc, "lib", SetToSeq(Compiled(TheLibrary)))
    BY DEF SingleBuild, Go
<1>3. /\ DOMAIN building' = BuildFields /\ building'.target = u /\ building'.gcc = gcc /\ building'.begun = now
      /\ building'.doing = Missing /\ ~building'.failed
      /\ \/ building'.stage = "app" /\ building'.todo = AloneParts(u)
         \/ building'.stage = "lib" /\ building'.todo = SetToSeq(Compiled(TheLibrary))
    BY <1>2 DEF NewBuild, BuildFields
<1>4. Clock' /\ ObjectsDated'
    <2>1. builds' \in Nat BY <1>1, <1>2 DEF Clock
    <2> QED BY <1>1, <1>2, <2>1, SameFiles
<1>5. Record' BY <1>1, <1>2, <1>3 DEF Record, Stages, Clock
<1>6. Todo'
    <2>1. Compiled(TheLibrary) \subseteq SourceUnits /\ u \in SourceUnits BY DEF Compiled, TheLibrary, TheApps
    <2>2. building'.todo \in Seq(SourceUnits) BY <1>3, <2>1, FilesAre, PartsAre
    <2> QED BY <1>3, <2>2 DEF Todo, At
<1>7. Compiling' BY <1>3 DEF Compiling
<1>8. OneBuild'
    <2>1. PartsOfIt' = ToSet(AloneParts(u)) BY <1>3 DEF PartsOfIt
    <2> QED BY <1>3, <2>1 DEF OneBuild, OfOne, At
<1>9. ProgramsWhole' /\ CoreToolsWhole' BY <1>1, <1>2 DEF ProgramsWhole, CoreToolsWhole
<1> QED BY <1>4, <1>5, <1>6, <1>7, <1>8, <1>9 DEF BuildInv

\* A sequence without its first element: what was in it is that or is left.
LEMMA TailOf ==
    ASSUME NEW U, NEW s \in Seq(U), s # <<>>
    PROVE  /\ Head(s) \in U /\ Tail(s) \in Seq(U)
           /\ \A x \in ToSet(s) : x = Head(s) \/ x \in ToSet(Tail(s))
<1>1. Head(s) \in U /\ Tail(s) \in Seq(U) OBVIOUS
<1>2. ASSUME NEW i \in DOMAIN s PROVE s[i] = Head(s) \/ s[i] \in ToSet(Tail(s))
    <2>1. CASE i = 1 BY <2>1
    <2>2. CASE i # 1
        <3>1. i - 1 \in DOMAIN Tail(s) /\ Tail(s)[i - 1] = s[i] BY <2>2
        <3> QED BY <3>1 DEF ToSet
    <2> QED BY <2>1, <2>2
<1> QED BY <1>1, <1>2 DEF ToSet

\* A part that is passed over is fresh, another one is compiled.
LEMMA CompileOneKeeps == ASSUME BuildInv, NEW q \in SourceUnits, CompileOne(q) PROVE BuildInv'
<1>1. Clock /\ ObjectsDated /\ Record /\ Todo /\ OneBuild /\ ProgramsWhole /\ CoreToolsWhole BY DEF BuildInv
<1>2. /\ building.stage \in {"lib", "app"} /\ building.doing = Missing /\ building.todo # <<>> /\ q = Head(building.todo)
      /\ building' = [building EXCEPT !.todo = Tail(@),
                         !.doing = IF NeedsRebuild(q) THEN [unit |-> q, made |-> Current(q), from |-> now] ELSE Missing]
      /\ UNCHANGED <<edited, now, objectOf, programs, coreBin, builds, copyFailed>>
    BY DEF CompileOne, Go
<1>3. /\ DOMAIN building = BuildFields /\ building.gcc \in BOOLEAN /\ building # NoBuild
      /\ building.target \in TheApps \cup {All} /\ building.begun \in Nat /\ building.begun <= now
    BY <1>1, <1>2, UnderWay DEF Stages
<1>4. /\ DOMAIN building' = BuildFields /\ building'.todo = Tail(building.todo)
      /\ building'.doing = (IF NeedsRebuild(q) THEN [unit |-> q, made |-> Current(q), from |-> now] ELSE Missing)
      /\ building'.stage = building.stage /\ building'.target = building.target /\ building'.gcc = building.gcc
      /\ building'.failed = building.failed /\ building'.begun = building.begun
    BY <1>2, <1>3 DEF BuildFields
<1>5. building.todo \in Seq(SourceUnits) BY <1>1, <1>2 DEF Todo, Compiles
<1>6. building'.todo \in Seq(SourceUnits) /\ \A x \in ToSet(building.todo) : x = q \/ x \in ToSet(building'.todo)
    BY <1>2, <1>4, <1>5, TailOf
<1>7. Clock' /\ ObjectsDated'
    <2>1. builds' \in Nat BY <1>1, <1>2 DEF Clock
    <2> QED BY <1>1, <1>2, <2>1, SameFiles
<1>8. Record' BY <1>1, <1>2, <1>3, <1>4 DEF Record, Stages, NoBuild
<1>9. Todo' BY <1>2, <1>4, <1>6 DEF Todo, At
<1>10. Compiling'
    <2> SUFFICES ASSUME building'.doing # Missing PROVE Compiling' BY DEF Compiling
    <2>1. building'.doing = [unit |-> q, made |-> Current(q), from |-> now] BY <1>4
    <2>2. building'.doing.unit = q /\ building'.doing.from = now /\ building'.doing.made = Current(q) BY <2>1
    <2>3. \A f \in Inputs(q) : Current(q)[f] = edited[f] BY DEF Current
    <2>4. ReadSince(building.doing.made, building.doing.from, building.doing.unit)' BY <1>2, <2>2, <2>3 DEF ReadSince, Inputs
    <2> QED BY <1>1, <1>2, <1>3, <1>4, <2>2, <2>4 DEF Compiling, Clock
<1>11. OneBuild'
    <2> SUFFICES ASSUME OfOne', At("app")' PROVE OneBuild'
        <3>1. ~At("link")' /\ building'.stage \notin {"install", "core", "rename"} /\ ~At("idle")' BY <1>2, <1>4 DEF At
        <3> QED BY <3>1 DEF OneBuild
    <2>1. OfOne /\ At("app") BY <1>3, <1>4 DEF OfOne, At
    <2>2. /\ \A u : Fresh(u, building.begun) => Fresh(u, building.begun)'
          /\ PartsOfIt' = PartsOfIt
        BY <1>2, <1>4, SameBuild
    <2>3. ~building.failed /\ \A u \in PartsOfIt : u \in ToSet(building.todo) \/ Fresh(u, building.begun)
        BY <1>1, <1>2, <2>1 DEF OneBuild
    <2>4. CASE NeedsRebuild(q)
        <3>1. building'.doing # Missing /\ building'.doing.unit = q
            <4>1. building'.doing = [unit |-> q, made |-> Current(q), from |-> now] BY <1>4, <2>4
            <4> QED BY <4>1 DEF Missing
        <3>2. \A u \in PartsOfIt' : u \in ToSet(building'.todo) \/ u = q \/ Fresh(u, building.begun)' BY <1>6, <2>2, <2>3
        <3> QED BY <1>2, <1>4, <2>3, <3>1, <3>2 DEF OneBuild, At
    <2>5. CASE ~NeedsRebuild(q)
        <3>1. Fresh(q, building.begun) BY <1>1, <2>5, PassedOverIs DEF Fresh
        <3>2. \A u \in PartsOfIt' : u \in ToSet(building'.todo) \/ Fresh(u, building.begun)' BY <1>6, <2>2, <2>3, <3>1
        <3> QED BY <1>2, <1>4, <2>3, <3>2 DEF OneBuild, At
    <2> QED BY <2>4, <2>5
<1>12. ProgramsWhole' /\ CoreToolsWhole' BY <1>1, <1>2 DEF ProgramsWhole, CoreToolsWhole
<1> QED BY <1>7, <1>8, <1>9, <1>10, <1>11, <1>12 DEF BuildInv

\* The object that the compiler leaves is as new as what it has read.
LEMMA CompileEndsKeeps == ASSUME BuildInv, CompileEnds PROVE BuildInv'
<1>0. PICK q : q = building.doing.unit OBVIOUS
<1> DEFINE o == [made |-> building.doing.made, from |-> building.doing.from, at |-> now, deps |-> building.gcc]
<1>1. Clock /\ ObjectsDated /\ Record /\ Todo /\ Compiling /\ OneBuild /\ ProgramsWhole /\ CoreToolsWhole BY DEF BuildInv
<1>2. /\ building.stage \in {"lib", "app"} /\ building.doing # Missing
      /\ objectOf' = [objectOf EXCEPT ![q] = o]
      /\ building' = [building EXCEPT !.doing = Missing]
      /\ UNCHANGED <<edited, now, programs, coreBin, builds, copyFailed>>
    BY <1>0 DEF CompileEnds, Go
<1>3. /\ DOMAIN building = BuildFields /\ building.gcc \in BOOLEAN /\ building # NoBuild
      /\ building.target \in TheApps \cup {All} /\ building.begun \in Nat /\ building.begun <= now
    BY <1>1, <1>2, UnderWay DEF Stages
<1>4. /\ q \in SourceUnits /\ building.doing.from \in Nat /\ building.begun <= building.doing.from /\ building.doing.from <= now
      /\ \A f \in Inputs(q) : building.doing.made[f] = edited[f] \/ edited[f] >= building.doing.from
    BY <1>0, <1>1, <1>2 DEF Compiling, Compiles, ReadSince
<1>5. /\ DOMAIN building' = BuildFields /\ building'.todo = building.todo /\ building'.doing = Missing
      /\ building'.stage = building.stage /\ building'.target = building.target /\ building'.gcc = building.gcc
      /\ building'.failed = building.failed /\ building'.begun = building.begun
    BY <1>2, <1>3 DEF BuildFields
<1>6. now \in Nat /\ \A f \in SourceUnits \cup HeaderFiles : edited[f] \in Nat BY <1>1 DEF Clock
<1>7. o.made = building.doing.made /\ o.from = building.doing.from /\ o.at = now /\ o.deps = building.gcc /\ o # Missing
    BY DEF Missing
<1> HIDE DEF o
<1>8. DOMAIN objectOf' = SourceUnits /\ objectOf'[q] = o /\ \A u \in SourceUnits : u # q => objectOf'[u] = objectOf[u]
    BY <1>1, <1>2, <1>4 DEF ObjectsDated
<1>9. Clock' BY <1>1, <1>2 DEF Clock
<1>10. ObjectsDated'
    <2> SUFFICES ASSUME NEW u \in SourceUnits, objectOf'[u] # Missing
                 PROVE  /\ {objectOf'[u].from, objectOf'[u].at} \subseteq Nat /\ objectOf'[u].deps \in BOOLEAN
                        /\ objectOf'[u].from <= objectOf'[u].at /\ objectOf'[u].at <= now
                        /\ \A f \in Inputs(u) : objectOf'[u].made[f] = edited[f] \/ edited[f] >= objectOf'[u].from
        BY <1>2, <1>8 DEF ObjectsDated, ReadSince, Inputs
    <2>1. CASE u = q BY <1>3, <1>4, <1>6, <1>7, <1>8, <2>1
    <2>2. CASE u # q BY <1>1, <1>8, <2>2 DEF ObjectsDated, ReadSince
    <2> QED BY <2>1, <2>2
<1>11. Record' BY <1>1, <1>2, <1>3, <1>5 DEF Record, Stages, NoBuild
<1>12. Todo' BY <1>1, <1>2, <1>5 DEF Todo, At, Compiles
<1>13. Compiling' BY <1>5 DEF Compiling
<1>14. OneBuild'
    <2> SUFFICES ASSUME OfOne', At("app")' PROVE OneBuild'
        <3>1. ~At("link")' /\ building'.stage \notin {"install", "core", "rename"} /\ ~At("idle")' BY <1>2, <1>5 DEF At
        <3> QED BY <3>1 DEF OneBuild
    <2>1. OfOne /\ At("app") BY <1>3, <1>5 DEF OfOne, At
    <2>2. PartsOfIt' = PartsOfIt BY <1>5 DEF PartsOfIt
    <2>3. PartsOfIt \subseteq SourceUnits
        <3>1. building.target \in SourceUnits BY <1>3, <2>1 DEF OfOne, TheApps
        <3> QED BY <3>1, PartsAre DEF PartsOfIt, ToSet
    <2>4. ~building.failed /\ \A u \in PartsOfIt : u \in ToSet(building.todo) \/ u = q \/ Fresh(u, building.begun)
        BY <1>0, <1>1, <2>1 DEF OneBuild
    <2>5. Fresh(q, building.begun)'
        <3>1. \A f \in Inputs(q) : o.made[f] = edited[f] \/ edited[f] >= building.begun
            <4> SUFFICES ASSUME NEW f \in Inputs(q) PROVE o.made[f] = edited[f] \/ edited[f] >= building.begun OBVIOUS
            <4>1. edited[f] \in Nat BY <1>4, <1>6, InputsAre
            <4> QED BY <1>3, <1>4, <1>7, <4>1
        <3> QED BY <1>2, <1>5, <1>7, <1>8, <3>1 DEF Fresh, Inputs
    <2>6. ASSUME NEW u \in PartsOfIt, u # q, Fresh(u, building.begun) PROVE Fresh(u, building.begun)'
        <3>1. objectOf'[u] = objectOf[u] BY <1>8, <2>3, <2>6
        <3> QED BY <1>2, <1>5, <2>6, <3>1 DEF Fresh, Unnoticed, Inputs
    <2>7. \A u \in PartsOfIt' : u \in ToSet(building'.todo) \/ Fresh(u, building.begun)' BY <1>5, <2>2, <2>4, <2>5, <2>6
    <2> QED BY <1>2, <1>5, <2>4, <2>7 DEF OneBuild, At
<1>15. ProgramsWhole' /\ CoreToolsWhole' BY <1>1, <1>2 DEF ProgramsWhole, CoreToolsWhole
<1> QED BY <1>9, <1>10, <1>11, <1>12, <1>13, <1>14, <1>15 DEF BuildInv

\* A compiler that fails leaves no object, and ends the build of one program.
LEMMA CompileFailsKeeps == ASSUME BuildInv, CompileFails PROVE BuildInv'
<1> DEFINE q == building.doing.unit
<1>1. Clock /\ ObjectsDated /\ Record /\ Todo /\ Compiling /\ OneBuild /\ ProgramsWhole /\ CoreToolsWhole BY DEF BuildInv
<1>2. /\ building.stage \in {"lib", "app"} /\ building.doing # Missing
      /\ objectOf' = [objectOf EXCEPT ![q] = Missing]
      /\ \/ BuildOver("exit") \/ BuildOver("failed")
         \/ ~(building.stage = "app" /\ building.target # All) /\ building' = [building EXCEPT !.doing = Missing, !.failed = TRUE]
      /\ UNCHANGED <<edited, now, programs, coreBin, builds, copyFailed>>
    BY DEF CompileFails, Go
<1>3. /\ DOMAIN building = BuildFields /\ building.gcc \in BOOLEAN /\ building # NoBuild
      /\ building.target \in TheApps \cup {All} /\ building.begun \in Nat /\ building.begun <= now
    BY <1>1, <1>2, UnderWay DEF Stages
<1>4. Clock' BY <1>1, <1>2 DEF Clock
<1>5. ObjectsDated'
    <2>1. q \in SourceUnits BY <1>1, <1>2 DEF Compiling, Compiles
    <2> HIDE DEF q
    <2>2. DOMAIN objectOf' = SourceUnits /\ objectOf'[q] = Missing /\ \A u \in SourceUnits : u # q => objectOf'[u] = objectOf[u]
        BY <1>1, <1>2, <2>1 DEF ObjectsDated
    <2>3. \A u \in SourceUnits : objectOf'[u] # Missing => objectOf'[u] = objectOf[u] BY <2>2
    <2> QED BY <1>1, <1>2, <2>2, <2>3 DEF ObjectsDated, ReadSince, Inputs
<1>6. Record' /\ Todo' /\ Compiling' /\ OneBuild'
    <2>1. CASE BuildOver("exit") \/ BuildOver("failed") BY <1>1, <1>2, <2>1, OverKeeps DEF Stages
    <2>2. CASE ~(building.stage = "app" /\ building.target # All) /\ building' = [building EXCEPT !.doing = Missing, !.failed = TRUE]
        <3>1. /\ DOMAIN building' = BuildFields /\ building'.todo = building.todo /\ building'.doing = Missing
              /\ building'.stage = building.stage /\ building'.target = building.target /\ building'.gcc = building.gcc
              /\ building'.begun = building.begun
            BY <1>3, <2>2 DEF BuildFields
        <3>2. Record' BY <1>1, <1>2, <1>3, <3>1 DEF Record, Stages, NoBuild
        <3>3. Todo' BY <1>1, <1>2, <3>1 DEF Todo, At, Compiles
        <3>4. Compiling' BY <3>1 DEF Compiling
        <3>5. OneBuild' BY <1>2, <2>2, <3>1 DEF OneBuild, OfOne, At
        <3> QED BY <3>2, <3>3, <3>4, <3>5
    <2> QED BY <1>2, <2>1, <2>2
<1>7. ProgramsWhole' /\ CoreToolsWhole' BY <1>1, <1>2 DEF ProgramsWhole, CoreToolsWhole
<1> QED BY <1>4, <1>5, <1>6, <1>7 DEF BuildInv

\* With the library there, the program's parts are to be compiled.
LEMMA ArchiveLibraryKeeps == ASSUME BuildInv, ArchiveLibrary PROVE BuildInv'
<1>1. Clock /\ ObjectsDated /\ Record /\ ProgramsWhole /\ CoreToolsWhole BY DEF BuildInv
<1>2. /\ building.stage = "lib" /\ building.doing = Missing
      /\ building' = [building EXCEPT !.stage = "app", !.failed = FALSE, !.serial = building.serial \/ building.target # All,
              !.todo = IF building.target = All THEN SetToSeq(Compiled(TheApps)) ELSE AloneParts(building.target)]
      /\ UNCHANGED <<edited, now, objectOf, programs, coreBin, builds, copyFailed>>
    BY DEF ArchiveLibrary, CompiledAll, At, Go
<1>3. /\ DOMAIN building = BuildFields /\ building.gcc \in BOOLEAN /\ building # NoBuild
      /\ building.target \in TheApps \cup {All} /\ building.begun \in Nat /\ building.begun <= now
    BY <1>1, <1>2, UnderWay DEF Stages
<1>4. /\ DOMAIN building' = BuildFields /\ building'.stage = "app" /\ ~building'.failed /\ building'.doing = Missing
      /\ building'.todo = (IF building.target = All THEN SetToSeq(Compiled(TheApps)) ELSE AloneParts(building.target))
      /\ building'.target = building.target /\ building'.gcc = building.gcc /\ building'.begun = building.begun
    BY <1>2, <1>3 DEF BuildFields
<1>5. Clock' /\ ObjectsDated'
    <2>1. builds' \in Nat BY <1>1, <1>2 DEF Clock
    <2> QED BY <1>1, <1>2, <2>1, SameFiles
<1>6. Record' BY <1>1, <1>2, <1>3, <1>4 DEF Record, Stages, NoBuild
<1>7. Todo'
    <2>1. Compiled(TheApps) \subseteq SourceUnits BY DEF Compiled, TheApps
    <2>2. building.target # All => building.target \in SourceUnits BY <1>3 DEF TheApps
    <2>3. building'.todo \in Seq(SourceUnits) BY <1>4, <2>1, <2>2, FilesAre, PartsAre
    <2> QED BY <1>4, <2>3 DEF Todo, At
<1>8. Compiling' BY <1>4 DEF Compiling
<1>9. OneBuild'
    <2> SUFFICES ASSUME OfOne' PROVE OneBuild' BY DEF OneBuild
    <2>1. building'.todo = AloneParts(building.target) BY <1>4 DEF OfOne
    <2>2. PartsOfIt' = ToSet(building'.todo) BY <1>4, <2>1 DEF PartsOfIt
    <2> QED BY <1>4, <2>2 DEF OneBuild, At
<1>10. ProgramsWhole' /\ CoreToolsWhole' BY <1>1, <1>2 DEF ProgramsWhole, CoreToolsWhole
<1> QED BY <1>5, <1>6, <1>7, <1>8, <1>9, <1>10 DEF BuildInv

\* What ToStage leaves of the record.
LEMMA ToStageIs ==
    ASSUME Record, building.stage \in Stages, NEW stage \in Stages, NEW more, ToStage(stage, more), UNCHANGED <<now, builds>>
    PROVE  /\ building'.stage = stage /\ building'.todo = more /\ building'.doing = building.doing
           /\ building'.target = building.target /\ building'.begun = building.begun /\ Record'
<1>1. /\ DOMAIN building = BuildFields /\ building.gcc \in BOOLEAN /\ building # NoBuild
      /\ building.target \in TheApps \cup {All} /\ building.begun \in Nat /\ building.begun <= now
    BY UnderWay
<1>2. building' = [building EXCEPT !.stage = stage, !.todo = more] BY DEF ToStage, Go
<1>3. /\ DOMAIN building' = BuildFields /\ building'.stage = stage /\ building'.todo = more /\ building'.doing = building.doing
      /\ building'.target = building.target /\ building'.begun = building.begun /\ building'.gcc = building.gcc
    BY <1>1, <1>2 DEF BuildFields
<1>4. Record' BY <1>1, <1>3 DEF Record
<1> QED BY <1>3, <1>4

\* A full build goes on to link all.
LEMMA LinkAllKeeps == ASSUME BuildInv, LinkAll PROVE BuildInv'
<1>1. Clock /\ ObjectsDated /\ Record /\ ProgramsWhole /\ CoreToolsWhole BY DEF BuildInv
<1>2. /\ building.stage = "app" /\ building.target = All /\ ToStage("link", LinkJobs(ObjectFiles(TheApps)))
      /\ UNCHANGED <<edited, now, objectOf, programs, coreBin, builds, copyFailed>>
    BY DEF LinkAll, CompiledAll, At
<1>3. building'.stage = "link" /\ building'.target = All /\ Record' BY <1>1, <1>2, ToStageIs DEF Stages
<1>4. Clock' /\ ObjectsDated'
    <2>1. builds' \in Nat BY <1>1, <1>2 DEF Clock
    <2> QED BY <1>1, <1>2, <2>1, SameFiles
<1>5. Todo' /\ Compiling' /\ OneBuild' BY <1>3 DEF Todo, Compiling, OneBuild, OfOne, Compiles, At
<1>6. ProgramsWhole' /\ CoreToolsWhole' BY <1>1, <1>2 DEF ProgramsWhole, CoreToolsWhole
<1> QED BY <1>3, <1>4, <1>5, <1>6 DEF BuildInv

\* The build of one program links all of its parts: none is left to compile.
LEMMA LinkAloneKeeps == ASSUME BuildInv, LinkAlone PROVE BuildInv'
<1> DEFINE parts == AloneParts(building.target)
           multi == OwnTargets(building.target) # {}
           objs == Among(parts, WithObject)
<1>1. Clock /\ ObjectsDated /\ Record /\ OneBuild /\ ProgramsWhole /\ CoreToolsWhole BY DEF BuildInv
<1>2. /\ building.stage = "app" /\ building.target # All /\ building.doing = Missing
      /\ building.todo = <<>> \/ building.failed
      /\ ToStage("link", <<[name |-> building.target.name, multi |-> multi, objs |-> objs]>>)
      /\ UNCHANGED <<edited, now, objectOf, programs, coreBin, builds, copyFailed>>
    BY DEF LinkAlone, CompiledAll, At
<1> HIDE DEF objs, multi
<1>3. /\ building'.stage = "link" /\ building'.todo = <<[name |-> building.target.name, multi |-> multi, objs |-> objs]>>
      /\ building'.target = building.target /\ building'.begun = building.begun /\ Record'
    BY <1>1, <1>2, ToStageIs DEF Stages
<1>4. building # NoBuild /\ building.target \in SourceUnits BY <1>1, <1>2, UnderWay DEF Stages, TheApps
<1>5. AllFresh
    <2>1. ~building.failed /\ \A u \in PartsOfIt : u \in ToSet(building.todo) \/ Fresh(u, building.begun)
        BY <1>1, <1>2, <1>4 DEF OneBuild, OfOne, At
    <2>2. building.todo = <<>> BY <1>2, <2>1
    <2>3. ToSet(building.todo) = {} BY <2>2 DEF ToSet
    <2> QED BY <2>1, <2>3 DEF AllFresh
<1>6. objs \in Seq(SourceUnits) /\ ToSet(objs) = PartsOfIt
    <2>1. parts \in Seq(SourceUnits) BY <1>4, PartsAre
    <2>2. Len(parts) \in Nat /\ DOMAIN parts = 1 .. Len(parts) /\ PartsOfIt = {parts[i] : i \in DOMAIN parts}
        BY <2>1 DEF PartsOfIt, ToSet
    <2>3. PartsOfIt \subseteq WithObject
        <3>1. PartsOfIt \subseteq SourceUnits BY <2>1, <2>2
        <3> QED BY <1>5, <3>1 DEF AllFresh, Fresh, WithObject
    <2> HIDE DEF parts
    <2>4. objs \in Seq(WithObject) /\ ToSet(objs) = {parts[i] : i \in DOMAIN parts} \cap WithObject BY <2>2, AmongIs DEF objs
    <2>5. WithObject \subseteq SourceUnits BY DEF WithObject
    <2> QED BY <2>2, <2>3, <2>4, <2>5
<1>7. Clock' /\ ObjectsDated'
    <2>1. builds' \in Nat BY <1>1, <1>2 DEF Clock
    <2> QED BY <1>1, <1>2, <2>1, SameFiles
<1>8. Todo' /\ Compiling' BY <1>3 DEF Todo, Compiling, Compiles, At
<1>9. OneBuild'
    <2>1. PartsOfIt' = PartsOfIt /\ AllFresh' BY <1>2, <1>3, <1>5, SameBuild
    <2>2. multi \in BOOLEAN BY DEF multi
    <2> QED BY <1>3, <1>6, <2>1, <2>2 DEF OneBuild, At
<1>10. ProgramsWhole' /\ CoreToolsWhole' BY <1>1, <1>2 DEF ProgramsWhole, CoreToolsWhole
<1> QED BY <1>3, <1>7, <1>8, <1>9, <1>10 DEF BuildInv

\* A job that links whole is no program cut short.
LEMMA LinkedIsWhole == ASSUME NEW job, Whole(job) PROVE Linked(job) # CutShort
<1>1. Linked(job).lib = (IF NeedsLibrary(job) THEN library.built ELSE {}) BY DEF Linked
<1>2. Linked(job).objs = {[unit |-> u, made |-> objectOf[u].made] : u \in ToSet(job.objs)} BY DEF Linked
<1>3. CutShort.lib = {} /\ CutShort.objs = {} BY DEF CutShort
<1>4. CASE NeedsLibrary(job) BY <1>1, <1>3, <1>4 DEF Whole
<1>5. CASE ~NeedsLibrary(job)
    <2>1. PICK u \in ToSet(job.objs) : u \in Standalone BY <1>5 DEF NeedsLibrary
    <2>2. Linked(job).objs # {} BY <1>2, <2>1
    <2> QED BY <1>3, <2>2
<1> QED BY <1>4, <1>5

\* A program is linked of all its parts, or the build of it ends.
LEMMA LinkOneKeeps == ASSUME BuildInv, LinkOne PROVE BuildInv'
<1>0. PICK job : job = Head(building.todo) OBVIOUS
<1>1. Clock /\ ObjectsDated /\ Record /\ OneBuild /\ ProgramsWhole /\ CoreToolsWhole BY DEF BuildInv
<1>2. /\ building.stage = "link" /\ building.todo # <<>>
      /\ \/ Whole(job) /\ programs' = Put(programs, job.name, Linked(job)) /\ ToStage("link", Tail(building.todo))
         \/ UNCHANGED programs /\ building.target = All /\ building' = [building EXCEPT !.todo = <<>>, !.failed = TRUE]
         \/ UNCHANGED programs /\ building.target # All /\ BuildOver("failed")
      /\ UNCHANGED <<edited, now, objectOf, coreBin, builds, copyFailed>>
    BY <1>0 DEF LinkOne, Go, At
<1>3. /\ DOMAIN building = BuildFields /\ building.gcc \in BOOLEAN /\ building # NoBuild
      /\ building.target \in TheApps \cup {All} /\ building.begun \in Nat /\ building.begun <= now
    BY <1>1, <1>2, UnderWay DEF Stages
<1>4. Clock' /\ ObjectsDated'
    <2>1. builds' \in Nat BY <1>1, <1>2 DEF Clock
    <2> QED BY <1>1, <1>2, <2>1, SameFiles
<1>5. CoreToolsWhole' BY <1>1, <1>2 DEF CoreToolsWhole
<1>6. CASE Whole(job) /\ programs' = Put(programs, job.name, Linked(job)) /\ ToStage("link", Tail(building.todo))
    <2>1. /\ building'.stage = "link" /\ building'.todo = Tail(building.todo) /\ building'.target = building.target
          /\ building'.begun = building.begun /\ Record'
        BY <1>1, <1>2, <1>6, ToStageIs DEF Stages
    <2>2. Todo' /\ Compiling' BY <2>1 DEF Todo, Compiling, Compiles, At
    <2>3. ProgramsWhole'
        <3>1. programs' = [n \in DOMAIN programs \cup {job.name} |-> IF n = job.name THEN Linked(job) ELSE programs[n]] BY <1>6 DEF Put
        <3>2. \A n \in DOMAIN programs' : programs'[n] = Linked(job) \/ (n \in DOMAIN programs /\ programs'[n] = programs[n]) BY <3>1
        <3> QED BY <1>1, <1>6, <3>2, LinkedIsWhole DEF ProgramsWhole, CutShort
    <2>4. OneBuild'
        <3> SUFFICES ASSUME OfOne' PROVE OneBuild' BY DEF OneBuild
        <3>1. OfOne BY <1>3, <2>1 DEF OfOne
        <3>2. AllFresh /\ \E multi \in BOOLEAN, objs \in Seq(SourceUnits) :
                  building.todo = <<[name |-> building.target.name, multi |-> multi, objs |-> objs]>> /\ ToSet(objs) = PartsOfIt
            BY <1>1, <1>2, <3>1 DEF OneBuild, At
        <3>3. job.name = building.target.name /\ ToSet(job.objs) = PartsOfIt /\ building'.todo = <<>>
            BY <1>0, <2>1, <3>2
        <3>4. AllFresh' /\ PartsOfIt' = PartsOfIt BY <1>2, <2>1, <3>2, SameBuild
        <3>5. programs'[building.target.name].objs = {[unit |-> u, made |-> objectOf[u].made] : u \in PartsOfIt}
            <4>1. programs'[job.name] = Linked(job) BY <1>6 DEF Put
            <4>2. Linked(job).objs = {[unit |-> u, made |-> objectOf[u].made] : u \in PartsOfIt} BY <3>3 DEF Linked
            <4> QED BY <3>3, <4>1, <4>2
        <3>6. LinkedAlone' BY <1>2, <2>1, <3>4, <3>5 DEF LinkedAlone
        <3> QED BY <2>1, <3>3, <3>4, <3>6 DEF OneBuild, At
    <2> QED BY <1>4, <1>5, <2>1, <2>2, <2>3, <2>4 DEF BuildInv
<1>7. CASE UNCHANGED programs /\ building.target = All /\ building' = [building EXCEPT !.todo = <<>>, !.failed = TRUE]
    <2>1. /\ DOMAIN building' = BuildFields /\ building'.stage = "link" /\ building'.target = All
          /\ building'.gcc = building.gcc /\ building'.begun = building.begun
        BY <1>2, <1>3, <1>7 DEF BuildFields
    <2>2. Record' BY <1>2, <1>3, <2>1 DEF Record, Stages
    <2>3. Todo' /\ Compiling' /\ OneBuild' BY <2>1 DEF Todo, Compiling, OneBuild, OfOne, Compiles, At
    <2>4. ProgramsWhole' BY <1>1, <1>7 DEF ProgramsWhole
    <2> QED BY <1>4, <1>5, <2>2, <2>3, <2>4 DEF BuildInv
<1>8. CASE UNCHANGED programs /\ BuildOver("failed")
    <2>1. Record' /\ Todo' /\ Compiling' /\ OneBuild' BY <1>1, <1>2, <1>8, OverKeeps DEF Stages
    <2>2. ProgramsWhole' BY <1>1, <1>8 DEF ProgramsWhole
    <2> QED BY <1>4, <1>5, <2>1, <2>2 DEF BuildInv
<1> QED BY <1>2, <1>6, <1>7, <1>8

\* What installing leaves as it was: the objects and the programs.
LEMMA InstallingKeeps ==
    ASSUME BuildInv, OfOne => AllFresh /\ LinkedAlone, building.stage \in {"link", "install", "core", "rename"},
           NEW stage \in {"install", "core", "rename"}, building'.stage = stage, Record',
           building'.target = building.target, building'.begun = building.begun,
           UNCHANGED <<edited, now, objectOf, programs, builds>>
    PROVE  Clock' /\ ObjectsDated' /\ Compiling' /\ OneBuild' /\ ProgramsWhole'
<1>1. Clock /\ ObjectsDated /\ Record /\ OneBuild /\ ProgramsWhole BY DEF BuildInv
<1>2. building # NoBuild BY <1>1, UnderWay DEF Stages
<1>3. Clock' /\ ObjectsDated'
    <2>1. builds' \in Nat BY <1>1 DEF Clock
    <2> QED BY <1>1, <2>1, SameFiles
<1>4. OneBuild'
    <2> SUFFICES ASSUME OfOne' PROVE OneBuild' BY DEF OneBuild
    <2>1. AllFresh /\ LinkedAlone BY <1>2 DEF OfOne
    <2>2. AllFresh' /\ LinkedAlone' BY <2>1, SameBuild
    <2> QED BY <2>2 DEF OneBuild, At
<1>5. Compiling' BY DEF Compiling, Compiles
<1>6. ProgramsWhole' BY <1>1 DEF ProgramsWhole
<1> QED BY <1>3, <1>4, <1>5, <1>6

\* What is linked is what will be installed.
LEMMA StartInstallKeeps == ASSUME BuildInv, StartInstall PROVE BuildInv'
<1>1. Record /\ OneBuild /\ CoreToolsWhole BY DEF BuildInv
<1>2. /\ building.stage = "link" /\ building.todo = <<>> /\ ToStage("install", ForHome)
      /\ UNCHANGED <<edited, now, objectOf, programs, coreBin, builds, copyFailed>>
    BY DEF StartInstall, At
<1>3. building'.stage = "install" /\ building'.target = building.target /\ building'.begun = building.begun /\ Record'
    BY <1>1, <1>2, ToStageIs DEF Stages
<1>4. OfOne => AllFresh /\ LinkedAlone
    <2>1. \A job : building.todo # <<job>> BY <1>2
    <2> QED BY <1>1, <1>2, <2>1 DEF OneBuild, At
<1>5. Clock' /\ ObjectsDated' /\ Compiling' /\ OneBuild' /\ ProgramsWhole' BY <1>2, <1>3, <1>4, InstallingKeeps
<1>6. Todo' BY <1>3 DEF Todo, Compiles, At
<1>7. CoreToolsWhole' BY <1>1, <1>2 DEF CoreToolsWhole
<1> QED BY <1>3, <1>5, <1>6, <1>7 DEF BuildInv

LEMMA InstallOneKeeps == ASSUME BuildInv, InstallOne PROVE BuildInv'
<1>1. Record /\ OneBuild /\ CoreToolsWhole BY DEF BuildInv
<1>2. /\ building.stage = "install" /\ ToStage("install", Tail(building.todo))
      /\ UNCHANGED <<edited, now, objectOf, programs, coreBin, builds, copyFailed>>
    BY DEF InstallOne, At
<1>3. building'.stage = "install" /\ building'.target = building.target /\ building'.begun = building.begun /\ Record'
    BY <1>1, <1>2, ToStageIs DEF Stages
<1>4. OfOne => AllFresh /\ LinkedAlone BY <1>1, <1>2 DEF OneBuild
<1>5. Clock' /\ ObjectsDated' /\ Compiling' /\ OneBuild' /\ ProgramsWhole' BY <1>2, <1>3, <1>4, InstallingKeeps
<1>6. Todo' BY <1>3 DEF Todo, Compiles, At
<1>7. CoreToolsWhole' BY <1>1, <1>2 DEF CoreToolsWhole
<1> QED BY <1>3, <1>5, <1>6, <1>7 DEF BuildInv

LEMMA StartCoreKeeps == ASSUME BuildInv, StartCore PROVE BuildInv'
<1>1. Record /\ OneBuild /\ CoreToolsWhole BY DEF BuildInv
<1>2. /\ building.stage = "install" /\ ToStage("core", SetToSeq(CoreTools \cap DOMAIN programs))
      /\ UNCHANGED <<edited, now, objectOf, programs, coreBin, builds, copyFailed>>
    BY DEF StartCore, At
<1>3. /\ building'.stage = "core" /\ building'.target = building.target /\ building'.begun = building.begun /\ Record'
      /\ building'.todo = SetToSeq(CoreTools \cap DOMAIN programs)
    BY <1>1, <1>2, ToStageIs DEF Stages
<1>4. OfOne => AllFresh /\ LinkedAlone BY <1>1, <1>2 DEF OneBuild
<1>5. Clock' /\ ObjectsDated' /\ Compiling' /\ OneBuild' /\ ProgramsWhole' BY <1>2, <1>3, <1>4, InstallingKeeps
<1>6. Todo'
    <2> DEFINE tools == CoreTools \cap DOMAIN programs
    <2>1. tools \subseteq CoreTools OBVIOUS
    <2> HIDE DEF tools
    <2>2. IsFiniteSet(tools) BY <2>1, TmakeAssumption, FS_Subset
    <2>3. SetToSeq(tools) \in Seq(tools) BY <2>2, SetToSeqIs
    <2> QED BY <1>2, <1>3, <2>3 DEF Todo, Compiles, At, tools
<1>7. CoreToolsWhole' BY <1>1, <1>2 DEF CoreToolsWhole
<1> QED BY <1>3, <1>5, <1>6, <1>7 DEF BuildInv

\* The name a copy has first is the name of no tool.
LEMMA NewNameIs == ASSUME NEW tool \in CoreTools PROVE CoreCopyTo(tool) \notin CoreTools
<1>1. tool \in Seq(ToSet(tool) \ {".new"}) BY TmakeAssumption
<1>2. Len(NewName(tool)) >= 1 /\ NewName(tool)[1] = ".new" BY <1>1 DEF NewName
<1>3. ASSUME NEW other \in CoreTools PROVE other # NewName(tool)
    <2>1. other \in Seq(ToSet(other) \ {".new"}) BY TmakeAssumption
    <2>2. Len(other) >= 1 => other[1] # ".new" BY <2>1
    <2> QED BY <1>2, <2>2
<1> QED BY <1>3 DEF CoreCopyTo

\* A tool under its own name is not touched while its copy is made.
LEMMA CopyingKeeps ==
    ASSUME CoreToolsWhole, NEW tool \in CoreTools, NEW file, coreBin' = Put(coreBin, CoreCopyTo(tool), file), copyFailed \subseteq copyFailed'
    PROVE  CoreToolsWhole'
<1>1. \A n \in CoreTools : n # CoreCopyTo(tool) BY NewNameIs
<1>2. \A n \in CoreTools \cap DOMAIN coreBin' : n \in DOMAIN coreBin /\ coreBin'[n] = coreBin[n] BY <1>1 DEF Put
<1> QED BY <1>2 DEF CoreToolsWhole, CutShort

LEMMA CopyCoreKeeps == ASSUME BuildInv, CopyCore PROVE BuildInv'
<1>0. PICK tool : tool = Head(building.todo) OBVIOUS
<1>1. Record /\ Todo /\ OneBuild /\ CoreToolsWhole BY DEF BuildInv
<1>2. /\ building.stage = "core" /\ building.todo # <<>> /\ building' = [building EXCEPT !.stage = "rename"]
      /\ \E file : coreBin' = Put(coreBin, CoreCopyTo(tool), file)
      /\ copyFailed \subseteq copyFailed'
      /\ UNCHANGED <<edited, now, objectOf, programs, builds>>
    BY <1>0 DEF CopyCore, Go, At
<1>3. /\ DOMAIN building = BuildFields /\ building.gcc \in BOOLEAN /\ building # NoBuild
      /\ building.target \in TheApps \cup {All} /\ building.begun \in Nat /\ building.begun <= now
    BY <1>1, <1>2, UnderWay DEF Stages
<1>4. /\ DOMAIN building' = BuildFields /\ building'.stage = "rename" /\ building'.target = building.target
      /\ building'.gcc = building.gcc /\ building'.begun = building.begun /\ building'.todo = building.todo
    BY <1>2, <1>3 DEF BuildFields
<1>5. Record' BY <1>2, <1>3, <1>4 DEF Record, Stages
<1>6. OfOne => AllFresh /\ LinkedAlone BY <1>1, <1>2 DEF OneBuild
<1>7. Clock' /\ ObjectsDated' /\ Compiling' /\ OneBuild' /\ ProgramsWhole' BY <1>2, <1>4, <1>5, <1>6, InstallingKeeps
<1>8. building.todo \in Seq(CoreTools \cap DOMAIN programs) BY <1>1, <1>2 DEF Todo
<1>9. Todo' BY <1>2, <1>4, <1>8 DEF Todo, Compiles, At
<1>10. CoreToolsWhole'
    <2>1. tool \in CoreTools BY <1>0, <1>2, <1>8, TailOf
    <2> QED BY <1>1, <1>2, <2>1, CopyingKeeps
<1> QED BY <1>5, <1>7, <1>9, <1>10 DEF BuildInv

LEMMA CopyCoreEndsKeeps == ASSUME BuildInv, CopyCoreEnds PROVE BuildInv'
<1>0. PICK tool : tool = Head(building.todo) OBVIOUS
<1>1. Record /\ Todo /\ OneBuild /\ CoreToolsWhole BY DEF BuildInv
<1>2. /\ building.stage = "rename" /\ coreBin' = Put(coreBin, CoreCopyTo(tool), programs[tool])
      /\ UNCHANGED <<edited, now, objectOf, programs, building, builds, copyFailed>>
    BY <1>0 DEF CopyCoreEnds, At
<1>3. Record' BY <1>1, <1>2 DEF Record
<1>4. OfOne => AllFresh /\ LinkedAlone BY <1>1, <1>2 DEF OneBuild
<1>5. Clock' /\ ObjectsDated' /\ Compiling' /\ OneBuild' /\ ProgramsWhole' BY <1>2, <1>3, <1>4, InstallingKeeps
<1>6. Todo' BY <1>1, <1>2 DEF Todo, Compiles, At
<1>7. CoreToolsWhole'
    <2>1. building.todo \in Seq(CoreTools \cap DOMAIN programs) /\ building.todo # <<>> BY <1>1, <1>2 DEF Todo, At
    <2>2. tool \in CoreTools BY <1>0, <2>1, TailOf
    <2> QED BY <1>1, <1>2, <2>2, CopyingKeeps
<1> QED BY <1>3, <1>5, <1>6, <1>7 DEF BuildInv

\* The copy takes the tool's name once it is whole, or its copying has failed.
LEMMA RenameCoreKeeps == ASSUME BuildInv, RenameCore PROVE BuildInv'
<1>0. PICK tool : tool = Head(building.todo) OBVIOUS
<1>1. Record /\ Todo /\ OneBuild /\ CoreToolsWhole BY DEF BuildInv
<1>2. /\ building.stage = "rename" /\ building' = [building EXCEPT !.stage = "core", !.todo = Tail(@)]
      /\ coreBin[CoreCopyTo(tool)] # CutShort \/ tool \in copyFailed
      /\ coreBin' = [n \in (DOMAIN coreBin \ {CoreCopyTo(tool)}) \cup {tool} |-> IF n = tool THEN coreBin[CoreCopyTo(tool)] ELSE coreBin[n]]
      /\ UNCHANGED <<edited, now, objectOf, programs, builds, copyFailed>>
    BY <1>0 DEF RenameCore, Copied, Go, At
<1>3. /\ DOMAIN building = BuildFields /\ building.gcc \in BOOLEAN /\ building # NoBuild
      /\ building.target \in TheApps \cup {All} /\ building.begun \in Nat /\ building.begun <= now
    BY <1>1, <1>2, UnderWay DEF Stages
<1>4. /\ DOMAIN building' = BuildFields /\ building'.stage = "core" /\ building'.target = building.target
      /\ building'.gcc = building.gcc /\ building'.begun = building.begun /\ building'.todo = Tail(building.todo)
    BY <1>2, <1>3 DEF BuildFields
<1>5. Record' BY <1>2, <1>3, <1>4 DEF Record, Stages
<1>6. OfOne => AllFresh /\ LinkedAlone BY <1>1, <1>2 DEF OneBuild
<1>7. Clock' /\ ObjectsDated' /\ Compiling' /\ OneBuild' /\ ProgramsWhole' BY <1>2, <1>4, <1>5, <1>6, InstallingKeeps
<1>8. Todo'
    <2>1. building.todo \in Seq(CoreTools \cap DOMAIN programs) /\ building.todo # <<>> BY <1>1, <1>2 DEF Todo, At
    <2>2. building'.todo \in Seq(CoreTools \cap DOMAIN programs) BY <1>4, <2>1, TailOf
    <2> QED BY <1>2, <1>4, <2>2 DEF Todo, Compiles, At
<1>9. CoreToolsWhole'
    <2>1. \A n \in CoreTools \cap DOMAIN coreBin' : n # tool => n \in DOMAIN coreBin /\ coreBin'[n] = coreBin[n] BY <1>2
    <2>2. coreBin'[tool] = coreBin[CoreCopyTo(tool)] BY <1>2
    <2> QED BY <1>1, <1>2, <2>1, <2>2 DEF CoreToolsWhole, CutShort
<1> QED BY <1>5, <1>7, <1>8, <1>9 DEF BuildInv

\* A build that is done has linked what it was to link.
LEMMA BuildEndsKeeps == ASSUME BuildInv, BuildEnds PROVE BuildInv'
<1>1. Clock /\ ObjectsDated /\ Record /\ OneBuild /\ ProgramsWhole /\ CoreToolsWhole BY DEF BuildInv
<1>2. /\ building.stage = "core" /\ BuildOver("done")
      /\ UNCHANGED <<edited, now, objectOf, programs, coreBin, builds, copyFailed>>
    BY DEF BuildEnds, At
<1>3. Record' /\ Todo' /\ Compiling' BY <1>1, <1>2, OverKeeps DEF Stages
<1>4. /\ building'.stage = "idle" /\ building'.target = building.target /\ building'.begun = building.begun
    BY <1>2 DEF BuildOver, Go
<1>5. Clock' /\ ObjectsDated'
    <2>1. builds' \in Nat BY <1>1, <1>2 DEF Clock
    <2> QED BY <1>1, <1>2, <2>1, SameFiles
<1>6. OneBuild'
    <2> SUFFICES ASSUME OfOne' PROVE OneBuild' BY DEF OneBuild
    <2>1. building # NoBuild BY <1>1, <1>2, UnderWay DEF Stages
    <2>2. AllFresh /\ LinkedAlone BY <1>1, <1>2, <1>4, <2>1 DEF OneBuild, OfOne
    <2>3. AllFresh' /\ LinkedAlone' BY <1>2, <1>4, <2>2, SameBuild
    <2> QED BY <1>4, <2>3 DEF OneBuild, At
<1>7. ProgramsWhole' /\ CoreToolsWhole' BY <1>1, <1>2 DEF ProgramsWhole, CoreToolsWhole
<1> QED BY <1>3, <1>5, <1>6, <1>7 DEF BuildInv

\* A build that is killed is over at any moment, and claims nothing.
LEMMA KillBuildKeeps == ASSUME BuildInv, KillBuild PROVE BuildInv'
<1>1. Clock /\ ObjectsDated /\ Record /\ ProgramsWhole /\ CoreToolsWhole BY DEF BuildInv
<1>2. /\ building.stage # "idle" /\ BuildOver("killed")
      /\ UNCHANGED <<edited, now, objectOf, programs, coreBin, builds, copyFailed>>
    BY DEF KillBuild, At
<1>3. building.stage \in Stages BY <1>1, <1>2 DEF Record, NoBuild
<1>4. Record' /\ Todo' /\ Compiling' /\ OneBuild' BY <1>1, <1>2, <1>3, OverKeeps
<1>5. Clock' /\ ObjectsDated'
    <2>1. builds' \in Nat BY <1>1, <1>2 DEF Clock
    <2> QED BY <1>1, <1>2, <2>1, SameFiles
<1>6. ProgramsWhole' /\ CoreToolsWhole' BY <1>1, <1>2 DEF ProgramsWhole, CoreToolsWhole
<1> QED BY <1>4, <1>5, <1>6 DEF BuildInv

\* Every step keeps the invariant of the builds.
LEMMA BuildKeeps == ASSUME BuildInv, [BuildNext]_buildVars PROVE BuildInv'
<1>1. CASE UNCHANGED buildVars
    <2> USE <1>1 DEF buildVars
    <2>1. Clock /\ ObjectsDated /\ Record /\ Todo /\ Compiling /\ OneBuild /\ ProgramsWhole /\ CoreToolsWhole BY DEF BuildInv
    <2>2. Clock' /\ ObjectsDated' BY <2>1, SameFiles DEF Clock
    <2>3. Record' /\ Todo' /\ ProgramsWhole' /\ CoreToolsWhole'
        BY <2>1 DEF Record, Todo, Compiles, At, ProgramsWhole, CoreToolsWhole
    <2>4. Compiling' BY <2>1 DEF Compiling, Compiles, ReadSince, Inputs
    <2>5. OneBuild'
        <3>1. (AllFresh => AllFresh') /\ (LinkedAlone => LinkedAlone') /\ PartsOfIt' = PartsOfIt
              /\ \A u : Fresh(u, building.begun) => Fresh(u, building.begun)'
            BY SameBuild
        <3> QED BY <2>1, <3>1 DEF OneBuild, OfOne, At
    <2> QED BY <2>2, <2>3, <2>4, <2>5 DEF BuildInv
<1>2. CASE \E f \in SourceUnits \cup HeaderFiles : EditFile(f) BY <1>2, EditKeeps
<1>3. CASE \E serial, gcc \in BOOLEAN : FullBuild(serial, gcc) \/ \E u \in TheApps : SingleBuild(u, serial, gcc)
    BY <1>3, FullBuildKeeps, SingleBuildKeeps
<1>4. CASE \E u \in SourceUnits : CompileOne(u) BY <1>4, CompileOneKeeps
<1>5. CASE CompileEnds \/ CompileFails \/ ArchiveLibrary \/ LinkAll \/ LinkAlone
    BY <1>5, CompileEndsKeeps, CompileFailsKeeps, ArchiveLibraryKeeps, LinkAllKeeps, LinkAloneKeeps
<1>6. CASE LinkOne \/ StartInstall \/ InstallOne \/ StartCore BY <1>6, LinkOneKeeps, StartInstallKeeps, InstallOneKeeps, StartCoreKeeps
<1>7. CASE CopyCore \/ CopyCoreEnds \/ RenameCore BY <1>7, CopyCoreKeeps, CopyCoreEndsKeeps, RenameCoreKeeps
<1>8. CASE BuildEnds \/ KillBuild BY <1>8, BuildEndsKeeps, KillBuildKeeps
<1> QED BY <1>1, <1>2, <1>3, <1>4, <1>5, <1>6, <1>7, <1>8 DEF BuildNext, BuildGoesOn

\* The invariant is as strong as the property.
LEMMA BuildHolds == ASSUME BuildInv PROVE BuildSound
<1>1. Clock /\ ObjectsDated /\ Record /\ OneBuild /\ CoreToolsWhole BY DEF BuildInv
<1>2. PassedOverIsCurrent BY <1>1, PassedOverIs DEF PassedOverIsCurrent
<1>3. SingleIsCurrent
    <2> SUFFICES ASSUME building.stage = "idle", builds > 0, building.result = "done", building.target # All
                 PROVE  /\ {o.unit : o \in programs[building.target.name].objs} = ToSet(AloneParts(building.target))
                        /\ \A o \in programs[building.target.name].objs : \A f \in Inputs(o.unit) :
                               o.made[f] = edited[f] \/ Unnoticed(o.unit, f) \/ edited[f] >= building.begun
        BY DEF SingleIsCurrent
    <2>1. building # NoBuild
        <3>1. DOMAIN NoBuild = {"stage"} BY DEF NoBuild
        <3>2. "result" \notin DOMAIN NoBuild /\ "todo" \notin DOMAIN NoBuild BY <3>1
        <3> QED BY <1>1, <3>2 DEF Record, BuildFields
    <2>2. AllFresh /\ LinkedAlone BY <1>1, <2>1 DEF OneBuild, OfOne, At
    <2> DEFINE objs == programs[building.target.name].objs
    <2>3. objs = {[unit |-> u, made |-> objectOf[u].made] : u \in PartsOfIt} BY <2>2 DEF LinkedAlone
    <2>4. \A o \in objs : o.unit \in PartsOfIt /\ o.made = objectOf[o.unit].made BY <2>3
    <2>5. ASSUME NEW u \in PartsOfIt PROVE \E o \in objs : o.unit = u
        <3>1. [unit |-> u, made |-> objectOf[u].made] \in objs BY <2>3
        <3> QED BY <3>1
    <2> HIDE DEF objs
    <2>6. {o.unit : o \in objs} = PartsOfIt BY <2>4, <2>5
    <2>7. \A o \in objs : \A f \in Inputs(o.unit) : o.made[f] = edited[f] \/ Unnoticed(o.unit, f) \/ edited[f] >= building.begun
        BY <2>2, <2>4 DEF AllFresh, Fresh
    <2> QED BY <2>6, <2>7 DEF objs, PartsOfIt
<1> QED BY <1>1, <1>2, <1>3 DEF BuildSound

\* The invariant of the builds: objects are as old as what they were made of,
\* and a build of one program is fresh in each part it has passed (tmake.c).
THEOREM BuildInvariant == BuildSpec => []BuildInv
<1>1. BuildStart => BuildInv BY BuildStarts
<1>2. BuildInv /\ [BuildNext]_buildVars => BuildInv' BY BuildKeeps
<1> QED BY <1>1, <1>2, PTL DEF BuildSpec

\* No stale object is passed over but for what goes unnoticed, a build of one
\* program that is done has linked all of its parts, and a core tool that is in
\* use is never half written (needs_rebuild, build_single_app,
\* install_core_tools).
THEOREM BuildsAreSound == BuildSpec => []BuildSound
<1>1. BuildInv => BuildSound BY BuildHolds
<1> QED BY <1>1, BuildInvariant, PTL
=============================================================================
