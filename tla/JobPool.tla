------------------------------ MODULE JobPool ------------------------------
(***************************************************************************)
(* The dispatch loops of app/tmake.c: compile or link a list of files,     *)
(* either with at most max_jobs child processes at a time                  *)
(* (parallel_compile_task, compile_recursive_task, parallel_link_task and  *)
(* link_recursive_task share one loop) or one after the other, each loop   *)
(* with its own way to treat a failure.  Which loop runs, and what fork    *)
(* and waitpid may do, is picked by Init.                                  *)
(*                                                                         *)
(* A job is a file, and names the child that works on it: pids are unique  *)
(* while a child has not been waited for.  A file that needs no work (its  *)
(* object is up to date, or the link loops pass over it) is not in `stale`.*)
(***************************************************************************)
EXTENDS Integers

CONSTANTS
    Total,          \* number of files
    MaxJobs         \* g_max_jobs, for the pool

ASSUME TotalAssumption == Total \in Nat \ {0}
ASSUME MaxJobsAssumption == MaxJobs \in Nat \ {0}

\* The loops that run one child after the other: compile_task and link_task
\* do not look at what compile_file and link_app return, the recursive ones
\* stop at the first -1.  compile_file ends tmake when the compiler exits
\* with 1 (status 256).
Mode == {"pool", "compile", "link", "compile_recursive", "link_recursive"}
StopsAtFailure == {"compile_recursive", "link_recursive"}
ExitsOnError == {"compile", "compile_recursive"}

Job == 0 .. Total - 1
Width == IF MaxJobs > Total THEN Total ELSE MaxJobs

VARIABLES
    env,      \* the loop that runs, and whether fork may return -1 and whoever
              \* started tmake has SIGCHLD ignored; never changed
    pc,       \* "fill", "wait", "returned"; "exited" after exit_group
    next,     \* the file cursor
    active,   \* number of children in pids
    pids,     \* pids[0 .. Width - 1]; entries from `active` on are stale
    failed,   \* a child's status was not 0
    ret,      \* what the task returned
    stale,    \* the files that need work
    status    \* of each job's child

vars == <<env, pc, next, active, pids, failed, ret, stale, status>>

Finished == {"ok", "exit1", "killed"}    \* wait statuses 0, 256 and others
Reaped == {"okReaped", "exit1Reaped", "killedReaped"}
Status == {"none", "lost", "running"} \cup Finished \cup Reaped

reap == [ok |-> "okReaped", exit1 |-> "exit1Reaped", killed |-> "killedReaped"]

Init ==
    /\ env \in [mode : Mode, forkFails : BOOLEAN, noSigchld : BOOLEAN]
    /\ pc = "fill" /\ next = 0 /\ active = 0
    /\ pids = [k \in 0 .. Width - 1 |-> 0]
    /\ failed = FALSE
    /\ ret = 0
    /\ stale \in SUBSET Job
    /\ status = [j \in Job |-> "none"]

----------------------------------------------------------------------------
(* The pool *)

\* Mutants: <= for <, and no look at `failed`.
CanStart_OneMore == active <= Width /\ next < Total /\ ~failed
CanStart_KeepsGoing == active < Width /\ next < Total

CanStart == active < Width /\ next < Total /\ ~failed

\* Mutant: `continue` without next++.
Skip_NoAdvance ==
    /\ env.mode = "pool" /\ pc = "fill" /\ CanStart
    /\ next \notin stale
    /\ UNCHANGED vars

\* compile_file_start says -2, or the link loop passes the file over.
Skip ==
    /\ env.mode = "pool" /\ pc = "fill" /\ CanStart
    /\ next \notin stale
    /\ next' = next + 1
    /\ UNCHANGED <<pc, active, pids, failed, ret, stale, status>>

Start ==
    /\ env.mode = "pool" /\ pc = "fill" /\ CanStart
    /\ next \in stale
    /\ status' = [status EXCEPT ![next] = "running"]
    /\ pids' = [pids EXCEPT ![active] = next]
    /\ active' = active + 1
    /\ next' = next + 1
    /\ UNCHANGED <<pc, failed, ret, stale>>

\* fork returned -1: the loop goes on to the next file.
StartFails ==
    /\ env.mode = "pool" /\ pc = "fill" /\ CanStart
    /\ next \in stale /\ env.forkFails
    /\ status' = [status EXCEPT ![next] = "lost"]
    /\ next' = next + 1
    /\ UNCHANGED <<pc, active, pids, failed, ret, stale>>

Result(f) == IF f THEN -1 ELSE 0

\* Mutant: a failed pool returns at once.
Filled_Hasty ==
    /\ env.mode = "pool" /\ pc = "fill" /\ ~CanStart
    /\ IF active = 0 \/ failed
         THEN pc' = "returned" /\ ret' = Result(failed)
         ELSE pc' = "wait" /\ ret' = ret
    /\ UNCHANGED <<next, active, pids, failed, stale, status>>

\* The pool is full, or there is nothing more to start: wait, or return.
Filled ==
    /\ env.mode = "pool" /\ pc = "fill" /\ ~CanStart
    /\ IF active = 0
         THEN pc' = "returned" /\ ret' = Result(failed)
         ELSE pc' = "wait" /\ ret' = ret
    /\ UNCHANGED <<next, active, pids, failed, stale, status>>

\* Mutants: the last pid does not move into the gap; the status is lost.
Reap_NoSwap(j) ==
    /\ env.mode = "pool" /\ pc = "wait" /\ ~env.noSigchld
    /\ status[j] \in Finished
    /\ status' = [status EXCEPT ![j] = reap[@]]
    /\ \E i \in 0 .. active - 1 : pids[i] = j
    /\ active' = active - 1
    /\ failed' = (failed \/ status[j] # "ok")
    /\ pc' = "fill"
    /\ UNCHANGED <<next, pids, ret, stale>>

Reap_NoStatus(j) ==
    /\ env.mode = "pool" /\ pc = "wait" /\ ~env.noSigchld
    /\ status[j] \in Finished
    /\ status' = [status EXCEPT ![j] = reap[@]]
    /\ \E i \in 0 .. active - 1 :
         /\ pids[i] = j
         /\ pids' = [pids EXCEPT ![i] = pids[active - 1]]
    /\ active' = active - 1
    /\ pc' = "fill"
    /\ UNCHANGED <<next, failed, ret, stale>>

\* waitpid(-1) returns a child; its pid is replaced by the last one.
Reap(j) ==
    /\ env.mode = "pool" /\ pc = "wait" /\ ~env.noSigchld
    /\ status[j] \in Finished
    /\ status' = [status EXCEPT ![j] = reap[@]]
    /\ \E i \in 0 .. active - 1 :
         /\ pids[i] = j
         /\ \A h \in 0 .. i - 1 : pids[h] # j
         /\ pids' = [pids EXCEPT ![i] = pids[active - 1]]
    /\ active' = active - 1
    /\ failed' = (failed \/ status[j] # "ok")
    /\ pc' = "fill"
    /\ UNCHANGED <<next, ret, stale>>

\* waitpid fails with ECHILD when there is no child to wait for; with SIGCHLD
\* ignored it first blocks until the last one has gone.  The loop is left.
WaitFails ==
    /\ env.mode = "pool" /\ pc = "wait"
    /\ \A j \in Job : status[j] # "running"
    /\ env.noSigchld \/ \A j \in Job : status[j] \notin Finished
    /\ pc' = "returned"
    /\ ret' = Result(failed)
    /\ UNCHANGED <<next, active, pids, failed, stale, status>>

----------------------------------------------------------------------------
(* One child after the other                                               *)

SerialNext ==
    /\ env.mode # "pool" /\ pc = "fill" /\ next < Total
    /\ IF next \in stale
         THEN /\ status' = [status EXCEPT ![next] = "running"]
              /\ pc' = "wait" /\ next' = next
         ELSE /\ next' = next + 1
              /\ UNCHANGED <<pc, status>>
    /\ UNCHANGED <<active, pids, failed, ret, stale>>

SerialForkFails ==
    /\ env.mode # "pool" /\ pc = "fill" /\ next < Total
    /\ next \in stale /\ env.forkFails
    /\ status' = [status EXCEPT ![next] = "lost"]
    /\ IF env.mode \in StopsAtFailure
         THEN pc' = "returned" /\ ret' = -1 /\ next' = next
         ELSE next' = next + 1 /\ UNCHANGED <<pc, ret>>
    /\ UNCHANGED <<active, pids, failed, stale>>

\* waitpid for the child, and what follows from its status.  With SIGCHLD
\* ignored waitpid fails when the child has gone and `int status` is what the
\* stack held.
SerialReap ==
    /\ env.mode # "pool" /\ pc = "wait"
    /\ status[next] \in Finished
    /\ status' = [status EXCEPT ![next] = reap[@]]
    /\ \E s \in (IF env.noSigchld THEN Finished ELSE {status[next]}) :
         IF s = "exit1" /\ env.mode \in ExitsOnError
           THEN pc' = "exited" /\ ret' = -1 /\ next' = next
           ELSE IF s # "ok" /\ env.mode \in StopsAtFailure
             THEN pc' = "returned" /\ ret' = -1 /\ next' = next
             ELSE pc' = "fill" /\ ret' = ret /\ next' = next + 1
    /\ UNCHANGED <<active, pids, failed, stale>>

SerialReturn ==
    /\ env.mode # "pool" /\ pc = "fill" /\ next = Total
    /\ pc' = "returned" /\ ret' = 0
    /\ UNCHANGED <<next, active, pids, failed, stale, status>>

----------------------------------------------------------------------------
\* A child ends by itself.
ChildEnds(j) ==
    /\ status[j] = "running"
    /\ \E s \in Finished : status' = [status EXCEPT ![j] = s]
    /\ UNCHANGED <<pc, next, active, pids, failed, ret, stale>>

Pool == Skip \/ Start \/ StartFails \/ Filled \/ (\E j \in Job : Reap(j)) \/ WaitFails
Serial == SerialNext \/ SerialForkFails \/ SerialReap \/ SerialReturn

Next == UNCHANGED env /\ (Pool \/ Serial \/ \E j \in Job : ChildEnds(j))

Spec == Init /\ [][Next]_vars

\* tmake runs, and every compiler or linker run ends.
FairSpec ==
    /\ Spec
    /\ WF_vars(UNCHANGED env /\ (Pool \/ Serial))
    /\ \A j \in Job : WF_vars(UNCHANGED env /\ ChildEnds(j))

----------------------------------------------------------------------------
(* Properties *)

TypeOK ==
    /\ env \in [mode : Mode, forkFails : BOOLEAN, noSigchld : BOOLEAN]
    /\ pc \in {"fill", "wait", "returned", "exited"}
    /\ next \in 0 .. Total
    /\ active \in 0 .. Width
    /\ pids \in [0 .. Width - 1 -> Job]
    /\ failed \in BOOLEAN
    /\ ret \in {-1, 0}
    /\ stale \in SUBSET Job
    /\ status \in [Job -> Status]

Unreaped == {j \in Job : status[j] = "running" \/ status[j] \in Finished}

\* The pids array lists every child that has not been waited for, once:
\* otherwise removing a pid loses a child or keeps a dead one, the pool
\* waits for nobody or starts too many.  The array is never overrun.
PidsExact ==
    env.mode = "pool" =>
        /\ active <= Width
        /\ Unreaped = {pids[i] : i \in 0 .. active - 1}
        /\ \A i, k \in 0 .. active - 1 : pids[i] = pids[k] => i = k

\* The task is over only when no child is left running.
NoOrphans == pc \in {"returned", "exited"} => \A j \in Job : status[j] # "running"

\* Once a failure has been seen nothing more is started, in the pool or by a
\* loop that stops at a failure.
Bad == {"exit1Reaped", "killedReaped"}
LooksAtStatus ==
    /\ env.mode = "pool" \/ env.mode \in StopsAtFailure
    /\ ~env.noSigchld
FailFast ==
    [][LooksAtStatus /\ (\E j \in Job : status[j] \in Bad)
         => \A j \in Job : status[j] = "none" => status'[j] = "none"]_vars

\* Returning 0 means that every file is up to date or has been built, ...
AllBuilt == \A j \in stale : status[j] = "okReaped"

\* ... as far as the loop looks: not where it drops the result, and not where
\* waitpid tells it nothing.  The pool alone passes over a file whose fork has
\* failed.
SuccessMeansBuilt ==
    LooksAtStatus /\ pc = "returned" /\ ret = 0 =>
        IF env.mode = "pool" THEN \A j \in stale : status[j] \in {"okReaped", "lost"}
                             ELSE AllBuilt

\* What the comments on the parallel tasks promise: they build all files.
PoolBuildsAll ==
    pc = "returned" /\ ret = 0 /\ env.mode = "pool" /\ ~env.noSigchld => AllBuilt

\* Every dispatch comes to an end.
Terminates == <>(pc \in {"returned", "exited"})
=============================================================================
