------------------------------ MODULE Pthread ------------------------------
(***************************************************************************)
(* The threads of lib/thread/pthread.c: pthread_create, pthread_exit,      *)
(* pthread_join and pthread_detach, with the two kernel services they      *)
(* lean on (clone with CLEARTID, and futex) as external actions.           *)
(*                                                                         *)
(* A pthread_t is the address of a struct pthread at the top of the        *)
(* thread's own 1 MiB stack mapping, so a mapping is named by that address *)
(* and joining a thread unmaps the memory its struct lives in.  The kernel *)
(* may hand the same address to a later mmap, and the same tid to a later  *)
(* clone; both are modelled.                                               *)
(*                                                                         *)
(* The client owns handles: one thread at a time holds a handle, and the   *)
(* handle is given up when pthread_join has returned 0 for it, as POSIX    *)
(* demands of callers.  Joining a handle that was detached is allowed: the *)
(* comment in pthread_detach says such a call must be harmless.            *)
(***************************************************************************)
EXTENDS FiniteSets

CONSTANTS
    Thread,    \* kernel thread identities (tids)
    Main,      \* the thread that runs main()
    Stack,     \* addresses mmap can return for a stack mapping
    MainPth,   \* the static struct main_pthread of lib/init/init.c
    Value,     \* what a thread function may return
    NoValue,   \* result == NULL before the thread has exited
    NoPth,     \* no struct pthread
    Fresh,     \* tid == -1: written by pthread_create before clone
    Cleared    \* tid == 0: written by the kernel when the thread is gone

Pth == Stack \cup {MainPth}

ASSUME MainAssumption == Main \in Thread /\ MainPth \notin Stack
ASSUME NoPthAssumption == NoPth \notin Pth
ASSUME NoValueAssumption == NoValue \notin Value
ASSUME TidAssumption == Fresh \notin Thread /\ Cleared \notin Thread /\ Fresh # Cleared

VARIABLES
    pc,        \* where each thread is; "none": no such thread
    self,      \* fs_base of each thread: its own struct pthread
    cur,       \* `new` in pthread_create, `p` in pthread_join
    val,       \* the third argument of __futex, read at line 92
    own,       \* the handles the client code of each thread holds
    mapped,    \* the struct pthreads whose memory is mapped
    tid,       \* p->tid
    detached,  \* the p whose detach_state is PTHREAD_CREATE_DETACHED
    result     \* p->result

vars == <<pc, self, cur, val, own, mapped, tid, detached, result>>

Tid == Thread \cup {Fresh, Cleared}

(* Program counters: "run" is client code; "clone" and "store" are inside  *)
(* pthread_create; "test" .. "unmap" inside pthread_join; "exiting" is     *)
(* __exit up to the kernel's mm_release and "wake" between the store of 0  *)
(* and the futex wake-up.                                                  *)
JoinPc == {"test", "load", "wait", "asleep", "result", "unmap"}
CreatePc == {"clone", "store"}
LivePc == {"run", "exiting"} \cup CreatePc \cup JoinPc
Pc == LivePc \cup {"none", "wake"}

Init ==
    /\ pc = [t \in Thread |-> IF t = Main THEN "run" ELSE "none"]
    /\ self = [t \in Thread |-> IF t = Main THEN MainPth ELSE NoPth]
    /\ cur = [t \in Thread |-> NoPth]
    /\ val = [t \in Thread |-> Cleared]
    /\ own = [t \in Thread |-> IF t = Main THEN {MainPth} ELSE {}]
    /\ mapped = {MainPth}
    /\ tid = [m \in Pth |-> IF m = MainPth THEN Main ELSE Fresh]
    /\ detached = {}
    /\ result = [m \in Pth |-> NoValue]

----------------------------------------------------------------------------
(* pthread_create *)

\* mmap the stack and fill in the struct pthread at its top.
CreateMap(t, m) ==
    /\ pc[t] = "run"
    /\ m \in Stack \ mapped
    /\ pc' = [pc EXCEPT ![t] = "clone"]
    /\ cur' = [cur EXCEPT ![t] = m]
    /\ mapped' = mapped \cup {m}
    /\ tid' = [tid EXCEPT ![m] = Fresh]
    /\ detached' = detached \ {m}
    /\ result' = [result EXCEPT ![m] = NoValue]
    /\ UNCHANGED <<self, val, own>>

\* clone succeeds: the kernel has stored the tid (CLONE_PARENT_SETTID) when
\* the child starts, with fs_base set to its struct pthread.
CloneChild(t, c) ==
    /\ pc[t] = "clone"
    /\ pc[c] = "none"
    /\ pc' = [pc EXCEPT ![t] = "store", ![c] = "run"]
    /\ self' = [self EXCEPT ![c] = cur[t]]
    /\ tid' = [tid EXCEPT ![cur[t]] = c]
    /\ UNCHANGED <<cur, val, own, mapped, detached, result>>

\* clone fails: the mapping is returned and the caller gets EAGAIN.
CloneFails(t) ==
    /\ pc[t] = "clone"
    /\ pc' = [pc EXCEPT ![t] = "run"]
    /\ mapped' = mapped \ {cur[t]}
    /\ cur' = [cur EXCEPT ![t] = NoPth]
    /\ UNCHANGED <<self, val, own, tid, detached, result>>

\* *res = new, after the child may already run.
StoreHandle(t) ==
    /\ pc[t] = "store"
    /\ pc' = [pc EXCEPT ![t] = "run"]
    /\ own' = [own EXCEPT ![t] = @ \cup {cur[t]}]
    /\ cur' = [cur EXCEPT ![t] = NoPth]
    /\ UNCHANGED <<self, val, mapped, tid, detached, result>>

----------------------------------------------------------------------------
(* pthread_join *)

\* Mutant: no check of detach_state.
JoinBegin_NoDetachCheck(t, m) ==
    /\ pc[t] = "run"
    /\ m \in own[t] \ {self[t]}
    /\ pc' = [pc EXCEPT ![t] = "test"]
    /\ cur' = [cur EXCEPT ![t] = m]
    /\ UNCHANGED <<self, val, own, mapped, tid, detached, result>>

\* The detach check; a detached handle gives EINVAL and nothing changes.
JoinBegin(t, m) ==
    /\ pc[t] = "run"
    /\ m \in own[t] \ {self[t]}
    /\ m \notin detached
    /\ pc' = [pc EXCEPT ![t] = "test"]
    /\ cur' = [cur EXCEPT ![t] = m]
    /\ UNCHANGED <<self, val, own, mapped, tid, detached, result>>

\* Mutant: any tid but the one being created counts as exited.
JoinTest_NoWait(t) ==
    /\ pc[t] = "test"
    /\ pc' = [pc EXCEPT ![t] = IF tid[cur[t]] # Fresh THEN "result" ELSE "load"]
    /\ val' = [val EXCEPT ![t] = Cleared]
    /\ UNCHANGED <<self, cur, own, mapped, tid, detached, result>>

\* while (p->tid != 0): the first read of tid.
JoinTest(t) ==
    /\ pc[t] = "test"
    /\ pc' = [pc EXCEPT ![t] = IF tid[cur[t]] = Cleared THEN "result" ELSE "load"]
    /\ val' = [val EXCEPT ![t] = Cleared]   \* the last call's argument is dead
    /\ UNCHANGED <<self, cur, own, mapped, tid, detached, result>>

\* The second read, as the value __futex is to compare with.
JoinLoad(t) ==
    /\ pc[t] = "load"
    /\ val' = [val EXCEPT ![t] = tid[cur[t]]]
    /\ pc' = [pc EXCEPT ![t] = "wait"]
    /\ UNCHANGED <<self, cur, own, mapped, tid, detached, result>>

\* Mutant: the wait does not compare the word with the value.
FutexWait_NoCompare(t) ==
    /\ pc[t] = "wait"
    /\ pc' = [pc EXCEPT ![t] = "asleep"]
    /\ UNCHANGED <<self, cur, val, own, mapped, tid, detached, result>>

\* FUTEX_WAIT in the kernel: sleep iff the word still has that value.
FutexWait(t) ==
    /\ pc[t] = "wait"
    /\ pc' = [pc EXCEPT ![t] = IF tid[cur[t]] = val[t] THEN "asleep" ELSE "test"]
    /\ UNCHANGED <<self, cur, val, own, mapped, tid, detached, result>>

\* Mutant: a return of __futex is taken for the exit, `if` for `while`.
FutexInterrupted_If(t) ==
    /\ pc[t] = "asleep"
    /\ pc' = [pc EXCEPT ![t] = "result"]
    /\ UNCHANGED <<self, cur, val, own, mapped, tid, detached, result>>

\* FUTEX_WAIT returns for another reason (a signal).
FutexInterrupted(t) ==
    /\ pc[t] = "asleep"
    /\ pc' = [pc EXCEPT ![t] = "test"]
    /\ UNCHANGED <<self, cur, val, own, mapped, tid, detached, result>>

\* *res = p->result: the value handed to the caller stays in result[cur].
JoinResult(t) ==
    /\ pc[t] = "result"
    /\ pc' = [pc EXCEPT ![t] = "unmap"]
    /\ UNCHANGED <<self, cur, val, own, mapped, tid, detached, result>>

\* munmap(p->map_base): a no-op for the main thread, whose map_base is NULL.
JoinUnmap(t) ==
    /\ pc[t] = "unmap"
    /\ pc' = [pc EXCEPT ![t] = "run"]
    /\ mapped' = mapped \ ({cur[t]} \cap Stack)
    /\ own' = [own EXCEPT ![t] = @ \ {cur[t]}]
    /\ cur' = [cur EXCEPT ![t] = NoPth]
    /\ UNCHANGED <<self, val, tid, detached, result>>

----------------------------------------------------------------------------
(* pthread_exit, pthread_detach and the client *)

\* Mutant: the result is not stored.
PthreadExit_NoResult(t, v) ==
    /\ pc[t] = "run"
    /\ pc' = [pc EXCEPT ![t] = "exiting"]
    /\ own' = [own EXCEPT ![t] = {}]
    /\ UNCHANGED <<self, cur, val, mapped, tid, detached, result>>

\* pthread_exit(v), called by the client or by start() with what the thread
\* function returned.  Handles the thread still holds are lost with it.
PthreadExit(t, v) ==
    /\ pc[t] = "run"
    /\ pc' = [pc EXCEPT ![t] = "exiting"]
    /\ result' = [result EXCEPT ![self[t]] = v]
    /\ own' = [own EXCEPT ![t] = {}]
    /\ UNCHANGED <<self, cur, val, mapped, tid, detached>>

\* The kernel clears *child_tid.  Only clone registered one: nobody called
\* set_tid_address for the main thread, whose tid field is left as it is.
KernelClear(t) ==
    /\ pc[t] = "exiting"
    /\ pc' = [pc EXCEPT ![t] = IF t = Main /\ self[t] = MainPth THEN "none" ELSE "wake"]
    /\ self' = [self EXCEPT ![t] = IF pc'[t] = "none" THEN NoPth ELSE @]
    /\ tid' = IF pc'[t] = "wake" /\ self[t] \in mapped
                THEN [tid EXCEPT ![self[t]] = Cleared] ELSE tid
    /\ UNCHANGED <<cur, val, own, mapped, detached, result>>

\* Mutant: the joiner waits with FUTEX_PRIVATE_FLAG, which this wake-up, a
\* shared one, does not find.
KernelWake_Private(t) ==
    /\ pc[t] = "wake"
    /\ pc' = [pc EXCEPT ![t] = "none"]
    /\ self' = [self EXCEPT ![t] = NoPth]
    /\ UNCHANGED <<cur, val, own, mapped, tid, detached, result>>

\* ... and then wakes one waiter on that address, if there is any.
KernelWake(t) ==
    /\ pc[t] = "wake"
    /\ LET sleepers == {u \in Thread : pc[u] = "asleep" /\ cur[u] = self[t]} IN
       \/ /\ sleepers = {}
          /\ pc' = [pc EXCEPT ![t] = "none"]
       \/ \E u \in sleepers : pc' = [pc EXCEPT ![t] = "none", ![u] = "test"]
    /\ self' = [self EXCEPT ![t] = NoPth]
    /\ UNCHANGED <<cur, val, own, mapped, tid, detached, result>>

\* Mutant: what the comment in pthread_detach decides against, unmapping
\* the stack at once when the thread has already exited.
PthreadDetach_Reclaim(t, m) ==
    /\ pc[t] = "run"
    /\ m \in own[t]
    /\ detached' = detached \cup {m}
    /\ mapped' = IF tid[m] = Cleared THEN mapped \ {m} ELSE mapped
    /\ UNCHANGED <<pc, self, cur, val, own, tid, result>>

\* pthread_detach only marks the thread; its stack is never given back.
PthreadDetach(t, m) ==
    /\ pc[t] = "run"
    /\ m \in own[t]
    /\ detached' = detached \cup {m}
    /\ UNCHANGED <<pc, self, cur, val, own, mapped, tid, result>>

\* Client code hands a pthread_t over to another thread.
PassHandle(t, u, m) ==
    /\ pc[t] = "run" /\ pc[u] = "run" /\ t # u
    /\ m \in own[t]
    /\ own' = [own EXCEPT ![t] = @ \ {m}, ![u] = @ \cup {m}]
    /\ UNCHANGED <<pc, self, cur, val, mapped, tid, detached, result>>

----------------------------------------------------------------------------
Create(t) ==
    \/ \E m \in Stack : CreateMap(t, m)
    \/ \E c \in Thread : CloneChild(t, c)
    \/ CloneFails(t)
    \/ StoreHandle(t)

Join(t) ==
    \/ \E m \in Pth : JoinBegin(t, m)
    \/ JoinTest(t) \/ JoinLoad(t) \/ FutexWait(t) \/ FutexInterrupted(t)
    \/ JoinResult(t) \/ JoinUnmap(t)

Next ==
    \E t \in Thread :
        \/ Create(t)
        \/ Join(t)
        \/ \E v \in Value : PthreadExit(t, v)
        \/ KernelClear(t)
        \/ KernelWake(t)
        \/ \E m \in Pth : PthreadDetach(t, m)
        \/ \E u \in Thread, m \in Pth : PassHandle(t, u, m)

Spec == Init /\ [][Next]_vars

\* A thread inside the library keeps running, and so does the kernel; what
\* client code does, and when it exits, is up to the client.
Fairness ==
    \A t \in Thread :
        /\ WF_vars(JoinTest(t)) /\ WF_vars(JoinLoad(t)) /\ WF_vars(FutexWait(t))
        /\ WF_vars(JoinResult(t)) /\ WF_vars(JoinUnmap(t))
        /\ WF_vars(KernelClear(t)) /\ WF_vars(KernelWake(t))

FairSpec == Spec /\ Fairness

----------------------------------------------------------------------------
(* Properties *)

\* Every variable has its type.
TypeOK ==
    /\ pc \in [Thread -> Pc]
    /\ self \in [Thread -> Pth \cup {NoPth}]
    /\ cur \in [Thread -> Pth \cup {NoPth}]
    /\ val \in [Thread -> Tid]
    /\ own \in [Thread -> SUBSET Pth]
    /\ mapped \in SUBSET Pth
    /\ tid \in [Pth -> Tid]
    /\ detached \in SUBSET Pth
    /\ result \in [Pth -> Value \cup {NoValue}]

\* No thread's stack is taken from under it: from the moment it runs until
\* the kernel has cleared its tid, a thread's struct pthread is mapped and
\* carries its own tid, whatever joins, exits and re-used mappings go on.
StackInUse ==
    \A t \in Thread :
        pc[t] \in LivePc => self[t] \in mapped /\ tid[self[t]] = t

\* pthread_join dereferences p at every step and a held handle may be passed
\* to join or detach: such a p is mapped.
HandleMapped ==
    \A t \in Thread :
        /\ own[t] \subseteq mapped
        /\ pc[t] \in JoinPc \cup CreatePc => cur[t] \in mapped

\* pthread_join takes the result and unmaps the stack only when the thread
\* has exited and left its result there.
JoinAfterExit ==
    \A t \in Thread :
        pc[t] \in {"result", "unmap"} =>
            /\ tid[cur[t]] = Cleared
            /\ result[cur[t]] \in Value
            /\ \A u \in Thread : self[u] = cur[t] => pc[u] \in {"wake"}

\* A joiner sleeps only while the thread it waits for has not exited or the
\* kernel still owes it a wake-up; the one exception is a joiner whose second
\* read of tid (line 92) already saw 0.
SleepJustified ==
    \A t \in Thread :
        pc[t] = "asleep" =>
            \/ val[t] = Cleared
            \/ tid[cur[t]] \in Thread
            \/ \E u \in Thread : pc[u] = "wake" /\ self[u] = cur[t]

\* A detached thread's stack is never unmapped: this is what makes a
\* mistaken join of a detached handle harmless (comment in pthread_detach).
DetachedKept ==
    [][\A m \in Pth : m \in detached => m \in mapped' /\ m \in detached']_vars

\* A join of a thread that has called pthread_exit returns, unless its second
\* read saw 0 or it is the main thread that is joined.
Joining(t, m) == pc[t] \in JoinPc /\ cur[t] = m
Exited(m) == \A u \in Thread : self[u] = m => pc[u] \in {"exiting", "wake"}
JoinReturns ==
    \A t \in Thread, m \in Stack :
        Joining(t, m) /\ Exited(m)
            ~> \/ ~Joining(t, m)
               \/ pc[t] = "asleep" /\ val[t] = Cleared

\* What the comment at line 89 promises: join waits until the kernel clears
\* the tid, and then returns.
JoinWaitsForClear ==
    \A t \in Thread, m \in Stack : Joining(t, m) /\ Exited(m) ~> ~Joining(t, m)

----------------------------------------------------------------------------
(* Pthread implements ThreadLifecycle.  A handle is free until clone has   *)
(* stored its tid and again from the moment a join has taken the result.   *)
AbsPhase ==
    [m \in Pth |->
        IF \/ m \notin mapped
           \/ tid[m] = Fresh
           \/ \E t \in Thread : pc[t] = "unmap" /\ cur[t] = m
          THEN "free"
          ELSE IF tid[m] = Cleared THEN "done" ELSE "live"]
AbsValue == [m \in Pth |-> IF AbsPhase[m] = "done" THEN result[m] ELSE NoValue]

Lifecycle == INSTANCE ThreadLifecycle
    WITH Handle <- Pth, MainHandle <- MainPth, phase <- AbsPhase, value <- AbsValue

\* Every behaviour of the pthread code is one of the thread life cycle: the
\* value a join takes is the one the thread left, it is taken once, and
\* never from a detached or a running thread.
Refines == Lifecycle!Spec
=============================================================================
