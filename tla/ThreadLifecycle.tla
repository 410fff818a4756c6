-------------------------- MODULE ThreadLifecycle --------------------------
(***************************************************************************)
(* What a client of lib/thread/pthread.c relies on, without stacks, tids   *)
(* or futexes: a handle is live while its thread runs, done when it has    *)
(* left its value, and is collected once, by a join, and only if it was    *)
(* never detached.                                                         *)
(***************************************************************************)
CONSTANTS
    Handle,       \* pthread_t values
    MainHandle,   \* the handle of the thread that runs main()
    Value,        \* what a thread may leave behind
    NoValue       \* nothing left yet

VARIABLES
    phase,      \* of each handle: "free", "live" or "done"
    value,      \* what a finished thread left
    detached    \* the handles that may not be joined any more

avars == <<phase, value, detached>>

Init ==
    /\ phase = [h \in Handle |-> IF h = MainHandle THEN "live" ELSE "free"]
    /\ value = [h \in Handle |-> NoValue]
    /\ detached = {}

Start(h) ==
    /\ phase[h] = "free"
    /\ phase' = [phase EXCEPT ![h] = "live"]
    /\ UNCHANGED <<value, detached>>

Finish(h, v) ==
    /\ phase[h] = "live"
    /\ phase' = [phase EXCEPT ![h] = "done"]
    /\ value' = [value EXCEPT ![h] = v]
    /\ UNCHANGED detached

Detach(h) ==
    /\ phase[h] # "free"
    /\ detached' = detached \cup {h}
    /\ UNCHANGED <<phase, value>>

Collect(h) ==
    /\ phase[h] = "done"
    /\ h \notin detached
    /\ phase' = [phase EXCEPT ![h] = "free"]
    /\ value' = [value EXCEPT ![h] = NoValue]
    /\ UNCHANGED detached

Next ==
    \E h \in Handle :
        \/ Start(h)
        \/ \E v \in Value : Finish(h, v)
        \/ Detach(h)
        \/ Collect(h)

Spec == Init /\ [][Next]_avars
=============================================================================
