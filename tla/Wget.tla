-------------------------------- MODULE Wget --------------------------------
(***************************************************************************)
(* app/net/wget.c: one HTTP download, with -c (resume) and --parallel N.   *)
(*                                                                         *)
(* Sizes are small: MinChunk and ParallelMin stand for the code's 256 KiB  *)
(* and 1 MiB, and the arithmetic on them is the code's.  The remote file   *)
(* is the sequence 1 .. Size and the local file a sequence of what was     *)
(* written at each position: k for the remote content of position k, Hole  *)
(* for bytes only ftruncate or a gap made, Junk for an error page.  The    *)
(* code treats a missing local file as an empty one: << >> is both.        *)
(*                                                                         *)
(* How server and process may misbehave is a record that Init picks from   *)
(* Envs and no step changes; the properties say where they hold.           *)
(* The local file outlives the process: an invocation can be killed at any *)
(* step and a later one, with -c, finds what it left.                      *)
(***************************************************************************)
EXTENDS Integers, Sequences

CONSTANTS
    Size,         \* length of the remote file
    MinChunk,     \* 256 KiB
    ParallelMin,  \* 1 MiB
    MaxParallel,  \* largest --parallel considered (16 in the code)
    MaxRuns,      \* bound on the number of invocations
    Envs          \* the environments considered

ASSUME SizeAssumption ==
    /\ Size \in Nat \ {0} /\ MinChunk \in Nat \ {0} /\ ParallelMin \in Nat \ {0}
    /\ MaxParallel \in 1 .. 16 /\ MaxRuns \in Nat \ {0}
\* kills: an invocation may be killed; drops: a thread's connection may fail
\* and any connection close in the middle of a body; bad: the server may
\* answer a range with 200, or with 404; stuck: a thread may not start, or not
\* open the output file; parallel: the largest --parallel the user gives.
Env == [kills : BOOLEAN, drops : BOOLEAN, bad : BOOLEAN, stuck : BOOLEAN, parallel : 1 .. MaxParallel]
ASSUME EnvAssumption == Envs \subseteq Env

Hole == 0
Junk == -1
Worker == 0 .. MaxParallel - 1

VARIABLES
    env,     \* the environment, never changed
    pc,      \* of main: "idle", "check", "open", "spawn", "wait", "get", "body"
    resume,  \* -c
    parallel,\* --parallel
    remote,  \* remote_size, -1 if HEAD did not tell
    ranges,  \* supports_range
    local,   \* local_size
    file,    \* the local file
    fpos,    \* main's file offset
    src,     \* main's next remote position; Junk: an error page
    left,    \* how much of the body main has still to read
    nt,      \* number of threads
    th,      \* the threads
    done,    \* prog.done_count
    said,    \* how the last invocation ended
    runs     \* invocations so far

mainVars == <<resume, parallel, remote, ranges, local, nt>>
bodyVars == <<fpos, src, left>>
vars == <<env, pc, mainVars, bodyVars, file, th, done, said, runs>>

NoThread == [pc |-> "none", at |-> 0, src |-> 0, left |-> 0]

Init ==
    /\ env \in Envs
    /\ pc = "idle" /\ resume = FALSE /\ parallel = 1 /\ remote = -1
    /\ ranges = FALSE /\ local = 0 /\ nt = 0
    /\ fpos = 0 /\ src = 0 /\ left = 0
    /\ file = << >>
    /\ th = [w \in Worker |-> NoThread]
    /\ done = 0 /\ said = "nothing" /\ runs = 0

----------------------------------------------------------------------------
(* How a range of `rest` units starting at `from` is cut up                *)

Min2(a, b) == IF a < b THEN a ELSE b
Max2(a, b) == IF a < b THEN b ELSE a

\* Fewer threads when a share would be smaller than MinChunk.
Threads(rest, want) ==
    IF rest \div want < MinChunk THEN Min2(Max2(rest \div MinChunk, 1), want) ELSE want

ChunkSize(rest, want) == rest \div Threads(rest, want)

\* First and last position of thread w; the last thread takes the remainder.
First(w, from, to, want) == from + w * ChunkSize(to - from, want)
\* Mutant of Last: the remainder of the division is dropped.
Last_NoRemainder(w, from, to, want) == First(w, from, to, want) + ChunkSize(to - from, want) - 1
Last(w, from, to, want) ==
    IF w = Threads(to - from, want) - 1
      THEN to - 1
      ELSE First(w, from, to, want) + ChunkSize(to - from, want) - 1

\* lseek + write of one unit: a gap behind the old end reads as zeros.
Put(f, p, x) ==
    [i \in 1 .. Max2(Len(f), p + 1) |->
        IF i = p + 1 THEN x ELSE IF i <= Len(f) THEN f[i] ELSE Hole]
Extend(f, n) == [i \in 1 .. n |-> IF i <= Len(f) THEN f[i] ELSE Hole]
RemoteAt(s) == IF s = Junk THEN Junk ELSE s + 1

----------------------------------------------------------------------------
(* main, up to the open file *)

Invoke(c, n) ==
    /\ pc = "idle" /\ runs < MaxRuns
    /\ runs' = runs + 1
    /\ resume' = c /\ parallel' = n
    /\ pc' = "check"
    /\ said' = "nothing"
    /\ th' = [w \in Worker |-> NoThread]
    /\ UNCHANGED <<remote, ranges, local, nt, bodyVars, file, done>>

End(what) == pc' = "idle" /\ said' = what

\* No connection, no output file, no answer: Error, exit status 1.
Fails ==
    /\ pc \in {"check", "open", "get"}
    /\ End("error")
    /\ UNCHANGED <<mainVars, bodyVars, file, th, done, runs>>

\* HEAD, and the look at the local file.
HeadReply ==
    /\ pc = "check"
    /\ \E s \in {Size, -1}, r \in BOOLEAN :
         /\ remote' = s /\ ranges' = (r /\ s = Size)
         /\ local' = IF resume THEN Len(file) ELSE 0
         /\ IF resume /\ file # << >> /\ s > 0 /\ Len(file) >= s
              THEN End("already")
              ELSE pc' = "open" /\ said' = said
    /\ UNCHANGED <<resume, parallel, nt, bodyVars, file, th, done, runs>>

UseParallel == parallel > 1 /\ remote > ParallelMin /\ ranges

\* open with O_TRUNC unless something is resumed; a parallel download
\* extends the file to its full length before any data is there.
Open ==
    /\ pc = "open"
    /\ LET kept == IF resume /\ local > 0 THEN file ELSE << >> IN
         IF UseParallel
           THEN /\ file' = Extend(kept, remote)
                /\ nt' = Threads(remote - local, parallel)
                /\ pc' = "spawn"
           ELSE /\ file' = kept
                /\ pc' = "get" /\ nt' = nt
    /\ fpos' = local
    /\ done' = 0
    /\ UNCHANGED <<resume, parallel, remote, ranges, local, src, left, th, said, runs>>

----------------------------------------------------------------------------
(* The parallel download *)

Spawn ==
    /\ pc = "spawn"
    /\ \E w \in 0 .. nt - 1 :
         /\ th[w].pc = "none"
         /\ \A v \in 0 .. w - 1 : th[v].pc # "none"
         /\ \/ th' = [th EXCEPT ![w] =
                     [pc |-> "request", at |-> First(w, local, remote, parallel),
                      src |-> 0, left |-> 0]]
            \/ env.stuck /\ th' = [th EXCEPT ![w].pc = "gone"]   \* pthread_create failed
         /\ pc' = IF w = nt - 1 THEN "wait" ELSE "spawn"
    /\ UNCHANGED <<mainVars, bodyVars, file, done, said, runs>>

\* Mutant of Request: a thread that fails returns without being counted.
Request_NotCounted(w) ==
    /\ th[w].pc = "request"
    /\ \/ th' = [th EXCEPT ![w].pc = "open", ![w].src = th[w].at,
                           ![w].left = Last(w, local, remote, parallel) - th[w].at + 1]
       \/ (env.drops \/ env.bad) /\ th' = [th EXCEPT ![w].pc = "gone"]
    /\ UNCHANGED <<pc, mainVars, bodyVars, file, done, said, runs>>

\* Connect, send, read the headers; any failure counts the thread as done.
Request(w) ==
    /\ th[w].pc = "request"
    /\ LET n == Last(w, local, remote, parallel) - th[w].at + 1 IN
       \/ /\ th' = [th EXCEPT ![w].pc = "open", ![w].src = th[w].at, ![w].left = n]
          /\ done' = done
       \/ /\ env.bad   \* 200: the whole file, written at this thread's start
          /\ th' = [th EXCEPT ![w].pc = "open", ![w].src = 0, ![w].left = Size]
          /\ done' = done
       \/ /\ env.drops \/ env.bad
          /\ th' = [th EXCEPT ![w].pc = "gone"]
          /\ done' = done + 1
    /\ UNCHANGED <<pc, mainVars, bodyVars, file, said, runs>>

\* Mutant of ThreadOpen: no lseek.
ThreadOpen_NoSeek(w) ==
    /\ th[w].pc = "open"
    /\ th' = [th EXCEPT ![w].pc = "body", ![w].at = 0]
    /\ UNCHANGED <<pc, mainVars, bodyVars, file, done, said, runs>>

ThreadOpen(w) ==
    /\ th[w].pc = "open"
    /\ th' = [th EXCEPT ![w].pc = "body"]
    /\ UNCHANGED <<pc, mainVars, bodyVars, file, done, said, runs>>

\* openat fails: the thread returns, and is not counted.
ThreadOpenFails(w) ==
    /\ th[w].pc = "open" /\ env.stuck
    /\ th' = [th EXCEPT ![w].pc = "gone"]
    /\ UNCHANGED <<pc, mainVars, bodyVars, file, done, said, runs>>

ThreadWrite(w) ==
    /\ th[w].pc = "body" /\ th[w].left > 0
    /\ file' = Put(file, th[w].at, RemoteAt(th[w].src))
    /\ th' = [th EXCEPT ![w].at = @ + 1, ![w].src = @ + 1, ![w].left = @ - 1]
    /\ UNCHANGED <<pc, mainVars, bodyVars, done, said, runs>>

\* The body is over, or the peer has closed: nobody looks which.
ThreadDone(w) ==
    /\ th[w].pc = "body" /\ (th[w].left = 0 \/ env.drops)
    /\ th' = [th EXCEPT ![w].pc = "gone"]
    /\ done' = done + 1
    /\ UNCHANGED <<pc, mainVars, bodyVars, file, said, runs>>

\* The polling loop has seen done_count reach nt; the joins return.
Joined ==
    /\ pc = "wait" /\ done >= nt
    /\ \A w \in 0 .. nt - 1 : th[w].pc = "gone"
    /\ End("complete")
    /\ UNCHANGED <<mainVars, bodyVars, file, th, done, runs>>

----------------------------------------------------------------------------
(* The single download *)

\* Mutant of Get: a 200 answer to a resumed download is appended.
Get_Appends ==
    /\ pc = "get"
    /\ \/ resume /\ local > 0 /\ src' = local /\ left' = Max2(Size - local, 0)
       \/ src' = 0 /\ left' = Size
    /\ pc' = "body"
    /\ UNCHANGED <<mainVars, fpos, file, th, done, said, runs>>

\* GET, with a Range header when something is resumed.  Only 200 is treated
\* specially; the body of any other answer is written where it would go.
Get ==
    /\ pc = "get"
    /\ LET ranged == resume /\ local > 0 IN
       \/ /\ ranged
          /\ src' = local /\ left' = Max2(Size - local, 0)
          /\ UNCHANGED <<file, fpos, local>>
       \/ /\ ranged          \* the server does not do ranges: start over
          /\ src' = 0 /\ left' = Size
          /\ file' = << >> /\ fpos' = 0 /\ local' = 0
       \/ /\ ~ranged
          /\ src' = 0 /\ left' = Size
          /\ UNCHANGED <<file, fpos, local>>
       \/ /\ env.bad
          /\ src' = Junk /\ left' = 1
          /\ UNCHANGED <<file, fpos, local>>
    /\ pc' = "body"
    /\ UNCHANGED <<resume, parallel, remote, ranges, nt, th, done, said, runs>>

Write ==
    /\ pc = "body" /\ left > 0
    /\ file' = Put(file, fpos, RemoteAt(src))
    /\ fpos' = fpos + 1 /\ left' = left - 1
    /\ src' = IF src = Junk THEN Junk ELSE src + 1
    /\ UNCHANGED <<pc, mainVars, th, done, said, runs>>

BodyEnds ==
    /\ pc = "body" /\ (left = 0 \/ env.drops)
    /\ End("complete")
    /\ UNCHANGED <<mainVars, bodyVars, file, th, done, runs>>

----------------------------------------------------------------------------
\* The process and its threads are killed; the file stays as it is.
Kill ==
    /\ env.kills /\ pc # "idle"
    /\ End("killed")
    /\ th' = [w \in Worker |-> NoThread]
    /\ UNCHANGED <<mainVars, bodyVars, file, done, runs>>

Main == Fails \/ HeadReply \/ Open \/ Spawn \/ Joined \/ Get \/ Write \/ BodyEnds
ThreadStep(w) ==
    Request(w) \/ ThreadOpen(w) \/ ThreadOpenFails(w) \/ ThreadWrite(w) \/ ThreadDone(w)

Next ==
    /\ UNCHANGED env
    /\ \/ \E c \in BOOLEAN, n \in 1 .. env.parallel : Invoke(c, n)
       \/ Main
       \/ \E w \in Worker : ThreadStep(w)
       \/ Kill

Spec == Init /\ [][Next]_vars

\* main and the threads are scheduled and the network does something.
FairSpec ==
    /\ Spec
    /\ WF_vars(UNCHANGED env /\ Main)
    /\ \A w \in Worker : WF_vars(UNCHANGED env /\ ThreadStep(w))

----------------------------------------------------------------------------
(* Properties *)

TypeOK ==
    /\ pc \in {"idle", "check", "open", "spawn", "wait", "get", "body"}
    /\ resume \in BOOLEAN /\ ranges \in BOOLEAN
    /\ parallel \in 1 .. MaxParallel
    /\ remote \in {-1, Size} /\ local \in Nat /\ nt \in 0 .. MaxParallel
    /\ file \in Seq({Junk, Hole} \cup 1 .. Size)
    /\ fpos \in Nat /\ src \in Nat \cup {Junk} /\ left \in Nat
    /\ th \in [Worker -> [pc : {"none", "request", "open", "body", "gone"},
                          at : Nat, src : Nat, left : Nat]]
    /\ done \in 0 .. MaxParallel
    /\ said \in {"nothing", "error", "complete", "already", "killed"}
    /\ runs \in 0 .. MaxRuns

RemoteFile == [i \in 1 .. Size |-> i]

\* What the user is told is true: after "Download complete" and after "File
\* already fully downloaded" the local file is the remote one ...
SaysTrue == said \in {"complete", "already"} => file = RemoteFile

\* ... whatever earlier invocations failed or were killed and resumed; excepted
\* are servers that break off or answer wrongly, and killed parallel downloads.
CompleteIsRight ==
    ~env.drops /\ ~env.bad /\ (env.kills => env.parallel = 1) => SaysTrue

\* What -c and its message promise, with a server that does as it should.
ResumeIsRight == ~env.drops /\ ~env.bad => SaysTrue

\* The threads' ranges cover what is missing, each position once.
RangesPartition ==
    pc \in {"spawn", "wait"} =>
        /\ nt >= 1 /\ nt <= parallel
        /\ \A p \in local .. remote - 1 :
             \E w \in 0 .. nt - 1 :
                 /\ First(w, local, remote, parallel) <= p
                 /\ p <= Last(w, local, remote, parallel)
                 /\ \A v \in 0 .. nt - 1 :
                      /\ First(v, local, remote, parallel) <= p
                      /\ p <= Last(v, local, remote, parallel)
                      => v = w

\* No write puts anything else over right content: an interval belongs to one
\* thread, and a resumed download goes on where the file ends.  Only truncation
\* removes content, in open or when a resumed download starts over.  A server
\* that answers a range with the whole file is excepted.
NeverCorrupts ==
    [][~env.bad =>
         \A i \in 1 .. Min2(Len(file), Len(file')) :
            file[i] = i => file'[i] \in {i, Hole}]_vars

\* An invocation comes to an end, unless a thread does not start or
\* cannot open the file: nobody counts it.
Terminates == ~env.stuck /\ pc # "idle" ~> pc = "idle"
=============================================================================
