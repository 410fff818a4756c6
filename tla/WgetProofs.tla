----------------------------- MODULE WgetProofs -----------------------------
(***************************************************************************)
(* For a file of any size, any chunk size and any number of threads: the   *)
(* threads' ranges partition what is missing, and what wget reports as     *)
(* complete is the remote file.  The first is arithmetic on the quotient   *)
(* that main divides by; the second needs to know, for each thread, how    *)
(* much of its range it has written, and that main counts only threads     *)
(* that have written all of it.                                            *)
(***************************************************************************)
EXTENDS Wget, FiniteSetTheorems, SequenceTheorems, TLAPS

----------------------------------------------------------------------------
(* The cut of a range into shares                                          *)

LEMMA Quotient ==
    ASSUME NEW a \in Nat, NEW q \in Nat, q > 0
    PROVE  a \div q \in Nat /\ q * (a \div q) <= a /\ a < q * (a \div q) + q
OBVIOUS

LEMMA Products ==
    ASSUME NEW c \in Nat, NEW v \in Nat, NEW w \in Nat, v < w
    PROVE  v * c \in Nat /\ w * c \in Nat /\ v * c + c <= w * c
<1>1. (w - v - 1) * c >= 0  OBVIOUS
<1>2. (w - v - 1) * c = w * c - v * c - c  OBVIOUS
<1> QED BY <1>1, <1>2

\* Each thread gets at least one unit, and all shares fit.
LEMMA Shares ==
    ASSUME NEW rest \in Nat, rest > 0, NEW want \in Nat, want > 0
    PROVE  /\ Threads(rest, want) \in 1 .. want
           /\ ChunkSize(rest, want) \in Nat /\ ChunkSize(rest, want) > 0
           /\ Threads(rest, want) * ChunkSize(rest, want) <= rest
<1> DEFINE n == Threads(rest, want)
           each == rest \div want
           most == rest \div MinChunk
<1>1. each \in Nat /\ want * each <= rest  BY Quotient
<1>2. MinChunk \in Nat /\ MinChunk > 0  BY SizeAssumption
<1>3. most \in Nat /\ MinChunk * most <= rest  BY <1>2, Quotient
<1>4. most <= MinChunk * most  BY <1>2, <1>3
<1>5. each >= 1 => want <= want * each  BY <1>1
<1>6. n = IF each < MinChunk THEN Min2(Max2(most, 1), want) ELSE want  BY DEF Threads
<1> HIDE DEF n, each, most
<1>7. n \in 1 .. want  BY <1>1, <1>2, <1>3, <1>6 DEF Min2, Max2
<1>8. n <= rest  BY <1>1, <1>2, <1>3, <1>4, <1>5, <1>6 DEF Min2, Max2
<1>9. rest \div n \in Nat /\ n * (rest \div n) <= rest /\ rest < n * (rest \div n) + n  BY <1>7, Quotient
<1>10. rest \div n > 0
    <2>1. rest \div n = 0 => n * (rest \div n) = 0  BY <1>7
    <2> QED BY <2>1, <1>7, <1>8, <1>9
<1> QED BY <1>7, <1>9, <1>10 DEF n, ChunkSize

\* A share begins where the one before it ends, the last one ends at the end.
LEMMA ShareShape ==
    ASSUME NEW from \in Nat, NEW to \in Nat, from < to, NEW want \in Nat, want > 0,
           NEW w \in 0 .. Threads(to - from, want) - 1
    PROVE  /\ First(w, from, to, want) \in Nat /\ Last(w, from, to, want) \in Nat
           /\ from <= First(w, from, to, want)
           /\ First(w, from, to, want) <= Last(w, from, to, want)
           /\ Last(w, from, to, want) < to
           /\ \A v \in 0 .. w - 1 : Last(v, from, to, want) < First(w, from, to, want)
<1> DEFINE n == Threads(to - from, want)
           c == ChunkSize(to - from, want)
<1>1. n \in 1 .. want /\ c \in Nat /\ c > 0 /\ n * c <= to - from  BY Shares
<1>2. /\ First(w, from, to, want) = from + w * c
      /\ Last(w, from, to, want) = IF w = n - 1 THEN to - 1 ELSE from + w * c + c - 1
      /\ \A v \in 0 .. w - 1 : v # n - 1 => Last(v, from, to, want) = from + v * c + c - 1
  BY DEF First, Last
<1>3. w \in 0 .. n - 1  OBVIOUS
<1> HIDE DEF n, c
<1>4. w * c \in Nat /\ w * c + c <= n * c  BY <1>1, <1>3, Products
<1>5. \A v \in 0 .. w - 1 : v * c \in Nat /\ v * c + c <= w * c  BY <1>1, <1>3, Products
<1>6. n * c \in Nat  BY <1>1
<1>7. ASSUME NEW v \in 0 .. w - 1 PROVE Last(v, from, to, want) < First(w, from, to, want)
    <2>1. v # n - 1  BY <1>1, <1>3
    <2>2. v * c \in Nat /\ v * c + c <= w * c  BY <1>5
    <2> QED BY <1>1, <1>2, <1>4, <2>1, <2>2
<1> QED BY <1>1, <1>2, <1>3, <1>4, <1>6, <1>7

LEMMA Whole ==
    ASSUME NEW d \in Nat, NEW c \in Nat, c > 0
    PROVE  \E w \in Nat : w * c \in Nat /\ w * c <= d /\ d < w * c + c
<1>1. d \div c \in Nat /\ c * (d \div c) <= d /\ d < c * (d \div c) + c  BY Quotient
<1>2. (d \div c) * c = c * (d \div c)  BY <1>1
<1> QED BY <1>1, <1>2

\* Each position is in some share.
LEMMA ShareOf ==
    ASSUME NEW from \in Nat, NEW to \in Nat, from < to, NEW want \in Nat, want > 0, NEW p \in from .. to - 1
    PROVE  \E w \in 0 .. Threads(to - from, want) - 1 : First(w, from, to, want) <= p /\ p <= Last(w, from, to, want)
<1> DEFINE n == Threads(to - from, want)
           c == ChunkSize(to - from, want)
<1>1. n \in 1 .. want /\ c \in Nat /\ c > 0  BY Shares
<1>2. \A v \in 0 .. n - 1 : /\ First(v, from, to, want) = from + v * c
                            /\ Last(v, from, to, want) = IF v = n - 1 THEN to - 1 ELSE from + v * c + c - 1
  BY DEF First, Last
<1> HIDE DEF n, c
<1>0. p - from \in Nat  OBVIOUS
<1>3. PICK w \in Nat : w * c \in Nat /\ w * c <= p - from /\ p - from < w * c + c  BY <1>0, <1>1, Whole, Zenon
<1>4. CASE w < n - 1
    <2>1. First(w, from, to, want) <= p /\ p <= Last(w, from, to, want)  BY <1>1, <1>2, <1>3, <1>4
    <2> QED BY <1>1, <1>4, <2>1 DEF n
<1>5. CASE w >= n - 1
    <2> DEFINE v == n - 1
    <2>1. v \in 0 .. n - 1 /\ v \in Nat  BY <1>1
    <2>2. First(v, from, to, want) = from + v * c /\ Last(v, from, to, want) = to - 1  BY <1>2, <2>1
    <2>3. v <= w  BY <1>1, <1>5
    <2> HIDE DEF v
    <2>4. v < w => v * c \in Nat /\ v * c + c <= w * c  BY <1>1, <2>1, Products
    <2>5. v * c \in Nat /\ v * c <= w * c  BY <1>1, <1>3, <2>1, <2>3, <2>4
    <2>6. First(v, from, to, want) <= p /\ p <= Last(v, from, to, want)  BY <1>3, <2>2, <2>5
    <2> QED BY <2>1, <2>6 DEF n
<1> QED BY <1>1, <1>4, <1>5

----------------------------------------------------------------------------
(* The inductive invariant                                                 *)

\* A server that does as it should, and no kill while threads may run.
Orderly == ~env.drops /\ ~env.bad /\ (env.kills => env.parallel = 1)

Threaded == pc \in {"spawn", "wait"}
Stale == pc \in {"check", "open", "get", "body"}
From(w) == First(w, local, remote, parallel)
Until(w) == Last(w, local, remote, parallel) + 1
Content == {Junk, Hole} \cup 1 .. Size
Thread == [pc : {"none", "request", "open", "body", "gone"}, at : Nat, src : Nat, left : Nat]

\* main's numbers.
MainOK ==
    /\ pc \in {"idle", "check", "open", "spawn", "wait", "get", "body"}
    /\ resume \in BOOLEAN /\ ranges \in BOOLEAN
    /\ parallel \in 1 .. MaxParallel /\ parallel <= env.parallel
    /\ remote \in {-1, Size} /\ local \in Nat /\ nt \in 0 .. MaxParallel
    /\ said \in {"nothing", "error", "complete", "already", "killed"}
    /\ runs \in 0 .. MaxRuns

\* The body main reads ends where the remote file ends, and is written to
\* the place it has there.
BodyOK ==
    /\ fpos \in Nat /\ src \in Nat \cup {Junk} /\ left \in Nat
    /\ pc = "body" => src = Junk \/ left = 0 \/ src + left <= Size
    /\ pc = "body" /\ ~env.bad => src = fpos

\* What is opened to be resumed is not complete, and main writes where it ends.
Opened ==
    /\ pc = "open" => local = (IF resume THEN Len(file) ELSE 0)
    /\ pc = "open" /\ remote = Size => local < Size
    /\ pc = "get" => fpos = local /\ local = Len(file) /\ (~resume => local = 0)
    /\ pc # "idle" => said = "nothing"

\* While threads run, what they share is fixed.
Cut ==
    Threaded => /\ remote = Size /\ local < Size /\ parallel > 1
                /\ nt = Threads(remote - local, parallel)

\* Threads run only between spawn and the joins; each begins at the start of
\* its range and, unless it is sent something else, keeps to its places.
ThreadOK(w) ==
    /\ th[w].pc # "none" => w < nt
    /\ th[w].pc = "request" => th[w].at = From(w)
    /\ th[w].pc \in {"open", "body"} => th[w].left = 0 \/ th[w].src + th[w].left <= Size
    /\ th[w].pc = "open" => th[w].at = From(w)
    /\ th[w].pc = "body" => From(w) <= th[w].at
    /\ th[w].pc \in {"open", "body"} /\ ~env.bad => th[w].src = th[w].at
ThreadsOK ==
    /\ th \in [Worker -> Thread]
    /\ Stale => \A w \in Worker : th[w] = NoThread
    /\ \A w \in Worker : th[w].pc = "none" => th[w] = NoThread
    /\ pc = "idle" => \A w \in Worker : th[w].pc \in {"none", "gone"}
    /\ Threaded => \A w \in Worker : ThreadOK(w)

\* How far each thread has come, and that what lies behind it is right.
ProgressOf(w) ==
    /\ th[w].pc \in {"open", "body"} => th[w].at + th[w].left = Until(w)
    /\ th[w].at <= Until(w)
    /\ \A i \in From(w) + 1 .. th[w].at : file[i] = i
Progress == Orderly /\ Threaded => \A w \in 0 .. nt - 1 : ProgressOf(w)

\* main counts threads that are gone, in order: with all of their range.
Settles(w) == th[w].pc = "gone" /\ (Orderly => th[w].at = Until(w))
Settled == {w \in Worker : Settles(w)}
Counted ==
    /\ done \in 0 .. MaxParallel
    /\ Threaded => done <= Cardinality(Settled)

\* The file is a part of the remote file from its beginning, but while
\* threads fill it.
Begun ==
    /\ file \in Seq(Content)
    /\ Orderly /\ ~Threaded => Len(file) <= Size /\ \A i \in 1 .. Len(file) : file[i] = i
    /\ Orderly /\ Threaded => Len(file) = Size /\ \A i \in 1 .. local : file[i] = i
    /\ Orderly /\ pc = "body" => fpos = Len(file) /\ left = Size - Len(file)

IInv ==
    /\ env \in Env
    /\ MainOK /\ BodyOK /\ Opened /\ Cut /\ ThreadsOK /\ Progress /\ Counted /\ Begun
    /\ CompleteIsRight

----------------------------------------------------------------------------
(* Facts that several steps use                                            *)

LEMMA Numbers ==
    /\ Size \in Nat /\ Size > 0 /\ MaxParallel \in Nat /\ MaxParallel > 0 /\ ParallelMin \in Nat
    /\ Worker = 0 .. MaxParallel - 1 /\ Hole \in Content /\ Junk \in Content
    /\ NoThread \in Thread /\ NoThread.pc = "none" /\ NoThread.at = 0
BY SizeAssumption DEF Worker, Content, NoThread, Thread

LEMMA PutIs ==
    ASSUME NEW f \in Seq(Content), NEW p \in Nat, NEW x \in Content
    PROVE  /\ Put(f, p, x) \in Seq(Content) /\ Len(Put(f, p, x)) = Max2(Len(f), p + 1)
           /\ Put(f, p, x)[p + 1] = x
           /\ \A i \in 1 .. Len(f) : i # p + 1 => Put(f, p, x)[i] = f[i]
<1> DEFINE n == Max2(Len(f), p + 1)
<1>1. Len(f) \in Nat /\ \A i \in 1 .. Len(f) : f[i] \in Content  BY ElementOfSeq, LenProperties
<1>2. n \in Nat /\ p + 1 \in 1 .. n /\ 1 .. Len(f) \subseteq 1 .. n  BY <1>1 DEF Max2
<1>3. Put(f, p, x) = [i \in 1 .. n |-> IF i = p + 1 THEN x ELSE IF i <= Len(f) THEN f[i] ELSE Hole]  BY DEF Put
<1> HIDE DEF n
<1>4. Put(f, p, x) \in [1 .. n -> Content]  BY <1>1, <1>2, <1>3, Numbers
<1>5. Put(f, p, x) \in Seq(Content) /\ Len(Put(f, p, x)) = n  BY <1>2, <1>4, SeqDef
<1> QED BY <1>1, <1>2, <1>3, <1>5 DEF n

LEMMA ExtendIs ==
    ASSUME NEW f \in Seq(Content), NEW n \in Nat
    PROVE  /\ Extend(f, n) \in Seq(Content) /\ Len(Extend(f, n)) = n
           /\ \A i \in 1 .. n : Extend(f, n)[i] = IF i <= Len(f) THEN f[i] ELSE Hole
<1>1. Len(f) \in Nat /\ \A i \in 1 .. Len(f) : f[i] \in Content  BY ElementOfSeq, LenProperties
<1>2. Extend(f, n) = [i \in 1 .. n |-> IF i <= Len(f) THEN f[i] ELSE Hole]  BY DEF Extend
<1>3. Extend(f, n) \in [1 .. n -> Content]  BY <1>1, <1>2, Numbers
<1>4. Extend(f, n) \in Seq(Content) /\ Len(Extend(f, n)) = n  BY <1>3, SeqDef
<1> QED BY <1>2, <1>4

\* A file of full length that is right everywhere is the remote file.
LEMMA WholeIsRight ==
    ASSUME NEW f \in Seq(Content), Len(f) = Size, \A i \in 1 .. Size : f[i] = i
    PROVE  f = RemoteFile
<1>1. RemoteFile \in [1 .. Size -> Content] /\ \A i \in 1 .. Size : RemoteFile[i] = i  BY DEF RemoteFile, Content
<1>2. RemoteFile \in Seq(Content) /\ Len(RemoteFile) = Size  BY <1>1, Numbers, SeqDef
<1>3. Len(f) = Len(RemoteFile) /\ \A i \in 1 .. Len(f) : f[i] = RemoteFile[i]  BY <1>1, <1>2
<1> QED BY <1>2, <1>3, SeqEqual, Zenon

\* The shares of the threads, in the invariant's words.
LEMMA Cuts ==
    ASSUME MainOK, Cut, Threaded
    PROVE  /\ nt \in 1 .. parallel /\ 0 .. nt - 1 \subseteq Worker
           /\ \A w \in 0 .. nt - 1 : /\ From(w) \in Nat /\ Until(w) \in Nat /\ Last(w, local, remote, parallel) \in Nat
                                     /\ local <= From(w) /\ From(w) < Until(w) /\ Until(w) <= Size
           /\ \A v, w \in 0 .. nt - 1 : v < w => Until(v) <= From(w)
           /\ \A p \in local .. Size - 1 : \E w \in 0 .. nt - 1 : From(w) <= p /\ p < Until(w)
<1>1. /\ local \in Nat /\ remote = Size /\ remote \in Nat /\ local < remote /\ parallel \in Nat /\ parallel > 0
      /\ nt = Threads(remote - local, parallel) /\ parallel \in 1 .. MaxParallel
  BY Numbers DEF MainOK, Cut
<1>2. remote - local \in Nat /\ remote - local > 0  BY <1>1
<1>3. nt \in 1 .. parallel  BY <1>1, <1>2, Shares
<1>4. ASSUME NEW w \in 0 .. nt - 1
      PROVE  /\ First(w, local, remote, parallel) \in Nat /\ Last(w, local, remote, parallel) \in Nat
             /\ local <= First(w, local, remote, parallel)
             /\ First(w, local, remote, parallel) <= Last(w, local, remote, parallel)
             /\ Last(w, local, remote, parallel) < remote
             /\ \A v \in 0 .. w - 1 : Last(v, local, remote, parallel) < First(w, local, remote, parallel)
    <2>1. w \in 0 .. Threads(remote - local, parallel) - 1  BY <1>1
    <2> QED BY <1>1, <2>1, ShareShape
<1>5. \A p \in local .. remote - 1 : \E w \in 0 .. nt - 1 :
          First(w, local, remote, parallel) <= p /\ p <= Last(w, local, remote, parallel)
  BY <1>1, ShareOf
<1>6. 0 .. nt - 1 \subseteq Worker  BY <1>1, <1>3, Numbers
<1>7. ASSUME NEW w \in 0 .. nt - 1
      PROVE  /\ From(w) \in Nat /\ Until(w) \in Nat /\ Last(w, local, remote, parallel) \in Nat
             /\ local <= From(w) /\ From(w) < Until(w) /\ Until(w) <= Size
  BY <1>1, <1>4 DEF From, Until
<1>8. ASSUME NEW v \in 0 .. nt - 1, NEW w \in 0 .. nt - 1, v < w PROVE Until(v) <= From(w)
    <2>1. v \in 0 .. w - 1  BY <1>8
    <2>2. Last(v, local, remote, parallel) < First(w, local, remote, parallel)  BY <1>4, <2>1
    <2>3. Last(v, local, remote, parallel) \in Nat /\ First(w, local, remote, parallel) \in Nat  BY <1>4
    <2> QED BY <2>2, <2>3 DEF From, Until
<1>9. ASSUME NEW p \in local .. Size - 1 PROVE \E w \in 0 .. nt - 1 : From(w) <= p /\ p < Until(w)
    <2>1. PICK w \in 0 .. nt - 1 : First(w, local, remote, parallel) <= p /\ p <= Last(w, local, remote, parallel)  BY <1>1, <1>5
    <2>2. From(w) <= p /\ p < Until(w)  BY <1>1, <1>4, <2>1 DEF From, Until
    <2> QED BY <2>2
<1> QED BY <1>3, <1>6, <1>7, <1>8, <1>9

LEMMA Counts ==
    ASSUME NEW S \in SUBSET Worker
    PROVE  IsFiniteSet(S) /\ Cardinality(S) \in 0 .. MaxParallel
<1>1. IsFiniteSet(Worker) /\ Cardinality(Worker) = MaxParallel
    <2>1. MaxParallel \in Nat /\ MaxParallel > 0 /\ 0 \in Int /\ MaxParallel - 1 \in Int  BY Numbers
    <2>2. IsFiniteSet(0 .. MaxParallel - 1) /\ Cardinality(0 .. MaxParallel - 1) = IF 0 > MaxParallel - 1 THEN 0 ELSE MaxParallel - 1 - 0 + 1
        BY <2>1, FS_Interval, Zenon
    <2> QED BY <2>1, <2>2, Numbers
<1>2. IsFiniteSet(S) /\ Cardinality(S) <= Cardinality(Worker)  BY <1>1, FS_Subset
<1>3. Cardinality(S) \in Nat  BY <1>2, FS_CardinalityType
<1> QED BY <1>1, <1>2, <1>3, Numbers

LEMMA CountsMore ==
    ASSUME NEW S \in SUBSET Worker, NEW T \in SUBSET Worker, S \subseteq T
    PROVE  /\ Cardinality(S) <= Cardinality(T)
           /\ \A w \in T \ S : Cardinality(S) + 1 <= Cardinality(T)
<1>1. IsFiniteSet(S) /\ IsFiniteSet(T) /\ Cardinality(S) \in Nat /\ Cardinality(T) \in Nat  BY Counts
<1>2. Cardinality(S) <= Cardinality(T) /\ (Cardinality(S) = Cardinality(T) => S = T)  BY <1>1, FS_Subset
<1> QED BY <1>1, <1>2

----------------------------------------------------------------------------
(* The threads                                                             *)

\* A step that moves one thread and leaves main's numbers alone.
LEMMA ThreadMoves ==
    ASSUME IInv, Threaded, UNCHANGED <<env, mainVars, bodyVars, said, runs>>, pc' \in {"spawn", "wait"},
           NEW w \in 0 .. nt - 1, NEW t \in Thread, th' = [th EXCEPT ![w] = t], t.pc # "none",
           t.pc = "request" => t.at = From(w),
           t.pc \in {"open", "body"} => t.left = 0 \/ t.src + t.left <= Size,
           t.pc = "open" => t.at = From(w), t.pc = "body" => From(w) <= t.at,
           t.pc \in {"open", "body"} /\ ~env.bad => t.src = t.at
    PROVE  /\ Threaded' /\ env' \in Env /\ MainOK' /\ BodyOK' /\ Opened' /\ Cut' /\ ThreadsOK' /\ CompleteIsRight'
           /\ (Orderly' <=> Orderly) /\ nt' = nt /\ local' = local
           /\ \A v \in 0 .. nt - 1 : From(v)' = From(v) /\ Until(v)' = Until(v)
           /\ w \in Worker /\ th'[w] = t /\ \A v \in Worker \ {w} : th'[v] = th[v]
<1> USE DEF vars, mainVars, bodyVars
<1>1. Threaded' /\ env' = env /\ local' = local /\ nt' = nt /\ parallel' = parallel /\ remote' = remote  BY DEF Threaded
<1>2. env' \in Env /\ MainOK' /\ (Orderly' <=> Orderly)  BY <1>1 DEF IInv, MainOK, Orderly, Threaded
<1>3. BodyOK'  BY <1>1 DEF IInv, BodyOK
<1>4. said = "nothing" /\ said' = "nothing"  BY DEF IInv, Opened, Threaded
<1>5. Opened'  BY <1>4 DEF Opened
<1>6. Cut'  BY <1>1 DEF IInv, Cut
<1>7. CompleteIsRight'  BY <1>4 DEF CompleteIsRight, SaysTrue
<1>8. \A v \in Int : From(v)' = From(v) /\ Until(v)' = Until(v)  BY <1>1 DEF From, Until
<1>9. w \in Worker /\ w \in Int  BY Cuts DEF IInv
<1>10. th \in [Worker -> Thread]  BY DEF IInv, ThreadsOK
<1>11. th' \in [Worker -> Thread] /\ th'[w] = t /\ \A v \in Worker \ {w} : th'[v] = th[v]  BY <1>9, <1>10
<1>12. \A v \in Worker : th[v].pc = "none" => th[v] = NoThread  BY DEF IInv, ThreadsOK
<1>13. \A v \in Worker : th'[v].pc = "none" => th'[v] = NoThread  BY <1>11, <1>12
<1>14. ~Stale' /\ pc' # "idle"  BY <1>1 DEF Threaded, Stale
<1>15. ASSUME NEW v \in Worker PROVE ThreadOK(v)'
    <2>1. CASE v = w
        <3>1. nt \in Nat  BY DEF IInv, MainOK
        <3>2. v < nt'  BY <1>1, <2>1, <3>1
        <3>3. th'[v] = t /\ From(v)' = From(w) /\ env' = env  BY <1>1, <1>8, <1>9, <1>11, <2>1
        <3> QED BY <3>2, <3>3 DEF ThreadOK
    <2>2. CASE v # w
        <3>1. ThreadOK(v)  BY DEF IInv, ThreadsOK
        <3>2. th'[v] = th[v] /\ v \in Int  BY <1>11, <2>2 DEF Worker
        <3> QED BY <1>1, <1>8, <3>1, <3>2 DEF ThreadOK
    <2> QED BY <2>1, <2>2
<1>16. ThreadsOK'  BY <1>11, <1>13, <1>14, <1>15 DEF ThreadsOK
<1> QED BY <1>1, <1>2, <1>3, <1>5, <1>6, <1>7, <1>8, <1>9, <1>11, <1>16

\* Where a thread that moves was.
LEMMA ThreadRuns ==
    ASSUME IInv, NEW w \in Worker, th[w].pc \in {"request", "open", "body"}
    PROVE  /\ Threaded /\ w \in 0 .. nt - 1 /\ ThreadOK(w) /\ th \in [Worker -> Thread] /\ th[w] \in Thread
           /\ From(w) \in Nat /\ Until(w) \in Nat /\ Last(w, local, remote, parallel) \in Nat
           /\ local <= From(w) /\ From(w) < Until(w) /\ Until(w) <= Size
           /\ Orderly => ProgressOf(w)
<1>1. Threaded
    <2>1. pc # "idle"  BY DEF IInv, ThreadsOK
    <2>2. ~Stale  BY Numbers DEF IInv, ThreadsOK
    <2> QED BY <2>1, <2>2 DEF IInv, MainOK, Threaded, Stale
<1>2. th \in [Worker -> Thread] /\ th[w] \in Thread /\ ThreadOK(w)  BY <1>1 DEF IInv, ThreadsOK
<1>3. w < nt /\ nt \in Nat  BY <1>2 DEF ThreadOK, IInv, MainOK
<1>4. w \in 0 .. nt - 1  BY <1>3 DEF Worker
<1>5. Orderly => ProgressOf(w)  BY <1>1, <1>4 DEF IInv, Progress
<1> QED BY <1>1, <1>2, <1>4, <1>5, Cuts DEF IInv

\* The progress of the others when the file stays as it is.
LEMMA OthersProgress ==
    ASSUME IInv, Threaded, Orderly, nt' = nt, file' = file, NEW w \in 0 .. nt - 1,
           \A v \in 0 .. nt - 1 : From(v)' = From(v) /\ Until(v)' = Until(v),
           \A v \in Worker \ {w} : th'[v] = th[v], ProgressOf(w)'
    PROVE  Progress'
<1>1. ASSUME NEW v \in 0 .. nt - 1 PROVE ProgressOf(v)'
    <2>1. CASE v # w
        <3>1. v \in Worker  BY Cuts DEF IInv
        <3>2. th'[v] = th[v] /\ ProgressOf(v) /\ From(v)' = From(v) /\ Until(v)' = Until(v)  BY <2>1, <3>1 DEF IInv, Progress
        <3> QED BY <3>2 DEF ProgressOf
    <2> QED BY <2>1
<1> QED BY <1>1 DEF Progress

\* What is counted stays within what is settled.
LEMMA SettledGrows ==
    ASSUME IInv, Threaded, NEW w \in 0 .. nt - 1, w \in Worker, th[w].pc # "gone", Orderly' <=> Orderly,
           \A v \in 0 .. nt - 1 : From(v)' = From(v) /\ Until(v)' = Until(v),
           \A v \in Worker \ {w} : th'[v] = th[v],
           done' = done \/ (done' = done + 1 /\ Settles(w)')
    PROVE  Counted'
<1>1. Settled \subseteq Worker /\ Settled' \subseteq Worker  BY DEF Settled
<1>2. ASSUME NEW v \in Settled PROVE v \in Settled'
    <2>1. v \in Worker /\ th[v].pc = "gone" /\ v # w /\ Settles(v)  BY DEF Settled, Settles
    <2>2. th'[v] = th[v]  BY <2>1
    <2>3. v < nt  BY <2>1 DEF IInv, ThreadsOK, ThreadOK
    <2>4. v \in 0 .. nt - 1  BY <2>1, <2>3 DEF Worker, IInv, MainOK
    <2>5. Settles(v)'  BY <2>1, <2>2, <2>4 DEF Settles
    <2> QED BY <2>1, <2>5 DEF Settled
<1>3. w \notin Settled  BY DEF Settled, Settles
<1>4. Settles(w)' => w \in Settled'  BY DEF Settled
<1>5. /\ Cardinality(Settled) <= Cardinality(Settled')
      /\ w \in Settled' => Cardinality(Settled) + 1 <= Cardinality(Settled')
    <2>1. Settled \subseteq Settled'  BY <1>2
    <2> QED BY <1>1, <1>3, <2>1, CountsMore
<1>6. Cardinality(Settled) \in 0 .. MaxParallel /\ Cardinality(Settled') \in 0 .. MaxParallel  BY <1>1, Counts
<1>7. done \in Nat /\ done <= Cardinality(Settled)  BY DEF IInv, Counted
<1>8. done' \in Nat /\ done' <= Cardinality(Settled')  BY <1>4, <1>5, <1>6, <1>7
<1>9. done' \in 0 .. MaxParallel  BY <1>6, <1>8, Numbers
<1> QED BY <1>8, <1>9 DEF Counted

\* The file stays as it is while threads run.
LEMMA BegunStays ==
    ASSUME IInv, Threaded, Threaded', Orderly' <=> Orderly, file' = file, local' = local
    PROVE  Begun'
BY DEF IInv, Begun, Threaded

LEMMA RequestKeeps ==
    ASSUME IInv, UNCHANGED env, NEW w \in Worker, Request(w)
    PROVE  IInv'
<1> DEFINE n == Last(w, local, remote, parallel) - th[w].at + 1
           asked == [pc |-> "open", at |-> th[w].at, src |-> th[w].at, left |-> n]
           whole == [pc |-> "open", at |-> th[w].at, src |-> 0, left |-> Size]
           gone == [th[w] EXCEPT !.pc = "gone"]
           to(t) == th' = [th EXCEPT ![w] = t]
<1>1. th[w].pc = "request" /\ UNCHANGED <<env, mainVars, bodyVars, said, runs>> /\ pc' = pc /\ file' = file  BY DEF Request
<1>2. /\ Threaded /\ w \in 0 .. nt - 1 /\ ThreadOK(w) /\ th \in [Worker -> Thread] /\ th[w] \in Thread
      /\ From(w) \in Nat /\ Until(w) \in Nat /\ Last(w, local, remote, parallel) \in Nat
      /\ From(w) < Until(w) /\ Until(w) <= Size
      /\ Orderly => ProgressOf(w)
  BY <1>1, ThreadRuns
<1>3. th[w].at = From(w) /\ n = Until(w) - From(w) /\ n \in Nat
    <2>1. th[w].at = From(w)  BY <1>1, <1>2 DEF ThreadOK
    <2>2. Until(w) = Last(w, local, remote, parallel) + 1  BY DEF Until
    <2> QED BY <1>2, <2>1, <2>2
<1>4. \/ to(asked) /\ done' = done
      \/ to(whole) /\ done' = done /\ ~Orderly /\ env.bad
      \/ to(gone) /\ done' = done + 1 /\ ~Orderly
  BY <1>2 DEF Request, Orderly, Thread
<1>5. asked \in Thread /\ whole \in Thread /\ gone \in Thread  BY <1>2, <1>3, Numbers DEF Thread
<1>6. pc' \in {"spawn", "wait"}  BY <1>1, <1>2 DEF Threaded
<1>7. CASE to(asked) /\ done' = done
    <2>1. /\ asked.pc = "open" /\ asked.at = From(w) /\ asked.src = asked.at /\ asked.left = n  BY <1>3
    <2>2. asked.src + asked.left <= Size  BY <1>2, <1>3, <2>1, Numbers
    <2> HIDE DEF asked
    <2>3. /\ Threaded' /\ env' \in Env /\ MainOK' /\ BodyOK' /\ Opened' /\ Cut' /\ ThreadsOK' /\ CompleteIsRight'
          /\ (Orderly' <=> Orderly) /\ nt' = nt /\ local' = local
          /\ \A v \in 0 .. nt - 1 : From(v)' = From(v) /\ Until(v)' = Until(v)
          /\ w \in Worker /\ th'[w] = asked /\ \A v \in Worker \ {w} : th'[v] = th[v]
      BY <1>1, <1>2, <1>5, <1>6, <1>7, <2>1, <2>2, ThreadMoves
    <2>4. From(w)' = From(w) /\ Until(w)' = Until(w)  BY <1>2, <2>3
    <2>5. ProgressOf(w)'  BY <1>2, <1>3, <2>1, <2>3, <2>4 DEF ProgressOf
    <2>6. Progress'  BY <1>1, <1>2, <2>3, <2>5, OthersProgress DEF Progress
    <2>7. Counted'  BY <1>1, <1>2, <1>7, <2>3, SettledGrows
    <2>8. Begun'  BY <1>1, <1>2, <2>3, BegunStays
    <2> QED BY <2>3, <2>6, <2>7, <2>8 DEF IInv
<1>8. CASE to(whole) /\ done' = done /\ ~Orderly /\ env.bad
    <2>1. /\ whole.pc = "open" /\ whole.at = From(w) /\ whole.src + whole.left <= Size  BY <1>3, Numbers
    <2> HIDE DEF whole
    <2>3. /\ Threaded' /\ env' \in Env /\ MainOK' /\ BodyOK' /\ Opened' /\ Cut' /\ ThreadsOK' /\ CompleteIsRight'
          /\ (Orderly' <=> Orderly) /\ nt' = nt /\ local' = local
          /\ \A v \in 0 .. nt - 1 : From(v)' = From(v) /\ Until(v)' = Until(v)
          /\ w \in Worker /\ th'[w] = whole /\ \A v \in Worker \ {w} : th'[v] = th[v]
      BY <1>1, <1>2, <1>5, <1>6, <1>8, <2>1, ThreadMoves
    <2>6. Progress'  BY <1>8, <2>3 DEF Progress
    <2>7. Counted'  BY <1>1, <1>2, <1>8, <2>3, SettledGrows
    <2>8. Begun'  BY <1>1, <1>2, <2>3, BegunStays
    <2> QED BY <2>3, <2>6, <2>7, <2>8 DEF IInv
<1>9. CASE to(gone) /\ done' = done + 1 /\ ~Orderly
    <2>1. gone.pc = "gone"  BY <1>2 DEF Thread
    <2> HIDE DEF gone
    <2>3. /\ Threaded' /\ env' \in Env /\ MainOK' /\ BodyOK' /\ Opened' /\ Cut' /\ ThreadsOK' /\ CompleteIsRight'
          /\ (Orderly' <=> Orderly) /\ nt' = nt /\ local' = local
          /\ \A v \in 0 .. nt - 1 : From(v)' = From(v) /\ Until(v)' = Until(v)
          /\ w \in Worker /\ th'[w] = gone /\ \A v \in Worker \ {w} : th'[v] = th[v]
      BY <1>1, <1>2, <1>5, <1>6, <1>9, <2>1, ThreadMoves
    <2>5. Settles(w)'  BY <1>9, <2>1, <2>3 DEF Settles
    <2>6. Progress'  BY <1>9, <2>3 DEF Progress
    <2>7. Counted'  BY <1>1, <1>2, <1>9, <2>3, <2>5, SettledGrows
    <2>8. Begun'  BY <1>1, <1>2, <2>3, BegunStays
    <2> QED BY <2>3, <2>6, <2>7, <2>8 DEF IInv
<1> QED BY <1>4, <1>7, <1>8, <1>9

LEMMA ThreadOpenKeeps ==
    ASSUME IInv, UNCHANGED env, NEW w \in Worker, ThreadOpen(w) \/ ThreadOpenFails(w)
    PROVE  IInv'
<1> DEFINE opened == [th[w] EXCEPT !.pc = "body"]
           gone == [th[w] EXCEPT !.pc = "gone"]
           to(t) == th' = [th EXCEPT ![w] = t]
<1>1. /\ th[w].pc = "open" /\ UNCHANGED <<env, mainVars, bodyVars, said, runs>> /\ pc' = pc /\ file' = file /\ done' = done
  BY DEF ThreadOpen, ThreadOpenFails
<1>2. /\ Threaded /\ w \in 0 .. nt - 1 /\ ThreadOK(w) /\ th \in [Worker -> Thread] /\ th[w] \in Thread
      /\ From(w) \in Nat /\ Until(w) \in Nat /\ From(w) < Until(w) /\ Until(w) <= Size
      /\ Orderly => ProgressOf(w)
  BY <1>1, ThreadRuns
<1>3. to(opened) \/ to(gone)  BY <1>2 DEF ThreadOpen, ThreadOpenFails
<1>4. opened \in Thread /\ gone \in Thread  BY <1>2 DEF Thread
<1>5. /\ opened.pc = "body" /\ opened.at = th[w].at /\ opened.src = th[w].src /\ opened.left = th[w].left
      /\ gone.pc = "gone" /\ gone.at = th[w].at
  BY <1>2 DEF Thread
<1>6. pc' \in {"spawn", "wait"}  BY <1>1, <1>2 DEF Threaded
<1> HIDE DEF opened, gone
<1>7. \E t \in {opened, gone} : to(t)  BY <1>3
<1>8. PICK t \in {opened, gone} : to(t)  BY <1>7
<1>9. t.at = th[w].at /\ (t = opened \/ t = gone) /\ t \in Thread  BY <1>4, <1>5
<1>10. t.pc = "gone" \/ (t.pc = "body" /\ t.src = th[w].src /\ t.left = th[w].left)  BY <1>5, <1>9
<1>11. t.pc = "body" => (t.left = 0 \/ t.src + t.left <= Size) /\ (~env.bad => t.src = t.at)  BY <1>1, <1>2, <1>9, <1>10 DEF ThreadOK
<1>12. t.pc # "none" /\ t.pc # "request" /\ t.pc # "open" /\ From(w) <= t.at  BY <1>1, <1>2, <1>9, <1>10 DEF ThreadOK
<1>13. /\ Threaded' /\ env' \in Env /\ MainOK' /\ BodyOK' /\ Opened' /\ Cut' /\ ThreadsOK' /\ CompleteIsRight'
       /\ (Orderly' <=> Orderly) /\ nt' = nt /\ local' = local
       /\ \A v \in 0 .. nt - 1 : From(v)' = From(v) /\ Until(v)' = Until(v)
       /\ w \in Worker /\ th'[w] = t /\ \A v \in Worker \ {w} : th'[v] = th[v]
  BY <1>1, <1>2, <1>6, <1>8, <1>9, <1>11, <1>12, ThreadMoves
<1>14. From(w)' = From(w) /\ Until(w)' = Until(w)  BY <1>2, <1>13
<1>15. Orderly => ProgressOf(w)'  BY <1>1, <1>2, <1>9, <1>10, <1>13, <1>14 DEF ProgressOf
<1>16. Progress'  BY <1>1, <1>2, <1>13, <1>15, OthersProgress DEF Progress
<1>17. Counted'  BY <1>1, <1>2, <1>13, SettledGrows
<1>18. Begun'  BY <1>1, <1>2, <1>13, BegunStays
<1> QED BY <1>13, <1>16, <1>17, <1>18 DEF IInv

LEMMA ThreadDoneKeeps ==
    ASSUME IInv, UNCHANGED env, NEW w \in Worker, ThreadDone(w)
    PROVE  IInv'
<1> DEFINE gone == [th[w] EXCEPT !.pc = "gone"]
<1>1. /\ th[w].pc = "body" /\ UNCHANGED <<env, mainVars, bodyVars, said, runs>> /\ pc' = pc /\ file' = file /\ done' = done + 1
      /\ Orderly => th[w].left = 0
  BY DEF ThreadDone, Orderly
<1>2. /\ Threaded /\ w \in 0 .. nt - 1 /\ ThreadOK(w) /\ th \in [Worker -> Thread] /\ th[w] \in Thread
      /\ From(w) \in Nat /\ Until(w) \in Nat /\ From(w) < Until(w) /\ Until(w) <= Size
      /\ Orderly => ProgressOf(w)
  BY <1>1, ThreadRuns
<1>3. th' = [th EXCEPT ![w] = gone]  BY <1>2 DEF ThreadDone
<1>4. gone \in Thread /\ gone.pc = "gone" /\ gone.at = th[w].at  BY <1>2 DEF Thread
<1>5. pc' \in {"spawn", "wait"}  BY <1>1, <1>2 DEF Threaded
<1> HIDE DEF gone
<1>6. /\ Threaded' /\ env' \in Env /\ MainOK' /\ BodyOK' /\ Opened' /\ Cut' /\ ThreadsOK' /\ CompleteIsRight'
      /\ (Orderly' <=> Orderly) /\ nt' = nt /\ local' = local
      /\ \A v \in 0 .. nt - 1 : From(v)' = From(v) /\ Until(v)' = Until(v)
      /\ w \in Worker /\ th'[w] = gone /\ \A v \in Worker \ {w} : th'[v] = th[v]
  BY <1>1, <1>2, <1>3, <1>4, <1>5, ThreadMoves
<1>7. From(w)' = From(w) /\ Until(w)' = Until(w)  BY <1>2, <1>6
<1>8. Orderly => th[w].at = Until(w)
    <2>1. th[w].at \in Nat  BY <1>2 DEF Thread
    <2> QED BY <1>1, <1>2, <2>1 DEF ProgressOf
<1>9. Orderly => ProgressOf(w)'  BY <1>1, <1>2, <1>4, <1>6, <1>7 DEF ProgressOf
<1>10. Settles(w)'  BY <1>4, <1>6, <1>7, <1>8 DEF Settles
<1>11. Progress'  BY <1>1, <1>2, <1>6, <1>9, OthersProgress DEF Progress
<1>12. Counted'  BY <1>1, <1>2, <1>6, <1>10, SettledGrows
<1>13. Begun'  BY <1>1, <1>2, <1>6, BegunStays
<1> QED BY <1>6, <1>11, <1>12, <1>13 DEF IInv

\* A thread writes within its range, so the others' progress and what was there
\* before stay.
LEMMA ThreadWriteKeeps ==
    ASSUME IInv, UNCHANGED env, NEW w \in Worker, ThreadWrite(w)
    PROVE  IInv'
<1> DEFINE moved == [pc |-> "body", at |-> th[w].at + 1, src |-> th[w].src + 1, left |-> th[w].left - 1]
           p == th[w].at
           x == th[w].src + 1
<1>1. /\ th[w].pc = "body" /\ th[w].left > 0 /\ UNCHANGED <<env, mainVars, bodyVars, said, runs>> /\ pc' = pc /\ done' = done
      /\ file' = Put(file, p, RemoteAt(th[w].src))
  BY DEF ThreadWrite
<1>2. /\ Threaded /\ w \in 0 .. nt - 1 /\ ThreadOK(w) /\ th \in [Worker -> Thread] /\ th[w] \in Thread
      /\ From(w) \in Nat /\ Until(w) \in Nat /\ local <= From(w) /\ From(w) < Until(w) /\ Until(w) <= Size
      /\ Orderly => ProgressOf(w)
  BY <1>1, ThreadRuns
<1>3. th[w].at \in Nat /\ th[w].src \in Nat /\ th[w].left \in Nat  BY <1>2 DEF Thread
<1>4. th' = [th EXCEPT ![w] = moved]  BY <1>1, <1>2 DEF ThreadWrite, Thread
<1>5. /\ moved \in Thread /\ moved.pc = "body" /\ moved.at = p + 1 /\ moved.src = x /\ moved.left = th[w].left - 1
  BY <1>1, <1>3 DEF Thread
<1>6. th[w].src + th[w].left <= Size /\ (~env.bad => th[w].src = th[w].at)  BY <1>1, <1>2, <1>3 DEF ThreadOK
<1>7. RemoteAt(th[w].src) = x /\ x \in Content  BY <1>1, <1>3, <1>6, Numbers DEF RemoteAt, Junk, Content
<1>8. pc' \in {"spawn", "wait"}  BY <1>1, <1>2 DEF Threaded
<1>9. file' = Put(file, p, x) /\ p \in Nat  BY <1>1, <1>3, <1>7
<1>10. /\ moved.src + moved.left <= Size /\ (~env.bad => moved.src = moved.at) /\ From(w) <= p /\ From(w) <= moved.at
  BY SMTT(30), <1>1, <1>2, <1>3, <1>5, <1>6, Numbers DEF ThreadOK
<1> HIDE DEF moved
<1>11. /\ Threaded' /\ env' \in Env /\ MainOK' /\ BodyOK' /\ Opened' /\ Cut' /\ ThreadsOK' /\ CompleteIsRight'
       /\ (Orderly' <=> Orderly) /\ nt' = nt /\ local' = local
       /\ \A v \in 0 .. nt - 1 : From(v)' = From(v) /\ Until(v)' = Until(v)
       /\ w \in Worker /\ th'[w] = moved /\ \A v \in Worker \ {w} : th'[v] = th[v]
  BY <1>1, <1>2, <1>4, <1>5, <1>8, <1>10, ThreadMoves
<1>12. file \in Seq(Content) /\ Len(file) \in Nat  BY LenProperties DEF IInv, Begun
<1> HIDE DEF p, x
<1>13. /\ file' \in Seq(Content) /\ Len(file') = Max2(Len(file), p + 1) /\ file'[p + 1] = x
       /\ \A i \in 1 .. Len(file) : i # p + 1 => file'[i] = file[i]
  BY <1>7, <1>9, <1>12, PutIs
<1>14. ASSUME Orderly
       PROVE  /\ Len(file) = Size /\ Len(file') = Size /\ x = p + 1 /\ From(w) <= p /\ p < Until(w)
              /\ \A i \in 1 .. local : file[i] = i
    <2>1. Len(file) = Size /\ \A i \in 1 .. local : file[i] = i  BY <1>2, <1>14 DEF IInv, Begun
    <2>2. p + th[w].left = Until(w) /\ x = p + 1  BY <1>1, <1>2, <1>6, <1>14 DEF ProgressOf, p, x, Orderly
    <2>3. p < Until(w)  BY <1>1, <1>2, <1>3, <1>9, <2>2
    <2>4. From(w) <= p  BY <1>10
    <2>5. Max2(Size, p + 1) = Size  BY <1>2, <1>9, <2>3, Numbers DEF Max2
    <2> QED BY <1>13, <2>1, <2>2, <2>3, <2>4, <2>5
<1>15. ASSUME Orderly, NEW v \in 0 .. nt - 1 PROVE ProgressOf(v)'
    <2>1. From(v)' = From(v) /\ Until(v)' = Until(v) /\ v \in Worker /\ From(v) \in Nat /\ Until(v) \in Nat /\ Until(v) <= Size  BY <1>2, <1>11, Cuts DEF IInv
    <2>2. ProgressOf(v)  BY <1>2, <1>15 DEF IInv, Progress
    <2>3. th[v].at \in Nat /\ th[v].left \in Nat  BY <1>2, <2>1 DEF Thread
    <2>4. CASE v = w
        <3>1. th'[v] = moved /\ moved.at = p + 1 /\ moved.left = th[v].left - 1 /\ th[v].at = p  BY <1>5, <1>11, <2>4 DEF p
        <3>2. moved.at + moved.left = Until(v) /\ moved.at <= Until(v)  BY <1>1, <1>9, <1>14, <1>15, <2>1, <2>2, <2>3, <2>4, <3>1 DEF ProgressOf
        <3>3. ASSUME NEW i \in From(v) + 1 .. moved.at PROVE file'[i] = i
            <4>1. CASE i = p + 1  BY <1>13, <1>14, <1>15, <4>1
            <4>2. CASE i # p + 1
                <5>1. i \in From(v) + 1 .. th[v].at  BY <1>9, <2>1, <3>1, <4>2
                <5>2. file[i] = i  BY <2>2, <5>1 DEF ProgressOf
                <5>3. i \in 1 .. Len(file)  BY <1>9, <1>14, <1>15, <2>1, <2>4, <3>1, <5>1, Numbers
                <5> QED BY <1>13, <4>2, <5>2, <5>3
            <4> QED BY <4>1, <4>2
        <3> QED BY <2>1, <3>1, <3>2, <3>3 DEF ProgressOf
    <2>5. CASE v # w
        <3>1. th'[v] = th[v]  BY <1>11, <2>1, <2>5
        <3>2. ASSUME NEW i \in From(v) + 1 .. th[v].at PROVE file'[i] = i
            <4>1. file[i] = i /\ th[v].at <= Until(v)  BY <2>2 DEF ProgressOf
            <4>2. i \in 1 .. Len(file)  BY <1>14, <1>15, <2>1, <2>3, <4>1, Numbers
            <4>3. Until(v) <= From(w) \/ Until(w) <= From(v)  BY <1>2, <2>5, Cuts DEF IInv
            <4>4. i # p + 1  BY <1>2, <1>9, <1>14, <1>15, <2>1, <2>3, <4>1, <4>3
            <4> QED BY <1>13, <4>1, <4>2, <4>4
        <3> QED BY <2>1, <2>2, <3>1, <3>2 DEF ProgressOf
    <2> QED BY <2>4, <2>5
<1>16. Progress'  BY <1>11, <1>15 DEF Progress
<1>17. Counted'  BY <1>1, <1>2, <1>11, SettledGrows
<1>18. Begun'
    <2>1. ASSUME Orderly PROVE \A i \in 1 .. local : file'[i] = i
        <3>1. ASSUME NEW i \in 1 .. local PROVE file'[i] = i
            <4>1. local \in Nat /\ i # p + 1 /\ i \in 1 .. Len(file)  BY <1>2, <1>9, <1>14, <2>1, Numbers DEF IInv, MainOK
            <4> QED BY <1>13, <1>14, <2>1, <4>1
        <3> QED BY <3>1
    <2>2. pc' # "body"  BY <1>8
    <2> QED BY <1>11, <1>13, <1>14, <2>1, <2>2 DEF Begun
<1> QED BY <1>11, <1>16, <1>17, <1>18 DEF IInv

----------------------------------------------------------------------------
(* main                                                                    *)

\* Between downloads and outside of parallel ones there is little to show.
LEMMA Single ==
    ASSUME IInv, UNCHANGED env, ~Threaded', done' \in 0 .. MaxParallel
    PROVE  Cut' /\ Progress' /\ Counted' /\ env' \in Env /\ (Orderly' <=> Orderly)
BY DEF IInv, Cut, Progress, Counted, Orderly

LEMMA InvokeKeeps ==
    ASSUME IInv, UNCHANGED env, NEW c \in BOOLEAN, NEW n \in 1 .. env.parallel, Invoke(c, n)
    PROVE  IInv'
<1>1. /\ pc = "idle" /\ pc' = "check" /\ said' = "nothing" /\ resume' = c /\ parallel' = n /\ runs' = runs + 1 /\ runs < MaxRuns
      /\ UNCHANGED <<env, remote, ranges, local, nt, fpos, src, left, file, done>>
      /\ th' = [w \in Worker |-> NoThread]
  BY DEF Invoke, bodyVars
<1>2. ~Threaded /\ ~Threaded'  BY <1>1 DEF Threaded
<1>3. Cut' /\ Progress' /\ Counted' /\ env' \in Env /\ (Orderly' <=> Orderly)  BY <1>1, <1>2, Single DEF IInv, Counted
<1>4. MainOK'
    <2>1. env.parallel \in 1 .. MaxParallel  BY DEF IInv, Env
    <2>2. n \in 1 .. MaxParallel /\ n <= env.parallel  BY <2>1, Numbers
    <2>3. runs + 1 \in 0 .. MaxRuns  BY <1>1, SizeAssumption DEF IInv, MainOK
    <2> QED BY <1>1, <2>2, <2>3 DEF IInv, MainOK
<1>5. BodyOK' /\ Opened'  BY <1>1 DEF IInv, BodyOK, Opened
<1>6. ThreadsOK'  BY <1>1, <1>2, Numbers DEF ThreadsOK, Stale
<1>7. Begun'  BY <1>1, <1>2, <1>3 DEF IInv, Begun
<1>8. CompleteIsRight'  BY <1>1 DEF CompleteIsRight, SaysTrue
<1> QED BY <1>3, <1>4, <1>5, <1>6, <1>7, <1>8 DEF IInv

LEMMA FailsKeeps ==
    ASSUME IInv, UNCHANGED env, Fails
    PROVE  IInv'
<1>1. /\ pc \in {"check", "open", "get"} /\ pc' = "idle" /\ said' = "error"
      /\ UNCHANGED <<env, mainVars, bodyVars, file, th, done, runs>>
  BY DEF Fails, End
<1>2. ~Threaded /\ ~Threaded' /\ Stale /\ ~Stale'  BY <1>1 DEF Threaded, Stale
<1>3. Cut' /\ Progress' /\ Counted' /\ env' \in Env /\ (Orderly' <=> Orderly)  BY <1>1, <1>2, Single DEF IInv, Counted
<1>4. MainOK'  BY <1>1 DEF IInv, MainOK, mainVars
<1>5. BodyOK' /\ Opened'  BY <1>1 DEF IInv, BodyOK, Opened, bodyVars
<1>6. ThreadsOK'  BY <1>1, <1>2, Numbers DEF IInv, ThreadsOK
<1>7. Begun'  BY <1>1, <1>2, <1>3 DEF IInv, Begun, bodyVars
<1>8. CompleteIsRight'  BY <1>1 DEF CompleteIsRight, SaysTrue
<1> QED BY <1>3, <1>4, <1>5, <1>6, <1>7, <1>8 DEF IInv

LEMMA HeadReplyKeeps ==
    ASSUME IInv, UNCHANGED env, HeadReply
    PROVE  IInv'
<1>1. PICK s \in {Size, -1}, r \in BOOLEAN :
         /\ remote' = s /\ ranges' = (r /\ s = Size)
         /\ local' = IF resume THEN Len(file) ELSE 0
         /\ IF resume /\ file # << >> /\ s > 0 /\ Len(file) >= s
              THEN pc' = "idle" /\ said' = "already"
              ELSE pc' = "open" /\ said' = said
  BY DEF HeadReply, End
<1>2. pc = "check" /\ UNCHANGED <<env, resume, parallel, nt, bodyVars, file, th, done, runs>>  BY DEF HeadReply
<1>3. ~Threaded /\ ~Threaded' /\ Stale /\ pc' \in {"idle", "open"}  BY <1>1, <1>2 DEF Threaded, Stale
<1>4. Cut' /\ Progress' /\ Counted' /\ env' \in Env /\ (Orderly' <=> Orderly)  BY <1>2, <1>3, Single DEF IInv, Counted
<1>5. file \in Seq(Content) /\ Len(file) \in Nat /\ (file = << >> => Len(file) = 0)  BY LenProperties, EmptySeq DEF IInv, Begun
<1>6. MainOK'  BY <1>1, <1>2, <1>3, <1>5 DEF IInv, MainOK
<1>7. BodyOK'  BY <1>2, <1>3 DEF IInv, BodyOK, bodyVars
<1>8. Opened'
    <2>1. said = "nothing"  BY <1>2 DEF IInv, Opened
    <2>2. pc' = "open" /\ remote' = Size => local' < Size
        <3>1. CASE resume /\ file # << >>  BY <1>1, <1>2, <1>5, <3>1, Numbers
        <3>2. CASE ~(resume /\ file # << >>)  BY <1>1, <1>2, <1>5, <3>2, Numbers
        <3> QED BY <3>1, <3>2
    <2>3. pc' # "idle" => said' = "nothing"  BY <1>1, <2>1
    <2>4. pc' = "open" => local' = (IF resume' THEN Len(file') ELSE 0)  BY <1>1, <1>2
    <2> QED BY <1>3, <2>2, <2>3, <2>4 DEF Opened
<1>9. ThreadsOK'  BY <1>2, <1>3, Numbers DEF IInv, ThreadsOK
<1>10. Begun'  BY <1>2, <1>3, <1>4 DEF IInv, Begun, bodyVars
<1>11. CompleteIsRight'
    <2>1. CASE pc' = "open"  BY <1>4, <1>8, <2>1 DEF Opened, CompleteIsRight, SaysTrue
    <2>2. CASE pc' = "idle"
        <3>1. Len(file) >= Size  BY <1>1, <2>2, Numbers
        <3>2. Orderly => Len(file) = Size /\ \A i \in 1 .. Size : file[i] = i  BY <1>3, <1>5, <3>1, Numbers DEF IInv, Begun
        <3>3. Orderly => file' = RemoteFile  BY <1>2, <1>5, <3>2, WholeIsRight
        <3>4. Orderly' => file' = RemoteFile  BY <1>4, <3>3
        <3> QED BY <3>4 DEF CompleteIsRight, SaysTrue, Orderly
    <2> QED BY <1>3, <2>1, <2>2
<1> QED BY <1>4, <1>6, <1>7, <1>8, <1>9, <1>10, <1>11 DEF IInv

LEMMA OpenKeeps ==
    ASSUME IInv, UNCHANGED env, Open
    PROVE  IInv'
<1> DEFINE kept == IF resume /\ local > 0 THEN file ELSE << >>
<1>1. /\ pc = "open" /\ fpos' = local /\ done' = 0
      /\ UNCHANGED <<env, resume, parallel, remote, ranges, local, src, left, th, said, runs>>
      /\ \/ UseParallel /\ file' = Extend(kept, remote) /\ nt' = Threads(remote - local, parallel) /\ pc' = "spawn"
         \/ file' = kept /\ pc' = "get" /\ nt' = nt
  BY DEF Open
<1>2. ~Threaded /\ Stale  BY <1>1 DEF Threaded, Stale
<1>3. \A w \in Worker : th'[w] = NoThread  BY <1>1, <1>2 DEF IInv, ThreadsOK
<1>4. file \in Seq(Content) /\ Len(file) \in Nat /\ local = (IF resume THEN Len(file) ELSE 0) /\ local \in Nat
  BY <1>1, LenProperties DEF IInv, Begun, Opened, MainOK
<1>5. kept \in Seq(Content) /\ Len(kept) = local  BY <1>4, EmptySeq
<1>6. Orderly => local <= Size /\ \A i \in 1 .. local : kept[i] = i
    <2>1. Orderly => Len(file) <= Size /\ \A i \in 1 .. Len(file) : file[i] = i  BY <1>2 DEF IInv, Begun
    <2> QED BY <1>4, <2>1, Numbers
<1>7. said = "nothing" /\ said' = "nothing"  BY <1>1 DEF IInv, Opened
<1>8. pc' \in {"spawn", "get"} /\ CompleteIsRight'  BY <1>1, <1>7 DEF CompleteIsRight, SaysTrue
<1>9. BodyOK'  BY <1>1, <1>4, <1>8 DEF IInv, BodyOK
<1>10. Opened'
    <2>1. pc' = "get" => file' = kept  BY <1>1, <1>8
    <2>2. ~resume => local = 0  BY <1>4
    <2> QED BY <1>1, <1>5, <1>7, <1>8, <2>1, <2>2 DEF Opened
<1>11. Orderly' <=> Orderly  BY DEF Orderly
<1> HIDE DEF kept
<1>12. CASE UseParallel /\ file' = Extend(kept, remote) /\ nt' = Threads(remote - local, parallel) /\ pc' = "spawn"
    <2>1. remote = Size /\ parallel > 1 /\ local < Size /\ parallel \in 1 .. MaxParallel /\ remote - local \in Nat /\ remote - local > 0 /\ parallel \in Nat
      BY <1>1, <1>4, <1>12, Numbers DEF IInv, MainOK, Opened, UseParallel
    <2>2. Threads(remote - local, parallel) \in 1 .. parallel  BY <2>1, Shares
    <2>3. MainOK'
        <3>1. nt' \in 0 .. MaxParallel  BY <1>12, <2>1, <2>2, Numbers
        <3> QED BY <1>1, <1>12, <3>1 DEF IInv, MainOK
    <2>4. Threaded' /\ ~Stale' /\ pc' # "idle" /\ pc' # "body"  BY <1>12 DEF Threaded, Stale
    <2>5. Cut'  BY <1>1, <1>12, <2>1 DEF Cut
    <2>6. ASSUME NEW w \in Worker PROVE ThreadOK(w)'  BY <1>3, Numbers DEF ThreadOK
    <2>7. th' \in [Worker -> Thread]  BY <1>1 DEF IInv, ThreadsOK
    <2>8. ThreadsOK'  BY <1>3, <2>4, <2>6, <2>7 DEF ThreadsOK
    <2>9. nt' \in 1 .. parallel' /\ 0 .. nt' - 1 \subseteq Worker
      BY <1>1, <1>12, <2>1, <2>2, Numbers
    <2>10. \A w \in 0 .. nt' - 1 : From(w)' \in Nat /\ Until(w)' \in Nat
        <3>1. ASSUME NEW w \in 0 .. nt' - 1 PROVE From(w)' \in Nat /\ Until(w)' \in Nat
            <4>1. w \in 0 .. Threads(remote - local, parallel) - 1 /\ remote \in Nat /\ local < remote  BY <1>12, <2>1, Numbers
            <4>2. First(w, local, remote, parallel) \in Nat /\ Last(w, local, remote, parallel) \in Nat  BY <1>4, <2>1, <4>1, ShareShape
            <4> QED BY <1>1, <4>2 DEF From, Until
        <3> QED BY <3>1
    <2>11. Progress'
        <3>1. ASSUME NEW w \in 0 .. nt' - 1 PROVE ProgressOf(w)'
            <4>1. th'[w] = NoThread /\ From(w)' \in Nat /\ Until(w)' \in Nat  BY <1>3, <2>9, <2>10
            <4>2. th'[w].pc = "none" /\ th'[w].at = 0  BY <4>1, Numbers
            <4> QED BY <4>1, <4>2 DEF ProgressOf
        <3> QED BY <3>1 DEF Progress
    <2>12. Counted'
        <3>1. Settled' \subseteq Worker  BY DEF Settled
        <3>2. Cardinality(Settled') \in 0 .. MaxParallel  BY <3>1, Counts
        <3> QED BY <1>1, <3>2, Numbers DEF Counted
    <2>13. Begun'
        <3>1. file' \in Seq(Content) /\ Len(file') = Size /\ \A i \in 1 .. Size : i <= local => file'[i] = kept[i]
          BY <1>5, <1>12, <2>1, ExtendIs, Numbers
        <3>2. Orderly => \A i \in 1 .. local : file'[i] = i  BY <1>4, <1>6, <2>1, <3>1, Numbers
        <3>3. local' = local  BY <1>1
        <3> QED BY <1>11, <2>4, <3>1, <3>2, <3>3 DEF Begun
    <2> QED BY <1>8, <1>9, <1>10, <2>3, <2>5, <2>8, <2>11, <2>12, <2>13 DEF IInv
<1>13. CASE file' = kept /\ pc' = "get" /\ nt' = nt
    <2>1. ~Threaded' /\ pc' # "body" /\ pc' # "idle"  BY <1>13 DEF Threaded
    <2>2. Cut' /\ Progress' /\ Counted' /\ env' \in Env  BY <1>1, <2>1, Single, Numbers
    <2>3. MainOK'  BY <1>1, <1>13 DEF IInv, MainOK
    <2>4. th' \in [Worker -> Thread]  BY <1>1 DEF IInv, ThreadsOK
    <2>5. ThreadsOK'  BY <1>3, <2>1, <2>4 DEF ThreadsOK
    <2>6. Begun'  BY <1>5, <1>6, <1>11, <1>13, <2>1 DEF Begun
    <2> QED BY <1>8, <1>9, <1>10, <2>2, <2>3, <2>5, <2>6 DEF IInv
<1> QED BY <1>1, <1>12, <1>13

LEMMA SpawnKeeps ==
    ASSUME IInv, UNCHANGED env, Spawn
    PROVE  IInv'
<1> DEFINE asked(w) == [pc |-> "request", at |-> From(w), src |-> 0, left |-> 0]
           gone == [pc |-> "gone", at |-> 0, src |-> 0, left |-> 0]
<1>1. PICK w \in 0 .. nt - 1 :
        /\ th[w].pc = "none"
        /\ \/ th' = [th EXCEPT ![w] = asked(w)]
           \/ th' = [th EXCEPT ![w].pc = "gone"]
        /\ pc' = IF w = nt - 1 THEN "wait" ELSE "spawn"
  BY DEF Spawn, From
<1>2. pc = "spawn" /\ UNCHANGED <<env, mainVars, bodyVars, file, done, said, runs>>  BY DEF Spawn
<1>3. Threaded /\ pc' \in {"spawn", "wait"}  BY <1>1, <1>2 DEF Threaded
<1>4. w \in Worker /\ From(w) \in Nat /\ Until(w) \in Nat /\ From(w) < Until(w)  BY <1>3, Cuts DEF IInv
<1>5. th \in [Worker -> Thread] /\ th[w] = NoThread  BY <1>1, <1>4 DEF IInv, ThreadsOK
<1>6. [th[w] EXCEPT !.pc = "gone"] = gone  BY <1>5 DEF NoThread
<1>7. th' = [th EXCEPT ![w] = asked(w)] \/ th' = [th EXCEPT ![w] = gone]  BY <1>1, <1>6
<1>8. asked(w) \in Thread /\ gone \in Thread  BY <1>4 DEF Thread
<1>9. asked(w).pc = "request" /\ asked(w).at = From(w) /\ gone.pc = "gone" /\ gone.at = 0  OBVIOUS
<1> HIDE DEF asked, gone
<1>10. PICK t \in {asked(w), gone} : th' = [th EXCEPT ![w] = t]  BY <1>7
<1>11. t \in Thread /\ ((t.pc = "request" /\ t.at = From(w)) \/ (t.pc = "gone" /\ t.at = 0))  BY <1>8, <1>9
<1>12. t.pc # "none" /\ t.pc # "open" /\ t.pc # "body"  BY <1>11
<1>13. /\ Threaded' /\ env' \in Env /\ MainOK' /\ BodyOK' /\ Opened' /\ Cut' /\ ThreadsOK' /\ CompleteIsRight'
       /\ (Orderly' <=> Orderly) /\ nt' = nt /\ local' = local
       /\ \A v \in 0 .. nt - 1 : From(v)' = From(v) /\ Until(v)' = Until(v)
       /\ w \in Worker /\ th'[w] = t /\ \A v \in Worker \ {w} : th'[v] = th[v]
  BY <1>2, <1>3, <1>10, <1>11, <1>12, ThreadMoves
<1>14. From(w)' = From(w) /\ Until(w)' = Until(w)  BY <1>13
<1>15. ProgressOf(w)'  BY <1>4, <1>11, <1>12, <1>13, <1>14 DEF ProgressOf
<1>16. Progress'  BY <1>2, <1>3, <1>13, <1>15, OthersProgress DEF Progress
<1>17. th[w].pc # "gone" /\ done' = done  BY <1>1, <1>2
<1>18. Counted'  BY <1>3, <1>13, <1>17, SettledGrows
<1>19. Begun'  BY <1>2, <1>3, <1>13, BegunStays DEF mainVars
<1> QED BY <1>13, <1>16, <1>18, <1>19 DEF IInv

\* All threads are settled, so all ranges are right.
LEMMA JoinedKeeps ==
    ASSUME IInv, UNCHANGED env, Joined
    PROVE  IInv'
<1>1. /\ pc = "wait" /\ done >= nt /\ pc' = "idle" /\ said' = "complete"
      /\ \A w \in 0 .. nt - 1 : th[w].pc = "gone"
      /\ UNCHANGED <<env, mainVars, bodyVars, file, th, done, runs>>
  BY DEF Joined, End
<1>2. Threaded /\ ~Threaded' /\ ~Stale'  BY <1>1 DEF Threaded, Stale
<1>3. Cut' /\ Progress' /\ Counted' /\ env' \in Env /\ (Orderly' <=> Orderly)  BY <1>1, <1>2, Single DEF IInv, Counted
<1>4. MainOK'  BY <1>1 DEF IInv, MainOK, mainVars
<1>5. BodyOK' /\ Opened'  BY <1>1 DEF IInv, BodyOK, Opened, bodyVars
<1>6. ThreadsOK'
    <2>1. th' = th /\ \A w \in Worker : th[w].pc # "none" => w < nt  BY <1>1, <1>2 DEF IInv, ThreadsOK, ThreadOK
    <2>2. nt \in Nat  BY DEF IInv, MainOK
    <2>3. \A w \in Worker : th[w].pc \in {"none", "gone"}  BY <1>1, <2>1, <2>2 DEF Worker
    <2> QED BY <1>1, <1>2, <2>1, <2>3 DEF IInv, ThreadsOK
<1>7. file \in Seq(Content)  BY DEF IInv, Begun
<1>8. ASSUME Orderly PROVE Len(file) = Size /\ \A i \in 1 .. Size : file[i] = i
    <2>1. nt \in Nat /\ nt > 0 /\ 0 .. nt - 1 \subseteq Worker  BY <1>2, Cuts DEF IInv, MainOK
    <2>2. Settled \subseteq 0 .. nt - 1
        <3>1. ASSUME NEW w \in Settled PROVE w \in 0 .. nt - 1
            <4>1. w \in Worker /\ th[w].pc = "gone"  BY DEF Settled, Settles
            <4>2. w < nt  BY <1>2, <4>1 DEF IInv, ThreadsOK, ThreadOK
            <4> QED BY <2>1, <4>1, <4>2 DEF Worker
        <3> QED BY <3>1
    <2>3. IsFiniteSet(0 .. nt - 1) /\ Cardinality(0 .. nt - 1) = nt
        <3>1. 0 \in Int /\ nt - 1 \in Int  BY <2>1
        <3>2. IsFiniteSet(0 .. nt - 1) /\ Cardinality(0 .. nt - 1) = IF 0 > nt - 1 THEN 0 ELSE nt - 1 - 0 + 1  BY <3>1, FS_Interval, Zenon
        <3> QED BY <2>1, <3>2
    <2>4. Cardinality(Settled) >= nt /\ Cardinality(Settled) <= nt
        <3>1. Cardinality(Settled) <= Cardinality(0 .. nt - 1)  BY <2>2, <2>3, FS_Subset
        <3>2. done <= Cardinality(Settled) /\ done \in Nat  BY <1>2 DEF IInv, Counted
        <3>3. Settled \in SUBSET Worker  BY <2>1, <2>2
        <3>4. Cardinality(Settled) \in Nat  BY <3>3, Counts
        <3> QED BY <1>1, <2>1, <2>3, <3>1, <3>2, <3>4
    <2>5. Settled = 0 .. nt - 1
        <3>1. Settled \in SUBSET Worker  BY <2>1, <2>2
        <3>2. Cardinality(Settled) \in Nat  BY <3>1, Counts
        <3>3. Cardinality(Settled) = Cardinality(0 .. nt - 1)  BY <2>1, <2>3, <2>4, <3>2
        <3> QED BY <2>2, <2>3, <3>3, FS_Subset
    <2>6. Len(file) = Size /\ \A i \in 1 .. local : file[i] = i  BY <1>2, <1>8 DEF IInv, Begun
    <2>7. ASSUME NEW i \in 1 .. Size PROVE file[i] = i
        <3>1. local \in Nat  BY DEF IInv, MainOK
        <3>2. CASE i <= local  BY <2>6, <3>1, <3>2
        <3>3. CASE i > local
            <4>1. i - 1 \in local .. Size - 1  BY <3>1, <3>3, Numbers
            <4>2. PICK w \in 0 .. nt - 1 : From(w) <= i - 1 /\ i - 1 < Until(w)  BY <1>2, <4>1, Cuts DEF IInv
            <4>3. From(w) \in Nat /\ Until(w) \in Nat  BY <1>2, Cuts DEF IInv
            <4>4. th[w].at = Until(w)  BY <1>8, <2>5 DEF Settled, Settles
            <4>5. i \in From(w) + 1 .. th[w].at  BY <4>2, <4>3, <4>4
            <4> QED BY <1>2, <1>8, <4>5 DEF IInv, Progress, ProgressOf
        <3> QED BY <3>1, <3>2, <3>3
    <2> QED BY <2>6, <2>7
<1>9. Begun'
    <2>1. file' = file /\ pc' # "body"  BY <1>1
    <2> QED BY <1>2, <1>3, <1>7, <1>8, <2>1, Numbers DEF Begun
<1>10. CompleteIsRight'
    <2>1. Orderly => file' = RemoteFile  BY <1>1, <1>7, <1>8, WholeIsRight
    <2>2. Orderly' => file' = RemoteFile  BY <1>3, <2>1
    <2> QED BY <2>2 DEF CompleteIsRight, SaysTrue, Orderly
<1> QED BY <1>3, <1>4, <1>5, <1>6, <1>9, <1>10 DEF IInv

LEMMA GetKeeps ==
    ASSUME IInv, UNCHANGED env, Get
    PROVE  IInv'
<1>1. /\ pc = "get" /\ pc' = "body" /\ UNCHANGED <<env, resume, parallel, remote, ranges, nt, th, done, said, runs>>
      /\ \/ /\ resume /\ local > 0 /\ src' = local /\ left' = Max2(Size - local, 0)
            /\ UNCHANGED <<file, fpos, local>>
         \/ /\ src' = 0 /\ left' = Size /\ file' = << >> /\ fpos' = 0 /\ local' = 0
         \/ /\ ~(resume /\ local > 0) /\ src' = 0 /\ left' = Size
            /\ UNCHANGED <<file, fpos, local>>
         \/ /\ env.bad /\ src' = Junk /\ left' = 1
            /\ UNCHANGED <<file, fpos, local>>
  BY DEF Get
<1>2. ~Threaded /\ ~Threaded' /\ Stale /\ pc' # "idle"  BY <1>1 DEF Threaded, Stale
<1>3. Cut' /\ Progress' /\ Counted' /\ env' \in Env /\ (Orderly' <=> Orderly)  BY <1>1, <1>2, Single DEF IInv, Counted
<1>4. /\ fpos = local /\ local = Len(file) /\ (~resume => local = 0) /\ said = "nothing" /\ local \in Nat
      /\ file \in Seq(Content)
  BY <1>1 DEF IInv, Opened, MainOK, Begun
<1>5. Size \in Nat /\ Size > 0 /\ << >> \in Seq(Content) /\ Len(<< >>) = 0 /\ Junk = -1  BY Numbers, EmptySeq DEF Junk
<1>6. MainOK'
    <2>1. local' \in Nat  BY <1>1, <1>4
    <2> QED BY <1>1, <2>1 DEF IInv, MainOK
<1>7. BodyOK'  BY <1>1, <1>4, <1>5 DEF BodyOK, Max2
<1>8. Opened'  BY <1>1, <1>4 DEF Opened
<1>9. ThreadsOK'
    <2>1. th \in [Worker -> Thread] /\ \A w \in Worker : th[w] = NoThread  BY <1>2 DEF IInv, ThreadsOK
    <2> QED BY <1>1, <1>2, <2>1 DEF ThreadsOK
<1>10. Begun'
    <2>1. file' \in Seq(Content)  BY <1>1, <1>4, <1>5
    <2>2. Orderly => Len(file) <= Size /\ \A i \in 1 .. Len(file) : file[i] = i  BY <1>2 DEF IInv, Begun
    <2>3. Orderly => Len(file') <= Size /\ \A i \in 1 .. Len(file') : file'[i] = i  BY <1>1, <1>5, <2>2
    <2>4. Orderly => fpos' = Len(file') /\ left' = Size - Len(file')
        <3>1. Orderly => ~env.bad  BY DEF Orderly
        <3> QED BY <1>1, <1>4, <1>5, <2>2, <3>1 DEF Max2
    <2> QED BY <1>2, <1>3, <2>1, <2>3, <2>4 DEF Begun
<1>11. CompleteIsRight'  BY <1>1, <1>4 DEF CompleteIsRight, SaysTrue
<1> QED BY <1>3, <1>6, <1>7, <1>8, <1>9, <1>10, <1>11 DEF IInv

LEMMA WriteKeeps ==
    ASSUME IInv, UNCHANGED env, Write
    PROVE  IInv'
<1> DEFINE x == RemoteAt(src)
<1>1. /\ pc = "body" /\ left > 0 /\ file' = Put(file, fpos, x) /\ fpos' = fpos + 1 /\ left' = left - 1
      /\ src' = IF src = Junk THEN Junk ELSE src + 1
      /\ UNCHANGED <<env, pc, mainVars, th, done, said, runs>>
  BY DEF Write
<1>2. ~Threaded /\ ~Threaded' /\ Stale /\ pc' # "idle"  BY <1>1 DEF Threaded, Stale
<1>3. Cut' /\ Progress' /\ Counted' /\ env' \in Env /\ (Orderly' <=> Orderly)  BY <1>1, <1>2, Single DEF IInv, Counted
<1>4. /\ fpos \in Nat /\ src \in Nat \cup {Junk} /\ left \in Nat
      /\ src = Junk \/ src + left <= Size
      /\ ~env.bad => src = fpos
  BY <1>1 DEF IInv, BodyOK
<1>5. x \in Content /\ (src # Junk => x = src + 1)  BY <1>1, <1>4, Numbers DEF RemoteAt, Content
<1>6. file \in Seq(Content) /\ Len(file) \in Nat  BY LenProperties DEF IInv, Begun
<1> HIDE DEF x
<1>7. /\ file' \in Seq(Content) /\ Len(file') = Max2(Len(file), fpos + 1) /\ file'[fpos + 1] = x
      /\ \A i \in 1 .. Len(file) : i # fpos + 1 => file'[i] = file[i]
  BY <1>1, <1>4, <1>5, <1>6, PutIs
<1>8. MainOK'  BY <1>1 DEF IInv, MainOK, mainVars
<1>9. BodyOK'
    <2>1. fpos' \in Nat /\ left' \in Nat /\ src' \in Nat \cup {Junk}  BY <1>1, <1>4
    <2>2. src' = Junk \/ src' + left' <= Size  BY <1>1, <1>4, Numbers
    <2>3. ~env.bad => src' = fpos'  BY <1>1, <1>4 DEF Junk
    <2> QED BY <1>1, <2>1, <2>2, <2>3 DEF BodyOK
<1>10. Opened'  BY <1>1 DEF IInv, Opened
<1>11. ThreadsOK'  BY <1>1, <1>2 DEF IInv, ThreadsOK, Stale
<1>12. Begun'
    <2>1. ASSUME Orderly PROVE /\ Len(file') <= Size /\ \A i \in 1 .. Len(file') : file'[i] = i
                               /\ fpos' = Len(file') /\ left' = Size - Len(file')
        <3>1. fpos = Len(file) /\ left = Size - Len(file) /\ \A i \in 1 .. Len(file) : file[i] = i  BY <1>1, <1>2, <2>1 DEF IInv, Begun
        <3>2. src = fpos /\ src # Junk  BY <1>4, <2>1 DEF Orderly, Junk
        <3>3. Len(file') = fpos + 1 /\ x = fpos + 1  BY <1>4, <1>5, <1>6, <1>7, <3>1, <3>2 DEF Max2
        <3>4. ASSUME NEW i \in 1 .. Len(file') PROVE file'[i] = i
            <4>1. i = fpos + 1 \/ (i \in 1 .. Len(file) /\ i # fpos + 1)  BY <1>4, <3>1, <3>3
            <4> QED BY <1>7, <3>1, <3>3, <4>1
        <3> QED BY SMTT(30), <1>1, <1>4, <1>6, <3>1, <3>3, <3>4, Numbers
    <2> QED BY <1>2, <1>3, <1>7, <2>1 DEF Begun
<1>13. CompleteIsRight'  BY <1>1 DEF IInv, Opened, CompleteIsRight, SaysTrue
<1> QED BY <1>3, <1>8, <1>9, <1>10, <1>11, <1>12, <1>13 DEF IInv

LEMMA BodyEndsKeeps ==
    ASSUME IInv, UNCHANGED env, BodyEnds
    PROVE  IInv'
<1>1. /\ pc = "body" /\ (left = 0 \/ env.drops) /\ pc' = "idle" /\ said' = "complete"
      /\ UNCHANGED <<env, mainVars, bodyVars, file, th, done, runs>>
  BY DEF BodyEnds, End
<1>2. ~Threaded /\ ~Threaded' /\ Stale /\ ~Stale'  BY <1>1 DEF Threaded, Stale
<1>3. Cut' /\ Progress' /\ Counted' /\ env' \in Env /\ (Orderly' <=> Orderly)  BY <1>1, <1>2, Single DEF IInv, Counted
<1>4. MainOK'  BY <1>1 DEF IInv, MainOK, mainVars
<1>5. BodyOK' /\ Opened'  BY <1>1 DEF IInv, BodyOK, Opened, bodyVars
<1>6. ThreadsOK'  BY <1>1, <1>2, Numbers DEF IInv, ThreadsOK
<1>7. Begun'  BY <1>1, <1>2, <1>3 DEF IInv, Begun, bodyVars
<1>8. CompleteIsRight'
    <2>1. file \in Seq(Content) /\ Len(file) \in Nat  BY LenProperties DEF IInv, Begun
    <2>2. Orderly => left = 0 /\ left = Size - Len(file) /\ \A i \in 1 .. Len(file) : file[i] = i  BY <1>1, <1>2 DEF IInv, Begun, Orderly
    <2>3. Orderly => Len(file) = Size  BY <2>1, <2>2, Numbers
    <2>4. Orderly => file' = RemoteFile  BY <1>1, <2>1, <2>2, <2>3, WholeIsRight
    <2>5. Orderly' => file' = RemoteFile  BY <1>3, <2>4
    <2> QED BY <2>5 DEF CompleteIsRight, SaysTrue, Orderly
<1> QED BY <1>3, <1>4, <1>5, <1>6, <1>7, <1>8 DEF IInv

\* Where kills happen, threads are not used, so what is left is a beginning.
LEMMA KillKeeps ==
    ASSUME IInv, UNCHANGED env, Kill
    PROVE  IInv'
<1>1. /\ env.kills /\ pc # "idle" /\ pc' = "idle" /\ said' = "killed" /\ th' = [w \in Worker |-> NoThread]
      /\ UNCHANGED <<env, mainVars, bodyVars, file, done, runs>>
  BY DEF Kill, End
<1>2. ~Threaded' /\ ~Stale'  BY <1>1 DEF Threaded, Stale
<1>3. Cut' /\ Progress' /\ Counted' /\ env' \in Env /\ (Orderly' <=> Orderly)  BY <1>1, <1>2, Single DEF IInv, Counted
<1>4. MainOK'  BY <1>1 DEF IInv, MainOK, mainVars
<1>5. BodyOK' /\ Opened'  BY <1>1 DEF IInv, BodyOK, Opened, bodyVars
<1>6. ThreadsOK'  BY <1>1, <1>2, Numbers DEF ThreadsOK
<1>7. Orderly => ~Threaded
    <2>1. Threaded => parallel > 1  BY DEF IInv, Cut
    <2>2. parallel \in Nat /\ parallel <= env.parallel  BY Numbers DEF IInv, MainOK
    <2> QED BY <1>1, <2>1, <2>2 DEF Orderly
<1>8. Begun'  BY <1>1, <1>2, <1>3, <1>7 DEF IInv, Begun, bodyVars
<1>9. CompleteIsRight'  BY <1>1 DEF CompleteIsRight, SaysTrue
<1> QED BY <1>3, <1>4, <1>5, <1>6, <1>8, <1>9 DEF IInv

----------------------------------------------------------------------------
(* The theorems                                                            *)

LEMMA InitIsSound == Init => IInv
<1> SUFFICES ASSUME Init PROVE IInv  OBVIOUS
<1>1. env \in Env  BY EnvAssumption DEF Init
<1>2. /\ pc = "idle" /\ resume = FALSE /\ parallel = 1 /\ remote = -1 /\ ranges = FALSE /\ local = 0 /\ nt = 0
      /\ fpos = 0 /\ src = 0 /\ left = 0 /\ file = << >> /\ done = 0 /\ said = "nothing" /\ runs = 0
      /\ th = [w \in Worker |-> NoThread]
  BY DEF Init
<1>3. ~Threaded /\ ~Stale  BY <1>2 DEF Threaded, Stale
<1>4. MainOK
    <2>1. env.parallel \in 1 .. MaxParallel  BY <1>1 DEF Env
    <2>2. 1 \in 1 .. MaxParallel /\ 1 <= env.parallel /\ 0 \in 0 .. MaxParallel /\ 0 \in 0 .. MaxRuns  BY <2>1, Numbers, SizeAssumption
    <2> QED BY <1>2, <2>2 DEF MainOK
<1>5. BodyOK /\ Opened /\ Cut /\ Progress  BY <1>2, <1>3 DEF BodyOK, Opened, Cut, Progress
<1>6. ThreadsOK  BY <1>2, <1>3, Numbers DEF ThreadsOK
<1>7. Counted  BY <1>2, <1>3, Numbers DEF Counted
<1>8. Begun  BY <1>2, <1>3, Numbers, EmptySeq DEF Begun
<1>9. CompleteIsRight  BY <1>2 DEF CompleteIsRight, SaysTrue
<1> QED BY <1>1, <1>4, <1>5, <1>6, <1>7, <1>8, <1>9 DEF IInv

LEMMA StepsAreSound == IInv /\ [Next]_vars => IInv'
<1> SUFFICES ASSUME IInv, [Next]_vars PROVE IInv'  OBVIOUS
<1>1. ASSUME UNCHANGED env, NEW c \in BOOLEAN, NEW n \in 1 .. env.parallel, Invoke(c, n) PROVE IInv'  BY <1>1, InvokeKeeps
<1>2. ASSUME UNCHANGED env, Main PROVE IInv'
  BY <1>2, FailsKeeps, HeadReplyKeeps, OpenKeeps, SpawnKeeps, JoinedKeeps, GetKeeps, WriteKeeps, BodyEndsKeeps DEF Main
<1>3. ASSUME UNCHANGED env, NEW w \in Worker, ThreadStep(w) PROVE IInv'
  BY <1>3, RequestKeeps, ThreadOpenKeeps, ThreadWriteKeeps, ThreadDoneKeeps DEF ThreadStep
<1>4. ASSUME UNCHANGED env, Kill PROVE IInv'  BY <1>4, KillKeeps
<1>5. CASE UNCHANGED vars
    <2>1. UNCHANGED <<env, pc, resume, parallel, remote, ranges, local, nt, fpos, src, left, file, th, done, said, runs>>
      BY <1>5 DEF vars, mainVars, bodyVars
    <2>2. /\ (Threaded' <=> Threaded) /\ (Stale' <=> Stale) /\ (Orderly' <=> Orderly)
          /\ \A w \in Int : From(w)' = From(w) /\ Until(w)' = Until(w)
      BY <2>1 DEF Threaded, Stale, Orderly, From, Until
    <2>3. MainOK' /\ BodyOK' /\ Opened' /\ Cut'  BY <2>1, <2>2 DEF IInv, MainOK, BodyOK, Opened, Cut
    <2>4. \A w \in Worker : ThreadOK(w) => ThreadOK(w)'
        <3>1. \A w \in Worker : From(w)' = From(w)  BY <2>2 DEF Worker
        <3> QED BY <2>1, <3>1 DEF ThreadOK
    <2>5. ThreadsOK'  BY <2>1, <2>2, <2>4 DEF IInv, ThreadsOK
    <2>6. Progress'  BY <2>1, <2>2 DEF IInv, Progress, ProgressOf
    <2>7. Settled' = Settled
        <3>1. \A w \in Worker : Settles(w)' <=> Settles(w)
            <4>1. \A w \in Worker : Until(w)' = Until(w)  BY <2>2 DEF Worker
            <4> QED BY <2>1, <2>2, <4>1 DEF Settles
        <3> QED BY <3>1 DEF Settled
    <2>8. Counted'  BY <2>1, <2>2, <2>7 DEF IInv, Counted
    <2>9. Begun'  BY <2>1, <2>2 DEF IInv, Begun
    <2>10. CompleteIsRight'  BY <2>1 DEF IInv, CompleteIsRight, SaysTrue
    <2> QED BY <2>1, <2>3, <2>5, <2>6, <2>8, <2>9, <2>10 DEF IInv
<1> QED BY <1>1, <1>2, <1>3, <1>4, <1>5 DEF Next

\* IInv: how far each thread has come, what lies behind it and what the counter
\* counts, as above, hold in every state of every download (wget.c).
THEOREM InvariantHolds == Spec => []IInv
BY InitIsSound, StepsAreSound, PTL DEF Spec

LEMMA TypesFollow == IInv => TypeOK
<1> SUFFICES ASSUME IInv PROVE TypeOK  OBVIOUS
<1>1. file \in Seq({Junk, Hole} \cup 1 .. Size)  BY DEF IInv, Begun, Content
<1>2. th \in [Worker -> [pc : {"none", "request", "open", "body", "gone"}, at : Nat, src : Nat, left : Nat]]
  BY DEF IInv, ThreadsOK, Thread
<1> QED BY <1>1, <1>2 DEF IInv, MainOK, BodyOK, Counted, TypeOK

\* The variables of a download keep their types, whatever server and process do:
\* done_count never exceeds the number of threads and the file holds nothing
\* but remote content, holes and an error page (wget.c).
THEOREM TypeCorrect == Spec => []TypeOK
BY InvariantHolds, TypesFollow, PTL

LEMMA RangesFollow == IInv => RangesPartition
<1> SUFFICES ASSUME IInv, Threaded
             PROVE  /\ nt >= 1 /\ nt <= parallel
                    /\ \A p \in local .. remote - 1 :
                         \E w \in 0 .. nt - 1 :
                             /\ First(w, local, remote, parallel) <= p
                             /\ p <= Last(w, local, remote, parallel)
                             /\ \A v \in 0 .. nt - 1 :
                                  /\ First(v, local, remote, parallel) <= p
                                  /\ p <= Last(v, local, remote, parallel)
                                  => v = w
  BY DEF RangesPartition, Threaded
<1>1. nt \in 1 .. parallel /\ parallel \in Nat /\ local \in Nat /\ remote = Size /\ Size \in Nat
  BY Cuts, Numbers DEF IInv, MainOK, Cut
<1>2. ASSUME NEW p \in local .. remote - 1
      PROVE  \E w \in 0 .. nt - 1 : /\ First(w, local, remote, parallel) <= p /\ p <= Last(w, local, remote, parallel)
                                    /\ \A v \in 0 .. nt - 1 : First(v, local, remote, parallel) <= p /\ p <= Last(v, local, remote, parallel) => v = w
    <2>1. PICK w \in 0 .. nt - 1 : From(w) <= p /\ p < Until(w)  BY <1>1, Cuts DEF IInv
    <2>2. \A v \in 0 .. nt - 1 : From(v) \in Nat /\ Until(v) \in Nat /\ Last(v, local, remote, parallel) \in Nat  BY Cuts DEF IInv
    <2>3. \A v \in 0 .. nt - 1 : First(v, local, remote, parallel) = From(v) /\ Until(v) = Last(v, local, remote, parallel) + 1
      BY DEF From, Until
    <2>4. \A v \in 0 .. nt - 1 : (First(v, local, remote, parallel) <= p /\ p <= Last(v, local, remote, parallel)) <=> (From(v) <= p /\ p < Until(v))
      BY <1>1, <2>2, <2>3
    <2>5. ASSUME NEW v \in 0 .. nt - 1, From(v) <= p, p < Until(v) PROVE v = w
        <3>1. v < w => Until(v) <= From(w)  BY Cuts DEF IInv
        <3>2. w < v => Until(w) <= From(v)  BY Cuts DEF IInv
        <3> QED BY <1>1, <2>1, <2>2, <2>5, <3>1, <3>2
    <2>6. First(w, local, remote, parallel) <= p /\ p <= Last(w, local, remote, parallel)  BY <2>1, <2>4
    <2>7. \A v \in 0 .. nt - 1 : First(v, local, remote, parallel) <= p /\ p <= Last(v, local, remote, parallel) => v = w  BY <2>4, <2>5
    <2> QED BY <2>6, <2>7
<1> QED BY <1>1, <1>2

\* RangesPartition: for any size, chunk size, number of threads and length of
\* what an earlier run left, the ranges main gives its threads cover what is
\* missing, each position once (wget.c, main).
THEOREM RangesArePartition == Spec => []RangesPartition
BY InvariantHolds, RangesFollow, PTL

\* CompleteIsRight: with a server that answers as it should, and no kill of a
\* parallel download, what wget calls complete is the remote file, over any
\* number of invocations, sizes and threads (wget.c, main and download_thread).
THEOREM CompleteIsTheFile == Spec => []CompleteIsRight
<1>1. IInv => CompleteIsRight  BY DEF IInv
<1> QED BY <1>1, InvariantHolds, PTL

\* Where something is written, it is what belongs there.
LEMMA StepsSpareContent ==
    ASSUME IInv, ~env.bad, Next, NEW i \in 1 .. Min2(Len(file), Len(file')), file[i] = i
    PROVE  file'[i] \in {i, Hole}
<1>1. file \in Seq(Content) /\ Len(file) \in Nat  BY LenProperties DEF IInv, Begun
<1>2. SUFFICES ASSUME file' # file PROVE file'[i] \in {i, Hole}  BY <1>2
<1>3. UNCHANGED env  BY DEF Next
<1>4. CASE Open
    <2> DEFINE kept == IF resume /\ local > 0 THEN file ELSE << >>
    <2>1. IInv'  BY <1>3, <1>4, OpenKeeps
    <2>2. Len(file') \in Nat  BY <2>1, LenProperties DEF IInv, Begun
    <2>3. file' = kept \/ (UseParallel /\ file' = Extend(kept, remote))  BY <1>4 DEF Open
    <2>4. Len(file) \in Nat /\ i \in 1 .. Len(file) /\ i \in 1 .. Len(file')  BY <1>1, <2>2 DEF Min2
    <2>5. CASE file' = kept
        <3>1. kept = << >>  BY <1>2, <2>5
        <3>2. Len(file') = 0  BY <2>5, <3>1, EmptySeq
        <3> QED BY <2>4, <3>2
    <2>6. CASE UseParallel /\ file' = Extend(kept, remote)
        <3>1. remote \in Nat  BY <2>6, Numbers DEF IInv, MainOK, UseParallel
        <3>2. kept \in Seq(Content)  BY <1>1, EmptySeq
        <3>3. kept = file \/ (kept = << >> /\ Len(kept) = 0)  BY EmptySeq
        <3> HIDE DEF kept
        <3>4. Len(file') = remote /\ \A k \in 1 .. remote : file'[k] = IF k <= Len(kept) THEN kept[k] ELSE Hole  BY <2>6, <3>1, <3>2, ExtendIs
        <3>5. file'[i] = IF i <= Len(kept) THEN kept[i] ELSE Hole  BY <2>4, <3>4
        <3> QED BY <2>4, <3>3, <3>5
    <2> QED BY <2>3, <2>5, <2>6
<1>5. CASE Get
    <2>1. file' = << >>  BY <1>2, <1>5 DEF Get
    <2>2. Len(file') = 0  BY <2>1, EmptySeq
    <2> QED BY <1>1, <2>2 DEF Min2
<1>6. CASE Write
    <2>1. pc = "body" /\ left > 0 /\ file' = Put(file, fpos, RemoteAt(src))  BY <1>6 DEF Write
    <2>2. fpos \in Nat /\ src = fpos /\ src + left <= Size /\ left \in Nat  BY <2>1, Numbers DEF IInv, BodyOK, Junk
    <2>3. RemoteAt(src) = fpos + 1 /\ RemoteAt(src) \in Content  BY <2>1, <2>2, Numbers DEF RemoteAt, Junk, Content
    <2>4. /\ Len(file') = Max2(Len(file), fpos + 1) /\ file'[fpos + 1] = RemoteAt(src)
          /\ \A k \in 1 .. Len(file) : k # fpos + 1 => file'[k] = file[k]
      BY <1>1, <2>1, <2>2, <2>3, PutIs
    <2>5. i \in 1 .. Len(file)  BY <1>1, <2>2, <2>4 DEF Min2, Max2
    <2> QED BY <2>3, <2>4, <2>5
<1>7. ASSUME NEW w \in Worker, ThreadWrite(w) PROVE file'[i] = i
    <2>1. th[w].pc = "body" /\ th[w].left > 0 /\ file' = Put(file, th[w].at, RemoteAt(th[w].src))  BY <1>7 DEF ThreadWrite
    <2>2. ThreadOK(w) /\ th[w] \in Thread  BY <2>1, ThreadRuns
    <2>3. /\ th[w].at \in Nat /\ th[w].left \in Nat /\ th[w].src = th[w].at /\ th[w].src + th[w].left <= Size
      BY <2>1, <2>2 DEF ThreadOK, Thread
    <2>4. RemoteAt(th[w].src) = th[w].at + 1 /\ RemoteAt(th[w].src) \in Content  BY SMTT(30), <2>1, <2>3, Numbers DEF RemoteAt, Junk, Content
    <2> DEFINE p == th[w].at
               x == RemoteAt(th[w].src)
    <2>5. file' = Put(file, p, x) /\ p \in Nat /\ x \in Content /\ x = p + 1  BY <2>1, <2>3, <2>4
    <2> HIDE DEF p, x
    <2>6. /\ Len(file') = Max2(Len(file), p + 1) /\ file'[p + 1] = x
          /\ \A k \in 1 .. Len(file) : k # p + 1 => file'[k] = file[k]
      BY <1>1, <2>5, PutIs
    <2>7. i \in 1 .. Len(file)  BY <1>1, <2>5, <2>6 DEF Min2, Max2
    <2> QED BY <2>5, <2>6, <2>7
<1>8. Open \/ Get \/ Write \/ \E w \in Worker : ThreadWrite(w)
    <2>1. \A c \in BOOLEAN, n \in 1 .. env.parallel : ~Invoke(c, n)  BY <1>2 DEF Invoke
    <2>2. Main => Open \/ Get \/ Write  BY <1>2 DEF Main, Fails, HeadReply, Spawn, Joined, BodyEnds
    <2>3. \A w \in Worker : ThreadStep(w) => ThreadWrite(w)  BY <1>2 DEF ThreadStep, Request, ThreadOpen, ThreadOpenFails, ThreadDone
    <2>4. ~Kill  BY <1>2 DEF Kill
    <2> QED BY <2>1, <2>2, <2>3, <2>4 DEF Next
<1> QED BY <1>4, <1>5, <1>6, <1>7, <1>8

\* NeverCorrupts: no step of main or of a thread puts anything else over right
\* content, be there broken connections, kills and threads that do not start
\* (download_thread, main and read_fixed of wget.c).
THEOREM ContentIsSpared == Spec => NeverCorrupts
<1>1. IInv /\ [Next]_vars =>
        [~env.bad => \A i \in 1 .. Min2(Len(file), Len(file')) : file[i] = i => file'[i] \in {i, Hole}]_vars
    <2> SUFFICES ASSUME IInv, Next, ~env.bad, NEW i \in 1 .. Min2(Len(file), Len(file')), file[i] = i
                 PROVE  file'[i] \in {i, Hole}
      OBVIOUS
    <2> QED BY StepsSpareContent
<1> QED BY <1>1, InvariantHolds, PTL DEF Spec, NeverCorrupts

=============================================================================
