----------------------------- MODULE NetProofs -----------------------------
(***************************************************************************)
(* For any number of targets, addresses, packets, probes and aliases, what *)
(* the network tools report is true (ProbesSound) and the look up of a     *)
(* name ends as it should (ResolverSound).  The tools share nothing, so    *)
(* the invariant is the conjunction of theirs:                             *)
(*   ScanInv      what is reported or waited for was tried, each once;     *)
(*   EchoInv      every packet on its way was sent for by a request, and a *)
(*                trace hears "unreachable" from no nearer than the target;*)
(*   DiscoverInv  the entries are hosts of the network, once each;         *)
(*   ResolverInv  the name looked up is the one that many aliases behind   *)
(*                the host's, and a reply holds records of that way.       *)
(* ConnectScan, Discover and Resolver compute by recursive functions: the  *)
(* first part shows that such a function exists and obeys its equations,   *)
(* by the least counterexample, and each result is read off from these.    *)
(* That Aliases of a chain is a number, and the least one that leaves it,  *)
(* takes a pigeonhole argument: a chain of as many aliases as there are    *)
(* names repeats one, and never ends.                                      *)
(***************************************************************************)
EXTENDS NetTools, FiniteSetTheorems, WellFoundedInduction, TLAPS

----------------------------------------------------------------------------
\* A set of natural numbers has a least one.
LEMMA NatMin == ASSUME NEW T, T \subseteq Nat, T # {} PROVE \E x \in T : \A y \in T : x <= y
<1> DEFINE R == OpToRel(<, Nat)
<1>1. IsWellFoundedOn(R, Nat) BY NatLessThanWellFounded
<1>2. \A x, y \in Nat : <<x, y>> \in R <=> x < y BY DEF OpToRel
<1> HIDE DEF R
<1>3. PICK x \in T : \A y \in T : ~ (<<y, x>> \in R) BY <1>1, WFMin
<1>4. ASSUME NEW y \in T PROVE x <= y
    <2>1. x \in Nat /\ y \in Nat /\ ~ (<<y, x>> \in R) BY <1>3
    <2>2. ~ (y < x) BY <2>1, <1>2
    <2> QED BY <2>1, <2>2
<1> QED BY <1>4

\* Induction over the natural numbers, for a set.
LEMMA NatInd == ASSUME NEW S, 0 \in S, \A n \in Nat : n \in S => n + 1 \in S PROVE Nat \subseteq S
<1> SUFFICES ASSUME ~(Nat \subseteq S) PROVE FALSE OBVIOUS
<1> DEFINE T == Nat \ S
<1>1. PICK x \in T : \A y \in T : x <= y BY NatMin
<1>2. x # 0 /\ x - 1 \in Nat BY <1>1
<1>3. x - 1 \in S BY <1>1, <1>2
<1> QED BY <1>1, <1>2, <1>3

\* The least member of a set of numbers is attained.
LEMMA MinIn == ASSUME NEW T, T \subseteq Nat, T # {} PROVE Min(T) \in T /\ \A y \in T : Min(T) <= y
BY NatMin DEF Min
\* So is the greatest below a bound.
LEMMA MaxIn ==
    ASSUME NEW n \in Nat, NEW T, T \subseteq 0 .. n, T # {}
    PROVE  Max(T) \in T /\ \A y \in T : y <= Max(T)
<1> DEFINE D == {n - x : x \in T}
<1>1. D \subseteq Nat /\ D # {}
    <2>1. \A x \in T : n - x \in Nat OBVIOUS
    <2>2. PICK x \in T : TRUE OBVIOUS
    <2>3. n - x \in D OBVIOUS
    <2> QED BY <2>1, <2>3
<1>2. PICK d \in D : \A e \in D : d <= e BY <1>1, NatMin
<1>3. PICK x \in T : d = n - x OBVIOUS
<1>4. \A y \in T : n - y \in D OBVIOUS
<1>5. ASSUME NEW y \in T PROVE y <= x
    <2>1. d <= n - y BY <1>2, <1>4
    <2>2. x \in 0 .. n /\ y \in 0 .. n OBVIOUS
    <2> QED BY <1>3, <2>1, <2>2
<1> QED BY <1>5 DEF Max

\* What a concatenation holds.
LEMMA ConcatIs ==
    ASSUME NEW U, NEW a \in Seq(U), NEW b \in Seq(U)
    PROVE  /\ a \o b \in Seq(U) /\ Len(a \o b) = Len(a) + Len(b) /\ Len(a) \in Nat /\ Len(b) \in Nat
           /\ \A i \in 1 .. Len(a) : (a \o b)[i] = a[i]
           /\ \A i \in 1 .. Len(b) : (a \o b)[Len(a) + i] = b[i]
OBVIOUS

\* What an appended sequence holds.
LEMMA AppendIs ==
    ASSUME NEW U, NEW s \in Seq(U), NEW x \in U
    PROVE  /\ Append(s, x) \in Seq(U) /\ Len(Append(s, x)) = Len(s) + 1 /\ Len(s) \in Nat
           /\ Append(s, x) # <<>> /\ Append(s, x)[Len(s) + 1] = x
           /\ DOMAIN Append(s, x) = 1 .. (Len(s) + 1) /\ DOMAIN s = 1 .. Len(s)
           /\ \A i \in 1 .. Len(s) : Append(s, x)[i] = s[i]
OBVIOUS


\* A function of the natural numbers may be defined by what it is at 0 and
\* how each value follows from the one before.
Follows(h, init, G) == h[0] = init /\ \A k \in Nat : h[k + 1] = G[k + 1][h[k]]
\* A function that takes the steps of G from a first value exists.
LEMMA RecursionExists ==
    ASSUME NEW V, NEW init \in V, NEW G \in [Nat -> [V -> V]]
    PROVE  \E h \in [Nat -> V] : Follows(h, init, G)
<1> DEFINE P(n, f) == f \in [0 .. n -> V] /\ f[0] = init /\ \A k \in Nat : k < n => f[k + 1] = G[k + 1][f[k]]
           Has == {n \in Nat : \E f : P(n, f)}
<1>1. Nat \subseteq Has
    <2>1. 0 \in Has
        <3> DEFINE f == [k \in 0 .. 0 |-> init]
        <3>1. P(0, f) OBVIOUS
        <3> QED BY <3>1
    <2>2. ASSUME NEW n \in Nat, n \in Has PROVE n + 1 \in Has
        <3>1. PICK f : P(n, f) BY <2>2
        <3> DEFINE g == [k \in 0 .. n + 1 |-> IF k = n + 1 THEN G[n + 1][f[n]] ELSE f[k]]
        <3>2. f[n] \in V /\ G[n + 1][f[n]] \in V BY <3>1
        <3>3. \A k \in Nat : k <= n => g[k] = f[k] OBVIOUS
        <3>4. g[n + 1] = G[n + 1][f[n]] OBVIOUS
        <3>5. g \in [0 .. n + 1 -> V]
            <4>1. \A k \in 0 .. n + 1 : k # n + 1 => k \in 0 .. n OBVIOUS
            <4> QED BY <3>1, <3>2, <4>1
        <3> HIDE DEF g
        <3>6. \A k \in Nat : k < n + 1 => g[k + 1] = G[k + 1][g[k]]
            <4> SUFFICES ASSUME NEW k \in Nat, k < n + 1 PROVE g[k + 1] = G[k + 1][g[k]] OBVIOUS
            <4>1. CASE k = n BY <3>3, <3>4, <4>1
            <4>2. CASE k < n
                <5>1. k + 1 <= n /\ k + 1 \in Nat /\ k <= n BY <4>2
                <5> QED BY <3>1, <3>3, <4>2, <5>1
            <4> QED BY <4>1, <4>2
        <3>7. g[0] = init BY <3>1, <3>3
        <3>8. P(n + 1, g) BY <3>5, <3>6, <3>7
        <3> QED BY <3>8
    <2> HIDE DEF Has
    <2> QED BY <2>1, <2>2, NatInd
<1>2. ASSUME NEW n \in Nat, NEW m \in Nat, n <= m, NEW f, NEW g, P(n, f), P(m, g) PROVE f[n] = g[n]
    <2> DEFINE S == {k \in Nat : k <= n => f[k] = g[k]}
    <2>1. 0 \in S BY <1>2
    <2>2. ASSUME NEW k \in Nat, k \in S PROVE k + 1 \in S
        <3> SUFFICES ASSUME k + 1 <= n PROVE f[k + 1] = g[k + 1] OBVIOUS
        <3>1. k < n /\ k < m /\ k <= n BY <1>2
        <3>2. f[k] = g[k] BY <2>2, <3>1
        <3>3. f[k + 1] = G[k + 1][f[k]] BY <1>2, <3>1
        <3>4. g[k + 1] = G[k + 1][g[k]] BY <1>2, <3>1
        <3> QED BY <3>2, <3>3, <3>4
    <2>3. n \in S
        <3> HIDE DEF S
        <3> QED BY <2>1, <2>2, NatInd
    <2> QED BY <2>3
<1> DEFINE F(n) == CHOOSE f : P(n, f)
           h == [n \in Nat |-> F(n)[n]]
<1>3. ASSUME NEW n \in Nat PROVE P(n, F(n))
    <2>1. \E f : P(n, f) BY <1>1
    <2> HIDE DEF P
    <2> QED BY <2>1
<1> HIDE DEF F
<1>4. ASSUME NEW n \in Nat PROVE h[n] \in V
    <2>1. F(n) \in [0 .. n -> V] BY <1>3
    <2> QED BY <2>1
<1>5. h[0] = init
    <2>1. F(0)[0] = init BY <1>3
    <2> QED BY <2>1
<1>6. ASSUME NEW n \in Nat PROVE h[n + 1] = G[n + 1][h[n]]
    <2>1. P(n, F(n)) /\ P(n + 1, F(n + 1)) BY <1>3
    <2>2. n <= n + 1 /\ n < n + 1 OBVIOUS
    <2>3. F(n + 1)[n + 1] = G[n + 1][F(n + 1)[n]] BY <2>1, <2>2
    <2>4. F(n)[n] = F(n + 1)[n]
        <3> HIDE DEF P
        <3> QED BY <1>2, <2>1, <2>2
    <2>5. h[n] = F(n)[n] /\ h[n + 1] = F(n + 1)[n + 1] OBVIOUS
    <2> QED BY <2>3, <2>4, <2>5
<1>7. h \in [Nat -> V] BY <1>4
<1> HIDE DEF h
<1> QED BY <1>5, <1>6, <1>7 DEF Follows

\* The same up to a bound.
FollowsTo(f, n, init, G) == f = [k \in 0 .. n |-> IF k = 0 THEN init ELSE G[k][f[k - 1]]]
\* So does one that stops at a number of steps.
LEMMA RecursionUpTo ==
    ASSUME NEW V, NEW init \in V, NEW G \in [Nat -> [V -> V]], NEW n \in Nat
    PROVE  \E f \in [0 .. n -> V] : FollowsTo(f, n, init, G)
<1>0. PICK h \in [Nat -> V] : Follows(h, init, G) BY RecursionExists
<1>1. h[0] = init /\ \A k \in Nat : h[k + 1] = G[k + 1][h[k]] BY <1>0 DEF Follows
<1> DEFINE f == [k \in 0 .. n |-> h[k]]
<1>2. f \in [0 .. n -> V] OBVIOUS
<1>3. ASSUME NEW k \in 0 .. n PROVE f[k] = IF k = 0 THEN init ELSE G[k][f[k - 1]]
    <2>1. CASE k = 0 BY <1>1, <2>1
    <2>2. CASE k # 0
        <3>1. k - 1 \in Nat /\ k - 1 \in 0 .. n /\ (k - 1) + 1 = k BY <2>2
        <3>2. h[(k - 1) + 1] = G[(k - 1) + 1][h[k - 1]] BY <1>1, <3>1
        <3>3. f[k - 1] = h[k - 1] /\ f[k] = h[k] BY <3>1
        <3> HIDE DEF f
        <3> QED BY <2>2, <3>1, <3>2, <3>3
    <2> QED BY <2>1, <2>2
<1>4. f = [k \in 0 .. n |-> f[k]] BY <1>2
<1> HIDE DEF f
<1>5. f = [k \in 0 .. n |-> IF k = 0 THEN init ELSE G[k][f[k - 1]]] BY <1>3, <1>4
<1> QED BY <1>2, <1>5 DEF FollowsTo

----------------------------------------------------------------------------
(* The probes of ping and netprobe                                         *)

PacketKinds == {"request", "reply", "exceeded", "unreachable"}
PacketType == [kind : PacketKinds, n : Nat, ttl : Nat]
EchoType ==
    /\ prober \in [tool : {"ping", "sweep", "trace"}, distance : Nat, running : BOOLEAN, noise : Int]
    /\ round \in [at : {"send", "receive", "report", "done"}, seq : Nat, probe : Int]
    /\ sent \in Nat
    /\ counted \in Seq(PacketType) /\ inbox \in Seq(PacketType)
    /\ air \subseteq Nat \X PacketType

\* A packet that may be on its way to this socket: no request that was not
\* sent is answered, and a target complains about probes that reach it only,
\* none of them later than the present one.
MayCome(m) ==
    /\ m.n <= sent
    /\ m.kind = "unreachable" => Tracing /\ prober.distance <= m.ttl /\ m.ttl <= round.seq

WhatComes == (\A i \in DOMAIN inbox : MayCome(inbox[i])) /\ (\A p \in air : MayCome(p[2]))
CountsAnswers == Len(counted) + (IF round.at = "receive" THEN 1 ELSE 0) <= sent
CountsItsOwn == prober.tool = "ping" => \A i \in DOMAIN counted : counted[i].n \in 1 .. sent
TraceReaches == Tracing /\ round.at = "report" => counted # <<>> /\ counted[Len(counted)].ttl >= prober.distance
EchoInv == EchoType /\ WhatComes /\ CountsAnswers /\ CountsItsOwn /\ TraceReaches

\* What the rest of a sequence holds.
LEMMA TailIs ==
    ASSUME NEW U, NEW s \in Seq(U), s # <<>>
    PROVE  /\ Head(s) \in U /\ Head(s) = s[1] /\ Tail(s) \in Seq(U) /\ 1 \in DOMAIN s
           /\ \A i \in DOMAIN Tail(s) : i + 1 \in DOMAIN s /\ Tail(s)[i] = s[i + 1]
OBVIOUS

\* A packet that may come still may when more has been sent and the round is
\* a later one.
LEMMA StillComes ==
    ASSUME EchoType, EchoType', NEW m \in PacketType, MayCome(m),
           sent <= sent', prober'.tool = prober.tool, prober'.distance = prober.distance,
           round.seq <= round'.seq
    PROVE  MayCome(m)'
BY DEF EchoType, PacketType, MayCome, Tracing

\* Nothing is on its way when a prober starts.
LEMMA EchoStarts ==
    ASSUME NEW tool \in {"ping", "sweep", "trace"}, NEW distance \in Nat, EchoStart(tool, distance)
    PROVE  EchoInv
<1>1. /\ MaxNoise \in Nat /\ counted = <<>> /\ inbox = <<>> /\ air = {} /\ sent = 0
      /\ round = [at |-> "send", seq |-> 1, probe |-> 1]
      /\ prober = [tool |-> tool, distance |-> distance, running |-> TRUE, noise |-> MaxNoise]
    BY EchoAssumption DEF EchoStart
<1>2. EchoType BY <1>1 DEF EchoType
<1> QED BY <1>1, <1>2 DEF EchoInv, WhatComes, CountsAnswers, CountsItsOwn, TraceReaches

\* The next round is a later one.
LEMMA NextRoundIs ==
    ASSUME EchoType
    PROVE  /\ NextRound \in [at : {"send"}, seq : Nat, probe : Int]
           /\ round.seq <= NextRound.seq /\ NextRound.at = "send"
<1>1. round \in [at : {"send", "receive", "report", "done"}, seq : Nat, probe : Int] BY DEF EchoType
<1>2. CASE Tracing /\ round.probe < Probes
    <2>1. NextRound = [round EXCEPT !.at = "send", !.probe = @ + 1] BY <1>2 DEF NextRound
    <2>2. NextRound = [at |-> "send", seq |-> round.seq, probe |-> round.probe + 1] BY <1>1, <2>1
    <2> QED BY <1>1, <2>2
<1>3. CASE ~(Tracing /\ round.probe < Probes)
    <2>1. NextRound = [at |-> "send", seq |-> round.seq + 1, probe |-> 1] BY <1>3 DEF NextRound
    <2> QED BY <1>1, <2>1
<1> QED BY <1>2, <1>3

\* What may come still may after a step that sends no less and leaves the
\* round or goes to a later one.
LEMMA StillAllCome ==
    ASSUME EchoType, EchoType', WhatComes,
           sent <= sent', prober'.tool = prober.tool, prober'.distance = prober.distance,
           round.seq <= round'.seq,
           NEW New \in SUBSET PacketType, \A m \in New : MayCome(m)',
           \A i \in DOMAIN inbox' : inbox'[i] \in New \/ (\E j \in DOMAIN inbox : inbox'[i] = inbox[j]),
           \A p \in air' : p[2] \in New \/ p \in air
    PROVE  WhatComes'
<1>1. \A m \in PacketType : MayCome(m) => MayCome(m)' BY StillComes
<1> DEFINE Come == {m \in PacketType : MayCome(m)'}
<1>2. \A i \in DOMAIN inbox : inbox[i] \in Come
    <2>1. \A i \in DOMAIN inbox : inbox[i] \in PacketType /\ MayCome(inbox[i]) BY DEF EchoType, WhatComes
    <2> QED BY <1>1, <2>1
<1>3. \A p \in air : p[2] \in Come
    <2>1. \A p \in air : p[2] \in PacketType /\ MayCome(p[2]) BY DEF EchoType, WhatComes
    <2> QED BY <1>1, <2>1
<1>4. New \subseteq Come OBVIOUS
<1>5. Come = {m \in PacketType : m.n <= sent' /\ (m.kind = "unreachable" => Tracing' /\ prober'.distance <= m.ttl /\ m.ttl <= round'.seq)}
    BY DEF MayCome
<1> HIDE DEF Come
<1>6. (\A i \in DOMAIN inbox' : inbox'[i] \in Come) /\ (\A p \in air' : p[2] \in Come) BY <1>2, <1>3, <1>4
<1> QED BY <1>5, <1>6 DEF WhatComes, MayCome

\* A step that puts nothing new on the way keeps what comes.
LEMMA StillSameCome ==
    ASSUME EchoType, EchoType', WhatComes,
           sent <= sent', prober'.tool = prober.tool, prober'.distance = prober.distance,
           round.seq <= round'.seq,
           \A i \in DOMAIN inbox' : \E j \in DOMAIN inbox : inbox'[i] = inbox[j],
           air' \subseteq air
    PROVE  WhatComes'
<1> DEFINE New == {m \in PacketType : FALSE}
<1>1. New \in SUBSET PacketType /\ \A m \in New : MayCome(m)' OBVIOUS
<1>2. /\ \A i \in DOMAIN inbox' : inbox'[i] \in New \/ (\E j \in DOMAIN inbox : inbox'[i] = inbox[j])
      /\ \A p \in air' : p[2] \in New \/ p \in air
    OBVIOUS
<1> HIDE DEF New
<1> QED BY <1>1, <1>2, StillAllCome DEF MayCome, Tracing

\* A packet more in the socket's queue, or one less at its head.
LEMMA InboxGrows ==
    ASSUME NEW m \in PacketType, inbox \in Seq(PacketType), inbox' = Append(inbox, m)
    PROVE  /\ inbox' \in Seq(PacketType)
           /\ \A i \in DOMAIN inbox' : inbox'[i] = m \/ (\E j \in DOMAIN inbox : inbox'[i] = inbox[j])
<1>1. /\ Append(inbox, m) \in Seq(PacketType) /\ Len(inbox) \in Nat
      /\ Append(inbox, m)[Len(inbox) + 1] = m
      /\ DOMAIN Append(inbox, m) = 1 .. (Len(inbox) + 1) /\ DOMAIN inbox = 1 .. Len(inbox)
      /\ \A i \in 1 .. Len(inbox) : Append(inbox, m)[i] = inbox[i]
    BY AppendIs
<1>2. ASSUME NEW i \in 1 .. (Len(inbox) + 1)
      PROVE  Append(inbox, m)[i] = m \/ (\E j \in DOMAIN inbox : Append(inbox, m)[i] = inbox[j])
    <2>1. i = Len(inbox) + 1 \/ i \in 1 .. Len(inbox) BY <1>1
    <2> QED BY <1>1, <2>1
<1> QED BY <1>1, <1>2
\* The packet taken from the socket may come, and so may the rest.
LEMMA InboxShrinks ==
    ASSUME inbox \in Seq(PacketType), inbox # <<>>, inbox' = Tail(inbox), WhatComes
    PROVE  /\ inbox' \in Seq(PacketType) /\ Head(inbox) \in PacketType /\ MayCome(Head(inbox))
           /\ \A i \in DOMAIN inbox' : \E j \in DOMAIN inbox : inbox'[i] = inbox[j]
<1>1. /\ Head(inbox) \in PacketType /\ Head(inbox) = inbox[1] /\ Tail(inbox) \in Seq(PacketType) /\ 1 \in DOMAIN inbox
      /\ \A i \in DOMAIN Tail(inbox) : i + 1 \in DOMAIN inbox /\ Tail(inbox)[i] = inbox[i + 1]
    BY TailIs
<1>2. MayCome(inbox[1]) BY <1>1 DEF WhatComes
<1> QED BY <1>1, <1>2

\* A packet more among the counted ones.
LEMMA CountedGrows ==
    ASSUME NEW m \in PacketType, counted \in Seq(PacketType), counted' = Append(counted, m)
    PROVE  /\ counted' \in Seq(PacketType) /\ Len(counted) \in Nat /\ Len(counted') = Len(counted) + 1
           /\ counted' # <<>> /\ counted'[Len(counted')] = m
           /\ \A i \in DOMAIN counted' : counted'[i] = m \/ (i \in DOMAIN counted /\ counted'[i] = counted[i])
<1>1. /\ Append(counted, m) \in Seq(PacketType) /\ Len(Append(counted, m)) = Len(counted) + 1 /\ Len(counted) \in Nat
      /\ Append(counted, m) # <<>> /\ Append(counted, m)[Len(counted) + 1] = m
      /\ DOMAIN Append(counted, m) = 1 .. (Len(counted) + 1) /\ DOMAIN counted = 1 .. Len(counted)
      /\ \A i \in 1 .. Len(counted) : Append(counted, m)[i] = counted[i]
    BY AppendIs
<1>2. ASSUME NEW i \in 1 .. (Len(counted) + 1)
      PROVE  Append(counted, m)[i] = m \/ (i \in DOMAIN counted /\ Append(counted, m)[i] = counted[i])
    <2>1. i = Len(counted) + 1 \/ i \in 1 .. Len(counted) BY <1>1
    <2> QED BY <1>1, <2>1
<1> QED BY <1>1, <1>2

\* A sent request: this machine's own queue gets it and its answer, or the
\* answer is on its way.
LEMMA SendKeeps == ASSUME EchoInv, Send PROVE EchoInv'
<1>0. /\ sent \in Nat /\ Len(counted) \in Nat /\ round.seq \in Nat
      /\ inbox \in Seq(PacketType) /\ counted \in Seq(PacketType) /\ air \subseteq Nat \X PacketType
      /\ EchoType
    BY DEF EchoInv, EchoType
<1>1. /\ round' = [round EXCEPT !.at = "receive"] /\ sent' = sent + 1
      /\ prober' = prober /\ counted' = counted /\ round.at = "send"
    BY DEF Send
<1>2. PICK m, q \in PacketType : m = Answer(sent + 1, round.seq) /\ q = Packet("request", sent + 1, round.seq)
    <2>1. sent + 1 \in Nat BY <1>0
    <2>2. \A kind \in PacketKinds : Packet(kind, sent + 1, round.seq) \in PacketType BY <1>0, <2>1 DEF Packet, PacketType
    <2>3. Answer(sent + 1, round.seq) \in PacketType
        BY <2>2 DEF Answer, PacketKinds
    <2> QED BY <2>2, <2>3 DEF PacketKinds
<1>3. round' \in [at : {"send", "receive", "report", "done"}, seq : Nat, probe : Int] /\ round'.seq = round.seq /\ round'.at = "receive"
    BY <1>1 DEF EchoInv, EchoType
<1>4. MayCome(q)'
    BY <1>0, <1>1, <1>2 DEF Packet, MayCome
<1>5. MayCome(m)'
    <2>1. m.n = sent + 1 /\ m.ttl = round.seq /\ (m.kind = "unreachable" => Tracing /\ ~(round.seq < prober.distance))
        BY <1>2 DEF Answer, Packet
    <2>2. prober.distance \in Nat BY <1>0 DEF EchoType
    <2>3. Tracing' = Tracing BY <1>1 DEF Tracing
    <2> QED BY <1>0, <1>1, <1>3, <2>1, <2>2, <2>3 DEF MayCome
<1>6. \/ inbox' = inbox \o <<q, m>> /\ air' = air
      \/ inbox' = inbox /\ \E copies \in SUBSET {1, 2} : air' = air \cup (copies \X {m})
    BY <1>2 DEF Send
<1>7. inbox' \in Seq(PacketType) /\ \A i \in DOMAIN inbox' : inbox'[i] \in {m, q} \/ (\E j \in DOMAIN inbox : inbox'[i] = inbox[j])
    <2>1. CASE inbox' = inbox BY <1>0, <2>1
    <2>2. CASE inbox' = inbox \o <<q, m>>
        <3> DEFINE t == <<q, m>>
        <3>1. t \in Seq(PacketType) /\ Len(t) = 2 /\ t[1] = q /\ t[2] = m BY <1>2
        <3>2. inbox' = inbox \o t BY <2>2
        <3> HIDE DEF t
        <3>0. inbox \in Seq(PacketType) /\ t \in Seq(PacketType) BY <1>0, <3>1
        <3>3. /\ inbox \o t \in Seq(PacketType) /\ Len(inbox \o t) = Len(inbox) + Len(t) /\ Len(inbox) \in Nat
              /\ \A i \in 1 .. Len(inbox) : (inbox \o t)[i] = inbox[i]
              /\ \A i \in 1 .. Len(t) : (inbox \o t)[Len(inbox) + i] = t[i]
            BY <3>0, ConcatIs
        <3>4. DOMAIN inbox' = 1 .. (Len(inbox) + 2) /\ DOMAIN inbox = 1 .. Len(inbox) BY <1>0, <3>1, <3>2, <3>3
        <3>5. ASSUME NEW i \in DOMAIN inbox' PROVE inbox'[i] \in {m, q} \/ (\E j \in DOMAIN inbox : inbox'[i] = inbox[j])
            <4>1. i \in 1 .. Len(inbox) \/ i = Len(inbox) + 1 \/ i = Len(inbox) + 2 BY <3>3, <3>4
            <4>2. CASE i \in 1 .. Len(inbox) BY <3>2, <3>3, <3>4, <4>2
            <4>3. CASE i = Len(inbox) + 1 BY <3>1, <3>2, <3>3, <4>3
            <4>4. CASE i = Len(inbox) + 2 BY <3>1, <3>2, <3>3, <4>4
            <4> QED BY <4>1, <4>2, <4>3, <4>4
        <3> QED BY <3>2, <3>3, <3>5
    <2> QED BY <1>6, <2>1, <2>2
<1>8. air' \subseteq Nat \X PacketType /\ \A p \in air' : p \in air \/ p[2] = m
    <2>1. CASE air' = air BY <1>0, <2>1
    <2>2. ASSUME NEW copies \in SUBSET {1, 2}, air' = air \cup (copies \X {m})
          PROVE  air' \subseteq Nat \X PacketType /\ \A p \in air' : p \in air \/ p[2] = m
        <3>1. ASSUME NEW p \in copies \X {m} PROVE p \in Nat \X PacketType /\ p[2] = m
            <4>1. \A x, y : \A r \in x \X y : r[1] \in x /\ r[2] \in y /\ r = <<r[1], r[2]>> OBVIOUS
            <4>2. p[1] \in copies /\ p[2] \in {m} /\ p = <<p[1], p[2]>> BY <4>1
            <4>3. \A x \in copies : x \in Nat OBVIOUS
            <4>4. \A x \in {m} : x = m OBVIOUS
            <4>5. p[1] \in Nat /\ p[2] = m BY ONLY <4>2, <4>3, <4>4
            <4> QED BY <4>2, <4>5
        <3> QED BY <1>0, <2>2, <3>1
    <2> QED BY <1>6, <2>1, <2>2
<1>9. EchoType' BY <1>0, <1>1, <1>3, <1>7, <1>8 DEF EchoType
<1>10. WhatComes'
    <2> DEFINE New == {m, q}
    <2>1. New \in SUBSET PacketType /\ \A p \in New : MayCome(p)' BY <1>2, <1>4, <1>5
    <2>2. /\ \A i \in DOMAIN inbox' : inbox'[i] \in New \/ (\E j \in DOMAIN inbox : inbox'[i] = inbox[j])
          /\ \A p \in air' : p[2] \in New \/ p \in air
        BY <1>7, <1>8
    <2> HIDE DEF New
    <2>3. WhatComes /\ sent <= sent' /\ round.seq <= round'.seq /\ prober' = prober BY <1>0, <1>1, <1>3 DEF EchoInv
    <2> QED BY <1>0, <1>9, <2>1, <2>2, <2>3, StillAllCome DEF MayCome, Tracing
<1>11. CountsAnswers' BY <1>0, <1>1, <1>3 DEF EchoInv, CountsAnswers
<1>12. CountsItsOwn' BY <1>0, <1>1 DEF EchoInv, CountsItsOwn
<1>13. TraceReaches' BY <1>3 DEF TraceReaches
<1> QED BY <1>9, <1>10, <1>11, <1>12, <1>13 DEF EchoInv

\* The round ends without an answer.
LEMMA RoundEnds ==
    ASSUME EchoInv, round.at \in {"send", "receive"}, round' = NextRound, UNCHANGED <<prober, sent, counted, inbox, air>>
    PROVE  EchoInv'
<1>0. EchoType /\ sent \in Nat /\ Len(counted) \in Nat BY DEF EchoInv, EchoType
<1>1. NextRound \in [at : {"send"}, seq : Nat, probe : Int] /\ round.seq <= NextRound.seq /\ NextRound.at = "send"
    BY <1>0, NextRoundIs
<1>2. EchoType' BY <1>0, <1>1 DEF EchoType
<1>3. WhatComes'
    <2>1. WhatComes /\ sent <= sent' BY <1>0 DEF EchoInv
    <2> QED BY <1>0, <1>1, <1>2, <2>1, StillSameCome
<1>4. CountsAnswers' BY <1>0, <1>1 DEF EchoInv, CountsAnswers
<1>5. CountsItsOwn' BY DEF EchoInv, CountsItsOwn
<1>6. TraceReaches' BY <1>1 DEF TraceReaches
<1> QED BY <1>2, <1>3, <1>4, <1>5, <1>6 DEF EchoInv

\* ping and the sweep count the answers of their own only, each for one
\* request.
LEMMA ReceiveEchoKeeps == ASSUME EchoInv, ReceiveEcho PROVE EchoInv'
<1>0. /\ EchoType /\ WhatComes /\ CountsAnswers /\ CountsItsOwn /\ sent \in Nat /\ Len(counted) \in Nat
      /\ inbox \in Seq(PacketType) /\ counted \in Seq(PacketType)
    BY DEF EchoInv, EchoType
<1>1. /\ ~Tracing /\ round.at = "receive" /\ inbox # <<>> /\ inbox' = Tail(inbox)
      /\ prober' = prober /\ sent' = sent /\ air' = air
    BY DEF ReceiveEcho
<1>2. /\ inbox' \in Seq(PacketType) /\ Head(inbox) \in PacketType /\ MayCome(Head(inbox))
      /\ \A i \in DOMAIN inbox' : \E j \in DOMAIN inbox : inbox'[i] = inbox[j]
    BY <1>0, <1>1, InboxShrinks
<1> DEFINE h == Head(inbox)
<1>3. \/ counted' = counted
      \/ counted' = Append(counted, h) /\ Accepted(h)
    BY DEF ReceiveEcho
<1>4. round' = NextRound \/ round' = [round EXCEPT !.at = "send"] BY DEF ReceiveEcho
<1> HIDE DEF h
<1>5. round'.at = "send" /\ round.seq <= round'.seq /\ round' \in [at : {"send", "receive", "report", "done"}, seq : Nat, probe : Int]
    <2>1. CASE round' = NextRound BY <1>0, <2>1, NextRoundIs
    <2>2. CASE round' = [round EXCEPT !.at = "send"] BY <1>0, <2>2 DEF EchoType
    <2> QED BY <1>4, <2>1, <2>2
<1>6. h \in PacketType /\ MayCome(h) BY <1>2 DEF h
<1>7. counted' = Append(counted, h) =>
          /\ counted' \in Seq(PacketType) /\ Len(counted') = Len(counted) + 1
          /\ \A i \in DOMAIN counted' : counted'[i] = h \/ (i \in DOMAIN counted /\ counted'[i] = counted[i])
    BY <1>0, <1>6, CountedGrows
<1>8. EchoType' BY <1>0, <1>1, <1>2, <1>3, <1>5, <1>7 DEF EchoType
<1>9. WhatComes' BY <1>0, <1>1, <1>2, <1>5, <1>8, StillSameCome
<1>10. CountsAnswers' BY <1>0, <1>1, <1>3, <1>5, <1>7 DEF CountsAnswers
<1>11. CountsItsOwn'
    <2> SUFFICES ASSUME prober.tool = "ping" PROVE \A i \in DOMAIN counted' : counted'[i].n \in 1 .. sent
        BY <1>1 DEF CountsItsOwn
    <2>1. CASE counted' = counted BY <1>0, <2>1 DEF CountsItsOwn
    <2>2. CASE counted' = Append(counted, h) /\ Accepted(h)
        <3>1. h.n \in 1 .. sent BY <1>0, <1>6, <2>2 DEF Accepted, MayCome, PacketType
        <3> QED BY <1>0, <1>7, <2>2, <3>1 DEF CountsItsOwn
    <2> QED BY <1>3, <2>1, <2>2
<1>12. TraceReaches' BY <1>5 DEF TraceReaches
<1> QED BY <1>8, <1>9, <1>10, <1>11, <1>12 DEF EchoInv

\* A trace ends at an answer of the target, at its distance.
LEMMA ReceiveHopKeeps == ASSUME EchoInv, ReceiveHop PROVE EchoInv'
<1>0. /\ EchoType /\ WhatComes /\ CountsAnswers /\ sent \in Nat /\ Len(counted) \in Nat
      /\ inbox \in Seq(PacketType) /\ counted \in Seq(PacketType) /\ round.seq \in Nat /\ prober.distance \in Nat
    BY DEF EchoInv, EchoType
<1>1. /\ Tracing /\ round.at = "receive" /\ inbox # <<>> /\ inbox' = Tail(inbox)
      /\ prober' = prober /\ sent' = sent /\ air' = air
    BY DEF ReceiveHop
<1>2. /\ inbox' \in Seq(PacketType) /\ Head(inbox) \in PacketType /\ MayCome(Head(inbox))
      /\ \A i \in DOMAIN inbox' : \E j \in DOMAIN inbox : inbox'[i] = inbox[j]
    BY <1>0, <1>1, InboxShrinks
<1> DEFINE c == Packet(Head(inbox).kind, sent, round.seq)
<1>3. c \in PacketType /\ c.ttl = round.seq BY <1>0, <1>2 DEF Packet, PacketType
<1>4. \/ counted' = counted /\ round' = NextRound
      \/ counted' = Append(counted, c) /\ round' = NextRound
      \/ counted' = Append(counted, c) /\ round' = [round EXCEPT !.at = "report"] /\ Head(inbox).kind = "unreachable"
    BY DEF ReceiveHop
<1> HIDE DEF c
<1>5. round'.at \in {"send", "report"} /\ round.seq <= round'.seq /\ round' \in [at : {"send", "receive", "report", "done"}, seq : Nat, probe : Int]
    <2>1. CASE round' = NextRound BY <1>0, <2>1, NextRoundIs
    <2>2. CASE round' = [round EXCEPT !.at = "report"] BY <1>0, <2>2 DEF EchoType
    <2> QED BY <1>4, <2>1, <2>2
<1>6. counted' = Append(counted, c) =>
          /\ counted' \in Seq(PacketType) /\ Len(counted') = Len(counted) + 1
          /\ counted' # <<>> /\ counted'[Len(counted')] = c
    BY <1>0, <1>3, CountedGrows
<1>7. EchoType' BY <1>0, <1>1, <1>2, <1>4, <1>5, <1>6 DEF EchoType
<1>8. WhatComes' BY <1>0, <1>1, <1>2, <1>5, <1>7, StillSameCome
<1>9. CountsAnswers' BY <1>0, <1>1, <1>4, <1>5, <1>6 DEF CountsAnswers
<1>10. CountsItsOwn' BY <1>1 DEF CountsItsOwn, Tracing
<1>11. TraceReaches'
    <2> SUFFICES ASSUME round'.at = "report" PROVE counted' # <<>> /\ counted'[Len(counted')].ttl >= prober.distance
        BY <1>1 DEF TraceReaches
    <2>1. NextRound.at = "send" BY <1>0, NextRoundIs
    <2>2. counted' = Append(counted, c) /\ Head(inbox).kind = "unreachable" BY <1>4, <2>1
    <2>3. prober.distance <= round.seq
        BY <1>0, <1>2, <2>2 DEF MayCome, PacketType
    <2> QED BY <1>0, <1>3, <1>6, <2>2, <2>3
<1> QED BY <1>7, <1>8, <1>9, <1>10, <1>11 DEF EchoInv

\* A packet reaches the socket: an answer, or another process's.
LEMMA ArrivesKeeps == ASSUME EchoInv, Arrives \/ OtherArrives PROVE EchoInv'
<1>0. /\ EchoType /\ WhatComes /\ sent \in Nat /\ inbox \in Seq(PacketType) /\ air \subseteq Nat \X PacketType /\ round.seq \in Nat
      /\ prober \in [tool : {"ping", "sweep", "trace"}, distance : Nat, running : BOOLEAN, noise : Int]
    BY DEF EchoInv, EchoType
<1>1. UNCHANGED <<round, sent, counted>> BY DEF Arrives, OtherArrives
<1>2. PICK m \in PacketType :
          /\ inbox' = Append(inbox, m) /\ air' \subseteq air /\ MayCome(m)
          /\ prober' = prober \/ prober' = [prober EXCEPT !.noise = @ - 1]
    <2>1. CASE Arrives
        <3>1. PICK p \in air : air' = air \ {p} /\ inbox' = Append(inbox, p[2]) /\ prober' = prober BY <2>1 DEF Arrives
        <3>2. p[2] \in PacketType /\ MayCome(p[2]) BY <1>0 DEF WhatComes
        <3> QED BY <3>1, <3>2
    <2>2. CASE OtherArrives
        <3>1. Foreign \in PacketType /\ MayCome(Foreign) BY <1>0 DEF Foreign, Packet, PacketType, MayCome, PacketKinds
        <3> QED BY <2>2, <3>1 DEF OtherArrives
    <2> QED BY <2>1, <2>2
<1>3. /\ prober' \in [tool : {"ping", "sweep", "trace"}, distance : Nat, running : BOOLEAN, noise : Int]
      /\ prober'.tool = prober.tool /\ prober'.distance = prober.distance
    BY <1>0, <1>2
<1>4. /\ inbox' \in Seq(PacketType)
      /\ \A i \in DOMAIN inbox' : inbox'[i] = m \/ (\E j \in DOMAIN inbox : inbox'[i] = inbox[j])
    BY <1>0, <1>2, InboxGrows
<1>5. EchoType' BY <1>0, <1>1, <1>2, <1>3, <1>4 DEF EchoType
<1>6. MayCome(m)' BY <1>0, <1>1, <1>2, <1>3, <1>5, StillComes
<1>7. WhatComes'
    <2> DEFINE New == {m}
    <2>1. New \in SUBSET PacketType /\ \A p \in New : MayCome(p)' BY <1>6
    <2>2. /\ \A i \in DOMAIN inbox' : inbox'[i] \in New \/ (\E j \in DOMAIN inbox : inbox'[i] = inbox[j])
          /\ \A p \in air' : p[2] \in New \/ p \in air
        BY <1>2, <1>4
    <2> HIDE DEF New
    <2>3. sent <= sent' /\ round.seq <= round'.seq BY <1>0, <1>1
    <2> QED BY <1>0, <1>3, <1>5, <2>1, <2>2, <2>3, StillAllCome DEF MayCome, Tracing
<1>8. CountsAnswers' /\ CountsItsOwn' /\ TraceReaches'
    BY <1>1, <1>3 DEF EchoInv, CountsAnswers, CountsItsOwn, TraceReaches, Tracing
<1> QED BY <1>5, <1>7, <1>8 DEF EchoInv

\* The signal, and the end.
LEMMA StopKeeps == ASSUME EchoInv, Interrupt \/ Report PROVE EchoInv'
<1>0. /\ EchoType /\ WhatComes /\ CountsAnswers /\ sent \in Nat /\ Len(counted) \in Nat /\ round.seq \in Nat
      /\ prober \in [tool : {"ping", "sweep", "trace"}, distance : Nat, running : BOOLEAN, noise : Int]
      /\ round \in [at : {"send", "receive", "report", "done"}, seq : Nat, probe : Int]
    BY DEF EchoInv, EchoType
<1>1. /\ UNCHANGED <<sent, counted, inbox, air>>
      /\ \/ round' = round /\ prober' = [prober EXCEPT !.running = FALSE]
         \/ prober' = prober /\ round' = [round EXCEPT !.at = "done"]
    BY DEF Interrupt, Report
<1>2. /\ prober' \in [tool : {"ping", "sweep", "trace"}, distance : Nat, running : BOOLEAN, noise : Int]
      /\ prober'.tool = prober.tool /\ prober'.distance = prober.distance
    BY <1>0, <1>1
<1>3. /\ round' \in [at : {"send", "receive", "report", "done"}, seq : Nat, probe : Int]
      /\ round'.seq = round.seq /\ round'.at \in {round.at, "done"}
    BY <1>0, <1>1
<1>4. EchoType' BY <1>0, <1>1, <1>2, <1>3 DEF EchoType
<1>5. WhatComes' BY <1>0, <1>1, <1>2, <1>3, <1>4, StillSameCome
<1>6. CountsAnswers' BY <1>0, <1>1, <1>3 DEF CountsAnswers
<1>7. CountsItsOwn' BY <1>1, <1>2 DEF EchoInv, CountsItsOwn
<1>8. TraceReaches' BY <1>1, <1>2, <1>3 DEF EchoInv, TraceReaches, Tracing
<1> QED BY <1>4, <1>5, <1>6, <1>7, <1>8 DEF EchoInv

\* Each step of a prober keeps the invariant.
LEMMA EchoKeeps == ASSUME EchoInv, EchoNext PROVE EchoInv'
<1>1. CASE SendFails BY <1>1, RoundEnds DEF SendFails
<1>2. CASE TimesOut BY <1>2, RoundEnds DEF TimesOut
<1> QED BY <1>1, <1>2, SendKeeps, ReceiveEchoKeeps, ReceiveHopKeeps, ArrivesKeeps, StopKeeps DEF EchoNext, EchoStep

\* It says nothing of the other tools.
LEMMA EchoStays == ASSUME EchoInv, UNCHANGED echoVars PROVE EchoInv'
BY DEF echoVars, EchoInv, EchoType, WhatComes, MayCome, CountsAnswers, CountsItsOwn, TraceReaches, Tracing

\* It implies what the probers promise.
LEMMA EchoHolds == ASSUME EchoInv PROVE EchoSound
<1>1. Len(counted) \in Nat /\ sent \in Nat BY DEF EchoInv, EchoType
<1>2. Len(counted) <= sent BY <1>1 DEF EchoInv, CountsAnswers
<1> QED BY <1>1, <1>2 DEF EchoInv, EchoSound, CountsItsOwn, TraceReaches
----------------------------------------------------------------------------
(* The scan by connects                                                    *)

ScanType ==
    /\ scan \in [at : {"fill", "done"}, next : 1 .. NTargets + 1, taken : Int]
    /\ batch \in Seq(Targets) /\ reported \in Seq(Targets)
\* No target is waited for or reported before it is tried, nor twice.
TriedOnce ==
    /\ \A i \in DOMAIN batch : batch[i] < scan.next
    /\ \A i \in DOMAIN reported : reported[i] < scan.next
    /\ \A i, j \in DOMAIN batch : batch[i] = batch[j] => i = j
    /\ \A i, j \in DOMAIN reported : reported[i] = reported[j] => i = j
    /\ \A i \in DOMAIN batch, j \in DOMAIN reported : batch[i] # reported[j]
ReportedAreOpen == scanner = "portscan" => \A i \in DOMAIN reported : target[reported[i]] \in {"opens", "opensNow"}
ScanInv == ScanType /\ TriedOnce /\ ReportedAreOpen

\* The look at the outcomes picks connects of the batch that it takes for
\* open, each of them once.
LEMMA OpenOfIs ==
    ASSUME batch \in Seq(Targets), \A i, j \in DOMAIN batch : batch[i] = batch[j] => i = j, NEW ready
    PROVE  /\ OpenOf(ready) \in Seq(Targets)
           /\ \A i \in DOMAIN OpenOf(ready) : \E j \in DOMAIN batch : OpenOf(ready)[i] = batch[j] /\ TakenForOpen(batch[j])
           /\ \A i, j \in DOMAIN OpenOf(ready) : OpenOf(ready)[i] = OpenOf(ready)[j] => i = j
<1> DEFINE n == Len(batch)
           Takes(k) == batch[k] \in ready /\ TakenForOpen(batch[k])
           G == [k \in Nat |-> [s \in Seq(Targets) |-> IF k \in 1 .. n /\ Takes(k) THEN Append(s, batch[k]) ELSE s]]
           Open(f) == f = [k \in 0 .. n |-> IF k = 0 THEN <<>> ELSE IF Takes(k) THEN Append(f[k - 1], batch[k]) ELSE f[k - 1]]
<1>0. n \in Nat /\ DOMAIN batch = 1 .. n /\ \A k \in 1 .. n : batch[k] \in Targets OBVIOUS
<1> HIDE DEF Takes
<1>1. G \in [Nat -> [Seq(Targets) -> Seq(Targets)]]
    <2>1. ASSUME NEW k \in Nat, NEW s \in Seq(Targets) PROVE (IF k \in 1 .. n /\ Takes(k) THEN Append(s, batch[k]) ELSE s) \in Seq(Targets)
        BY <1>0
    <2> QED BY <2>1
<1>2. \A k \in 1 .. n, s \in Seq(Targets) : G[k][s] = IF Takes(k) THEN Append(s, batch[k]) ELSE s BY <1>0
<1> HIDE DEF G, n
<1>3. PICK h \in [0 .. n -> Seq(Targets)] : FollowsTo(h, n, <<>>, G)
    <2>1. <<>> \in Seq(Targets) OBVIOUS
    <2> QED BY <1>0, <1>1, <2>1, RecursionUpTo
<1>4. Open(h)
    <2>1. ASSUME NEW k \in 0 .. n
          PROVE  h[k] = IF k = 0 THEN <<>> ELSE IF Takes(k) THEN Append(h[k - 1], batch[k]) ELSE h[k - 1]
        <3>1. h[k] = IF k = 0 THEN <<>> ELSE G[k][h[k - 1]] BY <1>3 DEF FollowsTo
        <3>2. CASE k = 0 BY <3>1, <3>2
        <3>3. CASE k # 0
            <4>1. k \in 1 .. n /\ k - 1 \in 0 .. n BY <1>0, <3>3
            <4>2. h[k - 1] \in Seq(Targets) BY <4>1
            <4> QED BY <1>2, <3>1, <3>3, <4>1, <4>2
        <3> QED BY <3>2, <3>3
    <2>2. h = [k \in 0 .. n |-> h[k]] OBVIOUS
    <2> QED BY <2>1, <2>2
<1> DEFINE open == CHOOSE f : Open(f)
<1>5. Open(open)
    <2> HIDE DEF Open
    <2> QED BY <1>4
<1>6. OpenOf(ready) = open[n] BY Zenon DEF OpenOf, n, Takes
<1> HIDE DEF open
<1>7. open[0] = <<>> /\ \A k \in 1 .. n : open[k] = IF Takes(k) THEN Append(open[k - 1], batch[k]) ELSE open[k - 1]
    <2>1. \A k \in 0 .. n : open[k] = IF k = 0 THEN <<>> ELSE IF Takes(k) THEN Append(open[k - 1], batch[k]) ELSE open[k - 1]
        BY <1>5
    <2>2. 0 \in 0 .. n /\ \A k \in 1 .. n : k \in 0 .. n /\ k # 0 BY <1>0
    <2> HIDE DEF Open
    <2> QED BY <2>1, <2>2
<1> DEFINE Good(k, s) ==
               /\ s \in Seq(Targets)
               /\ \A i \in 1 .. Len(s) : \E j \in 1 .. k : s[i] = batch[j] /\ TakenForOpen(batch[j])
               /\ \A i, j \in 1 .. Len(s) : s[i] = s[j] => i = j
           S == {k \in Nat : k <= n => Good(k, open[k])}
<1>8. 0 \in S
    <2>1. Good(0, <<>>) OBVIOUS
    <2> HIDE DEF Good
    <2> QED BY <1>7, <2>1
<1>9. ASSUME NEW k \in Nat, k \in S PROVE k + 1 \in S
    <2> SUFFICES ASSUME k + 1 <= n PROVE Good(k + 1, open[k + 1]) OBVIOUS
    <2> DEFINE s == open[k]
               t == open[k + 1]
    <2>0. k + 1 \in 1 .. n /\ k <= n /\ (k + 1) - 1 = k BY <1>0
    <2>1. Good(k, s) BY <1>9, <2>0
    <2>2. t = IF Takes(k + 1) THEN Append(s, batch[k + 1]) ELSE s BY <1>7, <2>0
    <2> HIDE DEF s, t
    <2>3. CASE ~Takes(k + 1)
        <3>1. \A j \in 1 .. k : j \in 1 .. k + 1 OBVIOUS
        <3>2. t = s BY <2>2, <2>3
        <3> QED BY <2>1, <3>1, <3>2 DEF t
    <2>4. CASE Takes(k + 1)
        <3> DEFINE b == batch[k + 1]
        <3>1. b \in Targets /\ TakenForOpen(b) BY <1>0, <2>0, <2>4 DEF Takes
        <3>2. t = Append(s, b) BY <2>2, <2>4
        <3>3. \A j \in 1 .. k : batch[j] # b
            <4>1. \A j \in 1 .. k : j \in 1 .. n /\ j # k + 1 BY <1>0, <2>0
            <4> QED BY <1>0, <2>0, <4>1
        <3> HIDE DEF b
        <3>4. /\ t \in Seq(Targets) /\ Len(t) = Len(s) + 1 /\ Len(s) \in Nat /\ t[Len(s) + 1] = b
              /\ \A i \in 1 .. Len(s) : t[i] = s[i]
            BY <2>1, <3>1, <3>2, AppendIs
        <3>5. ASSUME NEW i \in 1 .. Len(t) PROVE \E j \in 1 .. k + 1 : t[i] = batch[j] /\ TakenForOpen(batch[j])
            <4>1. CASE i = Len(s) + 1 BY <1>0, <2>0, <3>1, <3>4, <4>1 DEF b
            <4>2. CASE i # Len(s) + 1
                <5>1. i \in 1 .. Len(s) BY <3>4, <4>2
                <5>2. PICK j \in 1 .. k : s[i] = batch[j] /\ TakenForOpen(batch[j]) BY <2>1, <5>1
                <5>3. j \in 1 .. k + 1 OBVIOUS
                <5> QED BY <3>4, <5>1, <5>2, <5>3
            <4> QED BY <4>1, <4>2
        <3>6. \A i \in 1 .. Len(s) : t[i] # b
            <4>1. \A i \in 1 .. Len(s) : \E j \in 1 .. k : s[i] = batch[j] BY <2>1
            <4> QED BY <3>3, <3>4, <4>1
        <3>7. ASSUME NEW i \in 1 .. Len(t), NEW j \in 1 .. Len(t), t[i] = t[j] PROVE i = j
            <4>1. i \in 1 .. Len(s) \/ i = Len(s) + 1 BY <3>4
            <4>2. j \in 1 .. Len(s) \/ j = Len(s) + 1 BY <3>4
            <4>3. CASE i \in 1 .. Len(s) /\ j \in 1 .. Len(s) BY <2>1, <3>4, <3>7, <4>3
            <4> QED BY <3>4, <3>6, <3>7, <4>1, <4>2, <4>3
        <3>8. Good(k + 1, t) BY <3>4, <3>5, <3>7
        <3> QED BY <3>8 DEF t
    <2> QED BY <2>3, <2>4
<1>10. Good(n, open[n])
    <2>1. n \in S
        <3> HIDE DEF S
        <3> QED BY <1>0, <1>8, <1>9, NatInd
    <2> QED BY <1>0, <2>1
<1> DEFINE o == open[n]
<1>11. o \in Seq(Targets) /\ DOMAIN o = 1 .. Len(o) BY <1>10
<1> HIDE DEF o
<1>12. Good(n, o) BY <1>10 DEF o
<1>13. OpenOf(ready) = o BY <1>6 DEF o
<1> QED BY <1>0, <1>11, <1>12, <1>13

\* Nothing has been tried when a scan starts.
LEMMA ScanStarts == ASSUME NEW tool, NEW kinds, ScanStart(tool, kinds) PROVE ScanInv
<1>1. 1 \in 1 .. NTargets + 1 BY ScanAssumption
<1> QED BY <1>1 DEF ScanStart, ScanInv, ScanType, TriedOnce, ReportedAreOpen

\* A target goes into the batch or the results, or into neither.
LEMMA FillingKeeps == ASSUME ScanInv, Skip \/ ConnectNow \/ ConnectWaits PROVE ScanInv'
<1> DEFINE t == scan.next
<1>0. /\ ScanType /\ TriedOnce /\ scan.next \in 1 .. NTargets + 1 /\ batch \in Seq(Targets) /\ reported \in Seq(Targets)
      /\ scan \in [at : {"fill", "done"}, next : 1 .. NTargets + 1, taken : Int] /\ NTargets \in Nat
    BY ScanAssumption DEF ScanInv, ScanType
<1>1. /\ t \in Targets /\ UNCHANGED <<scanner, target>>
      /\ scan' = [scan EXCEPT !.next = @ + 1, !.taken = @ + 1]
    BY <1>0 DEF Skip, ConnectNow, ConnectWaits, Filling, Proceed, Targets
<1>2. /\ scan' \in [at : {"fill", "done"}, next : 1 .. NTargets + 1, taken : Int] /\ scan'.next = t + 1
    <2>1. t \in Int /\ t + 1 \in 1 .. NTargets + 1 BY <1>0, <1>1 DEF Targets
    <2>2. scan' = [at |-> scan.at, next |-> t + 1, taken |-> scan.taken + 1] BY <1>0, <1>1
    <2> QED BY <1>0, <2>1, <2>2
<1>3. \/ batch' = batch /\ reported' = reported
      \/ batch' = batch /\ reported' = Append(reported, t) /\ target[t] = "opensNow"
      \/ batch' = Append(batch, t) /\ reported' = reported
    BY DEF Skip, ConnectNow, ConnectWaits
<1> HIDE DEF t
<1>4. /\ \A i \in DOMAIN batch : batch[i] < t /\ batch[i] # t /\ batch[i] < t + 1
      /\ \A i \in DOMAIN reported : reported[i] < t /\ reported[i] # t /\ reported[i] < t + 1
    <2>1. \A x \in Targets : x < t => x # t /\ x < t + 1 BY <1>1 DEF Targets
    <2>2. /\ \A i \in DOMAIN batch : batch[i] < t /\ batch[i] \in Targets
          /\ \A i \in DOMAIN reported : reported[i] < t /\ reported[i] \in Targets
        BY <1>0 DEF TriedOnce, t
    <2> QED BY <2>1, <2>2
<1>5. t < t + 1 BY <1>1 DEF Targets
<1>6. CASE batch' = batch /\ reported' = reported
    BY <1>0, <1>1, <1>2, <1>4, <1>6 DEF ScanInv, ScanType, TriedOnce, ReportedAreOpen
<1>7. CASE batch' = batch /\ reported' = Append(reported, t) /\ target[t] = "opensNow"
    <2> DEFINE r == Append(reported, t)
    <2>1. /\ r \in Seq(Targets) /\ Len(reported) \in Nat /\ r[Len(reported) + 1] = t
          /\ DOMAIN r = 1 .. (Len(reported) + 1) /\ DOMAIN reported = 1 .. Len(reported)
          /\ \A i \in 1 .. Len(reported) : r[i] = reported[i]
        BY <1>0, <1>1, AppendIs
    <2> HIDE DEF r
    <2>2. \A i \in DOMAIN r : (i = Len(reported) + 1 /\ r[i] = t) \/ (i \in DOMAIN reported /\ r[i] = reported[i])
        BY <2>1
    <2>3. reported' = r BY <1>7 DEF r
    <2>4. ScanType' BY <1>0, <1>2, <1>7, <2>1, <2>3 DEF ScanType
    <2>5. TriedOnce' BY <1>0, <1>2, <1>4, <1>5, <1>7, <2>2, <2>3 DEF TriedOnce
    <2>6. ReportedAreOpen' BY <1>1, <1>7, <2>2, <2>3 DEF ScanInv, ReportedAreOpen
    <2> QED BY <2>4, <2>5, <2>6 DEF ScanInv
<1>8. CASE batch' = Append(batch, t) /\ reported' = reported
    <2> DEFINE r == Append(batch, t)
    <2>1. /\ r \in Seq(Targets) /\ Len(batch) \in Nat /\ r[Len(batch) + 1] = t
          /\ DOMAIN r = 1 .. (Len(batch) + 1) /\ DOMAIN batch = 1 .. Len(batch)
          /\ \A i \in 1 .. Len(batch) : r[i] = batch[i]
        BY <1>0, <1>1, AppendIs
    <2> HIDE DEF r
    <2>2. \A i \in DOMAIN r : (i = Len(batch) + 1 /\ r[i] = t) \/ (i \in DOMAIN batch /\ r[i] = batch[i])
        BY <2>1
    <2>3. batch' = r BY <1>8 DEF r
    <2>4. ScanType' BY <1>0, <1>2, <1>8, <2>1, <2>3 DEF ScanType
    <2>5. TriedOnce' BY <1>0, <1>2, <1>4, <1>5, <1>8, <2>2, <2>3 DEF TriedOnce
    <2>6. ReportedAreOpen' BY <1>1, <1>8 DEF ScanInv, ReportedAreOpen
    <2> QED BY <2>4, <2>5, <2>6 DEF ScanInv
<1> QED BY <1>3, <1>6, <1>7, <1>8

\* The outcomes of a batch go to the end of the results.
LEMMA PollBatchKeeps == ASSUME ScanInv, PollBatch PROVE ScanInv'
<1>0. /\ TriedOnce /\ batch \in Seq(Targets) /\ reported \in Seq(Targets)
      /\ scan \in [at : {"fill", "done"}, next : 1 .. NTargets + 1, taken : Int]
    BY DEF ScanInv, ScanType
<1>1. PICK ready : reported' = reported \o OpenOf(ready) BY DEF PollBatch
<1>2. UNCHANGED <<scanner, target>> /\ batch' = <<>> /\ scan' = [scan EXCEPT !.taken = 0] BY DEF PollBatch
<1>3. scan' \in [at : {"fill", "done"}, next : 1 .. NTargets + 1, taken : Int] /\ scan'.next = scan.next BY <1>0, <1>2
<1> DEFINE o == OpenOf(ready)
<1>4. /\ o \in Seq(Targets)
      /\ \A i \in DOMAIN o : \E j \in DOMAIN batch : o[i] = batch[j] /\ TakenForOpen(batch[j])
      /\ \A i, j \in DOMAIN o : o[i] = o[j] => i = j
    BY <1>0, OpenOfIs DEF TriedOnce
<1>5. reported' = reported \o o BY <1>1
<1> HIDE DEF o
<1> DEFINE r == reported \o o
<1>6. /\ r \in Seq(Targets) /\ Len(r) = Len(reported) + Len(o) /\ Len(reported) \in Nat /\ Len(o) \in Nat
      /\ \A i \in 1 .. Len(reported) : r[i] = reported[i]
      /\ \A i \in 1 .. Len(o) : r[Len(reported) + i] = o[i]
    BY <1>0, <1>4, ConcatIs
<1> HIDE DEF r
<1>7. DOMAIN r = 1 .. Len(r) /\ DOMAIN reported = 1 .. Len(reported) /\ DOMAIN o = 1 .. Len(o) BY <1>0, <1>4, <1>6
<1>8. ASSUME NEW i \in DOMAIN r
      PROVE  \/ i \in DOMAIN reported /\ r[i] = reported[i]
             \/ i - Len(reported) \in DOMAIN o /\ r[i] = o[i - Len(reported)]
    <2>1. CASE i \in 1 .. Len(reported) BY <1>6, <1>7, <2>1
    <2>2. CASE i \notin 1 .. Len(reported)
        <3>1. i - Len(reported) \in 1 .. Len(o) /\ Len(reported) + (i - Len(reported)) = i BY <1>6, <1>7, <2>2
        <3> QED BY <1>6, <1>7, <3>1
    <2> QED BY <2>1, <2>2
<1>9. \A i \in DOMAIN reported, j \in DOMAIN o : reported[i] # o[j] BY <1>0, <1>4 DEF TriedOnce
<1>10. ASSUME NEW i \in DOMAIN r, NEW j \in DOMAIN r, r[i] = r[j] PROVE i = j
    <2>1. CASE i \in DOMAIN reported /\ r[i] = reported[i] /\ j \in DOMAIN reported /\ r[j] = reported[j]
        BY <1>0, <1>10, <2>1 DEF TriedOnce
    <2>2. CASE i - Len(reported) \in DOMAIN o /\ r[i] = o[i - Len(reported)] /\ j - Len(reported) \in DOMAIN o /\ r[j] = o[j - Len(reported)]
        <3>1. i - Len(reported) = j - Len(reported) BY <1>4, <1>10, <2>2
        <3> QED BY <1>6, <1>7, <3>1
    <2> QED BY <1>8, <1>9, <1>10, <2>1, <2>2
<1>11. \A i \in DOMAIN r : r[i] < scan.next
    <2>1. \A i \in DOMAIN o : o[i] < scan.next BY <1>0, <1>4 DEF TriedOnce
    <2> QED BY <1>0, <1>8, <2>1 DEF TriedOnce
<1>12. scanner = "portscan" => \A i \in DOMAIN r : target[r[i]] \in {"opens", "opensNow"}
    <2> SUFFICES ASSUME scanner = "portscan" PROVE \A i \in DOMAIN r : target[r[i]] \in {"opens", "opensNow"} OBVIOUS
    <2>1. \A i \in DOMAIN o : target[o[i]] = "opens" BY <1>4 DEF TakenForOpen
    <2> QED BY <1>8, <2>1 DEF ScanInv, ReportedAreOpen
<1>13. reported' = r BY <1>5 DEF r
<1>14. ScanType' BY <1>2, <1>3, <1>6, <1>13 DEF ScanType
<1>15. TriedOnce' BY <1>2, <1>3, <1>10, <1>11, <1>13 DEF TriedOnce
<1>16. ReportedAreOpen' BY <1>2, <1>12, <1>13 DEF ReportedAreOpen
<1> QED BY <1>14, <1>15, <1>16 DEF ScanInv

\* Each step of a scan keeps the invariant.
LEMMA ScanKeeps == ASSUME ScanInv, ScanNext PROVE ScanInv'
<1>1. CASE ScanEnd
    <2>1. scan' = [scan EXCEPT !.at = "done"] /\ UNCHANGED <<scanner, target, batch, reported>> BY <1>1 DEF ScanEnd
    <2>2. scan' \in [at : {"fill", "done"}, next : 1 .. NTargets + 1, taken : Int] /\ scan'.next = scan.next
        BY <2>1 DEF ScanInv, ScanType
    <2> QED BY <2>1, <2>2 DEF ScanInv, ScanType, TriedOnce, ReportedAreOpen
<1> QED BY <1>1, FillingKeeps, PollBatchKeeps DEF ScanNext

\* It says nothing of the other tools.
LEMMA ScanStays == ASSUME ScanInv, UNCHANGED scanVars PROVE ScanInv'
BY DEF scanVars, ScanInv, ScanType, TriedOnce, ReportedAreOpen

\* It implies what the scan promises.
LEMMA ScanHolds == ASSUME ScanInv PROVE ScanSound
BY DEF ScanInv, ScanSound, TriedOnce, ReportedAreOpen, IsInjective, ToSet
----------------------------------------------------------------------------
(* ndiscover                                                               *)

\* What the steps need of the network, and of an entry of results[].
NetIsLegal ==
    /\ DOMAIN net = {"self", "size", "gateway", "noise", "hosts"}
    /\ net.self \in Addrs /\ net.size \in Nat \ {0} /\ AddrSpace % net.size = 0
    /\ DOMAIN net.hosts \subseteq Addrs \ {net.self}
HostFields == {"ip", "self", "ttl", "open", "class", "os"}
HostIsTrue(h) ==
    /\ DOMAIN h = HostFields /\ h.self \in BOOLEAN
    /\ h.self <=> h.ip = net.self
    /\ ~h.self => h.ip \in DOMAIN net.hosts /\ h.ttl \in {0, net.hosts[h.ip].ttl}

DiscoverType ==
    /\ NetIsLegal
    /\ discover \in [at : {"arp", "listen", "ttl", "classify", "done"}, quota : Int]
    /\ found \in Seq(ToSet(found)) /\ Len(found) < MaxResults
    /\ discover.at = "listen" => DOMAIN coming \subseteq DOMAIN net.hosts
EachHostOnce == \A i, j \in DOMAIN found : found[i].ip = found[j].ip => i = j
InOrder == At_D("done") => \A i \in 1 .. Len(found) - 1 : found[i].ip < found[i + 1].ip
HostsAreTrue == \A i \in DOMAIN found : HostIsTrue(found[i])
DiscoverInv == DiscoverType /\ HostsAreTrue /\ EachHostOnce /\ InOrder /\ AsksTheNetwork

\* A sequence is one over any set that has its members.
LEMMA SeqOver ==
    ASSUME NEW U, NEW s \in Seq(U), NEW W, \A i \in DOMAIN s : s[i] \in W
    PROVE  s \in Seq(W)
OBVIOUS
\* A sequence is one over the set of its elements.
LEMMA SeqOverItself ==
    ASSUME NEW U, NEW s \in Seq(U)
    PROVE  s \in Seq(ToSet(s))
<1>1. \A i \in DOMAIN s : s[i] \in ToSet(s) BY DEF ToSet
<1> QED BY <1>1, SeqOver

\* Inserting into a sorted list keeps it sorted.
Sorted(s) == \A i, j \in 1 .. Len(s) : i < j => s[i].ip < s[j].ip
\* Insertion into a sorted list of hosts gives a sorted one, of the same hosts
\* and the new one.
LEMMA InsertHostIs ==
    ASSUME NEW U, \A x \in U : x.ip \in Int, NEW s \in Seq(U), Sorted(s),
           NEW h \in U, \A i \in 1 .. Len(s) : s[i].ip # h.ip
    PROVE  /\ InsertHost(s, h) \in Seq(U) /\ Len(InsertHost(s, h)) = Len(s) + 1
           /\ Sorted(InsertHost(s, h))
           /\ \A i \in 1 .. Len(InsertHost(s, h)) : InsertHost(s, h)[i] = h \/ \E j \in 1 .. Len(s) : InsertHost(s, h)[i] = s[j]
<1> DEFINE T == {0} \cup {i \in DOMAIN s : s[i].ip <= h.ip}
           k == Max(T)
<1>0. Len(s) \in Nat /\ DOMAIN s = 1 .. Len(s) /\ h.ip \in Int /\ \A i \in 1 .. Len(s) : s[i] \in U /\ s[i].ip \in Int
    OBVIOUS
<1>1. k \in T /\ \A y \in T : y <= k
    <2>1. T \subseteq 0 .. Len(s) /\ T # {} BY <1>0
    <2> HIDE DEF T
    <2> QED BY <1>0, <2>1, MaxIn
<1>2. k \in 0 .. Len(s) BY <1>0, <1>1
<1>3. \A i \in 1 .. Len(s) : i <= k => s[i].ip < h.ip
    <2> SUFFICES ASSUME NEW i \in 1 .. Len(s), i <= k PROVE s[i].ip < h.ip OBVIOUS
    <2>1. k \in 1 .. Len(s) BY <1>2
    <2>2. s[k].ip <= h.ip BY <1>1, <2>1
    <2>3. s[i].ip <= s[k].ip
        <3>1. CASE i = k BY <1>0, <2>1, <3>1
        <3>2. CASE i < k BY <1>0, <2>1, <3>2 DEF Sorted
        <3> QED BY <1>2, <3>1, <3>2
    <2> QED BY <1>0, <2>1, <2>2, <2>3
<1>4. \A i \in 1 .. Len(s) : k < i => h.ip < s[i].ip
    <2> SUFFICES ASSUME NEW i \in 1 .. Len(s), k < i PROVE h.ip < s[i].ip OBVIOUS
    <2>1. ~(s[i].ip <= h.ip) BY <1>0, <1>1, <1>2
    <2> QED BY <1>0, <2>1
<1> HIDE DEF T
<1> DEFINE a == SubSeq(s, 1, k)
           b == <<h>>
           c == SubSeq(s, k + 1, Len(s))
<1>5. a \in Seq(U) /\ Len(a) = k /\ \A i \in 1 .. k : a[i] = s[i] BY <1>0, <1>2
<1>6. b \in Seq(U) /\ Len(b) = 1 /\ b[1] = h OBVIOUS
<1>7. c \in Seq(U) /\ Len(c) = Len(s) - k /\ \A i \in 1 .. Len(s) - k : c[i] = s[k + i] BY <1>0, <1>2
<1>8. InsertHost(s, h) = a \o b \o c
    <2> DEFINE Extend(x) ==
                   LET m == Max({0} \cup {i \in DOMAIN x : x[i].ip <= h.ip})
                   IN  SubSeq(x, 1, m) \o <<h>> \o SubSeq(x, m + 1, Len(x))
               longest == CHOOSE x \in {Extend(y) : y \in {s}} : TRUE
    <2>1. Extend(s) = a \o b \o c BY DEF T
    <2> HIDE DEF Extend
    <2>2. longest = Extend(s) OBVIOUS
    <2>3. InsertHost(s, h) = longest BY Zenon DEF InsertHost, Extend
    <2> HIDE DEF longest
    <2> QED BY <2>1, <2>2, <2>3
<1> HIDE DEF a, b, c, k
<1> DEFINE d == a \o b
           t == d \o c
<1>9. d \in Seq(U) /\ Len(d) = k + 1 /\ (\A i \in 1 .. k : d[i] = s[i]) /\ d[k + 1] = h
    <2>1. /\ d \in Seq(U) /\ Len(d) = Len(a) + Len(b)
          /\ \A i \in 1 .. Len(a) : d[i] = a[i]
          /\ \A i \in 1 .. Len(b) : d[Len(a) + i] = b[i]
        <3>1. a \in Seq(U) /\ b \in Seq(U) BY <1>5, <1>6
        <3> QED BY <3>1, ConcatIs
    <2> HIDE DEF d
    <2>2. Len(a) = k /\ Len(b) = 1 /\ 1 \in 1 .. 1 BY <1>5, <1>6
    <2>3. d[k + 1] = h BY <1>6, <2>1, <2>2
    <2>4. \A i \in 1 .. k : d[i] = s[i] BY <1>5, <2>1, <2>2
    <2> QED BY <2>1, <2>2, <2>3, <2>4
<1> HIDE DEF d
<1>10. /\ t \in Seq(U) /\ Len(t) = Len(d) + Len(c)
       /\ \A i \in 1 .. Len(d) : t[i] = d[i]
       /\ \A i \in 1 .. Len(c) : t[Len(d) + i] = c[i]
    BY <1>7, <1>9, ConcatIs
<1> HIDE DEF t
<1>11. Len(t) = Len(s) + 1 BY <1>0, <1>2, <1>7, <1>9, <1>10
<1>12. ASSUME NEW i \in 1 .. Len(t)
       PROVE  \/ i <= k /\ i \in 1 .. Len(s) /\ t[i] = s[i]
              \/ i = k + 1 /\ t[i] = h
              \/ k + 1 < i /\ i - 1 \in 1 .. Len(s) /\ t[i] = s[i - 1]
    <2>1. CASE i <= k
        <3>1. i \in 1 .. k /\ i \in 1 .. Len(d) /\ i \in 1 .. Len(s) BY <1>0, <1>2, <1>9, <2>1
        <3> QED BY <1>9, <1>10, <2>1, <3>1
    <2>2. CASE i = k + 1
        <3>1. i \in 1 .. Len(d) BY <1>2, <1>9, <2>2
        <3> QED BY <1>9, <1>10, <2>2, <3>1
    <2>3. CASE k + 1 < i
        <3>1. i - (k + 1) \in 1 .. Len(c) /\ Len(d) + (i - (k + 1)) = i /\ i - 1 \in 1 .. Len(s) /\ k + (i - (k + 1)) = i - 1
            BY <1>0, <1>2, <1>7, <1>9, <1>11, <2>3
        <3>2. t[i] = c[i - (k + 1)] BY <1>10, <3>1
        <3>3. c[i - (k + 1)] = s[i - 1] BY <1>7, <3>1
        <3> QED BY <2>3, <3>1, <3>2, <3>3
    <2> QED BY <1>0, <1>2, <1>11, <2>1, <2>2, <2>3
<1>13. Sorted(t)
    <2> SUFFICES ASSUME NEW i \in 1 .. Len(t), NEW j \in 1 .. Len(t), i < j PROVE t[i].ip < t[j].ip BY DEF Sorted
    <2>0. \A m, n \in 1 .. Len(s) : m < n => s[m].ip < s[n].ip BY DEF Sorted
    <2>1. CASE i <= k /\ j <= k BY <1>0, <1>2, <1>12, <2>0, <2>1
    <2>2. CASE i <= k /\ j = k + 1 BY <1>0, <1>2, <1>3, <1>12, <2>2
    <2>3. CASE i <= k /\ k + 1 < j
        <3>1. i < j - 1 BY <1>2, <2>3
        <3> QED BY <1>0, <1>2, <1>12, <2>0, <2>3, <3>1
    <2>4. CASE i = k + 1 /\ k + 1 < j
        <3>1. k < j - 1 BY <1>2, <2>4
        <3>2. t[i] = h BY <1>2, <1>12, <2>4
        <3>3. j - 1 \in 1 .. Len(s) /\ t[j] = s[j - 1] BY <1>2, <1>12, <2>4
        <3> QED BY <1>4, <3>1, <3>2, <3>3
    <2>5. CASE k + 1 < i /\ k + 1 < j
        <3>1. i - 1 < j - 1 BY <1>2, <2>5
        <3> QED BY <1>0, <1>2, <1>12, <2>0, <2>5, <3>1
    <2> QED BY <1>2, <2>1, <2>2, <2>3, <2>4, <2>5
<1>14. InsertHost(s, h) = t BY <1>8 DEF t, d
<1>15. \A i \in 1 .. Len(t) : t[i] = h \/ \E j \in 1 .. Len(s) : t[i] = s[j] BY <1>12
<1> QED BY <1>10, <1>11, <1>13, <1>14, <1>15

\* sort_hosts sorts: the same entries, by address.
LEMMA SortHostsIs ==
    ASSUME NEW U, \A x \in U : x.ip \in Int, NEW hosts \in Seq(U),
           \A i, j \in 1 .. Len(hosts) : hosts[i].ip = hosts[j].ip => i = j
    PROVE  /\ SortHosts(hosts) \in Seq(U) /\ Len(SortHosts(hosts)) = Len(hosts)
           /\ Sorted(SortHosts(hosts))
           /\ \A i \in 1 .. Len(hosts) : \E j \in 1 .. Len(hosts) : SortHosts(hosts)[i] = hosts[j]
<1> DEFINE n == Len(hosts)
           Fresh(s, h) == \A i \in 1 .. Len(s) : s[i].ip # h.ip
           W == {s \in Seq(U) : Sorted(s)}
           G == [k \in Nat |-> [s \in W |-> IF k \in 1 .. n /\ Fresh(s, hosts[k]) THEN InsertHost(s, hosts[k]) ELSE s]]
<1>0. n \in Nat /\ DOMAIN hosts = 1 .. n /\ \A k \in 1 .. n : hosts[k] \in U OBVIOUS
<1> HIDE DEF n
<1>1. G \in [Nat -> [W -> W]]
    <2>1. ASSUME NEW k \in Nat, NEW s \in W PROVE (IF k \in 1 .. n /\ Fresh(s, hosts[k]) THEN InsertHost(s, hosts[k]) ELSE s) \in W
        <3>1. CASE k \in 1 .. n /\ Fresh(s, hosts[k])
            <4>1. InsertHost(s, hosts[k]) \in Seq(U) /\ Sorted(InsertHost(s, hosts[k])) BY <1>0, <3>1, InsertHostIs
            <4> QED BY <3>1, <4>1
        <3> QED BY <3>1
    <2> HIDE DEF W, Fresh
    <2> QED BY <2>1
<1>2. \A k \in 1 .. n, s \in W : Fresh(s, hosts[k]) => G[k][s] = InsertHost(s, hosts[k])
    <2> HIDE DEF W, Fresh
    <2> QED BY <1>0
<1> HIDE DEF G
<1> DEFINE Sort(f) == f = [k \in 0 .. n |-> IF k = 0 THEN <<>> ELSE InsertHost(f[k - 1], hosts[k])]
           Good(k, s) ==
               /\ s \in Seq(U) /\ Len(s) = k /\ Sorted(s)
               /\ \A i \in 1 .. k : \E j \in 1 .. k : s[i] = hosts[j]
<1>3. PICK f \in [0 .. n -> W] : FollowsTo(f, n, <<>>, G)
    <2>1. <<>> \in W BY DEF Sorted
    <2> HIDE DEF W
    <2> QED BY <1>0, <1>1, <2>1, RecursionUpTo
<1> HIDE DEF W
<1>4. f[0] = <<>> /\ \A k \in 1 .. n : f[k] = G[k][f[k - 1]]
    <2>1. \A k \in 0 .. n : f[k] = IF k = 0 THEN <<>> ELSE G[k][f[k - 1]] BY <1>3 DEF FollowsTo
    <2>2. 0 \in 0 .. n /\ \A k \in 1 .. n : k \in 0 .. n /\ k # 0 BY <1>0
    <2> QED BY <2>1, <2>2
\* An entry is not among those before it, so that it can be inserted.
<1>5. ASSUME NEW k \in Nat, k + 1 <= n, Good(k, f[k])
      PROVE  f[k + 1] = InsertHost(f[k], hosts[k + 1]) /\ Good(k + 1, f[k + 1])
    <2>0. k + 1 \in 1 .. n /\ (k + 1) - 1 = k /\ k \in 0 .. n BY <1>0, <1>5
    <2>1. Fresh(f[k], hosts[k + 1])
        <3> SUFFICES ASSUME NEW i \in 1 .. k PROVE f[k][i].ip # hosts[k + 1].ip BY <1>5
        <3>1. PICK j \in 1 .. k : f[k][i] = hosts[j] BY <1>5
        <3>2. j \in 1 .. n /\ j # k + 1 BY <1>0, <1>5
        <3> QED BY <1>0, <2>0, <3>1, <3>2 DEF n
    <2>2. f[k + 1] = InsertHost(f[k], hosts[k + 1])
        <3>1. f[k] \in W BY <2>0
        <3> HIDE DEF Fresh
        <3> QED BY <1>2, <1>4, <2>0, <2>1, <3>1
    <2> DEFINE s == f[k]
               t == f[k + 1]
               h == hosts[k + 1]
    <2>3. /\ t \in Seq(U) /\ Len(t) = k + 1 /\ Sorted(t)
          /\ \A i \in 1 .. Len(t) : t[i] = h \/ \E j \in 1 .. Len(s) : t[i] = s[j]
        <3>1. /\ s \in Seq(U) /\ Sorted(s) /\ h \in U /\ Len(s) = k /\ t = InsertHost(s, h)
              /\ \A i \in 1 .. Len(s) : s[i].ip # h.ip
            BY <1>0, <1>5, <2>0, <2>1, <2>2
        <3> HIDE DEF s, t, h
        <3> QED BY <3>1, InsertHostIs
    <2>4. \A i \in 1 .. k + 1 : \E j \in 1 .. k + 1 : t[i] = hosts[j]
        <3> SUFFICES ASSUME NEW i \in 1 .. k + 1 PROVE \E j \in 1 .. k + 1 : t[i] = hosts[j] OBVIOUS
        <3>1. CASE t[i] = h
            <4>1. k + 1 \in 1 .. k + 1 OBVIOUS
            <4> HIDE DEF t
            <4> QED BY <3>1, <4>1
        <3>2. CASE \E j \in 1 .. Len(s) : t[i] = s[j]
            <4>1. PICK j \in 1 .. k : t[i] = s[j] BY <1>5, <3>2
            <4>2. PICK m \in 1 .. k : s[j] = hosts[m] BY <1>5
            <4>3. m \in 1 .. k + 1 OBVIOUS
            <4> HIDE DEF s, t
            <4> QED BY <4>1, <4>2, <4>3
        <3> QED BY <2>3, <3>1, <3>2
    <2> QED BY <2>2, <2>3, <2>4
<1>6. \A k \in Nat : k <= n => Good(k, f[k])
    <2> DEFINE S == {k \in Nat : k <= n => Good(k, f[k])}
    <2>1. 0 \in S
        <3>1. Good(0, <<>>) BY DEF Sorted
        <3> HIDE DEF Good
        <3> QED BY <1>4, <3>1
    <2>2. \A k \in Nat : k \in S => k + 1 \in S
        <3> HIDE DEF Good
        <3> SUFFICES ASSUME NEW k \in Nat, k \in S, k + 1 <= n PROVE Good(k + 1, f[k + 1]) OBVIOUS
        <3>1. k <= n BY <1>0
        <3> QED BY <1>5, <3>1
    <2> HIDE DEF S
    <2>3. Nat \subseteq S BY <2>1, <2>2, NatInd
    <2> QED BY <2>3 DEF S
<1>7. Sort(f)
    <2>1. ASSUME NEW k \in 0 .. n PROVE f[k] = IF k = 0 THEN <<>> ELSE InsertHost(f[k - 1], hosts[k])
        <3>1. CASE k = 0 BY <1>4, <3>1
        <3>2. CASE k # 0
            <4>1. k - 1 \in Nat /\ (k - 1) + 1 = k /\ (k - 1) + 1 <= n /\ k - 1 <= n BY <1>0, <3>2
            <4>2. Good(k - 1, f[k - 1]) BY <1>6, <4>1
            <4> HIDE DEF Good
            <4>3. f[(k - 1) + 1] = InsertHost(f[k - 1], hosts[(k - 1) + 1]) BY <1>5, <4>1, <4>2
            <4> QED BY <3>2, <4>1, <4>3
        <3> QED BY <3>1, <3>2
    <2>2. f = [k \in 0 .. n |-> f[k]] OBVIOUS
    <2> QED BY <2>1, <2>2
<1> DEFINE sorted == CHOOSE g : Sort(g)
<1>8. Sort(sorted)
    <2> HIDE DEF Sort
    <2> QED BY <1>7
<1>9. SortHosts(hosts) = sorted[n] BY Zenon DEF SortHosts, n
\* There is one such function, so that sorted is it.
<1>10. \A k \in Nat : k <= n => sorted[k] = f[k]
    <2> DEFINE S == {k \in Nat : k <= n => sorted[k] = f[k]}
    <2>0. sorted[0] = <<>> /\ \A k \in 1 .. n : sorted[k] = InsertHost(sorted[k - 1], hosts[k])
        <3>1. \A k \in 0 .. n : sorted[k] = IF k = 0 THEN <<>> ELSE InsertHost(sorted[k - 1], hosts[k]) BY <1>8
        <3>2. 0 \in 0 .. n /\ \A k \in 1 .. n : k \in 0 .. n /\ k # 0 BY <1>0
        <3> HIDE DEF Sort, sorted
        <3> QED BY <3>1, <3>2
    <2> HIDE DEF sorted
    <2>1. 0 \in S BY <1>4, <2>0
    <2>2. ASSUME NEW k \in Nat, k \in S PROVE k + 1 \in S
        <3> SUFFICES ASSUME k + 1 <= n PROVE sorted[k + 1] = f[k + 1] OBVIOUS
        <3>1. k + 1 \in 1 .. n /\ (k + 1) - 1 = k /\ k <= n BY <1>0
        <3>2. f[k + 1] = InsertHost(f[k], hosts[k + 1])
            <4> HIDE DEF Good
            <4> QED BY <1>5, <1>6, <3>1
        <3>3. sorted[k] = f[k] BY <2>2, <3>1
        <3>4. sorted[k + 1] = InsertHost(sorted[k], hosts[k + 1]) BY <2>0, <3>1
        <3> QED BY <3>2, <3>3, <3>4
    <2> HIDE DEF S
    <2>3. Nat \subseteq S BY <2>1, <2>2, NatInd
    <2> QED BY <2>3 DEF S
<1>11. SortHosts(hosts) = f[n] /\ Good(n, f[n])
    <2> HIDE DEF sorted, Good
    <2>1. n <= n BY <1>0
    <2> QED BY <1>0, <1>6, <1>9, <1>10, <2>1
<1> QED BY <1>11 DEF n

\* ndiscover starts with no host found.
LEMMA DiscoverStarts == ASSUME NEW s, LegalSetting(s), DiscoverStart(s) PROVE DiscoverInv
<1>1. net = s /\ discover = [at |-> "arp", quota |-> 0] /\ coming = <<>> /\ found = <<>> BY DEF DiscoverStart
<1>2. NetIsLegal BY <1>1 DEF LegalSetting, NetIsLegal
<1>3. found \in Seq(ToSet(found)) /\ Len(found) < MaxResults BY <1>1, DiscoverAssumption
<1>4. DiscoverType BY <1>1, <1>2, <1>3 DEF DiscoverType
<1> QED BY <1>1, <1>4 DEF DiscoverInv, HostsAreTrue, EachHostOnce, InOrder, AsksTheNetwork, At_D

\* Blocks of addresses: where the address a lies.
LEMMA BlockIs ==
    ASSUME NEW d \in Nat \ {0}, NEW a \in Nat
    PROVE  /\ a \div d \in Nat /\ a % d \in 0 .. d - 1 /\ a = d * (a \div d) + (a % d)
           /\ a - (a % d) = d * (a \div d) /\ d * (a \div d) \in Nat
<1>1. a \div d \in Nat /\ a % d \in 0 .. d - 1 /\ a = d * (a \div d) + (a % d) OBVIOUS
<1>2. d * (a \div d) \in Nat BY <1>1
<1> QED BY <1>1, <1>2
\* The block that an address lies in.
LEMMA BlockOf ==
    ASSUME NEW d \in Nat \ {0}, NEW a \in Nat, NEW q \in Nat, d * q <= a, a < d * q + d
    PROVE  a \div d = q
<1> DEFINE p == a \div d
<1>1. p \in Nat /\ d * p <= a /\ a < d * p + d
    <2>1. p \in Nat /\ a % d \in 0 .. d - 1 /\ a = d * p + (a % d) /\ d * p \in Nat BY BlockIs
    <2> HIDE DEF p
    <2> QED BY <2>1
<1> HIDE DEF p
<1>2. ASSUME NEW x \in Nat, NEW y \in Nat, x < y PROVE d * x + d <= d * y
    <2>1. PICK z \in Nat : y = x + 1 + z
        <3>1. y - x - 1 \in Nat /\ y = x + 1 + (y - x - 1) BY <1>2
        <3> QED BY <3>1
    <2>2. d * y = d * x + d + d * z BY <2>1
    <2>3. d * z >= 0 /\ d * x \in Nat /\ d * z \in Nat OBVIOUS
    <2> QED BY <2>2, <2>3
<1>3. d * p \in Nat /\ d * q \in Nat BY <1>1
<1>4. ~(p < q) BY <1>1, <1>2, <1>3
<1>5. ~(q < p) BY <1>1, <1>2, <1>3
<1> QED BY <1>1, <1>4, <1>5 DEF p

\* A network lies within the address space.
LEMMA NetworkIs ==
    ASSUME NetIsLegal
    PROVE  /\ NetAddr \in Nat /\ NetAddr + net.size <= AddrSpace /\ net.size \in Nat \ {0}
           /\ {a \in Addrs : a \div net.size = net.self \div net.size} = NetAddr .. NetAddr + net.size - 1
<1> DEFINE d == net.size
           q == net.self \div d
           S == AddrSpace \div d
<1>1. AddrSpace \in Nat \ {0} /\ d \in Nat \ {0} /\ net.self \in 0 .. AddrSpace - 1 /\ AddrSpace % d = 0
    BY DiscoverAssumption DEF NetIsLegal, Addrs
<1>2. /\ q \in Nat /\ NetAddr = d * q /\ d * q \in Nat /\ d * q <= net.self /\ net.self < d * q + d
    <2>1. /\ q \in Nat /\ net.self % d \in 0 .. d - 1 /\ net.self = d * q + (net.self % d)
          /\ net.self - (net.self % d) = d * q /\ d * q \in Nat
        <3>1. net.self \in Nat BY <1>1
        <3> HIDE DEF d
        <3> QED BY <1>1, <3>1, BlockIs
    <2>2. NetAddr = net.self - (net.self % d) BY DEF NetAddr
    <2>3. net.self \in Nat BY <1>1
    <2> DEFINE m == net.self % d
    <2> HIDE DEF q, d, m
    <2>4. m \in 0 .. d - 1 /\ net.self = d * q + m BY <2>1 DEF m
    <2>5. d * q <= net.self /\ net.self < d * q + d BY <1>1, <2>1, <2>3, <2>4
    <2>6. NetAddr = d * q BY <2>1, <2>2
    <2> QED BY <2>1, <2>5, <2>6
<1>3. S \in Nat /\ AddrSpace = d * S
    <2>1. S \in Nat /\ AddrSpace = d * S + (AddrSpace % d) /\ d * S \in Nat BY <1>1, BlockIs
    <2> HIDE DEF S, d
    <2> QED BY <1>1, <2>1
<1> HIDE DEF d, q, S
<1>4. d * q + d <= AddrSpace
    <2>1. d * q < d * S BY <1>1, <1>2, <1>3
    <2>2. q < S
        <3> SUFFICES ASSUME S <= q PROVE FALSE BY <1>2, <1>3
        <3>1. PICK z \in Nat : q = S + z
            <4>1. q - S \in Nat /\ q = S + (q - S) BY <1>2, <1>3
            <4> QED BY <4>1
        <3>2. d * q = d * S + d * z BY <1>1, <1>3, <3>1
        <3>3. d * z >= 0 /\ d * z \in Nat /\ d * S \in Nat BY <1>1, <1>3, <3>1
        <3> QED BY <1>2, <2>1, <3>2, <3>3
    <2>3. PICK z \in Nat : S = q + 1 + z
        <3>1. S - q - 1 \in Nat /\ S = q + 1 + (S - q - 1) BY <1>2, <1>3, <2>2
        <3> QED BY <3>1
    <2>4. d * S = d * q + d + d * z BY <1>1, <1>2, <2>3
    <2>5. d * z >= 0 /\ d * z \in Nat BY <1>1, <2>3
    <2> QED BY <1>1, <1>2, <1>3, <2>4, <2>5
<1>5. ASSUME NEW a \in Addrs PROVE a \div d = q <=> a \in NetAddr .. NetAddr + d - 1
    <2>1. a \in Nat BY <1>1 DEF Addrs
    <2>2. ASSUME a \div d = q PROVE a \in NetAddr .. NetAddr + d - 1
        <3>1. a % d \in 0 .. d - 1 /\ a = d * (a \div d) + (a % d) BY <1>1, <2>1, BlockIs
        <3>2. a = d * q + (a % d) BY <2>2, <3>1
        <3> QED BY <1>1, <1>2, <2>1, <3>1, <3>2
    <2>3. ASSUME a \in NetAddr .. NetAddr + d - 1 PROVE a \div d = q
        <3>1. d * q <= a /\ a < d * q + d BY <1>1, <1>2, <2>1, <2>3
        <3> QED BY <1>1, <1>2, <2>1, <3>1, BlockOf
    <2> QED BY <2>2, <2>3
<1>6. NetAddr .. NetAddr + d - 1 \subseteq Addrs BY <1>1, <1>2, <1>4 DEF Addrs
<1>7. {a \in Addrs : a \div d = q} = NetAddr .. NetAddr + d - 1 BY <1>5, <1>6
<1> QED BY <1>1, <1>2, <1>4, <1>7 DEF d, q

\* The requests go to all of the network.
LEMMA AskedAddresses ==
    ASSUME NetIsLegal, net.size > 1, net.size - 2 <= MaxTargets
    PROVE  {(NetAddr + i) % AddrSpace : i \in 1 .. NumHosts} = (NetAddr + 1) .. (NetAddr + net.size - 2)
<1>1. NetAddr \in Nat /\ NetAddr + net.size <= AddrSpace /\ net.size \in Nat \ {0} /\ AddrSpace \in Nat \ {0} /\ MaxTargets \in Nat
    BY NetworkIs, DiscoverAssumption
<1>2. \A x \in 0 .. AddrSpace - 1 : x % AddrSpace = x BY <1>1
<1>3. (net.size - 2) % AddrSpace = net.size - 2
    <2>1. net.size - 2 \in 0 .. AddrSpace - 1 BY <1>1
    <2> QED BY <1>2, <2>1
<1>4. NumHosts = net.size - 2
    <2> DEFINE T == {net.size - 2, MaxTargets}
    <2>1. T \subseteq Nat /\ T # {} BY <1>1
    <2>2. NumHosts = Min(T) BY <1>3 DEF NumHosts
    <2>3. Min(T) \in T /\ \A y \in T : Min(T) <= y
        <3> HIDE DEF T
        <3> QED BY <2>1, MinIn
    <2> QED BY <1>1, <2>2, <2>3
<1>5. \A i \in 1 .. NumHosts : (NetAddr + i) % AddrSpace = NetAddr + i
    <2> SUFFICES ASSUME NEW i \in 1 .. (net.size - 2) PROVE (NetAddr + i) % AddrSpace = NetAddr + i BY <1>4
    <2>1. NetAddr + i \in 0 .. AddrSpace - 1 BY <1>1
    <2> QED BY <1>2, <2>1
<1>6. {(NetAddr + i) % AddrSpace : i \in 1 .. NumHosts} = {NetAddr + i : i \in 1 .. (net.size - 2)} BY <1>4, <1>5
<1>7. {NetAddr + i : i \in 1 .. (net.size - 2)} = (NetAddr + 1) .. (NetAddr + net.size - 2)
    <2>1. \A i \in 1 .. (net.size - 2) : NetAddr + i \in (NetAddr + 1) .. (NetAddr + net.size - 2) BY <1>1
    <2>2. \A x \in (NetAddr + 1) .. (NetAddr + net.size - 2) : x - NetAddr \in 1 .. (net.size - 2) /\ x = NetAddr + (x - NetAddr) BY <1>1
    <2> QED BY <2>1, <2>2
<1> QED BY <1>6, <1>7

\* The parts of the invariant over a step that leaves the network as it is,
\* but for its noise, and is not to "listen".
SameNet == net' = net \/ net' = [net EXCEPT !.noise = @ - 1]
\* Packets of others come and go, the network stays.
LEMMA NetStays ==
    ASSUME NetIsLegal, SameNet
    PROVE  /\ NetIsLegal' /\ net'.self = net.self /\ net'.size = net.size /\ net'.hosts = net.hosts
           /\ NetAddr' = NetAddr
<1>1. DOMAIN net = {"self", "size", "gateway", "noise", "hosts"} BY DEF NetIsLegal
<1>2. net'.self = net.self /\ net'.size = net.size /\ net'.hosts = net.hosts /\ DOMAIN net' = DOMAIN net BY <1>1 DEF SameNet
<1> QED BY <1>1, <1>2 DEF NetIsLegal, NetAddr

\* The requests go to all of the network, and the first entry is the own host.
LEMMA AskKeeps == ASSUME DiscoverInv, Ask PROVE DiscoverInv'
<1>0. /\ NetIsLegal /\ MaxResults \in Nat \ {0, 1} /\ AddrSpace \in Nat \ {0}
      /\ discover \in [at : {"arp", "listen", "ttl", "classify", "done"}, quota : Int]
    BY DiscoverAssumption DEF DiscoverInv, DiscoverType
<1> DEFINE h == HostEntry(net.self, TRUE)
<1>1. /\ probed' = {(NetAddr + i) % AddrSpace : i \in 1 .. NumHosts} \ {net.self, NetAddr + net.size - 1}
      /\ coming' \in [probed' \cap DOMAIN net.hosts -> 0 .. 2]
      /\ found' = <<h>> /\ net' = net /\ discover' = [discover EXCEPT !.at = "listen"]
    BY DEF Ask, Move
<1>2. NetIsLegal' /\ NetAddr' = NetAddr BY <1>0, <1>1, NetStays DEF SameNet
<1>3. /\ discover' \in [at : {"arp", "listen", "ttl", "classify", "done"}, quota : Int]
      /\ discover'.at = "listen"
    BY <1>0, <1>1
<1>4. HostIsTrue(h)
    <2>1. DOMAIN h = HostFields /\ h.self = TRUE /\ h.ip = net.self BY DEF HostEntry, HostFields
    <2> HIDE DEF h
    <2> QED BY <2>1 DEF HostIsTrue
<1> HIDE DEF h
<1>5. DOMAIN found' = {1} /\ found'[1] = h /\ Len(found') = 1 BY <1>1
<1>6. found' \in Seq(ToSet(found'))
    <2>1. found' \in Seq({h}) BY <1>1
    <2> QED BY <2>1, SeqOverItself
<1>7. DOMAIN coming' \subseteq DOMAIN net'.hosts BY <1>1
<1>8. DiscoverType' BY <1>0, <1>2, <1>3, <1>5, <1>6, <1>7 DEF DiscoverType
<1>9. EachHostOnce' BY <1>5 DEF EachHostOnce
<1>10. InOrder' BY <1>3 DEF InOrder, At_D
<1>11. AsksTheNetwork'
    <2> SUFFICES ASSUME net.size > 1, net.size - 2 <= MaxTargets
                 PROVE  probed' = {a \in Addrs : a \div net.size = net.self \div net.size} \ {net.self, NetAddr, NetAddr + net.size - 1}
        BY <1>1, <1>2 DEF AsksTheNetwork
    <2>1. NetAddr \in Nat /\ net.size \in Nat
        BY <1>0, NetworkIs
    <2>2. {a \in Addrs : a \div net.size = net.self \div net.size} = NetAddr .. NetAddr + net.size - 1
        BY <1>0, NetworkIs
    <2>3. {(NetAddr + i) % AddrSpace : i \in 1 .. NumHosts} = (NetAddr + 1) .. (NetAddr + net.size - 2)
        BY <1>0, AskedAddresses
    <2>4. probed' = ((NetAddr + 1) .. (NetAddr + net.size - 2)) \ {net.self, NetAddr + net.size - 1} BY <1>1, <2>3
    <2>5. (NetAddr + 1) .. (NetAddr + net.size - 2) = (NetAddr .. NetAddr + net.size - 1) \ {NetAddr, NetAddr + net.size - 1}
        BY <2>1
    <2> HIDE DEF h
    <2> QED BY <2>2, <2>4, <2>5
<1>12. HostsAreTrue' BY <1>1, <1>4, <1>5 DEF HostsAreTrue, HostIsTrue
<1> QED BY <1>8, <1>9, <1>10, <1>11, <1>12 DEF DiscoverInv

\* The other steps go to another place than "listen", or leave what was asked.
LEMMA AskedStays ==
    ASSUME AsksTheNetwork, NetIsLegal, SameNet, discover'.at # "listen" \/ (discover.at = "listen" /\ probed' = probed)
    PROVE  AsksTheNetwork'
<1>1. NetAddr' = NetAddr /\ net'.self = net.self /\ net'.size = net.size BY NetStays
<1> QED BY <1>1 DEF AsksTheNetwork, At_D

\* A reply adds the host that sent it, unless it is there or the table is full.
LEMMA HearKeeps == ASSUME DiscoverInv, NEW a \in DOMAIN coming, Hear(a) PROVE DiscoverInv'
<1>0. /\ DiscoverType /\ HostsAreTrue /\ EachHostOnce /\ AsksTheNetwork /\ NetIsLegal /\ MaxResults \in Nat \ {0, 1}
      /\ found \in Seq(ToSet(found)) /\ Len(found) \in Nat /\ Len(found) < MaxResults
    BY DiscoverAssumption DEF DiscoverInv, DiscoverType
<1>1. /\ discover.at = "listen" /\ Len(found) < MaxResults - 1
      /\ coming' = [coming EXCEPT ![a] = @ - 1]
      /\ found' = IF Known(a) THEN found ELSE Append(found, HostEntry(a, FALSE))
      /\ UNCHANGED <<net, discover, probed>>
    BY DEF Hear, At_D, Room
<1>2. NetIsLegal' BY <1>0, <1>1, NetStays DEF SameNet
<1>3. DOMAIN coming' \subseteq DOMAIN net'.hosts BY <1>0, <1>1 DEF DiscoverType
<1>4. AsksTheNetwork' BY <1>0, <1>1, AskedStays DEF SameNet
<1>5. InOrder' BY <1>1 DEF InOrder, At_D
<1>6. CASE Known(a)
    <2>1. found' = found BY <1>1, <1>6
    <2>2. DiscoverType' BY <1>0, <1>1, <1>2, <1>3, <2>1 DEF DiscoverType
    <2> QED BY <1>0, <1>1, <1>4, <1>5, <2>1, <2>2 DEF DiscoverInv, HostsAreTrue, HostIsTrue, EachHostOnce
<1>7. CASE ~Known(a)
    <2> DEFINE h == HostEntry(a, FALSE)
               U == ToSet(found) \cup {h}
               f == Append(found, h)
    <2>1. DOMAIN h = HostFields /\ h.self = FALSE /\ h.ip = a /\ h.ttl = 0 BY DEF HostEntry, HostFields
    <2>2. a \in DOMAIN net.hosts /\ a # net.self BY <1>0, <1>1 DEF DiscoverType, NetIsLegal
    <2> HIDE DEF h
    <2>3. HostIsTrue(h) BY <2>1, <2>2 DEF HostIsTrue
    <2>4. found \in Seq(U) /\ h \in U
        <3>1. \A i \in DOMAIN found : found[i] \in U BY DEF ToSet
        <3> HIDE DEF U
        <3>2. found \in Seq(U) BY <1>0, <3>1, SeqOver
        <3> QED BY <3>2 DEF U
    <2> HIDE DEF U
    <2>5. /\ f \in Seq(U) /\ Len(f) = Len(found) + 1
          /\ f[Len(found) + 1] = h
          /\ DOMAIN f = 1 .. (Len(found) + 1) /\ DOMAIN found = 1 .. Len(found)
          /\ \A i \in 1 .. Len(found) : f[i] = found[i]
        BY <2>4, AppendIs
    <2> HIDE DEF f
    <2>6. found' = f BY <1>1, <1>7 DEF f, h
    <2>7. \A i \in DOMAIN f : (i = Len(found) + 1 /\ f[i] = h) \/ (i \in DOMAIN found /\ f[i] = found[i]) BY <1>0, <2>5
    <2>8. f \in Seq(ToSet(f)) BY <2>5, SeqOverItself
    <2>9. Len(f) < MaxResults BY <1>0, <1>1, <2>5
    <2>10. DiscoverType' BY <1>0, <1>1, <1>2, <1>3, <2>6, <2>8, <2>9 DEF DiscoverType
    <2>11. HostsAreTrue'
        <3>1. \A i \in DOMAIN f : HostIsTrue(f[i])
            <4> SUFFICES ASSUME NEW i \in DOMAIN f PROVE HostIsTrue(f[i]) OBVIOUS
            <4>1. CASE f[i] = h BY <2>3, <4>1
            <4>2. CASE i \in DOMAIN found /\ f[i] = found[i] BY <1>0, <4>2 DEF HostsAreTrue
            <4> QED BY <2>7, <4>1, <4>2
        <3> QED BY <1>1, <2>6, <3>1 DEF HostsAreTrue, HostIsTrue
    <2>12. \A i \in DOMAIN found : found[i].ip # h.ip BY <1>7, <2>1 DEF Known
    <2>13. EachHostOnce' BY <1>0, <2>6, <2>7, <2>12 DEF EachHostOnce
    <2> QED BY <1>4, <1>5, <2>10, <2>11, <2>13 DEF DiscoverInv
<1> QED BY <1>6, <1>7

\* Steps that change of results[] nothing but times to live, ports and the
\* like.
LEMMA SameHosts ==
    ASSUME DiscoverInv, SameNet, DiscoverType', discover'.at # "done",
           discover'.at # "listen" \/ (discover.at = "listen" /\ probed' = probed),
           DOMAIN found' = DOMAIN found,
           \A i \in DOMAIN found :
               /\ DOMAIN found'[i] = HostFields /\ found'[i].ip = found[i].ip /\ found'[i].self = found[i].self
               /\ found'[i].ttl = found[i].ttl \/ found'[i].ttl = net.hosts[found[i].ip].ttl
    PROVE  DiscoverInv'
<1>0. HostsAreTrue /\ EachHostOnce /\ AsksTheNetwork /\ NetIsLegal BY DEF DiscoverInv, DiscoverType
<1>1. net'.self = net.self /\ net'.hosts = net.hosts BY <1>0, NetStays
<1>2. HostsAreTrue'
    <2> SUFFICES ASSUME NEW i \in DOMAIN found PROVE HostIsTrue(found[i])'
        BY DEF HostsAreTrue
    <2>1. HostIsTrue(found[i]) BY <1>0 DEF HostsAreTrue
    <2> QED BY <1>1, <2>1 DEF HostIsTrue
<1>3. EachHostOnce' BY <1>0 DEF EachHostOnce
<1>4. AsksTheNetwork' BY <1>0, AskedStays
<1>5. InOrder' BY DEF InOrder, At_D
<1> QED BY <1>2, <1>3, <1>4, <1>5 DEF DiscoverInv

\* Other packets, and the end of the ARP round, leave the entries alone.
LEMMA OtherPacketKeeps == ASSUME DiscoverInv, OtherPacket \/ ArpEnds PROVE DiscoverInv'
<1>0. DiscoverType /\ HostsAreTrue /\ NetIsLegal BY DEF DiscoverInv, DiscoverType
<1>1. SameNet /\ found' = found BY DEF OtherPacket, ArpEnds, SameNet
<1>2. /\ discover' \in [at : {"arp", "listen", "ttl", "classify", "done"}, quota : Int]
      /\ discover'.at \in {"listen", "ttl"}
      /\ discover'.at = "listen" => discover.at = "listen" /\ probed' = probed /\ coming' = coming
    <2>1. CASE OtherPacket BY <1>0, <2>1 DEF OtherPacket, At_D, DiscoverType
    <2>2. CASE ArpEnds
        <3>1. discover' = [at |-> "ttl", quota |-> Len(found) - 1] BY <2>2 DEF ArpEnds
        <3>2. Len(found) \in Nat BY <1>0 DEF DiscoverType
        <3> QED BY <3>1, <3>2
    <2> QED BY <2>1, <2>2
<1>3. NetIsLegal' /\ net'.hosts = net.hosts BY <1>0, <1>1, NetStays
<1>4. DiscoverType' BY <1>0, <1>1, <1>2, <1>3 DEF DiscoverType
<1>5. \A i \in DOMAIN found : DOMAIN found[i] = HostFields BY <1>0 DEF HostsAreTrue, HostIsTrue
<1> QED BY <1>1, <1>2, <1>4, <1>5, SameHosts

\* An echo reply sets the TTL of the host that sent it.
LEMMA EchoReplyKeeps == ASSUME DiscoverInv, NEW a \in DOMAIN coming, EchoReply(a) PROVE DiscoverInv'
<1> DEFINE waiting == {i \in DOMAIN found : found[i].ip = a /\ ~found[i].self /\ found[i].ttl = 0}
           m == Min(waiting)
<1>0. /\ DiscoverType /\ HostsAreTrue /\ NetIsLegal /\ found \in Seq(ToSet(found)) /\ DOMAIN found = 1 .. Len(found)
      /\ discover \in [at : {"arp", "listen", "ttl", "classify", "done"}, quota : Int]
      /\ \A i \in DOMAIN found : DOMAIN found[i] = HostFields
    BY DEF DiscoverInv, DiscoverType, HostsAreTrue, HostIsTrue
<1>1. discover.at = "ttl" /\ UNCHANGED <<net, probed>> BY DEF EchoReply, At_D
<1>2. \/ found' = found /\ discover' = discover
      \/ /\ waiting # {} /\ found' = [found EXCEPT ![m].ttl = net.hosts[a].ttl]
         /\ discover' = [discover EXCEPT !.quota = @ - 1]
    BY DEF EchoReply
<1>3. discover' \in [at : {"arp", "listen", "ttl", "classify", "done"}, quota : Int] /\ discover'.at = "ttl"
    BY <1>0, <1>1, <1>2
<1>4. NetIsLegal' BY <1>0, <1>1, NetStays DEF SameNet
<1>5. CASE found' = found
    <2>1. DiscoverType' BY <1>0, <1>1, <1>3, <1>4, <1>5 DEF DiscoverType
    <2> QED BY <1>0, <1>1, <1>3, <1>5, <2>1, SameHosts DEF SameNet
<1>6. CASE waiting # {} /\ found' = [found EXCEPT ![m].ttl = net.hosts[a].ttl]
    <2>1. m \in waiting
        <3>1. waiting \subseteq Nat BY <1>0
        <3> HIDE DEF waiting
        <3> QED BY <1>6, <3>1, MinIn
    <2>2. m \in DOMAIN found /\ found[m].ip = a BY <2>1
    <2> HIDE DEF waiting, m
    <2>3. found' = [i \in DOMAIN found |-> IF i = m THEN [found[m] EXCEPT !.ttl = net.hosts[a].ttl] ELSE found[i]]
        BY <1>6, <2>2
    <2>4. DOMAIN found' = DOMAIN found /\ Len(found') = Len(found) /\ found' \in Seq(ToSet(found'))
        <3> DEFINE U == {found'[i] : i \in DOMAIN found}
        <3>1. DOMAIN found' = 1 .. Len(found) /\ Len(found) \in Nat BY <1>0, <2>3
        <3>2. found' = [i \in 1 .. Len(found) |-> found'[i]] BY <2>3, <3>1
        <3>3. \A i \in 1 .. Len(found) : found'[i] \in U BY <1>0
        <3> HIDE DEF U
        <3>4. found' \in Seq(U) /\ Len(found') = Len(found) BY <3>1, <3>2, <3>3
        <3>5. found' \in Seq(ToSet(found')) BY <3>4, SeqOverItself
        <3> QED BY <1>0, <3>1, <3>4, <3>5
    <2>5. ASSUME NEW i \in DOMAIN found
          PROVE  /\ DOMAIN found'[i] = HostFields /\ found'[i].ip = found[i].ip /\ found'[i].self = found[i].self
                 /\ found'[i].ttl = found[i].ttl \/ found'[i].ttl = net.hosts[found[i].ip].ttl
        <3>1. CASE i # m BY <1>0, <2>3, <3>1
        <3>2. CASE i = m
            <4>1. found'[i] = [found[m] EXCEPT !.ttl = net.hosts[a].ttl] BY <2>2, <2>3, <3>2
            <4>2. DOMAIN found[m] = HostFields BY <1>0, <2>2
            <4> QED BY <2>2, <3>2, <4>1, <4>2 DEF HostFields
        <3> QED BY <3>1, <3>2
    <2>6. DiscoverType' BY <1>0, <1>1, <1>3, <1>4, <2>4 DEF DiscoverType
    <2> QED BY <1>1, <1>3, <2>4, <2>5, <2>6, SameHosts DEF SameNet
<1> QED BY <1>2, <1>5, <1>6

\* The end of the echo round notes open ports, no more.
LEMMA EchoEndsKeeps == ASSUME DiscoverInv, EchoEnds PROVE DiscoverInv'
<1>0. /\ DiscoverType /\ HostsAreTrue /\ NetIsLegal /\ found \in Seq(ToSet(found)) /\ DOMAIN found = 1 .. Len(found) /\ Len(found) \in Nat
      /\ discover \in [at : {"arp", "listen", "ttl", "classify", "done"}, quota : Int]
      /\ \A i \in DOMAIN found : DOMAIN found[i] = HostFields
    BY DEF DiscoverInv, DiscoverType, HostsAreTrue, HostIsTrue
<1>1. PICK fast \in BOOLEAN :
          found' = [i \in DOMAIN found |->
                        IF found[i].self \/ fast THEN found[i]
                        ELSE [found[i] EXCEPT !.open = net.hosts[found[i].ip].ports]]
    BY DEF EchoEnds
<1>2. discover' = [discover EXCEPT !.at = "classify"] /\ UNCHANGED <<net, probed, coming>> BY DEF EchoEnds, Move
<1>3. discover' \in [at : {"arp", "listen", "ttl", "classify", "done"}, quota : Int] /\ discover'.at = "classify"
    BY <1>0, <1>2
<1>4. NetIsLegal' BY <1>0, <1>2, NetStays DEF SameNet
<1>5. DOMAIN found' = DOMAIN found /\ Len(found') = Len(found) /\ found' \in Seq(ToSet(found'))
    <2> DEFINE U == {found'[i] : i \in DOMAIN found}
    <2>1. DOMAIN found' = 1 .. Len(found) BY <1>0, <1>1
    <2>2. found' = [i \in 1 .. Len(found) |-> found'[i]] BY <1>1, <2>1
    <2>3. \A i \in 1 .. Len(found) : found'[i] \in U BY <1>0
    <2> HIDE DEF U
    <2>4. found' \in Seq(U) /\ Len(found') = Len(found) BY <1>0, <2>1, <2>2, <2>3
    <2>5. found' \in Seq(ToSet(found')) BY <2>4, SeqOverItself
    <2> QED BY <1>0, <2>1, <2>4, <2>5
<1>6. ASSUME NEW i \in DOMAIN found
      PROVE  /\ DOMAIN found'[i] = HostFields /\ found'[i].ip = found[i].ip /\ found'[i].self = found[i].self
             /\ found'[i].ttl = found[i].ttl
    <2>1. found'[i] = found[i] \/ found'[i] = [found[i] EXCEPT !.open = net.hosts[found[i].ip].ports] BY <1>1
    <2>2. DOMAIN found[i] = HostFields BY <1>0
    <2> QED BY <2>1, <2>2 DEF HostFields
<1>7. DiscoverType' BY <1>0, <1>2, <1>3, <1>4, <1>5 DEF DiscoverType
<1> QED BY <1>2, <1>3, <1>5, <1>6, <1>7, SameHosts DEF SameNet

\* Classifying and sorting.
LEMMA ClassifyKeeps == ASSUME DiscoverInv, Classify PROVE DiscoverInv'
<1>0. /\ DiscoverType /\ HostsAreTrue /\ EachHostOnce /\ AsksTheNetwork /\ NetIsLegal
      /\ found \in Seq(ToSet(found)) /\ DOMAIN found = 1 .. Len(found) /\ Len(found) \in Nat /\ Len(found) < MaxResults
      /\ discover \in [at : {"arp", "listen", "ttl", "classify", "done"}, quota : Int]
      /\ \A i \in DOMAIN found : HostIsTrue(found[i])
    BY DEF DiscoverInv, DiscoverType, HostsAreTrue
<1> DEFINE c == [i \in DOMAIN found |-> [found[i] EXCEPT !.class = Guess(found[i])[1], !.os = Guess(found[i])[2]]]
           U == {x \in {c[i] : i \in DOMAIN found} : x.ip \in Int}
<1>1. found' = SortHosts(c) /\ discover' = [discover EXCEPT !.at = "done"] /\ UNCHANGED <<net, probed, coming>>
    BY DEF Classify, Move
<1>2. ASSUME NEW i \in DOMAIN found
      PROVE  /\ DOMAIN c[i] = HostFields /\ c[i].ip = found[i].ip /\ c[i].self = found[i].self
             /\ c[i].ttl = found[i].ttl /\ c[i].ip \in Int
    <2> DEFINE x == Guess(found[i])[1]
               y == Guess(found[i])[2]
    <2>1. c[i] = [found[i] EXCEPT !.class = x, !.os = y] OBVIOUS
    <2> HIDE DEF c, x, y
    <2>2. DOMAIN found[i] = HostFields BY <1>0 DEF HostIsTrue
    <2>3. DOMAIN c[i] = HostFields /\ c[i].ip = found[i].ip /\ c[i].self = found[i].self /\ c[i].ttl = found[i].ttl
        BY <2>1, <2>2 DEF HostFields
    <2>4. found[i].ip \in Addrs BY <1>0 DEF HostIsTrue, NetIsLegal
    <2>5. Addrs \subseteq Int BY DiscoverAssumption DEF Addrs
    <2> QED BY <2>3, <2>4, <2>5
<1>3. c = [i \in 1 .. Len(found) |-> c[i]] BY <1>0
<1> HIDE DEF c
<1>4. c \in Seq(U) /\ Len(c) = Len(found) /\ \A x \in U : x.ip \in Int
    <2>1. \A i \in 1 .. Len(found) : c[i] \in U BY <1>0, <1>2
    <2>2. \A x \in U : x.ip \in Int OBVIOUS
    <2> HIDE DEF U
    <2> QED BY <1>0, <1>3, <2>1, <2>2
<1>5. \A i, j \in 1 .. Len(c) : c[i].ip = c[j].ip => i = j BY <1>0, <1>2, <1>4 DEF EachHostOnce
<1> HIDE DEF U
<1>6. /\ found' \in Seq(U) /\ Len(found') = Len(found) /\ Sorted(found')
      /\ \A i \in 1 .. Len(found) : \E j \in 1 .. Len(found) : found'[i] = c[j]
    <2>1. /\ SortHosts(c) \in Seq(U) /\ Len(SortHosts(c)) = Len(c) /\ Sorted(SortHosts(c))
          /\ \A i \in 1 .. Len(c) : \E j \in 1 .. Len(c) : SortHosts(c)[i] = c[j]
        BY <1>4, <1>5, SortHostsIs
    <2> QED BY <1>1, <1>4, <2>1
<1>7. DOMAIN found' = 1 .. Len(found) /\ found' \in Seq(ToSet(found')) BY <1>6, SeqOverItself
<1>8. discover' \in [at : {"arp", "listen", "ttl", "classify", "done"}, quota : Int] /\ discover'.at = "done"
    BY <1>0, <1>1
<1>9. NetIsLegal' BY <1>0, <1>1, NetStays DEF SameNet
<1>10. DiscoverType' BY <1>0, <1>6, <1>7, <1>8, <1>9 DEF DiscoverType
<1>11. AsksTheNetwork' BY <1>0, <1>1, <1>8, AskedStays DEF SameNet
<1>12. HostsAreTrue'
    <2> SUFFICES ASSUME NEW i \in 1 .. Len(found) PROVE HostIsTrue(found[i])'
        BY <1>7 DEF HostsAreTrue
    <2>1. PICK j \in 1 .. Len(found) : found'[i] = c[j] BY <1>6
    <2>2. HostIsTrue(found[j]) /\ j \in DOMAIN found BY <1>0
    <2> QED BY <1>1, <1>2, <2>1, <2>2 DEF HostIsTrue
<1>13. ASSUME NEW i \in 1 .. Len(found), NEW j \in 1 .. Len(found), i < j PROVE found'[i].ip < found'[j].ip
    BY <1>6, <1>13 DEF Sorted
<1>14. \A i \in 1 .. Len(found) : found'[i].ip \in Int BY <1>0, <1>2, <1>6
<1>15. EachHostOnce'
    <2> SUFFICES ASSUME NEW i \in 1 .. Len(found), NEW j \in 1 .. Len(found), found'[i].ip = found'[j].ip PROVE i = j
        BY <1>7 DEF EachHostOnce
    <2>1. ~(i < j) /\ ~(j < i) BY <1>13, <1>14
    <2> QED BY <2>1
<1>16. InOrder'
    <2> SUFFICES ASSUME NEW i \in 1 .. Len(found) - 1 PROVE found'[i].ip < found'[i + 1].ip
        BY <1>6 DEF InOrder
    <2>1. i \in 1 .. Len(found) /\ i + 1 \in 1 .. Len(found) /\ i < i + 1 BY <1>0
    <2> QED BY <1>13, <2>1
<1> QED BY <1>10, <1>11, <1>12, <1>15, <1>16 DEF DiscoverInv

\* Each step of ndiscover keeps the invariant.
LEMMA DiscoverKeeps == ASSUME DiscoverInv, DiscoverNext PROVE DiscoverInv'
BY AskKeeps, HearKeeps, OtherPacketKeeps, EchoReplyKeeps, EchoEndsKeeps, ClassifyKeeps DEF DiscoverNext

\* It says nothing of the other tools.
LEMMA DiscoverStays == ASSUME DiscoverInv, UNCHANGED discoverVars PROVE DiscoverInv'
BY DEF discoverVars, DiscoverInv, DiscoverType, NetIsLegal, HostsAreTrue, HostIsTrue, EachHostOnce, InOrder, AsksTheNetwork, At_D, NetAddr

\* It implies what ndiscover promises.
LEMMA DiscoverHolds == ASSUME DiscoverInv PROVE DiscoverSound
<1>1. HostsAreTrue /\ EachHostOnce /\ InOrder /\ AsksTheNetwork /\ Len(found) < MaxResults BY DEF DiscoverInv, DiscoverType
<1> QED BY <1>1 DEF DiscoverSound, FoundIsTrue, HostsAreTrue, HostIsTrue, EachHostOnce, InOrder
----------------------------------------------------------------------------
(* The DNS client                                                          *)

\* Each name behind an alias follows from the one before.
LEMMA AliasIs ==
    ASSUME NEW z, LegalZone(z), NEW n
    PROVE  /\ Alias(z, n) \in [Nat -> Names \cup {n}]
           /\ Alias(z, n)[0] = n
           /\ \A k \in Nat : Alias(z, n)[k + 1] = IF IsAlias(z, Alias(z, n)[k]) THEN z[Alias(z, n)[k]].to ELSE Alias(z, n)[k]
<1> DEFINE V == Names \cup {n}
           Follow(x) == IF IsAlias(z, x) THEN z[x].to ELSE x
           G == [k \in Nat |-> [x \in V |-> Follow(x)]]
           Eq(f) == f = [k \in Nat |-> IF k = 0 THEN n ELSE Follow(f[k - 1])]
<1>1. \A x \in V : Follow(x) \in V
    <2> SUFFICES ASSUME NEW x \in V, IsAlias(z, x) PROVE z[x].to \in V OBVIOUS
    <2>1. x \in DOMAIN z /\ z[x].type = "CNAME" BY DEF IsAlias, ZoneOf
    <2> QED BY <2>1 DEF LegalZone
<1> HIDE DEF Follow, V
<1>2. G \in [Nat -> [V -> V]] BY <1>1
<1>3. \A k \in Nat, x \in V : G[k][x] = Follow(x) OBVIOUS
<1> HIDE DEF G
<1>4. PICK h \in [Nat -> V] : Follows(h, n, G)
    <2>1. n \in V BY DEF V
    <2> QED BY <1>2, <2>1, RecursionExists
<1>5. Eq(h)
    <2>1. h[0] = n /\ \A k \in Nat : h[k + 1] = G[k + 1][h[k]] BY <1>4 DEF Follows
    <2>2. ASSUME NEW k \in Nat PROVE h[k] = IF k = 0 THEN n ELSE Follow(h[k - 1])
        <3>1. CASE k = 0 BY <2>1, <3>1
        <3>2. CASE k # 0
            <4>1. k - 1 \in Nat /\ (k - 1) + 1 = k BY <3>2
            <4>2. h[(k - 1) + 1] = G[(k - 1) + 1][h[k - 1]] BY <2>1, <4>1
            <4>3. h[k - 1] \in V BY <4>1
            <4> QED BY <1>3, <3>2, <4>1, <4>2, <4>3
        <3> QED BY <3>1, <3>2
    <2>3. h = [k \in Nat |-> h[k]] OBVIOUS
    <2> QED BY <2>2, <2>3
<1> DEFINE name == CHOOSE f : Eq(f)
<1>6. Eq(name)
    <2> HIDE DEF Eq
    <2> QED BY <1>5
<1>7. Alias(z, n) = name BY Zenon DEF Alias, Follow
<1> HIDE DEF name
<1>8. name[0] = n /\ \A k \in Nat : name[k + 1] = Follow(name[k])
    <2>1. \A k \in Nat : name[k] = IF k = 0 THEN n ELSE Follow(name[k - 1]) BY <1>6
    <2>2. \A k \in Nat : k + 1 \in Nat /\ k + 1 # 0 /\ (k + 1) - 1 = k OBVIOUS
    <2> HIDE DEF Eq
    <2>3. name[0] = n BY <2>1
    <2>4. ASSUME NEW k \in Nat PROVE name[k + 1] = Follow(name[k]) BY <2>1, <2>2
    <2> QED BY <2>3, <2>4
<1>9. \A k \in Nat : name[k] \in V
    <2> DEFINE S == {k \in Nat : name[k] \in V}
    <2>1. 0 \in S BY <1>8 DEF V
    <2>2. \A k \in Nat : k \in S => k + 1 \in S BY <1>1, <1>8
    <2> HIDE DEF S
    <2>3. Nat \subseteq S BY <2>1, <2>2, NatInd
    <2> QED BY <2>3 DEF S
<1>10. name = [k \in Nat |-> name[k]] BY <1>6
<1>11. name \in [Nat -> V] BY <1>9, <1>10
<1> QED BY <1>7, <1>8, <1>11 DEF Follow, V

\* A name that is no alias ends the chain.
LEMMA AliasEnds ==
    ASSUME NEW z, LegalZone(z), NEW n, NEW k \in Nat, ~IsAlias(z, Alias(z, n)[k]), NEW m \in Nat, k <= m
    PROVE  Alias(z, n)[m] = Alias(z, n)[k]
<1> DEFINE a == Alias(z, n)
           S == {i \in Nat : a[k + i] = a[k]}
<1>0. \A i \in Nat : a[i + 1] = IF IsAlias(z, a[i]) THEN z[a[i]].to ELSE a[i] BY AliasIs
<1> HIDE DEF a
<1>1. 0 \in S OBVIOUS
<1>2. ASSUME NEW i \in Nat, i \in S PROVE i + 1 \in S
    <2>1. k + i \in Nat /\ k + (i + 1) = (k + i) + 1 OBVIOUS
    <2>2. a[(k + i) + 1] = a[k + i] BY <1>0, <1>2, <2>1 DEF a
    <2> QED BY <1>2, <2>1, <2>2
<1> HIDE DEF S
<1>3. Nat \subseteq S BY <1>1, <1>2, NatInd
<1>4. m - k \in Nat /\ k + (m - k) = m OBVIOUS
<1>5. a[k + (m - k)] = a[k] BY <1>3, <1>4 DEF S
<1> QED BY <1>4, <1>5 DEF a

\* The chain of a name on a chain is the rest of it.
LEMMA AliasOfAlias ==
    ASSUME NEW z, LegalZone(z), NEW n, NEW j \in Nat, NEW k \in Nat
    PROVE  Alias(z, Alias(z, n)[j])[k] = Alias(z, n)[j + k]
<1> DEFINE a == Alias(z, n)
           b == Alias(z, a[j])
           S == {i \in Nat : b[i] = a[j + i]}
<1>1. \A i \in Nat : a[i + 1] = IF IsAlias(z, a[i]) THEN z[a[i]].to ELSE a[i] BY AliasIs
<1>2. b[0] = a[j] /\ \A i \in Nat : b[i + 1] = IF IsAlias(z, b[i]) THEN z[b[i]].to ELSE b[i] BY AliasIs
<1> HIDE DEF a, b
<1>3. 0 \in S BY <1>2
<1>4. ASSUME NEW i \in Nat, i \in S PROVE i + 1 \in S
    <2>1. j + i \in Nat /\ j + (i + 1) = (j + i) + 1 OBVIOUS
    <2>2. b[i] = a[j + i] BY <1>4
    <2>3. b[i + 1] = a[(j + i) + 1] BY <1>1, <1>2, <2>1, <2>2
    <2> QED BY <2>1, <2>3
<1> HIDE DEF S
<1>5. k \in S BY <1>3, <1>4, NatInd
<1> QED BY <1>5 DEF S, a, b

\* A chain that ends does so within as many steps as there are names: up to
\* there the names differ.
LEMMA ChainIsShort ==
    ASSUME NEW z, LegalZone(z), NEW n, NEW k \in Nat, ~IsAlias(z, Alias(z, n)[k])
    PROVE  Alias(z, n)[k] = Target(z, n)
<1> DEFINE a == Alias(z, n)
           M == MostAliases
           T == {i \in Nat : ~IsAlias(z, a[i])}
<1>0. IsFiniteSet(Names) /\ M \in Nat BY NamesAssumption, FS_CardinalityType DEF MostAliases
<1>1. PICK e \in T : \A i \in T : e <= i
    <2>1. T \subseteq Nat /\ T # {} OBVIOUS
    <2> HIDE DEF T
    <2> QED BY <2>1, NatMin
<1>2. e \in Nat /\ ~IsAlias(z, a[e]) /\ \A i \in Nat : i < e => IsAlias(z, a[i]) BY <1>1
<1> HIDE DEF T
<1>3. ASSUME NEW i \in Nat, NEW j \in Nat, i < j, j < e PROVE a[i] # a[j]
    <2> SUFFICES ASSUME a[i] = a[j] PROVE FALSE OBVIOUS
    <2>1. e - j \in Nat /\ j + (e - j) = e /\ i + (e - j) \in Nat /\ i + (e - j) < e BY <1>2, <1>3
    <2>0. \A p, q \in Nat : Alias(z, a[p])[q] = a[p + q] BY AliasOfAlias
    <2>2. Alias(z, a[i])[e - j] = a[i + (e - j)] BY <2>0, <2>1
    <2>3. Alias(z, a[j])[e - j] = a[j + (e - j)] BY <2>0, <2>1
    <2>4. a[i + (e - j)] = a[e] BY <2>1, <2>2, <2>3
    <2> HIDE DEF a
    <2> QED BY <1>2, <2>1, <2>4
<1>4. e <= M
    <2> SUFFICES ASSUME M < e PROVE FALSE BY <1>0, <1>2
    <2> DEFINE I == 0 .. M
               f == [i \in I |-> a[i]]
    <2>1. IsFiniteSet(I) /\ Cardinality(I) = M + 1 BY <1>0, FS_Interval
    <2>2. \A i \in I : a[i] \in Names
        <3>1. \A i \in I : IsAlias(z, a[i]) BY <1>0, <1>2
        <3> HIDE DEF a
        <3> QED BY <3>1 DEF IsAlias, ZoneOf, LegalZone
    <2>3. f \in [I -> Names] BY <2>2
    <2>4. Cardinality(Names) < Cardinality(I) BY <1>0, <2>1 DEF MostAliases
    <2>5. PICK x, y \in I : x # y /\ f[x] = f[y]
        <3> HIDE DEF f, I
        <3> QED BY <1>0, <2>1, <2>3, <2>4, FS_PigeonHole
    <2>6. a[x] = a[y] /\ x \in Nat /\ y \in Nat /\ x < e /\ y < e BY <1>0, <1>2, <2>5
    <2> HIDE DEF a
    <2> QED BY <1>3, <2>5, <2>6
<1>5. a[M] = a[e] BY <1>0, <1>2, <1>4, AliasEnds
<1>6. e <= k BY <1>1 DEF T
<1>7. a[k] = a[e] BY <1>2, <1>6, AliasEnds
<1> QED BY <1>5, <1>7 DEF Target

\* How many aliases there are before the end.
LEMMA AliasesIs ==
    ASSUME NEW z, LegalZone(z), NEW n
    PROVE  /\ Aliases(z, n) \in 0 .. MostAliases /\ MostAliases \in Nat
           /\ Alias(z, n)[Aliases(z, n)] = Target(z, n)
           /\ \A j \in 0 .. Aliases(z, n) - 1 : Alias(z, n)[j] # Target(z, n)
<1> DEFINE T == {k \in Nat : Alias(z, n)[k] = Target(z, n)}
<1>0. MostAliases \in Nat BY NamesAssumption, FS_CardinalityType DEF MostAliases
<1>1. PICK k \in T : \A j \in T : k <= j
    <2>1. MostAliases \in T BY <1>0 DEF Target
    <2>2. T \subseteq Nat /\ T # {} BY <2>1
    <2> HIDE DEF T
    <2> QED BY <2>2, NatMin
<1>2. k \in 0 .. MostAliases BY <1>0, <1>1 DEF Target
<1>3. Alias(z, n)[k] = Target(z, n) /\ \A j \in 0 .. k - 1 : Alias(z, n)[j] # Target(z, n) BY <1>1
<1> QED BY Zenon, <1>0, <1>2, <1>3 DEF Aliases

\* What the records are that may be received on the way from a name: the
\* addresses at its end, and the aliases on the way there.
AddressesOf(z, n) == {r.data : r \in ToSet(Records(z, Target(z, n)))}
Way(z, n) == {Alias(z, n)[k] : k \in Nat}
RecordsOnWay(z, n) ==
    {[type |-> "A", data |-> d] : d \in AddressesOf(z, n)}
    \cup {[type |-> "CNAME", data |-> d] : d \in Way(z, n)}
    \cup {[type |-> "other", data |-> Empty]}

\* The records of a name on the way.
OnlyAddresses(s) == \A i \in 1 .. Len(s) : s[i].type = "A"
\* A name's records are addresses of the host, or the one alias that leads on.
LEMMA RecordsIs ==
    ASSUME NEW z, LegalZone(z), NEW n, NEW k \in Nat
    PROVE  LET m == Alias(z, n)[k] IN
           /\ Records(z, m) \in Seq(RecordsOnWay(z, n))
           /\ ZoneOf(z, m).type = "A" => Records(z, m) # <<>> /\ OnlyAddresses(Records(z, m))
           /\ ZoneOf(z, m).type = "CNAME" => Records(z, m) = <<[type |-> "CNAME", data |-> Alias(z, n)[k + 1]]>>
<1> DEFINE m == Alias(z, n)[k]
           R == RecordsOnWay(z, n)
<1>0. \/ ZoneOf(z, m).type = "A" /\ z[m].addrs # <<>> /\ z[m].addrs \in Seq(ToSet(z[m].addrs))
      \/ ZoneOf(z, m).type = "CNAME" /\ m \in DOMAIN z
      \/ ZoneOf(z, m).type = "other"
      \/ ZoneOf(z, m).type = "none"
    <2> HIDE DEF m
    <2> QED BY DEF LegalZone, ZoneOf
<1>1. CASE ZoneOf(z, m).type = "A" /\ z[m].addrs # <<>> /\ z[m].addrs \in Seq(ToSet(z[m].addrs))
    <2> DEFINE s == z[m].addrs
               r == [i \in DOMAIN s |-> [type |-> "A", data |-> s[i]]]
    <2>1. Records(z, m) = r BY <1>1 DEF Records
    <2>2. m = Target(z, n) BY <1>1, ChainIsShort DEF IsAlias
    <2>3. DOMAIN s = 1 .. Len(s) /\ Len(s) \in Nat /\ Len(s) # 0 BY <1>1
    <2> HIDE DEF s, m
    <2>4. \A i \in 1 .. Len(s) : r[i] = [type |-> "A", data |-> s[i]] BY <2>3
    <2>5. r = [i \in 1 .. Len(s) |-> r[i]] BY <2>3
    <2> HIDE DEF r
    <2>6. r \in Seq({r[i] : i \in 1 .. Len(s)}) /\ Len(r) = Len(s) /\ DOMAIN r = 1 .. Len(s)
        <3> DEFINE U == {r[i] : i \in 1 .. Len(s)}
        <3>1. \A i \in 1 .. Len(s) : r[i] \in U OBVIOUS
        <3> HIDE DEF U
        <3>2. r \in Seq(U) /\ Len(r) = Len(s) /\ DOMAIN r = 1 .. Len(s) BY <2>3, <2>5, <3>1
        <3> QED BY <3>2 DEF U
    <2>7. \A i \in 1 .. Len(s) : r[i] \in R
        <3> SUFFICES ASSUME NEW i \in 1 .. Len(s) PROVE r[i] \in R OBVIOUS
        <3>1. r[i].data \in AddressesOf(z, n) BY <2>1, <2>2, <2>6 DEF AddressesOf, ToSet
        <3>2. r[i] = [type |-> "A", data |-> s[i]] BY <2>4
        <3>3. r[i].data = s[i] BY <3>2
        <3> QED BY <3>1, <3>2, <3>3 DEF RecordsOnWay
    <2> HIDE DEF R
    <2>8. r \in Seq(R) BY <2>6, <2>7, SeqOver
    <2>9. r # <<>> BY <2>3, <2>6
    <2>10. OnlyAddresses(r) BY <2>4, <2>6 DEF OnlyAddresses
    <2> QED BY <1>1, <2>1, <2>8, <2>9, <2>10 DEF m, R
<1>2. CASE ZoneOf(z, m).type = "CNAME" /\ m \in DOMAIN z
    <2>1. Records(z, m) = <<[type |-> "CNAME", data |-> z[m].to]>> BY <1>2 DEF Records
    <2>2. Alias(z, n)[k + 1] = z[m].to BY <1>2, AliasIs DEF IsAlias
    <2>3. k + 1 \in Nat OBVIOUS
    <2>4. Alias(z, n)[k + 1] \in Way(z, n) BY <2>3 DEF Way
    <2>5. [type |-> "CNAME", data |-> Alias(z, n)[k + 1]] \in R BY <2>4 DEF RecordsOnWay
    <2> HIDE DEF R
    <2>6. Records(z, m) \in Seq(R) BY <2>1, <2>2, <2>5
    <2> QED BY <1>2, <2>1, <2>2, <2>6 DEF R
<1>3. CASE ZoneOf(z, m).type = "other"
    <2>1. Records(z, m) = <<[type |-> "other", data |-> Empty]>> BY <1>3 DEF Records
    <2>2. [type |-> "other", data |-> Empty] \in R BY DEF RecordsOnWay
    <2> HIDE DEF R
    <2>3. Records(z, m) \in Seq(R) BY <2>1, <2>2
    <2> QED BY <1>3, <2>3 DEF R
<1>4. CASE ZoneOf(z, m).type = "none"
    <2>1. Records(z, m) = <<>> BY <1>4 DEF Records
    <2> QED BY <1>4, <2>1
<1> QED BY <1>0, <1>1, <1>2, <1>3, <1>4

\* What a server sends about a name on the way.
LEMMA ResponseIs ==
    ASSUME NEW dns, LegalZone(dns.at), dns.follows \in BOOLEAN, NEW n, NEW k \in Nat
    PROVE  Response(dns, Alias(dns.at, n)[k]) \in Seq(RecordsOnWay(dns.at, n))
<1> DEFINE z == dns.at
           m == Alias(z, n)[k]
           R == RecordsOnWay(z, n)
           l == Aliases(z, m)
           c == [i \in 1 .. l |-> [type |-> "CNAME", data |-> Alias(z, m)[i]]]
<1>1. l \in Nat /\ MostAliases \in Nat BY AliasesIs
<1>2. \A p \in Nat : Alias(z, m)[p] = Alias(z, n)[k + p] BY AliasOfAlias
<1>3. Target(z, m) = Alias(z, n)[k + MostAliases] BY <1>1, <1>2 DEF Target
<1>4. Records(z, m) \in Seq(R) BY RecordsIs
<1>5. Records(z, Target(z, m)) \in Seq(R)
    <2>1. k + MostAliases \in Nat BY <1>1
    <2>2. Records(z, Alias(z, n)[k + MostAliases]) \in Seq(R) BY <2>1, RecordsIs
    <2> QED BY <1>3, <2>2
<1>6. \A i \in 1 .. l : [type |-> "CNAME", data |-> Alias(z, m)[i]] \in R
    <2> SUFFICES ASSUME NEW i \in 1 .. l PROVE [type |-> "CNAME", data |-> Alias(z, m)[i]] \in R OBVIOUS
    <2>1. Alias(z, m)[i] = Alias(z, n)[k + i] /\ k + i \in Nat BY <1>1, <1>2
    <2>2. Alias(z, m)[i] \in Way(z, n) BY <2>1 DEF Way
    <2> QED BY <2>2 DEF RecordsOnWay
<1>7. Response(dns, m) = IF ~dns.follows THEN Records(z, m) ELSE c \o Records(z, Target(z, m)) BY DEF Response
<1> HIDE DEF m, R, l, z
<1>8. c \in Seq(R) BY <1>1, <1>6
<1> HIDE DEF c
<1>9. c \o Records(z, Target(z, m)) \in Seq(R) BY <1>5, <1>8, ConcatIs
<1> QED BY <1>4, <1>7, <1>9 DEF z, m, R

\* Nobody has the name Junk.
LEMMA JunkIs ==
    ASSUME NEW dns, LegalZone(dns.at), dns.follows \in BOOLEAN
    PROVE  Response(dns, Junk) = <<>>
<1> DEFINE z == dns.at
<1>0. Junk \notin DOMAIN z BY NamesAssumption DEF LegalZone
<1>1. ZoneOf(z, Junk).type = "none" BY <1>0 DEF ZoneOf
<1>2. Records(z, Junk) = <<>> BY <1>1 DEF Records
<1>3. ~IsAlias(z, Junk) BY <1>1 DEF IsAlias
<1>4. \A k \in Nat : Alias(z, Junk)[k] = Junk
    <2> SUFFICES ASSUME NEW k \in Nat PROVE Alias(z, Junk)[k] = Junk OBVIOUS
    <2>1. Alias(z, Junk)[0] = Junk BY AliasIs
    <2>2. 0 \in Nat /\ 0 <= k OBVIOUS
    <2> HIDE DEF z
    <2> QED BY <1>3, <2>1, <2>2, AliasEnds DEF z
<1>5. Target(z, Junk) = Junk /\ Aliases(z, Junk) = 0
    <2>1. MostAliases \in Nat /\ Aliases(z, Junk) \in 0 .. MostAliases
          /\ \A j \in 0 .. Aliases(z, Junk) - 1 : Alias(z, Junk)[j] # Target(z, Junk)
        BY AliasesIs
    <2>2. Target(z, Junk) = Junk BY <1>4, <2>1 DEF Target
    <2> DEFINE l == Aliases(z, Junk)
    <2> HIDE DEF l
    <2>3. l = 0
        <3> SUFFICES ASSUME l # 0 PROVE FALSE OBVIOUS
        <3>1. 0 \in 0 .. l - 1 BY <2>1 DEF l
        <3> QED BY <1>4, <2>1, <2>2, <3>1 DEF l
    <2> QED BY <2>2, <2>3 DEF l
<1>6. Response(dns, Junk) =
          IF ~dns.follows THEN Records(z, Junk)
          ELSE [k \in 1 .. Aliases(z, Junk) |-> [type |-> "CNAME", data |-> Alias(z, Junk)[k]]] \o Records(z, Target(z, Junk))
    BY DEF Response
<1> DEFINE c == [k \in 1 .. 0 |-> [type |-> "CNAME", data |-> Alias(z, Junk)[k]]]
<1>7. c = <<>> OBVIOUS
<1>8. Response(dns, Junk) = IF ~dns.follows THEN <<>> ELSE <<>> \o <<>> BY <1>2, <1>5, <1>6, <1>7
<1>9. <<>> \o <<>> = <<>> OBVIOUS
<1> QED BY <1>8, <1>9

\* A numeric address is no name of the DNS.
LEMMA NumericHasNoRecords ==
    ASSUME NEW z, LegalZone(z), NEW n \in DOMAIN Numeric
    PROVE  AddressesOf(z, n) = {}
<1>0. ZoneOf(z, n).type = "none" BY DEF LegalZone, ZoneOf
<1>1. ~IsAlias(z, n) /\ Records(z, n) = <<>> BY <1>0 DEF IsAlias, Records
<1>2. Alias(z, n)[0] = n BY AliasIs
<1>3. n = Target(z, n)
    <2>1. 0 \in Nat /\ ~IsAlias(z, Alias(z, n)[0]) BY <1>1, <1>2
    <2>2. Alias(z, n)[0] = Target(z, n) BY <2>1, ChainIsShort
    <2> QED BY <1>2, <2>2
<1> QED BY <1>1, <1>3 DEF AddressesOf, ToSet
\* The addresses at the end of the way are the host's in the zone.
LEMMA AddressesAreInZone ==
    ASSUME NEW z, LegalZone(z), NEW n
    PROVE  AddressesOf(z, n) \subseteq InZone(z, n)
BY NumericHasNoRecords DEF AddressesOf, InZone

\* A findable address is in the first reply of a server that follows aliases;
\* another sends the next alias until the last.
LEMMA FindableIsFound ==
    ASSUME NEW dns, LegalZone(dns.at), dns.follows \in BOOLEAN, NEW n, Findable(dns.at, n),
           NEW k \in Nat, k <= Aliases(dns.at, n)
    PROVE  LET s == Response(dns, Alias(dns.at, n)[k]) IN
           /\ s # <<>>
           /\ \/ \E i \in 1 .. Len(s) : s[i].type = "A"
              \/ /\ k < Aliases(dns.at, n) /\ s = <<[type |-> "CNAME", data |-> Alias(dns.at, n)[k + 1]]>>
                 /\ Alias(dns.at, n)[k + 1] \in Names
<1> DEFINE z == dns.at
           t == Target(z, n)
           m == Alias(z, n)[k]
           M == MostAliases
           l == Aliases(z, m)
           c == [i \in 1 .. l |-> [type |-> "CNAME", data |-> Alias(z, m)[i]]]
           r == Records(z, t)
           R == RecordsOnWay(z, n)
<1>0. M \in Nat /\ Aliases(z, n) \in 0 .. M /\ Alias(z, n)[Aliases(z, n)] = t
      /\ \A j \in 0 .. Aliases(z, n) - 1 : Alias(z, n)[j] # t
    BY AliasesIs
<1>1. t = Alias(z, n)[M] /\ ZoneOf(z, t).type = "A" /\ ~IsAlias(z, t) BY DEF Findable, Target, IsAlias
<1>2. r \in Seq(R) /\ r # <<>> /\ \A i \in 1 .. Len(r) : r[i].type = "A"
    <2> DEFINE x == Alias(z, n)[M]
    <2>1. Records(z, x) \in Seq(R) BY <1>0, RecordsIs
    <2>2. ZoneOf(z, x).type = "A" => Records(z, x) # <<>> BY <1>0, RecordsIs
    <2>3. ZoneOf(z, x).type = "A" => OnlyAddresses(Records(z, x)) BY <1>0, RecordsIs
    <2> QED BY <1>1, <2>1, <2>2, <2>3 DEF OnlyAddresses
<1>3. 1 \in 1 .. Len(r) /\ r[1].type = "A"
    <2> HIDE DEF r, R
    <2>1. Len(r) \in Nat /\ Len(r) # 0 BY <1>2
    <2> QED BY <1>2, <2>1
<1>4. Response(dns, m) = IF ~dns.follows THEN Records(z, m) ELSE c \o Records(z, Target(z, m)) BY DEF Response
<1>5. CASE dns.follows
    <2>1. Target(z, m) = t
        <3>1. Target(z, m) = Alias(z, n)[k + M] BY <1>0, AliasOfAlias DEF Target
        <3>2. k + M \in Nat /\ M <= k + M BY <1>0
        <3>3. Alias(z, n)[k + M] = Alias(z, n)[M] BY <1>0, <1>1, <3>2, AliasEnds
        <3> QED BY <1>1, <3>1, <3>3
    <2>2. Response(dns, m) = c \o r BY <1>4, <1>5, <2>1
    <2>3. c \in Seq({c[i] : i \in 1 .. l}) /\ l \in Nat
        <3>1. l \in Nat
            <4>1. l \in 0 .. MostAliases BY AliasesIs
            <4> QED BY <1>0, <4>1
        <3> DEFINE U == {c[i] : i \in 1 .. l}
        <3>2. \A i \in 1 .. l : c[i] \in U OBVIOUS
        <3>3. c = [i \in 1 .. l |-> c[i]] OBVIOUS
        <3> HIDE DEF U, c, l
        <3>4. c \in Seq(U) BY <3>1, <3>2, <3>3
        <3> QED BY <3>1, <3>4 DEF U
    <2> DEFINE W == R \cup {c[i] : i \in 1 .. l}
    <2>4. c \in Seq(W) /\ r \in Seq(W)
        <3>1. \A i \in DOMAIN c : c[i] \in W OBVIOUS
        <3>2. \A i \in DOMAIN r : r[i] \in W
            <4> HIDE DEF r, R, c
            <4> QED BY <1>2
        <3> HIDE DEF W, c, r, R
        <3> QED BY <1>2, <2>3, <3>1, <3>2, SeqOver
    <2> HIDE DEF W, c, r, R
    <2>5. /\ c \o r \in Seq(W) /\ Len(c \o r) = Len(c) + Len(r) /\ Len(c) \in Nat /\ Len(r) \in Nat
          /\ \A i \in 1 .. Len(r) : (c \o r)[Len(c) + i] = r[i]
        BY <2>4, ConcatIs
    <2>6. (c \o r)[Len(c) + 1].type = "A" /\ Len(c) + 1 \in 1 .. Len(c \o r) BY <1>3, <2>5
    <2>7. c \o r # <<>> BY <2>5, <2>6
    <2> QED BY <2>2, <2>6, <2>7 DEF m, z
<1>6. CASE ~dns.follows
    <2>1. Response(dns, m) = Records(z, m) BY <1>4, <1>6
    <2>2. CASE k = Aliases(z, n)
        <3>1. Records(z, m) = r BY <1>0, <2>2
        <3> HIDE DEF m, r
        <3> QED BY <1>2, <1>3, <2>1, <3>1 DEF m
    <2>3. CASE k < Aliases(z, n)
        <3>1. m # t BY <1>0, <2>3
        <3>2. IsAlias(z, m) BY <3>1, ChainIsShort
        <3>3. ZoneOf(z, m).type = "CNAME" => Records(z, m) = <<[type |-> "CNAME", data |-> Alias(z, n)[k + 1]]>> BY RecordsIs
        <3>4. Response(dns, m) = <<[type |-> "CNAME", data |-> Alias(z, n)[k + 1]]>> BY <2>1, <3>2, <3>3 DEF IsAlias
        <3>5. <<[type |-> "CNAME", data |-> Alias(z, n)[k + 1]]>> # <<>> OBVIOUS
        <3>6. Alias(z, n)[k + 1] \in Names
            <4>1. Alias(z, n)[k + 1] = z[m].to BY <3>2, AliasIs
            <4> HIDE DEF m
            <4>2. m \in DOMAIN z /\ z[m].type = "CNAME" BY <3>2 DEF IsAlias, ZoneOf
            <4>3. z[m].to \in Names BY <4>2 DEF LegalZone
            <4> QED BY <4>1, <4>3
        <3> HIDE DEF m, z
        <3> QED BY <2>3, <3>4, <3>5, <3>6 DEF m, z
    <2>4. k < Aliases(z, n) \/ k = Aliases(z, n) BY <1>0
    <2> QED BY <2>2, <2>3, <2>4
<1> QED BY <1>5, <1>6

----------------------------------------------------------------------------
\* Where a look up is, and what it holds there.
Places == {"start", "wait", "hangs", "parse", "next", "resolved", "inUse", "connect", "returned"}
HostWay == Way(zone.at, call.host)
LookupType == [at : Places, name : HostWay \cup {Junk}, cname : HostWay \cup {Junk, Empty}, depth : Nat]
ResolverType ==
    /\ LegalZone(zone.at) /\ zone.follows \in BOOLEAN
    /\ lookup \in LookupType
    /\ reply \in Seq(RecordsOnWay(zone.at, call.host))
    /\ answer.addrs \in Seq(InZone(zone.at, call.host))
Depths ==
    /\ asked \in Nat /\ asked <= MaxChain
    /\ lookup.at = "start" => asked = 0 /\ lookup.depth = 0 /\ lookup.name = call.host
    /\ lookup.at \in {"wait", "parse"} =>
           asked = lookup.depth + 1 /\ lookup.depth < MaxChain /\ (lookup.depth > 0 => lookup.cname = Empty)
    /\ lookup.at = "next" => asked = lookup.depth /\ 0 < lookup.depth /\ lookup.depth < MaxChain
Holdings ==
    /\ lookup.at \in {"start", "parse", "next", "resolved", "connect", "returned"} => owned = {}
    /\ lookup.at = "wait" => owned = {"udp"}
    /\ lookup.at = "inUse" => owned \subseteq {"info", "address", "name"}
\* A host that can be found, when nothing fails, is on its way to be.
Expected == call.faults = {} /\ call.who \in {"getaddrinfo", "ping"}
Progress ==
    /\ lookup.at = "connect" => call.who = "http"
    /\ Expected /\ call.host \in DOMAIN Numeric => lookup.at \in {"start", "resolved", "inUse", "returned"}
    /\ /\ Expected /\ lookup.at \in {"resolved", "inUse", "returned"}
       /\ call.host \in DOMAIN Numeric \/ Findable(zone.at, call.host)
       => answer.code = "ok"
    /\ Expected /\ Findable(zone.at, call.host) /\ lookup.at \in {"start", "wait", "parse", "next"} =>
           /\ lookup.name = Alias(zone.at, call.host)[lookup.depth] /\ lookup.depth <= Aliases(zone.at, call.host)
           /\ lookup.at = "parse" => reply = Response(zone, lookup.name)
ResolverInv == ResolverType /\ Depths /\ Holdings /\ Progress

\* A look up starts with the name asked for, behind no alias.
LEMMA ResolverStarts ==
    ASSUME NEW who, NEW host, NEW z, LegalZone(z), NEW follows \in BOOLEAN, NEW buffer \in {Empty, Junk}, NEW up, NEW faults,
           ResolverStart(who, host, z, follows, buffer, up, faults)
    PROVE  ResolverInv
<1>1. /\ call = [who |-> who, host |-> host, up |-> up, faults |-> faults]
      /\ zone = [at |-> z, follows |-> follows]
      /\ lookup = [at |-> "start", name |-> host, cname |-> buffer, depth |-> 0]
      /\ reply = <<>> /\ asked = 0 /\ owned = {} /\ answer = [code |-> "none", addrs |-> <<>>]
    BY DEF ResolverStart
<1>2. Alias(z, host)[0] = host BY AliasIs
<1>3. 0 <= Aliases(z, host) BY AliasesIs
<1>4. host \in HostWay
    <2>1. host \in Way(z, host) BY <1>2 DEF Way
    <2> QED BY <1>1, <2>1 DEF HostWay
<1>5. ResolverType BY <1>1, <1>4 DEF ResolverType, LookupType, Places
<1>6. Depths BY <1>1, LimitsAssumption DEF Depths
<1>7. Holdings BY <1>1 DEF Holdings
<1>8. Progress BY <1>1, <1>2, <1>3 DEF Progress
<1> QED BY <1>5, <1>6, <1>7, <1>8 DEF ResolverInv

\* A step to another place that changes only what is said of it there.
LEMMA StepIs ==
    ASSUME lookup \in LookupType, NEW p \in Places, Step(p)
    PROVE  /\ lookup' \in LookupType /\ lookup'.at = p /\ lookup'.name = lookup.name /\ lookup'.cname = lookup.cname
           /\ lookup'.depth = lookup.depth
BY DEF Step, LookupType

\* The end of a call that holds nothing, with addresses of the zone: an error
\* is one only if it was to be expected.
LEMMA CallEnds ==
    ASSUME ResolverInv, NEW code, NEW addrs, Finish(code, addrs), UNCHANGED <<call, zone, reply, asked, owned>>,
           owned = {}, addrs \in Seq(InZone(zone.at, call.host)),
           Expected /\ (call.host \in DOMAIN Numeric \/ Findable(zone.at, call.host)) => code = "ok"
    PROVE  ResolverInv'
<1>0. lookup \in LookupType /\ Depths BY DEF ResolverInv, ResolverType
<1>1. answer' = [code |-> code, addrs |-> addrs] /\ Step("returned") BY DEF Finish
<1>2. /\ lookup' \in LookupType /\ lookup'.at = "returned" BY <1>0, <1>1, StepIs DEF Places
<1>3. ResolverType' BY <1>1, <1>2 DEF ResolverInv, ResolverType, LookupType, HostWay
<1>4. Depths' BY <1>0, <1>2 DEF Depths
<1>5. Holdings' BY <1>2 DEF Holdings
<1>6. Progress' BY <1>1, <1>2 DEF Progress, Expected
<1> QED BY <1>3, <1>4, <1>5, <1>6 DEF ResolverInv

\* A numeric host is no name to look up.
LEMMA NumericKeeps == ASSUME ResolverInv, IsNumeric \/ NotNumeric PROVE ResolverInv'
<1>0. lookup \in LookupType /\ Depths /\ Holdings BY DEF ResolverInv, ResolverType
<1>1. lookup.at = "start" /\ owned = {} /\ UNCHANGED <<call, zone, reply, asked, owned>>
    BY DEF ResolverInv, Holdings, IsNumeric, NotNumeric, Resolving
<1>2. CASE NotNumeric
    <2>1. Finish("error", <<>>) /\ call.who = "numerichost" BY <1>2 DEF NotNumeric
    <2>2. <<>> \in Seq(InZone(zone.at, call.host)) OBVIOUS
    <2> QED BY <1>1, <2>1, <2>2, CallEnds DEF Expected
<1>3. CASE IsNumeric
    <2>1. /\ call.host \in DOMAIN Numeric /\ answer' = [code |-> "ok", addrs |-> <<Numeric[call.host]>>]
          /\ Step(IF call.who = "http" THEN "connect" ELSE "resolved")
        BY <1>3 DEF IsNumeric
    <2>2. /\ lookup' \in LookupType /\ lookup'.at = IF call.who = "http" THEN "connect" ELSE "resolved"
        BY <1>0, <2>1, StepIs DEF Places
    <2>3. <<Numeric[call.host]>> \in Seq(InZone(zone.at, call.host)) BY <2>1 DEF InZone
    <2>4. ResolverType' BY <1>1, <2>1, <2>2, <2>3 DEF ResolverInv, ResolverType, LookupType, HostWay
    <2>5. Depths' BY <1>0, <1>1, <2>2 DEF Depths
    <2>6. Holdings' BY <1>1, <2>2 DEF Holdings
    <2>7. Progress' BY <1>1, <2>1, <2>2 DEF Progress, Expected
    <2> QED BY <2>4, <2>5, <2>6, <2>7 DEF ResolverInv
<1> QED BY <1>2, <1>3

\* A query costs one of MAX_CNAME_CHAIN.
LEMMA QueryKeeps == ASSUME ResolverInv, Query PROVE ResolverInv'
<1>0. lookup \in LookupType /\ Depths /\ Holdings /\ Progress /\ lookup.at \in {"start", "next"} /\ UNCHANGED <<call, zone, reply>>
    BY DEF ResolverInv, ResolverType, Query, Resolving
<1>1. owned = {} BY <1>0 DEF Holdings
<1>2. CASE MayFail("query") /\ Finish("error", <<>>) /\ UNCHANGED <<asked, owned>>
    <2>1. <<>> \in Seq(InZone(zone.at, call.host)) OBVIOUS
    <2>2. ~Expected BY <1>2 DEF MayFail, Expected
    <2> QED BY <1>0, <1>1, <1>2, <2>1, <2>2, CallEnds
<1>3. CASE /\ asked' = asked + 1 /\ owned' = owned \cup {"udp"} /\ UNCHANGED answer
           /\ lookup' = [lookup EXCEPT !.at = "wait", !.cname = IF Resolving("next") THEN Empty ELSE @]
    <2>1. /\ lookup' \in LookupType /\ lookup'.at = "wait" /\ lookup'.name = lookup.name /\ lookup'.depth = lookup.depth
          /\ lookup.at = "next" => lookup'.cname = Empty
        BY <1>0, <1>3 DEF LookupType, Places, Resolving
    <2>2. ResolverType' BY <1>0, <1>3, <2>1 DEF ResolverInv, ResolverType, LookupType, HostWay
    <2>3. lookup.depth \in Nat BY <1>0 DEF LookupType
    <2>4. Depths' BY <1>0, <1>3, <2>1, <2>3, LimitsAssumption DEF Depths
    <2>5. Holdings' BY <1>1, <1>3, <2>1 DEF Holdings
    <2>6. Expected => call.host \notin DOMAIN Numeric
        BY <1>0 DEF Query, Resolving, Progress, Expected
    <2>7. Progress' BY <1>0, <2>1, <2>6 DEF Progress, Expected
    <2> QED BY <2>2, <2>4, <2>5, <2>7 DEF ResolverInv
<1> QED BY <1>2, <1>3 DEF Query

\* What is received is the response to the name asked for, all of it or its
\* first records.
LEMMA ReceiveKeeps == ASSUME ResolverInv, Receive PROVE ResolverInv'
<1> DEFINE R == RecordsOnWay(zone.at, call.host)
           s == Response(zone, lookup.name)
<1>0. /\ lookup \in LookupType /\ Depths /\ Holdings /\ Progress /\ LegalZone(zone.at) /\ zone.follows \in BOOLEAN
      /\ lookup.at = "wait" /\ UNCHANGED <<call, zone, asked, answer>>
      /\ owned' = owned \ {"udp"} /\ Step("parse")
    BY DEF ResolverInv, ResolverType, Receive, Resolving
<1>1. PICK cut \in (IF MayFail("cut") THEN 0 .. 1 ELSE {0}) : reply' = SubSeq(s, 1, Len(s) - cut)
    BY DEF Receive
<1>2. s \in Seq(R)
    <2>1. CASE lookup.name = Junk
        <3>1. s = <<>> BY <1>0, <2>1, JunkIs
        <3> QED BY <3>1
    <2>2. CASE lookup.name # Junk
        <3>1. PICK k \in Nat : lookup.name = Alias(zone.at, call.host)[k] BY <1>0, <2>2 DEF LookupType, HostWay, Way
        <3> QED BY <1>0, <3>1, ResponseIs
    <2> QED BY <2>1, <2>2
<1> HIDE DEF R, s
<1>3. reply' \in Seq(R) /\ (cut = 0 => reply' = s)
    <2>1. cut \in 0 .. 1 OBVIOUS
    <2> QED BY <1>1, <1>2, <2>1
<1>4. lookup' \in LookupType /\ lookup'.at = "parse" /\ lookup'.name = lookup.name /\ lookup'.cname = lookup.cname /\ lookup'.depth = lookup.depth
    BY <1>0, StepIs DEF Places
<1>5. ResolverType' BY <1>0, <1>3, <1>4 DEF ResolverInv, ResolverType, LookupType, HostWay, R
<1>6. Depths' BY <1>0, <1>4 DEF Depths
<1>7. Holdings' BY <1>0, <1>4 DEF Holdings
<1>8. Expected => cut = 0 BY DEF Expected, MayFail
<1>9. Expected => reply' = Response(zone, lookup.name) BY <1>3, <1>8 DEF s
<1>10. Progress' BY <1>0, <1>4, <1>9 DEF Progress, Expected
<1> QED BY <1>5, <1>6, <1>7, <1>10 DEF ResolverInv

\* A lost packet hangs the call, which was not expected to succeed then.
LEMMA LostKeeps == ASSUME ResolverInv, Lost PROVE ResolverInv'
<1>0. /\ lookup \in LookupType /\ Depths /\ Step("hangs") /\ UNCHANGED <<call, zone, reply, asked, owned, answer>> /\ ~Expected
    BY DEF ResolverInv, ResolverType, Lost, MayFail, Expected
<1>1. lookup' \in LookupType /\ lookup'.at = "hangs" BY <1>0, StepIs DEF Places
<1>2. ResolverType' BY <1>0, <1>1 DEF ResolverInv, ResolverType, LookupType, HostWay
<1>3. Depths' BY <1>0, <1>1 DEF Depths
<1>4. Holdings' BY <1>1 DEF Holdings
<1>5. Progress' BY <1>0, <1>1 DEF Progress, Expected
<1> QED BY <1>2, <1>3, <1>4, <1>5 DEF ResolverInv

\* The records of a type: the first and the last of them.
LEMMA OfIs ==
    ASSUME NEW U, reply \in Seq(U), NEW type, Of(type) # {}
    PROVE  Min(Of(type)) \in Of(type) /\ Max(Of(type)) \in Of(type)
<1>1. Len(reply) \in Nat /\ Of(type) \subseteq 0 .. Len(reply) BY DEF Of
<1>2. Of(type) \subseteq Nat BY <1>1
<1> QED BY <1>1, <1>2, MinIn, MaxIn

\* The addresses of the reply.
LEMMA AddressIs ==
    ASSUME ResolverType, NEW i \in Of("A")
    PROVE  reply[i].data \in InZone(zone.at, call.host)
<1>1. reply[i] \in RecordsOnWay(zone.at, call.host) /\ reply[i].type = "A" BY DEF ResolverType, Of
<1>2. reply[i].data \in AddressesOf(zone.at, call.host) BY <1>1 DEF RecordsOnWay
<1> QED BY <1>2, AddressesAreInZone DEF ResolverType

\* The addresses of a reply are the host's.
LEMMA AddressesIs ==
    ASSUME ResolverType
    PROVE  Addresses \in Seq(InZone(zone.at, call.host))
<1> DEFINE n == Len(reply)
           V == Seq(InZone(zone.at, call.host))
           Is(k) == k \in Of("A")
           d(k) == reply[k].data
           G == [k \in Nat |-> [s \in V |-> IF Is(k) THEN Append(s, d(k)) ELSE s]]
           Eq(f) == f = [k \in 0 .. n |-> IF k = 0 THEN <<>> ELSE IF Is(k) THEN Append(f[k - 1], d(k)) ELSE f[k - 1]]
<1>0. n \in Nat BY DEF ResolverType
<1>1. \A k \in Nat, s \in V : (IF Is(k) THEN Append(s, d(k)) ELSE s) \in V
    <2> SUFFICES ASSUME NEW k \in Nat, NEW s \in V, Is(k) PROVE Append(s, d(k)) \in V OBVIOUS
    <2>1. d(k) \in InZone(zone.at, call.host) BY AddressIs
    <2> HIDE DEF d
    <2> QED BY <2>1, AppendIs
<1>2. <<>> \in V OBVIOUS
<1> HIDE DEF V, Is, d, n
<1>3. G \in [Nat -> [V -> V]] BY <1>1
<1>4. \A k \in Nat, s \in V : G[k][s] = IF Is(k) THEN Append(s, d(k)) ELSE s OBVIOUS
<1> HIDE DEF G
<1>5. PICK h \in [0 .. n -> V] : FollowsTo(h, n, <<>>, G) BY <1>0, <1>2, <1>3, RecursionUpTo
<1>6. Eq(h)
    <2>1. ASSUME NEW k \in 0 .. n
          PROVE  h[k] = IF k = 0 THEN <<>> ELSE IF Is(k) THEN Append(h[k - 1], d(k)) ELSE h[k - 1]
        <3>1. h[k] = IF k = 0 THEN <<>> ELSE G[k][h[k - 1]] BY <1>5 DEF FollowsTo
        <3>2. CASE k = 0 BY <3>1, <3>2
        <3>3. CASE k # 0
            <4>1. k \in Nat /\ k - 1 \in 0 .. n BY <1>0, <3>3
            <4>2. h[k - 1] \in V BY <4>1
            <4> QED BY <1>4, <3>1, <3>3, <4>1, <4>2
        <3> QED BY <3>2, <3>3
    <2>2. h = [k \in 0 .. n |-> h[k]] OBVIOUS
    <2> QED BY <2>1, <2>2
<1> DEFINE kept == CHOOSE f : Eq(f)
<1>7. Eq(kept)
    <2> HIDE DEF Eq
    <2> QED BY <1>6
<1>8. Addresses = kept[n] BY Zenon DEF Addresses, n, Is, d
<1> HIDE DEF kept
<1>9. \A k \in 0 .. n : kept[k] = IF k = 0 THEN <<>> ELSE IF Is(k) THEN Append(kept[k - 1], d(k)) ELSE kept[k - 1]
    BY <1>7
<1> HIDE DEF Eq
<1> DEFINE S == {k \in Nat : k <= n => kept[k] \in V}
<1>10. 0 \in S BY <1>0, <1>2, <1>9
<1>11. ASSUME NEW k \in Nat, k \in S PROVE k + 1 \in S
    <2> SUFFICES ASSUME k + 1 <= n PROVE kept[k + 1] \in V OBVIOUS
    <2>1. k + 1 \in 0 .. n /\ k + 1 # 0 /\ (k + 1) - 1 = k /\ k <= n /\ k + 1 \in Nat BY <1>0
    <2>2. kept[k] \in V BY <1>11, <2>1
    <2>3. kept[k + 1] = IF Is(k + 1) THEN Append(kept[k], d(k + 1)) ELSE kept[k] BY <1>9, <2>1
    <2> QED BY <1>1, <2>1, <2>2, <2>3
<1> HIDE DEF S
<1>12. n \in S BY <1>0, <1>10, <1>11, NatInd
<1>13. kept[n] \in V BY <1>0, <1>12 DEF S
<1> QED BY <1>8, <1>13 DEF V

\* cname_buf holds an alias on the way, what it held, or nothing.
LEMMA LastAliasIs ==
    ASSUME ResolverType
    PROVE  /\ LastAlias \in HostWay \cup {Junk, Empty}
           /\ lookup.depth < MaxChain - 1 \/ LastAlias = lookup.cname
<1>1. lookup.cname \in HostWay \cup {Junk, Empty} BY DEF ResolverType, LookupType
<1>2. CASE Of("CNAME") # {} /\ lookup.depth < MaxChain - 1
    <2>1. LastAlias = reply[Max(Of("CNAME"))].data BY <1>2 DEF LastAlias
    <2>2. Max(Of("CNAME")) \in Of("CNAME") BY <1>2, OfIs DEF ResolverType
    <2>3. \A i \in Of("CNAME") : reply[i].data \in HostWay
        <3> SUFFICES ASSUME NEW i \in Of("CNAME") PROVE reply[i].data \in HostWay OBVIOUS
        <3>1. reply[i] \in RecordsOnWay(zone.at, call.host) /\ reply[i].type = "CNAME" BY DEF ResolverType, Of
        <3> QED BY <3>1 DEF RecordsOnWay, HostWay
    <2> QED BY <1>2, <2>1, <2>2, <2>3
<1>3. CASE ~(Of("CNAME") # {} /\ lookup.depth < MaxChain - 1)
    <2>1. LastAlias = lookup.cname BY <1>3 DEF LastAlias
    <2> QED BY <1>1, <2>1
<1> QED BY <1>2, <1>3

\* getaddrinfo and ping take an address, or go on to the last alias.
LEMMA ParseKeeps == ASSUME ResolverInv, Parse PROVE ResolverInv'
<1>0. /\ ResolverType /\ lookup \in LookupType /\ Depths /\ Holdings /\ Progress /\ lookup.at = "parse"
      /\ UNCHANGED <<call, zone, reply, asked, owned>>
      /\ call.who \in {"getaddrinfo", "ping"}
    BY DEF ResolverInv, ResolverType, Parse, Resolving
<1>1. owned = {} /\ lookup.depth \in Nat BY <1>0 DEF Holdings, LookupType
<1> DEFINE z == zone.at
           h == call.host
           d == lookup.depth
           Sure == Expected /\ (h \in DOMAIN Numeric \/ Findable(z, h))
\* A host that can be found, when nothing fails: the reply has its address, or
\* the next alias.
<1>2. ASSUME Sure
      PROVE  /\ reply # <<>> /\ Findable(z, h)
             /\ \/ Of("A") # {}
                \/ /\ d < Aliases(z, h) /\ Aliases(z, h) < MaxChain
                   /\ LastAlias = Alias(z, h)[d + 1] /\ LastAlias \in Names
    <2>1. Expected /\ h \notin DOMAIN Numeric /\ Findable(z, h) BY <1>0, <1>2 DEF Progress
    <2>2. reply = Response(zone, Alias(z, h)[d]) /\ d <= Aliases(z, h) BY <1>0, <2>1 DEF Progress
    <2>3. LegalZone(z) /\ zone.follows \in BOOLEAN BY <1>0 DEF ResolverType
    <2> HIDE DEF z, h, d
    <2>4. /\ reply # <<>>
          /\ \/ \E i \in 1 .. Len(reply) : reply[i].type = "A"
             \/ /\ d < Aliases(z, h) /\ reply = <<[type |-> "CNAME", data |-> Alias(z, h)[d + 1]]>>
                /\ Alias(z, h)[d + 1] \in Names
        <3>1. d \in Nat BY <1>1 DEF d
        <3> QED BY <2>1, <2>2, <2>3, <3>1, FindableIsFound DEF z
    <2>5. Aliases(z, h) < MaxChain BY <2>1 DEF Findable
    <2>6. DOMAIN reply = 1 .. Len(reply) BY <1>0 DEF ResolverType
    <2>7. CASE \E i \in 1 .. Len(reply) : reply[i].type = "A" BY <2>1, <2>4, <2>6, <2>7 DEF Of
    <2>8. CASE /\ d < Aliases(z, h) /\ reply = <<[type |-> "CNAME", data |-> Alias(z, h)[d + 1]]>>
               /\ Alias(z, h)[d + 1] \in Names
        <3> DEFINE r == [type |-> "CNAME", data |-> Alias(z, h)[d + 1]]
        <3>1. DOMAIN reply = {1} /\ reply[1] = r BY <2>8
        <3>2. r.type = "CNAME" /\ r.data = Alias(z, h)[d + 1] OBVIOUS
        <3> HIDE DEF r
        <3>3. Of("CNAME") = {1} BY <3>1, <3>2 DEF Of
        <3>4. Max(Of("CNAME")) = 1
            <4>1. Max(Of("CNAME")) \in Of("CNAME") BY <1>0, <3>3, OfIs DEF ResolverType
            <4> QED BY <3>3, <4>1
        <3>5. d < MaxChain - 1
            <4>1. Aliases(z, h) \in Nat /\ d \in Nat /\ MaxChain \in Nat
                <5>1. Aliases(z, h) \in 0 .. MostAliases /\ MostAliases \in Nat BY <2>3, AliasesIs
                <5> QED BY <1>1, <5>1, LimitsAssumption DEF d
            <4> QED BY <2>5, <2>8, <4>1
        <3>6. LastAlias = Alias(z, h)[d + 1] BY <3>1, <3>2, <3>3, <3>4, <3>5 DEF LastAlias, d
        <3> QED BY <2>1, <2>4, <2>5, <2>8, <3>6
    <2> QED BY <2>4, <2>7, <2>8
<1>3. CASE reply = <<>> /\ Finish("error", <<>>)
    <2>1. <<>> \in Seq(InZone(zone.at, call.host)) OBVIOUS
    <2>2. ~Sure BY <1>2, <1>3
    <2> QED BY <1>0, <1>1, <1>3, <2>1, <2>2, CallEnds
<1>4. CASE Of("A") # {} /\ answer' = [code |-> "ok", addrs |-> <<reply[Min(Of("A"))].data>>] /\ Step("resolved")
    <2>1. lookup' \in LookupType /\ lookup'.at = "resolved" BY <1>0, <1>4, StepIs DEF Places
    <2>2. Min(Of("A")) \in Of("A") BY <1>0, <1>4, OfIs DEF ResolverType
    <2>3. reply[Min(Of("A"))].data \in InZone(zone.at, call.host) BY <1>0, <2>2, AddressIs
    <2>4. answer'.addrs \in Seq(InZone(zone.at, call.host)) /\ answer'.code = "ok" BY <1>4, <2>3
    <2>5. ResolverType' BY <1>0, <2>1, <2>4 DEF ResolverType, LookupType, HostWay
    <2>6. Depths' BY <1>0, <2>1 DEF Depths
    <2>7. Holdings' BY <1>0, <1>1, <2>1 DEF Holdings
    <2>8. Progress' BY <1>0, <2>1, <2>4 DEF Progress, Expected
    <2> QED BY <2>5, <2>6, <2>7, <2>8 DEF ResolverInv
<1>5. CASE Of("A") = {} /\ LastAlias = Empty /\ Finish("error", <<>>)
    <2>1. <<>> \in Seq(InZone(zone.at, call.host)) OBVIOUS
    <2>2. ~Sure BY <1>2, <1>5, NamesAssumption
    <2> QED BY <1>0, <1>1, <1>5, <2>1, <2>2, CallEnds
<1>6. CASE /\ Of("A") = {} /\ LastAlias # Empty /\ UNCHANGED answer
           /\ lookup' = [at |-> "next", name |-> LastAlias, cname |-> LastAlias, depth |-> lookup.depth + 1]
    <2>1. LastAlias \in HostWay \cup {Junk} /\ (lookup.depth < MaxChain - 1 \/ LastAlias = lookup.cname)
        BY <1>0, <1>6, LastAliasIs
    <2>2. lookup' \in LookupType BY <1>1, <1>6, <2>1 DEF LookupType, Places
    <2>3. ResolverType' BY <1>0, <1>6, <2>2 DEF ResolverType, LookupType, HostWay
    <2>4. lookup.depth + 1 < MaxChain
        <3>1. lookup.depth = 0 \/ lookup.depth < MaxChain - 1 BY <1>0, <1>1, <1>6, <2>1 DEF Depths
        <3> QED BY <1>1, <3>1, LimitsAssumption
    <2>5. Depths' BY <1>0, <1>1, <1>6, <2>4 DEF Depths
    <2>6. Holdings' BY <1>0, <1>1, <1>6 DEF Holdings
    <2>7. Expected => h \notin DOMAIN Numeric BY <1>0 DEF Progress
    <2>8. Expected /\ Findable(z, h) => LastAlias = Alias(z, h)[d + 1] /\ d + 1 <= Aliases(z, h)
        <3> SUFFICES ASSUME Expected, Findable(z, h) PROVE LastAlias = Alias(z, h)[d + 1] /\ d + 1 <= Aliases(z, h) OBVIOUS
        <3>1. d < Aliases(z, h) /\ LastAlias = Alias(z, h)[d + 1] BY <1>2, <1>6
        <3>2. Aliases(z, h) \in 0 .. MostAliases /\ MostAliases \in Nat BY <1>0, AliasesIs DEF ResolverType
        <3> QED BY <1>1, <3>1, <3>2
    <2>9. Progress' BY <1>0, <1>6, <2>7, <2>8 DEF Progress, Expected
    <2> QED BY <2>3, <2>5, <2>6, <2>9 DEF ResolverInv
<1> QED BY <1>3, <1>4, <1>5, <1>6 DEF Parse

\* http and dnsquery take what one reply has.
LEMMA ParseOnceKeeps == ASSUME ResolverInv, ParseOnce PROVE ResolverInv'
<1>0. /\ ResolverType /\ lookup \in LookupType /\ Depths /\ Holdings /\ Progress /\ lookup.at = "parse" /\ owned = {}
      /\ UNCHANGED <<call, zone, reply, asked, owned>>
      /\ call.who \in {"http", "dnsquery"} /\ ~Expected
    BY DEF ResolverInv, ResolverType, ParseOnce, Resolving, Expected, Holdings
<1>1. Addresses \in Seq(InZone(zone.at, call.host)) BY <1>0, AddressesIs
<1>2. \/ Finish("error", <<>>)
      \/ Finish("ok", Addresses)
      \/ /\ call.who = "http" /\ Step("connect")
         /\ answer' = [code |-> "ok", addrs |-> SubSeq(Addresses, 1, IF Len(Addresses) < MaxIps THEN Len(Addresses) ELSE MaxIps)]
    BY <1>0 DEF ParseOnce
<1>3. CASE Finish("error", <<>>)
    <2>1. <<>> \in Seq(InZone(zone.at, call.host)) OBVIOUS
    <2> QED BY <1>0, <1>3, <2>1, CallEnds
<1>4. CASE Finish("ok", Addresses) BY <1>0, <1>1, <1>4, CallEnds
<1>5. CASE /\ call.who = "http" /\ Step("connect")
           /\ answer' = [code |-> "ok", addrs |-> SubSeq(Addresses, 1, IF Len(Addresses) < MaxIps THEN Len(Addresses) ELSE MaxIps)]
    <2>1. lookup' \in LookupType /\ lookup'.at = "connect" BY <1>0, <1>5, StepIs DEF Places
    <2>2. \A U : \A s \in Seq(U) : SubSeq(s, 1, IF Len(s) < MaxIps THEN Len(s) ELSE MaxIps) \in Seq(U)
        <3> SUFFICES ASSUME NEW U, NEW s \in Seq(U) PROVE SubSeq(s, 1, IF Len(s) < MaxIps THEN Len(s) ELSE MaxIps) \in Seq(U)
            OBVIOUS
        <3> DEFINE m == IF Len(s) < MaxIps THEN Len(s) ELSE MaxIps
        <3>1. m \in 0 .. Len(s) BY LimitsAssumption
        <3> HIDE DEF m
        <3>2. SubSeq(s, 1, m) \in Seq(U) BY <3>1
        <3> QED BY <3>2 DEF m
    <2>3. answer'.addrs \in Seq(InZone(zone.at, call.host)) BY <1>1, <1>5, <2>2
    <2>4. ResolverType' BY <1>0, <2>1, <2>3 DEF ResolverType, LookupType, HostWay
    <2>5. Depths' BY <1>0, <2>1 DEF Depths
    <2>6. Holdings' BY <1>0, <2>1 DEF Holdings
    <2>7. Progress' BY <1>0, <1>5, <2>1 DEF Progress, Expected
    <2> QED BY <2>4, <2>5, <2>6, <2>7 DEF ResolverInv
<1> QED BY <1>2, <1>3, <1>4, <1>5

\* What the caller holds, and the errors on its way to it.
LEMMA ResolvedKeeps == ASSUME ResolverInv, Resolved PROVE ResolverInv'
<1>0. /\ ResolverType /\ lookup \in LookupType /\ Depths /\ Holdings /\ Progress /\ lookup.at = "resolved" /\ owned = {}
      /\ UNCHANGED <<call, zone, reply, asked>>
    BY DEF ResolverInv, ResolverType, Resolved, Resolving, Holdings
<1>1. CASE MayFail("memory") /\ Finish("error", <<>>) /\ UNCHANGED owned
    <2>1. <<>> \in Seq(InZone(zone.at, call.host)) OBVIOUS
    <2>2. ~Expected BY <1>1 DEF MayFail, Expected
    <2> QED BY <1>0, <1>1, <2>1, <2>2, CallEnds
<1>2. CASE /\ UNCHANGED answer
           /\ \/ Step("returned") /\ UNCHANGED owned
              \/ Step("inUse") /\ \E name \in SUBSET {"name"} : owned' = owned \cup {"info", "address"} \cup name
    <2>1. /\ lookup' \in LookupType
          /\ \/ lookup'.at = "returned" /\ owned' = {}
             \/ lookup'.at = "inUse" /\ owned' \subseteq {"info", "address", "name"}
        BY <1>0, <1>2, StepIs DEF Places
    <2>2. ResolverType' BY <1>0, <1>2, <2>1 DEF ResolverType, LookupType, HostWay
    <2>3. Depths' BY <1>0, <2>1 DEF Depths
    <2>4. Holdings' BY <2>1 DEF Holdings
    <2>5. Progress' BY <1>0, <1>2, <2>1 DEF Progress, Expected
    <2> QED BY <2>2, <2>3, <2>4, <2>5 DEF ResolverInv
<1> QED BY <1>1, <1>2 DEF Resolved

\* The caller connects, or gives back what it holds.
LEMMA LastKeeps == ASSUME ResolverInv, FreeAddrInfo \/ Connect PROVE ResolverInv'
<1>0. ResolverType /\ lookup \in LookupType /\ Depths /\ Holdings /\ Progress BY DEF ResolverInv, ResolverType
<1>1. CASE FreeAddrInfo
    <2>1. /\ lookup.at = "inUse" /\ owned' = owned \ {"info", "address", "name"} /\ Step("returned")
          /\ UNCHANGED <<call, zone, reply, asked, answer>>
        BY <1>1 DEF FreeAddrInfo, Resolving
    <2>2. lookup' \in LookupType /\ lookup'.at = "returned" /\ owned' = {} BY <1>0, <2>1, StepIs DEF Places, Holdings
    <2>3. ResolverType' BY <1>0, <2>1, <2>2 DEF ResolverType, LookupType, HostWay
    <2>4. Depths' BY <1>0, <2>1, <2>2 DEF Depths
    <2>5. Holdings' BY <2>2 DEF Holdings
    <2>6. Progress' BY <1>0, <2>1, <2>2 DEF Progress, Expected
    <2> QED BY <2>3, <2>4, <2>5, <2>6 DEF ResolverInv
<1>2. CASE Connect
    <2> DEFINE ups == {i \in DOMAIN answer.addrs : answer.addrs[i] \in call.up}
    <2>1. /\ lookup.at = "connect" /\ owned = {} /\ UNCHANGED <<call, zone, reply, asked, owned>> /\ ~Expected
          /\ IF ups = {} THEN Finish("error", <<>>) ELSE Finish("ok", <<answer.addrs[Min(ups)]>>)
        BY <1>0, <1>2 DEF Connect, Resolving, Holdings, Progress, Expected
    <2>2. CASE ups = {}
        <3>1. <<>> \in Seq(InZone(zone.at, call.host)) /\ Finish("error", <<>>) BY <2>1, <2>2
        <3> QED BY <2>1, <3>1, CallEnds
    <2>3. CASE ups # {}
        <3>1. answer.addrs \in Seq(InZone(zone.at, call.host)) BY <1>0 DEF ResolverType
        <3>2. Min(ups) \in ups
            <4>1. ups \subseteq Nat BY <3>1
            <4> HIDE DEF ups
            <4> QED BY <2>3, <4>1, MinIn
        <3>3. answer.addrs[Min(ups)] \in InZone(zone.at, call.host) 
            <4>1. Min(ups) \in DOMAIN answer.addrs BY <3>2
            <4> HIDE DEF ups
            <4> QED BY <3>1, <4>1
        <3>4. Finish("ok", <<answer.addrs[Min(ups)]>>) BY <2>1, <2>3
        <3> HIDE DEF ups
        <3>5. <<answer.addrs[Min(ups)]>> \in Seq(InZone(zone.at, call.host)) BY <3>3
        <3> QED BY <2>1, <3>4, <3>5, CallEnds
    <2> QED BY <2>2, <2>3
<1> QED BY <1>1, <1>2

\* Each step of a look up keeps the invariant.
LEMMA ResolverKeeps == ASSUME ResolverInv, ResolverNext PROVE ResolverInv'
BY NumericKeeps, QueryKeeps, ReceiveKeeps, LostKeeps, ParseKeeps, ParseOnceKeeps, ResolvedKeeps, LastKeeps DEF ResolverNext

\* It says nothing of the other tools.
LEMMA ResolverStays == ASSUME ResolverInv, UNCHANGED resolverVars PROVE ResolverInv'
BY DEF resolverVars, ResolverInv, ResolverType, LookupType, HostWay, Depths, Holdings, Progress, Expected

\* It implies what a look up promises.
LEMMA ResolverHolds == ASSUME ResolverInv PROVE ResolverSound
<1>1. ToSet(answer.addrs) \subseteq InZone(zone.at, call.host) BY DEF ResolverInv, ResolverType, ToSet
<1>2. Depths /\ Holdings /\ Progress BY DEF ResolverInv
<1> QED BY <1>1, <1>2 DEF ResolverSound, Resolving, Depths, Holdings, Progress, Expected

----------------------------------------------------------------------------
(* All of them                                                             *)

NetInv == ScanInv /\ DiscoverInv /\ EchoInv /\ ResolverInv

\* The tools that are not run stand at a start of theirs.
LEMMA RestHolds ==
    /\ ScanRest => ScanInv
    /\ DiscoverRest => DiscoverInv
    /\ EchoRest => EchoInv
    /\ ResolverRest => ResolverInv
<1>1. ScanRest => ScanInv BY ScanStarts DEF ScanRest
<1>2. ASSUME DiscoverRest PROVE DiscoverInv
    <2> DEFINE s == [self |-> 0, size |-> 1, gateway |-> 0, noise |-> 0, hosts |-> <<>>]
    <2>1. LegalSetting(s)
        <3>1. 0 \in Addrs /\ AddrSpace % 1 = 0 BY DiscoverAssumption DEF Addrs
        <3>2. DOMAIN s.hosts = {} OBVIOUS
        <3>3. DOMAIN s = {"self", "size", "gateway", "noise", "hosts"} /\ s.self = 0 /\ s.size = 1 /\ s.noise = 0 OBVIOUS
        <3> HIDE DEF s
        <3> QED BY <3>1, <3>2, <3>3 DEF LegalSetting
    <2>2. DiscoverStart(s) BY <1>2 DEF DiscoverRest
    <2> HIDE DEF s
    <2> QED BY <2>1, <2>2, DiscoverStarts
<1>3. EchoRest => EchoInv BY EchoStarts DEF EchoRest
<1>4. ASSUME ResolverRest PROVE ResolverInv
    <2>1. LegalZone(<<>>) BY DEF LegalZone
    <2>2. ResolverStart("ping", Junk, <<>>, FALSE, Empty, {}, {}) BY <1>4 DEF ResolverRest
    <2> QED BY <2>1, <2>2, ResolverStarts
<1> QED BY <1>1, <1>2, <1>3, <1>4

\* Each tool starts in its invariant.
LEMMA NetStarts == ASSUME NetInit PROVE NetInv
<1>1. ScanInit => ScanInv BY ScanStarts DEF ScanInit
<1>2. DiscoverInit => DiscoverInv BY DiscoverStarts, DiscoverAssumption DEF DiscoverInit
<1>3. ASSUME EchoInit PROVE EchoInv
    <2>1. PICK tool \in {"ping", "sweep", "trace"}, distance \in 0 .. Farthest : EchoStart(tool, distance)
        BY <1>3 DEF EchoInit
    <2>2. distance \in Nat OBVIOUS
    <2> QED BY <2>1, <2>2, EchoStarts
<1>4. ASSUME ResolverInit PROVE ResolverInv
    <2>1. PICK who \in Callers, host \in Hosts, z \in Zones, follows \in BOOLEAN, buffer \in {Empty, Junk}, up \in UpSets, faults \in FaultSets :
              ResolverStart(who, host, z, follows, buffer, up, faults)
        BY <1>4 DEF ResolverInit
    <2>2. LegalZone(z) BY ZonesAssumption
    <2> QED BY <2>1, <2>2, ResolverStarts
<1> QED BY <1>1, <1>2, <1>3, <1>4, RestHolds DEF NetInit, NetInv

\* A step of one tool keeps its invariant, and those of the others.
LEMMA NetKeeps == ASSUME NetInv, [NetNext]_netVars PROVE NetInv'
<1>1. UNCHANGED scanVars \/ ScanNext BY DEF NetNext, netVars
<1>2. UNCHANGED discoverVars \/ DiscoverNext BY DEF NetNext, netVars
<1>3. UNCHANGED echoVars \/ EchoNext BY DEF NetNext, netVars
<1>4. UNCHANGED resolverVars \/ ResolverNext BY DEF NetNext, netVars
<1>5. ScanInv' BY <1>1, ScanKeeps, ScanStays DEF NetInv
<1>6. DiscoverInv' BY <1>2, DiscoverKeeps, DiscoverStays DEF NetInv
<1>7. EchoInv' BY <1>3, EchoKeeps, EchoStays DEF NetInv
<1>8. ResolverInv' BY <1>4, ResolverKeeps, ResolverStays DEF NetInv
<1> QED BY <1>5, <1>6, <1>7, <1>8 DEF NetInv

\* The invariant of all of the tools.
THEOREM NetInvariant == NetSpec => []NetInv
<1>1. NetInit => NetInv BY NetStarts
<1>2. NetInv /\ [NetNext]_netVars => NetInv' BY NetKeeps
<1> QED BY <1>1, <1>2, PTL DEF NetSpec

\* For any number of targets, addresses, packets and probes, whatever the
\* network loses, delays or repeats and whatever else the raw socket gets: no
\* port is reported twice and portscan reports open ones only; ping counts no
\* more answers than it sent requests, and its own; a trace ends no nearer than
\* the target is; ndiscover asks all of its network and lists hosts that exist,
\* once, with their own TTL, sorted.
THEOREM ProbesAreSound == NetSpec => []ProbesSound
<1>1. NetInv => ProbesSound BY ScanHolds, DiscoverHolds, EchoHolds DEF NetInv, ProbesSound
<1> QED BY <1>1, NetInvariant, PTL

\* For any zone, with chains of any length and loops: an address returned is
\* the host's, one behind fewer than MAX_CNAME_CHAIN aliases is found unless
\* something failed, no look up sends more queries than that, and a call that
\* has returned holds no block or socket.
THEOREM ResolverIsSound == NetSpec => []ResolverSound
<1>1. NetInv => ResolverSound BY ResolverHolds DEF NetInv
<1> QED BY <1>1, NetInvariant, PTL
=============================================================================
