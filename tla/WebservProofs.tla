--------------------------- MODULE WebservProofs ---------------------------
(***************************************************************************)
(* What webserv's threads give back, send, store and answer, for any       *)
(* number of connections, any requests, any files and any machine.         *)
(*                                                                         *)
(*   IInv       where the threads are and what they hold: every descriptor *)
(*              and mapping is tied to a stretch of the handler's code, on *)
(*              the error paths too; it gives NothingLeaks.                *)
(*   Transfers  what has been sent is the beginning of the file, what has  *)
(*              been stored the beginning of the part, and the body is a   *)
(*              stretch of what the client sends; it gives ReplyIsFile and *)
(*              SavedIsExact.                                              *)
(*   Answers    what is stored of a complete upload comes before what is   *)
(*              to be stored and nothing is left out; it gives             *)
(*              EverythingSaved.                                           *)
(*                                                                         *)
(* The parts that the search for boundaries finds in a body are those of   *)
(* the client's form: FormLaid and WholeForm show it for a form of any     *)
(* number of parts by induction over the parts.                            *)
(***************************************************************************)
EXTENDS Webserv, WellFoundedInduction, TLAPS

----------------------------------------------------------------------------
\* A set of natural numbers has a least one.
LEMMA NatMin == ASSUME NEW T, T \subseteq Nat, T # {} PROVE \E x \in T : \A y \in T : x <= y
<1> DEFINE R == OpToRel(<, Nat)
<1>1. IsWellFoundedOn(R, Nat) BY NatLessThanWellFounded
<1>2. \A x, y \in Nat : <<x, y>> \in R <=> x < y BY DEF OpToRel
<1> HIDE DEF R
<1>3. PICK x \in T : \A y \in T : ~ (<<y, x>> \in R) BY <1>1, WFMin
<1>4. ASSUME NEW y \in T PROVE x <= y
    <2>1. x \in Nat /\ y \in Nat /\ ~ (<<y, x>> \in R) BY <1>3
    <2>2. ~ (y < x) BY <2>1, <1>2
    <2> QED BY <2>1, <2>2
<1> QED BY <1>4

\* Induction over the natural numbers, for a set: what lets one speak of a
\* form of any number of parts.
LEMMA NatInd == ASSUME NEW S, 0 \in S, \A n \in Nat : n \in S => n + 1 \in S PROVE Nat \subseteq S
<1> SUFFICES ASSUME ~(Nat \subseteq S) PROVE FALSE OBVIOUS
<1> DEFINE T == Nat \ S
<1>1. PICK x \in T : \A y \in T : x <= y BY NatMin
<1>2. x # 0 /\ x - 1 \in Nat BY <1>1
<1>3. x - 1 \in S BY <1>1, <1>2
<1> QED BY <1>1, <1>2, <1>3

\* Min (memmem and the chain of checks find the first match) is attained.
LEMMA MinIn == ASSUME NEW T, T \subseteq Nat, T # {} PROVE Min(T) \in T /\ \A y \in T : Min(T) <= y
BY NatMin DEF Min

\* FlattenSeq is a chain of concatenations.
LEMMA FlattenIs ==
    ASSUME NEW U, NEW s \in Seq(Seq(U)), Len(s) > 0
    PROVE  \E f \in [1 .. Len(s) -> Seq(U)] :
              /\ FlattenSeq(s) = f[Len(s)]
              /\ \A i \in 1 .. Len(s) : f[i] = IF i = 1 THEN s[1] ELSE f[i - 1] \o s[i]
<1> DEFINE Eq(n, f) == f = [i \in 1 .. n |-> IF i = 1 THEN s[i] ELSE f[i - 1] \o s[i]]
           Has(n) == \E f \in [1 .. n -> Seq(U)] : Eq(n, f)
           S == {n \in Nat : n <= Len(s) => Has(n)}
<1>1. Has(0)
    <2>1. <<>> \in [1 .. 0 -> Seq(U)] OBVIOUS
    <2>2. Eq(0, <<>>) OBVIOUS
    <2> QED BY <2>1, <2>2
<1>2. ASSUME NEW n \in Nat, n + 1 <= Len(s), Has(n) PROVE Has(n + 1)
    <2>1. PICK f \in [1 .. n -> Seq(U)] : Eq(n, f) BY <1>2
    <2> DEFINE g == [i \in 1 .. (n + 1) |-> IF i = 1 THEN s[1] ELSE IF i = n + 1 THEN f[n] \o s[i] ELSE f[i]]
    <2>2. ASSUME NEW i \in 1 .. (n + 1) PROVE g[i] \in Seq(U)
        <3>1. s[i] \in Seq(U) BY <1>2
        <3>2. CASE i = 1 BY <3>1, <3>2
        <3>3. CASE i # 1 /\ i = n + 1
            <4>1. f[n] \in Seq(U) BY <2>1, <3>3
            <4>2. f[n] \o s[i] \in Seq(U) BY <3>1, <4>1
            <4> QED BY <3>3, <4>2
        <3>4. CASE i # 1 /\ i # n + 1
            <4>1. i \in 1 .. n BY <3>4
            <4> QED BY <2>1, <3>4, <4>1
        <3> QED BY <3>2, <3>3, <3>4
    <2>3. ASSUME NEW i \in 1 .. (n + 1) PROVE g[i] = IF i = 1 THEN s[i] ELSE g[i - 1] \o s[i]
        <3>1. \A j \in 1 .. n : f[j] = IF j = 1 THEN s[j] ELSE f[j - 1] \o s[j] BY <2>1
        <3>2. CASE i = 1 BY <3>2
        <3>3. CASE i # 1
            <4>1. i - 1 \in 1 .. n /\ i - 1 \in 1 .. (n + 1) /\ i - 1 # n + 1 BY <3>3
            <4>2. g[i - 1] = f[i - 1] BY <3>1, <4>1
            <4>3. CASE i = n + 1
                <5>1. i - 1 = n BY <4>3
                <5>2. g[i] = f[n] \o s[i] BY Zenon, <3>3, <4>3
                <5> HIDE DEF g
                <5> QED BY <3>3, <4>2, <5>1, <5>2
            <4>4. CASE i # n + 1
                <5>1. i \in 1 .. n /\ g[i] = f[i] BY <3>3, <4>4
                <5> HIDE DEF g
                <5> QED BY <3>1, <3>3, <4>2, <5>1
            <4> QED BY <4>3, <4>4
        <3> QED BY <3>2, <3>3
    <2>4. g = [i \in 1 .. (n + 1) |-> g[i]] OBVIOUS
    <2> HIDE DEF g
    <2>5. g \in [1 .. (n + 1) -> Seq(U)] BY <2>2, <2>4
    <2>6. Eq(n + 1, g) BY <2>3, <2>4
    <2> HIDE DEF Eq
    <2> QED BY <2>5, <2>6
<1>4. Has(Len(s))
    <2> HIDE DEF Has
    <2>1. 0 \in S BY <1>1
    <2>2. \A n \in Nat : n \in S => n + 1 \in S BY <1>2
    <2>3. Nat \subseteq S BY <2>1, <2>2, NatInd
    <2> QED BY <2>3
<1> DEFINE flatten == CHOOSE f : f = [i \in 1 .. Len(s) |-> IF i = 1 THEN s[i] ELSE f[i - 1] \o s[i]]
<1>5. flatten = [i \in 1 .. Len(s) |-> IF i = 1 THEN s[i] ELSE flatten[i - 1] \o s[i]]
  BY <1>4
<1>6. FlattenSeq(s) = flatten[Len(s)] 
    <2>1. Len(s) # 0 OBVIOUS
    <2> QED BY Zenon, <2>1 DEF FlattenSeq
<1> HIDE DEF flatten
<1>7. \A i \in 1 .. Len(s) : flatten[i] = IF i = 1 THEN s[i] ELSE flatten[i - 1] \o s[i]
  BY <1>5
<1>8. \A n \in Nat : n \in 1 .. Len(s) => flatten[n] \in Seq(U)
    <2> DEFINE Q == {n \in Nat : n \in 1 .. Len(s) => flatten[n] \in Seq(U)}
    <2>1. 0 \in Q OBVIOUS
    <2>2. ASSUME NEW n \in Nat, n \in Q PROVE n + 1 \in Q
        <3> SUFFICES ASSUME n + 1 \in 1 .. Len(s) PROVE flatten[n + 1] \in Seq(U) OBVIOUS
        <3>1. CASE n = 0 BY <3>1, <1>7
        <3>2. CASE n # 0
            <4>1. n \in 1 .. Len(s) /\ n + 1 # 1 /\ (n + 1) - 1 = n BY <3>2
            <4>2. flatten[n] \in Seq(U) BY <4>1, <2>2
            <4>3. s[n + 1] \in Seq(U) OBVIOUS
            <4>4. flatten[n] \o s[n + 1] \in Seq(U) BY <4>2, <4>3
            <4>5. flatten[n + 1] = flatten[n] \o s[n + 1] BY <4>1, <1>7
            <4> QED BY <4>4, <4>5
        <3> QED BY <3>1, <3>2
    <2>3. Nat \subseteq Q BY <2>1, <2>2, NatInd
    <2> QED BY <2>3
<1>9. flatten \in [1 .. Len(s) -> Seq(U)]
    <2>1. \A i \in 1 .. Len(s) : i \in Nat OBVIOUS
    <2>2. DOMAIN flatten = 1 .. Len(s) /\ flatten = [i \in DOMAIN flatten |-> flatten[i]]
      BY <1>5
    <2> QED BY <1>8, <2>1, <2>2
<1> QED BY <1>6, <1>7, <1>9

----------------------------------------------------------------------------
\* What a client sends: the lines of a head and the units of a form.
Lines == {<<"request">>, <<"length">>, <<"type">>, Blank}
FormUnit == {Boundary} \cup ({"part"} \X Nat) \cup ({"data"} \X Conns \X Nat \X Nat)
Unit == Lines \cup FormUnit

\* A boundary is no line, no part header and no data (webserv.c looks for it
\* with memmem).
LEMMA UnitsDiffer ==
    /\ Boundary \notin Lines /\ Blank \notin FormUnit
    /\ \A p : <<"part", p>> # Boundary
    /\ \A c, p, i : <<"data", c, p, i>> # Boundary
BY DEF Lines, FormUnit, Boundary, Blank

\* A part with the boundary before it.
Piece(c, r, p) == <<Boundary, <<"part", p>>>> \o Data(c, r, p)

\* Every boundary of a form but the last is followed by the header of a part,
\* its data and the next boundary.
Laid(c, r, F) ==
    \A i \in 1 .. (Len(F) - 1) :
        F[i] = Boundary =>
            \E p \in DOMAIN r.parts :
                /\ F[i + 1] = <<"part", p>>
                /\ i + 2 + r.parts[p].size <= Len(F) /\ F[i + 2 + r.parts[p].size] = Boundary
                /\ \A k \in 1 .. r.parts[p].size : F[i + 1 + k] = <<"data", c, p, k>>

\* The first n parts, each once and in order.
Numbered(n, F) ==
    /\ Len(F) > 0 /\ F[1] = Boundary
    /\ \A p \in 1 .. n : \E i \in 1 .. (Len(F) - 1) : F[i] = Boundary /\ F[i + 1] = <<"part", p>>
    /\ \A i \in 1 .. (Len(F) - 1) : F[i] = Boundary => \E p \in 1 .. n : F[i + 1] = <<"part", p>>
    /\ \A i, j \in 1 .. (Len(F) - 1) : F[i] = Boundary /\ F[j] = Boundary /\ i < j => F[i + 1][2] < F[j + 1][2]

\* A request whose numbers are numbers (ClientsAssumption).
Client(c, r) ==
    /\ c \in Conns /\ r.declared \in Int /\ r.short \in Nat
    /\ r.parts \in Seq([name : Names \cup {""}, size : Nat])

\* What a concatenation holds.
LEMMA ConcatIs ==
    ASSUME NEW U, NEW a \in Seq(U), NEW b \in Seq(U)
    PROVE  /\ a \o b \in Seq(U) /\ Len(a \o b) = Len(a) + Len(b) /\ Len(a) \in Nat /\ Len(b) \in Nat
           /\ \A i \in 1 .. Len(a) : (a \o b)[i] = a[i]
           /\ \A i \in 1 .. Len(b) : (a \o b)[Len(a) + i] = b[i]
OBVIOUS

\* What a slice of a sequence holds.
LEMMA SliceIs ==
    ASSUME NEW U, NEW s \in Seq(U), NEW m \in Nat, NEW n \in Nat, m <= n, n <= Len(s)
    PROVE  /\ SubSeq(s, m + 1, n) \in Seq(U) /\ Len(SubSeq(s, m + 1, n)) = n - m
           /\ \A i \in 1 .. (n - m) : SubSeq(s, m + 1, n)[i] = s[m + i]
OBVIOUS

\* The parts of a request.
LEMMA PartIs ==
    ASSUME NEW c, NEW r, Client(c, r)
    PROVE  /\ Len(r.parts) \in Nat /\ DOMAIN r.parts = 1 .. Len(r.parts)
           /\ (r.parts = <<>>) <=> (Len(r.parts) = 0)
           /\ \A p \in DOMAIN r.parts : p \in Nat /\ r.parts[p].size \in Nat
<1> DEFINE T == [name : Names \cup {""}, size : Nat]
<1>1. r.parts \in Seq(T) BY DEF Client
<1>2. \A x \in T : x.size \in Nat OBVIOUS
<1> HIDE DEF T
<1>3. /\ Len(r.parts) \in Nat /\ DOMAIN r.parts = 1 .. Len(r.parts)
      /\ (r.parts = <<>>) <=> (Len(r.parts) = 0)
      /\ \A p \in DOMAIN r.parts : r.parts[p] \in T
    BY <1>1
<1> QED BY <1>2, <1>3

\* What a part sends: its boundary, its header and its data.
LEMMA PieceIs ==
    ASSUME NEW c, NEW r, Client(c, r), NEW p \in DOMAIN r.parts
    PROVE  /\ r.parts[p].size \in Nat
           /\ Data(c, r, p) \in Seq(FormUnit) /\ Len(Data(c, r, p)) = r.parts[p].size
           /\ Piece(c, r, p) \in Seq(FormUnit) /\ Len(Piece(c, r, p)) = 2 + r.parts[p].size
           /\ Piece(c, r, p)[1] = Boundary /\ Piece(c, r, p)[2] = <<"part", p>>
           /\ \A k \in 1 .. r.parts[p].size : Piece(c, r, p)[2 + k] = <<"data", c, p, k>>
<1> DEFINE s == r.parts[p].size
<1>1. p \in Nat /\ s \in Nat BY PartIs
<1>2. \A i \in 1 .. s : <<"data", c, p, i>> \in FormUnit
    <2> HIDE DEF s
    <2>1. c \in Conns BY DEF Client
    <2> QED BY <1>1, <2>1 DEF FormUnit
<1>3. Data(c, r, p) = [i \in 1 .. s |-> <<"data", c, p, i>>] BY DEF Data
<1> DEFINE h == <<Boundary, <<"part", p>>>>
           d == Data(c, r, p)
<1>4. Data(c, r, p) \in Seq(FormUnit) /\ Len(Data(c, r, p)) = s
    <2> HIDE DEF s
    <2>1. Data(c, r, p) \in [1 .. s -> FormUnit] BY <1>2, <1>3
    <2> QED BY <1>1, <2>1
<1>5. Boundary \in FormUnit /\ <<"part", p>> \in FormUnit BY <1>1 DEF FormUnit
<1>6. h \in Seq(FormUnit) /\ Len(h) = 2 /\ h[1] = Boundary /\ h[2] = <<"part", p>> BY <1>5
<1>7. \A k \in 1 .. s : d[k] = <<"data", c, p, k>> BY <1>3
<1> HIDE DEF h, d, s
<1>8. d \in Seq(FormUnit) /\ Len(d) = s BY <1>4 DEF d
<1>9. /\ h \o d \in Seq(FormUnit) /\ Len(h \o d) = 2 + s
      /\ (h \o d)[1] = h[1] /\ (h \o d)[2] = h[2]
      /\ \A k \in 1 .. s : (h \o d)[2 + k] = d[k]
    <2>0. h \in Seq(FormUnit) /\ d \in Seq(FormUnit) BY <1>6, <1>8
    <2>1. /\ h \o d \in Seq(FormUnit) /\ Len(h \o d) = Len(h) + Len(d)
          /\ \A i \in 1 .. Len(h) : (h \o d)[i] = h[i]
          /\ \A i \in 1 .. Len(d) : (h \o d)[Len(h) + i] = d[i]
        BY <2>0, ConcatIs
    <2> QED BY <1>1, <1>6, <1>8, <2>1
<1> QED BY <1>1, <1>4, <1>6, <1>7, <1>9 DEF h, d, s, Piece

\* The parts up to here with the closing boundary, and with part p more.
Closed(A) == A \o <<Boundary>>
Longer(A, c, r, p) == A \o Piece(c, r, p)

\* G is B, which ends at n + 1, with part p of s units behind it.
Extends(n, s, c, p, B, G) ==
    /\ n \in Nat /\ s \in Nat /\ Len(B) = n + 1 /\ Len(G) = n + s + 3
    /\ \A i \in 1 .. (n + 1) : G[i] = B[i]
    /\ G[n + 1] = Boundary /\ G[n + 2] = <<"part", p>>
    /\ \A k \in 1 .. s : G[n + 2 + k] = <<"data", c, p, k>>
    /\ G[n + s + 3] = Boundary
    /\ \A i \in 1 .. (Len(G) - 1) : G[i] = Boundary => i <= n + 1

\* A form with one more part: up to its last boundary it is as before.
LEMMA OnePartMore ==
    ASSUME NEW c, NEW r, Client(c, r), NEW p \in DOMAIN r.parts, NEW A \in Seq(FormUnit)
    PROVE  Extends(Len(A), r.parts[p].size, c, p, Closed(A), Closed(Longer(A, c, r, p)))
<1> DEFINE B == Closed(A)
           G == Closed(Longer(A, c, r, p))
           P == Piece(c, r, p)
           s == r.parts[p].size
           n == Len(A)
<1>1. Boundary \in FormUnit BY DEF FormUnit
<1>2. /\ s \in Nat /\ P \in Seq(FormUnit) /\ Len(P) = 2 + s
      /\ P[1] = Boundary /\ P[2] = <<"part", p>>
      /\ \A k \in 1 .. s : P[2 + k] = <<"data", c, p, k>>
    BY PieceIs
<1>3. /\ B \in Seq(FormUnit) /\ Len(B) = n + 1 /\ n \in Nat
      /\ \A i \in 1 .. n : B[i] = A[i]
      /\ B[n + 1] = Boundary
    BY <1>1 DEF Closed
<1> HIDE DEF P, s, n, B, G
<1> DEFINE Q == A \o P
<1>4. /\ Q \in Seq(FormUnit) /\ Len(Q) = n + 2 + s
      /\ \A i \in 1 .. n : Q[i] = A[i]
      /\ \A i \in 1 .. (2 + s) : Q[n + i] = P[i]
    <2>1. A \in Seq(FormUnit) /\ Len(A) = n BY DEF n
    <2>0. A \in Seq(FormUnit) /\ P \in Seq(FormUnit) BY <1>2
    <2>2. /\ Q \in Seq(FormUnit) /\ Len(Q) = Len(A) + Len(P)
          /\ \A i \in 1 .. Len(A) : Q[i] = A[i]
          /\ \A i \in 1 .. Len(P) : Q[Len(A) + i] = P[i]
        BY <2>0, ConcatIs
    <2> HIDE DEF Q
    <2> QED BY <1>2, <1>3, <2>1, <2>2
<1> HIDE DEF Q
<1>5. /\ G \in Seq(FormUnit) /\ Len(G) = n + s + 3
      /\ \A i \in 1 .. (n + 2 + s) : G[i] = Q[i]
      /\ G[n + s + 3] = Boundary
    <2> DEFINE Z == <<Boundary>>
    <2>1. Z \in Seq(FormUnit) /\ Len(Z) = 1 /\ Z[1] = Boundary BY <1>1
    <2>2. G = Q \o Z BY DEF Q, P, G, Closed, Longer
    <2> HIDE DEF Z
    <2>0. Q \in Seq(FormUnit) /\ Z \in Seq(FormUnit) BY <1>4, <2>1
    <2>3. /\ Q \o Z \in Seq(FormUnit) /\ Len(Q \o Z) = Len(Q) + Len(Z)
          /\ \A i \in 1 .. Len(Q) : (Q \o Z)[i] = Q[i]
          /\ \A i \in 1 .. Len(Z) : (Q \o Z)[Len(Q) + i] = Z[i]
        BY <2>0, ConcatIs
    <2>4. /\ G \in Seq(FormUnit) /\ Len(G) = Len(Q) + Len(Z)
          /\ \A i \in 1 .. Len(Q) : G[i] = Q[i]
          /\ \A i \in 1 .. Len(Z) : G[Len(Q) + i] = Z[i]
        BY <2>2, <2>3
    <2> QED BY <1>2, <1>3, <1>4, <2>1, <2>4
<1>6. /\ \A i \in 1 .. (n + 1) : G[i] = B[i]
      /\ G[n + 1] = Boundary /\ G[n + 2] = <<"part", p>>
      /\ \A k \in 1 .. s : G[n + 2 + k] = <<"data", c, p, k>>
    <2>1. G[n + 1] = P[1] /\ G[n + 2] = P[2] BY <1>2, <1>3, <1>4, <1>5
    <2>2. ASSUME NEW k \in 1 .. s PROVE G[n + 2 + k] = P[2 + k]
        <3>1. n + 2 + k \in 1 .. (n + 2 + s) /\ 2 + k \in 1 .. (2 + s) /\ n + (2 + k) = n + 2 + k
          BY <1>2, <1>3
        <3> QED BY <1>4, <1>5, <3>1
    <2>3. \A i \in 1 .. n : G[i] = B[i] BY <1>2, <1>3, <1>4, <1>5
    <2>4. ASSUME NEW i \in 1 .. (n + 1) PROVE G[i] = B[i]
        <3>1. CASE i = n + 1 BY <1>2, <1>3, <2>1, <3>1
        <3>2. CASE i # n + 1
            <4>1. i \in 1 .. n BY <1>3, <3>2
            <4> QED BY <2>3, <4>1
        <3> QED BY <3>1, <3>2
    <2> QED BY <1>2, <2>1, <2>2, <2>4
<1>7. ASSUME NEW i \in 1 .. (Len(G) - 1), G[i] = Boundary, i > n + 1 PROVE FALSE
    <2>1. n \in Nat /\ s \in Nat /\ i <= n + 2 + s BY <1>2, <1>3, <1>5
    <2>2. CASE i = n + 2 BY <1>6, <1>7, <2>2, UnitsDiffer
    <2>3. CASE i > n + 2
        <3>1. PICK k \in 1 .. s : n + 2 + k = i
            <4>1. i - (n + 2) \in 1 .. s BY <2>1, <2>3
            <4>2. n + 2 + (i - (n + 2)) = i BY <2>1
            <4> QED BY <4>1, <4>2
        <3>2. G[i] = <<"data", c, p, k>> BY <1>6, <3>1
        <3> QED BY <1>7, <3>2, UnitsDiffer
    <2> QED BY <1>7, <2>1, <2>2, <2>3
<1>8. \A i \in 1 .. (Len(G) - 1) : G[i] = Boundary => i <= n + 1
    <2>1. n \in Nat /\ Len(G) \in Nat BY <1>2, <1>3, <1>5
    <2> QED BY <1>7, <2>1
<1>9. Extends(n, s, c, p, B, G) BY <1>2, <1>3, <1>5, <1>6, <1>8 DEF Extends
<1> QED BY <1>9 DEF n, s, B, G

\* A form stays laid out when a part is added to it.
LEMMA LaidStep ==
    ASSUME NEW c, NEW r, Client(c, r), NEW p \in DOMAIN r.parts,
           NEW A \in Seq(FormUnit), Laid(c, r, Closed(A))
    PROVE  Laid(c, r, Closed(Longer(A, c, r, p)))
<1>0. PICK B, G, n, s : /\ B = Closed(A) /\ G = Closed(Longer(A, c, r, p))
                        /\ n = Len(A) /\ s = r.parts[p].size
    OBVIOUS
<1>a. Extends(n, s, c, p, B, G) BY <1>0, OnePartMore
<1>1. /\ n \in Nat /\ s \in Nat /\ Len(B) = n + 1 /\ Len(G) = n + s + 3
      /\ \A i \in 1 .. (n + 1) : G[i] = B[i]
      /\ G[n + 1] = Boundary /\ G[n + 2] = <<"part", p>>
      /\ \A k \in 1 .. s : G[n + 2 + k] = <<"data", c, p, k>>
      /\ G[n + s + 3] = Boundary
      /\ \A i \in 1 .. (Len(G) - 1) : G[i] = Boundary => i <= n + 1
    BY <1>a DEF Extends
<1> SUFFICES ASSUME NEW i \in 1 .. (Len(G) - 1), G[i] = Boundary
             PROVE  \E q \in DOMAIN r.parts :
                        /\ G[i + 1] = <<"part", q>>
                        /\ i + 2 + r.parts[q].size <= Len(G) /\ G[i + 2 + r.parts[q].size] = Boundary
                        /\ \A k \in 1 .. r.parts[q].size : G[i + 1 + k] = <<"data", c, q, k>>
    BY <1>0 DEF Laid
<1>2. CASE i <= n
    <2>1. i \in 1 .. (Len(B) - 1) /\ B[i] = Boundary BY <1>1, <1>2
    <2>2. PICK q \in DOMAIN r.parts :
                /\ B[i + 1] = <<"part", q>>
                /\ i + 2 + r.parts[q].size <= Len(B) /\ B[i + 2 + r.parts[q].size] = Boundary
                /\ \A k \in 1 .. r.parts[q].size : B[i + 1 + k] = <<"data", c, q, k>>
        BY <1>0, <2>1 DEF Laid
    <2>3. r.parts[q].size \in Nat BY PieceIs
    <2>4. /\ i + 1 \in 1 .. (n + 1) /\ i + 2 + r.parts[q].size \in 1 .. (n + 1)
          /\ \A k \in 1 .. r.parts[q].size : i + 1 + k \in 1 .. (n + 1)
        <3>1. PICK t : t = r.parts[q].size OBVIOUS
        <3>2. n \in Nat /\ i \in 1 .. n /\ t \in Nat /\ i + 2 + t <= n + 1
            BY <1>1, <2>1, <2>2, <2>3, <3>1
        <3>3. /\ i + 1 \in 1 .. (n + 1) /\ i + 2 + t \in 1 .. (n + 1)
              /\ \A k \in 1 .. t : i + 1 + k \in 1 .. (n + 1)
            BY <3>2
        <3> QED BY <3>1, <3>3
    <2>5. n + 1 <= Len(G) BY <1>1
    <2>6. G[i + 1] = <<"part", q>> BY <1>1, <2>2, <2>4
    <2>7. G[i + 2 + r.parts[q].size] = Boundary BY <1>1, <2>2, <2>4
    <2>8. \A k \in 1 .. r.parts[q].size : G[i + 1 + k] = <<"data", c, q, k>>
      BY <1>1, <2>2, <2>4
    <2>9. i + 2 + r.parts[q].size <= Len(G) BY <1>1, <2>3, <2>4
    <2> QED BY <2>6, <2>7, <2>8, <2>9
<1>3. CASE i = n + 1
    <2>1. G[i + 1] = <<"part", p>> /\ i + 2 + s = Len(G) /\ G[i + 2 + s] = Boundary
        BY <1>1, <1>3
    <2>2. ASSUME NEW k \in 1 .. s PROVE G[i + 1 + k] = <<"data", c, p, k>>
        <3>1. i + 1 + k = n + 2 + k BY <1>1, <1>3
        <3> QED BY <1>1, <3>1
    <2>3. i + 2 + s <= Len(G) BY <1>1, <2>1
    <2> QED BY <1>0, <2>1, <2>2, <2>3
<1> QED BY <1>1, <1>2, <1>3

\* A form of one part holds the first part.
LEMMA NumberedFirst ==
    ASSUME NEW c, NEW r, Client(c, r), 1 \in DOMAIN r.parts
    PROVE  Numbered(1, Closed(Piece(c, r, 1)))
<1>0. PICK A, B, G, s : /\ A = <<>> /\ B = Closed(A) /\ G = Closed(Longer(A, c, r, 1))
                        /\ s = r.parts[1].size
    OBVIOUS
<1>1. A \in Seq(FormUnit) /\ Len(A) = 0 BY <1>0
<1>a. Extends(0, s, c, 1, B, G) BY <1>0, <1>1, OnePartMore
<1>2. /\ s \in Nat /\ Len(G) = 0 + s + 3
      /\ G[0 + 1] = Boundary /\ G[0 + 2] = <<"part", 1>>
      /\ \A i \in 1 .. (Len(G) - 1) : G[i] = Boundary => i <= 0 + 1
    BY <1>a DEF Extends
<1>3. \A i \in 1 .. (Len(G) - 1) : G[i] = Boundary => i = 1 BY <1>2
<1>4. 1 \in 1 .. (Len(G) - 1) /\ G[1] = Boundary /\ G[1 + 1] = <<"part", 1>> /\ 1 \in 1 .. 1
  BY <1>2
<1>5. Numbered(1, G) BY <1>2, <1>3, <1>4 DEF Numbered
<1>6. Longer(<<>>, c, r, 1) = Piece(c, r, 1) BY PieceIs DEF Longer
<1> QED BY <1>0, <1>5, <1>6

\* A form of m parts holds m + 1 when the next is added to it.
LEMMA NumberedStep ==
    ASSUME NEW c, NEW r, Client(c, r), NEW p \in DOMAIN r.parts, NEW m \in Nat, p = m + 1,
           NEW A \in Seq(FormUnit), Numbered(m, Closed(A))
    PROVE  Numbered(m + 1, Closed(Longer(A, c, r, p)))
<1>0. PICK B, G, n, s : /\ B = Closed(A) /\ G = Closed(Longer(A, c, r, p))
                        /\ n = Len(A) /\ s = r.parts[p].size
    OBVIOUS
<1>a. Extends(n, s, c, p, B, G) BY <1>0, OnePartMore
<1>1. /\ n \in Nat /\ s \in Nat /\ Len(B) = n + 1 /\ Len(G) = n + s + 3
      /\ \A i \in 1 .. (n + 1) : G[i] = B[i]
      /\ G[n + 1] = Boundary /\ G[n + 2] = <<"part", p>>
      /\ \A i \in 1 .. (Len(G) - 1) : G[i] = Boundary => i <= n + 1
    BY <1>a DEF Extends
<1>2. /\ B[1] = Boundary
      /\ \A q \in 1 .. m : \E i \in 1 .. (Len(B) - 1) : B[i] = Boundary /\ B[i + 1] = <<"part", q>>
      /\ \A i \in 1 .. (Len(B) - 1) : B[i] = Boundary => \E q \in 1 .. m : B[i + 1] = <<"part", q>>
      /\ \A i, j \in 1 .. (Len(B) - 1) : B[i] = Boundary /\ B[j] = Boundary /\ i < j => B[i + 1][2] < B[j + 1][2]
    BY <1>0 DEF Numbered
\* A boundary before the last of B is where it was; the last starts part p.
<1>3. ASSUME NEW i \in 1 .. (Len(G) - 1), G[i] = Boundary
      PROVE  \/ i \in 1 .. n /\ B[i] = Boundary /\ G[i + 1] = B[i + 1]
             \/ i = n + 1 /\ G[i + 1] = <<"part", p>>
    <2>1. i <= n + 1 BY <1>1, <1>3
    <2>2. CASE i = n + 1 BY <1>1, <2>2
    <2>3. CASE i <= n
        <3>1. i \in 1 .. (n + 1) /\ i + 1 \in 1 .. (n + 1) /\ i \in 1 .. n BY <1>1, <2>3
        <3> QED BY <1>1, <1>3, <3>1
    <2> QED BY <1>1, <2>1, <2>2, <2>3
<1>4. Len(G) > 0 /\ G[1] = Boundary BY <1>1, <1>2
<1>5. ASSUME NEW q \in 1 .. (m + 1)
      PROVE  \E i \in 1 .. (Len(G) - 1) : G[i] = Boundary /\ G[i + 1] = <<"part", q>>
    <2>1. CASE q = p
        <3>1. n + 1 \in 1 .. (Len(G) - 1) /\ (n + 1) + 1 = n + 2 BY <1>1
        <3> QED BY <1>1, <2>1, <3>1
    <2>2. CASE q # p
        <3>1. q \in 1 .. m BY <2>2
        <3>2. PICK i \in 1 .. (Len(B) - 1) : B[i] = Boundary /\ B[i + 1] = <<"part", q>>
          BY <1>2, <3>1
        <3>3. i \in 1 .. (Len(G) - 1) /\ i \in 1 .. (n + 1) /\ i + 1 \in 1 .. (n + 1)
            <4>1. n \in Nat /\ s \in Nat /\ Len(B) = n + 1 /\ Len(G) = n + s + 3 BY <1>1
            <4> QED BY <4>1
        <3>4. G[i] = B[i] /\ G[i + 1] = B[i + 1] BY <1>1, <3>3
        <3> QED BY <3>2, <3>3, <3>4
    <2> QED BY <2>1, <2>2
<1>6. ASSUME NEW i \in 1 .. (Len(G) - 1), G[i] = Boundary
      PROVE  \E q \in 1 .. (m + 1) : G[i + 1] = <<"part", q>>
    <2>1. CASE i \in 1 .. n /\ B[i] = Boundary /\ G[i + 1] = B[i + 1]
        <3>1. i \in 1 .. (Len(B) - 1) BY <1>1, <2>1
        <3>2. PICK q \in 1 .. m : B[i + 1] = <<"part", q>> BY <1>2, <2>1, <3>1
        <3>3. q \in 1 .. (m + 1) OBVIOUS
        <3> QED BY <2>1, <3>2, <3>3
    <2>2. CASE G[i + 1] = <<"part", p>>
        <3>1. p \in 1 .. (m + 1) OBVIOUS
        <3> QED BY <2>2, <3>1
    <2> QED BY <1>3, <1>6, <2>1, <2>2
<1>7. ASSUME NEW i \in 1 .. (Len(G) - 1), NEW j \in 1 .. (Len(G) - 1),
             G[i] = Boundary, G[j] = Boundary, i < j
      PROVE  G[i + 1][2] < G[j + 1][2]
    <2>1. i \in 1 .. n /\ B[i] = Boundary /\ G[i + 1] = B[i + 1] BY <1>1, <1>3, <1>7
    <2>2. i \in 1 .. (Len(B) - 1) BY <1>1, <2>1
    <2>3. CASE j \in 1 .. n /\ B[j] = Boundary /\ G[j + 1] = B[j + 1]
        <3>1. j \in 1 .. (Len(B) - 1) BY <1>1, <2>3
        <3>2. B[i + 1][2] < B[j + 1][2] BY <1>2, <1>7, <2>1, <2>2, <2>3, <3>1
        <3> QED BY <2>1, <2>3, <3>2
    <2>4. CASE G[j + 1] = <<"part", p>>
        <3>1. PICK q \in 1 .. m : B[i + 1] = <<"part", q>> BY <1>2, <2>1, <2>2
        <3>2. G[i + 1][2] = q /\ G[j + 1][2] = p BY <2>1, <2>4, <3>1
        <3> QED BY <3>2
    <2> QED BY <1>3, <1>7, <2>3, <2>4
<1>8. Numbered(m + 1, G) BY <1>4, <1>5, <1>6, <1>7 DEF Numbered
<1> QED BY <1>0, <1>8

\* The form is laid out so.
LEMMA FormLaid ==
    ASSUME NEW c, NEW r, Client(c, r)
    PROVE  /\ Form(c, r) \in Seq(FormUnit) /\ Laid(c, r, Form(c, r))
           /\ r.parts # <<>> => Numbered(Len(r.parts), Form(c, r))
           /\ r.parts = <<>> => Form(c, r) = <<>>
<1> DEFINE P == [p \in DOMAIN r.parts |-> Piece(c, r, p)]
           N == Len(r.parts)
<1>1. N \in Nat /\ DOMAIN r.parts = 1 .. N BY PartIs
<1>2. Boundary \in FormUnit BY DEF FormUnit
<1>3. Form(c, r) = FlattenSeq(P) \o (IF r.parts = <<>> THEN <<>> ELSE <<Boundary>>)
    BY DEF Form, Piece
<1>4. \A p \in 1 .. N : P[p] = Piece(c, r, p) /\ P[p] \in Seq(FormUnit) BY <1>1, PieceIs
<1>5. P \in [1 .. N -> Seq(FormUnit)] BY <1>1, <1>4
<1>6. P \in Seq(Seq(FormUnit)) /\ Len(P) = N BY <1>1, <1>5
<1>7. CASE r.parts = <<>>
    <2>1. N = 0 BY <1>7
    <2>2. FlattenSeq(P) = P BY <1>6, <2>1 DEF FlattenSeq
    <2>3. P = <<>> BY <1>6, <2>1
    <2>4. Form(c, r) = <<>>
        <3> HIDE DEF P
        <3> QED BY <1>3, <1>7, <2>2, <2>3
    <2> QED BY <1>7, <2>4 DEF Laid
<1>8. CASE r.parts # <<>>
    <2>1. N > 0 BY <1>8, PartIs
    <2> HIDE DEF P, N
    <2>2. PICK f \in [1 .. N -> Seq(FormUnit)] :
                /\ FlattenSeq(P) = f[N]
                /\ \A i \in 1 .. N : f[i] = IF i = 1 THEN P[1] ELSE f[i - 1] \o P[i]
        BY <1>6, <2>1, FlattenIs
    <2> DEFINE S == {n \in Nat : n + 1 <= N => Laid(c, r, Closed(f[n + 1])) /\ Numbered(n + 1, Closed(f[n + 1]))}
    <2>3. 0 \in S
        <3>1. Laid(c, r, Closed(<<>>)) BY <1>2 DEF Laid, Closed
        <3>2. 1 \in DOMAIN r.parts BY <1>1, <2>1
        <3>3. Laid(c, r, Closed(Longer(<<>>, c, r, 1)))
            <4>1. <<>> \in Seq(FormUnit) OBVIOUS
            <4> QED BY <3>1, <3>2, <4>1, LaidStep
        <3>6. Numbered(1, Closed(Piece(c, r, 1))) BY <3>2, NumberedFirst
        <3>4. Longer(<<>>, c, r, 1) = Piece(c, r, 1) BY <3>2, PieceIs DEF Longer
        <3>5. f[1] = Piece(c, r, 1)
            <4>1. 1 \in 1 .. N BY <1>1, <2>1
            <4>2. f[1] = P[1] BY <2>2, <4>1
            <4> QED BY <1>4, <4>1, <4>2
        <3> QED BY <3>3, <3>4, <3>5, <3>6
    <2>4. ASSUME NEW n \in Nat, n \in S PROVE n + 1 \in S
        <3> SUFFICES ASSUME n + 2 <= N PROVE Laid(c, r, Closed(f[n + 2])) /\ Numbered(n + 2, Closed(f[n + 2]))
          BY <1>1
        <3>1. n + 1 \in 1 .. N /\ n + 2 \in 1 .. N /\ n + 2 # 1 /\ (n + 2) - 1 = n + 1
          BY <1>1
        <3>2. f[n + 1] \in Seq(FormUnit) BY <2>2, <3>1
        <3>3. Laid(c, r, Closed(f[n + 1])) /\ Numbered(n + 1, Closed(f[n + 1]))
          BY <2>4, <3>1
        <3>4. f[n + 2] = Longer(f[n + 1], c, r, n + 2) BY <1>4, <2>2, <3>1 DEF Longer
        <3>5. Laid(c, r, Closed(f[n + 2])) BY <1>1, <3>1, <3>2, <3>3, <3>4, LaidStep
        <3>6. Numbered(n + 2, Closed(f[n + 2]))
            <4>1. n + 2 = (n + 1) + 1 /\ n + 1 \in Nat /\ n + 2 \in DOMAIN r.parts
              BY <1>1, <3>1
            <4> QED BY <3>2, <3>3, <3>4, <4>1, NumberedStep
        <3> QED BY <3>5, <3>6
    <2>5. Nat \subseteq S
        <3> HIDE DEF S
        <3> QED BY <2>3, <2>4, NatInd
    <2>6. N - 1 \in S /\ (N - 1) + 1 = N
        <3> HIDE DEF S
        <3>1. N - 1 \in Nat BY <1>1, <2>1
        <3> QED BY <1>1, <2>5, <3>1
    <2>7. Laid(c, r, Closed(f[N])) /\ Numbered(N, Closed(f[N])) BY <1>1, <2>6
    <2>8. f[N] \in Seq(FormUnit) BY <1>1, <2>1, <2>2
    <2>9. Closed(f[N]) \in Seq(FormUnit) BY <1>2, <2>8 DEF Closed
    <2>10. Form(c, r) = Closed(f[N]) BY <1>3, <1>8, <2>2 DEF Closed
    <2> QED BY <1>8, <2>7, <2>9, <2>10 DEF N
<1> QED BY <1>7, <1>8

\* The head of a request starts with its request line and ends with its only
\* blank line.
LEMMA HeadIs ==
    ASSUME NEW r
    PROVE  /\ HeadOf(r) \in Seq(Lines) /\ Len(HeadOf(r)) \in Nat \ {0}
           /\ HeadOf(r)[1] = <<"request">>
           /\ \A i \in 1 .. Len(HeadOf(r)) : HeadOf(r)[i] = Blank <=> i = Len(HeadOf(r))
<1> DEFINE W == Lines \ {Blank}
           a == <<<<"request">>>>
           b == IF r.declared >= 0 THEN <<<<"length">>>> ELSE <<>>
           d == IF r.multipart THEN <<<<"type">>>> ELSE <<>>
           z == <<Blank>>
<1>1. a \in Seq(W) /\ b \in Seq(W) /\ d \in Seq(W) /\ z \in Seq(Lines)
    <2>1. {<<"request">>, <<"length">>, <<"type">>} \subseteq W /\ Blank \in Lines
      BY DEF Lines, Blank
    <2> HIDE DEF W
    <2> QED BY <2>1
<1>2. /\ Len(a) = 1 /\ a[1] = <<"request">> /\ Len(z) = 1 /\ z[1] = Blank
      /\ HeadOf(r) = ((a \o b) \o d) \o z
    BY DEF HeadOf
<1>3. W \subseteq Lines /\ Blank \notin W OBVIOUS
<1> HIDE DEF W, a, b, d, z
<1> DEFINE x == a \o b
           y == x \o d
           h == y \o z
<1>4. x \in Seq(W) /\ Len(x) = 1 + Len(b) /\ Len(b) \in Nat /\ x[1] = <<"request">>
    <2>1. /\ Len(x) = Len(a) + Len(b) /\ Len(b) \in Nat
          /\ \A i \in 1 .. Len(a) : x[i] = a[i]
        BY <1>1, ConcatIs
    <2>2. x \in Seq(W) BY <1>1
    <2> HIDE DEF x
    <2> QED BY <1>2, <2>1, <2>2
<1> HIDE DEF x
<1>5. y \in Seq(W) /\ Len(y) \in Nat \ {0} /\ y[1] = <<"request">>
    <2>0. x \in Seq(W) /\ d \in Seq(W) BY <1>1, <1>4
    <2>1. /\ Len(y) = Len(x) + Len(d) /\ Len(d) \in Nat
          /\ \A i \in 1 .. Len(x) : y[i] = x[i]
        BY <2>0, ConcatIs
    <2>2. y \in Seq(W) BY <1>1, <1>4
    <2> HIDE DEF y
    <2> QED BY <1>4, <2>1, <2>2
<1> HIDE DEF y
<1>6. y \in Seq(Lines) /\ \A i \in 1 .. Len(y) : y[i] # Blank BY <1>3, <1>5
<1>7. /\ h \in Seq(Lines) /\ Len(h) = Len(y) + 1
      /\ \A i \in 1 .. Len(y) : h[i] = y[i]
      /\ h[Len(y) + 1] = Blank
    <2>1. /\ h \in Seq(Lines) /\ Len(h) = Len(y) + Len(z)
          /\ \A i \in 1 .. Len(y) : h[i] = y[i]
          /\ \A i \in 1 .. Len(z) : h[Len(y) + i] = z[i]
        BY <1>1, <1>6, ConcatIs
    <2> HIDE DEF h
    <2> QED BY <1>2, <1>5, <2>1
<1> HIDE DEF h
<1>8. HeadOf(r) = h BY <1>2 DEF h, y, x
<1> QED BY <1>5, <1>6, <1>7, <1>8

\* What a client sends.
LEMMA StreamIs ==
    ASSUME NEW c, NEW r, Client(c, r)
    PROVE  /\ Sends(c, r) \in Seq(Unit)
           /\ Len(Sends(c, r)) <= Len(HeadOf(r)) + Len(Form(c, r))
           /\ Len(Sends(c, r)) > 0 => Sends(c, r)[1] = <<"request">>
           /\ \A i \in 1 .. Len(Sends(c, r)) : Sends(c, r)[i] = Blank => i = Len(HeadOf(r))
           /\ \A i \in 1 .. Len(Form(c, r)) :
                Len(HeadOf(r)) + i <= Len(Sends(c, r)) => Sends(c, r)[Len(HeadOf(r)) + i] = Form(c, r)[i]
<1> DEFINE h == HeadOf(r)
           f == Form(c, r)
           all == h \o f
           s == Sends(c, r)
<1>1. /\ h \in Seq(Lines) /\ Len(h) \in Nat \ {0} /\ h[1] = <<"request">>
      /\ \A i \in 1 .. Len(h) : h[i] = Blank <=> i = Len(h)
    BY HeadIs
<1>2. f \in Seq(FormUnit) BY FormLaid
<1>3. s = SubSeq(all, 1, Len(all) - r.short) BY DEF Sends
<1>4. r.short \in Nat BY DEF Client
<1> HIDE DEF h, f, s
<1>5. h \in Seq(Unit) /\ f \in Seq(Unit)
    <2>1. Lines \subseteq Unit /\ FormUnit \subseteq Unit BY DEF Unit
    <2> QED BY <1>1, <1>2, <2>1
<1>6. /\ all \in Seq(Unit) /\ Len(all) = Len(h) + Len(f) /\ Len(f) \in Nat
      /\ \A i \in 1 .. Len(h) : all[i] = h[i]
      /\ \A i \in 1 .. Len(f) : all[Len(h) + i] = f[i]
    BY <1>5, ConcatIs
<1> HIDE DEF all
<1>7. Len(all) \in Nat /\ Len(all) - r.short \in Int BY <1>1, <1>4, <1>6
<1>8. /\ s \in Seq(Unit) /\ Len(s) \in Nat /\ Len(s) <= Len(all)
      /\ \A i \in 1 .. Len(s) : s[i] = all[i]
    BY <1>3, <1>4, <1>6, <1>7
<1>9. Len(s) > 0 => s[1] = <<"request">> BY <1>1, <1>6, <1>8
<1>10. ASSUME NEW i \in 1 .. Len(s), s[i] = Blank PROVE i = Len(h)
    <2>1. CASE i <= Len(h) BY <1>1, <1>6, <1>8, <1>10, <2>1
    <2>2. CASE i > Len(h)
        <3>1. PICK k \in 1 .. Len(f) : Len(h) + k = i
            <4>1. i - Len(h) \in 1 .. Len(f) /\ Len(h) + (i - Len(h)) = i
              BY <1>1, <1>6, <1>8, <2>2
            <4> QED BY <4>1
        <3>2. f[k] = Blank BY <1>6, <1>8, <1>10, <3>1
        <3> QED BY <1>2, <3>1, <3>2, UnitsDiffer
    <2> QED BY <1>1, <1>8, <2>1, <2>2
<1>11. ASSUME NEW i \in 1 .. Len(f), Len(h) + i <= Len(s) PROVE s[Len(h) + i] = f[i]
    <2>1. Len(h) + i \in 1 .. Len(s) BY <1>1, <1>6, <1>8, <1>11
    <2> QED BY <1>6, <1>8, <2>1
<1> QED BY <1>6, <1>8, <1>9, <1>10, <1>11 DEF h, f, s

\* b is the beginning of F: what has come of a form.
Starts(b, F) == Len(b) <= Len(F) /\ \A i \in 1 .. Len(b) : b[i] = F[i]

\* Between a boundary of the body and the next one are the header of a part
\* and all of its data.
LEMMA PartWhole ==
    ASSUME NEW c, NEW r, Client(c, r), NEW b \in Seq(Unit), Starts(b, Form(c, r)),
           NEW i \in Boundaries(b), After(b, i) # {}
    PROVE  /\ b[i + 1][2] \in DOMAIN r.parts
           /\ SubSeq(b, i + 2, Min(After(b, i)) - 1) = Data(c, r, b[i + 1][2])
<1> DEFINE F == Form(c, r)
           next == Min(After(b, i))
<1>1. F \in Seq(FormUnit) /\ Laid(c, r, F) BY FormLaid
<1>2. /\ Len(b) \in Nat /\ Len(F) \in Nat /\ Len(b) <= Len(F)
      /\ \A j \in 1 .. Len(b) : b[j] = F[j]
    BY <1>1 DEF Starts
<1> HIDE DEF F
<1>3. /\ i \in 1 .. Len(b) /\ b[i] = Boundary
      /\ \A j : j \in After(b, i) <=> j \in 1 .. Len(b) /\ b[j] = Boundary /\ j > i
    BY DEF Boundaries, After
<1>4. After(b, i) \subseteq Nat BY <1>3
<1>5. next \in After(b, i) /\ \A j \in After(b, i) : next <= j BY <1>4, MinIn
<1> HIDE DEF next
<1>6. next \in 1 .. Len(b) /\ b[next] = Boundary /\ next > i BY <1>3, <1>5
<1>7. i \in 1 .. (Len(F) - 1) /\ F[i] = Boundary BY <1>2, <1>3, <1>6
<1>8. PICK p \in DOMAIN r.parts :
            /\ F[i + 1] = <<"part", p>>
            /\ i + 2 + r.parts[p].size <= Len(F) /\ F[i + 2 + r.parts[p].size] = Boundary
            /\ \A k \in 1 .. r.parts[p].size : F[i + 1 + k] = <<"data", c, p, k>>
    BY <1>1, <1>7 DEF Laid
<1> DEFINE s == r.parts[p].size
<1>9. s \in Nat BY PartIs
<1> HIDE DEF s
<1>10. next = i + 2 + s
    <2>1. next # i + 1 BY <1>2, <1>6, <1>8, UnitsDiffer
    <2>2. ASSUME next > i + 1, next < i + 2 + s PROVE FALSE
        <3>1. PICK k \in 1 .. s : i + 1 + k = next
            <4>1. next - (i + 1) \in 1 .. s /\ i + 1 + (next - (i + 1)) = next
              BY <1>3, <1>6, <1>9, <2>2
            <4> QED BY <4>1
        <3>2. F[next] = <<"data", c, p, k>> BY <1>8, <3>1 DEF s
        <3> QED BY <1>2, <1>6, <3>2, UnitsDiffer
    <2>3. next >= i + 2 + s BY <1>3, <1>6, <1>9, <2>1, <2>2
    <2>4. i + 2 + s \in 1 .. Len(b) BY <1>3, <1>6, <1>9, <2>3
    <2>5. i + 2 + s \in After(b, i) BY <1>2, <1>3, <1>8, <1>9, <2>4 DEF s
    <2>6. next <= i + 2 + s BY <1>5, <2>5
    <2>7. next \in Nat /\ i \in Nat BY <1>3, <1>6
    <2> QED BY <1>9, <2>3, <2>6, <2>7
<1>11. b[i + 1] = <<"part", p>>
    <2>1. Len(b) \in Nat /\ i \in 1 .. Len(b) /\ next \in 1 .. Len(b) /\ next > i BY <1>2, <1>3, <1>6
    <2>2. i + 1 \in 1 .. Len(b) BY <2>1
    <2>3. b[i + 1] = F[i + 1] BY <1>2, <2>2
    <2> QED BY <1>8, <2>3
<1>12. SubSeq(b, i + 2, next - 1) = Data(c, r, p)
    <2> DEFINE x == SubSeq(b, i + 2, next - 1)
               d == Data(c, r, p)
    <2>1. /\ x \in Seq(Unit) /\ Len(x) = s
          /\ \A k \in 1 .. s : x[k] = b[i + 1 + k]
        BY <1>3, <1>6, <1>9, <1>10
    <2>2. d = [k \in 1 .. s |-> <<"data", c, p, k>>] BY DEF Data, s
    <2>3. ASSUME NEW k \in 1 .. s PROVE x[k] = <<"data", c, p, k>>
        <3>1. i + 1 + k \in 1 .. Len(b) BY <1>3, <1>6, <1>9, <1>10
        <3> QED BY <1>2, <1>8, <2>1, <3>1 DEF s
    <2> HIDE DEF x, d
    <2>4. x = [k \in 1 .. s |-> x[k]] BY <2>1
    <2> QED BY <2>2, <2>3, <2>4 DEF x, d
<1>13. b[i + 1][2] = p BY <1>11
<1> QED BY <1>12, <1>13 DEF next
Pcs == {"none", "accepted", "recv", "reply", "open", "send", "opendir", "list",
        "bodymap", "body", "save", "write", "out", "done"}
Kinds == {"socket", "arg", "stack", "body", "listing", "file"}

\* The type of the threads, of what they hold and of the accept loop.
Shape ==
    /\ pc \in [Conns -> Pcs]
    /\ held \subseteq Kinds \X Conns
    /\ srv \in [at : {"accept", "map", "spawn", "dead"}, n : 0 .. NConns]

\* The accept loop works on the connection accepted last, before its thread;
\* later ones do not exist yet.
LoopShape ==
    /\ srv.at \in {"map", "spawn"} => srv.n \in Conns /\ pc[srv.n] = "accepted"
    /\ \A c \in Conns : c > srv.n => pc[c] = "none"

\* The stretches of code in which a thread holds what it has to give back.
Stretches ==
    \A c \in Conns :
        /\ <<"file", c>> \in held => pc[c] \in {"send", "write"}
        /\ <<"body", c>> \in held => pc[c] \in {"body", "save", "write"}
        /\ <<"listing", c>> \in held => pc[c] = "list"
        /\ pc[c] = "done" => <<"socket", c>> \notin held /\ <<"arg", c>> \notin held

IInv == Shape /\ LoopShape /\ Stretches
----------------------------------------------------------------------------
\* What holds in the stretches leaves the stack only, at the end.
LEMMA InvImplies == IInv => NothingLeaks
<1> SUFFICES ASSUME IInv, NEW c \in Conns, pc[c] = "done", NEW h \in held, h[2] = c
             PROVE  h[1] = "stack"
    BY DEF NothingLeaks
<1>1. h = <<h[1], c>> /\ h[1] \in Kinds
    BY DEF IInv, Shape
<1>2. <<"file", c>> \notin held /\ <<"body", c>> \notin held /\ <<"listing", c>> \notin held
      /\ <<"socket", c>> \notin held /\ <<"arg", c>> \notin held
    BY DEF IInv, Stretches
<1> QED BY <1>1, <1>2 DEF Kinds

\* The server starts with nothing.
LEMMA InitHolds == Init => IInv
<1> USE BoundsAssumption DEF Init, Conns
<1>1. Init => Shape BY DEF Shape, Pcs
<1>2. Init => LoopShape /\ Stretches BY DEF LoopShape, Stretches
<1> QED BY <1>1, <1>2 DEF IInv

\* Accepting a connection gives it a socket; nothing was held for it before.
LEMMA AcceptKeeps == ASSUME IInv, Accept PROVE IInv'
<1> USE BoundsAssumption DEF IInv, Shape, Conns
<1> DEFINE n == srv.n + 1
<1>1. n \in Conns /\ srv'.n = n /\ srv'.at = "map" /\ pc[n] = "none"
    BY DEF Accept, LoopShape
<1>2. pc' = [pc EXCEPT ![n] = "accepted"] /\ held' = held \cup {<<"socket", n>>}
    BY DEF Accept, Go
<1>3. srv' \in [at : {"accept", "map", "spawn", "dead"}, n : 0 .. NConns] BY <1>1 DEF Accept
<1> HIDE DEF n
<1>4. Shape' BY <1>1, <1>2, <1>3 DEF Pcs, Kinds
<1>5. LoopShape' BY <1>1, <1>2 DEF LoopShape, n, Pcs
<1>6. Stretches' BY <1>1, <1>2 DEF Stretches
<1> QED BY <1>4, <1>5, <1>6

\* The argument belongs to a connection whose thread has not started.
LEMMA MapArgKeeps == ASSUME IInv, MapArg PROVE IInv'
<1>1. /\ srv' \in [at : {"spawn", "dead"}, n : 0 .. NConns] /\ srv'.n = srv.n
      /\ pc' = pc /\ (held' = held \/ held' = held \cup {<<"arg", srv.n>>})
    BY DEF IInv, Shape, MapArg, Dies
<1>2. srv.n \in Conns /\ pc[srv.n] = "accepted"
    BY DEF IInv, LoopShape, MapArg
<1>3. Shape' BY <1>1, <1>2 DEF IInv, Shape, Kinds
<1>4. LoopShape' BY <1>1, <1>2 DEF IInv, LoopShape
<1>5. ASSUME held' = held PROVE Stretches' BY <1>1, <1>5 DEF IInv, Stretches
<1>6. ASSUME held' = held \cup {<<"arg", srv.n>>} PROVE Stretches'
    BY <1>1, <1>2, <1>6 DEF IInv, Shape, Stretches
<1>7. Stretches' BY <1>1, <1>5, <1>6
<1> QED BY <1>3, <1>4, <1>7 DEF IInv

\* A started thread holds its stack besides socket and argument.
LEMMA SpawnKeeps == ASSUME IInv, Spawn PROVE IInv'
<1>1. /\ srv' \in [at : {"accept", "dead"}, n : 0 .. NConns] /\ srv'.n = srv.n
      /\ \/ pc' = [pc EXCEPT ![srv.n] = "recv"] /\ held' = held \cup {<<"stack", srv.n>>}
         \/ pc' = pc /\ held' = held
    BY DEF IInv, Shape, Spawn, Goto, Dies
<1>2. srv.n \in Conns /\ pc[srv.n] = "accepted"
    BY DEF IInv, LoopShape, Spawn
<1>3. Shape' BY <1>1, <1>2 DEF IInv, Shape, Kinds, Pcs
<1>4. LoopShape' BY <1>1, <1>2, BoundsAssumption DEF IInv, Shape, LoopShape, Conns
<1>5. ASSUME pc' = [pc EXCEPT ![srv.n] = "recv"], held' = held \cup {<<"stack", srv.n>>}
      PROVE  Stretches'
    BY <1>2, <1>5 DEF IInv, Shape, Stretches
<1>6. ASSUME pc' = pc, held' = held PROVE Stretches' BY <1>6 DEF IInv, Stretches
<1>7. Stretches' BY <1>1, <1>5, <1>6
<1> QED BY <1>3, <1>4, <1>7 DEF IInv

\* A step of a handler moves one thread; what it takes and gives back fits
\* the place it moves to.
LEMMA HandleKeeps == ASSUME IInv, NEW c \in Conns, Handle(c) PROVE IInv'
<1>1. CASE RecvHead(c)
    <2>1. Shape' BY <1>1 DEF RecvHead, Go, Pcs, Kinds, IInv, Shape, At, Alive
    <2>2. LoopShape' BY <1>1 DEF RecvHead, Go, Pcs, Conns, IInv, Shape, At, Alive, LoopShape
    <2>3. Stretches' BY <1>1 DEF RecvHead, Go, Pcs, IInv, Shape, At, Alive, Stretches
    <2> QED BY <2>1, <2>2, <2>3 DEF IInv
<1>2. CASE RecvNothing(c)
    <2>1. Shape' BY <1>2 DEF RecvNothing, Goto, Pcs, Kinds, IInv, Shape, At, Alive
    <2>2. LoopShape'
      BY <1>2
      DEF RecvNothing, Goto, Pcs, Conns, IInv, Shape, At, Alive, LoopShape
    <2>3. Stretches' BY <1>2 DEF RecvNothing, Goto, Pcs, IInv, Shape, At, Alive, Stretches
    <2> QED BY <2>1, <2>2, <2>3 DEF IInv
<1>3. CASE OpenFile(c)
    <2>1. Shape' BY <1>3 DEF OpenFile, Go, Pcs, Kinds, IInv, Shape, At, Alive
    <2>2. LoopShape' BY <1>3 DEF OpenFile, Go, Pcs, Conns, IInv, Shape, At, Alive, LoopShape
    <2>3. Stretches' BY <1>3 DEF OpenFile, Go, Pcs, IInv, Shape, At, Alive, Stretches
    <2> QED BY <2>1, <2>2, <2>3 DEF IInv
<1>4. CASE OpenFails(c)
    <2>1. Shape' BY <1>4 DEF OpenFails, Error, Go, Pcs, Kinds, IInv, Shape, At, Alive
    <2>2. LoopShape'
      BY <1>4
      DEF OpenFails, Error, Go, Pcs, Conns, IInv, Shape, At, Alive, LoopShape
    <2>3. Stretches'
      BY <1>4
      DEF OpenFails, Error, Go, Pcs, IInv, Shape, At, Alive, Stretches
    <2> QED BY <2>1, <2>2, <2>3 DEF IInv
<1>5. CASE SendChunk(c)
    <2>1. Shape' BY <1>5 DEF SendChunk, Set, Pcs, Kinds, IInv, Shape, At, Alive
    <2>2. LoopShape'
      BY <1>5
      DEF SendChunk, Set, Pcs, Conns, IInv, Shape, At, Alive, LoopShape
    <2>3. Stretches' BY <1>5 DEF SendChunk, Set, Pcs, IInv, Shape, At, Alive, Stretches
    <2> QED BY <2>1, <2>2, <2>3 DEF IInv
<1>6. CASE CloseFile(c)
    <2>1. Shape' BY <1>6 DEF CloseFile, Goto, Pcs, Kinds, IInv, Shape, At, Alive
    <2>2. LoopShape'
      BY <1>6
      DEF CloseFile, Goto, Pcs, Conns, IInv, Shape, At, Alive, LoopShape
    <2>3. Stretches' BY <1>6 DEF CloseFile, Goto, Pcs, IInv, Shape, At, Alive, Stretches
    <2> QED BY <2>1, <2>2, <2>3 DEF IInv
<1>7. CASE OpenDirectory(c)
    <2>1. /\ pc[c] = "opendir" /\ srv' \in [at : {"accept", "map", "spawn", "dead"}, n : 0 .. NConns]
          /\ \/ /\ pc' = [pc EXCEPT ![c] = "list"] /\ srv' = srv
                /\ held' = held \cup {<<"listing", c>>}
             \/ pc' = pc /\ held' = held /\ srv'.at = "dead" /\ srv'.n = srv.n
             \/ pc' = [pc EXCEPT ![c] = "reply"] /\ held' = held /\ srv' = srv
        BY <1>7 DEF OpenDirectory, Goto, Error, Go, Dies, At, Alive, IInv, Shape
    <2>2. Shape' BY <2>1 DEF Pcs, Kinds, IInv, Shape
    <2>3. LoopShape' BY ZenonT(40), <2>1 DEF Pcs, Conns, IInv, Shape, LoopShape
    <2>4. ASSUME pc' = [pc EXCEPT ![c] = "list"], held' = held \cup {<<"listing", c>>}
          PROVE  Stretches'
        BY <2>1, <2>4 DEF IInv, Shape, Stretches
    <2>5. ASSUME pc' = pc \/ pc' = [pc EXCEPT ![c] = "reply"], held' = held PROVE Stretches'
        BY <2>1, <2>5 DEF IInv, Shape, Stretches
    <2>6. Stretches' BY <2>1, <2>4, <2>5
    <2> QED BY <2>2, <2>3, <2>6 DEF IInv
<1>8. CASE SendListing(c)
    <2>1. Shape' BY <1>8 DEF SendListing, Go, Pcs, Kinds, IInv, Shape, At, Alive
    <2>2. LoopShape'
      BY <1>8
      DEF SendListing, Go, Pcs, Conns, IInv, Shape, At, Alive, LoopShape
    <2>3. Stretches' BY <1>8 DEF SendListing, Go, Pcs, IInv, Shape, At, Alive, Stretches
    <2> QED BY <2>1, <2>2, <2>3 DEF IInv
<1>9. CASE MapBody(c)
    <2>1. /\ pc[c] = "bodymap" /\ srv' \in [at : {"accept", "map", "spawn", "dead"}, n : 0 .. NConns]
          /\ \/ /\ pc' = [pc EXCEPT ![c] = "body"] /\ srv' = srv
                /\ held' = held \cup {<<"body", c>>}
             \/ pc' = pc /\ held' = held /\ srv'.at = "dead" /\ srv'.n = srv.n
             \/ pc' = [pc EXCEPT ![c] = "reply"] /\ held' = held /\ srv' = srv
        BY <1>9 DEF MapBody, Go, Error, Dies, At, Alive, IInv, Shape
    <2>2. Shape' BY <2>1 DEF Pcs, Kinds, IInv, Shape
    <2>3. LoopShape' BY ZenonT(40), <2>1 DEF Pcs, Conns, IInv, Shape, LoopShape
    <2>4. ASSUME pc' = [pc EXCEPT ![c] = "body"], held' = held \cup {<<"body", c>>}
          PROVE  Stretches'
        BY <2>1, <2>4 DEF IInv, Shape, Stretches
    <2>5. ASSUME pc' = pc \/ pc' = [pc EXCEPT ![c] = "reply"], held' = held PROVE Stretches'
        BY <2>1, <2>5 DEF IInv, Shape, Stretches
    <2>6. Stretches' BY <2>1, <2>4, <2>5
    <2> QED BY <2>2, <2>3, <2>6 DEF IInv
<1>10. CASE RecvBody(c)
    <2>1. Shape' BY <1>10 DEF RecvBody, Set, Pcs, Kinds, IInv, Shape, At, Alive
    <2>2. LoopShape'
      BY <1>10
      DEF RecvBody, Set, Pcs, Conns, IInv, Shape, At, Alive, LoopShape
    <2>3. Stretches' BY <1>10 DEF RecvBody, Set, Pcs, IInv, Shape, At, Alive, Stretches
    <2> QED BY <2>1, <2>2, <2>3 DEF IInv
<1>11. CASE RecvEnds(c)
    <2>1. Shape' BY <1>11 DEF RecvEnds, Error, Go, Pcs, Kinds, IInv, Shape, At, Alive
    <2>2. LoopShape'
      BY <1>11
      DEF RecvEnds, Error, Go, Pcs, Conns, IInv, Shape, At, Alive, LoopShape
    <2>3. Stretches'
      BY <1>11
      DEF RecvEnds, Error, Go, Pcs, IInv, Shape, At, Alive, Stretches
    <2> QED BY <2>1, <2>2, <2>3 DEF IInv
<1>12. CASE ParseUpload(c)
    <2>1. Shape' BY <1>12 DEF ParseUpload, Go, Pcs, Kinds, IInv, Shape, At, Alive
    <2>2. LoopShape'
      BY <1>12
      DEF ParseUpload, Go, Pcs, Conns, IInv, Shape, At, Alive, LoopShape
    <2>3. Stretches' BY <1>12 DEF ParseUpload, Go, Pcs, IInv, Shape, At, Alive, Stretches
    <2> QED BY <2>1, <2>2, <2>3 DEF IInv
<1>13. CASE Create(c)
    <2>1. Shape' BY <1>13 DEF Create, Go, Pcs, Kinds, IInv, Shape, At, Alive
    <2>2. LoopShape' BY <1>13 DEF Create, Go, Pcs, Conns, IInv, Shape, At, Alive, LoopShape
    <2>3. Stretches' BY <1>13 DEF Create, Go, Pcs, IInv, Shape, At, Alive, Stretches
    <2> QED BY <2>1, <2>2, <2>3 DEF IInv
<1>14. CASE CreateFails(c)
    <2>1. Shape' BY <1>14 DEF CreateFails, Set, Pcs, Kinds, IInv, Shape, At, Alive
    <2>2. LoopShape'
      BY <1>14
      DEF CreateFails, Set, Pcs, Conns, IInv, Shape, At, Alive, LoopShape
    <2>3. Stretches' BY <1>14 DEF CreateFails, Set, Pcs, IInv, Shape, At, Alive, Stretches
    <2> QED BY <2>1, <2>2, <2>3 DEF IInv
<1>15. CASE Write(c)
    <2>1. Shape' BY <1>15 DEF Write, Set, Pcs, Kinds, IInv, Shape, At, Alive
    <2>2. LoopShape' BY <1>15 DEF Write, Set, Pcs, Conns, IInv, Shape, At, Alive, LoopShape
    <2>3. Stretches' BY <1>15 DEF Write, Set, Pcs, IInv, Shape, At, Alive, Stretches
    <2> QED BY <2>1, <2>2, <2>3 DEF IInv
<1>16. CASE WriteFails(c)
    <2>1. Shape' BY <1>16 DEF WriteFails, NextPart, Go, Pcs, Kinds, IInv, Shape, At, Alive
    <2>2. LoopShape'
      BY <1>16
      DEF WriteFails, NextPart, Go, Pcs, Conns, IInv, Shape, At, Alive, LoopShape
    <2>3. Stretches'
      BY <1>16
      DEF WriteFails, NextPart, Go, Pcs, IInv, Shape, At, Alive, Stretches
    <2> QED BY <2>1, <2>2, <2>3 DEF IInv
<1>17. CASE CloseSaved(c)
    <2>1. Shape' BY <1>17 DEF CloseSaved, NextPart, Go, Pcs, Kinds, IInv, Shape, At, Alive
    <2>2. LoopShape'
      BY <1>17
      DEF CloseSaved, NextPart, Go, Pcs, Conns, IInv, Shape, At, Alive, LoopShape
    <2>3. Stretches'
      BY <1>17
      DEF CloseSaved, NextPart, Go, Pcs, IInv, Shape, At, Alive, Stretches
    <2> QED BY <2>1, <2>2, <2>3 DEF IInv
<1>18. CASE ReplyUpload(c)
    <2>1. Shape' BY <1>18 DEF ReplyUpload, Go, Pcs, Kinds, IInv, Shape, At, Alive
    <2>2. LoopShape'
      BY <1>18
      DEF ReplyUpload, Go, Pcs, Conns, IInv, Shape, At, Alive, LoopShape
    <2>3. Stretches' BY <1>18 DEF ReplyUpload, Go, Pcs, IInv, Shape, At, Alive, Stretches
    <2> QED BY <2>1, <2>2, <2>3 DEF IInv
<1>19. CASE ReplyError(c)
    <2>1. Shape' BY <1>19 DEF ReplyError, Goto, Pcs, Kinds, IInv, Shape, At, Alive
    <2>2. LoopShape'
      BY <1>19
      DEF ReplyError, Goto, Pcs, Conns, IInv, Shape, At, Alive, LoopShape
    <2>3. Stretches' BY <1>19 DEF ReplyError, Goto, Pcs, IInv, Shape, At, Alive, Stretches
    <2> QED BY <2>1, <2>2, <2>3 DEF IInv
<1>20. CASE Leave(c)
    <2>1. Shape' BY <1>20 DEF Leave, Goto, Pcs, Kinds, IInv, Shape, At, Alive
    <2>2. LoopShape' BY <1>20 DEF Leave, Goto, Pcs, Conns, IInv, Shape, At, Alive, LoopShape
    <2>3. Stretches' BY <1>20 DEF Leave, Goto, Pcs, IInv, Shape, At, Alive, Stretches
    <2> QED BY <2>1, <2>2, <2>3 DEF IInv
<1> QED
  BY <1>1, <1>2, <1>3, <1>4, <1>5, <1>6, <1>7, <1>8, <1>9, <1>10, <1>11, <1>12, <1>13,
     <1>14, <1>15, <1>16, <1>17, <1>18, <1>19, <1>20
  DEF Handle

\* The end of the process gives nothing back and takes nothing.
LEMMA SigPipeKeeps == ASSUME IInv, NEW c \in Conns, SigPipe(c) PROVE IInv'
BY DEF IInv, Shape, LoopShape, Stretches, SigPipe, Dies

\* So every step keeps the stretches.
LEMMA StepKeeps == IInv /\ [Next]_vars => IInv'
<1> SUFFICES ASSUME IInv, [Next]_vars PROVE IInv' OBVIOUS
<1>1. CASE Accept BY <1>1, AcceptKeeps
<1>2. CASE MapArg BY <1>2, MapArgKeeps
<1>3. CASE Spawn BY <1>3, SpawnKeeps
<1>4. ASSUME NEW c \in Conns, Handle(c) PROVE IInv' BY <1>4, HandleKeeps
<1>5. ASSUME NEW c \in Conns, SigPipe(c) PROVE IInv' BY <1>5, SigPipeKeeps
<1>6. CASE UNCHANGED vars BY <1>6 DEF vars, IInv, Shape, LoopShape, Stretches
<1> QED BY <1>1, <1>2, <1>3, <1>4, <1>5, <1>6 DEF Next

\* Whatever the requests, the portions they come in and the refusals of the
\* kernel, a thread that has ended leaves nothing but its stack.
THEOREM LeavesOnlyStacks == Spec => []NothingLeaks
<1>1. Init => IInv BY InitHolds
<1>2. IInv /\ [Next]_vars => IInv' BY StepKeeps
<1>3. IInv => NothingLeaks BY InvImplies
<1> QED BY <1>1, <1>2, <1>3, PTL DEF Spec

----------------------------------------------------------------------------
\* The fields of a thread's frame.
Fields == {"req", "stream", "got", "used", "declared", "body", "todo", "on", "off", "sent", "saved", "code"}
Frames == DOMAIN conn = Conns /\ \A c \in Conns : DOMAIN conn[c] = Fields

\* Where the body is taken to start in the stream: behind the head or, if the
\* head has not come in one piece, with it.
Offset(f) == IF Blank \in Range(f.got) THEN Len(HeadOf(f.req)) ELSE 0

\* The part of a body that has come is a stretch of the stream.
Window(c) ==
    LET f == conn[c] IN
    /\ f.body \in Seq(Unit) /\ f.declared \in Int /\ f.used \in 0 .. Len(f.stream)
    /\ Offset(f) + Len(f.body) <= Len(f.stream)
    /\ \A i \in 1 .. Len(f.body) : f.body[i] = f.stream[Offset(f) + i]
    /\ f.used = Offset(f) + Len(f.body) \/ Len(f.body) >= f.declared

\* What a thread has got of its request.
Serving(c) ==
    LET f == conn[c] IN
    /\ pc[c] # "none" => f.req \in Requests[c] /\ f.stream = Sends(c, f.req)
    /\ pc[c] \in {"none", "accepted", "recv", "open"} => f.off = 0 /\ f.sent = <<>>
    /\ pc[c] = "open" => f.req.target \in DOMAIN file
    /\ pc[c] = "bodymap" =>
         f.used \in 0 .. Len(f.stream) /\ f.got = SubSeq(f.stream, 1, f.used) /\ f.declared \in Int
    /\ pc[c] = "body" => Window(c)
    /\ pc[c] \in {"save", "write"} =>
         /\ f.body \in Seq(Unit) /\ f.todo \subseteq Named(c, f.body)
         /\ f.todo # {} => Starts(f.body, Form(c, f.req))

\* What the files may hold.
Kept == Unit \cup {<<"zero">>} \cup UNION {Range(Initial[n]) : n \in DOMAIN Initial}
Directory == \A n \in DOMAIN file : file[n] \in Seq(Kept)

\* A thread with an open file; what it has transferred if it had the file for
\* itself.
Transferring(c) ==
    LET f == conn[c] IN
    /\ pc[c] \in {"send", "write"} => <<"file", c>> \in held /\ f.on \in DOMAIN file
    /\ pc[c] = "write" => f.todo # {} /\ f.on = Name(c) /\ f.off \in 0 .. Len(Content(c))
    /\ c \notin mixed /\ pc[c] \in {"send", "write"} =>
         \A d \in Conns \ {c} : pc[d] = "write" => conn[d].on # f.on
    /\ c \notin mixed /\ pc[c] = "send" =>
         /\ f.off \in 0 .. Len(file[f.on]) /\ f.sent = SubSeq(file[f.on], 1, f.off)
         /\ f.declared = Len(file[f.on])
    /\ c \notin mixed /\ pc[c] = "write" => file[f.on] = SubSeq(Content(c), 1, f.off)

\* The inductive invariant of the replies and of what is stored.
Transfers == Frames /\ Directory /\ \A c \in Conns : Serving(c) /\ Transferring(c)

----------------------------------------------------------------------------
\* The counts of a thread's arrays, and what it answers.
Counts(c) ==
    LET f == conn[c] IN
    /\ f.saved \in Seq(Nat) /\ Len(f.saved) <= MaxSaves /\ Len(f.body) <= MaxUpload
    /\ pc[c] = "write" => Len(f.saved) < MaxSaves
    /\ pc[c] \in {"none", "accepted", "recv", "bodymap", "body"} => f.saved = <<>>
    /\ pc[c] \in {"none", "accepted", "recv", "reply"} => f.code # 200
    /\ pc[c] \in {"open", "send", "opendir", "list"} => f.req.method # "POST"
    /\ pc[c] \in {"bodymap", "body"} => f.declared = f.req.declared /\ f.declared <= MaxUpload
    /\ pc[c] = "body" => Len(f.body) <= f.declared

\* The part at position i of a body.
PartAt(body, i) == body[i + 1][2]

\* A complete upload: the parts stored come before those to store, and none is
\* left out.
Storing(c) ==
    LET f == conn[c] IN
    /\ f.body = Form(c, f.req)
    /\ Rising(f.saved) /\ Range(f.saved) \subseteq NamedParts(f.req)
    /\ \A i \in f.todo : \A q \in Range(f.saved) : q < PartAt(f.body, i)
    /\ \A p \in NamedParts(f.req) \ Range(f.saved) : \E i \in f.todo : PartAt(f.body, i) = p

\* The same up to the last part, and what the answer of a complete upload says.
Answering(c) ==
    /\ Complete(c) /\ pc[c] \in {"save", "write"} => Storing(c)
    /\ Complete(c) /\ pc[c] = "out" /\ conn[c].code = 200 /\ conn[c].req.method = "POST" => AllSaved(c)

\* The inductive invariant of the answers to uploads.
Answers == \A c \in Conns : Counts(c) /\ Answering(c)

\* What the other threads know is theirs: a step of thread c leaves it alone,
\* if c does not open a file they have for themselves.
LEMMA OthersKeep ==
    ASSUME IInv, Transfers, NEW c \in Conns, NEW d \in Conns \ {c},
           pc'[d] = pc[d], conn'[d] = conn[d], mixed \subseteq mixed',
           <<"file", d>> \in held => <<"file", d>> \in held',
           DOMAIN file \subseteq DOMAIN file',
           \A e \in Conns \ {c} : pc'[e] = pc[e] /\ conn'[e] = conn[e],
           d \notin mixed' /\ pc[d] \in {"send", "write"} =>
                /\ file'[conn[d].on] = file[conn[d].on]
                /\ pc'[c] = "write" => conn'[c].on # conn[d].on
    PROVE  Serving(d)' /\ Transferring(d)'
<1>1. Serving(d) /\ Transferring(d) BY DEF Transfers
<1>2. Serving(d)'
    <2>1. Window(d)' <=> Window(d) BY DEF Window
    <2>2. \A b : Named(d, b)' = Named(d, b) BY DEF Named
    <2> QED BY <1>1, <2>1, <2>2 DEF Serving
<1>3. Transferring(d)'
    <2>1. Name(d)' = Name(d) /\ Content(d)' = Content(d) BY DEF Name, Part, Here, Content
    <2>2. /\ pc[d] \in {"send", "write"} => <<"file", d>> \in held /\ conn[d].on \in DOMAIN file
          /\ pc[d] = "write" => conn[d].todo # {} /\ conn[d].on = Name(d) /\ conn[d].off \in 0 .. Len(Content(d))
          /\ d \notin mixed /\ pc[d] \in {"send", "write"} =>
               \A e \in Conns \ {d} : pc[e] = "write" => conn[e].on # conn[d].on
          /\ d \notin mixed /\ pc[d] = "send" =>
               /\ conn[d].off \in 0 .. Len(file[conn[d].on]) /\ conn[d].sent = SubSeq(file[conn[d].on], 1, conn[d].off)
               /\ conn[d].declared = Len(file[conn[d].on])
          /\ d \notin mixed /\ pc[d] = "write" => file[conn[d].on] = SubSeq(Content(d), 1, conn[d].off)
        BY <1>1 DEF Transferring
    <2>3. d \notin mixed' => d \notin mixed OBVIOUS
    <2>4. pc'[d] \in {"send", "write"} => <<"file", d>> \in held' /\ conn'[d].on \in DOMAIN file'
      BY <2>2
    <2>5. pc'[d] = "write" => conn'[d].todo # {} /\ conn'[d].on = Name(d)' /\ conn'[d].off \in 0 .. Len(Content(d)')
        BY <2>1, <2>2
    <2>6. d \notin mixed' /\ pc'[d] \in {"send", "write"} =>
               \A e \in Conns \ {d} : pc'[e] = "write" => conn'[e].on # conn'[d].on
        BY <2>2, <2>3
    <2>7. d \notin mixed' /\ pc'[d] = "send" =>
               /\ conn'[d].off \in 0 .. Len(file'[conn'[d].on]) /\ conn'[d].sent = SubSeq(file'[conn'[d].on], 1, conn'[d].off)
               /\ conn'[d].declared = Len(file'[conn'[d].on])
        BY <2>2, <2>3
    <2>8. d \notin mixed' /\ pc'[d] = "write" => file'[conn'[d].on] = SubSeq(Content(d)', 1, conn'[d].off)
        BY <2>1, <2>2, <2>3
    <2> QED BY <2>4, <2>5, <2>6, <2>7, <2>8 DEF Transferring
<1> QED BY <1>2, <1>3

\* A step of thread c: it moves no other thread and takes no file from it.
Step(c) ==
    /\ DOMAIN conn' = Conns /\ DOMAIN conn'[c] = Fields
    /\ \A d \in Conns \ {c} :
          pc'[d] = pc[d] /\ conn'[d] = conn[d] /\ (<<"file", d>> \in held => <<"file", d>> \in held')

\* A step that leaves the files alone, and after which c writes only what it
\* was writing before.
LEMMA QuietStep ==
    ASSUME IInv, Transfers, NEW c \in Conns, Step(c), file' = file, mixed' = mixed,
           pc'[c] = "write" => pc[c] = "write" /\ conn'[c].on = conn[c].on,
           Serving(c)' /\ Transferring(c)'
    PROVE  Transfers'
<1>1. Frames' BY DEF Step, Transfers, Frames
<1>2. Directory' BY DEF Transfers, Directory
<1>3. ASSUME NEW d \in Conns \ {c} PROVE Serving(d)' /\ Transferring(d)'
    <2>1. d \notin mixed /\ pc[d] \in {"send", "write"} =>
                (pc[c] = "write" => conn[c].on # conn[d].on)
        BY DEF Transfers, Transferring
    <2>2. d \notin mixed' /\ pc[d] \in {"send", "write"} =>
                /\ file'[conn[d].on] = file[conn[d].on]
                /\ pc'[c] = "write" => conn'[c].on # conn[d].on
        BY <2>1
    <2> QED BY <2>2, OthersKeep DEF Step
<1> QED BY <1>1, <1>2, <1>3 DEF Transfers

\* A thread on its way out, or to a place where it holds nothing.
LEMMA PlainStep ==
    ASSUME IInv, Transfers, NEW c \in Conns, Step(c), file' = file, mixed' = mixed, pc[c] # "none",
           pc'[c] \in {"reply", "out", "done", "list", "opendir"},
           conn'[c].req = conn[c].req, conn'[c].stream = conn[c].stream
    PROVE  Transfers'
<1>1. Serving(c)' BY DEF Transfers, Serving
<1>2. Transferring(c)' BY DEF Transferring
<1> QED BY <1>1, <1>2, QuietStep

\* Nobody moves.
LEMMA StandStill ==
    ASSUME Transfers, pc' = pc, conn' = conn, file' = file, mixed' = mixed, held \subseteq held'
    PROVE  Transfers'
<1>1. Frames' /\ Directory' BY DEF Transfers, Frames, Directory
<1>2. ASSUME NEW c \in Conns PROVE Serving(c)' /\ Transferring(c)'
    <2>1. Serving(c) /\ Transferring(c) BY DEF Transfers
    <2>2. Window(c)' <=> Window(c) BY DEF Window
    <2>3. \A b : Named(c, b)' = Named(c, b) BY DEF Named
    <2>4. Name(c)' = Name(c) /\ Content(c)' = Content(c) BY DEF Name, Part, Here, Content
    <2>5. Serving(c)' BY <2>1, <2>2, <2>3 DEF Serving
    <2>6. Transferring(c)' BY <2>1, <2>4 DEF Transferring
    <2> QED BY <2>5, <2>6
<1> QED BY <1>1, <1>2 DEF Transfers

----------------------------------------------------------------------------
\* A request that nothing speaks against passes all the checks.
LEMMA RefusedNot ==
    ASSUME NEW checks, DOMAIN checks \subseteq Nat, Refused(checks) = 0,
           \A i \in DOMAIN checks : checks[i][2] # 0
    PROVE  \A i \in DOMAIN checks : ~checks[i][1]
<1> DEFINE hit == {i \in DOMAIN checks : checks[i][1]}
<1>1. Refused(checks) = IF hit = {} THEN 0 ELSE checks[Min(hit)][2] BY DEF Refused
<1>2. hit \subseteq DOMAIN checks OBVIOUS
<1>3. hit # {} => Min(hit) \in hit BY <1>2, MinIn
<1>4. hit = {}
    <2> HIDE DEF hit
    <2> QED BY <1>1, <1>2, <1>3
<1> QED BY <1>4

\* A GET that passes the checks names a file that is there.
LEMMA GetsFile ==
    ASSUME NEW r, NEW lines, Refuses(r, lines) = 0, r.method # "POST", r.target # "dir/"
    PROVE  r.target \in DOMAIN file
<1>1. r.method = "GET" /\ RefusesGet(r) = 0 BY DEF Refuses
<1> DEFINE checks == << <<r.target = "outside", 403>>,
                        <<r.target \notin DOMAIN file \cup {"dir", "dir/", "device"}, 404>>,
                        <<r.target = "dir", 301>>,
                        <<r.target = "device", 403>> >>
<1>2. Refused(checks) = 0 BY <1>1 DEF RefusesGet
<1>3. DOMAIN checks = {1, 2, 3, 4} OBVIOUS
<1>4. /\ checks[2][1] = (r.target \notin DOMAIN file \cup {"dir", "dir/", "device"})
      /\ checks[3][1] = (r.target = "dir") /\ checks[4][1] = (r.target = "device")
      /\ checks[1][2] # 0 /\ checks[2][2] # 0 /\ checks[3][2] # 0 /\ checks[4][2] # 0
    OBVIOUS
<1> HIDE DEF checks
<1>5. \A i \in DOMAIN checks : ~checks[i][1] BY <1>2, <1>3, <1>4, RefusedNot
<1>6. ~checks[2][1] /\ ~checks[3][1] /\ ~checks[4][1] BY <1>3, <1>5
<1>7. r.target \in DOMAIN file \cup {"dir", "dir/", "device"} /\ r.target # "dir" /\ r.target # "device"
    BY Zenon, <1>4, <1>6
<1> QED BY <1>7

\* The thread of c and its client.
LEMMA ServedClient ==
    ASSUME IInv, Transfers, NEW c \in Conns, pc[c] # "none"
    PROVE  /\ Client(c, conn[c].req) /\ conn[c].req \in Requests[c] /\ conn[c].stream = Sends(c, conn[c].req)
           /\ conn[c].stream \in Seq(Unit) /\ Len(conn[c].stream) \in Nat
<1>1. conn[c].req \in Requests[c] /\ conn[c].stream = Sends(c, conn[c].req)
    BY DEF Transfers, Serving
<1>2. Client(c, conn[c].req) BY <1>1, ClientsAssumption DEF Client
<1>3. conn[c].stream \in Seq(Unit) BY <1>1, <1>2, StreamIs
<1> QED BY <1>1, <1>2, <1>3

\* recv_request_head: the frame of a body to come is the stream so far.
LEMMA RecvHeadTransfers == ASSUME IInv, Transfers, NEW c \in Conns, RecvHead(c) PROVE Transfers'
<1> DEFINE r == conn[c].req
           stream == conn[c].stream
<1>1. PICK n \in 1 .. Lowest(HeadBuf, Len(stream)) :
         LET lines == SubSeq(stream, 1, n)
             code == Refuses(r, Range(lines))
             step == CASE code # 0 -> "reply"
                       [] code = 0 /\ r.method = "POST" -> "bodymap"
                       [] code = 0 /\ r.method = "GET" /\ r.target = "dir/" -> "opendir"
                       [] OTHER -> "open"
         IN  Go(c, step, [code |-> code, got |-> lines, used |-> n,
                    declared |-> r.declared])
    BY DEF RecvHead
<1> DEFINE lines == SubSeq(stream, 1, n)
           code == Refuses(r, Range(lines))
           step == CASE code # 0 -> "reply"
                       [] code = 0 /\ r.method = "POST" -> "bodymap"
                       [] code = 0 /\ r.method = "GET" /\ r.target = "dir/" -> "opendir"
                       [] OTHER -> "open"
<1>2. pc[c] = "recv" /\ file' = file /\ mixed' = mixed /\ held' = held BY DEF RecvHead, At
<1>3. Client(c, r) /\ Len(stream) \in Nat BY <1>2, ServedClient
<1>4. n \in 1 .. Len(stream) BY <1>3, BoundsAssumption DEF Lowest
<1>5. r.declared \in Int BY <1>3 DEF Client
<1>6. \/ step = "reply"
      \/ step = "bodymap"
      \/ step = "opendir"
      \/ step = "open" /\ r.target \in DOMAIN file
    <2>1. code = 0 /\ r.method # "POST" /\ r.target # "dir/" => r.target \in DOMAIN file
      BY GetsFile
    <2>2. code # 0 \/ r.method \in {"GET", "POST"} BY DEF Refuses
    <2> HIDE DEF code, r
    <2>3. CASE code # 0 BY <2>3
    <2>4. CASE code = 0 /\ r.method = "POST" BY <2>4
    <2>5. CASE code = 0 /\ r.method = "GET" BY <2>1, <2>5
    <2> QED BY <2>2, <2>3, <2>4, <2>5
<1> HIDE DEF step, code
<1>7. /\ pc' = [pc EXCEPT ![c] = step]
      /\ conn' = [conn EXCEPT ![c] = Assign(@, [code |-> code, got |-> lines, used |-> n, declared |-> r.declared])]
    BY <1>1 DEF Go, step, code
<1>8. /\ DOMAIN conn' = Conns /\ DOMAIN conn'[c] = Fields
      /\ \A d \in Conns \ {c} : conn'[d] = conn[d]
      /\ conn'[c].req = r /\ conn'[c].stream = stream /\ conn'[c].off = conn[c].off /\ conn'[c].sent = conn[c].sent
      /\ conn'[c].got = lines /\ conn'[c].used = n /\ conn'[c].declared = r.declared
    BY <1>7 DEF Transfers, Frames, Assign, Fields
<1>9. pc'[c] = step /\ \A d \in Conns \ {c} : pc'[d] = pc[d] BY <1>7 DEF IInv, Shape
<1>10. Step(c) BY <1>2, <1>8, <1>9 DEF Step
<1>11. CASE step \in {"reply", "opendir"} BY <1>2, <1>8, <1>9, <1>10, <1>11, PlainStep
<1>12. CASE step \in {"bodymap", "open"}
    <2>1. Serving(c) BY DEF Transfers
    <2>2. Serving(c)' BY <1>2, <1>4, <1>5, <1>6, <1>8, <1>9, <1>12, <2>1 DEF Serving
    <2>3. Transferring(c)' BY <1>9, <1>12 DEF Transferring
    <2> QED BY <1>2, <1>9, <1>10, <1>12, <2>2, <2>3, QuietStep
<1> QED BY <1>6, <1>11, <1>12

\* No other thread loses its file.
OthersHold(c) == \A d \in Conns \ {c} : <<"file", d>> \in held => <<"file", d>> \in held'

\* A step to a place where the thread holds no file and no body.
LEMMA PlainGoto ==
    ASSUME IInv, Transfers, NEW c \in Conns, NEW where \in {"reply", "out", "done", "list", "opendir"},
           pc[c] # "none", Goto(c, where), file' = file, mixed' = mixed, OthersHold(c)
    PROVE  Transfers'
<1>1. pc'[c] = where /\ conn' = conn /\ Step(c)
    BY DEF Goto, IInv, Shape, Transfers, Frames, Step, OthersHold
<1> QED BY <1>1, PlainStep

\* The same with the code of the answer set.
LEMMA PlainCode ==
    ASSUME IInv, Transfers, NEW c \in Conns, NEW where \in {"reply", "out", "done", "list", "opendir"}, NEW code,
           pc[c] # "none", Go(c, where, [code |-> code]), file' = file, mixed' = mixed, OthersHold(c)
    PROVE  Transfers'
<1>1. pc'[c] = where /\ \A d \in Conns \ {c} : pc'[d] = pc[d] BY DEF Go, IInv, Shape
<1>2. /\ DOMAIN conn' = Conns /\ DOMAIN conn'[c] = Fields
      /\ \A d \in Conns \ {c} : conn'[d] = conn[d]
      /\ conn'[c].req = conn[c].req /\ conn'[c].stream = conn[c].stream
    BY DEF Go, Assign, Fields, Transfers, Frames
<1> QED BY <1>1, <1>2, PlainStep DEF Step, OthersHold

\* The accept loop gives a thread its request.
LEMMA AcceptTransfers == ASSUME IInv, Transfers, Accept PROVE Transfers'
<1>0. PICK c \in Conns : c = srv.n + 1 BY BoundsAssumption DEF IInv, Shape, Accept, Conns
<1>1. pc[c] = "none" BY <1>0 DEF IInv, Shape, LoopShape, Conns
<1>2. PICK r \in Requests[c] : Go(c, "accepted", [req |-> r, stream |-> Sends(c, r)])
  BY <1>0
  DEF Accept
<1>3. held' = held \cup {<<"socket", c>>} /\ file' = file /\ mixed' = mixed
  BY <1>0
  DEF Accept
<1>4. pc'[c] = "accepted" /\ \A d \in Conns \ {c} : pc'[d] = pc[d]
  BY <1>1, <1>2
  DEF Go, IInv, Shape
<1>5. /\ DOMAIN conn' = Conns /\ DOMAIN conn'[c] = Fields
      /\ \A d \in Conns \ {c} : conn'[d] = conn[d]
      /\ conn'[c].req = r /\ conn'[c].stream = Sends(c, r)
      /\ conn'[c].off = conn[c].off /\ conn'[c].sent = conn[c].sent
    BY <1>1, <1>2 DEF Go, Assign, Fields, Transfers, Frames
<1>6. Serving(c)'
    <2>1. Serving(c) BY <1>1 DEF Transfers
    <2> QED BY <1>1, <1>2, <1>4, <1>5, <2>1 DEF Serving
<1>7. Transferring(c)' BY <1>4 DEF Transferring
<1>8. Step(c) BY <1>3, <1>4, <1>5 DEF Step
<1> QED BY <1>1, <1>3, <1>4, <1>6, <1>7, <1>8, QuietStep

\* The argument of a thread is mapped; no thread moves.
LEMMA MapArgTransfers == ASSUME IInv, Transfers, MapArg PROVE Transfers'
<1>1. pc' = pc /\ conn' = conn /\ file' = file /\ mixed' = mixed /\ held \subseteq held'
  BY DEF MapArg
<1> QED BY <1>1, StandStill

\* The thread starts, or its clone fails.
LEMMA SpawnTransfers == ASSUME IInv, Transfers, Spawn PROVE Transfers'
<1>0. PICK c \in Conns : c = srv.n BY DEF IInv, LoopShape, Spawn
<1>1. pc[c] = "accepted" BY <1>0 DEF IInv, LoopShape, Spawn
<1>2. file' = file /\ mixed' = mixed /\ held \subseteq held' /\ conn' = conn
  BY DEF Spawn, Goto
<1>3. CASE pc' = pc BY <1>2, <1>3, StandStill
<1>4. CASE Goto(c, "recv")
    <2>1. pc'[c] = "recv" /\ Step(c)
      BY <1>1, <1>2, <1>4
      DEF Goto, IInv, Shape, Transfers, Frames, Step
    <2>2. Serving(c)' BY <1>1, <1>2, <2>1 DEF Transfers, Serving
    <2>3. Transferring(c)' BY <2>1 DEF Transferring
    <2> QED BY <1>1, <1>2, <2>1, <2>2, <2>3, QuietStep
<1> QED BY <1>0, <1>3, <1>4 DEF Spawn

\* A client that sends nothing is left.
LEMMA RecvNothingTransfers == ASSUME IInv, Transfers, NEW c \in Conns, RecvNothing(c) PROVE Transfers'
BY PlainGoto DEF RecvNothing, At, OthersHold

\* open refuses; an error page is announced.
LEMMA OpenFailsTransfers == ASSUME IInv, Transfers, NEW c \in Conns, OpenFails(c) PROVE Transfers'
BY PlainCode DEF OpenFails, Error, At, OthersHold

\* The reply is sent; the file is closed.
LEMMA CloseFileTransfers == ASSUME IInv, Transfers, NEW c \in Conns, CloseFile(c) PROVE Transfers'
<1>1. OthersHold(c) BY DEF CloseFile, OthersHold
<1> QED BY <1>1, PlainGoto DEF CloseFile, At

\* The directory is opened, or is not.
LEMMA OpenDirectoryTransfers == ASSUME IInv, Transfers, NEW c \in Conns, OpenDirectory(c) PROVE Transfers'
<1>1. pc[c] # "none" /\ file' = file /\ mixed' = mixed BY DEF OpenDirectory, At
<1>2. OthersHold(c) /\ held \subseteq held' BY DEF OpenDirectory, OthersHold
<1>3. CASE Goto(c, "list") BY <1>1, <1>2, <1>3, PlainGoto
<1>4. CASE Error(c, 500) BY <1>1, <1>2, <1>4, PlainCode DEF Error
<1>5. CASE pc' = pc /\ conn' = conn BY <1>1, <1>2, <1>5, StandStill
<1> QED BY <1>3, <1>4, <1>5 DEF OpenDirectory

\* The listing is sent.
LEMMA SendListingTransfers == ASSUME IInv, Transfers, NEW c \in Conns, SendListing(c) PROVE Transfers'
<1>1. OthersHold(c) BY DEF SendListing, OthersHold
<1> QED BY <1>1, PlainCode DEF SendListing, At

\* The client stops in the middle of the body.
LEMMA RecvEndsTransfers == ASSUME IInv, Transfers, NEW c \in Conns, RecvEnds(c) PROVE Transfers'
<1>1. OthersHold(c) BY DEF RecvEnds, OthersHold
<1> QED BY <1>1, PlainCode DEF RecvEnds, Error, At

\* The loop over the parts is over.
LEMMA ReplyUploadTransfers == ASSUME IInv, Transfers, NEW c \in Conns, ReplyUpload(c) PROVE Transfers'
<1>1. OthersHold(c) BY DEF ReplyUpload, OthersHold
<1> QED BY <1>1, PlainCode DEF ReplyUpload, At

\* An error page is sent.
LEMMA ReplyErrorTransfers == ASSUME IInv, Transfers, NEW c \in Conns, ReplyError(c) PROVE Transfers'
BY PlainGoto DEF ReplyError, At, OthersHold

\* The thread ends.
LEMMA LeaveTransfers == ASSUME IInv, Transfers, NEW c \in Conns, Leave(c) PROVE Transfers'
<1>1. OthersHold(c) BY DEF Leave, OthersHold
<1> QED BY <1>1, PlainGoto DEF Leave, At

\* The process is killed; the threads do not move.
LEMMA SigPipeTransfers == ASSUME IInv, Transfers, NEW c \in Conns, SigPipe(c) PROVE Transfers'
BY StandStill DEF SigPipe

\* Opening a file to send it: alone, unless somebody is writing it.
LEMMA OpenFileTransfers == ASSUME IInv, Transfers, NEW c \in Conns, OpenFile(c) PROVE Transfers'
<1> DEFINE n == conn[c].req.target
<1>1. /\ pc[c] = "open" /\ file' = file
      /\ held' = held \cup {<<"file", c>>}
      /\ mixed' = IF Writers(n) = {} THEN mixed ELSE mixed \cup {c}
      /\ Go(c, "send", [code |-> 200, on |-> n, declared |-> Len(file[n])])
    BY DEF OpenFile, At
<1>2. n \in DOMAIN file /\ conn[c].off = 0 /\ conn[c].sent = <<>>
  BY <1>1
  DEF Transfers, Serving
<1>3. file[n] \in Seq(Kept) BY <1>2 DEF Transfers, Directory
<1>4. c \notin mixed' => \A d \in Conns \ {c} : pc[d] = "write" => conn[d].on # n
    <2>1. \A d \in Conns : pc[d] = "write" => <<"file", d>> \in held
      BY DEF Transfers, Transferring
    <2> QED BY <1>1, <2>1 DEF Writers, Users
<1> HIDE DEF n
<1>5. pc'[c] = "send" /\ \A d \in Conns \ {c} : pc'[d] = pc[d] BY <1>1 DEF Go, IInv, Shape
<1>6. /\ DOMAIN conn' = Conns /\ DOMAIN conn'[c] = Fields
      /\ \A d \in Conns \ {c} : conn'[d] = conn[d]
      /\ conn'[c].req = conn[c].req /\ conn'[c].stream = conn[c].stream
      /\ conn'[c].off = conn[c].off /\ conn'[c].sent = conn[c].sent
      /\ conn'[c].on = n /\ conn'[c].declared = Len(file[n])
    BY <1>1 DEF Go, Assign, Fields, Transfers, Frames
<1>7. Serving(c)' BY <1>1, <1>5, <1>6 DEF Transfers, Serving
<1>8. Transferring(c)'
    <2>1. 0 \in 0 .. Len(file[n]) /\ <<>> = SubSeq(file[n], 1, 0) BY <1>3
    <2> QED BY <1>1, <1>2, <1>4, <1>5, <1>6, <2>1 DEF Transferring
<1>9. ASSUME NEW d \in Conns \ {c} PROVE Serving(d)' /\ Transferring(d)'
    BY <1>1, <1>5, <1>6, OthersKeep
<1>10. Frames' /\ Directory' BY <1>1, <1>6 DEF Frames, Directory, Transfers
<1> QED BY <1>7, <1>8, <1>9, <1>10 DEF Transfers

\* One turn of the loop that sends a file: what is sent is the file up to the
\* offset.
LEMMA SendChunkTransfers == ASSUME IInv, Transfers, NEW c \in Conns, SendChunk(c) PROVE Transfers'
<1> DEFINE f == conn[c]
           x == file[f.on]
           chunk == SubSeq(x, f.off + 1, Lowest(f.off + Chunk, Len(x)))
<1>1. /\ pc[c] = "send" /\ pc' = pc /\ file' = file /\ mixed' = mixed /\ held' = held
      /\ conn' = [conn EXCEPT ![c] = Assign(@, [off |-> f.off + Len(chunk), sent |-> f.sent \o chunk])]
    BY DEF SendChunk, Set, At
<1>2. Transferring(c) BY DEF Transfers
<1> HIDE DEF chunk
<1>3. /\ DOMAIN conn' = Conns /\ DOMAIN conn'[c] = Fields
      /\ \A d \in Conns \ {c} : conn'[d] = conn[d]
      /\ conn'[c].req = f.req /\ conn'[c].stream = f.stream /\ conn'[c].on = f.on /\ conn'[c].declared = f.declared
      /\ conn'[c].off = f.off + Len(chunk) /\ conn'[c].sent = f.sent \o chunk
    BY <1>1 DEF Assign, Fields, Transfers, Frames
<1>4. x \in Seq(Kept) BY <1>1, <1>2 DEF Transferring, Transfers, Directory
<1>5. Serving(c)' BY <1>1, <1>3 DEF Transfers, Serving
<1>6. ASSUME c \notin mixed
      PROVE  /\ conn'[c].off \in 0 .. Len(x) /\ conn'[c].sent = SubSeq(x, 1, conn'[c].off)
    <2> DEFINE o == f.off
               m == Lowest(o + Chunk, Len(x))
    <2>1. o \in 0 .. Len(x) /\ f.sent = SubSeq(x, 1, o) BY <1>1, <1>2, <1>6 DEF Transferring
    <2>2. Len(x) \in Nat /\ m \in Nat /\ o <= m /\ m <= Len(x)
      BY <1>4, <2>1, BoundsAssumption
      DEF Lowest
    <2>3. chunk = SubSeq(x, o + 1, m) BY DEF chunk
    <2> HIDE DEF x, m, o
    <2>4. Len(chunk) = m - o /\ o + Len(chunk) = m BY <1>4, <2>1, <2>2, <2>3
    <2>5. SubSeq(x, 1, o) \o SubSeq(x, o + 1, m) = SubSeq(x, 1, m) BY <1>4, <2>1, <2>2
    <2>6. conn'[c].off = m BY <1>3, <2>4 DEF o
    <2>7. conn'[c].sent = SubSeq(x, 1, m) BY <1>3, <2>1, <2>3, <2>5
    <2> QED BY <2>2, <2>6, <2>7
<1> HIDE DEF x
<1>7. Transferring(c)'
    <2>1. /\ <<"file", c>> \in held' /\ conn'[c].on \in DOMAIN file'
      BY <1>1, <1>2, <1>3
      DEF Transferring
    <2>2. c \notin mixed' => \A d \in Conns \ {c} : pc'[d] = "write" => conn'[d].on # conn'[c].on
        BY <1>1, <1>2, <1>3 DEF Transferring
    <2>3. c \notin mixed' => conn'[c].declared = Len(file'[conn'[c].on])
      BY <1>1, <1>2, <1>3
      DEF Transferring
    <2>4. c \notin mixed' => /\ conn'[c].off \in 0 .. Len(file'[conn'[c].on])
                             /\ conn'[c].sent = SubSeq(file'[conn'[c].on], 1, conn'[c].off)
        BY <1>1, <1>3, <1>6 DEF x
    <2> QED BY <1>1, <2>1, <2>2, <2>3, <2>4 DEF Transferring
<1>8. Step(c) BY <1>1, <1>3 DEF Step
<1> QED BY <1>1, <1>5, <1>7, <1>8, QuietStep

----------------------------------------------------------------------------
\* Sequence b is what stands behind position h in s, and either used is where
\* it ends or it is as long as declared.
Copied(s, h, b, used, declared) ==
    /\ b \in Seq(Unit) /\ Len(b) <= declared /\ h + Len(b) <= Len(s)
    /\ \A i \in 1 .. Len(b) : b[i] = s[h + i]
    /\ used = h + Len(b) \/ Len(b) >= declared

\* What the head's recv brought of the body is a stretch of the stream.
LEMMA InHeadIs ==
    ASSUME NEW s \in Seq(Unit), NEW H \in Nat, \A i \in 1 .. Len(s) : s[i] = Blank => i = H,
           NEW used \in 0 .. Len(s), NEW declared \in Nat \ {0}
    PROVE  Copied(s, IF Blank \in Range(SubSeq(s, 1, used)) THEN H ELSE 0,
                  InHead(SubSeq(s, 1, used), declared), used, declared)
<1> DEFINE got == SubSeq(s, 1, used)
           b == InHead(got, declared)
           h == IF Blank \in Range(got) THEN H ELSE 0
           at == {i \in DOMAIN got : got[i] = Blank}
           offset == IF at = {} THEN 0 ELSE Min(at)
           last == Lowest(Len(got), offset + declared)
<1>1. Len(s) \in Nat OBVIOUS
<1>2. b = SubSeq(got, offset + 1, last) BY DEF InHead
<1> HIDE DEF b
<1>3. got \in Seq(Unit) /\ Len(got) = used /\ used \in Nat /\ used <= Len(s)
      /\ \A i \in 1 .. used : got[i] = s[i]
    BY <1>1
<1> HIDE DEF got
<1>4. at \subseteq Nat /\ \A i \in at : i = H /\ i \in 1 .. used BY <1>1, <1>3
<1>5. at = {} \/ Min(at) \in at
    <2> HIDE DEF at
    <2> QED BY <1>4, MinIn
<1>6. offset = h /\ offset \in 0 .. used
    <2>0. h = IF at = {} THEN 0 ELSE H BY DEF Range
    <2> HIDE DEF at
    <2>1. CASE at = {} BY <1>3, <2>0, <2>1
    <2>2. CASE at # {}
        <3>1. offset = Min(at) /\ Min(at) = H /\ Min(at) \in 1 .. used BY <1>4, <1>5, <2>2
        <3> HIDE DEF offset
        <3> QED BY <1>3, <2>0, <2>2, <3>1
    <2> QED BY <2>1, <2>2
<1> HIDE DEF offset, h
<1>7. /\ last \in Nat /\ last >= offset /\ last <= used
      /\ (last = used \/ last = offset + declared) /\ last <= offset + declared
    BY <1>3, <1>6 DEF Lowest
<1> HIDE DEF last
<1>8. b \in Seq(Unit) /\ Len(b) = last - offset /\ \A i \in 1 .. Len(b) : b[i] = got[offset + i]
    <2>1. got \in Seq(Unit) /\ offset \in Nat /\ offset <= last /\ last <= Len(got) /\ last \in Nat
        BY <1>3, <1>6, <1>7
    <2>2. /\ SubSeq(got, offset + 1, last) \in Seq(Unit)
          /\ Len(SubSeq(got, offset + 1, last)) = last - offset
          /\ \A i \in 1 .. (last - offset) : SubSeq(got, offset + 1, last)[i] = got[offset + i]
        BY <2>1, SliceIs
    <2> QED BY <1>2, <2>2
<1>9. ASSUME NEW i \in 1 .. Len(b) PROVE b[i] = s[offset + i]
    <2>1. offset + i \in 1 .. used BY <1>3, <1>6, <1>7, <1>8
    <2> QED BY <1>3, <1>8, <2>1
<1>10. Len(b) <= declared /\ offset + Len(b) <= Len(s) /\ (used = offset + Len(b) \/ Len(b) >= declared)
    BY <1>3, <1>6, <1>7, <1>8
<1>11. Copied(s, h, b, used, declared) BY <1>6, <1>8, <1>9, <1>10 DEF Copied
<1> QED BY <1>11 DEF h, b, got

\* What a thread copies from its head buffer.
LEMMA HeadBody ==
    ASSUME IInv, Transfers, NEW c \in Conns, pc[c] = "bodymap", conn[c].declared > 0
    PROVE  LET f == conn[c]
               b == InHead(f.got, f.declared)
           IN  /\ b \in Seq(Unit) /\ Len(b) <= f.declared /\ Offset(f) + Len(b) <= Len(f.stream)
               /\ \A i \in 1 .. Len(b) : b[i] = f.stream[Offset(f) + i]
               /\ f.used = Offset(f) + Len(b) \/ Len(b) >= f.declared
<1> DEFINE f == conn[c]
<1>1. Client(c, f.req) /\ f.stream = Sends(c, f.req) BY ServedClient
<1>2. f.used \in 0 .. Len(f.stream) /\ f.got = SubSeq(f.stream, 1, f.used) /\ f.declared \in Int
    BY DEF Transfers, Serving
<1>3. PICK s, H, used, declared : s = f.stream /\ H = Len(HeadOf(f.req)) /\ used = f.used /\ declared = f.declared
    OBVIOUS
<1>4. s \in Seq(Unit) /\ H \in Nat /\ \A i \in 1 .. Len(s) : s[i] = Blank => i = H
    BY <1>1, <1>3, StreamIs, HeadIs
<1>5. used \in 0 .. Len(s) /\ declared \in Nat \ {0} BY <1>2, <1>3
<1>6. Copied(s, IF Blank \in Range(SubSeq(s, 1, used)) THEN H ELSE 0,
             InHead(SubSeq(s, 1, used), declared), used, declared)
    BY <1>4, <1>5, InHeadIs
<1>7. f.got = SubSeq(s, 1, used) BY <1>2, <1>3
<1>8. Copied(f.stream, Offset(f), InHead(f.got, f.declared), f.used, f.declared)
    BY <1>3, <1>6, <1>7 DEF Offset
<1> QED BY <1>8 DEF Copied

\* The buffer of the body starts with what came behind the head.
LEMMA MapBodyTransfers == ASSUME IInv, Transfers, NEW c \in Conns, MapBody(c) PROVE Transfers'
<1> DEFINE f == conn[c]
           b == InHead(f.got, f.declared)
<1>1. pc[c] = "bodymap" /\ file' = file /\ mixed' = mixed BY DEF MapBody, At
<1>2. OthersHold(c) /\ held \subseteq held' BY DEF MapBody, OthersHold
<1>3. CASE Error(c, 400) BY <1>1, <1>2, <1>3, PlainCode DEF Error
<1>4. CASE pc' = pc /\ conn' = conn BY <1>1, <1>2, <1>4, StandStill
<1>5. CASE f.declared > 0 /\ Go(c, "body", [body |-> b])
    <2>1. pc'[c] = "body" /\ \A d \in Conns \ {c} : pc'[d] = pc[d]
      BY <1>5
      DEF Go, IInv, Shape
    <2>2. /\ DOMAIN conn' = Conns /\ DOMAIN conn'[c] = Fields
          /\ \A d \in Conns \ {c} : conn'[d] = conn[d]
          /\ conn'[c].req = f.req /\ conn'[c].stream = f.stream /\ conn'[c].used = f.used
          /\ conn'[c].declared = f.declared /\ conn'[c].body = b /\ conn'[c].got = f.got
        BY <1>5 DEF Go, Assign, Fields, Transfers, Frames
    <2>3. Step(c) BY <1>2, <2>1, <2>2 DEF Step, OthersHold
    <2>4. Client(c, f.req) /\ f.req \in Requests[c] /\ f.stream = Sends(c, f.req)
      BY <1>1, ServedClient
    <2>5. f.used \in 0 .. Len(f.stream) /\ f.got = SubSeq(f.stream, 1, f.used) /\ f.declared \in Int
        BY <1>1 DEF Transfers, Serving
    <2> HIDE DEF b
    <2>6. /\ b \in Seq(Unit) /\ Len(b) <= f.declared /\ Offset(f) + Len(b) <= Len(f.stream)
          /\ \A i \in 1 .. Len(b) : b[i] = f.stream[Offset(f) + i]
          /\ f.used = Offset(f) + Len(b) \/ Len(b) >= f.declared
        BY <1>1, <1>5, HeadBody DEF b
    <2>7. Window(c)' BY <2>2, <2>5, <2>6 DEF Window, Offset
    <2>8. Serving(c)' BY <2>1, <2>2, <2>4, <2>7 DEF Serving
    <2>9. Transferring(c)' BY <2>1 DEF Transferring
    <2> QED BY <1>1, <2>1, <2>3, <2>8, <2>9, QuietStep
<1> QED BY <1>3, <1>4, <1>5 DEF MapBody

\* Another portion of the body: the buffer stays a stretch of the stream.
LEMMA RecvBodyTransfers == ASSUME IInv, Transfers, NEW c \in Conns, RecvBody(c) PROVE Transfers'
<1> DEFINE f == conn[c]
           s == f.stream
<1>1. /\ pc[c] = "body" /\ Len(f.body) < f.declared
      /\ pc' = pc /\ file' = file /\ mixed' = mixed /\ held' = held
    BY DEF RecvBody, At, Set
<1>2. PICK n \in 1 .. Lowest(f.declared - Len(f.body), Len(s) - f.used) :
        conn' = [conn EXCEPT ![c] = Assign(@, [used |-> f.used + n,
                                               body |-> f.body \o SubSeq(s, f.used + 1, f.used + n)])]
    BY DEF RecvBody, Set
<1>3. Client(c, f.req) /\ f.req \in Requests[c] /\ s = Sends(c, f.req) /\ s \in Seq(Unit) /\ Len(s) \in Nat
    BY <1>1, ServedClient
<1>4. Window(c) BY <1>1 DEF Transfers, Serving
<1>5. f.body \in Seq(Unit) /\ f.declared \in Int /\ f.used \in 0 .. Len(s)
  BY <1>4
  DEF Window
<1>6. PICK h \in Nat :
          /\ h = Offset(f) /\ h + Len(f.body) <= Len(s)
          /\ \A i \in 1 .. Len(f.body) : f.body[i] = s[h + i]
          /\ f.used = h + Len(f.body) \/ Len(f.body) >= f.declared
    BY <1>4, HeadIs DEF Window, Offset
<1> DEFINE more == SubSeq(s, f.used + 1, f.used + n)
           b == f.body \o more
<1>7. /\ DOMAIN conn' = Conns /\ DOMAIN conn'[c] = Fields
      /\ \A d \in Conns \ {c} : conn'[d] = conn[d]
      /\ conn'[c].req = f.req /\ conn'[c].stream = s /\ conn'[c].used = f.used + n
      /\ conn'[c].declared = f.declared /\ conn'[c].body = b /\ conn'[c].got = f.got
    BY <1>2 DEF Assign, Fields, Transfers, Frames
<1>8. Len(f.body) \in Nat /\ h \in Nat /\ f.used = h + Len(f.body) BY <1>1, <1>5, <1>6
<1>9. n \in Nat /\ n >= 1 /\ f.used + n <= Len(s)
    <2>1. f.declared - Len(f.body) \in Int /\ Len(s) - f.used \in Int BY <1>3, <1>5, <1>8
    <2>2. Lowest(f.declared - Len(f.body), Len(s) - f.used) \in Int
          /\ Lowest(f.declared - Len(f.body), Len(s) - f.used) <= Len(s) - f.used
        BY <2>1 DEF Lowest
    <2> HIDE DEF s
    <2> QED BY <1>3, <1>5, <2>2
<1>10. more \in Seq(Unit) /\ Len(more) = n /\ \A i \in 1 .. n : more[i] = s[f.used + i]
    <2> HIDE DEF s
    <2>1. f.used \in Nat BY <1>5
    <2>2. f.used + n \in Nat /\ f.used <= f.used + n BY <1>9, <2>1
    <2>3. /\ more \in Seq(Unit) /\ Len(more) = (f.used + n) - f.used
          /\ \A i \in 1 .. ((f.used + n) - f.used) : more[i] = s[f.used + i]
        <3>1. s \in Seq(Unit) /\ f.used + n <= Len(s) BY <1>3, <1>9
        <3>2. PICK x, y, z : x = s /\ y = f.used /\ z = f.used + n OBVIOUS
        <3>3. x \in Seq(Unit) /\ y \in Nat /\ z \in Nat /\ y <= z /\ z <= Len(x)
          BY <2>1, <2>2, <3>1, <3>2
        <3>4. /\ SubSeq(x, y + 1, z) \in Seq(Unit) /\ Len(SubSeq(x, y + 1, z)) = z - y
              /\ \A i \in 1 .. (z - y) : SubSeq(x, y + 1, z)[i] = x[y + i]
            BY <3>3, SliceIs
        <3>5. more = SubSeq(x, y + 1, z) BY <3>2
        <3> QED BY <3>2, <3>4, <3>5
    <2>4. (f.used + n) - f.used = n BY <1>9, <2>1
    <2> QED BY <2>3, <2>4
<1> HIDE DEF more
<1>11. /\ b \in Seq(Unit) /\ Len(b) = Len(f.body) + n
       /\ \A i \in 1 .. Len(f.body) : b[i] = f.body[i]
       /\ \A i \in 1 .. n : b[Len(f.body) + i] = more[i]
    <2>1. f.body \in Seq(Unit) /\ more \in Seq(Unit) BY <1>5, <1>10
    <2>2. PICK x, y : x = f.body /\ y = more OBVIOUS
    <2>3. x \in Seq(Unit) /\ y \in Seq(Unit) BY <2>1, <2>2
    <2>4. /\ x \o y \in Seq(Unit) /\ Len(x \o y) = Len(x) + Len(y)
          /\ \A i \in 1 .. Len(x) : (x \o y)[i] = x[i]
          /\ \A i \in 1 .. Len(y) : (x \o y)[Len(x) + i] = y[i]
        BY <2>3, ConcatIs
    <2>5. b = x \o y BY <2>2
    <2> QED BY <1>10, <2>2, <2>4, <2>5
<1> HIDE DEF b
<1>12. ASSUME NEW i \in 1 .. Len(b) PROVE b[i] = s[h + i]
    <2>1. CASE i <= Len(f.body) BY <1>6, <1>8, <1>11, <2>1
    <2>2. CASE i > Len(f.body)
        <3>1. PICK k \in 1 .. n : Len(f.body) + k = i
            <4>1. i - Len(f.body) \in 1 .. n /\ Len(f.body) + (i - Len(f.body)) = i
              BY <1>8, <1>9, <1>11, <2>2
            <4> QED BY <4>1
        <3>2. f.used + k = h + i BY <1>8, <3>1
        <3> QED BY <1>10, <1>11, <3>1, <3>2
    <2> QED BY <1>8, <1>11, <2>1, <2>2
<1>13. h + Len(b) <= Len(s) /\ f.used + n = h + Len(b) /\ f.used + n \in 0 .. Len(s)
    BY <1>3, <1>8, <1>9, <1>11
<1>0. Offset(conn'[c]) = h BY <1>6, <1>7 DEF Offset
<1>14. Window(c)' BY <1>0, <1>5, <1>7, <1>11, <1>12, <1>13 DEF Window
<1>15. Serving(c)' BY <1>1, <1>3, <1>7, <1>14 DEF Serving
<1>16. Transferring(c)' BY <1>1 DEF Transferring
<1>17. Step(c) BY <1>1, <1>7 DEF Step
<1> QED BY <1>1, <1>15, <1>16, <1>17, QuietStep

\* A body that has a part to store starts with the form.
LEMMA ParseUploadTransfers == ASSUME IInv, Transfers, NEW c \in Conns, ParseUpload(c) PROVE Transfers'
<1> DEFINE f == conn[c]
           s == f.stream
           b == f.body
           F == Form(c, f.req)
           named == Named(c, b)
<1>1. /\ pc[c] = "body" /\ file' = file /\ mixed' = mixed /\ held' = held
      /\ Go(c, "save", [todo |-> named])
    BY DEF ParseUpload, At
<1>2. pc'[c] = "save" /\ \A d \in Conns \ {c} : pc'[d] = pc[d] BY <1>1 DEF Go, IInv, Shape
<1>3. /\ DOMAIN conn' = Conns /\ DOMAIN conn'[c] = Fields
      /\ \A d \in Conns \ {c} : conn'[d] = conn[d]
      /\ conn'[c].req = f.req /\ conn'[c].stream = s /\ conn'[c].body = b /\ conn'[c].todo = named
    BY <1>1 DEF Go, Assign, Fields, Transfers, Frames
<1>4. /\ Client(c, f.req) /\ f.req \in Requests[c] /\ s = Sends(c, f.req)
      /\ s \in Seq(Unit) /\ Len(s) \in Nat
    BY <1>1, ServedClient
<1>5. Window(c) BY <1>1 DEF Transfers, Serving
<1>6. b \in Seq(Unit) BY <1>5 DEF Window
<1>7. PICK h \in {0, Len(HeadOf(f.req))} :
          h + Len(b) <= Len(s) /\ \A i \in 1 .. Len(b) : b[i] = s[h + i]
    BY <1>5 DEF Window, Offset
<1>8. ASSUME named # {} PROVE Starts(b, F)
    <2>1. b[1] = Boundary /\ Len(b) \in Nat /\ Len(b) >= 1
      BY <1>6, <1>8
      DEF Named, Boundaries
    <2>2. /\ Len(s) <= Len(HeadOf(f.req)) + Len(F)
          /\ Len(s) > 0 => s[1] = <<"request">>
          /\ \A i \in 1 .. Len(F) : Len(HeadOf(f.req)) + i <= Len(s) => s[Len(HeadOf(f.req)) + i] = F[i]
        BY <1>4, StreamIs
    <2>3. Len(HeadOf(f.req)) \in Nat \ {0} BY HeadIs
    <2>4. F \in Seq(FormUnit) BY <1>4, FormLaid
    <2>5. Len(F) \in Nat BY <2>4
    <2> HIDE DEF s, b, F
    <2>6. h # 0
        <3> SUFFICES ASSUME h = 0 PROVE FALSE OBVIOUS
        <3>1. s[1] = Boundary /\ Len(s) > 0 BY <1>4, <1>7, <2>1
        <3>2. Boundary = <<"request">> BY <2>2, <3>1
        <3> QED BY <3>2, UnitsDiffer DEF Lines
    <2>7. h = Len(HeadOf(f.req)) BY <1>7, <2>6
    <2>8. Len(b) <= Len(F) BY <1>4, <1>7, <2>1, <2>2, <2>3, <2>5, <2>7
    <2>9. ASSUME NEW i \in 1 .. Len(b) PROVE b[i] = F[i]
        <3>1. i \in 1 .. Len(F) /\ h + i <= Len(s)
          BY <1>4, <1>7, <2>1, <2>3, <2>5, <2>7, <2>8
        <3> QED BY <1>7, <2>2, <2>7, <3>1
    <2> QED BY <2>8, <2>9 DEF Starts
<1>9. Named(c, b)' = named BY <1>3 DEF Named
<1>10. Serving(c)' BY <1>2, <1>3, <1>4, <1>6, <1>8, <1>9 DEF Serving
<1>11. Transferring(c)' BY <1>2 DEF Transferring
<1>12. Step(c) BY <1>1, <1>2, <1>3 DEF Step
<1> QED BY <1>1, <1>2, <1>10, <1>11, <1>12, QuietStep

----------------------------------------------------------------------------
\* A write into a file leaves units in it.
LEMMA PutIs ==
    ASSUME NEW U, <<"zero">> \in U, NEW old \in Seq(U), NEW off \in Nat, NEW x \in Seq(U)
    PROVE  Put(old, off, x) \in Seq(U)
<1> DEFINE m == Largest(Len(old), off + Len(x))
<1>1. m \in Nat BY DEF Largest
<1>2. Put(old, off, x) =
        [i \in 1 .. m |-> IF i > off /\ i <= off + Len(x) THEN x[i - off]
                          ELSE IF i <= Len(old) THEN old[i] ELSE <<"zero">>]
    BY DEF Put
<1> HIDE DEF m
<1>3. ASSUME NEW i \in 1 .. m
      PROVE  (IF i > off /\ i <= off + Len(x) THEN x[i - off]
              ELSE IF i <= Len(old) THEN old[i] ELSE <<"zero">>) \in U
    <2>1. CASE i > off /\ i <= off + Len(x)
        <3>1. i - off \in 1 .. Len(x) BY <1>1, <2>1
        <3> QED BY <2>1, <3>1
    <2>2. CASE ~(i > off /\ i <= off + Len(x)) /\ i <= Len(old)
        <3>1. i \in 1 .. Len(old) BY <1>1, <2>2
        <3> QED BY <2>2, <3>1
    <2>3. CASE ~(i > off /\ i <= off + Len(x)) /\ ~(i <= Len(old)) BY <2>3
    <2> QED BY <2>1, <2>2, <2>3
<1>4. Put(old, off, x) \in [1 .. m -> U] BY <1>2, <1>3
<1> QED BY <1>1, <1>4

\* A write at the end of what is stored stores the next stretch of the part.
LEMMA PutAppends ==
    ASSUME NEW U, NEW C \in Seq(U), NEW off \in Nat, NEW n \in Nat, off + n <= Len(C)
    PROVE  Put(SubSeq(C, 1, off), off, SubSeq(SubSeq(C, off + 1, Len(C)), 1, n)) = SubSeq(C, 1, off + n)
<1> DEFINE old == SubSeq(C, 1, off)
           rest == SubSeq(C, off + 1, Len(C))
           x == SubSeq(rest, 1, n)
           new == SubSeq(C, 1, off + n)
<1>1. Len(C) \in Nat /\ off + n \in Nat /\ off <= Len(C) OBVIOUS
<1>2. old \in Seq(U) /\ Len(old) = off /\ \A i \in 1 .. off : old[i] = C[i] BY <1>1
<1>3. rest \in Seq(U) /\ Len(rest) = Len(C) - off /\ \A i \in 1 .. (Len(C) - off) : rest[i] = C[off + i]
    BY <1>1, SliceIs
<1> HIDE DEF rest
<1>4. x \in Seq(U) /\ Len(x) = n /\ \A i \in 1 .. n : x[i] = rest[i] BY <1>1, <1>3
<1>5. new \in Seq(U) /\ Len(new) = off + n /\ \A i \in 1 .. (off + n) : new[i] = C[i]
  BY <1>1
<1> HIDE DEF old, x, new
<1>6. Largest(Len(old), off + Len(x)) = off + n BY <1>1, <1>2, <1>4 DEF Largest
<1>7. Put(old, off, x) = [i \in 1 .. (off + n) |-> IF i > off /\ i <= off + n THEN x[i - off]
                          ELSE IF i <= off THEN old[i] ELSE <<"zero">>]
    BY <1>2, <1>4, <1>6 DEF Put
<1>8. ASSUME NEW i \in 1 .. (off + n)
      PROVE  (IF i > off /\ i <= off + n THEN x[i - off] ELSE IF i <= off THEN old[i] ELSE <<"zero">>) = new[i]
    <2>1. CASE i > off
        <3>1. i - off \in 1 .. n /\ i - off \in 1 .. (Len(C) - off) /\ off + (i - off) = i /\ i <= off + n
            BY <1>1, <2>1
        <3> QED BY <1>3, <1>4, <1>5, <2>1, <3>1
    <2>2. CASE i <= off
        <3>1. i \in 1 .. off /\ ~(i > off) BY <1>1, <2>2
        <3> QED BY <1>2, <1>5, <2>2, <3>1
    <2> QED BY <1>1, <2>1, <2>2
<1>9. new = [i \in 1 .. (off + n) |-> new[i]] BY <1>5
<1>10. Put(old, off, x) = new BY <1>7, <1>8, <1>9
<1> QED BY <1>10 DEF old, rest, x, new

\* The part at hand is a whole part of the form.
LEMMA PartAtHand ==
    ASSUME IInv, Transfers, NEW c \in Conns, pc[c] \in {"save", "write"}, conn[c].todo # {}
    PROVE  /\ Name(c) \in Names
           /\ Content(c) = Data(c, conn[c].req, Part(c)) /\ Content(c) \in Seq(Unit)
<1> DEFINE b == conn[c].body
           r == conn[c].req
           i == Here(c)
<1>1. Serving(c) BY DEF Transfers
<1>2. Client(c, r) BY ServedClient
<1>3. b \in Seq(Unit) /\ conn[c].todo \subseteq Named(c, b) /\ Starts(b, Form(c, r))
  BY <1>1
  DEF Serving
<1>4. Named(c, b) \subseteq Boundaries(b) /\ Boundaries(b) \subseteq Nat
    BY <1>3 DEF Named, Boundaries
<1>5. i \in conn[c].todo BY <1>3, <1>4, MinIn DEF Here
<1>6. i \in Boundaries(b) /\ After(b, i) # {} /\ r.parts[b[i + 1][2]].name \in Names
    BY <1>3, <1>5 DEF Named
<1>7. Name(c) \in Names BY <1>6 DEF Name, Part
<1>8. PICK x, y : x = b /\ y = i OBVIOUS
<1>9. x \in Seq(Unit) /\ Starts(x, Form(c, r)) /\ y \in Boundaries(x) /\ After(x, y) # {}
    BY <1>3, <1>6, <1>8
<1>10. /\ x[y + 1][2] \in DOMAIN r.parts
       /\ SubSeq(x, y + 2, Min(After(x, y)) - 1) = Data(c, r, x[y + 1][2])
    BY <1>2, <1>9, PartWhole
<1>11. /\ Part(c) \in DOMAIN r.parts
       /\ Content(c) = Data(c, r, Part(c))
    BY <1>8, <1>10 DEF Part, Content
<1>12. Data(c, r, Part(c)) \in Seq(FormUnit) BY <1>2, <1>11, PieceIs
<1>13. FormUnit \subseteq Unit BY DEF Unit
<1>14. Content(c) \in Seq(Unit)
    <2>1. \A d \in Seq(FormUnit) : d \in Seq(Unit) BY <1>13
    <2> QED BY <1>11, <1>12, <2>1
<1> QED BY <1>7, <1>11, <1>14

\* The next part to store, if any, is one that was named before.
LEMMA SaveStep ==
    ASSUME IInv, Transfers, NEW c \in Conns, pc[c] \in {"save", "write"}, Step(c), file' = file, mixed' = mixed,
           pc'[c] = "save", conn'[c].req = conn[c].req, conn'[c].stream = conn[c].stream,
           conn'[c].body = conn[c].body, conn'[c].todo = Others(c)
    PROVE  Transfers'
<1>1. Serving(c) BY DEF Transfers
<1>2. Others(c) \subseteq conn[c].todo BY DEF Others
<1>3. Named(c, conn[c].body)' = Named(c, conn[c].body) BY DEF Named
<1>4. Serving(c)' BY <1>1, <1>2, <1>3 DEF Serving
<1>5. Transferring(c)' BY DEF Transferring
<1> QED BY <1>4, <1>5, QuietStep

\* save_file_part: open refuses; the part is left out.
LEMMA CreateFailsTransfers == ASSUME IInv, Transfers, NEW c \in Conns, CreateFails(c) PROVE Transfers'
<1>1. /\ pc[c] = "save" /\ pc' = pc /\ file' = file /\ mixed' = mixed /\ held' = held
      /\ conn' = [conn EXCEPT ![c] = Assign(@, [todo |-> Others(c)])]
    BY DEF CreateFails, Set, At
<1>2. /\ DOMAIN conn' = Conns /\ DOMAIN conn'[c] = Fields
      /\ \A d \in Conns \ {c} : conn'[d] = conn[d]
      /\ conn'[c].req = conn[c].req /\ conn'[c].stream = conn[c].stream
      /\ conn'[c].body = conn[c].body /\ conn'[c].todo = Others(c)
    BY <1>1 DEF Assign, Fields, Transfers, Frames
<1>3. Step(c) BY <1>1, <1>2 DEF Step
<1> QED BY <1>1, <1>2, <1>3, SaveStep

\* The loop over the parts goes on with the next.
LEMMA NextPartTransfers ==
    ASSUME IInv, Transfers, NEW c \in Conns, NEW saved, pc[c] = "write", NextPart(c, saved),
           file' = file, mixed' = mixed
    PROVE  Transfers'
<1>1. pc'[c] = "save" /\ \A d \in Conns \ {c} : pc'[d] = pc[d]
  BY DEF NextPart, Go, IInv, Shape
<1>2. /\ DOMAIN conn' = Conns /\ DOMAIN conn'[c] = Fields
      /\ \A d \in Conns \ {c} : conn'[d] = conn[d]
      /\ conn'[c].req = conn[c].req /\ conn'[c].stream = conn[c].stream
      /\ conn'[c].body = conn[c].body /\ conn'[c].todo = Others(c)
    BY DEF NextPart, Go, Assign, Fields, Transfers, Frames
<1>3. Step(c) BY <1>1, <1>2 DEF Step, NextPart
<1> QED BY <1>1, <1>2, <1>3, SaveStep

\* Opening a file to store a part in it: whoever uses the file from now on,
\* or did before, is noted.
LEMMA CreateTransfers == ASSUME IInv, Transfers, NEW c \in Conns, Create(c) PROVE Transfers'
<1>0. PICK n : n = Name(c) OBVIOUS
<1>1. /\ pc[c] = "save" /\ conn[c].todo # {}
      /\ Go(c, "write", [on |-> n, off |-> 0])
      /\ file' = [k \in DOMAIN file \cup {n} |-> IF k = n THEN <<>> ELSE file[k]]
      /\ held' = held \cup {<<"file", c>>}
      /\ mixed' = IF Users(n) = {} THEN mixed ELSE mixed \cup Users(n) \cup {c}
    BY <1>0 DEF Create, At, MoreToSave
<1>2. pc'[c] = "write" /\ \A d \in Conns \ {c} : pc'[d] = pc[d] BY <1>1 DEF Go, IInv, Shape
<1>3. /\ DOMAIN conn' = Conns /\ DOMAIN conn'[c] = Fields
      /\ \A d \in Conns \ {c} : conn'[d] = conn[d]
      /\ conn'[c].req = conn[c].req /\ conn'[c].stream = conn[c].stream
      /\ conn'[c].body = conn[c].body /\ conn'[c].todo = conn[c].todo
      /\ conn'[c].on = n /\ conn'[c].off = 0
    BY <1>1 DEF Go, Assign, Fields, Transfers, Frames
<1>4. /\ DOMAIN file' = DOMAIN file \cup {n} /\ file'[n] = <<>>
      /\ \A k \in DOMAIN file : k # n => file'[k] = file[k]
    BY <1>1
<1>5. \A d \in Conns : pc[d] \in {"send", "write"} => <<"file", d>> \in held /\ conn[d].on \in DOMAIN file
    BY DEF Transfers, Transferring
<1>6. \A d \in Conns : d \notin mixed' /\ pc[d] \in {"send", "write"} => conn[d].on # n
    BY <1>1, <1>5 DEF Users
<1>7. c \notin mixed' => \A d \in Conns : pc[d] = "write" => conn[d].on # n
    BY <1>1, <1>5 DEF Users
<1>8. Serving(c)'
    <2>1. Serving(c) BY DEF Transfers
    <2>2. Named(c, conn[c].body)' = Named(c, conn[c].body) BY <1>3 DEF Named
    <2> QED BY <1>1, <1>2, <1>3, <2>1, <2>2 DEF Serving
<1>9. Transferring(c)'
    <2>1. Content(c)' = Content(c) /\ Name(c)' = Name(c)
      BY <1>3
      DEF Content, Name, Part, Here
    <2>2. Content(c) \in Seq(Unit) BY <1>1, PartAtHand
    <2>3. 0 \in 0 .. Len(Content(c)) /\ <<>> = SubSeq(Content(c), 1, 0) BY <2>2
    <2>4. <<"file", c>> \in held' /\ conn'[c].on \in DOMAIN file' /\ conn'[c].todo # {}
      BY <1>1, <1>3, <1>4
    <2> QED BY <1>0, <1>2, <1>3, <1>4, <1>7, <2>1, <2>3, <2>4 DEF Transferring
<1>10. ASSUME NEW d \in Conns \ {c} PROVE Serving(d)' /\ Transferring(d)'
    <2>1. d \notin mixed' /\ pc[d] \in {"send", "write"} =>
            /\ file'[conn[d].on] = file[conn[d].on]
            /\ pc'[c] = "write" => conn'[c].on # conn[d].on
        BY <1>3, <1>4, <1>5, <1>6
    <2>2. mixed \subseteq mixed' /\ DOMAIN file \subseteq DOMAIN file' BY <1>1, <1>4
    <2> QED BY <1>1, <1>2, <1>3, <2>1, <2>2, OthersKeep
<1>11. Frames' BY <1>3 DEF Frames, Transfers
<1>12. Directory'
    <2> SUFFICES ASSUME NEW k \in DOMAIN file' PROVE file'[k] \in Seq(Kept)
      BY DEF Directory, Kept
    <2>1. CASE k = n
        <3>1. <<>> \in Seq(Kept) OBVIOUS
        <3> QED BY <1>4, <2>1, <3>1
    <2>2. CASE k # n BY <1>4, <2>2 DEF Transfers, Directory
    <2> QED BY <2>1, <2>2
<1> QED BY <1>8, <1>9, <1>10, <1>11, <1>12 DEF Transfers

\* A write of the part at hand: the file, if nobody else has it, becomes a
\* longer beginning of the part.
LEMMA WriteTransfers == ASSUME IInv, Transfers, NEW c \in Conns, Write(c) PROVE Transfers'
<1>0. PICK C, off, k : C = Content(c) /\ off = conn[c].off /\ k = conn[c].on OBVIOUS
<1>1. pc[c] = "write" /\ pc' = pc /\ mixed' = mixed /\ held' = held BY DEF Write, At, Set
<1>2. /\ <<"file", c>> \in held /\ k \in DOMAIN file
      /\ conn[c].todo # {} /\ k = Name(c) /\ off \in 0 .. Len(C)
    BY <1>0, <1>1 DEF Transfers, Transferring
<1>3. C \in Seq(Unit) BY <1>0, <1>1, <1>2, PartAtHand
<1>4. Len(C) \in Nat /\ off \in Nat /\ off <= Len(C) BY <1>2, <1>3
<1> DEFINE rest == SubSeq(C, off + 1, Len(C))
<1>5. rest \in Seq(Unit) /\ Len(rest) = Len(C) - off BY <1>3, <1>4, SliceIs
<1>6. rest = Rest(c) BY <1>0 DEF Rest
<1>7. PICK n \in 1 .. Len(rest) :
        /\ file' = [file EXCEPT ![k] = Put(@, off, SubSeq(rest, 1, n))]
        /\ conn' = [conn EXCEPT ![c] = Assign(@, [off |-> off + n])]
    BY <1>0, <1>6 DEF Write, Set
<1>8. n \in Nat /\ off + n <= Len(C) /\ n <= Len(rest) BY <1>4, <1>5
<1> DEFINE x == SubSeq(rest, 1, n)
<1>9. x \in Seq(Unit) BY <1>5, <1>8
<1> HIDE DEF rest
<1>10. /\ DOMAIN conn' = Conns /\ DOMAIN conn'[c] = Fields
       /\ \A d \in Conns \ {c} : conn'[d] = conn[d]
       /\ conn'[c].req = conn[c].req /\ conn'[c].stream = conn[c].stream
       /\ conn'[c].body = conn[c].body /\ conn'[c].todo = conn[c].todo
       /\ conn'[c].on = k /\ conn'[c].off = off + n
    BY <1>0, <1>7 DEF Assign, Fields, Transfers, Frames
<1>11. /\ DOMAIN file' = DOMAIN file /\ file'[k] = Put(file[k], off, x)
       /\ \A j \in DOMAIN file : j # k => file'[j] = file[j]
    BY <1>2, <1>7
<1>12. c \notin mixed => file'[k] = SubSeq(C, 1, off + n)
    <2>1. c \notin mixed => file[k] = SubSeq(C, 1, off)
      BY <1>0, <1>1
      DEF Transfers, Transferring
    <2>2. Put(SubSeq(C, 1, off), off, x) = SubSeq(C, 1, off + n)
        BY <1>3, <1>4, <1>8, PutAppends DEF x, rest
    <2> HIDE DEF x
    <2> QED BY <1>11, <2>1, <2>2
<1>13. Directory'
    <2>1. Unit \subseteq Kept /\ <<"zero">> \in Kept BY DEF Kept
    <2>2. x \in Seq(Kept) BY <1>9, <2>1
    <2> HIDE DEF x
    <2>3. file[k] \in Seq(Kept) BY <1>2 DEF Transfers, Directory
    <2>4. Put(file[k], off, x) \in Seq(Kept) BY <1>4, <2>1, <2>2, <2>3, PutIs
    <2>5. ASSUME NEW j \in DOMAIN file' PROVE file'[j] \in Seq(Kept)
        <3>1. CASE j = k BY <1>11, <2>4, <3>1
        <3>2. CASE j # k BY <1>11, <3>2 DEF Transfers, Directory
        <3> QED BY <3>1, <3>2
    <2> QED BY <2>5 DEF Directory, Kept
<1> HIDE DEF x
<1>14. Serving(c)'
    <2>1. Serving(c) BY DEF Transfers
    <2>2. Named(c, conn[c].body)' = Named(c, conn[c].body) BY <1>10 DEF Named
    <2> QED BY <1>1, <1>10, <2>1, <2>2 DEF Serving
<1>15. Transferring(c)'
    <2>1. Content(c)' = C /\ Name(c)' = Name(c) BY <1>0, <1>10 DEF Content, Name, Part, Here
    <2>2. off + n \in 0 .. Len(C) BY <1>4, <1>8
    <2>3. c \notin mixed => \A d \in Conns \ {c} : pc[d] = "write" => conn[d].on # k
        BY <1>0, <1>1 DEF Transfers, Transferring
    <2> QED BY <1>1, <1>2, <1>10, <1>11, <1>12, <2>1, <2>2, <2>3 DEF Transferring
<1>16. ASSUME NEW d \in Conns \ {c} PROVE Serving(d)' /\ Transferring(d)'
    <2>1. Transferring(d) BY DEF Transfers
    <2>2. d \notin mixed /\ pc[d] \in {"send", "write"} => conn[d].on \in DOMAIN file /\ conn[d].on # k
        BY <1>0, <1>1, <2>1 DEF Transferring
    <2>3. d \notin mixed' /\ pc[d] \in {"send", "write"} =>
            /\ file'[conn[d].on] = file[conn[d].on]
            /\ pc'[c] = "write" => conn'[c].on # conn[d].on
        BY <1>1, <1>10, <1>11, <2>2
    <2> QED BY <1>1, <1>10, <1>11, <2>3, OthersKeep
<1>17. Frames' BY <1>10 DEF Frames, Transfers
<1> QED BY <1>13, <1>14, <1>15, <1>16, <1>17 DEF Transfers

\* Only one action takes a thread from sending to the way out.
LEMMA CloseOnly ==
    ASSUME IInv, Next, NEW c \in Conns, pc[c] = "send", pc'[c] = "out"
    PROVE  CloseFile(c)
<1>1. pc \in [Conns -> Pcs] BY DEF IInv, Shape
<1>2. ASSUME NEW d \in Conns, Handle(d), d # c PROVE FALSE
    <2>1. pc'[c] = pc[c]
        BY <1>1, <1>2
        DEF Handle, RecvHead, RecvNothing, OpenFile, OpenFails, SendChunk, CloseFile,
            OpenDirectory,
            SendListing, MapBody, RecvBody, RecvEnds, ParseUpload, Create, CreateFails, Write, WriteFails, CloseSaved,
            NextPart, ReplyUpload, ReplyError, Leave, Go, Goto, Set, Error
    <2> QED BY <2>1
<1>3. ASSUME Handle(c) PROVE CloseFile(c)
    <2>1. CloseFile(c) \/ SendChunk(c)
        BY <1>3 DEF Handle, RecvHead, RecvNothing, OpenFile, OpenFails, OpenDirectory,
            SendListing, MapBody, RecvBody, RecvEnds, ParseUpload, Create, CreateFails, Write, WriteFails, CloseSaved,
            ReplyUpload, ReplyError, Leave, At
    <2>2. SendChunk(c) => pc' = pc BY DEF SendChunk, Set
    <2> QED BY <2>1, <2>2
<1>4. CASE Accept
    <2>1. pc'[c] = pc[c] \/ pc'[c] = "accepted" BY <1>1, <1>4 DEF Accept, Go
    <2> QED BY <2>1
<1>5. CASE Spawn
    <2>1. pc'[c] = pc[c] \/ pc'[c] = "recv" BY <1>1, <1>5 DEF Spawn, Goto
    <2> QED BY <2>1
<1>6. CASE MapArg BY <1>6 DEF MapArg
<1>7. ASSUME NEW d \in Conns, SigPipe(d) PROVE FALSE BY <1>7 DEF SigPipe
<1> QED BY <1>2, <1>3, <1>4, <1>5, <1>6, <1>7 DEF Next

\* Only one action adds to what a thread reports as saved.
LEMMA SavedOnly ==
    ASSUME IInv, Transfers, Next, NEW c \in Conns, conn'[c].saved # conn[c].saved
    PROVE  CloseSaved(c)
<1>1. DOMAIN conn = Conns /\ \A d \in Conns : DOMAIN conn[d] = Fields
  BY DEF Transfers, Frames
<1> DEFINE Same == conn'[c].saved = conn[c].saved
<1>2. ASSUME NEW d \in Conns, NEW where, NEW fields, Go(d, where, fields), "saved" \notin DOMAIN fields PROVE Same
    BY <1>1, <1>2 DEF Go, Assign, Fields
<1>3. ASSUME NEW d \in Conns, NEW fields, Set(d, fields), "saved" \notin DOMAIN fields PROVE Same
    BY <1>1, <1>3 DEF Set, Assign, Fields
<1>4. ASSUME NEW d \in Conns, NEW where, Goto(d, where) PROVE Same BY <1>4 DEF Goto
<1>5. CASE Accept
    <2>1. PICK d \in Conns : d = srv.n + 1
        BY <1>5, BoundsAssumption DEF IInv, Shape, Accept, Conns
    <2>2. PICK r : Go(d, "accepted", [req |-> r, stream |-> Sends(d, r)])
      BY <1>5, <2>1
      DEF Accept
    <2> QED BY <1>2, <2>2
<1>6. CASE MapArg BY <1>6 DEF MapArg
<1>7. CASE Spawn BY <1>7 DEF Spawn, Goto
<1>8. ASSUME NEW d \in Conns, SigPipe(d) PROVE Same BY <1>8 DEF SigPipe
<1>9. ASSUME NEW d \in Conns, Handle(d), ~CloseSaved(d) PROVE Same
    <2>1. CASE RecvHead(d)
        <3>1. PICK where, code, got, used, declared :
                Go(d, where, [code |-> code, got |-> got, used |-> used, declared |-> declared])
            BY <2>1 DEF RecvHead
        <3> QED BY <1>2, <3>1
    <2>2. CASE RecvNothing(d) BY <1>4, <2>2 DEF RecvNothing
    <2>3. CASE OpenFile(d)
        <3>1. PICK n, size : Go(d, "send", [code |-> 200, on |-> n, declared |-> size])
          BY <2>3
          DEF OpenFile
        <3> QED BY <1>2, <3>1
    <2>4. CASE OpenFails(d) BY <1>2, <2>4 DEF OpenFails, Error
    <2>5. CASE SendChunk(d)
        <3>1. PICK off, sent : Set(d, [off |-> off, sent |-> sent]) BY <2>5 DEF SendChunk
        <3> QED BY <1>3, <3>1
    <2>6. CASE CloseFile(d) BY <1>4, <2>6 DEF CloseFile
    <2>7. CASE OpenDirectory(d)
        <3>1. Goto(d, "list") \/ UNCHANGED conn \/ Go(d, "reply", [code |-> 500])
            BY <2>7 DEF OpenDirectory, Error
        <3> QED BY <1>2, <1>4, <3>1
    <2>8. CASE SendListing(d) BY <1>2, <2>8 DEF SendListing
    <2>9. CASE MapBody(d)
        <3>1. PICK body : Go(d, "reply", [code |-> 400]) \/ Go(d, "body", [body |-> body]) \/ UNCHANGED conn
            BY <2>9 DEF MapBody, Error
        <3> QED BY <1>2, <3>1
    <2>10. CASE RecvBody(d)
        <3>1. PICK used, body : Set(d, [used |-> used, body |-> body]) BY <2>10 DEF RecvBody
        <3> QED BY <1>3, <3>1
    <2>11. CASE RecvEnds(d) BY <1>2, <2>11 DEF RecvEnds, Error
    <2>12. CASE ParseUpload(d)
        <3>1. PICK todo : Go(d, "save", [todo |-> todo]) BY <2>12 DEF ParseUpload
        <3> QED BY <1>2, <3>1
    <2>13. CASE Create(d)
        <3>1. PICK n : Go(d, "write", [on |-> n, off |-> 0]) BY <2>13 DEF Create
        <3> QED BY <1>2, <3>1
    <2>14. CASE CreateFails(d)
        <3>1. PICK todo : Set(d, [todo |-> todo]) BY <2>14 DEF CreateFails
        <3> QED BY <1>3, <3>1
    <2>15. CASE Write(d)
        <3>1. PICK off : Set(d, [off |-> off]) BY <2>15 DEF Write
        <3> QED BY <1>3, <3>1
    <2>16. CASE WriteFails(d)
        <3>1. PICK todo : Go(d, "save", [todo |-> todo, saved |-> conn[d].saved])
          BY <2>16
          DEF WriteFails, NextPart
        <3> QED BY <1>1, <3>1 DEF Go, Assign, Fields
    <2>17. CASE ReplyUpload(d) BY <1>2, <2>17 DEF ReplyUpload
    <2>18. CASE ReplyError(d) BY <1>4, <2>18 DEF ReplyError
    <2>19. CASE Leave(d) BY <1>4, <2>19 DEF Leave
    <2> QED
      BY <1>9, <2>1, <2>2, <2>3, <2>4, <2>5, <2>6, <2>7, <2>8, <2>9, <2>10, <2>11,
         <2>12, <2>13, <2>14,
               <2>15, <2>16, <2>17, <2>18, <2>19 DEF Handle
<1>10. ASSUME NEW d \in Conns, CloseSaved(d) PROVE d = c
    <2> SUFFICES ASSUME d # c PROVE Same OBVIOUS
    <2>1. PICK todo, saved : Go(d, "save", [todo |-> todo, saved |-> saved])
      BY <1>10
      DEF CloseSaved, NextPart
    <2> QED BY <1>1, <2>1 DEF Go
<1> QED BY <1>5, <1>6, <1>7, <1>8, <1>9, <1>10 DEF Next

\* Every step of a thread keeps the invariant.
LEMMA HandleTransfers == ASSUME IInv, Transfers, NEW c \in Conns, Handle(c) PROVE Transfers'
<1>1. CASE RecvHead(c) BY <1>1, RecvHeadTransfers
<1>2. CASE RecvNothing(c) BY <1>2, RecvNothingTransfers
<1>3. CASE OpenFile(c) BY <1>3, OpenFileTransfers
<1>4. CASE OpenFails(c) BY <1>4, OpenFailsTransfers
<1>5. CASE SendChunk(c) BY <1>5, SendChunkTransfers
<1>6. CASE CloseFile(c) BY <1>6, CloseFileTransfers
<1>7. CASE OpenDirectory(c) BY <1>7, OpenDirectoryTransfers
<1>8. CASE SendListing(c) BY <1>8, SendListingTransfers
<1>9. CASE MapBody(c) BY <1>9, MapBodyTransfers
<1>10. CASE RecvBody(c) BY <1>10, RecvBodyTransfers
<1>11. CASE RecvEnds(c) BY <1>11, RecvEndsTransfers
<1>12. CASE ParseUpload(c) BY <1>12, ParseUploadTransfers
<1>13. CASE Create(c) BY <1>13, CreateTransfers
<1>14. CASE CreateFails(c) BY <1>14, CreateFailsTransfers
<1>15. CASE Write(c) BY <1>15, WriteTransfers
<1>16. CASE WriteFails(c) BY <1>16, NextPartTransfers DEF WriteFails, At
<1>17. CASE CloseSaved(c) BY <1>17, NextPartTransfers DEF CloseSaved, At
<1>18. CASE ReplyUpload(c) BY <1>18, ReplyUploadTransfers
<1>19. CASE ReplyError(c) BY <1>19, ReplyErrorTransfers
<1>20. CASE Leave(c) BY <1>20, LeaveTransfers
<1> QED
  BY <1>1, <1>2, <1>3, <1>4, <1>5, <1>6, <1>7, <1>8, <1>9, <1>10, <1>11, <1>12, <1>13,
     <1>14,
           <1>15, <1>16, <1>17, <1>18, <1>19, <1>20 DEF Handle

\* So every step keeps it.
LEMMA TransfersStep == IInv /\ Transfers /\ [Next]_vars => Transfers'
<1> SUFFICES ASSUME IInv, Transfers, [Next]_vars PROVE Transfers' OBVIOUS
<1>1. CASE Accept BY <1>1, AcceptTransfers
<1>2. CASE MapArg BY <1>2, MapArgTransfers
<1>3. CASE Spawn BY <1>3, SpawnTransfers
<1>4. ASSUME NEW c \in Conns, Handle(c) PROVE Transfers' BY <1>4, HandleTransfers
<1>5. ASSUME NEW c \in Conns, SigPipe(c) PROVE Transfers' BY <1>5, SigPipeTransfers
<1>6. CASE UNCHANGED vars BY <1>6, StandStill DEF vars
<1> QED BY <1>1, <1>2, <1>3, <1>4, <1>5, <1>6 DEF Next

\* It holds at the start: the files are sequences (FilesAssumption).
LEMMA TransfersInit == Init => Transfers
<1> SUFFICES ASSUME Init PROVE Transfers OBVIOUS
<1>1. Frames BY DEF Init, Frames, Idle, Fields
<1>2. Directory
    <2> SUFFICES ASSUME NEW n \in DOMAIN Initial PROVE Initial[n] \in Seq(Kept)
      BY DEF Directory, Init, Kept
    <2>1. Initial[n] \in Seq(Range(Initial[n])) BY FilesAssumption
    <2>2. Range(Initial[n]) \subseteq Kept BY DEF Kept
    <2> QED BY <2>1, <2>2
<1>3. ASSUME NEW c \in Conns PROVE Serving(c) /\ Transferring(c)
    <2>1. pc[c] = "none" /\ conn[c].off = 0 /\ conn[c].sent = <<>> BY DEF Init, Idle
    <2> QED BY <2>1 DEF Serving, Transferring
<1> QED BY <1>1, <1>2, <1>3 DEF Transfers

\* A reply to GET holds exactly the bytes of its file, as many as
\* Content-Length announces, for any size of the file and of the chunks, if
\* nobody writes the file meanwhile (webserv.c, send_file_response).
THEOREM RepliesAreFiles == Spec => ReplyIsFile
<1> DEFINE Exact == \A c \in Conns \ mixed' :
         pc[c] = "send" /\ pc'[c] = "out" =>
            conn[c].sent = file[conn[c].on] /\ Len(conn[c].sent) = conn[c].declared
<1>1. ASSUME IInv, Transfers, [Next]_vars PROVE [Exact]_vars
    <2> SUFFICES ASSUME NEW c \in Conns \ mixed', pc[c] = "send", pc'[c] = "out", Next
                 PROVE  conn[c].sent = file[conn[c].on] /\ Len(conn[c].sent) = conn[c].declared
        BY <1>1
    <2>1. CloseFile(c) BY <1>1, CloseOnly
    <2>2. c \notin mixed /\ conn[c].off >= Len(file[conn[c].on]) BY <2>1 DEF CloseFile
    <2>3. /\ conn[c].on \in DOMAIN file
          /\ conn[c].off \in 0 .. Len(file[conn[c].on]) /\ conn[c].sent = SubSeq(file[conn[c].on], 1, conn[c].off)
          /\ conn[c].declared = Len(file[conn[c].on])
        BY <1>1, <2>2 DEF Transfers, Transferring
    <2>4. file[conn[c].on] \in Seq(Kept) BY <1>1, <2>3 DEF Transfers, Directory
    <2>5. PICK x, o : x = file[conn[c].on] /\ o = conn[c].off OBVIOUS
    <2>6. x \in Seq(Kept) /\ o = Len(x) BY <2>2, <2>3, <2>4, <2>5
    <2>7. SubSeq(x, 1, Len(x)) = x BY <2>6
    <2> QED BY <2>3, <2>5, <2>6, <2>7
<1>2. Init => IInv /\ Transfers BY InitHolds, TransfersInit
<1>3. IInv /\ Transfers /\ [Next]_vars => IInv' /\ Transfers' BY StepKeeps, TransfersStep
<1>4. IInv /\ Transfers /\ [Next]_vars => [Exact]_vars BY <1>1
<1>5. Spec => [][Exact]_vars BY <1>2, <1>3, <1>4, PTL DEF Spec
<1> QED BY <1>5 DEF ReplyIsFile

\* A part that counts as saved is in its file exactly as the client sent it,
\* however the body came in portions and the kernel cut the writes, if no
\* other thread uses the file meanwhile (webserv.c, save_file_part).
THEOREM SavesAreExact == Spec => SavedIsExact
<1> DEFINE Exact == \A c \in Conns \ mixed' :
         conn'[c].saved # conn[c].saved => file'[Name(c)] = Data(c, conn[c].req, Part(c))
<1>1. ASSUME IInv, Transfers, [Next]_vars PROVE [Exact]_vars
    <2> SUFFICES ASSUME NEW c \in Conns \ mixed', conn'[c].saved # conn[c].saved, Next
                 PROVE  file'[Name(c)] = Data(c, conn[c].req, Part(c))
        BY <1>1
    <2>1. CloseSaved(c) BY <1>1, SavedOnly
    <2>2. pc[c] = "write" /\ c \notin mixed /\ Rest(c) = <<>> /\ file' = file
      BY <2>1
      DEF CloseSaved, At
    <2>3. PICK C, off : C = Content(c) /\ off = conn[c].off OBVIOUS
    <2>4. /\ conn[c].todo # {} /\ conn[c].on = Name(c) /\ off \in 0 .. Len(C)
          /\ file[Name(c)] = SubSeq(C, 1, off)
        BY <1>1, <2>2, <2>3 DEF Transfers, Transferring
    <2>5. C = Data(c, conn[c].req, Part(c)) /\ C \in Seq(Unit)
      BY <1>1, <2>2, <2>3, <2>4, PartAtHand
    <2>6. SubSeq(C, off + 1, Len(C)) = <<>> BY <2>2, <2>3 DEF Rest
    <2>7. Len(C) \in Nat /\ off \in Nat /\ off <= Len(C) BY <2>4, <2>5
    <2>8. Len(C) - off = 0
        <3>1. Len(SubSeq(C, off + 1, Len(C))) = Len(C) - off BY <2>5, <2>7, SliceIs
        <3> QED BY <2>6, <3>1
    <2>9. off = Len(C) BY <2>7, <2>8
    <2>10. SubSeq(C, 1, Len(C)) = C BY <2>5
    <2> QED BY <2>2, <2>4, <2>5, <2>9, <2>10
<1>2. Init => IInv /\ Transfers BY InitHolds, TransfersInit
<1>3. IInv /\ Transfers /\ [Next]_vars => IInv' /\ Transfers' BY StepKeeps, TransfersStep
<1>4. IInv /\ Transfers /\ [Next]_vars => [Exact]_vars BY <1>1
<1>5. Spec => [][Exact]_vars BY <1>2, <1>3, <1>4, PTL DEF Spec
<1> QED BY <1>5 DEF SavedIsExact

----------------------------------------------------------------------------
\* Only thread c moves.
Moves(c) == env' = env /\ \A d \in Conns \ {c} : pc'[d] = pc[d] /\ conn'[d] = conn[d]

\* What the other threads have counted and answer stays.
LEMMA OthersAnswer ==
    ASSUME Answers, NEW c \in Conns, Moves(c), Counts(c)', Answering(c)'
    PROVE  Answers'
<1> SUFFICES ASSUME NEW d \in Conns \ {c} PROVE Counts(d)' /\ Answering(d)'
    BY DEF Answers
<1>1. pc'[d] = pc[d] /\ conn'[d] = conn[d] /\ env' = env BY DEF Moves
<1>2. Counts(d) /\ Answering(d) BY DEF Answers
<1>3. Counts(d)' BY <1>1, <1>2 DEF Counts
<1>4. /\ Complete(d)' <=> Complete(d)
      /\ Storing(d)' <=> Storing(d)
      /\ AllSaved(d)' <=> AllSaved(d)
    BY <1>1 DEF Complete, Storing, AllSaved
<1>5. Answering(d)' BY <1>1, <1>2, <1>4 DEF Answering
<1> QED BY <1>3, <1>5

\* Nobody moves.
LEMMA StandStillAnswers == ASSUME Answers, pc' = pc, conn' = conn, env' = env PROVE Answers'
<1> SUFFICES ASSUME NEW c \in Conns PROVE Counts(c)' /\ Answering(c)'
    BY DEF Answers
<1>1. Counts(c) /\ Answering(c) BY DEF Answers
<1>2. Counts(c)' BY <1>1 DEF Counts
<1>3. /\ Complete(c)' <=> Complete(c)
      /\ Storing(c)' <=> Storing(c)
      /\ AllSaved(c)' <=> AllSaved(c)
    BY DEF Complete, Storing, AllSaved
<1> QED BY <1>1, <1>2, <1>3 DEF Answering

\* What a step of a thread does to its frame.
LEMMA GoIs ==
    ASSUME IInv, Transfers, NEW c \in Conns, NEW where, NEW fields, Go(c, where, fields), env' = env
    PROVE  Moves(c) /\ pc'[c] = where /\ conn'[c] = Assign(conn[c], fields)
BY DEF Go, Moves, IInv, Shape, Transfers, Frames

\* The same for a step without assignments.
LEMMA GotoIs ==
    ASSUME IInv, NEW c \in Conns, NEW where, Goto(c, where), env' = env
    PROVE  Moves(c) /\ pc'[c] = where /\ conn'[c] = conn[c]
BY DEF Goto, Moves, IInv, Shape

\* The same for a thread that stays where it is.
LEMMA SetIs ==
    ASSUME Transfers, NEW c \in Conns, NEW fields, Set(c, fields), env' = env
    PROVE  Moves(c) /\ pc'[c] = pc[c] /\ conn'[c] = Assign(conn[c], fields)
BY DEF Set, Moves, Transfers, Frames

\* A field that is not assigned keeps its value.
LEMMA AssignIs ==
    ASSUME Transfers, NEW c \in Conns, NEW fields
    PROVE  \A x \in Fields : Assign(conn[c], fields)[x] = IF x \in DOMAIN fields THEN fields[x] ELSE conn[c][x]
BY DEF Assign, Transfers, Frames

\* A thread that stores nothing, or no longer.
LEMMA PlainAnswer ==
    ASSUME Answers, NEW c \in Conns, Moves(c), conn'[c].saved = conn[c].saved, conn'[c].body = conn[c].body,
           pc'[c] \in {"reply", "open", "send", "opendir", "list", "out", "done"},
           pc'[c] = "reply" => conn'[c].code # 200,
           pc'[c] \in {"open", "send", "opendir", "list"} => conn'[c].req.method # "POST",
           pc'[c] = "out" => conn'[c].code # 200 \/ conn'[c].req.method # "POST"
    PROVE  Answers'
<1>1. Counts(c) BY DEF Answers
<1>2. Counts(c)' BY <1>1 DEF Counts
<1>3. Answering(c)' BY DEF Answering
<1> QED BY <1>2, <1>3, OthersAnswer

\* An error page is announced.
LEMMA ErrorAnswer ==
    ASSUME IInv, Transfers, Answers, NEW c \in Conns, NEW code, code # 200, Error(c, code), env' = env
    PROVE  Answers'
<1>1. Moves(c) /\ pc'[c] = "reply" /\ conn'[c] = Assign(conn[c], [code |-> code])
  BY GoIs
  DEF Error
<1>2. conn'[c].saved = conn[c].saved /\ conn'[c].body = conn[c].body /\ conn'[c].code = code
    BY <1>1 DEF Assign, Fields, Transfers, Frames
<1> QED BY <1>1, <1>2, PlainAnswer

\* The accept loop gives a thread its request; nothing is stored yet.
LEMMA AcceptAnswers == ASSUME IInv, Transfers, Answers, Accept PROVE Answers'
<1>0. PICK c \in Conns : c = srv.n + 1 BY BoundsAssumption DEF IInv, Shape, Accept, Conns
<1>1. pc[c] = "none" /\ env' = env BY <1>0 DEF IInv, Shape, LoopShape, Conns, Accept
<1>2. PICK r \in Requests[c] : Go(c, "accepted", [req |-> r, stream |-> Sends(c, r)])
  BY <1>0
  DEF Accept
<1>3. Moves(c) /\ pc'[c] = "accepted" /\ conn'[c] = Assign(conn[c], [req |-> r, stream |-> Sends(c, r)])
    BY <1>1, <1>2, GoIs
<1>4. conn'[c].saved = conn[c].saved /\ conn'[c].body = conn[c].body /\ conn'[c].code = conn[c].code
    BY <1>3 DEF Assign, Fields, Transfers, Frames
<1>5. Counts(c) BY DEF Answers
<1>6. Counts(c)' BY <1>1, <1>3, <1>4, <1>5 DEF Counts
<1>7. Answering(c)' BY <1>3 DEF Answering
<1> QED BY <1>3, <1>6, <1>7, OthersAnswer

\* The thread starts, or its clone fails.
LEMMA SpawnAnswers == ASSUME IInv, Answers, Spawn PROVE Answers'
<1>0. PICK c \in Conns : c = srv.n BY DEF IInv, LoopShape, Spawn
<1>1. pc[c] = "accepted" /\ env' = env BY <1>0 DEF IInv, LoopShape, Spawn
<1>2. CASE pc' = pc /\ conn' = conn BY <1>1, <1>2, StandStillAnswers
<1>3. CASE Goto(c, "recv")
    <2>1. Moves(c) /\ pc'[c] = "recv" /\ conn'[c] = conn[c] BY <1>1, <1>3, GotoIs
    <2>2. Counts(c) BY DEF Answers
    <2>3. Counts(c)' BY <1>1, <2>1, <2>2 DEF Counts
    <2>4. Answering(c)' BY <2>1 DEF Answering
    <2> QED BY <2>1, <2>3, <2>4, OthersAnswer
<1> QED BY <1>0, <1>2, <1>3 DEF Spawn

\* No check announces an error page as a success.
LEMMA RefusedCode ==
    ASSUME NEW checks, DOMAIN checks \subseteq Nat, \A i \in DOMAIN checks : checks[i][2] # 200
    PROVE  Refused(checks) # 200
<1> DEFINE hit == {i \in DOMAIN checks : checks[i][1]}
<1>1. Refused(checks) = IF hit = {} THEN 0 ELSE checks[Min(hit)][2] BY DEF Refused
<1>2. hit \subseteq DOMAIN checks OBVIOUS
<1>3. hit # {} => Min(hit) \in hit BY <1>2, MinIn
<1> HIDE DEF hit
<1> QED BY <1>1, <1>2, <1>3

\* No request is refused with 200.
LEMMA RefusesCode == ASSUME NEW r, NEW lines PROVE Refuses(r, lines) # 200
<1>1. RefusesGet(r) # 200
    <2> DEFINE checks == << <<r.target = "outside", 403>>,
                            <<r.target \notin DOMAIN file \cup {"dir", "dir/", "device"}, 404>>,
                            <<r.target = "dir", 301>>,
                            <<r.target = "device", 403>> >>
    <2>1. DOMAIN checks = {1, 2, 3, 4} OBVIOUS
    <2>2. checks[1][2] # 200 /\ checks[2][2] # 200 /\ checks[3][2] # 200 /\ checks[4][2] # 200 OBVIOUS
    <2> HIDE DEF checks
    <2>3. Refused(checks) # 200 BY <2>1, <2>2, RefusedCode
    <2> QED BY <2>3 DEF checks, RefusesGet
<1>2. RefusesPost(r, lines) # 200
    <2> DEFINE checks == << <<<<"length">> \notin lines, 411>>,
                            <<r.declared > MaxUpload, 413>>,
                            <<<<"type">> \notin lines, 415>>,
                            <<r.target = "outside", 403>>,
                            <<r.target \notin {"dir", "dir/"}, 404>> >>
    <2>1. DOMAIN checks = {1, 2, 3, 4, 5} OBVIOUS
    <2>2. /\ checks[1][2] # 200 /\ checks[2][2] # 200 /\ checks[3][2] # 200 /\ checks[4][2] # 200
          /\ checks[5][2] # 200
        OBVIOUS
    <2> HIDE DEF checks
    <2>3. Refused(checks) # 200 BY <2>1, <2>2, RefusedCode
    <2> QED BY <2>3 DEF checks, RefusesPost
<1> QED BY <1>1, <1>2 DEF Refuses

\* An upload that passes the checks fits the buffer.
LEMMA FitsBuffer ==
    ASSUME NEW r, NEW lines, Refuses(r, lines) = 0, r.method = "POST", r.declared \in Int
    PROVE  r.declared <= MaxUpload
<1>1. RefusesPost(r, lines) = 0 BY DEF Refuses
<1> DEFINE checks == << <<<<"length">> \notin lines, 411>>,
                        <<r.declared > MaxUpload, 413>>,
                        <<<<"type">> \notin lines, 415>>,
                        <<r.target = "outside", 403>>,
                        <<r.target \notin {"dir", "dir/"}, 404>> >>
<1>2. Refused(checks) = 0 BY <1>1 DEF RefusesPost
<1>3. DOMAIN checks = {1, 2, 3, 4, 5} OBVIOUS
<1>4. /\ checks[2][1] = (r.declared > MaxUpload)
      /\ checks[1][2] # 0 /\ checks[2][2] # 0 /\ checks[3][2] # 0 /\ checks[4][2] # 0 /\ checks[5][2] # 0
    OBVIOUS
<1> HIDE DEF checks
<1>5. \A i \in DOMAIN checks : ~checks[i][1] BY <1>2, <1>3, <1>4, RefusedNot
<1>6. ~checks[2][1] BY <1>3, <1>5
<1>7. ~(r.declared > MaxUpload) BY Zenon, <1>4, <1>6
<1> QED BY <1>7, BoundsAssumption

\* recv_request_head: an upload goes on only if its body fits the buffer.
LEMMA RecvHeadAnswers == ASSUME IInv, Transfers, Answers, NEW c \in Conns, RecvHead(c) PROVE Answers'
<1> DEFINE r == conn[c].req
<1>1. PICK n \in 1 .. Lowest(HeadBuf, Len(conn[c].stream)) :
         LET lines == SubSeq(conn[c].stream, 1, n)
             code == Refuses(r, Range(lines))
             step == CASE code # 0 -> "reply"
                       [] code = 0 /\ r.method = "POST" -> "bodymap"
                       [] code = 0 /\ r.method = "GET" /\ r.target = "dir/" -> "opendir"
                       [] OTHER -> "open"
         IN  Go(c, step, [code |-> code, got |-> lines, used |-> n,
                    declared |-> r.declared])
    BY DEF RecvHead
<1> DEFINE lines == SubSeq(conn[c].stream, 1, n)
           code == Refuses(r, Range(lines))
           step == CASE code # 0 -> "reply"
                       [] code = 0 /\ r.method = "POST" -> "bodymap"
                       [] code = 0 /\ r.method = "GET" /\ r.target = "dir/" -> "opendir"
                       [] OTHER -> "open"
<1>2. pc[c] = "recv" /\ env' = env BY DEF RecvHead, At
<1>3. Client(c, r) BY <1>2, ServedClient
<1>4. r.declared \in Int BY <1>3 DEF Client
<1>5. code # 200 BY RefusesCode
<1>6. \/ step = "reply"
      \/ step = "bodymap" /\ r.declared <= MaxUpload
      \/ step \in {"open", "opendir"} /\ r.method # "POST"
    <2>1. code = 0 /\ r.method = "POST" => r.declared <= MaxUpload BY <1>4, FitsBuffer
    <2>2. code # 0 \/ r.method \in {"GET", "POST"} BY DEF Refuses
    <2> HIDE DEF code, r
    <2>3. CASE code # 0 BY <2>3
    <2>4. CASE code = 0 /\ r.method = "POST" BY <2>1, <2>4
    <2>5. CASE code = 0 /\ r.method = "GET" BY <2>5
    <2> QED BY <2>2, <2>3, <2>4, <2>5
<1> HIDE DEF step, code, lines
<1>7. Go(c, step, [code |-> code, got |-> lines, used |-> n, declared |-> r.declared])
    BY <1>1 DEF step, code, lines
<1>8. Moves(c) /\ pc'[c] = step
      /\ conn'[c] = Assign(conn[c], [code |-> code, got |-> lines, used |-> n, declared |-> r.declared])
    BY <1>2, <1>7, GoIs
<1>9. /\ conn'[c].saved = conn[c].saved /\ conn'[c].body = conn[c].body /\ conn'[c].code = code
      /\ conn'[c].declared = r.declared /\ conn'[c].req = r
    BY <1>8 DEF Assign, Fields, Transfers, Frames
<1>10. CASE step \in {"reply", "open", "opendir"}
  BY <1>5, <1>6, <1>8, <1>9, <1>10, PlainAnswer
<1>11. CASE step = "bodymap"
    <2>1. Counts(c) BY DEF Answers
    <2>2. Counts(c)' BY <1>2, <1>6, <1>8, <1>9, <1>11, <2>1 DEF Counts
    <2>3. Answering(c)' BY <1>8, <1>11 DEF Answering
    <2> QED BY <1>8, <2>2, <2>3, OthersAnswer
<1> QED BY <1>6, <1>10, <1>11

\* A client that sends nothing is left.
LEMMA RecvNothingAnswers == ASSUME IInv, Transfers, Answers, NEW c \in Conns, RecvNothing(c) PROVE Answers'
<1>1. pc[c] = "recv" /\ env' = env BY DEF RecvNothing, At
<1>2. Moves(c) /\ pc'[c] = "out" /\ conn'[c] = conn[c] BY <1>1, GotoIs DEF RecvNothing
<1>3. conn[c].code # 200 BY <1>1 DEF Answers, Counts
<1> QED BY <1>2, <1>3, PlainAnswer

\* A file is opened for a GET.
LEMMA OpenFileAnswers == ASSUME IInv, Transfers, Answers, NEW c \in Conns, OpenFile(c) PROVE Answers'
<1>1. pc[c] = "open" /\ env' = env BY DEF OpenFile, At
<1>2. PICK n, size : Go(c, "send", [code |-> 200, on |-> n, declared |-> size])
  BY DEF OpenFile
<1>3. Moves(c) /\ pc'[c] = "send" /\ conn'[c] = Assign(conn[c], [code |-> 200, on |-> n, declared |-> size])
    BY <1>1, <1>2, GoIs
<1>4. conn'[c].saved = conn[c].saved /\ conn'[c].body = conn[c].body /\ conn'[c].req = conn[c].req
    BY <1>3 DEF Assign, Fields, Transfers, Frames
<1>5. conn[c].req.method # "POST" BY <1>1 DEF Answers, Counts
<1> QED BY <1>3, <1>4, <1>5, PlainAnswer

\* One turn of the loop that sends a file.
LEMMA SendChunkAnswers == ASSUME IInv, Transfers, Answers, NEW c \in Conns, SendChunk(c) PROVE Answers'
<1>1. pc[c] = "send" /\ env' = env BY DEF SendChunk, At
<1>2. PICK off, sent : Set(c, [off |-> off, sent |-> sent]) BY DEF SendChunk
<1>3. Moves(c) /\ pc'[c] = "send" /\ conn'[c] = Assign(conn[c], [off |-> off, sent |-> sent])
    BY <1>1, <1>2, SetIs
<1>4. conn'[c].saved = conn[c].saved /\ conn'[c].body = conn[c].body /\ conn'[c].req = conn[c].req
    BY <1>3 DEF Assign, Fields, Transfers, Frames
<1>5. conn[c].req.method # "POST" BY <1>1 DEF Answers, Counts
<1> QED BY <1>3, <1>4, <1>5, PlainAnswer

\* The reply is sent; it was a GET.
LEMMA CloseFileAnswers == ASSUME IInv, Transfers, Answers, NEW c \in Conns, CloseFile(c) PROVE Answers'
<1>1. pc[c] = "send" /\ env' = env BY DEF CloseFile, At
<1>2. Moves(c) /\ pc'[c] = "out" /\ conn'[c] = conn[c] BY <1>1, GotoIs DEF CloseFile
<1>3. conn[c].req.method # "POST" BY <1>1 DEF Answers, Counts
<1> QED BY <1>2, <1>3, PlainAnswer

\* The directory is opened, or is not.
LEMMA OpenDirectoryAnswers == ASSUME IInv, Transfers, Answers, NEW c \in Conns, OpenDirectory(c) PROVE Answers'
<1>1. pc[c] = "opendir" /\ env' = env BY DEF OpenDirectory, At
<1>2. CASE Goto(c, "list")
    <2>1. Moves(c) /\ pc'[c] = "list" /\ conn'[c] = conn[c] BY <1>1, <1>2, GotoIs
    <2>2. conn[c].req.method # "POST" BY <1>1 DEF Answers, Counts
    <2> QED BY <2>1, <2>2, PlainAnswer
<1>3. CASE Error(c, 500) BY <1>1, <1>3, ErrorAnswer
<1>4. CASE pc' = pc /\ conn' = conn BY <1>1, <1>4, StandStillAnswers
<1> QED BY <1>2, <1>3, <1>4 DEF OpenDirectory

\* The listing is sent; it was a GET.
LEMMA SendListingAnswers == ASSUME IInv, Transfers, Answers, NEW c \in Conns, SendListing(c) PROVE Answers'
<1>1. pc[c] = "list" /\ env' = env BY DEF SendListing, At
<1>2. Moves(c) /\ pc'[c] = "out" /\ conn'[c] = Assign(conn[c], [code |-> 200])
  BY <1>1, GoIs
  DEF SendListing
<1>3. conn'[c].saved = conn[c].saved /\ conn'[c].body = conn[c].body /\ conn'[c].req = conn[c].req
    BY <1>2 DEF Assign, Fields, Transfers, Frames
<1>4. conn[c].req.method # "POST" BY <1>1 DEF Answers, Counts
<1> QED BY <1>2, <1>3, <1>4, PlainAnswer

\* The buffer of the body is mapped; nothing is stored yet.
LEMMA MapBodyAnswers == ASSUME IInv, Transfers, Answers, NEW c \in Conns, MapBody(c) PROVE Answers'
<1>1. pc[c] = "bodymap" /\ env' = env BY DEF MapBody, At
<1>2. CASE Error(c, 400) BY <1>1, <1>2, ErrorAnswer
<1>3. CASE pc' = pc /\ conn' = conn BY <1>1, <1>3, StandStillAnswers
<1> DEFINE b == InHead(conn[c].got, conn[c].declared)
<1>4. CASE conn[c].declared > 0 /\ Go(c, "body", [body |-> b])
    <2>1. Moves(c) /\ pc'[c] = "body" /\ conn'[c] = Assign(conn[c], [body |-> b])
      BY <1>1, <1>4, GoIs
    <2>2. /\ conn'[c].saved = conn[c].saved /\ conn'[c].body = b /\ conn'[c].req = conn[c].req
          /\ conn'[c].declared = conn[c].declared
        BY <2>1 DEF Assign, Fields, Transfers, Frames
    <2>3. b \in Seq(Unit) /\ Len(b) <= conn[c].declared BY <1>1, <1>4, HeadBody
    <2>4. conn[c].declared \in Int BY <1>1 DEF Transfers, Serving
    <2> HIDE DEF b
    <2>5. Len(b) \in Nat BY <2>3
    <2>6. Counts(c) BY DEF Answers
    <2>7. Len(b) <= MaxUpload BY <1>1, <2>3, <2>4, <2>5, <2>6, BoundsAssumption DEF Counts
    <2>8. Counts(c)' BY <1>1, <2>1, <2>2, <2>3, <2>6, <2>7 DEF Counts
    <2>9. Answering(c)' BY <2>1 DEF Answering
    <2> QED BY <2>1, <2>8, <2>9, OthersAnswer
<1> QED BY <1>2, <1>3, <1>4 DEF MapBody

\* Another portion of the body, within what was declared.
LEMMA RecvBodyAnswers == ASSUME IInv, Transfers, Answers, NEW c \in Conns, RecvBody(c) PROVE Answers'
<1> DEFINE f == conn[c]
<1>1. pc[c] = "body" /\ env' = env /\ Len(f.body) < f.declared BY DEF RecvBody, At
<1>2. PICK n \in 1 .. Lowest(f.declared - Len(f.body), Len(f.stream) - f.used) :
        Set(c, [used |-> f.used + n, body |-> f.body \o SubSeq(f.stream, f.used + 1, f.used + n)])
    BY DEF RecvBody
<1> DEFINE more == SubSeq(f.stream, f.used + 1, f.used + n)
           b == f.body \o more
<1>3. Moves(c) /\ pc'[c] = "body" /\ conn'[c] = Assign(f, [used |-> f.used + n, body |-> b])
    BY <1>1, <1>2, SetIs
<1>4. conn'[c].saved = f.saved /\ conn'[c].body = b /\ conn'[c].req = f.req /\ conn'[c].declared = f.declared
    BY <1>3 DEF Assign, Fields, Transfers, Frames
<1>5. f.body \in Seq(Unit) /\ f.declared \in Int /\ f.used \in 0 .. Len(f.stream)
  BY <1>1
  DEF Transfers, Serving, Window
<1>6. f.stream \in Seq(Unit) /\ Len(f.stream) \in Nat BY <1>1, ServedClient
<1>7. Len(b) \in Nat /\ Len(b) <= f.declared
    <2>1. PICK x, s, d, u : x = f.body /\ s = f.stream /\ d = f.declared /\ u = f.used OBVIOUS
    <2>2. x \in Seq(Unit) /\ Len(x) \in Nat /\ d \in Int /\ s \in Seq(Unit) /\ Len(s) \in Nat /\ u \in 0 .. Len(s)
        BY <1>5, <1>6, <2>1
    <2>3. n \in 1 .. Lowest(d - Len(x), Len(s) - u) BY <2>1
    <2>4. n \in Nat /\ n <= d - Len(x) /\ n <= Len(s) - u BY <2>2, <2>3 DEF Lowest
    <2>5. PICK z : z = u + n OBVIOUS
    <2>6. u \in Nat /\ z \in Nat /\ u <= z /\ z <= Len(s) /\ z - u = n BY <2>2, <2>4, <2>5
    <2>7. SubSeq(s, u + 1, z) \in Seq(Unit) /\ Len(SubSeq(s, u + 1, z)) = z - u
      BY <2>2, <2>6, SliceIs
    <2>8. PICK y : y = SubSeq(s, u + 1, z) OBVIOUS
    <2>9. y \in Seq(Unit) /\ Len(y) = n BY <2>6, <2>7, <2>8
    <2>10. x \in Seq(Unit) /\ y \in Seq(Unit) BY <2>2, <2>9
    <2>11. Len(x \o y) = Len(x) + Len(y) BY <2>10, ConcatIs
    <2>12. b = x \o y BY <2>1, <2>5, <2>8
    <2> HIDE DEF b
    <2> QED BY <2>1, <2>2, <2>4, <2>9, <2>11, <2>12
<1> HIDE DEF b
<1>9. Counts(c) BY DEF Answers
<1>10. Len(b) <= MaxUpload BY <1>1, <1>5, <1>7, <1>9, BoundsAssumption DEF Counts
<1>11. Counts(c)' BY <1>1, <1>3, <1>4, <1>7, <1>9, <1>10 DEF Counts
<1>12. Answering(c)' BY <1>3 DEF Answering
<1> QED BY <1>3, <1>11, <1>12, OthersAnswer

\* The client stops in the middle of the body.
LEMMA RecvEndsAnswers == ASSUME IInv, Transfers, Answers, NEW c \in Conns, RecvEnds(c) PROVE Answers'
BY ErrorAnswer DEF RecvEnds

\* In a whole form every named part stands behind a boundary that is followed
\* by another, and later parts stand behind later boundaries.
LEMMA WholeForm ==
    ASSUME IInv, Transfers, NEW c \in Conns, pc[c] # "none",
           NEW b, b = Form(c, conn[c].req)
    PROVE  /\ \A p \in NamedParts(conn[c].req) : \E i \in Named(c, b) : PartAt(b, i) = p
           /\ \A i \in Named(c, b) : PartAt(b, i) \in NamedParts(conn[c].req)
           /\ \A i, j \in Named(c, b) : i < j => PartAt(b, i) < PartAt(b, j)
<1> DEFINE r == conn[c].req
<1>1. Client(c, r) BY ServedClient
<1>2. /\ b \in Seq(FormUnit) /\ Laid(c, r, b)
      /\ r.parts # <<>> => Numbered(Len(r.parts), b)
      /\ r.parts = <<>> => b = <<>>
    BY <1>1, FormLaid
<1>3. CASE r.parts = <<>>
    <2>1. NamedParts(r) = {} BY <1>3 DEF NamedParts
    <2>2. Named(c, b) = {} BY <1>2, <1>3 DEF Named, Boundaries
    <2> QED BY <2>1, <2>2
<1>4. CASE r.parts # <<>>
    <2>1. Numbered(Len(r.parts), b) BY <1>2, <1>4
    <2>2. DOMAIN r.parts = 1 .. Len(r.parts) /\ Len(r.parts) \in Nat BY <1>1, PartIs
    <2>3. Len(b) \in Nat /\ DOMAIN b = 1 .. Len(b) BY <1>2
    <2> HIDE DEF r
    \* A boundary that is not the last is followed by a part and another boundary.
    <2>4. ASSUME NEW i \in 1 .. (Len(b) - 1), b[i] = Boundary
          PROVE  i \in Boundaries(b) /\ After(b, i) # {} /\ PartAt(b, i) \in DOMAIN r.parts
                 /\ b[i + 1] = <<"part", PartAt(b, i)>>
        <3>1. PICK q \in DOMAIN r.parts :
                /\ b[i + 1] = <<"part", q>>
                /\ i + 2 + r.parts[q].size <= Len(b) /\ b[i + 2 + r.parts[q].size] = Boundary
            BY <1>2, <2>4 DEF Laid
        <3>2. r.parts[q].size \in Nat BY <1>1, PartIs DEF r
        <3>3. i + 2 + r.parts[q].size \in DOMAIN b /\ i + 2 + r.parts[q].size > i /\ i \in DOMAIN b
            BY <2>3, <3>1, <3>2
        <3>4. i + 2 + r.parts[q].size \in After(b, i) BY <3>1, <3>3 DEF After, Boundaries
        <3>5. PartAt(b, i) = q BY <3>1 DEF PartAt
        <3> QED BY <2>4, <3>1, <3>3, <3>4, <3>5 DEF Boundaries
    <2>5. ASSUME NEW i \in Named(c, b)
          PROVE  i \in 1 .. (Len(b) - 1) /\ b[i] = Boundary /\ r.parts[PartAt(b, i)].name \in Names
        <3>1. i \in DOMAIN b /\ b[i] = Boundary /\ After(b, i) # {} /\ r.parts[PartAt(b, i)].name \in Names
            BY DEF Named, Boundaries, PartAt, r
        <3>2. PICK j : j \in DOMAIN b /\ j > i BY <3>1 DEF After, Boundaries
        <3> QED BY <2>3, <3>1, <3>2
    <2>6. ASSUME NEW i \in 1 .. (Len(b) - 1), b[i] = Boundary, r.parts[PartAt(b, i)].name \in Names
          PROVE  i \in Named(c, b)
        <3>1. i \in Boundaries(b) /\ After(b, i) # {} /\ b[i + 1] = <<"part", PartAt(b, i)>>
          BY <2>4, <2>6
        <3>2. b[1] = Boundary BY <2>1 DEF Numbered
        <3>3. b[i + 1] # Boundary BY <3>1, UnitsDiffer
        <3> QED BY <2>6, <3>1, <3>2, <3>3 DEF Named, PartAt, r
    <2>7. ASSUME NEW p \in NamedParts(r) PROVE \E i \in Named(c, b) : PartAt(b, i) = p
        <3>1. p \in 1 .. Len(r.parts) /\ r.parts[p].name \in Names BY <2>2 DEF NamedParts
        <3>2. PICK i \in 1 .. (Len(b) - 1) : b[i] = Boundary /\ b[i + 1] = <<"part", p>>
            BY <2>1, <3>1 DEF Numbered
        <3>3. PartAt(b, i) = p BY <3>2 DEF PartAt
        <3> QED BY <2>6, <3>1, <3>2, <3>3
    <2>8. ASSUME NEW i \in Named(c, b) PROVE PartAt(b, i) \in NamedParts(r)
        BY <2>4, <2>5 DEF NamedParts
    <2>9. ASSUME NEW i \in Named(c, b), NEW j \in Named(c, b), i < j PROVE PartAt(b, i) < PartAt(b, j)
        <3>1. i \in 1 .. (Len(b) - 1) /\ b[i] = Boundary /\ j \in 1 .. (Len(b) - 1) /\ b[j] = Boundary
          BY <2>5
        <3> QED BY <2>1, <2>9, <3>1 DEF Numbered, PartAt
    <2> QED BY <2>7, <2>8, <2>9 DEF r
<1> QED BY <1>3, <1>4

\* A body that is as long as the complete form is that form.
LEMMA ParseUploadAnswers == ASSUME IInv, Transfers, Answers, NEW c \in Conns, ParseUpload(c) PROVE Answers'
<1> DEFINE f == conn[c]
           F == Form(c, f.req)
<1>1. pc[c] = "body" /\ env' = env /\ Len(f.body) = f.declared BY DEF ParseUpload, At
<1>2. PICK named : named = Named(c, f.body) OBVIOUS
<1>3. Moves(c) /\ pc'[c] = "save" /\ conn'[c] = Assign(f, [todo |-> named])
    BY <1>1, <1>2, GoIs DEF ParseUpload
<1>4. /\ conn'[c].saved = f.saved /\ conn'[c].body = f.body /\ conn'[c].req = f.req /\ conn'[c].got = f.got
      /\ conn'[c].todo = named
    BY <1>3 DEF Assign, Fields, Transfers, Frames
<1>5. Counts(c) BY DEF Answers
<1>6. Counts(c)' BY <1>3, <1>4, <1>5 DEF Counts
<1>7. ASSUME Complete(c) PROVE f.body = F
    <2>1. Client(c, f.req) /\ f.stream = Sends(c, f.req) BY <1>1, ServedClient
    <2>2. Window(c) BY <1>1 DEF Transfers, Serving
    <2>3. F \in Seq(FormUnit) BY <2>1, FormLaid
    <2>4. Len(f.body) = Len(F) BY <1>1, <1>5, <1>7 DEF Complete, Counts
    <2>5. Offset(f) = Len(HeadOf(f.req)) /\ Len(HeadOf(f.req)) \in Nat
      BY <1>7, HeadIs
      DEF Complete, Offset
    <2>6. PICK x, s, h, G : x = f.body /\ s = f.stream /\ h = Len(HeadOf(f.req)) /\ G = F OBVIOUS
    <2>7. /\ x \in Seq(Unit) /\ G \in Seq(FormUnit) /\ Len(x) = Len(G) /\ h \in Nat /\ h + Len(x) <= Len(s)
          /\ \A i \in 1 .. Len(x) : x[i] = s[h + i]
        BY <2>2, <2>3, <2>4, <2>5, <2>6 DEF Window
    <2>8. \A i \in 1 .. Len(G) : h + i <= Len(s) => s[h + i] = G[i] BY <2>1, <2>6, StreamIs
    <2>9. s \in Seq(Unit) BY <1>1, <2>6, ServedClient
    <2>10. ASSUME NEW i \in 1 .. Len(x) PROVE x[i] = G[i]
        <3>1. h + i <= Len(s) /\ i \in 1 .. Len(G) BY <2>7, <2>9
        <3> QED BY <2>7, <2>8, <3>1
    <2>11. x = [i \in 1 .. Len(x) |-> x[i]] /\ G = [i \in 1 .. Len(G) |-> G[i]] BY <2>7
    <2>12. x = G BY <2>7, <2>10, <2>11
    <2> QED BY <2>6, <2>12
<1>8. ASSUME Complete(c) PROVE Storing(c)'
    <2>1. PICK b : b = f.body OBVIOUS
    <2>2. b = Form(c, conn[c].req) BY <1>7, <1>8, <2>1
    <2>3. /\ \A p \in NamedParts(f.req) : \E i \in Named(c, b) : PartAt(b, i) = p
        BY <1>1, <2>2, WholeForm
    <2>4. named = Named(c, b) BY <1>2, <2>1
    <2>5. f.saved = <<>> BY <1>1, <1>5 DEF Counts
    <2>6. Rising(<<>>) /\ Range(<<>>) = {} BY DEF Rising, Range
    <2> QED BY <1>4, <2>1, <2>2, <2>3, <2>4, <2>5, <2>6 DEF Storing
<1>9. Complete(c)' => Complete(c) BY <1>1, <1>4 DEF Complete
<1>10. Answering(c)' BY <1>3, <1>8, <1>9 DEF Answering
<1> QED BY <1>3, <1>6, <1>10, OthersAnswer

\* A step that stores nothing and drops nothing.
LEMMA StoringStays ==
    ASSUME Answers, NEW c \in Conns, Moves(c), pc[c] \in {"save", "write"}, pc'[c] \in {"save", "write"},
           pc'[c] = "write" => Len(conn[c].saved) < MaxSaves,
           conn'[c].saved = conn[c].saved, conn'[c].body = conn[c].body, conn'[c].req = conn[c].req,
           conn'[c].got = conn[c].got, env.badDisk \/ conn'[c].todo = conn[c].todo
    PROVE  Answers'
<1>1. Counts(c) /\ Answering(c) BY DEF Answers
<1>2. Counts(c)' BY <1>1 DEF Counts
<1>3. Complete(c)' => Complete(c) /\ ~env.badDisk BY DEF Complete, Moves
<1>4. ASSUME Complete(c)' PROVE Storing(c)'
    <2>1. Storing(c) /\ conn'[c].todo = conn[c].todo BY <1>1, <1>3, <1>4 DEF Answering
    <2> QED BY <2>1 DEF Storing
<1>5. Answering(c)' BY <1>4 DEF Answering
<1> QED BY <1>2, <1>5, OthersAnswer

\* A file is opened for a part; nothing is stored yet.
LEMMA CreateAnswers == ASSUME IInv, Transfers, Answers, NEW c \in Conns, Create(c) PROVE Answers'
<1>1. pc[c] = "save" /\ env' = env /\ MoreToSave(c) BY DEF Create, At
<1>2. Moves(c) /\ pc'[c] = "write" /\ conn'[c] = Assign(conn[c], [on |-> Name(c), off |-> 0])
    BY <1>1, GoIs DEF Create
<1>3. /\ conn'[c].saved = conn[c].saved /\ conn'[c].body = conn[c].body /\ conn'[c].req = conn[c].req
      /\ conn'[c].got = conn[c].got /\ conn'[c].todo = conn[c].todo
    BY <1>2 DEF Assign, Fields, Transfers, Frames
<1>4. Len(conn[c].saved) < MaxSaves BY <1>1 DEF MoreToSave
<1> QED BY <1>1, <1>2, <1>3, <1>4, StoringStays

\* A part whose file cannot be opened: the upload is not complete.
LEMMA CreateFailsAnswers == ASSUME IInv, Transfers, Answers, NEW c \in Conns, CreateFails(c) PROVE Answers'
<1>1. pc[c] = "save" /\ env' = env /\ env.badDisk BY DEF CreateFails, At
<1>2. Moves(c) /\ pc'[c] = "save" /\ conn'[c] = Assign(conn[c], [todo |-> Others(c)])
    BY <1>1, SetIs DEF CreateFails
<1>3. /\ conn'[c].saved = conn[c].saved /\ conn'[c].body = conn[c].body /\ conn'[c].req = conn[c].req
      /\ conn'[c].got = conn[c].got
    BY <1>2 DEF Assign, Fields, Transfers, Frames
<1> QED BY <1>1, <1>2, <1>3, StoringStays

\* One write of a part; it is not stored yet.
LEMMA WriteAnswers == ASSUME IInv, Transfers, Answers, NEW c \in Conns, Write(c) PROVE Answers'
<1>1. pc[c] = "write" /\ env' = env BY DEF Write, At
<1>2. PICK off : Set(c, [off |-> off]) BY DEF Write
<1>3. Moves(c) /\ pc'[c] = "write" /\ conn'[c] = Assign(conn[c], [off |-> off])
  BY <1>1, <1>2, SetIs
<1>4. /\ conn'[c].saved = conn[c].saved /\ conn'[c].body = conn[c].body /\ conn'[c].req = conn[c].req
      /\ conn'[c].got = conn[c].got /\ conn'[c].todo = conn[c].todo
    BY <1>3 DEF Assign, Fields, Transfers, Frames
<1>5. Len(conn[c].saved) < MaxSaves BY <1>1 DEF Answers, Counts
<1> QED BY <1>1, <1>3, <1>4, <1>5, StoringStays

\* A part that cannot be written: the upload is not complete.
LEMMA WriteFailsAnswers == ASSUME IInv, Transfers, Answers, NEW c \in Conns, WriteFails(c) PROVE Answers'
<1>1. pc[c] = "write" /\ env' = env /\ env.badDisk BY DEF WriteFails, At
<1>2. Moves(c) /\ pc'[c] = "save"
      /\ conn'[c] = Assign(conn[c], [todo |-> Others(c), saved |-> conn[c].saved])
    BY <1>1, GoIs DEF WriteFails, NextPart
<1>3. /\ conn'[c].saved = conn[c].saved /\ conn'[c].body = conn[c].body /\ conn'[c].req = conn[c].req
      /\ conn'[c].got = conn[c].got
    BY <1>2 DEF Assign, Fields, Transfers, Frames
<1> QED BY <1>1, <1>2, <1>3, StoringStays

\* A larger number behind a rising sequence.
LEMMA RisingAppend ==
    ASSUME NEW s \in Seq(Nat), NEW p \in Nat
    PROVE  /\ Append(s, p) \in Seq(Nat) /\ Len(Append(s, p)) = Len(s) + 1
           /\ Range(Append(s, p)) = Range(s) \cup {p}
           /\ Rising(s) /\ (\A q \in Range(s) : q < p) => Rising(Append(s, p))
<1> DEFINE t == Append(s, p)
<1>1. /\ t \in Seq(Nat) /\ Len(t) = Len(s) + 1 /\ Len(s) \in Nat
      /\ \A i \in 1 .. Len(s) : t[i] = s[i]
      /\ t[Len(s) + 1] = p
    OBVIOUS
<1> HIDE DEF t
<1>2. DOMAIN t = 1 .. (Len(s) + 1) /\ DOMAIN s = 1 .. Len(s) BY <1>1
<1>3. Range(t) = Range(s) \cup {p}
    <2>1. ASSUME NEW x \in Range(t) PROVE x \in Range(s) \cup {p}
        <3>1. PICK i \in DOMAIN t : t[i] = x BY DEF Range
        <3>2. i \in 1 .. Len(s) \/ i = Len(s) + 1 BY <1>1, <1>2
        <3> QED BY <1>1, <1>2, <3>1, <3>2 DEF Range
    <2>2. ASSUME NEW x \in Range(s) PROVE x \in Range(t)
        <3>1. PICK i \in DOMAIN s : s[i] = x BY DEF Range
        <3>2. i \in DOMAIN t /\ t[i] = x BY <1>1, <1>2, <3>1
        <3> QED BY <3>2 DEF Range
    <2>3. p \in Range(t)
        <3>1. Len(s) + 1 \in DOMAIN t BY <1>1, <1>2
        <3> QED BY <1>1, <3>1 DEF Range
    <2> QED BY <2>1, <2>2, <2>3
<1>4. ASSUME Rising(s), \A q \in Range(s) : q < p, NEW i \in DOMAIN t, NEW j \in DOMAIN t, i < j
      PROVE  t[i] < t[j]
    <2>1. i \in 1 .. Len(s) BY <1>1, <1>2, <1>4
    <2>2. CASE j \in 1 .. Len(s) BY <1>1, <1>2, <1>4, <2>1, <2>2 DEF Rising
    <2>3. CASE j = Len(s) + 1
        <3>1. s[i] \in Range(s) BY <1>2, <2>1 DEF Range
        <3> QED BY <1>1, <1>4, <2>1, <2>3, <3>1
    <2> QED BY <1>1, <1>2, <2>2, <2>3
<1>5. Rising(s) /\ (\A q \in Range(s) : q < p) => Rising(t) BY <1>4 DEF Rising
<1> QED BY <1>1, <1>3, <1>5 DEF t

\* The part just stored is the first of those that were to be stored.
LEMMA CloseSavedAnswers == ASSUME IInv, Transfers, Answers, NEW c \in Conns, CloseSaved(c) PROVE Answers'
<1> DEFINE f == conn[c]
<1>1. pc[c] = "write" /\ env' = env BY DEF CloseSaved, At
<1>2. PICK part, saved, todo : part = Part(c) /\ saved = Append(f.saved, part) /\ todo = Others(c) OBVIOUS
<1>3. Moves(c) /\ pc'[c] = "save" /\ conn'[c] = Assign(f, [todo |-> todo, saved |-> saved])
    BY <1>1, <1>2, GoIs DEF CloseSaved, NextPart
<1>4. /\ conn'[c].saved = saved /\ conn'[c].body = f.body /\ conn'[c].req = f.req
      /\ conn'[c].got = f.got /\ conn'[c].todo = todo
    BY <1>3 DEF Assign, Fields, Transfers, Frames
<1>5. Counts(c) /\ Answering(c) BY DEF Answers
<1>6. /\ f.body \in Seq(Unit) /\ f.todo \subseteq Named(c, f.body) /\ f.todo # {}
    BY <1>1 DEF Transfers, Serving, Transferring
<1>7. Named(c, f.body) \subseteq Nat BY <1>6 DEF Named, Boundaries
<1>8. Here(c) \in f.todo /\ \A i \in f.todo : Here(c) <= i BY <1>6, <1>7, MinIn DEF Here
<1>9. part = PartAt(f.body, Here(c)) /\ todo = f.todo \ {Here(c)}
  BY <1>2
  DEF Part, PartAt, Others
<1>10. part \in Nat
    <2>1. Client(c, f.req) /\ Starts(f.body, Form(c, f.req))
      BY <1>1, <1>6, ServedClient
      DEF Transfers, Serving
    <2>2. PICK x, y : x = f.body /\ y = Here(c) OBVIOUS
    <2>3. x \in Seq(Unit) /\ Starts(x, Form(c, f.req)) /\ y \in Boundaries(x) /\ After(x, y) # {}
        BY <1>6, <1>8, <2>1, <2>2 DEF Named
    <2>4. x[y + 1][2] \in DOMAIN f.req.parts BY <2>1, <2>3, PartWhole
    <2>5. DOMAIN f.req.parts = 1 .. Len(f.req.parts) BY <2>1, PartIs
    <2> QED BY <1>9, <2>2, <2>4, <2>5 DEF PartAt
<1>11. f.saved \in Seq(Nat) /\ Len(f.saved) < MaxSaves BY <1>1, <1>5 DEF Counts
<1>12. /\ saved \in Seq(Nat) /\ Len(saved) = Len(f.saved) + 1
       /\ Range(saved) = Range(f.saved) \cup {part}
       /\ Rising(f.saved) /\ (\A q \in Range(f.saved) : q < part) => Rising(saved)
    BY <1>2, <1>10, <1>11, RisingAppend
<1>13. Len(saved) <= MaxSaves BY <1>11, <1>12, BoundsAssumption
<1>14. Counts(c)' BY <1>3, <1>4, <1>5, <1>12, <1>13 DEF Counts
<1>15. ASSUME Complete(c) PROVE Storing(c)'
    <2>1. Storing(c) BY <1>1, <1>5, <1>15 DEF Answering
    <2>2. PICK b : b = f.body OBVIOUS
    <2>3. b = Form(c, conn[c].req) BY <2>1, <2>2 DEF Storing
    <2>4. /\ \A i \in Named(c, b) : PartAt(b, i) \in NamedParts(f.req)
          /\ \A i, j \in Named(c, b) : i < j => PartAt(b, i) < PartAt(b, j)
        BY <1>1, <2>3, WholeForm
    <2>5. /\ Rising(f.saved) /\ Range(f.saved) \subseteq NamedParts(f.req)
          /\ \A i \in f.todo : \A q \in Range(f.saved) : q < PartAt(b, i)
          /\ \A p \in NamedParts(f.req) \ Range(f.saved) : \E i \in f.todo : PartAt(b, i) = p
        BY <2>1, <2>2 DEF Storing
    <2>6. Rising(saved) BY <1>8, <1>9, <1>12, <2>2, <2>5
    <2>7. Range(saved) \subseteq NamedParts(f.req)
      BY <1>6, <1>8, <1>9, <1>12, <2>2, <2>4, <2>5
    <2>8. ASSUME NEW i \in todo, NEW q \in Range(saved) PROVE q < PartAt(b, i)
        <3>1. i \in f.todo /\ Here(c) < i BY <1>6, <1>7, <1>8, <1>9
        <3>2. CASE q \in Range(f.saved) BY <2>5, <3>1, <3>2
        <3>3. CASE q = part
            <4>1. Here(c) \in Named(c, b) /\ i \in Named(c, b) BY <1>6, <1>8, <2>2, <3>1
            <4> QED BY <1>9, <2>2, <2>4, <3>1, <3>3, <4>1
        <3> QED BY <1>12, <3>2, <3>3
    <2>9. ASSUME NEW p \in NamedParts(f.req) \ Range(saved) PROVE \E i \in todo : PartAt(b, i) = p
        <3>1. p \in NamedParts(f.req) \ Range(f.saved) /\ p # part BY <1>12
        <3>2. PICK i \in f.todo : PartAt(b, i) = p BY <2>5, <3>1
        <3>3. i # Here(c) BY <1>9, <2>2, <3>1, <3>2
        <3> QED BY <1>9, <3>2, <3>3
    <2> QED BY <1>4, <2>2, <2>3, <2>6, <2>7, <2>8, <2>9 DEF Storing
<1>16. Complete(c)' => Complete(c) BY <1>1, <1>4 DEF Complete
<1>17. Answering(c)' BY <1>3, <1>15, <1>16 DEF Answering
<1> QED BY <1>3, <1>14, <1>17, OthersAnswer

\* The loop ends because nothing is left or because saved_names is full.
LEMMA ReplyUploadAnswers == ASSUME IInv, Transfers, Answers, NEW c \in Conns, ReplyUpload(c) PROVE Answers'
<1> DEFINE f == conn[c]
<1>1. pc[c] = "save" /\ env' = env /\ ~MoreToSave(c) BY DEF ReplyUpload, At
<1>2. Moves(c) /\ pc'[c] = "out" /\ conn'[c] = Assign(f, [code |-> 200])
  BY <1>1, GoIs
  DEF ReplyUpload
<1>3. conn'[c].saved = f.saved /\ conn'[c].body = f.body /\ conn'[c].req = f.req /\ conn'[c].got = f.got
    BY <1>2 DEF Assign, Fields, Transfers, Frames
<1>4. Counts(c) /\ Answering(c) BY DEF Answers
<1>5. Counts(c)' BY <1>2, <1>3, <1>4 DEF Counts
<1>6. ASSUME Complete(c) PROVE AllSaved(c)'
    <2>1. Storing(c) BY <1>1, <1>4, <1>6 DEF Answering
    <2>2. f.saved \in Seq(Nat) /\ Len(f.saved) <= MaxSaves BY <1>4 DEF Counts
    <2>3. f.todo = {} \/ Len(f.saved) = MaxSaves
      BY <1>1, <2>2, BoundsAssumption
      DEF MoreToSave
    <2>4. ASSUME NEW p \in NamedParts(f.req) \ Range(f.saved)
          PROVE  Len(f.saved) = MaxSaves /\ \A q \in Range(f.saved) : q < p
        <3>1. PICK i \in f.todo : PartAt(f.body, i) = p BY <2>1 DEF Storing
        <3>2. \A q \in Range(f.saved) : q < PartAt(f.body, i) BY <2>1 DEF Storing
        <3> QED BY <2>3, <3>1, <3>2
    <2>5. Rising(f.saved) /\ Range(f.saved) \subseteq NamedParts(f.req) BY <2>1 DEF Storing
    <2> QED BY <1>3, <2>4, <2>5 DEF AllSaved
<1>7. Complete(c)' => Complete(c) BY <1>1, <1>3 DEF Complete
<1>8. Answering(c)' BY <1>2, <1>6, <1>7 DEF Answering
<1> QED BY <1>2, <1>5, <1>8, OthersAnswer

\* An error page is sent; its code is not 200.
LEMMA ReplyErrorAnswers == ASSUME IInv, Answers, NEW c \in Conns, ReplyError(c) PROVE Answers'
<1>1. pc[c] = "reply" /\ env' = env BY DEF ReplyError, At
<1>2. Moves(c) /\ pc'[c] = "out" /\ conn'[c] = conn[c] BY <1>1, GotoIs DEF ReplyError
<1>3. conn[c].code # 200 BY <1>1 DEF Answers, Counts
<1> QED BY <1>2, <1>3, PlainAnswer

\* The thread ends.
LEMMA LeaveAnswers == ASSUME IInv, Answers, NEW c \in Conns, Leave(c) PROVE Answers'
<1>1. Moves(c) /\ pc'[c] = "done" /\ conn'[c] = conn[c] BY GotoIs DEF Leave
<1> QED BY <1>1, PlainAnswer

\* Every step of a thread keeps the invariant.
LEMMA HandleAnswers == ASSUME IInv, Transfers, Answers, NEW c \in Conns, Handle(c) PROVE Answers'
<1>1. CASE RecvHead(c) BY <1>1, RecvHeadAnswers
<1>2. CASE RecvNothing(c) BY <1>2, RecvNothingAnswers
<1>3. CASE OpenFile(c) BY <1>3, OpenFileAnswers
<1>4. CASE OpenFails(c) BY <1>4, ErrorAnswer DEF OpenFails
<1>5. CASE SendChunk(c) BY <1>5, SendChunkAnswers
<1>6. CASE CloseFile(c) BY <1>6, CloseFileAnswers
<1>7. CASE OpenDirectory(c) BY <1>7, OpenDirectoryAnswers
<1>8. CASE SendListing(c) BY <1>8, SendListingAnswers
<1>9. CASE MapBody(c) BY <1>9, MapBodyAnswers
<1>10. CASE RecvBody(c) BY <1>10, RecvBodyAnswers
<1>11. CASE RecvEnds(c) BY <1>11, RecvEndsAnswers
<1>12. CASE ParseUpload(c) BY <1>12, ParseUploadAnswers
<1>13. CASE Create(c) BY <1>13, CreateAnswers
<1>14. CASE CreateFails(c) BY <1>14, CreateFailsAnswers
<1>15. CASE Write(c) BY <1>15, WriteAnswers
<1>16. CASE WriteFails(c) BY <1>16, WriteFailsAnswers
<1>17. CASE CloseSaved(c) BY <1>17, CloseSavedAnswers
<1>18. CASE ReplyUpload(c) BY <1>18, ReplyUploadAnswers
<1>19. CASE ReplyError(c) BY <1>19, ReplyErrorAnswers
<1>20. CASE Leave(c) BY <1>20, LeaveAnswers
<1> QED
  BY <1>1, <1>2, <1>3, <1>4, <1>5, <1>6, <1>7, <1>8, <1>9, <1>10, <1>11, <1>12, <1>13,
     <1>14,
           <1>15, <1>16, <1>17, <1>18, <1>19, <1>20 DEF Handle

\* So every step keeps it.
LEMMA AnswersStep == IInv /\ Transfers /\ Answers /\ [Next]_vars => Answers'
<1> SUFFICES ASSUME IInv, Transfers, Answers, [Next]_vars PROVE Answers' OBVIOUS
<1>1. CASE Accept BY <1>1, AcceptAnswers
<1>2. CASE MapArg BY <1>2, StandStillAnswers DEF MapArg
<1>3. CASE Spawn BY <1>3, SpawnAnswers
<1>4. ASSUME NEW c \in Conns, Handle(c) PROVE Answers' BY <1>4, HandleAnswers
<1>5. ASSUME NEW c \in Conns, SigPipe(c) PROVE Answers'
  BY <1>5, StandStillAnswers
  DEF SigPipe
<1>6. CASE UNCHANGED vars BY <1>6, StandStillAnswers DEF vars
<1> QED BY <1>1, <1>2, <1>3, <1>4, <1>5, <1>6 DEF Next

\* It holds at the start.
LEMMA AnswersInit == Init => Answers
<1> SUFFICES ASSUME Init, NEW c \in Conns PROVE Counts(c) /\ Answering(c) BY DEF Answers
<1>1. pc[c] = "none" /\ conn[c].saved = <<>> /\ conn[c].body = <<>> /\ conn[c].code = 0
  BY DEF Init, Idle
<1>2. <<>> \in Seq(Nat) /\ Len(<<>>) = 0 OBVIOUS
<1> QED BY <1>1, <1>2, BoundsAssumption DEF Counts, Answering

\* An upload whose head came in one piece and which is complete is answered
\* only when every named part is stored, in the order of the form and as far
\* as saved_names has room; no upload overruns that array or the buffer of the
\* body (webserv.c, parse_multipart_upload and recv_request_body).
THEOREM UploadsAreSaved == Spec => []EverythingSaved
<1>1. Init => IInv /\ Transfers /\ Answers BY InitHolds, TransfersInit, AnswersInit
<1>2. IInv /\ Transfers /\ Answers /\ [Next]_vars => IInv' /\ Transfers' /\ Answers'
    BY StepKeeps, TransfersStep, AnswersStep
<1>3. Answers => EverythingSaved BY DEF Answers, Counts, Answering, EverythingSaved
<1> QED BY <1>1, <1>2, <1>3, PTL DEF Spec

=============================================================================
