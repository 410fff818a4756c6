------------------------------ MODULE ShellProofs ------------------------------
(***************************************************************************)
(* For any characters, files, PATH and limits, the shell gives back the    *)
(* terminal, runs the command that was typed, and completes to files       *)
(* (ShellSound).  The invariant says who has saved which mode of the       *)
(* terminal (ModeIsKept), and that the child has the words of the line     *)
(* that the shell keeps (CommandIsKept).  The rest is about the operators: *)
(*   WordsAre        the words handed over are the line's, except for      *)
(*                   blanks around it;                                     *)
(*   FilledWord      a word that is filled up leads to the same directory; *)
(*   CompletedIs     the only name that fits and adds something is that of *)
(*                   a file, since "." and ".." begin alike;               *)
(*   TabCompleteIs   so what completion adds makes the last word a file's. *)
(* The search of PATH is a recursive function: that it exists, and how one *)
(* shows something of it, is taken from NetProofs.                         *)
(***************************************************************************)
EXTENDS Shell, NetProofs

----------------------------------------------------------------------------
(* Lines                                                                   *)

\* What a part of a sequence holds.
LEMMA PartIs ==
    ASSUME NEW U, NEW s \in Seq(U), NEW a \in 1 .. Len(s) + 1, NEW b \in Int, a <= b + 1, b <= Len(s)
    PROVE  /\ SubSeq(s, a, b) \in Seq(U) /\ Len(SubSeq(s, a, b)) = b - a + 1 /\ Len(s) \in Nat
           /\ \A i \in 1 .. b - a + 1 : SubSeq(s, a, b)[i] = s[a + i - 1]
OBVIOUS

\* Sequences with the same elements are the same.
LEMMA SameSeq ==
    ASSUME NEW U, NEW s \in Seq(U), NEW V, NEW t \in Seq(V), Len(s) = Len(t), \A i \in 1 .. Len(s) : s[i] = t[i]
    PROVE  s = t
OBVIOUS

\* The last member of a set of positions, 0 if there is none.
LEMMA LastOfIs ==
    ASSUME NEW n \in Nat, NEW T, T \subseteq 1 .. n
    PROVE  LastOf(T) \in {0} \cup T /\ \A i \in T : i <= LastOf(T)
<1>1. {0} \cup T \subseteq 0 .. n /\ {0} \cup T # {} OBVIOUS
<1> QED BY <1>1, MaxIn DEF LastOf

\* The next blank, or the end.
LEMMA FirstBlankIs ==
    ASSUME NEW U, NEW s \in Seq(U), NEW i \in 1 .. Len(s) + 1
    PROVE  /\ FirstBlank(s, i) \in i .. Len(s) + 1
           /\ \A j \in i .. Len(s) : j < FirstBlank(s, i) => s[j] # Blank
           /\ FirstBlank(s, i) <= Len(s) => s[FirstBlank(s, i)] = Blank
<1> DEFINE B == {Len(s) + 1} \cup {j \in i .. Len(s) : s[j] = Blank}
<1>1. B \subseteq Nat /\ B # {} OBVIOUS
<1>2. Min(B) \in B /\ \A j \in B : Min(B) <= j BY <1>1, MinIn
<1>3. FirstBlank(s, i) = Min(B) BY DEF FirstBlank
<1> DEFINE b == FirstBlank(s, i)
<1>4. b \in B /\ \A j \in B : b <= j BY <1>2, <1>3
<1> HIDE DEF b
<1>5. Len(s) \in Nat /\ (b = Len(s) + 1 \/ (b \in i .. Len(s) /\ s[b] = Blank)) BY <1>4
<1>6. \A j \in i .. Len(s) : j < b => s[j] # Blank
    <2>1. \A j \in i .. Len(s) : s[j] = Blank => b <= j BY <1>4
    <2> QED BY <1>5, <2>1
<1>7. b \in i .. Len(s) + 1 /\ (b <= Len(s) => s[b] = Blank) BY <1>5
<1> QED BY <1>6, <1>7 DEF b

\* The words handed to the program are those of the line, unless a blank
\* before or behind them becomes a part of one.
LEMMA WordsAre ==
    ASSUME NEW U, NEW s \in Seq(U), s # <<>>
    PROVE  ParseCmd(s).args = WordsOf(s) <=> ~OuterBlank(s)
<1> DEFINE n == Len(s)
           B == Begins(s)
           W == {j \in DOMAIN s : s[j] # Blank /\ (j = 1 \/ s[j - 1] = Blank)}
           IsLast(i) == ~ \E j \in B : j > i
           End(i) == IF IsLast(i) THEN n ELSE FirstBlank(s, i) - 1
           a == ParseCmd(s).args
           w == WordsOf(s)
<1>1. n \in Nat /\ n >= 1 /\ DOMAIN s = 1 .. n OBVIOUS
<1>2. B \subseteq 1 .. n /\ 1 \in B BY <1>1 DEF Begins
<1>3. W = {i \in B : s[i] # Blank} BY <1>1, <1>2 DEF Begins
<1>4. DOMAIN a = B /\ \A i \in B : a[i] = SubSeq(s, i, End(i)) BY DEF ParseCmd
<1>5. DOMAIN w = W /\ \A i \in W : w[i] = SubSeq(s, i, FirstBlank(s, i) - 1) BY DEF WordsOf
<1>5a. a = [i \in B |-> a[i]] /\ w = [i \in W |-> w[i]]
    <2>1. a = [i \in B |-> SubSeq(s, i, End(i))] BY DEF ParseCmd
    <2>2. w = [i \in W |-> SubSeq(s, i, FirstBlank(s, i) - 1)] BY DEF WordsOf
    <2> QED BY <2>1, <2>2
<1>6. \A i \in B : /\ FirstBlank(s, i) \in i .. n + 1
                   /\ \A j \in i .. n : j < FirstBlank(s, i) => s[j] # Blank
                   /\ FirstBlank(s, i) <= n => s[FirstBlank(s, i)] = Blank
    <2>1. \A i \in B : i \in 1 .. Len(s) + 1 BY <1>1, <1>2
    <2> QED BY <2>1, FirstBlankIs
<1>7. PICK l \in B : \A j \in B : j <= l
    <2>1. B \subseteq 0 .. n /\ B # {} BY <1>1, <1>2
    <2> HIDE DEF B, n
    <2>2. Max(B) \in B /\ \A y \in B : y <= Max(B) BY <1>1, <2>1, MaxIn
    <2> QED BY <2>2
<1>8. \A i \in B : IsLast(i) <=> i = l
    <2>1. \A i \in B : i \in Nat BY <1>2
    <2> HIDE DEF B
    <2> QED BY <1>7, <2>1
<1> HIDE DEF B, W, a, w, IsLast
\* The last word goes to the end when that is no blank.
<1>9. ASSUME s[n] # Blank PROVE FirstBlank(s, l) = n + 1
    <2> SUFFICES ASSUME FirstBlank(s, l) # n + 1 PROVE FALSE OBVIOUS
    <2> DEFINE b == FirstBlank(s, l)
               N == {j \in b .. n : s[j] # Blank}
    <2>1. b \in l .. n /\ s[b] = Blank /\ l \in 1 .. n BY <1>1, <1>2, <1>6, <1>7
    <2>2. N \subseteq Nat /\ n \in N BY <1>1, <1>9, <2>1
    <2>3. PICK m \in N : \A y \in N : m <= y BY <2>2, NatMin
    <2>4. m \in b + 1 .. n /\ s[m] # Blank BY <2>1, <2>3
    <2>5. s[m - 1] = Blank
        <3>1. m - 1 \in b .. n /\ ~(m <= m - 1) BY <2>1, <2>4
        <3> QED BY <2>3, <3>1
    <2>6. m \in B /\ m > l BY <1>1, <2>1, <2>4, <2>5 DEF Begins, B
    <2> QED BY <1>7, <2>1, <2>4, <2>6
<1>10. ASSUME ~OuterBlank(s) PROVE a = w
    <2>1. s[1] # Blank /\ s[n] # Blank BY <1>10 DEF OuterBlank
    <2>2. W = B BY <1>2, <1>3, <2>1 DEF Begins, B
    <2>3. \A i \in B : End(i) = FirstBlank(s, i) - 1
        <3>1. FirstBlank(s, l) - 1 = n BY <1>1, <1>9, <2>1
        <3> QED BY <1>8, <3>1
    <2>4. \A i \in B : a[i] = w[i] BY <1>4, <1>5, <2>2, <2>3
    <2> HIDE DEF End
    <2> QED BY <1>5a, <2>2, <2>4
<1>11. ASSUME OuterBlank(s), a = w PROVE FALSE
    <2>1. B = W BY <1>4, <1>5, <1>11
    <2>2. s[1] # Blank BY <1>2, <1>3, <2>1
    <2>3. s[n] = Blank BY <1>11, <2>2 DEF OuterBlank
    <2>4. l \in 1 .. n /\ l \in W /\ s[l] # Blank BY <1>2, <1>3, <1>7, <2>1
    <2>5. FirstBlank(s, l) \in l .. n
        <3>1. FirstBlank(s, l) # n + 1
            <4>1. FirstBlank(s, l) = n + 1 => n < FirstBlank(s, l) /\ n \in l .. n BY <1>1, <2>4
            <4> QED BY <1>6, <1>7, <2>3, <4>1
        <3> QED BY <1>1, <1>6, <1>7, <3>1
    <2>6. a[l] = SubSeq(s, l, n) BY <1>4, <1>7, <1>8
    <2>7. w[l] = SubSeq(s, l, FirstBlank(s, l) - 1) BY <1>5, <2>4
    <2>8. Len(SubSeq(s, l, n)) = n - l + 1 BY <1>1, <2>4, PartIs
    <2>9. Len(SubSeq(s, l, FirstBlank(s, l) - 1)) = FirstBlank(s, l) - 1 - l + 1
        <3>1. FirstBlank(s, l) - 1 \in Int /\ l <= (FirstBlank(s, l) - 1) + 1 /\ FirstBlank(s, l) - 1 <= Len(s) /\ l \in 1 .. Len(s) + 1
            BY <1>1, <2>4, <2>5
        <3> QED BY <3>1, PartIs
    <2>10. n - l + 1 = FirstBlank(s, l) - 1 - l + 1 BY <1>11, <2>6, <2>7, <2>8, <2>9
    <2> QED BY <1>1, <2>4, <2>5, <2>10
<1> QED BY <1>10, <1>11 DEF a, w
----------------------------------------------------------------------------
(* Completion                                                              *)

\* f is what w has behind position k, where its last slash is.
EndsAt(U, w, f, k) ==
    /\ k \in 0 .. Len(w) /\ Len(w) \in Nat /\ (k = 0 <=> Slashes(w) = {})
    /\ f \in Seq(U) /\ Len(f) = Len(w) - k
    /\ \A i \in 1 .. Len(w) - k : f[i] = w[k + i]

\* The last part of a word is what is behind its last slash.
LEMMA FinalPartIs ==
    ASSUME NEW U, NEW w \in Seq(U)
    PROVE  EndsAt(U, w, FinalPart(w), LastOf(Slashes(w)))
<1> DEFINE k == LastOf(Slashes(w))
           f == FinalPart(w)
<1>1. Slashes(w) \subseteq 1 .. Len(w) /\ Len(w) \in Nat BY DEF Slashes
<1>2. k \in {0} \cup Slashes(w) /\ \A i \in Slashes(w) : i <= k BY <1>1, LastOfIs
<1>5. f = SubSeq(w, k + 1, Len(w)) BY DEF FinalPart
<1> HIDE DEF k, f
<1>3. k \in 0 .. Len(w) /\ (k = 0 <=> Slashes(w) = {}) BY <1>1, <1>2
<1>4. k + 1 \in 1 .. Len(w) + 1 /\ Len(w) \in Int /\ k + 1 <= Len(w) + 1 /\ Len(w) <= Len(w) BY <1>1, <1>3
<1>6. /\ f \in Seq(U) /\ Len(f) = Len(w) - (k + 1) + 1
      /\ \A i \in 1 .. Len(w) - (k + 1) + 1 : f[i] = w[(k + 1) + i - 1]
    BY <1>4, <1>5, PartIs
<1>7. Len(w) - (k + 1) + 1 = Len(w) - k /\ \A i \in 1 .. Len(w) - k : (k + 1) + i - 1 = k + i BY <1>1, <1>3
<1>8. EndsAt(U, w, f, k) BY <1>1, <1>3, <1>6, <1>7 DEF EndsAt
<1> QED BY <1>8 DEF f, k

\* A word that is filled up to a name leads to that name in the same
\* directory.
LEMMA FilledWord ==
    ASSUME NEW U, NEW w \in Seq(U), NEW t \in Seq(U), NEW n \in Seq(Chars \ {Slash}), n # <<>>,
           FinalPart(w) \o t = n
    PROVE  DirPart(w \o t) = DirPart(w) /\ FinalPart(w \o t) = n /\ w \o t # <<>>
<1> DEFINE x == w \o t
           f == FinalPart(w)
           k == LastOf(Slashes(w))
<1>1. /\ x \in Seq(U) /\ Len(x) = Len(w) + Len(t) /\ Len(w) \in Nat /\ Len(t) \in Nat
      /\ \A i \in 1 .. Len(w) : x[i] = w[i]
      /\ \A i \in 1 .. Len(t) : x[Len(w) + i] = t[i]
    BY ConcatIs
<1>2. /\ k \in 0 .. Len(w) /\ (k = 0 <=> Slashes(w) = {}) /\ f \in Seq(U) /\ Len(f) = Len(w) - k
      /\ \A i \in 1 .. Len(w) - k : f[i] = w[k + i]
    <2>1. EndsAt(U, w, f, k) BY FinalPartIs
    <2> HIDE DEF f, k
    <2> QED BY <2>1 DEF EndsAt
<1>3. /\ Len(n) = Len(f) + Len(t)
      /\ \A i \in 1 .. Len(f) : n[i] = f[i]
      /\ \A i \in 1 .. Len(t) : n[Len(f) + i] = t[i]
    BY <1>2, ConcatIs
<1>4. \A i \in 1 .. Len(n) : n[i] # Slash OBVIOUS
<1>5. Slashes(x) = Slashes(w)
    <2>1. \A i \in 1 .. Len(t) : t[i] # Slash
        <3>1. \A i \in 1 .. Len(t) : Len(f) + i \in 1 .. Len(n) BY <1>1, <1>2, <1>3
        <3> QED BY <1>3, <1>4, <3>1
    <2>2. \A i \in 1 .. Len(x) : i \in 1 .. Len(w) \/ (i - Len(w) \in 1 .. Len(t) /\ i = Len(w) + (i - Len(w))) BY <1>1
    <2>3. \A i \in 1 .. Len(x) : x[i] = Slash <=> i \in 1 .. Len(w) /\ w[i] = Slash BY <1>1, <2>1, <2>2
    <2>4. DOMAIN x = 1 .. Len(x) /\ DOMAIN w = 1 .. Len(w) /\ 1 .. Len(w) \subseteq 1 .. Len(x) BY <1>1
    <2> HIDE DEF x
    <2> QED BY <2>3, <2>4 DEF Slashes
<1> HIDE DEF x, f
<1>6. /\ FinalPart(x) \in Seq(U) /\ Len(FinalPart(x)) = Len(x) - k
      /\ \A i \in 1 .. Len(x) - k : FinalPart(x)[i] = x[k + i]
    <2>1. EndsAt(U, x, FinalPart(x), LastOf(Slashes(x))) BY <1>1, FinalPartIs
    <2>2. EndsAt(U, x, FinalPart(x), k) BY <1>5, <2>1
    <2> HIDE DEF k
    <2> QED BY <2>2 DEF EndsAt
<1> HIDE DEF k
<1>7. FinalPart(x) = n
    <2>1. Len(FinalPart(x)) = Len(n) /\ Len(n) = Len(x) - k BY <1>1, <1>2, <1>3, <1>6
    <2>2. ASSUME NEW i \in 1 .. Len(n) PROVE FinalPart(x)[i] = n[i]
        <3>1. FinalPart(x)[i] = x[k + i] BY <1>6, <2>1
        <3>2. CASE i \in 1 .. Len(f)
            <4>1. k + i \in 1 .. Len(w) /\ i \in 1 .. Len(w) - k BY <1>2, <3>2
            <4> QED BY <1>1, <1>2, <1>3, <3>1, <3>2, <4>1
        <3>3. CASE i \notin 1 .. Len(f)
            <4> DEFINE m == Len(f)
                       p == Len(w)
            <4>0. m = p - k /\ p \in Nat /\ k \in 0 .. p /\ Len(n) = m + Len(t) /\ Len(t) \in Nat /\ i \notin 1 .. m BY <1>1, <1>2, <1>3, <3>3
            <4> HIDE DEF m, p
            <4>1a. i - m \in 1 .. Len(t) /\ i = m + (i - m) /\ k + i = p + (i - m) BY <4>0
            <4>1. i - Len(f) \in 1 .. Len(t) /\ i = Len(f) + (i - Len(f)) /\ k + i = Len(w) + (i - Len(f)) BY <4>1a DEF m, p
            <4>2. x[k + i] = t[i - Len(f)] BY <1>1, <4>1
            <4>3. n[i] = t[i - Len(f)] BY <1>3, <4>1
            <4> QED BY <3>1, <4>2, <4>3
        <3> QED BY <3>2, <3>3
    <2> QED BY <1>6, <2>1, <2>2, SameSeq
<1>8. DirPart(x) = DirPart(w)
    <2>1. LastOf(Slashes(x)) = k /\ LastOf(Slashes(w)) = k BY <1>5 DEF k
    <2>2. ASSUME k >= 1 PROVE SubSeq(x, 1, k - 1) = SubSeq(w, 1, k - 1)
        <3>1. 1 \in 1 .. Len(x) + 1 /\ 1 \in 1 .. Len(w) + 1 /\ k - 1 \in Int /\ 1 <= (k - 1) + 1 /\ k - 1 <= Len(x) /\ k - 1 <= Len(w)
            BY <1>1, <1>2, <2>2
        <3>2. /\ SubSeq(x, 1, k - 1) \in Seq(U) /\ Len(SubSeq(x, 1, k - 1)) = (k - 1) - 1 + 1
              /\ \A i \in 1 .. (k - 1) - 1 + 1 : SubSeq(x, 1, k - 1)[i] = x[1 + i - 1]
            BY <1>1, <3>1, PartIs
        <3>3. /\ SubSeq(w, 1, k - 1) \in Seq(U) /\ Len(SubSeq(w, 1, k - 1)) = (k - 1) - 1 + 1
              /\ \A i \in 1 .. (k - 1) - 1 + 1 : SubSeq(w, 1, k - 1)[i] = w[1 + i - 1]
            BY <3>1, PartIs
        <3>4. \A i \in 1 .. (k - 1) - 1 + 1 : 1 + i - 1 \in 1 .. Len(w) BY <1>1, <1>2, <2>2
        <3> QED BY <1>1, <3>2, <3>3, <3>4, SameSeq
    <2>3. k # 1 /\ Slashes(w) # {} => k >= 1 BY <1>2, <2>1
    <2>4. CASE Slashes(w) = {} BY <1>5, <2>4 DEF DirPart
    <2>5. CASE Slashes(w) # {} /\ k = 1 BY <1>5, <2>1, <2>5 DEF DirPart
    <2>6. CASE Slashes(w) # {} /\ k # 1 BY <1>5, <2>1, <2>2, <2>3, <2>6 DEF DirPart
    <2> QED BY <2>4, <2>5, <2>6
<1>9. x # <<>>
    <2>1. Len(n) > 0 OBVIOUS
    <2>2. Len(x) > 0 BY <1>1, <1>2, <1>3, <2>1
    <2> QED BY <2>2
<1> QED BY <1>7, <1>8, <1>9 DEF x

\* The last part of the last word is the end of the line.
LEMMA LineEndsWith ==
    ASSUME NEW s \in Seq(Chars), NEW at, at = Len(s) - Len(FinalPart(LastWord(s))) + 1
    PROVE  /\ LastWord(s) \in Seq(Chars) /\ FinalPart(LastWord(s)) \in Seq(Chars)
           /\ at \in 1 .. Len(s) + 1 /\ Len(s) \in Nat
           /\ SubSeq(s, at, Len(s)) = FinalPart(LastWord(s))
           /\ (\A i \in DOMAIN s : s[i] # Blank) => LastWord(s) = s
<1> DEFINE w == LastWord(s)
           f == FinalPart(w)
           T == {i \in DOMAIN s : s[i] = Blank}
           b == LastOf(T)
           k == LastOf(Slashes(w))
<1>1. Len(s) \in Nat /\ DOMAIN s = 1 .. Len(s) /\ T \subseteq 1 .. Len(s) OBVIOUS
<1>2. b \in 0 .. Len(s)
    <2> HIDE DEF T
    <2>1. b \in {0} \cup T BY <1>1, LastOfIs
    <2> HIDE DEF b
    <2>2. b = 0 \/ b \in 1 .. Len(s) BY <1>1, <2>1
    <2> QED BY <1>1, <2>2
<1>3. w = SubSeq(s, b + 1, Len(s)) BY DEF LastWord
<1>3a. T = {} => b = 0
    <2> HIDE DEF T
    <2>1. b \in {0} \cup T BY <1>1, LastOfIs
    <2> QED BY <2>1
<1> HIDE DEF b, w
<1>4. /\ w \in Seq(Chars) /\ Len(w) = Len(s) - b
      /\ \A i \in 1 .. Len(s) - b : w[i] = s[b + i]
    <2>1. b + 1 \in 1 .. Len(s) + 1 /\ Len(s) \in Int /\ b + 1 <= Len(s) + 1 /\ Len(s) <= Len(s) BY <1>1, <1>2
    <2>2. /\ w \in Seq(Chars) /\ Len(w) = Len(s) - (b + 1) + 1
          /\ \A i \in 1 .. Len(s) - (b + 1) + 1 : w[i] = s[(b + 1) + i - 1]
        BY <1>3, <2>1, PartIs
    <2>3. Len(s) - (b + 1) + 1 = Len(s) - b /\ \A i \in 1 .. Len(s) - b : (b + 1) + i - 1 = b + i BY <1>1, <1>2
    <2> QED BY <2>2, <2>3
<1>5. /\ k \in 0 .. Len(w) /\ f \in Seq(Chars) /\ Len(f) = Len(w) - k
      /\ \A i \in 1 .. Len(w) - k : f[i] = w[k + i]
    <2>1. EndsAt(Chars, w, f, k) BY <1>4, FinalPartIs
    <2> HIDE DEF f, k
    <2> QED BY <2>1 DEF EndsAt
<1> HIDE DEF f, k
<1>6. at = Len(s) - Len(f) + 1 BY DEF w, f
<1>7. at \in 1 .. Len(s) + 1 /\ at = b + k + 1 /\ Len(s) \in Int /\ at <= Len(s) + 1
    <2> DEFINE n == Len(s)
               m == Len(w)
               g == Len(f)
    <2>1. n \in Nat /\ b \in 0 .. n /\ m = n - b /\ k \in 0 .. m /\ g = m - k /\ at = n - g + 1
        BY <1>1, <1>2, <1>4, <1>5, <1>6
    <2> HIDE DEF n, m, g
    <2>2. at \in 1 .. n + 1 /\ at = b + k + 1 /\ n \in Int /\ at <= n + 1 BY <2>1
    <2> QED BY <2>2 DEF n
<1>8. SubSeq(s, at, Len(s)) = f
    <2>1. /\ SubSeq(s, at, Len(s)) \in Seq(Chars) /\ Len(SubSeq(s, at, Len(s))) = Len(s) - at + 1
          /\ \A i \in 1 .. Len(s) - at + 1 : SubSeq(s, at, Len(s))[i] = s[at + i - 1]
        BY <1>7, PartIs
    <2>2. Len(s) - at + 1 = Len(f) BY <1>1, <1>4, <1>5, <1>6
    <2>3. ASSUME NEW i \in 1 .. Len(f) PROVE s[at + i - 1] = f[i]
        <3>0. i \in 1 .. Len(w) - k /\ k \in 0 .. Len(w) /\ Len(w) = Len(s) - b /\ at = b + k + 1 /\ b \in 0 .. Len(s)
            BY <1>2, <1>4, <1>5, <1>7
        <3>1. i \in 1 .. Len(w) - k /\ k + i \in 1 .. Len(s) - b /\ at + i - 1 = b + (k + i) BY <1>1, <3>0
        <3> QED BY <1>4, <1>5, <3>1
    <2> QED BY <1>5, <2>1, <2>2, <2>3, SameSeq
<1>9. ASSUME \A i \in DOMAIN s : s[i] # Blank PROVE w = s
    <2>1. b = 0 BY <1>3a, <1>9
    <2>2. Len(w) = Len(s) /\ \A i \in 1 .. Len(s) : w[i] = s[i] BY <1>1, <1>4, <2>1
    <2> QED BY <1>4, <2>2, SameSeq
<1> QED BY <1>1, <1>4, <1>5, <1>7, <1>8, <1>9 DEF w, f

\* What it is to begin with a sequence.
LEMMA PrefixIs ==
    ASSUME NEW U, NEW p \in Seq(U), NEW q \in Seq(U)
    PROVE  IsPrefix(p, q) <=> Len(p) <= Len(q) /\ \A i \in 1 .. Len(p) : p[i] = q[i]
<1>1. Len(p) \in Nat /\ Len(q) \in Nat OBVIOUS
<1>2. SubSeq(p, 1, Len(p)) = p OBVIOUS
<1>3. ASSUME Len(p) <= Len(q)
      PROVE  SubSeq(q, 1, Len(p)) \in Seq(U) /\ Len(SubSeq(q, 1, Len(p))) = Len(p)
             /\ \A i \in 1 .. Len(p) : SubSeq(q, 1, Len(p))[i] = q[i]
    BY <1>1, <1>3
<1>4. ASSUME Len(p) <= Len(q), \A i \in 1 .. Len(p) : p[i] = q[i] PROVE SubSeq(q, 1, Len(p)) = p
    BY <1>3, <1>4, SameSeq
<1>5. ASSUME Len(p) <= Len(q), SubSeq(q, 1, Len(p)) = p, NEW i \in 1 .. Len(p) PROVE p[i] = q[i]
    BY <1>3, <1>5
<1> QED BY <1>2, <1>4, <1>5 DEF IsPrefix

\* What is missing makes it whole.
LEMMA RestIs ==
    ASSUME NEW U, NEW p \in Seq(U), NEW q \in Seq(U), IsPrefix(p, q)
    PROVE  SubSeq(q, Len(p) + 1, Len(q)) \in Seq(U) /\ p \o SubSeq(q, Len(p) + 1, Len(q)) = q
<1> DEFINE t == SubSeq(q, Len(p) + 1, Len(q))
<1>1. Len(p) \in Nat /\ Len(q) \in Nat /\ Len(p) <= Len(q) /\ \A i \in 1 .. Len(p) : p[i] = q[i] BY PrefixIs
<1>2. /\ t \in Seq(U) /\ Len(t) = Len(q) - (Len(p) + 1) + 1
      /\ \A i \in 1 .. Len(q) - (Len(p) + 1) + 1 : t[i] = q[(Len(p) + 1) + i - 1]
    <2>1. Len(p) + 1 \in 1 .. Len(q) + 1 /\ Len(q) \in Int /\ Len(p) + 1 <= Len(q) + 1 /\ Len(q) <= Len(q) BY <1>1
    <2> QED BY <2>1, PartIs
<1> HIDE DEF t
<1>3. /\ p \o t \in Seq(U) /\ Len(p \o t) = Len(p) + Len(t)
      /\ \A i \in 1 .. Len(p) : (p \o t)[i] = p[i]
      /\ \A i \in 1 .. Len(t) : (p \o t)[Len(p) + i] = t[i]
    BY <1>2, ConcatIs
<1>4. ASSUME NEW i \in 1 .. Len(q) PROVE (p \o t)[i] = q[i]
    <2>1. CASE i \in 1 .. Len(p) BY <1>1, <1>3, <2>1
    <2>2. CASE i \notin 1 .. Len(p)
        <3> DEFINE m == Len(p)
                   n == Len(q)
        <3>1. m \in Nat /\ n \in Nat /\ i \in 1 .. n /\ i \notin 1 .. m /\ Len(t) = n - (m + 1) + 1 BY <1>1, <1>2, <2>2
        <3> HIDE DEF m, n
        <3>2. i - m \in 1 .. Len(t) /\ i - m \in 1 .. n - (m + 1) + 1 /\ m + (i - m) = i /\ (m + 1) + (i - m) - 1 = i BY <3>1
        <3>3. t[i - Len(p)] = q[i] BY <1>2, <3>2 DEF m, n
        <3>4. (p \o t)[i] = t[i - Len(p)] BY <1>3, <3>2 DEF m
        <3> QED BY <3>3, <3>4
    <2> QED BY <2>1, <2>2
<1>5. Len(p \o t) = Len(q) BY <1>1, <1>2, <1>3
<1>6. p \o t = q BY <1>3, <1>4, <1>5, SameSeq
<1> QED BY <1>2, <1>6 DEF t

\* A name that is listed can be a name, and is there.
LEMMA ListedIs ==
    ASSUME NEW dir, NEW n, n \in DOMAIN Listing(dir)
    PROVE  n \in Seq(Chars \ {Slash}) /\ n \in Seq(Chars) /\ n # <<>> /\ KindOf(dir, n) # "absent"
<1>1. DOMAIN <<>> = {} OBVIOUS
<1>2. dir \in DOMAIN Directories /\ n \in DOMAIN Directories[dir]
    <2>1. CASE dir \in DOMAIN Directories BY <2>1 DEF Listing
    <2>2. CASE dir \notin DOMAIN Directories BY <1>1, <2>2 DEF Listing
    <2> QED BY <2>1, <2>2
<1>3. n \in Seq(Chars \ {Slash}) /\ n # <<>> /\ Directories[dir][n] \in {"file", "exec", "dir"} BY <1>2, FilesAssumption
<1>4. KindOf(dir, n) # "absent" BY <1>2, <1>3 DEF KindOf, Listing
<1>5. Seq(Chars \ {Slash}) \subseteq Seq(Chars)
    <2> DEFINE V == Chars \ {Slash}
    <2>1. V \subseteq Chars OBVIOUS
    <2> HIDE DEF V
    <2>2. Seq(V) \subseteq Seq(Chars) BY <2>1
    <2> QED BY <2>2 DEF V
<1> QED BY <1>3, <1>4, <1>5

----------------------------------------------------------------------------
\* The name is listed where the j-th place of the search is.
ListedAt(dir, j, n) == n \in DOMAIN Listing(IF j = 0 THEN dir ELSE Path[j])
\* The line c is the line l, or that and the rest of a name that is listed.
FilledTo(l, at, dir, k, c) ==
    \E t \in Seq(Chars) :
        c = l \o t /\ (t # <<>> => \E j \in 0 .. k : ListedAt(dir, j, SubSeq(l, at, Len(l)) \o t))

\* Which names are there when k directories of PATH have been read.
LEMMA GatheredAre ==
    ASSUME NEW dir, NEW k \in Nat, NEW e
    PROVE  e \in Gathered(dir, k) <=>
               \E j \in 0 .. k : \E n \in Entries(IF j = 0 THEN dir ELSE Path[j]) :
                   e = <<j, n>> /\ (j # 0 => Path[j] \in DOMAIN Directories)
<1> DEFINE J == {i \in 1 .. k : Path[i] \in DOMAIN Directories}
           Here == {<<0, n>> : n \in Entries(dir)}
           There(j) == {<<j, n>> : n \in Entries(Path[j])}
<1>1. Gathered(dir, k) = Here \cup UNION {There(j) : j \in J} BY DEF Gathered
<1>2. e \in Here <=> \E n \in Entries(dir) : e = <<0, n>> OBVIOUS
<1>3. e \in UNION {There(j) : j \in J} <=> \E j \in J : \E n \in Entries(Path[j]) : e = <<j, n>> OBVIOUS
<1>4. 0 \in 0 .. k /\ (\A j \in 0 .. k : j = 0 \/ j \in 1 .. k) /\ \A j \in 1 .. k : j \in 0 .. k /\ j # 0 OBVIOUS
<1> DEFINE InHere == \E n \in Entries(dir) : e = <<0, n>>
           InThere == \E j \in J : \E n \in Entries(Path[j]) : e = <<j, n>>
           At(j) == \E n \in Entries(IF j = 0 THEN dir ELSE Path[j]) : e = <<j, n>> /\ (j # 0 => Path[j] \in DOMAIN Directories)
<1>5. ASSUME NEW j \in 0 .. k, At(j) PROVE InHere \/ InThere
    <2>1. CASE j = 0 BY <1>5, <2>1
    <2>2. CASE j # 0
        <3>1. j \in J BY <1>4, <1>5, <2>2
        <3> QED BY <1>5, <2>2, <3>1
    <2> QED BY <2>1, <2>2
<1>6. ASSUME InHere PROVE At(0) BY <1>6
<1>7. ASSUME InThere PROVE \E j \in 0 .. k : At(j)
    <2>1. PICK j \in J : \E n \in Entries(Path[j]) : e = <<j, n>> BY <1>7
    <2>2. j \in 1 .. k /\ j # 0 /\ j \in 0 .. k /\ Path[j] \in DOMAIN Directories BY <1>4
    <2>3. At(j) BY <2>1, <2>2
    <2> HIDE DEF At
    <2> QED BY <2>2, <2>3
<1>8. (\E j \in 0 .. k : At(j)) <=> InHere \/ InThere
    <2> HIDE DEF At, InHere, InThere
    <2> QED BY <1>4, <1>5, <1>6, <1>7
<1> QED BY <1>1, <1>2, <1>3, <1>8

\* "." and ".." begin alike: what is the only one that begins with p, and
\* more than p, is a name that is listed.
LEMMA DotsAlike ==
    ASSUME NEW p \in Seq(Chars), NEW n, n \in {<<Dot>>, <<Dot, Dot>>}, IsPrefix(p, n), Len(p) < Len(n)
    PROVE  IsPrefix(p, <<Dot>>) /\ IsPrefix(p, <<Dot, Dot>>)
<1> DEFINE U == Chars \cup {Dot}
           one == <<Dot>>
           two == <<Dot, Dot>>
<1>1. one \in Seq(U) /\ two \in Seq(U) /\ Len(one) = 1 /\ Len(two) = 2 /\ one[1] = Dot /\ two[1] = Dot
    OBVIOUS
<1>2. p \in Seq(U)
    <2>1. Chars \subseteq U OBVIOUS
    <2> HIDE DEF U
    <2> QED BY <2>1
<1>3. n = one \/ n = two OBVIOUS
<1> HIDE DEF U, one, two
<1>4. n \in Seq(U) /\ (Len(n) = 1 \/ Len(n) = 2) /\ n[1] = Dot BY <1>1, <1>3, Zenon
<1>5. Len(p) \in Nat /\ Len(p) <= 1 BY <1>1, <1>2, <1>3
<1>6. \A i \in 1 .. Len(p) : p[i] = n[i] BY <1>2, <1>4, PrefixIs
<1>7. \A i \in 1 .. Len(p) : i = 1 /\ p[i] = Dot BY <1>4, <1>5, <1>6
<1>8. IsPrefix(p, one) BY <1>1, <1>2, <1>5, <1>7, PrefixIs
<1>9. IsPrefix(p, two)
    <2>1. Len(p) <= Len(two) /\ \A i \in 1 .. Len(p) : p[i] = two[i] BY <1>1, <1>5, <1>7
    <2> QED BY <1>1, <1>2, <2>1, PrefixIs
<1> QED BY <1>8, <1>9 DEF one, two

\* What completion makes of a line.
LEMMA CompletedIs ==
    ASSUME NEW l \in Seq(Chars), NEW at \in 1 .. Len(l) + 1, NEW dir, NEW k \in Nat
    PROVE  FilledTo(l, at, dir, k, Completed(l, at, Gathered(dir, k)))
<1> DEFINE N == Gathered(dir, k)
           p == SubSeq(l, at, Len(l))
           M == Matching(l, at, N)
           c == Completed(l, at, N)
           Place(j) == IF j = 0 THEN dir ELSE Path[j]
<1>1. p \in Seq(Chars) /\ Len(p) = Len(l) - at + 1 /\ Len(l) \in Nat
    <2>1. Len(l) \in Int /\ at <= Len(l) + 1 /\ Len(l) <= Len(l) OBVIOUS
    <2> QED BY <2>1, PartIs
<1>2. M = {e \in N : IsPrefix(p, e[2])} BY DEF Matching
<1>3. CASE ~ \E e \in M : M = {e}
    <2>1. c = l BY <1>3 DEF Completed
    <2>2. l = l \o <<>> /\ <<>> \in Seq(Chars) OBVIOUS
    <2> QED BY <2>1, <2>2 DEF FilledTo
<1>4. ASSUME NEW e \in M, M = {e} PROVE FilledTo(l, at, dir, k, c)
    <2> DEFINE n == e[2]
               t == SubSeq(n, Len(l) - at + 2, Len(n))
    <2>1. c = l \o t
        <3>1. (CHOOSE x \in M : TRUE) = e BY <1>4
        <3>2. c = l \o SubSeq((CHOOSE x \in M : TRUE)[2], Len(l) - at + 2, Len((CHOOSE x \in M : TRUE)[2]))
            BY <1>4 DEF Completed
        <3> QED BY <3>1, <3>2
    <2>2. e \in N /\ IsPrefix(p, n) BY <1>2
    <2>3. PICK j \in 0 .. k : \E m \in Entries(Place(j)) : e = <<j, m>> /\ (j # 0 => Path[j] \in DOMAIN Directories)
        BY <2>2, GatheredAre
    <2>4. n \in Entries(Place(j)) /\ e = <<j, n>> /\ (j # 0 => Path[j] \in DOMAIN Directories) BY <2>3
    <2> HIDE DEF N, p, M, c, Place, n
    <2>5. (\A m \in Entries(Place(j)) : <<j, m>> \in N)
          /\ <<Dot>> \in Entries(Place(j)) /\ <<Dot, Dot>> \in Entries(Place(j))
        <3>1. \A m \in Entries(Place(j)) : <<j, m>> \in N BY <2>4, GatheredAre DEF N, Place
        <3> QED BY <3>1 DEF Entries
    <2> DEFINE U == Chars \cup {Dot}
    <2>6. n \in {<<Dot>>, <<Dot, Dot>>} \/ n \in DOMAIN Listing(Place(j)) BY <2>4 DEF Entries
    <2>7. n \in Seq(U) /\ p \in Seq(U)
        <3>1. Chars \subseteq U /\ <<Dot>> \in Seq(U) /\ <<Dot, Dot>> \in Seq(U) OBVIOUS
        <3> HIDE DEF U
        <3>2. Seq(Chars) \subseteq Seq(U) BY <3>1
        <3>3. n \in DOMAIN Listing(Place(j)) => n \in Seq(Chars) BY ListedIs
        <3> QED BY <1>1, <2>6, <3>1, <3>2, <3>3
    <2>8. Len(l) - at + 2 = Len(p) + 1 BY <1>1
    <2>9. t \in Seq(U) /\ p \o t = n /\ Len(p) \in Nat /\ Len(n) \in Nat /\ Len(n) = Len(p) + Len(t)
        <3> HIDE DEF U
        <3>1. t = SubSeq(n, Len(p) + 1, Len(n)) BY <2>8
        <3> HIDE DEF t
        <3>2. t \in Seq(U) /\ p \o t = n BY <2>2, <2>7, <3>1, RestIs
        <3> QED BY <2>7, <3>2, ConcatIs
    <2> HIDE DEF t
    <2>10. CASE t = <<>>
        <3>1. t \in Seq(Chars) BY <2>10
        <3> QED BY <2>1, <2>10, <3>1 DEF FilledTo
    <2>11. CASE t # <<>>
        <3>1. Len(p) < Len(n)
            <4> HIDE DEF U
            <4>1. Len(t) > 0 BY <2>9, <2>11
            <4> QED BY <2>9, <4>1
        <3>2. n \notin {<<Dot>>, <<Dot, Dot>>}
            <4> SUFFICES ASSUME n \in {<<Dot>>, <<Dot, Dot>>} PROVE FALSE OBVIOUS
            <4>1. IsPrefix(p, <<Dot>>) /\ IsPrefix(p, <<Dot, Dot>>) BY <1>1, <2>2, <3>1, DotsAlike
            <4> DEFINE a == <<j, <<Dot>>>>
                       b == <<j, <<Dot, Dot>>>>
            <4>2. a[2] = <<Dot>> /\ b[2] = <<Dot, Dot>> /\ a # b
                <5>1. Len(<<Dot>>) = 1 /\ Len(<<Dot, Dot>>) = 2 OBVIOUS
                <5> QED BY <5>1
            <4>3. a \in N /\ b \in N BY <2>5
            <4> HIDE DEF a, b
            <4>4. a \in M /\ b \in M BY <1>2, <4>1, <4>2, <4>3
            <4> QED BY <1>4, <4>2, <4>4
        <3>3. n \in DOMAIN Listing(Place(j)) BY <2>6, <3>2
        <3>4. n \in Seq(Chars) BY <3>3, ListedIs
        <3>5. t \in Seq(Chars)
            <4>1. \A i \in 1 .. Len(t) : t[i] = n[Len(p) + i] BY <2>7, <2>9, ConcatIs
            <4>2. \A i \in 1 .. Len(t) : Len(p) + i \in 1 .. Len(n) BY <2>9
            <4>2a. \A m \in 1 .. Len(n) : n[m] \in Chars
                <5> HIDE DEF U
                <5> QED BY <3>4
            <4>3. \A i \in 1 .. Len(t) : t[i] \in Chars
                <5> HIDE DEF U
                <5> QED BY <4>1, <4>2, <4>2a
            <4>4. t = [i \in 1 .. Len(t) |-> t[i]] /\ Len(t) \in Nat
                <5> HIDE DEF U
                <5> QED BY <2>9
            <4> QED BY <4>3, <4>4
        <3>6. ListedAt(dir, j, p \o t) BY <2>9, <3>3 DEF ListedAt, Place
        <3> QED BY <2>1, <3>5, <3>6 DEF FilledTo, p
    <2> QED BY <2>10, <2>11
<1> QED BY <1>3, <1>4

\* Concatenation is associative.
LEMMA ConcatAgain ==
    ASSUME NEW U, NEW a \in Seq(U), NEW b \in Seq(U), NEW c \in Seq(U)
    PROVE  (a \o b) \o c = a \o (b \o c)
OBVIOUS

\* What is longer begins with what it was.
LEMMA LongerBegins ==
    ASSUME NEW U, NEW a \in Seq(U), NEW b \in Seq(U)
    PROVE  IsPrefix(a, a \o b)
<1> DEFINE c == a \o b
<1>1. c \in Seq(U) /\ Len(c) = Len(a) + Len(b) /\ Len(a) \in Nat /\ Len(b) \in Nat /\ \A i \in 1 .. Len(a) : c[i] = a[i]
    BY ConcatIs
<1> HIDE DEF c
<1>2. Len(a) <= Len(c) BY <1>1
<1>3. IsPrefix(a, c) BY <1>1, <1>2, PrefixIs
<1> QED BY <1>3 DEF c

\* What is added to a sequence is added to each part that reaches its end.
LEMMA EndGrows ==
    ASSUME NEW U, NEW s \in Seq(U), NEW t \in Seq(U), NEW at \in 1 .. Len(s) + 1
    PROVE  SubSeq(s \o t, at, Len(s \o t)) = SubSeq(s, at, Len(s)) \o t
<1> DEFINE l == s \o t
           p == SubSeq(s, at, Len(s))
           q == SubSeq(l, at, Len(l))
           r == p \o t
<1>1. /\ l \in Seq(U) /\ Len(l) = Len(s) + Len(t) /\ Len(s) \in Nat /\ Len(t) \in Nat
      /\ \A i \in 1 .. Len(s) : l[i] = s[i]
      /\ \A i \in 1 .. Len(t) : l[Len(s) + i] = t[i]
    BY ConcatIs
<1> HIDE DEF l
<1>2. /\ p \in Seq(U) /\ Len(p) = Len(s) - at + 1
      /\ \A i \in 1 .. Len(s) - at + 1 : p[i] = s[at + i - 1]
    <2>1. Len(s) \in Int /\ at <= Len(s) + 1 /\ Len(s) <= Len(s) BY <1>1
    <2> QED BY <2>1, PartIs
<1>3. /\ q \in Seq(U) /\ Len(q) = Len(l) - at + 1
      /\ \A i \in 1 .. Len(l) - at + 1 : q[i] = l[at + i - 1]
    <2>1. Len(l) \in Int /\ at \in 1 .. Len(l) + 1 /\ at <= Len(l) + 1 /\ Len(l) <= Len(l) BY <1>1
    <2> QED BY <1>1, <2>1, PartIs
<1> HIDE DEF p, q
<1>4. /\ r \in Seq(U) /\ Len(r) = Len(p) + Len(t)
      /\ \A i \in 1 .. Len(p) : r[i] = p[i]
      /\ \A i \in 1 .. Len(t) : r[Len(p) + i] = t[i]
    <2>1. p \in Seq(U) BY <1>2
    <2> QED BY <2>1, ConcatIs
<1> HIDE DEF r
<1>5. Len(q) = Len(r) BY <1>1, <1>2, <1>3, <1>4
<1>6. ASSUME NEW i \in 1 .. Len(q) PROVE q[i] = r[i]
    <2> DEFINE n == Len(s)
               m == Len(t)
               j == Len(p)
    <2>1. n \in Nat /\ m \in Nat /\ at \in 1 .. n + 1 /\ j = n - at + 1 /\ Len(l) = n + m /\ Len(q) = n + m - at + 1
        BY <1>1, <1>2, <1>3
    <2>1a. i \in 1 .. Len(l) - at + 1 BY <1>3
    <2>2. q[i] = l[at + i - 1] BY <1>3, <2>1a
    <2>3. CASE i \in 1 .. j
        <3> HIDE DEF n, m, j
        <3>1. i \in 1 .. n - at + 1 /\ at + i - 1 \in 1 .. n BY <2>1, <2>3
        <3>2. l[at + i - 1] = s[at + i - 1] BY <1>1, <3>1 DEF n
        <3>3. p[i] = s[at + i - 1] /\ r[i] = p[i] BY <1>2, <1>4, <2>3, <3>1 DEF n, j
        <3> QED BY <2>2, <3>2, <3>3
    <2>4. CASE i \notin 1 .. j
        <3> HIDE DEF n, m, j
        <3>1. i - j \in 1 .. m /\ n + (i - j) = at + i - 1 /\ j + (i - j) = i BY <2>1, <2>4
        <3>2. l[at + i - 1] = t[i - j] BY <1>1, <3>1 DEF n, m
        <3>3. r[i] = t[i - j] BY <1>4, <3>1 DEF j, m
        <3> QED BY <2>2, <3>2, <3>3
    <2> QED BY <2>3, <2>4
<1>7. q = r BY <1>3, <1>4, <1>5, <1>6, SameSeq
<1> QED BY <1>7 DEF q, r, p, l

\* The line c is s, or that and the rest of a name that one of the first k
\* directories of PATH lists.
FromPath(s, at, k, c) ==
    \E t \in Seq(Chars) :
        c = s \o t /\ (t # <<>> => \E j \in 1 .. k : SubSeq(s, at, Len(s)) \o t \in DOMAIN Listing(Path[j]))

\* One more directory, when nothing fits in the directory of the word.
LEMMA FromNextToo ==
    ASSUME NEW s \in Seq(Chars), NEW at \in 1 .. Len(s) + 1, NEW dir, NEW k \in Nat, NEW l,
           Matching(s, at, Gathered(dir, 0)) = {}, FromPath(s, at, k, l)
    PROVE  /\ l \in Seq(Chars) /\ at \in 1 .. Len(l) + 1
           /\ FromPath(s, at, k + 1, l)
           /\ FromPath(s, at, k + 1, Completed(l, at, Gathered(dir, k + 1)))
<1> DEFINE p == SubSeq(s, at, Len(s))
           c == Completed(l, at, Gathered(dir, k + 1))
<1>1. PICK t \in Seq(Chars) : l = s \o t /\ (t # <<>> => \E j \in 1 .. k : p \o t \in DOMAIN Listing(Path[j]))
    BY DEF FromPath
<1>2. l \in Seq(Chars) /\ Len(l) = Len(s) + Len(t) /\ Len(s) \in Nat /\ Len(t) \in Nat BY <1>1, ConcatIs
<1>3. at \in 1 .. Len(l) + 1 BY <1>2
<1>3a. p \in Seq(Chars)
    <2>1. Len(s) \in Int /\ at <= Len(s) + 1 /\ Len(s) <= Len(s) BY <1>2
    <2> QED BY <2>1, PartIs
<1>4. SubSeq(l, at, Len(l)) = p \o t BY <1>1, EndGrows
<1>5. FromPath(s, at, k + 1, l)
    <2>1. 1 .. k \subseteq 1 .. k + 1 OBVIOUS
    <2>2. t # <<>> => \E j \in 1 .. k + 1 : p \o t \in DOMAIN Listing(Path[j]) BY <1>1, <2>1
    <2> QED BY <1>1, <2>2 DEF FromPath
<1>6. FilledTo(l, at, dir, k + 1, c) BY <1>2, <1>3, CompletedIs
<1> HIDE DEF c
<1>7. PICK u \in Seq(Chars) : c = l \o u /\ (u # <<>> => \E j \in 0 .. k + 1 : ListedAt(dir, j, (p \o t) \o u))
    BY <1>4, <1>6 DEF FilledTo
<1> HIDE DEF p
<1>8. FromPath(s, at, k + 1, c)
    <2>1. CASE u = <<>>
        <3>1. c = l BY <1>2, <1>7, <2>1
        <3> QED BY <1>5, <3>1
    <2>2. CASE u # <<>>
        <3> DEFINE v == t \o u
                   n == p \o v
        <3>1. v \in Seq(Chars) BY ConcatIs
        <3>2. c = s \o v
            <4>1. (s \o t) \o u = s \o v BY ConcatAgain
            <4> QED BY <1>1, <1>7, <4>1
        <3>3. (p \o t) \o u = n BY <1>3a, ConcatAgain
        <3>3a. IsPrefix(p, n)
            <4> HIDE DEF v
            <4> QED BY <1>3a, <3>1, LongerBegins
        <3> HIDE DEF v, n
        <3>4. PICK j \in 0 .. k + 1 : ListedAt(dir, j, n) BY <1>7, <2>2, <3>3
        <3>5. j # 0
            <4> SUFFICES ASSUME j = 0 PROVE FALSE OBVIOUS
            <4>1. n \in Entries(dir) BY <3>4 DEF ListedAt, Entries
            <4>2. <<0, n>> \in Gathered(dir, 0)
                <5>1. 0 \in 0 .. 0 /\ 0 \in Nat OBVIOUS
                <5> QED BY <4>1, <5>1, GatheredAre
            <4> DEFINE e == <<0, n>>
            <4>3. e[2] = n OBVIOUS
            <4> HIDE DEF e
            <4>4. e \in Matching(s, at, Gathered(dir, 0)) BY <3>3a, <4>2, <4>3 DEF Matching, e, p
            <4> QED BY <4>4
        <3>6. j \in 1 .. k + 1 /\ n \in DOMAIN Listing(Path[j]) BY <3>4, <3>5 DEF ListedAt
        <3> QED BY <3>1, <3>2, <3>6 DEF FromPath, n, p
    <2> QED BY <2>1, <2>2
<1> QED BY <1>2, <1>3, <1>5, <1>8 DEF c

\* The search of PATH.
LEMMA AlongPathIs ==
    ASSUME NEW s \in Seq(Chars), NEW at \in 1 .. Len(s) + 1, NEW dir, Matching(s, at, Gathered(dir, 0)) = {}
    PROVE  FromPath(s, at, Len(Path), AlongPath(s, at, dir))
<1> DEFINE n == Len(Path)
           V == {l \in Seq(Chars) : at \in 1 .. Len(l) + 1}
           Onward(k, l) == IF Path[k] \in DOMAIN Directories THEN Completed(l, at, Gathered(dir, k)) ELSE l
           G == [k \in Nat |-> [l \in V |-> Onward(k, l)]]
           Steps(f) == f = [k \in 0 .. n |->
                               IF k = 0 THEN s
                               ELSE IF Path[k] \in DOMAIN Directories THEN Completed(f[k - 1], at, Gathered(dir, k)) ELSE f[k - 1]]
           line == CHOOSE f : Steps(f)
<1>1. n \in Nat BY FilesAssumption
<1>2. ASSUME NEW k \in Nat, NEW l \in V PROVE Onward(k, l) \in V
    <2> DEFINE c == Completed(l, at, Gathered(dir, k))
    <2>0. l \in Seq(Chars) /\ at \in 1 .. Len(l) + 1 OBVIOUS
    <2>1. FilledTo(l, at, dir, k, c) BY <2>0, CompletedIs
    <2> HIDE DEF c
    <2>2. PICK t \in Seq(Chars) : c = l \o t BY <2>1 DEF FilledTo
    <2>3. c \in Seq(Chars) /\ Len(c) = Len(l) + Len(t) /\ Len(l) \in Nat /\ Len(t) \in Nat BY <2>0, <2>2, ConcatIs
    <2>4. c \in V BY <2>0, <2>3
    <2> HIDE DEF V
    <2> QED BY <2>4 DEF c
<1>3. G \in [Nat -> [V -> V]]
    <2> HIDE DEF V, Onward
    <2> QED BY <1>2
<1>4. s \in V OBVIOUS
<1>5. PICK f \in [0 .. n -> V] : FollowsTo(f, n, s, G)
    <2> HIDE DEF V, G, n
    <2> QED BY <1>1, <1>3, <1>4, RecursionUpTo
<1>6. Steps(f)
    <2>1. ASSUME NEW k \in 0 .. n PROVE f[k] = IF k = 0 THEN s ELSE Onward(k, f[k - 1])
        <3>1. f[k] = IF k = 0 THEN s ELSE G[k][f[k - 1]] BY <1>5 DEF FollowsTo
        <3>2. CASE k = 0 BY <3>1, <3>2
        <3>3. CASE k # 0
            <4>1. k \in Nat /\ k - 1 \in 0 .. n BY <1>1, <3>3
            <4>2. f[k - 1] \in V BY <4>1
            <4> HIDE DEF V, Onward
            <4>3. G[k][f[k - 1]] = Onward(k, f[k - 1]) BY <4>1, <4>2
            <4> QED BY <3>1, <3>3, <4>3
        <3> QED BY <3>2, <3>3
    <2>2. f = [k \in 0 .. n |-> f[k]] OBVIOUS
    <2>3. f = [k \in 0 .. n |-> IF k = 0 THEN s ELSE Onward(k, f[k - 1])]
        <3> HIDE DEF Onward, n, V
        <3> QED BY <2>1, <2>2
    <2> QED BY <2>3
<1>7. Steps(line)
    <2> HIDE DEF Steps
    <2> QED BY <1>6
<1>8. AlongPath(s, at, dir) = line[n] BY Zenon DEF AlongPath
<1>9. line[0] = s /\ \A k \in 1 .. n : line[k] = Onward(k, line[k - 1])
    <2>1. \A k \in 0 .. n : line[k] = IF k = 0 THEN s ELSE Onward(k, line[k - 1]) BY <1>7
    <2>2. 0 \in 0 .. n /\ \A k \in 1 .. n : k \in 0 .. n /\ k # 0 BY <1>1
    <2> HIDE DEF Steps, line, Onward
    <2> QED BY <2>1, <2>2
<1> HIDE DEF line, Steps, V, G
<1> DEFINE S == {k \in Nat : k <= n => FromPath(s, at, k, line[k])}
<1>10. 0 \in S
    <2>1. s = s \o <<>> /\ <<>> \in Seq(Chars) OBVIOUS
    <2>2. FromPath(s, at, 0, s) BY <2>1 DEF FromPath
    <2> QED BY <1>9, <2>2
<1>11. ASSUME NEW k \in Nat, k \in S PROVE k + 1 \in S
    <2> SUFFICES ASSUME k + 1 <= n PROVE FromPath(s, at, k + 1, line[k + 1]) OBVIOUS
    <2>1. k <= n /\ k + 1 \in 1 .. n /\ (k + 1) - 1 = k BY <1>1
    <2>2. FromPath(s, at, k, line[k]) BY <1>11, <2>1
    <2>3. FromPath(s, at, k + 1, line[k]) /\ FromPath(s, at, k + 1, Completed(line[k], at, Gathered(dir, k + 1)))
        BY <2>2, FromNextToo
    <2>4. line[k + 1] = Onward(k + 1, line[k])
        <3> HIDE DEF Onward
        <3> QED BY <1>9, <2>1
    <2> QED BY <2>3, <2>4
<1>12. n \in S
    <2> HIDE DEF S, n
    <2> QED BY <1>1, <1>10, <1>11, NatInd
<1>13. n <= n BY <1>1
<1> HIDE DEF n
<1>14. FromPath(s, at, n, line[n]) BY <1>12, <1>13
<1> QED BY <1>8, <1>14 DEF n

\* The word w is that of a file, or the whole line, and a name in PATH.
LeadsToFile(c, w) ==
    Kind(w) # "absent" \/ (c = w /\ \E d \in ToSet(Path) : KindOf(d, FinalPart(w)) # "absent")
\* Completion adds to a line what makes its last word lead to a file.
LEMMA TabCompleteIs ==
    ASSUME NEW s \in Seq(Chars)
    PROVE  \E t \in Seq(Chars) :
               TabComplete(s) = s \o t /\ (t # <<>> => LeadsToFile(s \o t, LastWord(s) \o t))
<1> DEFINE w == LastWord(s)
           f == FinalPart(w)
           dir == DirPart(w)
           at == Len(s) - Len(f) + 1
           c == TabComplete(s)
           Here == Gathered(dir, 0)
           Good == \E t \in Seq(Chars) : c = s \o t /\ (t # <<>> => LeadsToFile(s \o t, w \o t))
<1>1. /\ w \in Seq(Chars) /\ f \in Seq(Chars) /\ at \in 1 .. Len(s) + 1 /\ Len(s) \in Nat
      /\ SubSeq(s, at, Len(s)) = f
      /\ (\A i \in DOMAIN s : s[i] # Blank) => w = s
    BY LineEndsWith
<1>2. ASSUME c = s PROVE Good
    <2>1. s = s \o <<>> /\ <<>> \in Seq(Chars) OBVIOUS
    <2> HIDE DEF c
    <2> QED BY <1>2, <2>1
<1>3. ASSUME NEW t \in Seq(Chars), NEW d, f \o t \in DOMAIN Listing(d)
      PROVE  /\ DirPart(w \o t) = dir /\ FinalPart(w \o t) = f \o t /\ w \o t # <<>> /\ f \o t # <<>>
             /\ KindOf(d, f \o t) # "absent"
    <2> DEFINE n == f \o t
    <2>1. n \in Seq(Chars \ {Slash}) /\ n # <<>> /\ KindOf(d, n) # "absent" BY <1>3, ListedIs
    <2>2. FinalPart(w) \o t = n OBVIOUS
    <2> HIDE DEF n
    <2>3. DirPart(w \o t) = DirPart(w) /\ FinalPart(w \o t) = n /\ w \o t # <<>> BY <1>1, <2>1, <2>2, FilledWord
    <2> QED BY <2>1, <2>3 DEF n
<1>4. CASE w = <<>> \/ dir \notin DOMAIN Directories
    <2>1. c = s BY <1>4 DEF TabComplete
    <2> QED BY <1>2, <2>1
<1>5. CASE ~(w = <<>> \/ dir \notin DOMAIN Directories) /\ Matching(s, at, Here) # {}
    <2>1. c = Completed(s, at, Here) BY <1>5 DEF TabComplete
    <2>2. FilledTo(s, at, dir, 0, c)
        <3>1. 0 \in Nat OBVIOUS
        <3> HIDE DEF dir, at, c
        <3> QED BY <1>1, <2>1, <3>1, CompletedIs
    <2> HIDE DEF c
    <2>3. PICK t \in Seq(Chars) : c = s \o t /\ (t # <<>> => \E j \in 0 .. 0 : ListedAt(dir, j, f \o t))
        BY <1>1, <2>2 DEF FilledTo
    <2>4. ASSUME t # <<>> PROVE LeadsToFile(s \o t, w \o t)
        <3>1. f \o t \in DOMAIN Listing(dir) BY <2>3, <2>4 DEF ListedAt
        <3>2. /\ DirPart(w \o t) = dir /\ FinalPart(w \o t) = f \o t /\ w \o t # <<>> /\ f \o t # <<>>
              /\ KindOf(dir, f \o t) # "absent"
            BY <1>3, <3>1
        <3> DEFINE x == w \o t
        <3>3. Kind(x) = KindOf(DirPart(x), FinalPart(x))
            <4>1. x # <<>> /\ FinalPart(x) # <<>> BY <3>2
            <4> HIDE DEF x
            <4> QED BY <4>1 DEF Kind
        <3>4. Kind(w \o t) # "absent" BY <3>2, <3>3
        <3> QED BY <3>4 DEF LeadsToFile
    <2> HIDE DEF w, f
    <2>5. Good BY <2>3, <2>4
    <2> QED BY <2>5 DEF c, w
<1>6. CASE /\ ~(w = <<>> \/ dir \notin DOMAIN Directories) /\ Matching(s, at, Here) = {}
           /\ w[1] = Slash \/ \E i \in DOMAIN s : s[i] = Blank
    <2>1. c = s BY <1>6 DEF TabComplete
    <2> QED BY <1>2, <2>1
<1>7. CASE /\ ~(w = <<>> \/ dir \notin DOMAIN Directories) /\ Matching(s, at, Here) = {}
           /\ ~(w[1] = Slash \/ \E i \in DOMAIN s : s[i] = Blank)
    <2>1. c = AlongPath(s, at, dir) BY <1>7 DEF TabComplete
    <2>2. FromPath(s, at, Len(Path), c)
        <3> HIDE DEF dir, at, c
        <3> QED BY <1>1, <1>7, <2>1, AlongPathIs
    <2>3. w = s BY <1>1, <1>7
    <2> HIDE DEF c
    <2>4. PICK t \in Seq(Chars) : c = s \o t /\ (t # <<>> => \E j \in 1 .. Len(Path) : f \o t \in DOMAIN Listing(Path[j]))
        BY <1>1, <2>2 DEF FromPath
    <2>5. ASSUME t # <<>> PROVE LeadsToFile(s \o t, w \o t)
        <3>1. PICK j \in 1 .. Len(Path) : f \o t \in DOMAIN Listing(Path[j]) BY <2>4, <2>5
        <3>2. FinalPart(w \o t) = f \o t /\ KindOf(Path[j], f \o t) # "absent" BY <1>3, <3>1
        <3>3. Path[j] \in ToSet(Path)
            <4>1. j \in DOMAIN Path BY FilesAssumption, <3>1
            <4> QED BY <4>1 DEF ToSet
        <3>4. s \o t = w \o t BY <2>3
        <3> HIDE DEF w, f
        <3> QED BY <3>2, <3>3, <3>4 DEF LeadsToFile
    <2> HIDE DEF w, f
    <2>6. Good BY <2>4, <2>5
    <2> QED BY <2>6 DEF c, w
<1> QED BY <1>4, <1>5, <1>6, <1>7
----------------------------------------------------------------------------
(* The shell and its child                                                 *)

Modes == {"raw", "cooked"}
ChildFields == {"at", "saved", "args", "path", "killed"}
\* What the variables hold.
ShellType ==
    /\ shell \in [at : {"prompt", "typing", "fork", "wait", "exited", "killed", "panic", "corrupt"},
                  line : Seq(Chars), saved : Modes \cup {"none"}]
    /\ DOMAIN child = ChildFields /\ child.at \in {"none", "forked", "search", "running", "zombie"}
    /\ child.saved \in Modes \cup {"none"}
    /\ term \in Modes
    /\ stuck \in BOOLEAN

\* Whoever saved the mode saved the user's, unless the terminal is stuck;
\* who has given it back has nothing saved.
ModeIsKept ==
    /\ shell.at \in {"prompt", "exited"} => child.at = "none" /\ (term = "raw" <=> stuck)
    /\ shell.at \in {"typing", "fork"} =>
           child.at = "none" /\ term = "raw" /\ shell.saved \in Modes /\ (shell.saved = "raw" <=> stuck)
    /\ shell.at = "wait" =>
           /\ child.at # "none"
           /\ child.at = "forked" => child.saved \in Modes /\ (child.saved = "raw" <=> stuck)
           /\ child.at # "forked" => (term = "raw" <=> stuck)
           /\ child.at = "search" => child.saved = "none"

\* The child has the words of the line, which the shell keeps, and what it
\* runs is what it found.
CommandIsKept ==
    /\ shell.at = "fork" => shell.line # <<>>
    /\ shell.at = "wait" /\ child.at \in {"forked", "search", "running"} =>
           child.args = ParseCmd(shell.line).args /\ shell.line # <<>>
    /\ child.at = "running" => child.path = Found(child.args[1]) /\ child.path # <<>>

\* The invariant of the shell and its child.
ShellInv == ShellType /\ ModeIsKept /\ CommandIsKept

\* The shell starts with nothing saved, and no child.
LEMMA ShellStarts == ASSUME ShellStart PROVE ShellInv
<1>1. ShellType
    <2>1. <<>> \in Seq(Chars) OBVIOUS
    <2>2. DOMAIN NoChild = ChildFields /\ NoChild.at = "none" /\ NoChild.saved = "none" BY DEF NoChild, ChildFields
    <2> QED BY <2>1, <2>2 DEF ShellStart, ShellType, Modes
<1>2. ModeIsKept BY DEF ShellStart, ModeIsKept, NoChild
<1>3. CommandIsKept BY DEF ShellStart, CommandIsKept, NoChild
<1> QED BY <1>1, <1>2, <1>3 DEF ShellInv

\* The prompt saves the mode it finds, and that is the user's unless stuck.
LEMMA PromptKeeps == ASSUME ShellInv, Prompt PROVE ShellInv'
<1>1. ShellType /\ ModeIsKept /\ CommandIsKept BY DEF ShellInv
<1>2. ShellType' BY <1>1 DEF Prompt, ShellType, Modes
<1>3. ModeIsKept' BY <1>1 DEF Prompt, ModeIsKept, ShellType, Modes
<1>4. CommandIsKept' BY <1>1 DEF Prompt, CommandIsKept, ShellType
<1> QED BY <1>2, <1>3, <1>4 DEF ShellInv

\* What leaves all but the line of a shell that is typing.
LEMMA LineKeeps ==
    ASSUME ShellInv, NEW l \in Seq(Chars), shell.at = "typing", shell' = [shell EXCEPT !.line = l],
           UNCHANGED <<child, term, stuck>>
    PROVE  ShellInv'
<1>1. ShellType /\ ModeIsKept /\ CommandIsKept BY DEF ShellInv
<1>2. ShellType' BY <1>1 DEF ShellType
<1>3. shell'.at = "typing" /\ shell'.saved = shell.saved BY <1>1 DEF ShellType
<1>4. ModeIsKept' BY <1>1, <1>3 DEF ModeIsKept
<1>5. CommandIsKept' BY <1>1, <1>3 DEF CommandIsKept
<1> QED BY <1>2, <1>4, <1>5 DEF ShellInv

\* A character is typed.
LEMMA TypeCharKeeps == ASSUME ShellInv, NEW c \in Chars, TypeChar(c) PROVE ShellInv'
<1>1. shell.line \in Seq(Chars) BY DEF ShellInv, ShellType
<1>2. Append(shell.line, c) \in Seq(Chars) BY <1>1
<1>3. shell' = [shell EXCEPT !.line = Append(shell.line, c)] /\ shell.at = "typing" /\ UNCHANGED <<child, term, stuck>>
    BY DEF TypeChar
<1> QED BY <1>2, <1>3, LineKeeps

\* One is taken back.
LEMMA BackspaceKeeps == ASSUME ShellInv, Backspace PROVE ShellInv'
<1>1. shell.line \in Seq(Chars) /\ shell.line # <<>> BY DEF ShellInv, ShellType, Backspace
<1>2. Front(shell.line) \in Seq(Chars) BY <1>1 DEF Front
<1>3. shell' = [shell EXCEPT !.line = Front(shell.line)] /\ shell.at = "typing" /\ UNCHANGED <<child, term, stuck>>
    BY DEF Backspace
<1> QED BY <1>2, <1>3, LineKeeps

\* Completion leaves a line of characters.
LEMMA TabKeeps == ASSUME ShellInv, Tab PROVE ShellInv'
<1>1. shell.line \in Seq(Chars) BY DEF ShellInv, ShellType
<1>2. PICK t \in Seq(Chars) : TabComplete(shell.line) = shell.line \o t BY <1>1, TabCompleteIs
<1>3. TabComplete(shell.line) \in Seq(Chars) BY <1>1, <1>2, ConcatIs
<1>4. shell' = [shell EXCEPT !.line = TabComplete(shell.line)] /\ shell.at = "typing" /\ UNCHANGED <<child, term, stuck>>
    BY DEF Tab
<1> QED BY <1>3, <1>4, LineKeeps

\* The line is dropped.
LEMMA CancelLineKeeps == ASSUME ShellInv, CancelLine PROVE ShellInv'
<1>1. <<>> \in Seq(Chars) OBVIOUS
<1> QED BY <1>1, LineKeeps DEF CancelLine

\* The shell that ends while typing restores the mode of the user.
LEMMA LeaveKeeps ==
    ASSUME ShellInv, Leave, shell.at \in {"prompt", "typing", "fork", "wait"} PROVE ShellInv'
<1>1. ShellType /\ ModeIsKept /\ CommandIsKept BY DEF ShellInv
<1>2. /\ shell'.at = IF shell.at = "typing" THEN "exited" ELSE "killed"
      /\ shell'.saved = "none" /\ shell'.line = shell.line /\ UNCHANGED <<child, stuck>>
      /\ term' = IF shell.saved = "none" THEN term ELSE shell.saved
    BY <1>1 DEF Leave, ShellType, Restored
<1>3. ShellType' BY <1>1, <1>2 DEF Leave, ShellType, Modes
<1>4. ModeIsKept' BY <1>1, <1>2 DEF ModeIsKept, Modes
<1>5. CommandIsKept' BY <1>1, <1>2 DEF CommandIsKept
<1> QED BY <1>3, <1>4, <1>5 DEF ShellInv

\* A turn that runs no program leaves the terminal raw, and stuck.
LEMMA NoProgramKeeps ==
    ASSUME ShellInv, NoProgram, shell.at \in {"typing", "fork"} PROVE ShellInv'
<1>1. ShellType /\ ModeIsKept /\ CommandIsKept BY DEF ShellInv
<1>2. shell'.at = "prompt" /\ stuck' = TRUE /\ UNCHANGED <<child, term>> BY <1>1 DEF NoProgram, ShellType
<1>3. ShellType' BY <1>1, <1>2 DEF NoProgram, ShellType
<1>4. ModeIsKept' BY <1>1, <1>2 DEF ModeIsKept
<1>5. CommandIsKept' BY <1>1, <1>2 DEF CommandIsKept
<1> QED BY <1>3, <1>4, <1>5 DEF ShellInv

\* Enter keeps the line for the fork, which is not empty then.
LEMMA EnterKeeps == ASSUME ShellInv, Enter PROVE ShellInv'
<1>1. ShellType /\ ModeIsKept /\ CommandIsKept BY DEF ShellInv
<1>2. shell.at = "typing" /\ (Leave \/ NoProgram \/ GoesTo("corrupt") \/ (shell.line # <<>> /\ GoesTo("fork"))) BY DEF Enter
<1>3. CASE Leave BY <1>2, <1>3, LeaveKeeps
<1>4. CASE NoProgram BY <1>2, <1>4, NoProgramKeeps
<1>5. ASSUME NEW where \in {"corrupt", "fork"}, GoesTo(where), where = "fork" => shell.line # <<>> PROVE ShellInv'
    <2>1. shell'.at = where /\ shell'.line = shell.line /\ shell'.saved = shell.saved /\ UNCHANGED <<child, term, stuck>>
        BY <1>1, <1>5 DEF GoesTo, ShellType
    <2>2. ShellType' BY <1>1, <1>5, <2>1 DEF GoesTo, ShellType
    <2>3. ModeIsKept' BY <1>1, <1>2, <2>1 DEF ModeIsKept
    <2>4. CommandIsKept' BY <1>1, <1>2, <1>5, <2>1 DEF CommandIsKept
    <2> QED BY <2>2, <2>3, <2>4 DEF ShellInv
<1> QED BY <1>2, <1>3, <1>4, <1>5

\* The child inherits what the shell saved.
LEMMA ForkKeeps == ASSUME ShellInv, Fork PROVE ShellInv'
<1>1. ShellType /\ ModeIsKept /\ CommandIsKept BY DEF ShellInv
<1>2. /\ shell.at = "fork" /\ shell'.at = "wait" /\ shell'.line = shell.line /\ UNCHANGED <<term, stuck>>
      /\ DOMAIN child' = ChildFields /\ child'.at = "forked" /\ child'.saved = shell.saved
      /\ child'.args = ParseCmd(shell.line).args
    BY <1>1 DEF Fork, NoChild, ShellType, ChildFields
<1>3. ShellType' BY <1>1, <1>2 DEF Fork, ShellType
<1>4. ModeIsKept' BY <1>1, <1>2 DEF ModeIsKept
<1>5. CommandIsKept' BY <1>1, <1>2 DEF CommandIsKept
<1> QED BY <1>3, <1>4, <1>5 DEF ShellInv

\* The shell that has waited finds the mode that its child left.
LEMMA WaitKeeps == ASSUME ShellInv, Wait PROVE ShellInv'
<1>1. ShellType /\ ModeIsKept /\ CommandIsKept BY DEF ShellInv
<1>2. /\ shell.at = "wait" /\ shell'.at \in {"panic", "prompt"} /\ UNCHANGED <<term, stuck>>
      /\ DOMAIN child' = ChildFields /\ child'.at = "none" /\ child'.saved = "none" /\ child.at = "zombie"
    BY <1>1 DEF Wait, NoChild, ShellType, ChildFields
<1>3. ShellType' BY <1>1, <1>2 DEF Wait, ShellType
<1>4. ModeIsKept' BY <1>1, <1>2 DEF ModeIsKept
<1>5. CommandIsKept' BY <1>1, <1>2 DEF CommandIsKept
<1> QED BY <1>3, <1>4, <1>5 DEF ShellInv

\* The child restores what it inherited.
LEMMA ChildRestoresKeeps == ASSUME ShellInv, ChildRestores PROVE ShellInv'
<1>1. ShellType /\ ModeIsKept /\ CommandIsKept BY DEF ShellInv
<1>2. /\ DOMAIN child' = ChildFields /\ child.at = "forked" /\ child'.at = "search" /\ child'.saved = "none"
      /\ child'.args = child.args /\ term' = (IF child.saved = "none" THEN term ELSE child.saved) /\ UNCHANGED <<shell, stuck>>
    BY <1>1 DEF ChildRestores, ShellType, ChildFields, Restored
<1>3. ShellType' BY <1>1, <1>2 DEF ShellType, Modes
<1>4. ModeIsKept' BY <1>1, <1>2 DEF ModeIsKept, Modes
<1>5. CommandIsKept' BY <1>1, <1>2 DEF CommandIsKept
<1> QED BY <1>3, <1>4, <1>5 DEF ShellInv

\* So does one that is killed before it executes a program.
LEMMA ChildKilledKeeps == ASSUME ShellInv, ChildKilled PROVE ShellInv'
<1>1. ShellType /\ ModeIsKept /\ CommandIsKept BY DEF ShellInv
<1>2. /\ DOMAIN child' = ChildFields /\ child.at \in {"forked", "search"} /\ child'.at = "zombie" /\ child'.saved = "none"
      /\ term' = (IF child.saved = "none" THEN term ELSE child.saved) /\ UNCHANGED <<shell, stuck>>
    BY <1>1 DEF ChildKilled, ShellType, ChildFields, Restored
<1>3. ShellType' BY <1>1, <1>2 DEF ShellType, Modes
<1>4. ModeIsKept' BY <1>1, <1>2 DEF ModeIsKept, Modes
<1>5. CommandIsKept' BY <1>1, <1>2 DEF CommandIsKept
<1> QED BY <1>3, <1>4, <1>5 DEF ShellInv

\* What is executed is what was found.
LEMMA ChildExecsKeeps == ASSUME ShellInv, ChildExecs PROVE ShellInv'
<1> DEFINE file == Found(child.args[1])
<1>1. ShellType /\ ModeIsKept /\ CommandIsKept BY DEF ShellInv
<1>2. /\ DOMAIN child' = ChildFields /\ child.at = "search" /\ child'.saved = child.saved /\ child'.args = child.args
      /\ UNCHANGED <<shell, term, stuck>>
      /\ child'.at = "zombie" \/ (child'.at = "running" /\ child'.path = file /\ file # <<>>)
    BY <1>1 DEF ChildExecs, ShellType, ChildFields
<1>3. ShellType' BY <1>1, <1>2 DEF ShellType
<1>4. ModeIsKept' BY <1>1, <1>2 DEF ModeIsKept
<1>5. CommandIsKept' BY <1>1, <1>2 DEF CommandIsKept
<1> QED BY <1>3, <1>4, <1>5 DEF ShellInv

\* A program that makes the terminal raw leaves it stuck.
LEMMA ProgramSetsKeeps == ASSUME ShellInv, NEW m \in Modes, ProgramSets(m) PROVE ShellInv'
<1>1. ShellType /\ ModeIsKept /\ CommandIsKept BY DEF ShellInv
<1>2. child.at = "running" /\ UNCHANGED <<shell, child>> /\ term' = m /\ stuck' = (m = "raw") BY DEF ProgramSets
<1>3. ShellType' BY <1>1, <1>2 DEF ShellType, Modes
<1>4. ModeIsKept' BY <1>1, <1>2 DEF ModeIsKept, Modes
<1>5. CommandIsKept' BY <1>1, <1>2 DEF CommandIsKept
<1> QED BY <1>3, <1>4, <1>5 DEF ShellInv

\* The end of a program leaves the terminal alone.
LEMMA ProgramEndsKeeps == ASSUME ShellInv, NEW k \in BOOLEAN, ProgramEnds(k) PROVE ShellInv'
<1>1. ShellType /\ ModeIsKept /\ CommandIsKept BY DEF ShellInv
<1>2. /\ DOMAIN child' = ChildFields /\ child.at = "running" /\ child'.at = "zombie" /\ child'.saved = child.saved
      /\ UNCHANGED <<shell, term, stuck>>
    BY <1>1 DEF ProgramEnds, ShellType, ChildFields
<1>3. ShellType' BY <1>1, <1>2 DEF ShellType
<1>4. ModeIsKept' BY <1>1, <1>2 DEF ModeIsKept
<1>5. CommandIsKept' BY <1>1, <1>2 DEF CommandIsKept
<1> QED BY <1>3, <1>4, <1>5 DEF ShellInv

\* Each step of the shell and its child keeps the invariant.
LEMMA ShellKeeps == ASSUME ShellInv, ShellNext PROVE ShellInv'
<1>1. CASE EndOfFile BY <1>1, LeaveKeeps DEF EndOfFile
<1>2. CASE ForkFails BY <1>2, NoProgramKeeps DEF ForkFails
<1>3. CASE ShellKilled BY <1>3, LeaveKeeps DEF ShellKilled
<1>4. CASE Prompt \/ (\E c \in Chars : TypeChar(c)) \/ Backspace \/ Tab \/ CancelLine \/ Enter
    BY <1>4, PromptKeeps, TypeCharKeeps, BackspaceKeeps, TabKeeps, CancelLineKeeps, EnterKeeps
<1>5. CASE Fork \/ Wait \/ ChildRestores \/ ChildExecs \/ ChildKilled
    BY <1>5, ForkKeeps, WaitKeeps, ChildRestoresKeeps, ChildExecsKeeps, ChildKilledKeeps
<1>6. CASE (\E m \in {"raw", "cooked"} : ProgramSets(m)) \/ (\E k \in BOOLEAN : ProgramEnds(k))
    BY <1>6, ProgramSetsKeeps, ProgramEndsKeeps DEF Modes
<1> QED BY <1>1, <1>2, <1>3, <1>4, <1>5, <1>6 DEF ShellNext

\* It says nothing of the rest.
LEMMA ShellStays == ASSUME ShellInv, UNCHANGED shellVars PROVE ShellInv'
BY DEF ShellInv, ShellType, ModeIsKept, CommandIsKept, shellVars

\* The file found is the one the name leads to or, without one, the first
\* in PATH.
LEMMA FoundIs ==
    ASSUME NEW name, Found(name) # <<>>
    PROVE  IF Kind(name) # "absent" THEN Found(name) = <<DirPart(name), FinalPart(name)>>
           ELSE \E i \in DOMAIN Path :
                    /\ Found(name) = <<Path[i], name>>
                    /\ \A j \in 1 .. i - 1 : KindOf(Path[j], name) \notin {"file", "exec"}
<1> DEFINE F == Found(name)
           O == Offering(name)
           i == InPath(name)
<1>1. CASE Kind(name) # "absent" BY <1>1 DEF Found
<1>2. CASE ~(Kind(name) # "absent")
    <2>1. i # 0 /\ F = <<Path[i], name>>
        <3> HIDE DEF i
        <3> QED BY <1>2 DEF Found, i
    <2>2. Len(Path) \in Nat /\ DOMAIN Path = 1 .. Len(Path) BY FilesAssumption
    <2>3. O \subseteq DOMAIN Path /\ \A j \in DOMAIN Path : j \notin O => KindOf(Path[j], name) \notin {"file", "exec"}
        BY DEF Offering
    <2>4. O # {} /\ i = Min(O) BY <2>1 DEF InPath
    <2> HIDE DEF O, i
    <2>5. i \in O /\ \A j \in O : i <= j BY <2>2, <2>3, <2>4, MinIn
    <2>6. i \in DOMAIN Path /\ \A j \in 1 .. i - 1 : j \in DOMAIN Path /\ j \notin O BY <2>2, <2>3, <2>5
    <2>7. \A j \in 1 .. i - 1 : KindOf(Path[j], name) \notin {"file", "exec"} BY <2>3, <2>6
    <2> QED BY <1>2, <2>1, <2>6, <2>7
<1> QED BY <1>1, <1>2

\* It implies that the terminal is given back (tlibc_restore_term),
LEMMA TerminalHolds == ASSUME ShellInv PROVE TerminalRestored
BY DEF ShellInv, ModeIsKept, TerminalRestored

\* that the child runs the command that was typed (run_command),
LEMMA CommandHolds == ASSUME ShellInv PROVE RunsTheCommand
<1> SUFFICES ASSUME child.at = "running", shell.at = "wait" PROVE RunsTheCommand BY DEF RunsTheCommand
<1> DEFINE s == shell.line
           name == child.args[1]
<1>1. s \in Seq(Chars) /\ s # <<>> /\ child.args = ParseCmd(s).args /\ child.path = Found(name) /\ child.path # <<>>
    BY DEF ShellInv, ShellType, CommandIsKept
<1>2. child.args = WordsOf(s) <=> ~OuterBlank(s) BY <1>1, WordsAre
<1>3. IF Kind(name) # "absent" THEN child.path = <<DirPart(name), FinalPart(name)>>
      ELSE \E i \in DOMAIN Path :
               /\ child.path = <<Path[i], name>>
               /\ \A j \in 1 .. i - 1 : KindOf(Path[j], name) \notin {"file", "exec"}
    BY <1>1, FoundIs
<1> QED BY <1>2, <1>3 DEF RunsTheCommand

\* and that completion leads to files (tab_complete).
LEMMA CompletionHolds == ASSUME ShellInv PROVE CompletesToFiles
<1> DEFINE s == shell.line
           c == TabComplete(s)
           r == SubSeq(c, Len(s) + 1, Len(c))
           w == LastWord(s) \o r
<1>1. s \in Seq(Chars) BY DEF ShellInv, ShellType
<1>2. PICK t \in Seq(Chars) : c = s \o t /\ (t # <<>> => LeadsToFile(s \o t, LastWord(s) \o t)) BY <1>1, TabCompleteIs
<1>3. IsPrefix(s, c) BY <1>1, <1>2, LongerBegins
<1>4. r = t
    <2>1. s \o t \in Seq(Chars) /\ Len(s) \in Nat /\ Len(t) \in Nat /\ Len(s \o t) = Len(s) + Len(t)
          /\ \A i \in 1 .. Len(t) : (s \o t)[Len(s) + i] = t[i]
        BY <1>1, ConcatIs
    <2> HIDE DEF s, c
    <2>2. c \in Seq(Chars) /\ Len(c) = Len(s) + Len(t) /\ \A i \in 1 .. Len(t) : c[Len(s) + i] = t[i] BY <1>2, <2>1
    <2> DEFINE n == Len(s)
               m == Len(t)
    <2>3. n \in Nat /\ m \in Nat /\ Len(c) = n + m BY <2>1, <2>2
    <2> HIDE DEF n, m
    <2>4. n + 1 \in 1 .. Len(c) + 1 /\ Len(c) \in Int /\ n + 1 <= Len(c) + 1 /\ Len(c) <= Len(c) /\ Len(c) - (n + 1) + 1 = m
          /\ \A i \in 1 .. m : (n + 1) + i - 1 = n + i
        BY <2>3
    <2>5. r = SubSeq(c, n + 1, Len(c)) BY DEF n
    <2> HIDE DEF r
    <2>6. r \in Seq(Chars) /\ Len(r) = m /\ \A i \in 1 .. m : r[i] = c[(n + 1) + i - 1]
        <3>1. /\ r \in Seq(Chars) /\ Len(r) = Len(c) - (n + 1) + 1
              /\ \A i \in 1 .. Len(c) - (n + 1) + 1 : r[i] = c[(n + 1) + i - 1]
            BY <2>2, <2>4, <2>5, PartIs
        <3> QED BY <2>4, <3>1
    <2>7. Len(r) = Len(t) /\ \A i \in 1 .. Len(r) : r[i] = t[i] BY <2>2, <2>4, <2>6 DEF n, m
    <2> QED BY <2>6, <2>7, SameSeq
<1>5. ASSUME c # s PROVE LeadsToFile(c, w)
    <2>1. t # <<>> BY <1>1, <1>2, <1>5
    <2> HIDE DEF s, c, r
    <2> QED BY <1>2, <1>4, <2>1
<1>6. c # s => Kind(w) # "absent" \/ (c = w /\ \E d \in ToSet(Path) : KindOf(d, FinalPart(w)) # "absent")
    BY <1>5 DEF LeadsToFile
<1> QED BY <1>3, <1>6 DEF CompletesToFiles

\* The invariant holds in every state of the shell.
THEOREM ShellInvariant == ShellSpec => []ShellInv
<1>1. ShellStart => ShellInv BY ShellStarts
<1>2. ShellInv /\ [ShellNext]_shellVars => ShellInv' BY ShellKeeps, ShellStays
<1> QED BY <1>1, <1>2, PTL DEF ShellSpec

\* The shell runs the command that was typed, completes it to files and gives
\* the terminal back (main, run_command and tab_complete of shell.c).
THEOREM ShellIsSound == ShellSpec => []ShellSound
<1>1. ShellInv => ShellSound BY TerminalHolds, CommandHolds, CompletionHolds DEF ShellSound
<1> QED BY <1>1, ShellInvariant, PTL
=============================================================================
