--------------------------- MODULE RingQueueProofs ---------------------------
(***************************************************************************)
(* QueueSound for any number of threads, any size of the ring and any      *)
(* number of values.  The ring is addressed modulo its size, so the proof  *)
(* starts with three facts about remainders.                               *)
(***************************************************************************)
EXTENDS RingQueue, FiniteSetTheorems, SequenceTheorems, TLAPS

\* A number is its quotient times the divisor plus its remainder.
LEMMA Division ==
    ASSUME NEW a \in Nat, NEW q \in Nat, q > 0
    PROVE  a \div q \in Nat /\ a % q \in 0 .. q - 1 /\ a = q * (a \div q) + (a % q)
OBVIOUS

\* Quotient and remainder are unique.
LEMMA DivisionUnique ==
    ASSUME NEW q \in Nat, q > 0, NEW d \in Int, NEW e \in Int, NEW r \in 0 .. q - 1, NEW s \in 0 .. q - 1, q * d + r = q * e + s
    PROVE  r = s
<1>1. q * (d - e) = s - r /\ q * (e - d) = r - s  OBVIOUS
<1>2. d - e >= 1 => q * (d - e) >= q  OBVIOUS
<1>3. e - d >= 1 => q * (e - d) >= q  OBVIOUS
<1> QED BY <1>1, <1>2, <1>3

\* Steps around the ring add up.
LEMMA RemainderOfSum ==
    ASSUME NEW a \in Nat, NEW i \in Nat, NEW q \in Nat, q > 0
    PROVE  ((a % q) + i) % q = (a + i) % q
<1> DEFINE x == (a % q) + i
           y == a + i
           c == a \div q
           d == x \div q
           e == y \div q
           r == x % q
           s == y % q
<1>1. c \in Nat /\ a % q \in 0 .. q - 1 /\ a = q * c + (a % q)  BY Division
<1>2. x \in Nat /\ y \in Nat  BY <1>1
<1>3. d \in Nat /\ r \in 0 .. q - 1 /\ x = q * d + r  BY <1>2, Division
<1>4. e \in Nat /\ s \in 0 .. q - 1 /\ y = q * e + s  BY <1>2, Division
<1>5. y = q * c + x  BY <1>1
<1> HIDE DEF x, y, c, d, e, r, s
<1>6. q * (c + d) = q * c + q * d  BY <1>1, <1>3
<1>7. c + d \in Int /\ e \in Int /\ q * (c + d) + r = q * e + s  BY <1>1, <1>2, <1>3, <1>4, <1>5, <1>6
<1>8. r = s  BY <1>3, <1>4, <1>7, DivisionUnique, Zenon
<1> QED  BY <1>8 DEF r, s, x, y

\* Two places less than a round apart are different.
LEMMA PlacesDiffer ==
    ASSUME NEW a \in Nat, NEW b \in Nat, NEW q \in Nat, a < b, b < a + q
    PROVE  a % q # b % q
<1>1. a \div q \in Nat /\ a % q \in 0 .. q - 1 /\ a = q * (a \div q) + (a % q)  BY Division
<1>2. b \div q \in Nat /\ b % q \in 0 .. q - 1 /\ b = q * (b \div q) + (b % q)  BY Division
<1>3. SUFFICES ASSUME a % q = b % q PROVE FALSE  OBVIOUS
<1>4. b - a = q * (b \div q - a \div q)  BY <1>1, <1>2, <1>3
<1>5. b \div q - a \div q >= 1 => q * (b \div q - a \div q) >= q  BY <1>1, <1>2
<1>6. b \div q - a \div q <= 0 => q * (b \div q - a \div q) <= 0  BY <1>1, <1>2
<1> QED  BY <1>1, <1>2, <1>4, <1>5, <1>6

----------------------------------------------------------------------------
(* The inductive invariant                                                 *)

RingSpec == RingInit /\ [][RingNext]_ringVars

Outside == {"loop", "enqueue", "dequeue", "produced", "consumed", "ended"}
Inside == {"look for room", "put", "count put", "release put", "release full", "look for value", "take", "count take", "release take", "release empty"}
Stage == Outside \cup Inside
In(at, stages) == {w \in Workers : at[w] \in stages}
Entered == Len(history.in)
Left == Len(history.out)

Rings == [lock : {0, 1}, num : Nat, head : 0 .. QueueSize - 1, tail : 0 .. QueueSize - 1, value : [0 .. QueueSize - 1 -> Nat]]
Tallies == [produced : Nat, consumed : Nat]
RingTypeOK ==
    /\ worker \in [Workers -> Stage]
    /\ ring \in Rings
    /\ tally \in Tallies
    /\ history \in [in : Seq(Nat), out : Seq(Nat)]

\* The lock is taken as long as a thread is inside, and only one is.
Exclusion ==
    /\ \A v, w \in Holding : v = w
    /\ ring.lock = 0 => Holding = {}
    /\ ring.lock = 1 => Holding # {}

\* The values are numbered as they enter, and the places from tail to head
\* hold those that have not left.
Contents ==
    /\ \A i \in 1 .. Entered : history.in[i] = i
    /\ \A i \in 1 .. Left : history.out[i] = i
    /\ Left <= Entered /\ Entered - Left <= QueueSize
    /\ ring.head = Entered % QueueSize /\ ring.tail = Left % QueueSize
    /\ \A k \in Left .. Entered - 1 : ring.value[k % QueueSize] = k + 1

\* num counts the values but while a thread has moved one and not counted.
Books ==
    /\ Holding = {} => ring.num = Entered - Left
    /\ \A w \in Holding :
         /\ worker[w] \notin {"count put", "count take"} => ring.num = Entered - Left
         /\ worker[w] = "count put" => ring.num + 1 = Entered - Left
         /\ worker[w] = "count take" => ring.num = Entered - Left + 1
         /\ worker[w] = "put" => ring.num < QueueSize
         /\ worker[w] = "take" => ring.num > 0

\* A thread that was let in by the test of produced counts at most once more.
Adding == {"enqueue", "look for room", "put", "count put", "release put", "produced"}
Limit ==
    /\ tally.produced + Cardinality(In(worker, Adding)) < TaskTime + Cardinality(Workers)
    /\ \A w \in Workers : worker[w] = "ended" => tally.produced >= TaskTime

\* What is counted in num and not yet in produced or consumed.
Uncounted == {"release put", "produced"}
Unbooked == {"release take", "consumed"}
Sums == tally.produced + Cardinality(In(worker, Uncounted)) = tally.consumed + ring.num + Cardinality(In(worker, Unbooked))

IInv == RingTypeOK /\ Exclusion /\ Contents /\ Books /\ Limit /\ Sums

----------------------------------------------------------------------------
(* Facts about one move of a thread                                        *)

\* How a thread's move changes the number of threads in a set of stages.
LEMMA MoveCounts ==
    ASSUME NEW w \in Workers, NEW to \in Stage, worker \in [Workers -> Stage], worker' = [worker EXCEPT ![w] = to], NEW stages
    PROVE  /\ Cardinality(In(worker, stages)) \in Nat /\ Cardinality(In(worker', stages)) \in Nat
           /\ worker[w] \in stages /\ to \notin stages => Cardinality(In(worker', stages)) = Cardinality(In(worker, stages)) - 1
           /\ worker[w] \notin stages /\ to \in stages => Cardinality(In(worker', stages)) = Cardinality(In(worker, stages)) + 1
           /\ (worker[w] \in stages <=> to \in stages) => Cardinality(In(worker', stages)) = Cardinality(In(worker, stages))
<1> DEFINE at == worker
           new == worker'
<1>1. In(at, stages) \subseteq Workers /\ In(new, stages) \subseteq Workers  BY DEF In
<1>2. IsFiniteSet(In(at, stages)) /\ IsFiniteSet(In(new, stages))  BY <1>1, WorkersAssumption, FS_Subset
<1>3. Cardinality(In(at, stages)) \in Nat /\ Cardinality(In(new, stages)) \in Nat  BY <1>2, FS_CardinalityType
<1>4. CASE worker[w] \in stages /\ to \notin stages
    <2>1. In(new, stages) = In(at, stages) \ {w} /\ w \in In(at, stages)  BY <1>4 DEF In
    <2> QED  BY ZenonT(40), <2>1, <1>2, <1>3, <1>4, FS_RemoveElement
<1>5. CASE worker[w] \notin stages /\ to \in stages
    <2>1. In(new, stages) = In(at, stages) \cup {w} /\ w \notin In(at, stages)  BY <1>5 DEF In
    <2> QED  BY <2>1, <1>2, <1>3, <1>5, FS_AddElement
<1>6. CASE worker[w] \in stages <=> to \in stages
    <2>1. In(new, stages) = In(at, stages)  BY <1>6 DEF In
    <2> QED  BY <2>1, <1>3, <1>6
<1> QED  BY <1>3, <1>4, <1>5, <1>6

\* Who holds the lock after a move.
LEMMA MoveHolding ==
    ASSUME NEW w \in Workers, NEW to \in Stage, worker \in [Workers -> Stage], worker' = [worker EXCEPT ![w] = to]
    PROVE  /\ worker[w] \in Outside /\ to \in Outside => Holding' = Holding
           /\ worker[w] \in Outside /\ to \in Inside => Holding' = Holding \cup {w} /\ w \notin Holding
           /\ worker[w] \in Inside /\ to \in Inside => Holding' = Holding /\ w \in Holding
           /\ worker[w] \in Inside /\ to \in Outside => Holding' = Holding \ {w} /\ w \in Holding
<1>1. Holding = {v \in Workers : worker[v] \notin Outside} /\ Holding' = {v \in Workers : worker'[v] \notin Outside}  BY DEF Holding, Outside
<1>2. \A x \in Inside : x \notin Outside  BY DEF Inside, Outside
<1> QED  BY <1>1, <1>2

\* Where nothing enters or leaves, the ring's content stays.
LEMMA SameContents ==
    ASSUME Contents, history' = history, ring'.head = ring.head, ring'.tail = ring.tail, ring'.value = ring.value
    PROVE  Contents'
BY DEF Contents, Entered, Left

----------------------------------------------------------------------------
(* The steps                                                               *)

\* A thread goes on only while produced is below task_time.
LEMMA LoopKeeps ==
    ASSUME IInv, NEW w \in Workers, Loop(w)
    PROVE  IInv'
<1> DEFINE from == "loop"
           to == IF tally.produced < TaskTime THEN "enqueue" ELSE "ended"
<1> USE DEF IInv
<1>1. worker[w] = from /\ worker' = [worker EXCEPT ![w] = to] /\ worker \in [Workers -> Stage]  BY DEF Loop, Goto, RingTypeOK
<1>2. /\ from \in Stage /\ to \in Stage /\ from \in Outside /\ to \in Outside
      /\ from \notin Uncounted /\ to \notin Uncounted /\ from \notin Unbooked /\ to \notin Unbooked
    BY DEF Stage, Inside, Outside, Adding, Uncounted, Unbooked
<1>3. /\ worker' \in [Workers -> Stage] /\ worker'[w] = to
      /\ \A v \in Workers : v # w => worker'[v] = worker[v]
    BY <1>1, <1>2
<1>r. ring \in Rings  BY DEF RingTypeOK
<1>t. tally \in Tallies /\ history \in [in : Seq(Nat), out : Seq(Nat)]  BY DEF RingTypeOK
<1>4. /\ ring.num \in Nat /\ tally.produced \in Nat /\ tally.consumed \in Nat
      /\ Entered \in Nat /\ Left \in Nat /\ Left <= Entered /\ Entered - Left <= QueueSize /\ QueueSize \in Nat
    BY <1>r, <1>t, QueueAssumption DEF Rings, Tallies, Entered, Left, Contents
<1> HIDE DEF from, to
<1>5. Holding' = Holding /\ w \notin Holding /\ Holding \subseteq Workers
    <2>1. Holding' = Holding  BY <1>1, <1>2, MoveHolding
    <2> QED  BY <2>1, <1>1, <1>2 DEF Exclusion, Holding, Outside
<1>7. /\ Cardinality(In(worker, Adding)) \in Nat /\ Cardinality(In(worker', Adding)) \in Nat
    BY <1>1, <1>2, MoveCounts
<1>8. /\ Cardinality(In(worker, Uncounted)) \in Nat /\ Cardinality(In(worker', Uncounted)) \in Nat
      /\ Cardinality(In(worker', Uncounted)) = Cardinality(In(worker, Uncounted))
    BY <1>1, <1>2, MoveCounts
<1>9. /\ Cardinality(In(worker, Unbooked)) \in Nat /\ Cardinality(In(worker', Unbooked)) \in Nat
      /\ Cardinality(In(worker', Unbooked)) = Cardinality(In(worker, Unbooked))
    BY <1>1, <1>2, MoveCounts
<1>10. ring' = ring /\ tally' = tally /\ history' = history /\ Entered' = Entered /\ Left' = Left
    <2>1. ring' = ring /\ tally' = tally /\ history' = history  BY DEF Loop
    <2>2. ring' = ring /\ tally' = tally /\ history' = history  BY <2>1, <1>r, <1>t DEF Rings, Tallies
    <2>3. ring' = ring /\ tally' = tally /\ history' = history  BY <2>1, <1>t DEF Rings, Tallies
    <2>4. Entered' = Entered /\ Left' = Left  BY <2>1 DEF Entered, Left
    <2> QED  BY <2>1, <2>2, <2>3, <2>4
<1>11. RingTypeOK'
    BY <1>3, <1>r, <1>t, <1>10 DEF RingTypeOK
<1>12. Exclusion'
    BY <1>5, <1>10, <1>4 DEF Exclusion
<1>13. Contents'
    BY <1>10, SameContents
<1>14. Books'
    BY <1>3, <1>4, <1>5, <1>10 DEF Books
<1>15. Limit'
    <2>1. Cardinality(Workers) \in Nat /\ TaskTime \in Nat /\ Cardinality(In(worker', Adding)) <= Cardinality(Workers)
        BY WorkersAssumption, QueueAssumption, FS_CardinalityType, FS_Subset DEF In
    <2>2. CASE tally.produced < TaskTime
        <3>1. to # "ended" /\ to = "enqueue"  BY <2>2 DEF to
        <3>2. tally'.produced + Cardinality(In(worker', Adding)) < TaskTime + Cardinality(Workers)  BY <2>1, <2>2, <1>4, <1>7, <1>10
        <3>3. \A v \in Workers : worker'[v] = "ended" => tally'.produced >= TaskTime  BY <3>1, <1>3, <1>10 DEF Limit
        <3> QED  BY <3>2, <3>3 DEF Limit
    <2>3. CASE ~(tally.produced < TaskTime)
        <3>1. to = "ended" /\ to \notin Adding /\ from \notin Adding  BY <2>3 DEF to, from, Adding
        <3>2. Cardinality(In(worker', Adding)) = Cardinality(In(worker, Adding))  BY ZenonT(40), <3>1, <1>1, <1>2, MoveCounts
        <3>3. tally'.produced + Cardinality(In(worker', Adding)) < TaskTime + Cardinality(Workers)  BY <3>2, <1>10 DEF Limit
        <3>4. tally'.produced >= TaskTime  BY <2>1, <2>3, <1>4, <1>10
        <3> QED  BY <3>3, <3>4 DEF Limit
    <2> QED  BY <2>2, <2>3
<1>16. Sums'
    BY <1>4, <1>8, <1>9, <1>10 DEF Sums
<1> QED  BY <1>11, <1>12, <1>13, <1>14, <1>15, <1>16

\* What num says of the room stays true while the lock is held.
LEMMA LookForRoomKeeps ==
    ASSUME IInv, NEW w \in Workers, LookForRoom(w)
    PROVE  IInv'
<1> DEFINE from == "look for room"
           to == IF ring.num = QueueSize THEN "release full" ELSE "put"
<1> USE DEF IInv
<1>1. worker[w] = from /\ worker' = [worker EXCEPT ![w] = to] /\ worker \in [Workers -> Stage]  BY DEF LookForRoom, Goto, RingTypeOK
<1>2. /\ from \in Stage /\ to \in Stage /\ from \in Inside /\ to \in Inside
      /\ from \notin Uncounted /\ to \notin Uncounted /\ from \notin Unbooked /\ to \notin Unbooked /\ to # "ended" /\ from \in Adding
    BY DEF Stage, Inside, Outside, Adding, Uncounted, Unbooked
<1>3. /\ worker' \in [Workers -> Stage] /\ worker'[w] = to
      /\ \A v \in Workers : v # w => worker'[v] = worker[v]
    BY <1>1, <1>2
<1>r. ring \in Rings  BY DEF RingTypeOK
<1>t. tally \in Tallies /\ history \in [in : Seq(Nat), out : Seq(Nat)]  BY DEF RingTypeOK
<1>4. /\ ring.num \in Nat /\ tally.produced \in Nat /\ tally.consumed \in Nat
      /\ Entered \in Nat /\ Left \in Nat /\ Left <= Entered /\ Entered - Left <= QueueSize /\ QueueSize \in Nat
    BY <1>r, <1>t, QueueAssumption DEF Rings, Tallies, Entered, Left, Contents
<1> HIDE DEF from, to
<1>5. Holding = {w} /\ Holding' = {w} /\ Holding \subseteq Workers
    <2>1. Holding' = Holding /\ w \in Holding  BY <1>1, <1>2, MoveHolding
    <2> QED  BY <2>1, <1>1, <1>2 DEF Exclusion, Holding, Outside
<1>6. ring.num = Entered - Left  BY <1>1, <1>5 DEF Books, from
<1>7. /\ Cardinality(In(worker, Adding)) \in Nat /\ Cardinality(In(worker', Adding)) \in Nat
      /\ Cardinality(In(worker', Adding)) <= Cardinality(In(worker, Adding))
    <2>1. Cardinality(In(worker, Adding)) \in Nat /\ Cardinality(In(worker', Adding)) \in Nat  BY <1>1, <1>2, MoveCounts
    <2>2. to \in Adding => Cardinality(In(worker', Adding)) = Cardinality(In(worker, Adding))  BY <1>1, <1>2, MoveCounts
    <2>3. to \notin Adding => Cardinality(In(worker', Adding)) = Cardinality(In(worker, Adding)) - 1  BY <1>1, <1>2, MoveCounts
    <2> QED  BY <2>1, <2>2, <2>3
<1>8. /\ Cardinality(In(worker, Uncounted)) \in Nat /\ Cardinality(In(worker', Uncounted)) \in Nat
      /\ Cardinality(In(worker', Uncounted)) = Cardinality(In(worker, Uncounted))
    BY <1>1, <1>2, MoveCounts
<1>9. /\ Cardinality(In(worker, Unbooked)) \in Nat /\ Cardinality(In(worker', Unbooked)) \in Nat
      /\ Cardinality(In(worker', Unbooked)) = Cardinality(In(worker, Unbooked))
    BY <1>1, <1>2, MoveCounts
<1>10. ring' = ring /\ tally' = tally /\ history' = history /\ Entered' = Entered /\ Left' = Left
    <2>1. ring' = ring /\ tally' = tally /\ history' = history  BY DEF LookForRoom
    <2>2. ring' = ring /\ tally' = tally /\ history' = history  BY <2>1, <1>r, <1>t DEF Rings, Tallies
    <2>3. ring' = ring /\ tally' = tally /\ history' = history  BY <2>1, <1>t DEF Rings, Tallies
    <2>4. Entered' = Entered /\ Left' = Left  BY <2>1 DEF Entered, Left
    <2> QED  BY <2>1, <2>2, <2>3, <2>4
<1>11. RingTypeOK'
    BY <1>3, <1>r, <1>t, <1>10 DEF RingTypeOK
<1>12. Exclusion'
    BY <1>5, <1>10, <1>4 DEF Exclusion
<1>13. Contents'
    BY <1>10, SameContents
<1>14. Books'
    <2>1. to \in {"release full", "put"} /\ (to = "put" => ring.num < QueueSize)  BY <1>6, <1>4 DEF to
    <2>2. \A v \in Holding' : v = w /\ worker'[v] = to  BY <1>3, <1>5
    <2>3. ring'.num = Entered' - Left'  BY <1>6, <1>4, <1>10
    <2> QED  BY <2>1, <2>2, <2>3, <1>5, <1>10 DEF Books
<1>15. Limit'
    <2>1. tally'.produced \in Nat /\ tally'.produced + Cardinality(In(worker', Adding)) <= tally.produced + Cardinality(In(worker, Adding)) /\ tally'.produced >= tally.produced  BY <1>4, <1>7, <1>10
    <2>2. Cardinality(Workers) \in Nat /\ TaskTime \in Nat  BY WorkersAssumption, QueueAssumption, FS_CardinalityType
    <2>3. tally'.produced + Cardinality(In(worker', Adding)) < TaskTime + Cardinality(Workers)  BY <2>1, <2>2, <1>4, <1>7 DEF Limit
    <2>4. \A v \in Workers : worker'[v] = "ended" => tally'.produced >= TaskTime  BY <2>1, <2>2, <1>1, <1>2, <1>3, <1>4 DEF Limit
    <2> QED  BY <2>3, <2>4 DEF Limit
<1>16. Sums'
    BY <1>4, <1>6, <1>8, <1>9, <1>10 DEF Sums
<1> QED  BY <1>11, <1>12, <1>13, <1>14, <1>15, <1>16

\* What num says of the values stays true while the lock is held.
LEMMA LookForValueKeeps ==
    ASSUME IInv, NEW w \in Workers, LookForValue(w)
    PROVE  IInv'
<1> DEFINE from == "look for value"
           to == IF ring.num = 0 THEN "release empty" ELSE "take"
<1> USE DEF IInv
<1>1. worker[w] = from /\ worker' = [worker EXCEPT ![w] = to] /\ worker \in [Workers -> Stage]  BY DEF LookForValue, Goto, RingTypeOK
<1>2. /\ from \in Stage /\ to \in Stage /\ from \in Inside /\ to \in Inside
      /\ from \notin Adding /\ to \notin Adding /\ from \notin Uncounted /\ to \notin Uncounted /\ from \notin Unbooked /\ to \notin Unbooked /\ to # "ended"
    BY DEF Stage, Inside, Outside, Adding, Uncounted, Unbooked
<1>3. /\ worker' \in [Workers -> Stage] /\ worker'[w] = to
      /\ \A v \in Workers : v # w => worker'[v] = worker[v]
    BY <1>1, <1>2
<1>r. ring \in Rings  BY DEF RingTypeOK
<1>t. tally \in Tallies /\ history \in [in : Seq(Nat), out : Seq(Nat)]  BY DEF RingTypeOK
<1>4. /\ ring.num \in Nat /\ tally.produced \in Nat /\ tally.consumed \in Nat
      /\ Entered \in Nat /\ Left \in Nat /\ Left <= Entered /\ Entered - Left <= QueueSize /\ QueueSize \in Nat
    BY <1>r, <1>t, QueueAssumption DEF Rings, Tallies, Entered, Left, Contents
<1> HIDE DEF from, to
<1>5. Holding = {w} /\ Holding' = {w} /\ Holding \subseteq Workers
    <2>1. Holding' = Holding /\ w \in Holding  BY <1>1, <1>2, MoveHolding
    <2> QED  BY <2>1, <1>1, <1>2 DEF Exclusion, Holding, Outside
<1>6. ring.num = Entered - Left  BY <1>1, <1>5 DEF Books, from
<1>7. /\ Cardinality(In(worker, Adding)) \in Nat /\ Cardinality(In(worker', Adding)) \in Nat
      /\ Cardinality(In(worker', Adding)) = Cardinality(In(worker, Adding))
    BY <1>1, <1>2, MoveCounts
<1>8. /\ Cardinality(In(worker, Uncounted)) \in Nat /\ Cardinality(In(worker', Uncounted)) \in Nat
      /\ Cardinality(In(worker', Uncounted)) = Cardinality(In(worker, Uncounted))
    BY <1>1, <1>2, MoveCounts
<1>9. /\ Cardinality(In(worker, Unbooked)) \in Nat /\ Cardinality(In(worker', Unbooked)) \in Nat
      /\ Cardinality(In(worker', Unbooked)) = Cardinality(In(worker, Unbooked))
    BY <1>1, <1>2, MoveCounts
<1>10. ring' = ring /\ tally' = tally /\ history' = history /\ Entered' = Entered /\ Left' = Left
    <2>1. ring' = ring /\ tally' = tally /\ history' = history  BY DEF LookForValue
    <2>2. ring' = ring /\ tally' = tally /\ history' = history  BY <2>1, <1>r, <1>t DEF Rings, Tallies
    <2>3. ring' = ring /\ tally' = tally /\ history' = history  BY <2>1, <1>t DEF Rings, Tallies
    <2>4. Entered' = Entered /\ Left' = Left  BY <2>1 DEF Entered, Left
    <2> QED  BY <2>1, <2>2, <2>3, <2>4
<1>11. RingTypeOK'
    BY <1>3, <1>r, <1>t, <1>10 DEF RingTypeOK
<1>12. Exclusion'
    BY <1>5, <1>10, <1>4 DEF Exclusion
<1>13. Contents'
    BY <1>10, SameContents
<1>14. Books'
    <2>1. to \in {"release empty", "take"} /\ (to = "take" => ring.num > 0)  BY <1>6, <1>4 DEF to
    <2>2. \A v \in Holding' : v = w /\ worker'[v] = to  BY <1>3, <1>5
    <2>3. ring'.num = Entered' - Left'  BY <1>6, <1>4, <1>10
    <2> QED  BY <2>1, <2>2, <2>3, <1>5, <1>10 DEF Books
<1>15. Limit'
    BY <1>1, <1>2, <1>3, <1>4, <1>7, <1>10 DEF Limit
<1>16. Sums'
    BY <1>4, <1>6, <1>8, <1>9, <1>10 DEF Sums
<1> QED  BY <1>11, <1>12, <1>13, <1>14, <1>15, <1>16

\* num catches up with the value put.
LEMMA CountPutKeeps ==
    ASSUME IInv, NEW w \in Workers, CountPut(w)
    PROVE  IInv'
<1> DEFINE from == "count put"
           to == "release put"
<1> USE DEF IInv
<1>1. worker[w] = from /\ worker' = [worker EXCEPT ![w] = to] /\ worker \in [Workers -> Stage]  BY DEF CountPut, Goto, RingTypeOK
<1>2. /\ from \in Stage /\ to \in Stage /\ from \in Inside /\ to \in Inside
      /\ from \in Adding /\ to \in Adding /\ from \notin Uncounted /\ to \in Uncounted /\ from \notin Unbooked /\ to \notin Unbooked /\ to # "ended"
    BY DEF Stage, Inside, Outside, Adding, Uncounted, Unbooked
<1>3. /\ worker' \in [Workers -> Stage] /\ worker'[w] = to
      /\ \A v \in Workers : v # w => worker'[v] = worker[v]
    BY <1>1, <1>2
<1>r. ring \in Rings  BY DEF RingTypeOK
<1>t. tally \in Tallies /\ history \in [in : Seq(Nat), out : Seq(Nat)]  BY DEF RingTypeOK
<1>4. /\ ring.num \in Nat /\ tally.produced \in Nat /\ tally.consumed \in Nat
      /\ Entered \in Nat /\ Left \in Nat /\ Left <= Entered /\ Entered - Left <= QueueSize /\ QueueSize \in Nat
    BY <1>r, <1>t, QueueAssumption DEF Rings, Tallies, Entered, Left, Contents
<1> HIDE DEF from, to
<1>5. Holding = {w} /\ Holding' = {w} /\ Holding \subseteq Workers
    <2>1. Holding' = Holding /\ w \in Holding  BY <1>1, <1>2, MoveHolding
    <2> QED  BY <2>1, <1>1, <1>2 DEF Exclusion, Holding, Outside
<1>6. ring.num + 1 = Entered - Left  BY <1>1, <1>5 DEF Books, from
<1>7. /\ Cardinality(In(worker, Adding)) \in Nat /\ Cardinality(In(worker', Adding)) \in Nat
      /\ Cardinality(In(worker', Adding)) = Cardinality(In(worker, Adding))
    BY <1>1, <1>2, MoveCounts
<1>8. /\ Cardinality(In(worker, Uncounted)) \in Nat /\ Cardinality(In(worker', Uncounted)) \in Nat
      /\ Cardinality(In(worker', Uncounted)) = Cardinality(In(worker, Uncounted)) + 1
    BY <1>1, <1>2, MoveCounts
<1>9. /\ Cardinality(In(worker, Unbooked)) \in Nat /\ Cardinality(In(worker', Unbooked)) \in Nat
      /\ Cardinality(In(worker', Unbooked)) = Cardinality(In(worker, Unbooked))
    BY <1>1, <1>2, MoveCounts
<1>10. ring' \in Rings /\ ring'.lock = ring.lock /\ ring'.head = ring.head /\ ring'.tail = ring.tail /\ ring'.value = ring.value /\ ring'.num = ring.num + 1 /\ tally' = tally /\ history' = history /\ Entered' = Entered /\ Left' = Left
    <2>1. ring' = [ring EXCEPT !.num = @ + 1] /\ tally' = tally /\ history' = history  BY DEF CountPut
    <2>2. ring' = [ring EXCEPT !.num = @ + 1]  BY <2>1
    <2>3. ring.num + 1 \in Nat  BY <1>6, <1>4
    <2>4. ring' \in Rings  BY <2>2, <2>3, <1>r DEF Rings
    <2>5. ring'.lock = ring.lock /\ ring'.head = ring.head /\ ring'.tail = ring.tail /\ ring'.value = ring.value /\ ring'.num = ring.num + 1  BY <2>1, <1>r, <1>t DEF Rings, Tallies
    <2>6. tally' = tally /\ history' = history  BY <2>1, <1>r, <1>t DEF Rings, Tallies
    <2>7. tally' = tally /\ history' = history  BY <2>1, <1>t DEF Rings, Tallies
    <2>8. Entered' = Entered /\ Left' = Left  BY <2>1 DEF Entered, Left
    <2> QED  BY <2>1, <2>2, <2>3, <2>4, <2>5, <2>6, <2>7, <2>8
<1>11. RingTypeOK'
    BY <1>3, <1>r, <1>t, <1>10 DEF RingTypeOK
<1>12. Exclusion'
    BY <1>5, <1>10, <1>4 DEF Exclusion
<1>13. Contents'
    BY <1>10, SameContents
<1>14. Books'
    <2>1. to = "release put"  BY <1>6, <1>4 DEF to
    <2>2. \A v \in Holding' : v = w /\ worker'[v] = to  BY <1>3, <1>5
    <2>3. ring'.num = Entered' - Left'  BY <1>6, <1>4, <1>10
    <2> QED  BY <2>1, <2>2, <2>3, <1>5, <1>10 DEF Books
<1>15. Limit'
    BY <1>1, <1>2, <1>3, <1>4, <1>7, <1>10 DEF Limit
<1>16. Sums'
    BY <1>4, <1>6, <1>8, <1>9, <1>10 DEF Sums
<1> QED  BY <1>11, <1>12, <1>13, <1>14, <1>15, <1>16

\* num catches up with the value taken.
LEMMA CountTakeKeeps ==
    ASSUME IInv, NEW w \in Workers, CountTake(w)
    PROVE  IInv'
<1> DEFINE from == "count take"
           to == "release take"
<1> USE DEF IInv
<1>1. worker[w] = from /\ worker' = [worker EXCEPT ![w] = to] /\ worker \in [Workers -> Stage]  BY DEF CountTake, Goto, RingTypeOK
<1>2. /\ from \in Stage /\ to \in Stage /\ from \in Inside /\ to \in Inside
      /\ from \notin Adding /\ to \notin Adding /\ from \notin Uncounted /\ to \notin Uncounted /\ from \notin Unbooked /\ to \in Unbooked /\ to # "ended"
    BY DEF Stage, Inside, Outside, Adding, Uncounted, Unbooked
<1>3. /\ worker' \in [Workers -> Stage] /\ worker'[w] = to
      /\ \A v \in Workers : v # w => worker'[v] = worker[v]
    BY <1>1, <1>2
<1>r. ring \in Rings  BY DEF RingTypeOK
<1>t. tally \in Tallies /\ history \in [in : Seq(Nat), out : Seq(Nat)]  BY DEF RingTypeOK
<1>4. /\ ring.num \in Nat /\ tally.produced \in Nat /\ tally.consumed \in Nat
      /\ Entered \in Nat /\ Left \in Nat /\ Left <= Entered /\ Entered - Left <= QueueSize /\ QueueSize \in Nat
    BY <1>r, <1>t, QueueAssumption DEF Rings, Tallies, Entered, Left, Contents
<1> HIDE DEF from, to
<1>5. Holding = {w} /\ Holding' = {w} /\ Holding \subseteq Workers
    <2>1. Holding' = Holding /\ w \in Holding  BY <1>1, <1>2, MoveHolding
    <2> QED  BY <2>1, <1>1, <1>2 DEF Exclusion, Holding, Outside
<1>6. ring.num = Entered - Left + 1  BY <1>1, <1>5 DEF Books, from
<1>7. /\ Cardinality(In(worker, Adding)) \in Nat /\ Cardinality(In(worker', Adding)) \in Nat
      /\ Cardinality(In(worker', Adding)) = Cardinality(In(worker, Adding))
    BY <1>1, <1>2, MoveCounts
<1>8. /\ Cardinality(In(worker, Uncounted)) \in Nat /\ Cardinality(In(worker', Uncounted)) \in Nat
      /\ Cardinality(In(worker', Uncounted)) = Cardinality(In(worker, Uncounted))
    BY <1>1, <1>2, MoveCounts
<1>9. /\ Cardinality(In(worker, Unbooked)) \in Nat /\ Cardinality(In(worker', Unbooked)) \in Nat
      /\ Cardinality(In(worker', Unbooked)) = Cardinality(In(worker, Unbooked)) + 1
    BY <1>1, <1>2, MoveCounts
<1>10. ring' \in Rings /\ ring'.lock = ring.lock /\ ring'.head = ring.head /\ ring'.tail = ring.tail /\ ring'.value = ring.value /\ ring'.num = ring.num - 1 /\ tally' = tally /\ history' = history /\ Entered' = Entered /\ Left' = Left
    <2>1. ring' = [ring EXCEPT !.num = @ - 1] /\ tally' = tally /\ history' = history  BY DEF CountTake
    <2>2. ring' = [ring EXCEPT !.num = @ - 1]  BY <2>1
    <2>3. ring.num - 1 \in Nat  BY <1>6, <1>4
    <2>4. ring' \in Rings  BY <2>2, <2>3, <1>r DEF Rings
    <2>5. ring'.lock = ring.lock /\ ring'.head = ring.head /\ ring'.tail = ring.tail /\ ring'.value = ring.value /\ ring'.num = ring.num - 1  BY <2>1, <1>r, <1>t DEF Rings, Tallies
    <2>6. tally' = tally /\ history' = history  BY <2>1, <1>r, <1>t DEF Rings, Tallies
    <2>7. tally' = tally /\ history' = history  BY <2>1, <1>t DEF Rings, Tallies
    <2>8. Entered' = Entered /\ Left' = Left  BY <2>1 DEF Entered, Left
    <2> QED  BY <2>1, <2>2, <2>3, <2>4, <2>5, <2>6, <2>7, <2>8
<1>11. RingTypeOK'
    BY <1>3, <1>r, <1>t, <1>10 DEF RingTypeOK
<1>12. Exclusion'
    BY <1>5, <1>10, <1>4 DEF Exclusion
<1>13. Contents'
    BY <1>10, SameContents
<1>14. Books'
    <2>1. to = "release take"  BY <1>6, <1>4 DEF to
    <2>2. \A v \in Holding' : v = w /\ worker'[v] = to  BY <1>3, <1>5
    <2>3. ring'.num = Entered' - Left'  BY <1>6, <1>4, <1>10
    <2> QED  BY <2>1, <2>2, <2>3, <1>5, <1>10 DEF Books
<1>15. Limit'
    BY <1>1, <1>2, <1>3, <1>4, <1>7, <1>10 DEF Limit
<1>16. Sums'
    BY <1>4, <1>6, <1>8, <1>9, <1>10 DEF Sums
<1> QED  BY <1>11, <1>12, <1>13, <1>14, <1>15, <1>16

\* The thread's value moves on to the counter.
LEMMA ProducedKeeps ==
    ASSUME IInv, NEW w \in Workers, Produced(w)
    PROVE  IInv'
<1> DEFINE from == "produced"
           to == "dequeue"
<1> USE DEF IInv
<1>1. worker[w] = from /\ worker' = [worker EXCEPT ![w] = to] /\ worker \in [Workers -> Stage]  BY DEF Produced, Goto, RingTypeOK
<1>2. /\ from \in Stage /\ to \in Stage /\ from \in Outside /\ to \in Outside
      /\ from \in Adding /\ to \notin Adding /\ from \in Uncounted /\ to \notin Uncounted /\ from \notin Unbooked /\ to \notin Unbooked /\ to # "ended"
    BY DEF Stage, Inside, Outside, Adding, Uncounted, Unbooked
<1>3. /\ worker' \in [Workers -> Stage] /\ worker'[w] = to
      /\ \A v \in Workers : v # w => worker'[v] = worker[v]
    BY <1>1, <1>2
<1>r. ring \in Rings  BY DEF RingTypeOK
<1>t. tally \in Tallies /\ history \in [in : Seq(Nat), out : Seq(Nat)]  BY DEF RingTypeOK
<1>4. /\ ring.num \in Nat /\ tally.produced \in Nat /\ tally.consumed \in Nat
      /\ Entered \in Nat /\ Left \in Nat /\ Left <= Entered /\ Entered - Left <= QueueSize /\ QueueSize \in Nat
    BY <1>r, <1>t, QueueAssumption DEF Rings, Tallies, Entered, Left, Contents
<1> HIDE DEF from, to
<1>5. Holding' = Holding /\ w \notin Holding /\ Holding \subseteq Workers
    <2>1. Holding' = Holding  BY <1>1, <1>2, MoveHolding
    <2> QED  BY <2>1, <1>1, <1>2 DEF Exclusion, Holding, Outside
<1>7. /\ Cardinality(In(worker, Adding)) \in Nat /\ Cardinality(In(worker', Adding)) \in Nat
      /\ Cardinality(In(worker', Adding)) = Cardinality(In(worker, Adding)) - 1
    BY <1>1, <1>2, MoveCounts
<1>8. /\ Cardinality(In(worker, Uncounted)) \in Nat /\ Cardinality(In(worker', Uncounted)) \in Nat
      /\ Cardinality(In(worker', Uncounted)) = Cardinality(In(worker, Uncounted)) - 1
    BY <1>1, <1>2, MoveCounts
<1>9. /\ Cardinality(In(worker, Unbooked)) \in Nat /\ Cardinality(In(worker', Unbooked)) \in Nat
      /\ Cardinality(In(worker', Unbooked)) = Cardinality(In(worker, Unbooked))
    BY <1>1, <1>2, MoveCounts
<1>10. ring' = ring /\ history' = history /\ tally' \in Tallies /\ tally'.produced = tally.produced + 1 /\ tally'.consumed = tally.consumed /\ Entered' = Entered /\ Left' = Left
    <2>1. ring' = ring /\ history' = history /\ tally' = [tally EXCEPT !.produced = @ + 1]  BY DEF Produced
    <2>2. tally' = [tally EXCEPT !.produced = @ + 1]  BY <2>1
    <2>3. tally.produced + 1 \in Nat  BY <1>4
    <2>4. tally' \in Tallies  BY <2>2, <2>3, <1>t DEF Tallies
    <2>5. tally'.produced = tally.produced + 1 /\ tally'.consumed = tally.consumed  BY <2>1, <1>r, <1>t DEF Rings, Tallies
    <2>6. ring' = ring /\ history' = history  BY <2>1, <1>r, <1>t DEF Rings, Tallies
    <2>7. ring' = ring /\ history' = history  BY <2>1, <1>t DEF Rings, Tallies
    <2>8. Entered' = Entered /\ Left' = Left  BY <2>1 DEF Entered, Left
    <2> QED  BY <2>1, <2>2, <2>3, <2>4, <2>5, <2>6, <2>7, <2>8
<1>11. RingTypeOK'
    BY <1>3, <1>r, <1>t, <1>10 DEF RingTypeOK
<1>12. Exclusion'
    BY <1>5, <1>10, <1>4 DEF Exclusion
<1>13. Contents'
    BY <1>10, SameContents
<1>14. Books'
    BY <1>3, <1>4, <1>5, <1>10 DEF Books
<1>15. Limit'
    <2>1. tally'.produced \in Nat /\ tally'.produced + Cardinality(In(worker', Adding)) <= tally.produced + Cardinality(In(worker, Adding)) /\ tally'.produced >= tally.produced  BY <1>4, <1>7, <1>10
    <2>2. Cardinality(Workers) \in Nat /\ TaskTime \in Nat  BY WorkersAssumption, QueueAssumption, FS_CardinalityType
    <2>3. tally'.produced + Cardinality(In(worker', Adding)) < TaskTime + Cardinality(Workers)  BY <2>1, <2>2, <1>4, <1>7 DEF Limit
    <2>4. \A v \in Workers : worker'[v] = "ended" => tally'.produced >= TaskTime  BY <2>1, <2>2, <1>1, <1>2, <1>3, <1>4 DEF Limit
    <2> QED  BY <2>3, <2>4 DEF Limit
<1>16. Sums'
    BY <1>4, <1>8, <1>9, <1>10 DEF Sums
<1> QED  BY <1>11, <1>12, <1>13, <1>14, <1>15, <1>16

\* The same for a value taken.
LEMMA ConsumedKeeps ==
    ASSUME IInv, NEW w \in Workers, Consumed(w)
    PROVE  IInv'
<1> DEFINE from == "consumed"
           to == "loop"
<1> USE DEF IInv
<1>1. worker[w] = from /\ worker' = [worker EXCEPT ![w] = to] /\ worker \in [Workers -> Stage]  BY DEF Consumed, Goto, RingTypeOK
<1>2. /\ from \in Stage /\ to \in Stage /\ from \in Outside /\ to \in Outside
      /\ from \notin Adding /\ to \notin Adding /\ from \notin Uncounted /\ to \notin Uncounted /\ from \in Unbooked /\ to \notin Unbooked /\ to # "ended"
    BY DEF Stage, Inside, Outside, Adding, Uncounted, Unbooked
<1>3. /\ worker' \in [Workers -> Stage] /\ worker'[w] = to
      /\ \A v \in Workers : v # w => worker'[v] = worker[v]
    BY <1>1, <1>2
<1>r. ring \in Rings  BY DEF RingTypeOK
<1>t. tally \in Tallies /\ history \in [in : Seq(Nat), out : Seq(Nat)]  BY DEF RingTypeOK
<1>4. /\ ring.num \in Nat /\ tally.produced \in Nat /\ tally.consumed \in Nat
      /\ Entered \in Nat /\ Left \in Nat /\ Left <= Entered /\ Entered - Left <= QueueSize /\ QueueSize \in Nat
    BY <1>r, <1>t, QueueAssumption DEF Rings, Tallies, Entered, Left, Contents
<1> HIDE DEF from, to
<1>5. Holding' = Holding /\ w \notin Holding /\ Holding \subseteq Workers
    <2>1. Holding' = Holding  BY <1>1, <1>2, MoveHolding
    <2> QED  BY <2>1, <1>1, <1>2 DEF Exclusion, Holding, Outside
<1>7. /\ Cardinality(In(worker, Adding)) \in Nat /\ Cardinality(In(worker', Adding)) \in Nat
      /\ Cardinality(In(worker', Adding)) = Cardinality(In(worker, Adding))
    BY <1>1, <1>2, MoveCounts
<1>8. /\ Cardinality(In(worker, Uncounted)) \in Nat /\ Cardinality(In(worker', Uncounted)) \in Nat
      /\ Cardinality(In(worker', Uncounted)) = Cardinality(In(worker, Uncounted))
    BY <1>1, <1>2, MoveCounts
<1>9. /\ Cardinality(In(worker, Unbooked)) \in Nat /\ Cardinality(In(worker', Unbooked)) \in Nat
      /\ Cardinality(In(worker', Unbooked)) = Cardinality(In(worker, Unbooked)) - 1
    BY <1>1, <1>2, MoveCounts
<1>10. ring' = ring /\ history' = history /\ tally' \in Tallies /\ tally'.produced = tally.produced /\ tally'.consumed = tally.consumed + 1 /\ Entered' = Entered /\ Left' = Left
    <2>1. ring' = ring /\ history' = history /\ tally' = [tally EXCEPT !.consumed = @ + 1]  BY DEF Consumed
    <2>2. tally' = [tally EXCEPT !.consumed = @ + 1]  BY <2>1
    <2>3. tally.consumed + 1 \in Nat  BY <1>4
    <2>4. tally' \in Tallies  BY <2>2, <2>3, <1>t DEF Tallies
    <2>5. tally'.produced = tally.produced /\ tally'.consumed = tally.consumed + 1  BY <2>1, <1>r, <1>t DEF Rings, Tallies
    <2>6. ring' = ring /\ history' = history  BY <2>1, <1>r, <1>t DEF Rings, Tallies
    <2>7. ring' = ring /\ history' = history  BY <2>1, <1>t DEF Rings, Tallies
    <2>8. Entered' = Entered /\ Left' = Left  BY <2>1 DEF Entered, Left
    <2> QED  BY <2>1, <2>2, <2>3, <2>4, <2>5, <2>6, <2>7, <2>8
<1>11. RingTypeOK'
    BY <1>3, <1>r, <1>t, <1>10 DEF RingTypeOK
<1>12. Exclusion'
    BY <1>5, <1>10, <1>4 DEF Exclusion
<1>13. Contents'
    BY <1>10, SameContents
<1>14. Books'
    BY <1>3, <1>4, <1>5, <1>10 DEF Books
<1>15. Limit'
    BY <1>1, <1>2, <1>3, <1>4, <1>7, <1>10 DEF Limit
<1>16. Sums'
    BY <1>4, <1>8, <1>9, <1>10 DEF Sums
<1> QED  BY <1>11, <1>12, <1>13, <1>14, <1>15, <1>16

\* The lock was free, so the thread is alone inside.
LEMMA LockKeeps ==
    ASSUME IInv, NEW w \in Workers, Lock(w)
    PROVE  IInv'
<1> DEFINE from == worker[w]
           to == IF from = "enqueue" THEN "look for room" ELSE "look for value"
<1> USE DEF IInv
<1>0. from \in {"enqueue", "dequeue"}  BY DEF Lock, Goto
<1>1. worker[w] = from /\ worker' = [worker EXCEPT ![w] = to] /\ worker \in [Workers -> Stage]  BY DEF Lock, Goto, RingTypeOK
<1>2. /\ from \in Stage /\ to \in Stage /\ from \in Outside /\ to \in Inside
      /\ (from \in Adding <=> to \in Adding) /\ (from \in Uncounted <=> to \in Uncounted) /\ (from \in Unbooked <=> to \in Unbooked) /\ to # "ended"
    BY <1>0 DEF Stage, Inside, Outside, Adding, Uncounted, Unbooked
<1>3. /\ worker' \in [Workers -> Stage] /\ worker'[w] = to
      /\ \A v \in Workers : v # w => worker'[v] = worker[v]
    BY <1>1, <1>2
<1>r. ring \in Rings  BY DEF RingTypeOK
<1>t. tally \in Tallies /\ history \in [in : Seq(Nat), out : Seq(Nat)]  BY DEF RingTypeOK
<1>4. /\ ring.num \in Nat /\ tally.produced \in Nat /\ tally.consumed \in Nat
      /\ Entered \in Nat /\ Left \in Nat /\ Left <= Entered /\ Entered - Left <= QueueSize /\ QueueSize \in Nat
    BY <1>r, <1>t, QueueAssumption DEF Rings, Tallies, Entered, Left, Contents
<1> HIDE DEF from, to
<1>5. Holding = {} /\ Holding' = {w} /\ Holding \subseteq Workers
    <2>1. Holding' = Holding \cup {w} /\ w \notin Holding  BY <1>1, <1>2, MoveHolding
    <2> QED  BY <2>1, <1>1, <1>2 DEF Exclusion, Holding, Outside, Lock, Acquire
<1>6. ring.num = Entered - Left  BY <1>0, <1>1, <1>5 DEF Books, from
<1>7. /\ Cardinality(In(worker, Adding)) \in Nat /\ Cardinality(In(worker', Adding)) \in Nat
      /\ Cardinality(In(worker', Adding)) = Cardinality(In(worker, Adding))
    BY ZenonT(40), <1>1, <1>2, MoveCounts
<1>8. /\ Cardinality(In(worker, Uncounted)) \in Nat /\ Cardinality(In(worker', Uncounted)) \in Nat
      /\ Cardinality(In(worker', Uncounted)) = Cardinality(In(worker, Uncounted))
    BY ZenonT(40), <1>1, <1>2, MoveCounts
<1>9. /\ Cardinality(In(worker, Unbooked)) \in Nat /\ Cardinality(In(worker', Unbooked)) \in Nat
      /\ Cardinality(In(worker', Unbooked)) = Cardinality(In(worker, Unbooked))
    BY <1>1, <1>2, MoveCounts
<1>10. ring' \in Rings /\ ring'.lock = 1 /\ ring'.head = ring.head /\ ring'.tail = ring.tail /\ ring'.value = ring.value /\ ring'.num = ring.num /\ tally' = tally /\ history' = history /\ Entered' = Entered /\ Left' = Left
    <2>1. ring.lock = 0 /\ ring' = [ring EXCEPT !.lock = 1] /\ tally' = tally /\ history' = history  BY DEF Lock, Acquire
    <2>2. ring' = [ring EXCEPT !.lock = 1]  BY <2>1
    <2>3. ring' \in Rings  BY <2>2, <1>r DEF Rings
    <2>4. ring'.lock = 1 /\ ring'.head = ring.head /\ ring'.tail = ring.tail /\ ring'.value = ring.value /\ ring'.num = ring.num  BY <2>1, <1>r, <1>t DEF Rings, Tallies
    <2>5. tally' = tally /\ history' = history  BY <2>1, <1>r, <1>t DEF Rings, Tallies
    <2>6. tally' = tally /\ history' = history  BY <2>1, <1>t DEF Rings, Tallies
    <2>7. Entered' = Entered /\ Left' = Left  BY <2>1 DEF Entered, Left
    <2> QED  BY <2>1, <2>2, <2>3, <2>4, <2>5, <2>6, <2>7
<1>11. RingTypeOK'
    BY <1>3, <1>r, <1>t, <1>10 DEF RingTypeOK
<1>12. Exclusion'
    BY <1>5, <1>10, <1>4 DEF Exclusion, Rings
<1>13. Contents'
    BY <1>10, SameContents
<1>14. Books'
    <2>1. to \in {"look for room", "look for value"}  BY <1>0, <1>6, <1>4 DEF to
    <2>2. \A v \in Holding' : v = w /\ worker'[v] = to  BY <1>3, <1>5
    <2>3. ring'.num = Entered' - Left'  BY <1>6, <1>4, <1>10
    <2> QED  BY <2>1, <2>2, <2>3, <1>5, <1>10 DEF Books
<1>15. Limit'
    BY <1>1, <1>2, <1>3, <1>4, <1>7, <1>10 DEF Limit
<1>16. Sums'
    BY <1>4, <1>6, <1>8, <1>9, <1>10 DEF Sums
<1> QED  BY <1>11, <1>12, <1>13, <1>14, <1>15, <1>16

\* The holder has put its books in order before it gives the lock back.
LEMMA ReleaseKeeps ==
    ASSUME IInv, NEW w \in Workers, Release(w)
    PROVE  IInv'
<1> DEFINE from == worker[w]
           to == IF from = "release put" THEN "produced" ELSE IF from = "release take" THEN "consumed" ELSE IF from = "release empty" THEN "loop" ELSE "dequeue"
<1> USE DEF IInv
<1>0. from \in {"release full", "release put", "release empty", "release take"}  BY DEF Release, Goto
<1>1. worker[w] = from /\ worker' = [worker EXCEPT ![w] = to] /\ worker \in [Workers -> Stage]  BY DEF Release, Goto, RingTypeOK
<1>2. /\ from \in Stage /\ to \in Stage /\ from \in Inside /\ to \in Outside
      /\ (from \in Adding <=> to \in Adding) /\ (from \in Uncounted <=> to \in Uncounted) /\ (from \in Unbooked <=> to \in Unbooked) /\ to # "ended"
    BY <1>0 DEF Stage, Inside, Outside, Adding, Uncounted, Unbooked
<1>3. /\ worker' \in [Workers -> Stage] /\ worker'[w] = to
      /\ \A v \in Workers : v # w => worker'[v] = worker[v]
    BY <1>1, <1>2
<1>r. ring \in Rings  BY DEF RingTypeOK
<1>t. tally \in Tallies /\ history \in [in : Seq(Nat), out : Seq(Nat)]  BY DEF RingTypeOK
<1>4. /\ ring.num \in Nat /\ tally.produced \in Nat /\ tally.consumed \in Nat
      /\ Entered \in Nat /\ Left \in Nat /\ Left <= Entered /\ Entered - Left <= QueueSize /\ QueueSize \in Nat
    BY <1>r, <1>t, QueueAssumption DEF Rings, Tallies, Entered, Left, Contents
<1> HIDE DEF from, to
<1>5. Holding = {w} /\ Holding' = {} /\ Holding \subseteq Workers
    <2>1. Holding' = Holding \ {w} /\ w \in Holding  BY <1>1, <1>2, MoveHolding
    <2> QED  BY <2>1, <1>1, <1>2 DEF Exclusion, Holding, Outside
<1>6. ring.num = Entered - Left  BY <1>0, <1>1, <1>5 DEF Books, from
<1>7. /\ Cardinality(In(worker, Adding)) \in Nat /\ Cardinality(In(worker', Adding)) \in Nat
      /\ Cardinality(In(worker', Adding)) = Cardinality(In(worker, Adding))
    BY <1>1, <1>2, MoveCounts
<1>8. /\ Cardinality(In(worker, Uncounted)) \in Nat /\ Cardinality(In(worker', Uncounted)) \in Nat
      /\ Cardinality(In(worker', Uncounted)) = Cardinality(In(worker, Uncounted))
    BY <1>1, <1>2, MoveCounts
<1>9. /\ Cardinality(In(worker, Unbooked)) \in Nat /\ Cardinality(In(worker', Unbooked)) \in Nat
      /\ Cardinality(In(worker', Unbooked)) = Cardinality(In(worker, Unbooked))
    BY <1>1, <1>2, MoveCounts
<1>10. ring' \in Rings /\ ring'.lock = 0 /\ ring'.head = ring.head /\ ring'.tail = ring.tail /\ ring'.value = ring.value /\ ring'.num = ring.num /\ tally' = tally /\ history' = history /\ Entered' = Entered /\ Left' = Left
    <2>1. ring' = [ring EXCEPT !.lock = 0] /\ tally' = tally /\ history' = history  BY DEF Release
    <2>2. ring' = [ring EXCEPT !.lock = 0]  BY <2>1
    <2>3. ring' \in Rings  BY <2>2, <1>r DEF Rings
    <2>4. ring'.lock = 0 /\ ring'.head = ring.head /\ ring'.tail = ring.tail /\ ring'.value = ring.value /\ ring'.num = ring.num  BY <2>1, <1>r, <1>t DEF Rings, Tallies
    <2>5. tally' = tally /\ history' = history  BY <2>1, <1>r, <1>t DEF Rings, Tallies
    <2>6. tally' = tally /\ history' = history  BY <2>1, <1>t DEF Rings, Tallies
    <2>7. Entered' = Entered /\ Left' = Left  BY <2>1 DEF Entered, Left
    <2> QED  BY <2>1, <2>2, <2>3, <2>4, <2>5, <2>6, <2>7
<1>11. RingTypeOK'
    BY <1>3, <1>r, <1>t, <1>10 DEF RingTypeOK
<1>12. Exclusion'
    BY <1>5, <1>10, <1>4 DEF Exclusion, Rings
<1>13. Contents'
    BY <1>10, SameContents
<1>14. Books'
    BY <1>6, <1>4, <1>5, <1>10 DEF Books
<1>15. Limit'
    BY <1>1, <1>2, <1>3, <1>4, <1>7, <1>10 DEF Limit
<1>16. Sums'
    BY <1>4, <1>6, <1>8, <1>9, <1>10 DEF Sums
<1> QED  BY <1>11, <1>12, <1>13, <1>14, <1>15, <1>16

\* The place at head is free, so no value that is still to leave is written over.
LEMMA PutKeeps ==
    ASSUME IInv, NEW w \in Workers, Put(w)
    PROVE  IInv'
<1> DEFINE from == "put"
           to == "count put"
<1> USE DEF IInv
<1>1. worker[w] = from /\ worker' = [worker EXCEPT ![w] = to] /\ worker \in [Workers -> Stage]  BY DEF Put, Goto, RingTypeOK
<1>2. /\ from \in Stage /\ to \in Stage /\ from \in Inside /\ to \in Inside
      /\ from \in Adding /\ to \in Adding /\ from \notin Uncounted /\ to \notin Uncounted /\ from \notin Unbooked /\ to \notin Unbooked /\ to # "ended"
    BY DEF Stage, Inside, Outside, Adding, Uncounted, Unbooked
<1>3. /\ worker' \in [Workers -> Stage] /\ worker'[w] = to
      /\ \A v \in Workers : v # w => worker'[v] = worker[v]
    BY <1>1, <1>2
<1>r. ring \in Rings  BY DEF RingTypeOK
<1>t. tally \in Tallies /\ history \in [in : Seq(Nat), out : Seq(Nat)]  BY DEF RingTypeOK
<1>4. /\ ring.num \in Nat /\ tally.produced \in Nat /\ tally.consumed \in Nat
      /\ Entered \in Nat /\ Left \in Nat /\ Left <= Entered /\ Entered - Left <= QueueSize /\ QueueSize \in Nat
    BY <1>r, <1>t, QueueAssumption DEF Rings, Tallies, Entered, Left, Contents
<1> HIDE DEF from, to
<1>5. Holding = {w} /\ Holding' = {w} /\ Holding \subseteq Workers
    <2>1. Holding' = Holding /\ w \in Holding  BY <1>1, <1>2, MoveHolding
    <2> QED  BY <2>1, <1>1, <1>2 DEF Exclusion, Holding, Outside
<1>6. ring.num = Entered - Left /\ ring.num < QueueSize  BY <1>1, <1>5 DEF Books, from
<1>7. /\ Cardinality(In(worker, Adding)) \in Nat /\ Cardinality(In(worker', Adding)) \in Nat
      /\ Cardinality(In(worker', Adding)) = Cardinality(In(worker, Adding))
    BY <1>1, <1>2, MoveCounts
<1>8. /\ Cardinality(In(worker, Uncounted)) \in Nat /\ Cardinality(In(worker', Uncounted)) \in Nat
      /\ Cardinality(In(worker', Uncounted)) = Cardinality(In(worker, Uncounted))
    BY <1>1, <1>2, MoveCounts
<1>9. /\ Cardinality(In(worker, Unbooked)) \in Nat /\ Cardinality(In(worker', Unbooked)) \in Nat
      /\ Cardinality(In(worker', Unbooked)) = Cardinality(In(worker, Unbooked))
    BY <1>1, <1>2, MoveCounts
<1>10. /\ ring' = [ring EXCEPT !.value[ring.head] = Entered + 1, !.head = (@ + 1) % QueueSize]
       /\ history' = [history EXCEPT !.in = Append(@, Entered + 1)] /\ tally' = tally
    BY DEF Put, Entered
<1>11. ring.head \in 0 .. QueueSize - 1 /\ (ring.head + 1) % QueueSize \in 0 .. QueueSize - 1
    <2>1. ring.head \in 0 .. QueueSize - 1  BY <1>r DEF Rings
    <2>2. QueueSize > 0 /\ ring.head + 1 \in Nat  BY <2>1, <1>4, <1>6
    <2> QED  BY <2>1, <2>2, <1>4, Division
<1>12. /\ ring'.lock = ring.lock /\ ring'.num = ring.num /\ ring'.tail = ring.tail /\ ring'.head = (ring.head + 1) % QueueSize
       /\ ring'.value = [ring.value EXCEPT ![ring.head] = Entered + 1]
    BY <1>10, <1>r DEF Rings
<1>13. history'.in = Append(history.in, Entered + 1) /\ history'.out = history.out  BY <1>10, <1>t
<1>14. /\ Entered' = Entered + 1 /\ Left' = Left
       /\ \A i \in 1 .. Entered : history'.in[i] = history.in[i]
       /\ history'.in[Entered + 1] = Entered + 1
    BY <1>13, <1>t DEF Entered, Left
<1>15. RingTypeOK'
    <2>1. ring.value \in [0 .. QueueSize - 1 -> Nat] /\ ring'.value \in [0 .. QueueSize - 1 -> Nat]  BY <1>r, <1>4, <1>12 DEF Rings
    <2>2. ring' \in Rings
        <3> DEFINE value == [ring.value EXCEPT ![ring.head] = Entered + 1]
                   head == (ring.head + 1) % QueueSize
        <3>1. ring' = [[ring EXCEPT !.value = value] EXCEPT !.head = head]  BY <1>10, <1>r DEF Rings
        <3>2. value \in [0 .. QueueSize - 1 -> Nat] /\ head \in 0 .. QueueSize - 1  BY <2>1, <1>11, <1>12
        <3> HIDE DEF value, head
        <3> QED  BY <3>1, <3>2, <1>r DEF Rings
    <2>3. history' \in [in : Seq(Nat), out : Seq(Nat)]
        <3> DEFINE new == Append(history.in, Entered + 1)
        <3>1. new \in Seq(Nat)  BY <1>t, <1>4
        <3>2. history' = [history EXCEPT !.in = new]  BY <1>10, <1>t
        <3> HIDE DEF new
        <3> QED  BY <3>1, <3>2, <1>t
    <2> QED  BY <2>2, <2>3, <1>3, <1>t, <1>10 DEF RingTypeOK
<1>16. Exclusion'
    BY <1>5, <1>12 DEF Exclusion
<1>17. Contents'
    <2>1. ring'.head = (Entered + 1) % QueueSize  
        <3>1. ring.head = Entered % QueueSize  BY DEF Contents
        <3> QED  BY <3>1, <1>12, <1>4, <1>6, RemainderOfSum
    <2>2. ASSUME NEW k \in Left .. Entered PROVE ring'.value[k % QueueSize] = k + 1
        <3>1. ring.value \in [0 .. QueueSize - 1 -> Nat] /\ ring.head = Entered % QueueSize  BY <1>r DEF Rings, Contents
        <3>2. k \in Nat /\ QueueSize > 0  BY <1>4, <1>6
        <3>3. k % QueueSize \in 0 .. QueueSize - 1  BY <3>2, <1>4, Division
        <3>4. CASE k = Entered  BY <3>1, <3>3, <3>4, <1>12
        <3>5. CASE k # Entered
            <4>1. k < Entered /\ Entered < k + QueueSize  BY <3>5, <1>4, <1>6
            <4>2. k % QueueSize # Entered % QueueSize  BY <4>1, <3>2, <1>4, PlacesDiffer
            <4>3. ring.value[k % QueueSize] = k + 1  BY <4>1, <3>2, <1>4 DEF Contents
            <4> QED  BY <4>2, <4>3, <3>1, <3>3, <1>12
        <3> QED  BY <3>4, <3>5
    <2>3. \A i \in 1 .. Entered' : history'.in[i] = i  BY <1>4, <1>14 DEF Contents
    <2>4. \A i \in 1 .. Left' : history'.out[i] = i  BY <1>13, <1>14 DEF Contents
    <2>5. \A k \in Left' .. Entered' - 1 : ring'.value[k % QueueSize] = k + 1  BY <2>2, <1>4, <1>14
    <2>6. Left' <= Entered' /\ Entered' - Left' <= QueueSize  BY <1>4, <1>6, <1>14
    <2>7. ring'.head = Entered' % QueueSize /\ ring'.tail = Left' % QueueSize  BY <2>1, <1>12, <1>14 DEF Contents
    <2> QED  BY <2>3, <2>4, <2>5, <2>6, <2>7 DEF Contents
<1>18. Books'
    <2>1. ring'.num + 1 = Entered' - Left'  BY <1>4, <1>6, <1>12, <1>14
    <2>2. \A v \in Holding' : v = w /\ worker'[v] = to  BY <1>3, <1>5
    <2> QED  BY <2>1, <2>2, <1>5 DEF Books, to
<1>19. Limit'
    BY <1>1, <1>2, <1>3, <1>4, <1>7, <1>10 DEF Limit
<1>20. Sums'
    BY <1>4, <1>8, <1>9, <1>10, <1>12 DEF Sums
<1> QED  BY <1>15, <1>16, <1>17, <1>18, <1>19, <1>20

\* What leaves is the value at tail, the oldest in the ring.
LEMMA TakeValueKeeps ==
    ASSUME IInv, NEW w \in Workers, TakeValue(w)
    PROVE  IInv'
<1> DEFINE from == "take"
           to == "count take"
<1> USE DEF IInv
<1>1. worker[w] = from /\ worker' = [worker EXCEPT ![w] = to] /\ worker \in [Workers -> Stage]  BY DEF TakeValue, Goto, RingTypeOK
<1>2. /\ from \in Stage /\ to \in Stage /\ from \in Inside /\ to \in Inside
      /\ from \notin Adding /\ to \notin Adding /\ from \notin Uncounted /\ to \notin Uncounted /\ from \notin Unbooked /\ to \notin Unbooked /\ to # "ended"
    BY DEF Stage, Inside, Outside, Adding, Uncounted, Unbooked
<1>3. /\ worker' \in [Workers -> Stage] /\ worker'[w] = to
      /\ \A v \in Workers : v # w => worker'[v] = worker[v]
    BY <1>1, <1>2
<1>r. ring \in Rings  BY DEF RingTypeOK
<1>t. tally \in Tallies /\ history \in [in : Seq(Nat), out : Seq(Nat)]  BY DEF RingTypeOK
<1>4. /\ ring.num \in Nat /\ tally.produced \in Nat /\ tally.consumed \in Nat
      /\ Entered \in Nat /\ Left \in Nat /\ Left <= Entered /\ Entered - Left <= QueueSize /\ QueueSize \in Nat
    BY <1>r, <1>t, QueueAssumption DEF Rings, Tallies, Entered, Left, Contents
<1> HIDE DEF from, to
<1>5. Holding = {w} /\ Holding' = {w} /\ Holding \subseteq Workers
    <2>1. Holding' = Holding /\ w \in Holding  BY <1>1, <1>2, MoveHolding
    <2> QED  BY <2>1, <1>1, <1>2 DEF Exclusion, Holding, Outside
<1>6. ring.num = Entered - Left /\ ring.num > 0  BY <1>1, <1>5 DEF Books, from
<1>7. /\ Cardinality(In(worker, Adding)) \in Nat /\ Cardinality(In(worker', Adding)) \in Nat
      /\ Cardinality(In(worker', Adding)) = Cardinality(In(worker, Adding))
    BY <1>1, <1>2, MoveCounts
<1>8. /\ Cardinality(In(worker, Uncounted)) \in Nat /\ Cardinality(In(worker', Uncounted)) \in Nat
      /\ Cardinality(In(worker', Uncounted)) = Cardinality(In(worker, Uncounted))
    BY <1>1, <1>2, MoveCounts
<1>9. /\ Cardinality(In(worker, Unbooked)) \in Nat /\ Cardinality(In(worker', Unbooked)) \in Nat
      /\ Cardinality(In(worker', Unbooked)) = Cardinality(In(worker, Unbooked))
    BY <1>1, <1>2, MoveCounts
<1>10. /\ ring' = [ring EXCEPT !.tail = (@ + 1) % QueueSize]
       /\ history' = [history EXCEPT !.out = Append(@, ring.value[ring.tail])] /\ tally' = tally
    BY DEF TakeValue
<1>11. Left < Entered /\ QueueSize > 0 /\ ring.tail = Left % QueueSize /\ ring.value[ring.tail] = Left + 1  BY <1>4, <1>6 DEF Contents
<1>12. ring'.lock = ring.lock /\ ring'.num = ring.num /\ ring'.head = ring.head /\ ring'.tail = (ring.tail + 1) % QueueSize /\ ring'.value = ring.value
    BY <1>10, <1>r DEF Rings
<1>13. history'.out = Append(history.out, Left + 1) /\ history'.in = history.in  BY <1>10, <1>11, <1>t
<1>14. /\ Entered' = Entered /\ Left' = Left + 1
       /\ \A i \in 1 .. Left : history'.out[i] = history.out[i]
       /\ history'.out[Left + 1] = Left + 1
    BY <1>13, <1>t DEF Entered, Left
<1>15. RingTypeOK'
    <2>1. ring.tail + 1 \in Nat /\ (ring.tail + 1) % QueueSize \in 0 .. QueueSize - 1
        <3>1. ring.tail \in 0 .. QueueSize - 1  BY <1>r DEF Rings
        <3>2. ring.tail + 1 \in Nat  BY <3>1, <1>4
        <3> QED  BY <3>2, <1>4, <1>11, Division
    <2>2. ring' \in Rings
        <3> DEFINE tail == (ring.tail + 1) % QueueSize
        <3>1. ring' = [ring EXCEPT !.tail = tail]  BY <1>10
        <3>2. tail \in 0 .. QueueSize - 1  BY <2>1
        <3> HIDE DEF tail
        <3> QED  BY <3>1, <3>2, <1>r DEF Rings
    <2>3. history' \in [in : Seq(Nat), out : Seq(Nat)]
        <3> DEFINE new == Append(history.out, Left + 1)
        <3>1. new \in Seq(Nat)  BY <1>t, <1>4
        <3>2. history' = [history EXCEPT !.out = new]  BY <1>10, <1>11, <1>t
        <3> HIDE DEF new
        <3> QED  BY <3>1, <3>2, <1>t
    <2> QED  BY <2>2, <2>3, <1>3, <1>t, <1>10 DEF RingTypeOK
<1>16. Exclusion'
    BY <1>5, <1>12 DEF Exclusion
<1>17. Contents'
    <2>1. ring'.tail = (Left + 1) % QueueSize
        <3>1. ((Left % QueueSize) + 1) % QueueSize = (Left + 1) % QueueSize  BY ZenonT(40), <1>4, <1>11, RemainderOfSum
        <3> QED  BY <3>1, <1>11, <1>12
    <2>2. \A i \in 1 .. Entered' : history'.in[i] = i  BY <1>13, <1>14 DEF Contents
    <2>3. \A i \in 1 .. Left' : history'.out[i] = i  BY <1>4, <1>14 DEF Contents
    <2>4. ASSUME NEW k \in Left' .. Entered' - 1 PROVE ring'.value[k % QueueSize] = k + 1
        <3>1. k \in Left .. Entered - 1  BY <1>4, <1>14
        <3> QED  BY <3>1, <1>12 DEF Contents
    <2>5. Left' <= Entered' /\ Entered' - Left' <= QueueSize  BY <1>4, <1>11, <1>14
    <2>6. ring'.head = Entered' % QueueSize /\ ring'.tail = Left' % QueueSize  BY <2>1, <1>12, <1>14 DEF Contents
    <2> QED  BY <2>2, <2>3, <2>4, <2>5, <2>6 DEF Contents
<1>18. Books'
    <2>1. ring'.num = Entered' - Left' + 1  BY <1>4, <1>6, <1>12, <1>14
    <2>2. \A v \in Holding' : v = w /\ worker'[v] = to  BY <1>3, <1>5
    <2> QED  BY <2>1, <2>2, <1>5 DEF Books, to
<1>19. Limit'
    BY <1>1, <1>2, <1>3, <1>4, <1>7, <1>10 DEF Limit
<1>20. Sums'
    BY <1>4, <1>8, <1>9, <1>10, <1>12 DEF Sums
<1> QED  BY <1>15, <1>16, <1>17, <1>18, <1>19, <1>20

----------------------------------------------------------------------------
(* The theorem                                                             *)

\* Every part of the invariant holds of the empty ring.
LEMMA StartIsSound == RingInit => IInv
<1> SUFFICES ASSUME RingInit PROVE IInv  OBVIOUS
<1>1. worker = [v \in Workers |-> "loop"] /\ history = [in |-> <<>>, out |-> <<>>] /\ tally = [produced |-> 0, consumed |-> 0]
      /\ ring = [lock |-> 0, num |-> 0, head |-> 0, tail |-> 0, value |-> [i \in 0 .. QueueSize - 1 |-> 0]]
    BY DEF RingInit
<1>2. Holding = {} /\ \A stages : "loop" \notin stages => In(worker, stages) = {}  BY <1>1 DEF Holding, In
<1>3. In(worker, Adding) = {} /\ In(worker, Uncounted) = {} /\ In(worker, Unbooked) = {}  BY <1>2 DEF Adding, Uncounted, Unbooked
<1>4. Entered = 0 /\ Left = 0  BY <1>1 DEF Entered, Left
<1>5. Cardinality(Workers) \in Nat \ {0}  BY WorkersAssumption, FS_CardinalityType, FS_EmptySet
<1>6. RingTypeOK
    <2>1. ring \in Rings  BY <1>1, QueueAssumption DEF Rings
    <2>2. worker \in [Workers -> Stage]  BY <1>1 DEF Stage, Outside
    <2> QED  BY <2>1, <2>2, <1>1 DEF RingTypeOK, Tallies
<1>7. Exclusion  BY <1>1, <1>2 DEF Exclusion
<1>8. Contents
    <2>1. 0 % QueueSize = 0  BY QueueAssumption
    <2> QED  BY <2>1, <1>1, <1>4, QueueAssumption DEF Contents
<1>9. Books  BY <1>1, <1>2, <1>4 DEF Books
<1>10. Cardinality({}) = 0  BY FS_EmptySet
<1>11. Cardinality(In(worker, Adding)) = 0 /\ Cardinality(In(worker, Uncounted)) = 0 /\ Cardinality(In(worker, Unbooked)) = 0
    BY <1>3, <1>10
<1>12. tally.produced = 0 /\ tally.consumed = 0 /\ ring.num = 0 /\ \A v \in Workers : worker[v] # "ended"  BY <1>1
<1>13. Limit  BY <1>5, <1>11, <1>12, QueueAssumption DEF Limit
<1>14. Sums  BY <1>11, <1>12 DEF Sums
<1> QED  BY <1>6, <1>7, <1>8, <1>9, <1>13, <1>14 DEF IInv

\* No step of a thread breaks it.
LEMMA StepsAreSound == IInv /\ [RingNext]_ringVars => IInv'
<1> SUFFICES ASSUME IInv, [RingNext]_ringVars PROVE IInv'  OBVIOUS
<1>1. CASE UNCHANGED ringVars
    BY <1>1 DEF ringVars, IInv, RingTypeOK, Exclusion, Contents, Books, Limit, Sums, Entered, Left, Holding
<1>2. ASSUME NEW w \in Workers, Work(w) PROVE IInv'
    BY <1>2, LoopKeeps, LockKeeps, LookForRoomKeeps, PutKeeps, CountPutKeeps, LookForValueKeeps, TakeValueKeeps, CountTakeKeeps, ReleaseKeeps,
       ProducedKeeps, ConsumedKeeps DEF Work
<1> QED  BY <1>1, <1>2 DEF RingNext

\* QueueSound speaks of the moments at which nobody holds the lock.
LEMMA SoundFollows == IInv => QueueSound
<1> SUFFICES ASSUME IInv PROVE QueueSound  OBVIOUS
<1> USE DEF IInv
<1>1. /\ history.in \in Seq(Nat) /\ history.out \in Seq(Nat) /\ Entered \in Nat /\ Left \in Nat /\ Left <= Entered /\ Entered - Left <= QueueSize
      /\ QueueSize \in Nat \ {0} /\ ring.num \in Nat /\ tally.produced \in Nat /\ tally.consumed \in Nat /\ ring.lock \in {0, 1}
    BY QueueAssumption DEF RingTypeOK, Rings, Tallies, Contents, Entered, Left
<1>2. \A v, w \in Holding : v = w  BY DEF Exclusion
<1>3. history.out = SubSeq(history.in, 1, Left)
    <2>1. \A i \in 1 .. Left : history.out[i] = history.in[i]  BY <1>1 DEF Contents
    <2> QED  BY <2>1, <1>1 DEF Left, Entered
<1>4. ASSUME ring.lock = 0
      PROVE  /\ Holding = {} /\ ring.num = Len(InQueue) /\ ring.num <= QueueSize
             /\ \A i \in 1 .. ring.num : ring.value[(ring.tail + i - 1) % QueueSize] = InQueue[i]
    <2>1. Holding = {} /\ ring.num = Entered - Left  BY <1>4 DEF Exclusion, Books
    <2>2. Len(InQueue) = Entered - Left /\ \A i \in 1 .. Entered - Left : InQueue[i] = history.in[Left + i]
        <3>1. Left + 1 \in Int /\ Entered \in Int /\ \A i \in Left + 1 .. Entered : history.in[i] \in Nat  BY <1>1 DEF Entered
        <3>2. /\ Len(SubSeq(history.in, Left + 1, Entered)) = IF Left + 1 <= Entered THEN Entered - (Left + 1) + 1 ELSE 0
              /\ \A i \in 1 .. Entered - (Left + 1) + 1 : SubSeq(history.in, Left + 1, Entered)[i] = history.in[Left + 1 + i - 1]
            BY <3>1, SubSeqProperties
        <3>3. InQueue = SubSeq(history.in, Left + 1, Entered)  BY DEF InQueue, Entered, Left
        <3> HIDE DEF InQueue
        <3>4. Entered - (Left + 1) + 1 = Entered - Left  BY <1>1
        <3>5. ASSUME NEW i \in 1 .. Entered - Left PROVE InQueue[i] = history.in[Left + i]
            <4>1. Left + 1 + i - 1 = Left + i  BY <1>1
            <4> QED  BY <4>1, <3>2, <3>3, <3>4
        <3>6. Len(InQueue) = Entered - Left  BY <3>2, <3>3, <1>1
        <3> QED  BY <3>5, <3>6
    <2>3. ASSUME NEW i \in 1 .. ring.num PROVE ring.value[(ring.tail + i - 1) % QueueSize] = InQueue[i]
        <3>1. Left + (i - 1) \in Left .. Entered - 1 /\ i - 1 \in Nat /\ Left + i \in 1 .. Entered  BY <2>1, <1>1
        <3>2. ring.tail = Left % QueueSize /\ Left % QueueSize \in Nat  BY <1>1, Division DEF Contents
        <3>3. ring.tail + i - 1 = (Left % QueueSize) + (i - 1)  BY <3>1, <3>2
        <3>8. QueueSize \in Nat /\ QueueSize > 0  BY <1>1
        <3>7. ((Left % QueueSize) + (i - 1)) % QueueSize = (Left + (i - 1)) % QueueSize  BY ZenonT(40), <3>1, <3>8, <1>1, RemainderOfSum
        <3>4. (ring.tail + i - 1) % QueueSize = (Left + (i - 1)) % QueueSize  BY <3>3, <3>7
        <3>5. ring.value[(Left + (i - 1)) % QueueSize] = Left + (i - 1) + 1  BY <3>1 DEF Contents
        <3>6. InQueue[i] = Left + i  BY <2>1, <2>2, <3>1 DEF Contents
        <3> QED  BY <3>4, <3>5, <3>6, <1>1
    <2> QED  BY <2>1, <2>2, <2>3, <1>1
<1>5. Cardinality(Workers) \in Nat /\ Cardinality(In(worker, Adding)) \in Nat /\ TaskTime \in Nat
    <2>1. IsFiniteSet(In(worker, Adding))  BY WorkersAssumption, FS_Subset DEF In
    <2> QED  BY <2>1, WorkersAssumption, QueueAssumption, FS_CardinalityType
<1>6. tally.produced < TaskTime + Cardinality(Workers)  BY <1>1, <1>5 DEF Limit
<1>7. ASSUME AllEnded
      PROVE  tally.produced >= TaskTime /\ tally.produced = tally.consumed + ring.num
    <2>1. tally.produced >= TaskTime  BY <1>7, WorkersAssumption DEF AllEnded, Limit
    <2>2. In(worker, Uncounted) = {} /\ In(worker, Unbooked) = {}  BY <1>7 DEF AllEnded, In, Uncounted, Unbooked
    <2> QED  BY <2>1, <2>2, <1>1, FS_EmptySet DEF Sums
<1> QED  BY <1>2, <1>3, <1>4, <1>6, <1>7 DEF QueueSound, Left

\* However the threads' accesses interleave: one holder of the lock at a time,
\* values leave in the order they entered, none is lost or repeated, and the
\* counters agree in the end.
THEOREM QueueIsSound == RingSpec => []QueueSound
<1>1. RingSpec => []IInv  BY StartIsSound, StepsAreSound, PTL DEF RingSpec
<1> QED  BY <1>1, SoundFollows, PTL
==============================================================================
