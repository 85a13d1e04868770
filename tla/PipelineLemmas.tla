---------------------------- MODULE PipelineLemmas ----------------------------
(***************************************************************************)
(* A description and its candidates on their way: from a connection, over  *)
(* the wire up, over the wire down, to the connection at the other end.    *)
(* Three FIFO queues in a row, on which other messages travel too, and     *)
(* whether the description has arrived.  The description is in one place   *)
(* at most, and no candidate is ahead of it.                               *)
(***************************************************************************)
EXTENDS SequenceLemmas, FiniteSetTheorems

(* An element of S is on the queue; at most one is; every element of T is  *)
(* behind one of S.                                                        *)
Has(q, S) == \E i \in DOMAIN q : q[i] \in S
Once(q, S) == \A i, j \in DOMAIN q : q[i] \in S /\ q[j] \in S => i = j
Led(q, S, T) == \A i \in DOMAIN q : q[i] \in T => \E j \in DOMAIN q : j < i /\ q[j] \in S

LEMMA OnEmpty ==
  ASSUME NEW S, NEW T
  PROVE  ~Has(<<>>, S) /\ Once(<<>>, S) /\ Led(<<>>, S, T)
  BY DEF Has, Once, Led

LEMMA HasElement ==
  ASSUME NEW M, NEW q \in Seq(M), NEW S
  PROVE  Has(q, S) <=> ToSet(q) \cap S # {}
  BY DEF Has, ToSet

LEMMA OnAppend ==
  ASSUME NEW M, NEW q \in Seq(M), NEW m \in M, NEW S, NEW T
  PROVE  /\ Has(Append(q, m), S) <=> Has(q, S) \/ m \in S
         /\ Once(q, S) /\ (m \in S => ~Has(q, S)) => Once(Append(q, m), S)
         /\ Led(q, S, T) /\ (m \in T => Has(q, S)) => Led(Append(q, m), S, T)
  <1>. DEFINE r == Append(q, m)
              n == Len(q) + 1
  <1>1. /\ Len(q) \in Nat /\ DOMAIN q = 1 .. Len(q) /\ DOMAIN r = 1 .. n
        /\ \A i \in 1 .. Len(q) : r[i] = q[i]
        /\ r[n] = m
    BY AppendProperties, LenProperties
  <1>. HIDE DEF r
  <1>2. /\ DOMAIN r = DOMAIN q \cup {n}
        /\ \A i \in DOMAIN q : r[i] = q[i] /\ i \in Nat /\ i < n
        /\ n \notin DOMAIN q
    BY <1>1
  <1>. HIDE DEF n
  <1>3. Has(r, S) <=> Has(q, S) \/ m \in S
    BY <1>1, <1>2 DEF Has
  <1>4. Once(q, S) /\ (m \in S => ~Has(q, S)) => Once(r, S)
    BY <1>1, <1>2 DEF Has, Once
  <1>5. ASSUME Led(q, S, T), m \in T => Has(q, S), NEW i \in DOMAIN r, r[i] \in T
        PROVE  \E j \in DOMAIN r : j < i /\ r[j] \in S
    <2>1. CASE i \in DOMAIN q
      BY <1>2, <1>5, <2>1 DEF Led
    <2>2. CASE i = n
      <3>1. PICK j \in DOMAIN q : q[j] \in S
        BY <1>1, <1>5, <2>2 DEF Has
      <3>. QED
        BY <1>2, <2>2, <3>1
    <2>. QED
      BY <1>2, <2>1, <2>2
  <1>. QED
    BY <1>3, <1>4, <1>5 DEF r, Led

LEMMA OnTail ==
  ASSUME NEW M, NEW q \in Seq(M), q # <<>>, NEW S, NEW T
  PROVE  /\ Head(q) \in S => Has(q, S)
         /\ Has(Tail(q), S) => Has(q, S)
         /\ Head(q) \notin S => (Has(Tail(q), S) <=> Has(q, S))
         /\ Once(q, S) => Once(Tail(q), S)
         /\ Once(q, S) /\ Head(q) \in S => ~Has(Tail(q), S)
         /\ Led(q, S, T) => Head(q) \notin T
         /\ Led(q, S, T) /\ Head(q) \notin S => Led(Tail(q), S, T)
  <1>. DEFINE r == Tail(q)
  <1>1. /\ Len(q) \in Nat \ {0} /\ DOMAIN q = 1 .. Len(q) /\ DOMAIN r = 1 .. Len(q) - 1
        /\ \A i \in 1 .. Len(q) - 1 : r[i] = q[i + 1]
        /\ Head(q) = q[1]
    BY HeadTailProperties, LenProperties, EmptySeq
  <1>. HIDE DEF r
  <1>2. /\ 1 \in DOMAIN q
        /\ \A i \in DOMAIN q : i = 1 \/ (i - 1 \in DOMAIN r /\ r[i - 1] = q[i])
        /\ \A i \in DOMAIN r : i \in Nat /\ i + 1 \in DOMAIN q /\ i + 1 # 1 /\ r[i] = q[i + 1]
        /\ \A i \in DOMAIN q : i \in Nat /\ 1 <= i
    BY <1>1
  <1>3. Head(q) \in S => Has(q, S)
    BY <1>1, <1>2 DEF Has
  <1>4. Has(r, S) => Has(q, S)
    BY <1>2 DEF Has
  <1>5. Head(q) \notin S /\ Has(q, S) => Has(r, S)
    BY <1>1, <1>2 DEF Has
  <1>6. Once(q, S) => Once(r, S)
    <2>1. \A i, j \in DOMAIN r : i + 1 = j + 1 => i = j
      BY <1>2
    <2>. QED
      BY <1>2, <2>1 DEF Once
  <1>7. Once(q, S) /\ Head(q) \in S => ~Has(r, S)
    BY <1>1, <1>2 DEF Once, Has
  <1>8. Led(q, S, T) => Head(q) \notin T
    BY <1>1, <1>2 DEF Led
  <1>9. ASSUME Led(q, S, T), Head(q) \notin S, NEW i \in DOMAIN r, r[i] \in T
        PROVE  \E j \in DOMAIN r : j < i /\ r[j] \in S
    <2>1. PICK j \in DOMAIN q : j < i + 1 /\ q[j] \in S
      BY <1>2, <1>9 DEF Led
    <2>2. j - 1 \in DOMAIN r /\ r[j - 1] = q[j]
      BY <1>1, <1>2, <1>9, <2>1
    <2>3. j - 1 < i
      BY <1>2, <1>9, <2>1
    <2>. QED
      BY <2>1, <2>2, <2>3
  <1>. QED
    BY <1>3, <1>4, <1>5, <1>6, <1>7, <1>8, <1>9 DEF r, Led
-----------------------------------------------------------------------------
(* The invariants of the three queues q1, q2, q3: the description is one   *)
(* of S, on the wire down one of R; its candidates are those of T, then U. *)
OneCopy(q1, q2, q3, done, S, R) ==
  /\ Once(q1, S) /\ Once(q2, S) /\ Once(q3, R)
  /\ Has(q1, S) => ~Has(q2, S)
  /\ Has(q1, S) \/ Has(q2, S) => ~Has(q3, R)
  /\ Has(q1, S) \/ Has(q2, S) \/ Has(q3, R) => ~done

InOrder(q1, q2, q3, done, S, T, R, U) ==
  /\ done \/ Led(q3, R, U)
  /\ done \/ Has(q3, R) \/ Led(q2, S, T)
  /\ done \/ Has(q3, R) \/ Has(q2, S) \/ Led(q1, S, T)

(* A queue changes in what is not in X, or not at all.                     *)
Keeps(M, q, r, X) ==
  \/ r = q
  \/ q # <<>> /\ Head(q) \notin X /\ r = Tail(q)
  \/ \E m \in M \ X : r = Append(q, m)

LEMMA Kept ==
  ASSUME NEW M, NEW q \in Seq(M), NEW r, NEW S, NEW T, Keeps(M, q, r, S \cup T)
  PROVE  /\ Has(r, S) <=> Has(q, S)
         /\ Once(q, S) => Once(r, S)
         /\ Led(q, S, T) => Led(r, S, T)
  <1>1. CASE r = q
    BY <1>1
  <1>2. CASE q # <<>> /\ Head(q) \notin S \cup T /\ r = Tail(q)
    BY <1>2, OnTail
  <1>3. ASSUME NEW m \in M, m \notin S \cup T, r = Append(q, m)
        PROVE  /\ Has(r, S) <=> Has(q, S)
               /\ Once(q, S) => Once(r, S)
               /\ Led(q, S, T) => Led(r, S, T)
    BY <1>3, OnAppend
  <1>. QED
    BY <1>1, <1>2, <1>3 DEF Keeps

(* How a step moves them, to r1, r2, r3: nothing of either kind moves; the *)
(* connection sends; the relay forwards; or the other end receives.        *)
Flow(M, q1, q2, q3, done, r1, r2, r3, then, S, T, R, U) ==
  /\ q1 \in Seq(M) /\ q2 \in Seq(M) /\ q3 \in Seq(M)
  /\ done \in BOOLEAN /\ then \in BOOLEAN
  /\ \/ /\ r1 = q1 /\ Keeps(M, q2, r2, S \cup T) /\ Keeps(M, q3, r3, R \cup U)
        /\ then = done
     \/ /\ q1 # <<>> /\ r1 = Tail(q1) /\ r2 = Append(q2, Head(q1)) /\ r3 = q3
        /\ then = done
     \/ /\ q2 # <<>> /\ r1 = q1 /\ r2 = Tail(q2)
        /\ \E n \in M : /\ r3 = Append(q3, n)
                        /\ Head(q2) \in S <=> n \in R
                        /\ Head(q2) \in T <=> n \in U
        /\ then = done
     \/ /\ q3 # <<>> /\ r1 = q1 /\ r2 = q2 /\ r3 = Tail(q3)
        /\ then <=> done \/ Head(q3) \in R

LEMMA Flows ==
  ASSUME NEW M, NEW q1, NEW q2, NEW q3, NEW done, NEW r1, NEW r2, NEW r3, NEW then,
         NEW S, NEW T, NEW R, NEW U,
         Flow(M, q1, q2, q3, done, r1, r2, r3, then, S, T, R, U),
         OneCopy(q1, q2, q3, done, S, R)
  PROVE  /\ OneCopy(r1, r2, r3, then, S, R)
         /\ InOrder(q1, q2, q3, done, S, T, R, U) => InOrder(r1, r2, r3, then, S, T, R, U)
  <1>. DEFINE Goal ==
         /\ OneCopy(r1, r2, r3, then, S, R)
         /\ InOrder(q1, q2, q3, done, S, T, R, U) => InOrder(r1, r2, r3, then, S, T, R, U)
  <1>0. /\ q1 \in Seq(M) /\ q2 \in Seq(M) /\ q3 \in Seq(M)
        /\ done \in BOOLEAN /\ then \in BOOLEAN
    BY DEF Flow
  <1>1. CASE /\ r1 = q1 /\ Keeps(M, q2, r2, S \cup T) /\ Keeps(M, q3, r3, R \cup U)
             /\ then = done
    <2>1. /\ Has(r2, S) <=> Has(q2, S)
          /\ Once(q2, S) => Once(r2, S)
          /\ Led(q2, S, T) => Led(r2, S, T)
      BY <1>0, <1>1, Kept
    <2>2. /\ Has(r3, R) <=> Has(q3, R)
          /\ Once(q3, R) => Once(r3, R)
          /\ Led(q3, R, U) => Led(r3, R, U)
      BY <1>0, <1>1, Kept
    <2>. QED
      BY <1>1, <2>1, <2>2 DEF OneCopy, InOrder
  <1>2. CASE /\ q1 # <<>> /\ r1 = Tail(q1) /\ r2 = Append(q2, Head(q1)) /\ r3 = q3
             /\ then = done
    <2>. DEFINE m == Head(q1)
    <2>1. m \in M
      BY <1>0, <1>2, HeadTailProperties, EmptySeq
    <2>2. /\ m \in S => Has(q1, S)
          /\ Has(r1, S) => Has(q1, S)
          /\ m \notin S => (Has(r1, S) <=> Has(q1, S))
          /\ Once(q1, S) => Once(r1, S)
          /\ Once(q1, S) /\ m \in S => ~Has(r1, S)
          /\ Led(q1, S, T) => m \notin T
          /\ Led(q1, S, T) /\ m \notin S => Led(r1, S, T)
      BY <1>0, <1>2, OnTail
    <2>. HIDE DEF m
    <2>3. r2 = Append(q2, m)
      BY <1>2 DEF m
    <2>4. /\ Has(r2, S) <=> Has(q2, S) \/ m \in S
          /\ Once(q2, S) /\ (m \in S => ~Has(q2, S)) => Once(r2, S)
          /\ Led(q2, S, T) /\ (m \in T => Has(q2, S)) => Led(r2, S, T)
      BY <1>0, <2>1, <2>3, OnAppend
    <2>5. OneCopy(r1, r2, r3, then, S, R)
      BY <1>2, <2>2, <2>4 DEF OneCopy
    <2>6. InOrder(q1, q2, q3, done, S, T, R, U) => InOrder(r1, r2, r3, then, S, T, R, U)
      BY <1>2, <2>2, <2>4 DEF InOrder
    <2>. QED
      BY <2>5, <2>6
  <1>3. ASSUME q2 # <<>>, r1 = q1, r2 = Tail(q2), then = done,
               NEW n \in M, r3 = Append(q3, n),
               Head(q2) \in S <=> n \in R, Head(q2) \in T <=> n \in U
        PROVE  Goal
    <2>. DEFINE m == Head(q2)
    <2>1. /\ m \in S => Has(q2, S)
          /\ Has(r2, S) => Has(q2, S)
          /\ m \notin S => (Has(r2, S) <=> Has(q2, S))
          /\ Once(q2, S) => Once(r2, S)
          /\ Once(q2, S) /\ m \in S => ~Has(r2, S)
          /\ Led(q2, S, T) => m \notin T
          /\ Led(q2, S, T) /\ m \notin S => Led(r2, S, T)
      BY <1>0, <1>3, OnTail
    <2>2. /\ Has(r3, R) <=> Has(q3, R) \/ m \in S
          /\ Once(q3, R) /\ (m \in S => ~Has(q3, R)) => Once(r3, R)
          /\ Led(q3, R, U) /\ (m \in T => Has(q3, R)) => Led(r3, R, U)
      BY <1>0, <1>3, OnAppend
    <2>. HIDE DEF m
    <2>3. OneCopy(r1, r2, r3, then, S, R)
      BY <1>3, <2>1, <2>2 DEF OneCopy
    <2>4. InOrder(q1, q2, q3, done, S, T, R, U) => InOrder(r1, r2, r3, then, S, T, R, U)
      BY <1>3, <2>1, <2>2 DEF InOrder
    <2>. QED
      BY <2>3, <2>4
  <1>4. CASE /\ q3 # <<>> /\ r1 = q1 /\ r2 = q2 /\ r3 = Tail(q3)
             /\ then <=> done \/ Head(q3) \in R
    <2>. DEFINE m == Head(q3)
    <2>1. /\ m \in R => Has(q3, R)
          /\ Has(r3, R) => Has(q3, R)
          /\ m \notin R => (Has(r3, R) <=> Has(q3, R))
          /\ Once(q3, R) => Once(r3, R)
          /\ Once(q3, R) /\ m \in R => ~Has(r3, R)
          /\ Led(q3, R, U) /\ m \notin R => Led(r3, R, U)
      BY <1>0, <1>4, OnTail
    <2>2. then <=> done \/ m \in R
      BY <1>4
    <2>. HIDE DEF m
    <2>3. OneCopy(r1, r2, r3, then, S, R)
      BY <1>4, <2>1, <2>2 DEF OneCopy
    <2>4. InOrder(q1, q2, q3, done, S, T, R, U) => InOrder(r1, r2, r3, then, S, T, R, U)
      BY <1>4, <2>1, <2>2 DEF InOrder
    <2>. QED
      BY <2>3, <2>4
  <1>. HIDE DEF Goal
  <1>5. Goal
    BY <1>1, <1>2, <1>3, <1>4 DEF Flow, Goal
  <1>. QED
    BY <1>5 DEF Goal

(* The sender is gone, with what it had still to send and maybe its wire.  *)
Stop(M, q1, q2, q3, done, r1, r2, r3, then, X) ==
  /\ q2 \in Seq(M)
  /\ r1 = <<>> /\ (Keeps(M, q2, r2, X) \/ r2 = <<>>)
  /\ r3 = q3 /\ then = done

LEMMA Stops ==
  ASSUME NEW M, NEW q1, NEW q2, NEW q3, NEW done, NEW r1, NEW r2, NEW r3, NEW then,
         NEW S, NEW T, NEW R, NEW U,
         Stop(M, q1, q2, q3, done, r1, r2, r3, then, S \cup T),
         OneCopy(q1, q2, q3, done, S, R)
  PROVE  /\ OneCopy(r1, r2, r3, then, S, R)
         /\ InOrder(q1, q2, q3, done, S, T, R, U) => InOrder(r1, r2, r3, then, S, T, R, U)
  <1>1. ~Has(<<>>, S) /\ Once(<<>>, S) /\ Led(<<>>, S, T)
    BY OnEmpty
  <1>2. /\ Has(r2, S) => Has(q2, S)
        /\ Once(q2, S) => Once(r2, S)
        /\ Led(q2, S, T) => Led(r2, S, T)
    BY <1>1, Kept DEF Stop
  <1>. QED
    BY <1>1, <1>2 DEF OneCopy, InOrder, Stop

(* A wire loses a message, or all of them.                                 *)
Loss(M, q1, q2, q3, done, r1, r2, r3, then) ==
  /\ q1 \in Seq(M) /\ q2 \in Seq(M) /\ q3 \in Seq(M)
  /\ r1 = q1 /\ then = done
  /\ r2 = q2 \/ r2 = <<>> \/ (q2 # <<>> /\ r2 = Tail(q2))
  /\ r3 = q3 \/ r3 = <<>>

LEMMA Losses ==
  ASSUME NEW M, NEW S, NEW R, NEW q1, NEW q2, NEW q3, NEW done,
         NEW r1, NEW r2, NEW r3, NEW then,
         Loss(M, q1, q2, q3, done, r1, r2, r3, then), OneCopy(q1, q2, q3, done, S, R)
  PROVE  OneCopy(r1, r2, r3, then, S, R)
  <1>1. (Has(r2, S) => Has(q2, S)) /\ (Once(q2, S) => Once(r2, S))
    BY OnEmpty, OnTail DEF Loss
  <1>2. (Has(r3, R) => Has(q3, R)) /\ (Once(q3, R) => Once(r3, R))
    BY OnEmpty DEF Loss
  <1>. QED
    BY <1>1, <1>2 DEF OneCopy, Loss

(* The connection gets its description and candidates to send.             *)
LEMMA Starts ==
  ASSUME NEW S, NEW T, NEW R, NEW U, NEW q1, NEW q2, NEW q3, NEW done,
         Once(q1, S), Led(q1, S, T), ~done,
         ~Has(q2, S), ~Has(q2, T), ~Has(q3, R), ~Has(q3, U)
  PROVE  OneCopy(q1, q2, q3, done, S, R) /\ InOrder(q1, q2, q3, done, S, T, R, U)
  <1>1. Once(q2, S) /\ Once(q3, R) /\ Led(q2, S, T) /\ Led(q3, R, U)
    BY DEF Has, Once, Led
  <1>. QED
    BY <1>1 DEF OneCopy, InOrder
-----------------------------------------------------------------------------
(* How many elements of X are on the queue.                                *)
Count(q, X) == Cardinality({i \in DOMAIN q : q[i] \in X})

LEMMA CountTyped ==
  ASSUME NEW M, NEW q \in Seq(M), NEW X
  PROVE  IsFiniteSet({i \in DOMAIN q : q[i] \in X}) /\ Count(q, X) \in Nat
  <1>1. DOMAIN q = 1 .. Len(q) /\ Len(q) \in Nat
    BY LenProperties
  <1>2. IsFiniteSet(DOMAIN q)
    BY <1>1, FS_Interval
  <1>3. IsFiniteSet({i \in DOMAIN q : q[i] \in X})
    BY <1>2, FS_Subset
  <1>. QED
    BY <1>3, FS_CardinalityType DEF Count

LEMMA CountEmpty == ASSUME NEW X PROVE Count(<<>>, X) = 0
  <1>1. {i \in DOMAIN <<>> : <<>>[i] \in X} = {}
    OBVIOUS
  <1>. QED
    BY <1>1, FS_EmptySet DEF Count

LEMMA CountAppend ==
  ASSUME NEW M, NEW q \in Seq(M), NEW m \in M, NEW X
  PROVE  Count(Append(q, m), X) = IF m \in X THEN Count(q, X) + 1 ELSE Count(q, X)
  <1>. DEFINE r == Append(q, m)
              n == Len(q) + 1
              A == {i \in DOMAIN q : q[i] \in X}
              B == {i \in DOMAIN r : r[i] \in X}
  <1>1. /\ Len(q) \in Nat /\ DOMAIN q = 1 .. Len(q) /\ DOMAIN r = 1 .. n
        /\ \A i \in 1 .. Len(q) : r[i] = q[i]
        /\ r[n] = m
    BY AppendProperties, LenProperties
  <1>. HIDE DEF r
  <1>2. /\ DOMAIN r = DOMAIN q \cup {n} /\ n \notin DOMAIN q
        /\ \A i \in DOMAIN q : r[i] = q[i]
    BY <1>1
  <1>3. /\ m \in X => B = A \cup {n}
        /\ m \notin X => B = A
    BY <1>1, <1>2
  <1>4. IsFiniteSet(A) /\ n \notin A
    BY <1>2, CountTyped
  <1>. HIDE DEF A, B
  <1>5. Cardinality(B) = IF m \in X THEN Cardinality(A) + 1 ELSE Cardinality(A)
    BY <1>3, <1>4, FS_AddElement
  <1>. QED
    BY <1>5 DEF Count, A, B, r

LEMMA CountTail ==
  ASSUME NEW M, NEW q \in Seq(M), q # <<>>, NEW X
  PROVE  Count(q, X) = IF Head(q) \in X THEN Count(Tail(q), X) + 1 ELSE Count(Tail(q), X)
  <1>. DEFINE r == Tail(q)
              A == {i \in DOMAIN q : q[i] \in X}
              B == {i \in DOMAIN r : r[i] \in X}
              C == A \ {1}
              f == [i \in B |-> i + 1]
  <1>1. /\ Len(q) \in Nat \ {0} /\ DOMAIN q = 1 .. Len(q) /\ DOMAIN r = 1 .. Len(q) - 1
        /\ \A i \in 1 .. Len(q) - 1 : r[i] = q[i + 1]
        /\ Head(q) = q[1] /\ r \in Seq(M)
    BY HeadTailProperties, LenProperties, EmptySeq
  <1>. HIDE DEF r
  <1>2. /\ 1 \in DOMAIN q
        /\ \A i \in DOMAIN q : i = 1 \/ (i - 1 \in DOMAIN r /\ r[i - 1] = q[i] /\ (i - 1) + 1 = i)
        /\ \A i \in DOMAIN r : i \in Nat /\ i + 1 \in DOMAIN q /\ i + 1 # 1 /\ r[i] = q[i + 1]
    BY <1>1
  <1>3. /\ \A i \in B : f[i] \in C
        /\ \A i, j \in B : f[i] = f[j] => i = j
        /\ \A j \in C : \E i \in B : f[i] = j
    <2>1. \A i \in B : f[i] \in C
      BY <1>2
    <2>2. \A i, j \in B : f[i] = f[j] => i = j
      BY <1>2
    <2>3. ASSUME NEW j \in C PROVE \E i \in B : f[i] = j
      <3>1. j - 1 \in B /\ (j - 1) + 1 = j
        BY <1>2, <2>3
      <3>. QED
        BY <3>1
    <2>. QED
      BY <2>1, <2>2, <2>3
  <1>4. IsFiniteSet(B) /\ IsFiniteSet(A)
    BY <1>1, CountTyped
  <1>5. 1 \in A <=> Head(q) \in X
    BY <1>1, <1>2
  <1>6. C = A \ {1} /\ f \in [B -> C]
    BY <1>3
  <1>. HIDE DEF A, B, C, f
  <1>7. f \in Bijection(B, C)
    BY <1>3, <1>6 DEF Bijection, Injection, Surjection, IsInjective
  <1>8. Cardinality(C) = Cardinality(B)
    BY <1>4, <1>7, FS_Bijection DEF ExistsBijection
  <1>9. Cardinality(A) \in Nat /\ Cardinality(B) \in Nat
    BY <1>4, FS_CardinalityType
  <1>10. Cardinality(C) = IF 1 \in A THEN Cardinality(A) - 1 ELSE Cardinality(A)
    BY <1>4, <1>6, FS_RemoveElement
  <1>11. Cardinality(A) = IF Head(q) \in X THEN Cardinality(B) + 1 ELSE Cardinality(B)
    BY <1>5, <1>8, <1>9, <1>10
  <1>. QED
    BY <1>11 DEF Count, A, B, r

LEMMA CountKept ==
  ASSUME NEW M, NEW q \in Seq(M), NEW r, NEW X, NEW T, T \subseteq X, Keeps(M, q, r, X)
  PROVE  Count(r, T) = Count(q, T)
  <1>1. CASE q # <<>> /\ Head(q) \notin X /\ r = Tail(q)
    BY <1>1, CountTail
  <1>2. ASSUME NEW m \in M, m \notin X, r = Append(q, m)
        PROVE  Count(r, T) = Count(q, T)
    BY <1>2, CountAppend
  <1>. QED
    BY <1>1, <1>2 DEF Keeps

LEMMA CountNone ==
  ASSUME NEW X, NEW q, ~Has(q, X)
  PROVE  Count(q, X) = 0
  <1>1. {i \in DOMAIN q : q[i] \in X} = {}
    BY DEF Has
  <1>. QED
    BY <1>1, FS_EmptySet DEF Count
-----------------------------------------------------------------------------
(* The description is somewhere; every candidate is, or has been taken:    *)
(* n of them have, of N.                                                   *)
Whole(q1, q2, q3, done, n, S, T, R, U, N) ==
  /\ Has(q1, S) \/ Has(q2, S) \/ Has(q3, R) \/ done
  /\ n \in Nat /\ Count(q1, T) + Count(q2, T) + Count(q3, U) + n = N

(* A step of the other end, which takes every candidate it receives.       *)
Arrival(M, q3, n, r3, k, U) ==
  \/ k = n /\ (r3 = q3 \/ \E m \in M : r3 = Append(q3, m))
  \/ q3 # <<>> /\ r3 = Tail(q3) /\ k = IF Head(q3) \in U THEN n + 1 ELSE n

LEMMA Arrives ==
  ASSUME NEW M, NEW q \in Seq(M), NEW r, NEW n \in Nat, NEW k, NEW U, Arrival(M, q, n, r, k, U)
  PROVE  /\ Count(q, U) \in Nat /\ Count(r, U) \in Nat
         /\ \/ k = n /\ Count(r, U) >= Count(q, U)
            \/ k = n + 1 /\ Count(r, U) + 1 = Count(q, U)
  <1>1. Count(q, U) \in Nat
    BY CountTyped
  <1>2. CASE k = n /\ r = q
    BY <1>1, <1>2
  <1>3. ASSUME k = n, NEW m \in M, r = Append(q, m)
        PROVE  Count(r, U) >= Count(q, U) /\ Count(r, U) \in Nat
    <2>1. Count(r, U) = IF m \in U THEN Count(q, U) + 1 ELSE Count(q, U)
      BY <1>3, CountAppend
    <2>. QED
      BY <1>1, <2>1
  <1>4. CASE q # <<>> /\ r = Tail(q) /\ k = IF Head(q) \in U THEN n + 1 ELSE n
    <2>1. r \in Seq(M)
      BY <1>4, HeadTailProperties, EmptySeq
    <2>2. Count(r, U) \in Nat
      BY <2>1, CountTyped
    <2>3. Count(q, U) = IF Head(q) \in U THEN Count(r, U) + 1 ELSE Count(r, U)
      BY <1>4, CountTail
    <2>. QED
      BY <1>1, <1>4, <2>2, <2>3
  <1>. QED
    BY <1>1, <1>2, <1>3, <1>4 DEF Arrival

LEMMA StaysWhole ==
  ASSUME NEW M, NEW q1, NEW q2, NEW q3, NEW done, NEW n, NEW r1, NEW r2, NEW r3, NEW then, NEW k,
         NEW S, NEW T, NEW R, NEW U, NEW N,
         Flow(M, q1, q2, q3, done, r1, r2, r3, then, S, T, R, U),
         Arrival(M, q3, n, r3, k, U),
         Whole(q1, q2, q3, done, n, S, T, R, U, N)
  PROVE  Whole(r1, r2, r3, then, k, S, T, R, U, N)
  <1>. DEFINE a1 == Count(q1, T)
              a2 == Count(q2, T)
              a3 == Count(q3, U)
              b1 == Count(r1, T)
              b2 == Count(r2, T)
              b3 == Count(r3, U)
              Goal == /\ Has(r1, S) \/ Has(r2, S) \/ Has(r3, R) \/ then
                      /\ b1 + b2 + b3 + k = N
  <1>1. /\ q1 \in Seq(M) /\ q2 \in Seq(M) /\ q3 \in Seq(M)
        /\ done \in BOOLEAN /\ then \in BOOLEAN
        /\ Has(q1, S) \/ Has(q2, S) \/ Has(q3, R) \/ done
        /\ n \in Nat /\ a1 + a2 + a3 + n = N
    BY DEF Flow, Whole
  <1>2. a1 \in Nat /\ a2 \in Nat
    BY <1>1, CountTyped
  <1>3. /\ a3 \in Nat /\ b3 \in Nat
        /\ (k = n /\ b3 >= a3) \/ (k = n + 1 /\ b3 + 1 = a3)
    BY <1>1, Arrives
  <1>. SUFFICES Goal
    BY <1>1, <1>3 DEF Whole
  <1>4. CASE /\ r1 = q1 /\ Keeps(M, q2, r2, S \cup T) /\ Keeps(M, q3, r3, R \cup U)
             /\ then = done
    <2>1. (Has(r2, S) <=> Has(q2, S)) /\ (Has(r3, R) <=> Has(q3, R))
      BY <1>1, <1>4, Kept
    <2>2. b2 = a2
      <3>. DEFINE X == S \cup T
      <3>1. q2 \in Seq(M) /\ Keeps(M, q2, r2, X) /\ T \subseteq X
        BY <1>1, <1>4
      <3>. HIDE DEF X
      <3>. QED
        BY <3>1, CountKept
    <2>3. b3 = a3
      <3>. DEFINE X == R \cup U
      <3>1. q3 \in Seq(M) /\ Keeps(M, q3, r3, X) /\ U \subseteq X
        BY <1>1, <1>4
      <3>. HIDE DEF X
      <3>. QED
        BY <3>1, CountKept
    <2>4. b1 = a1
      BY <1>4
    <2>. HIDE DEF a1, a2, a3, b1, b2, b3
    <2>5. b1 + b2 + b3 + k = N
      BY <1>1, <1>2, <1>3, <2>2, <2>3, <2>4
    <2>. QED
      BY <1>1, <1>4, <2>1, <2>5
  <1>5. CASE /\ q1 # <<>> /\ r1 = Tail(q1) /\ r2 = Append(q2, Head(q1)) /\ r3 = q3
             /\ then = done
    <2>. DEFINE m == Head(q1)
    <2>1. m \in M /\ r1 \in Seq(M)
      BY <1>1, <1>5, HeadTailProperties, EmptySeq
    <2>2. m \notin S => (Has(r1, S) <=> Has(q1, S))
      BY <1>1, <1>5, OnTail
    <2>3. a1 = IF m \in T THEN b1 + 1 ELSE b1
      BY <1>1, <1>5, CountTail
    <2>4. b1 \in Nat
      BY <2>1, CountTyped
    <2>. HIDE DEF m
    <2>5. r2 = Append(q2, m)
      BY <1>5 DEF m
    <2>6. Has(r2, S) <=> Has(q2, S) \/ m \in S
      BY <1>1, <2>1, <2>5, OnAppend
    <2>7. b2 = IF m \in T THEN a2 + 1 ELSE a2
      BY <1>1, <2>1, <2>5, CountAppend
    <2>8. b3 = a3
      BY <1>5
    <2>. HIDE DEF a1, a2, a3, b1, b2, b3
    <2>9. b1 + b2 + b3 + k = N
      BY <1>1, <1>2, <1>3, <2>3, <2>4, <2>7, <2>8
    <2>. QED
      BY <1>1, <1>5, <2>2, <2>6, <2>9
  <1>6. ASSUME q2 # <<>>, r1 = q1, r2 = Tail(q2), then = done,
               NEW a \in M, r3 = Append(q3, a),
               Head(q2) \in S <=> a \in R, Head(q2) \in T <=> a \in U
        PROVE  Goal
    <2>1. r2 \in Seq(M)
      BY <1>1, <1>6, HeadTailProperties, EmptySeq
    <2>2. Head(q2) \notin S => (Has(r2, S) <=> Has(q2, S))
      BY <1>1, <1>6, OnTail
    <2>3. a2 = IF Head(q2) \in T THEN b2 + 1 ELSE b2
      BY <1>1, <1>6, CountTail
    <2>4. b2 \in Nat
      BY <2>1, CountTyped
    <2>5. Has(r3, R) <=> Has(q3, R) \/ a \in R
      BY <1>1, <1>6, OnAppend
    <2>6. b3 = IF a \in U THEN a3 + 1 ELSE a3
      BY <1>1, <1>6, CountAppend
    <2>7. b1 = a1
      BY <1>6
    <2>. HIDE DEF a1, a2, a3, b1, b2, b3
    <2>8. b3 = IF Head(q2) \in T THEN a3 + 1 ELSE a3
      BY <1>6, <2>6
    <2>9. b1 + b2 + b3 + k = N
      BY <1>1, <1>2, <1>3, <2>3, <2>4, <2>7, <2>8
    <2>. QED
      BY <1>1, <1>6, <2>2, <2>5, <2>9
  <1>7. CASE /\ q3 # <<>> /\ r1 = q1 /\ r2 = q2 /\ r3 = Tail(q3)
             /\ then <=> done \/ Head(q3) \in R
    <2>1. Head(q3) \notin R => (Has(r3, R) <=> Has(q3, R))
      BY <1>1, <1>7, OnTail
    <2>2. a3 = IF Head(q3) \in U THEN b3 + 1 ELSE b3
      BY <1>1, <1>7, CountTail
    <2>3. b1 = a1 /\ b2 = a2
      BY <1>7
    <2>. HIDE DEF a1, a2, a3, b1, b2, b3
    <2>4. b1 + b2 + b3 + k = N
      BY <1>1, <1>2, <1>3, <2>2, <2>3
    <2>. QED
      BY <1>1, <1>7, <2>1, <2>4
  <1>. HIDE DEF Goal
  <1>. QED
    BY <1>4, <1>5, <1>6, <1>7 DEF Flow

LEMMA WholeAtStart ==
  ASSUME NEW q1, NEW q2, NEW q3, NEW done, NEW S, NEW T, NEW R, NEW U, NEW N \in Nat,
         Has(q1, S), Count(q1, T) = N, ~Has(q2, T), ~Has(q3, U)
  PROVE  Whole(q1, q2, q3, done, 0, S, T, R, U, N)
  <1>1. Count(q2, T) = 0
    BY CountNone
  <1>2. Count(q3, U) = 0
    BY CountNone
  <1>. QED
    BY <1>1, <1>2 DEF Whole

LEMMA WholeAtEnd ==
  ASSUME NEW q1, NEW q2, NEW q3, NEW done, NEW n, NEW S, NEW T, NEW R, NEW U, NEW N,
         Whole(q1, q2, q3, done, n, S, T, R, U, N),
         ~Has(q1, S), ~Has(q1, T), ~Has(q2, S), ~Has(q2, T), ~Has(q3, R), ~Has(q3, U)
  PROVE  done /\ n = N
  <1>1. Count(q1, T) = 0
    BY CountNone
  <1>2. Count(q2, T) = 0
    BY CountNone
  <1>3. Count(q3, U) = 0
    BY CountNone
  <1>. QED
    BY <1>1, <1>2, <1>3 DEF Whole
=============================================================================
