---------------------------- MODULE SequenceLemmas ----------------------------
(***************************************************************************)
(* What appending to and removing from a sequence without duplicates does  *)
(* to its set of elements.                                                 *)
(***************************************************************************)
EXTENDS SequencesExt, SequenceTheorems, TLAPS

(* A new element appended to a sequence without duplicates (the append of  *)
(* PeerManager.Register).                                                  *)
LEMMA AppendNew ==
  ASSUME NEW S, NEW s \in Seq(S), NEW e \in S, IsInjective(s), e \notin ToSet(s)
  PROVE  /\ Append(s, e) \in Seq(S)
         /\ IsInjective(Append(s, e))
         /\ ToSet(Append(s, e)) = ToSet(s) \cup {e}
<1> DEFINE t == Append(s, e)
<1>1. /\ t \in Seq(S)
      /\ Len(t) = Len(s) + 1
      /\ \A i \in 1 .. Len(s) : t[i] = s[i]
      /\ t[Len(s) + 1] = e
  BY AppendProperties
<1>2. /\ DOMAIN s = 1 .. Len(s) /\ DOMAIN t = 1 .. Len(t) /\ Len(s) \in Nat
  BY <1>1, LenProperties
<1> HIDE DEF t
<1>3. \A i \in DOMAIN s : s[i] # e
  BY DEF ToSet
<1>4. IsInjective(t)
  BY <1>1, <1>2, <1>3 DEF IsInjective
<1>5. ToSet(t) \subseteq ToSet(s) \cup {e}
  BY <1>1, <1>2 DEF ToSet
<1>6. ToSet(s) \cup {e} \subseteq ToSet(t)
  <2>1. \A i \in DOMAIN s : i \in DOMAIN t /\ t[i] = s[i]
    BY <1>1, <1>2
  <2>2. Len(s) + 1 \in DOMAIN t
    BY <1>1, <1>2
  <2> QED BY <1>1, <2>1, <2>2 DEF ToSet
<1> QED BY <1>1, <1>4, <1>5, <1>6 DEF t

(* RemoveAt closes the gap.                                                *)
LEMMA RemoveAtProperties ==
  ASSUME NEW S, NEW s \in Seq(S), NEW k \in 1 .. Len(s)
  PROVE  /\ RemoveAt(s, k) \in Seq(S)
         /\ Len(RemoveAt(s, k)) = Len(s) - 1
         /\ \A i \in 1 .. Len(s) - 1 :
              RemoveAt(s, k)[i] = IF i < k THEN s[i] ELSE s[i + 1]
<1>1. Len(s) \in Nat /\ \A i \in 1 .. Len(s) : s[i] \in S
  BY LenProperties, ElementOfSeq
<1> DEFINE a == SubSeq(s, 1, k - 1)
           b == SubSeq(s, k + 1, Len(s))
<1>2. /\ a \in Seq(S)
      /\ Len(a) = k - 1
      /\ \A i \in 1 .. k - 1 : a[i] = s[i]
  BY <1>1, SubSeqProperties, 1 \in Int, k - 1 \in Int
<1>3. /\ b \in Seq(S)
      /\ Len(b) = Len(s) - k
      /\ \A i \in 1 .. Len(s) - k : b[i] = s[k + i]
  <2>1. k + 1 \in Int /\ Len(s) \in Int /\ \A i \in k + 1 .. Len(s) : s[i] \in S
    BY <1>1
  <2>2. /\ b \in Seq(S)
        /\ Len(b) = IF k + 1 <= Len(s) THEN Len(s) - (k + 1) + 1 ELSE 0
        /\ \A i \in 1 .. Len(s) - (k + 1) + 1 : b[i] = s[k + 1 + i - 1]
    BY <2>1, SubSeqProperties
  <2> HIDE DEF b
  <2> QED BY <1>1, <2>2
<1> HIDE DEF a, b
<1>4. /\ a \o b \in Seq(S)
      /\ Len(a \o b) = Len(a) + Len(b)
      /\ \A i \in 1 .. Len(a) + Len(b) :
           (a \o b)[i] = IF i <= Len(a) THEN a[i] ELSE b[i - Len(a)]
  BY <1>2, <1>3, ConcatProperties
<1>5. RemoveAt(s, k) = a \o b
  BY DEF RemoveAt, a, b
<1>6. ASSUME NEW i \in 1 .. Len(s) - 1
      PROVE (a \o b)[i] = IF i < k THEN s[i] ELSE s[i + 1]
  <2>1. i \in 1 .. Len(a) + Len(b) /\ i \in Nat /\ k \in Nat
    BY <1>1, <1>2, <1>3
  <2>2. CASE i < k
    <3>1. i \in 1 .. k - 1 /\ i <= Len(a)
      BY <1>2, <2>1, <2>2
    <3> QED BY <1>2, <1>4, <2>1, <2>2, <3>1
  <2>3. CASE ~(i < k)
    <3>1. i - Len(a) \in 1 .. Len(s) - k /\ ~(i <= Len(a)) /\ k + (i - Len(a)) = i + 1
      BY <1>1, <1>2, <2>1, <2>3
    <3> QED BY <1>3, <1>4, <2>1, <2>3, <3>1
  <2> QED BY <2>2, <2>3
<1>7. Len(a \o b) = Len(s) - 1
  BY <1>1, <1>2, <1>3, <1>4
<1> QED BY <1>4, <1>5, <1>6, <1>7

(* RemoveFirst takes exactly one element out of a sequence without         *)
(* duplicates (the loop of PeerManager.Unregister).                        *)
LEMMA RemoveFirstUnique ==
  ASSUME NEW S, NEW s \in Seq(S), NEW e \in ToSet(s), IsInjective(s)
  PROVE  /\ RemoveFirst(s, e) \in Seq(S)
         /\ IsInjective(RemoveFirst(s, e))
         /\ ToSet(RemoveFirst(s, e)) = ToSet(s) \ {e}
<1>1. DOMAIN s = 1 .. Len(s) /\ Len(s) \in Nat
  BY LenProperties
<1>2. PICK k \in 1 .. Len(s) : s[k] = e
  BY <1>1 DEF ToSet
<1>3. {i \in 1 .. Len(s) : s[i] = e} = {k}
  BY <1>1, <1>2 DEF IsInjective
<1>4. RemoveFirst(s, e) = RemoveAt(s, k)
  <2>1. Min({k}) = k
    BY <1>1 DEF Min
  <2>2. SelectInSeq(s, LAMBDA v : v = e) = k
    BY <1>3, <2>1 DEF SelectInSeq
  <2> QED BY <1>2, <2>2 DEF RemoveFirst
<1> DEFINE t == RemoveAt(s, k)
<1>5. /\ t \in Seq(S)
      /\ Len(t) = Len(s) - 1
      /\ \A i \in 1 .. Len(s) - 1 : t[i] = IF i < k THEN s[i] ELSE s[i + 1]
  BY RemoveAtProperties
<1> HIDE DEF t
<1>6. DOMAIN t = 1 .. Len(s) - 1
  BY <1>5, LenProperties
<1>7. IsInjective(t)
  <2> SUFFICES ASSUME NEW i \in DOMAIN t, NEW j \in DOMAIN t, t[i] = t[j]
               PROVE  i = j
    BY DEF IsInjective
  <2> DEFINE src(n) == IF n < k THEN n ELSE n + 1
  <2>1. /\ src(i) \in DOMAIN s /\ src(j) \in DOMAIN s
        /\ t[i] = s[src(i)] /\ t[j] = s[src(j)]
    BY <1>1, <1>5, <1>6
  <2>2. src(i) = src(j)
    BY <2>1 DEF IsInjective
  <2> QED BY <1>1, <1>6, <2>2
<1>8. ToSet(t) \subseteq ToSet(s) \ {e}
  <2> SUFFICES ASSUME NEW i \in DOMAIN t
               PROVE  t[i] \in ToSet(s) \ {e}
    BY DEF ToSet
  <2>1. CASE i < k
    <3>1. i \in DOMAIN s /\ t[i] = s[i] /\ i # k
      BY <1>1, <1>5, <1>6, <2>1
    <3> QED BY <1>1, <1>2, <3>1 DEF ToSet, IsInjective
  <2>2. CASE ~(i < k)
    <3>1. i + 1 \in DOMAIN s /\ t[i] = s[i + 1] /\ i + 1 # k
      BY <1>1, <1>5, <1>6, <2>2
    <3> QED BY <1>1, <1>2, <3>1 DEF ToSet, IsInjective
  <2> QED BY <2>1, <2>2
<1>9. ToSet(s) \ {e} \subseteq ToSet(t)
  <2> SUFFICES ASSUME NEW i \in DOMAIN s, s[i] # e
               PROVE  s[i] \in ToSet(t)
    BY DEF ToSet
  <2>1. CASE i < k
    <3>1. i \in DOMAIN t /\ t[i] = s[i]
      BY <1>1, <1>5, <1>6, <2>1
    <3> QED BY <3>1 DEF ToSet
  <2>2. CASE i > k
    <3>1. i - 1 \in DOMAIN t /\ t[i - 1] = s[i]
      BY <1>1, <1>5, <1>6, <2>2
    <3> QED BY <3>1 DEF ToSet
  <2> QED BY <1>1, <1>2, <2>1, <2>2
<1> QED BY <1>4, <1>5, <1>7, <1>8, <1>9 DEF t

(* What sending on a wire and receiving from it does to the set of         *)
(* messages on it.                                                         *)
LEMMA ToSetEmpty == ToSet(<<>>) = {}
BY DEF ToSet

LEMMA ToSetTyped == ASSUME NEW S, NEW s \in Seq(S) PROVE ToSet(s) \subseteq S
BY DEF ToSet

LEMMA ToSetAppend ==
  ASSUME NEW S, NEW s \in Seq(S), NEW e \in S
  PROVE  /\ Append(s, e) \in Seq(S)
         /\ ToSet(Append(s, e)) = ToSet(s) \cup {e}
<1>1. /\ Append(s, e) \in Seq(S)
      /\ Len(Append(s, e)) = Len(s) + 1 /\ Len(s) \in Nat
      /\ \A i \in 1 .. Len(s) : Append(s, e)[i] = s[i]
      /\ Append(s, e)[Len(s) + 1] = e
  BY AppendProperties, LenProperties
<1> DEFINE t == Append(s, e)
<1> HIDE DEF t
<1>2. DOMAIN s = 1 .. Len(s) /\ DOMAIN t = 1 .. Len(s) + 1
  BY <1>1, LenProperties DEF t
<1>3. ToSet(t) \subseteq ToSet(s) \cup {e}
  BY <1>1, <1>2 DEF t, ToSet
<1>4. ToSet(s) \cup {e} \subseteq ToSet(t)
  <2>1. \A i \in DOMAIN s : i \in DOMAIN t /\ t[i] = s[i]
    BY <1>1, <1>2 DEF t
  <2>2. Len(s) + 1 \in DOMAIN t /\ t[Len(s) + 1] = e
    BY <1>1, <1>2 DEF t
  <2> QED BY <2>1, <2>2 DEF ToSet
<1> QED BY <1>1, <1>3, <1>4 DEF t

LEMMA ToSetTail ==
  ASSUME NEW S, NEW s \in Seq(S), s # <<>>
  PROVE  /\ Head(s) \in ToSet(s) /\ Head(s) \in S
         /\ Tail(s) \in Seq(S)
         /\ ToSet(Tail(s)) \subseteq ToSet(s)
<1>1. /\ Len(s) \in Nat \ {0} /\ DOMAIN s = 1 .. Len(s)
      /\ Tail(s) \in Seq(S) /\ Len(Tail(s)) = Len(s) - 1
      /\ \A i \in 1 .. Len(s) - 1 : Tail(s)[i] = s[i + 1]
      /\ Head(s) = s[1] /\ Head(s) \in S
  BY HeadTailProperties, LenProperties, EmptySeq
<1>2. DOMAIN Tail(s) = 1 .. Len(s) - 1
  BY <1>1, LenProperties
<1>3. ToSet(Tail(s)) \subseteq ToSet(s)
  <2> DEFINE t == Tail(s)
  <2> HIDE DEF t
  <2>1. \A i \in DOMAIN t : i + 1 \in DOMAIN s /\ t[i] = s[i + 1]
    BY <1>1, <1>2 DEF t
  <2> QED BY <2>1 DEF t, ToSet
<1> QED BY <1>1, <1>3 DEF ToSet

LEMMA ToSetConcat ==
  ASSUME NEW S, NEW s \in Seq(S), NEW t \in Seq(S)
  PROVE  s \o t \in Seq(S) /\ ToSet(s \o t) \subseteq ToSet(s) \cup ToSet(t)
<1> DEFINE u == s \o t
<1>1. /\ u \in Seq(S) /\ Len(u) = Len(s) + Len(t)
      /\ \A i \in 1 .. Len(s) + Len(t) : u[i] = IF i <= Len(s) THEN s[i] ELSE t[i - Len(s)]
      /\ Len(s) \in Nat /\ Len(t) \in Nat
  BY ConcatProperties, LenProperties
<1> HIDE DEF u
<1>2. /\ DOMAIN s = 1 .. Len(s) /\ DOMAIN t = 1 .. Len(t)
      /\ DOMAIN u = 1 .. Len(s) + Len(t)
  BY <1>1, LenProperties
<1>3. ASSUME NEW i \in DOMAIN u PROVE u[i] \in ToSet(s) \cup ToSet(t)
  <2>1. CASE i <= Len(s)
    <3>1. i \in DOMAIN s /\ u[i] = s[i]
      BY <1>1, <1>2, <1>3, <2>1
    <3> QED BY <3>1 DEF ToSet
  <2>2. CASE ~(i <= Len(s))
    <3>1. i - Len(s) \in DOMAIN t /\ u[i] = t[i - Len(s)]
      BY <1>1, <1>2, <1>3, <2>2
    <3> QED BY <3>1 DEF ToSet
  <2> QED BY <2>1, <2>2
<1> QED BY <1>1, <1>3 DEF u, ToSet
=============================================================================
