------------------------------- MODULE Sublists --------------------------------
(* The rows of a list that pass a filter, in the order of the list: the links    *)
(* of a page that are followed, the findings that a queue lists.  What is known  *)
(* of them follows by an induction over the list.                                *)
EXTENDS Integers, Sequences, FiniteSetTheorems, WellFoundedInduction, TLAPS

\* The members of s that are in S, in order.
Picked(s, S) ==
    LET chosen[n \in 0 .. Len(s)] ==
            IF n = 0 THEN <<>> ELSE IF s[n] \in S THEN Append(chosen[n - 1], s[n]) ELSE chosen[n - 1]
    IN chosen[Len(s)]

-----------------------------------------------------------------------------
(* Induction.                                                                   *)

\* A set of numbers has a least: the intervals below its members are finite subsets.
LEMMA LeastNumber ==
    ASSUME NEW T \in SUBSET Nat, T # {}
    PROVE  \E n \in T : \A m \in T : n <= m
  <1> DEFINE Under(n) == 0 .. (n - 1)
             B == {Under(n) : n \in T}
             R == StrictSubsetOrdering(Nat)
  <1>1. B \subseteq FiniteSubsetsOf(Nat) /\ B # {}
    <2>1. ASSUME NEW n \in T PROVE Under(n) \in FiniteSubsetsOf(Nat)
      <3>1. IsFiniteSet(Under(n))
        BY FS_Interval
      <3> QED  BY <3>1 DEF FiniteSubsetsOf
    <2> QED  BY <2>1
  <1>2. IsWellFoundedOn(R, FiniteSubsetsOf(Nat))
    BY FS_StrictSubsetOrderingWellFounded
  <1> HIDE DEF R
  <1>3. PICK b \in B : \A c \in B : ~(<<c, b>> \in R)
    <2> HIDE DEF B
    <2> QED  BY <1>1, <1>2, WFMin
  <1>4. PICK n \in T : b = Under(n)
    OBVIOUS
  <1>5. ASSUME NEW m \in T, m < n PROVE FALSE
    <2>1. Under(m) \subseteq Under(n) /\ Under(m) # Under(n)
      <3>1. m \in Under(n) /\ m \notin Under(m)
        BY <1>5
      <3> QED  BY <1>5, <3>1
    <2>2. Under(m) \in SUBSET Nat /\ Under(n) \in SUBSET Nat /\ Under(m) \in B
      OBVIOUS
    <2> HIDE DEF Under, B
    <2>3. <<Under(m), Under(n)>> \in R
      BY <2>1, <2>2 DEF R, StrictSubsetOrdering
    <2> QED  BY <1>3, <1>4, <2>2, <2>3
  <1> QED  BY <1>5

\* Induction over the numbers up to a bound, stated with the set of those for which it holds.
LEMMA UpToBound ==
    ASSUME NEW k \in Nat, NEW P, 0 \in P, \A n \in 1 .. k : n - 1 \in P => n \in P
    PROVE  0 .. k \subseteq P
  <1> DEFINE T == {n \in 0 .. k : n \notin P}
  <1> SUFFICES ASSUME T # {} PROVE FALSE
    OBVIOUS
  <1>1. T \in SUBSET Nat
    OBVIOUS
  <1>2. PICK n \in T : \A m \in T : n <= m
    <2> HIDE DEF T
    <2> QED  BY <1>1, LeastNumber
  <1>3. n \in 1 .. k
    OBVIOUS
  <1>4. n - 1 \in 0 .. k /\ n - 1 \notin T
    BY <1>2, <1>3
  <1> QED  BY <1>3, <1>4

\* What is picked are members of both, and every one of them is.
LEMMA PickedElements ==
    ASSUME NEW U, NEW s \in Seq(U), NEW S
    PROVE  /\ Picked(s, S) \in Seq(U)
           /\ \A i \in DOMAIN Picked(s, S) :
                Picked(s, S)[i] \in S /\ \E j \in DOMAIN s : s[j] = Picked(s, S)[i]
           /\ \A j \in DOMAIN s : s[j] \in S => \E i \in DOMAIN Picked(s, S) : Picked(s, S)[i] = s[j]
  <1> DEFINE next(f, n) == IF n = 0 THEN <<>> ELSE IF s[n] \in S THEN Append(f[n - 1], s[n]) ELSE f[n - 1]
             chosen == CHOOSE f : f = [n \in 0 .. Len(s) |-> next(f, n)]
  <1>1. Picked(s, S) = chosen[Len(s)]
    BY DEF Picked
  <1>2. \E f : f = [n \in 0 .. Len(s) |-> next(f, n)]
    <2> DEFINE P == {k \in 0 .. Len(s) : \E f \in [0 .. k -> Seq(U)] : \A n \in 0 .. k : f[n] = next(f, n)}
    <2>1. 0 \in P
      <3> DEFINE f == [n \in 0 .. 0 |-> <<>>]
      <3>1. f \in [0 .. 0 -> Seq(U)] /\ \A n \in 0 .. 0 : f[n] = next(f, n)
        OBVIOUS
      <3>2. 0 \in 0 .. Len(s)
        OBVIOUS
      <3> HIDE DEF f, next
      <3> QED  BY <3>1, <3>2
    <2>2. ASSUME NEW k \in 1 .. Len(s), k - 1 \in P PROVE k \in P
      <3>1. PICK f \in [0 .. (k - 1) -> Seq(U)] : \A n \in 0 .. (k - 1) : f[n] = next(f, n)
        BY <2>2
      <3> DEFINE g == [n \in 0 .. k |-> IF n = k THEN next(f, k) ELSE f[n]]
      <3>2. next(f, k) \in Seq(U)
        <4>1. f[k - 1] \in Seq(U) /\ s[k] \in U
          OBVIOUS
        <4> QED  BY <4>1
      <3> HIDE DEF next
      <3>3. g \in [0 .. k -> Seq(U)]
        BY <3>2
      <3>4. ASSUME NEW n \in 0 .. k PROVE g[n] = next(g, n)
        <4>1. n # 0 => g[n - 1] = f[n - 1]
          OBVIOUS
        <4>2. next(g, n) = next(f, n)
          BY <4>1 DEF next
        <4> QED  BY <3>1, <4>2
      <3>5. k \in 0 .. Len(s)
        OBVIOUS
      <3> HIDE DEF g
      <3> QED  BY <3>3, <3>4, <3>5
    <2>3. Len(s) \in P
      <3>1. Len(s) \in Nat /\ Len(s) \in 0 .. Len(s)
        OBVIOUS
      <3> HIDE DEF P
      <3>2. 0 .. Len(s) \subseteq P
        BY <2>1, <2>2, <3>1, UpToBound
      <3> QED  BY <3>1, <3>2
    <2>4. PICK f \in [0 .. Len(s) -> Seq(U)] : \A n \in 0 .. Len(s) : f[n] = next(f, n)
      BY <2>3
    <2> HIDE DEF next
    <2>5. f = [n \in 0 .. Len(s) |-> next(f, n)]
      BY <2>4
    <2> QED  BY <2>5
  <1>3. chosen = [n \in 0 .. Len(s) |-> next(chosen, n)]
    <2> HIDE DEF next
    <2> QED  BY <1>2
  <1>4. \A n \in 0 .. Len(s) : chosen[n] = next(chosen, n)
    <2> HIDE DEF next, chosen
    <2> QED  BY <1>3
  <1> HIDE DEF chosen
  <1> DEFINE Good(k) ==
               /\ chosen[k] \in Seq(U)
               /\ \A i \in DOMAIN chosen[k] : chosen[k][i] \in S /\ \E j \in 1 .. k : s[j] = chosen[k][i]
               /\ \A j \in 1 .. k : s[j] \in S => \E i \in DOMAIN chosen[k] : chosen[k][i] = s[j]
             P == {k \in 0 .. Len(s) : Good(k)}
  <1>5. Len(s) \in Nat /\ 0 \in 0 .. Len(s) /\ Len(s) \in 0 .. Len(s)
    OBVIOUS
  <1>6. Good(0)
    <2>1. chosen[0] = <<>>
      BY <1>4, <1>5
    <2>2. DOMAIN <<>> = {} /\ 1 .. 0 = {} /\ <<>> \in Seq(U)
      OBVIOUS
    <2> QED  BY <2>1, <2>2
  <1>7. ASSUME NEW k \in 1 .. Len(s), Good(k - 1) PROVE Good(k)
    <2> DEFINE before == chosen[k - 1]
    <2>1. k \in 0 .. Len(s) /\ k - 1 \in 0 .. Len(s) /\ k # 0 /\ s[k] \in U
      OBVIOUS
    <2>2. chosen[k] = IF s[k] \in S THEN Append(before, s[k]) ELSE before
      BY <1>4, <2>1
    <2>3. /\ before \in Seq(U)
          /\ \A i \in DOMAIN before : before[i] \in S /\ \E j \in 1 .. (k - 1) : s[j] = before[i]
          /\ \A j \in 1 .. (k - 1) : s[j] \in S => \E i \in DOMAIN before : before[i] = s[j]
      BY <1>7
    <2>4. \A j \in 1 .. k : j = k \/ j \in 1 .. (k - 1)
      OBVIOUS
    <2>5. 1 .. (k - 1) \subseteq 1 .. k /\ k \in 1 .. k
      OBVIOUS
    <2> HIDE DEF before
    <2>6. CASE s[k] \in S
      <3> DEFINE now == Append(before, s[k])
      <3>1. now \in Seq(U) /\ DOMAIN now = 1 .. (Len(before) + 1) /\ now[Len(before) + 1] = s[k]
        BY <2>1, <2>3
      <3>2. Len(before) \in Nat /\ DOMAIN before = 1 .. Len(before)
        BY <2>3
      <3>3. \A i \in DOMAIN before : i \in DOMAIN now /\ now[i] = before[i]
        BY <2>1, <2>3
      <3>4. \A i \in DOMAIN now : i = Len(before) + 1 \/ i \in DOMAIN before
        BY <3>1, <3>2
      <3>5. chosen[k] = now
        BY <2>2, <2>6
      <3>6. Len(before) + 1 \in DOMAIN now
        BY <3>1, <3>2
      <3> HIDE DEF now
      <3>7. \A i \in DOMAIN now : now[i] \in S /\ \E j \in 1 .. k : s[j] = now[i]
        <4> SUFFICES ASSUME NEW i \in DOMAIN now PROVE now[i] \in S /\ \E j \in 1 .. k : s[j] = now[i]
          OBVIOUS
        <4>1. CASE i = Len(before) + 1
          BY <2>5, <2>6, <3>1, <4>1
        <4>2. CASE i \in DOMAIN before
          BY <2>3, <2>5, <3>3, <4>2
        <4> QED  BY <3>4, <4>1, <4>2
      <3>8. \A j \in 1 .. k : s[j] \in S => \E i \in DOMAIN now : now[i] = s[j]
        BY <2>3, <2>4, <3>1, <3>3, <3>6
      <3> QED  BY <3>1, <3>5, <3>7, <3>8
    <2>7. CASE s[k] \notin S
      BY <2>2, <2>3, <2>4, <2>5, <2>7
    <2> QED  BY <2>6, <2>7
  <1>8. Good(Len(s))
    <2>1. 0 \in P
      BY <1>5, <1>6
    <2>2. \A k \in 1 .. Len(s) : k - 1 \in P => k \in P
      <3> SUFFICES ASSUME NEW k \in 1 .. Len(s), k - 1 \in P PROVE k \in P
        OBVIOUS
      <3>1. k \in 0 .. Len(s)
        OBVIOUS
      <3> HIDE DEF Good
      <3> QED  BY <1>7, <3>1
    <2> HIDE DEF P
    <2>3. 0 .. Len(s) \subseteq P
      BY <1>5, <2>1, <2>2, UpToBound
    <2> QED  BY <1>5, <2>3 DEF P
  <1>9. DOMAIN s = 1 .. Len(s)
    OBVIOUS
  <1> QED  BY <1>1, <1>8, <1>9

=============================================================================
