----------------------------- MODULE DataLemmas -----------------------------
(* What the proofs need to know of messages moving through sequences, of   *)
(* induction on numbers and of the delays that double.                     *)
EXTENDS Integers, Sequences, Functions, SequenceTheorems, FiniteSetTheorems,
        WellFoundedInduction, RetryTiming, TLAPS

LEMMA EmptyHasNoLength ==
  ASSUME NEW S, NEW s \in Seq(S)
  PROVE  s = <<>> <=> Len(s) = 0
BY EmptySeq

(* Moving a message from the front of one sequence to the end of another. *)

LEMMA RangeOfTail ==
  ASSUME NEW S, NEW s \in Seq(S), s # <<>>, IsInjective(s)
  PROVE  /\ Head(s) \in Range(s)
         /\ Range(Tail(s)) = Range(s) \ {Head(s)}
         /\ IsInjective(Tail(s))
<1>1. /\ Len(s) \in Nat \ {0}
      /\ DOMAIN s = 1..Len(s)
  BY EmptySeq, LenProperties
<1>2. /\ DOMAIN Tail(s) = 1..(Len(s) - 1)
      /\ \A i \in 1..(Len(s) - 1) : Tail(s)[i] = s[i + 1]
  BY <1>1, HeadTailProperties, LenProperties
<1>3. Head(s) = s[1]
  BY <1>1
<1>4. ASSUME NEW x \in Range(s) \ {Head(s)} PROVE x \in Range(Tail(s))
  <2>1. PICK i \in 1..Len(s) : s[i] = x
    BY <1>1 DEF Range
  <2>2. i # 1
    BY <2>1, <1>3, <1>4
  <2>3. i - 1 \in 1..(Len(s) - 1) /\ Tail(s)[i - 1] = x
    BY <1>1, <1>2, <2>1, <2>2
  <2> QED
    BY <2>3, <1>2 DEF Range
<1>5. ASSUME NEW x \in Range(Tail(s)) PROVE x \in Range(s) \ {Head(s)}
  <2>1. PICK i \in 1..(Len(s) - 1) : Tail(s)[i] = x
    BY <1>2 DEF Range
  <2>2. i + 1 \in 1..Len(s) /\ s[i + 1] = x /\ i + 1 # 1
    BY <1>1, <1>2, <2>1
  <2> QED
    BY <1>1, <1>3, <2>2 DEF Range, IsInjective
<1>6. IsInjective(Tail(s))
  BY <1>1, <1>2 DEF IsInjective
<1>7. Head(s) \in Range(s)
  BY <1>1, <1>3 DEF Range
<1> QED
  BY <1>4, <1>5, <1>6, <1>7

LEMMA RangeOfAppend ==
  ASSUME NEW S, NEW s \in Seq(S), NEW e \in S, IsInjective(s), e \notin Range(s)
  PROVE  /\ Range(Append(s, e)) = Range(s) \cup {e}
         /\ IsInjective(Append(s, e))
<1> DEFINE t == Append(s, e)
<1>1. /\ Len(s) \in Nat
      /\ DOMAIN s = 1..Len(s)
      /\ DOMAIN t = 1..(Len(s) + 1)
      /\ \A i \in 1..Len(s) : t[i] = s[i]
      /\ t[Len(s) + 1] = e
  BY AppendProperties, LenProperties
<1> HIDE DEF t
<1>2. ASSUME NEW x \in Range(t) PROVE x \in Range(s) \cup {e}
  BY <1>1 DEF Range
<1>3. ASSUME NEW x \in Range(s) \cup {e} PROVE x \in Range(t)
  <2>1. CASE x = e
    BY <1>1, <2>1 DEF Range
  <2>2. CASE x \in Range(s)
    <3>1. PICK i \in 1..Len(s) : s[i] = x
      BY <1>1, <2>2 DEF Range
    <3> QED
      BY <1>1, <3>1 DEF Range
  <2> QED
    BY <2>1, <2>2
<1>4. IsInjective(t)
  <2> SUFFICES ASSUME NEW i \in 1..(Len(s) + 1), NEW j \in 1..(Len(s) + 1), t[i] = t[j]
               PROVE  i = j
    BY <1>1 DEF IsInjective
  <2>1. \A k \in 1..Len(s) : t[k] \in Range(s) /\ t[k] # e
    BY <1>1 DEF Range
  <2>2. CASE i \in 1..Len(s) /\ j \in 1..Len(s)
    BY <1>1, <2>2 DEF IsInjective
  <2>3. CASE i = Len(s) + 1 \/ j = Len(s) + 1
    BY <1>1, <2>1, <2>3
  <2> QED
    BY <1>1, <2>2, <2>3
<1> QED
  BY <1>2, <1>3, <1>4 DEF t

(* The deliveries of one ReceiveMessage result.                            *)
LEMMA RangeOfNew ==
  ASSUME NEW k \in Nat, NEW n \in Nat
  PROVE  /\ Range([i \in 1..n |-> k + i]) = (k + 1)..(k + n)
         /\ IsInjective([i \in 1..n |-> k + i])
<1> DEFINE new == [i \in 1..n |-> k + i]
<1>1. ASSUME NEW x \in (k + 1)..(k + n) PROVE x \in Range(new)
  <2>1. x - k \in 1..n /\ new[x - k] = x
    OBVIOUS
  <2> QED
    BY <2>1 DEF Range
<1>2. ASSUME NEW x \in Range(new) PROVE x \in (k + 1)..(k + n)
  BY <1>2 DEF Range
<1>3. IsInjective(new)
  BY DEF IsInjective
<1> QED
  BY <1>1, <1>2, <1>3

-----------------------------------------------------------------------------
(* A set of numbers has a least one, so a set with 0 that is closed under  *)
(* successor has them all.                                                 *)
LEMMA LeastNumber ==
  ASSUME NEW T, T \subseteq Nat, T # {}
  PROVE  \E x \in T : \A y \in T : ~(y < x)
<1> DEFINE less == {p \in Nat \X Nat : p[1] < p[2]}
<1>1. IsWellFoundedOn(less, Nat)
  BY NatLessThanWellFounded DEF OpToRel
<1>2. \A x, y \in Nat : <<x, y>> \in less <=> x < y
  OBVIOUS
<1> HIDE DEF less
<1>3. \E x \in T : \A y \in T : ~(<<y, x>> \in less)
  BY WFMin, <1>1
<1> QED
  BY <1>2, <1>3

LEMMA Induction ==
  ASSUME NEW S, 0 \in S, \A n \in Nat : n \in S => n + 1 \in S
  PROVE  Nat \subseteq S
<1> SUFFICES ASSUME Nat \ S # {} PROVE FALSE
  OBVIOUS
<1>1. PICK x \in Nat \ S : \A y \in Nat \ S : ~(y < x)
  BY LeastNumber
<1>2. x - 1 \in Nat /\ x - 1 \notin S
  BY <1>1
<1> QED
  BY <1>1, <1>2

-----------------------------------------------------------------------------
(* Powers of two, as far as a delay doubles before it counts as Longest.   *)
LEMMA Doubles ==
  \A n \in 0..23 : 2 ^ n \in Nat /\ 2 ^ n >= 1 /\ 2 ^ (n + 1) = 2 * 2 ^ n
<1> DEFINE D(n) == 2 ^ n \in Nat /\ 2 ^ n >= 1 /\ 2 ^ (n + 1) = 2 * 2 ^ n
<1>1. /\ D(0) /\ D(1) /\ D(2) /\ D(3) /\ D(4) /\ D(5)
      /\ D(6) /\ D(7) /\ D(8) /\ D(9) /\ D(10) /\ D(11)
      /\ D(12) /\ D(13) /\ D(14) /\ D(15) /\ D(16) /\ D(17)
      /\ D(18) /\ D(19) /\ D(20) /\ D(21) /\ D(22) /\ D(23)
  OBVIOUS
<1>2. \A n \in 0..23 :
          \/ n = 0 \/ n = 1 \/ n = 2 \/ n = 3 \/ n = 4 \/ n = 5
          \/ n = 6 \/ n = 7 \/ n = 8 \/ n = 9 \/ n = 10 \/ n = 11
          \/ n = 12 \/ n = 13 \/ n = 14 \/ n = 15 \/ n = 16 \/ n = 17
          \/ n = 18 \/ n = 19 \/ n = 20 \/ n = 21 \/ n = 22 \/ n = 23
  OBVIOUS
<1> HIDE DEF D
<1>3. \A n \in 0..23 : D(n)
  BY <1>1, <1>2
<1> QED
  BY <1>3 DEF D

LEMMA PowersGrow ==
  ASSUME NEW i \in 0..24, NEW j \in 0..24, i <= j
  PROVE  2 ^ i \in Nat /\ 2 ^ i <= 2 ^ j
<1>1. \A k \in 0..24 : 2 ^ k \in Nat
  <2>1. \A k \in 0..24 : k \in 0..23 \/ k = 24
    OBVIOUS
  <2>2. 2 ^ 24 \in Nat
    OBVIOUS
  <2> QED
    BY <2>1, <2>2, Doubles
<1> DEFINE S == {n \in Nat : i + n <= 24 => 2 ^ i <= 2 ^ (i + n)}
<1>2. 0 \in S
  BY <1>1
<1>3. ASSUME NEW n \in Nat, n \in S PROVE n + 1 \in S
  <2> SUFFICES ASSUME i + (n + 1) <= 24 PROVE 2 ^ i <= 2 ^ (i + (n + 1))
    OBVIOUS
  <2>1. i + n \in 0..23 /\ i + (n + 1) = (i + n) + 1
    OBVIOUS
  <2>2. 2 ^ i <= 2 ^ (i + n)
    BY <1>3, <2>1
  <2>3. 2 ^ (i + n) \in Nat /\ 2 ^ ((i + n) + 1) = 2 * 2 ^ (i + n)
    BY <2>1, Doubles
  <2> QED
    BY <1>1, <2>1, <2>2, <2>3
<1>4. Nat \subseteq S
  <2> HIDE DEF S
  <2> QED
    BY <1>2, <1>3, Induction
<1>5. PICK n \in Nat : j = i + n
  <2>1. j - i \in Nat /\ j = i + (j - i)
    OBVIOUS
  <2> QED
    BY <2>1
<1>6. n \in S
  BY <1>4
<1>7. i + n <= 24
  BY <1>5
<1>8. 2 ^ i <= 2 ^ (i + n)
  BY <1>6, <1>7
<1> QED
  BY <1>1, <1>5, <1>8

(* The powers as an operator, for leaves that need no arithmetic of them.   *)
Pow2(n) == 2 ^ n

LEMMA PowersOrdered ==
  \A i, j \in 0..24 : i <= j => Pow2(i) \in Nat /\ Pow2(i) <= Pow2(j)
BY PowersGrow DEF Pow2

LEMMA PowersKnown ==
  Pow2(4) = 16 /\ Pow2(5) = 32 /\ Pow2(19) = 524288 /\ Pow2(24) = 16777216 /\ Pow2(24) = Longest
BY DEF Pow2, Longest

LEMMA PowersBounded ==
  ASSUME NEW i \in 0..24
  PROVE  /\ Pow2(i) \in Nat
         /\ Pow2(i) <= Longest
         /\ i >= 19 => Pow2(i) >= 524288
         /\ i <= 4 => Pow2(i) <= 16
         /\ i >= 5 => Pow2(i) >= 32
<1>1. 4 \in 0..24 /\ 5 \in 0..24 /\ 19 \in 0..24 /\ 24 \in 0..24 /\ i <= 24 /\ i \in Nat
  OBVIOUS
<1>2. Pow2(i) \in Nat /\ Pow2(i) <= Pow2(24)
  BY <1>1, PowersOrdered
<1>3. i >= 19 => Pow2(19) <= Pow2(i)
  BY <1>1, PowersOrdered
<1>4. i <= 4 => Pow2(i) <= Pow2(4)
  BY <1>1, PowersOrdered
<1>5. i >= 5 => Pow2(5) <= Pow2(i)
  BY <1>1, PowersOrdered
<1> QED
  BY <1>2, <1>3, <1>4, <1>5, PowersKnown

LEMMA LongestIsLong == Longest \in Nat /\ Longest >= 524288
BY DEF Longest

(* What the delay is, below Longest, up to the overflow and beyond.        *)
LEMMA DelayIs ==
  ASSUME NEW n \in Nat
  PROVE  /\ n <= 24 => Delay(n) = {Pow2(n)}
         /\ n \in 24..36 => Delay(n) = {Longest}
         /\ n > 36 => Delay(n) = {-1, Longest}
<1> DEFINE short == Smaller(BaseDelay * Pow2(Smaller(n, 24)), Longest)
<1>0. Delay(n) = IF n <= 36 THEN {short} ELSE {-1, Longest}
  BY DEF Delay, Pow2, MaxDoublings, MostNegative
<1>1. \A m \in Nat : m <= Longest => Smaller(BaseDelay * m, Longest) = m
  BY LongestIsLong DEF Smaller, BaseDelay
<1>2. ASSUME n <= 24 PROVE short = Pow2(n)
  <2>1. Smaller(n, 24) = n /\ n \in 0..24
    BY <1>2 DEF Smaller
  <2>2. Pow2(n) \in Nat /\ Pow2(n) <= Longest
    BY <2>1, PowersBounded
  <2> QED
    BY <1>1, <2>1, <2>2
<1>3. ASSUME n \in 24..36 PROVE short = Longest
  <2>1. Smaller(n, 24) = 24
    BY <1>3 DEF Smaller
  <2>2. Pow2(24) = Longest /\ Longest \in Nat
    BY PowersKnown, LongestIsLong
  <2> QED
    BY <1>1, <2>1, <2>2
<1> HIDE DEF short
<1> QED
  BY <1>0, <1>2, <1>3

(* The timeouts of the exponential rejector never shrink before the delay  *)
(* overflows, and SQS accepts none from the 20th receive until then.       *)
LEMMA TimeoutsGrow ==
  ASSUME NEW j \in 1..37, NEW k \in 1..37, j <= k,
         NEW s \in VisibilityTimeout(j), NEW t \in VisibilityTimeout(k)
  PROVE  s \in Nat /\ t \in Nat /\ s <= t
<1> DEFINE e(n) == Smaller(n - 1, 24)
<1>1. \A n \in 1..37 : e(n) \in 0..24 /\ Delay(n - 1) = {Pow2(e(n))}
  <2> SUFFICES ASSUME NEW n \in 1..37 PROVE e(n) \in 0..24 /\ Delay(n - 1) = {Pow2(e(n))}
    OBVIOUS
  <2>1. CASE n - 1 <= 24
    <3>1. e(n) = n - 1 /\ n - 1 \in 0..24 /\ n - 1 \in Nat
      BY <2>1 DEF Smaller
    <3> QED
      BY <2>1, <3>1, DelayIs
  <2>2. CASE n - 1 > 24
    <3>1. e(n) = 24 /\ n - 1 \in 24..36 /\ n - 1 \in Nat
      BY <2>2 DEF Smaller
    <3>2. Delay(n - 1) = {Longest}
      BY <3>1, DelayIs
    <3> QED
      BY <3>1, <3>2, PowersKnown
  <2> QED
    BY <2>1, <2>2
<1>2. e(j) <= e(k)
  BY DEF Smaller
<1> HIDE DEF e
<1>3. Pow2(e(j)) \in Nat /\ Pow2(e(k)) \in Nat /\ Pow2(e(j)) <= Pow2(e(k))
  BY <1>1, <1>2, PowersOrdered, PowersBounded
<1>4. s = Larger(Pow2(e(j)), MaxDelay) \div Second /\ t = Larger(Pow2(e(k)), MaxDelay) \div Second
  BY <1>1 DEF VisibilityTimeout
<1>5. /\ Larger(Pow2(e(j)), MaxDelay) \in Nat /\ Larger(Pow2(e(k)), MaxDelay) \in Nat
      /\ Larger(Pow2(e(j)), MaxDelay) <= Larger(Pow2(e(k)), MaxDelay)
  BY <1>3 DEF Larger, MaxDelay
<1>6. \A a, b \in Nat : a <= b => a \div 10 \in Nat /\ b \div 10 \in Nat /\ a \div 10 <= b \div 10
  OBVIOUS
<1> QED
  BY <1>4, <1>5, <1>6 DEF Second

(* A count is taken as it is, but for one above an int32.                  *)
LEMMA CountsAreTaken ==
  ASSUME NEW k \in Nat \ {0}
  PROVE  ReceiveCount(k) \in Nat \ {0} /\ (k <= 38 => ReceiveCount(k) = k)
<1>1. MaxReceiveCount \in Nat /\ MaxReceiveCount >= 38
  BY DEF MaxReceiveCount
<1> QED
  BY <1>1 DEF ReceiveCount

LEMMA TimeoutIsLong ==
  ASSUME NEW k \in Nat \ {0}, NEW s \in VisibilityTimeout(k), Accepted(s)
  PROVE  s \in Nat /\ s >= 2 /\ k \notin 20..37
<1>0. s \in Int /\ s <= SQSMaxVisibility
  <2>1. SQSMaxVisibility \in Int
    BY DEF SQSMaxVisibility
  <2>2. \A m \in Int : s \in 0..m => s \in Int /\ s <= m
    OBVIOUS
  <2> QED
    BY <2>1, <2>2 DEF Accepted
<1>1. PICK d \in Delay(k - 1) : s = Larger(d, MaxDelay) \div Second
  BY DEF VisibilityTimeout
<1>2. /\ k - 1 \in Nat
      /\ k - 1 \in 0..24 \/ k - 1 \in 24..36 \/ k - 1 > 36
  OBVIOUS
<1>3. d \in Int /\ (k \in 20..37 => d >= 524288)
  <2>1. CASE k - 1 \in 0..24
    <3>1. d = Pow2(k - 1)
      BY <1>1, <1>2, <2>1, DelayIs
    <3> QED
      BY <2>1, <3>1, PowersBounded
  <2>2. CASE k - 1 \in 24..36
    <3>1. d = Longest
      BY <1>1, <1>2, <2>2, DelayIs
    <3> QED
      BY <3>1, LongestIsLong
  <2>3. CASE k - 1 > 36
    <3>1. d = Longest \/ d = -1
      BY <1>1, <1>2, <2>3, DelayIs
    <3> QED
      BY <2>3, <3>1, LongestIsLong
  <2> QED
    BY <1>2, <2>1, <2>2, <2>3
<1>4. Larger(d, MaxDelay) \in Int /\ Larger(d, MaxDelay) >= 20 /\ Larger(d, MaxDelay) >= d
  BY <1>3 DEF Larger, MaxDelay
<1>5. \A a \in Int : a >= 20 => a \div 10 \in Nat /\ a \div 10 >= 2
  OBVIOUS
<1>6. \A a \in Int : a >= 524288 => a \div 10 > 43200
  OBVIOUS
<1>7. k \notin 20..37
  <2> SUFFICES ASSUME k \in 20..37 PROVE FALSE
    OBVIOUS
  <2>1. s > 43200
    BY <1>1, <1>3, <1>4, <1>6 DEF Second
  <2>2. s \in Int /\ s <= 43200
    BY <1>0 DEF SQSMaxVisibility
  <2> QED
    BY <2>1, <2>2
<1> QED
  BY <1>1, <1>4, <1>5, <1>7 DEF Second

=============================================================================
