---------------------------- MODULE ShareTargetProofs ----------------------------
(***************************************************************************)
(* Proofs about ShareTarget, for any number of words in a hash, any size   *)
(* of a byte, any difficulties, compact targets and hashes.                *)
(***************************************************************************)
EXTENDS ShareTarget, FiniteSetTheorems, TLAPS

-----------------------------------------------------------------------------
(* Induction over numbers, in a form without an operator as a parameter:   *)
(* a set of numbers has a least one, since 1..k is a strict subset of 1..m *)
(* when k is less than m.                                                  *)

LEMMA LeastNumber ==
  ASSUME NEW S, S \subseteq Nat, S # {}
  PROVE  \E m \in S : \A k \in S : m <= k
  <1> DEFINE T == {1..k : k \in S}
  <1>1. T \subseteq FiniteSubsetsOf(Nat) /\ T # {}
    <2>1. \A k \in Nat : 1..k \subseteq Nat /\ IsFiniteSet(1..k)
      BY FS_Interval
    <2> QED
      BY <2>1 DEF FiniteSubsetsOf
  <1> HIDE DEF T
  <1>2. PICK x \in T : \A y \in T : ~(<<y, x>> \in StrictSubsetOrdering(Nat))
    BY <1>1, WFMin, FS_StrictSubsetOrderingWellFounded
  <1>3. PICK m \in S : x = 1..m
    BY DEF T
  <1>4. \A k \in S : m <= k
    <2> SUFFICES ASSUME NEW k \in S, k < m PROVE FALSE
      OBVIOUS
    <2>1. 1..k \in T /\ 1..k \in SUBSET Nat /\ x \in SUBSET Nat
      BY <1>3 DEF T
    <2>2. 1..k \subseteq x /\ 1..k # x
      BY <1>3
    <2> QED
      BY <1>2, <2>1, <2>2 DEF StrictSubsetOrdering
  <1> QED
    BY <1>4

LEMMA Induction ==
  ASSUME NEW S, 0 \in S, \A k \in Nat : k \in S => k + 1 \in S
  PROVE  Nat \subseteq S
  <1> SUFFICES ASSUME ~(Nat \subseteq S) PROVE FALSE
    OBVIOUS
  <1>1. PICK m \in Nat \ S : \A k \in Nat \ S : m <= k
    BY LeastNumber
  <1>2. m # 0 /\ m - 1 \in Nat /\ m - 1 \in S
    BY <1>1
  <1>3. (m - 1) + 1 \in S
    BY <1>2
  <1> QED
    BY <1>1, <1>2, <1>3

(* The greatest of some numbers that are not greater than N.               *)
LEMMA Greatest ==
  ASSUME NEW N \in Nat, NEW S, S \subseteq 0..N, S # {}
  PROVE  Max(S) \in S /\ \A x \in S : x <= Max(S)
  <1> DEFINE T == {N - x : x \in S}
  <1>1. T \subseteq Nat /\ T # {}
    <2>1. \A x \in S : x \in 0..N /\ N - x \in Nat
      OBVIOUS
    <2> QED
      BY <2>1
  <1>2. PICK m \in T : \A k \in T : m <= k
    BY <1>1, LeastNumber
  <1>3. PICK x \in S : m = N - x
    BY <1>2
  <1>4. \A y \in S : x >= y
    <2> TAKE y \in S
    <2>1. N - x <= N - y
      BY <1>2, <1>3
    <2> QED
      BY <2>1
  <1>5. \E z \in S : \A y \in S : z >= y
    BY <1>4
  <1>6. Max(S) \in S /\ \A y \in S : Max(S) >= y
    BY <1>5 DEF Max
  <1> QED
    BY <1>6

-----------------------------------------------------------------------------
(* Powers                                                                  *)

Powers(base, m) ==
  LET power[j \in 0..m] == IF j = 0 THEN 1 ELSE base * power[j - 1] IN power

ArePowers(g, base, m) ==
  /\ g = [j \in 0..m |-> g[j]] /\ g[0] = 1
  /\ \A j \in 1..m : g[j] = base * g[j - 1]

LEMMA PowersExist ==
  ASSUME NEW base, NEW n \in Nat
  PROVE  \E g : ArePowers(g, base, n)
  <1> DEFINE Good == {m \in Nat : \E g : ArePowers(g, base, m)}
  <1>1. 0 \in Good
    <2> DEFINE g == [j \in 0..0 |-> 1]
    <2>1. g = [j \in 0..0 |-> g[j]] /\ g[0] = 1 /\ \A j \in 1..0 : g[j] = base * g[j - 1]
      OBVIOUS
    <2> HIDE DEF g
    <2>2. ArePowers(g, base, 0)
      BY <2>1 DEF ArePowers
    <2> QED
      BY <2>2
  <1>2. ASSUME NEW m \in Nat, m \in Good PROVE m + 1 \in Good
    <2>1. PICK g : ArePowers(g, base, m)
      BY <1>2
    <2> DEFINE h == [j \in 0..m + 1 |-> IF j = m + 1 THEN base * g[m] ELSE g[j]]
    <2>2. h = [j \in 0..m + 1 |-> h[j]]
      OBVIOUS
    <2>3. h[m + 1] = base * g[m] /\ \A j \in 0..m : h[j] = g[j]
      OBVIOUS
    <2> HIDE DEF h
    <2>4. ASSUME NEW j \in 1..m + 1
          PROVE  h[j] = base * h[j - 1]
      <3>1. CASE j = m + 1
        BY <2>3, <3>1
      <3>2. CASE j \in 1..m
        <4>1. j \in 0..m /\ j - 1 \in 0..m
          BY <3>2
        <4>2. h[j] = g[j] /\ h[j - 1] = g[j - 1]
          BY <2>3, <4>1
        <4> QED
          BY <2>1, <3>2, <4>2 DEF ArePowers
      <3> QED
        BY <3>1, <3>2
    <2>5. h[0] = 1
      BY <2>1, <2>3 DEF ArePowers
    <2>6. ArePowers(h, base, m + 1)
      BY <2>2, <2>4, <2>5 DEF ArePowers
    <2> QED
      BY <2>6
  <1> HIDE DEF Good
  <1>3. n \in Good
    BY <1>1, <1>2, Induction
  <1> QED
    BY <1>3 DEF Good

LEMMA PowersDef ==
  ASSUME NEW base, NEW n \in Nat
  PROVE  ArePowers(Powers(base, n), base, n) /\ Power(base, n) = Powers(base, n)[n]
  <1> DEFINE P(g) == g = [j \in 0..n |-> IF j = 0 THEN 1 ELSE base * g[j - 1]]
  <1>1. PICK g : ArePowers(g, base, n)
    BY PowersExist
  <1>2. P(g)
    <2>1. \A j \in 0..n : g[j] = IF j = 0 THEN 1 ELSE base * g[j - 1]
      <3> TAKE j \in 0..n
      <3>1. j = 0 => g[j] = 1
        BY <1>1 DEF ArePowers
      <3>2. j # 0 => j \in 1..n
        OBVIOUS
      <3>3. j \in 1..n => g[j] = base * g[j - 1]
        BY <1>1 DEF ArePowers
      <3> QED
        BY <3>1, <3>2, <3>3
    <2>2. [j \in 0..n |-> g[j]] = [j \in 0..n |-> IF j = 0 THEN 1 ELSE base * g[j - 1]]
      BY <2>1
    <2>3. g = [j \in 0..n |-> g[j]]
      BY <1>1 DEF ArePowers
    <2> QED
      BY <2>2, <2>3
  <1>3. Powers(base, n) = CHOOSE f : P(f)
    BY Zenon DEF Powers
  <1>4. Power(base, n) = Powers(base, n)[n]
    BY Zenon DEF Power, Powers
  <1> HIDE DEF P
  <1>5. P(Powers(base, n))
    BY <1>2, <1>3
  <1> DEFINE q == Powers(base, n)
  <1> HIDE DEF q
  <1>6. q = [j \in 0..n |-> IF j = 0 THEN 1 ELSE base * q[j - 1]]
    BY <1>5 DEF P, q
  <1>7. q[0] = 1 /\ \A j \in 1..n : q[j] = base * q[j - 1]
    BY <1>6
  <1>8. q = [j \in 0..n |-> q[j]]
    BY <1>6
  <1> QED
    BY <1>4, <1>7, <1>8 DEF ArePowers, q

(* The powers up to n begin with the powers up to m.                       *)
LEMMA PowersPrefix ==
  ASSUME NEW base, NEW n \in Nat, NEW m \in 0..n, NEW j \in 0..m
  PROVE  Powers(base, n)[j] = Powers(base, m)[j]
  <1> DEFINE f == Powers(base, n)
             g == Powers(base, m)
             S == {k \in Nat : k <= m => f[k] = g[k]}
  <1>1. ArePowers(f, base, n) /\ ArePowers(g, base, m)
    BY PowersDef
  <1> HIDE DEF f, g
  <1>2. 0 \in S
    BY <1>1 DEF ArePowers
  <1>3. ASSUME NEW k \in Nat, k \in S PROVE k + 1 \in S
    <2> SUFFICES ASSUME k + 1 <= m PROVE f[k + 1] = g[k + 1]
      OBVIOUS
    <2>1. k + 1 \in 1..n /\ k + 1 \in 1..m /\ (k + 1) - 1 = k
      OBVIOUS
    <2>2. f[k + 1] = base * f[k] /\ g[k + 1] = base * g[k]
      BY <1>1, <2>1 DEF ArePowers
    <2> QED
      BY <1>3, <2>2
  <1> HIDE DEF S
  <1>4. j \in S
    BY <1>2, <1>3, Induction
  <1> QED
    BY <1>4 DEF S, f, g

LEMMA PowerDef ==
  ASSUME NEW base
  PROVE  Power(base, 0) = 1 /\ \A n \in Nat : Power(base, n + 1) = base * Power(base, n)
  <1>1. Power(base, 0) = 1
    BY PowersDef DEF ArePowers
  <1>2. ASSUME NEW n \in Nat PROVE Power(base, n + 1) = base * Power(base, n)
    <2>1. n + 1 \in Nat /\ n \in 0..n + 1 /\ n \in 0..n /\ n + 1 \in 1..n + 1 /\ (n + 1) - 1 = n
      OBVIOUS
    <2>2. Powers(base, n + 1)[n] = Powers(base, n)[n]
      BY <2>1, PowersPrefix
    <2>3. Powers(base, n + 1)[n + 1] = base * Powers(base, n + 1)[n]
      BY <2>1, PowersDef DEF ArePowers
    <2> QED
      BY <2>1, <2>2, <2>3, PowersDef
  <1> QED
    BY <1>1, <1>2

LEMMA PowerType ==
  ASSUME NEW base \in Nat \ {0}, NEW n \in Nat
  PROVE  Power(base, n) \in Nat \ {0}
  <1> DEFINE S == {k \in Nat : Power(base, k) \in Nat \ {0}}
  <1>1. 0 \in S
    BY PowerDef
  <1>2. ASSUME NEW k \in Nat, k \in S PROVE k + 1 \in S
    <2>1. Power(base, k + 1) = base * Power(base, k)
      BY PowerDef
    <2>2. \A x, y \in Nat \ {0} : x * y \in Nat \ {0}
      OBVIOUS
    <2> QED
      BY <1>2, <2>1, <2>2
  <1> HIDE DEF S
  <1> QED
    BY <1>1, <1>2, Induction DEF S

LEMMA PowerSum ==
  ASSUME NEW base \in Nat \ {0}, NEW m \in Nat, NEW n \in Nat
  PROVE  Power(base, m + n) = Power(base, m) * Power(base, n)
  <1> DEFINE S == {k \in Nat : Power(base, m + k) = Power(base, m) * Power(base, k)}
  <1>0. Power(base, m) \in Nat
    BY PowerType
  <1>1. 0 \in S
    BY <1>0, PowerDef
  <1>2. ASSUME NEW k \in Nat, k \in S PROVE k + 1 \in S
    <2>1. m + k \in Nat /\ m + (k + 1) = (m + k) + 1
      OBVIOUS
    <2>2. /\ Power(base, (m + k) + 1) = base * Power(base, m + k)
          /\ Power(base, k + 1) = base * Power(base, k)
      BY <2>1, PowerDef
    <2>3. Power(base, k) \in Nat
      BY PowerType
    <2>4. \A x, y, z \in Nat : x * (y * z) = y * (x * z)
      OBVIOUS
    <2>5. Power(base, m + k) = Power(base, m) * Power(base, k)
      BY <1>2
    <2>6. base * (Power(base, m) * Power(base, k)) = Power(base, m) * (base * Power(base, k))
      BY <1>0, <2>3, <2>4
    <2> QED
      BY <2>1, <2>2, <2>5, <2>6
  <1> HIDE DEF S
  <1> QED
    BY <1>1, <1>2, Induction DEF S

(* The constants.                                                          *)
LEMMA Sizes ==
  /\ ByteRadix \in Nat \ {0, 1} /\ Half \in Nat \ {0, 1} /\ Radix \in Nat \ {0, 1}
  /\ Words \in Nat \ {0, 1, 2} /\ Top \in Nat /\ Top = Words - 1
  /\ Bytes \in Nat /\ Bytes = 4 * Words
  <1>1. \A x \in Nat \ {0, 1} : x * x \in Nat \ {0, 1}
    OBVIOUS
  <1>2. ByteRadix \in Nat \ {0, 1}
    BY TargetAssumption
  <1>3. Half \in Nat \ {0, 1} /\ Radix \in Nat \ {0, 1}
    BY <1>1, <1>2 DEF Half, Radix
  <1> QED
    BY <1>2, <1>3, TargetAssumption DEF Top, Bytes

(* A word has four bytes.                                                  *)
LEMMA RadixPower ==
  ASSUME NEW n \in Nat
  PROVE  Power(Radix, n) = Power(ByteRadix, 4 * n)
  <1> DEFINE S == {k \in Nat : Power(Radix, k) = Power(ByteRadix, 4 * k)}
  <1>1. 0 \in S
    BY PowerDef
  <1>2. Power(ByteRadix, 4) = Radix
    <2>1. /\ Power(ByteRadix, 0) = 1 /\ Power(ByteRadix, 0 + 1) = ByteRadix * Power(ByteRadix, 0)
          /\ Power(ByteRadix, 1 + 1) = ByteRadix * Power(ByteRadix, 1)
          /\ Power(ByteRadix, 2 + 1) = ByteRadix * Power(ByteRadix, 2)
          /\ Power(ByteRadix, 3 + 1) = ByteRadix * Power(ByteRadix, 3)
      BY PowerDef
    <2>2. 0 + 1 = 1 /\ 1 + 1 = 2 /\ 2 + 1 = 3 /\ 3 + 1 = 4
      OBVIOUS
    <2>3. \A x \in Nat : x * (x * (x * (x * 1))) = (x * x) * (x * x)
      OBVIOUS
    <2> QED
      BY <2>1, <2>2, <2>3, Sizes DEF Half, Radix
  <1>3. ASSUME NEW k \in Nat, k \in S PROVE k + 1 \in S
    <2>1. Power(Radix, k + 1) = Radix * Power(Radix, k)
      BY PowerDef
    <2>2. 4 * (k + 1) = 4 + 4 * k /\ 4 * k \in Nat
      OBVIOUS
    <2>3. Power(ByteRadix, 4 + 4 * k) = Power(ByteRadix, 4) * Power(ByteRadix, 4 * k)
      BY <2>2, PowerSum, Sizes
    <2> QED
      BY <1>2, <1>3, <2>1, <2>2, <2>3
  <1> HIDE DEF S
  <1> QED
    BY <1>1, <1>3, Induction DEF S

-----------------------------------------------------------------------------
(* The number that an array of words makes                                 *)

Word == 0..Radix - 1
Array == [0..Top -> Word]

IsUpper(g, w, m) ==
  /\ g = [k \in 0..m |-> g[k]] /\ g[0] = 0
  /\ \A k \in 1..m : g[k] = Radix * g[k - 1] + w[Words - k]

LEMMA UpperExists ==
  ASSUME NEW w, NEW n \in Nat
  PROVE  \E g : IsUpper(g, w, n)
  <1> DEFINE Good == {m \in Nat : \E g : IsUpper(g, w, m)}
  <1>1. 0 \in Good
    <2> DEFINE g == [k \in 0..0 |-> 0]
    <2>1. g = [k \in 0..0 |-> g[k]] /\ g[0] = 0
          /\ \A k \in 1..0 : g[k] = Radix * g[k - 1] + w[Words - k]
      OBVIOUS
    <2> HIDE DEF g
    <2>2. IsUpper(g, w, 0)
      BY <2>1 DEF IsUpper
    <2> QED
      BY <2>2
  <1>2. ASSUME NEW m \in Nat, m \in Good PROVE m + 1 \in Good
    <2>1. PICK g : IsUpper(g, w, m)
      BY <1>2
    <2> DEFINE new == Radix * g[m] + w[Words - (m + 1)]
               h == [k \in 0..m + 1 |-> IF k = m + 1 THEN new ELSE g[k]]
    <2> HIDE DEF new
    <2>2. h = [k \in 0..m + 1 |-> h[k]]
      OBVIOUS
    <2>3. h[m + 1] = new /\ \A k \in 0..m : h[k] = g[k]
      OBVIOUS
    <2> HIDE DEF h
    <2>4. ASSUME NEW k \in 1..m + 1
          PROVE  h[k] = Radix * h[k - 1] + w[Words - k]
      <3>1. CASE k = m + 1
        <4>1. k - 1 = m /\ h[m] = g[m]
          BY <2>3, <3>1
        <4> QED
          BY <2>3, <3>1, <4>1 DEF new
      <3>2. CASE k \in 1..m
        <4>1. k \in 0..m /\ k - 1 \in 0..m
          BY <3>2
        <4>2. h[k] = g[k] /\ h[k - 1] = g[k - 1]
          BY <2>3, <4>1
        <4> QED
          BY <2>1, <3>2, <4>2 DEF IsUpper
      <3> QED
        BY <3>1, <3>2
    <2>5. h[0] = 0
      BY <2>1, <2>3 DEF IsUpper
    <2>6. IsUpper(h, w, m + 1)
      BY <2>2, <2>4, <2>5 DEF IsUpper
    <2> QED
      BY <2>6
  <1> HIDE DEF Good
  <1>3. n \in Good
    BY <1>1, <1>2, Induction
  <1> QED
    BY <1>3 DEF Good

LEMMA UpperDef ==
  ASSUME NEW w
  PROVE  /\ Upper(w)[0] = 0
         /\ \A k \in 1..Words : Upper(w)[k] = Radix * Upper(w)[k - 1] + w[Words - k]
  <1> DEFINE P(g) == g = [k \in 0..Words |->
                            IF k = 0 THEN 0 ELSE Radix * g[k - 1] + w[Words - k]]
  <1>0. Words \in Nat
    BY Sizes
  <1>1. PICK g : IsUpper(g, w, Words)
    BY <1>0, UpperExists
  <1>2. P(g)
    <2>1. \A k \in 0..Words : g[k] = IF k = 0 THEN 0 ELSE Radix * g[k - 1] + w[Words - k]
      <3> TAKE k \in 0..Words
      <3>1. k = 0 => g[k] = 0
        BY <1>1 DEF IsUpper
      <3>2. k # 0 => k \in 1..Words
        BY <1>0
      <3>3. k \in 1..Words => g[k] = Radix * g[k - 1] + w[Words - k]
        BY <1>1 DEF IsUpper
      <3> QED
        BY <3>1, <3>2, <3>3
    <2>2. [k \in 0..Words |-> g[k]] =
            [k \in 0..Words |-> IF k = 0 THEN 0 ELSE Radix * g[k - 1] + w[Words - k]]
      BY <2>1
    <2>3. g = [k \in 0..Words |-> g[k]]
      BY <1>1 DEF IsUpper
    <2> QED
      BY <2>2, <2>3
  <1>3. Upper(w) = CHOOSE f : P(f)
    BY Zenon DEF Upper
  <1> HIDE DEF P
  <1>4. P(Upper(w))
    BY <1>2, <1>3
  <1> DEFINE u == Upper(w)
  <1> HIDE DEF u
  <1>5. u = [k \in 0..Words |-> IF k = 0 THEN 0 ELSE Radix * u[k - 1] + w[Words - k]]
    BY <1>4 DEF P, u
  <1>6. u[0] = 0 /\ \A k \in 1..Words : u[k] = Radix * u[k - 1] + w[Words - k]
    BY <1>0, <1>5
  <1> QED
    BY <1>6 DEF u

(* One word further down.                                                  *)
LEMMA UpperNext ==
  ASSUME NEW w \in Array, NEW k \in 0..Words - 1
  PROVE  /\ w[Top - k] \in Word
         /\ Upper(w)[k + 1] = Radix * Upper(w)[k] + w[Top - k]
  <1>1. k + 1 \in 1..Words /\ (k + 1) - 1 = k /\ Words - (k + 1) = Top - k /\ Top - k \in 0..Top
    BY Sizes
  <1> QED
    BY <1>1, UpperDef DEF Array

LEMMA UpperType ==
  ASSUME NEW w \in Array, NEW k \in 0..Words
  PROVE  Upper(w)[k] \in Nat /\ Upper(w)[k] < Power(Radix, k)
  <1> DEFINE S == {j \in Nat : j <= Words => Upper(w)[j] \in Nat /\ Upper(w)[j] < Power(Radix, j)}
  <1>1. 0 \in S
    BY UpperDef, PowerDef
  <1>2. ASSUME NEW j \in Nat, j \in S PROVE j + 1 \in S
    <2> SUFFICES ASSUME j + 1 <= Words
                 PROVE  Upper(w)[j + 1] \in Nat /\ Upper(w)[j + 1] < Power(Radix, j + 1)
      OBVIOUS
    <2>1. j \in 0..Words - 1
      BY Sizes
    <2>2. w[Top - j] \in Word /\ Upper(w)[j + 1] = Radix * Upper(w)[j] + w[Top - j]
      BY <2>1, UpperNext
    <2>3. Upper(w)[j] \in Nat /\ Upper(w)[j] < Power(Radix, j)
      BY <1>2, Sizes
    <2>4. Power(Radix, j) \in Nat /\ Power(Radix, j + 1) = Radix * Power(Radix, j)
      BY PowerDef, PowerType, Sizes
    <2>5. \A r, x, y, a \in Nat : x < y /\ a < r => r * x + a \in Nat /\ r * x + a < r * y
      OBVIOUS
    <2>6. w[Top - j] \in Nat /\ w[Top - j] < Radix /\ Radix \in Nat
      BY <2>2, Sizes DEF Word
    <2> QED
      BY <2>2, <2>3, <2>4, <2>5, <2>6
  <1> HIDE DEF S
  <1>3. k \in S
    BY <1>1, <1>2, Induction, Sizes
  <1> QED
    BY <1>3 DEF S

LEMMA NumberType ==
  ASSUME NEW w \in Array
  PROVE  Number(w) \in Nat /\ Number(w) < Power(Radix, Words)
  BY UpperType, Sizes DEF Number

(* Arrays whose top words are the same.                                    *)
LEMMA UpperSame ==
  ASSUME NEW a \in Array, NEW b \in Array, NEW m \in 0..Words,
         \A j \in 0..Top : j >= Words - m => a[j] = b[j]
  PROVE  Upper(a)[m] = Upper(b)[m]
  <1> DEFINE S == {k \in Nat : k <= m => Upper(a)[k] = Upper(b)[k]}
  <1>1. 0 \in S
    BY UpperDef
  <1>2. ASSUME NEW k \in Nat, k \in S PROVE k + 1 \in S
    <2> SUFFICES ASSUME k + 1 <= m PROVE Upper(a)[k + 1] = Upper(b)[k + 1]
      OBVIOUS
    <2>1. k \in 0..Words - 1 /\ Top - k \in 0..Top /\ Top - k >= Words - m
      BY Sizes
    <2>2. Upper(a)[k] = Upper(b)[k]
      BY <1>2
    <2>3. Upper(a)[k + 1] = Radix * Upper(a)[k] + a[Top - k]
      BY <2>1, UpperNext
    <2>4. Upper(b)[k + 1] = Radix * Upper(b)[k] + b[Top - k]
      BY <2>1, UpperNext
    <2> QED
      BY <2>1, <2>2, <2>3, <2>4
  <1> HIDE DEF S
  <1>3. m \in S
    BY <1>1, <1>2, Induction, Sizes
  <1> QED
    BY <1>3 DEF S

(* What is less in the top words is less.                                  *)
LEMMA UpperLess ==
  ASSUME NEW a \in Array, NEW b \in Array, NEW m \in 0..Words,
         Upper(a)[m] < Upper(b)[m]
  PROVE  Number(a) < Number(b)
  <1> DEFINE S == {k \in Nat : m + k <= Words => Upper(a)[m + k] < Upper(b)[m + k]}
  <1>1. 0 \in S
    BY Sizes
  <1>2. ASSUME NEW k \in Nat, k \in S PROVE k + 1 \in S
    <2> SUFFICES ASSUME m + (k + 1) <= Words
                 PROVE  Upper(a)[m + (k + 1)] < Upper(b)[m + (k + 1)]
      OBVIOUS
    <2> DEFINE j == m + k
    <2>1. j \in 0..Words - 1 /\ j \in 0..Words /\ m + (k + 1) = j + 1
      BY Sizes
    <2>2. Upper(a)[j] < Upper(b)[j]
      BY <1>2, <2>1
    <2> HIDE DEF j
    <2>3. Upper(a)[j + 1] = Radix * Upper(a)[j] + a[Top - j] /\ a[Top - j] \in Word
      BY <2>1, UpperNext
    <2>4. Upper(b)[j + 1] = Radix * Upper(b)[j] + b[Top - j] /\ b[Top - j] \in Word
      BY <2>1, UpperNext
    <2>5. Upper(a)[j] \in Nat /\ Upper(b)[j] \in Nat
      BY <2>1, UpperType
    <2>6. \A r, x, y, c, d \in Nat : x < y /\ c < r => r * x + c < r * y + d
      OBVIOUS
    <2>7. a[Top - j] \in Nat /\ a[Top - j] < Radix /\ b[Top - j] \in Nat /\ Radix \in Nat
      BY <2>3, <2>4, Sizes DEF Word
    <2>8. Upper(a)[j + 1] < Upper(b)[j + 1]
      BY <2>2, <2>3, <2>4, <2>5, <2>6, <2>7
    <2> QED
      BY <2>1, <2>8
  <1> HIDE DEF S
  <1>3. Words - m \in S
    BY <1>1, <1>2, Induction, Sizes
  <1>4. m + (Words - m) = Words
    BY Sizes
  <1> QED
    BY <1>3, <1>4, Sizes DEF S, Number

(* The words above d are the same, and at d the first is less.             *)
LEMMA FirstDifference ==
  ASSUME NEW a \in Array, NEW b \in Array, NEW d \in 0..Top,
         \A j \in 0..Top : j > d => a[j] = b[j],
         a[d] < b[d]
  PROVE  Number(a) < Number(b)
  <1> DEFINE m == Top - d
  <1>1. m \in 0..Words - 1 /\ m \in 0..Words /\ m + 1 \in 0..Words /\ Top - m = d
        /\ \A j \in 0..Top : j >= Words - m => j > d
    BY Sizes
  <1> HIDE DEF m
  <1>2. Upper(a)[m] = Upper(b)[m] /\ Upper(a)[m] \in Nat
    BY <1>1, UpperSame, UpperType
  <1>3. Upper(a)[m + 1] = Radix * Upper(a)[m] + a[d] /\ a[d] \in Word
    BY <1>1, UpperNext
  <1>4. Upper(b)[m + 1] = Radix * Upper(b)[m] + b[d] /\ b[d] \in Word
    BY <1>1, UpperNext
  <1>5. \A x, c, e \in Nat : c < e => x + c < x + e
    OBVIOUS
  <1>6. Radix * Upper(a)[m] \in Nat /\ a[d] \in Nat /\ b[d] \in Nat
    BY <1>2, <1>3, <1>4, Sizes DEF Word
  <1>7. Upper(a)[m + 1] < Upper(b)[m + 1]
    BY <1>2, <1>3, <1>4, <1>5, <1>6
  <1> QED
    BY <1>1, <1>7, UpperLess

(* fulltest, which compares word by word, compares the numbers.            *)
LEMMA FulltestCompares ==
  ASSUME NEW h \in Array, NEW t \in Array
  PROVE  fulltest(h, t) <=> Number(h) <= Number(t)
  <1>n. Number(h) \in Nat /\ Number(t) \in Nat
    BY NumberType
  <1>1. CASE Different(h, t) = {}
    <2>1. h = t
      <3>1. \A j \in 0..Top : h[j] = t[j]
        BY <1>1 DEF Different
      <3>2. h = [j \in 0..Top |-> h[j]] /\ t = [j \in 0..Top |-> t[j]]
        BY DEF Array
      <3>3. [j \in 0..Top |-> h[j]] = [j \in 0..Top |-> t[j]]
        BY <3>1
      <3> QED
        BY <3>2, <3>3
    <2> QED
      BY <1>n, <1>1, <2>1 DEF fulltest
  <1>2. CASE Different(h, t) # {}
    <2> DEFINE d == Max(Different(h, t))
    <2>1. d \in Different(h, t) /\ \A j \in Different(h, t) : j <= d
      BY <1>2, Greatest, Sizes DEF Different
    <2> HIDE DEF d
    <2>2. d \in 0..Top /\ h[d] # t[d] /\ \A j \in 0..Top : j > d => h[j] = t[j]
      BY <2>1 DEF Different
    <2>3. h[d] \in Nat /\ t[d] \in Nat
      BY <2>2, Sizes DEF Array, Word
    <2>4. CASE h[d] < t[d]
      <3>1. Number(h) < Number(t)
        BY <2>2, <2>4, FirstDifference
      <3> QED
        BY <1>n, <1>2, <2>4, <3>1 DEF fulltest, d
    <2>5. CASE t[d] < h[d]
      <3>1. Number(t) < Number(h)
        BY <2>2, <2>5, FirstDifference
      <3>2. ~(h[d] < t[d])
        BY <2>3, <2>5
      <3> QED
        BY <1>n, <1>2, <3>1, <3>2 DEF fulltest, d
    <2> QED
      BY <2>2, <2>3, <2>4, <2>5
  <1> QED
    BY <1>1, <1>2

-----------------------------------------------------------------------------
(* Products and quotients                                                  *)

LEMMA ProductType ==
  /\ \A x, y \in Nat : x * y \in Nat
  /\ \A x, y \in Nat \ {0} : x * y \in Nat \ {0}
  OBVIOUS

LEMMA ProductMonotonic == \A x, y, z \in Nat : x <= y => x * z <= y * z
  OBVIOUS

LEMMA ProductCancels == \A x, y \in Nat, z \in Nat \ {0} : x * z <= y * z => x <= y
  OBVIOUS

LEMMA Division ==
  ASSUME NEW n \in Nat, NEW d \in Nat \ {0}
  PROVE  /\ n \div d \in Nat /\ n % d \in 0..d - 1
         /\ n = d * (n \div d) + (n % d)
  OBVIOUS

LEMMA DivisionUnique ==
  ASSUME NEW d \in Nat \ {0}, NEW q \in Nat, NEW r \in 0..d - 1
  PROVE  (d * q + r) \div d = q
  <1> DEFINE n == d * q + r
             p == n \div d
             s == n % d
  <1>1. n \in Nat
    OBVIOUS
  <1> HIDE DEF n
  <1>2. p \in Nat /\ s \in 0..d - 1 /\ n = d * p + s
    BY <1>1, Division
  <1> HIDE DEF p, s
  <1>3. d * p + s = d * q + r
    BY <1>2 DEF n
  <1>4. \A x, y, a, b \in Nat : x < y /\ a < d => d * x + a < d * y + b
    OBVIOUS
  <1>5. ~(p < q) /\ ~(q < p)
    <2>1. p < q => d * p + s < d * q + r
      BY <1>2, <1>4
    <2>2. q < p => d * q + r < d * p + s
      BY <1>2, <1>4
    <2>3. d * p + s \in Nat /\ d * q + r \in Nat
      BY <1>2
    <2> QED
      BY <1>3, <2>1, <2>2, <2>3
  <1>6. p = q
    BY <1>2, <1>5
  <1> QED
    BY <1>6 DEF n, p

(* Dividing twice is dividing by the product.                              *)
LEMMA DivisionTwice ==
  ASSUME NEW n \in Nat, NEW d \in Nat \ {0}, NEW e \in Nat \ {0}
  PROVE  n \div d = e * (n \div (e * d)) + ((n \div d) % e)
  <1> DEFINE q == n \div d
             r == n % d
             q2 == q \div e
             r2 == q % e
  <1>1. q \in Nat /\ r \in 0..d - 1 /\ n = d * q + r
    BY Division
  <1> HIDE DEF q, r
  <1>2. q2 \in Nat /\ r2 \in 0..e - 1 /\ q = e * q2 + r2
    BY <1>1, Division
  <1> HIDE DEF q2, r2
  <1>3. e * d \in Nat \ {0}
    BY ProductType
  <1>4. n = (e * d) * q2 + (d * r2 + r)
    <2>1. \A x, y, z, u, v \in Nat : x * (y * z + u) + v = (y * x) * z + (x * u + v)
      OBVIOUS
    <2>2. d * (e * q2 + r2) + r = (e * d) * q2 + (d * r2 + r)
      BY <1>1, <1>2, <2>1
    <2> QED
      BY <1>1, <1>2, <2>2
  <1>5. d * r2 + r \in 0..(e * d) - 1
    <2>1. \A x, y, u, v \in Nat : u < y /\ v < x => x * u + v \in Nat /\ x * u + v < y * x
      OBVIOUS
    <2>2. d * r2 + r \in Nat /\ d * r2 + r < e * d
      BY <1>1, <1>2, <2>1
    <2> QED
      BY <1>3, <2>2
  <1>6. n \div (e * d) = q2
    <2> DEFINE ed == e * d
               rest == d * r2 + r
    <2>1. ed \in Nat \ {0} /\ rest \in 0..ed - 1 /\ n = ed * q2 + rest
      BY <1>3, <1>4, <1>5
    <2> HIDE DEF ed, rest
    <2>2. n \div ed = q2
      BY <1>2, <2>1, DivisionUnique
    <2> QED
      BY <2>2 DEF ed
  <1>7. q = e * (n \div (e * d)) + r2
    BY <1>2, <1>6
  <1> QED
    BY <1>7 DEF q, r2

-----------------------------------------------------------------------------
(* Numbers written into arrays                                             *)

LEMMA ToWordsType ==
  ASSUME NEW n \in Nat
  PROVE  ToWords(n) \in Array
  <1>1. ASSUME NEW j \in 0..Top PROVE (n \div Power(Radix, j)) % Radix \in Word
    <2>1. Power(Radix, j) \in Nat \ {0}
      BY PowerType, Sizes
    <2>2. n \div Power(Radix, j) \in Nat
      BY <2>1, Division
    <2> QED
      BY <2>2, Division, Sizes DEF Word
  <1> QED
    BY <1>1 DEF ToWords, Array

LEMMA ToWordsNumber ==
  ASSUME NEW n \in Nat, n < Power(Radix, Words)
  PROVE  Number(ToWords(n)) = n
  <1> DEFINE w == ToWords(n)
             S == {k \in Nat : k <= Words => Upper(w)[k] = n \div Power(Radix, Words - k)}
  <1>w. w \in Array
    BY ToWordsType
  <1>1. 0 \in S
    <2>1. Power(Radix, Words) \in Nat \ {0}
      BY PowerType, Sizes
    <2> DEFINE p == Power(Radix, Words)
    <2> HIDE DEF p
    <2>2. n \div p = 0
      <3>1. p \in Nat \ {0} /\ n \in 0..p - 1 /\ p * 0 + n = n
        BY <2>1 DEF p
      <3> QED
        BY <3>1, DivisionUnique
    <2>3. Upper(w)[0] = 0 /\ Words - 0 = Words
      BY UpperDef, Sizes
    <2> QED
      BY <2>2, <2>3 DEF p
  <1>2. ASSUME NEW k \in Nat, k \in S PROVE k + 1 \in S
    <2> SUFFICES ASSUME k + 1 <= Words
                 PROVE  Upper(w)[k + 1] = n \div Power(Radix, Words - (k + 1))
      OBVIOUS
    <2>1. k \in 0..Words - 1 /\ Top - k \in Nat /\ Top - k \in 0..Top
          /\ Words - k = (Top - k) + 1 /\ Words - (k + 1) = Top - k
      BY Sizes
    <2>2. Upper(w)[k] = n \div Power(Radix, Words - k)
      <3>1. k <= Words
        BY <2>1, Sizes
      <3> QED
        BY <1>2, <3>1
    <2> DEFINE p == Power(Radix, Top - k)
    <2>3. p \in Nat \ {0} /\ Power(Radix, Words - k) = Radix * p
      BY <2>1, PowerType, PowerDef, Sizes
    <2>4. Upper(w)[k + 1] = Radix * Upper(w)[k] + w[Top - k]
      BY <1>w, <2>1, UpperNext
    <2>5. w[Top - k] = (n \div p) % Radix
      BY <2>1 DEF ToWords
    <2> HIDE DEF p
    <2>6. n \div p = Radix * (n \div (Radix * p)) + ((n \div p) % Radix)
      BY <2>3, DivisionTwice, Sizes
    <2>7. Upper(w)[k + 1] = n \div p
      BY <2>2, <2>3, <2>4, <2>5, <2>6
    <2> QED
      BY <2>1, <2>7 DEF p
  <1> HIDE DEF S
  <1>3. Words \in S
    BY <1>1, <1>2, Induction, Sizes
  <1>4. Upper(w)[Words] = n \div Power(Radix, Words - Words)
    BY <1>3, Sizes DEF S
  <1>5. Words - Words = 0 /\ Power(Radix, 0) = 1 /\ n \div 1 = n
    BY PowerDef, Sizes
  <1> QED
    BY <1>4, <1>5 DEF Number

(* A number of two words that stands at the words k and k + 1.             *)
LEMMA TwoWords ==
  ASSUME NEW k \in 0..Words - 2, NEW m \in Nat, m < Radix * Radix
  PROVE  LET w == [[j \in 0..Top |-> 0] EXCEPT ![k] = m % Radix, ![k + 1] = m \div Radix]
         IN  w \in Array /\ Number(w) = m * Power(Radix, k)
  <1> DEFINE lo == m % Radix
             hi == m \div Radix
             w == [[j \in 0..Top |-> 0] EXCEPT ![k] = lo, ![k + 1] = hi]
  <1>k. k \in 0..Top /\ k + 1 \in 0..Top /\ k \in Nat /\ k # k + 1 /\ k + 1 <= Top
    BY Sizes
  <1>1. hi \in Nat /\ lo \in 0..Radix - 1 /\ m = Radix * hi + lo
    BY Division, Sizes
  <1> HIDE DEF hi, lo
  <1>2. hi \in Word /\ lo \in Word /\ 0 \in Word
    <2>1. \A r \in Nat \ {0}, x, y \in Nat : r * x + y < r * r => x < r
      OBVIOUS
    <2>2. hi < Radix
      BY <1>1, <2>1, Sizes
    <2> QED
      BY <1>1, <2>2, Sizes DEF Word
  <1>3. w \in Array
    BY <1>2 DEF Array
  <1>4. w[k] = lo /\ w[k + 1] = hi /\ \A j \in 0..Top : j \notin {k, k + 1} => w[j] = 0
    BY <1>k
  <1> HIDE DEF w
  <1> DEFINE U == Upper(w)
             n == Top - k - 1
             S == {j \in Nat : j <= n => U[j] = 0}
             T == {j \in Nat : j <= k => U[Words - k + j] = m * Power(Radix, j)}
  <1>5. n \in Nat /\ n \in 0..Words - 1 /\ n + 1 \in 0..Words - 1 /\ n + 2 = Words - k
        /\ Top - n = k + 1 /\ Top - (n + 1) = k
    BY <1>k, Sizes
  <1>6. U[0] = 0
    BY UpperDef
  <1>7. \A j \in 0..Words - 1 : U[j + 1] = Radix * U[j] + w[Top - j]
    BY <1>3, UpperNext
  <1> HIDE DEF U
  <1>8. U[n] = 0
    <2>1. 0 \in S
      BY <1>6
    <2>2. ASSUME NEW j \in Nat, j \in S PROVE j + 1 \in S
      <3> SUFFICES ASSUME j + 1 <= n PROVE U[j + 1] = 0
        OBVIOUS
      <3>1. j \in 0..Words - 1 /\ Top - j \in 0..Top /\ Top - j > k + 1
        BY Sizes
      <3>2. U[j] = 0
        BY <2>2, <1>5
      <3>3. w[Top - j] = 0
        BY <1>4, <3>1
      <3> QED
        BY <1>7, <3>1, <3>2, <3>3, Sizes
    <2> HIDE DEF S
    <2>3. n \in S
      BY <1>5, <2>1, <2>2, Induction
    <2> QED
      BY <1>5, <2>3 DEF S
  <1>9. U[n + 1] = hi
    <2>1. U[n + 1] = Radix * U[n] + w[k + 1]
      BY <1>5, <1>7
    <2> QED
      BY <1>1, <1>4, <1>8, <2>1, Sizes
  <1>10. U[Words - k] = m
    <2>1. U[(n + 1) + 1] = Radix * U[n + 1] + w[k]
      BY <1>5, <1>7
    <2>2. (n + 1) + 1 = Words - k
      BY <1>5
    <2> QED
      BY <1>1, <1>4, <1>9, <2>1, <2>2
  <1>11. 0 \in T
    <2>1. Words - k + 0 = Words - k /\ m * 1 = m
      BY <1>k, Sizes
    <2> QED
      BY <1>10, <2>1, PowerDef
  <1>12. ASSUME NEW j \in Nat, j \in T PROVE j + 1 \in T
    <2> SUFFICES ASSUME j + 1 <= k
                 PROVE  U[Words - k + (j + 1)] = m * Power(Radix, j + 1)
      OBVIOUS
    <2>1. /\ Words - k + j \in 0..Words - 1 /\ Words - k + (j + 1) = (Words - k + j) + 1
          /\ Top - (Words - k + j) \in 0..Top /\ Top - (Words - k + j) < k
      BY <1>k, Sizes
    <2>2. U[Words - k + j] = m * Power(Radix, j)
      BY <1>12, <1>k
    <2>3. w[Top - (Words - k + j)] = 0
      BY <1>4, <2>1
    <2>4. U[(Words - k + j) + 1] = Radix * (m * Power(Radix, j)) + 0
      BY <1>7, <2>1, <2>2, <2>3
    <2>5. Power(Radix, j) \in Nat /\ Power(Radix, j + 1) = Radix * Power(Radix, j)
      BY PowerType, PowerDef, Sizes
    <2>6. \A r, x, y \in Nat : r * (x * y) + 0 = x * (r * y)
      OBVIOUS
    <2>7. Radix * (m * Power(Radix, j)) + 0 = m * (Radix * Power(Radix, j))
      BY <2>5, <2>6, Sizes
    <2> QED
      BY <2>1, <2>4, <2>5, <2>7
  <1> HIDE DEF T
  <1>13. k \in T
    BY <1>k, <1>11, <1>12, Induction
  <1>14. U[Words - k + k] = m * Power(Radix, k)
    BY <1>k, <1>13 DEF T
  <1>15. Words - k + k = Words
    BY <1>k, Sizes
  <1>16. Number(w) = m * Power(Radix, k)
    BY <1>14, <1>15 DEF Number, U
  <1> QED
    BY <1>3, <1>16 DEF w, lo, hi

-----------------------------------------------------------------------------
(* diff_to_target                                                          *)

LEMMA FirstWordBelow ==
  ASSUME NEW diff
  PROVE  FirstWord(diff) \in 0..Words - 2 /\ Below(FirstWord(diff), diff)
  <1> DEFINE S == {k \in 0..(Words - 2) : Below(k, diff)}
  <1>1. Words - 2 \in Nat /\ S \subseteq 0..(Words - 2)
    BY Sizes
  <1>2. 0 \in S
    BY <1>1 DEF Below
  <1> HIDE DEF S
  <1>3. Max(S) \in S
    BY <1>1, <1>2, Greatest
  <1> QED
    BY <1>3 DEF FirstWord, S

(* The quotient is rounded down, and so is one that does not fit.          *)
LEMMA QuotientsSmall ==
  ASSUME NEW diff, diff.num \in Nat \ {0}, diff.den \in Nat \ {0},
         NEW k \in 0..Words - 2, NEW m \in Quotients(diff, k)
  PROVE  LET whole == (Half - 1) * Half * Divided(diff, k).den
         IN  /\ m \in Nat /\ m < Radix * Radix /\ m * diff.num <= whole
             /\ whole < diff.num \/ m > 0 \/ Radix * Radix * diff.num <= whole
  <1> DEFINE whole == (Half - 1) * Half * Divided(diff, k).den
             q == whole \div diff.num
             r == whole % diff.num
             square == Radix * Radix
             num == diff.num
  <1>1. whole \in Nat
    <2>1. Words - 2 - k \in Nat
      BY Sizes
    <2>2. Divided(diff, k).den \in Nat
      BY <2>1, PowerType, ProductType, Sizes DEF Divided, Fraction
    <2>3. Half - 1 \in Nat /\ Half \in Nat
      BY Sizes
    <2>4. (Half - 1) * Half \in Nat
      BY <2>3, ProductType
    <2> QED
      BY <2>2, <2>4, ProductType
  <1>2. square \in Nat \ {0}
    BY ProductType, Sizes
  <1>3. m \in IF q < square THEN {q} ELSE {0, square - 1}
    BY DEF Quotients
  <1> HIDE DEF whole, square
  <1>4. q \in Nat /\ r \in 0..num - 1 /\ whole = num * q + r
    BY <1>1, Division
  <1> HIDE DEF q, r, num
  <1>n. num \in Nat \ {0}
    BY DEF num
  <1>5. m \in Nat /\ m < square /\ m * num <= whole
        /\ (whole < num \/ m > 0 \/ square * num <= whole)
    <2>1. CASE q < square
      <3>1. m = q
        BY <1>3, <2>1
      <3>2. \A x, y, z \in Nat : x * y <= y * x + z
        OBVIOUS
      <3>3. m * num <= whole
        BY <1>4, <1>n, <3>1, <3>2
      <3>4. q = 0 => num * q = 0
        BY <1>n
      <3>5. q = 0 => whole < num
        BY <1>4, <1>n, <3>4
      <3> QED
        BY <1>4, <2>1, <3>1, <3>3, <3>5
    <2>2. CASE ~(q < square)
      <3>1. m \in {0, square - 1}
        BY <1>3, <2>2
      <3>2. m \in Nat /\ m < square /\ square <= q
        BY <1>2, <1>4, <2>2, <3>1
      <3>3. m * num <= square * num /\ square * num <= q * num
        BY <1>2, <1>4, <1>n, <3>2, ProductMonotonic
      <3>4. \A x, y, z \in Nat : x * y <= y * x + z
        OBVIOUS
      <3>5. q * num <= whole
        BY <1>4, <1>n, <3>4
      <3>6. m * num \in Nat /\ square * num \in Nat /\ q * num \in Nat
        BY <1>2, <1>4, <1>n, <3>2, ProductType
      <3>7. m * num <= whole /\ square * num <= whole
        BY <1>1, <3>3, <3>5, <3>6
      <3> QED
        BY <3>2, <3>7
    <2> QED
      BY <2>1, <2>2
  <1> QED
    BY <1>5 DEF whole, square, num

(* The target that is made of a difficulty is not easier than it.          *)
LEMMA TargetHard ==
  ASSUME NEW diff, diff.num \in Nat \ {0}, diff.den \in Nat \ {0},
         NEW t \in diff_to_target(diff)
  PROVE  t \in Array /\ Number(t) * diff.num <= Diff1 * diff.den
  <1> DEFINE k == FirstWord(diff)
             c == (Half - 1) * Half
             d == Power(Radix, Words - 2 - k)
             p == Power(Radix, k)
             num == diff.num
             den == diff.den
             whole == c * (den * d)
             square == Radix * Radix
  <1>1. k \in 0..Words - 2 /\ Below(k, diff)
    BY FirstWordBelow
  <1> HIDE DEF k
  <1>2. Words - 2 - k \in Nat /\ k \in Nat /\ k + (Words - 2 - k) = Words - 2
    BY <1>1, Sizes
  <1>3. PICK m \in Quotients(diff, k) :
          t = IF m = 0 /\ k = Words - 2
              THEN AllOnes
              ELSE [[j \in 0..Top |-> 0] EXCEPT ![k] = m % Radix, ![k + 1] = m \div Radix]
    BY DEF diff_to_target, k
  <1>4. Divided(diff, k).den = den * d /\ Divided(diff, k).num = num
    BY DEF Divided, Fraction
  <1>5. m \in Nat /\ m < square /\ m * num <= whole
        /\ (whole < num \/ m > 0 \/ square * num <= whole)
    BY <1>1, <1>3, <1>4, QuotientsSmall
  <1>6. num \in Nat \ {0} /\ den \in Nat \ {0} /\ d \in Nat \ {0} /\ p \in Nat \ {0}
    BY <1>2, PowerType, Sizes
  <1>7. c \in Nat \ {0}
    <2>1. Half - 1 \in Nat \ {0} /\ Half \in Nat \ {0}
      BY Sizes
    <2> QED
      BY <2>1, ProductType
  <1>8. whole \in Nat /\ square \in Nat
    <2>1. den * d \in Nat
      BY <1>6, ProductType
    <2> QED
      BY <1>7, <2>1, ProductType, Sizes
  <1>9. whole * p = Diff1 * den
    <2>1. Power(Radix, Words - 2) = p * d
      BY <1>2, PowerSum, Sizes
    <2>2. Diff1 = c * (p * d)
      BY <2>1 DEF Diff1
    <2>3. \A x, y, z, u \in Nat : (x * (y * z)) * u = (x * (u * z)) * y
      OBVIOUS
    <2>4. (c * (den * d)) * p = (c * (p * d)) * den
      BY <1>6, <1>7, <2>3
    <2> QED
      BY <2>2, <2>4
  <1>10. CASE ~(m = 0 /\ k = Words - 2)
    <2>1. t = [[j \in 0..Top |-> 0] EXCEPT ![k] = m % Radix, ![k + 1] = m \div Radix]
      BY <1>3, <1>10
    <2>2. t \in Array /\ Number(t) = m * p
      BY <1>1, <1>5, <2>1, TwoWords
    <2> HIDE DEF c, d, p, num, den, whole, square
    <2>3. (m * num) * p <= whole * p
      BY <1>5, <1>6, <1>8, ProductMonotonic, ProductType
    <2>4. \A x, y, z \in Nat : (x * y) * z = (x * z) * y
      OBVIOUS
    <2>5. (m * num) * p = (m * p) * num
      BY <1>5, <1>6, <2>4
    <2>6. Number(t) * num <= Diff1 * den
      BY <1>9, <2>2, <2>3, <2>5
    <2> QED
      BY <2>2, <2>6 DEF num, den
  <1>11. CASE m = 0 /\ k = Words - 2
    <2>1. t = AllOnes
      BY <1>3, <1>11
    <2>2. t \in Array
      BY <2>1, Sizes DEF AllOnes, Array, Word
    <2>3. Number(t) \in Nat /\ Number(t) < Power(Radix, Words)
      BY <2>2, NumberType
    <2>4. Power(Radix, Words) = square * p
      <3>1. Words - 2 \in Nat /\ Words = ((Words - 2) + 1) + 1 /\ (Words - 2) + 1 \in Nat
        BY Sizes
      <3>2. /\ Power(Radix, ((Words - 2) + 1) + 1) = Radix * Power(Radix, (Words - 2) + 1)
            /\ Power(Radix, (Words - 2) + 1) = Radix * Power(Radix, Words - 2)
        BY <3>1, PowerDef
      <3>3. \A x, y \in Nat : x * (x * y) = (x * x) * y
        OBVIOUS
      <3>4. Radix * (Radix * p) = square * p
        BY <1>6, <3>3, Sizes
      <3> QED
        BY <1>11, <3>1, <3>2, <3>4
    <2>5. ~(whole < num)
      <3>1. k # 0 /\ Words - 2 - k = 0 /\ d = 1
        BY <1>11, PowerDef, Sizes
      <3>2. num <= den * d
        BY <1>1, <1>4, <3>1 DEF Below
      <3>3. \A x \in Nat \ {0}, y \in Nat : y <= x * y
        OBVIOUS
      <3> DEFINE y == den * d
      <3>4. y \in Nat
        BY <1>6, ProductType
      <3> HIDE DEF y, c
      <3>5. y <= c * y
        BY <1>7, <3>3, <3>4
      <3>6. whole = c * y
        BY DEF y
      <3> QED
        BY <1>6, <1>8, <3>2, <3>4, <3>5, <3>6 DEF y
    <2>6. square * num <= whole
      BY <1>5, <1>11, <2>5
    <2> HIDE DEF c, d, p, num, den, whole, square
    <2>7. Number(t) * num <= (square * p) * num
      <3>1. square * p \in Nat
        BY <1>6, <1>8, ProductType
      <3>2. Number(t) <= square * p
        BY <2>3, <2>4, <3>1
      <3> QED
        BY <1>6, <2>3, <3>1, <3>2, ProductMonotonic
    <2>8. (square * num) * p <= whole * p
      BY <1>6, <1>8, <2>6, ProductMonotonic, ProductType
    <2>9. (square * num) * p = (square * p) * num
      <3>1. \A x, y, z \in Nat : (x * y) * z = (x * z) * y
        OBVIOUS
      <3> QED
        BY <1>6, <1>8, <3>1
    <2>10. Number(t) * num <= whole * p
      <3>1. Number(t) * num \in Nat /\ (square * p) * num \in Nat /\ whole * p \in Nat
        BY <1>6, <1>8, <2>3, ProductType
      <3> QED
        BY <2>7, <2>8, <2>9, <3>1
    <2> QED
      BY <1>9, <2>2, <2>10 DEF num, den
  <1> QED
    BY <1>10, <1>11

-----------------------------------------------------------------------------
(* The invariant                                                           *)

ModeInv ==
  /\ met \in Setting
  /\ been \subseteq Protocols /\ protocol \in been
  /\ have_longpoll \in BOOLEAN
  /\ ~EverSolo => ~have_longpoll

(* The target is not easier than the difficulty, in solo mining the one    *)
(* that the header's compact form stands for.                              *)
GoodWork(w) ==
  /\ w.kind \in Protocols /\ w.diff \in JobDiffs /\ w.nbits \in Compacts
  /\ w.target \in Array
  /\ w.kind = "stratum" =>
       /\ w.targetdiff = Scaled(w.diff)
       /\ Number(w.target) * Scaled(w.diff).num <= Diff1 * Scaled(w.diff).den
  /\ w.kind # "stratum" => w.target = ToWords(NetTarget(w.nbits))
  /\ w.kind = "getwork" => w.targetdiff = target_to_diff(w.target)
  /\ w.kind = "gbt" => w.targetdiff = Fraction(0, 1)

(* net_diff is that of the work made last, if there was never any other    *)
(* but of Stratum.                                                         *)
WorkInv ==
  /\ \A w \in works : GoodWork(w)
  /\ works # {} /\ ~EverSolo => netOf = OwnBits(g_work)
  /\ netOf = None \/ netOf \in [nbits : Compacts, reversed : BOOLEAN]

(* What the scan has said of the hash.                                     *)
ScanInv ==
  pc \in {"share", "missed"} =>
    work \in works /\ hash \in Array /\ (pc = "share" <=> Found(hash, work.target))

ShareInv == \A s \in sent : s.work \in works /\ s.hash \in Array

IInv == ModeInv /\ WorkInv /\ ScanInv /\ ShareInv

LEMMA DiffTypes ==
  ASSUME NEW d \in JobDiffs
  PROVE  Scaled(d).num \in Nat \ {0} /\ Scaled(d).den \in Nat \ {0}
  <1>1. d.num \in Nat \ {0} /\ d.den \in Nat \ {0} /\ Half \in Nat \ {0}
    BY TargetAssumption, Sizes
  <1> QED
    BY <1>1, ProductType DEF Scaled, Fraction

LEMMA NetTargetType ==
  ASSUME NEW c \in Compacts
  PROVE  /\ NetTarget(c) \in Nat \ {0} /\ NetTarget(c) < Power(Radix, Words)
         /\ c.mantissa \in Nat \ {0} /\ c.length \in Nat
         /\ c.length - 3 \in Nat /\ c.length <= Bytes
  <1>1. /\ c.mantissa \in Nat \ {0} /\ c.length \in Nat
        /\ c.length - 3 \in Nat /\ c.length <= Bytes
    <2>1. Half * ByteRadix - 1 \in Int
      BY Sizes
    <2> QED
      BY <2>1, TargetAssumption, Sizes
  <1>2. Power(ByteRadix, c.length - 3) \in Nat \ {0}
    BY <1>1, PowerType, Sizes
  <1>3. NetTarget(c) < Power(Radix, Words)
    BY TargetAssumption DEF NetTarget
  <1> QED
    BY <1>1, <1>2, <1>3, ProductType DEF NetTarget

LEMMA StratumWorkGood ==
  ASSUME NEW d \in JobDiffs, NEW c \in Compacts, NEW t \in diff_to_target(Scaled(d))
  PROVE  GoodWork([kind |-> "stratum", diff |-> d, nbits |-> c, target |-> t,
                   targetdiff |-> Scaled(d)])
  <1>1. t \in Array /\ Number(t) * Scaled(d).num <= Diff1 * Scaled(d).den
    BY DiffTypes, TargetHard
  <1> QED
    BY <1>1 DEF GoodWork, Protocols

LEMMA NodeWorkGood ==
  ASSUME NEW job \in Job, NEW kind \in {"gbt", "getwork"}, NEW x,
         kind = "gbt" => x = Fraction(0, 1),
         kind = "getwork" => x = target_to_diff(ToWords(NetTarget(job.nbits)))
  PROVE  GoodWork(NodeWork(kind, job, x))
  <1>1. job.diff \in JobDiffs /\ job.nbits \in Compacts
    BY DEF Job
  <1>2. ToWords(NetTarget(job.nbits)) \in Array
    BY <1>1, NetTargetType, ToWordsType
  <1> QED
    BY <1>1, <1>2 DEF GoodWork, NodeWork, Protocols

LEMMA InitInv == Init => IInv
  <1> SUFFICES ASSUME Init PROVE IInv
    OBVIOUS
  <1>1. met \in Setting /\ met.began \in Protocols
    BY TargetAssumption DEF Init, Setting
  <1>2. ModeInv
    BY <1>1 DEF Init, ModeInv
  <1>3. WorkInv /\ ScanInv /\ ShareInv
    BY DEF Init, WorkInv, ScanInv, ShareInv
  <1> QED
    BY <1>2, <1>3 DEF IInv

(* A work that is made: the ones before are kept.                          *)
LEMMA MakeWorkInv ==
  ASSUME IInv, NEW w, MakeWork(w), GoodWork(w),
         UNCHANGED <<modeVars, scanVars, shareVars>>,
         \/ netOf' = OwnBits(w)
         \/ EverSolo /\ netOf' = netOf
         \/ EverSolo /\ netOf' \in [nbits : Compacts, reversed : BOOLEAN]
  PROVE  IInv'
  <1>1. /\ g_work' = w /\ works' = works \cup {w}
        /\ UNCHANGED <<met, been, protocol, have_longpoll, allow_mininginfo, pc, work,
                       hash, sent, lastSent, count, accepted_count, solved_count>>
    BY DEF MakeWork, modeVars, scanVars, shareVars
  <1>2. ModeInv'
    BY <1>1 DEF IInv, ModeInv, EverSolo
  <1>3. WorkInv'
    <2>1. \A v \in works' : GoodWork(v)
      BY <1>1 DEF IInv, WorkInv
    <2>2. OwnBits(w) \in [nbits : Compacts, reversed : BOOLEAN]
      BY DEF GoodWork, OwnBits
    <2>3. netOf' = None \/ netOf' \in [nbits : Compacts, reversed : BOOLEAN]
      BY <2>2 DEF IInv, WorkInv
    <2>4. ~EverSolo' => netOf' = OwnBits(g_work')
      BY <1>1 DEF EverSolo
    <2> QED
      BY <2>1, <2>3, <2>4 DEF WorkInv, OwnBits
  <1>4. ScanInv' /\ ShareInv'
    BY <1>1 DEF IInv, ScanInv, ShareInv
  <1> QED
    BY <1>2, <1>3, <1>4 DEF IInv

LEMMA NextInv == IInv /\ [Next]_vars => IInv'
  <1> SUFFICES ASSUME IInv, [Next]_vars PROVE IInv'
    OBVIOUS
  <1>i. ModeInv /\ WorkInv /\ ScanInv /\ ShareInv
    BY DEF IInv
  <1>j. \A job \in met.jobs : job \in Job /\ job.diff \in JobDiffs /\ job.nbits \in Compacts
    BY <1>i DEF ModeInv, Setting, Job
  <1>1. CASE StratumWork
    <2>0. PICK job \in met.jobs : \E t \in diff_to_target(Scaled(job.diff)) :
            /\ MakeWork([kind |-> "stratum", diff |-> job.diff, nbits |-> job.nbits,
                         target |-> t, targetdiff |-> Scaled(job.diff)])
            /\ SetNetDiff(job.nbits, have_longpoll)
      BY <1>1 DEF StratumWork
    <2>1. PICK t \in diff_to_target(Scaled(job.diff)) :
            /\ MakeWork([kind |-> "stratum", diff |-> job.diff, nbits |-> job.nbits,
                         target |-> t, targetdiff |-> Scaled(job.diff)])
            /\ SetNetDiff(job.nbits, have_longpoll)
      BY <2>0
    <2> DEFINE w == [kind |-> "stratum", diff |-> job.diff, nbits |-> job.nbits,
                     target |-> t, targetdiff |-> Scaled(job.diff)]
    <2>2. GoodWork(w) /\ w.nbits = job.nbits
      BY <1>j, StratumWorkGood
    <2>3. netOf' = OwnBits(w) \/ (EverSolo /\ netOf' \in [nbits : Compacts, reversed : BOOLEAN])
      BY <1>i, <1>j, <2>1 DEF SetNetDiff, OwnBits, ModeInv
    <2>4. UNCHANGED <<modeVars, scanVars, shareVars>>
      BY <1>1 DEF StratumWork
    <2> HIDE DEF w
    <2>5. MakeWork(w)
      BY <2>1 DEF w
    <2> QED
      BY <2>2, <2>3, <2>4, <2>5, MakeWorkInv
  <1>2. CASE GetWork
    <2>1. PICK job \in met.jobs :
            /\ MakeWork(NodeWork("getwork", job, target_to_diff(ToWords(NetTarget(job.nbits)))))
            /\ IF allow_mininginfo THEN UNCHANGED netOf ELSE SetNetDiff(job.nbits, have_longpoll)
      BY <1>2 DEF GetWork
    <2> DEFINE w == NodeWork("getwork", job, target_to_diff(ToWords(NetTarget(job.nbits))))
    <2>2. GoodWork(w)
      BY <1>j, NodeWorkGood
    <2>3. EverSolo
      BY <1>2 DEF GetWork, EverSolo
    <2>4. netOf' = netOf \/ netOf' \in [nbits : Compacts, reversed : BOOLEAN]
      BY <1>i, <1>j, <2>1 DEF SetNetDiff, ModeInv
    <2>5. UNCHANGED <<modeVars, scanVars, shareVars>>
      BY <1>2 DEF GetWork
    <2>6. MakeWork(w)
      BY <2>1
    <2> HIDE DEF w
    <2> QED
      BY <2>2, <2>3, <2>4, <2>5, <2>6, MakeWorkInv
  <1>3. CASE TemplateWork
    <2>1. PICK job \in met.jobs : MakeWork(NodeWork("gbt", job, Fraction(0, 1)))
      BY <1>3 DEF TemplateWork
    <2> DEFINE w == NodeWork("gbt", job, Fraction(0, 1))
    <2>2. GoodWork(w)
      BY <1>j, NodeWorkGood
    <2>3. EverSolo
      BY <1>3 DEF TemplateWork, EverSolo
    <2>4. UNCHANGED <<modeVars, scanVars, shareVars>> /\ netOf' = netOf
      BY <1>3 DEF TemplateWork
    <2>5. MakeWork(w)
      BY <2>1
    <2> HIDE DEF w
    <2> QED
      BY <2>2, <2>3, <2>4, <2>5, MakeWorkInv
  <1>4. CASE MiningInfo
    <2>1. /\ EverSolo
          /\ UNCHANGED <<met, been, protocol, have_longpoll, g_work, works, pc, work, hash, sent>>
      BY <1>4 DEF MiningInfo, scanVars, shareVars
    <2>2. netOf' = netOf \/ netOf' \in [nbits : Compacts, reversed : BOOLEAN]
      <3>1. CASE netOf' = netOf
        BY <3>1
      <3>2. CASE \E job \in met.jobs : SetNetDiff(job.nbits, FALSE)
        <4>1. PICK job \in met.jobs : SetNetDiff(job.nbits, FALSE)
          BY <3>2
        <4>2. job.nbits \in Compacts
          BY <1>j DEF Job
        <4>3. netOf' = [nbits |-> job.nbits, reversed |-> FALSE]
          BY <4>1 DEF SetNetDiff
        <4> QED
          BY <4>2, <4>3
      <3> QED
        BY <1>4, <3>1, <3>2 DEF MiningInfo
    <2>3. ModeInv' /\ ScanInv' /\ ShareInv'
      BY <1>i, <2>1 DEF ModeInv, ScanInv, ShareInv, EverSolo
    <2>4. WorkInv'
      BY <1>i, <2>1, <2>2 DEF WorkInv, EverSolo
    <2> QED
      BY <2>3, <2>4 DEF IInv
  <1>5. CASE LongPolling
    <2>1. /\ EverSolo /\ have_longpoll' \in BOOLEAN
          /\ UNCHANGED <<met, been, protocol, netOf, g_work, works, pc, work, hash, sent>>
      BY <1>5, <1>i DEF LongPolling, ModeInv, workVars, scanVars, shareVars
    <2>2. ModeInv' /\ ScanInv' /\ ShareInv'
      BY <1>i, <2>1 DEF ModeInv, ScanInv, ShareInv, EverSolo
    <2>3. WorkInv'
      BY <1>i, <2>1 DEF WorkInv, EverSolo
    <2> QED
      BY <2>2, <2>3 DEF IInv
  <1>6. CASE ChangeProtocol
    <2>1. /\ protocol # "stratum" /\ protocol' \in met.next /\ been' = been \cup {protocol'}
          /\ UNCHANGED <<met, have_longpoll, netOf, g_work, works, pc, work, hash, sent>>
      BY <1>6 DEF ChangeProtocol, workVars, scanVars, shareVars
    <2>2. protocol' \in Protocols
      BY <1>i, <2>1 DEF ModeInv, Setting, Protocols
    <2>3. EverSolo'
      BY <1>i, <2>1 DEF ModeInv, EverSolo
    <2>4. ModeInv'
      BY <1>i, <2>1, <2>2, <2>3 DEF ModeInv
    <2>5. WorkInv' /\ ScanInv' /\ ShareInv'
      BY <1>i, <2>1, <2>3 DEF WorkInv, ScanInv, ShareInv
    <2> QED
      BY <2>4, <2>5 DEF IInv
  <1>7. CASE Scan
    <2>1. PICK w \in works, n \in met.hashes :
            /\ work' = w /\ hash' = ToWords(n)
            /\ pc' = IF Found(hash', w.target) THEN "share" ELSE "missed"
      BY <1>7 DEF Scan
    <2>2. UNCHANGED <<met, been, protocol, have_longpoll, netOf, g_work, works, sent>>
      BY <1>7 DEF Scan, modeVars, workVars, shareVars
    <2>3. n \in Nat
      <3>1. n \in 0..(Power(Radix, Words) - 1)
        BY <1>i DEF ModeInv, Setting
      <3> QED
        BY <3>1, PowerType, Sizes
    <2>4. hash' \in Array
      BY <2>1, <2>3, ToWordsType
    <2>5. ScanInv'
      BY <2>1, <2>2, <2>4 DEF ScanInv
    <2>6. ModeInv' /\ WorkInv' /\ ShareInv'
      BY <1>i, <2>2 DEF ModeInv, WorkInv, ShareInv, EverSolo
    <2> QED
      BY <2>5, <2>6 DEF IInv
  <1>8. CASE Send
    <2>1. PICK s : s.work = work /\ s.hash = hash /\ sent' = sent \cup {s}
      <3> DEFINE s == [id |-> count + 1, work |-> work, hash |-> hash,
                       via |-> IF protocol = "stratum" THEN "pool" ELSE "node"]
      <3>1. s.work = work /\ s.hash = hash /\ sent' = sent \cup {s}
        BY <1>8 DEF Send
      <3> QED
        BY <3>1
    <2>2. /\ pc = "share" /\ pc' = "sent"
          /\ UNCHANGED <<met, been, protocol, have_longpoll, netOf, g_work, works>>
      BY <1>8 DEF Send, modeVars, workVars
    <2>3. ShareInv' /\ ScanInv'
      BY <1>i, <2>1, <2>2 DEF ShareInv, ScanInv
    <2>4. ModeInv' /\ WorkInv'
      BY <1>i, <2>2 DEF ModeInv, WorkInv, EverSolo
    <2> QED
      BY <2>3, <2>4 DEF IInv
  <1>9. CASE \E s \in sent : Answer(s)
    <2>1. /\ sent' \subseteq sent
          /\ UNCHANGED <<met, been, protocol, have_longpoll, netOf, g_work, works, pc, work, hash>>
      BY <1>9 DEF Answer, modeVars, workVars, scanVars
    <2>2. ModeInv' /\ WorkInv' /\ ScanInv' /\ ShareInv'
      BY <1>i, <2>1 DEF ModeInv, WorkInv, ScanInv, ShareInv, EverSolo
    <2> QED
      BY <2>2 DEF IInv
  <1>10. CASE UNCHANGED vars
    <2>1. ModeInv' /\ WorkInv' /\ ScanInv' /\ ShareInv'
      BY <1>i, <1>10 DEF ModeInv, WorkInv, ScanInv, ShareInv, EverSolo, vars
    <2> QED
      BY <2>1 DEF IInv
  <1> QED
    BY <1>1, <1>2, <1>3, <1>4, <1>5, <1>6, <1>7, <1>8, <1>9, <1>10 DEF Next

(* What the types follow from: the rest of the proofs works with these.    *)
THEOREM Invariant == Spec => []IInv
  <1> QED
    BY InitInv, NextInv, PTL DEF Spec

-----------------------------------------------------------------------------
(* The properties                                                          *)

(* A share meets the target.                                               *)
LEMMA FoundMeets ==
  ASSUME NEW h \in Array, NEW t \in Array, Found(h, t)
  PROVE  Number(h) <= Number(t)
  BY FulltestCompares DEF Found

(* No share is refused for its difficulty (diff_to_target, fulltest).      *)
THEOREM SharesAreGood == Spec => []NoLowDifficulty
  <1>1. IInv => NoLowDifficulty
    <2> SUFFICES ASSUME IInv, pc = "share" PROVE Accepts(work, hash)
      BY DEF NoLowDifficulty
    <2>1. hash \in Array /\ Found(hash, work.target) /\ GoodWork(work)
      BY DEF IInv, WorkInv, ScanInv
    <2>2. work.target \in Array /\ work.nbits \in Compacts
      BY <2>1 DEF GoodWork
    <2> DEFINE h == Number(hash)
               t == Number(work.target)
    <2>3. h \in Nat /\ t \in Nat /\ h <= t
      BY <2>1, <2>2, FoundMeets, NumberType
    <2>4. CASE work.kind = "stratum"
      <3> DEFINE num == Scaled(work.diff).num
                 den == Scaled(work.diff).den
      <3>1. work.diff \in JobDiffs /\ t * num <= Diff1 * den
        BY <2>1, <2>4 DEF GoodWork
      <3>2. num \in Nat \ {0} /\ den \in Nat \ {0} /\ Diff1 \in Nat
        <4>1. Half - 1 \in Nat /\ Half \in Nat /\ Power(Radix, Words - 2) \in Nat
          BY PowerType, Sizes
        <4> QED
          BY <3>1, <4>1, DiffTypes, ProductType DEF Diff1
      <3> HIDE DEF h, t, num, den
      <3>3. h * num <= t * num
        BY <2>3, <3>2, ProductMonotonic
      <3>4. h * num \in Nat /\ t * num \in Nat /\ Diff1 * den \in Nat
        BY <2>3, <3>2, ProductType
      <3>5. h * num <= Diff1 * den
        BY <3>1, <3>3, <3>4
      <3> QED
        BY <2>4, <3>5 DEF Accepts, h, num, den
    <2>5. CASE work.kind # "stratum"
      <3>1. t = NetTarget(work.nbits)
        BY <2>1, <2>2, <2>5, NetTargetType, ToWordsNumber DEF GoodWork
      <3> QED
        BY <2>3, <2>5, <3>1 DEF Accepts
    <2> QED
      BY <2>4, <2>5
  <1> QED
    BY <1>1, Invariant, PTL

(* A hash that meets the target is missed for its top word only (scanhash).*)
THEOREM OnlyEqualTopMissed == Spec => []OnlyTopWordMissed
  <1>1. IInv => OnlyTopWordMissed
    <2> SUFFICES ASSUME IInv, pc = "missed", Number(hash) <= Number(work.target),
                        hash[Top] # work.target[Top]
                 PROVE  FALSE
      BY DEF OnlyTopWordMissed
    <2> DEFINE t == work.target
    <2>1. hash \in Array /\ t \in Array /\ ~Found(hash, t)
      BY DEF IInv, WorkInv, ScanInv, GoodWork
    <2> HIDE DEF t
    <2>2. fulltest(hash, t)
      BY <2>1, FulltestCompares DEF t
    <2>3. Top \in 0..Top /\ hash[Top] \in Nat /\ t[Top] \in Nat
      BY <2>1, Sizes DEF Array, Word
    <2>4. t[Top] < hash[Top]
      BY <2>1, <2>2, <2>3 DEF Found, t
    <2>5. \A j \in 0..Top : j > Top => t[j] = hash[j]
      BY Sizes
    <2>6. Number(t) < Number(hash)
      BY <2>1, <2>3, <2>4, <2>5, FirstDifference
    <2> QED
      BY <2>1, <2>6, NumberType DEF t
  <1> QED
    BY <1>1, Invariant, PTL

(* Diff1 in bytes.                                                         *)
LEMMA Diff1Bytes ==
  /\ Bytes - 6 \in Nat /\ Bytes - 10 \in Nat
  /\ Half - 1 \in Nat \ {0}
  /\ Diff1 = (Half - 1) * Power(ByteRadix, Bytes - 6)
  /\ Diff1 = ((Half - 1) * Half * Half) * Power(ByteRadix, Bytes - 10)
  <1>1. /\ Bytes - 6 \in Nat /\ Bytes - 10 \in Nat /\ Half - 1 \in Nat \ {0}
        /\ Words - 2 \in Nat /\ 4 * (Words - 2) = Bytes - 8 /\ Bytes - 8 \in Nat
        /\ (Bytes - 8) + 2 = Bytes - 6 /\ (Bytes - 10) + 2 = Bytes - 8
    BY Sizes
  <1>2. Power(Radix, Words - 2) = Power(ByteRadix, Bytes - 8)
    BY <1>1, RadixPower
  <1>3. Power(ByteRadix, 2) = Half
    <2>1. /\ Power(ByteRadix, 0) = 1 /\ Power(ByteRadix, 0 + 1) = ByteRadix * Power(ByteRadix, 0)
          /\ Power(ByteRadix, 1 + 1) = ByteRadix * Power(ByteRadix, 1)
      BY PowerDef
    <2> QED
      BY <2>1, Sizes DEF Half
  <1>4. /\ Power(ByteRadix, Bytes - 6) = Power(ByteRadix, Bytes - 8) * Half
        /\ Power(ByteRadix, Bytes - 8) = Power(ByteRadix, Bytes - 10) * Half
    <2>1. /\ Power(ByteRadix, (Bytes - 8) + 2) = Power(ByteRadix, Bytes - 8) * Power(ByteRadix, 2)
          /\ Power(ByteRadix, (Bytes - 10) + 2) = Power(ByteRadix, Bytes - 10) * Power(ByteRadix, 2)
      BY <1>1, PowerSum, Sizes
    <2> QED
      BY <1>1, <1>3, <2>1
  <1>5. Power(ByteRadix, Bytes - 8) \in Nat /\ Power(ByteRadix, Bytes - 10) \in Nat
    BY <1>1, PowerType, Sizes
  <1>6. \A x, y, z \in Nat : (x * y) * z = x * (z * y) /\ (x * y) * (z * y) = (x * y * y) * z
    OBVIOUS
  <1>7. Diff1 = (Half - 1) * (Power(ByteRadix, Bytes - 8) * Half)
    BY <1>1, <1>2, <1>5, <1>6, Sizes DEF Diff1
  <1>8. Diff1 = ((Half - 1) * Half * Half) * Power(ByteRadix, Bytes - 10)
    BY <1>1, <1>2, <1>4, <1>5, <1>6, Sizes DEF Diff1
  <1> QED
    BY <1>1, <1>4, <1>7, <1>8

(* The network's difficulty is that of the compact target, in both of the  *)
(* directions in which std_calc_network_diff shifts.                       *)
LEMMA NetDiffRight ==
  ASSUME NEW c \in Compacts
  PROVE  /\ NetDiff(c).num \in Nat \ {0} /\ NetDiff(c).den \in Nat \ {0}
         /\ NetDiff(c).num * NetTarget(c) = Diff1 * NetDiff(c).den
  <1> DEFINE m == c.mantissa
             e == c.length - 3
             h == Half - 1
  <1>1. m \in Nat \ {0} /\ c.length \in Nat /\ e \in Nat
    BY NetTargetType
  <1>2. h \in Nat \ {0} /\ Bytes - 6 \in Nat /\ Diff1 = h * Power(ByteRadix, Bytes - 6)
    BY Diff1Bytes
  <1>3. NetTarget(c) = m * Power(ByteRadix, e)
    BY DEF NetTarget
  <1>4. \A x \in Nat : Power(ByteRadix, x) \in Nat \ {0}
    BY PowerType, Sizes
  <1>5. CASE c.length <= Bytes - 3
    <2> DEFINE d == Bytes - 3 - c.length
    <2>1. d \in Nat /\ d + e = Bytes - 6
      BY <1>1, <1>5, Sizes
    <2>2. NetDiff(c) = [num |-> h * Power(ByteRadix, d), den |-> m]
      BY <1>5 DEF NetDiff, Fraction
    <2> HIDE DEF m, e, h, d
    <2>3. Power(ByteRadix, Bytes - 6) = Power(ByteRadix, d) * Power(ByteRadix, e)
      <3>1. Power(ByteRadix, d + e) = Power(ByteRadix, d) * Power(ByteRadix, e)
        BY <1>1, <2>1, PowerSum, Sizes
      <3> QED
        BY <2>1, <3>1
    <2>4. \A x, y, z, u \in Nat : (x * y) * (u * z) = (x * (y * z)) * u
      OBVIOUS
    <2>5. (h * Power(ByteRadix, d)) * (m * Power(ByteRadix, e))
            = (h * (Power(ByteRadix, d) * Power(ByteRadix, e))) * m
      BY <1>1, <1>2, <1>4, <2>1, <2>4
    <2>6. h * Power(ByteRadix, d) \in Nat \ {0}
      BY <1>2, <1>4, <2>1, ProductType
    <2> QED
      BY <1>1, <1>2, <1>3, <2>2, <2>3, <2>5, <2>6
  <1>6. CASE ~(c.length <= Bytes - 3)
    <2> DEFINE d == c.length - (Bytes - 3)
    <2>1. d \in Nat /\ (Bytes - 6) + d = e
      BY <1>1, <1>6, Sizes
    <2>2. NetDiff(c) = [num |-> h, den |-> m * Power(ByteRadix, d)]
      BY <1>6 DEF NetDiff, Fraction
    <2> HIDE DEF m, e, h, d
    <2>3. Power(ByteRadix, e) = Power(ByteRadix, Bytes - 6) * Power(ByteRadix, d)
      BY <1>2, <2>1, PowerSum, Sizes
    <2>4. \A x, y, z, u \in Nat : x * (u * (y * z)) = (x * y) * (u * z)
      OBVIOUS
    <2>5. h * (m * (Power(ByteRadix, Bytes - 6) * Power(ByteRadix, d)))
            = (h * Power(ByteRadix, Bytes - 6)) * (m * Power(ByteRadix, d))
      BY <1>1, <1>2, <1>4, <2>1, <2>4
    <2>6. m * Power(ByteRadix, d) \in Nat \ {0}
      BY <1>1, <1>4, <2>1, ProductType
    <2> QED
      BY <1>1, <1>2, <1>3, <2>2, <2>3, <2>5, <2>6
  <1> QED
    BY <1>5, <1>6

(* A share of a pool that is as difficult as its own bits is a block.      *)
LEMMA PoolBlock ==
  ASSUME NEW w, GoodWork(w), w.kind = "stratum", NEW x \in Array,
         AtLeast(sharediff(w, x), NetDiff(w.nbits))
  PROVE  Number(x) <= NetTarget(w.nbits)
  <1> DEFINE h == Number(x)
             t == Number(w.target)
             net == NetTarget(w.nbits)
  <1>1. w.target \in Array /\ w.nbits \in Compacts
    BY DEF GoodWork
  <1>2. h \in Nat /\ t \in Nat /\ net \in Nat
    BY <1>1, NumberType, NetTargetType
  <1>5. CASE h = 0
    BY <1>2, <1>5
  <1>6. CASE h > 0
  <2> DEFINE num == Scaled(w.diff).num
             den == Scaled(w.diff).den
             a == NetDiff(w.nbits).num
             b == NetDiff(w.nbits).den
  <2>1. w.diff \in JobDiffs /\ w.targetdiff = Scaled(w.diff) /\ t * num <= Diff1 * den
    BY DEF GoodWork
  <2>2. num \in Nat \ {0} /\ den \in Nat \ {0}
    BY <2>1, DiffTypes
  <2>3. a \in Nat \ {0} /\ b \in Nat \ {0} /\ a * net = Diff1 * b
    BY <1>1, NetDiffRight
  <2>4. Diff1 \in Nat
    BY Diff1Bytes, PowerType, ProductType, Sizes
  <2>5. (num * t) * b >= a * (den * h)
    BY <1>6, <2>1 DEF AtLeast, sharediff, Fraction
  <2> HIDE DEF h, t, net, num, den, a, b
  <2>6. \A p, y, z \in Nat : (p * y) * z = (y * p) * z /\ (p * y) * z = (p * z) * y
                             /\ p * (y * z) = (p * z) * y
    OBVIOUS
  <2>7. a * (den * h) = (h * a) * den
    <3>1. \A p, y, z \in Nat : p * (y * z) = (z * p) * y
      OBVIOUS
    <3> QED
      BY <1>2, <2>2, <2>3, <3>1
  <2>8. (num * t) * b = (t * num) * b
    BY <1>2, <2>2, <2>3, <2>6
  <2>9. (t * num) * b <= (Diff1 * den) * b
    BY <1>2, <2>1, <2>2, <2>3, <2>4, ProductMonotonic, ProductType
  <2>10. (Diff1 * den) * b = (net * a) * den
    <3>1. (Diff1 * den) * b = (Diff1 * b) * den
      BY <2>2, <2>3, <2>4, <2>6
    <3>2. a * net = net * a
      BY <1>2, <2>3
    <3> QED
      BY <2>3, <3>1, <3>2
  <2>11. (h * a) * den <= (net * a) * den
    <3>1. /\ (h * a) * den \in Nat /\ (t * num) * b \in Nat
          /\ (Diff1 * den) * b \in Nat
      BY <1>2, <2>2, <2>3, <2>4, ProductType
    <3> QED
      BY <2>5, <2>7, <2>8, <2>9, <2>10, <3>1
  <2>12. h * a <= net * a
    BY <1>2, <2>2, <2>3, <2>11, ProductCancels, ProductType
  <2>13. h <= net
    BY <1>2, <2>3, <2>12, ProductCancels
  <2> QED
    BY <2>13 DEF h, net
  <1> QED
    BY <1>2, <1>5, <1>6

(* Only its answer takes a share away.                                     *)
LEMMA AnswersOnly ==
  ASSUME [Next]_vars, NEW s \in sent \ sent'
  PROVE  Answer(s)
  <1>1. CASE UNCHANGED shareVars
    BY <1>1 DEF shareVars
  <1>2. CASE Send
    BY <1>2 DEF Send
  <1>3. CASE \E r \in sent : Answer(r)
    <2>1. PICK r \in sent : Answer(r)
      BY <1>3
    <2>2. s = r
      BY <2>1 DEF Answer
    <2> QED
      BY <2>1, <2>2
  <1>4. CASE StratumWork \/ GetWork \/ TemplateWork \/ MiningInfo \/ LongPolling
               \/ ChangeProtocol \/ Scan \/ UNCHANGED vars
    <2>1. UNCHANGED shareVars
      BY <1>4 DEF StratumWork, GetWork, TemplateWork, MiningInfo, LongPolling,
           ChangeProtocol, Scan, vars, shareVars
    <2> QED
      BY <1>1, <2>1
  <1> QED
    BY <1>2, <1>3, <1>4 DEF Next

(* What net_diff is computed from is a fraction, whichever way the bytes   *)
(* are read.                                                               *)
LEMMA NetDiffType ==
  ASSUME NEW c, c.mantissa \in Nat, c.length \in Nat
  PROVE  NetDiff(c).num \in Nat /\ NetDiff(c).den \in Nat
  <1>1. Half - 1 \in Nat /\ Bytes - 3 \in Nat
    BY Sizes
  <1>2. CASE c.length <= Bytes - 3
    <2>1. Bytes - 3 - c.length \in Nat
      BY <1>1, <1>2
    <2>2. Power(ByteRadix, Bytes - 3 - c.length) \in Nat
      BY <2>1, PowerType, Sizes
    <2> QED
      BY <1>1, <1>2, <2>2, ProductType DEF NetDiff, Fraction
  <1>3. CASE ~(c.length <= Bytes - 3)
    <2>1. c.length - (Bytes - 3) \in Nat
      BY <1>1, <1>3
    <2>2. Power(ByteRadix, c.length - (Bytes - 3)) \in Nat
      BY <2>1, PowerType, Sizes
    <2> QED
      BY <1>1, <1>3, <2>2, ProductType DEF NetDiff, Fraction
  <1> QED
    BY <1>2, <1>3

LEMMA ReversedType ==
  ASSUME NEW c \in Compacts
  PROVE  Reversed(c).mantissa \in Nat /\ Reversed(c).length \in Nat
  <1> DEFINE byte(k) == (c.mantissa \div Power(ByteRadix, k)) % ByteRadix
  <1>1. \A k \in 0..2 : byte(k) \in Nat
    <2> SUFFICES ASSUME NEW k \in 0..2 PROVE byte(k) \in Nat
      OBVIOUS
    <2>1. c.mantissa \in Nat /\ Power(ByteRadix, k) \in Nat \ {0}
      BY NetTargetType, PowerType, Sizes
    <2>2. c.mantissa \div Power(ByteRadix, k) \in Nat
      BY <2>1, Division
    <2> DEFINE q == c.mantissa \div Power(ByteRadix, k)
    <2> HIDE DEF q
    <2>q. q \in Nat
      BY <2>2 DEF q
    <2>d. ByteRadix \in Nat \ {0}
      BY Sizes
    <2>3. q % ByteRadix \in Nat
      BY <2>q, <2>d, Division
    <2> QED
      BY <2>3 DEF q
  <1>2. Reversed(c) = [mantissa |-> byte(1) * Half + byte(2) * ByteRadix + c.length,
                       length |-> byte(0)]
    BY DEF Reversed
  <1> HIDE DEF byte
  <1>3. byte(0) \in Nat /\ byte(1) \in Nat /\ byte(2) \in Nat /\ c.length \in Nat
    BY <1>1, NetTargetType
  <1>4. byte(1) * Half \in Nat /\ byte(2) * ByteRadix \in Nat
    BY <1>3, ProductType, Sizes
  <1> QED
    BY <1>2, <1>3, <1>4

LEMMA NetType == IInv => net_diff.num \in Nat /\ net_diff.den \in Nat
  <1> SUFFICES ASSUME IInv PROVE net_diff.num \in Nat /\ net_diff.den \in Nat
    OBVIOUS
  <1>1. CASE netOf = None
    BY <1>1 DEF net_diff, Fraction
  <1>2. CASE netOf # None
    <2>1. netOf.nbits \in Compacts
      BY <1>2 DEF IInv, WorkInv
    <2> DEFINE c == IF netOf.reversed THEN Reversed(netOf.nbits) ELSE netOf.nbits
    <2>2. c.mantissa \in Nat /\ c.length \in Nat
      BY <2>1, NetTargetType, ReversedType
    <2>3. net_diff = NetDiff(c)
      BY <1>2 DEF net_diff
    <2> HIDE DEF c
    <2> QED
      BY <2>2, <2>3, NetDiffType
  <1> QED
    BY <1>1, <1>2

LEMMA OwnNetDiff ==
  ASSUME IInv, NEW w, GoodWork(w), netOf = OwnBits(w)
  PROVE  net_diff = NetDiff(w.nbits)
  <1>1. OwnBits(w) \in [nbits : Compacts, reversed : BOOLEAN]
    BY DEF GoodWork, OwnBits
  <1>2. netOf # None
    BY <1>1, TargetAssumption
  <1> QED
    BY <1>2 DEF net_diff, OwnBits

(* What share_result counts as solved is a block, but where the globals it *)
(* reads are those of another share or work.                               *)
THEOREM SolvedAreBlocks == Spec => SolvedIsBlock
  <1> DEFINE Good(s) ==
        \/ Number(s.hash) <= NetTarget(s.work.nbits)
        \/ s.via = "pool" /\ s # lastSent
        \/ s.via = "pool" /\ IF EverSolo THEN netOf # OwnBits(s.work)
                                     ELSE g_work.nbits # s.work.nbits
      Step == \A s \in sent \ sent' : solved_count' # solved_count => Good(s)
  <1>1. IInv /\ [Next]_vars => Step
    <2> SUFFICES ASSUME IInv, [Next]_vars, NEW s \in sent \ sent',
                        solved_count' # solved_count, ~Good(s)
                 PROVE  FALSE
      OBVIOUS
    <2>1. Answer(s)
      BY AnswersOnly
    <2>2. /\ s.via = "pool" <=> s.work.kind = "stratum"
          /\ Accepts(s.work, s.hash) /\ Counted(s)
      BY <2>1 DEF Answer
    <2>3. s.work \in works /\ GoodWork(s.work) /\ s.hash \in Array
      BY DEF IInv, WorkInv, ShareInv
    <2>4. s.via = "pool" /\ s.work.kind = "stratum" /\ s = lastSent
      BY <2>2 DEF Accepts
    <2>5. netOf = OwnBits(s.work)
      BY <2>3, <2>4 DEF IInv, WorkInv, OwnBits
    <2>6. net_diff = NetDiff(s.work.nbits)
      BY <2>3, <2>5, OwnNetDiff
    <2>7. AtLeast(sharediff(s.work, s.hash), NetDiff(s.work.nbits))
      BY <2>2, <2>4, <2>6 DEF Counted
    <2>8. Number(s.hash) <= NetTarget(s.work.nbits)
      BY <2>3, <2>4, <2>7, PoolBlock
    <2> QED
      BY <2>8
  <1>2. Spec => [][Step]_vars
    BY <1>1, Invariant, PTL DEF Spec
  <1> QED
    BY <1>2 DEF SolvedIsBlock

(* The eight bytes that target_to_diff reads, and the target.              *)
LEMMA WindowBelow ==
  ASSUME NEW t, Number(t) \in Nat
  PROVE  Window(t) \in Nat /\ Window(t) * Power(ByteRadix, Bytes - 10) <= Number(t)
  <1> DEFINE n == Number(t)
             d == Power(ByteRadix, Bytes - 10)
             e == Power(ByteRadix, 8)
             q == n \div d
             w == q % e
  <1>1. n \in Nat /\ d \in Nat \ {0} /\ e \in Nat \ {0}
    BY Diff1Bytes, PowerType, Sizes
  <1>2. Window(t) = w
    BY DEF Window
  <1> HIDE DEF n, d, e
  <1>3. q \in Nat /\ n % d \in 0..d - 1 /\ n = d * q + (n % d)
    BY <1>1, Division
  <1> HIDE DEF q
  <1>4. w \in 0..e - 1 /\ q \div e \in Nat /\ q = e * (q \div e) + w
    BY <1>1, <1>3, Division
  <1> HIDE DEF w
  <1>5. \A x, y, z \in Nat : z <= x * y + z
    OBVIOUS
  <1>6. w \in Nat /\ w <= q
    BY <1>1, <1>4, <1>5
  <1>7. w * d <= q * d
    BY <1>1, <1>3, <1>6, ProductMonotonic
  <1>8. \A x, y, z \in Nat : x * y <= y * x + z
    OBVIOUS
  <1>9. q * d <= n
    BY <1>1, <1>3, <1>8
  <1>10. w * d <= n
    <2>1. w * d \in Nat /\ q * d \in Nat
      BY <1>1, <1>3, <1>6, ProductType
    <2> QED
      BY <1>1, <1>7, <1>9, <2>1
  <1> QED
    BY <1>2, <1>6, <1>10 DEF n, d

(* A block of getwork is as difficult as its bits, though target_to_diff   *)
(* rounds.                                                                 *)
LEMMA NodeBlock ==
  ASSUME NEW w, GoodWork(w), w.kind = "getwork", NEW x \in Array,
         Number(x) <= NetTarget(w.nbits), Number(x) # 0, Window(w.target) # 0
  PROVE  AtLeast(sharediff(w, x), NetDiff(w.nbits))
  <1> DEFINE h == Number(x)
             t == Number(w.target)
             v == Window(w.target)
             c == (Half - 1) * Half * Half
             d == Power(ByteRadix, Bytes - 10)
             a == NetDiff(w.nbits).num
             b == NetDiff(w.nbits).den
  <1>1. /\ w.target \in Array /\ w.nbits \in Compacts
        /\ w.target = ToWords(NetTarget(w.nbits)) /\ w.targetdiff = target_to_diff(w.target)
    BY DEF GoodWork
  <1>2. t = NetTarget(w.nbits)
    BY <1>1, NetTargetType, ToWordsNumber
  <1>3. h \in Nat \ {0} /\ t \in Nat /\ h <= t
    <2>1. h \in Nat /\ t \in Nat
      BY <1>1, NumberType
    <2> QED
      BY <1>2, <2>1
  <1>4. v \in Nat \ {0} /\ v * d <= t
    BY <1>3, WindowBelow
  <1>5. a \in Nat \ {0} /\ b \in Nat \ {0} /\ a * t = Diff1 * b
    BY <1>1, <1>2, NetDiffRight
  <1>6. c \in Nat /\ d \in Nat \ {0} /\ Diff1 = c * d
    BY Diff1Bytes, PowerType, ProductType, Sizes
  <1>7. w.targetdiff = [num |-> c, den |-> v]
    BY <1>1 DEF target_to_diff, Fraction
  <1>8. sharediff(w, x) = [num |-> c * t, den |-> v * h]
    BY <1>3, <1>7 DEF sharediff, Fraction
  <1> HIDE DEF h, t, v, c, d, a, b
  <1>9. a * (v * h) <= (c * t) * b
    <2>1. (a * (v * h)) * d = (v * d) * (a * h)
      <3>1. \A p, y, z, u \in Nat : (p * (y * z)) * u = (y * u) * (p * z)
        OBVIOUS
      <3> QED
        BY <1>3, <1>4, <1>5, <1>6, <3>1
    <2>2. (v * d) * (a * h) <= t * (a * h)
      BY <1>3, <1>4, <1>5, <1>6, ProductMonotonic, ProductType
    <2>3. t * (a * h) = h * (a * t)
      <3>1. \A p, y, z \in Nat : p * (y * z) = z * (y * p)
        OBVIOUS
      <3> QED
        BY <1>3, <1>5, <3>1
    <2>4. h * (a * t) <= t * (a * t)
      BY <1>3, <1>5, ProductMonotonic, ProductType
    <2>5. t * (a * t) = ((c * t) * b) * d
      <3>1. \A p, y, z, u \in Nat : p * ((y * z) * u) = ((y * p) * u) * z
        OBVIOUS
      <3>2. t * ((c * d) * b) = ((c * t) * b) * d
        BY <1>3, <1>5, <1>6, <3>1
      <3> QED
        BY <1>5, <1>6, <3>2
    <2>6. (a * (v * h)) * d <= ((c * t) * b) * d
      <3>1. /\ (v * d) * (a * h) \in Nat /\ t * (a * h) \in Nat /\ t * (a * t) \in Nat
        BY <1>3, <1>4, <1>5, <1>6, ProductType
      <3> QED
        BY <2>1, <2>2, <2>3, <2>4, <2>5, <3>1
    <2>7. a * (v * h) \in Nat /\ (c * t) * b \in Nat
      BY <1>3, <1>4, <1>5, <1>6, ProductType
    <2> DEFINE left == a * (v * h)
               right == (c * t) * b
    <2> HIDE DEF left, right
    <2>8. left <= right
      BY <1>6, <2>6, <2>7, ProductCancels DEF left, right
    <2> QED
      BY <2>8 DEF left, right
  <1>10. (c * t) * b \in Nat /\ a * (v * h) \in Nat
    BY <1>3, <1>4, <1>5, <1>6, ProductType
  <1>11. (c * t) * b >= a * (v * h)
    BY <1>9, <1>10
  <1>12. AtLeast(sharediff(w, x), NetDiff(w.nbits))
    BY <1>8, <1>11 DEF AtLeast, a, b
  <1> QED
    BY <1>12

(* In solo mining a block of getwork is counted when net_diff is that of   *)
(* its bits, and a block of getblocktemplate never is.                     *)
THEOREM BlocksAreCounted == Spec => BlockIsCounted
  <1> DEFINE Right(s) ==
        IF s.work.kind = "gbt"
        THEN solved_count' = solved_count
        ELSE netOf = OwnBits(s.work) /\ Window(s.work.target) # 0 /\ Number(s.hash) # 0
               => solved_count' = solved_count + 1
      Step == \A s \in sent \ sent' :
                accepted_count' # accepted_count /\ s.via = "node" => Right(s)
  <1>1. IInv /\ [Next]_vars => Step
    <2> SUFFICES ASSUME IInv, [Next]_vars, NEW s \in sent \ sent',
                        accepted_count' # accepted_count, s.via = "node"
                 PROVE  Right(s)
      OBVIOUS
    <2>1. Answer(s)
      BY AnswersOnly
    <2>2. /\ s.work.kind # "stratum" /\ Accepts(s.work, s.hash)
          /\ solved_count' = IF Counted(s) THEN solved_count + 1 ELSE solved_count
      BY <2>1 DEF Answer
    <2>3. GoodWork(s.work) /\ s.hash \in Array
      BY DEF IInv, WorkInv, ShareInv
    <2>4. Counted(s) <=> net_diff.num > 0 /\ AtLeast(sharediff(s.work, s.hash), net_diff)
      BY DEF Counted
    <2>5. CASE s.work.kind = "gbt"
      <3> DEFINE share == sharediff(s.work, s.hash)
      <3>1. share.num = 0 /\ share.den \in Nat \ {0}
        <4>1. s.work.targetdiff = Fraction(0, 1) /\ s.work.target \in Array
          BY <2>3, <2>5 DEF GoodWork
        <4>2. Number(s.hash) \in Nat /\ Number(s.work.target) \in Nat
          BY <2>3, <4>1, NumberType
        <4> QED
          BY <4>1, <4>2 DEF sharediff, Fraction
      <3>2. net_diff.num \in Nat /\ net_diff.den \in Nat
        BY NetType
      <3> HIDE DEF share
      <3>3. ASSUME net_diff.num > 0, AtLeast(share, net_diff) PROVE FALSE
        <4> DEFINE x == net_diff.num
                   y == net_diff.den
                   z == share.den
        <4>1. x \in Nat \ {0} /\ y \in Nat /\ z \in Nat \ {0} /\ 0 * y >= x * z
          BY <3>1, <3>2, <3>3 DEF AtLeast
        <4> HIDE DEF x, y, z
        <4>2. x * z \in Nat \ {0} /\ 0 * y = 0
          BY <4>1, ProductType
        <4> QED
          BY <4>1, <4>2
      <3>4. ~Counted(s)
        BY <2>4, <3>3 DEF share
      <3> QED
        BY <2>2, <2>5, <3>4
    <2>6. CASE s.work.kind # "gbt"
      <3> SUFFICES ASSUME netOf = OwnBits(s.work), Window(s.work.target) # 0,
                          Number(s.hash) # 0
                   PROVE  Counted(s)
        BY <2>2, <2>6
      <3>1. s.work.kind = "getwork" /\ s.work.nbits \in Compacts
        BY <2>2, <2>3, <2>6 DEF GoodWork, Protocols
      <3>2. Number(s.hash) <= NetTarget(s.work.nbits)
        BY <2>2 DEF Accepts
      <3>3. AtLeast(sharediff(s.work, s.hash), NetDiff(s.work.nbits))
        BY <2>3, <3>1, <3>2, NodeBlock
      <3>4. net_diff = NetDiff(s.work.nbits)
        BY <2>3, OwnNetDiff
      <3>5. net_diff.num > 0
        BY <3>1, <3>4, NetDiffRight
      <3> QED
        BY <2>4, <3>3, <3>4, <3>5
    <2> QED
      BY <2>5, <2>6
  <1>2. Spec => [][Step]_vars
    BY <1>1, Invariant, PTL DEF Spec
  <1> QED
    BY <1>2 DEF BlockIsCounted
=============================================================================
