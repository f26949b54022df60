------------------------- MODULE ReadAssemblyProofs -------------------------
(***************************************************************************)
(* Proofs about the frames and how readLoop puts them together: for any    *)
(* base of the integers, any hash, any payloads, sizes of buffers and      *)
(* chunks, limits, and any number of frames.                               *)
(***************************************************************************)
EXTENDS ReadAssembly, SequenceTheorems, FiniteSetTheorems, WellFoundedInduction, TLAPS

-----------------------------------------------------------------------------
(* Natural numbers and recursion.                                          *)

\* A nonempty set of natural numbers has a least element.
LEMMA LeastNumber ==
  ASSUME NEW T \in SUBSET Nat, T # {}
  PROVE  \E x \in T : \A y \in T : x <= y
<1> DEFINE Less == {ss \in Nat \X Nat : ss[1] < ss[2]}
<1>1. IsWellFoundedOn(Less, Nat)
  BY NatLessThanWellFounded DEF OpToRel
<1> HIDE DEF Less
<1>2. PICK x \in T : \A y \in T : ~(<<y, x>> \in Less)
  BY <1>1, WFMin
<1>3. \A y \in T : ~(y < x)
  BY <1>2 DEF Less
<1> QED BY <1>3

\* A set of numbers up to n that has 0 and with each number the next has all.
LEMMA Induction ==
  ASSUME NEW n \in Nat, NEW P, 0 \in P, \A i \in 0..(n - 1) : i \in P => i + 1 \in P
  PROVE  \A i \in 0..n : i \in P
<1> DEFINE T == {i \in 0..n : i \notin P}
<1> SUFFICES ASSUME T # {} PROVE FALSE
  OBVIOUS
<1>1. T \in SUBSET Nat
  OBVIOUS
<1> HIDE DEF T
<1>2. PICK x \in T : \A y \in T : x <= y
  BY <1>1, LeastNumber
<1>3. x \in 0..n /\ x \notin P /\ x # 0
  BY <1>2 DEF T
<1>4. x - 1 \in 0..(n - 1) /\ x - 1 \notin T /\ x - 1 \in 0..n
  BY <1>2, <1>3
<1>5. x - 1 \in P
  BY <1>4 DEF T
<1>6. (x - 1) + 1 \in P
  BY <1>4, <1>5
<1> QED BY <1>3, <1>6

\* The first m + 1 values of a recursion that starts with base.
Recursion(base, step, f, m) ==
  /\ f = [i \in 0..m |-> f[i]] /\ f[0] = base
  /\ \A i \in 0..(m - 1) : f[i + 1] = step[<<i, f[i]>>]

\* They exist, for every m.
LEMMA RecursionExists ==
  ASSUME NEW S, NEW base \in S, NEW step \in [Nat \X S -> S], NEW n \in Nat
  PROVE  \E f \in [0..n -> S] : Recursion(base, step, f, n)
<1> DEFINE P == {m \in Nat : \E f \in [0..m -> S] : Recursion(base, step, f, m)}
<1>1. 0 \in P
  <2> DEFINE f == [i \in 0..0 |-> base]
  <2>1. f \in [0..0 -> S] /\ f[0] = base /\ f = [i \in 0..0 |-> f[i]]
    OBVIOUS
  <2>2. Recursion(base, step, f, 0)
    BY <2>1 DEF Recursion
  <2> QED BY <2>1, <2>2
<1>2. ASSUME NEW m \in 0..(n - 1), m \in P PROVE m + 1 \in P
  <2>1. PICK f \in [0..m -> S] : Recursion(base, step, f, m)
    BY <1>2
  <2>0. m \in Nat /\ m \in 0..m /\ 0 \in 0..m
    OBVIOUS
  <2>2. f[m] \in S /\ f[0] = base /\ \A i \in 0..(m - 1) : f[i + 1] = step[<<i, f[i]>>]
    BY <2>0, <2>1 DEF Recursion
  <2> DEFINE v == step[<<m, f[m]>>]
             g == [i \in 0..(m + 1) |-> IF i = m + 1 THEN v ELSE f[i]]
  <2>3. v \in S
    BY <2>0, <2>2
  <2> HIDE DEF v
  <2>4. /\ g \in [0..(m + 1) -> S] /\ g = [i \in 0..(m + 1) |-> g[i]]
        /\ g[m + 1] = v /\ \A i \in 0..m : g[i] = f[i]
    BY <2>0, <2>3
  <2> HIDE DEF g
  <2>5. g[0] = base
    BY <2>0, <2>2, <2>4
  <2>6. ASSUME NEW i \in 0..((m + 1) - 1) PROVE g[i + 1] = step[<<i, g[i]>>]
    <3>1. CASE i = m
      <4>1. g[m] = f[m]
        BY <2>0, <2>4
      <4> QED BY <2>4, <3>1, <4>1 DEF v
    <3>2. CASE i # m
      <4>1. i \in 0..(m - 1) /\ i \in 0..m /\ i + 1 \in 0..m
        BY <2>0, <3>2
      <4> QED BY <2>2, <2>4, <4>1
    <3> QED BY <3>1, <3>2
  <2>7. Recursion(base, step, g, m + 1)
    BY <2>4, <2>5, <2>6 DEF Recursion
  <2> QED BY <2>0, <2>4, <2>7
<1> HIDE DEF P
<1>3. n \in P
  BY <1>1, <1>2, Induction
<1> QED BY <1>3 DEF P

\* Two recursions with the same start and steps agree as far as both go.
LEMMA RecursionUnique ==
  ASSUME NEW base, NEW step, NEW m \in Nat, NEW n \in Nat, m <= n, NEW f, NEW g,
         Recursion(base, step, f, m), Recursion(base, step, g, n)
  PROVE  \A i \in 0..m : f[i] = g[i]
<1> DEFINE P == {i \in 0..m : f[i] = g[i]}
<1>1. 0 \in P
  BY DEF Recursion
<1>2. ASSUME NEW i \in 0..(m - 1), i \in P PROVE i + 1 \in P
  <2>1. i \in 0..(n - 1) /\ f[i] = g[i] /\ i + 1 \in 0..m
    BY <1>2
  <2>2. f[i + 1] = step[<<i, f[i]>>] /\ g[i + 1] = step[<<i, g[i]>>]
    BY <2>1 DEF Recursion
  <2> QED BY <2>1, <2>2
<1> HIDE DEF P
<1>3. \A i \in 0..m : i \in P
  BY <1>1, <1>2, Induction
<1> QED BY <1>3 DEF P

-----------------------------------------------------------------------------
(* Variable-length integers.                                               *)

\* A recursion with a step for every natural number.
Unending(base, step, f) ==
  f[0] = base /\ \A i \in Nat : f[i + 1] = step[<<i, f[i]>>]

\* It exists.
LEMMA RecursionOnNat ==
  ASSUME NEW S, NEW base \in S, NEW step \in [Nat \X S -> S]
  PROVE  \E f \in [Nat -> S] : Unending(base, step, f)
<1> DEFINE g(n) == CHOOSE f \in [0..n -> S] : Recursion(base, step, f, n)
           f == [n \in Nat |-> g(n)[n]]
<1>1. \A n \in Nat : g(n) \in [0..n -> S] /\ Recursion(base, step, g(n), n)
  BY RecursionExists
<1> HIDE DEF g
<1>2. f \in [Nat -> S] /\ \A n \in Nat : f[n] = g(n)[n]
  BY <1>1
<1> HIDE DEF f
<1>3. f[0] = base
  BY <1>1, <1>2 DEF Recursion
<1>4. ASSUME NEW i \in Nat PROVE f[i + 1] = step[<<i, f[i]>>]
  <2>1. /\ Recursion(base, step, g(i), i) /\ Recursion(base, step, g(i + 1), i + 1)
        /\ i \in 0..i /\ i <= i + 1 /\ i + 1 \in Nat /\ i \in 0..((i + 1) - 1)
    BY <1>1
  <2>2. g(i)[i] = g(i + 1)[i]
    BY <2>1, RecursionUnique
  <2>3. g(i + 1)[i + 1] = step[<<i, g(i + 1)[i]>>]
    BY <2>1 DEF Recursion
  <2> QED BY <1>2, <2>1, <2>2, <2>3
<1>5. Unending(base, step, f)
  BY <1>3, <1>4 DEF Unending
<1> QED BY <1>2, <1>5

\* Power is what it is meant to be.
LEMMA PowerFacts ==
  /\ Power[0] = 1
  /\ \A k \in Nat : Power[k] \in Nat \ {0} /\ Power[k + 1] = VintBase * Power[k]
<1> DEFINE S == Nat \ {0}
           Is(f) == f = [k \in Nat |-> IF k = 0 THEN 1 ELSE VintBase * f[k - 1]]
           step == [x \in Nat \X S |-> VintBase * x[2]]
<1>1. VintBase \in S
  BY VintBaseAssumption
<1>2. step \in [Nat \X S -> S] /\ \A i \in Nat, v \in S : step[<<i, v>>] = VintBase * v
  <2>1. \A v \in S : VintBase * v \in S
    BY <1>1
  <2> QED BY <2>1
<1> HIDE DEF step
<1>3. PICK f \in [Nat -> S] : f[0] = 1 /\ \A i \in Nat : f[i + 1] = step[<<i, f[i]>>]
  <2> DEFINE one == 1
  <2>1. one \in S /\ step \in [Nat \X S -> S]
    BY <1>2
  <2> HIDE DEF S, one
  <2>2. \E f \in [Nat -> S] : Unending(one, step, f)
    BY ONLY <2>1, RecursionOnNat
  <2> QED BY <2>2 DEF one, Unending
<1>4. Is(f)
  <2>1. \A k \in Nat : f[k] = (IF k = 0 THEN 1 ELSE VintBase * f[k - 1])
    <3> SUFFICES ASSUME NEW k \in Nat, k # 0 PROVE f[k] = VintBase * f[k - 1]
      BY <1>3
    <3>1. k - 1 \in Nat /\ (k - 1) + 1 = k
      OBVIOUS
    <3> QED BY <1>2, <1>3, <3>1
  <2> DEFINE F == [k \in Nat |-> IF k = 0 THEN 1 ELSE VintBase * f[k - 1]]
             G == [k \in Nat |-> f[k]]
  <2>2. f = G /\ G = F
    BY <1>3, <2>1
  <2> HIDE DEF F, G
  <2>3. f = F
    BY <2>2
  <2> QED BY <2>3 DEF F
<1>5. Power = CHOOSE h : Is(h)
  BY DEF Power
<1> HIDE DEF Is
<1>6. Is(Power)
  BY <1>4, <1>5
<1>7. \A k \in Nat : Power[k] = (IF k = 0 THEN 1 ELSE VintBase * Power[k - 1])
  BY <1>6 DEF Is
<1>8. Power[0] = 1 /\ \A k \in Nat : Power[k + 1] = VintBase * Power[k]
  <2>1. ASSUME NEW k \in Nat PROVE Power[k + 1] = VintBase * Power[k]
    <3>1. k + 1 \in Nat /\ k + 1 # 0 /\ (k + 1) - 1 = k
      OBVIOUS
    <3> QED BY <1>7, <3>1
  <2> QED BY <1>7, <2>1
<1>9. ASSUME NEW n \in Nat PROVE Power[n] \in S
  <2> DEFINE P == {k \in Nat : Power[k] \in S}
  <2>1. 0 \in P
    BY <1>8
  <2>2. ASSUME NEW i \in 0..(n - 1), i \in P PROVE i + 1 \in P
    <3>1. i \in Nat /\ Power[i] \in S /\ Power[i + 1] = VintBase * Power[i]
      BY <1>8, <2>2
    <3> QED BY <1>1, <3>1
  <2> HIDE DEF P, S
  <2>3. \A i \in 0..n : i \in P
    BY <2>1, <2>2, Induction
  <2> QED BY <2>3 DEF P
<1> QED BY <1>8, <1>9

\* Enough digits can express every number.
LEMMA PowerGrows ==
  ASSUME NEW n \in Nat
  PROVE  n < Power[n]
<1> DEFINE P == {k \in Nat : k < Power[k]}
<1>1. 0 \in P
  BY PowerFacts
<1>2. ASSUME NEW i \in 0..(n - 1), i \in P PROVE i + 1 \in P
  <2> DEFINE p == Power[i]
  <2>1. i \in Nat /\ p \in Nat /\ i + 1 <= p /\ Power[i + 1] = VintBase * p
    BY <1>2, PowerFacts
  <2> HIDE DEF p
  <2>2. VintBase * p >= 2 * p
    BY <2>1, VintBaseAssumption
  <2>3. Power[i + 1] \in Nat
    BY <2>1, PowerFacts
  <2>4. i + 1 < Power[i + 1]
    BY <2>1, <2>2, <2>3
  <2> QED BY <2>1, <2>4
<1> HIDE DEF P
<1>3. n \in P
  BY <1>1, <1>2, Induction
<1> QED BY <1>3 DEF P

\* VintEncodedSize leaves room for the value.
LEMMA SizeFacts ==
  ASSUME NEW n \in Nat
  PROVE  VintEncodedSize(n) \in Nat \ {0} /\ n < Power[VintEncodedSize(n)]
<1> DEFINE T == {s \in 1..(n + 1) : n < Power[s]}
<1>1. n + 1 \in T
  <2>1. n + 1 < Power[n + 1] /\ Power[n + 1] \in Nat
    BY PowerGrows, PowerFacts
  <2> QED BY <2>1
<1>2. T \in SUBSET Nat /\ T # {}
  BY <1>1
<1>3. VintEncodedSize(n) = CHOOSE x \in T : \A y \in T : x <= y
  BY DEF VintEncodedSize, Min
<1>4. \E x \in T : \A y \in T : x <= y
  <2> HIDE DEF T
  <2> QED BY <1>2, LeastNumber
<1>5. VintEncodedSize(n) \in T
  <2> HIDE DEF T
  <2> QED BY <1>3, <1>4
<1> QED BY <1>5

\* Division and remainder by a digit's base.
LEMMA DigitFacts ==
  ASSUME NEW x \in Nat
  PROVE  /\ x \div VintBase \in Nat /\ x % VintBase \in 0..(VintBase - 1)
         /\ x = (x \div VintBase) * VintBase + (x % VintBase)
         /\ (x % VintBase) + VintBase \in VintBase..(2 * VintBase - 1)
         /\ (x % VintBase) % VintBase = x % VintBase
         /\ ((x % VintBase) + VintBase) % VintBase = x % VintBase
<1> DEFINE r == x % VintBase
           q == x \div VintBase
<1>1. VintBase \in Nat /\ VintBase > 1
  BY VintBaseAssumption
<1>2. q \in Nat /\ r \in 0..(VintBase - 1)
  BY <1>1
<1>3. x = VintBase * q + r
  BY <1>1
<1> HIDE DEF r, q
<1>4. VintBase * q = q * VintBase
  BY <1>1, <1>2
<1>5. r % VintBase = r /\ (r + VintBase) % VintBase = r
  BY <1>1, <1>2
<1> QED BY <1>1, <1>2, <1>3, <1>4, <1>5 DEF r, q

\* What WriteVint writes: all digits but the last are marked as continued.
LEMMA VintWritten ==
  ASSUME NEW n \in Nat, NEW s, s = VintEncodedSize(n), NEW w, w = WriteVint(n)
  PROVE  /\ w \in Seq(Byte) /\ Len(w) = s
         /\ \A i \in 1..s : /\ w[i] % VintBase = (n \div Power[s - i]) % VintBase
                            /\ w[i] < VintBase <=> i = s
<1>1. s \in Nat \ {0} /\ n < Power[s]
  BY SizeFacts
<1> DEFINE d(i) == (n \div Power[s - i]) % VintBase
           e(i) == d(i) + (IF i < s THEN VintBase ELSE 0)
<1>2. w = [i \in 1..s |-> e(i)]
  BY DEF WriteVint
<1>3. ASSUME NEW i \in 1..s
      PROVE  e(i) \in Byte /\ e(i) % VintBase = d(i) /\ (e(i) < VintBase <=> i = s)
  <2> DEFINE x == n \div Power[s - i]
  <2>1. s - i \in Nat
    BY <1>1
  <2>2. Power[s - i] \in Nat \ {0}
    BY <2>1, PowerFacts
  <2>3. x \in Nat
    BY <2>2
  <2> HIDE DEF x
  <2>4. /\ x % VintBase \in 0..(VintBase - 1)
        /\ (x % VintBase) + VintBase \in VintBase..(2 * VintBase - 1)
        /\ (x % VintBase) % VintBase = x % VintBase
        /\ ((x % VintBase) + VintBase) % VintBase = x % VintBase
    BY <2>3, DigitFacts
  <2>5. d(i) = x % VintBase
    BY DEF x
  <2> DEFINE r == x % VintBase
  <2> HIDE DEF d, r
  <2>6. d(i) = r /\ r \in 0..(VintBase - 1) /\ r + VintBase \in VintBase..(2 * VintBase - 1)
        /\ r % VintBase = r /\ (r + VintBase) % VintBase = r
    BY <2>4, <2>5 DEF r
  <2>7. CASE i < s
    BY <1>1, <2>6, <2>7, VintBaseAssumption DEF Byte
  <2>8. CASE i = s
    BY <1>1, <2>6, <2>8, VintBaseAssumption DEF Byte
  <2> QED BY <1>1, <2>7, <2>8
<1> HIDE DEF e, d
<1>4. w \in [1..s -> Byte]
  BY <1>2, <1>3
<1>5. w \in Seq(Byte) /\ Len(w) = s
  BY <1>1, <1>4
<1>6. \A i \in 1..s : w[i] = e(i)
  BY <1>2
<1> QED BY <1>3, <1>5, <1>6 DEF d

\* The data starts with the integer n, as far as it goes.
StartsWith(data, n) ==
  \A i \in 1..Len(data) : i <= VintEncodedSize(n) => data[i] = WriteVint(n)[i]

\* ReadVint finds the length, once all of the integer is there.
LEMMA VintSizeOf ==
  ASSUME NEW n \in Nat, NEW data \in Seq(Byte), StartsWith(data, n)
  PROVE  VintSize(data) = IF Len(data) >= VintEncodedSize(n) THEN VintEncodedSize(n) ELSE 0
<1> DEFINE s == VintEncodedSize(n)
           w == WriteVint(n)
           ends == {i \in 1..Len(data) : data[i] < VintBase}
<1>1. s \in Nat \ {0} /\ Len(data) \in Nat
  BY SizeFacts
<1>2. \A i \in 1..s : w[i] < VintBase <=> i = s
  BY VintWritten
<1>3. \A i \in 1..Len(data) : i <= s => data[i] = w[i]
  BY DEF StartsWith
<1> HIDE DEF s, w
<1>4. \A i \in 1..Len(data) : i < s => i \notin ends
  BY <1>1, <1>2, <1>3
<1>5. Len(data) >= s => s \in ends
  BY <1>1, <1>2, <1>3
<1>6. VintSize(data) = IF ends = {} THEN 0 ELSE CHOOSE x \in ends : \A y \in ends : x <= y
  BY DEF VintSize, Min
<1>7. ends \subseteq 1..Len(data)
  OBVIOUS
<1> HIDE DEF ends
<1>8. CASE Len(data) >= s
  <2>1. s \in ends /\ \A y \in ends : s <= y
    BY <1>1, <1>4, <1>5, <1>7, <1>8
  <2>2. \A x \in ends : (\A y \in ends : x <= y) => x = s
    BY <1>1, <1>7, <2>1
  <2>3. (CHOOSE x \in ends : \A y \in ends : x <= y) = s
    BY <2>1, <2>2
  <2> QED BY <1>6, <1>8, <2>1, <2>3 DEF s
<1>9. CASE ~(Len(data) >= s)
  <2>1. ends = {}
    BY <1>1, <1>4, <1>7, <1>9
  <2> QED BY <1>6, <1>9, <2>1 DEF s
<1> QED BY <1>8, <1>9

\* And the value.
LEMMA VintRead ==
  ASSUME NEW n \in Nat, NEW data \in Seq(Byte), StartsWith(data, n),
         Len(data) >= VintEncodedSize(n)
  PROVE  ReadVint(data) = n
<1> DEFINE s == VintEncodedSize(n)
           w == WriteVint(n)
           digit(i) == data[i] % VintBase
           Is(f) == f = [i \in 0..s |-> IF i = 0 THEN 0 ELSE (f[i - 1] * VintBase) + digit(i)]
           value == CHOOSE f : Is(f)
<1>1. s \in Nat \ {0} /\ n < Power[s] /\ Len(data) \in Nat /\ VintSize(data) = s
  BY SizeFacts, VintSizeOf
<1>2. ReadVint(data) = value[s]
  BY <1>1 DEF ReadVint
<1>3. ASSUME NEW i \in 1..s PROVE digit(i) = (n \div Power[s - i]) % VintBase
  <2>1. data[i] = w[i]
    BY <1>1 DEF StartsWith
  <2>2. w[i] % VintBase = (n \div Power[s - i]) % VintBase
    BY VintWritten
  <2> QED BY <2>1, <2>2
<1> DEFINE x(i) == n \div Power[s - i]
<1>4. ASSUME NEW i \in 0..s PROVE x(i) \in Nat
  <2>1. s - i \in Nat
    BY <1>1
  <2>2. Power[s - i] \in Nat \ {0}
    BY <2>1, PowerFacts
  <2> QED BY <2>2
<1>5. x(0) = 0
  <2> HIDE DEF s
  <2>1. s \in Nat /\ s - 0 = s
    BY <1>1
  <2> DEFINE p == Power[s]
  <2>2. p \in Nat /\ n < p
    BY <1>1, <2>1, PowerFacts
  <2>3. x(0) = n \div p
    BY <2>1
  <2> HIDE DEF p, x
  <2>4. n \div p = 0
    BY <2>2
  <2> QED BY <2>3, <2>4
<1>6. x(s) = n
  <2>1. s - s = 0 /\ n \div 1 = n
    BY <1>1
  <2> QED BY <2>1, PowerFacts
<1>7. ASSUME NEW i \in 1..s PROVE (x(i - 1) * VintBase) + digit(i) = x(i)
  <2> DEFINE y == x(i)
             p == Power[s - i]
             b == VintBase
  <2> HIDE DEF s
  <2>1. s - i \in Nat /\ s - (i - 1) = (s - i) + 1 /\ i \in 0..s
    BY <1>1
  <2>2. p \in Nat /\ p > 0 /\ y = n \div p /\ x(i - 1) = n \div (b * p)
    <3>1. p \in Nat \ {0} /\ Power[(s - i) + 1] = b * p
      BY <2>1, PowerFacts
    <3>2. Power[s - (i - 1)] = b * p
      BY <2>1, <3>1
    <3> QED BY <3>1, <3>2
  <2>3. b \in Nat /\ b > 0
    BY VintBaseAssumption
  <2>4. y \in Nat /\ digit(i) = y % b
    BY <1>3, <1>4, <2>1
  <2>5. y = (y \div b) * b + (y % b)
    BY <2>4, DigitFacts
  <2> HIDE DEF y, p, b, x, digit
  <2>6. (n \div p) \div b = n \div (p * b) /\ b * p = p * b
    BY <2>2, <2>3
  <2>7. x(i - 1) = y \div b
    BY <2>2, <2>6
  <2>8. (x(i - 1) * b) + digit(i) = y
    BY <2>4, <2>5, <2>7
  <2> QED BY <2>8 DEF y, b
<1> HIDE DEF s, w, x, digit
<1>8. Is([i \in 0..s |-> x(i)])
  <2> DEFINE f == [i \in 0..s |-> x(i)]
             F == [i \in 0..s |-> IF i = 0 THEN 0 ELSE (f[i - 1] * VintBase) + digit(i)]
  <2>1. ASSUME NEW i \in 0..s PROVE x(i) = IF i = 0 THEN 0 ELSE (f[i - 1] * VintBase) + digit(i)
    <3>1. CASE i = 0
      BY <1>5, <3>1
    <3>2. CASE i # 0
      <4>1. i \in 1..s /\ i - 1 \in 0..s
        BY <1>1, <3>2
      <4>2. f[i - 1] = x(i - 1)
        BY <4>1
      <4> QED BY <1>7, <3>2, <4>1, <4>2
    <3> QED BY <3>1, <3>2
  <2>2. f = F
    BY <2>1
  <2> QED BY <2>2
<1> HIDE DEF Is
<1>9. Is(value)
  BY <1>8
<1> HIDE DEF value
<1>10. \A i \in 0..s : value[i] = IF i = 0 THEN 0 ELSE (value[i - 1] * VintBase) + digit(i)
  BY <1>9 DEF Is
<1> DEFINE P == {i \in 0..s : value[i] = x(i)}
<1>11. 0 \in P
  <2>1. 0 \in 0..s
    BY <1>1
  <2>2. value[0] = 0
    BY <1>10, <2>1
  <2> QED BY <1>5, <2>1, <2>2
<1>12. ASSUME NEW i \in 0..(s - 1), i \in P PROVE i + 1 \in P
  <2>1. i + 1 \in 1..s /\ i + 1 \in 0..s /\ (i + 1) - 1 = i /\ i + 1 # 0
    BY <1>1
  <2>2. value[i] = x(i)
    BY <1>12
  <2>3. value[i + 1] = (x(i) * VintBase) + digit(i + 1)
    BY <1>10, <2>1, <2>2
  <2>4. (x(i) * VintBase) + digit(i + 1) = x(i + 1)
    BY <1>7, <2>1
  <2> QED BY <2>1, <2>3, <2>4
<1> HIDE DEF P
<1>13. s \in Nat /\ s \in 0..s
  BY <1>1
<1>14. s \in P
  BY <1>11, <1>12, <1>13, Induction
<1>15. value[s] = x(s)
  BY <1>14 DEF P
<1> QED BY <1>2, <1>6, <1>15

-----------------------------------------------------------------------------
(* Frames.                                                                 *)

Frame == [payload: Payloads, intact: BOOLEAN]

\* The bytes of a frame, as SendFrame puts them on the wire.
Bytes(f) == IF f.intact THEN PackFrame(f.payload)
            ELSE [PackFrame(f.payload) EXCEPT ![1] = (@ + 1) % (2 * VintBase)]

\* The sizes of a frame's length field, of its payload, and of its header.
Size(f) == Len(f.payload)
Digits(f) == VintEncodedSize(Size(f))

\* Pointwise properties of concatenated byte sequences.
LEMMA ConcatBytes ==
  ASSUME NEW S, NEW s \in Seq(S), NEW t \in Seq(S)
  PROVE  /\ s \o t \in Seq(S) /\ Len(s \o t) = Len(s) + Len(t)
         /\ \A i \in 1..Len(s) : (s \o t)[i] = s[i]
         /\ \A i \in 1..Len(t) : (s \o t)[Len(s) + i] = t[i]
<1>1. Len(s) \in Nat /\ Len(t) \in Nat
  OBVIOUS
<1>2. ASSUME NEW i \in 1..Len(s) PROVE (s \o t)[i] = s[i]
  <2>1. i \in 1..(Len(s) + Len(t)) /\ i <= Len(s)
    BY <1>1
  <2> QED BY <2>1, ConcatProperties
<1>3. ASSUME NEW i \in 1..Len(t) PROVE (s \o t)[Len(s) + i] = t[i]
  <2>1. Len(s) + i \in 1..(Len(s) + Len(t)) /\ ~(Len(s) + i <= Len(s))
        /\ (Len(s) + i) - Len(s) = i
    BY <1>1
  <2> QED BY <2>1, ConcatProperties
<1> QED BY <1>2, <1>3, ConcatProperties

\* The same of a sequence known to be a concatenation.
LEMMA ConcatIs ==
  ASSUME NEW S, NEW s \in Seq(S), NEW t \in Seq(S), NEW u, u = s \o t
  PROVE  /\ u \in Seq(S) /\ Len(u) = Len(s) + Len(t)
         /\ \A i \in 1..Len(s) : u[i] = s[i]
         /\ \A i \in 1..Len(t) : u[Len(s) + i] = t[i]
BY ConcatBytes

\* A frame is its hash, its length and its payload; the hash tells whether
\* the frame stayed intact.
LEMMA FrameFacts ==
  ASSUME NEW f \in Frame
  PROVE  /\ f.payload \in Seq(Byte) /\ Size(f) \in Nat /\ Digits(f) \in Nat \ {0}
         /\ Bytes(f) \in Seq(Byte) /\ Len(Bytes(f)) = 1 + Digits(f) + Size(f)
         /\ (Bytes(f)[1] = CalculateHash(f.payload)) <=> f.intact
         /\ \A i \in 1..Digits(f) : Bytes(f)[1 + i] = WriteVint(Size(f))[i]
         /\ \A i \in 1..Size(f) : Bytes(f)[1 + Digits(f) + i] = f.payload[i]
<1> DEFINE p == f.payload
           m == Len(p)
           z == VintEncodedSize(m)
           w == WriteVint(m)
           s == Sum32(p)
           h == <<s>>
           F == PackFrame(p)
<1>1. p \in Payloads /\ f.intact \in BOOLEAN
  BY DEF Frame
<1>2. p \in Seq(Byte) /\ s \in Byte
  BY <1>1, ReadAssemblyAssumption
<1> HIDE DEF p, s
<1>3. m \in Nat /\ h \in Seq(Byte) /\ Len(h) = 1 /\ h[1] = s
  BY <1>2
<1>4. z \in Nat \ {0} /\ w \in Seq(Byte) /\ Len(w) = z
  BY <1>3, SizeFacts, VintWritten
<1>5. F = (h \o w) \o p
  BY DEF PackFrame, CalculateHash, s
<1> HIDE DEF m, z, w, h, F
<1> DEFINE g == h \o w
<1>6. /\ g \in Seq(Byte) /\ Len(g) = 1 + z /\ g[1] = s
      /\ \A i \in 1..z : g[1 + i] = w[i]
  <2>1. /\ g \in Seq(Byte) /\ Len(g) = Len(h) + Len(w)
        /\ \A i \in 1..Len(h) : g[i] = h[i]
        /\ \A i \in 1..Len(w) : g[Len(h) + i] = w[i]
    <3>1. h \in Seq(Byte) /\ w \in Seq(Byte) /\ g = h \o w
      BY <1>3, <1>4
    <3> HIDE DEF g
    <3> QED BY ONLY <3>1, ConcatIs
  <2> HIDE DEF g
  <2> QED BY <2>1, <1>3, <1>4
<1> HIDE DEF g
<1>7. /\ F \in Seq(Byte) /\ Len(F) = (1 + z) + m /\ F[1] = s
      /\ \A i \in 1..z : F[1 + i] = w[i]
      /\ \A i \in 1..m : F[(1 + z) + i] = p[i]
  <2>1. F = g \o p
    BY <1>5 DEF g
  <2>2. /\ F \in Seq(Byte) /\ Len(F) = Len(g) + Len(p)
        /\ \A i \in 1..Len(g) : F[i] = g[i]
        /\ \A i \in 1..Len(p) : F[Len(g) + i] = p[i]
    <3>1. g \in Seq(Byte) /\ p \in Seq(Byte)
      BY <1>2, <1>6
    <3> QED BY ONLY <2>1, <3>1, ConcatIs
  <2>3. ASSUME NEW i \in 1..z PROVE F[1 + i] = w[i]
    <3>1. 1 + i \in 1..Len(g)
      BY <1>4, <1>6
    <3> QED BY <1>6, <2>2, <3>1
  <2>4. F[1] = s
    BY <1>4, <1>6, <2>2
  <2> QED BY <1>6, <2>2, <2>3, <2>4 DEF m
<1> DEFINE b == (s + 1) % (2 * VintBase)
           G == [F EXCEPT ![1] = b]
<1>8. b \in Byte /\ b # s
  <2>1. VintBase \in Nat /\ VintBase > 1 /\ s \in 0..(2 * VintBase - 1)
    BY <1>2, VintBaseAssumption DEF Byte
  <2> DEFINE c == 2 * VintBase
  <2>2. c \in Nat /\ c > 1 /\ s \in 0..(c - 1)
    BY <2>1
  <2> HIDE DEF c
  <2>3. CASE s = c - 1
    <3>1. (s + 1) % c = 0
      BY <2>2, <2>3
    <3> QED BY <2>1, <2>2, <2>3, <3>1 DEF c, Byte
  <2>4. CASE s # c - 1
    <3>1. (s + 1) % c = s + 1
      BY <2>2, <2>4
    <3> QED BY <2>1, <2>2, <2>4, <3>1 DEF c, Byte
  <2> QED BY <2>3, <2>4
<1> HIDE DEF b
<1>9. /\ G \in Seq(Byte) /\ Len(G) = Len(F) /\ G[1] = b
      /\ \A i \in 1..Len(F) : i # 1 => G[i] = F[i]
  <2>1. 1 \in 1..Len(F) /\ Len(F) \in Nat
    BY <1>3, <1>4, <1>7
  <2>2. G \in Seq(Byte) /\ Len(G) = Len(F)
    BY <1>7, <1>8, <2>1, ExceptSeq
  <2>3. F \in [1..Len(F) -> Byte]
    BY <1>7, LenProperties
  <2>4. G[1] = b /\ \A i \in 1..Len(F) : i # 1 => G[i] = F[i]
    BY <2>1, <2>3
  <2> QED BY <2>2, <2>4
<1>10. Bytes(f) = IF f.intact THEN F ELSE G
  <2>1. G = [F EXCEPT ![1] = (@ + 1) % (2 * VintBase)]
    BY <1>7 DEF b
  <2> QED BY <2>1 DEF Bytes, F, p
<1> HIDE DEF G
<1>11. /\ Bytes(f) \in Seq(Byte) /\ Len(Bytes(f)) = (1 + z) + m
       /\ (Bytes(f)[1] = s) <=> f.intact
       /\ \A i \in 1..z : Bytes(f)[1 + i] = w[i]
       /\ \A i \in 1..m : Bytes(f)[(1 + z) + i] = p[i]
  <2>1. CASE f.intact
    BY <1>1, <1>7, <1>10, <2>1
  <2>2. CASE ~f.intact
    <3>1. ASSUME NEW i \in 1..z PROVE G[1 + i] = w[i]
      <4>1. 1 + i \in 1..Len(F) /\ 1 + i # 1
        BY <1>3, <1>4, <1>7
      <4> QED BY <1>7, <1>9, <4>1
    <3>2. ASSUME NEW i \in 1..m PROVE G[(1 + z) + i] = p[i]
      <4>1. (1 + z) + i \in 1..Len(F) /\ (1 + z) + i # 1
        BY <1>3, <1>4, <1>7
      <4> QED BY <1>7, <1>9, <4>1
    <3> QED BY <1>1, <1>7, <1>8, <1>9, <1>10, <2>2, <3>1, <3>2
  <2> QED BY <1>1, <2>1, <2>2
<1>12. Size(f) = m /\ Digits(f) = z /\ CalculateHash(f.payload) = s /\ f.payload = p /\ WriteVint(Size(f)) = w
  BY DEF Size, Digits, CalculateHash, m, z, s, p, w
<1> QED BY <1>2, <1>3, <1>4, <1>11, <1>12

\* The bytes q start a frame f, as far as they go.
Starts(q, f) == \A i \in 1..Len(q) : i <= Len(Bytes(f)) => q[i] = Bytes(f)[i]

\* What processReadHeadFrames reads from the bytes of a frame: the header, once
\* it is there, and the payload, once it is there.
LEMMA FrameRead ==
  ASSUME NEW f \in Frame, NEW q \in Seq(Byte), Starts(q, f)
  PROVE  /\ (Len(q) > HashSize /\ VintSize(Tail(q)) > 0) <=> Len(q) >= 1 + Digits(f)
         /\ Len(q) >= 1 + Digits(f) =>
              /\ VintSize(Tail(q)) = Digits(f) /\ ReadVint(Tail(q)) = Size(f)
              /\ q[1] = Bytes(f)[1]
              /\ \A i \in 1..(Len(q) - (1 + Digits(f))) :
                   i <= Size(f) => q[1 + Digits(f) + i] = f.payload[i]
         /\ Len(q) >= 1 + Digits(f) + Size(f) =>
              SubSeq(q, 1 + Digits(f) + 1, 1 + Digits(f) + Size(f)) = f.payload
<1> DEFINE m == Size(f)
           z == Digits(f)
           F == Bytes(f)
           p == f.payload
           w == WriteVint(m)
<1>1. /\ m \in Nat /\ z \in Nat \ {0} /\ F \in Seq(Byte) /\ Len(F) = 1 + z + m
      /\ p \in Seq(Byte) /\ Len(p) = m /\ Len(q) \in Nat /\ z = VintEncodedSize(m)
      /\ \A i \in 1..z : F[1 + i] = w[i]
      /\ \A i \in 1..m : F[1 + z + i] = p[i]
  BY FrameFacts DEF Size, Digits
<1>2. \A i \in 1..Len(q) : i <= Len(F) => q[i] = F[i]
  BY DEF Starts
<1> HIDE DEF m, z, F, p
<1>3. ASSUME Len(q) > 1
      PROVE  /\ VintSize(Tail(q)) = IF Len(q) - 1 >= z THEN z ELSE 0
             /\ Len(q) - 1 >= z => ReadVint(Tail(q)) = m
  <2> DEFINE t == Tail(q)
  <2>1. t \in Seq(Byte) /\ Len(t) = Len(q) - 1 /\ \A i \in 1..Len(t) : t[i] = q[i + 1]
    BY <1>3, HeadTailProperties
  <2> HIDE DEF t
  <2>2. StartsWith(t, m)
    <3> SUFFICES ASSUME NEW i \in 1..Len(t), i <= z PROVE t[i] = w[i]
      BY <1>1 DEF StartsWith
    <3>1. i + 1 \in 1..Len(q) /\ i + 1 <= Len(F) /\ i + 1 = 1 + i /\ i \in 1..z
      BY <1>1, <2>1
    <3> QED BY <1>1, <1>2, <2>1, <3>1
  <2>3. VintSize(t) = IF Len(t) >= VintEncodedSize(m) THEN VintEncodedSize(m) ELSE 0
    BY <1>1, <2>1, <2>2, VintSizeOf
  <2>4. Len(t) >= VintEncodedSize(m) => ReadVint(t) = m
    BY <1>1, <2>1, <2>2, VintRead
  <2> QED BY <1>1, <2>1, <2>3, <2>4 DEF t
<1>4. (Len(q) > 1 /\ VintSize(Tail(q)) > 0) <=> Len(q) >= 1 + z
  BY <1>1, <1>3
<1>5. ASSUME Len(q) >= 1 + z
      PROVE  /\ VintSize(Tail(q)) = z /\ ReadVint(Tail(q)) = m /\ q[1] = F[1]
             /\ \A i \in 1..(Len(q) - (1 + z)) : i <= m => q[1 + z + i] = p[i]
  <2>1. VintSize(Tail(q)) = z /\ ReadVint(Tail(q)) = m
    BY <1>1, <1>3, <1>5
  <2>2. q[1] = F[1]
    <3>1. 1 \in 1..Len(q) /\ 1 <= Len(F)
      BY <1>1, <1>5
    <3> QED BY <1>2, <3>1
  <2>3. ASSUME NEW i \in 1..(Len(q) - (1 + z)), i <= m PROVE q[1 + z + i] = p[i]
    <3>1. 1 + z + i \in 1..Len(q) /\ 1 + z + i <= Len(F) /\ i \in 1..m
      BY <1>1, <1>5, <2>3
    <3> QED BY <1>1, <1>2, <3>1
  <2> QED BY <2>1, <2>2, <2>3
<1>6. ASSUME Len(q) >= 1 + z + m PROVE SubSeq(q, 1 + z + 1, 1 + z + m) = p
  <2> DEFINE x == SubSeq(q, 1 + z + 1, 1 + z + m)
  <2>1. 1 + z + 1 \in Int /\ 1 + z + m \in Int
    BY <1>1
  <2>2. \A i \in (1 + z + 1)..(1 + z + m) : q[i] \in Byte
    <3> SUFFICES ASSUME NEW i \in (1 + z + 1)..(1 + z + m) PROVE q[i] \in Byte
      OBVIOUS
    <3>1. i \in 1..Len(q)
      BY <1>1, <1>6
    <3> QED BY <3>1, ElementOfSeq
  <2>3. /\ x \in Seq(Byte) /\ Len(x) = (IF 1 + z + 1 <= 1 + z + m THEN (1 + z + m) - (1 + z + 1) + 1 ELSE 0)
        /\ \A i \in 1..((1 + z + m) - (1 + z + 1) + 1) : x[i] = q[(1 + z + 1) + i - 1]
    BY <2>1, <2>2, SubSeqProperties
  <2> HIDE DEF x
  <2>4. Len(x) = m
    BY <1>1, <2>3
  <2>5. ASSUME NEW i \in 1..m PROVE x[i] = p[i]
    <3>1. i \in 1..((1 + z + m) - (1 + z + 1) + 1) /\ (1 + z + 1) + i - 1 = 1 + z + i
          /\ i \in 1..(Len(q) - (1 + z)) /\ i <= m /\ Len(q) >= 1 + z
      BY <1>1, <1>6, SMTT(60)
    <3> QED BY <1>5, <2>3, <3>1
  <2>6. x = p
    BY <1>1, <2>3, <2>4, <2>5, SeqEqual
  <2> QED BY <2>6 DEF x
<1> QED BY <1>4, <1>5, <1>6 DEF m, z, F, p, HashSize

-----------------------------------------------------------------------------
(* The stream: all bytes that were ever sent, and where its frames are.    *)

\* The frames of snt, one after the other, are the bytes of stream; off says
\* where each ends.
Layout(snt, stream, off) ==
  /\ stream \in Seq(Byte)
  /\ off \in [0..Len(snt) -> Nat] /\ off[0] = 0 /\ off[Len(snt)] = Len(stream)
  /\ \A i \in 1..Len(snt) :
       /\ off[i] = off[i - 1] + Len(Bytes(snt[i])) /\ off[i] <= Len(stream)
       /\ \A j \in 1..Len(Bytes(snt[i])) : stream[off[i - 1] + j] = Bytes(snt[i])[j]

\* The bytes q are those of the stream that follow the first a.
Window(stream, q, a) ==
  /\ q \in Seq(Byte) /\ a \in Nat /\ a + Len(q) <= Len(stream)
  /\ \A j \in 1..Len(q) : q[j] = stream[a + j]

\* A window is cut in two.
LEMMA WindowCut ==
  ASSUME NEW stream \in Seq(Byte), NEW q, NEW a, Window(stream, q, a), NEW n \in 0..Len(q)
  PROVE  /\ Window(stream, SubSeq(q, 1, n), a) /\ Len(SubSeq(q, 1, n)) = n
         /\ Window(stream, SubSeq(q, n + 1, Len(q)), a + n)
         /\ Len(SubSeq(q, n + 1, Len(q))) = Len(q) - n
<1> DEFINE x == SubSeq(q, 1, n)
           y == SubSeq(q, n + 1, Len(q))
           b == a + n
<1>1. /\ q \in Seq(Byte) /\ a \in Nat /\ a + Len(q) <= Len(stream) /\ Len(q) \in Nat
      /\ n \in Nat /\ n <= Len(q) /\ Len(stream) \in Nat
      /\ \A j \in 1..Len(q) : q[j] = stream[a + j] /\ q[j] \in Byte
  BY ElementOfSeq DEF Window
<1>2. x \in Seq(Byte) /\ Len(x) = n /\ \A i \in 1..n : x[i] = q[i]
  <2>1. 1 \in Int /\ n \in Int /\ \A i \in 1..n : q[i] \in Byte
    BY <1>1
  <2>2. /\ x \in Seq(Byte) /\ Len(x) = (IF 1 <= n THEN n - 1 + 1 ELSE 0)
        /\ \A i \in 1..(n - 1 + 1) : x[i] = q[1 + i - 1]
    BY <2>1, SubSeqProperties
  <2> HIDE DEF x
  <2>3. Len(x) = n
    BY <1>1, <2>2
  <2>4. ASSUME NEW i \in 1..n PROVE x[i] = q[i]
    <3>1. i \in 1..(n - 1 + 1) /\ 1 + i - 1 = i
      BY <1>1
    <3> QED BY <2>2, <3>1
  <2> QED BY <2>2, <2>3, <2>4
<1>3. y \in Seq(Byte) /\ Len(y) = Len(q) - n /\ \A i \in 1..(Len(q) - n) : y[i] = q[n + i]
  <2> DEFINE l == Len(q)
  <2>1. n + 1 \in Int /\ l \in Int /\ \A i \in (n + 1)..l : q[i] \in Byte
    BY <1>1
  <2>2. /\ y \in Seq(Byte) /\ Len(y) = (IF n + 1 <= l THEN l - (n + 1) + 1 ELSE 0)
        /\ \A i \in 1..(l - (n + 1) + 1) : y[i] = q[(n + 1) + i - 1]
    BY <2>1, SubSeqProperties
  <2> HIDE DEF y, l
  <2>0. l \in Nat /\ n <= l
    BY <1>1 DEF l
  <2>3. Len(y) = l - n
    BY <1>1, <2>0, <2>2
  <2>4. ASSUME NEW i \in 1..(l - n) PROVE y[i] = q[n + i]
    <3>1. i \in 1..(l - (n + 1) + 1) /\ (n + 1) + i - 1 = n + i
      BY <1>1, <2>0
    <3> QED BY <2>2, <3>1
  <2> QED BY <2>2, <2>3, <2>4 DEF l
<1> HIDE DEF x, y
<1>4. Window(stream, x, a)
  <2>1. a + Len(x) <= Len(stream)
    BY <1>1, <1>2
  <2>2. ASSUME NEW i \in 1..Len(x) PROVE x[i] = stream[a + i]
    <3>1. i \in 1..n /\ i \in 1..Len(q)
      BY <1>1, <1>2
    <3> QED BY <1>1, <1>2, <3>1
  <2> QED BY <1>1, <1>2, <2>1, <2>2 DEF Window
<1>5. Window(stream, y, b)
  <2>1. b \in Nat /\ b + Len(y) <= Len(stream)
    BY <1>1, <1>3
  <2>2. ASSUME NEW i \in 1..Len(y) PROVE y[i] = stream[b + i]
    <3>1. i \in 1..(Len(q) - n) /\ n + i \in 1..Len(q) /\ a + (n + i) = b + i
      BY <1>1, <1>3
    <3> QED BY <1>1, <1>3, <3>1
  <2> QED BY <1>3, <2>1, <2>2 DEF Window
<1> QED BY <1>2, <1>3, <1>4, <1>5 DEF x, y

\* Two windows side by side are one.
LEMMA WindowJoin ==
  ASSUME NEW stream \in Seq(Byte), NEW q, NEW r, NEW a,
         Window(stream, q, a), Window(stream, r, a + Len(q))
  PROVE  Window(stream, q \o r, a) /\ Len(q \o r) = Len(q) + Len(r)
<1> DEFINE u == q \o r
           b == a + Len(q)
<1>1. /\ q \in Seq(Byte) /\ r \in Seq(Byte) /\ a \in Nat /\ Len(q) \in Nat /\ Len(r) \in Nat
      /\ b \in Nat /\ b + Len(r) <= Len(stream) /\ u = q \o r
      /\ \A j \in 1..Len(q) : q[j] = stream[a + j]
      /\ \A j \in 1..Len(r) : r[j] = stream[b + j]
  BY DEF Window
<1> HIDE DEF u
<1>2. /\ u \in Seq(Byte) /\ Len(u) = Len(q) + Len(r)
      /\ \A i \in 1..Len(q) : u[i] = q[i]
      /\ \A i \in 1..Len(r) : u[Len(q) + i] = r[i]
  BY ONLY <1>1, ConcatIs
<1>3. a + Len(u) <= Len(stream)
  BY <1>1, <1>2
<1>4. ASSUME NEW j \in 1..Len(u) PROVE u[j] = stream[a + j]
  <2>1. CASE j <= Len(q)
    <3>1. j \in 1..Len(q)
      BY <1>1, <2>1
    <3> QED BY <1>1, <1>2, <3>1
  <2>2. CASE ~(j <= Len(q))
    <3>1. j - Len(q) \in 1..Len(r) /\ Len(q) + (j - Len(q)) = j /\ b + (j - Len(q)) = a + j
      BY <1>1, <1>2, <2>2
    <3> QED BY <1>1, <1>2, <3>1
  <2> QED BY <2>1, <2>2
<1>5. Window(stream, u, a)
  BY <1>1, <1>2, <1>3, <1>4 DEF Window
<1> QED BY <1>2, <1>5 DEF u

\* A window stays one when the stream grows.
LEMMA WindowKept ==
  ASSUME NEW stream \in Seq(Byte), NEW t \in Seq(Byte), NEW q, NEW a, Window(stream, q, a)
  PROVE  Window(stream \o t, q, a)
<1> DEFINE u == stream \o t
<1>1. u = stream \o t /\ Len(stream) \in Nat /\ Len(t) \in Nat
  OBVIOUS
<1> HIDE DEF u
<1>2. u \in Seq(Byte) /\ Len(u) = Len(stream) + Len(t) /\ \A i \in 1..Len(stream) : u[i] = stream[i]
  BY ONLY <1>1, ConcatIs, stream \in Seq(Byte), t \in Seq(Byte)
<1>3. /\ q \in Seq(Byte) /\ a \in Nat /\ a + Len(q) <= Len(stream) /\ Len(q) \in Nat
      /\ \A j \in 1..Len(q) : q[j] = stream[a + j]
  BY DEF Window
<1>4. ASSUME NEW j \in 1..Len(q) PROVE q[j] = u[a + j]
  <2>1. a + j \in 1..Len(stream)
    BY <1>1, <1>3
  <2> QED BY <1>2, <1>3, <2>1
<1>5. a + Len(q) <= Len(u)
  BY <1>1, <1>2, <1>3
<1>6. Window(u, q, a)
  BY <1>3, <1>4, <1>5 DEF Window
<1> QED BY <1>6 DEF u

\* Nothing follows the last frame.
LEMMA WindowAtEnd ==
  ASSUME NEW snt, NEW stream, NEW off, Layout(snt, stream, off),
         NEW q, Window(stream, q, off[Len(snt)])
  PROVE  Len(q) = 0
<1> DEFINE k == Len(snt)
<1>1. off[k] = Len(stream) /\ off[k] \in Nat /\ off[k] + Len(q) <= Len(stream) /\ Len(q) \in Nat
  BY DEF Layout, Window
<1> QED BY <1>1

\* What follows the first k frames starts the next one.
LEMMA WindowStarts ==
  ASSUME NEW snt \in Seq(Frame), NEW stream, NEW off, Layout(snt, stream, off),
         NEW k \in 0..Len(snt), k < Len(snt), NEW q, Window(stream, q, off[k])
  PROVE  /\ snt[k + 1] \in Frame /\ Starts(q, snt[k + 1]) /\ k + 1 \in 1..Len(snt)
         /\ off[k + 1] = off[k] + Len(Bytes(snt[k + 1]))
<1> DEFINE i == k + 1
           f == snt[i]
<1>1. i \in 1..Len(snt) /\ i - 1 = k
  OBVIOUS
<1>2. f \in Frame
  BY <1>1, ElementOfSeq
<1>3. /\ off[i] = off[k] + Len(Bytes(f))
      /\ \A j \in 1..Len(Bytes(f)) : stream[off[k] + j] = Bytes(f)[j]
  BY <1>1 DEF Layout
<1>4. \A j \in 1..Len(q) : q[j] = stream[off[k] + j]
  BY DEF Window
<1> HIDE DEF f, i
<1>5. Len(Bytes(f)) \in Nat /\ Len(q) \in Nat
  BY <1>2, FrameFacts DEF Window
<1>6. ASSUME NEW j \in 1..Len(q), j <= Len(Bytes(f)) PROVE q[j] = Bytes(f)[j]
  <2>1. j \in 1..Len(Bytes(f))
    BY <1>5, <1>6
  <2> QED BY <1>3, <1>4, <2>1
<1>7. Starts(q, f)
  BY <1>6 DEF Starts
<1> QED BY <1>1, <1>2, <1>3, <1>7 DEF f, i

\* The layout after one more frame.
LEMMA LayoutSent ==
  ASSUME NEW snt \in Seq(Frame), NEW stream, NEW off, Layout(snt, stream, off), NEW f \in Frame
  PROVE  \E o : /\ Layout(Append(snt, f), stream \o Bytes(f), o)
                /\ \A i \in 0..Len(snt) : o[i] = off[i]
<1> DEFINE F == Bytes(f)
           u == stream \o F
           n == Len(snt)
           s == Append(snt, f)
           o == [i \in 0..(n + 1) |-> IF i = n + 1 THEN Len(stream) + Len(F) ELSE off[i]]
<1>1. /\ stream \in Seq(Byte) /\ F \in Seq(Byte) /\ u = stream \o F /\ Len(stream) \in Nat /\ Len(F) \in Nat
      /\ n \in Nat
  BY FrameFacts DEF Layout
<1>2. Len(s) = n + 1 /\ s[n + 1] = f /\ \A i \in 1..n : s[i] = snt[i]
  BY AppendProperties
<1>3. /\ off \in [0..n -> Nat] /\ off[0] = 0 /\ off[n] = Len(stream)
      /\ \A i \in 1..n :
           /\ off[i] = off[i - 1] + Len(Bytes(snt[i])) /\ off[i] <= Len(stream)
           /\ \A j \in 1..Len(Bytes(snt[i])) : stream[off[i - 1] + j] = Bytes(snt[i])[j]
  BY DEF Layout
<1>0. \A i \in 1..n : Len(Bytes(snt[i])) \in Nat
  BY ElementOfSeq, FrameFacts
<1>4. o \in [0..(n + 1) -> Nat] /\ o[n + 1] = Len(stream) + Len(F) /\ \A i \in 0..n : o[i] = off[i]
  BY <1>1, <1>3
<1> HIDE DEF u, F, n, s, o
<1>5. /\ u \in Seq(Byte) /\ Len(u) = Len(stream) + Len(F)
      /\ \A i \in 1..Len(stream) : u[i] = stream[i]
      /\ \A i \in 1..Len(F) : u[Len(stream) + i] = F[i]
  BY ONLY <1>1, ConcatIs
<1>6. ASSUME NEW i \in 1..(n + 1)
      PROVE  /\ o[i] = o[i - 1] + Len(Bytes(s[i])) /\ o[i] <= Len(u)
             /\ \A j \in 1..Len(Bytes(s[i])) : u[o[i - 1] + j] = Bytes(s[i])[j]
  <2>1. CASE i = n + 1
    <3>1. i - 1 = n /\ n \in 0..n /\ o[i - 1] = Len(stream) /\ Bytes(s[i]) = F /\ o[i] = Len(stream) + Len(F)
      BY <1>1, <1>2, <1>3, <1>4, <2>1 DEF F
    <3> QED BY <1>1, <1>5, <3>1, SMTT(60)
  <2>2. CASE i # n + 1
    <3>1. i \in 1..n /\ i \in 0..n /\ i - 1 \in 0..n
      BY <1>1, <2>2
    <3>2. s[i] = snt[i] /\ o[i] = off[i] /\ o[i - 1] = off[i - 1] /\ off[i] \in Nat /\ off[i - 1] \in Nat
      BY <1>2, <1>3, <1>4, <3>1
    <3> DEFINE B == Bytes(snt[i])
    <3>3. /\ off[i] = off[i - 1] + Len(B) /\ off[i] <= Len(stream) /\ Len(B) \in Nat
          /\ \A j \in 1..Len(B) : stream[off[i - 1] + j] = B[j]
      BY <1>0, <1>3, <3>1
    <3> HIDE DEF B
    <3>4. ASSUME NEW j \in 1..Len(B) PROVE u[off[i - 1] + j] = B[j]
      <4>1. off[i - 1] + j \in 1..Len(stream)
        BY <1>1, <3>2, <3>3
      <4> QED BY <1>5, <3>3, <4>1
    <3>5. off[i] <= Len(u)
      BY <1>1, <1>5, <3>2, <3>3
    <3> QED BY <3>2, <3>3, <3>4, <3>5 DEF B
  <2> QED BY <2>1, <2>2
<1>7. o[0] = 0 /\ o[n + 1] = Len(u)
  BY <1>1, <1>3, <1>4, <1>5
<1>8. Layout(s, u, o)
  BY <1>2, <1>4, <1>5, <1>6, <1>7 DEF Layout
<1> QED BY <1>4, <1>8 DEF s, u, F, n

-----------------------------------------------------------------------------
(* What is handed over, and what is counted.                               *)

Over(lim, size) == lim > 0 /\ size > lim
Good(f, lim) == f.intact /\ ~Over(lim, Size(f))

\* got[k] is what is to be handed over of the first k frames.
Deliveries(snt, lim, got) ==
  /\ got \in [0..Len(snt) -> Seq(Seq(Byte))] /\ got[0] = << >>
  /\ \A i \in 1..Len(snt) :
       got[i] = IF Good(snt[i], lim) THEN Append(got[i - 1], snt[i].payload) ELSE got[i - 1]

\* The deliveries after one more frame.
LEMMA DeliveriesSent ==
  ASSUME NEW snt \in Seq(Frame), NEW lim, NEW got, Deliveries(snt, lim, got), NEW f \in Frame
  PROVE  \E g : /\ Deliveries(Append(snt, f), lim, g)
                /\ \A i \in 0..Len(snt) : g[i] = got[i]
<1> DEFINE n == Len(snt)
           s == Append(snt, f)
           v == IF Good(f, lim) THEN Append(got[n], f.payload) ELSE got[n]
           g == [i \in 0..(n + 1) |-> IF i = n + 1 THEN v ELSE got[i]]
           D == Seq(Seq(Byte))
<1>1. n \in Nat /\ f.payload \in Seq(Byte)
  BY FrameFacts
<1>2. Len(s) = n + 1 /\ s[n + 1] = f /\ \A i \in 1..n : s[i] = snt[i]
  BY AppendProperties
<1>3. /\ got \in [0..n -> D] /\ got[0] = << >>
      /\ \A i \in 1..n :
           got[i] = IF Good(snt[i], lim) THEN Append(got[i - 1], snt[i].payload) ELSE got[i - 1]
  BY DEF Deliveries
<1>4. v \in D
  <2>1. got[n] \in D
    BY <1>1, <1>3
  <2>2. Append(got[n], f.payload) \in D
    BY <1>1, <2>1, AppendProperties
  <2> QED BY <2>1, <2>2
<1> HIDE DEF v, D
<1>5. g \in [0..(n + 1) -> D] /\ g[n + 1] = v /\ \A i \in 0..n : g[i] = got[i]
  BY <1>1, <1>3, <1>4
<1> HIDE DEF g, s, n
<1>6. ASSUME NEW i \in 1..(n + 1)
      PROVE  g[i] = IF Good(s[i], lim) THEN Append(g[i - 1], s[i].payload) ELSE g[i - 1]
  <2>1. CASE i = n + 1
    <3>1. i - 1 = n /\ n \in 0..n /\ g[i - 1] = got[n] /\ s[i] = f /\ g[i] = v
      BY <1>1, <1>2, <1>5, <2>1
    <3> QED BY <3>1 DEF v
  <2>2. CASE i # n + 1
    <3>1. i \in 1..n /\ i \in 0..n /\ i - 1 \in 0..n
      BY <1>1, <2>2
    <3> QED BY <1>2, <1>3, <1>5, <3>1
  <2> QED BY <2>1, <2>2
<1>7. g[0] = << >>
  BY <1>1, <1>3, <1>5
<1>8. Deliveries(s, lim, g)
  BY <1>2, <1>5, <1>6, <1>7 DEF Deliveries, D
<1> QED BY <1>5, <1>8 DEF s, n

\* s starts with r.
Prefix(r, s) == Len(r) <= Len(s) /\ \A i \in 1..Len(r) : r[i] = s[i]

\* What is handed over of fewer frames is the start of what is of more.
LEMMA DeliveriesGrow ==
  ASSUME NEW snt \in Seq(Frame), NEW lim, NEW got, Deliveries(snt, lim, got),
         NEW k \in 0..Len(snt)
  PROVE  Prefix(got[k], got[Len(snt)])
<1> DEFINE n == Len(snt)
           P == {j \in Nat : k + j <= n => Prefix(got[k], got[k + j])}
           m == n - k
<1>1. n \in Nat /\ k \in Nat /\ m \in Nat /\ k + m = n
  OBVIOUS
<1>2. /\ got \in [0..n -> Seq(Seq(Byte))]
      /\ \A i \in 1..n :
           got[i] = IF Good(snt[i], lim) THEN Append(got[i - 1], snt[i].payload) ELSE got[i - 1]
  BY DEF Deliveries
<1>3. \A i \in 0..n : got[i] \in Seq(Seq(Byte)) /\ Len(got[i]) \in Nat
  BY <1>2
<1> HIDE DEF m, n
<1>4. 0 \in P
  <2>1. k + 0 = k /\ k \in 0..n
    BY <1>1 DEF n
  <2> QED BY <1>3, <2>1 DEF Prefix
<1>5. ASSUME NEW j \in 0..(m - 1), j \in P PROVE j + 1 \in P
  <2> DEFINE i == k + (j + 1)
             x == got[k + j]
             y == got[i]
             r == got[k]
  <2>1. i \in 1..n /\ i - 1 = k + j /\ k + j <= n /\ j \in Nat /\ k + j \in 0..n /\ i \in 0..n /\ k \in 0..n
    BY <1>1
  <2>2. Prefix(r, x)
    BY <1>5, <2>1
  <2>3. x \in Seq(Seq(Byte)) /\ y \in Seq(Seq(Byte)) /\ r \in Seq(Seq(Byte))
    BY <1>3, <2>1
  <2>4. y = x \/ y = Append(x, snt[i].payload)
    BY <1>2, <2>1
  <2>5. Prefix(x, y)
    <3> HIDE DEF x, y, i
    <3>1. Len(x) \in Nat
      BY <2>3
    <3>2. CASE y = x
      BY <3>1, <3>2 DEF Prefix
    <3>3. CASE y = Append(x, snt[i].payload)
      <4> DEFINE e == snt[i].payload
      <4> HIDE DEF e
      <4>1. y = Append(x, e)
        BY <3>3 DEF e
      <4>2. Len(Append(x, e)) = Len(x) + 1 /\ \A l \in 1..Len(x) : Append(x, e)[l] = x[l]
        BY ONLY <2>3, <3>1
      <4> QED BY <3>1, <4>1, <4>2 DEF Prefix
    <3> QED BY <2>4, <3>2, <3>3
  <2> HIDE DEF x, y, r
  <2>6. Prefix(r, y)
    <3>1. Len(r) \in Nat /\ Len(x) \in Nat /\ Len(y) \in Nat
      BY <2>3
    <3>2. Len(r) <= Len(x) /\ Len(x) <= Len(y)
      BY <2>2, <2>5 DEF Prefix
    <3>3. ASSUME NEW l \in 1..Len(r) PROVE r[l] = y[l]
      <4>1. l \in 1..Len(x)
        BY <3>1, <3>2
      <4> QED BY <2>2, <2>5, <4>1 DEF Prefix
    <3> QED BY <3>1, <3>2, <3>3 DEF Prefix
  <2>7. j + 1 \in Nat
    BY <2>1
  <2> QED BY <2>6, <2>7 DEF r, y
<1> HIDE DEF P
<1>6. m \in 0..m
  BY <1>1
<1>7. m \in P
  BY <1>1, <1>4, <1>5, <1>6, Induction
<1>8. Prefix(got[k], got[k + m])
  BY <1>1, <1>7 DEF P
<1> QED BY <1>1, <1>8 DEF n

\* Expected is what is to be handed over of all frames.
LEMMA ExpectedIs ==
  ASSUME sent \in Seq(Frame), NEW got, Deliveries(sent, limitSize, got)
  PROVE  Expected = got[Len(sent)]
<1> DEFINE n == Len(sent)
           next(i, q) == IF i = 0 THEN << >>
                         ELSE IF Deliverable(sent[i]) THEN Append(q, sent[i].payload) ELSE q
           Is(f) == f = [i \in 0..n |-> IF i = 0 THEN << >>
                                        ELSE IF Deliverable(sent[i]) THEN Append(f[i - 1], sent[i].payload)
                                        ELSE f[i - 1]]
           upTo == CHOOSE f : Is(f)
<1>1. Expected = upTo[n]
  BY DEF Expected
<1>2. n \in Nat /\ n \in 0..n /\ 0 \in 0..n
  OBVIOUS
<1>3. \A f : Deliverable(f) <=> Good(f, limitSize)
  BY DEF Deliverable, Good, OverLimit, Over, Size
<1>4. \A i \in 0..n : got[i] = next(i, got[i - 1])
  <2> SUFFICES ASSUME NEW i \in 0..n PROVE got[i] = next(i, got[i - 1])
    OBVIOUS
  <2>1. CASE i = 0
    BY <2>1 DEF Deliveries
  <2>2. CASE i # 0
    <3>1. i \in 1..n
      BY <1>2, <2>2
    <3> QED BY <1>3, <2>2, <3>1 DEF Deliveries
  <2> QED BY <2>1, <2>2
<1>5. Is(got)
  <2> DEFINE G == [i \in 0..n |-> got[i]]
             H == [i \in 0..n |-> next(i, got[i - 1])]
  <2>1. got = G
    BY DEF Deliveries
  <2>2. G = H
    BY <1>4
  <2>3. got = H
    BY <2>1, <2>2
  <2> QED BY <2>3
<1>6. Is(upTo)
  <2> HIDE DEF Is
  <2> QED BY <1>5
<1> HIDE DEF upTo
<1>7. \A i \in 0..n : upTo[i] = next(i, upTo[i - 1])
  BY <1>6
<1> HIDE DEF Is
<1> DEFINE P == {i \in 0..n : upTo[i] = got[i]}
<1>8. 0 \in P
  BY <1>2, <1>4, <1>7
<1>9. ASSUME NEW i \in 0..(n - 1), i \in P PROVE i + 1 \in P
  <2>1. i + 1 \in 0..n /\ (i + 1) - 1 = i /\ upTo[i] = got[i]
    BY <1>2, <1>9
  <2> HIDE DEF next
  <2> QED BY <1>4, <1>7, <2>1
<1> HIDE DEF P, n
<1>10. n \in P
  BY <1>2, <1>8, <1>9, Induction
<1> QED BY <1>1, <1>10 DEF P, n

\* How many of the numbers up to k are in T.
Count(T, k) == Cardinality({i \in 1..k : i \in T})

\* A count grows by one at a member and not otherwise.
LEMMA CountFacts ==
  ASSUME NEW T, NEW k \in Nat
  PROVE  /\ Count(T, k) \in Nat /\ Count(T, 0) = 0
         /\ Count(T, k + 1) = Count(T, k) + (IF k + 1 \in T THEN 1 ELSE 0)
<1> DEFINE A(j) == {i \in 1..j : i \in T}
<1>1. IsFiniteSet(A(k))
  <2>1. IsFiniteSet(1..k) /\ A(k) \subseteq 1..k
    BY FS_Interval
  <2> QED BY <2>1, FS_Subset
<1>2. Cardinality(A(k)) \in Nat
  BY <1>1, FS_CardinalityType
<1>3. Cardinality(A(0)) = 0
  <2>1. A(0) = {}
    OBVIOUS
  <2> QED BY <2>1, FS_EmptySet
<1>4. CASE k + 1 \in T
  <2>1. A(k + 1) = A(k) \cup {k + 1} /\ k + 1 \notin A(k)
    BY <1>4
  <2> HIDE DEF A
  <2>2. Cardinality(A(k) \cup {k + 1}) = Cardinality(A(k)) + 1
    BY <1>1, <2>1, FS_AddElement
  <2> QED BY <1>2, <1>3, <1>4, <2>1, <2>2 DEF A, Count
<1>5. CASE k + 1 \notin T
  <2>1. A(k + 1) = A(k)
    BY <1>5
  <2>2. Cardinality(A(k + 1)) = Cardinality(A(k)) + 0
    BY <1>2, <2>1
  <2> QED BY <1>2, <1>3, <1>5, <2>2 DEF Count
<1> QED BY <1>4, <1>5

\* More members and more numbers make no smaller count.
LEMMA CountGrows ==
  ASSUME NEW T, NEW U, NEW k \in Nat, NEW n \in Nat, k <= n, \A i \in 1..k : i \in T => i \in U
  PROVE  Count(T, k) <= Count(U, n)
<1> DEFINE A == {i \in 1..k : i \in T}
           B == {i \in 1..n : i \in U}
<1>1. IsFiniteSet(1..n) /\ B \subseteq 1..n /\ A \subseteq B
  BY FS_Interval
<1>2. IsFiniteSet(B)
  BY <1>1, FS_Subset
<1> HIDE DEF A, B
<1>3. Cardinality(A) <= Cardinality(B)
  BY <1>1, <1>2, FS_Subset
<1> QED BY <1>3 DEF A, B, Count

\* The frames that are damaged, and those over the limit.
Damaged(snt) == {i \in 1..Len(snt) : ~snt[i].intact}
Large(snt, lim) == {i \in 1..Len(snt) : Over(lim, Size(snt[i]))}

\* Bad data enough to give the connection up.
BadData(snt, lim) ==
  \/ Count(Damaged(snt), Len(snt)) > MaxHashFailed
  \/ Count(Large(snt, lim), Len(snt)) > MaxSizeFailed
  \/ \E i \in 1..Len(snt) : i \in Large(snt, lim) /\ PackFrameSize(Size(snt[i])) > DataSmallSize

\* ClosedOnlyForBadData, with counts.
LEMMA BadDataMeant ==
  ASSUME sent \in Seq(Frame)
  PROVE  ClosedOnlyForBadData <=> (isFree => BadData(sent, limitSize))
<1> DEFINE n == Len(sent)
<1>1. DOMAIN sent = 1..n
  OBVIOUS
<1>2. {i \in DOMAIN sent : ~sent[i].intact} = {i \in 1..n : i \in Damaged(sent)}
  BY <1>1 DEF Damaged
<1>3. \A i \in 1..n : OverLimit(Len(sent[i].payload)) <=> i \in Large(sent, limitSize)
  BY DEF OverLimit, Large, Over, Size
<1>4. {i \in DOMAIN sent : OverLimit(Len(sent[i].payload))} = {i \in 1..n : i \in Large(sent, limitSize)}
  BY <1>1, <1>3
<1>5. (\E i \in DOMAIN sent : /\ OverLimit(Len(sent[i].payload))
                              /\ PackFrameSize(Len(sent[i].payload)) > DataSmallSize)
      <=> \E i \in 1..n : i \in Large(sent, limitSize) /\ PackFrameSize(Size(sent[i])) > DataSmallSize
  BY <1>1, <1>3 DEF Size
<1> QED BY <1>2, <1>4, <1>5 DEF ClosedOnlyForBadData, BadData, Count

\* More frames do not change the counts of the earlier ones.
LEMMA SentKept ==
  ASSUME NEW snt \in Seq(Frame), NEW lim, NEW f \in Frame, NEW k \in 0..Len(snt)
  PROVE  /\ Count(Damaged(snt), k) <= Count(Damaged(Append(snt, f)), k)
         /\ Count(Large(snt, lim), k) <= Count(Large(Append(snt, f), lim), k)
         /\ BadData(snt, lim) => BadData(Append(snt, f), lim)
<1> DEFINE n == Len(snt)
           s == Append(snt, f)
           D == Damaged(snt)
           E == Damaged(s)
           L == Large(snt, lim)
           M == Large(s, lim)
<1>1. n \in Nat /\ k \in Nat /\ k <= n /\ n + 1 \in Nat /\ n <= n + 1 /\ k <= k
  OBVIOUS
<1>2. Len(s) = n + 1 /\ \A i \in 1..n : s[i] = snt[i]
  BY AppendProperties
<1>3. \A i \in 1..n : i \in 1..(n + 1)
  BY <1>1
<1> HIDE DEF n, s
<1>4. D \subseteq E /\ L \subseteq M /\ Len(snt) = n
  BY <1>2, <1>3 DEF Damaged, Large, n
<1> HIDE DEF D, E, L, M
<1>5. Count(D, k) <= Count(E, k) /\ Count(L, k) <= Count(M, k)
  BY <1>1, <1>4, CountGrows
<1>6. Count(D, n) <= Count(E, n + 1) /\ Count(L, n) <= Count(M, n + 1)
  BY <1>1, <1>4, CountGrows
<1>7. /\ Count(D, n) \in Nat /\ Count(E, n + 1) \in Nat /\ Count(L, n) \in Nat
      /\ Count(M, n + 1) \in Nat
  BY <1>1, CountFacts
<1>8. MaxHashFailed \in Nat /\ MaxSizeFailed \in Nat
  BY ReadAssemblyAssumption
<1>9. ASSUME BadData(snt, lim) PROVE BadData(s, lim)
  <2>1. CASE Count(D, n) > MaxHashFailed
    <3>1. Count(E, n + 1) > MaxHashFailed
      BY <1>6, <1>7, <1>8, <2>1
    <3> QED BY <1>2, <3>1 DEF BadData, E
  <2>2. CASE Count(L, n) > MaxSizeFailed
    <3>1. Count(M, n + 1) > MaxSizeFailed
      BY <1>6, <1>7, <1>8, <2>2
    <3> QED BY <1>2, <3>1 DEF BadData, M
  <2>3. CASE \E i \in 1..n : i \in L /\ PackFrameSize(Size(snt[i])) > DataSmallSize
    <3>1. PICK i \in 1..n : i \in L /\ PackFrameSize(Size(snt[i])) > DataSmallSize
      BY <2>3
    <3>2. i \in 1..(n + 1) /\ i \in M /\ s[i] = snt[i]
      BY <1>2, <1>3, <1>4, <3>1
    <3> QED BY <1>2, <3>1, <3>2 DEF BadData, M
  <2> QED BY <1>9, <1>4, <2>1, <2>2, <2>3 DEF BadData, D, L
<1> QED BY <1>5, <1>9 DEF D, E, L, M, s

-----------------------------------------------------------------------------
(* The inductive invariant: k frames are dealt with, c bytes of the stream *)
(* have left the chunk.                                                    *)

\* What is read and what is not follow each other in the stream.
Reading(stream, c) ==
  /\ Window(stream, incoming, c) /\ Window(stream, wire, c + Len(incoming))
  /\ c + Len(incoming) + Len(wire) = Len(stream)
  /\ pc = "read" => incoming = << >>

\* Without a large frame the head buffer has what comes next, and between two
\* feeds less than the next frame and less than the buffer holds.
InHead(stream, off, k, c) ==
  /\ off[k] >= buffStart /\ Window(stream, readHead, off[k] - buffStart)
  /\ c = (off[k] - buffStart) + Len(readHead)
  /\ (pc # "parse" /\ k < Len(sent)) =>
        Len(readHead) < DataSmallSize /\ Len(readHead) < Len(Bytes(sent[k + 1]))

\* A large frame has its hash and what was read of its payload.
InLarge(stream, off, k, c, f, d) ==
  /\ pc # "parse" /\ readHead = << >> /\ k < Len(sent) /\ f = sent[k + 1]
  /\ readLargeFrame = [buffer |-> <<Bytes(f)[1]>> \o d, msgLen |-> Size(f)]
  /\ Window(stream, d, off[k] + 1 + Digits(f)) /\ Len(d) < Size(f)
  /\ c = off[k] + 1 + Digits(f) + Len(d)

\* The counters count frames that are dealt with.
Counted(k) ==
  hashFailed <= Count(Damaged(sent), k) /\ sizeFailed <= Count(Large(sent, limitSize), k)

InLoop(stream, off, k, c) ==
  /\ Reading(stream, c) /\ Counted(k)
  /\ pc \in {"read", "feed"} => ~isFree /\ buffStart = 0
  /\ \/ readLargeFrame = NoFrame /\ InHead(stream, off, k, c)
     \/ \E f \in Frame, d \in Seq(Byte) : InLarge(stream, off, k, c, f, d)

Ghost(stream, off, got, k, c) ==
  /\ Layout(sent, stream, off) /\ Deliveries(sent, limitSize, got)
  /\ k \in 0..Len(sent) /\ received = got[k]
  /\ pc # "done" => InLoop(stream, off, k, c)

Typed ==
  /\ wire \in Seq(Byte) /\ incoming \in Seq(Byte) /\ readHead \in Seq(Byte)
  /\ sent \in Seq(Frame)
  /\ pc \in {"read", "feed", "parse", "done"}
  /\ Len(readHead) <= DataSmallSize /\ buffStart \in 0..Len(readHead)
  /\ readLargeFrame \in [buffer: Seq(Byte), msgLen: Nat]
  /\ limitSize \in LimitSizes /\ hashFailed \in Nat /\ sizeFailed \in Nat
  /\ isFree \in BOOLEAN /\ received \in Seq(Seq(Byte))

Inv ==
  /\ Typed
  /\ isFree => BadData(sent, limitSize)
  /\ \E stream, off, got, k, c : Ghost(stream, off, got, k, c)

\* Typed is TypeOK with the large frame known to be a record.
LEMMA TypedMeant == Typed => TypeOK
<1>1. ASSUME NEW r \in [buffer: Seq(Byte), msgLen: Nat]
      PROVE  r.buffer \in Seq(Byte) /\ r.msgLen \in Nat
  OBVIOUS
<1> QED BY <1>1 DEF Typed, TypeOK, Frame

\* The properties follow.
LEMMA InvMeans ==
  ASSUME Inv
  PROVE  ReceivedInOrder /\ NothingHeldBack /\ ClosedOnlyForBadData
<1>1. sent \in Seq(Frame) /\ Len(sent) \in Nat
  BY DEF Inv, Typed
<1>2. ClosedOnlyForBadData
  BY <1>1, BadDataMeant DEF Inv
<1>3. PICK stream, off, got, k, c : Ghost(stream, off, got, k, c)
  BY DEF Inv
<1>4. Expected = got[Len(sent)]
  BY <1>1, <1>3, ExpectedIs DEF Ghost
<1>5. Prefix(received, Expected)
  BY <1>1, <1>3, <1>4, DeliveriesGrow DEF Ghost
<1>6. ReceivedInOrder
  BY <1>5 DEF ReceivedInOrder, Prefix
<1>7. ASSUME pc = "read", wire = << >> PROVE Len(received) = Len(Expected)
  <2>1. /\ Layout(sent, stream, off) /\ k \in 0..Len(sent) /\ received = got[k]
        /\ Reading(stream, c) /\ buffStart = 0 /\ incoming = << >>
    BY <1>3, <1>7 DEF Ghost, InLoop, Reading
  <2>2. c = Len(stream) /\ Len(stream) \in Nat
    <3>1. Len(incoming) = 0 /\ Len(wire) = 0 /\ c \in Nat /\ Len(stream) \in Nat
      BY <1>7, <2>1 DEF Reading, Window, Layout
    <3> QED BY <2>1, <3>1 DEF Reading
  <2>3. ASSUME k < Len(sent) PROVE FALSE
    <3> DEFINE f == sent[k + 1]
               i == k + 1
    <3>1. i \in 1..Len(sent) /\ i - 1 = k /\ k \in 0..Len(sent)
      BY <1>1, <2>1, <2>3
    <3>2. f \in Frame
      BY <1>1, <3>1, ElementOfSeq
    <3>3. off[k] + Len(Bytes(f)) <= Len(stream) /\ off[k] \in Nat
      BY <2>1, <3>1 DEF Layout
    <3>4. Size(f) \in Nat /\ Digits(f) \in Nat /\ Len(Bytes(f)) = 1 + Digits(f) + Size(f)
      BY <3>2, FrameFacts
    <3>5. CASE readLargeFrame = NoFrame /\ InHead(stream, off, k, c)
      <4>1. c = off[k] + Len(readHead) /\ Len(readHead) < Len(Bytes(f)) /\ Len(readHead) \in Nat
        BY <1>7, <2>1, <2>3, <3>3, <3>5 DEF InHead, Window
      <4> QED BY <2>2, <3>3, <3>4, <4>1
    <3>6. CASE \E e \in Frame, d \in Seq(Byte) : InLarge(stream, off, k, c, e, d)
      <4>1. PICK e \in Frame, d \in Seq(Byte) : InLarge(stream, off, k, c, e, d)
        BY <3>6
      <4>2. e = f /\ c = off[k] + 1 + Digits(f) + Len(d) /\ Len(d) < Size(f) /\ Len(d) \in Nat
        BY <4>1 DEF InLarge
      <4> HIDE DEF f
      <4> QED BY <2>2, <3>3, <3>4, <4>2
    <3> QED BY <1>3, <1>7, <3>5, <3>6 DEF Ghost, InLoop
  <2>4. k = Len(sent)
    BY <1>1, <2>1, <2>3
  <2> QED BY <1>4, <2>1, <2>4
<1>8. NothingHeldBack
  BY <1>7 DEF NothingHeldBack
<1> QED BY <1>2, <1>6, <1>8

\* It holds at the start, of the empty stream.
LEMMA InvInit == Init => Inv
<1> SUFFICES ASSUME Init PROVE Inv
  OBVIOUS
<1>0. << >> \in Seq(Byte) /\ << >> \in Seq(Frame) /\ << >> \in Seq(Seq(Byte)) /\ Len(<< >>) = 0
  OBVIOUS
<1>1. Typed
  <2>1. NoFrame \in [buffer: Seq(Byte), msgLen: Nat]
    BY <1>0 DEF NoFrame
  <2>2. Len(<< >>) <= DataSmallSize /\ 0 \in 0..Len(<< >>)
    BY <1>0, ReadAssemblyAssumption
  <2> QED BY <1>0, <2>1, <2>2 DEF Init, Typed
<1> DEFINE off == [i \in 0..0 |-> 0]
           got == [i \in 0..0 |-> << >>]
<1>2. Layout(sent, << >>, off)
  BY <1>0 DEF Init, Layout
<1>3. Deliveries(sent, limitSize, got)
  <2>1. sent = << >> /\ Len(sent) = 0
    BY <1>0 DEF Init
  <2>2. got \in [0..0 -> Seq(Seq(Byte))] /\ got[0] = << >>
    BY <1>0
  <2> HIDE DEF got
  <2> QED BY <2>1, <2>2 DEF Deliveries
<1>4. got[0] = << >> /\ off[0] = 0 /\ 0 \in 0..0
  OBVIOUS
<1> HIDE DEF off, got
<1>5. Window(<< >>, << >>, 0)
  BY <1>0 DEF Window
<1>6. Count(Damaged(sent), 0) = 0 /\ Count(Large(sent, limitSize), 0) = 0
  BY CountFacts
<1>7. InLoop(<< >>, off, 0, 0)
  <2>1. Reading(<< >>, 0)
    BY <1>0, <1>5 DEF Init, Reading
  <2>2. InHead(<< >>, off, 0, 0)
    BY <1>0, <1>4, <1>5 DEF Init, InHead
  <2>3. Counted(0)
    BY <1>6 DEF Init, Counted
  <2> QED BY <2>1, <2>2, <2>3 DEF Init, InLoop
<1>8. Ghost(<< >>, off, got, 0, 0)
  BY <1>0, <1>2, <1>3, <1>4, <1>7 DEF Init, Ghost
<1>9. ~isFree
  BY DEF Init
<1> QED BY <1>1, <1>8, <1>9 DEF Inv

-----------------------------------------------------------------------------
(* Every step keeps it.                                                    *)

\* A window at the end of the stream.
LEMMA WindowNew ==
  ASSUME NEW stream \in Seq(Byte), NEW t \in Seq(Byte)
  PROVE  Window(stream \o t, t, Len(stream)) /\ Len(stream \o t) = Len(stream) + Len(t)
<1> DEFINE u == stream \o t
<1>1. u = stream \o t /\ Len(stream) \in Nat /\ Len(t) \in Nat /\ stream \in Seq(Byte) /\ t \in Seq(Byte)
  OBVIOUS
<1> HIDE DEF u
<1>2. /\ u \in Seq(Byte) /\ Len(u) = Len(stream) + Len(t)
      /\ \A i \in 1..Len(t) : u[Len(stream) + i] = t[i]
  BY ONLY <1>1, ConcatIs
<1>3. Window(u, t, Len(stream))
  BY <1>1, <1>2 DEF Window
<1> QED BY <1>2, <1>3 DEF u

\* The empty window is anywhere.
LEMMA WindowEmpty ==
  ASSUME NEW stream \in Seq(Byte), NEW a \in Nat, a <= Len(stream)
  PROVE  Window(stream, << >>, a)
BY DEF Window

\* The header of a frame fits in the head buffer.
LEMMA HeaderFits ==
  ASSUME NEW f \in Frame
  PROVE  1 + Digits(f) <= DataSmallSize /\ DataSmallSize \in Nat
<1>1. f.payload \in Payloads
  BY DEF Frame
<1> QED BY <1>1, ReadAssemblyAssumption DEF Digits, Size, HashSize

\* Positions are numbers.
LEMMA OffsetFacts ==
  ASSUME NEW snt \in Seq(Frame), NEW stream, NEW off, Layout(snt, stream, off),
         NEW k \in 0..Len(snt)
  PROVE  off[k] \in Nat /\ off[k] <= Len(stream) /\ stream \in Seq(Byte) /\ Len(stream) \in Nat
<1>1. off[k] \in Nat /\ stream \in Seq(Byte) /\ Len(stream) \in Nat /\ Len(snt) \in Nat
  BY DEF Layout
<1>2. CASE k = 0
  BY <1>1, <1>2 DEF Layout
<1>3. CASE k # 0
  <2>1. k \in 1..Len(snt)
    BY <1>1, <1>3
  <2> QED BY <1>1, <2>1 DEF Layout
<1> QED BY <1>1, <1>2, <1>3

\* SendFrame lengthens the stream.
LEMMA InvSend ==
  ASSUME Inv, NEW p \in Payloads, NEW intact \in BOOLEAN, SendFrame(p, intact)
  PROVE  Inv'
<1> DEFINE f == [payload |-> p, intact |-> intact]
           F == Bytes(f)
<1>1. f \in Frame /\ f.payload = p /\ f.intact = intact
  BY DEF Frame
<1>2. /\ F = IF intact THEN PackFrame(p) ELSE [PackFrame(p) EXCEPT ![1] = (@ + 1) % (2 * VintBase)]
      /\ F \in Seq(Byte) /\ Len(F) \in Nat /\ Len(F) > 0
  <2>1. Len(F) = 1 + Digits(f) + Size(f) /\ Digits(f) \in Nat /\ Size(f) \in Nat /\ F \in Seq(Byte)
    BY <1>1, FrameFacts
  <2> QED BY <1>1, <2>1 DEF Bytes
<1>3. /\ sent' = Append(sent, f) /\ wire' = wire \o F
      /\ UNCHANGED <<pc, incoming, readHead, buffStart, readLargeFrame, limitSize,
                     hashFailed, sizeFailed, isFree, received>>
  BY <1>2 DEF SendFrame, counters
<1>4. Typed /\ sent \in Seq(Frame) /\ wire \in Seq(Byte) /\ Len(sent) \in Nat
  BY DEF Inv, Typed
<1> HIDE DEF f, F
<1>5. sent' \in Seq(Frame) /\ Len(sent') = Len(sent) + 1 /\ sent'[Len(sent) + 1] = f
      /\ \A i \in 1..Len(sent) : sent'[i] = sent[i]
  BY <1>1, <1>3, <1>4, AppendProperties
<1>6. Typed'
  <2>1. wire' \in Seq(Byte)
    BY <1>2, <1>3, <1>4, ConcatProperties
  <2> QED BY <1>3, <1>4, <1>5, <2>1 DEF Typed
<1>7. (isFree => BadData(sent, limitSize))'
  <2>1. 0 \in 0..Len(sent)
    BY <1>4
  <2> QED BY <1>1, <1>3, <1>4, <2>1, SentKept DEF Inv
<1>8. PICK stream, off, got, k, c : Ghost(stream, off, got, k, c)
  BY DEF Inv
<1>9. /\ Layout(sent, stream, off) /\ Deliveries(sent, limitSize, got)
      /\ k \in 0..Len(sent) /\ received = got[k] /\ k \in Nat /\ k <= Len(sent)
  BY <1>4, <1>8 DEF Ghost
<1>10. PICK o : Layout(Append(sent, f), stream \o F, o) /\ \A i \in 0..Len(sent) : o[i] = off[i]
  BY <1>1, <1>4, <1>9, LayoutSent DEF F
<1>11. PICK g : Deliveries(Append(sent, f), limitSize, g) /\ \A i \in 0..Len(sent) : g[i] = got[i]
  BY <1>1, <1>4, <1>9, DeliveriesSent
<1> DEFINE u == stream \o F
<1>12. /\ stream \in Seq(Byte) /\ Len(stream) \in Nat /\ off[k] \in Nat /\ o[k] = off[k]
       /\ u \in Seq(Byte) /\ Window(u, F, Len(stream)) /\ Len(u) = Len(stream) + Len(F)
  <2>1. stream \in Seq(Byte) /\ Len(stream) \in Nat /\ off[k] \in Nat /\ o[k] = off[k]
    BY <1>4, <1>9, <1>10, OffsetFacts
  <2>2. Window(u, F, Len(stream)) /\ Len(u) = Len(stream) + Len(F)
    BY <1>2, <2>1, WindowNew
  <2> QED BY <1>2, <2>1, <2>2, ConcatProperties
<1>13. \A q, a : Window(stream, q, a) => Window(u, q, a)
  BY <1>2, <1>12, WindowKept
<1> HIDE DEF u
<1>14. ASSUME pc # "done" PROVE InLoop(u, o, k, c)'
  <2>1. InLoop(stream, off, k, c)
    BY <1>8, <1>14 DEF Ghost
  <2>2. Reading(u, c)'
    <3> DEFINE a == c + Len(incoming)
    <3>1. /\ Window(stream, incoming, c) /\ Window(stream, wire, a)
          /\ a + Len(wire) = Len(stream) /\ (pc = "read" => incoming = << >>)
      BY <2>1 DEF InLoop, Reading
    <3>2. Window(u, incoming, c) /\ Window(u, wire, a)
      BY <1>13, <3>1
    <3>3. a \in Nat /\ Len(wire) \in Nat
      BY <1>4, <3>1 DEF Window
    <3>4. Window(u, F, a + Len(wire))
      BY <1>12, <3>1
    <3> HIDE DEF a
    <3>5. Window(u, wire \o F, a) /\ Len(wire \o F) = Len(wire) + Len(F)
      BY <1>12, <3>2, <3>4, WindowJoin
    <3>6. a + Len(wire') = Len(u)
      <4>1. a + Len(wire) = Len(stream)
        BY <3>1 DEF a
      <4>2. Len(wire') = Len(wire) + Len(F) /\ Len(u) = Len(stream) + Len(F)
        BY <1>3, <1>12, <3>5
      <4>3. a \in Nat /\ Len(wire) \in Nat /\ Len(F) \in Nat /\ Len(stream) \in Nat
        BY <1>2, <1>12, <3>3
      <4>4. a + (Len(wire) + Len(F)) = (a + Len(wire)) + Len(F)
        BY ONLY <4>3
      <4> QED BY ONLY <4>1, <4>2, <4>4
    <3> QED BY <1>3, <3>1, <3>2, <3>5, <3>6 DEF Reading, a
  <2>3. Counted(k)'
    <3> DEFINE D == Count(Damaged(sent), k)
               E == Count(Damaged(Append(sent, f)), k)
               L == Count(Large(sent, limitSize), k)
               M == Count(Large(Append(sent, f), limitSize), k)
    <3>1. hashFailed <= D /\ sizeFailed <= L /\ hashFailed \in Nat /\ sizeFailed \in Nat
      BY <1>4, <2>1 DEF InLoop, Counted, Typed
    <3>2. D \in Nat /\ E \in Nat /\ L \in Nat /\ M \in Nat
      BY <1>9, CountFacts
    <3>3. D <= E /\ L <= M
      BY <1>1, <1>4, <1>9, SentKept
    <3> HIDE DEF D, E, L, M
    <3>4. hashFailed <= E /\ sizeFailed <= M
      BY <3>1, <3>2, <3>3
    <3> QED BY <1>3, <3>4 DEF E, M, Counted
  <2>4. (pc \in {"read", "feed"} => ~isFree /\ buffStart = 0)'
    BY <1>3, <2>1 DEF InLoop
  <2>5. ASSUME readLargeFrame = NoFrame, InHead(stream, off, k, c) PROVE InHead(u, o, k, c)'
    <3>1. /\ off[k] >= buffStart /\ Window(stream, readHead, off[k] - buffStart)
          /\ c = (off[k] - buffStart) + Len(readHead)
      BY <2>5 DEF InHead
    <3>2. Window(u, readHead, o[k] - buffStart)
      BY <1>12, <1>13, <3>1
    <3>3. ASSUME pc # "parse", k < Len(sent')
          PROVE  Len(readHead) < DataSmallSize /\ Len(readHead) < Len(Bytes(sent'[k + 1]))
      <4>1. CASE k < Len(sent)
        <5>1. k + 1 \in 1..Len(sent)
          BY <1>4, <1>9, <4>1
        <5> QED BY <1>5, <2>5, <3>3, <4>1, <5>1 DEF InHead
      <4>2. CASE k = Len(sent)
        <5>1. buffStart = 0
          BY <1>4, <1>14, <2>1, <3>3 DEF InLoop, Typed
        <5>2. Window(stream, readHead, off[k])
          BY <1>12, <3>1, <5>1
        <5>3. Len(readHead) = 0
          <6>1. Layout(sent, stream, off) /\ Window(stream, readHead, off[Len(sent)])
            BY <1>9, <4>2, <5>2
          <6> QED BY ONLY <6>1, WindowAtEnd
        <5>4. 1 + Digits(f) <= DataSmallSize /\ DataSmallSize \in Nat /\ Digits(f) \in Nat
          BY <1>1, HeaderFits, FrameFacts
        <5>5. Bytes(sent'[k + 1]) = F
          BY <1>5, <4>2 DEF F
        <5>6. 0 < DataSmallSize
          BY <5>4
        <5> QED BY <1>2, <5>3, <5>5, <5>6
      <4> QED BY <1>4, <1>9, <4>1, <4>2
    <3> QED BY <1>3, <1>12, <3>1, <3>2, <3>3 DEF InHead
  <2>6. ASSUME NEW e \in Frame, NEW d \in Seq(Byte), InLarge(stream, off, k, c, e, d)
        PROVE  InLarge(u, o, k, c, e, d)'
    <3>1. /\ pc # "parse" /\ readHead = << >> /\ k < Len(sent) /\ e = sent[k + 1]
          /\ readLargeFrame = [buffer |-> <<Bytes(e)[1]>> \o d, msgLen |-> Size(e)]
          /\ Window(stream, d, off[k] + 1 + Digits(e)) /\ Len(d) < Size(e)
          /\ c = off[k] + 1 + Digits(e) + Len(d)
      BY <2>6 DEF InLarge
    <3>2. k + 1 \in 1..Len(sent) /\ k < Len(sent')
      BY <1>4, <1>5, <1>9, <3>1
    <3>3. e = sent'[k + 1] /\ Window(u, d, o[k] + 1 + Digits(e))
      BY <1>5, <1>12, <1>13, <3>1, <3>2
    <3> QED BY <1>3, <1>12, <3>1, <3>2, <3>3 DEF InLarge
  <2>7. \/ (readLargeFrame = NoFrame /\ InHead(u, o, k, c))'
        \/ \E e \in Frame, d \in Seq(Byte) : InLarge(u, o, k, c, e, d)'
    BY <1>3, <2>1, <2>5, <2>6 DEF InLoop
  <2> QED BY <2>2, <2>3, <2>4, <2>7 DEF InLoop
<1>15. Ghost(u, o, g, k, c)'
  <2>1. k \in 0..Len(sent')
    BY <1>4, <1>5, <1>9
  <2>2. received' = g[k]
    BY <1>3, <1>9, <1>11
  <2>3. Layout(sent, u, o)' /\ Deliveries(sent, limitSize, g)'
    BY <1>3, <1>10, <1>11 DEF u
  <2> QED BY <1>3, <1>14, <2>1, <2>2, <2>3 DEF Ghost
<1> QED BY <1>6, <1>7, <1>15 DEF Inv

\* A step that leaves the frames alone and says where the bytes are now.
LEMMA InvFrom ==
  ASSUME Inv, Typed', UNCHANGED <<sent, limitSize>>, isFree' => BadData(sent, limitSize),
         NEW stream, NEW off, NEW got, NEW k, NEW c,
         Layout(sent, stream, off), Deliveries(sent, limitSize, got),
         k \in 0..Len(sent), received' = got[k],
         pc' # "done" => InLoop(stream, off, k, c)'
  PROVE  Inv'
<1>1. Ghost(stream, off, got, k, c)'
  BY DEF Ghost
<1> QED BY <1>1 DEF Inv

\* CheckFrame on the next frame counts it or hands it over.
LEMMA Checked ==
  ASSUME Typed, isFree => BadData(sent, limitSize), NEW got, Deliveries(sent, limitSize, got),
         NEW k \in 0..Len(sent), k < Len(sent), received = got[k], Counted(k),
         NEW f \in Frame, f = sent[k + 1], NEW hash, hash = Bytes(f)[1],
         CheckFrame(hash, f.payload), UNCHANGED <<sent, limitSize>>
  PROVE  /\ received' = got[k + 1] /\ Counted(k + 1)' /\ (isFree' => BadData(sent, limitSize))
         /\ hashFailed' \in Nat /\ sizeFailed' \in Nat /\ isFree' \in BOOLEAN
         /\ received' \in Seq(Seq(Byte))
<1> DEFINE n == Len(sent)
           i == k + 1
           D == Damaged(sent)
           L == Large(sent, limitSize)
<1>1. /\ n \in Nat /\ i \in 1..n /\ i - 1 = k /\ i \in 0..n /\ i \in Nat /\ k \in Nat /\ k <= i /\ i <= n
      /\ hashFailed \in Nat /\ sizeFailed \in Nat /\ isFree \in BOOLEAN
      /\ received \in Seq(Seq(Byte))
  BY DEF Typed
<1>2. MaxHashFailed \in Nat /\ MaxSizeFailed \in Nat
  BY ReadAssemblyAssumption
<1>3. hash = CalculateHash(f.payload) <=> f.intact
  BY FrameFacts
<1>4. OverLimit(Len(f.payload)) <=> Over(limitSize, Size(f))
  BY DEF OverLimit, Over, Size
<1>5. i \in D <=> ~f.intact
  BY <1>1 DEF Damaged
<1>6. i \in L <=> Over(limitSize, Size(f))
  BY <1>1 DEF Large
<1>7. got[i] = IF Good(f, limitSize) THEN Append(got[k], f.payload) ELSE got[k]
  BY <1>1 DEF Deliveries
<1>8. got[i] \in Seq(Seq(Byte))
  BY <1>1 DEF Deliveries
<1> HIDE DEF D, L
<1> DEFINE d == Count(D, k)
           e == Count(D, i)
           l == Count(L, k)
           m == Count(L, i)
           dn == Count(D, n)
           ln == Count(L, n)
<1>9. d \in Nat /\ l \in Nat /\ e = d + (IF i \in D THEN 1 ELSE 0) /\ m = l + (IF i \in L THEN 1 ELSE 0)
  BY <1>1, CountFacts
<1>10. e <= dn /\ m <= ln /\ dn \in Nat /\ ln \in Nat
  <2>1. e <= dn /\ m <= ln
    BY <1>1, CountGrows
  <2> QED BY <1>1, <2>1, CountFacts
<1>11. hashFailed <= d /\ sizeFailed <= l
  BY DEF Counted, D, L
<1>12. (dn > MaxHashFailed \/ ln > MaxSizeFailed) => BadData(sent, limitSize)
  BY DEF BadData, D, L
<1>13. ASSUME hashFailed' <= e, sizeFailed' <= m PROVE Counted(i)'
  BY <1>13 DEF Counted, D, L
<1> HIDE DEF d, e, l, m, dn, ln, i
<1>14. CASE hash # CalculateHash(f.payload)
  <2>1. /\ hashFailed' = hashFailed + 1 /\ isFree' = (isFree \/ hashFailed + 1 > MaxHashFailed)
        /\ sizeFailed' = sizeFailed /\ received' = received
    BY <1>14 DEF CheckFrame
  <2>2. i \in D /\ ~f.intact
    BY <1>3, <1>5, <1>14
  <2>3. hashFailed' <= e /\ sizeFailed' <= m /\ hashFailed' \in Nat /\ sizeFailed' \in Nat
    BY <1>1, <1>9, <1>11, <2>1, <2>2
  <2>4. hashFailed + 1 > MaxHashFailed => dn > MaxHashFailed
    BY <1>1, <1>2, <1>9, <1>10, <1>11, <2>2
  <2>5. received' = got[i]
    BY <1>7, <2>1, <2>2 DEF Good
  <2>6. isFree' => BadData(sent, limitSize)
    BY <1>12, <2>1, <2>4
  <2>7. isFree' \in BOOLEAN
    BY <2>1
  <2> QED BY <1>1, <1>13, <2>1, <2>3, <2>5, <2>6, <2>7 DEF i
<1>15. CASE hash = CalculateHash(f.payload) /\ OverLimit(Len(f.payload))
  <2>1. /\ sizeFailed' = sizeFailed + 1 /\ isFree' = (isFree \/ sizeFailed + 1 > MaxSizeFailed)
        /\ hashFailed' = hashFailed /\ received' = received
    BY <1>15 DEF CheckFrame
  <2>2. i \in L /\ Over(limitSize, Size(f))
    BY <1>4, <1>6, <1>15
  <2>3. hashFailed' <= e /\ sizeFailed' <= m /\ hashFailed' \in Nat /\ sizeFailed' \in Nat
    BY <1>1, <1>9, <1>11, <2>1, <2>2
  <2>4. sizeFailed + 1 > MaxSizeFailed => ln > MaxSizeFailed
    BY <1>1, <1>2, <1>9, <1>10, <1>11, <2>2
  <2>5. received' = got[i]
    BY <1>7, <2>1, <2>2 DEF Good
  <2>6. isFree' => BadData(sent, limitSize)
    BY <1>12, <2>1, <2>4
  <2>7. isFree' \in BOOLEAN
    BY <2>1
  <2> QED BY <1>1, <1>13, <2>1, <2>3, <2>5, <2>6, <2>7 DEF i
<1>16. CASE hash = CalculateHash(f.payload) /\ ~OverLimit(Len(f.payload))
  <2>1. /\ sizeFailed' = sizeFailed /\ isFree' = isFree
        /\ hashFailed' = hashFailed /\ received' = Append(received, f.payload)
    BY <1>16 DEF CheckFrame, counters
  <2>3. hashFailed' <= e /\ sizeFailed' <= m /\ hashFailed' \in Nat /\ sizeFailed' \in Nat
    BY <1>1, <1>9, <1>11, <2>1
  <2>5. received' = got[i]
    BY <1>3, <1>4, <1>7, <1>16, <2>1 DEF Good
  <2> QED BY <1>1, <1>8, <1>13, <2>1, <2>3, <2>5 DEF i
<1> QED BY <1>14, <1>15, <1>16

\* Read takes bytes from the socket.
LEMMA InvRead ==
  ASSUME Inv, NEW n \in 1..ReadBufferSize, Read(n)
  PROVE  Inv'
<1>1. /\ pc = "read" /\ n <= Len(wire) /\ incoming' = SubSeq(wire, 1, n)
      /\ wire' = SubSeq(wire, n + 1, Len(wire)) /\ pc' = "feed"
      /\ UNCHANGED <<sent, readHead, buffStart, readLargeFrame, limitSize, hashFailed,
                     sizeFailed, isFree, received>>
  BY DEF Read, counters
<1>2. Typed /\ wire \in Seq(Byte) /\ sent \in Seq(Frame)
  BY DEF Inv, Typed
<1>3. PICK stream, off, got, k, c : Ghost(stream, off, got, k, c)
  BY DEF Inv
<1>4. /\ Layout(sent, stream, off) /\ Deliveries(sent, limitSize, got) /\ stream \in Seq(Byte)
      /\ k \in 0..Len(sent) /\ received = got[k] /\ InLoop(stream, off, k, c)
  BY <1>1, <1>3 DEF Ghost, Layout
<1>5. /\ Window(stream, wire, c) /\ c + Len(wire) = Len(stream) /\ c \in Nat /\ Len(wire) \in Nat
      /\ n \in 0..Len(wire) /\ n \in Nat
  <2>1. /\ incoming = << >> /\ Window(stream, incoming, c) /\ Window(stream, wire, c + Len(incoming))
        /\ c + Len(incoming) + Len(wire) = Len(stream)
    BY <1>1, <1>4 DEF InLoop, Reading
  <2>2. c \in Nat /\ Len(incoming) = 0
    BY <2>1 DEF Window
  <2>3. c + Len(incoming) = c /\ Len(wire) \in Nat
    BY <1>2, <2>2
  <2> QED BY <1>1, <2>1, <2>2, <2>3
<1>6. /\ Window(stream, incoming', c) /\ Len(incoming') = n
      /\ Window(stream, wire', c + n) /\ Len(wire') = Len(wire) - n
  BY <1>1, <1>4, <1>5, WindowCut
<1>7. incoming' \in Seq(Byte) /\ wire' \in Seq(Byte)
  BY <1>6 DEF Window
<1>8. Typed'
  BY <1>1, <1>2, <1>7 DEF Typed
<1>9. Reading(stream, c)'
  <2>1. c + Len(incoming') + Len(wire') = Len(stream)
    BY <1>5, <1>6
  <2> QED BY <1>1, <1>6, <2>1 DEF Reading
<1>10. InLoop(stream, off, k, c)'
  <2>1. InHead(stream, off, k, c) => InHead(stream, off, k, c)'
    BY <1>1 DEF InHead
  <2>2. \A f, d : InLarge(stream, off, k, c, f, d) => InLarge(stream, off, k, c, f, d)'
    BY <1>1 DEF InLarge
  <2>3. Counted(k)'
    BY <1>1, <1>4 DEF InLoop, Counted
  <2> QED BY <1>1, <1>4, <1>9, <2>1, <2>2, <2>3 DEF InLoop
<1> QED BY <1>1, <1>4, <1>8, <1>10, InvFrom DEF Inv

\* The loop ends, or goes on with the next Read.
LEMMA InvEnds ==
  ASSUME Inv, ReadEnds \/ FeedEnds
  PROVE  Inv'
<1>1. /\ \/ pc' = "done"
         \/ pc' = "read" /\ pc = "feed" /\ incoming = << >>
      /\ UNCHANGED <<sent, wire, incoming, readHead, buffStart, readLargeFrame, limitSize,
                     hashFailed, sizeFailed, isFree, received>>
  BY DEF ReadEnds, FeedEnds, counters
<1>2. Typed'
  BY <1>1 DEF Inv, Typed
<1>3. PICK stream, off, got, k, c : Ghost(stream, off, got, k, c)
  BY DEF Inv
<1>4. ASSUME pc' # "done" PROVE InLoop(stream, off, k, c)'
  <2>0. InLoop(stream, off, k, c) /\ pc = "feed" /\ pc' = "read" /\ incoming = << >>
    BY <1>1, <1>3, <1>4 DEF Ghost
  <2>1. InHead(stream, off, k, c) => InHead(stream, off, k, c)'
    BY <1>1, <2>0 DEF InHead
  <2>2. \A f, d : InLarge(stream, off, k, c, f, d) => InLarge(stream, off, k, c, f, d)'
    BY <1>1, <2>0 DEF InLarge
  <2>3. Counted(k)' /\ Reading(stream, c)'
    BY <1>1, <2>0 DEF InLoop, Counted, Reading
  <2> QED BY <1>1, <2>0, <2>1, <2>2, <2>3 DEF InLoop
<1>5. Ghost(stream, off, got, k, c)'
  BY <1>1, <1>3, <1>4 DEF Ghost
<1> QED BY <1>1, <1>2, <1>5 DEF Inv

\* Bytes go on to the head buffer, which had room for them.
LEMMA InvFeedHead ==
  ASSUME Inv, FeedHead
  PROVE  Inv'
<1> DEFINE space == DataSmallSize - Len(readHead)
<1>0. PICK m : m = CopyLen(space)
  OBVIOUS
<1>1. /\ pc = "feed" /\ incoming # << >> /\ readLargeFrame = NoFrame
      /\ isFree' = (space <= 0) /\ pc' = (IF space <= 0 THEN "done" ELSE "parse")
      /\ readHead' = readHead \o SubSeq(incoming, 1, m)
      /\ incoming' = SubSeq(incoming, m + 1, Len(incoming)) /\ buffStart' = 0
      /\ UNCHANGED <<sent, wire, readLargeFrame, limitSize, hashFailed, sizeFailed, received>>
  BY <1>0 DEF FeedHead, Consume, counters
<1>2. /\ Typed /\ incoming \in Seq(Byte) /\ readHead \in Seq(Byte) /\ sent \in Seq(Frame)
      /\ Len(incoming) \in Nat /\ Len(incoming) > 0 /\ Len(readHead) \in Nat /\ Len(sent) \in Nat
      /\ Len(readHead) <= DataSmallSize
  <2>1. Typed /\ incoming \in Seq(Byte) /\ readHead \in Seq(Byte) /\ sent \in Seq(Frame)
        /\ Len(readHead) <= DataSmallSize
    BY DEF Inv, Typed
  <2>2. Len(incoming) > 0
    BY <1>1, <2>1, EmptySeq
  <2> QED BY <2>1, <2>2
<1>3. DataSmallSize \in Nat
  BY ReadAssemblyAssumption
<1>4. PICK stream, off, got, k, c : Ghost(stream, off, got, k, c)
  BY DEF Inv
<1>5. /\ Layout(sent, stream, off) /\ Deliveries(sent, limitSize, got) /\ stream \in Seq(Byte)
      /\ k \in 0..Len(sent) /\ received = got[k] /\ InLoop(stream, off, k, c)
  BY <1>1, <1>4 DEF Ghost, Layout
<1>6. off[k] \in Nat /\ Len(stream) \in Nat
  BY <1>2, <1>5, OffsetFacts
<1>7. InHead(stream, off, k, c) /\ Reading(stream, c) /\ Counted(k) /\ buffStart = 0
  <2>1. ~ \E f \in Frame, d \in Seq(Byte) : InLarge(stream, off, k, c, f, d)
    <3> SUFFICES ASSUME NEW f \in Frame, NEW d \in Seq(Byte), InLarge(stream, off, k, c, f, d)
                 PROVE  FALSE
      OBVIOUS
    <3>1. Len(d) < Size(f) /\ Size(f) \in Nat /\ Len(d) \in Nat
      BY FrameFacts DEF InLarge
    <3>2. readLargeFrame.msgLen = Size(f) /\ readLargeFrame.msgLen = 0
      BY <1>1 DEF InLarge, NoFrame
    <3> QED BY <3>1, <3>2
  <2> QED BY <1>1, <1>5, <2>1 DEF InLoop
<1>8. /\ Window(stream, readHead, off[k]) /\ c = off[k] + Len(readHead)
      /\ Window(stream, incoming, c) /\ Window(stream, wire, c + Len(incoming))
      /\ c + Len(incoming) + Len(wire) = Len(stream) /\ c \in Nat /\ Len(wire) \in Nat
  <2>1. off[k] - buffStart = off[k]
    BY <1>6, <1>7
  <2>2. /\ Window(stream, readHead, off[k]) /\ c = off[k] + Len(readHead)
        /\ Window(stream, incoming, c) /\ Window(stream, wire, c + Len(incoming))
        /\ c + Len(incoming) + Len(wire) = Len(stream)
    BY <1>7, <2>1 DEF InHead, Reading
  <2>3. c \in Nat /\ Len(wire) \in Nat
    BY <2>2 DEF Window
  <2> QED BY <2>2, <2>3
<1>9. k < Len(sent)
  <2> SUFFICES ASSUME k = Len(sent) PROVE FALSE
    BY <1>2, <1>5
  <2>1. off[k] = Len(stream)
    BY <1>5 DEF Layout
  <2> QED BY <1>2, <1>6, <1>8, <2>1
<1>10. Len(readHead) < DataSmallSize
  BY <1>1, <1>7, <1>9 DEF InHead
<1>11. ~(space <= 0) /\ m \in 0..Len(incoming) /\ m <= space /\ m \in Nat
  BY <1>0, <1>2, <1>3, <1>10 DEF CopyLen
<1> HIDE DEF space
<1>12. pc' = "parse" /\ isFree' = FALSE
  <2>1. (space <= 0) = FALSE
    BY <1>11
  <2> QED BY <1>1, <1>11, <2>1
<1> DEFINE x == SubSeq(incoming, 1, m)
<1>13. /\ Window(stream, x, c) /\ Len(x) = m
       /\ Window(stream, incoming', c + m) /\ Len(incoming') = Len(incoming) - m
  BY <1>1, <1>5, <1>8, <1>11, WindowCut, SMTT(60)
<1>14. Window(stream, readHead', off[k]) /\ Len(readHead') = Len(readHead) + m
  <2>1. Window(stream, x, off[k] + Len(readHead))
    BY <1>8, <1>13
  <2>2. readHead' = readHead \o x
    BY <1>1
  <2> HIDE DEF x
  <2>3. Window(stream, readHead \o x, off[k]) /\ Len(readHead \o x) = Len(readHead) + Len(x)
    BY <1>5, <1>8, <2>1, WindowJoin
  <2> QED BY <1>13, <2>2, <2>3 DEF x
<1>15. Typed'
  <2>1. readHead' \in Seq(Byte) /\ incoming' \in Seq(Byte)
    BY <1>13, <1>14 DEF Window
  <2>2. Len(readHead') <= DataSmallSize /\ buffStart' \in 0..Len(readHead')
    BY <1>1, <1>2, <1>3, <1>11, <1>14 DEF space
  <2> QED BY <1>1, <1>2, <1>12, <2>1, <2>2 DEF Typed
<1> DEFINE b == c + m
<1>16. Reading(stream, b)'
  <2>1. b + Len(incoming') = c + Len(incoming)
    BY <1>2, <1>8, <1>11, <1>13
  <2>2. Window(stream, wire', b + Len(incoming')) /\ b + Len(incoming') + Len(wire') = Len(stream)
    BY <1>1, <1>8, <2>1
  <2> QED BY <1>12, <1>13, <2>2 DEF Reading
<1>17. InHead(stream, off, k, b)'
  <2>1. off[k] >= buffStart' /\ off[k] - buffStart' = off[k]
    BY <1>1, <1>6
  <2>2. b = off[k] + Len(readHead')
    BY <1>2, <1>6, <1>8, <1>11, <1>14, SMTT(60)
  <2> QED BY <1>12, <1>14, <2>1, <2>2 DEF InHead
<1>18. InLoop(stream, off, k, b)'
  <2>1. Counted(k)'
    BY <1>1, <1>7 DEF Counted
  <2> QED BY <1>1, <1>12, <1>16, <1>17, <2>1 DEF InLoop
<1> HIDE DEF b
<1> QED BY <1>1, <1>5, <1>12, <1>15, <1>18, InvFrom

\* With a large frame, what is known of it.
LEMMA LargeFacts ==
  ASSUME Inv, pc = "feed", incoming # << >>, readLargeFrame # NoFrame
  PROVE  \E stream, off, got, k, c, f, d :
           /\ Ghost(stream, off, got, k, c) /\ InLoop(stream, off, k, c)
           /\ f \in Frame /\ d \in Seq(Byte) /\ InLarge(stream, off, k, c, f, d)
<1>1. PICK stream, off, got, k, c : Ghost(stream, off, got, k, c)
  BY DEF Inv
<1>2. InLoop(stream, off, k, c)
  BY <1>1 DEF Ghost
<1>3. PICK f \in Frame, d \in Seq(Byte) : InLarge(stream, off, k, c, f, d)
  BY <1>2 DEF InLoop
<1> QED BY <1>1, <1>2, <1>3

\* What follows a byte.
LEMMA Behind ==
  ASSUME NEW h \in Byte, NEW d \in Seq(Byte)
  PROVE  /\ <<h>> \o d \in Seq(Byte) /\ Len(<<h>> \o d) = 1 + Len(d) /\ (<<h>> \o d)[1] = h
         /\ Tail(<<h>> \o d) = d
<1> DEFINE a == <<h>>
           u == a \o d
<1>1. a \in Seq(Byte) /\ Len(a) = 1 /\ a[1] = h /\ Len(d) \in Nat /\ d \in Seq(Byte)
  OBVIOUS
<1> HIDE DEF a
<1>0. a \in Seq(Byte) /\ d \in Seq(Byte) /\ u = a \o d
  BY <1>1
<1> HIDE DEF u
<1>2. /\ u \in Seq(Byte) /\ Len(u) = Len(a) + Len(d)
      /\ \A i \in 1..Len(a) : u[i] = a[i]
      /\ \A i \in 1..Len(d) : u[Len(a) + i] = d[i]
  BY ONLY <1>0, ConcatIs
<1>3. Len(u) = 1 + Len(d) /\ u[1] = h /\ u # << >>
  <2>1. Len(u) = 1 + Len(d) /\ u[1] = h
    BY <1>1, <1>2
  <2> QED BY <1>1, <2>1
<1>4. /\ Tail(u) \in Seq(Byte) /\ Len(Tail(u)) = Len(u) - 1
      /\ \A i \in 1..Len(Tail(u)) : Tail(u)[i] = u[i + 1]
  BY <1>2, <1>3, HeadTailProperties
<1>5. Len(Tail(u)) = Len(d) /\ \A i \in 1..Len(d) : Tail(u)[i] = d[i]
  <2>1. Len(Tail(u)) = Len(d)
    BY <1>1, <1>3, <1>4
  <2>2. ASSUME NEW i \in 1..Len(d) PROVE Tail(u)[i] = d[i]
    <3>1. i + 1 = 1 + i
      BY <1>1
    <3> QED BY <1>1, <1>2, <1>4, <2>1, <3>1
  <2> QED BY <2>1, <2>2
<1>6. Tail(u) = d
  BY <1>1, <1>4, <1>5, SeqEqual
<1> QED BY <1>2, <1>3, <1>6 DEF u, a

\* Bytes are appended to a large frame, which stays one.
LEMMA InvFeedLarge ==
  ASSUME Inv, FeedLargeFrame
  PROVE  Inv'
<1>1. /\ pc = "feed" /\ incoming # << >> /\ readLargeFrame # NoFrame
      /\ Len(incoming) < HashSize + readLargeFrame.msgLen - Len(readLargeFrame.buffer)
      /\ readLargeFrame' = [readLargeFrame EXCEPT !.buffer = @ \o incoming]
      /\ incoming' = << >>
      /\ UNCHANGED <<sent, wire, pc, readHead, buffStart, limitSize, hashFailed, sizeFailed,
                     isFree, received>>
  BY DEF FeedLargeFrame, counters
<1>2. PICK stream, off, got, k, c, f, d :
           /\ Ghost(stream, off, got, k, c) /\ InLoop(stream, off, k, c)
           /\ f \in Frame /\ d \in Seq(Byte) /\ InLarge(stream, off, k, c, f, d)
  BY <1>1, LargeFacts
<1>3. /\ Typed /\ sent \in Seq(Frame) /\ incoming \in Seq(Byte) /\ Len(incoming) \in Nat
      /\ Layout(sent, stream, off) /\ Deliveries(sent, limitSize, got) /\ stream \in Seq(Byte)
      /\ k \in 0..Len(sent) /\ received = got[k]
  BY <1>2 DEF Inv, Typed, Ghost, Layout
<1>0. PICK b, e : b = c + Len(incoming) /\ e = d \o incoming
  OBVIOUS
<1> DEFINE h == Bytes(f)[1]
           a == off[k] + 1 + Digits(f)
<1>4. /\ Size(f) \in Nat /\ Digits(f) \in Nat /\ h \in Byte /\ Len(d) \in Nat /\ off[k] \in Nat /\ a \in Nat
  <2>1. /\ Size(f) \in Nat /\ Digits(f) \in Nat /\ Bytes(f) \in Seq(Byte)
        /\ Len(Bytes(f)) = 1 + Digits(f) + Size(f)
    BY <1>2, FrameFacts
  <2>2. 1 \in 1..Len(Bytes(f))
    BY <2>1
  <2>3. h \in Byte
    BY <2>1, <2>2, ElementOfSeq
  <2>4. off[k] \in Nat
    BY <1>3, OffsetFacts
  <2>5. Len(d) \in Nat
    BY <1>2
  <2> HIDE DEF h
  <2> QED BY <2>1, <2>3, <2>4, <2>5
<1>5. /\ pc # "parse" /\ readHead = << >> /\ k < Len(sent) /\ f = sent[k + 1]
      /\ readLargeFrame = [buffer |-> <<h>> \o d, msgLen |-> Size(f)]
      /\ Window(stream, d, a) /\ Len(d) < Size(f) /\ c = a + Len(d)
  BY <1>2 DEF InLarge
<1>6. /\ Window(stream, incoming, c) /\ Window(stream, wire, b)
      /\ b + Len(wire) = Len(stream)
  BY <1>0, <1>2 DEF InLoop, Reading
<1> HIDE DEF h, a
<1>7. readLargeFrame' = [buffer |-> (<<h>> \o d) \o incoming, msgLen |-> Size(f)]
      /\ readLargeFrame.msgLen = Size(f) /\ readLargeFrame.buffer = <<h>> \o d
  BY <1>1, <1>5
<1>8. (<<h>> \o d) \o incoming = <<h>> \o e /\ Len(<<h>> \o d) = 1 + Len(d)
      /\ <<h>> \o e \in Seq(Byte) /\ e \in Seq(Byte)
  <2>1. <<h>> \in Seq(Byte)
    BY <1>4
  <2>2. (<<h>> \o d) \o incoming = <<h>> \o e
    BY <1>0, <1>2, <1>3, <2>1, ConcatAssociative
  <2>3. e \in Seq(Byte)
    BY <1>0, <1>2, <1>3, ConcatProperties
  <2> QED BY <1>2, <1>4, <2>2, <2>3, Behind
<1>9. Window(stream, e, a) /\ Len(e) = Len(d) + Len(incoming)
  <2>1. stream \in Seq(Byte) /\ Window(stream, d, a) /\ Window(stream, incoming, a + Len(d))
    BY <1>3, <1>5, <1>6
  <2>2. Window(stream, d \o incoming, a) /\ Len(d \o incoming) = Len(d) + Len(incoming)
    BY ONLY <2>1, WindowJoin
  <2> QED BY <1>0, <2>2
<1>10. Len(e) < Size(f)
  <2>1. Len(incoming) < 1 + Size(f) - (1 + Len(d))
    BY <1>1, <1>7, <1>8 DEF HashSize
  <2> QED BY <1>3, <1>4, <1>9, <2>1
<1>11. b = a + Len(e) /\ b \in Nat /\ Len(<< >>) = 0
  BY <1>0, <1>3, <1>4, <1>5, <1>9
<1>12. InLarge(stream, off, k, b, f, e)'
  BY <1>1, <1>5, <1>7, <1>8, <1>9, <1>10, <1>11 DEF InLarge, h, a
<1>13. Reading(stream, b)'
  <2>1. Window(stream, << >>, b)
    <3>1. b <= Len(stream) /\ Len(stream) \in Nat
      BY <1>3, <1>6 DEF Window
    <3> QED BY <1>3, <1>11, <3>1, WindowEmpty
  <2>2. b + Len(<< >>) = b
    BY <1>11
  <2> QED BY <1>1, <1>6, <2>1, <2>2 DEF Reading
<1>14. Typed'
  <2>1. << >> \in Seq(Byte) /\ readLargeFrame' \in [buffer: Seq(Byte), msgLen: Nat]
    <3>1. readLargeFrame' = [buffer |-> <<h>> \o e, msgLen |-> Size(f)]
      BY <1>7, <1>8
    <3> DEFINE q == <<h>> \o e
               z == Size(f)
    <3>2. q \in Seq(Byte) /\ z \in Nat
      BY <1>4, <1>8
    <3> HIDE DEF q, z
    <3>3. readLargeFrame' = [buffer |-> q, msgLen |-> z]
      BY <3>1 DEF q, z
    <3> QED BY <3>2, <3>3
  <2> QED BY <1>1, <1>3, <2>1 DEF Typed
<1>15. InLoop(stream, off, k, b)'
  <2>1. Counted(k)' /\ (pc \in {"read", "feed"} => ~isFree /\ buffStart = 0)'
    BY <1>1, <1>2 DEF Counted, InLoop
  <2> QED BY <1>2, <1>8, <1>12, <1>13, <2>1 DEF InLoop
<1> QED BY <1>1, <1>3, <1>14, <1>15, InvFrom DEF Inv

\* What was read of a large frame, once complete, is its payload.
LEMMA WindowPayload ==
  ASSUME NEW snt \in Seq(Frame), NEW stream, NEW off, Layout(snt, stream, off),
         NEW k \in 0..Len(snt), k < Len(snt), NEW f \in Frame, f = snt[k + 1],
         NEW q, Window(stream, q, off[k] + 1 + Digits(f)), Len(q) = Size(f)
  PROVE  q = f.payload
<1> DEFINE i == k + 1
           z == Digits(f)
           m == Size(f)
           p == f.payload
           F == Bytes(f)
<1>1. /\ z \in Nat /\ m \in Nat /\ p \in Seq(Byte) /\ Len(p) = m /\ Len(F) = 1 + z + m
      /\ \A j \in 1..m : F[1 + z + j] = p[j]
  BY FrameFacts DEF Size
<1>2. i \in 1..Len(snt) /\ i - 1 = k
  OBVIOUS
<1>3. \A j \in 1..Len(F) : stream[off[k] + j] = F[j]
  BY <1>2 DEF Layout
<1>4. off[k] \in Nat
  BY OffsetFacts
<1>5. q \in Seq(Byte) /\ Len(q) = m /\ \A j \in 1..m : q[j] = stream[off[k] + 1 + z + j]
  BY DEF Window
<1> HIDE DEF z, m, p, F
<1>6. ASSUME NEW j \in 1..m PROVE q[j] = p[j]
  <2>1. 1 + z + j \in 1..Len(F) /\ off[k] + (1 + z + j) = off[k] + 1 + z + j
    BY <1>1, <1>4
  <2> QED BY <1>1, <1>3, <1>5, <2>1
<1>7. q = p
  BY <1>1, <1>5, <1>6, SeqEqual
<1> QED BY <1>7 DEF p

\* The last bytes of a large frame arrive; it is checked.
LEMMA InvComplete ==
  ASSUME Inv, CompleteLargeFrame
  PROVE  Inv'
<1> DEFINE remaining == HashSize + readLargeFrame.msgLen - Len(readLargeFrame.buffer)
           buffer == readLargeFrame.buffer \o SubSeq(incoming, 1, remaining)
<1>1. /\ pc = "feed" /\ incoming # << >> /\ readLargeFrame # NoFrame
      /\ Len(incoming) >= remaining
      /\ incoming' = SubSeq(incoming, remaining + 1, Len(incoming))
      /\ CheckFrame(buffer[1], Tail(buffer))
      /\ pc' = (IF isFree' THEN "done" ELSE "feed") /\ readLargeFrame' = NoFrame
      /\ UNCHANGED <<sent, wire, readHead, buffStart, limitSize>>
  BY DEF CompleteLargeFrame, Consume
<1>2. PICK stream, off, got, k, c, f, d :
           /\ Ghost(stream, off, got, k, c) /\ InLoop(stream, off, k, c)
           /\ f \in Frame /\ d \in Seq(Byte) /\ InLarge(stream, off, k, c, f, d)
  BY <1>1, LargeFacts
<1>3. /\ Typed /\ sent \in Seq(Frame) /\ incoming \in Seq(Byte) /\ Len(incoming) \in Nat
      /\ Layout(sent, stream, off) /\ Deliveries(sent, limitSize, got) /\ stream \in Seq(Byte)
      /\ k \in 0..Len(sent) /\ received = got[k] /\ Len(sent) \in Nat
      /\ (isFree => BadData(sent, limitSize)) /\ Counted(k) /\ buffStart = 0
  BY <1>1, <1>2, SMTT(60) DEF Inv, Typed, Ghost, Layout, InLoop
<1> DEFINE h == Bytes(f)[1]
           a == off[k] + 1 + Digits(f)
<1>4. /\ Size(f) \in Nat /\ Digits(f) \in Nat /\ h \in Byte /\ Len(d) \in Nat /\ off[k] \in Nat /\ a \in Nat
      /\ Len(Bytes(f)) = 1 + Digits(f) + Size(f)
  <2>1. /\ Size(f) \in Nat /\ Digits(f) \in Nat /\ Bytes(f) \in Seq(Byte)
        /\ Len(Bytes(f)) = 1 + Digits(f) + Size(f)
    BY <1>2, FrameFacts
  <2>2. 1 \in 1..Len(Bytes(f))
    BY <2>1
  <2>3. h \in Byte
    BY <2>1, <2>2, ElementOfSeq
  <2>4. off[k] \in Nat
    BY <1>3, OffsetFacts
  <2>5. Len(d) \in Nat
    BY <1>2
  <2> HIDE DEF h
  <2> QED BY <2>1, <2>3, <2>4, <2>5
<1>5. /\ readHead = << >> /\ k < Len(sent) /\ f = sent[k + 1]
      /\ readLargeFrame = [buffer |-> <<h>> \o d, msgLen |-> Size(f)]
      /\ Window(stream, d, a) /\ Len(d) < Size(f) /\ c = a + Len(d)
  BY <1>2 DEF InLarge
<1>6. /\ Window(stream, incoming, c) /\ Window(stream, wire, c + Len(incoming))
      /\ c + Len(incoming) + Len(wire) = Len(stream)
  BY <1>2 DEF InLoop, Reading
<1> HIDE DEF h, a
<1>7. readLargeFrame.msgLen = Size(f) /\ readLargeFrame.buffer = <<h>> \o d
  BY <1>5
<1>8. <<h>> \o d \in Seq(Byte) /\ Len(<<h>> \o d) = 1 + Len(d) /\ <<h>> \in Seq(Byte)
  BY <1>2, <1>4, Behind
<1>9. PICK r \in Nat : r = remaining
  <2>1. remaining = 1 + Size(f) - (1 + Len(d))
    BY <1>7, <1>8 DEF HashSize
  <2>2. 1 + Size(f) - (1 + Len(d)) \in Nat
    BY <1>4, <1>5, SMTT(60)
  <2> QED BY <2>1, <2>2
<1>10. r = Size(f) - Len(d) /\ r \in 0..Len(incoming)
  <2>1. r = 1 + Size(f) - (1 + Len(d))
    BY <1>7, <1>8, <1>9 DEF HashSize
  <2>2. r <= Len(incoming)
    BY <1>1, <1>9
  <2> QED BY <1>3, <1>4, <2>1, <2>2
<1> DEFINE x == SubSeq(incoming, 1, r)
<1>11. /\ Window(stream, x, c) /\ Len(x) = r
       /\ Window(stream, incoming', c + r) /\ Len(incoming') = Len(incoming) - r
  <2>1. incoming' = SubSeq(incoming, r + 1, Len(incoming))
    BY <1>1, <1>9
  <2> QED BY <1>3, <1>6, <1>10, <2>1, WindowCut, SMTT(60)
<1>12. buffer = (<<h>> \o d) \o x
  BY <1>7, <1>9
<1> HIDE DEF buffer, remaining, x
<1> DEFINE e == d \o x
<1>13. e = f.payload
  <2>1. stream \in Seq(Byte) /\ Window(stream, d, a) /\ Window(stream, x, a + Len(d))
    BY <1>3, <1>5, <1>11
  <2>2. Window(stream, e, a) /\ Len(e) = Len(d) + Len(x)
    BY ONLY <2>1, WindowJoin
  <2> HIDE DEF e
  <2>3. Len(e) = Size(f)
    BY <1>4, <1>10, <1>11, <2>2
  <2>4. Window(stream, e, off[k] + 1 + Digits(f))
    BY <2>2 DEF a
  <2> QED BY <1>2, <1>3, <1>5, <2>3, <2>4, WindowPayload
<1>14. buffer[1] = h /\ Tail(buffer) = f.payload
  <2>1. x \in Seq(Byte)
    BY <1>11 DEF Window
  <2>2. (<<h>> \o d) \o x = <<h>> \o e
    BY <1>2, <1>8, <2>1, ConcatAssociative
  <2>3. e \in Seq(Byte)
    BY <1>2, <1>13, FrameFacts
  <2> HIDE DEF e
  <2>4. (<<h>> \o e)[1] = h /\ Tail(<<h>> \o e) = e
    BY <1>4, <2>3, Behind
  <2> QED BY <1>12, <1>13, <2>2, <2>4
<1>15. CheckFrame(h, f.payload) /\ h = Bytes(f)[1]
  BY <1>1, <1>14 DEF h
<1> HIDE DEF e
<1>16. /\ received' = got[k + 1] /\ Counted(k + 1)' /\ (isFree' => BadData(sent, limitSize))
       /\ hashFailed' \in Nat /\ sizeFailed' \in Nat /\ isFree' \in BOOLEAN
       /\ received' \in Seq(Seq(Byte))
  BY <1>1, <1>2, <1>3, <1>5, <1>15, Checked
<1> DEFINE i == k + 1
           b == c + r
<1>17. i \in 0..Len(sent) /\ i \in 1..Len(sent) /\ i - 1 = k
  BY <1>3, <1>5
<1>18. off[i] = b /\ off[i] \in Nat /\ off[i] <= Len(stream) /\ b \in Nat
  <2>1. off[i] = off[k] + Len(Bytes(f)) /\ off[i] \in Nat /\ off[i] <= Len(stream)
    BY <1>3, <1>5, <1>17 DEF Layout
  <2>2. b = off[k] + Len(Bytes(f))
    <3>1. c = a + Len(d) /\ a = off[k] + 1 + Digits(f) /\ r = Size(f) - Len(d)
      BY <1>5, <1>10 DEF a
    <3>2. Size(f) \in Nat /\ Digits(f) \in Nat /\ Len(d) \in Nat /\ off[k] \in Nat
      BY <1>4
    <3>3. (off[k] + 1 + Digits(f)) + Len(d) + (Size(f) - Len(d)) = off[k] + (1 + Digits(f) + Size(f))
      BY ONLY <3>2
    <3> QED BY <1>4, <3>1, <3>3
  <2> QED BY <2>1, <2>2
<1>19. Typed'
  <2>1. NoFrame \in [buffer: Seq(Byte), msgLen: Nat]
    BY DEF NoFrame
  <2>2. incoming' \in Seq(Byte)
    BY <1>11 DEF Window
  <2>3. pc' \in {"read", "feed", "parse", "done"}
    BY <1>1
  <2> QED BY <1>1, <1>3, <1>16, <2>1, <2>2, <2>3 DEF Typed
<1>20. ASSUME pc' # "done" PROVE InLoop(stream, off, i, b)'
  <2>1. pc' = "feed" /\ ~isFree'
    BY <1>1, <1>20
  <2>2. Reading(stream, b)'
    <3>1. b + Len(incoming') = c + Len(incoming) /\ Len(incoming') \in Nat
      <4>1. Len(incoming') = Len(incoming) - r /\ r <= Len(incoming) /\ c \in Nat
        BY <1>6, <1>10, <1>11 DEF Window
      <4> QED BY <1>3, <4>1
    <3>2. Window(stream, wire', b + Len(incoming')) /\ b + Len(incoming') + Len(wire') = Len(stream)
      BY <1>1, <1>6, <3>1
    <3> QED BY <1>11, <2>1, <3>2 DEF Reading
  <2>3. InHead(stream, off, i, b)'
    <3>1. off[i] >= buffStart' /\ off[i] - buffStart' = off[i] /\ readHead' = << >> /\ Len(<< >>) = 0
      BY <1>1, <1>3, <1>5, <1>18
    <3>2. Window(stream, << >>, off[i])
      BY <1>3, <1>18, WindowEmpty
    <3>3. b = off[i] + Len(<< >>)
      BY <1>18
    <3>4. ASSUME i < Len(sent) PROVE 0 < DataSmallSize /\ 0 < Len(Bytes(sent[i + 1]))
      <4>1. i + 1 \in 1..Len(sent)
        BY <1>3, <1>17, <3>4
      <4>2. sent[i + 1] \in Frame
        BY <1>3, <4>1, ElementOfSeq
      <4> DEFINE g == sent[i + 1]
      <4> HIDE DEF g
      <4>3. g \in Frame
        BY <4>2 DEF g
      <4>4. /\ 1 + Digits(g) <= DataSmallSize /\ DataSmallSize \in Nat /\ Digits(g) \in Nat
            /\ Size(g) \in Nat /\ Len(Bytes(g)) = 1 + Digits(g) + Size(g)
        BY <4>3, HeaderFits, FrameFacts
      <4>5. 0 < DataSmallSize /\ 0 < Len(Bytes(g))
        BY <4>4
      <4> QED BY <4>5 DEF g
    <3> HIDE DEF i, b
    <3> QED BY <1>1, <3>1, <3>2, <3>3, <3>4 DEF InHead
  <2> HIDE DEF b
  <2> QED BY <1>1, <1>3, <1>16, <2>1, <2>2, <2>3 DEF InLoop
<1> HIDE DEF b
<1>21. /\ UNCHANGED <<sent, limitSize>> /\ received' = got[i]
  BY <1>1, <1>16
<1> HIDE DEF i
<1> QED BY <1>3, <1>16, <1>17, <1>19, <1>20, <1>21, InvFrom

\* What processReadHeadFrames finds in the head buffer.
LEMMA ParseFacts ==
  ASSUME Inv, pc = "parse"
  PROVE  \E stream, off, got, k, c :
           /\ Ghost(stream, off, got, k, c) /\ InLoop(stream, off, k, c)
           /\ readLargeFrame = NoFrame /\ InHead(stream, off, k, c)
           /\ Window(stream, Left, off[k]) /\ Len(Left) = Len(readHead) - buffStart
<1>1. PICK stream, off, got, k, c : Ghost(stream, off, got, k, c)
  BY DEF Inv
<1>2. InLoop(stream, off, k, c)
  BY <1>1 DEF Ghost
<1>3. readLargeFrame = NoFrame /\ InHead(stream, off, k, c)
  BY <1>2 DEF InLoop, InLarge
<1>4. /\ stream \in Seq(Byte) /\ off[k] \in Nat /\ buffStart \in Nat /\ buffStart \in 0..Len(readHead)
  <2>1. Typed /\ Layout(sent, stream, off) /\ k \in 0..Len(sent) /\ sent \in Seq(Frame)
    BY <1>1 DEF Inv, Ghost, Typed
  <2>2. buffStart \in 0..Len(readHead) /\ Len(readHead) \in Nat
    BY <2>1 DEF Typed
  <2> QED BY <2>1, <2>2, OffsetFacts
<1> DEFINE a == off[k] - buffStart
<1>5. Window(stream, readHead, a) /\ off[k] >= buffStart
  BY <1>3 DEF InHead
<1>6. a + buffStart = off[k]
  BY <1>4, <1>5
<1> HIDE DEF a
<1>7. Window(stream, Left, a + buffStart) /\ Len(Left) = Len(readHead) - buffStart
  BY <1>4, <1>5, WindowCut DEF Left
<1> QED BY <1>1, <1>2, <1>3, <1>6, <1>7

\* The header and the frame it finds are those of the next frame.
LEMMA LeftRead ==
  ASSUME sent \in Seq(Frame), NEW stream, NEW off, Layout(sent, stream, off),
         NEW k \in 0..Len(sent), Window(stream, Left, off[k])
  PROVE  /\ HeaderComplete => k < Len(sent)
         /\ k < Len(sent) =>
              /\ sent[k + 1] \in Frame
              /\ HeaderComplete <=> Len(Left) >= 1 + Digits(sent[k + 1])
              /\ HeaderComplete =>
                   /\ HeaderSize = 1 + Digits(sent[k + 1]) /\ MsgLen = Size(sent[k + 1])
                   /\ TotalFrameSize = Len(Bytes(sent[k + 1])) /\ Left[1] = Bytes(sent[k + 1])[1]
              /\ (HeaderComplete /\ Len(Left) >= TotalFrameSize) =>
                   SubSeq(Left, HeaderSize + 1, TotalFrameSize) = sent[k + 1].payload
<1>0. Len(sent) \in Nat
  OBVIOUS
<1>1. ASSUME k = Len(sent) PROVE ~HeaderComplete
  <2>1. Window(stream, Left, off[Len(sent)])
    BY <1>1
  <2> DEFINE q == Left
  <2> HIDE DEF q
  <2>2. Layout(sent, stream, off) /\ Window(stream, q, off[Len(sent)])
    BY <2>1 DEF q
  <2>3. Len(q) = 0
    BY ONLY <2>2, WindowAtEnd
  <2> QED BY <2>3 DEF HeaderComplete, HashSize, q
<1>2. ASSUME k < Len(sent)
      PROVE   /\ sent[k + 1] \in Frame
              /\ HeaderComplete <=> Len(Left) >= 1 + Digits(sent[k + 1])
              /\ HeaderComplete =>
                   /\ HeaderSize = 1 + Digits(sent[k + 1]) /\ MsgLen = Size(sent[k + 1])
                   /\ TotalFrameSize = Len(Bytes(sent[k + 1])) /\ Left[1] = Bytes(sent[k + 1])[1]
              /\ (HeaderComplete /\ Len(Left) >= TotalFrameSize) =>
                   SubSeq(Left, HeaderSize + 1, TotalFrameSize) = sent[k + 1].payload
  <2> DEFINE f == sent[k + 1]
             q == Left
  <2>1. f \in Frame /\ Starts(q, f)
    BY <1>2, WindowStarts
  <2>2. q \in Seq(Byte)
    BY DEF Window
  <2> HIDE DEF f, q
  <2>3. /\ (Len(q) > HashSize /\ VintSize(Tail(q)) > 0) <=> Len(q) >= 1 + Digits(f)
        /\ Len(q) >= 1 + Digits(f) =>
             /\ VintSize(Tail(q)) = Digits(f) /\ ReadVint(Tail(q)) = Size(f)
             /\ q[1] = Bytes(f)[1]
        /\ Len(q) >= 1 + Digits(f) + Size(f) =>
             SubSeq(q, 1 + Digits(f) + 1, 1 + Digits(f) + Size(f)) = f.payload
    BY <2>1, <2>2, FrameRead
  <2>4. Len(Bytes(f)) = 1 + Digits(f) + Size(f)
    BY <2>1, FrameFacts
  <2>5. HeaderComplete <=> Len(q) >= 1 + Digits(f)
    BY <2>3 DEF HeaderComplete, q
  <2>6. ASSUME HeaderComplete
        PROVE  /\ HeaderSize = 1 + Digits(f) /\ MsgLen = Size(f)
               /\ TotalFrameSize = Len(Bytes(f)) /\ q[1] = Bytes(f)[1]
    BY <2>3, <2>4, <2>5, <2>6 DEF HeaderSize, MsgLen, TotalFrameSize, HashSize, q
  <2>7. ASSUME HeaderComplete, Len(q) >= TotalFrameSize
        PROVE  SubSeq(q, HeaderSize + 1, TotalFrameSize) = f.payload
    BY <2>3, <2>4, <2>6, <2>7
  <2> QED BY <2>1, <2>5, <2>6, <2>7 DEF f, q
<1> QED BY <1>0, <1>1, <1>2

\* A complete frame in the head buffer is checked.
LEMMA InvParseFrame ==
  ASSUME Inv, ParseFrame
  PROVE  Inv'
<1>1. /\ pc = "parse" /\ HeaderComplete /\ Len(Left) >= TotalFrameSize
      /\ CheckFrame(Left[1], SubSeq(Left, HeaderSize + 1, TotalFrameSize))
      /\ buffStart' = buffStart + TotalFrameSize
      /\ UNCHANGED <<sent, wire, pc, incoming, readHead, readLargeFrame, limitSize>>
  BY DEF ParseFrame
<1>2. PICK stream, off, got, k, c :
           /\ Ghost(stream, off, got, k, c) /\ InLoop(stream, off, k, c)
           /\ readLargeFrame = NoFrame /\ InHead(stream, off, k, c)
           /\ Window(stream, Left, off[k]) /\ Len(Left) = Len(readHead) - buffStart
  BY <1>1, ParseFacts
<1>3. /\ Typed /\ sent \in Seq(Frame) /\ readHead \in Seq(Byte) /\ Len(readHead) \in Nat
      /\ Layout(sent, stream, off) /\ Deliveries(sent, limitSize, got) /\ stream \in Seq(Byte)
      /\ k \in 0..Len(sent) /\ received = got[k] /\ Len(sent) \in Nat /\ buffStart \in Nat
      /\ (isFree => BadData(sent, limitSize)) /\ Counted(k) /\ buffStart <= Len(readHead)
  BY <1>1, <1>2, SMTT(60) DEF Inv, Typed, Ghost, Layout, InLoop
<1>4. PICK f : f = sent[k + 1]
  OBVIOUS
<1>5. /\ k < Len(sent) /\ f \in Frame /\ Left[1] = Bytes(f)[1] /\ TotalFrameSize = Len(Bytes(f))
      /\ SubSeq(Left, HeaderSize + 1, TotalFrameSize) = f.payload
  BY <1>1, <1>2, <1>3, <1>4, LeftRead
<1>6. CheckFrame(Left[1], f.payload)
  BY <1>1, <1>5
<1> DEFINE h == Left[1]
<1>7. CheckFrame(h, f.payload) /\ h = Bytes(f)[1]
  BY <1>5, <1>6
<1> HIDE DEF h
<1>8. /\ received' = got[k + 1] /\ Counted(k + 1)' /\ (isFree' => BadData(sent, limitSize))
      /\ hashFailed' \in Nat /\ sizeFailed' \in Nat /\ isFree' \in BOOLEAN
      /\ received' \in Seq(Seq(Byte))
  BY <1>1, <1>3, <1>4, <1>5, <1>7, Checked
<1> DEFINE i == k + 1
           t == Len(Bytes(f))
<1>9. i \in 0..Len(sent) /\ i \in 1..Len(sent) /\ i - 1 = k
  BY <1>3, <1>5
<1>10. t \in Nat /\ off[k] \in Nat /\ off[i] = off[k] + t /\ off[i] \in Nat
  <2>1. t \in Nat
    BY <1>5, FrameFacts
  <2>2. off[k] \in Nat
    BY <1>3, OffsetFacts
  <2> QED BY <1>3, <1>4, <1>9, <2>1, <2>2 DEF Layout
<1>11. buffStart' = buffStart + t /\ buffStart + t <= Len(readHead) /\ buffStart + t \in Nat
  <2>1. buffStart' = buffStart + t /\ Len(readHead) - buffStart >= t
    BY <1>1, <1>2, <1>5
  <2> HIDE DEF t
  <2> QED BY <1>3, <1>10, <2>1
<1> HIDE DEF t
<1>12. Typed'
  <2>1. buffStart' \in 0..Len(readHead')
    BY <1>1, <1>3, <1>11
  <2> QED BY <1>1, <1>3, <1>8, <2>1 DEF Typed
<1>13. InHead(stream, off, i, c)'
  <2>1. /\ off[k] >= buffStart /\ Window(stream, readHead, off[k] - buffStart)
        /\ c = (off[k] - buffStart) + Len(readHead)
    BY <1>2 DEF InHead
  <2>2. off[i] >= buffStart' /\ off[i] - buffStart' = off[k] - buffStart
    BY <1>3, <1>10, <1>11, <2>1, SMTT(60)
  <2> HIDE DEF i
  <2> QED BY <1>1, <2>1, <2>2 DEF InHead
<1>14. Reading(stream, c)'
  BY <1>1, <1>2 DEF InLoop, Reading
<1>15. InLoop(stream, off, i, c)'
  BY <1>1, <1>2, <1>8, <1>13, <1>14 DEF InLoop
<1>16. UNCHANGED <<sent, limitSize>> /\ received' = got[i]
  BY <1>1, <1>8
<1> HIDE DEF i
<1> QED BY <1>3, <1>8, <1>9, <1>12, <1>15, <1>16, InvFrom

\* An incomplete frame that fits moves to the front of the head buffer.
LEMMA InvParseIncomplete ==
  ASSUME Inv, ParseIncomplete
  PROVE  Inv'
<1>1. /\ pc = "parse"
      /\ ~HeaderComplete \/ (HeaderComplete /\ Len(Left) < TotalFrameSize
                             /\ TotalFrameSize <= DataSmallSize)
      /\ readHead' = Left /\ buffStart' = 0 /\ pc' = (IF isFree' THEN "done" ELSE "feed")
      /\ UNCHANGED <<sent, wire, incoming, readLargeFrame, limitSize, hashFailed, sizeFailed,
                     isFree, received>>
  BY DEF ParseIncomplete, EndParse, counters
<1>2. PICK stream, off, got, k, c :
           /\ Ghost(stream, off, got, k, c) /\ InLoop(stream, off, k, c)
           /\ readLargeFrame = NoFrame /\ InHead(stream, off, k, c)
           /\ Window(stream, Left, off[k]) /\ Len(Left) = Len(readHead) - buffStart
  BY <1>1, ParseFacts
<1>3. /\ Typed /\ sent \in Seq(Frame) /\ Len(readHead) \in Nat /\ Len(readHead) <= DataSmallSize
      /\ Layout(sent, stream, off) /\ Deliveries(sent, limitSize, got) /\ stream \in Seq(Byte)
      /\ k \in 0..Len(sent) /\ received = got[k] /\ Len(sent) \in Nat /\ buffStart \in Nat
      /\ (isFree => BadData(sent, limitSize)) /\ buffStart <= Len(readHead)
  BY <1>1, <1>2 DEF Inv, Typed, Ghost, Layout, InLoop
<1>4. DataSmallSize \in Nat /\ off[k] \in Nat /\ Left \in Seq(Byte) /\ Len(Left) \in Nat
  BY <1>2, <1>3, OffsetFacts, ReadAssemblyAssumption DEF Window
<1>5. Typed'
  <2>1. Len(Left) <= DataSmallSize /\ 0 \in 0..Len(Left)
    BY <1>2, <1>3, <1>4
  <2>2. pc' \in {"read", "feed", "parse", "done"}
    BY <1>1
  <2> QED BY <1>1, <1>3, <1>4, <2>1, <2>2 DEF Typed
<1>6. ASSUME k < Len(sent)
      PROVE  Len(Left) < DataSmallSize /\ Len(Left) < Len(Bytes(sent[k + 1]))
  <2>1. PICK f : f = sent[k + 1]
    OBVIOUS
  <2>2. /\ f \in Frame /\ (HeaderComplete <=> Len(Left) >= 1 + Digits(f))
        /\ HeaderComplete => TotalFrameSize = Len(Bytes(f))
    BY <1>2, <1>3, <1>6, <2>1, LeftRead
  <2>3. /\ Digits(f) \in Nat /\ Size(f) \in Nat /\ Len(Bytes(f)) = 1 + Digits(f) + Size(f)
        /\ 1 + Digits(f) <= DataSmallSize
    BY <2>2, FrameFacts, HeaderFits
  <2>4. CASE ~HeaderComplete
    BY <1>4, <2>1, <2>2, <2>3, <2>4
  <2>5. CASE HeaderComplete
    BY <1>1, <1>4, <2>1, <2>2, <2>3, <2>5
  <2> QED BY <2>4, <2>5
<1>7. ASSUME pc' # "done" PROVE InLoop(stream, off, k, c)'
  <2>1. pc' = "feed" /\ ~isFree'
    BY <1>1, <1>7
  <2>2. Reading(stream, c)' /\ Counted(k)'
    BY <1>1, <1>2, <2>1 DEF InLoop, Reading, Counted
  <2>3. InHead(stream, off, k, c)'
    <3>1. off[k] >= buffStart' /\ off[k] - buffStart' = off[k]
      BY <1>1, <1>4
    <3>2. c = off[k] + Len(Left)
      <4>1. c = (off[k] - buffStart) + Len(readHead) /\ off[k] >= buffStart
        BY <1>2 DEF InHead
      <4> QED BY <1>2, <1>3, <1>4, <4>1
    <3> QED BY <1>1, <1>2, <1>6, <3>1, <3>2 DEF InHead
  <2> QED BY <1>1, <1>2, <2>1, <2>2, <2>3 DEF InLoop
<1> QED BY <1>1, <1>3, <1>5, <1>7, InvFrom

\* An incomplete frame that does not fit gets a buffer of its own, or ends the
\* connection.
LEMMA InvParseLarge ==
  ASSUME Inv, ParseLarge
  PROVE  Inv'
<1>1. /\ pc = "parse" /\ HeaderComplete /\ Len(Left) < TotalFrameSize
      /\ TotalFrameSize > DataSmallSize
      /\ UNCHANGED <<sent, wire, incoming, limitSize, hashFailed, received>>
  BY DEF ParseLarge
<1>2. PICK stream, off, got, k, c :
           /\ Ghost(stream, off, got, k, c) /\ InLoop(stream, off, k, c)
           /\ readLargeFrame = NoFrame /\ InHead(stream, off, k, c)
           /\ Window(stream, Left, off[k]) /\ Len(Left) = Len(readHead) - buffStart
  BY <1>1, ParseFacts
<1>3. /\ Typed /\ sent \in Seq(Frame) /\ Len(readHead) \in Nat /\ Len(readHead) <= DataSmallSize
      /\ Layout(sent, stream, off) /\ Deliveries(sent, limitSize, got) /\ stream \in Seq(Byte)
      /\ k \in 0..Len(sent) /\ received = got[k] /\ Len(sent) \in Nat /\ buffStart \in Nat
      /\ (isFree => BadData(sent, limitSize)) /\ buffStart <= Len(readHead) /\ sizeFailed \in Nat
  BY <1>1, <1>2, SMTT(60) DEF Inv, Typed, Ghost, Layout, InLoop
<1>4. DataSmallSize \in Nat /\ off[k] \in Nat /\ Left \in Seq(Byte) /\ Len(Left) \in Nat
  BY <1>2, <1>3, OffsetFacts, ReadAssemblyAssumption DEF Window
<1>5. PICK f : f = sent[k + 1]
  OBVIOUS
<1>6. /\ k < Len(sent) /\ f \in Frame /\ Len(Left) >= 1 + Digits(f)
      /\ HeaderSize = 1 + Digits(f) /\ MsgLen = Size(f)
      /\ TotalFrameSize = Len(Bytes(f)) /\ Left[1] = Bytes(f)[1]
  BY <1>1, <1>2, <1>3, <1>5, LeftRead
<1>7. /\ Digits(f) \in Nat /\ Size(f) \in Nat /\ Len(Bytes(f)) = 1 + Digits(f) + Size(f)
      /\ Bytes(f) \in Seq(Byte)
  BY <1>6, FrameFacts
<1>8. CASE OverLimit(MsgLen)
  <2>1. /\ sizeFailed' = sizeFailed + 1 /\ isFree' = TRUE /\ readHead' = Left /\ buffStart' = 0
        /\ pc' = "done" /\ readLargeFrame' = readLargeFrame
    BY <1>8 DEF ParseLarge, EndParse
  <2>2. BadData(sent, limitSize)
    <3> DEFINE i == k + 1
    <3>1. i \in 1..Len(sent)
      BY <1>3, <1>6
    <3>2. i \in Large(sent, limitSize)
      BY <1>5, <1>6, <1>8, <3>1 DEF Large, OverLimit, Over
    <3>3. PackFrameSize(Size(sent[i])) = TotalFrameSize
      BY <1>5, <1>6, <1>7 DEF PackFrameSize, HashSize, Digits
    <3> QED BY <1>1, <3>1, <3>2, <3>3 DEF BadData
  <2>3. Typed'
    <3>1. Len(Left) <= DataSmallSize /\ 0 \in 0..Len(Left)
      BY <1>2, <1>3, <1>4
    <3>2. sizeFailed' \in Nat
      BY <1>3, <2>1
    <3> QED BY <1>1, <1>3, <1>4, <2>1, <3>1, <3>2 DEF Typed
  <2> QED BY <1>1, <1>3, <2>1, <2>2, <2>3, InvFrom
<1>9. CASE ~OverLimit(MsgLen)
  <2>1. /\ readLargeFrame' = [buffer |-> <<Left[1]>> \o SubSeq(Left, HeaderSize + 1, Len(Left)),
                              msgLen |-> MsgLen]
        /\ UNCHANGED <<sizeFailed, isFree>> /\ readHead' = << >> /\ buffStart' = 0
        /\ pc' = (IF isFree' THEN "done" ELSE "feed")
    BY <1>9 DEF ParseLarge, EndParse
  <2> DEFINE z == 1 + Digits(f)
             h == Bytes(f)[1]
  <2>2. PICK d : d = SubSeq(Left, z + 1, Len(Left))
    OBVIOUS
  <2>3. z \in Nat /\ z \in 0..Len(Left)
    BY <1>4, <1>6, <1>7
  <2> DEFINE q == Left
  <2>4. stream \in Seq(Byte) /\ Window(stream, q, off[k]) /\ z \in 0..Len(q) /\ d = SubSeq(q, z + 1, Len(q))
    BY <1>2, <1>3, <2>2, <2>3
  <2> HIDE DEF q, z, h
  <2>5. Window(stream, d, off[k] + z) /\ Len(d) = Len(q) - z
    BY <2>4, WindowCut
  <2>6. d \in Seq(Byte) /\ Len(d) \in Nat /\ Len(d) < Size(f) /\ Len(Left) = z + Len(d)
    <3>1. d \in Seq(Byte)
      BY <2>5 DEF Window
    <3>2. Len(d) = Len(Left) - z /\ Len(Left) < z + Size(f)
      BY <1>1, <1>6, <1>7, <2>5 DEF q, z
    <3> QED BY <1>4, <1>7, <2>3, <3>1, <3>2
  <2>7. h \in Byte /\ readLargeFrame' = [buffer |-> <<h>> \o d, msgLen |-> Size(f)]
    <3>1. 1 \in 1..Len(Bytes(f))
      BY <1>7
    <3>2. h \in Byte
      BY <1>7, <3>1, ElementOfSeq DEF h
    <3>3. Left[1] = h /\ HeaderSize = z /\ MsgLen = Size(f)
      BY <1>6 DEF h, z
    <3> QED BY <2>1, <2>2, <3>2, <3>3
  <2>8. Typed'
    <3> DEFINE b == <<h>> \o d
               m == Size(f)
    <3>1. b \in Seq(Byte) /\ m \in Nat
      BY <1>7, <2>6, <2>7, Behind
    <3> HIDE DEF b, m
    <3>2. readLargeFrame' = [buffer |-> b, msgLen |-> m]
      BY <2>7 DEF b, m
    <3>3. readLargeFrame' \in [buffer: Seq(Byte), msgLen: Nat]
      BY <3>1, <3>2
    <3>4. pc' \in {"read", "feed", "parse", "done"} /\ << >> \in Seq(Byte) /\ Len(<< >>) = 0
      BY <2>1
    <3>5. Len(<< >>) <= DataSmallSize /\ 0 \in 0..Len(<< >>)
      BY <1>4, <3>4
    <3> QED BY <1>1, <1>3, <2>1, <3>3, <3>4, <3>5 DEF Typed
  <2>9. ASSUME pc' # "done" PROVE InLoop(stream, off, k, c)'
    <3>1. pc' = "feed" /\ ~isFree'
      BY <2>1, <2>9
    <3>2. Reading(stream, c)' /\ Counted(k)'
      BY <1>1, <1>2, <2>1, <3>1 DEF InLoop, Reading, Counted
    <3>3. InLarge(stream, off, k, c, f, d)'
      <4>1. c = off[k] + Len(Left)
        <5>1. c = (off[k] - buffStart) + Len(readHead) /\ off[k] >= buffStart
          BY <1>2 DEF InHead
        <5> QED BY <1>2, <1>3, <1>4, <5>1
      <4>2. off[k] + z = off[k] + 1 + Digits(f)
        <5>1. off[k] \in Nat /\ Digits(f) \in Nat
          BY <1>4, <1>7
        <5>2. off[k] + (1 + Digits(f)) = off[k] + 1 + Digits(f)
          BY ONLY <5>1
        <5> QED BY <5>2 DEF z
      <4>3. c = off[k] + 1 + Digits(f) + Len(d)
        BY <1>4, <2>3, <2>6, <4>1, <4>2
      <4>4. Window(stream, d, off[k] + 1 + Digits(f))
        BY <2>5, <4>2
      <4> QED BY <1>1, <1>5, <1>6, <2>1, <2>6, <2>7, <3>1, <4>3, <4>4 DEF InLarge, h
    <3> QED BY <1>6, <2>1, <2>6, <3>1, <3>2, <3>3 DEF InLoop
  <2> QED BY <1>1, <1>3, <2>1, <2>8, <2>9, InvFrom
<1> QED BY <1>8, <1>9

\* Every step keeps the invariant.
LEMMA InvNext == Inv /\ [Next]_vars => Inv'
<1> SUFFICES ASSUME Inv, [Next]_vars PROVE Inv'
  OBVIOUS
<1>1. CASE \E p \in Payloads, intact \in BOOLEAN : SendFrame(p, intact)
  BY <1>1, InvSend
<1>2. CASE ReadEnds \/ FeedEnds
  BY <1>2, InvEnds
<1>3. CASE \E n \in 1..ReadBufferSize : Read(n)
  BY <1>3, InvRead
<1>4. CASE FeedLargeFrame
  BY <1>4, InvFeedLarge
<1>5. CASE CompleteLargeFrame
  BY <1>5, InvComplete
<1>6. CASE FeedHead
  BY <1>6, InvFeedHead
<1>7. CASE ParseFrame
  BY <1>7, InvParseFrame
<1>8. CASE ParseIncomplete
  BY <1>8, InvParseIncomplete
<1>9. CASE ParseLarge
  BY <1>9, InvParseLarge
<1>10. CASE UNCHANGED vars
  <2>1. UNCHANGED <<sent, wire, pc, incoming, readHead, buffStart, readLargeFrame, limitSize,
                    hashFailed, sizeFailed, isFree, received>>
    BY <1>10 DEF vars
  <2>2. Typed'
    BY <2>1 DEF Inv, Typed
  <2>3. PICK stream, off, got, k, c : Ghost(stream, off, got, k, c)
    BY DEF Inv
  <2>4. InLoop(stream, off, k, c) => InLoop(stream, off, k, c)'
    BY <2>1 DEF InLoop, Reading, Counted, InHead, InLarge
  <2>5. Ghost(stream, off, got, k, c)'
    BY <2>1, <2>3, <2>4 DEF Ghost
  <2> QED BY <2>1, <2>2, <2>5 DEF Inv
<1> QED BY <1>1, <1>2, <1>3, <1>4, <1>5, <1>6, <1>7, <1>8, <1>9, <1>10 DEF Next, ReadLoop

\* The invariant holds throughout.
LEMMA Invariant == Spec => []Inv
BY InvInit, InvNext, PTL DEF Spec

------------------------------------------------------------------------------
(* The theorems.                                                           *)

\* TypeOK: the head buffer never holds more than its size, and the part of it
\* that is parsed is part of it.
THEOREM FramesTyped == Spec => []TypeOK
<1>1. Inv => TypeOK
  BY TypedMeant DEF Inv
<1> QED BY <1>1, Invariant, PTL

\* However the stream is cut, readLoop hands over the good frames' payloads,
\* unchanged, in order, each once.
THEOREM FramesInOrder == Spec => []ReceivedInOrder
<1>1. Inv => ReceivedInOrder
  BY InvMeans
<1> QED BY <1>1, Invariant, PTL

\* Once all bytes are read and parsed, no good frame stays in a buffer.
THEOREM NoFrameHeldBack == Spec => []NothingHeldBack
<1>1. Inv => NothingHeldBack
  BY InvMeans
<1> QED BY <1>1, Invariant, PTL

\* readLoop gives a connection up only for bad data; the head buffer is never
\* found full.
THEOREM GivenUpForBadData == Spec => []ClosedOnlyForBadData
<1>1. Inv => ClosedOnlyForBadData
  BY InvMeans
<1> QED BY <1>1, Invariant, PTL
=============================================================================
