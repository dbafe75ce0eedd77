----------------------------- MODULE AmountsProofs -----------------------------
(***************************************************************************)
(* Proofs about Amounts and Conversion, for integers of any width, floats  *)
(* of any precision and all numbers a client may write: what the amount of *)
(* a request is converted to, and what becomes of it in another currency.  *)
(***************************************************************************)
EXTENDS Conversion, FiniteSetTheorems, FunctionTheorems, WellFoundedInduction, TLAPS

(***************************************************************************)
(* The powers of two, of which the provers know nothing: 2^n counts the    *)
(* subsets of a set of n elements.                                         *)
(***************************************************************************)
LEMMA SubsetsOf ==
    ASSUME NEW n \in Nat
    PROVE  IsFiniteSet(SUBSET (1..n)) /\ Cardinality(SUBSET (1..n)) = 2^n
<1>1. IsFiniteSet(1..n) /\ Cardinality(1..n) = n
  BY FS_Interval
<1> QED
  BY <1>1, FS_SUBSET

LEMMA PowerOfTwo ==
    ASSUME NEW n \in Nat
    PROVE  2^n \in Nat /\ 2^n > 0
<1>1. Cardinality(SUBSET (1..n)) \in Nat
  BY SubsetsOf, FS_CardinalityType
<1>2. SUBSET (1..n) # {}
  OBVIOUS
<1>3. Cardinality(SUBSET (1..n)) # 0
  BY <1>2, SubsetsOf, FS_EmptySet
<1> QED
  BY <1>1, <1>3, SubsetsOf

LEMMA PowerDoubles ==
    ASSUME NEW n \in Nat
    PROVE  2^(n + 1) = 2 * 2^n
<1> DEFINE A == SUBSET (1..n)
           B == {s \cup {n + 1} : s \in A}
           f == [s \in A |-> s \cup {n + 1}]
<1>1. 1..(n + 1) = (1..n) \cup {n + 1} /\ n + 1 \notin 1..n
  OBVIOUS
<1>2. SUBSET (1..(n + 1)) = A \cup B /\ A \cap B = {}
  <2>1. ASSUME NEW s \in SUBSET (1..(n + 1)) PROVE s \in A \cup B
    <3>1. CASE n + 1 \in s
      <4>1. s \ {n + 1} \in A /\ s = (s \ {n + 1}) \cup {n + 1}
        BY <1>1, <3>1
      <4> QED
        BY <4>1
    <3>2. CASE n + 1 \notin s
      BY <1>1, <3>2
    <3> QED
      BY <3>1, <3>2
  <2>2. \A s \in A : s \in SUBSET (1..(n + 1)) /\ n + 1 \notin s
    BY <1>1
  <2>3. \A s \in B : s \in SUBSET (1..(n + 1)) /\ n + 1 \in s
    BY <1>1
  <2> HIDE DEF A, B
  <2>4. A \cap B = {}
    BY <2>2, <2>3
  <2> QED
    BY <2>1, <2>2, <2>3, <2>4
<1>3. f \in Bijection(A, B)
  <2>1. f \in [A -> B]
    OBVIOUS
  <2>2. ASSUME NEW s \in A, NEW t \in A, f[s] = f[t] PROVE s = t
    BY <1>1, <2>2
  <2>3. \A u \in B : \E s \in A : f[s] = u
    OBVIOUS
  <2> QED
    BY <2>1, <2>2, <2>3, Fun_IsBij
<1> HIDE DEF A, B, f
<1>4. IsFiniteSet(A) /\ Cardinality(A) = 2^n
  BY SubsetsOf DEF A
<1>5. IsFiniteSet(B) /\ Cardinality(B) = Cardinality(A)
  BY <1>3, <1>4, FS_Bijection DEF ExistsBijection
<1>6. Cardinality(A \cup B) = Cardinality(A) + Cardinality(B) - Cardinality(A \cap B)
  BY <1>4, <1>5, FS_Union
<1>7. Cardinality(A \cap B) = 0
  BY <1>2, FS_EmptySet
<1>8. Cardinality(A \cup B) = 2^(n + 1)
  <2>1. n + 1 \in Nat
    OBVIOUS
  <2> QED
    BY <1>2, <2>1, SubsetsOf
<1>9. 2^n \in Nat
  BY PowerOfTwo
<1> QED
  BY <1>4, <1>5, <1>6, <1>7, <1>8, <1>9

LEMMA Smallest ==
    ASSUME NEW T, T \subseteq Nat, T # {}
    PROVE  \E n \in T : \A m \in T : n <= m
<1> DEFINE R == OpToRel(<, Nat)
<1>1. IsWellFoundedOn(R, Nat)
  BY NatLessThanWellFounded
<1>2. \A m, n \in Nat : <<m, n>> \in R <=> m < n
  BY DEF OpToRel
<1> HIDE DEF R
<1>3. PICK n \in T : \A m \in T : ~ (<<m, n>> \in R)
  BY <1>1, WFMin
<1>4. n \in Nat /\ \A m \in T : m \in Nat /\ ~ (m < n)
  BY <1>2, <1>3
<1>5. \A m \in T : n <= m
  BY <1>4
<1> QED
  BY <1>5

LEMMA PowerAdds ==
    ASSUME NEW a \in Nat, NEW b \in Nat
    PROVE  2^(a + b) = 2^a * 2^b
<1> DEFINE T == {n \in Nat : 2^(a + n) # 2^a * 2^n}
<1>1. SUFFICES ASSUME T # {} PROVE FALSE
  OBVIOUS
<1>2. PICK n \in T : \A m \in T : n <= m
  BY <1>1, Smallest
<1>3. CASE n = 0
  BY <1>2, <1>3, PowerOfTwo
<1>4. CASE n # 0
  <2>1. n - 1 \in Nat /\ n - 1 \notin T
    BY <1>2, <1>4
  <2>2. 2^(a + (n - 1)) = 2^a * 2^(n - 1)
    BY <2>1
  <2>3. /\ 2^((a + (n - 1)) + 1) = 2 * 2^(a + (n - 1))
        /\ 2^((n - 1) + 1) = 2 * 2^(n - 1)
    BY <2>1, PowerDoubles
  <2>4. (a + (n - 1)) + 1 = a + n /\ (n - 1) + 1 = n
    BY <1>2
  <2>5. 2^a \in Nat /\ 2^(n - 1) \in Nat
    BY <2>1, PowerOfTwo
  <2>6. 2^(a + n) = 2^a * 2^n
    BY <2>2, <2>3, <2>4, <2>5
  <2> QED
    BY <1>2, <2>6
<1> QED
  BY <1>3, <1>4

LEMMA PowerGrows ==
    ASSUME NEW a \in Nat, NEW b \in Nat, a <= b
    PROVE  2^a <= 2^b
<1>1. b - a \in Nat /\ a + (b - a) = b
  OBVIOUS
<1>2. 2^b = 2^a * 2^(b - a)
  BY <1>1, PowerAdds
<1>3. 2^a \in Nat /\ 2^(b - a) \in Nat /\ 2^(b - a) >= 1
  BY <1>1, PowerOfTwo
<1> DEFINE u == 2^a
           v == 2^(b - a)
<1> HIDE DEF u, v
<1>4. u \in Nat /\ v \in Nat /\ v >= 1 => u <= u * v
  OBVIOUS
<1> QED
  BY <1>2, <1>3, <1>4 DEF u, v

(***************************************************************************)
(* The integers of Width bits.                                             *)
(***************************************************************************)
LEMMA WidthFacts ==
    /\ MaxInt \in Nat
    /\ 2^(Width - 1) = MaxInt + 1 /\ 2^Width = 2 * (MaxInt + 1)
<1>1. Width - 1 \in Nat /\ (Width - 1) + 1 = Width
  BY AmountsAssumption
<1>2. 2^(Width - 1) \in Nat /\ 2^(Width - 1) > 0
  BY <1>1, PowerOfTwo
<1>3. 2^Width = 2 * 2^(Width - 1)
  BY <1>1, PowerDoubles
<1> QED
  BY <1>2, <1>3 DEF MaxInt

(* Wrapping leaves an integer in range as it is, and yields one for all. *)
LEMMA WrapFacts ==
    ASSUME NEW n \in Int
    PROVE  /\ Wrap(n) \in (-MaxInt - 1)..MaxInt
           /\ n \in (-MaxInt - 1)..MaxInt => Wrap(n) = n
<1> DEFINE h == MaxInt + 1
           w == 2 * h
           x == n + h
<1>1. h \in Nat /\ h > 0 /\ Wrap(n) = (x % w) - h
  BY WidthFacts DEF Wrap
<1>2. MaxInt = h - 1
  BY WidthFacts
<1> HIDE DEF h
<1>3. w \in Nat /\ w > 0 /\ x \in Int
  BY <1>1
<1> HIDE DEF x, w
<1>4. x % w \in 0..(w - 1) /\ (x \in 0..(w - 1) => x % w = x)
  BY <1>3
<1> QED
  BY <1>1, <1>2, <1>4 DEF x, w

(***************************************************************************)
(* The number of a request.                                                *)
(***************************************************************************)
LEMMA NumberFacts ==
    ASSUME NEW n \in Numbers
    PROVE  /\ n.whole \in Nat /\ n.fraction \in Seq(0..9) /\ Len(n.fraction) \in Nat
           /\ \A i \in 1..Len(n.fraction) : n.fraction[i] \in 0..9
           /\ n.negative \in BOOLEAN
<1>1. n.whole \in Wholes /\ n.fraction \in Fractions /\ n.negative \in BOOLEAN
  BY DEF Numbers
<1>2. n.whole \in Nat /\ n.fraction \in Seq(0..9)
  BY <1>1, AmountsAssumption
<1>3. /\ Len(n.fraction) \in Nat
      /\ \A i \in 1..Len(n.fraction) : n.fraction[i] \in 0..9
  BY <1>2
<1> QED
  BY <1>1, <1>2, <1>3

AsNumber(n) ==
    CHOOSE g : g = [i \in 0..Len(n.fraction) |->
                      IF i = 0 THEN n.whole ELSE 10 * g[i - 1] + n.fraction[i]]

(* A number of at most two decimals without its point. *)
LEMMA DigitsFacts ==
    ASSUME NEW n \in Numbers
    PROVE  /\ Len(n.fraction) = 0 => Digits(n) = n.whole
           /\ Len(n.fraction) = 1 => Digits(n) = 10 * n.whole + n.fraction[1]
           /\ Len(n.fraction) = 2 =>
                Digits(n) = 10 * (10 * n.whole + n.fraction[1]) + n.fraction[2]
<1> DEFINE w == n.whole
           f == n.fraction
           G(g) == [i \in 0..Len(f) |-> IF i = 0 THEN w ELSE 10 * g[i - 1] + f[i]]
<1>1. Digits(n) = AsNumber(n)[Len(f)]
  BY DEF Digits, AsNumber
<1>2. ASSUME Len(f) <= 2
      PROVE  AsNumber(n) = G(AsNumber(n))
  <2> DEFINE h == [i \in 0..Len(f) |->
                     IF i = 0 THEN w
                     ELSE IF i = 1 THEN 10 * w + f[1]
                     ELSE 10 * (10 * w + f[1]) + f[2]]
  <2>1. \A i \in 0..Len(f) : i = 0 \/ i = 1 \/ i = 2
    BY <1>2, NumberFacts
  <2>2. \A i \in 0..Len(f) : h[i] = IF i = 0 THEN w ELSE 10 * h[i - 1] + f[i]
    <3> SUFFICES ASSUME NEW i \in 0..Len(f)
                 PROVE  h[i] = IF i = 0 THEN w ELSE 10 * h[i - 1] + f[i]
      OBVIOUS
    <3>1. i # 0 => i - 1 \in 0..Len(f)
      BY NumberFacts
    <3> QED
      BY <2>1, <3>1
  <2>3. h = G(h)
    BY <2>2
  <2> HIDE DEF h
  <2> QED
    BY <2>3 DEF AsNumber
<1> HIDE DEF f, w
<1>3. ASSUME Len(f) <= 2, NEW i \in 0..Len(f)
      PROVE  AsNumber(n)[i] = IF i = 0 THEN w ELSE 10 * AsNumber(n)[i - 1] + f[i]
  BY <1>2, <1>3
<1>4. Len(f) = 0 => AsNumber(n)[0] = w
  BY <1>3
<1>5. Len(f) = 1 => AsNumber(n)[0] = w /\ AsNumber(n)[1] = 10 * AsNumber(n)[0] + f[1]
  BY <1>3
<1>6. Len(f) = 2 => /\ AsNumber(n)[0] = w /\ AsNumber(n)[1] = 10 * AsNumber(n)[0] + f[1]
                    /\ AsNumber(n)[2] = 10 * AsNumber(n)[1] + f[2]
  BY <1>3
<1> QED
  BY <1>1, <1>4, <1>5, <1>6 DEF w, f

(* What a number of at most two decimals is worth in minor units. *)
LEMMA WorthFacts ==
    ASSUME NEW n \in Numbers, Len(n.fraction) <= 2
    PROVE  /\ n.whole * 100 \in Nat /\ Cents(n.fraction) \in 0..99
           /\ \A m \in Int : Exact(m, n) <=> m = n.whole * 100 + Cents(n.fraction)
           /\ Digits(n) = 0 => n.whole = 0 /\ Cents(n.fraction) = 0
<1> DEFINE w == n.whole
           f == n.fraction
           x == f[1]
           y == f[2]
           c == Cents(f)
           p == 10^Len(f)
           d == Digits(n)
<1>1. w \in Nat /\ Len(f) \in Nat /\ \A i \in 1..Len(f) : f[i] \in 0..9
  BY NumberFacts
<1>2. Len(f) = 0 \/ Len(f) = 1 \/ Len(f) = 2
  <2> DEFINE k == Len(f)
  <2>1. k \in Nat /\ k <= 2
    BY <1>1
  <2> HIDE DEF k
  <2>2. k = 0 \/ k = 1 \/ k = 2
    BY <2>1
  <2> QED
    BY <2>2 DEF k
<1>3. \A m : Exact(m, n) <=> m * p = d * 100
  BY DEF Exact
<1>4. CASE Len(f) = 0
  <2>1. c = 0 /\ p = 1 /\ d = w
    BY <1>4, DigitsFacts DEF Cents
  <2> HIDE DEF c, p, d, w
  <2> QED
    BY <1>1, <1>3, <2>1 DEF c, d, w
<1>5. CASE Len(f) = 1
  <2>1. x \in 0..9
    BY <1>1, <1>5
  <2>2. c = 10 * x
    BY <1>5 DEF Cents
  <2>3. p = 10
    BY <1>5
  <2>4. d = 10 * w + x
    BY <1>5, DigitsFacts
  <2> HIDE DEF c, p, d, w, x
  <2>5. ASSUME NEW m \in Int PROVE m * p = d * 100 <=> m = w * 100 + c
    <3> DEFINE q == w * 100 + c
    <3>1. q \in Int /\ d * 100 = q * 10
      BY <1>1, <2>1, <2>2, <2>4
    <3> HIDE DEF q
    <3>2. m * 10 = q * 10 <=> m = q
      BY <3>1
    <3> QED
      BY <2>3, <3>1, <3>2 DEF q
  <2>6. w * 100 \in Nat /\ c \in 0..99 /\ (d = 0 => w = 0 /\ c = 0)
    BY <1>1, <2>1, <2>2, <2>4
  <2> QED
    BY <1>3, <2>5, <2>6 DEF c, d, w
<1>6. CASE Len(f) = 2
  <2>1. x \in 0..9 /\ y \in 0..9
    BY <1>1, <1>6
  <2>2. c = 10 * x + y
    BY <1>6 DEF Cents
  <2>3. p = 100
    BY <1>6
  <2>4. d = 10 * (10 * w + x) + y
    BY <1>6, DigitsFacts
  <2> HIDE DEF c, p, d, w, x, y
  <2>5. ASSUME NEW m \in Int PROVE m * p = d * 100 <=> m = w * 100 + c
    BY <1>1, <2>1, <2>2, <2>3, <2>4
  <2>6. w * 100 \in Nat /\ c \in 0..99 /\ (d = 0 => w = 0 /\ c = 0)
    BY <1>1, <2>1, <2>2, <2>4
  <2> QED
    BY <1>3, <2>5, <2>6 DEF c, d, w
<1> QED
  BY <1>2, <1>4, <1>5, <1>6

(* Amounts that fit are converted without wrapping around. *)
LEMMA MinorFacts ==
    ASSUME NEW n \in Numbers, Len(n.fraction) <= 2
    PROVE  /\ Minor(n) \in (-MaxInt - 1)..MaxInt
           /\ n.whole * 100 + Cents(n.fraction) <= MaxInt =>
                Minor(n) = n.whole * 100 + Cents(n.fraction)
<1> DEFINE a == n.whole * 100
           c == Cents(n.fraction)
<1>1. a \in Nat /\ c \in 0..99
  BY WorthFacts
<1>2. Minor(n) = Wrap(Wrap(a) + c)
  BY DEF Minor
<1> HIDE DEF a, c
<1>3. Wrap(a) \in Int /\ MaxInt \in Nat
  BY <1>1, WrapFacts, WidthFacts
<1>4. ASSUME a + c <= MaxInt PROVE Wrap(a) = a /\ Wrap(a + c) = a + c
  <2>1. a \in (-MaxInt - 1)..MaxInt /\ a + c \in (-MaxInt - 1)..MaxInt
    BY <1>1, <1>3, <1>4
  <2> QED
    BY <1>1, <2>1, WrapFacts
<1>5. Wrap(Wrap(a) + c) \in (-MaxInt - 1)..MaxInt
  BY <1>1, <1>3, WrapFacts
<1> QED
  BY <1>2, <1>4, <1>5 DEF a, c

(* An amount that fits is accepted, for what it is worth; zero is not. *)
LEMMA AcceptedFacts ==
    ASSUME NEW n \in Numbers, Len(n.fraction) <= 2
    PROVE  /\ \A m \in 1..MaxInt :
                Exact(m, n) => n.whole <= MaxInt /\ Minor(n) = m /\ Minor(n) > 0
           /\ Digits(n) = 0 => ~ (Minor(n) > 0)
<1> DEFINE w == n.whole
           a == w * 100
           c == Cents(n.fraction)
           z == Minor(n)
           M == MaxInt
<1>1. w \in Nat
  BY NumberFacts
<1>2. c \in 0..99
  BY WorthFacts
<1>3. \A m \in Int : Exact(m, n) => m = a + c
  BY WorthFacts
<1>4. a + c <= M => z = a + c
  BY MinorFacts
<1>5. Digits(n) = 0 => w = 0 /\ c = 0
  BY WorthFacts
<1>6. M \in Nat
  BY WidthFacts
<1> HIDE DEF w, c, z, M
<1>7. ASSUME NEW m \in 1..M, Exact(m, n)
      PROVE  w <= M /\ z = m /\ z > 0
  <2>1. m \in Int /\ m > 0 /\ m <= M
    BY <1>6
  <2>2. m = w * 100 + c
    BY <1>3, <1>7, <2>1
  <2> QED
    BY <1>1, <1>2, <1>4, <1>6, <2>1, <2>2
<1>8. w = 0 /\ c = 0 => z = 0
  BY <1>4, <1>6
<1> QED
  BY <1>5, <1>7, <1>8 DEF w, c, z, M

(***************************************************************************)
(* The amount of a request.                                                *)
(***************************************************************************)
Accepted(n) == WellFormed(n) /\ Minor(n) > 0

AmountsInv ==
    /\ number \in Numbers
    /\ err \in {"", "nil", "ErrInvalidAmount"}
    /\ minor = IF err = "nil" THEN Minor(number) ELSE 0
    /\ err = "nil" => Accepted(number)
    /\ err = "ErrInvalidAmount" => ~ Accepted(number)

LEMMA AmountsInvariant == Spec => []AmountsInv
<1>1. Init => AmountsInv
  BY DEF Init, AmountsInv
<1>2. AmountsInv /\ [Next]_vars => AmountsInv'
  <2> SUFFICES ASSUME AmountsInv, [Next]_vars PROVE AmountsInv'
    OBVIOUS
  <2>1. CASE Accept
    <3>1. number' = number /\ err' = "nil" /\ minor' = Minor(number) /\ Accepted(number)
      BY <2>1 DEF Accept, Accepted
    <3> QED
      BY <3>1 DEF AmountsInv, Minor, Accepted, WellFormed
  <2>2. CASE Refuse
    <3>1. number' = number /\ err' = "ErrInvalidAmount" /\ minor' = minor /\ err = ""
          /\ ~ Accepted(number)
      BY <2>2 DEF Refuse, Accepted
    <3> QED
      BY <3>1 DEF AmountsInv, Minor, Accepted, WellFormed
  <2>3. CASE UNCHANGED vars
    BY <2>3 DEF vars, AmountsInv, Minor, Accepted, WellFormed
  <2> QED
    BY <2>1, <2>2, <2>3 DEF Next
<1> QED
  BY <1>1, <1>2, PTL DEF Spec

(* Converting and exchanging an amount leaves it as Amounts says. *)
THEOREM SystemHasAmounts == SystemSpec => Spec
<1>1. SystemInit => Init
  BY DEF SystemInit
<1>2. [SystemNext]_systemVars => [Next]_vars
  BY DEF SystemNext, systemVars, Exchange, Report
<1> QED
  BY <1>1, <1>2, PTL DEF SystemSpec, Spec

(* Every variable keeps its type, and an accepted amount is positive, also *)
(* where sums wrap around. *)
THEOREM TypeCorrect == Spec => []TypeOK
<1>1. AmountsInv => TypeOK
  <2> SUFFICES ASSUME AmountsInv PROVE TypeOK
    OBVIOUS
  <2>1. MaxInt \in Nat
    BY WidthFacts
  <2>2. CASE err = "nil"
    <3>1. number \in Numbers /\ Len(number.fraction) <= 2 /\ Minor(number) > 0
          /\ minor = Minor(number)
      BY <2>2 DEF AmountsInv, Accepted, WellFormed
    <3>2. Minor(number) \in (-MaxInt - 1)..MaxInt
      BY <3>1, MinorFacts
    <3> QED
      BY <2>1, <2>2, <3>1, <3>2 DEF AmountsInv, TypeOK
  <2>3. CASE err # "nil"
    <3>1. minor = 0
      BY <2>3 DEF AmountsInv
    <3>2. minor \in 0..MaxInt /\ ~ (minor > 0)
      BY <2>1, <3>1
    <3> QED
      BY <2>3, <3>2 DEF AmountsInv, TypeOK
  <2> QED
    BY <2>2, <2>3
<1> QED
  BY <1>1, AmountsInvariant, PTL

(* An amount that the integer type can hold is converted exactly or, when  *)
(* written with more than two decimals, refused; what is no amount is      *)
(* refused.  For every width, and numbers of any length.                   *)
THEOREM AmountsAreConverted == Spec => []ConvertsAmounts
<1>1. AmountsInv => ConvertsAmounts
  <2> SUFFICES ASSUME AmountsInv, err # ""
               PROVE  /\ Representable(number) =>
                           IF Len(number.fraction) <= 2
                             THEN err = "nil" /\ Exact(minor, number)
                             ELSE err = "ErrInvalidAmount"
                      /\ number.negative \/ Digits(number) = 0 => err = "ErrInvalidAmount"
    BY DEF ConvertsAmounts
  <2> DEFINE n == number
             k == Len(n.fraction)
  <2>1. n \in Numbers /\ k \in Nat /\ MaxInt \in Nat
    BY NumberFacts, WidthFacts DEF AmountsInv
  <2>2. err = (IF Accepted(n) THEN "nil" ELSE "ErrInvalidAmount")
    BY DEF AmountsInv
  <2>3. ASSUME Representable(n), k <= 2
        PROVE  err = "nil" /\ Exact(minor, n)
    <3>1. PICK m \in 1..MaxInt : Exact(m, n)
      BY <2>3 DEF Representable
    <3>2. n.whole <= MaxInt /\ Minor(n) = m /\ Minor(n) > 0
      BY <2>1, <2>3, <3>1, AcceptedFacts
    <3>3. Accepted(n)
      BY <2>3, <3>2 DEF Accepted, WellFormed, Representable
    <3> QED
      BY <2>2, <3>1, <3>2, <3>3 DEF AmountsInv
  <2>4. ASSUME ~ (k <= 2) \/ n.negative PROVE err = "ErrInvalidAmount"
    BY <2>2, <2>4 DEF Accepted, WellFormed
  <2>5. ASSUME k <= 2, Digits(n) = 0 PROVE err = "ErrInvalidAmount"
    <3>1. ~ (Minor(n) > 0)
      BY <2>1, <2>5, AcceptedFacts
    <3> QED
      BY <2>2, <3>1 DEF Accepted
  <2> QED
    BY <2>3, <2>4, <2>5
<1> QED
  BY <1>1, AmountsInvariant, PTL

(***************************************************************************)
(* Floats.                                                                 *)
(***************************************************************************)
(* The numbers whose bits are counted. *)
Fits(n) == n \in Nat /\ n > 0 /\ n < 2^(2 * Double + 1)

LEMMA BitsFacts ==
    ASSUME NEW n, Fits(n)
    PROVE  Bits(n) \in Nat /\ Bits(n) > 0 /\ 2^(Bits(n) - 1) <= n /\ n < 2^Bits(n)
<1> DEFINE T == {k \in Nat : n < 2^k}
           top == 2 * Double + 1
<1>1. top \in Nat /\ n \in Nat /\ n > 0 /\ n < 2^top
  BY ConversionAssumption DEF Fits
<1> HIDE DEF top
<1>2. PICK k \in T : \A j \in T : k <= j
  BY <1>1, Smallest
<1>3. k # 0
  <2> SUFFICES ASSUME k = 0 PROVE FALSE
    OBVIOUS
  <2>1. n < 2^0
    BY <1>2
  <2>2. 2^0 = 1
    OBVIOUS
  <2> QED
    BY <1>1, <2>1, <2>2
<1>4. k <= top
  BY <1>1, <1>2
<1>5. k - 1 \in Nat /\ k - 1 \notin T
  BY <1>2, <1>3
<1>6. 2^(k - 1) \in Nat /\ 2^(k - 1) <= n
  BY <1>1, <1>5, PowerOfTwo
<1>7. k \in 1..top /\ 2^(k - 1) <= n /\ n < 2^k
  BY <1>1, <1>2, <1>3, <1>4, <1>6
<1>8. /\ Bits(n) \in 1..top
      /\ 2^(Bits(n) - 1) <= n /\ n < 2^Bits(n)
  BY <1>7 DEF Bits, top
<1> QED
  BY <1>1, <1>8

(* Scaling numerator or denominator, whichever keeps both natural, is as   *)
(* good as multiplying both by a power. *)
Scaled(n, d, i, j) ==
    \E h \in Nat \ {0} : Up(n, -i) * h = n * 2^j /\ Up(d, i) * h = d * 2^(j + i)

LEMMA UpFacts ==
    ASSUME NEW n \in Nat \ {0}, NEW d \in Nat \ {0}, NEW i \in Int,
           NEW j \in Nat, j + i \in Nat
    PROVE  /\ Up(n, -i) \in Nat \ {0} /\ Up(d, i) \in Nat \ {0}
           /\ Scaled(n, d, i, j)
<1>1. CASE i > 0
  <2>1. Up(n, -i) = n /\ Up(d, i) = d * 2^i
    BY <1>1 DEF Up
  <2>2. 2^(j + i) = 2^j * 2^i
    BY <1>1, PowerAdds
  <2>3. 2^i \in Nat \ {0} /\ 2^j \in Nat \ {0}
    BY <1>1, PowerOfTwo
  <2> DEFINE u == 2^i
             v == 2^j
  <2> HIDE DEF u, v
  <2>4. u \in Nat \ {0} /\ v \in Nat \ {0} => (d * u) * v = d * (v * u) /\ d * u \in Nat \ {0}
    OBVIOUS
  <2> QED
    BY <2>1, <2>2, <2>3, <2>4 DEF u, v, Scaled
<1>2. CASE ~ (i > 0)
  <2>1. -i \in Nat /\ j = (j + i) + (-i)
    BY <1>2
  <2>2. Up(n, -i) = n * 2^(-i) /\ Up(d, i) = d
    <3>1. CASE i = 0
      BY <3>1 DEF Up
    <3>2. CASE i # 0
      BY <1>2, <3>2 DEF Up
    <3> QED
      BY <3>1, <3>2
  <2>3. 2^j = 2^(j + i) * 2^(-i)
    BY <2>1, PowerAdds
  <2>4. 2^(-i) \in Nat \ {0} /\ 2^(j + i) \in Nat \ {0}
    BY <2>1, PowerOfTwo
  <2> DEFINE u == 2^(-i)
             v == 2^(j + i)
  <2> HIDE DEF u, v
  <2>5. u \in Nat \ {0} /\ v \in Nat \ {0} => (n * u) * v = n * (v * u) /\ n * u \in Nat \ {0}
    OBVIOUS
  <2> QED
    BY <2>2, <2>3, <2>4, <2>5 DEF u, v, Scaled
<1> QED
  BY <1>1, <1>2

(* The exponent that Float chooses, and what it asks of one. *)
Normal(n, d, p, i) ==
    2^(p - 1) * Up(d, i) <= Up(n, -i) /\ Up(n, -i) < 2^p * Up(d, i)

Exponent(n, d, p) ==
    CHOOSE i \in {Bits(n) - Bits(d) - p, Bits(n) - Bits(d) - p + 1} : Normal(n, d, p, i)

NormalTimes(n, d, p, i, j) ==
    /\ 2^(p - 1) * (d * 2^(j + i)) <= n * 2^j
    /\ n * 2^j < 2^p * (d * 2^(j + i))

LEMMA NormalScaled ==
    ASSUME NEW n \in Nat \ {0}, NEW d \in Nat \ {0}, NEW p \in Nat \ {0},
           NEW i \in Int, NEW j \in Nat, j + i \in Nat, NormalTimes(n, d, p, i, j)
    PROVE  Normal(n, d, p, i)
<1> DEFINE u == Up(n, -i)
           v == Up(d, i)
           a == n * 2^j
           b == d * 2^(j + i)
           l == 2^(p - 1)
           q == 2^p
<1>1. u \in Nat /\ v \in Nat /\ Scaled(n, d, i, j)
  BY UpFacts
<1>2. l \in Nat /\ q \in Nat
  BY PowerOfTwo
<1>3. l * b <= a /\ a < q * b
  BY DEF NormalTimes
<1> HIDE DEF u, v, a, b, l, q
<1>4. PICK h \in Nat \ {0} : u * h = a /\ v * h = b
  BY <1>1 DEF u, v, a, b, Scaled
<1>5. l * b = (l * v) * h /\ q * b = (q * v) * h
  BY <1>1, <1>2, <1>4
<1>6. l * v \in Nat /\ q * v \in Nat
  BY <1>1, <1>2
<1>7. (l * v) * h <= u * h /\ u * h < (q * v) * h
  BY <1>3, <1>4, <1>5
<1>8. \A x, y \in Nat : (x * h <= y * h => x <= y) /\ (x * h < y * h => x < y)
  OBVIOUS
<1>9. l * v <= u /\ u < q * v
  BY <1>1, <1>6, <1>7, <1>8
<1> QED
  BY <1>9 DEF Normal, u, v, l, q

LEMMA ExponentFacts ==
    ASSUME NEW n, Fits(n), NEW d, Fits(d), NEW p \in Nat \ {0}
    PROVE  Exponent(n, d, p) \in Int /\ Normal(n, d, p, Exponent(n, d, p))
<1> DEFINE b == Bits(n)
           c == Bits(d)
           i == b - c - p
           j == c + p + 1
           x == 2^(b - 1)
           y == 2^(c - 1)
           h == 2^(p - 1)
<1>1. /\ n \in Nat \ {0} /\ b \in Nat \ {0} /\ x <= n /\ n < 2^b
      /\ d \in Nat \ {0} /\ c \in Nat \ {0} /\ y <= d /\ d < 2^c
  BY BitsFacts DEF Fits
<1> HIDE DEF b, c
<1>2. /\ b - 1 \in Nat /\ (b - 1) + 1 = b /\ c - 1 \in Nat /\ (c - 1) + 1 = c
      /\ p - 1 \in Nat /\ (p - 1) + 1 = p
  BY <1>1
<1>3. 2^b = 2 * x /\ 2^c = 2 * y /\ 2^p = 2 * h
  BY <1>2, PowerDoubles
<1>4. /\ x \in Nat /\ x > 0 /\ y \in Nat /\ y > 0 /\ h \in Nat /\ h > 0
  BY <1>2, PowerOfTwo
<1>5. /\ i \in Int /\ j \in Nat /\ j + i = b + 1 /\ j + (i + 1) = (b + 1) + 1
      /\ j + i \in Nat /\ j + (i + 1) \in Nat
  BY <1>1
<1>6. 2^j = 8 * (y * h)
  <2>1. j = (c + p) + 1 /\ c + p \in Nat
    BY <1>1
  <2>2. 2^j = 2 * 2^(c + p) /\ 2^(c + p) = 2^c * 2^p
    BY <1>1, <2>1, PowerDoubles, PowerAdds
  <2> QED
    BY <1>3, <1>4, <2>2
<1>7. 2^(j + i) = 4 * x /\ 2^(j + (i + 1)) = 8 * x
  <2>1. 2^(b + 1) = 2 * 2^b /\ 2^((b + 1) + 1) = 2 * 2^(b + 1)
    BY <1>1, PowerDoubles
  <2> QED
    BY <1>3, <1>4, <1>5, <2>1
<1> HIDE DEF x, y, h, i, j
<1>8. h * (d * (4 * x)) <= n * (8 * (y * h))
  <2>1. d * x <= (2 * y) * n
    BY <1>1, <1>3, <1>4
  <2>2. (d * x) * (4 * h) <= ((2 * y) * n) * (4 * h)
    BY <1>1, <1>4, <2>1
  <2> QED
    BY <1>1, <1>4, <2>2
<1>9. n * (8 * (y * h)) < (2 * h) * (d * (8 * x))
  <2>1. n * y < (2 * x) * d
    BY <1>1, <1>3, <1>4
  <2>2. (n * y) * (8 * h) < ((2 * x) * d) * (8 * h)
    BY <1>1, <1>4, <2>1
  <2> QED
    BY <1>1, <1>4, <2>2
<1>10. CASE n * (8 * (y * h)) < (2 * h) * (d * (4 * x))
  <2>1. NormalTimes(n, d, p, i, j)
    BY <1>3, <1>6, <1>7, <1>8, <1>10 DEF h, NormalTimes
  <2>2. Normal(n, d, p, i)
    BY <1>1, <1>5, <2>1, NormalScaled
  <2> QED
    BY <1>5, <2>2 DEF Exponent, i, b, c
<1>11. CASE ~ (n * (8 * (y * h)) < (2 * h) * (d * (4 * x)))
  <2>1. h * (d * (8 * x)) <= n * (8 * (y * h))
    BY <1>1, <1>4, <1>11
  <2> DEFINE k == i + 1
  <2>2. k \in Int /\ j + k \in Nat /\ 2^(j + k) = 8 * x
    BY <1>5, <1>7
  <2> HIDE DEF k
  <2>3. NormalTimes(n, d, p, k, j)
    BY <1>3, <1>6, <1>9, <2>1, <2>2 DEF h, NormalTimes
  <2>4. Normal(n, d, p, k)
    BY <1>1, <1>5, <2>2, <2>3, NormalScaled
  <2> QED
    BY <1>5, <2>2, <2>4 DEF Exponent, i, b, c, k
<1> QED
  BY <1>10, <1>11

LEMMA NearestFacts ==
    ASSUME NEW n \in Nat, NEW d \in Nat \ {0}
    PROVE  /\ Nearest(n, d) \in Nat
           /\ 2 * (Nearest(n, d) * d) <= 2 * n + d /\ 2 * n <= 2 * (Nearest(n, d) * d) + d
<1> DEFINE q == n \div d
           r == n % d
<1>1. q \in Nat /\ r \in Nat /\ r < d /\ n = q * d + r
  OBVIOUS
<1>2. Nearest(n, d) = IF 2 * r < d \/ (2 * r = d /\ q % 2 = 0) THEN q ELSE q + 1
  BY DEF Nearest
<1> HIDE DEF q, r
<1>3. CASE 2 * r < d \/ (2 * r = d /\ q % 2 = 0)
  BY <1>1, <1>2, <1>3
<1>4. CASE ~ (2 * r < d \/ (2 * r = d /\ q % 2 = 0))
  <2>1. Nearest(n, d) = q + 1 /\ 2 * r >= d
    BY <1>1, <1>2, <1>4
  <2>2. (q + 1) * d = q * d + d /\ q * d \in Nat
    BY <1>1
  <2> QED
    BY <1>1, <2>1, <2>2
<1> QED
  BY <1>3, <1>4

(* Rounding to nearest errs by one part in 2^p + 1 at most, where the      *)
(* result has p bits and h is 2^(p - 1). *)
LEMMA RoundingError ==
    ASSUME NEW n \in Nat, NEW d \in Nat \ {0}, NEW q \in Nat, NEW h \in Nat \ {0},
           h * d <= n, n < (2 * h) * d,
           2 * (q * d) <= 2 * n + d, 2 * n <= 2 * (q * d) + d
    PROVE  /\ h <= q /\ q <= 2 * h
           /\ (q * d) * (2 * h + 1) <= n * (2 * h + 2)
           /\ n * (2 * h) <= (q * d) * (2 * h + 1)
<1>1. h <= q
  <2> SUFFICES ASSUME q <= h - 1 PROVE FALSE
    OBVIOUS
  <2>1. q * d <= (h - 1) * d /\ (h - 1) * d = h * d - d
    OBVIOUS
  <2> QED
    BY <2>1
<1>2. q <= 2 * h
  <2> SUFFICES ASSUME q >= 2 * h + 1 PROVE FALSE
    OBVIOUS
  <2>1. q * d >= (2 * h + 1) * d /\ (2 * h + 1) * d = (2 * h) * d + d
    OBVIOUS
  <2> QED
    BY <2>1
<1> DEFINE x == q * d
           y == h * d
<1>3. x \in Nat /\ y \in Nat /\ y <= x /\ y <= n /\ 2 * x <= 2 * n + d /\ 2 * n <= 2 * x + d
  BY <1>1
<1>4. x > n => x >= y + d
  <2>1. q = h => x = y
    OBVIOUS
  <2>2. q >= h + 1 => x >= (h + 1) * d /\ (h + 1) * d = y + d
    OBVIOUS
  <2> QED
    BY <1>1, <1>3, <2>1, <2>2
<1>5. x * (2 * h + 1) <= n * (2 * h + 2)
  <2>1. CASE x <= n
    BY <1>3, <2>1
  <2>2. CASE x > n
    <3> DEFINE e == x - n
    <3>1. e \in Nat /\ 2 * e <= d /\ x = n + e
      BY <1>3, <2>2
    <3>2. 2 * n >= 2 * y + d
      BY <1>3, <1>4, <2>2
    <3> HIDE DEF e, x
    <3>3. (2 * e) * (2 * h + 1) <= d * (2 * h + 1)
      BY <3>1
    <3>4. d * (2 * h + 1) = 2 * y + d
      OBVIOUS
    <3>5. e * (2 * h + 1) <= n
      BY <3>1, <3>2, <3>3, <3>4
    <3>6. (n + e) * (2 * h + 1) = n * (2 * h + 1) + e * (2 * h + 1)
          /\ n * (2 * h + 2) = n * (2 * h + 1) + n
      BY <3>1
    <3> QED
      BY <3>1, <3>5, <3>6
  <2> QED
    BY <1>3, <2>1, <2>2
<1>6. n * (2 * h) <= x * (2 * h + 1)
  <2>1. CASE n <= x
    BY <1>3, <2>1
  <2>2. CASE n > x
    <3> DEFINE e == n - x
    <3>1. e \in Nat /\ 2 * e <= d /\ n = x + e
      BY <1>3, <2>2
    <3> HIDE DEF e
    <3>2. (2 * e) * h <= d * h /\ d * h = y
      BY <3>1
    <3> HIDE DEF x, y
    <3>3. e * (2 * h) <= x
      BY <1>3, <3>1, <3>2
    <3>4. (x + e) * (2 * h) = x * (2 * h) + e * (2 * h)
          /\ x * (2 * h + 1) = x * (2 * h) + x
      BY <1>3, <3>1
    <3> QED
      BY <1>3, <3>1, <3>3, <3>4
  <2> QED
    BY <1>3, <2>1, <2>2
<1> QED
  BY <1>1, <1>2, <1>5, <1>6

(* A float of p bits, and its value times 2^k. *)
IsFloat(x, p) ==
    /\ x.m \in Nat /\ 2^(p - 1) <= x.m /\ x.m <= 2^p
    /\ x.e \in Int

At(x, k) == x.m * 2^(k + x.e)

(* v is w rounded to p bits. *)
Rounded(v, w, p) ==
    /\ v * (2^p + 1) <= w * (2^p + 2)
    /\ w * 2^p <= v * (2^p + 1)

LEMMA FloatIs ==
    ASSUME NEW n, NEW d, NEW e, NEW p
    PROVE  /\ Float(n, d, e, p).m = Nearest(Up(n, -Exponent(n, d, p)), Up(d, Exponent(n, d, p)))
           /\ Float(n, d, e, p).e = e + Exponent(n, d, p)
  BY DEF Float, Exponent, Normal

LEMMA FloatFacts ==
    ASSUME NEW n, Fits(n), NEW d, Fits(d), NEW e \in Int, NEW p \in Nat \ {0}
    PROVE  /\ IsFloat(Float(n, d, e, p), p)
           /\ \A k \in Nat : k + e \in Nat /\ k + Float(n, d, e, p).e \in Nat =>
                Rounded(At(Float(n, d, e, p), k) * d, n * 2^(k + e), p)
<1> DEFINE f == Float(n, d, e, p)
           i == Exponent(n, d, p)
           u == Up(n, -i)
           v == Up(d, i)
           h == 2^(p - 1)
           m == f.m
<1>1. n \in Nat \ {0} /\ d \in Nat \ {0}
  BY DEF Fits
<1>2. i \in Int /\ Normal(n, d, p, i)
  BY ExponentFacts
<1>3. m = Nearest(u, v) /\ f.e = e + i
  BY FloatIs
<1>4. h \in Nat \ {0} /\ 2^p = 2 * h
  <2>1. p - 1 \in Nat /\ (p - 1) + 1 = p
    OBVIOUS
  <2> QED
    BY <2>1, PowerOfTwo, PowerDoubles
<1>5. h * v <= u /\ u < (2 * h) * v
  BY <1>2, <1>4 DEF Normal
<1>6. u \in Nat \ {0} /\ v \in Nat \ {0}
  <2>1. PICK j \in Nat : j + i \in Nat
    <3>1. CASE i >= 0
      BY <1>2, <3>1
    <3>2. CASE i < 0
      <4>1. -i \in Nat /\ (-i) + i \in Nat
        BY <1>2, <3>2
      <4> QED
        BY <4>1
    <3> QED
      BY <1>2, <3>1, <3>2
  <2> QED
    BY <1>1, <1>2, <2>1, UpFacts
<1> HIDE DEF f, i, u, v, h, m
<1>7. m \in Nat /\ 2 * (m * v) <= 2 * u + v /\ 2 * u <= 2 * (m * v) + v
  BY <1>3, <1>6, NearestFacts
<1>8. /\ h <= m /\ m <= 2 * h
      /\ (m * v) * (2 * h + 1) <= u * (2 * h + 2)
      /\ u * (2 * h) <= (m * v) * (2 * h + 1)
  BY <1>4, <1>5, <1>6, <1>7, RoundingError
<1>9. IsFloat(f, p)
  BY <1>2, <1>3, <1>4, <1>7, <1>8 DEF IsFloat, h, m
<1>10. ASSUME NEW k \in Nat, k + e \in Nat, k + f.e \in Nat
       PROVE  Rounded(At(f, k) * d, n * 2^(k + e), p)
  <2> DEFINE j == k + e
             z == 2^(k + f.e)
             w == n * 2^j
             y == d * z
  <2>1. j \in Nat /\ j + i \in Nat /\ k + f.e = j + i
    BY <1>2, <1>3, <1>10
  <2>2. Scaled(n, d, i, j)
    BY <1>1, <1>2, <2>1, UpFacts
  <2>3. PICK g \in Nat \ {0} : u * g = w /\ v * g = y
    BY <2>1, <2>2 DEF Scaled, u, v
  <2>4. z \in Nat
    BY <1>10, PowerOfTwo
  <2>5. At(f, k) * d = (m * v) * g
    <3>1. At(f, k) = m * z
      BY DEF At, m
    <3> HIDE DEF z, w
    <3>2. (m * z) * d = m * (d * z) /\ m * (v * g) = (m * v) * g
      BY <1>1, <1>6, <1>7, <2>4
    <3> QED
      BY <2>3, <3>1, <3>2
  <2> HIDE DEF j, z, w, y
  <2>6. m * v \in Nat
    BY <1>6, <1>7
  <2> DEFINE t == m * v
  <2> HIDE DEF t
  <2>7. \A a, b \in Nat : a <= b => a * g <= b * g
    OBVIOUS
  <2>8. /\ (t * (2 * h + 1)) * g <= (u * (2 * h + 2)) * g
        /\ (u * (2 * h)) * g <= (t * (2 * h + 1)) * g
    <3>1. /\ t * (2 * h + 1) \in Nat /\ u * (2 * h + 2) \in Nat /\ u * (2 * h) \in Nat
          /\ t * (2 * h + 1) <= u * (2 * h + 2)
          /\ u * (2 * h) <= t * (2 * h + 1)
      BY <1>4, <1>6, <1>8, <2>6 DEF t
    <3> QED
      BY <2>7, <3>1
  <2>9. /\ (t * (2 * h + 1)) * g = (t * g) * (2 * h + 1)
        /\ (u * (2 * h + 2)) * g = w * (2 * h + 2)
        /\ (u * (2 * h)) * g = w * (2 * h)
    BY <1>4, <1>6, <2>3, <2>6 DEF t
  <2>10. At(f, k) * d = t * g
    BY <2>5 DEF t
  <2> QED
    BY <1>4, <2>8, <2>9, <2>10 DEF Rounded, w, j
<1> QED
  BY <1>9, <1>10 DEF f

(***************************************************************************)
(* Relative errors, in eighths of 2^-Double.                               *)
(***************************************************************************)
Unit == 8 * 2^Double

Near(a, b, x) == a * Unit <= b * (Unit + x) /\ b * Unit <= a * (Unit + x)

LEMMA UnitType == Unit \in Nat /\ Unit > 0
<1>1. 2^Double \in Nat /\ 2^Double > 0
  BY ConversionAssumption, PowerOfTwo
<1> QED
  BY <1>1 DEF Unit

LEMMA NearTimes ==
    ASSUME NEW a \in Nat, NEW b \in Nat, NEW x \in Nat, NEW f \in Nat, Near(a, b, x)
    PROVE  Near(a * f, b * f, x)
<1> DEFINE u == Unit
<1>1. u \in Nat
  BY UnitType
<1>2. a * u <= b * (u + x) /\ b * u <= a * (u + x)
  BY DEF Near
<1> HIDE DEF u
<1>3. \A i, j \in Nat : i <= j => i * f <= j * f
  OBVIOUS
<1>4. (a * u) * f <= (b * (u + x)) * f /\ (b * u) * f <= (a * (u + x)) * f
  BY <1>1, <1>2, <1>3
<1>5. /\ (a * u) * f = (a * f) * u /\ (b * (u + x)) * f = (b * f) * (u + x)
      /\ (b * u) * f = (b * f) * u /\ (a * (u + x)) * f = (a * f) * (u + x)
  BY <1>1
<1> QED
  BY <1>4, <1>5 DEF Near, u

LEMMA NearCancel ==
    ASSUME NEW a \in Nat, NEW b \in Nat, NEW x \in Nat, NEW f \in Nat \ {0},
           Near(a * f, b * f, x)
    PROVE  Near(a, b, x)
<1> DEFINE u == Unit
<1>1. u \in Nat
  BY UnitType
<1>2. (a * f) * u <= (b * f) * (u + x) /\ (b * f) * u <= (a * f) * (u + x)
  BY DEF Near
<1> HIDE DEF u
<1>3. \A i, j \in Nat : i * f <= j * f => i <= j
  OBVIOUS
<1>4. /\ (a * u) * f = (a * f) * u /\ (b * (u + x)) * f = (b * f) * (u + x)
      /\ (b * u) * f = (b * f) * u /\ (a * (u + x)) * f = (a * f) * (u + x)
  BY <1>1
<1>5. a * u \in Nat /\ b * (u + x) \in Nat /\ b * u \in Nat /\ a * (u + x) \in Nat
  BY <1>1
<1>6. a * u <= b * (u + x) /\ b * u <= a * (u + x)
  BY <1>2, <1>3, <1>4, <1>5
<1> QED
  BY <1>6 DEF Near, u

(* Errors add up, but for the product of two errors. *)
LEMMA NearChain ==
    ASSUME NEW a \in Nat, NEW b \in Nat, NEW c \in Nat,
           NEW x \in Nat, NEW y \in Nat, NEW z \in Nat, x * y <= z * Unit,
           Near(a, b, x), Near(b, c, y)
    PROVE  Near(a, c, x + y + z)
<1> DEFINE u == Unit
<1>1. u \in Nat \ {0} /\ x * y <= z * u
  BY UnitType
<1>2. /\ a * u <= b * (u + x) /\ b * u <= a * (u + x)
      /\ b * u <= c * (u + y) /\ c * u <= b * (u + y)
  BY DEF Near
<1> HIDE DEF u
<1>3. (u + x) * (u + y) <= (u + (x + y + z)) * u
  BY <1>1
<1>4. ASSUME NEW i \in Nat, NEW j \in Nat, NEW k \in Nat, NEW v \in Nat, NEW w \in Nat,
             i * u <= j * (u + v), j * u <= k * (u + w),
             (u + v) * (u + w) <= (u + (x + y + z)) * u
      PROVE  i * u <= k * (u + (x + y + z))
  <2> DEFINE s == u + (x + y + z)
             p == u + v
             q == u + w
  <2>1. p \in Nat /\ q \in Nat /\ s \in Nat /\ p * q <= s * u
    BY <1>1, <1>4
  <2>2. i * u <= j * p /\ j * u <= k * q
    BY <1>4
  <2> HIDE DEF p, q, s
  <2>3. (i * u) * u <= (j * p) * u /\ (j * p) * u = (j * u) * p
    BY <1>1, <2>1, <2>2
  <2>4. (j * u) * p <= (k * q) * p /\ (k * q) * p = k * (p * q)
    BY <1>1, <2>1, <2>2
  <2>5. k * (p * q) <= k * (s * u) /\ k * (s * u) = (k * s) * u
    BY <1>1, <2>1
  <2>6. (i * u) * u <= (k * s) * u
    BY <1>1, <2>1, <2>3, <2>4, <2>5
  <2>7. \A m, n \in Nat : m * u <= n * u => m <= n
    BY <1>1
  <2>8. i * u \in Nat /\ k * s \in Nat
    BY <1>1, <2>1
  <2>9. i * u <= k * s
    BY <2>6, <2>7, <2>8
  <2> QED
    BY <2>9 DEF s
<1>5. a * u <= c * (u + (x + y + z))
  BY <1>2, <1>3, <1>4
<1>6. c * u <= a * (u + (x + y + z))
  <2>1. (u + y) * (u + x) <= (u + (x + y + z)) * u
    BY <1>1, <1>3
  <2> QED
    BY <1>2, <2>1, <1>4
<1> QED
  BY <1>5, <1>6 DEF Near, u

(* One value, and the quotient of two, rounded to p bits. *)
LEMMA RoundedNear ==
    ASSUME NEW v \in Nat, NEW w \in Nat, NEW p \in Nat, Rounded(v, w, p),
           NEW k \in Nat \ {0}, 2^Double = 2^p * k
    PROVE  Near(v, w, 8 * k)
<1> DEFINE a == 2^p
<1>2. a \in Nat \ {0} /\ 2^Double = a * k
  BY PowerOfTwo
<1>3. v * (a + 1) <= w * (a + 2) /\ w * a <= v * (a + 1)
  BY DEF Rounded
<1> HIDE DEF a
<1>4. v * a <= w * (a + 1)
  <2>1. (v * a) * (a + 1) <= (w * (a + 2)) * a
    <3>1. (v * (a + 1)) * a <= (w * (a + 2)) * a
      BY <1>2, <1>3
    <3> QED
      BY <1>2, <3>1
  <2>2. (w * (a + 2)) * a <= (w * (a + 1)) * (a + 1)
    BY <1>2
  <2>3. (v * a) * (a + 1) <= (w * (a + 1)) * (a + 1)
    BY <1>2, <2>1, <2>2
  <2> QED
    BY <1>2, <2>3
<1>5. (v * a) * (8 * k) <= (w * (a + 1)) * (8 * k) /\ (w * a) * (8 * k) <= (v * (a + 1)) * (8 * k)
  BY <1>2, <1>3, <1>4
<1>6. Unit = a * (8 * k) /\ Unit + 8 * k = (a + 1) * (8 * k)
  BY <1>2 DEF Unit
<1> QED
  BY <1>2, <1>5, <1>6 DEF Near

LEMMA RoundedQuotients ==
    ASSUME NEW v \in Nat, NEW w \in Nat, NEW s \in Nat, NEW t \in Nat,
           NEW p \in Nat, Rounded(v, w, p), Rounded(s, t, p),
           NEW k \in Nat \ {0}, 2^Double = 2^p * k
    PROVE  Near(v * t, w * s, 16 * k)
<1> DEFINE a == 2^p
<1>2. a \in Nat \ {0} /\ 2^Double = a * k
  BY PowerOfTwo
<1>3. /\ v * (a + 1) <= w * (a + 2) /\ w * a <= v * (a + 1)
      /\ s * (a + 1) <= t * (a + 2) /\ t * a <= s * (a + 1)
  BY DEF Rounded
<1> HIDE DEF a
<1>4. ASSUME NEW i \in Nat, NEW j \in Nat, NEW m \in Nat, NEW n \in Nat,
             i * (a + 1) <= j * (a + 2), n * a <= m * (a + 1)
      PROVE  (i * n) * a <= (j * m) * (a + 2)
  <2>1. (i * (a + 1)) * (n * a) <= (j * (a + 2)) * (n * a)
    BY <1>2, <1>4
  <2>2. (j * (a + 2)) * (n * a) <= (j * (a + 2)) * (m * (a + 1))
    BY <1>2, <1>4
  <2>3. ((i * n) * a) * (a + 1) <= ((j * m) * (a + 2)) * (a + 1)
    BY <1>2, <2>1, <2>2
  <2>4. \A x, y \in Nat : x * (a + 1) <= y * (a + 1) => x <= y
    BY <1>2
  <2>5. (i * n) * a \in Nat /\ (j * m) * (a + 2) \in Nat
    BY <1>2
  <2> QED
    BY <2>3, <2>4, <2>5
<1>5. (v * t) * a <= (w * s) * (a + 2)
  BY <1>3, <1>4
<1>6. (w * s) * a <= (v * t) * (a + 2)
  <2>1. (s * w) * a <= (t * v) * (a + 2)
    BY <1>3, <1>4
  <2> QED
    BY <2>1
<1>7. /\ ((v * t) * a) * (8 * k) <= ((w * s) * (a + 2)) * (8 * k)
      /\ ((w * s) * a) * (8 * k) <= ((v * t) * (a + 2)) * (8 * k)
  BY <1>2, <1>5, <1>6
<1>8. Unit = a * (8 * k) /\ Unit + 16 * k = (a + 2) * (8 * k)
  BY <1>2 DEF Unit
<1> QED
  BY <1>2, <1>7, <1>8 DEF Near

LEMMA NearWeakens ==
    ASSUME NEW a \in Nat, NEW b \in Nat, NEW x \in Nat, NEW y \in Nat, x <= y, Near(a, b, x)
    PROVE  Near(a, b, y)
<1> DEFINE u == Unit
<1>1. u \in Nat
  BY UnitType
<1>2. a * u <= b * (u + x) /\ b * u <= a * (u + x)
  BY DEF Near
<1> HIDE DEF u
<1>3. a * (u + x) <= a * (u + y) /\ b * (u + x) <= b * (u + y)
  BY <1>1
<1>4. a * u <= b * (u + y) /\ b * u <= a * (u + y)
  BY <1>1, <1>2, <1>3
<1> QED
  BY <1>4 DEF Near, u

LEMMA RoundedDouble ==
    ASSUME NEW v \in Nat, NEW w \in Nat, Rounded(v, w, Double)
    PROVE  Near(v, w, 8)
<1>1. Double \in Nat /\ 2^Double \in Nat
  BY ConversionAssumption, PowerOfTwo
<1>2. 2^Double = 2^Double * 1
  BY <1>1
<1>3. Near(v, w, 8 * 1)
  BY <1>1, <1>2, RoundedNear
<1>4. 8 * 1 = 8
  OBVIOUS
<1> QED
  BY <1>3, <1>4

(***************************************************************************)
(* Floats as values.                                                       *)
(***************************************************************************)
IsValue(x) == x.m \in Nat /\ x.m > 0 /\ x.m <= 2^Double /\ x.e \in Int

LEMMA FloatIsValue ==
    ASSUME NEW x, NEW p \in Nat \ {0}, p <= Double, IsFloat(x, p)
    PROVE  IsValue(x)
<1>1. 2^(p - 1) > 0 /\ 2^(p - 1) \in Nat /\ 2^p \in Nat /\ 2^Double \in Nat /\ Double \in Nat
  BY PowerOfTwo, ConversionAssumption
<1>2. 2^p <= 2^Double
  BY <1>1, PowerGrows
<1> QED
  BY <1>1, <1>2 DEF IsFloat, IsValue

(* The powers of two of a double's bits. *)
LEMMA DoubleFacts ==
    /\ Double \in Nat \ {0} /\ 2^Double \in Nat \ {0}
    /\ 2^(2 * Double + 1) = 2 * (2^Double * 2^Double)
<1>1. Double \in Nat \ {0} /\ 2 * Double \in Nat /\ 2 * Double = Double + Double
  BY ConversionAssumption
<1>2. 2^Double \in Nat \ {0}
  BY <1>1, PowerOfTwo
<1>3. 2^(2 * Double + 1) = 2 * 2^(2 * Double) /\ 2^(Double + Double) = 2^Double * 2^Double
  BY <1>1, PowerDoubles, PowerAdds
<1> QED
  BY <1>1, <1>2, <1>3

LEMMA ValuesFit ==
    ASSUME NEW x, IsValue(x), NEW y, IsValue(y)
    PROVE  Fits(1) /\ Fits(x.m) /\ Fits(x.m * y.m)
<1> DEFINE q == 2^Double
           top == 2^(2 * Double + 1)
           a == x.m
           b == y.m
<1>1. q \in Nat \ {0} /\ top = 2 * (q * q)
  BY DoubleFacts
<1>2. a \in Nat \ {0} /\ a <= q /\ b \in Nat \ {0} /\ b <= q
  BY DEF IsValue
<1> HIDE DEF q, top, a, b
<1>3. q <= q * q /\ a * b <= q * q /\ a * b \in Nat \ {0}
  BY <1>1, <1>2
<1> QED
  BY <1>1, <1>2, <1>3 DEF Fits, top, a, b

(* The value of a float is positive where it is natural. *)
LEMMA AtType ==
    ASSUME NEW x, IsValue(x), NEW k \in Nat, k + x.e \in Nat
    PROVE  At(x, k) \in Nat \ {0}
<1> DEFINE a == x.m
           z == 2^(k + x.e)
<1>1. a \in Nat \ {0} /\ z \in Nat \ {0} /\ At(x, k) = a * z
  BY PowerOfTwo DEF IsValue, At
<1> HIDE DEF a, z
<1>2. a * z \in Nat \ {0}
  BY <1>1
<1> QED
  BY <1>1, <1>2

(* A quotient, scaled. *)
LEMMA QuotientFacts ==
    ASSUME NEW x, IsValue(x), NEW y, IsValue(y)
    PROVE  /\ IsValue(Quotient(x, y))
           /\ \A k \in Nat : k + x.e \in Nat /\ k + y.e \in Nat /\ k + (x.e - y.e) \in Nat
                             /\ k + Quotient(x, y).e \in Nat =>
                Near(At(Quotient(x, y), k) * At(y, k), At(x, k) * 2^k, 8)
<1> DEFINE e == x.e - y.e
           r == Quotient(x, y)
<1>1. x.e \in Int /\ y.e \in Int /\ e \in Int
  BY DEF IsValue
<1>2. r = Float(x.m, y.m, e, Double)
  BY DEF Quotient
<1>3. Fits(x.m) /\ Fits(y.m)
  BY ValuesFit
<1> HIDE DEF e, r
<1>4. /\ IsFloat(r, Double)
      /\ \A k \in Nat : k + e \in Nat /\ k + r.e \in Nat =>
           Rounded(At(r, k) * y.m, x.m * 2^(k + e), Double)
  BY <1>1, <1>2, <1>3, DoubleFacts, FloatFacts
<1>5. IsValue(r)
  BY <1>4, DoubleFacts, FloatIsValue
<1>6. ASSUME NEW k \in Nat, k + x.e \in Nat, k + y.e \in Nat, k + e \in Nat, k + r.e \in Nat
      PROVE  Near(At(r, k) * At(y, k), At(x, k) * 2^k, 8)
  <2> DEFINE v == At(r, k)
             m == y.m
             n == x.m
             z == 2^(k + e)
             w == 2^(k + y.e)
  <2>1. v \in Nat /\ m \in Nat /\ n \in Nat /\ z \in Nat /\ w \in Nat
    BY <1>5, <1>6, AtType, PowerOfTwo DEF IsValue
  <2>2. Rounded(v * m, n * z, Double)
    BY <1>4, <1>6
  <2>3. z * w = 2^(k + x.e) * 2^k
    <3>1. (k + e) + (k + y.e) = (k + x.e) + k
      BY <1>1 DEF e
    <3>2. 2^((k + e) + (k + y.e)) = z * w /\ 2^((k + x.e) + k) = 2^(k + x.e) * 2^k
      BY <1>6, PowerAdds
    <3> QED
      BY <3>1, <3>2
  <2>4. At(y, k) = m * w /\ At(x, k) = n * 2^(k + x.e)
    BY DEF At
  <2>5. 2^k \in Nat /\ 2^(k + x.e) \in Nat
    BY <1>6, PowerOfTwo
  <2> HIDE DEF v, m, n, z, w
  <2>7. Near(v * m, n * z, 8)
    <3>1. v * m \in Nat /\ n * z \in Nat
      BY <2>1
    <3> QED
      BY <2>2, <3>1, RoundedDouble
  <2>8. Near((v * m) * w, (n * z) * w, 8)
    <3>1. v * m \in Nat /\ n * z \in Nat /\ 8 \in Nat
      BY <2>1
    <3> QED
      BY <2>1, <2>7, <3>1, NearTimes
  <2> DEFINE s == 2^k
             t == 2^(k + x.e)
  <2> HIDE DEF s, t
  <2>9. (v * m) * w = v * (m * w) /\ (n * z) * w = (n * t) * s
    <3>1. z * w = t * s /\ t \in Nat /\ s \in Nat
      BY <2>3, <2>5 DEF s, t
    <3>2. (n * z) * w = n * (z * w) /\ n * (t * s) = (n * t) * s
      BY <2>1, <3>1
    <3> QED
      BY <2>1, <3>1, <3>2
  <2> QED
    BY <2>4, <2>8, <2>9 DEF v, s, t
<1> QED
  BY <1>5, <1>6 DEF e, r

(* A product, scaled. *)
LEMMA ProductFacts ==
    ASSUME NEW x, IsValue(x), NEW y, IsValue(y)
    PROVE  /\ IsValue(Product(x, y))
           /\ \A k \in Nat : k + x.e \in Nat /\ k + y.e \in Nat /\ k + (x.e + y.e) \in Nat
                             /\ k + Product(x, y).e \in Nat =>
                Near(At(Product(x, y), k) * 2^k, At(x, k) * At(y, k), 8)
<1> DEFINE e == x.e + y.e
           r == Product(x, y)
           m == x.m * y.m
<1>1. x.e \in Int /\ y.e \in Int /\ e \in Int /\ x.m \in Nat /\ y.m \in Nat /\ m \in Nat
  BY DEF IsValue
<1>2. r = Float(m, 1, e, Double)
  BY DEF Product
<1>3. Fits(m) /\ Fits(1)
  BY ValuesFit
<1> HIDE DEF e, r, m
<1>4. /\ IsFloat(r, Double)
      /\ \A k \in Nat : k + e \in Nat /\ k + r.e \in Nat =>
           Rounded(At(r, k) * 1, m * 2^(k + e), Double)
  BY <1>1, <1>2, <1>3, DoubleFacts, FloatFacts
<1>5. IsValue(r)
  BY <1>4, DoubleFacts, FloatIsValue
<1>6. ASSUME NEW k \in Nat, k + x.e \in Nat, k + y.e \in Nat, k + e \in Nat, k + r.e \in Nat
      PROVE  Near(At(r, k) * 2^k, At(x, k) * At(y, k), 8)
  <2> DEFINE v == At(r, k)
             z == 2^(k + e)
             s == 2^k
             t == 2^(k + x.e)
             w == 2^(k + y.e)
  <2>1. v \in Nat /\ v * 1 = v /\ z \in Nat /\ w \in Nat /\ s \in Nat /\ t \in Nat
    BY <1>5, <1>6, AtType, PowerOfTwo
  <2>2. Rounded(v, m * z, Double)
    BY <1>4, <1>6, <2>1
  <2>3. z * s = t * w
    <3>1. (k + e) + k = (k + x.e) + (k + y.e)
      BY <1>1 DEF e
    <3>2. 2^((k + e) + k) = z * s /\ 2^((k + x.e) + (k + y.e)) = t * w
      BY <1>6, PowerAdds
    <3> QED
      BY <3>1, <3>2
  <2>4. At(y, k) = y.m * w /\ At(x, k) = x.m * t
    BY DEF At
  <2> HIDE DEF v, z, s, t, w
  <2>5. m * z \in Nat
    BY <1>1, <2>1
  <2>6. Near(v * s, (m * z) * s, 8)
    <3>1. Near(v, m * z, 8)
      BY <2>1, <2>2, <2>5, RoundedDouble
    <3>2. 8 \in Nat
      OBVIOUS
    <3> QED
      BY <2>1, <2>5, <3>1, <3>2, NearTimes
  <2>7. (m * z) * s = At(x, k) * At(y, k)
    <3> DEFINE a == x.m
               b == y.m
    <3>1. a \in Nat /\ b \in Nat /\ m = a * b
      BY <1>1 DEF m
    <3> HIDE DEF a, b
    <3>2. (m * z) * s = m * (z * s) /\ (a * t) * (b * w) = (a * b) * (t * w)
      BY <1>1, <2>1, <3>1
    <3>3. (m * z) * s = (a * t) * (b * w)
      BY <2>3, <3>1, <3>2
    <3> QED
      BY <2>4, <3>3 DEF a, b
  <2> QED
    BY <2>6, <2>7 DEF v, s
<1> QED
  BY <1>5, <1>6 DEF e, r

(* What a float32 keeps of a value. *)
Coarse == 2^(Double - Single)

LEMMA CoarseFacts ==
    /\ Single \in Nat \ {0} /\ Single <= Double
    /\ Coarse \in Nat \ {0} /\ 2^Double = 2^Single * Coarse
<1>1. /\ Single \in Nat \ {0} /\ Single <= Double /\ Double - Single \in Nat
      /\ Single + (Double - Single) = Double
  BY ConversionAssumption
<1>2. 2^(Single + (Double - Single)) = 2^Single * 2^(Double - Single)
  BY <1>1, PowerAdds
<1> QED
  BY <1>1, <1>2, PowerOfTwo DEF Coarse

LEMMA Float32Facts ==
    ASSUME NEW x, IsValue(x)
    PROVE  /\ IsValue(Float32(x))
           /\ \A k \in Nat : k + x.e \in Nat /\ k + Float32(x).e \in Nat =>
                Rounded(At(Float32(x), k), At(x, k), Single)
<1> DEFINE r == Float32(x)
<1>1. x.e \in Int /\ x.m \in Nat
  BY DEF IsValue
<1>2. r = Float(x.m, 1, x.e, Single)
  BY DEF Float32
<1>3. Fits(x.m) /\ Fits(1)
  BY ValuesFit
<1> HIDE DEF r
<1>4. /\ IsFloat(r, Single)
      /\ \A k \in Nat : k + x.e \in Nat /\ k + r.e \in Nat =>
           Rounded(At(r, k) * 1, x.m * 2^(k + x.e), Single)
  BY <1>1, <1>2, <1>3, CoarseFacts, FloatFacts
<1>5. IsValue(r)
  BY <1>4, CoarseFacts, FloatIsValue
<1>6. ASSUME NEW k \in Nat, k + x.e \in Nat, k + r.e \in Nat
      PROVE  Rounded(At(r, k), At(x, k), Single)
  <2>1. At(r, k) \in Nat
    BY <1>5, <1>6, AtType
  <2>2. At(r, k) * 1 = At(r, k)
    BY <2>1
  <2> QED
    BY <1>4, <1>6, <2>2 DEF At
<1> QED
  BY <1>5, <1>6 DEF r

(* A price, and two of them, as float64. *)
LEMMA PriceFacts ==
    ASSUME NEW p \in Prices
    PROVE  /\ p \in Nat \ {0} /\ Decimal \in Nat \ {0}
           /\ IsValue(Price(p))
           /\ \A k \in Nat : k + Price(p).e \in Nat =>
                Rounded(At(Price(p), k) * Decimal, p * 2^k, Double)
<1> DEFINE r == Price(p)
<1>1. /\ p \in Nat \ {0} /\ Decimal \in Nat \ {0}
      /\ Fits(p) /\ Fits(Decimal)
  BY ConversionAssumption, PrecisionAssumption DEF Fits
<1>2. r = Float(p, Decimal, 0, Double)
  BY DEF Price
<1> HIDE DEF r
<1>3. /\ IsFloat(r, Double)
      /\ \A k \in Nat : k + 0 \in Nat /\ k + r.e \in Nat =>
           Rounded(At(r, k) * Decimal, p * 2^(k + 0), Double)
  BY <1>1, <1>2, DoubleFacts, FloatFacts
<1>4. \A k \in Nat : k + 0 = k
  OBVIOUS
<1>5. IsValue(r)
  BY <1>3, DoubleFacts, FloatIsValue
<1> QED
  BY <1>1, <1>3, <1>4, <1>5 DEF r

LEMMA PricesNear ==
    ASSUME NEW p \in Prices, NEW q \in Prices, NEW k \in Nat,
           k + Price(p).e \in Nat, k + Price(q).e \in Nat
    PROVE  Near(At(Price(q), k) * p, At(Price(p), k) * q, 16)
<1> DEFINE x == At(Price(p), k)
           y == At(Price(q), k)
           s == 2^k
           d == Decimal
<1>1. /\ x \in Nat \ {0} /\ y \in Nat \ {0} /\ s \in Nat \ {0} /\ d \in Nat \ {0}
      /\ p \in Nat /\ q \in Nat
  BY PriceFacts, AtType, PowerOfTwo
<1>2. Rounded(y * d, q * s, Double) /\ Rounded(x * d, p * s, Double)
  BY PriceFacts
<1> HIDE DEF x, y, s, d
<1>3. /\ y * d \in Nat /\ q * s \in Nat /\ x * d \in Nat /\ p * s \in Nat
      /\ d * s \in Nat \ {0} /\ y * p \in Nat /\ x * q \in Nat
  BY <1>1
<1>4. Near((y * d) * (p * s), (q * s) * (x * d), 16 * 1)
  <2>1. 1 \in Nat \ {0} /\ 2^Double = 2^Double * 1 /\ Double \in Nat
    BY DoubleFacts
  <2> QED
    BY <1>2, <1>3, <2>1, RoundedQuotients
<1>5. /\ (y * d) * (p * s) = (y * p) * (d * s) /\ (q * s) * (x * d) = (x * q) * (d * s)
      /\ 16 * 1 = 16 /\ 16 \in Nat
  BY <1>1
<1>6. Near((y * p) * (d * s), (x * q) * (d * s), 16)
  BY <1>4, <1>5
<1>7. Near(y * p, x * q, 16)
  BY <1>3, <1>5, <1>6, NearCancel
<1> QED
  BY <1>7 DEF x, y

(***************************************************************************)
(* The rates.                                                              *)
(***************************************************************************)
LEMMA PrecisionFacts ==
    /\ 2^Single \in Nat /\ 2^Single >= 16
    /\ 2^Double \in Nat /\ 2^Double >= 64
    /\ Unit = 8 * 2^Double /\ Unit = 8 * (2^Single * Coarse)
<1>1. Single \in Nat /\ Single >= 4 /\ Double \in Nat /\ Double >= 6
  BY ConversionAssumption, PrecisionAssumption
<1>2. 2^4 <= 2^Single /\ 2^6 <= 2^Double
  BY <1>1, PowerGrows
<1>3. 2^4 = 16 /\ 2^6 = 64
  OBVIOUS
<1> QED
  BY <1>1, <1>2, <1>3, PowerOfTwo, CoarseFacts DEF Unit

(* A natural number from which on adding e yields natural numbers. *)
Above(b, e) == \A k \in Nat : k >= b => k + e \in Nat

LEMMA AboveAll ==
    ASSUME NEW e \in Int
    PROVE  \E b \in Nat : Above(b, e)
<1>1. CASE e >= 0
  <2>1. Above(0, e)
    BY <1>1 DEF Above
  <2> QED
    BY <2>1
<1>2. CASE e < 0
  <2>1. -e \in Nat /\ Above(-e, e)
    BY <1>2 DEF Above
  <2> QED
    BY <2>1
<1> QED
  BY <1>1, <1>2

(* A rate stands for the quotient of two prices. *)
RateError == 16 * Coarse + 28

RateNear(r, p, q) ==
    \E b \in Nat : \A k \in Nat :
        k >= b => k + r.e \in Nat /\ Near(At(r, k) * p, q * 2^k, RateError)

LEMMA ErrorFacts ==
    /\ 8 * (16 * Coarse) <= 1 * Unit
    /\ (16 * Coarse + 9) * 16 <= 3 * Unit
    /\ (8 * Coarse) * 8 <= 1 * Unit
    /\ (8 * Coarse + 9) * 16 <= 3 * Unit
    /\ 8 * 8 <= 1 * Unit
    /\ RateError * 17 <= 4 * Unit
<1> DEFINE p == 2^Single
           c == Coarse
           u == Unit
<1>1. p \in Nat /\ p >= 16 /\ c \in Nat \ {0} /\ u = 8 * (p * c) /\ p * c >= 64
  BY PrecisionFacts, CoarseFacts
<1>2. RateError = 16 * c + 28
  BY DEF RateError
<1> HIDE DEF p, c, u
<1>3. p * c >= 16 * c
  BY <1>1
<1> DEFINE q == p * c
<1>4. q \in Nat
  BY <1>1
<1> HIDE DEF q
<1>5. u = 8 * q /\ q >= 16 * c /\ q >= 64
  BY <1>1, <1>3 DEF q
<1> QED
  BY <1>1, <1>2, <1>4, <1>5 DEF c, u

(* The cache's rate. *)
LEMMA CachedNear ==
    ASSUME NEW p \in Prices, NEW q \in Prices
    PROVE  IsValue(CachedRate(p, q)) /\ RateNear(CachedRate(p, q), p, q)
<1> DEFINE x == Price(p)
           y == Price(q)
           f == Float32(x)
           g == Float32(y)
           r == CachedRate(p, q)
<1>1. IsValue(x) /\ IsValue(y) /\ p \in Nat \ {0} /\ q \in Nat \ {0}
  BY PriceFacts
<1>2. IsValue(f) /\ IsValue(g)
  BY <1>1, Float32Facts
<1>3. r = Quotient(g, f)
  BY DEF CachedRate
<1>4. ASSUME NEW k \in Nat, k + x.e \in Nat, k + y.e \in Nat
      PROVE  Near(At(y, k) * p, At(x, k) * q, 16)
  BY <1>4, PricesNear
<1> HIDE DEF x, y, f, g, r
<1>5. IsValue(r)
  BY <1>2, <1>3, QuotientFacts
<1>6. ASSUME NEW k \in Nat, k + x.e \in Nat, k + y.e \in Nat, k + f.e \in Nat,
             k + g.e \in Nat, k + (g.e - f.e) \in Nat, k + r.e \in Nat
      PROVE  Near(At(r, k) * p, q * 2^k, RateError)
  <2> DEFINE X == At(x, k)
             Y == At(y, k)
             F == At(f, k)
             G == At(g, k)
             R == At(r, k)
             s == 2^k
             c == Coarse
  <2>1. /\ X \in Nat \ {0} /\ Y \in Nat \ {0} /\ F \in Nat \ {0} /\ G \in Nat \ {0}
        /\ R \in Nat \ {0} /\ s \in Nat \ {0} /\ c \in Nat \ {0}
    BY <1>1, <1>2, <1>5, <1>6, AtType, PowerOfTwo, CoarseFacts
  <2>2. Near(R * F, G * s, 8)
    BY <1>2, <1>3, <1>6, QuotientFacts
  <2>3. Near(G * X, Y * F, 16 * c)
    <3>1. Rounded(G, Y, Single) /\ Rounded(F, X, Single)
      BY <1>1, <1>6, Float32Facts DEF f, g
    <3> QED
      BY <2>1, <3>1, CoarseFacts, RoundedQuotients
  <2>4. Near(Y * p, X * q, 16)
    BY <1>4, <1>6
  <2> HIDE DEF X, Y, F, G, R, s, c
  <2>5. /\ X * p \in Nat /\ s * p \in Nat /\ F * s \in Nat /\ R * F \in Nat /\ G * s \in Nat
        /\ G * X \in Nat /\ Y * F \in Nat /\ Y * p \in Nat /\ X * q \in Nat
        /\ 16 * c \in Nat /\ 16 * c + 9 \in Nat /\ 8 \in Nat /\ 16 \in Nat
    BY <1>1, <2>1
  <2>6. Near((R * F) * (X * p), (G * s) * (X * p), 8)
    BY <2>2, <2>5, NearTimes
  <2>7. Near((G * X) * (s * p), (Y * F) * (s * p), 16 * c)
    BY <2>3, <2>5, NearTimes
  <2>8. Near((Y * p) * (F * s), (X * q) * (F * s), 16)
    BY <2>4, <2>5, NearTimes
  <2> DEFINE t == F * X
             a == (R * p) * t
             b == (G * s) * (X * p)
             d == (Y * p) * (F * s)
             e == (q * s) * t
  <2>9. /\ t \in Nat \ {0} /\ R * p \in Nat /\ q * s \in Nat
        /\ a \in Nat /\ b \in Nat /\ d \in Nat /\ e \in Nat
    BY <1>1, <2>1
  <2>10. (R * F) * (X * p) = a /\ (X * q) * (F * s) = e
    BY <1>1, <2>1
  <2>11. (G * X) * (s * p) = b /\ (Y * F) * (s * p) = d
    BY <1>1, <2>1
  <2>12. Near(a, b, 8) /\ Near(b, d, 16 * c) /\ Near(d, e, 16)
    BY <2>6, <2>7, <2>8, <2>10, <2>11
  <2> HIDE DEF a, b, d, e, t
  <2>13. /\ 8 * (16 * c) <= 1 * Unit /\ (16 * c + 9) * 16 <= 3 * Unit
         /\ RateError = 16 * c + 28
    BY ErrorFacts DEF RateError, c
  <2>14. Near(a, d, 8 + 16 * c + 1)
    <3>1. 1 \in Nat
      OBVIOUS
    <3> QED
      BY <2>5, <2>9, <2>12, <2>13, <3>1, NearChain
  <2>15. Near(a, d, 16 * c + 9) /\ (16 * c + 9) + 16 + 3 = RateError
    <3>1. 8 + 16 * c + 1 = 16 * c + 9
      BY <2>1
    <3> QED
      BY <2>1, <2>13, <2>14, <3>1
  <2>16. Near(a, e, (16 * c + 9) + 16 + 3)
    <3>1. 3 \in Nat
      OBVIOUS
    <3> QED
      BY <2>5, <2>9, <2>12, <2>13, <2>15, <3>1, NearChain
  <2>17. RateError \in Nat /\ Near((R * p) * t, (q * s) * t, RateError)
    BY <2>1, <2>13, <2>15, <2>16 DEF a, e
  <2>18. Near(R * p, q * s, RateError)
    BY <2>9, <2>17, NearCancel
  <2> QED
    BY <2>18 DEF R, s
<1>7. PICK b1 \in Nat, b2 \in Nat, b3 \in Nat, b4 \in Nat, b5 \in Nat, b6 \in Nat :
        /\ Above(b1, x.e) /\ Above(b2, y.e) /\ Above(b3, f.e) /\ Above(b4, g.e)
        /\ Above(b5, g.e - f.e) /\ Above(b6, r.e)
  <2>1. /\ x.e \in Int /\ y.e \in Int /\ f.e \in Int /\ g.e \in Int /\ g.e - f.e \in Int
        /\ r.e \in Int
    BY <1>1, <1>2, <1>5 DEF IsValue
  <2> QED
    BY <2>1, AboveAll
<1>8. RateNear(r, p, q)
  <2> DEFINE b == b1 + b2 + b3 + b4 + b5 + b6
  <2>1. ASSUME NEW k \in Nat, k >= b
        PROVE  k + r.e \in Nat /\ Near(At(r, k) * p, q * 2^k, RateError)
    <3>1. k >= b1 /\ k >= b2 /\ k >= b3 /\ k >= b4 /\ k >= b5 /\ k >= b6
      BY <2>1
    <3>2. /\ k + x.e \in Nat /\ k + y.e \in Nat /\ k + f.e \in Nat
          /\ k + g.e \in Nat /\ k + (g.e - f.e) \in Nat /\ k + r.e \in Nat
      BY <1>7, <3>1 DEF Above
    <3> QED
      BY <1>6, <3>2
  <2>2. b \in Nat
    OBVIOUS
  <2> HIDE DEF b
  <2> QED
    BY <2>1, <2>2 DEF RateNear
<1> QED
  BY <1>5, <1>8 DEF r

(* The rate the exchanger computes. *)
LEMMA GetRateNear ==
    ASSUME NEW p \in Prices, NEW q \in Prices
    PROVE  IsValue(GetRate(p, q)) /\ RateNear(GetRate(p, q), p, q)
<1> DEFINE x == Price(p)
           y == Price(q)
           g == Quotient(y, x)
           r == GetRate(p, q)
<1>1. IsValue(x) /\ IsValue(y) /\ p \in Nat \ {0} /\ q \in Nat \ {0}
  BY PriceFacts
<1>2. IsValue(g)
  BY <1>1, QuotientFacts
<1>3. r = Float32(g)
  BY DEF GetRate
<1>4. ASSUME NEW k \in Nat, k + x.e \in Nat, k + y.e \in Nat
      PROVE  Near(At(y, k) * p, At(x, k) * q, 16)
  BY <1>4, PricesNear
<1> HIDE DEF x, y, g, r
<1>5. IsValue(r)
  BY <1>2, <1>3, Float32Facts
<1>6. ASSUME NEW k \in Nat, k + x.e \in Nat, k + y.e \in Nat, k + g.e \in Nat,
             k + (y.e - x.e) \in Nat, k + r.e \in Nat
      PROVE  Near(At(r, k) * p, q * 2^k, RateError)
  <2> DEFINE X == At(x, k)
             Y == At(y, k)
             G == At(g, k)
             R == At(r, k)
             s == 2^k
             c == Coarse
  <2>1. /\ X \in Nat \ {0} /\ Y \in Nat \ {0} /\ G \in Nat \ {0}
        /\ R \in Nat \ {0} /\ s \in Nat \ {0} /\ c \in Nat \ {0}
    BY <1>1, <1>2, <1>5, <1>6, AtType, PowerOfTwo, CoarseFacts
  <2>2. Near(R, G, 8 * c)
    <3>1. Rounded(R, G, Single)
      BY <1>2, <1>3, <1>6, Float32Facts
    <3> QED
      BY <2>1, <3>1, CoarseFacts, RoundedNear
  <2>3. Near(G * X, Y * s, 8)
    BY <1>1, <1>6, QuotientFacts DEF g
  <2>4. Near(Y * p, X * q, 16)
    BY <1>4, <1>6
  <2> HIDE DEF X, Y, G, R, s, c
  <2>5. /\ X * p \in Nat /\ G * X \in Nat /\ Y * s \in Nat /\ Y * p \in Nat /\ X * q \in Nat
        /\ 8 * c \in Nat /\ 8 * c + 9 \in Nat /\ 8 \in Nat /\ 16 \in Nat /\ 1 \in Nat /\ 3 \in Nat
    BY <1>1, <2>1
  <2>6. Near(R * (X * p), G * (X * p), 8 * c)
    BY <2>1, <2>2, <2>5, NearTimes
  <2>7. Near((G * X) * p, (Y * s) * p, 8)
    BY <1>1, <2>3, <2>5, NearTimes
  <2>8. Near((Y * p) * s, (X * q) * s, 16)
    BY <2>1, <2>4, <2>5, NearTimes
  <2> DEFINE a == (R * p) * X
             b == (G * X) * p
             d == (Y * p) * s
             e == (q * s) * X
  <2>9. /\ R * p \in Nat /\ q * s \in Nat
        /\ a \in Nat /\ b \in Nat /\ d \in Nat /\ e \in Nat
    BY <1>1, <2>1
  <2>10. R * (X * p) = a /\ G * (X * p) = b /\ (Y * s) * p = d /\ (X * q) * s = e
    BY <1>1, <2>1
  <2>11. Near(a, b, 8 * c) /\ Near(b, d, 8) /\ Near(d, e, 16)
    BY <2>6, <2>7, <2>8, <2>10
  <2> HIDE DEF a, b, d, e
  <2>12. /\ (8 * c) * 8 <= 1 * Unit /\ (8 * c + 9) * 16 <= 3 * Unit
         /\ RateError = 16 * c + 28
    BY ErrorFacts DEF RateError, c
  <2>13. Near(a, d, 8 * c + 8 + 1)
    BY <2>5, <2>9, <2>11, <2>12, NearChain
  <2>14. Near(a, d, 8 * c + 9)
    <3>1. 8 * c + 8 + 1 = 8 * c + 9
      BY <2>1
    <3> QED
      BY <2>13, <3>1
  <2>15. Near(a, e, (8 * c + 9) + 16 + 3)
    BY <2>5, <2>9, <2>11, <2>12, <2>14, NearChain
  <2>16. /\ (8 * c + 9) + 16 + 3 \in Nat /\ RateError \in Nat
         /\ (8 * c + 9) + 16 + 3 <= RateError
    BY <2>1, <2>12
  <2>17. Near(a, e, RateError)
    BY <2>9, <2>15, <2>16, NearWeakens
  <2>18. Near((R * p) * X, (q * s) * X, RateError)
    BY <2>17 DEF a, e
  <2>19. Near(R * p, q * s, RateError)
    BY <2>1, <2>9, <2>16, <2>18, NearCancel
  <2> QED
    BY <2>19 DEF R, s
<1>7. PICK b1 \in Nat, b2 \in Nat, b3 \in Nat, b4 \in Nat, b5 \in Nat :
        /\ Above(b1, x.e) /\ Above(b2, y.e) /\ Above(b3, g.e)
        /\ Above(b4, y.e - x.e) /\ Above(b5, r.e)
  <2>1. /\ x.e \in Int /\ y.e \in Int /\ g.e \in Int /\ y.e - x.e \in Int /\ r.e \in Int
    BY <1>1, <1>2, <1>5 DEF IsValue
  <2> QED
    BY <2>1, AboveAll
<1>8. RateNear(r, p, q)
  <2> DEFINE b == b1 + b2 + b3 + b4 + b5
  <2>1. ASSUME NEW k \in Nat, k >= b
        PROVE  k + r.e \in Nat /\ Near(At(r, k) * p, q * 2^k, RateError)
    <3>1. k >= b1 /\ k >= b2 /\ k >= b3 /\ k >= b4 /\ k >= b5
      BY <2>1
    <3>2. /\ k + x.e \in Nat /\ k + y.e \in Nat /\ k + g.e \in Nat
          /\ k + (y.e - x.e) \in Nat /\ k + r.e \in Nat
      BY <1>7, <3>1 DEF Above
    <3> QED
      BY <1>6, <3>2
  <2>2. b \in Nat
    OBVIOUS
  <2> HIDE DEF b
  <2> QED
    BY <2>1, <2>2 DEF RateNear
<1> QED
  BY <1>5, <1>8 DEF r

(***************************************************************************)
(* The conversion of an amount.                                            *)
(***************************************************************************)
AsFloat(a) == Float(a, 1, 0, Double)

LEMMA AmountFits ==
    ASSUME NEW a \in 1..MaxInt
    PROVE  a \in Nat \ {0} /\ Fits(a) /\ Fits(1)
<1>1. /\ Width - 1 \in Nat /\ 2 * Double + 1 \in Nat /\ Width - 1 <= 2 * Double + 1
      /\ 0 \in Nat /\ 0 <= 2 * Double + 1
  BY AmountsAssumption, ConversionAssumption, PrecisionAssumption
<1>2. 2^(Width - 1) <= 2^(2 * Double + 1)
  BY <1>1, PowerGrows
<1> DEFINE top == 2^(2 * Double + 1)
           big == MaxInt
<1>3. top \in Nat /\ big \in Nat /\ big + 1 <= top
  BY <1>1, <1>2, PowerOfTwo, WidthFacts
<1> HIDE DEF top, big
<1>4. a \in Nat \ {0} /\ a < top /\ 1 < top
  BY <1>3 DEF big
<1> QED
  BY <1>4 DEF Fits, top

LEMMA AmountNear ==
    ASSUME NEW a \in 1..MaxInt
    PROVE  /\ IsValue(AsFloat(a))
           /\ \A k \in Nat : k + AsFloat(a).e \in Nat => Near(At(AsFloat(a), k), a * 2^k, 8)
<1> DEFINE x == AsFloat(a)
<1>1. a \in Nat \ {0} /\ Fits(a) /\ Fits(1)
  BY AmountFits
<1>2. x = Float(a, 1, 0, Double)
  BY DEF AsFloat
<1> HIDE DEF x
<1>3. /\ IsFloat(x, Double)
      /\ \A k \in Nat : k + 0 \in Nat /\ k + x.e \in Nat =>
           Rounded(At(x, k) * 1, a * 2^(k + 0), Double)
  BY <1>1, <1>2, DoubleFacts, FloatFacts
<1>4. IsValue(x)
  BY <1>3, DoubleFacts, FloatIsValue
<1>5. ASSUME NEW k \in Nat, k + x.e \in Nat
      PROVE  Near(At(x, k), a * 2^k, 8)
  <2>1. At(x, k) \in Nat /\ k + 0 = k /\ 2^k \in Nat
    BY <1>4, <1>5, AtType, PowerOfTwo
  <2>2. At(x, k) * 1 = At(x, k) /\ a * 2^k \in Nat
    BY <1>1, <2>1
  <2>3. Rounded(At(x, k), a * 2^k, Double)
    BY <1>3, <1>5, <2>1, <2>2
  <2> QED
    BY <2>1, <2>2, <2>3, RoundedDouble
<1> QED
  BY <1>4, <1>5 DEF x

(* An amount times a rate, before it is rounded to an integer. *)
LEMMA ProductNear ==
    ASSUME NEW a \in 1..MaxInt, NEW p \in Nat \ {0}, NEW q \in Nat \ {0},
           NEW r, IsValue(r), RateNear(r, p, q)
    PROVE  /\ IsValue(Product(AsFloat(a), r))
           /\ \E k \in Nat :
                /\ k + Product(AsFloat(a), r).e \in Nat
                /\ Near(At(Product(AsFloat(a), r), k) * p, (a * q) * 2^k, 8 * RelativeError)
<1> DEFINE f == AsFloat(a)
           x == Product(f, r)
<1>1. IsValue(f) /\ IsValue(x) /\ a \in Nat \ {0}
  BY AmountNear, ProductFacts, AmountFits
<1>2. PICK b \in Nat : \A k \in Nat :
        k >= b => k + r.e \in Nat /\ Near(At(r, k) * p, q * 2^k, RateError)
  BY DEF RateNear
<1>3. PICK b1 \in Nat, b2 \in Nat, b3 \in Nat :
        Above(b1, f.e) /\ Above(b2, f.e + r.e) /\ Above(b3, x.e)
  <2>1. f.e \in Int /\ r.e \in Int /\ f.e + r.e \in Int /\ x.e \in Int
    BY <1>1 DEF IsValue
  <2> QED
    BY <2>1, AboveAll
<1> DEFINE k == b + b1 + b2 + b3
<1>4. k \in Nat /\ k >= b /\ k >= b1 /\ k >= b2 /\ k >= b3
  OBVIOUS
<1> HIDE DEF k
<1>5. /\ k + f.e \in Nat /\ k + (f.e + r.e) \in Nat /\ k + x.e \in Nat
      /\ k + r.e \in Nat /\ Near(At(r, k) * p, q * 2^k, RateError)
  BY <1>2, <1>3, <1>4 DEF Above
<1> DEFINE X == At(x, k)
           A == At(f, k)
           R == At(r, k)
           s == 2^k
           e == RateError
           c == Coarse
<1>6. X \in Nat /\ A \in Nat /\ R \in Nat /\ s \in Nat \ {0} /\ c \in Nat
  BY <1>1, <1>4, <1>5, AtType, PowerOfTwo, CoarseFacts
<1>7. Near(X * s, A * R, 8)
  BY <1>1, <1>4, <1>5, ProductFacts
<1>8. Near(A, a * s, 8)
  BY <1>4, <1>5, AmountNear
<1>9. Near(R * p, q * s, e)
  BY <1>5
<1>10. /\ e = 16 * c + 28 /\ 8 * RelativeError = 16 * c + 56
       /\ 8 * 8 <= 1 * Unit /\ e * 17 <= 4 * Unit
  BY <1>6, ErrorFacts DEF RateError, RelativeError, Coarse
<1> HIDE DEF f, x, X, A, R, s, e, c
<1>11. /\ X * s \in Nat /\ A * R \in Nat /\ a * s \in Nat /\ R * p \in Nat /\ q * s \in Nat
       /\ e \in Nat /\ 8 \in Nat /\ 1 \in Nat /\ 4 \in Nat /\ 17 \in Nat
  BY <1>1, <1>6, <1>10
<1>12. Near((X * s) * p, (A * R) * p, 8)
  BY <1>7, <1>11, NearTimes
<1>13. Near(A * (R * p), (a * s) * (R * p), 8)
  BY <1>6, <1>8, <1>11, NearTimes
<1>14. Near((R * p) * (a * s), (q * s) * (a * s), e)
  BY <1>9, <1>11, NearTimes
<1> DEFINE u == (X * p) * s
           v == (A * R) * p
           w == (a * s) * (R * p)
           z == ((a * q) * s) * s
<1>15. /\ u \in Nat /\ v \in Nat /\ w \in Nat /\ z \in Nat
       /\ X * p \in Nat /\ (a * q) * s \in Nat
  BY <1>1, <1>6, <1>11
<1>16. /\ (X * s) * p = u /\ A * (R * p) = v
       /\ (R * p) * (a * s) = w /\ (q * s) * (a * s) = z
  BY <1>1, <1>6
<1>17. Near(u, v, 8) /\ Near(v, w, 8) /\ Near(w, z, e)
  BY <1>12, <1>13, <1>14, <1>16
<1> HIDE DEF u, v, w, z
<1>18. Near(u, w, 17)
  <2>1. Near(u, w, 8 + 8 + 1)
    BY <1>10, <1>11, <1>15, <1>17, NearChain
  <2>2. 8 + 8 + 1 = 17
    OBVIOUS
  <2> QED
    BY <2>1, <2>2
<1>19. 17 * e <= 4 * Unit
  BY <1>10, <1>11
<1>20. Near(u, z, 17 + e + 4)
  BY <1>11, <1>15, <1>17, <1>18, <1>19, NearChain
<1>21. 17 + e + 4 \in Nat /\ 8 * RelativeError \in Nat /\ 17 + e + 4 <= 8 * RelativeError
  BY <1>6, <1>10
<1>22. Near((X * p) * s, ((a * q) * s) * s, 8 * RelativeError)
  BY <1>15, <1>20, <1>21, NearWeakens DEF u, z
<1>23. Near(X * p, (a * q) * s, 8 * RelativeError)
  BY <1>6, <1>15, <1>21, <1>22, NearCancel
<1> QED
  BY <1>1, <1>4, <1>5, <1>23 DEF f, x, X, s

(* math.Round errs by a half at most. *)
LEMMA MathRoundFacts ==
    ASSUME NEW x, IsValue(x), NEW k \in Nat, k + x.e \in Nat
    PROVE  /\ MathRound(x) \in Nat
           /\ 2 * (MathRound(x) * 2^k) <= 2 * At(x, k) + 2^k
           /\ 2 * At(x, k) <= 2 * (MathRound(x) * 2^k) + 2^k
<1> DEFINE m == x.m
           e == x.e
           z == 2^(k + e)
           s == 2^k
           c == MathRound(x)
<1>1. m \in Nat /\ e \in Int /\ z \in Nat \ {0} /\ s \in Nat \ {0} /\ At(x, k) = m * z
  BY PowerOfTwo DEF IsValue, At
<1>2. CASE e >= 0
  <2> DEFINE y == 2^e
  <2>1. e \in Nat /\ y \in Nat /\ z = s * y /\ c = m * y
    BY <1>1, <1>2, PowerOfTwo, PowerAdds DEF MathRound
  <2> HIDE DEF m, e, z, s, c, y
  <2>2. c \in Nat /\ c * s = m * z /\ m * z \in Nat
    BY <1>1, <2>1
  <2>3. c \in Nat /\ 2 * (c * s) <= 2 * (m * z) + s /\ 2 * (m * z) <= 2 * (c * s) + s
    BY <1>1, <2>2
  <2> QED
    BY <1>1, <2>3 DEF m, e, z, s, c
<1>3. CASE e < 0
  <2> DEFINE h == 2^(-e - 1)
             d == 2^(-e)
  <2>1. -e - 1 \in Nat /\ -e \in Nat /\ (-e - 1) + 1 = -e /\ (k + e) + (-e) = k
    BY <1>1, <1>3
  <2>2. h \in Nat \ {0} /\ d = 2 * h
    BY <2>1, PowerOfTwo, PowerDoubles
  <2>3. s = z * d
    BY <2>1, PowerAdds
  <2>4. c = (m + h) \div d
    BY <1>1, <1>3 DEF MathRound
  <2> HIDE DEF m, e, z, s, c, h, d
  <2>5. c \in Nat /\ c * d <= m + h /\ m + h < (c + 1) * d
    <3>1. m + h \in Nat /\ d \in Nat \ {0}
      BY <1>1, <2>2
    <3> DEFINE n == m + h
               r == n % d
    <3>2. c = n \div d
      BY <2>4
    <3> HIDE DEF n
    <3>3. c \in Nat /\ r \in Nat /\ r < d /\ n = c * d + r
      BY <3>1, <3>2 DEF n
    <3> HIDE DEF r
    <3>4. (c + 1) * d = c * d + d /\ c * d \in Nat
      BY <3>1, <3>3
    <3>5. c * d <= n /\ n < (c + 1) * d
      BY <3>1, <3>3, <3>4
    <3> QED
      BY <3>3, <3>5 DEF n
  <2>6. (c + 1) * d = c * d + d /\ c * d \in Nat
    BY <2>2, <2>5
  <2>7. 2 * (c * d) <= 2 * m + d /\ 2 * m <= 2 * (c * d) + d
    BY <1>1, <2>2, <2>5, <2>6
  <2> DEFINE g == c * d
  <2>8. g \in Nat /\ c * s = g * z
    BY <1>1, <2>2, <2>3, <2>5
  <2>9. 2 * g <= 2 * m + d /\ 2 * m <= 2 * g + d
    BY <2>7
  <2> HIDE DEF g
  <2>10. (2 * g) * z <= (2 * m + d) * z /\ (2 * m) * z <= (2 * g + d) * z
    BY <1>1, <2>2, <2>8, <2>9
  <2>11. 2 * (g * z) <= 2 * (m * z) + s /\ 2 * (m * z) <= 2 * (g * z) + s
    BY <1>1, <2>2, <2>3, <2>8, <2>10
  <2> QED
    BY <1>1, <2>5, <2>8, <2>11 DEF m, e, z, s, c
<1> QED
  BY <1>1, <1>2, <1>3

(* Both errors together. *)
LEMMA MarginFacts ==
    ASSUME NEW a \in Nat, NEW p \in Nat, NEW q \in Nat, NEW s \in Nat \ {0},
           NEW x \in Nat, NEW c \in Nat,
           Near(x * p, (a * q) * s, 8 * RelativeError),
           2 * (c * s) <= 2 * x + s, 2 * x <= 2 * (c * s) + s
    PROVE  /\ 2 * c * p * 2^Double <=
                2 * a * q * 2^Double + (p * 2^Double + 2 * a * q * RelativeError)
           /\ 2 * c * p * 2^Double >=
                2 * a * q * 2^Double - (p * 2^Double + 2 * a * q * RelativeError)
<1> DEFINE d == 2^Double
           e == RelativeError
           w == a * q
           v == w * s
           y == x * p
<1>1. d \in Nat \ {0} /\ e \in Nat
  <2>1. Coarse \in Nat /\ e = 2 * Coarse + 7
    BY CoarseFacts DEF RelativeError, Coarse
  <2> HIDE DEF e
  <2> QED
    BY <2>1, DoubleFacts
<1>2. y * (8 * d) <= v * (8 * d + 8 * e) /\ v * (8 * d) <= y * (8 * d + 8 * e)
  BY DEF Near, Unit
<1>3. w \in Nat
  OBVIOUS
<1> HIDE DEF d, e, w
<1>4. v \in Nat /\ y \in Nat
  BY <1>3
<1> HIDE DEF v, y
<1>5. y * d <= v * d + v * e /\ v * d <= y * d + y * e
  BY <1>1, <1>2, <1>4
<1>6. v * d <= y * d + v * e
  <2>1. CASE y <= v
    <3>1. y * e <= v * e
      BY <1>1, <1>4, <2>1
    <3> QED
      BY <1>1, <1>4, <1>5, <3>1
  <2>2. CASE y > v
    <3>1. v * d <= y * d /\ v * e \in Nat /\ v * d \in Nat /\ y * d \in Nat
      BY <1>1, <1>4, <2>2
    <3> QED
      BY <3>1
  <2> QED
    BY <1>4, <2>1, <2>2
<1> DEFINE f == p * d
           g == (c * s) * f
<1>7. f \in Nat /\ y * d = x * f
  BY <1>1 DEF y
<1> HIDE DEF f
<1>8. 2 * ((c * s) * f) <= 2 * (x * f) + s * f /\ 2 * (x * f) <= 2 * ((c * s) * f) + s * f
  <2>1. c * s \in Nat
    OBVIOUS
  <2> DEFINE b == c * s
  <2>2. b \in Nat /\ 2 * b <= 2 * x + s /\ 2 * x <= 2 * b + s
    BY <2>1
  <2> HIDE DEF b
  <2>3. (2 * b) * f <= (2 * x + s) * f /\ (2 * x) * f <= (2 * b + s) * f
    BY <1>7, <2>2
  <2>4. 2 * (b * f) <= 2 * (x * f) + s * f /\ 2 * (x * f) <= 2 * (b * f) + s * f
    BY <1>7, <2>2, <2>3
  <2> QED
    BY <2>4 DEF b
<1>9. /\ (c * s) * f = (c * f) * s /\ v * d = (w * d) * s /\ v * e = (w * e) * s
      /\ c * f \in Nat /\ w * d \in Nat /\ w * e \in Nat
  BY <1>1, <1>3, <1>7 DEF v
<1> DEFINE i == c * f
           j == w * d
           k == w * e
<1> HIDE DEF i, j, k
<1>10. i \in Nat /\ j \in Nat /\ k \in Nat
  BY <1>9 DEF i, j, k
<1> DEFINE o == x * f
<1>11. /\ o \in Nat /\ o <= j * s + k * s /\ j * s <= o + k * s
       /\ 2 * (i * s) <= 2 * o + s * f /\ 2 * o <= 2 * (i * s) + s * f
  BY <1>5, <1>6, <1>7, <1>8, <1>9 DEF i, j, k
<1> HIDE DEF o
<1>12. /\ (2 * i) * s <= (2 * j + (f + 2 * k)) * s
       /\ (2 * j) * s <= (2 * i + (f + 2 * k)) * s
  <2> DEFINE is == i * s
             js == j * s
             ks == k * s
             fs == s * f
  <2>1. is \in Nat /\ js \in Nat /\ ks \in Nat /\ fs \in Nat
    BY <1>7, <1>10
  <2>2. /\ o <= js + ks /\ js <= o + ks
        /\ 2 * is <= 2 * o + fs /\ 2 * o <= 2 * is + fs
    BY <1>11
  <2>3. /\ (2 * i) * s = 2 * is /\ (2 * j) * s = 2 * js
        /\ (2 * j + (f + 2 * k)) * s = 2 * js + (fs + 2 * ks)
        /\ (2 * i + (f + 2 * k)) * s = 2 * is + (fs + 2 * ks)
    BY <1>7, <1>10
  <2> HIDE DEF is, js, ks, fs
  <2> QED
    BY <1>11, <2>1, <2>2, <2>3
<1>13. \A m, n \in Nat : m * s <= n * s => m <= n
  OBVIOUS
<1>14. 2 * i <= 2 * j + (f + 2 * k) /\ 2 * j <= 2 * i + (f + 2 * k)
  <2>1. 2 * i \in Nat /\ 2 * j \in Nat /\ 2 * j + (f + 2 * k) \in Nat /\ 2 * i + (f + 2 * k) \in Nat
    BY <1>7, <1>10
  <2> QED
    BY <1>12, <1>13, <2>1
<1>15. /\ 2 * c * p * d = 2 * i /\ 2 * a * q * d = 2 * j
       /\ p * d = f /\ 2 * a * q * e = 2 * k
  BY <1>1, <1>3, <1>7 DEF i, j, k, f, w
<1>16. 2 * i <= 2 * j + (f + 2 * k) /\ 2 * i >= 2 * j - (f + 2 * k)
  BY <1>7, <1>10, <1>14
<1> QED
  BY <1>15, <1>16 DEF d, e

(***************************************************************************)
(* What was done with an amount.                                           *)
(***************************************************************************)
(* The product a conversion rounds, and the integer it rounds it to. *)
RoundedWorth(a, r) == MathRound(Product(AsFloat(a), r))

(* The two bounds of a conversion, of the integer c for a at prices p, q. *)
AtMost(c, a, p, q) ==
    2 * c * p * 2^Double <=
        2 * a * q * 2^Double + (p * 2^Double + 2 * a * q * RelativeError)
AtLeast(c, a, p, q) ==
    2 * c * p * 2^Double >=
        2 * a * q * 2^Double - (p * 2^Double + 2 * a * q * RelativeError)

LEMMA QuoteFacts ==
    ASSUME NEW u \in Quotes
    PROVE  /\ u.from \in Nat \ {0} /\ u.to \in Nat \ {0}
           /\ IsValue(u.rate) /\ RateNear(u.rate, u.from, u.to)
<1>1. Prices \subseteq Nat \ {0}
  BY ConversionAssumption
<1>2. CASE u \in {[from |-> p, to |-> q, rate |-> CachedRate(p, q)] : p, q \in Prices}
  <2>1. PICK p \in Prices, q \in Prices : u = [from |-> p, to |-> q, rate |-> CachedRate(p, q)]
    BY <1>2
  <2>2. u.from = p /\ u.to = q /\ u.rate = CachedRate(p, q)
    BY <2>1
  <2> QED
    BY <1>1, <2>2, CachedNear
<1>3. CASE u \in {[from |-> p, to |-> q, rate |-> GetRate(p, q)] : p, q \in Prices}
  <2>1. PICK p \in Prices, q \in Prices : u = [from |-> p, to |-> q, rate |-> GetRate(p, q)]
    BY <1>3
  <2>2. u.from = p /\ u.to = q /\ u.rate = GetRate(p, q)
    BY <2>1
  <2> QED
    BY <1>1, <2>2, GetRateNear
<1> QED
  BY <1>2, <1>3 DEF Quotes

(* Before it is put into the integer type, every amount's worth is close. *)
LEMMA WorthIsClose ==
    ASSUME NEW u \in Quotes, NEW a \in 1..MaxInt
    PROVE  /\ RoundedWorth(a, u.rate) \in Nat
           /\ AtMost(RoundedWorth(a, u.rate), a, u.from, u.to)
           /\ AtLeast(RoundedWorth(a, u.rate), a, u.from, u.to)
<1> DEFINE p == u.from
           q == u.to
           x == Product(AsFloat(a), u.rate)
           c == MathRound(x)
<1>1. /\ p \in Nat \ {0} /\ q \in Nat \ {0} /\ a \in Nat
      /\ IsValue(u.rate) /\ RateNear(u.rate, p, q)
  BY QuoteFacts, AmountFits
<1>2. c = RoundedWorth(a, u.rate)
  BY DEF RoundedWorth
<1>3. /\ IsValue(x)
      /\ \E k \in Nat :
           k + x.e \in Nat /\ Near(At(x, k) * p, (a * q) * 2^k, 8 * RelativeError)
  BY <1>1, ProductNear
<1> HIDE DEF p, q, x, c
<1>4. PICK k \in Nat :
        k + x.e \in Nat /\ Near(At(x, k) * p, (a * q) * 2^k, 8 * RelativeError)
  BY <1>3
<1>5. At(x, k) \in Nat /\ 2^k \in Nat \ {0}
  BY <1>3, <1>4, AtType, PowerOfTwo
<1>6. /\ c \in Nat
      /\ 2 * (c * 2^k) <= 2 * At(x, k) + 2^k /\ 2 * At(x, k) <= 2 * (c * 2^k) + 2^k
  BY <1>3, <1>4, MathRoundFacts DEF c
<1>7. AtMost(c, a, p, q) /\ AtLeast(c, a, p, q)
  BY <1>1, <1>4, <1>5, <1>6, MarginFacts DEF AtMost, AtLeast
<1> QED
  BY <1>2, <1>6, <1>7 DEF p, q

(* A smaller integer is no more, and a greater one no less. *)
LEMMA BoundsGrow ==
    ASSUME NEW p \in Nat, NEW q \in Nat, NEW a \in Nat,
           NEW b \in Int, NEW c \in Int, b <= c
    PROVE  AtMost(c, a, p, q) => AtMost(b, a, p, q)
<1> DEFINE d == 2^Double
           f == p * d
           g == 2 * a * q * d
           h == 2 * a * q * RelativeError
<1>1. d \in Nat /\ RelativeError \in Nat
  <2>1. Coarse \in Nat /\ RelativeError = 2 * Coarse + 7
    BY CoarseFacts DEF RelativeError, Coarse
  <2> QED
    BY <2>1, DoubleFacts
<1>2. f \in Nat /\ g \in Nat /\ h \in Nat
  <2> DEFINE e == RelativeError
             w == 2 * a * q
  <2>1. e \in Nat /\ w \in Nat
    BY <1>1
  <2> HIDE DEF d, e, w
  <2>2. p * d \in Nat /\ w * d \in Nat /\ w * e \in Nat
    BY <1>1, <2>1
  <2> QED
    BY <2>2 DEF w, e
<1>3. 2 * c * p * d = (2 * c) * f /\ 2 * b * p * d = (2 * b) * f
  <2> HIDE DEF d
  <2> QED
    BY <1>1
<1>4. /\ AtMost(c, a, p, q) <=> 2 * c * p * d <= g + (f + h)
      /\ AtMost(b, a, p, q) <=> 2 * b * p * d <= g + (f + h)
  BY DEF AtMost
<1> HIDE DEF d, f, g, h
<1>5. (2 * b) * f <= (2 * c) * f
  BY <1>2
<1>6. (2 * b) * f \in Int /\ (2 * c) * f \in Int
  BY <1>2
<1> QED
  BY <1>2, <1>3, <1>4, <1>5, <1>6

(* What an amount may become, in the integer type. *)
LEMMA ConvertedFacts ==
    ASSUME NEW u \in Quotes, NEW a \in 1..MaxInt
    PROVE  /\ \A c \in ConvertMinor(a, u.rate) : AtMost(c, a, u.from, u.to)
           /\ ~ AtMost(MaxInt, a, u.from, u.to) =>
                \A c \in ConvertMinor(a, u.rate) : c \in Nat /\ AtLeast(c, a, u.from, u.to)
<1> DEFINE p == u.from
           q == u.to
           n == RoundedWorth(a, u.rate)
           M == MaxInt
<1>1. p \in Nat /\ q \in Nat /\ a \in Nat /\ M \in Nat
  BY QuoteFacts, AmountFits, WidthFacts
<1>2. n \in Nat /\ AtMost(n, a, p, q) /\ AtLeast(n, a, p, q)
  BY WorthIsClose
<1>3. ConvertMinor(a, u.rate) = IF n > M THEN {-M - 1, M} ELSE {n}
  BY DEF ConvertMinor, RoundedWorth, AsFloat
<1> HIDE DEF p, q, n, M
<1>4. \A b \in Int : b <= n => AtMost(b, a, p, q)
  BY <1>1, <1>2, BoundsGrow
<1>5. CASE n > M
  <2>1. AtMost(M, a, p, q) /\ AtMost(-M - 1, a, p, q)
    BY <1>1, <1>2, <1>4, <1>5
  <2> QED
    BY <1>3, <1>5, <2>1 DEF p, q, M
<1>6. CASE ~ (n > M)
  BY <1>2, <1>3, <1>6 DEF p, q
<1> QED
  BY <1>5, <1>6

(* Only an accepted amount is converted, once, at a rate that stands for   *)
(* two prices; what is credited, reported or refused as too small is what  *)
(* the integer type holds of its worth.                                    *)
ConvertedInv ==
    /\ outcome = "" => converted = 0
    /\ outcome # "" =>
         /\ err = "nil" /\ minor \in 1..MaxInt /\ used \in Quotes
         /\ \/ /\ outcome \in {"credited", "reported"}
               /\ converted \in ConvertMinor(minor, used.rate)
            \/ /\ outcome = "ErrConvertedAmountTooSmall"
               /\ converted = 0 /\ \E c \in ConvertMinor(minor, used.rate) : c <= 0

LEMMA ConversionInvariant == SystemSpec => []ConvertedInv
<1>1. SystemInit => ConvertedInv
  BY DEF SystemInit, ConvertedInv
<1>2. TypeOK /\ ConvertedInv /\ [SystemNext]_systemVars => ConvertedInv'
  <2> SUFFICES ASSUME TypeOK, ConvertedInv, [SystemNext]_systemVars
               PROVE  ConvertedInv'
    OBVIOUS
  <2>1. ASSUME UNCHANGED systemVars PROVE ConvertedInv'
    BY <2>1 DEF systemVars, vars, conversionVars, ConvertedInv
  <2>2. ASSUME Next, UNCHANGED conversionVars PROVE ConvertedInv'
    <3>1. err = ""
      BY <2>2 DEF Next, Accept, Refuse
    <3>2. outcome = "" /\ converted = 0
      BY <3>1 DEF ConvertedInv
    <3> QED
      BY <2>2, <3>2 DEF conversionVars, ConvertedInv
  <2>3. ASSUME NEW u \in Quotes, Exchange(u) PROVE ConvertedInv'
    <3>1. minor \in 1..MaxInt
      <4>1. err = "nil" /\ minor \in 0..MaxInt /\ minor > 0 /\ MaxInt \in Nat
        BY <2>3, WidthFacts DEF Exchange, TypeOK
      <4> QED
        BY <4>1
    <3>2. /\ outcome = "" /\ converted = 0 /\ err' = "nil" /\ minor' = minor /\ used' = u
      BY <2>3 DEF Exchange, vars, ConvertedInv
    <3>3. PICK c \in ConvertMinor(minor, u.rate) :
             \/ c > 0 /\ converted' = c /\ outcome' = "credited"
             \/ c <= 0 /\ outcome' = "ErrConvertedAmountTooSmall" /\ converted' = converted
      BY <2>3 DEF Exchange
    <3>4. ConvertMinor(minor, used.rate)' = ConvertMinor(minor, u.rate)
          /\ (minor \in 1..MaxInt)' = (minor \in 1..MaxInt)
      BY <3>2 DEF ConvertMinor, MaxInt
    <3> QED
      BY <3>1, <3>2, <3>3, <3>4 DEF ConvertedInv
  <2>4. ASSUME NEW u \in Quotes, Report(u) PROVE ConvertedInv'
    <3>1. minor \in 1..MaxInt
      <4>1. err = "nil" /\ minor \in 0..MaxInt /\ minor > 0 /\ MaxInt \in Nat
        BY <2>4, WidthFacts DEF Report, TypeOK
      <4> QED
        BY <4>1
    <3>2. /\ err' = "nil" /\ minor' = minor /\ used' = u /\ outcome' = "reported"
          /\ converted' \in ConvertMinor(minor, u.rate)
      BY <2>4 DEF Report, vars
    <3>3. ConvertMinor(minor, used.rate)' = ConvertMinor(minor, u.rate)
          /\ (minor \in 1..MaxInt)' = (minor \in 1..MaxInt)
      BY <3>2 DEF ConvertMinor, MaxInt
    <3> QED
      BY <3>1, <3>2, <3>3 DEF ConvertedInv
  <2> QED
    BY <2>1, <2>2, <2>3, <2>4 DEF SystemNext
<1> QED
  BY <1>1, <1>2, SystemHasAmounts, TypeCorrect, PTL DEF SystemSpec

(* A conversion credits no more than the amount is worth but for the       *)
(* rounding; it credits and reports as much, and refuses nothing as too    *)
(* small unless it is, wherever the worth is an int64.  For all prices and *)
(* amounts, and floats of every precision that counts their bits.          *)
THEOREM ConversionsStayClose == SystemSpec => []ConversionsAreClose
<1>1. \A n \in Nat : n <= 0 => n = 0
  OBVIOUS
<1>2. ConvertedInv => ConversionsAreClose
  <2> SUFFICES ASSUME ConvertedInv, outcome # ""
               PROVE  ConversionsAreClose
    BY DEF ConversionsAreClose
  <2> DEFINE p == used.from
             q == used.to
             C == ConvertMinor(minor, used.rate)
  <2>1. minor \in 1..MaxInt /\ used \in Quotes
    BY DEF ConvertedInv
  <2>2. /\ \A c \in C : AtMost(c, minor, p, q)
        /\ ~ AtMost(MaxInt, minor, p, q) =>
             \A c \in C : c \in Nat /\ AtLeast(c, minor, p, q)
    BY <2>1, ConvertedFacts
  <2>3. \A c : /\ NotTooMuch(c) <=> AtMost(c, minor, p, q)
               /\ NotTooLittle(c) <=> AtLeast(c, minor, p, q)
    BY DEF NotTooMuch, NotTooLittle, Units, Exactly, Margin, AtMost, AtLeast
  <2>4. /\ \A c \in C : NotTooMuch(c)
        /\ InRange => \A c \in C : c \in Nat /\ NotTooLittle(c)
    BY <2>2, <2>3 DEF InRange
  <2>5. outcome \in {"credited", "reported"} => converted \in C
    BY DEF ConvertedInv
  <2>6. InRange => converted \in C
    <3>1. CASE outcome = "ErrConvertedAmountTooSmall"
      <4>1. PICK c \in C : c <= 0 /\ converted = 0
        BY <3>1 DEF ConvertedInv
      <4>2. InRange => c \in Nat
        BY <2>4
      <4>3. InRange => c = 0
        BY <1>1, <4>1, <4>2
      <4> QED
        BY <4>1, <4>3
    <3> QED
      BY <2>5, <3>1 DEF ConvertedInv
  <2> QED
    BY <2>4, <2>5, <2>6 DEF ConversionsAreClose
<1> QED
  BY <1>2, ConversionInvariant, PTL
=============================================================================
