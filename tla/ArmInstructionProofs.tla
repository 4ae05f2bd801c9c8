------------------------- MODULE ArmInstructionProofs -------------------------
(***************************************************************************)
(* Whatever the width of a word, and whichever instructions are executed:  *)
(* the shifter and the logical operations give the bits they are asked     *)
(* for, the flags an ADDS or a CMP has set say what is read in them later, *)
(* and no instruction gets a processor out of no mode or touches the       *)
(* status when it fails.                                                   *)
(***************************************************************************)
EXTENDS ArmInstruction, FiniteSetTheorems, NaturalsInduction, WellFoundedInduction, TLAPS

LEMMA Sizes == Width \in Nat \ {0} /\ Modulus \in Nat \ {0, 1}
BY ModulusAssumption

USE Sizes, ModesAssumption, TriedAssumption

-----------------------------------------------------------------------------
(* Remainders *)

LEMMA Product ==
  ASSUME NEW n \in Nat \ {0}, NEW q \in Int
  PROVE  /\ q >= 1 => n * q >= n
         /\ q <= -1 => n * q <= -n
         /\ n * q \in Int
BY SMT

\* A number is its own remainder below the divisor, and its difference to the
\* divisor, or its sum with it, just above and below.
LEMMA Remainder ==
  ASSUME NEW n \in Nat \ {0}, NEW x \in Int
  PROVE  /\ x \in 0 .. n - 1 => x % n = x /\ x \div n = 0
         /\ x \in -n .. -1 => x % n = x + n
BY SMT

LEMMA RemainderAbove ==
  ASSUME NEW n \in Nat \ {0}, NEW x \in Int, x >= n, x < 2 * n
  PROVE  x % n = x - n /\ x \div n = 1
BY SMT

LEMMA Square ==
  Modulus * Modulus \in Nat \ {0} /\ Modulus * Modulus >= 2 * Modulus
BY SMT

LEMMA WordSum ==
  ASSUME NEW a \in Word, NEW b \in Word, NEW c \in {0, 1}
  PROVE  a + b + c \in 0 .. 2 * Modulus - 1
BY DEF Word

-----------------------------------------------------------------------------
(* Natural numbers *)

\* A set of natural numbers has a least one.
LEMMA Least ==
  ASSUME NEW T, T \subseteq Nat, T # {}
  PROVE  \E x \in T : \A y \in T : x <= y
<1>. DEFINE R == { pair \in Nat \X Nat : pair[1] < pair[2] }
<1>1. IsWellFoundedOn(R, Nat)
  BY NatLessThanWellFounded DEF OpToRel
<1>2. PICK x \in T : \A y \in T : ~(<<y, x>> \in R)
  BY <1>1, WFMin
<1>3. x \in Nat /\ \A y \in T : y \in Nat
  OBVIOUS
<1>4. ASSUME NEW y \in T PROVE x <= y
  <2>1. <<y, x>> \in Nat \X Nat
    BY <1>3
  <2>2. ~(y < x)
    BY <1>2, <2>1
  <2>. HIDE DEF R
  <2>. QED
    BY <1>3, <2>2
<1>. QED
  BY <1>4

\* A set with 0, and with n + 1 where it has n, has every natural number.
LEMMA Induction ==
  ASSUME NEW T, 0 \in T, \A n \in Nat : n \in T => n + 1 \in T
  PROVE  Nat \subseteq T
<1>. SUFFICES ASSUME Nat \ T # {}
              PROVE  FALSE
  OBVIOUS
<1>1. PICK n \in Nat \ T : \A m \in Nat \ T : n <= m
  BY Least
<1>2. n # 0
  OBVIOUS
<1>3. n - 1 \in Nat /\ ~(n <= n - 1) /\ (n - 1) + 1 = n
  BY <1>2
<1>4. n - 1 \in T
  BY <1>1, <1>3
<1>. QED
  BY <1>3, <1>4

\* Euclidean division, and that there is one only.
LEMMA Divided ==
  ASSUME NEW a \in Int, NEW b \in Nat \ {0}
  PROVE  \E q \in Int, r \in 0 .. b - 1 : a = b * q + r /\ q = a \div b /\ r = a % b
<1>1. /\ a % b \in 0 .. b - 1 /\ a \div b \in Int
      /\ a = b * (a \div b) + (a % b)
  OBVIOUS
<1>. QED
  BY <1>1

LEMMA Times ==
  ASSUME NEW b \in Nat \ {0}, NEW p \in Int, NEW q \in Int, p < q
  PROVE  b * p + b <= b * q
<1>1. b * (q - p) >= b
  OBVIOUS
<1>2. b * (q - p) = b * q - b * p
  OBVIOUS
<1>. QED
  BY <1>1, <1>2

LEMMA Unique ==
  ASSUME NEW a \in Int, NEW b \in Nat \ {0}, NEW q \in Int, NEW r \in 0 .. b - 1,
         a = b * q + r
  PROVE  a \div b = q /\ a % b = r
<1>1. PICK p \in Int, s \in 0 .. b - 1 : a = b * p + s /\ p = a \div b /\ s = a % b
  BY Divided
<1>2. ~(p < q)
  <2>1. SUFFICES ASSUME p < q PROVE FALSE
    OBVIOUS
  <2>2. b * p + b <= b * q
    BY <2>1, Times
  <2>. QED
    BY <1>1, <2>2
<1>3. ~(q < p)
  <2>1. SUFFICES ASSUME q < p PROVE FALSE
    OBVIOUS
  <2>2. b * q + b <= b * p
    BY <2>1, Times
  <2>. QED
    BY <1>1, <2>2
<1>4. p = q
  BY <1>2, <1>3
<1>. QED
  BY <1>1, <1>4

LEMMA Quotient ==
  ASSUME NEW a \in Nat, NEW b \in Nat \ {0}
  PROVE  /\ a \div b \in Nat
         /\ a < b => a \div b = 0 /\ a % b = a
<1>1. CASE a < b
  <2>1. a \in 0 .. b - 1 /\ a = b * 0 + a
    BY <1>1
  <2>. QED
    BY <2>1, Unique
<1>2. CASE ~(a < b)
  <2>1. a \in Int
    OBVIOUS
  <2>2. PICK q \in Int, r \in 0 .. b - 1 : a = b * q + r /\ q = a \div b
    BY <2>1, Divided
  <2>3. ~(q < 0)
    <3>1. SUFFICES ASSUME q < 0 PROVE FALSE
      OBVIOUS
    <3>2. b * q + b <= b * 0
      BY <3>1, Times
    <3>. QED
      BY <2>2, <3>2
  <2>. QED
    BY <1>2, <2>2, <2>3
<1>. QED
  BY <1>1, <1>2

\* Dividing by two numbers one after the other.
LEMMA DividedTwice ==
  ASSUME NEW a \in Nat, NEW b \in Nat \ {0}, NEW c \in Nat \ {0}
  PROVE  b * c \in Nat \ {0} /\ (a \div b) \div c = a \div (b * c)
<1>. a \in Int
  OBVIOUS
<1>1. PICK q \in Int, r \in 0 .. b - 1 : a = b * q + r /\ q = a \div b
  BY Divided
<1>2. PICK s \in Int, t \in 0 .. c - 1 : q = c * s + t /\ s = q \div c
  BY Divided
<1>3. PICK d \in Nat \ {0} : d = b * c
  <2>1. b * c >= 1
    OBVIOUS
  <2>. QED
    BY <2>1
<1>4. PICK u \in Int : u = b * t
  OBVIOUS
<1>5. 0 <= u /\ u + b <= d
  <2>1. 0 <= b * t
    OBVIOUS
  <2>2. b * t + b <= b * c
    BY Times
  <2>. QED
    BY <1>3, <1>4, <2>1, <2>2
<1>6. b * q = d * s + u
  <2>1. b * q = b * (c * s) + b * t
    BY <1>2
  <2>2. b * (c * s) = (b * c) * s
    OBVIOUS
  <2>. QED
    BY <1>3, <1>4, <2>1, <2>2
<1>7. u + r \in 0 .. d - 1
  BY <1>5
<1>8. a = d * s + (u + r)
  BY <1>1, <1>6
<1>9. a \div d = s
  BY <1>7, <1>8, Unique
<1>. QED
  BY <1>1, <1>2, <1>3, <1>9

\* A common factor of the two goes away.
LEMMA DividedScaled ==
  ASSUME NEW a \in Nat, NEW b \in Nat \ {0}, NEW c \in Nat \ {0}
  PROVE  (a * b) \div (c * b) = a \div c
<1>. a \in Int
  OBVIOUS
<1>1. PICK s \in Int, t \in 0 .. c - 1 : a = c * s + t /\ s = a \div c
  BY Divided
<1>2. PICK d \in Nat \ {0} : d = c * b
  <2>1. c * b >= 1
    OBVIOUS
  <2>. QED
    BY <2>1
<1>3. PICK u \in Int : u = b * t
  OBVIOUS
<1>4. 0 <= u /\ u + b <= d
  <2>1. 0 <= b * t
    OBVIOUS
  <2>2. b * t + b <= b * c
    BY Times
  <2>3. b * c = c * b
    OBVIOUS
  <2>. QED
    BY <1>2, <1>3, <2>1, <2>2, <2>3
<1>5. a * b = d * s + u
  <2>1. a * b = (c * s) * b + t * b
    BY <1>1
  <2>2. (c * s) * b = (c * b) * s /\ t * b = b * t
    OBVIOUS
  <2>. QED
    BY <1>2, <1>3, <2>1, <2>2
<1>6. a * b \in Int /\ u \in 0 .. d - 1
  BY <1>4
<1>7. (a * b) \div d = s
  BY <1>5, <1>6, Unique
<1>. QED
  BY <1>1, <1>2, <1>7

\* Whether a number is odd, without the multiples of two in it.
LEMMA Parity ==
  ASSUME NEW k \in Int, NEW n \in Int
  PROVE  (2 * k + n) % 2 = n % 2
<1>1. PICK q \in Int, r \in 0 .. 1 : n = 2 * q + r /\ r = n % 2
  <2>1. 2 \in Nat \ {0} /\ 2 - 1 = 1
    OBVIOUS
  <2>. QED
    BY <2>1, Divided
<1>2. PICK m \in Int : m = k + q
  OBVIOUS
<1>3. 2 * k + n = 2 * m + r
  BY <1>1, <1>2
<1>. QED
  <2>1. 2 \in Nat \ {0} /\ r \in 0 .. 2 - 1 /\ 2 * k + n \in Int
    OBVIOUS
  <2>. QED
    BY <1>1, <1>3, <2>1, Unique

-----------------------------------------------------------------------------
(* Powers of two *)

\* There is a function that doubles with each number.
LEMMA PowerExists ==
  \E power : power = [n \in 0 .. Width |-> IF n = 0 THEN 1 ELSE 2 * power[n - 1]]
<1>. DEFINE Powers(k, power) ==
              power = [n \in 0 .. k |-> IF n = 0 THEN 1 ELSE 2 * power[n - 1]]
            T == { k \in Nat : \E power : Powers(k, power) }
<1>1. 0 \in T
  <2>. DEFINE power == [n \in 0 .. 0 |-> 1]
  <2>1. \A n \in 0 .. 0 : n = 0
    OBVIOUS
  <2>2. Powers(0, power)
    BY <2>1
  <2>. QED
    BY <2>2
<1>2. ASSUME NEW k \in Nat, k \in T
      PROVE  k + 1 \in T
  <2>1. PICK power : Powers(k, power)
    BY <1>2
  <2>. DEFINE next == [n \in 0 .. k + 1 |-> IF n = 0 THEN 1 ELSE 2 * power[n - 1]]
  <2>2. \A n \in 0 .. k : next[n] = power[n]
    BY <2>1
  <2>3. next = [n \in 0 .. k + 1 |-> IF n = 0 THEN 1 ELSE 2 * next[n - 1]]
    <3>1. \A n \in 0 .. k + 1 : n # 0 => n - 1 \in 0 .. k
      OBVIOUS
    <3>2. \A n \in 0 .. k + 1 : n # 0 => next[n - 1] = power[n - 1]
      BY <2>2, <3>1
    <3>3. next = [n \in 0 .. k + 1 |-> IF n = 0 THEN 1 ELSE 2 * power[n - 1]]
      OBVIOUS
    <3>. HIDE DEF next
    <3>. QED
      BY <3>2, <3>3
  <2>4. \E p : Powers(k + 1, p)
    BY <2>3
  <2>. HIDE DEF Powers
  <2>. QED
    BY <2>4
<1>. HIDE DEF T
<1>3. Nat \subseteq T
  BY <1>1, <1>2, Induction
<1>4. Width \in T
  BY <1>3
<1>. QED
  BY <1>4 DEF T

LEMMA Doubles ==
  /\ PowerOfTwo[0] = 1
  /\ \A n \in 0 .. Width - 1 : PowerOfTwo[n + 1] = 2 * PowerOfTwo[n]
<1>1. PowerOfTwo = [n \in 0 .. Width |-> IF n = 0 THEN 1 ELSE 2 * PowerOfTwo[n - 1]]
  BY PowerExists DEF PowerOfTwo
<1>2. 0 \in 0 .. Width /\ \A n \in 0 .. Width - 1 : n + 1 \in 0 .. Width /\ n + 1 # 0
  OBVIOUS
<1>3. \A n \in 0 .. Width - 1 : (n + 1) - 1 = n
  OBVIOUS
<1>. QED
  BY <1>1, <1>2, <1>3

LEMMA PowerPositive ==
  \A n \in 0 .. Width : PowerOfTwo[n] \in Nat \ {0}
<1>. DEFINE T == { n \in Nat : n <= Width => PowerOfTwo[n] \in Nat \ {0} }
<1>1. 0 \in T
  BY Doubles
<1>2. \A n \in Nat : n \in T => n + 1 \in T
  BY Doubles
<1>3. Nat \subseteq T
  <2>. HIDE DEF T
  <2>. QED
    BY <1>1, <1>2, Induction
<1>. QED
  BY <1>3

LEMMA PowerSum ==
  ASSUME NEW m \in Nat, NEW n \in Nat, m + n <= Width
  PROVE  PowerOfTwo[m + n] = PowerOfTwo[m] * PowerOfTwo[n]
<1>. DEFINE T == { k \in Nat : k + n <= Width
                                 => PowerOfTwo[k + n] = PowerOfTwo[k] * PowerOfTwo[n] }
<1>1. 0 \in T
  <2>1. PowerOfTwo[n] \in Nat
    BY PowerPositive
  <2>. QED
    BY <2>1, Doubles
<1>2. ASSUME NEW k \in Nat, k \in T, (k + 1) + n <= Width
      PROVE  PowerOfTwo[(k + 1) + n] = PowerOfTwo[k + 1] * PowerOfTwo[n]
  <2>1. PICK a \in Nat : a = PowerOfTwo[k]
    BY <1>2, PowerPositive
  <2>2. PICK b \in Nat : b = PowerOfTwo[n]
    BY <1>2, PowerPositive
  <2>3. PowerOfTwo[k + n] = a * b
    BY <1>2, <2>1, <2>2
  <2>4. (k + 1) + n = (k + n) + 1 /\ k + n \in 0 .. Width - 1 /\ k \in 0 .. Width - 1
    BY <1>2
  <2>5. PowerOfTwo[(k + n) + 1] = 2 * (a * b)
    BY <2>3, <2>4, Doubles
  <2>6. PowerOfTwo[k + 1] = 2 * a
    BY <2>1, <2>4, Doubles
  <2>7. 2 * (a * b) = (2 * a) * b
    OBVIOUS
  <2>. QED
    BY <2>2, <2>4, <2>5, <2>6, <2>7
<1>3. \A k \in Nat : k \in T => k + 1 \in T
  BY <1>2
<1>4. Nat \subseteq T
  <2>. HIDE DEF T
  <2>. QED
    BY <1>1, <1>3, Induction
<1>. QED
  BY <1>4

LEMMA PowerGrows ==
  ASSUME NEW m \in Nat, NEW n \in Nat, m <= n, n <= Width
  PROVE  PowerOfTwo[m] <= PowerOfTwo[n]
<1>1. PICK k \in Nat : n = m + k
  BY n - m \in Nat
<1>2. PICK a \in Nat \ {0} : a = PowerOfTwo[m]
  BY PowerPositive
<1>3. PICK b \in Nat \ {0} : b = PowerOfTwo[k]
  BY <1>1, PowerPositive
<1>4. PowerOfTwo[n] = a * b
  BY <1>1, <1>2, <1>3, PowerSum
<1>5. a * b >= a
  OBVIOUS
<1>. QED
  BY <1>2, <1>4, <1>5

-----------------------------------------------------------------------------
(* Bits *)

\* What comes of one bit more of a number.
LEMMA OneBit ==
  ASSUME NEW x \in Nat, NEW n \in 0 .. Width - 1
  PROVE  \E b \in {0, 1} :
           /\ b = 1 <=> n \in Bits(x)
           /\ x % PowerOfTwo[n + 1] = (x % PowerOfTwo[n]) + PowerOfTwo[n] * b
           /\ \E s \in Int : x \div PowerOfTwo[n] = 2 * s + b
<1>. x \in Int
  OBVIOUS
<1>1. PICK p \in Nat \ {0} : p = PowerOfTwo[n]
  BY PowerPositive
<1>2. PowerOfTwo[n + 1] = 2 * p /\ 2 * p \in Nat \ {0}
  BY <1>1, Doubles
<1>3. PICK q \in Int, r \in 0 .. p - 1 : x = p * q + r /\ q = x \div p /\ r = x % p
  BY Divided
<1>4. PICK s \in Int, b \in 0 .. 1 : q = 2 * s + b /\ b = q % 2
  <2>1. 2 \in Nat \ {0} /\ 2 - 1 = 1
    OBVIOUS
  <2>. QED
    BY <2>1, Divided
<1>5. b \in {0, 1}
  OBVIOUS
<1>6. PICK u \in Int : u = p * b
  OBVIOUS
<1>7. u + r \in 0 .. 2 * p - 1
  <2>1. u = 0 \/ u = p
    BY <1>5, <1>6
  <2>. QED
    BY <2>1
<1>8. x = (2 * p) * s + (u + r)
  <2>1. p * q = p * (2 * s) + p * b
    BY <1>4
  <2>2. p * (2 * s) = (2 * p) * s
    OBVIOUS
  <2>. QED
    BY <1>3, <1>6, <2>1, <2>2
<1>9. x % (2 * p) = u + r
  BY <1>2, <1>7, <1>8, Unique
<1>10. b = 1 <=> n \in Bits(x)
  BY <1>1, <1>3, <1>4 DEF Bits
<1>11. x % PowerOfTwo[n + 1] = (x % PowerOfTwo[n]) + PowerOfTwo[n] * b
  BY <1>1, <1>2, <1>3, <1>6, <1>9
<1>12. x \div PowerOfTwo[n] = 2 * s + b
  BY <1>1, <1>3, <1>4
<1>. QED
  BY <1>5, <1>10, <1>11, <1>12

\* A number below a power of two has no bit from there on.
LEMMA NoBitAbove ==
  ASSUME NEW x \in Nat, NEW n \in 0 .. Width, x < PowerOfTwo[n], NEW i \in Nat, n <= i
  PROVE  i \notin Bits(x)
<1>. SUFFICES ASSUME i \in 0 .. Width - 1
              PROVE  (x \div PowerOfTwo[i]) % 2 # 1
  BY DEF Bits
<1>1. PICK p \in Nat \ {0} : p = PowerOfTwo[i]
  BY PowerPositive
<1>2. PICK a \in Nat \ {0} : a = PowerOfTwo[n]
  BY PowerPositive
<1>3. x < p
  BY <1>1, <1>2, PowerGrows
<1>4. x \div p = 0
  BY <1>3, Quotient
<1>. QED
  BY <1>1, <1>4

\* The bits tell words apart.
LEMMA BitsTell ==
  ASSUME NEW x \in Word, NEW y \in Word, Bits(x) = Bits(y)
  PROVE  x = y
<1>. x \in Nat /\ y \in Nat
  BY DEF Word
<1>. DEFINE T == { n \in Nat : n <= Width => x % PowerOfTwo[n] = y % PowerOfTwo[n] }
<1>1. 0 \in T
  BY Doubles
<1>2. ASSUME NEW n \in Nat, n \in T, n + 1 <= Width
      PROVE  x % PowerOfTwo[n + 1] = y % PowerOfTwo[n + 1]
  <2>1. n \in 0 .. Width - 1 /\ x % PowerOfTwo[n] = y % PowerOfTwo[n]
    BY <1>2
  <2>2. PICK b \in {0, 1} : /\ b = 1 <=> n \in Bits(x)
                            /\ x % PowerOfTwo[n + 1] = (x % PowerOfTwo[n]) + PowerOfTwo[n] * b
    BY <2>1, OneBit
  <2>3. PICK c \in {0, 1} : /\ c = 1 <=> n \in Bits(y)
                            /\ y % PowerOfTwo[n + 1] = (y % PowerOfTwo[n]) + PowerOfTwo[n] * c
    BY <2>1, OneBit
  <2>4. b = c
    BY <2>2, <2>3
  <2>. QED
    BY <2>1, <2>2, <2>3, <2>4
<1>3. \A n \in Nat : n \in T => n + 1 \in T
  BY <1>2
<1>4. Nat \subseteq T
  <2>. HIDE DEF T
  <2>. QED
    BY <1>1, <1>3, Induction
<1>5. x % Modulus = y % Modulus
  BY <1>4, ModulusAssumption
<1>6. \A z \in Word : z % Modulus = z
  BY DEF Word
<1>. QED
  BY <1>5, <1>6

\* Numbers without a bit in common add up bit by bit.
LEMMA BitsAdd ==
  ASSUME NEW x \in Word, NEW y \in Word, Bits(x) \cap Bits(y) = {}
  PROVE  x + y \in Word /\ Bits(x + y) = Bits(x) \cup Bits(y)
<1>. x \in Nat /\ y \in Nat /\ x \in Int /\ y \in Int
  BY DEF Word
<1>. DEFINE T == { n \in Nat :
                     n <= Width =>
                       (x % PowerOfTwo[n]) + (y % PowerOfTwo[n]) < PowerOfTwo[n] }
<1>1. 0 \in T
  BY Doubles
<1>2. ASSUME NEW n \in Nat, n \in T, n + 1 <= Width
      PROVE  (x % PowerOfTwo[n + 1]) + (y % PowerOfTwo[n + 1]) < PowerOfTwo[n + 1]
  <2>1. n \in 0 .. Width - 1
    BY <1>2
  <2>2. PICK b \in {0, 1} : /\ b = 1 <=> n \in Bits(x)
                            /\ x % PowerOfTwo[n + 1] = (x % PowerOfTwo[n]) + PowerOfTwo[n] * b
    BY <2>1, OneBit
  <2>3. PICK c \in {0, 1} : /\ c = 1 <=> n \in Bits(y)
                            /\ y % PowerOfTwo[n + 1] = (y % PowerOfTwo[n]) + PowerOfTwo[n] * c
    BY <2>1, OneBit
  <2>4. b = 0 \/ c = 0
    BY <2>2, <2>3
  <2>5. PICK p \in Nat \ {0} : p = PowerOfTwo[n]
    BY <2>1, PowerPositive
  <2>6. PICK r \in Int : r = x % p
    BY <2>5
  <2>7. PICK t \in Int : t = y % p
    BY <2>5
  <2>8. r + t < p
    BY <1>2, <2>5, <2>6, <2>7
  <2>9. PowerOfTwo[n + 1] = 2 * p
    BY <2>1, <2>5, Doubles
  <2>10. p * b + p * c <= p
    BY <2>4
  <2>11. (r + p * b) + (t + p * c) < 2 * p
    BY <2>8, <2>10
  <2>. QED
    BY <2>2, <2>3, <2>5, <2>6, <2>7, <2>9, <2>11
<1>3. \A n \in Nat : n \in T => n + 1 \in T
  BY <1>2
<1>4. Nat \subseteq T
  <2>. HIDE DEF T
  <2>. QED
    BY <1>1, <1>3, Induction
<1>5. x + y \in Word
  <2>1. (x % Modulus) + (y % Modulus) < Modulus
    BY <1>4, ModulusAssumption
  <2>2. x % Modulus = x /\ y % Modulus = y
    BY DEF Word
  <2>. QED
    BY <2>1, <2>2 DEF Word
<1>6. ASSUME NEW n \in 0 .. Width - 1
      PROVE  n \in Bits(x + y) <=> n \in Bits(x) \/ n \in Bits(y)
  <2>1. PICK p \in Nat \ {0} : p = PowerOfTwo[n]
    BY PowerPositive
  <2>2. PICK q \in Int, r \in 0 .. p - 1 : x = p * q + r /\ q = x \div p /\ r = x % p
    BY Divided
  <2>3. PICK s \in Int, t \in 0 .. p - 1 : y = p * s + t /\ s = y \div p /\ t = y % p
    BY Divided
  <2>4. r + t \in 0 .. p - 1
    <3>1. n \in T /\ n <= Width
      BY <1>4
    <3>2. (x % PowerOfTwo[n]) + (y % PowerOfTwo[n]) < PowerOfTwo[n]
      BY <3>1
    <3>. HIDE DEF T
    <3>3. (x % p) + (y % p) < p
      BY <2>1, <3>2
    <3>4. r + t < p
      BY <2>2, <2>3, <3>3
    <3>. QED
      BY <3>4
  <2>5. PICK z \in Int : z = q + s
    OBVIOUS
  <2>6. x + y = p * z + (r + t)
    <3>1. p * z = p * q + p * s
      BY <2>5
    <3>. QED
      BY <2>2, <2>3, <3>1
  <2>7. (x + y) \div p = z
    <3>1. x + y \in Int
      OBVIOUS
    <3>. QED
      BY <2>4, <2>6, <3>1, Unique
  <2>8. PICK b \in {0, 1} : /\ b = 1 <=> n \in Bits(x)
                            /\ \E k \in Int : x \div p = 2 * k + b
    BY <2>1, OneBit
  <2>9. PICK c \in {0, 1} : /\ c = 1 <=> n \in Bits(y)
                            /\ \E k \in Int : y \div p = 2 * k + c
    BY <2>1, OneBit
  <2>10. PICK k \in Int : q = 2 * k + b
    BY <2>2, <2>8
  <2>11. PICK l \in Int : s = 2 * l + c
    BY <2>3, <2>9
  <2>12. PICK m \in Int : m = k + l
    OBVIOUS
  <2>13. z = 2 * m + (b + c)
    BY <2>5, <2>10, <2>11, <2>12
  <2>14. b + c \in Int
    OBVIOUS
  <2>15. z % 2 = (b + c) % 2
    BY <2>13, <2>14, Parity
  <2>16. b = 0 \/ c = 0
    BY <2>8, <2>9
  <2>17. (b + c) % 2 = 1 <=> b = 1 \/ c = 1
    BY <2>16
  <2>18. n \in Bits(x + y) <=> z % 2 = 1
    BY <2>1, <2>7 DEF Bits
  <2>. QED
    BY <2>8, <2>9, <2>15, <2>17, <2>18
<1>7. \A v : Bits(v) \subseteq 0 .. Width - 1
  BY DEF Bits
<1>. HIDE DEF T
<1>. QED
  BY <1>5, <1>6, <1>7

LEMMA BitsOfPower ==
  ASSUME NEW i \in 0 .. Width - 1
  PROVE  PowerOfTwo[i] \in Word /\ Bits(PowerOfTwo[i]) = {i}
<1>1. PICK p \in Nat \ {0} : p = PowerOfTwo[i]
  BY PowerPositive
<1>2. PowerOfTwo[i + 1] = 2 * p
  BY <1>1, Doubles
<1>3. p \in Word
  <2>1. PICK a \in Nat \ {0} : a = PowerOfTwo[i + 1]
    BY PowerPositive
  <2>2. a <= Modulus
    BY <2>1, PowerGrows, ModulusAssumption
  <2>. QED
    BY <1>2, <2>1, <2>2 DEF Word
<1>4. ASSUME NEW j \in 0 .. Width - 1
      PROVE  j \in Bits(p) <=> j = i
  <2>1. PICK a \in Nat \ {0} : a = PowerOfTwo[j]
    BY PowerPositive
  <2>2. CASE j = i
    <3>1. p = p * 1 + 0 /\ 0 \in 0 .. p - 1 /\ p \in Int
      OBVIOUS
    <3>2. p \div p = 1
      BY <3>1, Unique
    <3>. QED
      BY <1>1, <2>2, <3>2 DEF Bits
  <2>3. CASE j > i
    <3>1. p < PowerOfTwo[i + 1]
      BY <1>2
    <3>. QED
      BY <2>3, <3>1, NoBitAbove
  <2>4. CASE j < i
    <3>1. PICK k \in Nat : i = (k + 1) + j
      <4>1. i - j - 1 \in Nat /\ i = ((i - j - 1) + 1) + j
        BY <2>4
      <4>. QED
        BY <4>1
    <3>2. PICK b \in Nat : b = PowerOfTwo[k]
      BY <3>1, PowerPositive
    <3>3. PowerOfTwo[k + 1] = 2 * b
      BY <3>1, <3>2, Doubles
    <3>4. p = (2 * b) * a
      BY <1>1, <2>1, <3>1, <3>3, PowerSum
    <3>5. p = a * (2 * b) + 0 /\ 0 \in 0 .. a - 1 /\ 2 * b \in Int /\ p \in Int
      BY <3>4
    <3>6. p \div a = 2 * b
      BY <3>5, Unique
    <3>7. (2 * b + 0) % 2 = 0
      BY Parity
    <3>. QED
      BY <2>1, <2>4, <3>6, <3>7 DEF Bits
  <2>. QED
    BY <2>2, <2>3, <2>4
<1>5. Bits(p) \subseteq 0 .. Width - 1
  BY DEF Bits
<1>. QED
  BY <1>1, <1>3, <1>4, <1>5

LEMMA BitsOfZero == 0 \in Word /\ Bits(0) = {}
<1>1. 0 < PowerOfTwo[0] /\ 0 \in 0 .. Width
  BY Doubles
<1>2. \A i \in Nat : i \notin Bits(0)
  BY <1>1, NoBitAbove
<1>. QED
  BY <1>2 DEF Bits, Word

\* The recursive function that the fold of ValueOf is, of the sets of bits.
Chosen(s) == CHOOSE i \in s : TRUE
Summed(sum, s) ==
  IF s = {} THEN 0 ELSE PowerOfTwo[Chosen(s)] + sum[s \ {Chosen(s)}]

LEMMA ValueAsSum ==
  ASSUME NEW S
  PROVE  ValueOf(S) = (CHOOSE sum : sum = [s \in SUBSET S |-> Summed(sum, s)])[S]
BY DEF ValueOf, MapThenSumSet, MapThenFoldSet, Summed, Chosen

\* The sum over a set is reached through a smaller set.
LEMMA OneLess ==
  ASSUME NEW S, IsFiniteSet(S), NEW s \in SUBSET S, s # {}
  PROVE  /\ Chosen(s) \in s /\ s \ {Chosen(s)} \in SUBSET S
         /\ Cardinality(s) \in Nat /\ Cardinality(s \ {Chosen(s)}) = Cardinality(s) - 1
<1>1. Chosen(s) \in s
  BY DEF Chosen
<1>2. IsFiniteSet(s)
  BY FS_Subset
<1>. QED
  BY <1>1, <1>2, FS_RemoveElement, FS_CardinalityType

\* There is such a function: on the sets of at most n + 1 bits it is made of
\* the one on the sets of at most n.
LEMMA SumExists ==
  ASSUME NEW S, IsFiniteSet(S)
  PROVE  \E sum : sum = [s \in SUBSET S |-> Summed(sum, s)]
<1>. DEFINE Small(n) == { s \in SUBSET S : Cardinality(s) <= n }
            Sums(n, sum) == sum = [s \in Small(n) |-> Summed(sum, s)]
            T == { n \in Nat : \E sum : Sums(n, sum) }
<1>1. \A s \in SUBSET S : Cardinality(s) \in Nat /\ IsFiniteSet(s)
  BY FS_Subset, FS_CardinalityType
<1>2. 0 \in T
  <2>. DEFINE sum == [s \in Small(0) |-> 0]
  <2>1. \A s \in Small(0) : s = {}
    BY <1>1, FS_EmptySet
  <2>2. Sums(0, sum)
    BY <2>1 DEF Summed
  <2>. QED
    BY <2>2
<1>3. ASSUME NEW n \in Nat, n \in T
      PROVE  n + 1 \in T
  <2>1. PICK sum : Sums(n, sum)
    BY <1>3
  <2>. DEFINE next == [s \in Small(n + 1) |-> Summed(sum, s)]
  <2>2. ASSUME NEW s \in Small(n + 1)
        PROVE  Summed(sum, s) = Summed(next, s)
    <3>1. CASE s = {}
      BY <3>1 DEF Summed
    <3>2. CASE s # {}
      <4>. DEFINE less == s \ {Chosen(s)}
      <4>1. less \in Small(n) /\ less \in Small(n + 1)
        BY <1>1, <3>2, OneLess
      <4>2. sum[less] = Summed(sum, less)
        BY <2>1, <4>1
      <4>3. next[less] = Summed(sum, less)
        BY <4>1
      <4>. HIDE DEF next
      <4>. QED
        BY <3>2, <4>2, <4>3 DEF Summed
    <3>. QED
      BY <3>1, <3>2
  <2>3. next = [s \in Small(n + 1) |-> Summed(next, s)]
    <3>1. next = [s \in Small(n + 1) |-> Summed(sum, s)]
      OBVIOUS
    <3>. HIDE DEF next
    <3>. QED
      BY <2>2, <3>1
  <2>4. \E f : Sums(n + 1, f)
    BY <2>3
  <2>. HIDE DEF Sums
  <2>. QED
    BY <2>4
<1>4. Cardinality(S) \in T
  <2>. HIDE DEF T
  <2>1. Nat \subseteq T
    BY <1>2, <1>3, Induction
  <2>. QED
    BY <2>1, FS_CardinalityType
<1>5. Small(Cardinality(S)) = SUBSET S
  BY FS_Subset
<1>. QED
  BY <1>4, <1>5

\* The value of a set of bits is the word that has these bits.
LEMMA ValueBits ==
  ASSUME NEW S \in SUBSET (0 .. Width - 1)
  PROVE  ValueOf(S) \in Word /\ Bits(ValueOf(S)) = S
<1>. DEFINE sum == CHOOSE f : f = [s \in SUBSET S |-> Summed(f, s)]
            T == { n \in Nat : \A s \in SUBSET S :
                     Cardinality(s) = n => sum[s] \in Word /\ Bits(sum[s]) = s }
<1>1. IsFiniteSet(S)
  <2>1. 0 \in Int /\ Width - 1 \in Int
    OBVIOUS
  <2>. QED
    BY <2>1, FS_Interval, FS_Subset
<1>2. sum = [s \in SUBSET S |-> Summed(sum, s)]
  BY <1>1, SumExists
<1>3. ValueOf(S) = sum[S]
  BY ValueAsSum
<1>. HIDE DEF sum
<1>4. \A s \in SUBSET S : Cardinality(s) \in Nat /\ IsFiniteSet(s)
  BY <1>1, FS_Subset, FS_CardinalityType
<1>5. 0 \in T
  <2>1. \A s \in SUBSET S : Cardinality(s) = 0 => s = {}
    BY <1>4, FS_EmptySet
  <2>2. sum[{}] = 0
    BY <1>2 DEF Summed
  <2>. QED
    BY <2>1, <2>2, BitsOfZero
<1>6. ASSUME NEW n \in Nat, n \in T, NEW s \in SUBSET S, Cardinality(s) = n + 1
      PROVE  sum[s] \in Word /\ Bits(sum[s]) = s
  <2>. DEFINE c == Chosen(s)
              less == s \ {c}
  <2>1. s # {}
    <3>1. Cardinality(s) # 0
      BY <1>6
    <3>. HIDE DEF T
    <3>. QED
      BY <3>1, FS_EmptySet
  <2>2. c \in s /\ less \in SUBSET S /\ Cardinality(less) = n
    <3>1. Cardinality(s) - 1 = n
      BY <1>6
    <3>. HIDE DEF T
    <3>. QED
      BY <1>1, <2>1, <3>1, OneLess
  <2>3. sum[less] \in Word /\ Bits(sum[less]) = less
    BY <1>6, <2>2
  <2>4. sum[s] = PowerOfTwo[c] + sum[less]
    BY <1>2, <2>1 DEF Summed
  <2>5. PowerOfTwo[c] \in Word /\ Bits(PowerOfTwo[c]) = {c}
    BY <2>2, BitsOfPower
  <2>6. Bits(PowerOfTwo[c]) \cap Bits(sum[less]) = {}
    BY <2>3, <2>5
  <2>7. /\ PowerOfTwo[c] + sum[less] \in Word
        /\ Bits(PowerOfTwo[c] + sum[less]) = Bits(PowerOfTwo[c]) \cup Bits(sum[less])
    BY <2>3, <2>5, <2>6, BitsAdd
  <2>. QED
    BY <2>2, <2>3, <2>4, <2>5, <2>7
<1>7. \A n \in Nat : n \in T => n + 1 \in T
  BY <1>6
<1>8. Cardinality(S) \in T
  <2>. HIDE DEF T
  <2>1. Nat \subseteq T
    BY <1>5, <1>7, Induction
  <2>. QED
    BY <1>4, <2>1
<1>. QED
  BY <1>3, <1>8

-----------------------------------------------------------------------------
(* The logical operations and the shifter *)

LEMMA BitsPlaces == \A x : Bits(x) \in SUBSET (0 .. Width - 1)
BY DEF Bits

LEMMA LogicBits ==
  ASSUME NEW x, NEW y
  PROVE  /\ And(x, y) \in Word /\ Bits(And(x, y)) = Bits(x) \cap Bits(y)
         /\ Or(x, y) \in Word /\ Bits(Or(x, y)) = Bits(x) \cup Bits(y)
         /\ Xor(x, y) \in Word
         /\ Bits(Xor(x, y)) = (Bits(x) \cup Bits(y)) \ (Bits(x) \cap Bits(y))
         /\ ValueOf(Bits(x) \ Bits(y)) \in Word
         /\ Bits(ValueOf(Bits(x) \ Bits(y))) = Bits(x) \ Bits(y)
<1>1. /\ Bits(x) \cap Bits(y) \in SUBSET (0 .. Width - 1)
      /\ Bits(x) \cup Bits(y) \in SUBSET (0 .. Width - 1)
      /\ (Bits(x) \cup Bits(y)) \ (Bits(x) \cap Bits(y)) \in SUBSET (0 .. Width - 1)
      /\ Bits(x) \ Bits(y) \in SUBSET (0 .. Width - 1)
  BY BitsPlaces
<1>. QED
  BY <1>1, ValueBits DEF And, Or, Xor

\* A remainder by the modulus has the bits of the number.
LEMMA BitsTruncated ==
  ASSUME NEW x \in Nat
  PROVE  x % Modulus \in Word /\ Bits(x % Modulus) = Bits(x)
<1>. x \in Int
  OBVIOUS
<1>1. PICK q \in Int, r \in 0 .. Modulus - 1 :
        x = Modulus * q + r /\ q = x \div Modulus /\ r = x % Modulus
  BY Divided
<1>2. ASSUME NEW i \in 0 .. Width - 1
      PROVE  i \in Bits(r) <=> i \in Bits(x)
  <2>1. PICK p \in Nat \ {0} : p = PowerOfTwo[i]
    BY PowerPositive
  <2>2. PICK k \in Nat : Width = (k + 1) + i
    <3>1. Width - i - 1 \in Nat /\ Width = ((Width - i - 1) + 1) + i
      OBVIOUS
    <3>. QED
      BY <3>1
  <2>3. PICK a \in Nat : a = PowerOfTwo[k]
    BY <2>2, PowerPositive
  <2>4. PowerOfTwo[k + 1] = 2 * a
    BY <2>2, <2>3, Doubles
  <2>5. Modulus = (2 * a) * p
    BY <2>1, <2>2, <2>4, PowerSum, ModulusAssumption
  <2>6. r \in Int
    OBVIOUS
  <2>7. PICK s \in Int, t \in 0 .. p - 1 : r = p * s + t /\ s = r \div p
    BY <2>6, Divided
  <2>8. PICK m \in Int : m = a * q
    OBVIOUS
  <2>9. PICK z \in Int : z = 2 * m + s
    OBVIOUS
  <2>10. x = p * z + t
    <3>1. Modulus * q = p * (2 * m)
      <4>1. ((2 * a) * p) * q = p * (2 * (a * q))
        OBVIOUS
      <4>. QED
        BY <2>5, <2>8, <4>1
    <3>2. p * z = p * (2 * m) + p * s
      BY <2>9
    <3>3. PICK u \in Int : u = p * (2 * m)
      OBVIOUS
    <3>4. PICK v \in Int : v = p * s
      OBVIOUS
    <3>5. x = u + r /\ r = v + t /\ p * z = u + v
      BY <1>1, <2>7, <3>1, <3>2, <3>3, <3>4
    <3>. QED
      BY <3>5
  <2>11. x \div p = z
    BY <2>10, Unique
  <2>12. z % 2 = s % 2
    BY <2>9, Parity
  <2>. QED
    BY <2>1, <2>7, <2>11, <2>12 DEF Bits
<1>. QED
  BY <1>1, <1>2, BitsPlaces DEF Word

LEMMA UpBits ==
  ASSUME NEW x \in Word, NEW n \in 0 .. Width - 1
  PROVE  /\ ShiftedUp(x, n) \in Word
         /\ \A i \in 0 .. Width - 1 : i \in Bits(ShiftedUp(x, n)) <=> i - n \in Bits(x)
<1>. x \in Nat
  BY DEF Word
<1>1. PICK b \in Nat \ {0} : b = PowerOfTwo[n]
  BY PowerPositive
<1>2. PICK y \in Nat : y = x * b
  <2>1. x * b \in Nat
    OBVIOUS
  <2>. QED
    BY <2>1
<1>3. ShiftedUp(x, n) = y % Modulus
  BY <1>1, <1>2 DEF ShiftedUp
<1>4. y % Modulus \in Word /\ Bits(y % Modulus) = Bits(y)
  BY BitsTruncated
<1>5. ASSUME NEW i \in 0 .. Width - 1
      PROVE  i \in Bits(y) <=> i - n \in Bits(x)
  <2>1. CASE n <= i
    <3>1. PICK j \in Nat : j = i - n /\ i = j + n /\ j \in 0 .. Width - 1
      <4>1. i - n \in Nat /\ i = (i - n) + n /\ i - n \in 0 .. Width - 1
        BY <2>1
      <4>. QED
        BY <4>1
    <3>2. PICK a \in Nat \ {0} : a = PowerOfTwo[j]
      BY <3>1, PowerPositive
    <3>3. PowerOfTwo[i] = a * b
      BY <1>1, <3>1, <3>2, PowerSum
    <3>4. (x * b) \div (a * b) = x \div a
      BY DividedScaled
    <3>5. y \div PowerOfTwo[i] = x \div PowerOfTwo[j]
      BY <1>2, <3>2, <3>3, <3>4
    <3>. QED
      BY <3>1, <3>5 DEF Bits
  <2>2. CASE i < n
    <3>1. PICK k \in Nat : n = (k + 1) + i
      <4>1. n - i - 1 \in Nat /\ n = ((n - i - 1) + 1) + i
        BY <2>2
      <4>. QED
        BY <4>1
    <3>2. PICK p \in Nat \ {0} : p = PowerOfTwo[i]
      BY PowerPositive
    <3>3. PICK a \in Nat : a = PowerOfTwo[k]
      BY <3>1, PowerPositive
    <3>4. PowerOfTwo[k + 1] = 2 * a
      BY <3>1, <3>3, Doubles
    <3>5. b = (2 * a) * p
      BY <1>1, <3>1, <3>2, <3>4, PowerSum
    <3>6. PICK m \in Int : m = x * a
      OBVIOUS
    <3>7. y = p * (2 * m) + 0
      <4>1. x * ((2 * a) * p) = p * (2 * (x * a))
        OBVIOUS
      <4>. QED
        BY <1>2, <3>5, <3>6, <4>1
    <3>8. y \in Int /\ 2 * m \in Int /\ 0 \in 0 .. p - 1
      OBVIOUS
    <3>9. y \div p = 2 * m
      BY <3>7, <3>8, Unique
    <3>10. (2 * m + 0) % 2 = 0 /\ 2 * m + 0 = 2 * m
      BY Parity
    <3>11. i \notin Bits(y)
      BY <3>2, <3>9, <3>10 DEF Bits
    <3>12. i - n \notin Bits(x)
      BY <2>2, BitsPlaces
    <3>. QED
      BY <3>11, <3>12
  <2>. QED
    BY <2>1, <2>2
<1>. QED
  BY <1>3, <1>4, <1>5

LEMMA DownBits ==
  ASSUME NEW x \in Word, NEW n \in 0 .. Width - 1
  PROVE  /\ ShiftedDown(x, n) \in Word
         /\ \A i \in 0 .. Width - 1 : i \in Bits(ShiftedDown(x, n)) <=> i + n \in Bits(x)
<1>. x \in Nat /\ x \in Int
  BY DEF Word
<1>1. PICK b \in Nat \ {0} : b = PowerOfTwo[n]
  BY PowerPositive
<1>2. PICK q \in Int, r \in 0 .. b - 1 : x = b * q + r /\ q = x \div b
  BY Divided
<1>3. ShiftedDown(x, n) = q
  BY <1>1, <1>2 DEF ShiftedDown
<1>4. q \in Nat
  BY <1>2, Quotient
<1>5. q \in Word
  <2>1. b * q >= q
    BY <1>4
  <2>. QED
    BY <1>2, <1>4, <2>1 DEF Word
<1>6. ASSUME NEW i \in 0 .. Width - 1
      PROVE  i \in Bits(q) <=> i + n \in Bits(x)
  <2>1. PICK a \in Nat \ {0} : a = PowerOfTwo[i]
    BY PowerPositive
  <2>2. b * a \in Nat \ {0} /\ q \div a = x \div (b * a)
    BY <1>2, DividedTwice
  <2>3. CASE i + n < Width
    <3>1. PowerOfTwo[n + i] = b * a /\ n + i = i + n /\ i + n \in 0 .. Width - 1
      BY <1>1, <2>1, <2>3, PowerSum
    <3>2. q \div PowerOfTwo[i] = x \div PowerOfTwo[i + n]
      BY <2>1, <2>2, <3>1
    <3>. QED
      BY <3>1, <3>2 DEF Bits
  <2>4. CASE Width <= i + n
    <3>1. PICK j \in Nat : Width = n + j /\ j <= i
      <4>1. Width - n \in Nat /\ Width = n + (Width - n) /\ Width - n <= i
        BY <2>4
      <4>. QED
        BY <4>1
    <3>2. PICK c \in Nat \ {0} : c = PowerOfTwo[j]
      BY <3>1, PowerPositive
    <3>3. Modulus = b * c
      BY <1>1, <3>1, <3>2, PowerSum, ModulusAssumption
    <3>4. q < c
      <4>1. SUFFICES ASSUME c <= q PROVE FALSE
        BY <1>4
      <4>2. b * c <= b * q
        <5>1. b * (q - c) >= 0
          BY <4>1
        <5>2. b * (q - c) = b * q - b * c
          OBVIOUS
        <5>. QED
          BY <5>1, <5>2
      <4>. QED
        BY <1>2, <3>3, <4>2 DEF Word
    <3>5. j \in 0 .. Width
      BY <3>1
    <3>6. i \notin Bits(q)
      BY <1>4, <3>1, <3>2, <3>4, <3>5, NoBitAbove
    <3>7. i + n \notin Bits(x)
      BY <2>4, BitsPlaces
    <3>. QED
      BY <3>6, <3>7
  <2>. QED
    BY <2>3, <2>4
<1>. QED
  BY <1>3, <1>5, <1>6

LEMMA AllBits == Modulus - 1 \in Word /\ Bits(Modulus - 1) = 0 .. Width - 1
<1>1. ASSUME NEW i \in 0 .. Width - 1
      PROVE  i \in Bits(Modulus - 1)
  <2>1. PICK p \in Nat \ {0} : p = PowerOfTwo[i]
    BY PowerPositive
  <2>2. PICK k \in Nat : Width = (k + 1) + i
    <3>1. Width - i - 1 \in Nat /\ Width = ((Width - i - 1) + 1) + i
      OBVIOUS
    <3>. QED
      BY <3>1
  <2>3. PICK a \in Nat : a = PowerOfTwo[k]
    BY <2>2, PowerPositive
  <2>4. PowerOfTwo[k + 1] = 2 * a
    BY <2>2, <2>3, Doubles
  <2>5. Modulus = (2 * a) * p
    BY <2>1, <2>2, <2>4, PowerSum, ModulusAssumption
  <2>6. PICK q \in Int : q = 2 * (a - 1) + 1
    OBVIOUS
  <2>7. Modulus - 1 = p * q + (p - 1)
    <3>1. p * q = (2 * a) * p - p
      BY <2>6
    <3>. QED
      BY <2>5, <3>1
  <2>8. Modulus - 1 \in Int /\ p - 1 \in 0 .. p - 1
    OBVIOUS
  <2>9. (Modulus - 1) \div p = q
    BY <2>7, <2>8, Unique
  <2>10. q % 2 = 1
    <3>1. (2 * (a - 1) + 1) % 2 = 1 % 2
      BY Parity
    <3>. QED
      BY <2>6, <3>1
  <2>. QED
    BY <2>1, <2>9, <2>10 DEF Bits
<1>2. Modulus - 1 \in Word
  BY DEF Word
<1>3. 0 .. Width - 1 \subseteq Bits(Modulus - 1)
  BY <1>1
<1>. QED
  BY <1>2, <1>3, BitsPlaces

\* How the logical operations fit together.
LEMMA LogicCorrect == ASSUME NEW c PROVE LogicAsBits(c)
<1>. SUFFICES ASSUME NEW a \in Word, NEW b \in Word
              PROVE  /\ Xor(a, b) = 0 <=> a = b
                     /\ And(a, b) + ValueOf(Bits(a) \ Bits(b)) = a
                     /\ Or(a, b) = Xor(a, b) + And(a, b)
  BY DEF LogicAsBits, TempOf
<1>1. Xor(a, b) = 0 <=> a = b
  <2>1. Xor(a, b) = 0 <=> Bits(Xor(a, b)) = {}
    BY LogicBits, BitsOfZero, BitsTell
  <2>2. Bits(Xor(a, b)) = {} <=> Bits(a) = Bits(b)
    <3>1. Bits(Xor(a, b)) = (Bits(a) \cup Bits(b)) \ (Bits(a) \cap Bits(b))
      BY LogicBits
    <3>. QED
      BY <3>1
  <2>. QED
    BY <2>1, <2>2, BitsTell
<1>2. And(a, b) + ValueOf(Bits(a) \ Bits(b)) = a
  <2>. DEFINE x == And(a, b)
              y == ValueOf(Bits(a) \ Bits(b))
  <2>1. /\ x \in Word /\ Bits(x) = Bits(a) \cap Bits(b)
        /\ y \in Word /\ Bits(y) = Bits(a) \ Bits(b)
    BY LogicBits
  <2>. HIDE DEF x, y
  <2>2. x + y \in Word /\ Bits(x + y) = Bits(x) \cup Bits(y)
    BY <2>1, BitsAdd
  <2>3. Bits(x + y) = Bits(a)
    BY <2>1, <2>2
  <2>4. x + y = a
    BY <2>2, <2>3, BitsTell
  <2>. QED
    BY <2>4 DEF x, y
<1>3. Or(a, b) = Xor(a, b) + And(a, b)
  <2>. DEFINE x == Xor(a, b)
              y == And(a, b)
  <2>1. /\ x \in Word /\ Bits(x) = (Bits(a) \cup Bits(b)) \ (Bits(a) \cap Bits(b))
        /\ y \in Word /\ Bits(y) = Bits(a) \cap Bits(b)
        /\ Or(a, b) \in Word /\ Bits(Or(a, b)) = Bits(a) \cup Bits(b)
    BY LogicBits
  <2>. HIDE DEF x, y
  <2>2. x + y \in Word /\ Bits(x + y) = Bits(x) \cup Bits(y)
    BY <2>1, BitsAdd
  <2>3. Bits(x + y) = Bits(Or(a, b))
    BY <2>1, <2>2
  <2>4. x + y = Or(a, b)
    BY <2>1, <2>2, <2>3, BitsTell
  <2>. QED
    BY <2>4 DEF x, y
<1>. QED
  BY <1>1, <1>2, <1>3

LEMMA TopBit == ASSUME NEW x PROVE Negative(x) <=> Width - 1 \in Bits(x)
<1>1. PICK p \in Nat : p = PowerOfTwo[Width - 1]
  BY PowerPositive
<1>2. Modulus = 2 * p + 0
  <2>1. Width - 1 \in 0 .. Width - 1 /\ (Width - 1) + 1 = Width
    OBVIOUS
  <2>. QED
    BY <1>1, <2>1, Doubles, ModulusAssumption
<1>3. Modulus \div 2 = p
  <2>1. 2 \in Nat \ {0} /\ 0 \in 0 .. 2 - 1 /\ Modulus \in Int /\ p \in Int
    OBVIOUS
  <2>. QED
    BY <1>2, <2>1, Unique
<1>4. Width - 1 \in 0 .. Width - 1
  OBVIOUS
<1>. QED
  BY <1>1, <1>3, <1>4 DEF Negative, Bits

\* By any amount but zero each shift gives one word.
LEMMA ShiftGives ==
  ASSUME NEW n \in 1 .. Width - 1, NEW x
  PROVE  /\ Effectuer_Decalage("LSL", n, x) = {ShiftedUp(x, n)}
         /\ Effectuer_Decalage("LSR", n, x) = {ShiftedDown(x, n)}
         /\ Effectuer_Decalage("ROR", n, x)
              = {Or(ShiftedDown(x, n), ShiftedUp(x, Width - n))}
         /\ Effectuer_Decalage("ASR", n, x)
              = IF Negative(x)
                THEN {Or(ShiftedDown(x, n), ShiftedUp(Modulus - 1, Width - n))}
                ELSE {ShiftedDown(x, n)}
<1>1. \A z : ShiftedOver(z, n) = {ShiftedUp(z, Width - n)}
  BY DEF ShiftedOver
<1>2. Effectuer_Decalage("LSL", n, x) = {ShiftedUp(x, n)}
  BY DEF Effectuer_Decalage
<1>3. Effectuer_Decalage("LSR", n, x) = {ShiftedDown(x, n)}
  BY DEF Effectuer_Decalage
<1>4. Effectuer_Decalage("ROR", n, x)
        = { Or(ShiftedDown(x, n), y) : y \in ShiftedOver(x, n) }
  BY DEF Effectuer_Decalage
<1>5. Effectuer_Decalage("ASR", n, x)
        = IF Negative(x)
          THEN { Or(ShiftedDown(x, n), mask) : mask \in ShiftedOver(Modulus - 1, n) }
          ELSE {ShiftedDown(x, n)}
  BY DEF Effectuer_Decalage
<1>. QED
  BY <1>1, <1>2, <1>3, <1>4, <1>5

\* The shifter gives the bits it is asked for, for words of any width.
LEMMA ShiftsCorrect == ShiftsAsBits
<1>. SUFFICES ASSUME NEW n \in 1 .. Width - 1, NEW x \in Word, NEW y \in Word
              PROVE  LET up   == { i + n : i \in Bits(x) }
                         down == { i - n : i \in Bits(x) }
                         Gives(bit6, bit5, z) ==
                           z \in Effectuer_Decalage(Determiner_Decalage(bit6, bit5), n, x)
                     IN  /\ Gives(0, 0, y) <=> Bits(y) = up \cap (0 .. Width - 1)
                         /\ Gives(0, 1, y) <=> Bits(y) = down \cap Nat
                         /\ Gives(1, 1, y) <=> Bits(y) = { i % Width : i \in down }
                         /\ Gives(1, 0, y)
                              <=> \A i \in 0 .. Width - 1 :
                                    i \in Bits(y)
                                      <=> (IF i + n < Width THEN i + n ELSE Width - 1)
                                            \in Bits(x)
  BY DEF ShiftsAsBits
<1>. DEFINE up   == { i + n : i \in Bits(x) }
            down == { i - n : i \in Bits(x) }
            low  == ShiftedDown(x, n)
            over == ShiftedUp(x, Width - n)
            mask == ShiftedUp(Modulus - 1, Width - n)
<1>1. /\ Determiner_Decalage(0, 0) = "LSL" /\ Determiner_Decalage(0, 1) = "LSR"
      /\ Determiner_Decalage(1, 0) = "ASR" /\ Determiner_Decalage(1, 1) = "ROR"
  BY DEF Determiner_Decalage
<1>2. n \in 0 .. Width - 1 /\ Width - n \in 0 .. Width - 1 /\ n \in Int
  OBVIOUS
<1>3. Bits(x) \subseteq 0 .. Width - 1 /\ Bits(y) \subseteq 0 .. Width - 1
  BY BitsPlaces
<1>4. /\ low \in Word
      /\ \A i \in 0 .. Width - 1 : i \in Bits(low) <=> i + n \in Bits(x)
  BY <1>2, DownBits
<1>. HIDE DEF low, over, mask
<1>0. \A z \in Word : y = z <=> Bits(y) = Bits(z)
  BY BitsTell
<1>5. y \in Effectuer_Decalage("LSL", n, x) <=> Bits(y) = up \cap (0 .. Width - 1)
  <2>1. /\ ShiftedUp(x, n) \in Word
        /\ \A i \in 0 .. Width - 1 : i \in Bits(ShiftedUp(x, n)) <=> i - n \in Bits(x)
    BY <1>2, UpBits
  <2>2. \A i \in 0 .. Width - 1 : i - n \in Bits(x) <=> i \in up
    <3>1. \A i \in 0 .. Width - 1, j \in Bits(x) : i = j + n <=> j = i - n
      BY <1>2, <1>3
    <3>. QED
      BY <3>1
  <2>3. Bits(ShiftedUp(x, n)) = up \cap (0 .. Width - 1)
    BY <2>1, <2>2, BitsPlaces
  <2>4. y \in Effectuer_Decalage("LSL", n, x) <=> y = ShiftedUp(x, n)
    BY ShiftGives
  <2>. HIDE DEF up
  <2>. QED
    BY <1>0, <2>1, <2>3, <2>4
<1>6. y \in Effectuer_Decalage("LSR", n, x) <=> Bits(y) = down \cap Nat
  <2>1. \A i \in 0 .. Width - 1 : i + n \in Bits(x) <=> i \in down
    <3>1. \A i \in 0 .. Width - 1, j \in Bits(x) : i = j - n <=> j = i + n
      BY <1>2, <1>3
    <3>. QED
      BY <3>1
  <2>2. down \cap Nat \subseteq 0 .. Width - 1
    BY <1>2, <1>3
  <2>3. Bits(low) = down \cap Nat
    BY <1>4, <2>1, <2>2, BitsPlaces
  <2>4. y \in Effectuer_Decalage("LSR", n, x) <=> y = low
    BY ShiftGives DEF low
  <2>. HIDE DEF down
  <2>. QED
    BY <1>0, <1>4, <2>3, <2>4
<1>7. y \in Effectuer_Decalage("ROR", n, x) <=> Bits(y) = { i % Width : i \in down }
  <2>1. /\ over \in Word
        /\ \A i \in 0 .. Width - 1 : i \in Bits(over) <=> i - (Width - n) \in Bits(x)
    BY <1>2, UpBits DEF over
  <2>2. Or(low, over) \in Word /\ Bits(Or(low, over)) = Bits(low) \cup Bits(over)
    BY LogicBits
  <2>3. \A j \in Bits(x) : (j - n) % Width = IF n <= j THEN j - n ELSE j - n + Width
    <3>1. ASSUME NEW j \in Bits(x)
          PROVE  (j - n) % Width = IF n <= j THEN j - n ELSE j - n + Width
      <4>1. j \in 0 .. Width - 1 /\ j - n \in Int
        BY <1>2, <1>3
      <4>2. CASE n <= j
        <5>1. j - n \in 0 .. Width - 1 /\ j - n = Width * 0 + (j - n)
          BY <4>1, <4>2
        <5>. QED
          BY <4>1, <4>2, <5>1, Unique
      <4>3. CASE j < n
        <5>1. PICK r \in 0 .. Width - 1 : r = j - n + Width
          BY <4>1, <4>3
        <5>2. PICK q \in Int : q = -1
          OBVIOUS
        <5>3. j - n = Width * q + r
          BY <4>1, <5>1, <5>2
        <5>4. (j - n) % Width = r
          BY <4>1, <5>3, Unique
        <5>. QED
          BY <4>1, <4>3, <5>1, <5>4
      <4>. QED
        BY <4>1, <4>2, <4>3
    <3>. QED
      BY <3>1
  <2>4. \A i \in 0 .. Width - 1 :
          i \in Bits(Or(low, over)) <=> \E j \in Bits(x) : i = (j - n) % Width
    <3>. SUFFICES ASSUME NEW i \in 0 .. Width - 1
                  PROVE  i + n \in Bits(x) \/ i - (Width - n) \in Bits(x)
                           <=> \E j \in Bits(x) : i = (j - n) % Width
      BY <1>4, <2>1, <2>2
    <3>1. \A j \in Bits(x) :
            i = (IF n <= j THEN j - n ELSE j - n + Width)
              <=> j = i + n \/ j = i - (Width - n)
      BY <1>2, <1>3
    <3>. QED
      BY <2>3, <3>1
  <2>5. \A j \in Bits(x) : (j - n) % Width \in 0 .. Width - 1
    BY <1>2, <1>3, <2>3
  <2>6. Bits(Or(low, over)) = { i % Width : i \in down }
    <3>1. { i % Width : i \in down } = { (j - n) % Width : j \in Bits(x) }
      OBVIOUS
    <3>2. { (j - n) % Width : j \in Bits(x) } \subseteq 0 .. Width - 1
      BY <2>5
    <3>3. Bits(Or(low, over)) \subseteq 0 .. Width - 1
      BY BitsPlaces
    <3>. QED
      BY <2>4, <3>1, <3>2, <3>3
  <2>7. y \in Effectuer_Decalage("ROR", n, x) <=> y = Or(low, over)
    BY ShiftGives DEF low, over
  <2>. HIDE DEF down
  <2>. QED
    BY <1>0, <2>2, <2>6, <2>7
<1>8. y \in Effectuer_Decalage("ASR", n, x)
        <=> \A i \in 0 .. Width - 1 :
              i \in Bits(y)
                <=> (IF i + n < Width THEN i + n ELSE Width - 1) \in Bits(x)
  <2>. DEFINE Source(i) == IF i + n < Width THEN i + n ELSE Width - 1
              Fills(z)  == \A i \in 0 .. Width - 1 : i \in Bits(z) <=> Source(i) \in Bits(x)
  <2>1. \A z \in Word : Fills(z) => (y = z <=> Fills(y))
    <3>1. ASSUME NEW z \in Word, Fills(z), Fills(y)
          PROVE  y = z
      <4>1. \A i \in 0 .. Width - 1 : i \in Bits(y) <=> i \in Bits(z)
        BY <3>1
      <4>2. Bits(y) = Bits(z)
        BY <4>1, BitsPlaces
      <4>. QED
        BY <3>1, <4>2, BitsTell
    <3>. QED
      BY <3>1
  <2>2. Negative(x) <=> Width - 1 \in Bits(x)
    BY TopBit
  <2>3. CASE ~Negative(x)
    <3>1. Fills(low)
      BY <1>2, <1>3, <1>4, <2>2, <2>3
    <3>2. y \in Effectuer_Decalage("ASR", n, x) <=> y = low
      BY <2>3, ShiftGives DEF low
    <3>. HIDE DEF Fills
    <3>3. y = low <=> Fills(y)
      BY <1>4, <2>1, <3>1
    <3>. QED
      BY <3>2, <3>3 DEF Fills
  <2>4. CASE Negative(x)
    <3>1. /\ mask \in Word
          /\ \A i \in 0 .. Width - 1 : i \in Bits(mask) <=> i - (Width - n) \in 0 .. Width - 1
      BY <1>2, AllBits, UpBits DEF mask
    <3>2. Or(low, mask) \in Word /\ Bits(Or(low, mask)) = Bits(low) \cup Bits(mask)
      BY LogicBits
    <3>3. Fills(Or(low, mask))
      <4>. SUFFICES ASSUME NEW i \in 0 .. Width - 1
                    PROVE  i + n \in Bits(x) \/ i - (Width - n) \in 0 .. Width - 1
                             <=> Source(i) \in Bits(x)
        BY <1>4, <3>1, <3>2
      <4>1. CASE i + n < Width
        BY <1>2, <4>1
      <4>2. CASE Width <= i + n
        <5>1. i - (Width - n) \in 0 .. Width - 1
          BY <1>2, <4>2
        <5>2. Source(i) = Width - 1
          BY <1>2, <4>2
        <5>. QED
          BY <2>2, <2>4, <5>1, <5>2
      <4>. QED
        BY <1>2, <4>1, <4>2
    <3>4. y \in Effectuer_Decalage("ASR", n, x) <=> y = Or(low, mask)
      BY <2>4, ShiftGives DEF low, mask
    <3>. HIDE DEF Fills
    <3>5. y = Or(low, mask) <=> Fills(y)
      BY <2>1, <3>2, <3>3
    <3>. QED
      BY <3>4, <3>5 DEF Fills
  <2>. QED
    BY <2>3, <2>4
<1>. QED
  BY <1>1, <1>5, <1>6, <1>7, <1>8

-----------------------------------------------------------------------------
(* What the operations leave in temp *)

LEMMA WrappedInt ==
  ASSUME NEW x \in Int
  PROVE  Wrapped(x) \in Int /\ Truncated(x) \in Word
<1>1. \A m \in Nat \ {0} : x % m \in 0 .. m - 1
  OBVIOUS
<1>. QED
  BY <1>1, Square DEF Wrapped, Truncated, Word

\* What an operation leaves in temp is a number, whatever the operation.
LEMMA TempInt ==
  ASSUME NEW op, NEW a \in Word, NEW b \in Word, NEW c \in {0, 1}
  PROVE  TempOf(op, a, b, c) \in Int
<1>1. a \in Int /\ b \in Int /\ c \in Int
  BY DEF Word
<1>2. /\ a - b \in Int /\ b - a \in Int /\ a + b \in Int /\ a + b + c \in Int
      /\ a - b + c - 1 \in Int /\ b - a + c - 1 \in Int /\ -1 - b \in Int
  BY <1>1
<1>3. /\ Wrapped(a - b) \in Int /\ Wrapped(b - a) \in Int
      /\ Wrapped(a + b) \in Int /\ Wrapped(a + b + c) \in Int
      /\ Wrapped(a - b + c - 1) \in Int /\ Wrapped(b - a + c - 1) \in Int
      /\ Wrapped(-1 - b) \in Int
  BY <1>2, WrappedInt
<1>4. /\ And(a, b) \in Int /\ Or(a, b) \in Int /\ Xor(a, b) \in Int
      /\ ValueOf(Bits(a) \ Bits(b)) \in Int
  <2>1. \A x \in Word : x \in Int
    BY DEF Word
  <2>. QED
    BY <2>1, LogicBits
<1>. QED
  BY <1>1, <1>3, <1>4 DEF TempOf

-----------------------------------------------------------------------------
(* What an addition and a comparison leave in the flags *)

\* An addition of words with a carry in: the word and the carry out make the
\* sum.
LEMMA Addition ==
  ASSUME NEW a \in Word, NEW b \in Word, NEW c \in {0, 1}
  PROVE  /\ Truncated(Wrapped(a + b + c)) \in Word
         /\ FlagsOf(Wrapped(a + b + c)).C \in {0, 1}
         /\ a + b + c = Truncated(Wrapped(a + b + c))
                          + Modulus * FlagsOf(Wrapped(a + b + c)).C
<1>. DEFINE sum == a + b + c
<1>1. sum \in 0 .. 2 * Modulus - 1
  BY WordSum
<1>2. Wrapped(sum) = sum
  <2>1. sum \in 0 .. Modulus * Modulus - 1
    BY <1>1, Square
  <2>. QED
    BY <2>1, Square, Remainder DEF Wrapped
<1>3. FlagsOf(sum).C = Truth((sum \div Modulus) % 2 = 1)
  BY DEF FlagsOf
<1>4. CASE sum \in 0 .. Modulus - 1
  <2>1. sum % Modulus = sum /\ sum \div Modulus = 0
    BY <1>4, Remainder
  <2>. QED
    BY <1>2, <1>3, <1>4, <2>1 DEF Truncated, Truth, Word
<1>5. CASE sum \in Modulus .. 2 * Modulus - 1
  <2>1. sum % Modulus = sum - Modulus /\ sum \div Modulus = 1
    <3>1. sum \in Int /\ sum >= Modulus /\ sum < 2 * Modulus
      BY <1>5
    <3>. HIDE DEF sum
    <3>. QED
      BY <3>1, RemainderAbove
  <2>. QED
    BY <1>2, <1>3, <1>5, <2>1 DEF Truncated, Truth, Word
<1>. QED
  BY <1>1, <1>4, <1>5

\* The top word of a sum of numbers of two words takes the carry of the low one.
LEMMA TwoWords ==
  ASSUME NEW low \in Word, NEW high \in Word, NEW carry \in {0, 1}
  PROVE  (Modulus * (high + Modulus * carry) + low) % (Modulus * Modulus)
           = Modulus * high + low
<1>. DEFINE square == Modulus * Modulus
            number == Modulus * high + low
<1>1. number \in 0 .. square - 1
  <2>1. Modulus * high \in Nat /\ Modulus * high <= Modulus * (Modulus - 1)
    BY SMT DEF Word
  <2>2. Modulus * (Modulus - 1) = square - Modulus
    BY SMT
  <2>. QED
    BY <2>1, <2>2, Square DEF Word
<1>2. Modulus * (high + Modulus * carry) + low = number + square * carry
  BY SMT DEF Word
<1>3. CASE carry = 0
  BY <1>1, <1>2, <1>3, Square, Remainder
<1>4. CASE carry = 1
  <2>. DEFINE total == number + square
  <2>1. /\ total \in Int /\ square \in Nat \ {0}
        /\ total >= square /\ total < 2 * square
    BY <1>1, Square
  <2>2. total % square = total - square
    <3>. HIDE DEF total, square
    <3>. QED
      BY <2>1, RemainderAbove
  <2>. QED
    BY <1>1, <1>2, <1>4, <2>2, Square
<1>. QED
  BY <1>3, <1>4

\* Z after a comparison.
LEMMA Comparison ==
  ASSUME NEW a \in Word, NEW b \in Word
  PROVE  FlagsOf(Wrapped(a - b)).Z = 1 <=> a = b
<1>. DEFINE square == Modulus * Modulus
<1>1. a - b \in -square .. square - 1
  BY Square DEF Word
<1>2. Wrapped(a - b) = 0 <=> a - b = 0
  <2>1. CASE a - b \in 0 .. square - 1
    BY <2>1, Square, Remainder DEF Wrapped
  <2>2. CASE a - b \in -square .. -1
    <3>1. (a - b) % square = a - b + square
      BY <2>2, Square, Remainder
    <3>2. a - b # -square
      BY Square DEF Word
    <3>. QED
      BY <2>2, <3>1, <3>2, Square DEF Wrapped
  <2>. QED
    BY <1>1, <2>1, <2>2, Square
<1>. QED
  BY <1>2 DEF FlagsOf, Truth, Word
-----------------------------------------------------------------------------
(* The flags are those of the last instruction that has set them *)

Typed ==
  /\ cpsr \in Status
  /\ spsr \in [BankedModes \cap Modes -> Status]
  /\ setter \in Setter

Remembered ==
  setter.op # "none" =>
    cpsr.flags = FlagsOf(TempOf(setter.op, setter.a, setter.b, 0))

IInv == Typed /\ Remembered

LEMMA StatusTypes ==
  /\ ResetStatus \in Status /\ NoStatus \in Status
  /\ NoSetter \in Setter /\ NoSetter.op = "none"
  /\ \A temp : FlagsOf(temp) \in Flags
BY DEF ResetStatus, NoStatus, NoSetter, Setter, Status, Flags, NoFlags, FlagsOf, Truth

LEMMA SavedType == Typed => registers_read_spsr(cpsr.mode) \in Status
BY StatusTypes DEF Typed, registers_read_spsr, Status

\* The answers that leave the flags as they are.
LEMMA KeepsFlags ==
  ASSUME IInv, NEW result, NEW status \in Status, NEW next,
         Return(result, status, next), result # "RESET",
         status.flags = cpsr.flags, UNCHANGED setter,
         spsr' \in [BankedModes \cap Modes -> Status]
  PROVE  IInv'
BY DEF IInv, Typed, Remembered, Return

\* Those that change them, and with them what is remembered.
LEMMA Forgets ==
  ASSUME IInv, NEW result, NEW status \in Status, NEW next,
         Return(result, status, next), setter' = NoSetter, UNCHANGED spsr
  PROVE  IInv'
BY StatusTypes DEF IInv, Typed, Remembered, Return

LEMMA OperationKeeps ==
  ASSUME IInv, NEW i \in Instructions, NEW a \in Word, NEW b \in Word,
         Effectuer_Operation(i, a, b), UNCHANGED spsr
  PROVE  IInv'
<1>. DEFINE op   == OperationOf(i)
            temp == TempOf(op, a, b, cpsr.flags.C)
            next == IF i.rd = "pc" /\ op \notin Tests THEN Truncated(temp) ELSE Fetched
<1>. HIDE DEF next
<1>1. CASE ~ (20 \in i.bits \/ op \in Tests)
  <2>1. Return("NONE", cpsr, next) /\ UNCHANGED setter
    BY <1>1 DEF Effectuer_Operation, next
  <2>. QED
    BY <2>1, KeepsFlags DEF IInv, Typed
<1>2. CASE 20 \in i.bits \/ op \in Tests
  <2>1. Update_Flags(temp, i.rd, next) /\ setter' = SetterAfter(op, a, b, i.rd)
    BY <1>2 DEF Effectuer_Operation, next
  <2>. HIDE DEF op
  <2>2. CASE i.rd = "pc" /\ registers_mode_has_spsr(cpsr.mode)
    <3>1. Return("NONE", registers_read_spsr(cpsr.mode), next) /\ setter' = NoSetter
      BY <2>1, <2>2 DEF Update_Flags, SetterAfter
    <3>2. registers_read_spsr(cpsr.mode) \in Status
      BY SavedType DEF IInv
    <3>. QED
      BY <3>1, <3>2, Forgets
  <2>3. CASE i.rd = "pc" /\ ~ registers_mode_has_spsr(cpsr.mode)
    <3>1. Return("UNDEFINED_INSTRUCTION", cpsr, next) /\ UNCHANGED setter
      BY <2>1, <2>3 DEF Update_Flags, SetterAfter
    <3>. QED
      BY <3>1, KeepsFlags DEF IInv, Typed
  <2>4. CASE i.rd # "pc"
    <3>1. cpsr' = [cpsr EXCEPT !.flags = FlagsOf(temp)]
      BY <2>1, <2>4 DEF Update_Flags, Return
    <3>2. setter' = IF op \in {"ADD", "CMP"} THEN [op |-> op, a |-> a, b |-> b]
                    ELSE NoSetter
      BY <2>1, <2>4 DEF SetterAfter
    <3>3. Typed'
      <4>1. FlagsOf(temp) \in Flags
        BY StatusTypes
      <4>2. cpsr' \in Status
        BY <3>1, <4>1 DEF IInv, Typed, Status
      <4>3. setter' \in Setter
        BY <3>2, StatusTypes DEF Setter
      <4>. QED
        BY <4>2, <4>3 DEF IInv, Typed
    <3>4. Remembered'
      <4>1. cpsr'.flags = FlagsOf(temp)
        BY <3>1 DEF IInv, Typed, Status
      <4>2. CASE op \in {"ADD", "CMP"}
        <5>1. setter' = [op |-> op, a |-> a, b |-> b]
          BY <3>2, <4>2
        <5>2. temp = TempOf(op, a, b, 0)
          BY <4>2 DEF TempOf
        <5>. QED
          BY <4>1, <5>1, <5>2 DEF Remembered
      <4>3. CASE op \notin {"ADD", "CMP"}
        BY <3>2, <4>3, StatusTypes DEF Remembered
      <4>. QED
        BY <4>2, <4>3
    <3>. QED
      BY <3>3, <3>4 DEF IInv
  <2>. QED
    BY <2>2, <2>3, <2>4
<1>. QED
  BY <1>1, <1>2

LEMMA MaskedType ==
  ASSUME NEW i \in Instructions, NEW operand \in Statuses, NEW state \in BOOLEAN
  PROVE  Masked(i, operand, state) \in Status
<1>1. operand \in Status
  OBVIOUS
<1>. QED
  BY <1>1 DEF Masked, MaskedMode, Status, Flags, NoFlags

LEMMA MiscellaneousKeeps ==
  ASSUME IInv, NEW i \in Instructions, Miscellaneous(i)
  PROVE  IInv'
<1>. USE DEF IInv, Typed
<1>1. CASE Fails(i) \/ 21 \notin i.bits
  BY <1>1, KeepsFlags DEF Miscellaneous
<1>2. CASE ~ (Fails(i) \/ 21 \notin i.bits)
  <2>1. PICK operand \in Statuses, reserved \in BOOLEAN :
          fonction_MSR(i, operand, reserved)
    BY <1>2 DEF Miscellaneous
  <2>2. Masked(i, operand, TRUE) \in Status /\ Masked(i, operand, FALSE) \in Status
    BY MaskedType
  <2>3. CASE reserved
    BY <2>1, <2>3, KeepsFlags DEF fonction_MSR
  <2>4. CASE ~ reserved /\ 22 \notin i.bits
    <3>1. CASE cpsr.mode # "USR" /\ operand.state = 1
      BY <2>1, <2>4, <3>1, KeepsFlags DEF fonction_MSR
    <3>2. CASE ~ (cpsr.mode # "USR" /\ operand.state = 1)
      <4>1. Return("NONE", Masked(i, operand, FALSE), Fetched)
              /\ setter' = NoSetter /\ UNCHANGED spsr
        BY <2>1, <2>4, <3>2 DEF fonction_MSR
      <4>. QED
        BY <2>2, <4>1, Forgets
    <3>. QED
      BY <3>1, <3>2
  <2>5. CASE ~ reserved /\ 22 \in i.bits
    <3>1. CASE registers_mode_has_spsr(cpsr.mode)
      <4>1. /\ spsr' = [m \in DOMAIN spsr |->
                          IF m = cpsr.mode THEN Masked(i, operand, TRUE) ELSE spsr[m]]
            /\ Return("NONE", cpsr, Fetched) /\ UNCHANGED setter
        BY <2>1, <2>5, <3>1 DEF fonction_MSR
      <4>2. spsr' \in [BankedModes \cap Modes -> Status]
        BY <2>2, <4>1
      <4>. QED
        BY <4>1, <4>2, KeepsFlags
    <3>2. CASE ~ registers_mode_has_spsr(cpsr.mode)
      BY <2>1, <2>5, <3>2, KeepsFlags DEF fonction_MSR
    <3>. QED
      BY <3>1, <3>2
  <2>. QED
    BY <2>3, <2>4, <2>5
<1>. QED
  BY <1>1, <1>2

LEMMA InvNext == IInv /\ [Next]_vars => IInv'
<1>. SUFFICES ASSUME IInv, [Next]_vars
              PROVE  IInv'
  OBVIOUS
<1>0. cpsr \in Status /\ spsr \in [BankedModes \cap Modes -> Status]
  BY DEF IInv, Typed
<1>1. ASSUME NEW i \in Instructions, SkipDataProcessing(i)
      PROVE  IInv'
  BY <1>0, <1>1, Forgets DEF SkipDataProcessing
<1>2. ASSUME NEW i \in Instructions, DataProcessing(i)
      PROVE  IInv'
  BY <1>2, OperationKeeps DEF DataProcessing
<1>3. ASSUME NEW i \in Instructions, Branch(i)
      PROVE  IInv'
  <2>1. CASE cond_not_respect(i.cond, cpsr.flags) = 1
    BY <1>0, <1>3, <2>1, KeepsFlags DEF Branch
  <2>2. CASE cond_not_respect(i.cond, cpsr.flags) # 1
    <3>. DEFINE status == IF i.cond = 15 THEN [cpsr EXCEPT !.state = 1] ELSE cpsr
    <3>1. status \in Status /\ status.flags = cpsr.flags
      BY <1>0 DEF Status
    <3>2. PICK offset \in Values :
            Return("NONE", status, (Fetched + offset) % Modulus)
      BY <1>3, <2>2 DEF Branch
    <3>. QED
      BY <1>0, <1>3, <3>1, <3>2, KeepsFlags DEF Branch
  <2>. QED
    BY <2>1, <2>2
<1>4. ASSUME NEW i \in Instructions, Swi(i)
      PROVE  IInv'
  BY <1>0, <1>4, KeepsFlags DEF Swi
<1>5. ASSUME NEW i \in Instructions, Miscellaneous(i)
      PROVE  IInv'
  BY <1>5, MiscellaneousKeeps
<1>6. ASSUME NEW i \in Instructions, Transfer(i)
      PROVE  IInv'
  BY <1>0, <1>6, KeepsFlags DEF Transfer
<1>7. ASSUME NEW i \in Instructions, Undefined(i)
      PROVE  IInv'
  BY <1>0, <1>7, KeepsFlags DEF Undefined
<1>8. CASE Interrupt
  BY <1>0, <1>8, Forgets DEF Interrupt
<1>9. ASSUME NEW status \in Statuses, NEW next \in Values, GdbWrites(status, next)
      PROVE  IInv'
  BY <1>9, Forgets DEF GdbWrites
<1>10. CASE UNCHANGED vars
  BY <1>10 DEF vars, IInv, Typed, Remembered
<1>. QED
  BY <1>1, <1>2, <1>3, <1>4, <1>5, <1>6, <1>7, <1>8, <1>9, <1>10 DEF Next

LEMMA Invariance == Spec => []IInv
<1>1. Init => IInv
  <2>1. Init => Typed
    BY StatusTypes DEF Init, Typed
  <2>2. Init => Remembered
    BY StatusTypes DEF Init, Remembered
  <2>. QED
    BY <2>1, <2>2 DEF IInv
<1>2. IInv /\ [Next]_vars => IInv'
  BY InvNext
<1>. QED
  BY <1>1, <1>2, PTL DEF Spec
-----------------------------------------------------------------------------
(* The pc stays a word *)

Placed == pc \in Word /\ answer \in Answers

LEMMA Returns ==
  ASSUME NEW result \in Answers, NEW status, NEW next \in Word,
         Return(result, status, next)
  PROVE  Placed'
<1>1. 0 \in Word
  BY DEF Word
<1>. QED
  BY <1>1 DEF Return, Placed

LEMMA PcNext ==
  ASSUME IInv, Placed, [Next]_vars
  PROVE  Placed'
<1>. DEFINE Ended(next) ==
              \E result \in Answers : \E status : Return(result, status, next)
<1>1. Fetched \in Word /\ \A offset \in Values : (Fetched + offset) % Modulus \in Word
  <2>1. pc + 1 \in Int
    BY DEF Placed, Word
  <2>2. Fetched \in Word
    BY <2>1, WrappedInt DEF Fetched, Truncated
  <2>3. \A offset \in Values : Fetched + offset \in Int
    BY <2>2 DEF Word
  <2>. QED
    BY <2>2, <2>3, WrappedInt DEF Truncated
<1>2. ASSUME NEW next \in Word, Ended(next)
      PROVE  Placed'
  BY <1>2, Returns
<1>. USE DEF Answers
<1>3. ASSUME NEW i \in Instructions,
             SkipDataProcessing(i) \/ Swi(i) \/ Undefined(i)
      PROVE  Placed'
  <2>1. Ended(Fetched)
    BY <1>3 DEF SkipDataProcessing, Swi, Undefined
  <2>. QED
    BY <1>1, <1>2, <2>1
<1>4. ASSUME NEW i \in Instructions, DataProcessing(i)
      PROVE  Placed'
  <2>1. PICK a \in Values, b \in Values : Effectuer_Operation(i, a, b)
    BY <1>4 DEF DataProcessing
  <2>. DEFINE op   == OperationOf(i)
              temp == TempOf(op, a, b, cpsr.flags.C)
              next == IF i.rd = "pc" /\ op \notin Tests THEN Truncated(temp) ELSE Fetched
  <2>2. next \in Word
    <3>1. cpsr.flags.C \in {0, 1}
      BY DEF IInv, Typed, Status, Flags
    <3>2. temp \in Int
      BY <3>1, TempInt
    <3>. HIDE DEF temp
    <3>. QED
      BY <1>1, <3>2, WrappedInt
  <2>3. Update_Flags(temp, i.rd, next) \/ Return("NONE", cpsr, next)
    BY <2>1 DEF Effectuer_Operation
  <2>. HIDE DEF next, temp
  <2>4. Ended(next)
    BY <2>3 DEF Update_Flags
  <2>. QED
    BY <1>2, <2>2, <2>4
<1>5. ASSUME NEW i \in Instructions, Branch(i)
      PROVE  Placed'
  <2>1. CASE cond_not_respect(i.cond, cpsr.flags) = 1
    <3>1. Ended(Fetched)
      BY <1>5, <2>1 DEF Branch
    <3>. QED
      BY <1>1, <1>2, <3>1
  <2>2. CASE cond_not_respect(i.cond, cpsr.flags) # 1
    <3>1. PICK offset \in Values : Ended((Fetched + offset) % Modulus)
      BY <1>5, <2>2 DEF Branch
    <3>. QED
      BY <1>1, <1>2, <3>1
  <2>. QED
    BY <2>1, <2>2
<1>6. ASSUME NEW i \in Instructions, Miscellaneous(i)
      PROVE  Placed'
  <2>1. Ended(Fetched)
    <3>1. CASE Fails(i) \/ 21 \notin i.bits
      BY <1>6, <3>1 DEF Miscellaneous
    <3>2. CASE ~ (Fails(i) \/ 21 \notin i.bits)
      <4>1. PICK operand \in Statuses, reserved \in BOOLEAN :
              fonction_MSR(i, operand, reserved)
        BY <1>6, <3>2 DEF Miscellaneous
      <4>. QED
        BY <4>1 DEF fonction_MSR
    <3>. QED
      BY <3>1, <3>2
  <2>. QED
    BY <1>1, <1>2, <2>1
<1>7. ASSUME NEW i \in Instructions, Transfer(i)
      PROVE  Placed'
  <2>1. PICK next \in {Fetched} \cup Values : Ended(next)
    BY <1>7 DEF Transfer
  <2>. QED
    BY <1>1, <1>2, <2>1
<1>8. CASE Interrupt
  <2>1. Ended(pc)
    BY <1>8 DEF Interrupt
  <2>. QED
    BY <1>2, <2>1 DEF Placed
<1>9. ASSUME NEW status \in Statuses, NEW next \in Values, GdbWrites(status, next)
      PROVE  Placed'
  <2>1. Ended(next)
    BY <1>9 DEF GdbWrites
  <2>. QED
    BY <1>2, <2>1
<1>10. CASE UNCHANGED vars
  BY <1>10 DEF vars, Placed
<1>. QED
  BY <1>3, <1>4, <1>5, <1>6, <1>7, <1>8, <1>9, <1>10 DEF Next

\* Whatever the instructions compute, with the pc as destination too, the
\* status is one of a mode, the pc a word, and what a step returns an answer
\* that arm_exception knows.
THEOREM TypeCorrect == Spec => []TypeOK
<1>1. Init => Placed
  BY DEF Init, Placed, Word, Answers
<1>2. IInv /\ Placed /\ [Next]_vars => Placed'
  BY PcNext
<1>3. IInv /\ Placed => TypeOK
  BY DEF IInv, Typed, Placed, TypeOK
<1>. QED
  BY <1>1, <1>2, <1>3, Invariance, PTL DEF Spec

-----------------------------------------------------------------------------
(* What is read in the flags *)

\* After a comparison EQ holds of equal operands and NE of different ones, for
\* every width of a word, whatever has been executed in between.
THEOREM CompareEqualCorrect == Spec => []CompareEqual
<1>1. IInv => CompareEqual
  <2>. SUFFICES ASSUME IInv, setter.op = "CMP"
                PROVE  /\ cond_not_respect(0, cpsr.flags) = 0 <=> setter.a = setter.b
                       /\ cond_not_respect(1, cpsr.flags) = 0 <=> setter.a # setter.b
    BY DEF CompareEqual
  <2>1. setter.a \in Word /\ setter.b \in Word
    BY DEF IInv, Typed, Setter, NoSetter
  <2>2. cpsr.flags = FlagsOf(Wrapped(setter.a - setter.b))
    BY DEF IInv, Remembered, TempOf
  <2>3. cpsr.flags.Z = 1 <=> setter.a = setter.b
    BY <2>1, <2>2, Comparison
  <2>4. cpsr.flags.Z \in {0, 1}
    BY DEF IInv, Typed, Status, Flags
  <2>. QED
    BY <2>3, <2>4 DEF cond_not_respect, ConditionFails, Truth
<1>. QED
  BY <1>1, Invariance, PTL

\* The carry of ADDS gets through to ADC: their results are the two words of
\* the sum, for every width.
THEOREM CarryChainCorrect == Spec => []CarryChain
<1>1. IInv => CarryChain
  <2>. SUFFICES ASSUME IInv, setter.op = "ADD", NEW a \in Word, NEW b \in Word
                PROVE  Truncated(TempOf("ADC", a, b, cpsr.flags.C)) * Modulus
                           + Truncated(TempOf("ADD", setter.a, setter.b, 0))
                         = ((a * Modulus + setter.a) + (b * Modulus + setter.b))
                             % (Modulus * Modulus)
    BY DEF CarryChain
  <2>. DEFINE low    == Truncated(Wrapped(setter.a + setter.b + 0))
              carry  == FlagsOf(Wrapped(setter.a + setter.b + 0)).C
              high   == Truncated(Wrapped(a + b + carry))
              carry2 == FlagsOf(Wrapped(a + b + carry)).C
  <2>1. setter.a \in Word /\ setter.b \in Word
    BY DEF IInv, Typed, Setter, NoSetter
  <2>2. setter.a + setter.b + 0 = setter.a + setter.b
    BY <2>1 DEF Word
  <2>3. /\ cpsr.flags = FlagsOf(Wrapped(setter.a + setter.b + 0))
        /\ TempOf("ADD", setter.a, setter.b, 0) = Wrapped(setter.a + setter.b + 0)
    BY <2>2 DEF IInv, Remembered, TempOf
  <2>4. /\ low \in Word /\ carry \in {0, 1}
        /\ setter.a + setter.b + 0 = low + Modulus * carry
    BY <2>1, Addition
  <2>5. /\ high \in Word /\ carry2 \in {0, 1}
        /\ a + b + carry = high + Modulus * carry2
    <3>. HIDE DEF carry
    <3>. QED
      BY <2>4, Addition
  <2>6. TempOf("ADC", a, b, cpsr.flags.C) = Wrapped(a + b + carry)
    BY <2>3 DEF TempOf
  <2>. HIDE DEF low, carry, high, carry2
  <2>7. (a * Modulus + setter.a) + (b * Modulus + setter.b)
          = Modulus * (high + Modulus * carry2) + low
    <3>1. setter.a + setter.b = low + Modulus * carry
      BY <2>2, <2>4
    <3>2. (a * Modulus + setter.a) + (b * Modulus + setter.b)
            = Modulus * (a + b + carry) + low
      BY <2>1, <2>4, <3>1, SMT DEF Word
    <3>. QED
      BY <2>5, <3>2
  <2>8. (Modulus * (high + Modulus * carry2) + low) % (Modulus * Modulus)
          = Modulus * high + low
    BY <2>4, <2>5, TwoWords
  <2>9. high * Modulus = Modulus * high
    BY <2>5 DEF Word
  <2>. QED
    BY <2>3, <2>6, <2>7, <2>8, <2>9 DEF low, high
<1>. QED
  BY <1>1, Invariance, PTL

\* Of EQ/NE, HS/LO, VS/VC, HI/LS and GE/LT exactly one executes.
THEOREM OppositeConditionsCorrect == Spec => []OppositeConditions
<1>1. IInv => OppositeConditions
  <2>. SUFFICES ASSUME cpsr.flags \in Flags, NEW cond \in {0, 2, 6, 8, 10}
                PROVE  cond_not_respect(cond, cpsr.flags) = 0
                         <=> cond_not_respect(cond + 1, cpsr.flags) # 0
    BY DEF OppositeConditions, IInv, Typed, Status
  <2>. QED
    BY DEF cond_not_respect, ConditionFails, Truth, Flags
<1>. QED
  BY <1>1, Invariance, PTL

\* The shifter by every amount, and the logical operations, bit by bit, for
\* words of every width.
THEOREM ShifterIsCorrect == Spec => []ShifterCorrect
<1>1. ShifterCorrect
  BY ShiftsCorrect, LogicCorrect DEF ShifterCorrect
<1>. QED
  BY <1>1, PTL

-----------------------------------------------------------------------------
(* What a step may not do to the status *)

\* Only a reset or gdb gets a processor out of no mode.
THEOREM LostCorrect == Spec => LostUntilReset
<1>. DEFINE A == cpsr.mode \notin RealModes /\ cpsr'.mode \in RealModes
                   => answer' \in {"RESET", "written"}
<1>1. IInv /\ [Next]_vars => [A]_vars
  <2>. SUFFICES ASSUME IInv, Next, cpsr.mode \notin RealModes,
                       cpsr'.mode \in RealModes
                PROVE  answer' \in {"RESET", "written"}
    OBVIOUS
  <2>0. "invalid" \notin RealModes
    BY DEF RealModes, UserModes, BankedModes
  <2>1. ASSUME NEW i \in Instructions, SkipDataProcessing(i)
        PROVE  answer' = "RESET"
    BY <2>1 DEF SkipDataProcessing, Return
  <2>2. ASSUME NEW i \in Instructions, DataProcessing(i)
        PROVE  FALSE
    <3>1. cpsr'.mode \in {cpsr.mode, registers_read_spsr(cpsr.mode).mode}
      BY <2>2 DEF DataProcessing, Effectuer_Operation, Update_Flags, Return,
                  IInv, Typed, Status
    <3>2. registers_read_spsr(cpsr.mode).mode = "invalid"
      BY DEF registers_read_spsr, RealModes, NoStatus
    <3>. QED
      BY <2>0, <3>1, <3>2
  <2>3. ASSUME NEW i \in Instructions, Branch(i)
        PROVE  FALSE
    BY <2>3 DEF Branch, Return, IInv, Typed, Status
  <2>4. ASSUME NEW i \in Instructions, Swi(i) \/ Transfer(i) \/ Undefined(i)
        PROVE  FALSE
    BY <2>4 DEF Swi, Transfer, Undefined, Return
  <2>5. ASSUME NEW i \in Instructions, Miscellaneous(i)
        PROVE  FALSE
    <3>1. \A operand, state : Masked(i, operand, state).mode = "invalid"
      BY DEF Masked, MaskedMode
    <3>. QED
      BY <2>0, <2>5, <3>1 DEF Miscellaneous, fonction_MSR, Return
  <2>6. CASE Interrupt
    BY <2>6 DEF Interrupt, Return
  <2>7. ASSUME NEW status \in Statuses, NEW next \in Values, GdbWrites(status, next)
        PROVE  answer' = "written"
    BY <2>7 DEF GdbWrites, Return
  <2>. QED
    BY <2>1, <2>2, <2>3, <2>4, <2>5, <2>6, <2>7 DEF Next
<1>. QED
  BY <1>1, Invariance, PTL DEF Spec, LostUntilReset

\* An instruction that reports a failure has left the status alone.
THEOREM FailureCorrect == Spec => FailureKeepsStatus
<1>. DEFINE A == answer' \notin {"NONE", "RESET", "written"} => cpsr' = cpsr
<1>1. [Next]_vars => [A]_vars
  <2>. SUFFICES ASSUME Next, answer' \notin {"NONE", "RESET", "written"}
                PROVE  cpsr' = cpsr
    OBVIOUS
  <2>1. ASSUME NEW i \in Instructions,
               SkipDataProcessing(i) \/ Branch(i) \/ Swi(i) \/ Transfer(i) \/ Undefined(i)
        PROVE  cpsr' = cpsr
    BY <2>1 DEF SkipDataProcessing, Branch, Swi, Transfer, Undefined, Return
  <2>2. ASSUME NEW i \in Instructions, DataProcessing(i)
        PROVE  cpsr' = cpsr
    BY <2>2 DEF DataProcessing, Effectuer_Operation, Update_Flags, Return
  <2>3. ASSUME NEW i \in Instructions, Miscellaneous(i)
        PROVE  cpsr' = cpsr
    BY <2>3 DEF Miscellaneous, fonction_MSR, Return
  <2>4. CASE Interrupt
    BY <2>4 DEF Interrupt, Return
  <2>5. ASSUME NEW status \in Statuses, NEW next \in Values, GdbWrites(status, next)
        PROVE  cpsr' = cpsr
    BY <2>5 DEF GdbWrites, Return
  <2>. QED
    BY <2>1, <2>2, <2>3, <2>4, <2>5 DEF Next
<1>. QED
  BY <1>1, PTL DEF Spec, FailureKeepsStatus
===============================================================================
