-------------------------- MODULE IpsPatch_proofs --------------------------
(***************************************************************************)
(* Proofs of the properties of IpsPatch: the export and the import of a    *)
(* patch are inverses of each other, and a patch that was cut short is not *)
(* imported, for every edit, every size of the data and every footer.      *)
(*                                                                         *)
(* Numbers are read from the digits they were written in.  The file has a  *)
(* layout, which says at what position the record of an address begins.    *)
(* The reader is at such a position in every iteration of its loop, with   *)
(* the patches below the address; it is there by induction over the        *)
(* iterations, which Iteration provides.                                   *)
(***************************************************************************)
EXTENDS IpsPatch, Iteration

-----------------------------------------------------------------------------
(* Numbers                                                                 *)

\* A byte has two values at least.
LEMMA BaseIsNat == Base \in Nat /\ Base >= 2 /\ Base > 0
BY PatchAssumption

\* What Power is defined to be.
IsPower(p) == p = [n \in 0 .. 8 |-> IF n = 0 THEN 1 ELSE Base * p[n - 1]]

\* There is a function that multiplies by Base, so that Power is one.
LEMMA PowerExists == \E p : p \in [0 .. 8 -> Nat \ {0}] /\ IsPower(p)
<1> DEFINE step == [i \in 1 .. 8 |-> [n \in Nat \ {0} |-> Base * n]]
<1>1. \A i \in 1 .. 8, n \in Nat \ {0} : step[i][n] = Base * n
  OBVIOUS
<1>2. \A n \in Nat \ {0} : Base * n \in Nat \ {0}
  BY BaseIsNat
<1>3. 1 \in Nat \ {0} /\ 8 \in Nat
  OBVIOUS
<1> HIDE DEF step
<1>4. \A i \in 1 .. 8, n \in Nat \ {0} : step[i][n] \in Nat \ {0}
  BY <1>1, <1>2, Zenon
<1>5. PICK p : Runs(p, Nat \ {0}, 8, 1, step)
  BY <1>3, <1>4, Iterates, Zenon
<1>6. p \in [0 .. 8 -> Nat \ {0}] /\ p[0] = 1
  BY <1>5, Zenon DEF Runs
<1>7. ASSUME NEW i \in 1 .. 8 PROVE p[i] = Base * p[i - 1]
  <2>1. p[i - 1] \in Nat \ {0}
    <3>1. i - 1 \in 0 .. 8
      OBVIOUS
    <3> QED BY <1>6, <3>1, Zenon
  <2> QED BY <1>1, <1>5, <2>1, Zenon DEF Runs
<1>8. ASSUME NEW n \in 0 .. 8 PROVE p[n] = IF n = 0 THEN 1 ELSE Base * p[n - 1]
  <2>1. CASE n = 0
    BY <1>6, <2>1
  <2>2. CASE n # 0
    <3>1. n \in 1 .. 8
      BY <2>2
    <3> QED BY <1>7, <2>2, <3>1, Zenon
  <2> QED BY <2>1, <2>2
<1>9. IsPower(p)
  BY <1>6, <1>8, Zenon DEF IsPower
<1> QED BY <1>6, <1>9, Zenon

\* The recursive definition of Power holds of it: its equations, and that it counts.
LEMMA PowerIs == /\ \A n \in 0 .. 8 : Power[n] \in Nat /\ Power[n] > 0
                 /\ Power[0] = 1 /\ \A n \in 1 .. 8 : Power[n] = Base * Power[n - 1]
<1>1. Power = CHOOSE p : IsPower(p)
  BY DEF Power, IsPower
<1>2. IsPower(Power)
  BY <1>1, PowerExists, Zenon
<1>3. PICK p : p \in [0 .. 8 -> Nat \ {0}] /\ IsPower(p)
  BY PowerExists
<1>4. \A n \in 0 .. 8 : Power[n] = IF n = 0 THEN 1 ELSE Base * Power[n - 1]
  BY <1>2, Zenon DEF IsPower
<1>5. \A n \in 0 .. 8 : p[n] = IF n = 0 THEN 1 ELSE Base * p[n - 1]
  BY <1>3, Zenon DEF IsPower
<1>6. ASSUME NEW n \in 1 .. 8 PROVE Power[n] = Base * Power[n - 1] /\ p[n] = Base * p[n - 1]
  BY <1>4, <1>5
<1>7. Power[0] = 1 /\ p[0] = 1
  BY <1>4, <1>5
<1>8. Alike(Power, p, 8)
  <2>1. GoAlike(Power, p, 8)
    BY <1>6, <1>7, Zenon DEF GoAlike
  <2>2. 8 \in Nat
    OBVIOUS
  <2> QED BY <2>1, <2>2, SameRun, Zenon
<1>9. \A n \in 0 .. 8 : Power[n] \in Nat /\ Power[n] > 0
  BY <1>3, <1>8 DEF Alike
<1> QED BY <1>6, <1>7, <1>9

\* Powers are positive numbers.
LEMMA PowerNat ==
    ASSUME NEW n \in 0 .. 8
    PROVE  Power[n] \in Nat /\ Power[n] > 0
BY PowerIs, Zenon

\* Each power is greater than the one before.
LEMMA PowerStep ==
    ASSUME NEW n \in 0 .. 7
    PROVE  /\ Power[n] \in Nat /\ Power[n + 1] \in Nat /\ Power[n + 1] = Power[n] * Base
           /\ 0 < Power[n] /\ Power[n] < Power[n + 1]
<1>1. n + 1 \in 1 .. 8 /\ n \in 0 .. 8 /\ n + 1 \in 0 .. 8 /\ (n + 1) - 1 = n
  OBVIOUS
<1>2. Power[n + 1] = Base * Power[n]
  BY <1>1, PowerIs, Zenon
<1>3. Power[n] \in Nat /\ Power[n] > 0 /\ Power[n + 1] \in Nat
  BY <1>1, PowerIs, Zenon
<1> PICK p \in Nat : p = Power[n]
  BY <1>3
<1>4. Base * p = p * Base /\ p < Base * p
  BY <1>3, BaseIsNat
<1> QED BY <1>2, <1>3, <1>4

\* The sizes that fit into two, three, four and eight bytes, in their order.
LEMMA Widths ==
    /\ Power[2] \in Nat /\ Power[3] \in Nat /\ Word \in Nat /\ Power[8] \in Nat
    /\ 3 < Power[2] /\ Power[2] < Power[3] /\ Power[3] < Word /\ Word < Power[8]
<1>1. Power[1] = Base
  BY PowerIs, BaseIsNat
<1>2. Power[2] = Base * Base
  BY <1>1, PowerIs
<1>3. Base * Base > 3
  BY BaseIsNat
<1>4. \A n \in 0 .. 7 : Power[n] \in Nat /\ Power[n + 1] \in Nat /\ Power[n] < Power[n + 1]
  BY PowerStep
<1>5. Power[2] < Power[2 + 1] /\ Power[3] < Power[3 + 1] /\ Power[4] < Power[4 + 1]
      /\ Power[5] < Power[5 + 1] /\ Power[6] < Power[6 + 1] /\ Power[7] < Power[7 + 1]
  BY <1>4
<1>6. 2 + 1 = 3 /\ 3 + 1 = 4 /\ 4 + 1 = 5 /\ 5 + 1 = 6 /\ 6 + 1 = 7 /\ 7 + 1 = 8
  OBVIOUS
<1>7. \A n \in 0 .. 8 : Power[n] \in Nat
  BY PowerIs
<1>8. Power[2] \in Nat /\ Power[3] \in Nat /\ Power[4] \in Nat /\ Power[5] \in Nat
      /\ Power[6] \in Nat /\ Power[7] \in Nat /\ Power[8] \in Nat
  BY <1>7
<1> QED BY <1>2, <1>3, <1>5, <1>6, <1>8 DEF Word

\* What the digits up to each make.
Horner(upto, digits, n) ==
    /\ upto[0] = 0
    /\ \A i \in 1 .. n : upto[i] = upto[i - 1] * Base + digits[i]

\* For digits there is a function that reads them one after the other.
LEMMA HornerExists ==
    ASSUME NEW n \in Nat, NEW digits, \A i \in 1 .. n : digits[i] \in Byte
    PROVE  \E upto : upto \in [0 .. n -> Nat] /\ Horner(upto, digits, n)
<1> DEFINE step == [i \in 1 .. n |-> [s \in Nat |-> s * Base + digits[i]]]
<1>1. \A i \in 1 .. n, s \in Nat : step[i][s] = s * Base + digits[i]
  OBVIOUS
<1>2. \A i \in 1 .. n, s \in Nat : s * Base + digits[i] \in Nat
  BY BaseIsNat DEF Byte
<1>3. 0 \in Nat
  OBVIOUS
<1> HIDE DEF step
<1>4. PICK run : Runs(run, Nat, n, 0, step)
  BY <1>1, <1>2, <1>3, Iterates, Zenon
<1>5. run \in [0 .. n -> Nat] /\ run[0] = 0
  BY <1>4, Zenon DEF Runs
<1>6. ASSUME NEW i \in 1 .. n PROVE run[i] = run[i - 1] * Base + digits[i]
  <2>1. run[i - 1] \in Nat
    <3>1. i - 1 \in 0 .. n
      OBVIOUS
    <3> QED BY <1>5, <3>1, Zenon
  <2> QED BY <1>1, <1>4, <2>1, Zenon DEF Runs
<1> QED BY <1>5, <1>6, Zenon DEF Horner

\* Number is what any such function ends with.
LEMMA NumberIs ==
    ASSUME NEW digits \in Seq(Byte), NEW n \in Nat, n = Len(digits), NEW f, Horner(f, digits, n)
    PROVE  Number(digits) = f[n]
<1> DEFINE Defines(u) ==
             u = [i \in 0 .. Len(digits) |-> IF i = 0 THEN 0 ELSE u[i - 1] * Base + digits[i]]
           upto == CHOOSE u : Defines(u)
           whole == [i \in 0 .. n |-> f[i]]
<1>1. Number(digits) = upto[n]
  BY DEF Number
<1>2. Defines(whole)
  <2> SUFFICES ASSUME NEW i \in 0 .. n
               PROVE  whole[i] = IF i = 0 THEN 0 ELSE whole[i - 1] * Base + digits[i]
    OBVIOUS
  <2>1. CASE i = 0
    BY <2>1 DEF Horner
  <2>2. CASE i # 0
    <3>1. i \in 1 .. n /\ i - 1 \in 0 .. n
      BY <2>2
    <3> QED BY <2>2, <3>1 DEF Horner
  <2> QED BY <2>1, <2>2
<1> HIDE DEF whole, Defines
<1>3. Defines(upto)
  BY <1>2
<1> HIDE DEF upto
<1>4. \A i \in 0 .. n : upto[i] = IF i = 0 THEN 0 ELSE upto[i - 1] * Base + digits[i]
  BY <1>3 DEF Defines
<1>5. GoAlike(upto, f, n)
  <2>1. upto[0] = 0 /\ f[0] = 0
    BY <1>4 DEF Horner
  <2>2. ASSUME NEW i \in 1 .. n, upto[i - 1] = f[i - 1] PROVE upto[i] = f[i]
    <3>1. upto[i] = upto[i - 1] * Base + digits[i]
      BY <1>4
    <3>2. f[i] = f[i - 1] * Base + digits[i]
      BY DEF Horner
    <3> QED BY <2>2, <3>1, <3>2, Zenon
  <2> QED BY <2>1, <2>2, Zenon DEF GoAlike
<1>6. Alike(upto, f, n)
  BY <1>5, SameRun, Zenon
<1>7. n \in 0 .. n
  OBVIOUS
<1> QED BY <1>1, <1>6, <1>7, Zenon DEF Alike

\* One more digit, one more power.
LEMMA HornerBound ==
    ASSUME NEW p \in Nat, NEW s \in 0 .. p - 1, NEW d \in Byte
    PROVE  s * Base + d \in 0 .. p * Base - 1
<1> PICK b \in Nat : b = Base
  BY BaseIsNat
<1>1. d \in 0 .. b - 1
  BY DEF Byte
<1>2. (s + 1) * b <= p * b
  BY Z3
<1>3. (s + 1) * b = s * b + b
  BY Z3
<1> QED BY <1>1, <1>2, <1>3

\* A number of n digits is below the power n.
LEMMA NumberBound ==
    ASSUME NEW n \in 0 .. 8, NEW digits \in Seq(Byte), Len(digits) = n
    PROVE  Number(digits) \in 0 .. Power[n] - 1
<1>1. \A i \in 1 .. n : digits[i] \in Byte
  BY ElementOfSeq
<1>2. PICK upto : upto \in [0 .. n -> Nat] /\ Horner(upto, digits, n)
  BY <1>1, HornerExists
<1>3. Number(digits) = upto[n]
  BY <1>2, NumberIs
<1> DEFINE T == {i \in 0 .. n : upto[i] \in 0 .. Power[i] - 1}
<1>4. 0 \in T
  <2>1. upto[0] = 0
    BY <1>2 DEF Horner
  <2>2. Power[0] = 1
    BY PowerIs, Zenon
  <2> QED BY <2>1, <2>2
<1>5. ASSUME NEW i \in 1 .. n, i - 1 \in T PROVE i \in T
  <2>1. upto[i - 1] \in 0 .. Power[i - 1] - 1
    BY <1>5
  <2>2. upto[i] = upto[i - 1] * Base + digits[i]
    BY <1>2 DEF Horner
  <2>3. Power[i - 1] \in Nat /\ Power[i] = Power[i - 1] * Base
    <3>1. i - 1 \in 0 .. 7 /\ (i - 1) + 1 = i
      OBVIOUS
    <3> QED BY <3>1, PowerStep
  <2>4. digits[i] \in Byte
    BY <1>1
  <2>5. upto[i] \in 0 .. Power[i - 1] * Base - 1
    BY <2>1, <2>2, <2>3, <2>4, HornerBound, Zenon
  <2> QED BY <2>3, <2>5
<1> HIDE DEF T
<1>6. 0 .. n \subseteq T
  BY <1>4, <1>5, Induction
<1>7. n \in T
  BY <1>6
<1> QED BY <1>3, <1>7 DEF T

\* Division by a product is division by one factor after the other.
LEMMA DivMod ==
    ASSUME NEW n \in Nat, NEW b \in Nat, b > 0
    PROVE  /\ n \div b \in Nat /\ n % b \in 0 .. b - 1 /\ n = (n \div b) * b + (n % b)
OBVIOUS

\* Quotient and remainder are determined by what they are for.
LEMMA DivUnique ==
    ASSUME NEW b \in Nat, NEW n \in Nat, NEW q \in Nat, NEW r \in 0 .. b - 1, n = q * b + r
    PROVE  n \div b = q /\ n % b = r
OBVIOUS

\* A quotient is what a longer division leaves, times Base, and a digit.
LEMMA DivDiv ==
    ASSUME NEW n \in Nat, NEW p \in Nat, p > 0, NEW b \in Nat, b > 0
    PROVE  n \div p = (n \div (p * b)) * b + ((n \div p) % b)
<1> PICK q \in Nat, r \in 0 .. p - 1 : q = n \div p /\ n = q * p + r
  BY DivMod
<1> PICK h \in Nat, d \in 0 .. b - 1 : h = q \div b /\ d = q % b /\ q = h * b + d
  BY DivMod
<1>1. d * p + r \in 0 .. p * b - 1
  <2>1. (d + 1) * p <= b * p
    BY Z3
  <2>2. (d + 1) * p = d * p + p /\ d * p >= 0 /\ b * p = p * b
    BY Z3
  <2>3. d * p \in Nat /\ p * b \in Nat
    BY Z3
  <2> PICK x \in Nat, y \in Nat : x = d * p /\ y = p * b
    BY <2>3
  <2> QED BY <2>1, <2>2
<1>2. n = h * (p * b) + (d * p + r)
  <2>1. (h * b + d) * p = h * (p * b) + d * p
    BY Z3
  <2>2. h * (p * b) \in Nat /\ d * p \in Nat
    BY Z3
  <2> QED BY <2>1, <2>2
<1>3. p * b \in Nat
  BY Z3
<1>4. n \div (p * b) = h
  BY <1>1, <1>2, <1>3, DivUnique
<1> QED BY <1>4

\* Digits are bytes, as many as asked for.
LEMMA DigitsType ==
    ASSUME NEW n \in Nat, NEW w \in 1 .. 8
    PROVE  /\ Digits(n, w) \in Seq(Byte) /\ Len(Digits(n, w)) = w
           /\ \A i \in 1 .. w : Digits(n, w)[i] = (n \div Power[w - i]) % Base
<1>1. ASSUME NEW i \in 1 .. w PROVE (n \div Power[w - i]) % Base \in Byte
  <2>1. w - i \in 0 .. 8
    OBVIOUS
  <2>2. Power[w - i] \in Nat /\ Power[w - i] > 0
    BY <2>1, PowerIs
  <2>3. n \div Power[w - i] \in Nat
    BY <2>2, DivMod
  <2> QED BY <2>3, BaseIsNat, DivMod DEF Byte
<1>2. Digits(n, w) \in [1 .. w -> Byte]
  BY <1>1 DEF Digits
<1>3. w \in Nat
  OBVIOUS
<1> QED BY <1>2, <1>3, SeqOfFunction DEF Digits

\* A number is read from the digits it was written in.
LEMMA NumberOfDigits ==
    ASSUME NEW w \in 1 .. 8, NEW n \in 0 .. Power[w] - 1
    PROVE  Number(Digits(n, w)) = n
<1> DEFINE upto == [i \in 0 .. w |-> n \div Power[w - i]]
<1>1. Power[w] \in Nat /\ Power[w] > 0 /\ n \in Nat
  BY PowerIs
<1>2. upto[0] = 0
  <2>1. n = 0 * Power[w] + n
    BY <1>1
  <2>2. n \div Power[w] = 0
    BY <1>1, <2>1, DivUnique
  <2> QED BY <2>2
<1>3. upto[w] = n
  <2>1. n \div 1 = n /\ w \in 0 .. w /\ w - w = 0
    BY <1>1
  <2>2. upto[w] = n \div Power[0]
    BY <2>1
  <2>3. Power[0] = 1
    BY PowerIs, Zenon
  <2> QED BY <2>1, <2>2, <2>3, Zenon
<1>4. ASSUME NEW i \in 1 .. w
      PROVE  upto[i] = upto[i - 1] * Base + Digits(n, w)[i]
  <2> PICK j \in 0 .. 7 : j = w - i
    OBVIOUS
  <2>0. \A p \in Nat, b \in Nat :
          p > 0 /\ b > 0 => n \div p = (n \div (p * b)) * b + ((n \div p) % b)
    BY <1>1, DivDiv, Zenon
  <2>1. Power[j] \in Nat /\ Power[j] > 0 /\ Power[j + 1] = Power[j] * Base
    BY PowerStep
  <2>2. n \div Power[j] = (n \div Power[j + 1]) * Base + ((n \div Power[j]) % Base)
    BY <1>1, <2>1, <2>0, BaseIsNat, Zenon
  <2>3. upto[i] = n \div Power[j]
    OBVIOUS
  <2>4. upto[i - 1] = n \div Power[j + 1]
    <3>1. i - 1 \in 0 .. w /\ w - (i - 1) = j + 1
      OBVIOUS
    <3> QED BY <3>1, Zenon
  <2>5. Digits(n, w)[i] = (n \div Power[j]) % Base
    BY <1>1, DigitsType
  <2> QED BY <2>2, <2>3, <2>4, <2>5, Zenon
<1> HIDE DEF upto
<1>5. Horner(upto, Digits(n, w), w)
  BY <1>2, <1>4 DEF Horner
<1>6. Digits(n, w) \in Seq(Byte) /\ Len(Digits(n, w)) = w /\ w \in Nat
  <2>1. w \in Nat
    OBVIOUS
  <2> QED BY <1>1, <2>1, DigitsType, Zenon
<1>7. w = Len(Digits(n, w))
  BY <1>6
<1>8. Number(Digits(n, w)) = upto[w]
  BY <1>5, <1>6, <1>7, NumberIs, Zenon
<1> QED BY <1>3, <1>8

-----------------------------------------------------------------------------
(* Runs                                                                    *)

\* Patches whose addresses fit into a u32.
Fits(m) == \A a \in DOMAIN m : a \in 0 .. Word - 1 /\ m[a] \in Byte

\* The run from start on ends at e.
RunEnds(m, start, e) ==
    start .. e \subseteq DOMAIN m /\ e + 1 \notin DOMAIN m /\ start <= e

\* Every run ends before the last address of a u32, and with no hole in it.
LEMMA RunEndIs ==
    ASSUME NEW m, Fits(m), NEW s \in DOMAIN m
    PROVE  /\ RunEnd(m, s) \in s .. Word - 1 /\ RunEnd(m, s) + 1 \notin DOMAIN m
           /\ s .. RunEnd(m, s) \subseteq DOMAIN m
<1> DEFINE T == {a \in Nat : a >= s /\ a \notin DOMAIN m}
<1>1. s \in Nat /\ s \in 0 .. Word - 1 /\ Word \in Nat
  BY Widths DEF Fits
<1>2. Word \in T
  BY <1>1 DEF Fits
<1> HIDE DEF T
<1>3. T \in SUBSET Nat
  BY DEF T
<1>4. PICK n \in T : \A x \in T : n =< x
  BY <1>2, <1>3, LeastElement
<1>5. n \in Nat /\ n >= s /\ n \notin DOMAIN m
  BY DEF T
<1>6. n # s
  BY <1>5
<1>7. s .. n - 1 \subseteq DOMAIN m
  <2> SUFFICES ASSUME NEW x \in s .. n - 1, x \notin DOMAIN m PROVE FALSE
    OBVIOUS
  <2>1. x \in T
    BY <1>1, <1>5 DEF T
  <2> QED BY <1>1, <1>4, <1>5, <2>1
<1> DEFINE e == n - 1
<1>8. e \in s .. n - 1 /\ e + 1 = n
  BY <1>1, <1>5, <1>6
<1>9. e \in DOMAIN m /\ RunEnds(m, s, e)
  BY <1>5, <1>7, <1>8 DEF RunEnds
<1> HIDE DEF e
<1>10. RunEnd(m, s) \in DOMAIN m /\ RunEnds(m, s, RunEnd(m, s))
  <2>1. RunEnd(m, s) = CHOOSE a \in DOMAIN m : RunEnds(m, s, a)
    BY Zenon DEF RunEnd, RunEnds
  <2> QED BY <1>9, <2>1, Zenon
<1>11. RunEnd(m, s) \in 0 .. Word - 1
  BY <1>10 DEF RunEnds, Fits
<1> QED BY <1>1, <1>10, <1>11 DEF RunEnds

\* The bytes of a run are those at its addresses.
LEMMA RunIs ==
    ASSUME NEW m, Fits(m), NEW s \in DOMAIN m, NEW e \in Nat, e = RunEnd(m, s)
    PROVE  /\ s \in Nat /\ s <= e /\ e - s + 1 \in Nat
           /\ Run(m, s) \in Seq(Byte) /\ Len(Run(m, s)) = e - s + 1
           /\ \A i \in 1 .. e - s + 1 : Run(m, s)[i] = m[s + i - 1]
<1>1. s \in Nat /\ e \in s .. Word - 1 /\ s .. e \subseteq DOMAIN m
  BY RunEndIs, Widths DEF Fits
<1> PICK n \in Nat : n = e - s + 1
  BY <1>1
<1>2. Run(m, s) = [i \in 1 .. n |-> m[s + i - 1]]
  BY DEF Run
<1>3. ASSUME NEW i \in 1 .. n PROVE m[s + i - 1] \in Byte
  <2>1. s + i - 1 \in s .. e
    BY <1>1
  <2> QED BY <1>1, <2>1 DEF Fits
<1>4. Run(m, s) \in [1 .. n -> Byte]
  BY <1>2, <1>3
<1>5. Run(m, s) \in Seq(Byte) /\ Len(Run(m, s)) = n
  BY <1>4, SeqOfFunction
<1>6. \A i \in 1 .. n : Run(m, s)[i] = m[s + i - 1]
  BY <1>2
<1> QED BY <1>1, <1>5, <1>6

\* The parts of a record: W bytes of the address, two of the size, and the run.
RecordIs(rec, m, W, s, L) ==
    /\ rec \in Seq(Byte) /\ Len(rec) = W + 2 + L
    /\ \A i \in 1 .. W : rec[i] = Digits(s, W)[i]
    /\ \A i \in 1 .. 2 : rec[W + i] = Digits(L, 2)[i]
    /\ \A i \in 1 .. L : rec[W + 2 + i] = m[s + i - 1]

\* What the code's magic numbers assume: footers of three and of four bytes.
LEMMA FooterIs == Width(IPS) = 3 /\ Width(IPS32) = 4 /\ \A k \in Kinds : Width(k) \in {3, 4}
                 /\ Footer[k] \in Seq(Byte) /\ (k = IPS \/ k = IPS32)
<1>1. Footer[IPS] \in Seq(Byte) /\ Len(Footer[IPS]) = 3
  <2>1. Footer[IPS] \in [1 .. 3 -> Byte] /\ 3 \in Nat
    BY PatchAssumption DEF Byte
  <2> QED BY <2>1, SeqOfFunction
<1>2. Footer[IPS32] \in Seq(Byte) /\ Len(Footer[IPS32]) = 4
  <2>1. Footer[IPS32] \in [1 .. 4 -> Byte] /\ 4 \in Nat
    BY PatchAssumption DEF Byte
  <2> QED BY <2>1, SeqOfFunction
<1> QED BY <1>1, <1>2 DEF Width, Kinds

\* The sequence rec consists of x, y and z, of the lengths a, b and c.
HasParts(rec, S, x, y, z, a, b, c) ==
    /\ rec \in Seq(S) /\ Len(rec) = a + b + c
    /\ \A i \in 1 .. a : rec[i] = x[i]
    /\ \A i \in 1 .. b : rec[a + i] = y[i]
    /\ \A i \in 1 .. c : rec[a + b + i] = z[i]
\* Sequences and their lengths.
AreParts(S, x, y, z, a, b, c) ==
    /\ x \in Seq(S) /\ y \in Seq(S) /\ z \in Seq(S)
    /\ a \in Nat /\ b \in Nat /\ c \in Nat /\ a = Len(x) /\ b = Len(y) /\ c = Len(z)

\* Three sequences that are joined are found one behind the other.
LEMMA ThreeParts ==
    ASSUME NEW S, NEW x, NEW y, NEW z, NEW a, NEW b, NEW c, AreParts(S, x, y, z, a, b, c)
    PROVE  HasParts((x \o y) \o z, S, x, y, z, a, b, c)
<1> USE DEF AreParts
<1> PICK xy \in Seq(S) : xy = x \o y
  BY ConcatProperties
<1>1. Len(xy) = a + b /\ \A i \in 1 .. a + b : xy[i] = IF i <= a THEN x[i] ELSE y[i - a]
  BY ConcatProperties
<1>2. /\ xy \o z \in Seq(S) /\ Len(xy \o z) = a + b + c
      /\ \A i \in 1 .. a + b + c : (xy \o z)[i] = IF i <= a + b THEN xy[i] ELSE z[i - (a + b)]
  BY <1>1, ConcatProperties
<1>3. ASSUME NEW i \in 1 .. a PROVE (xy \o z)[i] = x[i]
  BY <1>1, <1>2
<1>4. ASSUME NEW i \in 1 .. b PROVE (xy \o z)[a + i] = y[i]
  <2>1. a + i \in 1 .. a + b /\ ~(a + i <= a) /\ (a + i) - a = i /\ a + i \in 1 .. a + b + c
    OBVIOUS
  <2>2. (xy \o z)[a + i] = xy[a + i]
    BY <1>2, <2>1
  <2> QED BY <1>1, <2>1, <2>2
<1>5. ASSUME NEW i \in 1 .. c PROVE (xy \o z)[a + b + i] = z[i]
  <2>1. /\ ~(a + b + i <= a + b) /\ (a + b + i) - (a + b) = i
        /\ a + b + i \in 1 .. a + b + c
    OBVIOUS
  <2> QED BY <1>2, <2>1
<1> QED BY <1>2, <1>3, <1>4, <1>5 DEF HasParts

\* toIPSPatch, toIPS32Patch: what is in a record, and where.
LEMMA RecordsAre ==
    ASSUME NEW m, Fits(m), NEW s \in DOMAIN m, NEW k \in Kinds, NEW L, L = Len(Run(m, s))
    PROVE  /\ L \in Nat /\ RecordIs(Record(k, m, s), m, Width(k), s, L)
<1> PICK W \in {3, 4} : W = Width(k)
  BY FooterIs
<1> PICK e \in Nat : e = RunEnd(m, s)
  BY RunEndIs, Widths DEF Fits
<1>1. /\ s \in Nat /\ s <= e /\ e - s + 1 \in Nat
      /\ Run(m, s) \in Seq(Byte) /\ Len(Run(m, s)) = e - s + 1
      /\ \A i \in 1 .. e - s + 1 : Run(m, s)[i] = m[s + i - 1]
  BY RunIs
<1>2. L \in Nat /\ \A i \in 1 .. L : Run(m, s)[i] = m[s + i - 1]
  BY <1>1
<1>3. Digits(s, W) \in Seq(Byte) /\ Len(Digits(s, W)) = W
  <2>1. W \in 1 .. 8
    OBVIOUS
  <2> QED BY <1>1, <2>1, DigitsType, Zenon
<1>4. Digits(L, 2) \in Seq(Byte) /\ Len(Digits(L, 2)) = 2
  <2>1. 2 \in 1 .. 8
    OBVIOUS
  <2> QED BY <1>2, <2>1, DigitsType, Zenon
<1> PICK x \in Seq(Byte), y \in Seq(Byte), z \in Seq(Byte) :
       x = Digits(s, W) /\ y = Digits(L, 2) /\ z = Run(m, s)
  BY <1>1, <1>3, <1>4
<1>5. W = Len(x) /\ 2 = Len(y) /\ L = Len(z) /\ W \in Nat /\ 2 \in Nat
  BY <1>1, <1>3, <1>4
<1> PICK rec : rec = Record(k, m, s)
  OBVIOUS
<1>6. rec = (x \o y) \o z
  BY Zenon DEF Record
<1>7. /\ rec \in Seq(Byte) /\ Len(rec) = W + 2 + L
      /\ \A i \in 1 .. W : rec[i] = x[i]
      /\ \A i \in 1 .. 2 : rec[W + i] = y[i]
      /\ \A i \in 1 .. L : rec[W + 2 + i] = z[i]
  <2>1. AreParts(Byte, x, y, z, W, 2, L)
    BY <1>2, <1>5, Zenon DEF AreParts
  <2>2. HasParts(rec, Byte, x, y, z, W, 2, L)
    BY <1>6, <2>1, ThreeParts, Zenon
  <2> QED BY <2>2 DEF HasParts
<1>8. RecordIs(rec, m, W, s, L)
  <2>1. \A i \in 1 .. L : z[i] = m[s + i - 1]
    BY <1>2, Zenon
  <2>2. \A i \in 1 .. L : rec[W + 2 + i] = m[s + i - 1]
    BY <1>7, <2>1, Zenon
  <2>3. \A i \in 1 .. W : rec[i] = Digits(s, W)[i]
    BY <1>7, Zenon
  <2>4. \A i \in 1 .. 2 : rec[W + i] = Digits(L, 2)[i]
    BY <1>7, Zenon
  <2> QED BY <1>7, <2>2, <2>3, <2>4, Zenon DEF RecordIs
<1> QED BY <1>2, <1>8, Zenon

-----------------------------------------------------------------------------
(* Writing                                                                 *)

\* The sequence y begins with x.
Begins(x, y) == Len(x) <= Len(y) /\ \A i \in 1 .. Len(x) : x[i] = y[i]

\* What a sequence begins with stays where it is when more is appended.
LEMMA ConcatBegins ==
    ASSUME NEW S, NEW x \in Seq(S), NEW y \in Seq(S), NEW z \in Seq(S), Begins(x, y)
    PROVE  Begins(x, y \o z)
<1>1. /\ y \o z \in Seq(S) /\ Len(y \o z) = Len(y) + Len(z)
      /\ \A i \in 1 .. Len(y) : (y \o z)[i] = y[i]
  BY ConcatProperties
<1> QED BY <1>1 DEF Begins

\* What was written first is not disturbed by the records that follow.
LEMMA JoinedBegins ==
    ASSUME NEW S, NEW n \in Nat, NEW seqs, \A i \in 1 .. n : seqs[i] \in Seq(S),
           NEW joined \in [0 .. n -> Seq(S)], Joins(joined, seqs, n),
           NEW a \in 0 .. n, NEW b \in a .. n
    PROVE  Begins(joined[a], joined[b])
<1> DEFINE T == {i \in 0 .. n : i < a \/ Begins(joined[a], joined[i])}
<1>1. Begins(joined[a], joined[a])
  BY DEF Begins
<1>2. 0 \in T
  BY <1>1
<1>3. ASSUME NEW i \in 1 .. n, i - 1 \in T PROVE i \in T
  <2>1. CASE i < a
    BY <2>1
  <2>2. CASE i = a
    BY <1>1, <2>2
  <2>3. CASE i > a
    <3>1. i - 1 \in 0 .. n /\ ~(i - 1 < a)
      BY <2>3
    <3>2. Begins(joined[a], joined[i - 1])
      BY <1>3, <3>1
    <3>3. joined[i] = joined[i - 1] \o seqs[i]
      BY DEF Joins
    <3>4. joined[a] \in Seq(S) /\ joined[i - 1] \in Seq(S) /\ seqs[i] \in Seq(S)
      BY <3>1
    <3>5. Begins(joined[a], joined[i])
      BY <3>2, <3>3, <3>4, ConcatBegins, Zenon
    <3> QED BY <3>5
  <2> QED BY <2>1, <2>2, <2>3
<1> HIDE DEF T
<1>4. 0 .. n \subseteq T
  BY <1>2, <1>3, Induction
<1>5. b \in T /\ ~(b < a)
  BY <1>4
<1> QED BY <1>5 DEF T

\* Where in a file what follows the first p bytes is a record of the run from s on.
HasRecordAt(f, p, m, W, s, L) ==
    /\ \A i \in 1 .. W : f[p + i] = Digits(s, W)[i]
    /\ \A i \in 1 .. 2 : f[p + W + i] = Digits(L, 2)[i]
    /\ \A i \in 1 .. L : f[p + W + 2 + i] = m[s + i - 1]

\* The records of addresses from a on are behind the first pos[a] bytes of the file f.
Layout(f, pos, k, m) ==
    /\ f \in Seq(Byte) /\ pos \in [0 .. Word -> Nat] /\ pos[0] = 0
    /\ Len(f) = pos[Word] + Width(k)
    /\ \A i \in 1 .. Width(k) : f[pos[Word] + i] = Footer[k][i]
    /\ \A a \in 0 .. Word : \A b \in a .. Word : pos[a] <= pos[b]
    /\ \A a \in 0 .. Word - 1 : a \notin Starts(m) => pos[a + 1] = pos[a]
    /\ \A s \in Starts(m) : /\ pos[s + 1] = pos[s] + Width(k) + 2 + Len(Run(m, s))
                            /\ HasRecordAt(f, pos[s], m, Width(k), s, Len(Run(m, s)))

\* The second of two joined sequences is found behind the first.
LEMMA EndOfConcat ==
    ASSUME NEW S, NEW x \in Seq(S), NEW y \in Seq(S), NEW W, W = Len(y)
    PROVE  /\ x \o y \in Seq(S) /\ Len(x \o y) = Len(x) + W
           /\ \A i \in 1 .. Len(x) : (x \o y)[i] = x[i]
           /\ \A i \in 1 .. W : (x \o y)[Len(x) + i] = y[i]
<1>1. /\ x \o y \in Seq(S) /\ Len(x \o y) = Len(x) + W
      /\ \A i \in 1 .. Len(x) + W : (x \o y)[i] = IF i <= Len(x) THEN x[i] ELSE y[i - Len(x)]
  BY ConcatProperties
<1>2. ASSUME NEW i \in 1 .. W PROVE (x \o y)[Len(x) + i] = y[i]
  <2>1. /\ Len(x) + i \in 1 .. Len(x) + W /\ ~(Len(x) + i <= Len(x))
        /\ (Len(x) + i) - Len(x) = i
    OBVIOUS
  <2> QED BY <1>1, <2>1
<1> QED BY <1>1, <1>2

\* A record that is appended to a file stays in it from there on.
LEMMA RecordShifted ==
    ASSUME NEW x \in Seq(Byte), NEW rec, NEW f, NEW m, NEW W \in Nat, NEW s, NEW L \in Nat,
           RecordIs(rec, m, W, s, L), Begins(x \o rec, f)
    PROVE  /\ Len(x \o rec) = Len(x) + W + 2 + L
           /\ HasRecordAt(f, Len(x), m, W, s, L)
<1> PICK y, p : y = x \o rec /\ p = Len(x)
  OBVIOUS
<1>1. rec \in Seq(Byte) /\ Len(rec) = W + 2 + L /\ p \in Nat
  BY DEF RecordIs
<1>2. /\ Len(y) = p + W + 2 + L
      /\ \A i \in 1 .. p + W + 2 + L : y[i] = IF i <= p THEN x[i] ELSE rec[i - p]
  <2>1. /\ Len(y) = Len(x) + Len(rec)
        /\ \A i \in 1 .. Len(x) + Len(rec) : y[i] = IF i <= Len(x) THEN x[i] ELSE rec[i - Len(x)]
    BY <1>1, ConcatProperties
  <2>2. Len(x) + Len(rec) = p + W + 2 + L
    BY <1>1
  <2> QED BY <2>1, <2>2
<1>3. ASSUME NEW i \in 1 .. W + 2 + L PROVE f[p + i] = rec[i]
  <2>1. p + i \in 1 .. p + W + 2 + L /\ ~(p + i <= p) /\ (p + i) - p = i
    BY <1>1
  <2>2. y[p + i] = rec[i]
    BY <1>2, <2>1
  <2>3. \A j \in 1 .. Len(y) : y[j] = f[j]
    BY Zenon DEF Begins
  <2>4. p + i \in 1 .. Len(y)
    BY <1>2, <2>1
  <2> QED BY <2>2, <2>3, <2>4, Zenon
<1>4. ASSUME NEW i \in 1 .. W PROVE f[p + i] = Digits(s, W)[i]
  <2>1. i \in 1 .. W + 2 + L
    OBVIOUS
  <2>2. rec[i] = Digits(s, W)[i]
    BY Zenon DEF RecordIs
  <2> QED BY <1>3, <2>1, <2>2, Zenon
<1>5. ASSUME NEW i \in 1 .. 2 PROVE f[p + W + i] = Digits(L, 2)[i]
  <2>1. W + i \in 1 .. W + 2 + L /\ p + (W + i) = p + W + i
    BY <1>1
  <2>2. f[p + (W + i)] = rec[W + i]
    BY <1>3, <2>1, Zenon
  <2> QED BY <2>1, <2>2 DEF RecordIs
<1>6. ASSUME NEW i \in 1 .. L PROVE f[p + W + 2 + i] = m[s + i - 1]
  <2>1. W + 2 + i \in 1 .. W + 2 + L /\ p + (W + 2 + i) = p + W + 2 + i
    BY <1>1
  <2>2. f[p + (W + 2 + i)] = rec[W + 2 + i]
    BY <1>3, <2>1, Zenon
  <2> QED BY <2>1, <2>2 DEF RecordIs
<1> QED BY <1>2, <1>4, <1>5, <1>6 DEF HasRecordAt

\* A run starts at an address that has a byte.
LEMMA StartsIn ==
    ASSUME NEW m, Fits(m), NEW s \in Starts(m)
    PROVE  s \in DOMAIN m /\ s \in 0 .. Word - 1
BY DEF Fits, Starts

\* The file that is written has a layout: a record for each run in the order of addresses,
\* each at a position of its own, and the footer behind the last.
LEMMA WrittenIs ==
    ASSUME NEW m, Fits(m), NEW k \in Kinds
    PROVE  \E pos : Layout(Written(k, m), pos, k, m)
<1>n. PICK n \in Nat : n = Word
  BY Widths
<1>0. PICK parts : parts = [i \in 1 .. n |-> RecordAt(k, m, i - 1)]
  OBVIOUS
<1>w. PICK W \in Nat : W = Width(k) /\ W \in {3, 4}
  BY FooterIs
<1>1. Footer[k] \in Seq(Byte) /\ Len(Footer[k]) = W
  BY <1>w, FooterIs DEF Width
<1>2. ASSUME NEW s \in Starts(m)
      PROVE  /\ Len(Run(m, s)) \in Nat
             /\ RecordIs(Record(k, m, s), m, W, s, Len(Run(m, s)))
  <2>1. s \in DOMAIN m
    BY StartsIn
  <2>2. /\ Len(Run(m, s)) \in Nat
        /\ RecordIs(Record(k, m, s), m, Width(k), s, Len(Run(m, s)))
    BY <2>1, RecordsAre
  <2> QED BY <1>w, <2>2
<1>3. ASSUME NEW i \in 1 .. n PROVE parts[i] \in Seq(Byte)
  <2>1. parts[i] = RecordAt(k, m, i - 1)
    BY <1>0
  <2>2. CASE i - 1 \in Starts(m)
    BY <1>2, <2>1, <2>2 DEF RecordAt, RecordIs
  <2>3. CASE i - 1 \notin Starts(m)
    BY <2>1, <2>3, EmptySeq DEF RecordAt
  <2> QED BY <2>2, <2>3
<1>4. PICK joined : joined \in [0 .. n -> Seq(Byte)] /\ Joins(joined, parts, n)
  BY <1>3, JoinsExist, Zenon
<1>5. FlattenSeq(parts) = joined[n]
  <2>1. parts \in Seq(Seq(Byte)) /\ Len(parts) = n
    <3>1. parts \in [1 .. n -> Seq(Byte)]
      BY <1>0, <1>3
    <3> QED BY <3>1, SeqOfFunction
  <2>2. n # 0
    BY <1>n, Widths
  <2> QED BY <1>3, <1>4, <2>1, <2>2, FlattenIs, Zenon
<1>a. PICK f : f = Written(k, m)
  OBVIOUS
<1>6. f = joined[n] \o Footer[k]
  BY <1>0, <1>a, <1>n, <1>5, Zenon DEF Written
<1> DEFINE pos == [a \in 0 .. n |-> Len(joined[a])]
<1>7. ASSUME NEW a \in 0 .. n PROVE joined[a] \in Seq(Byte) /\ Len(joined[a]) \in Nat
  BY <1>4
<1>8. n \in 0 .. n /\ 0 \in 0 .. n
  OBVIOUS
<1>9. /\ f \in Seq(Byte) /\ Len(f) = Len(joined[n]) + W
      /\ \A i \in 1 .. Len(joined[n]) : f[i] = joined[n][i]
      /\ \A i \in 1 .. W : f[Len(joined[n]) + i] = Footer[k][i]
  <2>0. joined[n] \in Seq(Byte)
    BY <1>7, <1>8
  <2>1. PICK x \in Seq(Byte) : x = joined[n]
    BY <2>0
  <2>2. PICK y \in Seq(Byte) : y = Footer[k] /\ Len(y) = W
    BY <1>1
  <2>3. /\ x \o y \in Seq(Byte) /\ Len(x \o y) = Len(x) + W
        /\ \A i \in 1 .. Len(x) : (x \o y)[i] = x[i]
        /\ \A i \in 1 .. W : (x \o y)[Len(x) + i] = y[i]
    BY <2>2, EndOfConcat
  <2>4. f = x \o y
    BY <1>6, <2>1, <2>2
  <2> QED BY <2>1, <2>2, <2>3, <2>4, Zenon
<1>10. ASSUME NEW a \in 0 .. n PROVE Begins(joined[a], f)
  <2>1. Begins(joined[a], joined[n])
    <3>1. n \in a .. n
      OBVIOUS
    <3> QED BY <1>3, <1>4, <3>1, JoinedBegins, Zenon
  <2> QED BY <1>7, <1>8, <1>9, <2>1 DEF Begins
<1>11. ASSUME NEW a \in 0 .. n, NEW b \in a .. n PROVE pos[a] <= pos[b]
  <2>1. Begins(joined[a], joined[b])
    BY <1>3, <1>4, JoinedBegins
  <2> QED BY <2>1 DEF Begins
<1>12. ASSUME NEW a \in 0 .. n - 1
       PROVE  joined[a + 1] = joined[a] \o RecordAt(k, m, a)
  <2>1. a + 1 \in 1 .. n /\ (a + 1) - 1 = a
    OBVIOUS
  <2>2. parts[a + 1] = RecordAt(k, m, (a + 1) - 1)
    BY <1>0, <2>1, Zenon
  <2>3. joined[a + 1] = joined[(a + 1) - 1] \o parts[a + 1]
    BY <1>4, <2>1, Zenon DEF Joins
  <2> QED BY <2>1, <2>2, <2>3
<1>13. ASSUME NEW a \in 0 .. n - 1, a \notin Starts(m) PROVE pos[a + 1] = pos[a]
  <2>1. a + 1 \in 0 .. n /\ a \in 0 .. n
    OBVIOUS
  <2>2. joined[a + 1] = joined[a] \o <<>>
    BY <1>12, <1>13 DEF RecordAt
  <2>3. joined[a] \o <<>> = joined[a]
    BY <1>7, <2>1, ConcatEmptySeq
  <2> QED BY <2>1, <2>2, <2>3
<1>14. ASSUME NEW s \in Starts(m)
       PROVE  /\ pos[s + 1] = pos[s] + W + 2 + Len(Run(m, s))
              /\ HasRecordAt(f, pos[s], m, W, s, Len(Run(m, s)))
  <2>1. s \in 0 .. n - 1 /\ s + 1 \in 0 .. n /\ s \in 0 .. n
    BY <1>n, StartsIn
  <2>2. joined[s + 1] = joined[s] \o Record(k, m, s)
    BY <1>12, <2>1 DEF RecordAt
  <2>3. Begins(joined[s + 1], f) /\ joined[s] \in Seq(Byte) /\ W \in Nat
    BY <1>7, <1>10, <2>1
  <2>4. /\ Len(joined[s + 1]) = Len(joined[s]) + W + 2 + Len(Run(m, s))
        /\ HasRecordAt(f, Len(joined[s]), m, W, s, Len(Run(m, s)))
    <3>1. Begins(joined[s] \o Record(k, m, s), f)
      BY <2>2, <2>3
    <3>2. \A L \in Nat : RecordIs(Record(k, m, s), m, W, s, L) =>
             /\ Len(joined[s] \o Record(k, m, s)) = Len(joined[s]) + W + 2 + L
             /\ HasRecordAt(f, Len(joined[s]), m, W, s, L)
      BY <2>3, <3>1, RecordShifted, Zenon
    <3> QED BY <1>2, <2>2, <3>2
  <2> QED BY <2>1, <2>4
<1>15. pos \in [0 .. n -> Nat] /\ pos[0] = 0 /\ pos[n] = Len(joined[n])
  <2>1. joined[0] = <<>>
    BY <1>4 DEF Joins
  <2> QED BY <1>7, <1>8, <2>1
<1> HIDE DEF pos
<1>16. Layout(f, pos, k, m)
  BY <1>n, <1>w, <1>9, <1>11, <1>13, <1>14, <1>15, Zenon DEF Layout
<1> QED BY <1>a, <1>16, Zenon

-----------------------------------------------------------------------------
(* Reading a record                                                        *)

\* What a part of a sequence consists of.
LEMMA Piece ==
    ASSUME NEW S, NEW f \in Seq(S), NEW p \in Nat, NEW w \in Nat, p + w <= Len(f)
    PROVE  /\ SubSeq(f, p + 1, p + w) \in Seq(S) /\ Len(SubSeq(f, p + 1, p + w)) = w
           /\ \A i \in 1 .. w : SubSeq(f, p + 1, p + w)[i] = f[p + i]
<1>1. \A i \in p + 1 .. p + w : f[i] \in S
  BY ElementOfSeq
<1>2. p + 1 \in Int /\ p + w \in Int
  OBVIOUS
<1>3. /\ SubSeq(f, p + 1, p + w) \in Seq(S)
      /\ Len(SubSeq(f, p + 1, p + w)) = IF p + 1 <= p + w THEN p + w - (p + 1) + 1 ELSE 0
      /\ \A i \in 1 .. p + w - (p + 1) + 1 :
            SubSeq(f, p + 1, p + w)[i] = f[p + 1 + i - 1]
  BY <1>1, <1>2, SubSeqProperties
<1>4. p + w - (p + 1) + 1 = w /\ \A i \in 1 .. w : p + 1 + i - 1 = p + i
  OBVIOUS
<1>5. \A i \in 1 .. w : SubSeq(f, p + 1, p + w)[i] = f[p + i]
  BY <1>3, <1>4, Zenon
<1>6. ASSUME NEW l, l = IF p + 1 <= p + w THEN p + w - (p + 1) + 1 ELSE 0 PROVE l = w
  BY <1>6
<1>7. SubSeq(f, p + 1, p + w) \in Seq(S) /\ Len(SubSeq(f, p + 1, p + w)) = w
  BY <1>3, <1>6
<1> QED BY <1>5, <1>7, Zenon

\* Addresses wrap around, but not so far that they meet.
LEMMA WrapAround ==
    ASSUME NEW w \in Nat, NEW x \in 0 .. w - 1, NEW j \in 0 .. w - 1
    PROVE  /\ (x + j) % w \in 0 .. w - 1
           /\ (((x + j) % w) + w - x) % w = j
<1>1. CASE x + j < w
  <2>1. x + j = 0 * w + (x + j) /\ x + j \in 0 .. w - 1
    BY <1>1
  <2>2. (x + j) % w = x + j
    BY <2>1, DivUnique
  <2>3. (x + j) + w - x = 1 * w + j /\ (x + j) + w - x \in Nat
    OBVIOUS
  <2>4. ((x + j) + w - x) % w = j
    BY <2>3, DivUnique
  <2> QED BY <1>1, <2>2, <2>4
<1>2. CASE x + j >= w
  <2> PICK d \in 0 .. w - 1 : d = x + j - w
    BY <1>2
  <2>1. x + j = 1 * w + d
    OBVIOUS
  <2>2. (x + j) % w = d
    BY <2>1, DivUnique
  <2>3. d + w - x = 0 * w + j /\ d + w - x \in Nat
    OBVIOUS
  <2>4. (d + w - x) % w = j
    BY <2>3, DivUnique
  <2> QED BY <2>2, <2>4
<1> QED BY <1>1, <1>2

\* What a record of an offset and a length puts into the patches.
New(offset, size, length, body) ==
    [a \in {(offset + i) % Word : i \in 0 .. length - 1} |->
         IF size > 0 THEN file[body + ((a + Word - offset) % Word) + 1] ELSE file[body + 3]]

\* New reads the bytes of the record at the addresses from offset on.
ComesFrom(new, offset, size, length, body) ==
    \A a \in DOMAIN new : \E i \in 0 .. length - 1 :
       /\ a = (offset + i) % Word /\ a \in 0 .. Word - 1
       /\ new[a] = IF size > 0 THEN file[body + i + 1] ELSE file[body + 3]

\* The bytes of a record go to consecutive addresses, around the end of a u32.
LEMMA NewIs ==
    ASSUME NEW offset \in 0 .. Word - 1, NEW size \in Nat, NEW length \in 0 .. Word - 1,
           NEW body
    PROVE  ComesFrom(New(offset, size, length, body), offset, size, length, body)
<1> USE DEF ComesFrom
<1>w. PICK w \in Nat : w = Word
  BY Widths
<1> SUFFICES ASSUME NEW i \in 0 .. length - 1, NEW a, a = (offset + i) % Word
             PROVE  /\ a \in 0 .. Word - 1
                    /\ New(offset, size, length, body)[a] =
                          IF size > 0 THEN file[body + i + 1] ELSE file[body + 3]
  <2>1. DOMAIN New(offset, size, length, body) = {(offset + i) % Word : i \in 0 .. length - 1}
    BY DEF New
  <2> QED BY <2>1, Zenon
<1>1. i \in 0 .. w - 1 /\ offset \in 0 .. w - 1
  BY <1>w
<1>2. a \in 0 .. w - 1 /\ (a + w - offset) % w = i
  BY <1>w, <1>1, WrapAround
<1>3. New(offset, size, length, body)[a] =
         IF size > 0 THEN file[body + ((a + Word - offset) % Word) + 1] ELSE file[body + 3]
  BY DEF New
<1> QED BY <1>w, <1>2, <1>3

\* The iteration in terms of what it reads
Went(k, beyond, r, next, new) ==
    IF next > Len(file) - 3
    THEN [r EXCEPT !.error = "InvalidPatchFormat"]
    ELSE [at |-> next,
          patches |-> With(new, r.patches),
          error |-> IF SubSeq(Append(file, beyond), next + 1, next + Width(k)) = Footer[k]
                    THEN "none" ELSE r.error]

\* The numbers of a record at position p of the file.
OffsetAt(k, p) == Number(SubSeq(file, p + 1, p + Width(k)))
SizeAt(k, p) == Number(SubSeq(file, p + Width(k) + 1, p + Width(k) + 2))
LengthAt(k, p) ==
    IF SizeAt(k, p) > 0 THEN SizeAt(k, p)
    ELSE Number(Reverse(SubSeq(file, p + Width(k) + 2 + 1, p + Width(k) + 2 + 2)))

\* One iteration of the loop, in the terms of the operators above.
LEMMA ReadRecordIs ==
    ASSUME NEW k, NEW beyond, NEW r, NEW p, p = r.at, NEW body, body = p + Width(k) + 2,
           NEW size, size = SizeAt(k, p)
    PROVE  ReadRecord(k, beyond, r) =
              Went(k, beyond, r, body + (IF size > 0 THEN size ELSE 3),
                   New(OffsetAt(k, p), size, LengthAt(k, p), body))
BY DEF ReadRecord, Went, New, OffsetAt, SizeAt, LengthAt

\* The loop goes on while a record of one byte and the footer still fit in.
LEMMA HasRecordMeans ==
    ASSUME NEW k \in Kinds, NEW p \in Nat, file \in Seq(Byte), p <= Len(file),
           HasRecord(k, Len(file) - p)
    PROVE  p + Width(k) + 5 < Len(file)
BY FooterIs DEF HasRecord

\* The numbers of a record are in the range of their widths.
LEMMA RecordNumbers ==
    ASSUME NEW k \in Kinds, NEW p \in Nat, file \in Seq(Byte), p + Width(k) + 5 < Len(file)
    PROVE  /\ OffsetAt(k, p) \in 0 .. Power[Width(k)] - 1 /\ OffsetAt(k, p) \in 0 .. Word - 1
           /\ SizeAt(k, p) \in 0 .. Power[2] - 1
           /\ LengthAt(k, p) \in 0 .. Power[2] - 1
<1>w. PICK W \in 0 .. 8 : W = Width(k) /\ W \in {3, 4}
  BY FooterIs
<1>1. OffsetAt(k, p) \in 0 .. Power[W] - 1
  <2> PICK s : s = SubSeq(file, p + 1, p + W)
    OBVIOUS
  <2>1. s \in Seq(Byte) /\ Len(s) = W
    <3>1. W \in Nat /\ p + W <= Len(file)
      BY <1>w
    <3> QED BY <3>1, Piece
  <2>2. Number(s) \in 0 .. Power[W] - 1
    BY <2>1, NumberBound
  <2> QED BY <1>w, <2>2 DEF OffsetAt
<1>2. SizeAt(k, p) \in 0 .. Power[2] - 1
  <2> PICK s : s = SubSeq(file, p + W + 1, p + W + 2)
    OBVIOUS
  <2>1. s \in Seq(Byte) /\ Len(s) = 2
    <3>1. PICK q \in Nat : q = p + W
      BY <1>w
    <3>2. q + 2 <= Len(file)
      BY <1>w, <3>1
    <3>3. SubSeq(file, q + 1, q + 2) \in Seq(Byte) /\ Len(SubSeq(file, q + 1, q + 2)) = 2
      BY <3>2, Piece
    <3> QED BY <3>1, <3>3
  <2>2. Number(s) \in 0 .. Power[2] - 1
    <3>1. 2 \in 0 .. 8
      OBVIOUS
    <3> QED BY <2>1, <3>1, NumberBound, Zenon
  <2> QED BY <1>w, <2>2 DEF SizeAt
<1>3. LengthAt(k, p) \in 0 .. Power[2] - 1
  <2>1. PICK s : s = SubSeq(file, p + W + 2 + 1, p + W + 2 + 2)
    OBVIOUS
  <2>2. s \in Seq(Byte) /\ Len(s) = 2
    <3>1. PICK q \in Nat : q = p + W + 2
      BY <1>w
    <3>2. q + 2 <= Len(file)
      BY <1>w, <3>1
    <3>3. SubSeq(file, q + 1, q + 2) \in Seq(Byte) /\ Len(SubSeq(file, q + 1, q + 2)) = 2
      BY <3>2, Piece
    <3> QED BY <2>1, <3>1, <3>3
  <2>3. PICK t : t = Reverse(s)
    OBVIOUS
  <2>4. t \in Seq(Byte) /\ Len(t) = 2
    <3>1. t = [i \in 1 .. 2 |-> s[(2 - i) + 1]]
      BY <2>2, <2>3 DEF Reverse
    <3>2. ASSUME NEW i \in 1 .. 2 PROVE s[(2 - i) + 1] \in Byte
      <4>1. (2 - i) + 1 \in 1 .. Len(s)
        BY <2>2
      <4> QED BY <2>2, <4>1, ElementOfSeq
    <3>3. t \in [1 .. 2 -> Byte] /\ 2 \in Nat
      BY <3>1, <3>2
    <3> QED BY <3>3, SeqOfFunction
  <2>5. Number(t) \in 0 .. Power[2] - 1
    <3>1. 2 \in 0 .. 8
      OBVIOUS
    <3> QED BY <2>4, <3>1, NumberBound, Zenon
  <2>6. Reverse(SubSeq(file, p + Width(k) + 2 + 1, p + Width(k) + 2 + 2)) = t
    BY <1>w, <2>1, <2>3, Zenon
  <2>7. LengthAt(k, p) = IF SizeAt(k, p) > 0 THEN SizeAt(k, p) ELSE Number(t)
    BY <2>6, Zenon DEF LengthAt
  <2>8. CASE SizeAt(k, p) > 0
    BY <1>2, <2>7, <2>8, Zenon
  <2>9. CASE ~(SizeAt(k, p) > 0)
    BY <2>5, <2>7, <2>9, Zenon
  <2> QED BY <2>8, <2>9, Zenon
<1>4. Power[W] <= Word /\ Power[W] \in Nat /\ Word \in Nat
  <2>1. Power[3] \in Nat /\ Power[4] \in Nat /\ Power[3] <= Power[4] /\ Power[4] <= Power[4]
    BY Widths DEF Word
  <2>2. Power[W] = Power[3] \/ Power[W] = Power[4]
    BY <1>w
  <2> QED BY <2>1, <2>2 DEF Word
<1>5. OffsetAt(k, p) \in 0 .. Word - 1
  BY <1>1, <1>4
<1> QED BY <1>w, <1>1, <1>2, <1>3, <1>5

\* Where the reader can be, and with what.
Maps(n) == UNION {[D -> Byte] : D \in SUBSET (0 .. n - 1)}
Readers == [at : 0 .. Len(file), patches : Maps(Word),
            error : {"MissingEOF", "none", "InvalidPatchFormat"}]

\* A function of addresses to bytes is one, whatever its domain.
LEMMA InMaps ==
    ASSUME NEW n, NEW D, NEW m, m = [a \in D |-> m[a]], D \subseteq 0 .. n - 1,
           \A a \in D : m[a] \in Byte
    PROVE  m \in Maps(n)
<1>1. m \in [D -> Byte] /\ D \in SUBSET (0 .. n - 1)
  OBVIOUS
<1> QED BY <1>1 DEF Maps

\* Patches below a u32 fit.
LEMMA MapsFit ==
    ASSUME NEW m \in Maps(Word)
    PROVE  Fits(m) /\ m = [a \in DOMAIN m |-> m[a]]
BY DEF Maps, Fits

\* What patches consist of.
LEMMA MapIs ==
    ASSUME NEW n, NEW m \in Maps(n)
    PROVE  /\ m = [a \in DOMAIN m |-> m[a]] /\ DOMAIN m \subseteq 0 .. n - 1
           /\ \A a \in DOMAIN m : m[a] \in Byte
BY DEF Maps

\* Patches to which patches are added are patches.
LEMMA WithMaps ==
    ASSUME NEW n, NEW m \in Maps(n), NEW new \in Maps(n)
    PROVE  With(m, new) \in Maps(n)
<1> PICK w : w = With(m, new)
  OBVIOUS
<1>1. w = [a \in DOMAIN m \union DOMAIN new |-> IF a \in DOMAIN m THEN m[a] ELSE new[a]]
  BY DEF With
<1>2. DOMAIN w = DOMAIN m \union DOMAIN new
      /\ \A a \in DOMAIN w : w[a] = IF a \in DOMAIN m THEN m[a] ELSE new[a]
  BY <1>1
<1>3. w = [a \in DOMAIN w |-> w[a]]
  BY <1>1
<1>4. DOMAIN w \subseteq 0 .. n - 1 /\ \A a \in DOMAIN w : w[a] \in Byte
  BY <1>2, MapIs
<1> QED BY <1>3, <1>4, InMaps, Zenon

\* What is read from a record is bytes of the file at addresses of a u32.
LEMMA NewMaps ==
    ASSUME file \in Seq(Byte), NEW offset \in 0 .. Word - 1, NEW size \in Nat,
           NEW length \in 0 .. Word - 1, NEW body \in Nat, size > 0 => length = size,
           body + size <= Len(file), body + 3 <= Len(file)
    PROVE  New(offset, size, length, body) \in Maps(Word)
<1> PICK new : new = New(offset, size, length, body)
  OBVIOUS
<1>1. \A a \in DOMAIN new : \E i \in 0 .. length - 1 :
         /\ a \in 0 .. Word - 1
         /\ new[a] = IF size > 0 THEN file[body + i + 1] ELSE file[body + 3]
  <2>1. ComesFrom(new, offset, size, length, body)
    BY NewIs, Zenon
  <2> QED BY <2>1, Zenon DEF ComesFrom
<1>2. ASSUME NEW a \in DOMAIN new PROVE a \in 0 .. Word - 1 /\ new[a] \in Byte
  <2>1. PICK i \in 0 .. length - 1 :
           /\ a \in 0 .. Word - 1
           /\ new[a] = IF size > 0 THEN file[body + i + 1] ELSE file[body + 3]
    BY <1>1
  <2>2. CASE size > 0
    <3>1. length \in Nat /\ length = size
      BY <2>2
    <3>2. body + i + 1 \in 1 .. Len(file)
      BY <3>1
    <3> QED BY <2>1, <2>2, <3>2, ElementOfSeq
  <2>3. CASE ~(size > 0)
    <3>1. body + 3 \in 1 .. Len(file)
      OBVIOUS
    <3> QED BY <2>1, <2>3, <3>1, ElementOfSeq
  <2> QED BY <2>2, <2>3
<1>3. new = [a \in DOMAIN new |-> new[a]]
  BY DEF New
<1>4. DOMAIN new \subseteq 0 .. Word - 1
  BY <1>2
<1> QED BY <1>2, <1>3, <1>4, InMaps, Zenon

\* The reader stays in the file, with patches and an error it knows.
LEMMA WentType ==
    ASSUME file \in Seq(Byte), NEW k, NEW beyond, NEW r \in Readers, NEW next \in Nat,
           NEW new, next <= Len(file) - 3 => new \in Maps(Word)
    PROVE  Went(k, beyond, r, next, new) \in Readers
<1>1. CASE next > Len(file) - 3
  <2>1. Went(k, beyond, r, next, new) = [r EXCEPT !.error = "InvalidPatchFormat"]
    BY <1>1 DEF Went
  <2> QED BY <2>1 DEF Readers
<1>2. CASE ~(next > Len(file) - 3)
  <2>1. With(new, r.patches) \in Maps(Word)
    <3>1. new \in Maps(Word) /\ r.patches \in Maps(Word)
      BY <1>2 DEF Readers
    <3> QED BY <3>1, WithMaps
  <2>2. next \in 0 .. Len(file)
    BY <1>2
  <2> PICK error \in {"MissingEOF", "none", "InvalidPatchFormat"} :
         Went(k, beyond, r, next, new) =
            [at |-> next, patches |-> With(new, r.patches), error |-> error]
    BY <1>2 DEF Went, Readers
  <2> QED BY <2>1, <2>2 DEF Readers
<1> QED BY <1>1, <1>2

\* An iteration of the loop keeps it there.
LEMMA ReadRecordType ==
    ASSUME file \in Seq(Byte), NEW k \in Kinds, NEW beyond, NEW r \in Readers,
           HasRecord(k, Len(file) - r.at)
    PROVE  ReadRecord(k, beyond, r) \in Readers
<1> PICK p \in Nat : p = r.at /\ p <= Len(file)
  BY DEF Readers
<1>1. p + Width(k) + 5 < Len(file)
  BY HasRecordMeans
<1> PICK offset, size, length :
       /\ offset = OffsetAt(k, p) /\ size = SizeAt(k, p) /\ length = LengthAt(k, p)
  OBVIOUS
<1>2. /\ offset \in 0 .. Word - 1 /\ size \in 0 .. Power[2] - 1
      /\ length \in 0 .. Power[2] - 1
  BY <1>1, RecordNumbers
<1>3. size \in Nat /\ length \in 0 .. Word - 1 /\ (size > 0 => length = size)
  <2>1. Power[2] \in Nat /\ Word \in Nat /\ Power[2] <= Word
    BY Widths
  <2>2. size > 0 => length = size
    BY Zenon DEF LengthAt
  <2> QED BY <1>2, <2>1, <2>2
<1> PICK body \in Nat : body = p + Width(k) + 2
  BY FooterIs
<1> PICK next \in Nat : next = body + (IF size > 0 THEN size ELSE 3)
  BY <1>3
<1> PICK new : new = New(offset, size, length, body)
  OBVIOUS
<1>4. next <= Len(file) - 3 => new \in Maps(Word)
  <2> SUFFICES ASSUME next <= Len(file) - 3 PROVE new \in Maps(Word)
    OBVIOUS
  <2>1. body + size <= Len(file) /\ body + 3 <= Len(file)
    <3>1. Len(file) \in Nat
      OBVIOUS
    <3>2. CASE size > 0
      BY <1>3, <3>1, <3>2
    <3>3. CASE ~(size > 0)
      <4>1. size = 0 /\ next = body + 3
        BY <1>3, <3>3
      <4> QED BY <3>1, <4>1
    <3> QED BY <3>2, <3>3
  <2> QED BY <1>2, <1>3, <2>1, NewMaps
<1>5. ReadRecord(k, beyond, r) = Went(k, beyond, r, next, new)
  BY ReadRecordIs
<1> QED BY <1>4, <1>5, WentType

-----------------------------------------------------------------------------
(* Reading a file                                                          *)

\* The empty map is one of patches.
LEMMA NoPatchesIs == NoPatches \in Maps(Word) /\ DOMAIN NoPatches = {}
<1>1. <<>> \in Seq(Byte) /\ Len(<<>>) = 0
  BY EmptySeq
<1>2. DOMAIN <<>> = 1 .. 0 /\ <<>> \in [1 .. 0 -> Byte]
  BY <1>1, LenProperties
<1>3. 1 .. 0 = {}
  OBVIOUS
<1>4. <<>> \in [{} -> Byte] /\ DOMAIN <<>> = {}
  BY <1>2, <1>3
<1>5. {} \in SUBSET (0 .. Word - 1)
  OBVIOUS
<1> QED BY <1>4, <1>5 DEF NoPatches, Maps

\* The reader before the first iteration.
FirstReader == [at |-> 0, patches |-> NoPatches, error |-> "MissingEOF"]
\* The loop goes on from the reader r.
GoesOn(k, r) == r.error # "InvalidPatchFormat" /\ HasRecord(k, Len(file) - r.at)
\* ... and after one more.
NextReader(k, beyond, r) == IF GoesOn(k, r) THEN ReadRecord(k, beyond, r) ELSE r

\* So does every step of the reader, from the first on.
LEMMA ReaderTypes ==
    ASSUME file \in Seq(Byte), NEW k \in Kinds, NEW beyond
    PROVE  /\ FirstReader \in Readers
           /\ \A r \in Readers : NextReader(k, beyond, r) \in Readers
<1>1. FirstReader \in Readers
  <2>1. 0 \in 0 .. Len(file)
    OBVIOUS
  <2> QED BY <2>1, NoPatchesIs DEF FirstReader, Readers
<1>2. ASSUME NEW r \in Readers PROVE NextReader(k, beyond, r) \in Readers
  <2>1. CASE GoesOn(k, r)
    BY <2>1, ReadRecordType DEF NextReader, GoesOn
  <2>2. CASE ~GoesOn(k, r)
    BY <2>2 DEF NextReader
  <2> QED BY <2>1, <2>2
<1> QED BY <1>1, <1>2

\* What the reader has done after so many iterations.
Reading(run, k, beyond, n) ==
    /\ run \in [0 .. n -> Readers] /\ run[0] = FirstReader
    /\ \A i \in 1 .. n : run[i] = NextReader(k, beyond, run[i - 1])

\* For every file there is a run of the reader through it.
LEMMA ReadingExists ==
    ASSUME file \in Seq(Byte), NEW k \in Kinds, NEW beyond, NEW n \in Nat
    PROVE  \E run : Reading(run, k, beyond, n)
<1> DEFINE step == [i \in 1 .. n |-> [r \in Readers |-> NextReader(k, beyond, r)]]
<1>1. \A i \in 1 .. n, r \in Readers : step[i][r] = NextReader(k, beyond, r)
  OBVIOUS
<1>2. FirstReader \in Readers /\ \A r \in Readers : NextReader(k, beyond, r) \in Readers
  BY ReaderTypes
<1> HIDE DEF step
<1>3. PICK run : Runs(run, Readers, n, FirstReader, step)
  BY <1>1, <1>2, Iterates, Zenon
<1>4. run \in [0 .. n -> Readers] /\ run[0] = FirstReader
  BY <1>3, Zenon DEF Runs
<1>5. ASSUME NEW i \in 1 .. n PROVE run[i] = NextReader(k, beyond, run[i - 1])
  <2>1. run[i - 1] \in Readers
    <3>1. i - 1 \in 0 .. n
      OBVIOUS
    <3> QED BY <1>4, <3>1, Zenon
  <2> QED BY <1>1, <1>3, <2>1, Zenon DEF Runs
<1> QED BY <1>4, <1>5, Zenon DEF Reading

\* The answer of Read, from where the reader ended.
Answer(k, last) ==
    IF Len(file) < Width(k) THEN Refused("InvalidPatchHeader")
    ELSE IF last.error # "none" THEN Refused(last.error)
    ELSE last

\* Read is what the run ends with.
LEMMA ReadIs ==
    ASSUME file \in Seq(Byte), NEW k \in Kinds, NEW beyond, NEW n \in Nat, n = Len(file),
           NEW run, Reading(run, k, beyond, n)
    PROVE  Read(k, beyond) = Answer(k, run[n])
<1> DEFINE Defines(f) ==
             f = [i \in 0 .. Len(file) |->
                     IF i = 0 THEN [at |-> 0, patches |-> NoPatches, error |-> "MissingEOF"]
                     ELSE LET r == f[i - 1]
                          IN  IF r.error # "InvalidPatchFormat" /\ HasRecord(k, Len(file) - r.at)
                              THEN ReadRecord(k, beyond, r)
                              ELSE r]
           after == CHOOSE f : Defines(f)
           whole == [i \in 0 .. n |-> run[i]]
<1>1. Read(k, beyond) = Answer(k, after[n])
  BY DEF Read, Answer
<1>2. Defines(whole)
  <2> SUFFICES ASSUME NEW i \in 0 .. n
               PROVE  whole[i] = IF i = 0 THEN FirstReader
                                 ELSE NextReader(k, beyond, whole[i - 1])
    BY DEF FirstReader, NextReader, GoesOn
  <2>1. CASE i = 0
    BY <2>1 DEF Reading
  <2>2. CASE i # 0
    <3>1. i \in 1 .. n /\ i - 1 \in 0 .. n
      BY <2>2
    <3>2. run[i] = NextReader(k, beyond, run[i - 1])
      BY <3>1 DEF Reading
    <3>3. whole[i] = run[i] /\ whole[i - 1] = run[i - 1]
      BY <3>1
    <3> QED BY <2>2, <3>2, <3>3, Zenon
  <2> QED BY <2>1, <2>2
<1> HIDE DEF whole, Defines
<1>3. Defines(after)
  BY <1>2
<1> HIDE DEF after
<1>4. \A i \in 0 .. n : after[i] = IF i = 0 THEN FirstReader
                                   ELSE NextReader(k, beyond, after[i - 1])
  BY <1>3 DEF Defines, FirstReader, NextReader, GoesOn
<1>5. GoAlike(after, run, n)
  <2>1. after[0] = run[0]
    BY <1>4 DEF Reading
  <2>2. ASSUME NEW i \in 1 .. n, after[i - 1] = run[i - 1] PROVE after[i] = run[i]
    <3>1. after[i] = NextReader(k, beyond, after[i - 1])
      BY <1>4
    <3>2. run[i] = NextReader(k, beyond, run[i - 1])
      BY DEF Reading
    <3> QED BY <2>2, <3>1, <3>2, Zenon
  <2> QED BY <2>1, <2>2, Zenon DEF GoAlike
<1>6. Alike(after, run, n)
  BY <1>5, SameRun, Zenon
<1>7. n \in 0 .. n
  OBVIOUS
<1> QED BY <1>1, <1>6, <1>7, Zenon DEF Alike

\* Whatever the file is, what is read from it are patches.
LEMMA ReadType ==
    ASSUME file \in Seq(Byte), NEW k \in Kinds, NEW beyond
    PROVE  /\ Read(k, beyond).patches \in Maps(Word)
           /\ Read(k, beyond).error \in
                 {"none", "InvalidPatchHeader", "InvalidPatchFormat", "MissingEOF"}
<1> PICK n \in Nat : n = Len(file)
  OBVIOUS
<1>1. PICK run : Reading(run, k, beyond, n)
  BY ReadingExists
<1>2. Read(k, beyond) = Answer(k, run[n])
  BY <1>1, ReadIs, Zenon
<1>3. run[n] \in Readers
  BY <1>1 DEF Reading
<1> PICK last \in Readers : last = run[n]
  BY <1>3
<1>4. \A error : Refused(error).error = error /\ Refused(error).patches \in Maps(Word)
  BY NoPatchesIs DEF Refused
<1>5. CASE Len(file) < Width(k)
  BY <1>2, <1>4, <1>5 DEF Answer
<1>6. CASE ~(Len(file) < Width(k)) /\ last.error # "none"
  BY <1>2, <1>4, <1>6 DEF Answer, Readers
<1>7. CASE ~(Len(file) < Width(k)) /\ last.error = "none"
  BY <1>2, <1>7 DEF Answer, Readers
<1> QED BY <1>5, <1>6, <1>7

-----------------------------------------------------------------------------
(* Reading what was written                                                *)

\* A file that begins like the one that the patches m are written to.
Sent(k, m, f, pos) ==
    /\ k \in Kinds /\ m \in Maps(Word) /\ Layout(f, pos, k, m)
    /\ \A s \in Starts(m) : s < Power[Width(k)] /\ Len(Run(m, s)) < Power[2]
    /\ Number(Footer[k]) \notin Starts(m)
    /\ file \in Seq(Byte) /\ Begins(file, f)

\* The first address that is not below a is the one of a record.
Behind(m, a) == {x \in DOMAIN m : x >= a}
Between(m, a) == a = 0 \/ a \notin DOMAIN m
NextStart(m, a, s) == s \in Starts(m) /\ s >= a /\ \A x \in Behind(m, a) : x >= s

\* If bytes are left, there is a first run among them.
LEMMA NextStartExists ==
    ASSUME NEW m, Fits(m), NEW a \in 0 .. Word, Between(m, a), Behind(m, a) # {}
    PROVE  \E s : NextStart(m, a, s)
<1>1. a \in Nat /\ \A x \in DOMAIN m : x \in Nat
  BY Widths DEF Fits
<1>2. Behind(m, a) \in SUBSET Nat
  BY <1>1 DEF Behind
<1>3. PICK s \in Behind(m, a) : \A x \in Behind(m, a) : s =< x
  BY <1>2, LeastElement
<1>4. s \in DOMAIN m /\ s >= a /\ s \in Nat
  BY <1>1 DEF Behind
<1>5. \A x \in Behind(m, a) : x >= s
  BY <1>2, <1>3, <1>4
<1>6. s = 0 \/ s - 1 \notin DOMAIN m
  <2>1. CASE s = a
    BY <1>4, <2>1 DEF Between
  <2>2. CASE s # a
    <3> SUFFICES ASSUME s - 1 \in DOMAIN m PROVE FALSE
      OBVIOUS
    <3>1. s - 1 >= a
      BY <1>1, <1>4, <2>2
    <3>2. s - 1 \in Behind(m, a)
      BY <3>1 DEF Behind
    <3> QED BY <1>4, <1>5, <3>2
  <2> QED BY <2>1, <2>2
<1> QED BY <1>4, <1>5, <1>6 DEF NextStart, Starts

\* Where no record starts, nothing is written.
LEMMA SamePosition ==
    ASSUME NEW k \in Kinds, NEW m, NEW f, NEW pos, Layout(f, pos, k, m),
           NEW a \in 0 .. Word, NEW b \in a .. Word, \A s \in Starts(m) : ~(a <= s /\ s < b)
    PROVE  pos[a] = pos[b]
<1>w. PICK n \in Nat : n = b
  BY Widths
<1>1. Word \in Nat
  BY Widths
<1> DEFINE T == {i \in 0 .. n : i < a \/ pos[i] = pos[a]}
<1>2. 0 \in T
  BY <1>1
<1>3. ASSUME NEW i \in 1 .. n, i - 1 \in T PROVE i \in T
  <2>1. CASE i <= a
    BY <1>1, <2>1
  <2>2. CASE i > a
    <3>1. i - 1 \in 0 .. Word - 1 /\ (i - 1) + 1 = i /\ i - 1 >= a /\ i - 1 < b /\ ~(i - 1 < a)
      BY <1>w, <1>1, <2>2
    <3>2. i - 1 \notin Starts(m)
      BY <3>1
    <3>3. \A c \in 0 .. Word - 1 : c \notin Starts(m) => pos[c + 1] = pos[c]
      BY DEF Layout
    <3>4. pos[i] = pos[i - 1]
      BY <3>1, <3>2, <3>3
    <3> QED BY <1>3, <3>1, <3>4
  <2> QED BY <1>1, <2>1, <2>2
<1> HIDE DEF T
<1>4. 0 .. n \subseteq T
  BY <1>2, <1>3, Induction
<1>5. b \in T /\ ~(b < a)
  BY <1>w, <1>1, <1>4
<1> QED BY <1>5 DEF T

\* A run and what follows it
AfterRun(m, pos, W, s, e, p, L) ==
    /\ s \in 0 .. Word - 1 /\ e \in s .. Word - 1 /\ e + 1 \notin DOMAIN m
    /\ s .. e \subseteq DOMAIN m /\ L = e - s + 1 /\ L \in 1 .. Power[2] - 1
    /\ p \in Nat /\ pos[s] = p /\ pos[e + 1] = p + W + 2 + L

\* Behind a run the next record follows, and no byte of a run between.
LEMMA AfterRunIs ==
    ASSUME NEW k, NEW m, NEW f, NEW pos, Sent(k, m, f, pos), NEW s \in Starts(m),
           NEW e, e = RunEnd(m, s), NEW L, L = Len(Run(m, s))
    PROVE  AfterRun(m, pos, Width(k), s, e, pos[s], L)
<1>1. k \in Kinds /\ Fits(m) /\ Layout(f, pos, k, m)
  BY MapsFit DEF Sent
<1>2. s \in DOMAIN m /\ s \in 0 .. Word - 1 /\ Word \in Nat
  BY <1>1, StartsIn, Widths
<1>3. e \in s .. Word - 1 /\ e + 1 \notin DOMAIN m /\ s .. e \subseteq DOMAIN m
  BY <1>1, <1>2, RunEndIs
<1>4. e \in Nat
  BY <1>2, <1>3
<1>5. L = e - s + 1
  BY <1>1, <1>2, <1>4, RunIs
<1>6. L \in 1 .. Power[2] - 1
  <2>1. L < Power[2]
    BY DEF Sent
  <2> QED BY <1>2, <1>3, <1>5, <2>1, Widths
<1>7. pos[s] \in Nat /\ pos[s + 1] = pos[s] + Width(k) + 2 + L
  <2>1. s \in 0 .. Word
    BY <1>2
  <2> QED BY <1>1, <2>1 DEF Layout
<1>8. pos[s + 1] = pos[e + 1]
  <2>1. s + 1 \in 0 .. Word /\ e + 1 \in s + 1 .. Word
    BY <1>2, <1>3
  <2>2. ASSUME NEW x \in Starts(m), s + 1 <= x, x < e + 1 PROVE FALSE
    <3>1. x \in 0 .. Word - 1
      BY <1>1, StartsIn
    <3>2. x # 0 /\ x - 1 \in s .. e
      BY <1>2, <1>3, <2>2, <3>1
    <3> QED BY <1>3, <3>2 DEF Starts
  <2> QED BY <1>1, <2>1, <2>2, SamePosition
<1> QED BY <1>2, <1>3, <1>5, <1>6, <1>7, <1>8 DEF AfterRun

\* A number that was written is the one that is read.
LEMMA NumberAt ==
    ASSUME file \in Seq(Byte), NEW q \in Nat, NEW w \in 1 .. 8, q + w <= Len(file),
           NEW n \in 0 .. Power[w] - 1, \A i \in 1 .. w : file[q + i] = Digits(n, w)[i]
    PROVE  Number(SubSeq(file, q + 1, q + w)) = n
<1>1. n \in Nat /\ w \in Nat
  BY PowerIs
<1>2. PICK s : s = SubSeq(file, q + 1, q + w)
  OBVIOUS
<1>3. PICK t : t = Digits(n, w)
  OBVIOUS
<1>4. s \in Seq(Byte) /\ Len(s) = w /\ \A i \in 1 .. w : s[i] = file[q + i]
  BY <1>1, <1>2, Piece
<1>5. t \in Seq(Byte) /\ Len(t) = w
  BY <1>1, <1>3, DigitsType, Zenon
<1>6. \A i \in 1 .. w : s[i] = t[i]
  BY <1>3, <1>4
<1>7. s = t
  BY <1>4, <1>5, <1>6, SeqEqual
<1>8. Number(t) = n
  BY <1>3, NumberOfDigits, Zenon
<1> QED BY <1>2, <1>7, <1>8

\* Places in a file of n bytes.
LEMMA InFile ==
    ASSUME NEW n \in Nat, NEW q \in Nat, q + 5 < n
    PROVE  q + 2 <= n
OBVIOUS

\* Places of the bytes of an address.
LEMMA InHead ==
    ASSUME NEW n \in Nat, NEW p \in Nat, NEW w \in Nat, NEW i \in Nat, i >= 1, i <= w,
           p + w + 5 < n
    PROVE  p + i \in 1 .. n
OBVIOUS

\* Places of the bytes of a run.
LEMMA InRun ==
    ASSUME NEW n \in Nat, NEW p \in Nat, NEW w \in Nat, NEW i \in Nat, i >= 1,
           p + w + 2 + i <= n
    PROVE  p + w + 2 + i \in 1 .. n
OBVIOUS

\* The reader at a record finds the run that was written into it.
LEMMA RecordFound ==
    ASSUME NEW k, NEW m, NEW f, NEW pos, Sent(k, m, f, pos), NEW s \in Starts(m),
           NEW p \in Nat, p = pos[s], NEW L, L = Len(Run(m, s)),
           p + Width(k) + 5 < Len(file)
    PROVE  /\ OffsetAt(k, p) = s /\ SizeAt(k, p) = L /\ LengthAt(k, p) = L
           /\ \A i \in 1 .. L : p + Width(k) + 2 + i <= Len(file) =>
                                   file[p + Width(k) + 2 + i] = m[s + i - 1]
<1>0. k \in Kinds /\ file \in Seq(Byte) /\ Begins(file, f) /\ Fits(m) /\ Layout(f, pos, k, m)
  BY MapsFit DEF Sent
<1>w. PICK W \in 1 .. 8 : W = Width(k) /\ W \in {3, 4}
  BY <1>0, FooterIs
<1>1. HasRecordAt(f, p, m, W, s, L)
  BY <1>0, <1>w DEF Layout
<1>2. s \in 0 .. Power[W] - 1 /\ L \in 1 .. Power[2] - 1
  <2>1. s \in Nat
    BY <1>0, StartsIn, Widths
  <2>0. Power[W] \in Nat
    <3>1. W \in 0 .. 8
      OBVIOUS
    <3> QED BY <3>1, PowerNat, Zenon
  <2>2. s < Power[W]
    <3>1. s < Power[Width(k)]
      BY DEF Sent
    <3> QED BY <1>w, <3>1
  <2>3. AfterRun(m, pos, Width(k), s, RunEnd(m, s), pos[s], L)
    BY AfterRunIs
  <2>4. L \in 1 .. Power[2] - 1
    BY <2>3 DEF AfterRun
  <2> QED BY <2>0, <2>1, <2>2, <2>4
<1>3. \A i \in 1 .. Len(file) : file[i] = f[i]
  BY <1>0 DEF Begins
<1>n. Len(file) \in Nat /\ p + W + 5 < Len(file) /\ W \in Nat
  BY <1>0, <1>w
<1>l. L \in Nat /\ L > 0 /\ L \in 0 .. Power[2] - 1
  BY <1>2, Widths
<1>4. Number(SubSeq(file, p + 1, p + W)) = s
  <2>1. ASSUME NEW i \in 1 .. W PROVE file[p + i] = Digits(s, W)[i]
    <3>1. p + i \in 1 .. Len(file)
      <4>1. i \in Nat /\ i >= 1 /\ i <= W
        BY <1>n
      <4> QED BY <1>n, <4>1, InHead, Zenon
    <3>2. f[p + i] = Digits(s, W)[i]
      BY <1>1, Zenon DEF HasRecordAt
    <3> QED BY <1>3, <3>1, <3>2
  <2>2. p + W <= Len(file)
    BY <1>0, <1>w
  <2> QED BY <1>0, <1>2, <2>1, <2>2, NumberAt, Zenon
<1>5. Number(SubSeq(file, p + W + 1, p + W + 2)) = L
  <2>1. PICK q \in Nat : q = p + W
    OBVIOUS
  <2>2. ASSUME NEW i \in 1 .. 2 PROVE file[q + i] = Digits(L, 2)[i]
    <3>1. q + i \in 1 .. Len(file)
      <4>1. q \in Nat /\ q + 5 < Len(file) /\ Len(file) \in Nat
        BY <1>n, <2>1
      <4> QED BY <4>1
    <3>2. f[p + W + i] = Digits(L, 2)[i]
      BY <1>1, Zenon DEF HasRecordAt
    <3>3. file[q + i] = f[q + i]
      BY <1>3, <3>1, Zenon
    <3> QED BY <2>1, <3>2, <3>3
  <2>3. q + 2 <= Len(file) /\ 2 \in 1 .. 8
    <3>1. q + 5 < Len(file)
      BY <1>n, <2>1, Zenon
    <3>2. 2 \in 1 .. 8
      OBVIOUS
    <3> QED BY <1>n, <3>1, <3>2, InFile, Zenon
  <2>4. Number(SubSeq(file, q + 1, q + 2)) = L
    BY <1>0, <1>l, <2>2, <2>3, NumberAt, Zenon
  <2> QED BY <2>1, <2>4
<1>6. L > 0
  BY <1>l
<1>7. ASSUME NEW i \in 1 .. L, p + W + 2 + i <= Len(file)
      PROVE  file[p + W + 2 + i] = m[s + i - 1]
  <2>1. p + W + 2 + i \in 1 .. Len(file)
    <3>1. i \in Nat /\ i >= 1
      BY <1>l
    <3> QED BY <1>7, <1>n, <3>1, InRun, Zenon
  <2>2. f[p + W + 2 + i] = m[s + i - 1]
    BY <1>1, Zenon DEF HasRecordAt
  <2> QED BY <1>3, <2>1, <2>2
<1>8. OffsetAt(k, p) = s
  BY <1>w, <1>4 DEF OffsetAt
<1>9. SizeAt(k, p) = L
  BY <1>w, <1>5 DEF SizeAt
<1>10. LengthAt(k, p) = L
  BY <1>6, <1>9 DEF LengthAt
<1>11. \A i \in 1 .. L : p + Width(k) + 2 + i <= Len(file) =>
                            file[p + Width(k) + 2 + i] = m[s + i - 1]
  BY <1>w, <1>7
<1> QED BY <1>8, <1>9, <1>10, <1>11

\* The run itself is what its record puts into the patches.
IsRun(new, m, s, e) == DOMAIN new = s .. e /\ \A x \in s .. e : new[x] = m[x]

\* What it reads from the record is the run.
LEMMA NewOwn ==
    ASSUME NEW m, NEW s \in 0 .. Word - 1, NEW e \in s .. Word - 1,
           NEW L \in Nat, L = e - s + 1, L < Word, NEW body \in Nat,
           \A i \in 1 .. L : file[body + i] = m[s + i - 1]
    PROVE  IsRun(New(s, L, L, body), m, s, e)
<1>w. PICK w \in Nat : w = Word
  BY Widths
<1>0. PICK new : new = New(s, L, L, body)
  OBVIOUS
<1>1. s \in 0 .. w - 1 /\ e \in s .. w - 1 /\ L < w /\ L > 0
  BY <1>w
<1>2. ASSUME NEW i \in 0 .. L - 1 PROVE (s + i) % Word = s + i /\ s + i \in s .. e
  <2>1. s + i \in 0 .. w - 1 /\ s + i = 0 * w + (s + i) /\ s + i \in Nat
    BY <1>1
  <2>2. (s + i) % w = s + i
    BY <1>1, <2>1, DivUnique
  <2> QED BY <1>w, <1>1, <2>2
<1>3. DOMAIN new = {(s + i) % Word : i \in 0 .. L - 1}
  BY <1>0 DEF New
<1>4. DOMAIN new \subseteq s .. e
  BY <1>2, <1>3
<1>5. ASSUME NEW x \in s .. e PROVE x \in DOMAIN new /\ new[x] = m[x]
  <2>1. x - s \in 0 .. L - 1 /\ s + (x - s) = x
    BY <1>1
  <2>2. x \in DOMAIN new
    BY <1>2, <1>3, <2>1
  <2>3. ComesFrom(new, s, L, L, body)
    <3>1. L \in 0 .. Word - 1
      BY <1>w, <1>1
    <3> QED BY <1>0, <3>1, NewIs, Zenon
  <2>4. PICK i \in 0 .. L - 1 :
           x = (s + i) % Word /\ new[x] = IF L > 0 THEN file[body + i + 1] ELSE file[body + 3]
    BY <2>2, <2>3 DEF ComesFrom
  <2>5. x = s + i /\ new[x] = file[body + i + 1]
    BY <1>1, <1>2, <2>4
  <2>6. i + 1 \in 1 .. L /\ body + (i + 1) = body + i + 1 /\ s + (i + 1) - 1 = s + i
    BY <1>1
  <2>7. file[body + (i + 1)] = m[s + (i + 1) - 1]
    BY <2>6
  <2> QED BY <2>2, <2>5, <2>6, <2>7
<1> QED BY <1>0, <1>4, <1>5 DEF IsRun

\* The patches of the addresses below a
Below(m, a) == [x \in {x \in DOMAIN m : x < a} |-> m[x]]

\* With the run, it has all patches below the end of the run.
LEMMA WithOwn ==
    ASSUME NEW m, Fits(m), NEW a \in 0 .. Word, NEW s \in a .. Word, NEW e \in s .. Word,
           s .. e \subseteq DOMAIN m, \A x \in Behind(m, a) : x >= s,
           NEW new, DOMAIN new = s .. e, \A x \in s .. e : new[x] = m[x]
    PROVE  With(new, Below(m, a)) = Below(m, e + 1)
<1>0. Word \in Nat /\ \A x \in DOMAIN m : x \in 0 .. Word - 1
  BY Widths DEF Fits
<1>1. DOMAIN Below(m, a) = {x \in DOMAIN m : x < a}
      /\ \A x \in DOMAIN Below(m, a) : Below(m, a)[x] = m[x]
  BY DEF Below
<1>2. DOMAIN new \union DOMAIN Below(m, a) = {x \in DOMAIN m : x < e + 1}
  <2>1. ASSUME NEW x \in DOMAIN m, x < e + 1 PROVE x < a \/ x \in s .. e
    <3>1. x \in Nat /\ a \in Nat
      BY <1>0
    <3>2. x >= a => x >= s
      BY <2>1 DEF Behind
    <3> QED BY <1>0, <2>1, <3>1, <3>2
  <2>2. ASSUME NEW x \in DOMAIN m, x < a \/ x \in s .. e PROVE x < e + 1
    BY <1>0, <2>2
  <2> QED BY <1>1, <2>1, <2>2
<1>3. With(new, Below(m, a)) =
         [x \in {x \in DOMAIN m : x < e + 1} |->
             IF x \in DOMAIN new THEN new[x] ELSE Below(m, a)[x]]
  BY <1>2 DEF With
<1>4. ASSUME NEW x \in DOMAIN m, x < e + 1
      PROVE  (IF x \in DOMAIN new THEN new[x] ELSE Below(m, a)[x]) = m[x]
  BY <1>1, <1>2, <1>4
<1> QED BY <1>3, <1>4 DEF Below

-----------------------------------------------------------------------------
(* The footer                                                              *)

\* At position q the reader takes what it sees for the footer.
FooterSeen(k, beyond, q) == SubSeq(Append(file, beyond), q + 1, q + Width(k)) = Footer[k]

\* The bytes that are compared with the footer
LEMMA Compared ==
    ASSUME file \in Seq(Byte), NEW beyond \in Byte, NEW q \in Nat, NEW W \in Nat,
           q + W <= Len(file) + 1
    PROVE  /\ SubSeq(Append(file, beyond), q + 1, q + W) \in Seq(Byte)
           /\ Len(SubSeq(Append(file, beyond), q + 1, q + W)) = W
           /\ \A i \in 1 .. W : q + i <= Len(file) =>
                 SubSeq(Append(file, beyond), q + 1, q + W)[i] = file[q + i]
<1>1. PICK g : g = Append(file, beyond)
  OBVIOUS
<1>2. /\ g \in Seq(Byte) /\ Len(g) = Len(file) + 1
      /\ \A i \in 1 .. Len(file) : g[i] = file[i]
  BY <1>1, AppendProperties
<1>3. /\ SubSeq(g, q + 1, q + W) \in Seq(Byte) /\ Len(SubSeq(g, q + 1, q + W)) = W
      /\ \A i \in 1 .. W : SubSeq(g, q + 1, q + W)[i] = g[q + i]
  <2>1. q + W <= Len(g)
    BY <1>2
  <2> QED BY <1>2, <2>1, Piece
<1>4. ASSUME NEW i \in 1 .. W, q + i <= Len(file)
      PROVE  SubSeq(g, q + 1, q + W)[i] = file[q + i]
  BY <1>2, <1>3, <1>4
<1> QED BY <1>1, <1>3, <1>4

\* Behind the last record of a whole file is the footer.
LEMMA FooterAtEnd ==
    ASSUME NEW k, NEW m, NEW f, NEW pos, Sent(k, m, f, pos), Len(file) = Len(f),
           NEW beyond \in Byte
    PROVE  FooterSeen(k, beyond, pos[Word])
<1>0. /\ k \in Kinds /\ file \in Seq(Byte) /\ Begins(file, f) /\ Layout(f, pos, k, m)
      /\ Word \in Nat
  BY Widths DEF Sent
<1>w. PICK W \in Nat : W = Width(k) /\ W \in {3, 4}
  BY <1>0, FooterIs
<1>q. PICK q \in Nat : q = pos[Word]
  BY <1>0 DEF Layout
<1>1. Len(file) = q + W /\ \A i \in 1 .. W : f[q + i] = Footer[k][i]
  BY <1>0, <1>w, <1>q DEF Layout
<1>2. PICK s : s = SubSeq(Append(file, beyond), q + 1, q + W)
  OBVIOUS
<1>3. s \in Seq(Byte) /\ Len(s) = W /\ \A i \in 1 .. W : q + i <= Len(file) => s[i] = file[q + i]
  <2>1. q + W <= Len(file) + 1
    BY <1>1
  <2> QED BY <1>0, <1>2, <2>1, Compared
<1>4. ASSUME NEW i \in 1 .. W PROVE s[i] = Footer[k][i]
  <2>1. q + i \in 1 .. Len(file) /\ q + i <= Len(file)
    BY <1>1
  <2>2. s[i] = file[q + i] /\ file[q + i] = f[q + i]
    BY <1>0, <1>3, <2>1 DEF Begins
  <2> QED BY <1>1, <2>2
<1>5. Footer[k] \in Seq(Byte) /\ Len(Footer[k]) = W
  BY <1>0, <1>w, FooterIs DEF Width
<1>6. s = Footer[k]
  BY <1>3, <1>4, <1>5, SeqEqual
<1> QED BY <1>2, <1>6, <1>w, <1>q DEF FooterSeen

\* The address of a record that is there is not taken for the footer.
LEMMA FooterNotAtRecord ==
    ASSUME NEW k, NEW m, NEW f, NEW pos, Sent(k, m, f, pos), NEW s \in Starts(m),
           NEW q \in Nat, q = pos[s], q + Width(k) <= Len(file), NEW beyond \in Byte
    PROVE  ~FooterSeen(k, beyond, q)
<1>0. /\ k \in Kinds /\ file \in Seq(Byte) /\ Begins(file, f) /\ Layout(f, pos, k, m)
      /\ Fits(m)
  BY MapsFit DEF Sent
<1>w. PICK W \in 1 .. 8 : W = Width(k) /\ W \in {3, 4}
  BY <1>0, FooterIs
<1>n. Len(file) \in Nat /\ q + W <= Len(file) /\ W \in Nat
  BY <1>0, <1>w
<1>1. PICK t : t = SubSeq(Append(file, beyond), q + 1, q + W)
  OBVIOUS
<1>2. t \in Seq(Byte) /\ Len(t) = W /\ \A i \in 1 .. W : q + i <= Len(file) => t[i] = file[q + i]
  <2>1. q + W <= Len(file) + 1
    BY <1>n
  <2>2. /\ SubSeq(Append(file, beyond), q + 1, q + W) \in Seq(Byte)
        /\ Len(SubSeq(Append(file, beyond), q + 1, q + W)) = W
        /\ \A i \in 1 .. W : q + i <= Len(file) =>
              SubSeq(Append(file, beyond), q + 1, q + W)[i] = file[q + i]
    BY <1>0, <1>n, <2>1, Compared
  <2> QED BY <1>1, <2>2, Zenon
<1>3. \A i \in 1 .. W : f[q + i] = Digits(s, W)[i]
  <2>1. HasRecordAt(f, pos[s], m, Width(k), s, Len(Run(m, s)))
    BY <1>0 DEF Layout
  <2> QED BY <1>w, <2>1 DEF HasRecordAt
<1>4. s \in Nat /\ s \in 0 .. Power[W] - 1
  <2>1. s \in Nat
    BY <1>0, StartsIn, Widths
  <2>0. Power[W] \in Nat
    <3>1. W \in 0 .. 8
      OBVIOUS
    <3> QED BY <3>1, PowerNat, Zenon
  <2>2. s < Power[W]
    <3>1. s < Power[Width(k)]
      BY DEF Sent
    <3> QED BY <1>w, <3>1
  <2> QED BY <2>0, <2>1, <2>2
<1>5. PICK d : d = Digits(s, W)
  OBVIOUS
<1>6. d \in Seq(Byte) /\ Len(d) = W /\ Number(d) = s
  <2>1. d \in Seq(Byte) /\ Len(d) = W
    BY <1>4, <1>5, DigitsType, Zenon
  <2>2. Number(d) = s
    BY <1>4, <1>5, NumberOfDigits, Zenon
  <2> QED BY <2>1, <2>2
<1>7. ASSUME NEW i \in 1 .. W PROVE t[i] = d[i]
  <2>1. q + i \in 1 .. Len(file) /\ q + i <= Len(file)
    BY <1>n
  <2>2. t[i] = file[q + i] /\ file[q + i] = f[q + i]
    BY <1>0, <1>2, <2>1 DEF Begins
  <2> QED BY <1>3, <1>5, <2>2
<1>8. t = d
  BY <1>2, <1>6, <1>7, SeqEqual
<1>9. Number(Footer[k]) # s
  BY DEF Sent
<1> QED BY <1>1, <1>6, <1>8, <1>9, <1>w, Zenon DEF FooterSeen

\* EndsInFooter, for any kind.
EndsIn(k) ==
    /\ k = IPS32 /\ Len(file) >= 3
    /\ SubSeq(file, Len(file) - 2, Len(file)) = SubSeq(Footer[IPS32], 1, 3)

\* Of a footer of four bytes, three may be compared and found.
LEMMA FooterCut ==
    ASSUME file \in Seq(Byte), NEW k \in Kinds, NEW beyond \in Byte, NEW q \in Nat,
           q + 3 <= Len(file), q + Width(k) > Len(file), FooterSeen(k, beyond, q)
    PROVE  EndsIn(k)
<1>1. k = IPS32 /\ Width(k) = 4 /\ Footer[k] \in Seq(Byte) /\ Len(Footer[k]) = 4
  <2>1. k # IPS
    BY FooterIs
  <2> QED BY <2>1, FooterIs DEF Width
<1>2. Len(file) = q + 3
  BY <1>1
<1>3. PICK t : t = SubSeq(Append(file, beyond), q + 1, q + 4)
  OBVIOUS
<1>4. \A i \in 1 .. 4 : q + i <= Len(file) => t[i] = file[q + i]
  <2>1. q + 4 <= Len(file) + 1 /\ 4 \in Nat
    BY <1>2
  <2> QED BY <1>3, <2>1, Compared
<1>5. t = Footer[k]
  BY <1>1, <1>3 DEF FooterSeen
<1>6. \A i \in 1 .. 3 : file[q + i] = Footer[k][i]
  BY <1>2, <1>4, <1>5
<1>7. PICK x : x = SubSeq(file, q + 1, q + 3)
  OBVIOUS
<1>8. x \in Seq(Byte) /\ Len(x) = 3 /\ \A i \in 1 .. 3 : x[i] = file[q + i]
  <2>1. 3 \in Nat /\ q + 3 <= Len(file)
    BY <1>2
  <2> QED BY <1>7, <2>1, Piece
<1>9. PICK y : y = SubSeq(Footer[k], 0 + 1, 0 + 3)
  OBVIOUS
<1>10. y \in Seq(Byte) /\ Len(y) = 3 /\ \A i \in 1 .. 3 : y[i] = Footer[k][0 + i]
  <2>1. 3 \in Nat /\ 0 \in Nat /\ 0 + 3 <= Len(Footer[k])
    BY <1>1
  <2> QED BY <1>1, <1>9, <2>1, Piece
<1>11. x = y
  <2>1. \A i \in 1 .. 3 : 0 + i = i
    OBVIOUS
  <2>2. ASSUME NEW i \in 1 .. 3 PROVE x[i] = y[i]
    BY <1>6, <1>8, <1>10, <2>1, Zenon
  <2>3. Len(x) = Len(y) /\ \A i \in 1 .. Len(x) : x[i] = y[i]
    BY <1>8, <1>10, <2>2
  <2> QED BY <1>8, <1>10, <2>3, SeqEqual
<1>12. Len(file) - 2 = q + 1 /\ Len(file) >= 3
  BY <1>2
<1> QED BY <1>1, <1>2, <1>7, <1>9, <1>11, <1>12 DEF EndsIn

-----------------------------------------------------------------------------
(* The loop                                                                *)

\* The position for an address is the one of the next record, or of the footer.
LEMMA UpToNext ==
    ASSUME NEW k, NEW m, NEW f, NEW pos, Sent(k, m, f, pos), NEW a \in 0 .. Word
    PROVE  /\ pos[a] \in Nat /\ pos[a] <= pos[Word] /\ Len(f) = pos[Word] + Width(k)
           /\ Behind(m, a) = {} => pos[a] = pos[Word]
           /\ \A s : NextStart(m, a, s) => pos[a] = pos[s]
<1>0. k \in Kinds /\ Fits(m) /\ Layout(f, pos, k, m) /\ Word \in Nat
  BY MapsFit, Widths DEF Sent
<1>s. ASSUME NEW x \in Starts(m), a <= x PROVE x \in Behind(m, a) /\ x \in 0 .. Word - 1
  <2>1. x \in DOMAIN m /\ x \in 0 .. Word - 1
    BY <1>0, StartsIn
  <2> QED BY <1>0, <1>s, <2>1 DEF Behind
<1>1. pos[a] \in Nat /\ pos[a] <= pos[Word] /\ Len(f) = pos[Word] + Width(k)
  <2>1. Word \in a .. Word
    BY <1>0
  <2> QED BY <1>0, <2>1 DEF Layout
<1>2. ASSUME Behind(m, a) = {} PROVE pos[a] = pos[Word]
  <2>1. Word \in a .. Word
    BY <1>0
  <2>2. \A s \in Starts(m) : ~(a <= s /\ s < Word)
    BY <1>s, <1>2
  <2> QED BY <1>0, <2>1, <2>2, SamePosition
<1>3. ASSUME NEW s, NextStart(m, a, s) PROVE pos[a] = pos[s]
  <2>1. s \in Starts(m) /\ s >= a /\ \A x \in Behind(m, a) : x >= s
    BY <1>3 DEF NextStart
  <2>2. s \in 0 .. Word - 1
    BY <1>0, <2>1, StartsIn
  <2>3. s \in a .. Word
    BY <1>0, <2>1, <2>2
  <2>4. ASSUME NEW x \in Starts(m), a <= x, x < s PROVE FALSE
    <3>1. x \in Behind(m, a) /\ x \in 0 .. Word - 1
      BY <1>s, <2>4
    <3>2. x >= s
      BY <2>1, <3>1
    <3> QED BY <1>0, <2>2, <2>4, <3>1, <3>2
  <2> QED BY <1>0, <2>3, <2>4, SamePosition
<1> QED BY <1>1, <1>2, <1>3

\* The footer is found behind the last record of a whole file and nowhere else.
LEMMA FooterAfter ==
    ASSUME NEW k, NEW m, NEW f, NEW pos, Sent(k, m, f, pos), NEW beyond \in Byte,
           Len(file) = Len(f) \/ ~EndsIn(k), NEW b \in 0 .. Word, Between(m, b),
           NEW q \in Nat, q = pos[b], q + 3 <= Len(file)
    PROVE  FooterSeen(k, beyond, q) <=> (Len(file) = Len(f) /\ Behind(m, b) = {})
<1>0. /\ k \in Kinds /\ file \in Seq(Byte) /\ Begins(file, f) /\ Fits(m) /\ f \in Seq(Byte)
  BY MapsFit DEF Sent, Layout
<1>w. PICK W \in Nat : W = Width(k) /\ W \in {3, 4}
  BY <1>0, FooterIs
<1>1. /\ q <= pos[Word] /\ Len(f) = pos[Word] + W /\ pos[Word] \in Nat
      /\ Behind(m, b) = {} => q = pos[Word]
      /\ \A s : NextStart(m, b, s) => q = pos[s]
  <2>1. pos[Word] \in Nat
    BY Widths DEF Sent, Layout
  <2> QED BY <1>w, <2>1, UpToNext
<1>2. Len(file) <= Len(f) /\ Len(file) \in Nat
  BY <1>0 DEF Begins
<1>3. CASE Len(file) = Len(f) /\ Behind(m, b) = {}
  <2>1. FooterSeen(k, beyond, pos[Word])
    BY <1>3, FooterAtEnd
  <2> QED BY <1>1, <1>3, <2>1
<1>4. CASE q + W > Len(file)
  <2>1. Len(file) # Len(f)
    BY <1>1, <1>4
  <2>2. FooterSeen(k, beyond, q) => EndsIn(k)
    BY <1>0, <1>4, <1>w, FooterCut
  <2> QED BY <2>1, <2>2
<1>5. CASE q + W <= Len(file) /\ Behind(m, b) # {}
  <2>1. PICK s : NextStart(m, b, s)
    BY <1>0, <1>5, NextStartExists
  <2>2. s \in Starts(m) /\ q = pos[s]
    BY <1>1, <2>1 DEF NextStart
  <2>3. ~FooterSeen(k, beyond, q)
    BY <1>5, <1>w, <2>2, FooterNotAtRecord
  <2> QED BY <1>5, <2>3
<1>6. CASE q + W <= Len(file) /\ Behind(m, b) = {}
  <2>1. Len(file) = Len(f)
    BY <1>1, <1>2, <1>6
  <2> QED BY <1>3, <1>6, <2>1
<1> QED BY <1>2, <1>4, <1>5, <1>6

\* The reader has come to the records from address a on.
ReaderAt(k, m, f, pos, r, a) ==
    /\ a \in 0 .. Word /\ Between(m, a) /\ r.at = pos[a] /\ r.patches = Below(m, a)
    /\ r.error = IF Len(file) = Len(f) /\ Behind(m, a) = {} THEN "none" ELSE "MissingEOF"

\* An iteration takes the reader behind the run of the next record, or finds it cut off.
Advanced(k, m, f, pos, r, p) ==
    \/ Len(file) # Len(f) /\ r.error = "InvalidPatchFormat"
    \/ r.at > p /\ \E b : ReaderAt(k, m, f, pos, r, b)

\* An iteration at a record that is there brings the reader behind it with the run added;
\* where the file was cut the reader gives up.
LEMMA Advance ==
    ASSUME NEW k, NEW m, NEW f, NEW pos, Sent(k, m, f, pos), NEW beyond \in Byte,
           Len(file) = Len(f) \/ ~EndsIn(k), NEW r \in Readers, NEW a,
           ReaderAt(k, m, f, pos, r, a), GoesOn(k, r)
    PROVE  Advanced(k, m, f, pos, ReadRecord(k, beyond, r), r.at)
<1>0. /\ k \in Kinds /\ file \in Seq(Byte) /\ Begins(file, f) /\ Fits(m) /\ f \in Seq(Byte)
  BY MapsFit DEF Sent, Layout
<1>n. Len(file) \in Nat /\ Len(f) \in Nat /\ Len(file) <= Len(f) /\ Word \in Nat
  BY <1>0, Widths DEF Begins
<1>w. PICK W \in Nat : W = Width(k) /\ W >= 3
  BY <1>0, FooterIs
<1>a. a \in 0 .. Word /\ Between(m, a)
  BY DEF ReaderAt
<1>p. PICK p \in Nat : p = r.at /\ p <= Len(file)
  BY <1>0 DEF Readers
<1>1. p = pos[a] /\ r.patches = Below(m, a)
  BY <1>p DEF ReaderAt
<1>2. p + W + 5 < Len(file)
  <2>1. HasRecord(k, Len(file) - p)
    BY <1>p DEF GoesOn
  <2> QED BY <1>0, <1>p, <1>w, <2>1, HasRecordMeans
<1>3. /\ Len(f) = pos[Word] + W /\ pos[Word] \in Nat
      /\ Behind(m, a) = {} => p = pos[Word]
      /\ \A s : NextStart(m, a, s) => p = pos[s]
  <2>1. pos[Word] \in Nat
    BY Widths DEF Sent, Layout
  <2> QED BY <1>1, <1>a, <1>w, <2>1, UpToNext
<1>4. Behind(m, a) # {}
  BY <1>2, <1>3, <1>n
<1>5. r.error = "MissingEOF"
  BY <1>4 DEF ReaderAt
<1>s. PICK s : NextStart(m, a, s)
  BY <1>0, <1>4, <1>a, NextStartExists
<1>6. s \in Starts(m) /\ s >= a /\ (\A x \in Behind(m, a) : x >= s) /\ p = pos[s]
  BY <1>3, <1>s DEF NextStart
<1>e. PICK e, L : e = RunEnd(m, s) /\ L = Len(Run(m, s))
  OBVIOUS
<1>7. AfterRun(m, pos, W, s, e, p, L)
  BY <1>6, <1>e, <1>w, AfterRunIs
<1>8. /\ s \in 0 .. Word - 1 /\ e \in s .. Word - 1 /\ e + 1 \notin DOMAIN m
      /\ s .. e \subseteq DOMAIN m /\ L = e - s + 1 /\ L \in 1 .. Power[2] - 1
      /\ pos[e + 1] = p + W + 2 + L
  BY <1>7 DEF AfterRun
<1>9. L \in Nat /\ L > 0 /\ L < Word
  BY <1>8, Widths
<1>10. /\ OffsetAt(k, p) = s /\ SizeAt(k, p) = L /\ LengthAt(k, p) = L
       /\ \A i \in 1 .. L : p + W + 2 + i <= Len(file) =>
                               file[p + W + 2 + i] = m[s + i - 1]
  <2>1. p + Width(k) + 5 < Len(file) /\ p \in Nat
    BY <1>2, <1>w
  <2>2. /\ OffsetAt(k, p) = s /\ SizeAt(k, p) = L /\ LengthAt(k, p) = L
        /\ \A i \in 1 .. L : p + Width(k) + 2 + i <= Len(file) =>
                               file[p + Width(k) + 2 + i] = m[s + i - 1]
    BY <1>6, <1>e, <2>1, RecordFound
  <2> QED BY <1>w, <2>2
<1>q. PICK body \in Nat, q \in Nat : body = p + W + 2 /\ q = body + L
  BY <1>9
<1>11. q = pos[e + 1]
  BY <1>8, <1>9, <1>q
<1>r. PICK r2 : r2 = ReadRecord(k, beyond, r)
  OBVIOUS
<1>12. r2 = Went(k, beyond, r, q, New(s, L, L, body))
  <2>1. body + (IF L > 0 THEN L ELSE 3) = q
    BY <1>9, <1>q
  <2>2. ReadRecord(k, beyond, r) =
           Went(k, beyond, r, body + (IF L > 0 THEN L ELSE 3),
                New(OffsetAt(k, p), L, LengthAt(k, p), body))
    BY <1>10, <1>p, <1>q, <1>w, ReadRecordIs
  <2> QED BY <1>10, <1>r, <2>1, <2>2
<1>13. CASE q > Len(file) - 3
  <2>1. r2.error = "InvalidPatchFormat"
    <3>1. r2 = [r EXCEPT !.error = "InvalidPatchFormat"]
      BY <1>12, <1>13 DEF Went
    <3> QED BY <3>1 DEF Readers
  <2>2. pos[e + 1] <= pos[Word]
    <3>1. e + 1 \in 0 .. Word
      BY <1>8, <1>n
    <3> QED BY <3>1, UpToNext
  <2>3. Len(file) # Len(f)
    BY <1>3, <1>11, <1>13, <1>n, <1>w, <2>2
  <2> QED BY <1>r, <2>1, <2>3 DEF Advanced
<1>14. CASE ~(q > Len(file) - 3)
  <2>0. q + 3 <= Len(file)
    BY <1>2, <1>14, <1>n
  <2>1. r2 = [at |-> q, patches |-> With(New(s, L, L, body), r.patches),
              error |-> IF FooterSeen(k, beyond, q) THEN "none" ELSE "MissingEOF"]
    BY <1>5, <1>12, <1>14 DEF Went, FooterSeen
  <2>2. With(New(s, L, L, body), r.patches) = Below(m, e + 1)
    <3>1. PICK new : new = New(s, L, L, body)
      OBVIOUS
    <3>2. \A i \in 1 .. L : file[body + i] = m[s + i - 1]
      <4>1. \A i \in 1 .. L : p + W + 2 + i <= Len(file) /\ body + i = p + W + 2 + i
        BY <1>9, <1>q, <2>0
      <4> QED BY <1>10, <4>1
    <3>3. DOMAIN new = s .. e /\ \A x \in s .. e : new[x] = m[x]
      <4>1. s \in 0 .. Word - 1 /\ e \in s .. Word - 1 /\ L = e - s + 1
        BY <1>8
      <4>2. IsRun(New(s, L, L, body), m, s, e)
        BY <1>9, <3>2, <4>1, NewOwn, Zenon
      <4> QED BY <3>1, <4>2 DEF IsRun
    <3>4. s \in a .. Word /\ e \in s .. Word
      BY <1>6, <1>8, <1>a, <1>n
    <3>5. With(new, Below(m, a)) = Below(m, e + 1)
      <4>1. s .. e \subseteq DOMAIN m
        BY <1>8
      <4>2. \A x \in Behind(m, a) : x >= s
        BY <1>6
      <4> QED BY <1>0, <1>a, <3>3, <3>4, <4>1, <4>2, WithOwn
    <3> QED BY <1>1, <3>1, <3>5
  <2>3. e + 1 \in 0 .. Word /\ Between(m, e + 1)
    BY <1>8, <1>n DEF Between
  <2>4. FooterSeen(k, beyond, q) <=> (Len(file) = Len(f) /\ Behind(m, e + 1) = {})
    BY <1>11, <2>0, <2>3, FooterAfter
  <2>5. ReaderAt(k, m, f, pos, r2, e + 1)
    <3>1. r2.at = pos[e + 1] /\ r2.patches = Below(m, e + 1)
      BY <1>11, <2>1, <2>2
    <3>2. r2.error = IF Len(file) = Len(f) /\ Behind(m, e + 1) = {}
                     THEN "none" ELSE "MissingEOF"
      BY <2>1, <2>4
    <3> QED BY <2>3, <3>1, <3>2, Zenon DEF ReaderAt
  <2>6. r2.at > r.at
    <3>1. q > p
      BY <1>9, <1>q
    <3>2. r2.at = q
      BY <2>1
    <3> QED BY <1>p, <3>1, <3>2
  <2> QED BY <1>r, <2>5, <2>6 DEF Advanced
<1> QED BY <1>13, <1>14

\* What the reader is like after i iterations: at a record, with the patches before it.
Reached(k, m, f, pos, r, i) ==
    \/ Len(file) # Len(f) /\ r.error = "InvalidPatchFormat"
    \/ (r.at >= i \/ ~GoesOn(k, r)) /\ \E a : ReaderAt(k, m, f, pos, r, a)

\* The loop ends with the reader behind all records, or refused.
LEMMA LoopReaches ==
    ASSUME NEW k, NEW m, NEW f, NEW pos, Sent(k, m, f, pos), NEW beyond \in Byte,
           Len(file) = Len(f) \/ ~EndsIn(k), DOMAIN m # {},
           NEW n \in Nat, n = Len(file), NEW run, Reading(run, k, beyond, n)
    PROVE  Reached(k, m, f, pos, run[n], n)
<1>0. k \in Kinds /\ file \in Seq(Byte) /\ Fits(m) /\ Layout(f, pos, k, m) /\ Word \in Nat
  BY MapsFit, Widths DEF Sent
<1>1. ASSUME NEW i \in 0 .. n PROVE run[i] \in Readers
  BY DEF Reading
<1> DEFINE T == {i \in 0 .. n : Reached(k, m, f, pos, run[i], i)}
<1>2. 0 \in T
  <2>1. run[0] = FirstReader
    BY DEF Reading
  <2>2. Behind(m, 0) # {}
    <3>1. PICK x : x \in DOMAIN m
      OBVIOUS
    <3>2. x >= 0
      BY <1>0, <3>1 DEF Fits
    <3> QED BY <3>1, <3>2 DEF Behind
  <2>3. pos[0] = 0 /\ 0 \in 0 .. Word /\ Between(m, 0)
    BY <1>0 DEF Layout, Between
  <2>4. Below(m, 0) = NoPatches
    <3>1. {x \in DOMAIN m : x < 0} = {}
      BY <1>0 DEF Fits
    <3>2. Below(m, 0) = [x \in {} |-> m[x]]
      BY <3>1 DEF Below
    <3>3. NoPatches = [x \in {} |-> NoPatches[x]]
      BY NoPatchesIs, MapsFit
    <3>4. [x \in {} |-> m[x]] = [x \in {} |-> NoPatches[x]]
      OBVIOUS
    <3> QED BY <3>2, <3>3, <3>4
  <2>5. ReaderAt(k, m, f, pos, run[0], 0)
    BY <2>1, <2>2, <2>3, <2>4 DEF ReaderAt, FirstReader
  <2>6. run[0].at >= 0
    BY <2>1 DEF FirstReader
  <2> QED BY <2>5, <2>6 DEF Reached
<1>3. ASSUME NEW i \in 1 .. n, i - 1 \in T PROVE i \in T
  <2>0. i - 1 \in 0 .. n /\ i \in 0 .. n
    OBVIOUS
  <2>1. PICK r \in Readers : r = run[i - 1] /\ Reached(k, m, f, pos, r, i - 1)
    BY <1>1, <1>3, <2>0
  <2>2. run[i] = NextReader(k, beyond, r)
    BY <2>1 DEF Reading
  <2>3. CASE ~GoesOn(k, r)
    <3>1. run[i] = r
      BY <2>2, <2>3 DEF NextReader
    <3>2. Reached(k, m, f, pos, r, i)
      BY <2>1, <2>3, Zenon DEF Reached
    <3> QED BY <2>0, <3>1, <3>2
  <2>4. CASE GoesOn(k, r)
    <3>1. run[i] = ReadRecord(k, beyond, r)
      BY <2>2, <2>4 DEF NextReader
    <3>2. PICK a : ReaderAt(k, m, f, pos, r, a) /\ r.at >= i - 1
      BY <2>1, <2>4, Zenon DEF Reached, GoesOn
    <3>3. Advanced(k, m, f, pos, run[i], r.at)
      BY <2>4, <3>1, <3>2, Advance, Zenon
    <3>4. run[i].at > r.at => run[i].at >= i
      <4>1. run[i] \in Readers
        BY <1>1
      <4>2. r.at \in Nat /\ run[i].at \in Nat
        BY <1>0, <4>1 DEF Readers
      <4> QED BY <3>2, <4>2
    <3>5. Reached(k, m, f, pos, run[i], i)
      BY <3>3, <3>4, Zenon DEF Advanced, Reached
    <3> QED BY <2>0, <3>5
  <2> QED BY <2>3, <2>4
<1> HIDE DEF T
<1>4. 0 .. n \subseteq T
  BY <1>2, <1>3, Induction
<1>5. n \in T
  BY <1>4
<1> QED BY <1>5 DEF T

\* The size the loop wants is there if a record and the footer are.
LEMMA RoomForRecord ==
    ASSUME NEW n \in Nat, NEW p \in Nat, NEW W \in Nat, NEW L \in Nat, NEW end \in Nat,
           n = end + W, L >= 1, W >= 3, p + W + 2 + L <= end
    PROVE  n - p > 5 + W
OBVIOUS

\* A whole file is read as the patches that were written ...
LEMMA WholeRead ==
    ASSUME NEW k, NEW m, NEW f, NEW pos, Sent(k, m, f, pos), NEW beyond \in Byte,
           Len(file) = Len(f), DOMAIN m # {}
    PROVE  Read(k, beyond).error = "none" /\ Read(k, beyond).patches = m
<1>0. k \in Kinds /\ file \in Seq(Byte) /\ Fits(m) /\ m \in Maps(Word) /\ f \in Seq(Byte)
  BY MapsFit DEF Sent, Layout
<1>w. PICK W \in Nat : W = Width(k) /\ W >= 3
  BY <1>0, FooterIs
<1>n. PICK n \in Nat : n = Len(file)
  BY <1>0
<1>1. PICK run : Reading(run, k, beyond, n)
  BY <1>0, ReadingExists
<1>2. Read(k, beyond) = Answer(k, run[n])
  BY <1>0, <1>1, <1>n, ReadIs, Zenon
<1>3. Reached(k, m, f, pos, run[n], n)
  BY <1>1, <1>n, LoopReaches, Zenon
<1>r. PICK r \in Readers : r = run[n]
  BY <1>1 DEF Reading
<1>4. PICK a : ReaderAt(k, m, f, pos, r, a) /\ (r.at >= n \/ ~GoesOn(k, r))
  BY <1>3, <1>r DEF Reached
<1>5. a \in 0 .. Word /\ Between(m, a) /\ r.at = pos[a]
  BY <1>4 DEF ReaderAt
<1>p. PICK p \in Nat : p = r.at /\ p <= n
  BY <1>0, <1>n DEF Readers
<1>6. ~HasRecord(k, n - p)
  <2>1. CASE p >= n
    BY <1>p, <1>w, <2>1 DEF HasRecord
  <2>2. CASE ~GoesOn(k, r)
    <3>1. r.error # "InvalidPatchFormat"
      BY <1>4 DEF ReaderAt
    <3> QED BY <1>n, <1>p, <2>2, <3>1 DEF GoesOn
  <2> QED BY <1>4, <1>p, <2>1, <2>2, Zenon
<1>7. n = pos[Word] + W /\ pos[Word] \in Nat
  <2>1. pos[Word] \in Nat
    BY Widths DEF Sent, Layout
  <2> QED BY <1>5, <1>n, <1>w, <2>1, UpToNext
<1>8. Behind(m, a) = {}
  <2> SUFFICES ASSUME Behind(m, a) # {} PROVE FALSE
    OBVIOUS
  <2>1. PICK s : NextStart(m, a, s)
    BY <1>0, <1>5, NextStartExists
  <2>2. s \in Starts(m) /\ p = pos[s]
    BY <1>5, <1>p, <2>1, UpToNext DEF NextStart
  <2>3. PICK e, L : e = RunEnd(m, s) /\ L = Len(Run(m, s))
    OBVIOUS
  <2>4. AfterRun(m, pos, W, s, e, p, L)
    BY <1>w, <2>2, <2>3, AfterRunIs
  <2>5. pos[e + 1] = p + W + 2 + L /\ L \in Nat /\ L >= 1 /\ e + 1 \in 0 .. Word
    BY <2>4, Widths DEF AfterRun
  <2>6. pos[e + 1] <= pos[Word]
    BY <2>5, UpToNext
  <2>7. n - p > 5 + W
    <3>1. L \in Nat /\ L >= 1 /\ W >= 3 /\ p + W + 2 + L <= pos[Word]
      BY <2>5, <2>6, <1>w, Zenon
    <3>2. n - p > 5 + W
      BY <1>7, <3>1, RoomForRecord, Zenon
    <3> QED BY <3>2
  <2> QED BY <1>6, <1>w, <2>7 DEF HasRecord
<1>9. r.error = "none" /\ r.patches = Below(m, a)
  BY <1>4, <1>8 DEF ReaderAt
<1>10. Below(m, a) = m
  <2>1. {x \in DOMAIN m : x < a} = DOMAIN m
    <3>1. ASSUME NEW x \in DOMAIN m PROVE x < a
      <4>1. ~(x >= a)
        BY <1>8 DEF Behind
      <4> QED BY <1>0, <1>5, <4>1, Widths DEF Fits
    <3> QED BY <3>1
  <2> QED BY <1>0, <2>1, MapsFit DEF Below
<1>11. ~(Len(file) < Width(k))
  BY <1>7, <1>n, <1>w
<1>12. Read(k, beyond) = r
  BY <1>2, <1>9, <1>11, <1>r DEF Answer
<1> QED BY <1>9, <1>10, <1>12

\* ... and one that was cut short is refused.
LEMMA CutRead ==
    ASSUME NEW k, NEW m, NEW f, NEW pos, Sent(k, m, f, pos), NEW beyond \in Byte,
           Len(file) # Len(f), ~EndsIn(k), DOMAIN m # {}
    PROVE  Read(k, beyond).error # "none"
<1>0. k \in Kinds /\ file \in Seq(Byte)
  BY DEF Sent
<1>n. PICK n \in Nat : n = Len(file)
  BY <1>0
<1>1. PICK run : Reading(run, k, beyond, n)
  BY <1>0, ReadingExists
<1>2. Read(k, beyond) = Answer(k, run[n])
  BY <1>0, <1>1, <1>n, ReadIs, Zenon
<1>3. Reached(k, m, f, pos, run[n], n)
  BY <1>1, <1>n, LoopReaches, Zenon
<1>4. run[n].error # "none"
  BY <1>3 DEF Reached, ReaderAt
<1>5. Answer(k, run[n]).error # "none"
  BY <1>4 DEF Answer, Refused
<1> QED BY <1>2, <1>5

-----------------------------------------------------------------------------
(* The invariant                                                           *)

\* The types, and what they rest on: the data do not outgrow a u64.
Typed ==
    /\ TypeOK /\ patches \in Maps(Power[8]) /\ imported \in Maps(Power[8])
    /\ Len(data) <= Len(Original) + edited

\* As long as only single bytes have been written, the patches are what was edited.
PlainOK ==
    plain => /\ Len(data) = Len(Original) /\ DOMAIN patches \subseteq 0 .. Len(Original) - 1
             /\ data = Patched(patches)

\* What was exported and not received is, but for the bytes that are missing, what was
\* written.
SentOK ==
    /\ at = "editing" => missing = 0
    /\ at = "exported" /\ plain =>
          /\ ~OutOfRange(patches) /\ ~BeginsWithFooter(kind, patches) /\ ~TooLarge(patches)
          /\ Len(file) + missing = Len(Written(kind, patches))
          /\ Begins(file, Written(kind, patches))

\* The inductive invariant
IInv == Typed /\ PlainOK /\ SentOK /\ RoundTrip /\ TruncationIsNoticed

\* What is assumed of the data that are opened.
LEMMA OriginalIs ==
    /\ Original \in Seq(Byte) /\ Len(Original) \in Nat /\ MaxEdited \in Nat
    /\ Len(Original) + MaxEdited <= Power[8] /\ DOMAIN Original = 1 .. Len(Original)
BY PatchAssumption DEF Byte

\* Patches are what TypeOK says they are.
LEMMA TypedPatches ==
    ASSUME NEW m \in Maps(Power[8])
    PROVE  IsPatches(m)
BY MapIs DEF IsPatches, Address

\* Addresses of a u32 are some of a u64.
LEMMA WordMaps == Maps(Word) \subseteq Maps(Power[8])
<1>1. 0 .. Word - 1 \subseteq 0 .. Power[8] - 1
  BY Widths
<1> QED BY <1>1 DEF Maps

\* Nothing edited yet is a case of patches.
LEMMA NoPatchesMaps == NoPatches \in Maps(Power[8])
BY NoPatchesIs, WordMaps

\* The invariant holds before anything is edited.
LEMMA InitHolds ==
    ASSUME Init
    PROVE  IInv
<1>1. Typed
  <2>1. <<>> \in Seq(Byte)
    BY EmptySeq
  <2> QED BY <2>1, OriginalIs, NoPatchesMaps, TypedPatches DEF Init, Typed, TypeOK, Kinds
<1>2. PlainOK
  <2>1. Patched(NoPatches) = [i \in DOMAIN Original |-> Original[i]]
    BY NoPatchesIs DEF Patched
  <2>2. Original = [i \in DOMAIN Original |-> Original[i]]
    BY OriginalIs, LenProperties
  <2> QED BY <2>1, <2>2, NoPatchesIs DEF Init, PlainOK
<1>3. SentOK /\ RoundTrip /\ TruncationIsNoticed
  BY DEF Init, SentOK, RoundTrip, TruncationIsNoticed
<1> QED BY <1>1, <1>2, <1>3 DEF IInv

\* While the operations are done there is nothing to be said of the file.
LEMMA EditKeeps ==
    ASSUME IInv, NEW n, Edit(n)
    PROVE  SentOK' /\ RoundTrip' /\ TruncationIsNoticed'
<1>1. at = "editing" /\ at' = "editing" /\ missing' = missing /\ missing = 0
  BY DEF IInv, SentOK, Edit
<1> QED BY <1>1 DEF SentOK, RoundTrip, TruncationIsNoticed

\* An operation keeps the types if it keeps those of the data and the patches.
LEMMA EditTypes ==
    ASSUME Typed, NEW n \in Nat, Edit(n), data' \in Seq(Byte), plain' \in BOOLEAN,
           Len(data') <= Len(data) + n, patches' \in Maps(Power[8])
    PROVE  Typed'
<1>1. edited' = edited + n /\ edited + n <= MaxEdited /\ edited \in Nat
  BY DEF Edit, Typed, TypeOK
<1>2. edited' \in 0 .. MaxEdited
  BY <1>1, OriginalIs
<1>3. Len(data') <= Len(Original) + edited'
  <2>1. Len(data) \in Nat /\ Len(data') \in Nat /\ Len(data) <= Len(Original) + edited
    BY DEF Typed, TypeOK
  <2> QED BY <1>1, <2>1, OriginalIs
<1>4. IsPatches(patches') /\ IsPatches(imported)
  BY TypedPatches DEF Typed
<1>5. /\ at' = at /\ kind' = kind /\ file' = file /\ missing' = missing
      /\ imported' = imported
  BY DEF Edit
<1>6. TypeOK'
  <2>1. /\ at \in {"editing", "throws", "exported", "imported"} \union Errors
        /\ kind \in Kinds /\ file \in Seq(Byte) /\ missing \in Nat
    BY DEF Typed, TypeOK
  <2> QED BY <1>2, <1>4, <1>5, <2>1 DEF TypeOK, IsPatches
<1> QED BY <1>3, <1>5, <1>6 DEF Typed

\* A write: the last byte goes to the patches, and if it is the only one, they still are what
\* was edited.
LEMMA OverwriteStep ==
    ASSUME IInv, NEW n \in 1 .. MaxEdited, NEW a \in 0 .. Len(data),
           NEW bytes \in [1 .. n -> Byte], Overwrite(a, bytes)
    PROVE  IInv'
<1>0. n \in Nat /\ n >= 1
  BY OriginalIs
<1>1. bytes \in Seq(Byte) /\ Len(bytes) = n
  BY <1>0, SeqOfFunction
<1>2. Edit(n) /\ a + n <= Len(data)
  BY <1>1 DEF Overwrite
<1>3. /\ data \in Seq(Byte) /\ Len(data) \in Nat /\ Len(data) <= Power[8]
      /\ patches \in Maps(Power[8])
  <2>1. edited + n <= MaxEdited /\ edited \in Nat /\ Len(data) <= Len(Original) + edited
        /\ data \in Seq(Byte) /\ patches \in Maps(Power[8])
    BY <1>2 DEF IInv, Typed, TypeOK, Edit
  <2>2. Len(data) \in Nat
    BY <2>1
  <2> QED BY <1>0, <2>1, <2>2, OriginalIs, Widths
<1>4. data' = [i \in 1 .. Len(data) |-> IF i \in a + 1 .. a + n THEN bytes[i - a] ELSE data[i]]
  BY <1>1, <1>3, LenProperties DEF Overwrite
<1>5. data' \in Seq(Byte) /\ Len(data') = Len(data)
  <2>1. ASSUME NEW i \in 1 .. Len(data)
        PROVE  (IF i \in a + 1 .. a + n THEN bytes[i - a] ELSE data[i]) \in Byte
    <3>1. i \in a + 1 .. a + n => i - a \in 1 .. n
      BY <1>0, <1>3
    <3>2. data[i] \in Byte
      BY <1>3, ElementOfSeq
    <3> QED BY <3>1, <3>2
  <2>2. data' \in [1 .. Len(data) -> Byte]
    BY <1>4, <2>1
  <2> QED BY <1>3, <2>2, SeqOfFunction
<1>6. PICK new : new = [x \in {a} |-> bytes[n]]
  OBVIOUS
<1>7. patches' = With(new, patches)
  BY <1>1, <1>6 DEF Overwrite, GeneratorWrite, Last
<1>8. new \in Maps(Power[8])
  <2>1. a \in 0 .. Power[8] - 1 /\ bytes[n] \in Byte
    BY <1>0, <1>2, <1>3, Widths
  <2>2. PICK D : D = {a}
    OBVIOUS
  <2>3. new = [x \in D |-> new[x]] /\ D \subseteq 0 .. Power[8] - 1
        /\ \A x \in D : new[x] \in Byte
    BY <1>6, <2>1, <2>2
  <2> HIDE <2>2
  <2> QED BY <2>3, InMaps
<1>9. patches' \in Maps(Power[8])
  BY <1>3, <1>7, <1>8, WithMaps
<1>10. plain' = (plain /\ n = 1)
  BY <1>1 DEF Overwrite
<1>11. Typed'
  <2>1. Typed /\ plain' \in BOOLEAN
    BY <1>10 DEF IInv, Typed, TypeOK
  <2>2. Len(data') <= Len(data) + n
    BY <1>0, <1>3, <1>5
  <2> QED BY <1>0, <1>2, <1>5, <1>9, <2>1, <2>2, EditTypes
<1>12. PlainOK'
  <2> SUFFICES ASSUME plain' PROVE /\ Len(data') = Len(Original)
                                   /\ DOMAIN patches' \subseteq 0 .. Len(Original) - 1
                                   /\ data' = Patched(patches')
    BY DEF PlainOK, Patched
  <2>1. /\ n = 1 /\ Len(data) = Len(Original) /\ data = Patched(patches)
        /\ DOMAIN patches \subseteq 0 .. Len(Original) - 1
    BY <1>10 DEF IInv, PlainOK
  <2>2. a \in 0 .. Len(Original) - 1
    BY <1>2, <2>1, OriginalIs
  <2>3. patches' = [x \in {a} \union DOMAIN patches |->
                       IF x \in {a} THEN new[x] ELSE patches[x]]
    BY <1>6, <1>7 DEF With
  <2>4. DOMAIN patches' = {a} \union DOMAIN patches /\ patches'[a] = bytes[1]
        /\ \A x \in DOMAIN patches : x # a => patches'[x] = patches[x]
    BY <1>6, <2>1, <2>3
  <2>5. \A i \in 1 .. Len(Original) :
           data[i] = IF i - 1 \in DOMAIN patches THEN patches[i - 1] ELSE Original[i]
    BY <2>1, OriginalIs DEF Patched
  <2>6. ASSUME NEW i \in 1 .. Len(Original)
        PROVE  (IF i \in a + 1 .. a + n THEN bytes[i - a] ELSE data[i]) =
                  IF i - 1 \in DOMAIN patches' THEN patches'[i - 1] ELSE Original[i]
    <3>1. CASE i = a + 1
      <4>1. i \in a + 1 .. a + n /\ i - a = 1 /\ i - 1 = a
        BY <2>1, <2>2, <3>1
      <4> QED BY <2>4, <4>1
    <3>2. CASE i # a + 1
      <4>1. i \notin a + 1 .. a + n /\ i - 1 # a
        BY <2>1, <2>2, <3>2
      <4> QED BY <2>4, <2>5, <4>1
    <3> QED BY <3>1, <3>2
  <2>7. data' = Patched(patches')
    BY <1>4, <2>1, <2>6, OriginalIs DEF Patched
  <2> QED BY <1>5, <2>1, <2>2, <2>4, <2>7
<1>13. SentOK' /\ RoundTrip' /\ TruncationIsNoticed'
  BY <1>2, EditKeeps
<1> QED BY <1>11, <1>12, <1>13 DEF IInv

\* Bytes that are moved remain bytes at addresses.
LEMMA MovedMaps ==
    ASSUME NEW m \in Maps(Power[8]), NEW offset, NEW n \in Nat
    PROVE  Moved(m, offset, n) \in Maps(Power[8])
<1>1. m = [a \in DOMAIN m |-> m[a]] /\ DOMAIN m \subseteq 0 .. Power[8] - 1
      /\ \A a \in DOMAIN m : m[a] \in Byte
  BY MapIs
<1>2. PICK kept : kept = Kept(m, offset)
  OBVIOUS
<1>3. kept \in Maps(Power[8])
  <2>1. PICK D : D = {b \in DOMAIN m : b <= offset}
    OBVIOUS
  <2>2. kept = [a \in D |-> m[a]]
    BY <1>2, <2>1 DEF Kept
  <2>3. kept = [a \in D |-> kept[a]] /\ D \subseteq 0 .. Power[8] - 1
        /\ \A a \in D : kept[a] \in Byte
    BY <1>1, <2>1, <2>2
  <2> QED BY <2>3, InMaps
<1>4. PICK moved : moved = DOMAIN m \ DOMAIN kept
  OBVIOUS
<1>5. PICK target : target = {Shifted(b, n) : b \in moved}
  OBVIOUS
<1>6. PICK new : new = [a \in target |-> m[CHOOSE b \in moved : Shifted(b, n) = a]]
  OBVIOUS
<1>7. ASSUME NEW a \in target PROVE a \in 0 .. Power[8] - 1 /\ new[a] \in Byte
  <2>1. PICK b \in moved : Shifted(b, n) = a
    BY <1>5
  <2>2. b \in DOMAIN m
    BY <1>4
  <2>3. a \in 0 .. Power[8] - 1
    <3>1. PICK p \in Nat : p = Power[8] /\ p > 0
      BY Widths
    <3>2. b \in Nat /\ b + n \in Nat
      BY <1>1, <2>2, <3>1
    <3>3. (b + n) % p \in 0 .. p - 1
      BY <3>1, <3>2, DivMod
    <3> QED BY <2>1, <3>1, <3>3 DEF Shifted
  <2>4. (CHOOSE c \in moved : Shifted(c, n) = a) \in moved
    BY <2>1
  <2>5. new[a] \in Byte
    BY <1>1, <1>4, <1>6, <2>4
  <2> QED BY <2>3, <2>5
<1>8. new \in Maps(Power[8])
  <2>1. new = [a \in target |-> new[a]] /\ target \subseteq 0 .. Power[8] - 1
    BY <1>6, <1>7
  <2> QED BY <1>7, <2>1, InMaps
<1>9. Moved(m, offset, n) = With(kept, new)
  BY <1>2, <1>4, <1>5, <1>6 DEF Moved
<1> QED BY <1>3, <1>8, <1>9, WithMaps

\* The length of what is joined.
LEMMA Joined ==
    ASSUME NEW S, NEW x \in Seq(S), NEW y \in Seq(S)
    PROVE  x \o y \in Seq(S) /\ Len(x \o y) = Len(x) + Len(y)
BY ConcatProperties

\* What is left of data of which a part is dropped.
LEMMA Ends ==
    ASSUME NEW S, NEW f \in Seq(S), NEW a \in 0 .. Len(f), NEW b \in 0 .. Len(f)
    PROVE  /\ SubSeq(f, 1, a) \in Seq(S) /\ Len(SubSeq(f, 1, a)) = a
           /\ SubSeq(f, b + 1, Len(f)) \in Seq(S)
           /\ Len(SubSeq(f, b + 1, Len(f))) = Len(f) - b
<1>1. a \in Nat /\ 0 \in Nat /\ 0 + a <= Len(f) /\ 0 + 1 = 1 /\ 0 + a = a
  OBVIOUS
<1>2. SubSeq(f, 0 + 1, 0 + a) \in Seq(S) /\ Len(SubSeq(f, 0 + 1, 0 + a)) = a
  BY <1>1, Piece
<1>w. PICK w \in Nat : w = Len(f) - b
  OBVIOUS
<1>3. b \in Nat /\ b + w = Len(f) /\ b + w <= Len(f)
  BY <1>w
<1>4. SubSeq(f, b + 1, b + w) \in Seq(S) /\ Len(SubSeq(f, b + 1, b + w)) = w
  BY <1>3, Piece
<1>5. SubSeq(f, 1, a) \in Seq(S) /\ Len(SubSeq(f, 1, a)) = a
  BY <1>1, <1>2
<1> QED BY <1>3, <1>4, <1>5, <1>w, Zenon

\* An insertion moves addresses in the patches, modulo 2^64.
LEMMA InsertStep ==
    ASSUME IInv, NEW n \in 1 .. MaxEdited, NEW a \in 0 .. Len(data), InsertBytes(a, n)
    PROVE  IInv'
<1>0. n \in Nat
  BY OriginalIs
<1>1. /\ Edit(n) /\ data \in Seq(Byte) /\ Len(data) \in Nat /\ patches \in Maps(Power[8])
      /\ Typed
  BY DEF InsertBytes, IInv, Typed, TypeOK
<1>2. data' \in Seq(Byte) /\ Len(data') <= Len(data) + n
  <2>1. PICK x, y, z : /\ x = SubSeq(data, 1, a) /\ y = [i \in 1 .. n |-> 0]
                       /\ z = SubSeq(data, a + 1, Len(data))
    OBVIOUS
  <2>2. x \in Seq(Byte) /\ Len(x) = a /\ z \in Seq(Byte) /\ Len(z) = Len(data) - a
    BY <1>1, <2>1, Ends
  <2>3. y \in Seq(Byte) /\ Len(y) = n
    <3>1. y \in [1 .. n -> Byte]
      BY <2>1, BaseIsNat DEF Byte
    <3> QED BY <1>0, <3>1, SeqOfFunction
  <2>4. x \o y \in Seq(Byte) /\ Len(x \o y) = a + n
    BY <2>2, <2>3, Joined
  <2>5. (x \o y) \o z \in Seq(Byte) /\ Len((x \o y) \o z) = Len(x \o y) + Len(z)
    BY <2>2, <2>4, Joined, Zenon
  <2>6. data' = (x \o y) \o z
    BY <2>1, Zenon DEF InsertBytes
  <2>7. Len(data') = a + n + (Len(data) - a)
    BY <2>2, <2>4, <2>5, <2>6, Zenon
  <2> QED BY <1>0, <1>1, <2>5, <2>6, <2>7
<1>3. patches' \in Maps(Power[8])
  <2>1. patches' = Moved(patches, a, n)
    BY DEF InsertBytes, GeneratorInsert
  <2> QED BY <1>0, <1>1, <2>1, MovedMaps, Zenon
<1>4. plain' = FALSE
  BY DEF InsertBytes
<1>5. Typed'
  <2>1. plain' \in BOOLEAN
    BY <1>4
  <2> QED BY <1>0, <1>1, <1>2, <1>3, <2>1, EditTypes, Zenon
<1>6. PlainOK'
  BY <1>4 DEF PlainOK
<1>7. SentOK' /\ RoundTrip' /\ TruncationIsNoticed'
  BY <1>1, EditKeeps
<1> QED BY <1>5, <1>6, <1>7 DEF IInv

\* A removal moves them back; its size is subtracted from 2^64, which does not underflow as
\* the data fit into a u64.
LEMMA RemoveStep ==
    ASSUME IInv, NEW n \in 1 .. MaxEdited, NEW a \in 0 .. Len(data), RemoveBytes(a, n)
    PROVE  IInv'
<1>0. n \in Nat
  BY OriginalIs
<1>1. /\ Edit(n) /\ data \in Seq(Byte) /\ Len(data) \in Nat /\ patches \in Maps(Power[8])
      /\ Typed /\ a + n <= Len(data)
  BY DEF RemoveBytes, IInv, Typed, TypeOK
<1>2. data' \in Seq(Byte) /\ Len(data') <= Len(data) + n
  <2>1. PICK x, y : x = SubSeq(data, 1, a) /\ y = SubSeq(data, a + n + 1, Len(data))
    OBVIOUS
  <2>2. x \in Seq(Byte) /\ Len(x) = a /\ y \in Seq(Byte) /\ Len(y) = Len(data) - (a + n)
    <3>1. a + n \in 0 .. Len(data)
      BY <1>0, <1>1
    <3> QED BY <1>1, <2>1, <3>1, Ends
  <2>3. x \o y \in Seq(Byte) /\ Len(x \o y) = Len(x) + Len(y)
    BY <2>2, Joined, Zenon
  <2>4. data' = x \o y
    BY <2>1, Zenon DEF RemoveBytes
  <2>5. Len(data') = a + (Len(data) - (a + n))
    BY <2>2, <2>3, <2>4, Zenon
  <2> QED BY <1>0, <1>1, <2>3, <2>4, <2>5
<1>3. patches' \in Maps(Power[8])
  <2>1. patches' = Moved(patches, a, Power[8] - n)
    BY DEF RemoveBytes, GeneratorRemove
  <2>2. Power[8] - n \in Nat
    <3>1. n <= MaxEdited /\ MaxEdited <= Power[8] /\ MaxEdited \in Nat /\ Power[8] \in Nat
      BY OriginalIs, Widths
    <3> QED BY <1>0, <3>1
  <2> QED BY <1>1, <2>1, <2>2, MovedMaps, Zenon
<1>4. plain' = FALSE
  BY DEF RemoveBytes
<1>5. Typed'
  <2>1. plain' \in BOOLEAN
    BY <1>4
  <2> QED BY <1>0, <1>1, <1>2, <1>3, <2>1, EditTypes, Zenon
<1>6. PlainOK'
  BY <1>4 DEF PlainOK
<1>7. SentOK' /\ RoundTrip' /\ TruncationIsNoticed'
  BY <1>1, EditKeeps
<1> QED BY <1>5, <1>6, <1>7 DEF IInv

\* What is exported was written from patches that it can hold.
LEMMA InWords ==
    ASSUME NEW m \in Maps(Power[8]), ~OutOfRange(m)
    PROVE  m \in Maps(Word)
<1>1. m = [a \in DOMAIN m |-> m[a]] /\ DOMAIN m \subseteq 0 .. Power[8] - 1
      /\ \A a \in DOMAIN m : m[a] \in Byte
  BY MapIs
<1>2. ASSUME NEW a \in DOMAIN m PROVE a \in 0 .. Word - 1
  <2>1. a \in Nat /\ ~(a >= Word)
    BY <1>1 DEF OutOfRange
  <2> QED BY <2>1, Widths
<1>d. PICK D : D = DOMAIN m
  OBVIOUS
<1>3. m = [a \in D |-> m[a]] /\ D \subseteq 0 .. Word - 1 /\ \A a \in D : m[a] \in Byte
  BY <1>1, <1>2, <1>d
<1> QED BY <1>3, InMaps

\* The outcomes of an export.
LEMMA ExportIs ==
    ASSUME NEW k, Export(k)
    PROVE  /\ at = "editing" /\ kind' = k /\ at' \in {"PatchTooLarge", "throws", "exported"}
           /\ at' = "exported" => /\ ~OutOfRange(patches) /\ ~BeginsWithFooter(k, patches)
                                  /\ ~TooLarge(patches) /\ file' = Written(k, patches)
           /\ at' # "exported" => file' = file
           /\ UNCHANGED <<data, patches, plain, edited, missing, imported>>
BY DEF Export

\* An export writes what the reader will understand, or nothing.
LEMMA ExportStep ==
    ASSUME IInv, NEW k \in Kinds, Export(k)
    PROVE  IInv'
<1>1. /\ at = "editing" /\ kind' = k /\ at' \in {"PatchTooLarge", "throws", "exported"}
      /\ at' = "exported" => /\ ~OutOfRange(patches) /\ ~BeginsWithFooter(k, patches)
                             /\ ~TooLarge(patches) /\ file' = Written(k, patches)
      /\ at' # "exported" => file' = file
  BY ExportIs
<1>2. /\ data' = data /\ patches' = patches /\ plain' = plain /\ edited' = edited
      /\ missing' = missing /\ imported' = imported
  BY ExportIs
<1>3. missing = 0
  BY <1>1 DEF IInv, SentOK
<1>4. /\ TypeOK /\ patches \in Maps(Power[8]) /\ imported \in Maps(Power[8])
      /\ Len(data) <= Len(Original) + edited /\ file \in Seq(Byte)
  BY DEF IInv, Typed, TypeOK
<1>5. ASSUME at' = "exported" PROVE file' \in Seq(Byte)
  <2>1. Fits(patches)
    BY <1>1, <1>4, <1>5, InWords, MapsFit
  <2>2. PICK pos : Layout(Written(k, patches), pos, k, patches)
    BY <2>1, WrittenIs
  <2> QED BY <1>1, <1>5, <2>2 DEF Layout
<1>6. Typed'
  <2>1. file' \in Seq(Byte)
    BY <1>1, <1>4, <1>5
  <2>2. TypeOK'
    BY <1>1, <1>2, <1>4, <2>1 DEF TypeOK, IsPatches, Errors
  <2> QED BY <1>2, <1>4, <2>2 DEF Typed
<1>7. PlainOK'
  BY <1>2 DEF IInv, PlainOK, Patched
<1>8. SentOK'
  <2> SUFFICES ASSUME at' = "exported", plain'
               PROVE  /\ ~OutOfRange(patches') /\ ~BeginsWithFooter(kind', patches')
                      /\ ~TooLarge(patches')
                      /\ Len(file') + missing' = Len(Written(kind', patches'))
                      /\ Begins(file', Written(kind', patches'))
    BY <1>1 DEF SentOK, OutOfRange, BeginsWithFooter, TooLarge, Begins, Written
  <2>1. file' = Written(kind', patches') /\ file' \in Seq(Byte)
    BY <1>1, <1>2, <1>5
  <2>2. Begins(file', file')
    <3>1. Len(file') \in Nat
      BY <2>1
    <3> QED BY <3>1 DEF Begins
  <2>3. Len(file') + missing' = Len(file')
    BY <1>2, <1>3, <2>1
  <2>4. /\ ~OutOfRange(patches') /\ ~BeginsWithFooter(kind', patches')
        /\ ~TooLarge(patches')
    BY <1>1, <1>2
  <2> QED BY <2>1, <2>2, <2>3, <2>4
<1>9. RoundTrip' /\ TruncationIsNoticed'
  BY <1>1, <1>2, <1>3 DEF RoundTrip, TruncationIsNoticed
<1> QED BY <1>6, <1>7, <1>8, <1>9 DEF IInv

\* Of a patch of another program only the types are known.
LEMMA ReceiveStep ==
    ASSUME IInv, NEW k \in Kinds, Receive(k)
    PROVE  IInv'
<1>1. /\ at = "editing" /\ kind' = k /\ at' = "exported" /\ plain' = FALSE
      /\ file' \in Seq(Byte)
  BY PatchAssumption DEF Receive, Byte
<1>2. /\ data' = data /\ patches' = patches /\ edited' = edited /\ missing' = missing
      /\ imported' = imported
  BY DEF Receive
<1>3. missing = 0
  BY <1>1 DEF IInv, SentOK
<1>4. Typed'
  <2>1. Typed
    BY DEF IInv
  <2> QED BY <1>1, <1>2, <2>1 DEF Typed, TypeOK, IsPatches
<1>5. PlainOK' /\ SentOK'
  BY <1>1, <1>2, <1>3 DEF PlainOK, SentOK
<1>6. RoundTrip' /\ TruncationIsNoticed'
  BY <1>1 DEF RoundTrip, TruncationIsNoticed, Expressible
<1> QED BY <1>4, <1>5, <1>6 DEF IInv

\* A file that is cut still begins like the one that was written.
LEMMA TruncateStep ==
    ASSUME IInv, Truncate
    PROVE  IInv'
<1>1. /\ at = "exported" /\ at' = at /\ missing = 0 /\ missing' \in 1 .. Len(file)
      /\ file' = SubSeq(file, 1, Len(file) - missing')
      /\ data' = data /\ patches' = patches /\ plain' = plain /\ edited' = edited
      /\ kind' = kind /\ imported' = imported
  BY DEF Truncate
<1>2. Typed /\ TypeOK /\ file \in Seq(Byte) /\ Len(file) \in Nat
  BY DEF IInv, Typed, TypeOK
<1>w. PICK w \in Nat : w = Len(file) - missing'
  BY <1>1, <1>2
<1>3. w <= Len(file) /\ w + missing' = Len(file) /\ missing' \in Nat /\ missing' > 0
  BY <1>1, <1>2, <1>w
<1>4. file' \in Seq(Byte) /\ Len(file') = w /\ \A i \in 1 .. w : file'[i] = file[i]
  <2>1. 0 \in Nat /\ 0 + w <= Len(file) /\ 0 + 1 = 1 /\ 0 + w = w
    BY <1>3
  <2>2. /\ SubSeq(file, 0 + 1, 0 + w) \in Seq(Byte) /\ Len(SubSeq(file, 0 + 1, 0 + w)) = w
        /\ \A i \in 1 .. w : SubSeq(file, 0 + 1, 0 + w)[i] = file[0 + i]
    BY <1>2, <2>1, Piece
  <2>3. file' = SubSeq(file, 0 + 1, 0 + w)
    BY <1>1, <1>w, <2>1
  <2> QED BY <2>2, <2>3
<1>5. Typed'
  <2>1. TypeOK'
    BY <1>1, <1>2, <1>3, <1>4 DEF TypeOK, IsPatches
  <2> QED BY <1>1, <1>2, <2>1 DEF Typed
<1>6. PlainOK'
  BY <1>1 DEF IInv, PlainOK, Patched
<1>7. SentOK'
  <2>1. SUFFICES ASSUME plain
                 PROVE  /\ ~OutOfRange(patches) /\ ~BeginsWithFooter(kind, patches)
                        /\ ~TooLarge(patches)
                        /\ Len(file') + missing' = Len(Written(kind, patches))
                        /\ Begins(file', Written(kind, patches))
    BY <1>1 DEF SentOK
  <2>2. /\ ~OutOfRange(patches) /\ ~BeginsWithFooter(kind, patches) /\ ~TooLarge(patches)
        /\ Len(file) + missing = Len(Written(kind, patches))
        /\ Begins(file, Written(kind, patches))
    BY <1>1, <2>1 DEF IInv, SentOK
  <2>3. Len(Written(kind, patches)) = Len(file)
    BY <1>1, <1>2, <2>2
  <2>4. Begins(file', Written(kind, patches))
    <3>1. PICK f, short : f = Written(kind, patches) /\ short = file'
      OBVIOUS
    <3>2. Len(short) = w /\ \A i \in 1 .. w : short[i] = file[i]
      BY <1>4, <3>1
    <3>3. Len(f) = Len(file) /\ \A i \in 1 .. Len(file) : file[i] = f[i]
      BY <2>2, <2>3, <3>1 DEF Begins
    <3>4. Begins(short, f)
      <4>1. Len(short) <= Len(f)
        BY <1>3, <3>2, <3>3
      <4>2. ASSUME NEW i \in 1 .. Len(short) PROVE short[i] = f[i]
        <5>1. i \in 1 .. w /\ i \in 1 .. Len(file)
          BY <1>2, <1>3, <3>2
        <5> QED BY <3>2, <3>3, <5>1, Zenon
      <4> QED BY <4>1, <4>2, Zenon DEF Begins
    <3> QED BY <3>1, <3>4, Zenon
  <2> QED BY <1>3, <1>4, <2>2, <2>3, <2>4
<1>8. RoundTrip' /\ TruncationIsNoticed'
  <2>1. at' = "exported" /\ ~(missing' = 0)
    BY <1>1, <1>3
  <2> QED BY <2>1 DEF RoundTrip, TruncationIsNoticed
<1> QED BY <1>5, <1>6, <1>7, <1>8 DEF IInv

\* A file on its way was written from patches as the reader expects them.
LEMMA SentWhenExported ==
    ASSUME IInv, at = "exported", Expressible
    PROVE  /\ kind \in Kinds /\ file \in Seq(Byte) /\ DOMAIN patches # {} /\ missing \in Nat
           /\ Len(file) \in Nat
           /\ \E f, pos : /\ Sent(kind, patches, f, pos) /\ Len(f) \in Nat
                          /\ Len(file) + missing = Len(f)
<1>1. /\ kind \in Kinds /\ file \in Seq(Byte) /\ missing \in Nat /\ Len(file) \in Nat
      /\ patches \in Maps(Power[8])
  BY DEF IInv, Typed, TypeOK
<1>2. /\ ~OutOfRange(patches) /\ ~BeginsWithFooter(kind, patches) /\ ~TooLarge(patches)
      /\ Len(file) + missing = Len(Written(kind, patches))
      /\ Begins(file, Written(kind, patches))
  BY DEF IInv, SentOK, Expressible
<1>3. patches \in Maps(Word) /\ Fits(patches)
  BY <1>1, <1>2, InWords, MapsFit
<1>4. DOMAIN patches # {}
  <2> SUFFICES ASSUME DOMAIN patches = {} PROVE patches = NoPatches
    BY DEF Expressible
  <2>1. patches = [a \in {} |-> patches[a]]
    BY <1>3, MapsFit
  <2>2. NoPatches = [a \in {} |-> NoPatches[a]]
    BY NoPatchesIs, MapsFit
  <2> QED BY <2>1, <2>2
<1>5. PICK pos : Layout(Written(kind, patches), pos, kind, patches)
  BY <1>1, <1>3, WrittenIs
<1>f. PICK f : f = Written(kind, patches)
  OBVIOUS
<1>6. ASSUME NEW s \in Starts(patches)
      PROVE  s < Power[Width(kind)] /\ Len(Run(patches, s)) < Power[2]
  <2>1. s < Power[Width(kind)]
    BY DEF Expressible
  <2>2. ~(Len(Run(patches, s)) >= Power[2])
    BY <1>2 DEF TooLarge
  <2>3. Len(Run(patches, s)) \in Nat
    BY <1>1, <1>3, StartsIn, RecordsAre
  <2> QED BY <2>1, <2>2, <2>3, Widths
<1>7. Number(Footer[kind]) \notin Starts(patches)
  BY <1>2 DEF BeginsWithFooter
<1>8. Sent(kind, patches, f, pos)
  BY <1>1, <1>2, <1>3, <1>5, <1>6, <1>7, <1>f, Zenon DEF Sent
<1>9. f \in Seq(Byte)
  BY <1>5, <1>f DEF Layout
<1>10. Len(f) \in Nat /\ Len(file) + missing = Len(f)
  BY <1>2, <1>9, <1>f
<1> QED BY <1>1, <1>4, <1>8, <1>10, Zenon

\* An import of a whole file brings all back, one of a part is refused.
LEMMA ImportStep ==
    ASSUME IInv, Import
    PROVE  IInv'
<1>1. PICK beyond \in Byte :
         /\ at' = IF Read(kind, beyond).error = "none" THEN "imported"
                  ELSE Read(kind, beyond).error
         /\ imported' = Read(kind, beyond).patches
  BY DEF Import
<1>2. /\ at = "exported" /\ data' = data /\ patches' = patches /\ plain' = plain
      /\ edited' = edited /\ kind' = kind /\ file' = file /\ missing' = missing
  BY DEF Import
<1>3. Typed /\ TypeOK /\ kind \in Kinds /\ file \in Seq(Byte)
  BY DEF IInv, Typed, TypeOK
<1>4. /\ Read(kind, beyond).patches \in Maps(Word)
      /\ Read(kind, beyond).error \in
            {"none", "InvalidPatchHeader", "InvalidPatchFormat", "MissingEOF"}
  BY <1>3, ReadType
<1>5. imported' \in Maps(Power[8])
  BY <1>1, <1>4, WordMaps
<1>6. at' \in {"imported", "InvalidPatchHeader", "InvalidPatchFormat", "MissingEOF"}
  BY <1>1, <1>4
<1>7. Typed'
  <2>1. IsPatches(imported')
    BY <1>5, TypedPatches
  <2>2. TypeOK'
    BY <1>2, <1>3, <1>6, <2>1 DEF TypeOK, IsPatches, Errors
  <2> QED BY <1>2, <1>3, <1>5, <2>2 DEF Typed
<1>8. PlainOK'
  BY <1>2 DEF IInv, PlainOK, Patched
<1>9. SentOK'
  BY <1>6 DEF SentOK
<1>10. RoundTrip'
  <2> SUFFICES ASSUME Expressible, missing = 0
               PROVE  at' = "imported" /\ Patched(imported') = data
    BY <1>2 DEF RoundTrip, Expressible, Patched
  <2>1. /\ DOMAIN patches # {} /\ missing \in Nat /\ Len(file) \in Nat
        /\ \E f, pos : /\ Sent(kind, patches, f, pos) /\ Len(f) \in Nat
                       /\ Len(file) + missing = Len(f)
    BY <1>2, SentWhenExported
  <2>2. PICK f, pos : /\ Sent(kind, patches, f, pos) /\ Len(f) \in Nat
                      /\ Len(file) + missing = Len(f)
    BY <2>1
  <2>3. Len(file) = Len(f)
    BY <2>1, <2>2
  <2>4. Read(kind, beyond).error = "none" /\ Read(kind, beyond).patches = patches
    BY <2>1, <2>2, <2>3, WholeRead
  <2>5. data = Patched(patches)
    BY DEF IInv, PlainOK, Expressible
  <2> QED BY <1>1, <2>4, <2>5
<1>11. TruncationIsNoticed'
  <2> SUFFICES ASSUME Expressible, missing > 0, ~EndsInFooter
               PROVE  at' # "imported"
    BY <1>2 DEF TruncationIsNoticed, Expressible, EndsInFooter
  <2>1. /\ DOMAIN patches # {} /\ missing \in Nat /\ Len(file) \in Nat
        /\ \E f, pos : /\ Sent(kind, patches, f, pos) /\ Len(f) \in Nat
                       /\ Len(file) + missing = Len(f)
    BY <1>2, SentWhenExported
  <2>2. PICK f, pos : /\ Sent(kind, patches, f, pos) /\ Len(f) \in Nat
                      /\ Len(file) + missing = Len(f)
    BY <2>1
  <2>3. Len(file) # Len(f)
    BY <2>1, <2>2
  <2>4. ~EndsIn(kind)
    BY DEF EndsIn, EndsInFooter
  <2>5. Read(kind, beyond).error # "none"
    BY <2>1, <2>2, <2>3, <2>4, CutRead
  <2> QED BY <1>1, <1>4, <2>5
<1> QED BY <1>7, <1>8, <1>9, <1>10, <1>11 DEF IInv

\* The invariant is about the variables only.
LEMMA Unchanged ==
    ASSUME IInv, UNCHANGED vars
    PROVE  IInv'
<1>1. /\ data' = data /\ patches' = patches /\ plain' = plain /\ edited' = edited
      /\ at' = at /\ kind' = kind /\ file' = file /\ missing' = missing
      /\ imported' = imported
  BY DEF vars
<1>2. Typed' /\ PlainOK' /\ SentOK'
  BY <1>1 DEF IInv, Typed, TypeOK, IsPatches, PlainOK, Patched, SentOK, OutOfRange,
              BeginsWithFooter, TooLarge, Written, Begins
<1>3. RoundTrip' /\ TruncationIsNoticed'
  BY <1>1 DEF IInv, RoundTrip, TruncationIsNoticed, Expressible, EndsInFooter, Patched
<1> QED BY <1>2, <1>3 DEF IInv

\* Every step keeps the invariant.
LEMMA NextHolds ==
    ASSUME IInv, [Next]_vars
    PROVE  IInv'
<1>1. CASE UNCHANGED vars
  BY <1>1, Unchanged
<1>2. ASSUME NEW n \in 1 .. MaxEdited, NEW a \in 0 .. Len(data),
             NEW bytes \in [1 .. n -> Byte], Overwrite(a, bytes)
      PROVE  IInv'
  BY <1>2, OverwriteStep
<1>3. ASSUME NEW n \in 1 .. MaxEdited, NEW a \in 0 .. Len(data), InsertBytes(a, n)
      PROVE  IInv'
  BY <1>3, InsertStep
<1>4. ASSUME NEW n \in 1 .. MaxEdited, NEW a \in 0 .. Len(data), RemoveBytes(a, n)
      PROVE  IInv'
  BY <1>4, RemoveStep
<1>5. ASSUME NEW k \in Kinds, Export(k) PROVE IInv'
  BY <1>5, ExportStep
<1>6. ASSUME NEW k \in Kinds, Receive(k) PROVE IInv'
  BY <1>6, ReceiveStep
<1>7. CASE Truncate
  BY <1>7, TruncateStep
<1>8. CASE Import
  BY <1>8, ImportStep
<1> QED BY <1>1, <1>2, <1>3, <1>4, <1>5, <1>6, <1>7, <1>8, Zenon DEF Next

\* The invariant holds in every reachable state.
LEMMA Invariant == Spec => []IInv
<1>1. Init => IInv
  BY InitHolds
<1>2. IInv /\ [Next]_vars => IInv'
  BY NextHolds
<1> QED BY <1>1, <1>2, PTL DEF Spec

-----------------------------------------------------------------------------
(* The results                                                             *)

\* The variables of every reachable state have their types.  It is about the arithmetic of
\* PatchesGenerator and of the reader: a byte that is moved stays at an address of 64 bits,
\* what is read is bytes at addresses, and no record is read past the end of the file.
THEOREM TypeCorrect == Spec => []TypeOK
<1>1. IInv => TypeOK
  BY DEF IInv, Typed
<1> QED BY <1>1, Invariant, PTL

\* For every size of the data, every edit of single bytes and whatever the bytes of the
\* footer are: a patch that toIPSPatch or toIPS32Patch wrote is accepted by fromIPSPatch or
\* fromIPS32Patch, and applied to what was opened it gives what was edited.
THEOREM ExportIsImported == Spec => []RoundTrip
<1>1. IInv => RoundTrip
  BY DEF IInv
<1> QED BY <1>1, Invariant, PTL

\* A patch that lost bytes at its end, however many, is refused by the reader, but for an
\* IPS32 file that is left with three bytes of the footer at its end.
THEOREM CutIsRefused == Spec => []TruncationIsNoticed
<1>1. IInv => TruncationIsNoticed
  BY DEF IInv
<1> QED BY <1>1, Invariant, PTL
=============================================================================
