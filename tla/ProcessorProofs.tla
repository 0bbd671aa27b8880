-------------------------- MODULE ProcessorProofs --------------------------
(***************************************************************************)
(* The processor executes its programs: for words and addresses of any width,  *)
(* any program, any registers and resets at any tick.                         *)
(*                                                                         *)
(* The argument has two halves.  The clocks: Phases says, for each of the      *)
(* four ticks an instruction takes, what the memories' registers hold of the  *)
(* instruction at pc.  The data path: what the ALU, the multiplexers and the   *)
(* adders put out is what the instruction set says, as numbers or bit by bit;  *)
(* this needs the arithmetic of words (division, powers of two, signs, sums of *)
(* bits), which comes first.                                                 *)
(***************************************************************************)
EXTENDS ProcessorProperties, Induction, TLAPS
-----------------------------------------------------------------------------
(* Quotients and remainders                                                 *)

\* Quotient and remainder.
LEMMA Division ==
    ASSUME NEW m \in Nat \ {0}, NEW x \in Int
    PROVE  x \div m \in Int /\ x % m \in 0 .. m - 1 /\ x = (x \div m) * m + (x % m)
    OBVIOUS

\* They are the only numbers of their kind.
LEMMA OneDivision ==
    ASSUME NEW m \in Nat \ {0}, NEW a \in Int, NEW b \in Int, NEW r \in 0 .. m - 1, NEW s \in 0 .. m - 1,
           a * m + r = b * m + s
    PROVE  a = b /\ r = s
<1>1. CASE a = b
    BY <1>1
<1>2. CASE a > b
    <2>1. (a - b) * m >= m
        BY <1>2
    <2>2. (a - b) * m = s - r
        OBVIOUS
    <2> QED
        BY <2>1, <2>2
<1>3. CASE b > a
    <2>1. (b - a) * m >= m
        BY <1>3
    <2>2. (b - a) * m = r - s
        OBVIOUS
    <2> QED
        BY <2>1, <2>2
<1> QED
    BY <1>1, <1>2, <1>3

LEMMA TheDivision ==
    ASSUME NEW m \in Nat \ {0}, NEW x, NEW d \in Int, NEW r \in 0 .. m - 1, x = d * m + r
    PROVE  x \div m = d /\ x % m = r
<1>1. x \in Int
    OBVIOUS
<1> DEFINE a == x \div m
           s == x % m
<1>2. a \in Int /\ s \in 0 .. m - 1 /\ x = a * m + s
    BY <1>1, Division
<1> HIDE DEF a, s
<1>3. a * m + s = d * m + r
    BY <1>2
<1>4. a = d /\ s = r
    BY <1>2, <1>3, OneDivision
<1> QED
    BY <1>4 DEF a, s

\* Within a turn of the modulus.
LEMMA WithinATurn ==
    ASSUME NEW m \in Nat \ {0}, NEW n \in Int
    PROVE  /\ n \in 0 .. m - 1 => n % m = n
           /\ n + m \in 0 .. m - 1 => n % m = n + m
<1>1. ASSUME n \in 0 .. m - 1 PROVE n % m = n
    <2>1. PICK d \in Int : d = 0
        OBVIOUS
    <2>2. n = d * m + n
        BY <2>1
    <2> QED
        BY <1>1, <2>2, TheDivision
<1>2. ASSUME n + m \in 0 .. m - 1 PROVE n % m = n + m
    <2>1. PICK d \in Int : d = -1
        OBVIOUS
    <2>2. PICK r \in 0 .. m - 1 : r = n + m
        BY <1>2
    <2>3. n = d * m + r
        BY <2>1, <2>2
    <2>4. n % m = r
        BY <2>3, TheDivision
    <2> QED
        BY <2>2, <2>4
<1> QED
    BY <1>1, <1>2

\* Numbers that differ by a multiple of m have the same remainder.
LEMMA SameRemainder ==
    ASSUME NEW m \in Nat \ {0}, NEW x \in Int, NEW y \in Int, NEW c \in Int, x = y + c * m
    PROVE  x % m = y % m
<1> DEFINE b == y \div m
           s == y % m
<1>1. b \in Int /\ s \in 0 .. m - 1 /\ y = b * m + s
    BY Division
<1> HIDE DEF b, s
<1>2. (b + c) * m = b * m + c * m
    BY <1>1
<1>3. x = (b + c) * m + s
    BY <1>1, <1>2
<1>4. x % m = s
    <2> DEFINE d == b + c
    <2>1. d \in Int
        BY <1>1
    <2> HIDE DEF d
    <2> QED
        BY <1>1, <1>3, <2>1, TheDivision DEF d
<1> QED
    BY <1>4 DEF s
-----------------------------------------------------------------------------
(* Powers of two                                                            *)

\* What the recursion of powers gives.
LEMMA Powers ==
    /\ \A n \in 0 .. W : 2^n \in Nat \ {0}
    /\ \A n \in 0 .. W - 1 : 2^(n + 1) = 2 * 2^n
<1> DEFINE T == {n \in 0 .. W : 2^n \in Nat \ {0}}
<1>1. W \in Nat
    BY ProcessorAssumption
<1>2. 0 \in T
    BY <1>1, PowersAssumption
<1>3. ASSUME NEW n \in 0 .. W - 1, n \in T PROVE n + 1 \in T
    BY <1>1, <1>3, PowersAssumption
<1>4. T = 0 .. W
    <2> HIDE DEF T
    <2>1. 0 .. W \subseteq T
        BY <1>1, <1>2, <1>3, BoundedInduction
    <2> QED
        BY <2>1 DEF T
<1> QED
    BY <1>4, PowersAssumption

\* The powers add up.
LEMMA PowersAddUp ==
    ASSUME NEW m \in 0 .. W, NEW k \in 0 .. W - m
    PROVE  2^(m + k) = 2^m * 2^k
<1> DEFINE T == {n \in 0 .. W - m : 2^(m + n) = 2^m * 2^n}
<1>1. W \in Nat /\ W - m \in Nat
    BY ProcessorAssumption
<1>2. 0 \in T
    <2>1. 2^(m + 0) = 2^m * 2^0
        BY <1>1, Powers, PowersAssumption
    <2> QED
        BY <1>1, <2>1
<1>3. ASSUME NEW n \in 0 .. W - m - 1, n \in T PROVE n + 1 \in T
    <2>1. 2^(m + n) = 2^m * 2^n
        BY <1>3
    <2>2. m + n \in 0 .. W - 1 /\ n \in 0 .. W - 1 /\ m + n + 1 = m + (n + 1)
        BY <1>1
    <2>3. 2^(m + (n + 1)) = 2 * 2^(m + n) /\ 2^(n + 1) = 2 * 2^n
        BY <2>2, PowersAssumption
    <2>4. 2^m \in Nat /\ 2^n \in Nat
        BY <1>1, <2>2, Powers
    <2>5. 2 * (2^m * 2^n) = 2^m * (2 * 2^n)
        BY <2>4
    <2>6. 2^(m + (n + 1)) = 2^m * 2^(n + 1)
        BY <2>1, <2>3, <2>5
    <2> QED
        BY <1>1, <2>6
<1>4. k \in T
    <2> HIDE DEF T
    <2>1. 0 .. W - m \subseteq T
        BY <1>1, <1>2, <1>3, BoundedInduction
    <2> QED
        BY <2>1
<1> QED
    BY <1>4

\* The widths: half a word, and the statuses fit.
LEMMA Widths ==
    /\ W \in Nat /\ A \in Nat /\ A \in 0 .. W /\ W - 1 \in 0 .. W /\ W - 1 \in 0 .. W - 1
    /\ 2^W \in Nat \ {0} /\ 2^A \in Nat \ {0} /\ 2^(W - A) \in Nat \ {0} /\ 2^(W - 1) \in Nat \ {0}
    /\ 2^W = 2^(W - A) * 2^A
    /\ 2^W = 2 * 2^(W - 1)
    /\ 2^W > 3
<1>1. W \in Nat /\ A \in Nat /\ A \in 0 .. W /\ W - 1 \in 0 .. W /\ W - 1 \in 0 .. W - 1 /\ W - A \in 0 .. W
    BY ProcessorAssumption
<1>2. W \in 0 .. W /\ A \in 0 .. W - (W - A) /\ W - 2 \in 0 .. W - 1
    BY ProcessorAssumption
<1>3. 2^W \in Nat \ {0} /\ 2^A \in Nat \ {0} /\ 2^(W - A) \in Nat \ {0} /\ 2^(W - 1) \in Nat \ {0}
    BY <1>1, <1>2, Powers
<1>4. 2^W = 2^(W - A) * 2^A
    <2>1. (W - A) + A = W
        BY <1>1
    <2> QED
        BY <1>1, <1>2, <2>1, PowersAddUp
<1>5. 2^W = 2 * 2^(W - 1)
    <2>1. (W - 1) + 1 = W
        BY <1>1
    <2> QED
        BY <1>1, <2>1, PowersAssumption
<1>6. 2^(W - 1) = 2 * 2^(W - 2) /\ 2^(W - 2) \in Nat \ {0}
    <2>1. (W - 2) + 1 = W - 1 /\ W - 2 \in 0 .. W
        BY <1>1, <1>2
    <2> QED
        BY <1>2, <2>1, Powers
<1>7. 2^W > 3
    BY <1>5, <1>6
<1> QED
    BY <1>1, <1>3, <1>4, <1>5, <1>7
-----------------------------------------------------------------------------
(* Words                                                                    *)

LEMMA WordsAreNumbers ==
    /\ \A x \in Word : x \in Nat /\ x \in Int
    /\ \A x \in Address : x \in Nat /\ x \in Int
    /\ 0 \in Word /\ 0 \in Address
    BY Widths DEF Word, Address

\* What is cut to a word or to an address is one.
LEMMA Cut ==
    ASSUME NEW n \in Int
    PROVE  ToWord(n) \in Word /\ n % 2^A \in Address
    BY Widths, Division DEF ToWord, Word, Address

\* A word stands for one number, and a number that fits for one word.
LEMMA SignedRange ==
    ASSUME NEW x \in Word
    PROVE  /\ Signed(x) \in Int /\ Fits(Signed(x))
           /\ Signed(x) < 0 <=> x >= 2^(W - 1)
           /\ Signed(x) = x \/ Signed(x) = x - 2^W
    BY Widths DEF Signed, Fits, Word

LEMMA SignedIsOne ==
    ASSUME NEW x \in Word, NEW y \in Word
    PROVE  Signed(x) = Signed(y) <=> x = y
    BY Widths DEF Signed, Word

LEMMA SignedOfWord ==
    ASSUME NEW n \in Int, Fits(n)
    PROVE  Signed(ToWord(n)) = n
<1> DEFINE M == 2^W
           H == 2^(W - 1)
           w == ToWord(n)
<1>1. M \in Nat \ {0} /\ H \in Nat \ {0} /\ M = 2 * H /\ w = n % M
    BY Widths DEF ToWord
<1>2. -H =< n /\ n < H
    BY DEF Fits
<1>3. Signed(w) = IF w < H THEN w ELSE w - M
    BY DEF Signed
<1> HIDE DEF M, H, w
<1>4. CASE n >= 0
    <2>1. n \in 0 .. M - 1
        BY <1>1, <1>2, <1>4
    <2>2. w = n
        BY <1>1, <2>1, WithinATurn
    <2> QED
        BY <1>2, <1>3, <2>2 DEF w
<1>5. CASE n < 0
    <2>1. n + M \in 0 .. M - 1
        BY <1>1, <1>2, <1>5
    <2>2. w = n + M
        BY <1>1, <2>1, WithinATurn
    <2> QED
        BY <1>1, <1>2, <1>3, <2>2 DEF w
<1> QED
    BY <1>4, <1>5

\* The carry tells a sum that does not fit: its sign is not that of its word.
LEMMA CarryTells ==
    ASSUME NEW n \in Int, -(2^W) =< n, n < 2^W
    PROVE  (n < 0) # (Signed(ToWord(n)) < 0) <=> ~Fits(n)
<1> DEFINE M == 2^W
           H == 2^(W - 1)
           w == ToWord(n)
<1>1. M \in Nat \ {0} /\ H \in Nat \ {0} /\ M = 2 * H /\ w = n % M
    BY Widths DEF ToWord
<1>2. Signed(w) = IF w < H THEN w ELSE w - M
    BY DEF Signed
<1>3. Fits(n) <=> -H =< n /\ n < H
    BY DEF Fits
<1> HIDE DEF M, H, w
<1>4. CASE Fits(n)
    BY <1>4, SignedOfWord, Zenon
<1>5. CASE n >= H
    <2>1. n \in 0 .. M - 1
        BY <1>1, <1>5 DEF M
    <2>2. w = n
        BY <1>1, <2>1, WithinATurn
    <2>3. Signed(w) < 0 /\ ~(n < 0) /\ ~Fits(n)
        BY <1>1, <1>2, <1>3, <1>5, <2>1, <2>2
    <2> QED
        BY <2>3, Zenon DEF w
<1>6. CASE n < -H
    <2>1. n + M \in 0 .. M - 1
        BY <1>1, <1>6 DEF M
    <2>2. w = n + M
        BY <1>1, <2>1, WithinATurn
    <2>3. ~(Signed(w) < 0) /\ n < 0 /\ ~Fits(n)
        BY <1>1, <1>2, <1>3, <1>6, <2>1, <2>2
    <2> QED
        BY <2>3, Zenon DEF w
<1> QED
    BY <1>1, <1>3, <1>4, <1>5, <1>6
-----------------------------------------------------------------------------
(* Bits                                                                     *)

\* The sum of the bits below n.
IsBitSum(f, b, n) == f = [m \in 0 .. n |-> IF m = 0 THEN 0 ELSE f[m - 1] + b[m - 1] * 2^(m - 1)]

LEMMA BitSumsExist ==
    ASSUME NEW b
    PROVE  \E f : IsBitSum(f, b, W)
<1> DEFINE T == {n \in 0 .. W : \E f : IsBitSum(f, b, n)}
<1>1. W \in Nat
    BY ProcessorAssumption
<1>2. 0 \in T
    <2>1. IsBitSum([m \in 0 .. 0 |-> 0], b, 0)
        BY DEF IsBitSum
    <2> QED
        BY <1>1, <2>1
<1>3. ASSUME NEW n \in 0 .. W - 1, n \in T PROVE n + 1 \in T
    <2>1. PICK f : IsBitSum(f, b, n)
        BY <1>3
    <2> DEFINE g == [m \in 0 .. n + 1 |-> IF m = n + 1 THEN f[n] + b[n] * 2^n ELSE f[m]]
    <2>2. \A m \in 0 .. n : g[m] = f[m]
        OBVIOUS
    <2>3. \A m \in 0 .. n + 1 : g[m] = IF m = 0 THEN 0 ELSE g[m - 1] + b[m - 1] * 2^(m - 1)
        <3> SUFFICES ASSUME NEW m \in 0 .. n + 1
                     PROVE  g[m] = IF m = 0 THEN 0 ELSE g[m - 1] + b[m - 1] * 2^(m - 1)
            OBVIOUS
        <3>1. CASE m = n + 1
            <4>1. m # 0 /\ m - 1 = n /\ n \in 0 .. n + 1 /\ n # n + 1
                BY <3>1
            <4>2. g[m] = f[n] + b[n] * 2^n /\ g[n] = f[n]
                BY <3>1, <4>1
            <4> HIDE DEF g
            <4> QED
                BY <4>1, <4>2
        <3>2. CASE m \in 0 .. n
            <4>1. f[m] = IF m = 0 THEN 0 ELSE f[m - 1] + b[m - 1] * 2^(m - 1)
                BY <2>1, <3>2 DEF IsBitSum
            <4>2. m # 0 => m - 1 \in 0 .. n
                BY <3>2
            <4> HIDE DEF g
            <4> QED
                BY <2>2, <3>2, <4>1, <4>2
        <3> QED
            BY <3>1, <3>2
    <2>4. DOMAIN g = 0 .. n + 1 /\ g = [m \in 0 .. n + 1 |-> g[m]]
        OBVIOUS
    <2> HIDE DEF g
    <2>5. IsBitSum(g, b, n + 1)
        BY <2>3, <2>4 DEF IsBitSum
    <2> QED
        BY <1>1, <2>5
<1>4. W \in T
    <2> HIDE DEF T
    <2>1. 0 .. W \subseteq T
        BY <1>1, <1>2, <1>3, BoundedInduction
    <2> QED
        BY <1>1, <2>1
<1> QED
    BY <1>4

LEMMA BitsIsSum == 
    ASSUME NEW b
    PROVE  \E f : IsBitSum(f, b, W) /\ Bits(b) = f[W]
<1> DEFINE f == CHOOSE f : IsBitSum(f, b, W)
<1>1. IsBitSum(f, b, W)
    BY BitSumsExist
<1>2. Bits(b) = f[W]
    BY DEF Bits, IsBitSum
<1> QED
    BY <1>1, <1>2

\* A bit is 0 or 1.
LEMMA BitIsOne ==
    ASSUME NEW x \in Int, NEW k \in 0 .. W - 1
    PROVE  Bit(x, k) \in {0, 1}
<1> DEFINE p == 2^k
           d == x \div p
<1>1. k \in 0 .. W
    BY Widths
<1>2. p \in Nat \ {0}
    BY <1>1, Powers
<1> HIDE DEF p
<1>3. d \in Int
    BY <1>2, Division
<1> HIDE DEF d
<1>4. d % 2 \in 0 .. 1
    BY <1>3
<1> QED
    BY <1>4 DEF Bit, d, p

\* The sum of the bits below n is less than 2^n.
LEMMA SumsAreBounded ==
    ASSUME NEW b \in [0 .. W - 1 -> {0, 1}], NEW f, IsBitSum(f, b, W)
    PROVE  \A n \in 0 .. W : f[n] \in 0 .. 2^n - 1
<1> DEFINE T == {n \in 0 .. W : f[n] \in 0 .. 2^n - 1}
<1>1. W \in Nat
    BY Widths
<1>2. 0 \in T
    BY <1>1, PowersAssumption DEF IsBitSum
<1>3. ASSUME NEW n \in 0 .. W - 1, n \in T PROVE n + 1 \in T
    <2>1. n + 1 \in 0 .. W /\ n + 1 # 0 /\ (n + 1) - 1 = n /\ n \in 0 .. W
        BY <1>1
    <2>2. f[n + 1] = f[n] + b[n] * 2^n
        BY <2>1 DEF IsBitSum
    <2>3. 2^(n + 1) = 2 * 2^n /\ 2^n \in Nat \ {0}
        BY <2>1, Powers
    <2>4. b[n] = 0 \/ b[n] = 1
        OBVIOUS
    <2>5. f[n] \in 0 .. 2^n - 1
        BY <1>3
    <2>6. f[n + 1] \in 0 .. 2^(n + 1) - 1
        BY <2>2, <2>3, <2>4, <2>5
    <2> QED
        BY <2>1, <2>6
<1>4. 0 .. W \subseteq T
    <2> HIDE DEF T
    <2> QED
        BY <1>1, <1>2, <1>3, BoundedInduction
<1> QED
    BY <1>4

\* The bits above k + 1 add a multiple of 2^(k + 1).
LEMMA SumsAbove ==
    ASSUME NEW b \in [0 .. W - 1 -> {0, 1}], NEW f, IsBitSum(f, b, W), NEW k \in 0 .. W - 1
    PROVE  \E q \in Int : f[W] = q * 2^(k + 1) + f[k + 1]
<1> DEFINE p == 2^(k + 1)
           L == W - (k + 1)
           T == {n \in 0 .. L : \E q \in Int : f[(k + 1) + n] = q * p + f[k + 1]}
<1>1. W \in Nat /\ L \in Nat /\ k + 1 \in 0 .. W /\ p \in Nat /\ f[k + 1] \in Int
    <2>1. W \in Nat /\ k + 1 \in 0 .. W
        BY Widths
    <2>2. p \in Nat
        BY <2>1, Powers
    <2>3. f[k + 1] \in 0 .. 2^(k + 1) - 1
        BY <2>1, SumsAreBounded
    <2> QED
        BY <2>1, <2>2, <2>3
<1>2. 0 \in T
    <2>1. f[(k + 1) + 0] = 0 * p + f[k + 1] /\ 0 \in 0 .. L
        BY <1>1
    <2>2. \E q \in Int : f[(k + 1) + 0] = q * p + f[k + 1]
        BY <2>1, 0 \in Int, Zenon
    <2> QED
        BY <2>1, <2>2, Zenon
<1>3. ASSUME NEW n \in 0 .. L - 1, n \in T PROVE n + 1 \in T
    <2> DEFINE m == (k + 1) + n
    <2>1. m \in 0 .. W - 1 /\ (k + 1) + (n + 1) = m + 1 /\ (m + 1) - 1 = m /\ m + 1 # 0 /\ m + 1 \in 0 .. W
        BY <1>1
    <2>2. PICK q \in Int : f[m] = q * p + f[k + 1]
        BY <1>3
    <2>3. 2^m = p * 2^n /\ 2^n \in Nat
        <3>1. k + 1 \in 0 .. W /\ n \in 0 .. W - (k + 1) /\ n \in 0 .. W
            BY <1>1
        <3> QED
            BY <3>1, Powers, PowersAddUp
    <2>4. f[m + 1] = f[m] + b[m] * 2^m
        BY <2>1 DEF IsBitSum
    <2> HIDE DEF m, p
    <2>5. b[m] \in Int
        BY <2>1
    <2>6. PICK c \in Int : c = q + b[m] * 2^n
        BY <2>3, <2>5
    <2>7. f[m + 1] = c * p + f[k + 1]
        <3> DEFINE u == 2^n
                   v == b[m]
        <3>1. u \in Int /\ v \in Int /\ c = q + v * u /\ f[m + 1] = (q * p + f[k + 1]) + v * (p * u)
            BY <2>2, <2>3, <2>4, <2>5, <2>6
        <3> HIDE DEF u, v
        <3>2. c * p = q * p + (v * u) * p
            BY <1>1, <3>1
        <3>3. (v * u) * p = v * (p * u)
            BY <1>1, <3>1
        <3> QED
            BY <1>1, <2>6, <3>1, <3>2, <3>3
    <2>8. \E r \in Int : f[(k + 1) + (n + 1)] = r * p + f[k + 1]
        BY <2>1, <2>7
    <2>9. n + 1 \in 0 .. L
        BY <1>1
    <2> QED
        BY <2>8, <2>9, Zenon DEF p
<1>4. L \in T
    <2> HIDE DEF T
    <2>1. 0 .. L \subseteq T
        <3> HIDE DEF L
        <3> QED
            BY <1>1, <1>2, <1>3, BoundedInduction
    <2> QED
        BY <1>1, <2>1
<1> QED
    <2>1. (k + 1) + L = W
        BY <1>1
    <2> QED
        BY <1>4, <2>1

\* The word made of bits is a word and has these bits.
LEMMA WordOfBits ==
    ASSUME NEW b \in [0 .. W - 1 -> {0, 1}]
    PROVE  Bits(b) \in Word /\ \A k \in 0 .. W - 1 : Bit(Bits(b), k) = b[k]
<1>1. PICK f : IsBitSum(f, b, W) /\ Bits(b) = f[W]
    BY BitsIsSum
<1>2. Bits(b) \in Word
    BY <1>1, SumsAreBounded, Widths DEF Word
<1>3. ASSUME NEW k \in 0 .. W - 1 PROVE Bit(Bits(b), k) = b[k]
    <2> DEFINE p == 2^k
               x == f[W]
               c == b[k]
               r == f[k]
    <2>1. k + 1 \in 0 .. W /\ k + 1 # 0 /\ (k + 1) - 1 = k /\ k \in 0 .. W
        BY Widths
    <2>2. p \in Nat \ {0} /\ 2^(k + 1) = 2 * p
        BY <2>1, Powers
    <2>3. PICK q \in Int : x = q * 2^(k + 1) + f[k + 1]
        BY <1>1, SumsAbove
    <2>4. f[k + 1] = r + c * p
        BY <1>1, <2>1 DEF IsBitSum
    <2>5. c \in {0, 1} /\ r \in 0 .. p - 1
        BY <1>1, <2>1, SumsAreBounded
    <2>6. x = q * (2 * p) + (r + c * p)
        BY <2>2, <2>3, <2>4
    <2> HIDE DEF p, x, c, r
    <2>7. PICK d \in Int : d = q * 2 + c
        BY <2>5
    <2>8. x = d * p + r
        BY <2>2, <2>5, <2>6, <2>7
    <2>9. x \div p = d
        BY <2>2, <2>5, <2>8, TheDivision, Zenon
    <2>10. d % 2 = c
        BY <2>5, <2>7
    <2> QED
        BY <1>1, <2>9, <2>10 DEF Bit, p, x, c
<1> QED
    BY <1>2, <1>3
-----------------------------------------------------------------------------
(* The data path keeps its widths                                           *)

\* A power that a shift amount names.
LEMMA ShiftPower ==
    ASSUME NEW i \in Instruction
    PROVE  /\ i.shamt \in 0 .. W - 1 /\ i.shamt \in 0 .. W
           /\ 2^i.shamt \in Nat \ {0}
    BY Widths, Powers DEF Instruction

\* The registers an instruction reads are in the file.
LEMMA PortsAreRegisters ==
    ASSUME NEW i \in Instruction
    PROVE  PortA(i) \in Regs /\ PortB(i) \in Regs
    BY ProcessorAssumption DEF Instruction, PortA, PortB

LEMMA OperandsAreWords ==
    ASSUME NEW i \in Instruction, regs \in [Regs -> Word]
    PROVE  OperandA(i) \in Word /\ OperandB(i) \in Word
<1>1. i.imm \in Int
    BY Widths DEF Instruction
<1> QED
    BY <1>1, PortsAreRegisters, Cut DEF OperandA, OperandB

\* The ALU puts out words.
LEMMA ResultIsWord ==
    ASSUME NEW i \in Instruction, regs \in [Regs -> Word]
    PROVE  Result(i) \in Word
<1> DEFINE a == OperandA(i)
           b == OperandB(i)
           s == i.shamt
<1>1. a \in Word /\ b \in Word /\ a \in Int /\ b \in Int
    <2>1. a \in Word /\ b \in Word
        BY OperandsAreWords
    <2> QED
        BY <2>1, WordsAreNumbers
<1>2. 2^s \in Nat \ {0}
    BY ShiftPower
<1>3. Result(i) = AluResult(i.op, a, b, s)
    BY DEF Result
<1> HIDE DEF a, b, s
<1>4. CASE i.op = "sub"
    <2>1. ToWord(a - b) \in Word
        BY <1>1, Cut
    <2> QED
        BY <1>3, <1>4, <2>1 DEF AluResult
<1>5. CASE i.op = "and"
    <2> DEFINE c == [k \in 0 .. W - 1 |-> Bit(a, k) * Bit(b, k)]
    <2>1. \A k \in 0 .. W - 1 : Bit(a, k) * Bit(b, k) \in {0, 1}
        BY <1>1, BitIsOne
    <2>2. c \in [0 .. W - 1 -> {0, 1}]
        BY <2>1
    <2>3. Result(i) = Bits(c)
        BY <1>3, <1>5 DEF AluResult
    <2> HIDE DEF c
    <2> QED
        BY <2>2, <2>3, WordOfBits
<1>6. CASE i.op = "or"
    <2> DEFINE c == [k \in 0 .. W - 1 |-> IF Bit(a, k) + Bit(b, k) > 0 THEN 1 ELSE 0]
    <2>1. c \in [0 .. W - 1 -> {0, 1}]
        OBVIOUS
    <2>2. Result(i) = Bits(c)
        BY <1>3, <1>6 DEF AluResult
    <2> HIDE DEF c
    <2> QED
        BY <2>1, <2>2, WordOfBits
<1>7. CASE i.op = "sll"
    <2>1. a * 2^s \in Int
        BY <1>1, <1>2
    <2> QED
        BY <1>3, <1>7, <2>1, Cut DEF AluResult
<1>8. CASE i.op = "sra"
    <2>1. Signed(a) \div 2^s \in Int
        BY <1>1, <1>2, SignedRange, Division
    <2> QED
        BY <1>3, <1>8, <2>1, Cut DEF AluResult
<1>9. CASE i.op \notin {"sub", "and", "or", "sll", "sra"}
    <2>1. ToWord(a + b) \in Word
        BY <1>1, Cut
    <2> QED
        BY <1>3, <1>9, <2>1 DEF AluResult
<1> QED
    BY <1>4, <1>5, <1>6, <1>7, <1>8, <1>9

\* What an edge leaves in the registers and the program counter.
LEMMA ExecuteKeepsWidths ==
    ASSUME NEW i \in Instruction, NEW loaded \in Word, Execute(i, loaded),
           regs \in [Regs -> Word], regs[0] = 0, pc \in Address
    PROVE  regs' \in [Regs -> Word] /\ regs'[0] = 0 /\ pc' \in Address
<1>1. pc \in Int /\ 1 \in Word /\ 2 \in Word /\ 3 \in Word /\ i.imm \in Int
    BY WordsAreNumbers, Widths DEF Word, Instruction
<1>2. PCAddOne \in Address /\ PCAddOne \in Int
    <2>1. pc + 1 \in Int
        BY <1>1
    <2>2. PCAddOne \in Address
        BY <2>1, Cut DEF PCAddOne
    <2> QED
        BY <2>2, WordsAreNumbers
<1>3. Extended(PCAddOne) \in Word
    BY <1>2, Widths, Cut DEF Extended
<1>4. ToWord(i.imm) \in Word
    BY <1>1, Cut
<1>5. WriteData(i, loaded) \in Word
    BY <1>1, <1>3, <1>4, ResultIsWord DEF WriteData
<1>6. regs' \in [Regs -> Word]
    BY <1>5 DEF Execute
<1>7. regs'[0] = 0
    BY ProcessorAssumption DEF Execute
<1>8. OperandB(i) \in Int /\ PCAddOne + i.imm \in Int
    <2>1. OperandB(i) \in Word
        BY OperandsAreWords
    <2>2. OperandB(i) \in Int
        BY <2>1, WordsAreNumbers
    <2> QED
        BY <1>1, <1>2, <2>2
<1>9. PCInput(i) \in Address
    <2>1. OperandB(i) % 2^A \in Address /\ i.imm % 2^A \in Address /\ (PCAddOne + i.imm) % 2^A \in Address
        BY <1>1, <1>8, Cut
    <2> QED
        BY <1>2, <2>1 DEF PCInput
<1> QED
    BY <1>6, <1>7, <1>9 DEF Execute

-----------------------------------------------------------------------------
(* The clocks                                                               *)

Line(i) == Result(i) % 2^A

\* Where i stores, there is already what i stores.
Stored(i) == i.op = "sw" /\ Line(i) \in Address => dmem[Line(i)] = regs[PortB(i)]

\* The four phases of the clocks.
JustExecuted == clk_two /\ ~clk_four
Addressed == ~clk_two /\ ~clk_four
Loaded == clk_four

\* What a phase has seen of the instruction at pc, by the ticks it has had.
Phases ==
    /\ clk_two \in BOOLEAN /\ clk_four \in BOOLEAN /\ reset \in BOOLEAN /\ ticks \in 0 .. 4
    /\ imem \in [Address -> Instruction] /\ q_imem \in Instruction
    /\ reset => ~clk_two
    /\ ~JustExecuted /\ ticks >= 1 => address_reg = pc
    /\ JustExecuted /\ ticks >= 2 => q_imem = imem[address_reg]
    /\ JustExecuted /\ ticks >= 3 => Stored(q_imem)
    /\ Loaded /\ ticks >= 2 => q_imem = imem[pc]
    /\ Addressed /\ ticks >= 3 => q_imem = imem[pc] \/ Stored(q_imem)
    /\ Loaded /\ ~clk_two /\ ticks >= 3 => dmem_address_reg = Line(q_imem)

\* An instruction drives the same lines as long as the registers are the same.
LEMMA SameLines ==
    ASSUME NEW i \in Instruction, \A r \in Regs : regs'[r] = regs[r]
    PROVE  Line(i)' = Line(i) /\ regs'[PortB(i)] = regs[PortB(i)]
<1>1. PortA(i) \in Regs /\ PortB(i) \in Regs
    BY PortsAreRegisters
<1>2. OperandA(i)' = OperandA(i)
    BY <1>1 DEF OperandA
<1>3. OperandB(i)' = OperandB(i)
    BY <1>1 DEF OperandB
<1> QED
    BY <1>1, <1>2, <1>3 DEF Line, Result

\* The data memory takes what the instruction it sees stores.
LEMMA MemoryStores ==
    ASSUME NEW i \in Instruction, q_imem = i, DOMAIN dmem = Address, MemoryTick,
           i.op = "sw" => \A r \in Regs : regs'[r] = regs[r]
    PROVE  Stored(i)'
<1> SUFFICES ASSUME i.op = "sw", Line(i)' \in Address
             PROVE  dmem'[Line(i)'] = regs'[PortB(i)]
    BY DEF Stored, PortB
<1>1. Line(i)' = Line(i) /\ regs'[PortB(i)] = regs[PortB(i)]
    BY SameLines
<1>2. dmem' = [dmem EXCEPT ![Line(i)] = regs[PortB(i)]]
    BY DEF MemoryTick, Line
<1> QED
    BY <1>1, <1>2

\* A store writes no register.
LEMMA StoreWritesNoRegister ==
    ASSUME NEW i, i.op = "sw", NEW loaded, Execute(i, loaded)
    PROVE  \A r \in Regs : regs'[r] = regs[r]
<1>1. ~WriteEnable(i)
    BY DEF WriteEnable, ROps
<1> QED
    BY <1>1 DEF Execute

\* The phases follow one another.
LEMMA PhasesStep == Phases /\ ProcessorTypeOK /\ [Next]_vars => Phases'
<1> SUFFICES ASSUME Phases, ProcessorTypeOK, [Next]_vars PROVE Phases'
    OBVIOUS
<1>1. CASE UNCHANGED vars
    <2>1. \A i \in Instruction : Line(i)' = Line(i) /\ regs'[PortB(i)] = regs[PortB(i)]
        BY <1>1, SameLines DEF vars
    <2>2. Stored(q_imem) => Stored(q_imem)'
        BY <1>1, <2>1 DEF vars, Stored, Phases, PortB
    <2>3. Line(q_imem)' = Line(q_imem)
        BY <1>1, <2>1 DEF vars, Phases
    <2> QED
        BY <1>1, <2>2, <2>3 DEF vars, Phases, JustExecuted, Addressed, Loaded
<1>2. CASE AssertReset
    <2>1. clk_two' = FALSE /\ reset' = TRUE /\ ticks' = 0 /\ UNCHANGED <<imem, q_imem, clk_four>>
        BY <1>2 DEF AssertReset
    <2>2. clk_two' \in BOOLEAN /\ clk_four' \in BOOLEAN /\ reset' \in BOOLEAN
        BY <2>1, Zenon DEF Phases
    <2>3. imem' \in [Address -> Instruction] /\ q_imem' \in Instruction
        BY <2>1 DEF Phases
    <2> QED
        BY <2>1, <2>2, <2>3 DEF Phases, JustExecuted, Addressed, Loaded
<1>3. CASE ReleaseReset
    <2>1. \A i \in Instruction : Line(i)' = Line(i) /\ regs'[PortB(i)] = regs[PortB(i)]
        BY <1>3, SameLines DEF ReleaseReset
    <2>2. Stored(q_imem) => Stored(q_imem)'
        BY <1>3, <2>1 DEF ReleaseReset, Stored, Phases, PortB
    <2>3. Line(q_imem)' = Line(q_imem)
        BY <1>3, <2>1 DEF ReleaseReset, Phases
    <2> QED
        BY <1>3, <2>2, <2>3 DEF ReleaseReset, Phases, JustExecuted, Addressed, Loaded
<1>4. CASE Tick
    <2> USE DEF JustExecuted, Addressed, Loaded
    <2>1. /\ q_imem' = imem[address_reg] /\ address_reg' = pc
          /\ clk_two' = (~reset /\ ~clk_two)
          /\ clk_four' = IF ~reset /\ ~clk_two THEN ~clk_four ELSE clk_four
          /\ UNCHANGED <<imem, reset>>
          /\ ticks' = IF ticks < 4 THEN ticks + 1 ELSE 4
          /\ ~Clocked => UNCHANGED <<pc, regs>>
          /\ Clocked => Execute(q_imem', q_dmem')
          /\ MemoryTick
        BY <1>4 DEF Tick, FetchTick
    <2>2. q_imem' \in Instruction
        BY <2>1 DEF Phases, ProcessorTypeOK
    <2>3. /\ clk_two' \in BOOLEAN /\ clk_four' \in BOOLEAN /\ reset' \in BOOLEAN /\ ticks' \in 0 .. 4
          /\ reset' => ~clk_two'
        <3>1. clk_two' \in BOOLEAN
            BY <2>1, Zenon
        <3>2. clk_four' \in BOOLEAN
            BY <2>1, Zenon DEF Phases
        <3>3. reset' \in BOOLEAN /\ (reset' => ~clk_two')
            BY <2>1, Zenon DEF Phases
        <3>4. ticks' \in 0 .. 4
            BY <2>1 DEF Phases
        <3> QED
            BY <3>1, <3>2, <3>3, <3>4
    <2>4. JustExecuted' <=> Clocked
        BY <2>1 DEF Phases, Clocked
    <2>5. q_imem \in Instruction /\ DOMAIN dmem = Address
        BY DEF Phases, ProcessorTypeOK
    <2>6. CASE Clocked
        <3>1. ticks >= 1 => q_imem' = imem[pc]
            BY <2>1, <2>6 DEF Phases, Clocked
        <3>2. ticks >= 2 => q_imem' = q_imem
            BY <3>1, <2>6 DEF Phases, Clocked
        <3>3. ASSUME ticks >= 2 PROVE Stored(q_imem)'
            <4>1. q_imem.op = "sw" => \A r \in Regs : regs'[r] = regs[r]
                BY <2>1, <2>6, <3>2, <3>3, StoreWritesNoRegister
            <4>2. \A i \in Instruction : i = q_imem => Stored(i)'
                BY <2>1, <2>5, <4>1, MemoryStores
            <4> QED
                BY <2>2, <2>5, <3>2, <3>3, <4>2 DEF Stored
        <3>4. /\ ticks' >= 2 => ticks >= 1
              /\ ticks' >= 3 => ticks >= 2
            BY <2>1 DEF Phases
        <3> QED
            BY <2>1, <2>2, <2>3, <2>4, <2>6, <3>1, <3>3, <3>4 DEF Phases
    <2>7. CASE ~Clocked /\ ~JustExecuted
        <3>1. ticks >= 1 => q_imem' = imem'[pc']
            BY <2>1, <2>7 DEF Phases
        <3>2. ticks' >= 2 => ticks >= 1
            BY <2>1 DEF Phases
        <3>3. ASSUME Loaded', ~clk_two', ticks' >= 3 PROVE dmem_address_reg' = Line(q_imem)'
            <4>1. Loaded /\ ticks >= 2
                <5>1. reset \/ clk_two
                    BY <2>1, <3>3, Zenon
                <5>2. clk_four' = clk_four
                    BY <2>1, <5>1, Zenon
                <5>3. ticks >= 2
                    BY <2>1, <3>3 DEF Phases
                <5> QED
                    BY <3>3, <5>2, <5>3
            <4>2. q_imem' = q_imem
                BY <2>1, <2>7, <4>1 DEF Phases
            <4>3. \A i \in Instruction : Line(i)' = Line(i)
                BY <2>1, <2>7, SameLines
            <4>4. dmem_address_reg' = Line(q_imem)
                BY <2>1 DEF MemoryTick, Line
            <4>5. Line(q_imem)' = Line(q_imem)
                BY <2>2, <4>2, <4>3 DEF Line, Result, OperandA, OperandB, PortA, PortB
            <4> QED
                BY <4>4, <4>5
        <3> QED
            BY <2>1, <2>2, <2>3, <2>4, <2>7, <3>1, <3>2, <3>3 DEF Phases
    <2>8. CASE JustExecuted
        <3>1. Addressed' /\ ~Clocked
            BY <2>1, <2>8 DEF Phases, Clocked
        <3>2. ticks >= 2 => q_imem' = q_imem
            BY <2>1, <2>8 DEF Phases
        <3>3. ASSUME ticks >= 2 PROVE Stored(q_imem)'
            <4>1. \A r \in Regs : regs'[r] = regs[r]
                BY <2>1, <3>1
            <4>2. \A i \in Instruction : i = q_imem => Stored(i)'
                BY <2>1, <2>5, <4>1, MemoryStores
            <4> QED
                BY <2>2, <2>5, <3>2, <3>3, <4>2 DEF Stored
        <3>4. ticks' >= 3 => ticks >= 2
            BY <2>1 DEF Phases
        <3> QED
            BY <2>1, <2>2, <2>3, <2>4, <2>8, <3>1, <3>3, <3>4 DEF Phases
    <2> QED
        BY <2>6, <2>7, <2>8
<1> QED
    BY <1>1, <1>2, <1>3, <1>4 DEF Next
-----------------------------------------------------------------------------
(* Types and fetches                                                        *)

\* The phases hold from power-up.
LEMMA InitPhases == Init => Phases
<1> SUFFICES ASSUME Init PROVE Phases
    OBVIOUS
<1>1. imem \in [Address -> Instruction]
    BY ProcessorAssumption DEF Init
<1>2. Nop \in Instruction
    BY ProcessorAssumption, Widths DEF Nop, Instruction, ROps
<1>3. clk_two = FALSE /\ clk_four = FALSE /\ reset = FALSE /\ ticks = 0 /\ q_imem = Nop
    BY DEF Init
<1>4. clk_two \in BOOLEAN /\ clk_four \in BOOLEAN /\ reset \in BOOLEAN
    BY <1>3, Zenon
<1> QED
    BY <1>1, <1>2, <1>3, <1>4 DEF Phases, JustExecuted, Addressed, Loaded, Init

\* The types hold from power-up,
LEMMA InitTypes == Init => ProcessorTypeOK
<1> SUFFICES ASSUME Init PROVE ProcessorTypeOK
    OBVIOUS
<1>1. clk_two = FALSE /\ clk_four = FALSE /\ reset = FALSE /\ ticks = 0
    BY DEF Init
<1>2. clk_two \in BOOLEAN /\ clk_four \in BOOLEAN /\ reset \in BOOLEAN
    BY <1>1, Zenon
<1> QED
    BY <1>1, <1>2, WordsAreNumbers, ProcessorAssumption DEF ProcessorTypeOK, Init

\* and every step keeps them: what the data path computes stays within its widths.
LEMMA TypesStep == Phases /\ ProcessorTypeOK /\ [Next]_vars => ProcessorTypeOK'
<1> SUFFICES ASSUME Phases, ProcessorTypeOK, [Next]_vars PROVE ProcessorTypeOK'
    OBVIOUS
<1>1. clk_two' \in BOOLEAN /\ clk_four' \in BOOLEAN /\ reset' \in BOOLEAN /\ ticks' \in 0 .. 4
    BY PhasesStep DEF Phases
<1>2. CASE UNCHANGED vars
    BY <1>1, <1>2 DEF vars, ProcessorTypeOK
<1>3. CASE AssertReset
    BY <1>1, <1>3, WordsAreNumbers, ProcessorAssumption DEF AssertReset, ProcessorTypeOK
<1>4. CASE ReleaseReset
    BY <1>1, <1>4 DEF ReleaseReset, ProcessorTypeOK
<1>5. CASE Tick
    <2>1. q_imem \in Instruction /\ q_imem' \in Instruction
        BY PhasesStep DEF Phases
    <2>2. address_reg' \in Address /\ q_dmem' \in Word
        BY <1>5 DEF Tick, FetchTick, MemoryTick, ProcessorTypeOK
    <2>3. Line(q_imem) \in Address
        <3>1. Result(q_imem) \in Int
            BY <2>1, ResultIsWord, WordsAreNumbers DEF ProcessorTypeOK
        <3> QED
            BY <3>1, Cut DEF Line
    <2>4. dmem_address_reg' \in Address
        BY <1>5, <2>3 DEF Tick, MemoryTick, Line
    <2>5. regs[PortB(q_imem)] \in Word
        BY <2>1, PortsAreRegisters DEF ProcessorTypeOK
    <2>6. dmem' \in [Address -> Word]
        BY <1>5, <2>3, <2>5 DEF Tick, MemoryTick, Line, ProcessorTypeOK
    <2>7. regs' \in [Regs -> Word] /\ regs'[0] = 0 /\ pc' \in Address
        <3>1. CASE Clocked
            <4>1. Execute(q_imem', q_dmem')
                BY <1>5, <3>1 DEF Tick
            <4>2. \A i \in Instruction, loaded \in Word : Execute(i, loaded) =>
                    regs' \in [Regs -> Word] /\ regs'[0] = 0 /\ pc' \in Address
                BY ExecuteKeepsWidths DEF ProcessorTypeOK
            <4> QED
                BY <2>1, <2>2, <4>1, <4>2
        <3>2. CASE ~Clocked
            BY <1>5, <3>2 DEF Tick, ProcessorTypeOK
        <3> QED
            BY <3>1, <3>2
    <2> QED
        BY <1>1, <2>2, <2>4, <2>6, <2>7 DEF ProcessorTypeOK
<1> QED
    BY <1>2, <1>3, <1>4, <1>5 DEF Next

LEMMA ProcessorInvariant == Spec => [](Phases /\ ProcessorTypeOK)
<1>1. Init => Phases /\ ProcessorTypeOK
    BY InitPhases, InitTypes
<1>2. Phases /\ ProcessorTypeOK /\ [Next]_vars => (Phases /\ ProcessorTypeOK)'
    BY PhasesStep, TypesStep
<1> QED
    BY <1>1, <1>2, PTL DEF Spec

\* The data path keeps its widths at every tick: words are words, addresses
\* addresses, and register 0 is zero.
THEOREM WidthsKept == Spec => []ProcessorTypeOK
    BY ProcessorInvariant, PTL

\* The word at pc is there at every edge of the processor's clock that comes two
\* ticks after a reset began or later: the memory's two registers are filled within
\* the four ticks of an instruction (skeleton.v, imem.v).  An edge in the very tick
\* after finds the word fetched before the reset.
FetchesInTime == [][Edge /\ ticks >= 1 => q_imem' = imem[pc]]_vars

\* Every such edge executes the word at pc, for any program.
THEOREM InstructionInTime == Spec => FetchesInTime
<1>1. Phases /\ [Next]_vars => [Edge /\ ticks >= 1 => q_imem' = imem[pc]]_vars
    BY DEF Phases, Edge, Tick, FetchTick, Clocked, JustExecuted
<1> QED
    BY <1>1, ProcessorInvariant, PTL DEF Spec, FetchesInTime
-----------------------------------------------------------------------------
(* Addresses                                                                *)

\* A word's remainder is that of the number it was cut from: addresses are narrower
\* than words.
LEMMA WordDivision ==
    ASSUME NEW n \in Int
    PROVE  \E q \in Int : ToWord(n) \in Int /\ n = (q * 2^(W - A)) * 2^A + ToWord(n)
<1> DEFINE m == 2^A
           k == 2^(W - A)
           M == 2^W
           q == n \div M
           r == n % M
<1>1. m \in Nat \ {0} /\ k \in Nat \ {0} /\ M = k * m
    BY Widths
<1>2. r = ToWord(n)
    BY DEF ToWord
<1> HIDE DEF m, k, M
<1>3. M \in Nat \ {0}
    BY <1>1
<1>4. q \in Int /\ r \in 0 .. M - 1 /\ n = q * M + r
    BY <1>3, Division
<1> HIDE DEF q, r
<1>5. q * M = (q * k) * m
    BY <1>1, <1>4
<1>6. r \in Int /\ n = (q * k) * m + r
    BY <1>3, <1>4, <1>5
<1> QED
    BY <1>2, <1>4, <1>6 DEF m, k

LEMMA WordRemainder ==
    ASSUME NEW n \in Int
    PROVE  ToWord(n) \in Int /\ ToWord(n) % 2^A = n % 2^A
<1> DEFINE m == 2^A
           k == 2^(W - A)
           word == ToWord(n)
<1>1. m \in Nat \ {0} /\ k \in Nat \ {0}
    BY Widths
<1>2. PICK q \in Int : word \in Int /\ n = (q * k) * m + word
    BY WordDivision
<1> DEFINE c == q * k
<1> HIDE DEF m, k, word
<1>3. c \in Int /\ n = word + c * m
    BY <1>1, <1>2
<1> HIDE DEF c
<1>4. n % m = word % m
    BY <1>1, <1>2, <1>3, SameRemainder
<1> QED
    BY <1>2, <1>4 DEF m, word

\* The lines a store or a load drives are the address its program means.
LEMMA LineIsAddress ==
    ASSUME NEW i \in Instruction, i.op \in {"sw", "lw"}, regs \in [Regs -> Word]
    PROVE  Line(i) = MemoryAddress(i)
<1> DEFINE a == regs[i.rs]
           m == 2^A
           k == 2^(W - A)
<1>1. m \in Nat \ {0} /\ k \in Nat \ {0} /\ 2^W = k * m /\ 2^W \in Nat \ {0}
    BY Widths
<1>2. a \in Int /\ i.imm \in Int
    BY <1>1 DEF Instruction, Word
<1>3. Result(i) = ToWord(a + ToWord(i.imm))
    BY DEF Result, AluResult, OperandA, OperandB, PortA
<1>4. PICK q \in Int : ToWord(i.imm) \in Int /\ i.imm = (q * k) * m + ToWord(i.imm)
    BY <1>2, WordDivision
<1>5. Line(i) = (a + ToWord(i.imm)) % m
    BY <1>2, <1>3, <1>4, WordRemainder DEF Line
<1> DEFINE s == IF a < 2^(W - 1) THEN 0 ELSE k
           x == Signed(a) + i.imm
           y == a + ToWord(i.imm)
           c == q * k - s
<1>6. Signed(a) = a - s * m
    BY <1>1, <1>2 DEF Signed
<1>7. s \in Int
    BY <1>1
<1> HIDE DEF s
<1>8. c \in Int /\ x \in Int /\ y \in Int
    <2> HIDE DEF m, k
    <2> QED
        BY <1>1, <1>2, <1>4, <1>6, <1>7
<1>9. x = y + c * m
    <2> DEFINE n == i.imm
               w == ToWord(n)
               t == Signed(a)
    <2> HIDE DEF m, k, a, n, w, t
    <2>1. (q * k - s) * m = (q * k) * m - s * m
        BY <1>1, <1>4, <1>7
    <2>2. a \in Int /\ n \in Int /\ w \in Int /\ n = (q * k) * m + w /\ t = a - s * m
        BY <1>2, <1>4, <1>6 DEF n, w, t
    <2> QED
        BY <1>1, <1>4, <1>7, <2>1, <2>2 DEF n, w, t
<1> HIDE DEF m, x, y, c
<1>10. x % m = y % m
    BY <1>1, <1>8, <1>9, SameRemainder
<1> QED
    BY <1>5, <1>10 DEF MemoryAddress, rs, m, x, y

\* From the fourth tick after a reset began, nothing in the data memory changes but what
\* the instruction at pc stores, and it is stored where the instruction says.
THEOREM OnlyTheProgramStores == Spec => StoresItsOwn
<1> DEFINE Own ==
        (Tick /\ ticks >= 3) =>
            \A a \in Address : dmem'[a] # dmem[a] =>
                /\ imem[pc].op = "sw"
                /\ a = MemoryAddress(imem[pc])
                /\ dmem'[a] = regs[imem[pc].rd]
<1>1. ASSUME Phases, ProcessorTypeOK PROVE Own
    <2> SUFFICES ASSUME Tick, ticks >= 3, NEW a \in Address, dmem'[a] # dmem[a]
                 PROVE  /\ imem[pc].op = "sw"
                        /\ a = MemoryAddress(imem[pc])
                        /\ dmem'[a] = regs[imem[pc].rd]
        OBVIOUS
    <2>1. /\ q_imem.op = "sw" /\ a = Line(q_imem) /\ dmem'[a] = regs[PortB(q_imem)]
          /\ ~Stored(q_imem)
        <3>1. dmem' = IF q_imem.op = "sw" THEN [dmem EXCEPT ![Line(q_imem)] = regs[PortB(q_imem)]] ELSE dmem
            BY DEF Tick, MemoryTick, Line
        <3> QED
            BY <1>1, <3>1 DEF ProcessorTypeOK, Stored
    <2>2. q_imem = imem[pc]
        BY <1>1, <2>1 DEF Phases, JustExecuted, Addressed, Loaded
    <2>3. q_imem \in Instruction /\ regs \in [Regs -> Word]
        BY <1>1 DEF Phases, ProcessorTypeOK
    <2>4. PortB(q_imem) = q_imem.rd
        BY <2>1 DEF PortB
    <2> QED
        BY <2>1, <2>2, <2>3, <2>4, LineIsAddress
<1>2. Phases /\ ProcessorTypeOK /\ [Next]_vars => [Own]_vars
    BY <1>1
<1> HIDE DEF Own
<1>3. Spec => [][Own]_vars
    BY <1>2, ProcessorInvariant, PTL DEF Spec
<1> QED
    BY <1>3 DEF Own, StoresItsOwn
-----------------------------------------------------------------------------
(* What the data path computes                                              *)

\* A word is its number up to a multiple of 2^W.
LEMMA WordAndNumber ==
    ASSUME NEW x \in Word
    PROVE  \E c \in Int : x = Signed(x) + c * 2^W
<1>1. x \in Int /\ Signed(x) \in Int /\ (Signed(x) = x \/ Signed(x) = x - 2^W)
    BY SignedRange, WordsAreNumbers
<1> DEFINE M == 2^W
           s == Signed(x)
<1>2. M \in Int
    BY Widths
<1> HIDE DEF M, s
<1>3. x = s + 0 * M \/ x = s + 1 * M
    BY <1>1, <1>2 DEF s, M
<1> QED
    BY <1>3, 0 \in Int, 1 \in Int, Zenon DEF s, M

\* Sums and differences of words are those of their numbers.
LEMMA SumsOfNumbers ==
    ASSUME NEW a \in Word, NEW b \in Word
    PROVE  /\ ToWord(a + b) = ToWord(Signed(a) + Signed(b))
           /\ ToWord(a - b) = ToWord(Signed(a) - Signed(b))
<1> DEFINE M == 2^W
           s == Signed(a)
           t == Signed(b)
<1>1. M \in Nat \ {0} /\ a \in Int /\ b \in Int /\ s \in Int /\ t \in Int
    BY Widths, SignedRange, WordsAreNumbers
<1>2. PICK c \in Int : a = s + c * M
    BY WordAndNumber
<1>3. PICK d \in Int : b = t + d * M
    BY WordAndNumber
<1> HIDE DEF M, s, t
<1>4. PICK e \in Int : e = c + d
    OBVIOUS
<1>5. PICK f \in Int : f = c - d
    OBVIOUS
<1>6. a + b \in Int /\ s + t \in Int /\ a + b = (s + t) + e * M
    BY <1>1, <1>2, <1>3, <1>4
<1>7. a - b \in Int /\ s - t \in Int /\ a - b = (s - t) + f * M
    BY <1>1, <1>2, <1>3, <1>5
<1>8. (a + b) % M = (s + t) % M
    BY <1>1, <1>6, SameRemainder
<1>9. (a - b) % M = (s - t) % M
    BY <1>1, <1>7, SameRemainder
<1> QED
    BY <1>8, <1>9 DEF M, s, t, ToWord

\* Additions and subtractions put out the word of what the program means, and raise
\* overflow when, and only when, that does not fit a word.
LEMMA ArithmeticIsRight ==
    ASSUME NEW i \in Instruction, regs \in [Regs -> Word], i.op \in {"add", "addi", "sub"}
    PROVE  /\ Result(i) = ToWord(Arithmetic(i))
           /\ V(i) <=> ~Fits(Arithmetic(i))
<1> DEFINE a == OperandA(i)
           b == OperandB(i)
           s == Signed(a)
           t == Signed(b)
           n == Arithmetic(i)
<1>1. a \in Word /\ b \in Word
    BY OperandsAreWords
<1>2. s \in Int /\ t \in Int /\ Fits(s) /\ Fits(t)
    BY <1>1, SignedRange
<1>3. a = regs[i.rs] /\ s = rs(i)
    BY DEF OperandA, PortA, rs
<1>4. i.op # "addi" => b = regs[i.rt] /\ t = rt(i)
    BY DEF OperandB, PortB, rt
<1>5. i.op = "addi" => t = i.imm
    <2>1. i.imm \in Int /\ Fits(i.imm)
        BY Widths DEF Instruction, Fits
    <2> QED
        BY <2>1, SignedOfWord DEF OperandB
<1>6. n = IF i.op = "sub" THEN s - t ELSE s + t
    BY <1>3, <1>4, <1>5 DEF Arithmetic
<1>7. Result(i) = ToWord(n)
    <2>1. Result(i) = IF i.op = "sub" THEN ToWord(a - b) ELSE ToWord(a + b)
        BY DEF Result, AluResult
    <2> HIDE DEF a, b, n
    <2> QED
        BY <1>1, <1>6, <2>1, SumsOfNumbers
<1>8. n \in Int /\ -(2^W) =< n /\ n < 2^W
    <2> HIDE DEF s, t, n
    <2> QED
        BY <1>2, <1>6, Widths DEF Fits
<1>9. V(i) <=> (n < 0) # (Signed(Result(i)) < 0)
    <2>1. V(i) <=> ((IF i.op = "sub" THEN s - t ELSE s + t) < 0) # (Signed(Result(i)) < 0)
        BY Zenon DEF V, Overflow
    <2> HIDE DEF s, t, n
    <2> QED
        BY <1>6, <2>1, Zenon
<1> HIDE DEF n
<1>10. (n < 0) # (Signed(ToWord(n)) < 0) <=> ~Fits(n)
    BY <1>8, CarryTells
<1> QED
    BY <1>7, <1>9, <1>10, Zenon DEF n

\* Conjunctions and disjunctions, bit by bit.
LEMMA LogicIsRight ==
    ASSUME NEW i \in Instruction, regs \in [Regs -> Word], i.op \in {"and", "or"}
    PROVE  IsValue(i, Result(i))
<1> DEFINE a == regs[i.rs]
           b == regs[i.rt]
           And == [k \in 0 .. W - 1 |-> Bit(a, k) * Bit(b, k)]
           Or == [k \in 0 .. W - 1 |-> IF Bit(a, k) + Bit(b, k) > 0 THEN 1 ELSE 0]
<1>1. a \in Int /\ b \in Int
    BY WordsAreNumbers DEF Instruction
<1>2. \A k \in 0 .. W - 1 : Bit(a, k) \in {0, 1} /\ Bit(b, k) \in {0, 1}
    BY <1>1, BitIsOne
<1>3. Result(i) = IF i.op = "and" THEN Bits(And) ELSE Bits(Or)
    BY DEF Result, AluResult, OperandA, OperandB, PortA, PortB
<1>4. And \in [0 .. W - 1 -> {0, 1}] /\ Or \in [0 .. W - 1 -> {0, 1}]
    <2>1. \A k \in 0 .. W - 1 : Bit(a, k) * Bit(b, k) \in {0, 1}
        <3> HIDE DEF a, b
        <3> QED
            BY <1>2
    <2> QED
        BY <2>1
<1>5. \A x : Ones(x) = {k \in 0 .. W - 1 : Bit(x, k) = 1}
    BY DEF Ones, Bit
<1>6. \A k \in 0 .. W - 1 : And[k] = 1 <=> Bit(a, k) = 1 /\ Bit(b, k) = 1
    <2> HIDE DEF a, b
    <2> QED
        BY <1>2
<1>7. \A k \in 0 .. W - 1 : Or[k] = 1 <=> Bit(a, k) = 1 \/ Bit(b, k) = 1
    <2> HIDE DEF a, b
    <2> QED
        BY <1>2
<1> HIDE DEF And, Or, a, b
<1>8. Ones(Bits(And)) = Ones(a) \cap Ones(b)
    <2>1. \A k \in 0 .. W - 1 : Bit(Bits(And), k) = And[k]
        BY <1>4, WordOfBits
    <2>2. \A k \in 0 .. W - 1 : Bit(Bits(And), k) = 1 <=> Bit(a, k) = 1 /\ Bit(b, k) = 1
        BY <1>6, <2>1
    <2> QED
        BY <1>5, <2>2
<1>9. Ones(Bits(Or)) = Ones(a) \cup Ones(b)
    <2>1. \A k \in 0 .. W - 1 : Bit(Bits(Or), k) = Or[k]
        BY <1>4, WordOfBits
    <2>2. \A k \in 0 .. W - 1 : Bit(Bits(Or), k) = 1 <=> Bit(a, k) = 1 \/ Bit(b, k) = 1
        BY <1>7, <2>1
    <2> QED
        BY <1>5, <2>2
<1> QED
    BY <1>3, <1>8, <1>9 DEF IsValue, a, b

\* The bits of a number times 2^s are moved up by s, and those below are zero.
LEMMA BitsMoveUp ==
    ASSUME NEW a \in Int, NEW s \in 0 .. W - 1, NEW k \in 0 .. W - 1
    PROVE  Bit(ToWord(a * 2^s), k) = IF k < s THEN 0 ELSE Bit(a, k - s)
<1> DEFINE M == 2^W
           p == 2^s
           z == a * p
           y == z % M
           q == z \div M
<1>1. M \in Nat \ {0} /\ p \in Nat \ {0} /\ s \in 0 .. W /\ W \in Nat
    BY Widths, Powers
<1>2. z \in Int
    BY <1>1
<1>3. y \in 0 .. M - 1 /\ q \in Int /\ z = q * M + y
    <2> HIDE DEF z
    <2> QED
        BY <1>1, <1>2, Division
<1>4. y = ToWord(a * 2^s)
    BY DEF ToWord
<1>5. CASE k < s
    <2> DEFINE h == 2^k
               u == 2^(s - (k + 1))
               v == 2^(W - (k + 1))
    <2>1. k + 1 \in 0 .. W /\ s - (k + 1) \in 0 .. W - (k + 1) /\ W - (k + 1) \in 0 .. W - (k + 1)
          /\ (k + 1) + (s - (k + 1)) = s /\ (k + 1) + (W - (k + 1)) = W
          /\ s - (k + 1) \in 0 .. W /\ W - (k + 1) \in 0 .. W /\ k \in 0 .. W
        BY <1>1, <1>5
    <2>2. h \in Nat \ {0} /\ u \in Nat /\ v \in Nat /\ 2^(k + 1) = 2 * h
        BY <2>1, Powers
    <2>3. p = (2 * h) * u /\ M = (2 * h) * v
        BY <2>1, <2>2, PowersAddUp
    <2> HIDE DEF h, u, v, M, p, q, y
    <2>4. PICK c \in Int : c = a * u - q * v
        BY <1>3, <2>2
    <2>5. y = (2 * c) * h
        <3>1. y = a * ((2 * h) * u) - q * ((2 * h) * v)
            BY <1>1, <1>3, <2>3
        <3>2. PICK d \in Int : d = a * u
            BY <2>2
        <3>3. PICK e \in Int : e = q * v
            BY <1>3, <2>2
        <3>4. a * ((2 * h) * u) = (2 * d) * h
            BY <2>2, <3>2
        <3>5. q * ((2 * h) * v) = (2 * e) * h
            BY <1>3, <2>2, <3>3
        <3>6. c = d - e
            BY <2>4, <3>2, <3>3
        <3>7. (2 * c) * h = (2 * d) * h - (2 * e) * h
            BY <2>2, <3>6
        <3> QED
            BY <3>1, <3>4, <3>5, <3>7, Zenon
    <2>6. PICK g \in Int : g = 2 * c
        OBVIOUS
    <2>7. y = g * h + 0 /\ 0 \in 0 .. h - 1
        BY <2>2, <2>5, <2>6
    <2>8. y \div h = g /\ g % 2 = 0
        <3>1. y \div h = g
            BY <2>2, <2>7, TheDivision, Zenon
        <3> QED
            BY <2>6, <3>1
    <2> QED
        BY <1>4, <1>5, <2>8 DEF Bit, h
<1>6. CASE ~(k < s)
    <2> DEFINE h == 2^(k - s)
               v == 2^(W - (k + 1))
               d == a \div h
               r == a % h
    <2>1. k - s \in 0 .. W - s /\ k - s \in 0 .. W /\ s + (k - s) = k /\ k \in 0 .. W
          /\ k + 1 \in 0 .. W /\ W - (k + 1) \in 0 .. W /\ W - (k + 1) \in 0 .. W - (k + 1)
          /\ (k + 1) + (W - (k + 1)) = W
        BY <1>1, <1>6
    <2>2. h \in Nat \ {0} /\ v \in Nat /\ 2^k = p * h /\ 2^(k + 1) = 2 * 2^k
        BY <2>1, Powers, PowersAddUp
    <2>3. M = (2 * (p * h)) * v
        <3>1. 2^((k + 1) + (W - (k + 1))) = 2^(k + 1) * v
            BY <2>1, PowersAddUp
        <3>2. M = 2^(k + 1) * v
            BY <2>1, <3>1
        <3> QED
            BY <2>2, <3>2
    <2>4. d \in Int /\ r \in 0 .. h - 1 /\ a = d * h + r
        <3> HIDE DEF h
        <3> QED
            BY <2>2, Division
    <2> DEFINE w == p * r
               e == p * h
    <2> HIDE DEF h, v, M, p, q, y, d, r
    <2>5. w \in 0 .. e - 1 /\ e \in Nat \ {0}
        <3>1. p * r \in Nat /\ p * h \in Nat \ {0}
            BY <1>1, <2>2, <2>4
        <3>2. p * (r + 1) =< p * h
            BY <1>1, <2>2, <2>4
        <3>3. p * (r + 1) = p * r + p
            BY <1>1, <2>2, <2>4
        <3> QED
            BY <1>1, <3>1, <3>2, <3>3
    <2>6. PICK f \in Int : f = q * v
        BY <1>3, <2>2
    <2>7. PICK c \in Int : c = d - 2 * f
        BY <2>4
    <2>8. y = c * e + w
        <3>1. y = (d * h + r) * p - q * ((2 * (p * h)) * v)
            BY <1>1, <1>3, <2>3, <2>4
        <3>2. (d * h + r) * p = d * (p * h) + p * r
            BY <1>1, <2>2, <2>4
        <3>3. q * ((2 * (p * h)) * v) = (2 * f) * (p * h)
            BY <1>1, <1>3, <2>2, <2>6
        <3>4. y = (d * e + w) - (2 * f) * e
            BY <3>1, <3>2, <3>3, Zenon DEF e, w
        <3> HIDE DEF e, w
        <3> QED
            BY <2>4, <2>5, <2>7, <3>4
    <2> HIDE DEF e, w
    <2>9. y \div e = c
        BY <2>5, <2>8, TheDivision, Zenon
    <2>10. c % 2 = d % 2
        BY <2>4, <2>7
    <2>11. Bit(y, k) = c % 2
        BY <2>2, <2>9 DEF Bit, e
    <2>12. Bit(a, k - s) = d % 2
        BY DEF Bit, d, h
    <2> QED
        BY <1>4, <1>6, <2>10, <2>11, <2>12
<1> QED
    BY <1>5, <1>6

\* A shift to the left moves the bits, and drops those that leave the word.
LEMMA LeftShiftIsRight ==
    ASSUME NEW i \in Instruction, regs \in [Regs -> Word], i.op = "sll"
    PROVE  IsValue(i, Result(i))
<1> DEFINE a == regs[i.rs]
           s == i.shamt
           y == ToWord(a * 2^s)
<1>1. a \in Int /\ s \in 0 .. W - 1 /\ W \in Nat
    BY WordsAreNumbers, ShiftPower, Widths DEF Instruction
<1>2. Result(i) = y
    BY DEF Result, AluResult, OperandA, PortA
<1>3. \A x : Ones(x) = {k \in 0 .. W - 1 : Bit(x, k) = 1}
    BY DEF Ones, Bit
<1>4. \A k \in 0 .. W - 1 : Bit(y, k) = IF k < s THEN 0 ELSE Bit(a, k - s)
    <2> HIDE DEF a, s
    <2> QED
        BY <1>1, BitsMoveUp
<1> HIDE DEF a, s, y
<1>5. Ones(y) = {k + s : k \in Ones(a)} \cap (0 .. W - 1)
    <2>1. ASSUME NEW k \in Ones(y) PROVE k \in {n + s : n \in Ones(a)} \cap (0 .. W - 1)
        <3>1. k \in 0 .. W - 1 /\ Bit(y, k) = 1
            BY <1>3
        <3>2. k >= s /\ Bit(a, k - s) = 1
            BY <1>1, <1>4, <3>1
        <3>3. k - s \in 0 .. W - 1 /\ k = (k - s) + s
            BY <1>1, <3>1, <3>2
        <3>4. k - s \in Ones(a)
            BY <1>3, <3>2, <3>3
        <3> QED
            BY <3>1, <3>3, <3>4
    <2>2. ASSUME NEW n \in Ones(a), n + s \in 0 .. W - 1 PROVE n + s \in Ones(y)
        <3>1. n \in 0 .. W - 1 /\ Bit(a, n) = 1
            BY <1>3
        <3>2. ~(n + s < s) /\ (n + s) - s = n
            BY <1>1, <3>1
        <3>3. Bit(y, n + s) = 1
            BY <1>4, <2>2, <3>1, <3>2
        <3> QED
            BY <1>3, <2>2, <3>3
    <2> QED
        BY <2>1, <2>2
<1> QED
    BY <1>2, <1>5 DEF IsValue, a, s

\* A shift to the right divides the number, towards minus infinity.
LEMMA RightShiftIsRight ==
    ASSUME NEW i \in Instruction, regs \in [Regs -> Word], i.op = "sra"
    PROVE  IsValue(i, Result(i))
<1> DEFINE x == rs(i)
           p == 2^i.shamt
           H == 2^(W - 1)
           d == x \div p
           r == x % p
<1>1. x \in Int /\ Fits(x)
    BY SignedRange DEF rs, Instruction
<1>2. p \in Nat \ {0} /\ H \in Nat \ {0}
    BY ShiftPower, Widths
<1>3. d \in Int /\ r \in 0 .. p - 1 /\ x = d * p + r
    <2> HIDE DEF x, p
    <2> QED
        BY <1>1, <1>2, Division
<1>4. Result(i) = ToWord(d)
    BY DEF Result, AluResult, OperandA, PortA, rs
<1>5. -H =< x /\ x < H
    BY <1>1 DEF Fits
<1> HIDE DEF x, p, H, d, r
<1>6. d < H
    <2> SUFFICES ASSUME d >= H PROVE FALSE
        BY <1>2, <1>3
    <2>1. d * p >= d
        BY <1>2, <1>3
    <2> QED
        BY <1>2, <1>3, <1>5, <2>1
<1>7. -H =< d
    <2> SUFFICES ASSUME d + 1 =< -H PROVE FALSE
        BY <1>2, <1>3
    <2>1. (d + 1) * p =< d + 1
        BY <1>2, <1>3
    <2>2. (d + 1) * p = d * p + p
        BY <1>2, <1>3
    <2> QED
        BY <1>2, <1>3, <1>5, <2>1, <2>2
<1>8. Signed(Result(i)) = d
    BY <1>3, <1>4, <1>6, <1>7, SignedOfWord DEF Fits, H
<1>9. x = Signed(Result(i)) * p + r
    BY <1>3, <1>8
<1> QED
    BY <1>3, <1>9 DEF IsValue, x, p

\* The link is the address of the next instruction.
LEMMA LinkIsRight ==
    ASSUME NEW i \in Instruction, pc \in Address, i.op = "jal"
    PROVE  IsValue(i, Extended(PCAddOne))
<1> DEFINE n == PCAddOne
           m == 2^A
           x == IF n < 2^(A - 1) THEN n ELSE n - 2^A
           c == IF n < 2^(A - 1) THEN 0 ELSE -1
<1>1. m \in Nat \ {0} /\ n \in 0 .. m - 1 /\ n = (pc + 1) % m
    <2>1. pc + 1 \in Int
        BY WordsAreNumbers
    <2>2. n \in Address
        BY <2>1, Cut DEF PCAddOne
    <2> QED
        BY <2>2, Widths DEF Address, PCAddOne
<1>2. c \in Int /\ x = n + c * m
    <2> HIDE DEF n
    <2> QED
        BY <1>1
<1>3. x \in Int
    <2> HIDE DEF n
    <2> QED
        BY <1>1
<1>4. Extended(n) = ToWord(x)
    BY DEF Extended
<1>5. ToWord(x) % m = x % m
    <2> HIDE DEF x
    <2> QED
        BY <1>3, WordRemainder
<1> HIDE DEF n, m, x, c
<1>6. x % m = n % m
    BY <1>1, <1>2, <1>3, n \in Int, SameRemainder
<1>7. n % m = n
    BY <1>1, n \in Int, WithinATurn
<1> QED
    BY <1>1, <1>4, <1>5, <1>6, <1>7 DEF IsValue, n, m
-----------------------------------------------------------------------------
(* Where the program goes                                                   *)

LEMMA NextPCIsRight ==
    ASSUME NEW i \in Instruction, regs \in [Regs -> Word], regs[0] = 0, pc \in Address
    PROVE  PCInput(i) = NextPC(i) % 2^A
<1> DEFINE m == 2^A
<1>1. m \in Nat \ {0} /\ pc \in Int /\ i.imm \in Int /\ pc + 1 \in Int
    BY Widths, WordsAreNumbers DEF Instruction
<1>2. PCAddOne \in Int /\ PCAddOne = (pc + 1) % m
    BY <1>1, Cut, WordsAreNumbers DEF PCAddOne
<1>3. regs[i.rd] \in Word /\ regs[i.rs] \in Word /\ regs[30] \in Word
    BY ProcessorAssumption DEF Instruction
<1>4. CASE i.op = "jr"
    <2> DEFINE x == regs[i.rd]
               s == Signed(x)
               k == 2^(W - A)
    <2>1. PCInput(i) = x % m
        BY <1>4 DEF PCInput, OperandB, PortB, Jumps, Branches
    <2>2. NextPC(i) = s
        BY <1>4 DEF NextPC, rd
    <2>3. x \in Int /\ s \in Int
        BY <1>3, WordsAreNumbers, SignedRange
    <2>4. PICK c \in Int : x = s + c * 2^W
        BY <1>3, WordAndNumber
    <2>5. 2^W = k * m /\ k \in Int
        BY Widths
    <2> HIDE DEF x, s, k, m
    <2>6. PICK e \in Int : e = c * k
        BY <2>5
    <2>7. x = s + e * m
        BY <1>1, <2>4, <2>5, <2>6
    <2>8. x % m = s % m
        BY <1>1, <2>3, <2>7, SameRemainder
    <2> QED
        BY <2>1, <2>2, <2>8 DEF m
<1>5. CASE i.op \in {"j", "jal"}
    BY <1>5 DEF PCInput, Jumps, Branches, NextPC
<1>6. CASE i.op = "bex"
    <2>1. Jumps(i) <=> regs[30] # 0
        BY <1>6 DEF Jumps, OperandA, OperandB, PortA, PortB
    <2>2. ~Branches(i)
        BY <1>6 DEF Branches
    <2> QED
        BY <1>6, <2>1, <2>2 DEF PCInput, NextPC, PCAddOne
<1>7. CASE i.op \in {"bne", "blt"}
    <2>1. OperandA(i) = regs[i.rs] /\ OperandB(i) = regs[i.rd]
        BY <1>7 DEF OperandA, OperandB, PortA, PortB
    <2>2. rd(i) # rs(i) <=> OperandA(i) # OperandB(i)
        BY <1>3, <2>1, SignedIsOne DEF rd, rs
    <2>3. Branches(i) <=> (i.op = "bne" /\ rd(i) # rs(i)) \/ (i.op = "blt" /\ rd(i) < rs(i))
        BY <1>7, <2>1, <2>2 DEF Branches, rd, rs
    <2>4. PCInput(i) = IF Branches(i) THEN (PCAddOne + i.imm) % m ELSE PCAddOne
        BY <1>7 DEF PCInput, Jumps
    <2>5. NextPC(i) = IF Branches(i) THEN (pc + 1) + i.imm ELSE pc + 1
        BY <1>7, <2>3 DEF NextPC
    <2> DEFINE n == pc + 1
               w == PCAddOne
               v == i.imm
               q == n \div m
    <2> HIDE DEF m
    <2>6. q \in Int /\ n = q * m + w
        <3> HIDE DEF n
        <3> QED
            BY <1>1, <1>2, Division DEF n
    <2> HIDE DEF n, w, v, q
    <2>7. n + v \in Int /\ w + v \in Int /\ n + v = (w + v) + q * m
        BY <1>1, <1>2, <2>6 DEF n, w, v
    <2>8. (n + v) % m = (w + v) % m
        BY <1>1, <2>6, <2>7, SameRemainder
    <2> QED
        BY <1>2, <2>4, <2>5, <2>8 DEF n, w, v, m
<1>8. CASE i.op \notin {"j", "jal", "jr", "bex", "bne", "blt"}
    BY <1>8 DEF PCInput, Jumps, Branches, NextPC, PCAddOne
<1> QED
    BY <1>4, <1>5, <1>6, <1>7, <1>8
-----------------------------------------------------------------------------
(* An edge executes an instruction                                          *)

\* The file takes one word, and none in register 0.
LEMMA OneRegister ==
    ASSUME NEW i, NEW loaded, Execute(i, loaded), WriteEnable(i), regs \in [Regs -> Word],
           WriteReg(i) \in Regs
    PROVE  /\ \A q \in Regs \ {WriteReg(i)} : regs'[q] = regs[q]
           /\ WriteReg(i) # 0 => regs'[WriteReg(i)] = WriteData(i, loaded)
    BY DEF Execute

\* Apart from sums and differences, what is written is the value of the instruction
\* wherever it goes.
LEMMA ValueIsRight ==
    ASSUME NEW i \in Instruction, regs \in [Regs -> Word], pc \in Address,
           i.op \in {"and", "or", "sll", "sra", "lw", "jal", "setx"}
    PROVE  IsValue(i, WriteData(i, dmem[MemoryAddress(i)]))
<1>1. CASE i.op \in {"and", "or"}
    <2>1. WriteData(i, dmem[MemoryAddress(i)]) = Result(i)
        BY <1>1 DEF WriteData
    <2> QED
        BY <1>1, <2>1, LogicIsRight
<1>2. CASE i.op = "sll"
    <2>1. WriteData(i, dmem[MemoryAddress(i)]) = Result(i)
        BY <1>2 DEF WriteData
    <2> QED
        BY <1>2, <2>1, LeftShiftIsRight
<1>3. CASE i.op = "sra"
    <2>1. WriteData(i, dmem[MemoryAddress(i)]) = Result(i)
        BY <1>3 DEF WriteData
    <2> QED
        BY <1>3, <2>1, RightShiftIsRight
<1>4. CASE i.op = "lw"
    BY <1>4 DEF WriteData, IsValue
<1>5. CASE i.op = "jal"
    <2>1. WriteData(i, dmem[MemoryAddress(i)]) = Extended(PCAddOne)
        BY <1>5 DEF WriteData
    <2> QED
        BY <1>5, <2>1, LinkIsRight
<1>6. CASE i.op = "setx"
    BY <1>6 DEF WriteData, IsValue
<1> QED
    BY <1>1, <1>2, <1>3, <1>4, <1>5, <1>6

\* The registers after an edge are those the instruction set asks for, except that a
\* misdirected result is in $30.
LEMMA RegistersAreRight ==
    ASSUME NEW i \in Instruction, NEW loaded, Execute(i, loaded),
           regs \in [Regs -> Word], pc \in Address,
           i.op = "lw" => loaded = dmem[MemoryAddress(i)]
    PROVE  LET Is(v) == IsValue(i, v)
           IN  IF Misdirected(i) THEN Writes(30, Is) ELSE Registers(i)
<1> DEFINE Is(v) == IsValue(i, v)
           r == WriteReg(i)
           data == WriteData(i, loaded)
<1>1. {0, 30, 31} \subseteq Regs /\ i.rd \in Regs
    BY ProcessorAssumption DEF Instruction
<1>2. r \in Regs
    BY <1>1 DEF WriteReg
<1>3. ASSUME WriteEnable(i)
      PROVE  (\A q \in Regs \ {r} : regs'[q] = regs[q]) /\ (r # 0 => regs'[r] = data)
    BY <1>2, <1>3, OneRegister
<1>4. CASE i.op \in {"sw", "j", "jr", "bne", "blt", "bex"}
    <2>1. ~WriteEnable(i)
        BY <1>4 DEF WriteEnable, ROps
    <2>2. regs' = regs
        BY <2>1 DEF Execute
    <2>3. ~Misdirected(i) /\ Registers(i)
        BY <1>4, <2>2 DEF Misdirected, Registers
    <2> QED
        BY <2>3
<1>5. CASE i.op \in {"add", "addi", "sub"}
    <2>1. WriteEnable(i) /\ ~Misdirected(i)
        BY <1>5 DEF WriteEnable, ROps, Misdirected
    <2>2. Result(i) = ToWord(Arithmetic(i)) /\ (V(i) <=> ~Fits(Arithmetic(i)))
        BY <1>5, ArithmeticIsRight
    <2>3. CASE V(i)
        <3>1. r = 30 /\ data = Status(i)
            BY <1>5, <2>3 DEF WriteReg, WriteData, Status
        <3>2. Writes(30, LAMBDA v : v = Status(i))
            BY <1>3, <2>1, <3>1 DEF Writes
        <3>3. Registers(i)
            BY <1>5, <2>2, <2>3, <3>2 DEF Registers
        <3> QED
            BY <2>1, <3>3
    <2>4. CASE ~V(i)
        <3>1. r = Target(i)
            BY <1>5, <2>4 DEF WriteReg, Target
        <3>2. data = ToWord(Arithmetic(i))
            BY <1>5, <2>2, <2>4 DEF WriteData
        <3>3. IsValue(i, data)
            BY <1>5, <3>2 DEF IsValue
        <3>4. Writes(Target(i), Is)
            BY <1>3, <2>1, <3>1, <3>3 DEF Writes
        <3>5. Registers(i)
            BY <1>5, <2>2, <2>4, <3>4 DEF Registers
        <3> QED
            BY <2>1, <3>5
    <2> QED
        BY <2>3, <2>4
<1>6. CASE i.op \in {"and", "or", "sll", "sra", "lw", "jal", "setx"}
    <2>1. WriteEnable(i)
        BY <1>6 DEF WriteEnable, ROps
    <2>2. data = WriteData(i, dmem[MemoryAddress(i)])
        BY <1>6 DEF WriteData
    <2>3. IsValue(i, data)
        BY <1>6, <2>2, ValueIsRight
    <2>4. CASE Misdirected(i)
        <3>1. r = 30
            BY <2>4 DEF Misdirected, WriteReg
        <3>2. Writes(30, Is)
            BY <1>3, <2>1, <2>3, <3>1 DEF Writes
        <3> QED
            BY <2>4, <3>2
    <2>5. CASE ~Misdirected(i)
        <3>1. r = Target(i)
            BY <1>6, <2>5 DEF Misdirected, WriteReg, Target
        <3>2. Writes(Target(i), Is)
            BY <1>3, <2>1, <2>3, <3>1 DEF Writes
        <3>3. Registers(i)
            BY <1>6, <3>2 DEF Registers
        <3> QED
            BY <2>5, <3>3
    <2> QED
        BY <2>4, <2>5
<1> QED
    BY <1>4, <1>5, <1>6 DEF Instruction, ROps, IOps, JOps

\* Every edge of the processor's clock executes the instruction at pc, whole: for any
\* widths, any program, any number of registers and resets at any tick, the edges
\* too early after a reset left out.
THEOREM InstructionsAreRight == Spec => ExecutesProgram
<1> DEFINE Whole ==
        Edge /\ Fetched =>
            LET i == imem[pc]
                Is(v) == IsValue(i, v)
            IN  /\ IF Misdirected(i) THEN Writes(30, Is) ELSE Registers(i)
                /\ pc' = NextPC(i) % 2^A
                /\ i.op = "sw" => dmem'[MemoryAddress(i)] = regs[i.rd]
<1>1. ASSUME Phases, ProcessorTypeOK PROVE Whole
    <2> SUFFICES ASSUME Edge, Fetched
                 PROVE  LET i == imem[pc]
                            Is(v) == IsValue(i, v)
                        IN  /\ IF Misdirected(i) THEN Writes(30, Is) ELSE Registers(i)
                            /\ pc' = NextPC(i) % 2^A
                            /\ i.op = "sw" => dmem'[MemoryAddress(i)] = regs[i.rd]
        OBVIOUS
    <2>1. PICK i : i = imem[pc]
        OBVIOUS
    <2>2. i \in Instruction /\ regs \in [Regs -> Word] /\ regs[0] = 0 /\ pc \in Address
          /\ dmem \in [Address -> Word] /\ ticks \in 0 .. 4
        BY <1>1, <2>1 DEF Phases, ProcessorTypeOK
    <2>3. Loaded /\ ~clk_two /\ ~JustExecuted
        BY DEF Edge, Clocked, Loaded, JustExecuted
    <2>4. ticks >= 1 /\ (i.op = "sw" => ticks >= 2) /\ (i.op = "lw" => ticks >= 3)
        BY <2>1, <2>2 DEF Fetched
    <2>5. q_imem' = i
        BY <1>1, <2>1, <2>3, <2>4 DEF Phases, Edge, Tick, FetchTick
    <2>6. Execute(i, q_dmem')
        BY <2>5 DEF Edge, Tick
    <2>7. ticks >= 2 => q_imem = i
        BY <1>1, <2>1, <2>3 DEF Phases
    <2>8. i.op = "lw" => q_dmem' = dmem[MemoryAddress(i)]
        <3> SUFFICES ASSUME i.op = "lw" PROVE q_dmem' = dmem[MemoryAddress(i)]
            OBVIOUS
        <3>1. dmem_address_reg = Line(i)
            BY <1>1, <2>2, <2>3, <2>4, <2>7 DEF Phases
        <3>2. Line(i) = MemoryAddress(i)
            BY <2>2, LineIsAddress
        <3> QED
            BY <3>1, <3>2 DEF Edge, Tick, MemoryTick
    <2>9. i.op = "sw" => dmem'[MemoryAddress(i)] = regs[i.rd]
        <3> SUFFICES ASSUME i.op = "sw" PROVE dmem'[MemoryAddress(i)] = regs[i.rd]
            OBVIOUS
        <3>1. q_imem = i /\ PortB(i) = i.rd /\ Line(i) = MemoryAddress(i)
            BY <2>2, <2>4, <2>7, LineIsAddress DEF PortB
        <3>2. dmem' = [dmem EXCEPT ![Line(i)] = regs[i.rd]]
            BY <3>1 DEF Edge, Tick, MemoryTick, Line
        <3>3. Line(i) \in Address
            BY <2>2, ResultIsWord, WordsAreNumbers, Cut DEF Line
        <3> QED
            BY <2>2, <3>1, <3>2, <3>3
    <2>10. pc' = NextPC(i) % 2^A
        BY <2>2, <2>6, NextPCIsRight DEF Execute
    <2>11. LET Is(v) == IsValue(i, v)
           IN  IF Misdirected(i) THEN Writes(30, Is) ELSE Registers(i)
        BY <2>2, <2>6, <2>8, RegistersAreRight
    <2> QED
        BY <2>1, <2>9, <2>10, <2>11
<1>2. Phases /\ ProcessorTypeOK /\ [Next]_vars => [Whole]_vars
    BY <1>1
<1> HIDE DEF Whole
<1>3. Spec => [][Whole]_vars
    BY <1>2, ProcessorInvariant, PTL DEF Spec
<1> QED
    BY <1>3 DEF Whole, ExecutesProgram
=============================================================================
