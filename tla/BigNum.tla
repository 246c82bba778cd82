------------------------------- MODULE BigNum -------------------------------
(***************************************************************************)
(* Multiple-precision arithmetic as rsa/nn.c does it, on numbers that are  *)
(* sequences of digits, the least significant first.  A digit has          *)
(* 2 * HalfBits bits (32 in the program), so that everything that wraps,   *)
(* carries or borrows there does so here.  Where nn.c has two versions,    *)
(* this is the one that is not for Windows, without 64-bit arithmetic.     *)
(***************************************************************************)
EXTENDS Integers, Sequences, SequencesExt

CONSTANTS HalfBits,  \* NN_HALF_DIGIT_BITS
          ByteBits   \* bits of a byte in the strings of NN_Decode and NN_Encode

ASSUME WidthsFit ==
    /\ HalfBits \in Nat \ {0}
    /\ ByteBits \in Nat \ {0}
    /\ 2 * HalfBits % ByteBits = 0

Half == 2 ^ HalfBits
NN_DIGIT_BITS == 2 * HalfBits
Base == 2 ^ NN_DIGIT_BITS
MAX_NN_DIGIT == Base - 1

Wrap(x) == x % Base
LOW_HALF(x) == x % Half
HIGH_HALF(x) == x \div Half
TO_HIGH_HALF(x) == Wrap(x * Half)

\* 1 if the C condition holds.
Bit(condition) == IF condition THEN 1 ELSE 0

\* The loops of nn.c: body(s, i) for i = 1, 2, ..., n, and the same downwards.
Up(n, start, body(_, _)) ==
    LET s[i \in 0 .. n] == IF i = 0 THEN start ELSE body(s[i - 1], i) IN s[n]
Down(n, start, body(_, _)) ==
    LET s[i \in 1 .. n + 1] == IF i > n THEN start ELSE body(s[i + 1], i) IN s[1]

\* What a digit string stands for, and a number in that many digits.
Value(a) == Down(Len(a), 0, LAMBDA v, i : v * Base + a[i])
Digits(v, digits) == [i \in 1 .. digits |-> (v \div Base ^ (i - 1)) % Base]

NN_AssignZero(digits) == [i \in 1 .. digits |-> 0]
NN_ASSIGN_DIGIT(b, digits) == [i \in 1 .. digits |-> IF i = 1 THEN b ELSE 0]
NN_Assign2Exp(b, digits) ==
    [i \in 1 .. digits |-> IF b \div NN_DIGIT_BITS = i - 1 THEN 2 ^ (b % NN_DIGIT_BITS) ELSE 0]

\* The first n digits of a, with zeros where it has fewer.
Take(a, n) == [i \in 1 .. n |-> IF i <= Len(a) THEN a[i] ELSE 0]

NN_Digits(a) == Down(Len(a), 0, LAMBDA n, i : IF n = 0 /\ a[i] # 0 THEN i ELSE n)
NN_Zero(a) == \A i \in 1 .. Len(a) : a[i] = 0
NN_Cmp(a, b) ==
    Down(Len(a), 0, LAMBDA sign, i : IF sign # 0 \/ a[i] = b[i] THEN sign
                                     ELSE IF a[i] > b[i] THEN 1 ELSE -1)

NN_DigitBits(a) == Up(NN_DIGIT_BITS, 0, LAMBDA n, i : IF a \div 2 ^ (i - 1) > 0 THEN i ELSE n)
NN_Bits(a) ==
    IF NN_Digits(a) = 0 THEN 0
    ELSE (NN_Digits(a) - 1) * NN_DIGIT_BITS + NN_DigitBits(a[NN_Digits(a)])

\* Byte strings are ordered from most to least significant.
DigitBytes == NN_DIGIT_BITS \div ByteBits
NN_Decode(digits, b) ==
    LET byte(k) == IF k < Len(b) THEN b[Len(b) - k] ELSE 0
    IN  [i \in 1 .. digits |->
            Down(DigitBytes, 0, LAMBDA t, u : t * 2 ^ ByteBits + byte((i - 1) * DigitBytes + u - 1))]
NN_Encode(len, b) ==
    [j \in 1 .. len |->
        LET k == len - j
        IN  (Take(b, k \div DigitBytes + 1)[k \div DigitBytes + 1]
                \div 2 ^ (ByteBits * (k % DigitBytes))) % 2 ^ ByteBits]

-----------------------------------------------------------------------------
(* Addition and subtraction *)

NN_Add(b, c) ==
    Up(Len(b), [a |-> <<>>, carry |-> 0], LAMBDA s, i :
        LET ai == Wrap(b[i] + s.carry)
            sum == Wrap(ai + c[i])
        IN  IF ai < s.carry THEN [s EXCEPT !.a = Append(@, c[i])]
            ELSE [a |-> Append(s.a, sum), carry |-> Bit(sum < c[i])])

NN_Sub(b, c) ==
    Up(Len(b), [a |-> <<>>, borrow |-> 0], LAMBDA s, i :
        LET ai == Wrap(b[i] - s.borrow)
            rest == Wrap(ai - c[i])
        IN  IF ai > MAX_NN_DIGIT - s.borrow THEN [s EXCEPT !.a = Append(@, MAX_NN_DIGIT - c[i])]
            ELSE [a |-> Append(s.a, rest), borrow |-> Bit(rest > MAX_NN_DIGIT - c[i])])

-----------------------------------------------------------------------------
(* Multiplication and shifts *)

\* Mutant of NN_DigitMult: the carry out of the middle products is forgotten.
DigitMultNoCarry(b, c) ==
    LET t == Wrap(LOW_HALF(b) * HIGH_HALF(c) + HIGH_HALF(b) * LOW_HALF(c))
        low == Wrap(LOW_HALF(b) * LOW_HALF(c) + TO_HIGH_HALF(t))
    IN  <<low, HIGH_HALF(b) * HIGH_HALF(c) + Bit(low < TO_HIGH_HALF(t)) + HIGH_HALF(t)>>

\* The product of two digits, low digit and high digit, from four products of halves.
NN_DigitMult(b, c) ==
    LET u == HIGH_HALF(b) * LOW_HALF(c)
        t == Wrap(LOW_HALF(b) * HIGH_HALF(c) + u)
        low == Wrap(LOW_HALF(b) * LOW_HALF(c) + TO_HIGH_HALF(t))
    IN  << low,
           Wrap(HIGH_HALF(b) * HIGH_HALF(c) + Bit(t < u) * TO_HIGH_HALF(1)
                + Bit(low < TO_HIGH_HALF(t)) + HIGH_HALF(t)) >>

\* b + c*d and b - c*d for a digit c, over the digits of d.
NN_AddDigitMult(b, c, d) ==
    IF c = 0 THEN [a |-> b, carry |-> 0]
    ELSE Up(Len(d), [a |-> <<>>, carry |-> 0], LAMBDA s, i :
            LET t == NN_DigitMult(c, d[i])
                first == Wrap(b[i] + s.carry)
                sum == Wrap(first + t[1])
            IN  [a |-> Append(s.a, sum),
                 carry |-> Wrap(Bit(first < s.carry) + Bit(sum < t[1]) + t[2])])
NN_SubDigitMult(b, c, d) ==
    IF c = 0 THEN [a |-> b, borrow |-> 0]
    ELSE Up(Len(d), [a |-> <<>>, borrow |-> 0], LAMBDA s, i :
            LET t == NN_DigitMult(c, d[i])
                first == Wrap(b[i] - s.borrow)
                rest == Wrap(first - t[1])
            IN  [a |-> Append(s.a, rest),
                 borrow |-> Wrap(Bit(first > MAX_NN_DIGIT - s.borrow)
                                 + Bit(rest > MAX_NN_DIGIT - t[1]) + t[2])])

\* The digits of t from the i-th on, as many as w has, replaced by w.
Splice(t, i, w) == [k \in 1 .. Len(t) |-> IF k \in i .. i + Len(w) - 1 THEN w[k - i + 1] ELSE t[k]]

NN_Mult(b, c) ==
    LET cDigits == NN_Digits(c)
    IN  Up(NN_Digits(b), NN_AssignZero(2 * Len(b)), LAMBDA t, i :
            LET r == NN_AddDigitMult(SubSeq(t, i, i + cDigits - 1), b[i], SubSeq(c, 1, cDigits))
            IN  Splice(t, i, Append(r.a, Wrap(t[i + cDigits] + r.carry))))

NN_LShift(b, c) ==
    Up(Len(b), [a |-> <<>>, carry |-> 0], LAMBDA s, i :
        [a |-> Append(s.a, Wrap(b[i] * 2 ^ c) + s.carry),
         carry |-> IF c = 0 THEN 0 ELSE b[i] \div 2 ^ (NN_DIGIT_BITS - c)])
NN_RShift(b, c) ==
    Down(Len(b), [a |-> <<>>, carry |-> 0], LAMBDA s, i :
        [a |-> <<b[i] \div 2 ^ c + s.carry>> \o s.a,
         carry |-> IF c = 0 THEN 0 ELSE Wrap(b[i] * 2 ^ (NN_DIGIT_BITS - c))])

-----------------------------------------------------------------------------
(* Division *)

\* t - x for a two-digit t and a digit x, as the code borrows.
Less(t, x) ==
    LET low == Wrap(t[1] - x)
    IN  <<low, Wrap(t[2] - Bit(low > MAX_NN_DIGIT - x))>>

\* t less g*c, for half a digit g, where c stands half a digit higher or where it stands.
Fewer(t, x) == <<t[1], Wrap(t[2] - x)>>
LessHigh(t, g, c) ==
    Fewer(Less(t, TO_HIGH_HALF(g * LOW_HALF(c))), HIGH_HALF(g * LOW_HALF(c)) + g * HIGH_HALF(c))
LessLow(t, g, c) ==
    Fewer(Less(Less(t, g * LOW_HALF(c)), TO_HIGH_HALF(g * HIGH_HALF(c))), HIGH_HALF(g * HIGH_HALF(c)))

\* "Underestimate" either half of the quotient of t by c.
HighGuess(t, c) ==
    IF HIGH_HALF(c) = Half - 1 THEN HIGH_HALF(t[2]) ELSE (t[2] \div (HIGH_HALF(c) + 1)) % Half
LowGuess(t, c) ==
    IF HIGH_HALF(c) = Half - 1 THEN LOW_HALF(t[2])
    ELSE (Wrap(TO_HIGH_HALF(t[2]) + HIGH_HALF(t[1])) \div (HIGH_HALF(c) + 1)) % Half

\* "Correct estimate": the loops that subtract c, or c's halves, and count.
RECURSIVE CorrectHigh(_, _, _)
CorrectHigh(t, aHigh, c) ==
    IF t[2] > HIGH_HALF(c) \/ (t[2] = HIGH_HALF(c) /\ t[1] >= TO_HIGH_HALF(LOW_HALF(c)))
    THEN CorrectHigh(LessHigh(t, 1, c), (aHigh + 1) % Half, c)
    ELSE [t |-> t, a |-> aHigh]
RECURSIVE CorrectLow(_, _, _)
CorrectLow(t, aLow, c) ==
    IF t[2] > 0 \/ t[1] >= c THEN CorrectLow(Less(t, c), (aLow + 1) % Half, c) ELSE aLow

\* The quotient of two digits b by a digit c, where b[2] < c and c >= Half.
LowHalf(t, c) == CorrectLow(LessLow(t, LowGuess(t, c), c), LowGuess(t, c), c)
BothHalves(high, c) == TO_HIGH_HALF(high.a) + LowHalf(high.t, c)
NN_DigitDiv(b, c) ==
    BothHalves(CorrectHigh(LessHigh(b, HighGuess(b, c), c), HighGuess(b, c), c), c)

\* What is left of cc when r was subtracted from its digits i, i + 1, ...
Borrowed(cc, i, r) == Splice(cc, i, Append(r.a, Wrap(cc[i + Len(r.a)] - r.borrow)))
Window(cc, i, dd) == SubSeq(cc, i, i + Len(dd) - 1)

\* One digit of the quotient too low is corrected by subtracting d once more.
RECURSIVE CorrectDigit(_, _, _, _)
CorrectDigit(cc, ai, i, dd) ==
    IF cc[i + Len(dd)] # 0 \/ NN_Cmp(Window(cc, i, dd), dd) >= 0
    THEN CorrectDigit(Borrowed(cc, i, NN_Sub(Window(cc, i, dd), dd)), Wrap(ai + 1), i, dd)
    ELSE [cc |-> cc, a |-> ai]

\* Digit i of the quotient is estimated from the highest digit of dd.
DigitGuess(cc, i, dd) ==
    LET n == Len(dd)
    IN  IF dd[n] = MAX_NN_DIGIT THEN cc[i + n] ELSE NN_DigitDiv(<<cc[i + n - 1], cc[i + n]>>, dd[n] + 1)
WithGuess(cc, i, dd, guess) ==
    CorrectDigit(Borrowed(cc, i, NN_SubDigitMult(Window(cc, i, dd), guess, dd)), guess, i, dd)
AddDigit(quotient, x) == [cc |-> x.cc, a |-> <<x.a>> \o quotient]
DivideShifted(cc, dd, turns, zeros) ==
    Down(turns, [cc |-> cc, a |-> zeros], LAMBDA s, i :
        AddDigit(s.a, WithGuess(s.cc, i, dd, DigitGuess(s.cc, i, dd))))

\* Quotient and remainder of c by d # 0, shifted until the highest bit of d is set.
DivShift(d) == NN_DIGIT_BITS - NN_DigitBits(d[NN_Digits(d)])
WithCarry(r) == Append(r.a, r.carry)
Unshift(x, n, shift, dLen) == [q |-> x.a, r |-> Take(NN_RShift(SubSeq(x.cc, 1, n), shift).a, dLen)]
NN_Div(c, d) ==
    LET n == NN_Digits(d)
        turns == IF Len(c) >= n THEN Len(c) - n + 1 ELSE 0
    IN  Unshift(DivideShifted(Take(WithCarry(NN_LShift(c, DivShift(d))), n + turns),
                              NN_LShift(SubSeq(d, 1, n), DivShift(d)).a,
                              turns, NN_AssignZero(Len(c) - turns)),
                n, DivShift(d), Len(d))

NN_Mod(b, c) == NN_Div(b, c).r
NN_ModMult(b, c, d) == NN_Mod(NN_Mult(b, c), d)

-----------------------------------------------------------------------------
(* Number theory *)

\* b^c mod d, two bits of c at a time; leading pairs of zero bits are passed over.
Square(t, d) == NN_ModMult(t, t, d)
PowerOf(b, n, d) == Up(n - 1, b, LAMBDA power, i : NN_ModMult(power, b, d))
BitPair(c, k) == (c[(k - 1) \div HalfBits + 1] \div 4 ^ ((k - 1) % HalfBits)) % 4
TimesPower(t, b, n, d) == IF n = 0 THEN t ELSE NN_ModMult(t, PowerOf(b, n, d), d)
NN_ModExp(b, c, d) ==
    Down((NN_Bits(c) + 1) \div 2, NN_ASSIGN_DIGIT(1, Len(d)), LAMBDA t, k :
        TimesPower(Square(Square(t, d), d), b, BitPair(c, k), d))

\* Euclid's algorithm, extended with signs kept apart.
RECURSIVE Euclid(_, _, _, _, _, _), EuclidTurn(_, _, _, _, _, _)
Euclid(u1, v1, u3, v3, sign, c) ==
    IF NN_Zero(v3) THEN IF sign < 0 THEN NN_Sub(c, u1).a ELSE u1
    ELSE EuclidTurn(u1, v1, v3, NN_Div(u3, v3), sign, c)
EuclidTurn(u1, v1, v3, x, sign, c) ==
    Euclid(v1, NN_Add(u1, Take(NN_Mult(x.q, v1), Len(c))).a, v3, x.r, -sign, c)
NN_ModInv(b, c) == Euclid(NN_ASSIGN_DIGIT(1, Len(c)), NN_AssignZero(Len(c)), b, c, 1, c)

RECURSIVE NN_Gcd(_, _)
NN_Gcd(u, v) == IF NN_Zero(v) THEN u ELSE NN_Gcd(v, NN_Mod(u, v))

-----------------------------------------------------------------------------
(* What the operations promise, for one-digit shifts and any operands of one length *)

ExactOn(x, y) ==
    LET n == Len(x)
        vx == Value(x)
        vy == Value(y)
        sum == NN_Add(x, y)
        rest == NN_Sub(x, y)
        parts == NN_Div(NN_Mult(x, x), y)
        inverse == NN_ModInv(x, y)
    IN  /\ Value(sum.a) + sum.carry * Base ^ n = vx + vy
        /\ Value(rest.a) - rest.borrow * Base ^ n = vx - vy
        /\ Value(NN_Mult(x, y)) = vx * vy
        /\ vy > 0 => /\ Value(parts.q) = (vx * vx) \div vy
                     /\ Value(parts.r) = (vx * vx) % vy
        /\ LET g == Value(NN_Gcd(x, y))
           IN  /\ \/ g = 0 /\ vx = 0 /\ vy = 0
                  \/ g > 0 /\ vx % g = 0 /\ vy % g = 0
               /\ g = 1 /\ vy > 1 => (Value(inverse) * vx) % vy = 1
        /\ NN_Decode(n, NN_Encode(n * DigitBytes, x)) = x
=============================================================================
