------------------------------ MODULE RsaKeys ------------------------------
(***************************************************************************)
(* Making an RSA key pair (rsa/r_keygen.c, rsa/prime.c) and using it       *)
(* (rsa/rsa.c) with the arithmetic of BigNum.  The random generator draws  *)
(* any bytes; lengths are scaled down with the digits.                     *)
(***************************************************************************)
EXTENDS BigNum

CONSTANTS MIN_RSA_MODULUS_BITS, MAX_RSA_MODULUS_BITS,
          Fermat4,   \* what 65537 is scaled to
          Asked      \* lengths that a user may ask for

ASSUME LengthsFit ==
    /\ Asked \subseteq Nat
    /\ MIN_RSA_MODULUS_BITS \in 5 .. MAX_RSA_MODULUS_BITS
    /\ Fermat4 \in 3 .. MAX_NN_DIGIT

VARIABLES bits,     \* protoKey->bits
          e,        \* the public exponent
          phase,    \* what is looked for: "p", "q"; "done", "failed"
          drawn,    \* TRUE from the drawing of bytes until they are a candidate
          a,        \* the candidate of GeneratePrime, or None
          p, q,     \* primes found
          key       \* both keys, or None

rsaVars == <<bits, e, phase, drawn, a, p, q, key>>

None == <<>>
nDigits == (bits + NN_DIGIT_BITS - 1) \div NN_DIGIT_BITS
pDigits == (nDigits + 1) \div 2
pBits == (bits + 1) \div 2
primeBits == IF phase = "p" THEN pBits ELSE bits - pBits

MAX_NN_DIGITS == (MAX_RSA_MODULUS_BITS + NN_DIGIT_BITS - 1) \div NN_DIGIT_BITS + 1
MAX_RSA_MODULUS_LEN == (MAX_RSA_MODULUS_BITS + ByteBits - 1) \div ByteBits
MAX_RSA_PRIME_LEN == ((MAX_RSA_MODULUS_BITS + 1) \div 2 + ByteBits - 1) \div ByteBits

One == NN_ASSIGN_DIGIT(1, pDigits)
Two == NN_ASSIGN_DIGIT(2, pDigits)
\* A prime is looked for between 3*2^(k-2) and 2^k-1.
Lowest == NN_Add(NN_Assign2Exp(primeBits - 1, pDigits), NN_Assign2Exp(primeBits - 2, pDigits)).a
Highest == NN_Add(NN_Assign2Exp(primeBits - 2, pDigits), NN_Sub(Lowest, One).a).a

-----------------------------------------------------------------------------
(* Tests of a candidate *)

SMALL_PRIMES == <<3, 5, 7, 11>>
SmallFactor(x) ==
    \E i \in 1 .. Len(SMALL_PRIMES) :
        /\ NN_Zero(NN_Mod(x, <<SMALL_PRIMES[i]>>))
        /\ \A j \in 1 .. i : x # <<SMALL_PRIMES[j]>>
FermatTest(x) == NN_ModExp(NN_ASSIGN_DIGIT(2, Len(x)), x, x) = NN_ASSIGN_DIGIT(2, Len(x))
ProbablePrime(x) == ~SmallFactor(x) /\ FermatTest(x)

\* gcd(x-1, e) = 1
RSAFilter(x) == NN_Gcd(NN_Sub(x, One).a, NN_ASSIGN_DIGIT(e, pDigits)) = One

\* The bytes drawn, brought between b and c, with x-1 a multiple of d.
Inside(x, b, c) == NN_Add(NN_Mod(x, NN_Add(NN_Sub(c, b).a, One).a), b).a
NextMultiple(x, d) == NN_Add(NN_Sub(x, NN_Mod(x, d)).a, One).a
NotBelow(x, b, d) == IF NN_Cmp(x, b) < 0 THEN NN_Add(x, d).a ELSE x
NotAbove(x, c, d) == IF NN_Cmp(x, c) > 0 THEN NN_Sub(x, d).a ELSE x
Adjust(x, b, c, d) == NotAbove(NotBelow(NextMultiple(Inside(x, b, c), d), b, d), c, d)

-----------------------------------------------------------------------------
(* The key pair of two primes *)

PrivateExponent(x, y) ==
    NN_ModInv(NN_ASSIGN_DIGIT(e, nDigits), Take(NN_Mult(NN_Sub(x, One).a, NN_Sub(y, One).a), nDigits))
KeyOf(x, y, d) ==
    [bits |-> bits, modulus |-> NN_Encode(MAX_RSA_MODULUS_LEN, Take(NN_Mult(x, y), nDigits)),
     publicExponent |-> NN_Encode(MAX_RSA_MODULUS_LEN, <<e>>),
     exponent |-> NN_Encode(MAX_RSA_MODULUS_LEN, d),
     prime |-> <<NN_Encode(MAX_RSA_PRIME_LEN, x), NN_Encode(MAX_RSA_PRIME_LEN, y)>>,
     primeExponent |-> <<NN_Encode(MAX_RSA_PRIME_LEN, NN_Mod(d, NN_Sub(x, One).a)),
                         NN_Encode(MAX_RSA_PRIME_LEN, NN_Mod(d, NN_Sub(y, One).a))>>,
     coefficient |-> NN_Encode(MAX_RSA_PRIME_LEN, NN_ModInv(y, x))]
\* The primes are sorted: the private operation reckons with p > q.
Sorted(p1, p2) == IF NN_Cmp(p1, p2) < 0 THEN <<p2, p1>> ELSE <<p1, p2>>
KeyOfSorted(pair) == KeyOf(pair[1], pair[2], PrivateExponent(pair[1], pair[2]))
MakeKey(p1, p2) == KeyOfSorted(Sorted(p1, p2))

RsaInit ==
    /\ bits \in Asked /\ e \in {3, Fermat4}
    /\ phase = IF bits \in MIN_RSA_MODULUS_BITS .. MAX_RSA_MODULUS_BITS THEN "p" ELSE "failed"
    /\ drawn = FALSE /\ a = None /\ p = None /\ q = None /\ key = None

\* R_GenerateBytes for as many bytes as a prime has, in GeneratePrime.
DrawBytes ==
    /\ phase \in {"p", "q"} /\ a = None
    /\ \E block \in [1 .. pDigits * DigitBytes -> 0 .. 2 ^ ByteBits - 1] :
            a' = NN_Decode(pDigits, block)
    /\ drawn' = TRUE
    /\ UNCHANGED <<bits, e, phase, p, q, key>>
StartSearch ==
    /\ drawn
    /\ a' = Adjust(a, Lowest, Highest, Two)
    /\ drawn' = FALSE
    /\ UNCHANGED <<bits, e, phase, p, q, key>>

Searching == a # None /\ ~drawn
\* The next odd number; GeneratePrime gives up behind the last.
NextCandidate ==
    /\ Searching /\ ~ProbablePrime(a)
    /\ LET over == NN_Cmp(a, NN_Sub(Highest, Two).a) > 0
       IN  /\ a' = IF over THEN None ELSE NN_Add(a, Two).a
           /\ phase' = IF over THEN "failed" ELSE phase
    /\ UNCHANGED <<bits, e, drawn, p, q, key>>
\* A prime p for which p-1 has a factor in common with e: once more from the start.
Refuse ==
    /\ Searching /\ ProbablePrime(a) /\ ~RSAFilter(a)
    /\ a' = None
    /\ UNCHANGED <<bits, e, phase, drawn, p, q, key>>
Accept ==
    /\ Searching /\ ProbablePrime(a) /\ RSAFilter(a)
    /\ a' = None
    /\ IF phase = "p" THEN p' = a /\ phase' = "q" /\ UNCHANGED <<q, key>>
       ELSE q' = a /\ phase' = "done" /\ key' = MakeKey(p, a) /\ UNCHANGED p
    /\ UNCHANGED <<bits, e, drawn>>

RsaNext == DrawBytes \/ StartSearch \/ NextCandidate \/ Refuse \/ Accept

-----------------------------------------------------------------------------
(* Use of the keys *)

BlockLen(k) == (k.bits + ByteBits - 1) \div ByteBits
Trim(x) == Take(x, NN_Digits(x))
Number(bytes) == NN_Decode(MAX_NN_DIGITS, bytes)

\* RE_DATA is None.
RSAPublicBlock(input, k) ==
    LET n == Trim(Number(k.modulus))
        m == Number(input)
    IN  IF NN_Cmp(Take(m, Len(n)), n) >= 0 THEN None
        ELSE NN_Encode(BlockLen(k), NN_ModExp(Take(m, Len(n)), Trim(Number(k.publicExponent)), n))

\* By the Chinese remainder theorem: ((mP - mQ mod p) * qInv mod p) * q + mQ.
PowerMod(c, exponent, m, digits) == NN_ModExp(NN_Mod(Trim(c), m), Take(exponent, digits), m)
DifferenceMod(mP, mQ, x) ==
    IF NN_Cmp(mP, mQ) >= 0 THEN NN_Sub(mP, mQ).a ELSE NN_Sub(x, NN_Sub(mQ, mP).a).a
Recombined(mP, mQ, coefficient, x, y, digits) ==
    NN_Add(Take(NN_Mult(NN_ModMult(DifferenceMod(mP, mQ, x), coefficient, x), y), digits),
           Take(mQ, digits)).a
WithPrimes(c, k, x, y, digits) ==
    Recombined(PowerMod(c, Number(k.primeExponent[1]), x, Len(x)),
               PowerMod(c, Number(k.primeExponent[2]), y, Len(x)),
               Take(Number(k.coefficient), Len(x)), x, y, digits)
RSAPrivateBlock(input, k) ==
    LET n == Trim(Number(k.modulus))
        x == Trim(Number(k.prime[1]))
    IN  IF NN_Cmp(Take(Number(input), Len(n)), n) >= 0 THEN None
        ELSE NN_Encode(BlockLen(k), WithPrimes(Number(input), k, x,
                                               Take(Number(k.prime[2]), Len(x)), Len(n)))

\* PKCS #1 blocks.  RSAPublicEncrypt fills with random bytes other than zero (fill, one
\* for each place), RSAPrivateEncrypt with bytes of ones; the block is then encrypted.
PKCSBlock(type, fill, data) ==
    LET room == Len(fill) IN <<0, type>> \o SubSeq(fill, 1, room - Len(data) - 3) \o <<0>> \o data
TooLong(data, modulusLen) == Len(data) + 11 > modulusLen

\* What RSAPrivateDecrypt (block type 2) and RSAPublicDecrypt (1) take out of a block.
\* The separator is the first byte that does not fill, or the last of the block.
PKCSData(block, type, fillers) ==
    LET modulusLen == Len(block)
        stops == {i \in 3 .. modulusLen - 1 : block[i] \notin fillers}
        i == IF stops = {} THEN modulusLen ELSE CHOOSE x \in stops : \A y \in stops : x <= y
    IN  IF \/ block[1] # 0 \/ block[2] # type
           \/ IF type = 1 THEN block[i] # 0 ELSE i = modulusLen
           \/ modulusLen - i + 11 > modulusLen
        THEN [ok |-> FALSE, data |-> <<>>]
        ELSE [ok |-> TRUE, data |-> SubSeq(block, i + 1, modulusLen)]
RSAPrivateDecrypt(block) == PKCSData(block, 2, 1 .. 2 ^ ByteBits - 1)
RSAPublicDecrypt(block, ones) == PKCSData(block, 1, {ones})

-----------------------------------------------------------------------------
(* Properties *)

Prime(v) == v > 1 /\ \A d \in 2 .. v - 1 : v % d # 0

\* A prime that is kept is one, lies where it was looked for, and has none of the public
\* exponent's factors next to it; their product has exactly the length asked for, on
\* which every length of a block and of a signature relies (r_keygen.c:40-116, prime.c:30-72).
KeysAreAsAsked ==
    /\ \A x \in {p, q} \ {None} : Prime(Value(x)) /\ (Value(x) - 1) % e # 0
    /\ key # None => NN_Bits(NN_Decode(MAX_NN_DIGITS, key.modulus)) = bits

\* A block is read as the data put into it, whatever the bytes that fill it up, and data that
\* leave no room for eight of them are refused; no data at all can be signed, but what was
\* encrypted is then refused (rsa.c:27-212).
PaddingReadsBack ==
    \A modulusLen \in 11 .. 14 : \A n \in 0 .. 4 : \A x \in 0 .. 2 ^ ByteBits - 1 :
        LET data == [i \in 1 .. n |-> x]
            ones == 2 ^ ByteBits - 1
            filled(type, y) == PKCSBlock(type, [i \in 1 .. modulusLen |-> y], data)
            read == [ok |-> TRUE, data |-> data]
        IN  ~TooLong(data, modulusLen) =>
                /\ RSAPublicDecrypt(filled(1, ones), ones) = read
                /\ n > 0 => \A y \in 1 .. ones : RSAPrivateDecrypt(filled(2, y)) = read

\* What one key encrypts the other decrypts, in both directions, through the remainder
\* theorem with p > q; for p # q, which the code takes for granted (rsa.c:221-327).  The
\* primes are as asked for, and blocks of any data are read back.
KeysInvert ==
    /\ KeysAreAsAsked
    /\ key # None => PaddingReadsBack
    /\ key # None /\ p # q =>
        \A v \in {0, 1, 2, Value(p), Value(q), Value(NN_Mult(p, q)) - 1} :
            LET m == NN_Encode(BlockLen(key), Digits(v, nDigits))
            IN  /\ RSAPrivateBlock(RSAPublicBlock(m, key), key) = m
                /\ RSAPublicBlock(RSAPrivateBlock(m, key), key) = m
=============================================================================
