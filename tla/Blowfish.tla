------------------------------ MODULE Blowfish ------------------------------
(***************************************************************************)
(* blowfish.c: the key schedule and both directions of the cipher, with    *)
(* words of four bytes of CipherBits bits and N rounds.  ORIG_P and ORIG_S *)
(* are any tables.                                                         *)
(***************************************************************************)
EXTENDS Integers, Sequences, SequencesExt, Bitwise

CONSTANTS N,            \* 16 rounds
          CipherBits,   \* 8
          ORIG_P, ORIG_S

Entries == 2 ^ CipherBits
WordLimit == 2 ^ (4 * CipherBits)
ASSUME TablesFit ==
    /\ N \in Nat /\ N % 2 = 0
    /\ ORIG_P \in [1 .. N + 2 -> 0 .. WordLimit - 1]
    /\ ORIG_S \in [1 .. 4 * Entries -> 0 .. WordLimit - 1]

\* Byte k of a word, the highest first.
ByteOf(x, k) == (x \div 2 ^ (CipherBits * (4 - k))) % Entries
F(s, x) ==
    LET at(k) == s[(k - 1) * Entries + ByteOf(x, k) + 1]
    IN  ((((at(1) + at(2)) % WordLimit) ^^ at(3)) + at(4)) % WordLimit

\* One turn of the loop, on words k and k + d of P.
Turn(ctx, k, d, half) ==
    LET left == half[1] ^^ ctx.P[k]
        right == half[2] ^^ (F(ctx.S, left) ^^ ctx.P[k + d])
    IN  <<left ^^ F(ctx.S, right), right>>

Blowfish_Encrypt(ctx, x) ==
    LET last == FoldLeft(LAMBDA half, i : Turn(ctx, 2 * i - 1, 1, half), x, [i \in 1 .. N \div 2 |-> i])
    IN  <<last[2] ^^ ctx.P[N + 2], last[1] ^^ ctx.P[N + 1]>>
Blowfish_Decrypt(ctx, x) ==
    LET last == FoldLeft(LAMBDA half, i : Turn(ctx, N + 4 - 2 * i, -1, half), x, [i \in 1 .. N \div 2 |-> i])
    IN  <<last[2] ^^ ctx.P[1], last[1] ^^ ctx.P[2]>>

\* Four bytes of the key, which is repeated, for each word of P.
KeyWord(key, i) ==
    FoldLeft(LAMBDA data, k : data * Entries + key[((4 * (i - 1) + k - 1) % Len(key)) + 1], 0, <<1, 2, 3, 4>>)

\* All of P and then S are replaced, two words at a time, by encryptions of the last two.
Blowfish_Init(key) ==
    LET start == [P |-> [i \in 1 .. N + 2 |-> ORIG_P[i] ^^ KeyWord(key, i)], S |-> ORIG_S]
        fill(s, t) ==
            LET data == Blowfish_Encrypt(s.ctx, s.data)
                k == 2 * t.i - 1
                put(table) == [i \in 1 .. Len(table) |-> IF i = k THEN data[1]
                                                         ELSE IF i = k + 1 THEN data[2] ELSE table[i]]
            IN  [data |-> data,
                 ctx |-> IF t.inP THEN [s.ctx EXCEPT !.P = put(s.ctx.P)]
                         ELSE [s.ctx EXCEPT !.S = put(s.ctx.S)]]
        places == [i \in 1 .. (N + 2) \div 2 |-> [inP |-> TRUE, i |-> i]]
                  \o [i \in 1 .. 2 * Entries |-> [inP |-> FALSE, i |-> i]]
    IN  FoldLeft(fill, [data |-> <<0, 0>>, ctx |-> start], places).ctx

\* What is encrypted under a key is decrypted under it, for any length of the key, although
\* the two directions run the words of P in opposite orders (blowfish.c:624-668, 670-705).
DecryptInverts(key) ==
    LET ctx == Blowfish_Init(key)
    IN  \A left, right \in 0 .. WordLimit - 1 :
            Blowfish_Decrypt(ctx, Blowfish_Encrypt(ctx, <<left, right>>)) = <<left, right>>
=============================================================================
