------------------------------- MODULE Digest -------------------------------
(***************************************************************************)
(* What the digests and the random generator do with the bytes they are    *)
(* given in pieces: MD5 (rsa/md5c.c), SHA (sha.cpp) and the generator over *)
(* MD5 (rsa/r_random.c).  The compression functions are ideal: a state is  *)
(* the list of blocks it has taken in.  The k-th byte of a message is the  *)
(* number k, so that a byte lost, repeated or moved shows.                 *)
(***************************************************************************)
EXTENDS Integers, Sequences, SequencesExt

CONSTANTS BlockSize,   \* 64 bytes
          LenSize,     \* 8 bytes at the end of the last block hold the length
          WordSize,    \* bytes of an element of W in sha.h that are kept when it is shifted
          ShaWord,     \* 4 bytes of the block go to one element of W
          MsgBound,    \* bytes fed at most
          ServeBound   \* random bytes asked for at most

ASSUME SizesFit ==
    /\ LenSize \in 1 .. BlockSize - 1
    /\ ShaWord \in 1 .. BlockSize /\ BlockSize % ShaWord = 0
    /\ WordSize \in Nat /\ WordSize >= ShaWord

VARIABLES fed,     \* how many bytes of the message were fed to both digests
          md5,     \* MD5_CTX: count (of bytes), state, buffer
          sha,     \* SHAify: lenW, W, H, size
          sums,    \* the digests given out, or None
          rnd,     \* R_RANDOM_STRUCT: state, output, outputAvailable
          served   \* all bytes R_GenerateBytes has given out

digestVars == <<fed, md5, sha, sums, rnd, served>>

NoSum == <<>>
Message(from, to) == [i \in 1 .. to - from |-> from + i]
Pad(i) == <<"pad", i>>
PADDING == [i \in 1 .. BlockSize |-> Pad(i)]
LengthBytes(n) == [i \in 1 .. LenSize |-> <<"length", n, i>>]
SmallerOf(x, y) == IF x < y THEN x ELSE y

-----------------------------------------------------------------------------
(* MD5 *)

MD5Init == [count |-> 0, state |-> <<>>, buffer |-> [i \in 1 .. BlockSize |-> 0]]

\* memcpy to the buffer from index on.
Buffered(buffer, index, data) ==
    [i \in 1 .. BlockSize |-> IF i - index \in 1 .. Len(data) THEN data[i - index] ELSE buffer[i]]

MD5Update(context, input) ==
    LET index == context.count % BlockSize
        partLen == BlockSize - index
        whole == (Len(input) - partLen) \div BlockSize
        rest == partLen + whole * BlockSize
        first == Buffered(context.buffer, index, SubSeq(input, 1, SmallerOf(partLen, Len(input))))
        count == context.count + Len(input)
    IN  IF Len(input) >= partLen
        THEN [count |-> count,
              state |-> Append(context.state, first) \o
                        [k \in 1 .. whole |-> SubSeq(input, partLen + (k - 1) * BlockSize + 1,
                                                     partLen + k * BlockSize)],
              buffer |-> Buffered(first, 0, SubSeq(input, rest + 1, Len(input)))]
        ELSE [context EXCEPT !.count = count, !.buffer = first]

MD5Final(context) ==
    LET index == context.count % BlockSize
        room == BlockSize - LenSize
        padLen == IF index < room THEN room - index ELSE BlockSize + room - index
        padded == MD5Update(context, SubSeq(PADDING, 1, padLen))
    IN  MD5Update(padded, LengthBytes(context.count)).state

-----------------------------------------------------------------------------
(* SHA *)

\* reset() clears everything.
ShaReset == [lenW |-> 0, W |-> [k \in 1 .. BlockSize \div ShaWord |-> <<>>], H |-> <<>>, size |-> 0]

\* W[lenW / 4] <<= 8; W[lenW / 4] |= data: of what is shifted in, the last WordSize bytes stay,
\* those of earlier blocks among them where an element is wider than four bytes.
ShaAddByte(s, byte) ==
    LET k == s.lenW \div ShaWord + 1
        longer == Append(s.W[k], byte)
        W == [s.W EXCEPT ![k] = SubSeq(longer, IF Len(longer) > WordSize THEN 2 ELSE 1, Len(longer))]
        full == s.lenW + 1 = BlockSize
    IN  [lenW |-> IF full THEN 0 ELSE s.lenW + 1, W |-> W, size |-> s.size + 1,
         H |-> IF full THEN Append(s.H, FoldLeft(LAMBDA x, y : x \o y, <<>>, W)) ELSE s.H]
ShaAdd(s, data) == FoldLeft(ShaAddByte, s, data)
\* The length is that of the message: it is taken before the padding is added.
ShaFinal(s) ==
    LET first == ShaAddByte(s, Pad(1))
        room == BlockSize - LenSize
        zeros == (BlockSize + room - first.lenW) % BlockSize
    IN  ShaAdd(first, SubSeq(PADDING, 2, zeros + 1) \o LengthBytes(s.size)).H

-----------------------------------------------------------------------------
(* The random generator *)

\* MD5 of the state; the state is the number of times it was mixed and what was counted since.
Output(state) == [i \in 1 .. BlockSize |-> <<state, i>>]

\* What is left of the last output is served first; the state is counted up with each output.
R_GenerateBytes(r, n) ==
    LET blocks == IF n > r.available THEN (n - r.available + BlockSize - 1) \div BlockSize ELSE 0
        seeds == [k \in 1 .. blocks |-> <<r.state[1], r.state[2] + k - 1>>]
        old == SubSeq(r.output, BlockSize - r.available + 1, BlockSize)
        all == FoldLeft(LAMBDA bytes, seed : bytes \o Output(seed), old, seeds)
    IN  [block |-> SubSeq(all, 1, n),
         r |-> [state |-> <<r.state[1], r.state[2] + blocks>>, available |-> Len(all) - n,
                output |-> IF blocks = 0 THEN r.output ELSE Output(seeds[blocks])]]
\* Mixing in a block of values changes the state and leaves the output that is there.
R_RandomUpdate(r) == [r EXCEPT !.state = <<@[1] + 1, 0>>]
R_RandomInit == [state |-> <<0, 0>>, output |-> [i \in 1 .. BlockSize |-> <<>>], available |-> 0]

-----------------------------------------------------------------------------
DigestInit ==
    /\ fed = 0 /\ md5 = MD5Init /\ sha = ShaReset /\ sums = NoSum
    /\ rnd = R_RandomUpdate(R_RandomInit) /\ served = <<>>

Update ==
    /\ sums = NoSum
    /\ \E n \in 0 .. MsgBound - fed :
        /\ fed' = fed + n
        /\ md5' = MD5Update(md5, Message(fed, fed + n))
        /\ sha' = ShaAdd(sha, Message(fed, fed + n))
    /\ UNCHANGED <<sums, rnd, served>>
\* Both contexts are cleared when a digest is taken; the next message starts anew.
Final ==
    /\ sums' = IF sums = NoSum THEN <<MD5Final(md5), ShaFinal(sha)>> ELSE NoSum
    /\ fed' = IF sums = NoSum THEN fed ELSE 0
    /\ md5' = MD5Init /\ sha' = ShaReset
    /\ UNCHANGED <<rnd, served>>
Generate ==
    /\ fed = 0 /\ sums = NoSum
    /\ \E n \in 0 .. ServeBound - Len(served) :
        LET g == R_GenerateBytes(rnd, n) IN rnd' = g.r /\ served' = served \o g.block
    /\ UNCHANGED <<fed, md5, sha, sums>>
Stir ==
    /\ fed = 0 /\ sums = NoSum /\ rnd.state[1] < 3
    /\ rnd' = R_RandomUpdate(rnd)
    /\ UNCHANGED <<fed, md5, sha, sums, served>>

DigestNext == Update \/ Final \/ Generate \/ Stir

-----------------------------------------------------------------------------
(* Properties *)

\* The padded message, cut into blocks.
Blocks(n) ==
    LET tail == (2 * BlockSize - LenSize - (n % BlockSize) - 1) % BlockSize
        all == Message(0, n) \o SubSeq(PADDING, 1, tail + 1) \o LengthBytes(n)
    IN  [k \in 1 .. Len(all) \div BlockSize |-> SubSeq(all, (k - 1) * BlockSize + 1, k * BlockSize)]

\* A digest depends on the message alone, not on how it was cut into calls: on it rest the
\* digests of messages, of keys and of the pieces of a file (md5c.c:114-174, sha.cpp:47-122).
DigestOfTheMessage == sums # NoSum => sums[1] = Blocks(fed) /\ sums[2] = Blocks(fed)

\* No random byte is handed out twice, however the requests fall on the outputs and
\* wherever the state is mixed between them (r_random.c:75-111).
NoByteTwice == IsInjective(served)
=============================================================================
