------------------------------ MODULE KeyFiles ------------------------------
(***************************************************************************)
(* How keys lie in files: the private key, encrypted with the password     *)
(* (waste_core.cpp, util.cpp), the public keys of the keyring and the      *)
(* clipboard (util.cpp), and the file a public key is exported to          *)
(* (waste_core.cpp).  A key is written, the file may be cut short, and is  *)
(* read.  Bytes of KBits bits are written as two hexadecimal digits each,  *)
(* or three of them as four characters of SBits bits.                      *)
(***************************************************************************)
EXTENDS Blowfish

CONSTANTS KBits, SBits,      \* 8 and 6
          ModLen,            \* MAX_RSA_MODULUS_LEN, 512
          LoadBits,          \* the lengths of keys that are accepted, in bits
          LineBytes,         \* 30 bytes on a line
          PkNameLen,         \* 16 characters of a name, the last of them 0
          ImportSize,        \* 552 bytes that importPublicKey asks for
          Sha(_, _),         \* the hash of modulus and exponent, here of one byte
          PassKey,           \* the Blowfish key for each password
          SampleKeys,        \* keys with bits, modulus, exponent and private, six pairs of words
          Nicks              \* names, as sequences of characters

ASSUME BytesFit == 3 * KBits = 4 * SBits /\ KBits % 2 = 0

KByte == 2 ^ KBits
NL == -1       \* white space
Letter == -2   \* of the line that ends a key
Padding == -3  \* =
Space == 1     \* in a name; 0 ends it
Refused == [result |-> "refused"]

Least(x, y) == IF x < y THEN x ELSE y

-----------------------------------------------------------------------------
(* Hexadecimal digits, in lines *)

HexText(bytes, base, from) ==
    FoldLeft(LAMBDA s, b : [lc |-> s.lc + 1,
                            text |-> s.text \o <<b \div base, b % base>>
                                            \o (IF (s.lc + 1) % LineBytes = 0 THEN <<NL>> ELSE <<>>)],
             [lc |-> from, text |-> <<>>], bytes)
Ended(hex) == hex.text \o (IF hex.lc % LineBytes = 0 THEN <<>> ELSE <<NL>>) \o <<Letter>>

\* White space is skipped before a byte, not within it.
readEncodedChar(s, base) ==
    LET start == {i \in 1 .. Len(s.rest) : s.rest[i] # NL /\ \A j \in 1 .. i - 1 : s.rest[j] = NL}
    IN  IF s.ok /\ \E i \in start : i < Len(s.rest) /\ s.rest[i] >= 0 /\ s.rest[i + 1] >= 0
        THEN LET i == CHOOSE i \in start : TRUE
             IN  [ok |-> TRUE, rest |-> SubSeq(s.rest, i + 2, Len(s.rest)),
                  bytes |-> Append(s.bytes, s.rest[i] * base + s.rest[i + 1])]
        ELSE [s EXCEPT !.ok = FALSE]
ReadBytes(s, n, base) ==
    FoldLeft(LAMBDA t, i : readEncodedChar(t, base), [s EXCEPT !.bytes = <<>>], [i \in 1 .. n |-> i])
Reading(text) == [ok |-> TRUE, rest |-> text, bytes |-> <<>>]

-----------------------------------------------------------------------------
(* The private key: Blowfish, each block mixed with the one before *)

Schedule == [pass \in DOMAIN PassKey |-> Blowfish_Init(PassKey[pass])]
PASSWORD == <<5, 2>>      \* the words that tell a right password
Mixed(p, q) == <<p[1] ^^ q[1], p[2] ^^ q[2]>>
BytesOf(pair) == [k \in 1 .. 8 |-> (pair[((k - 1) \div 4) + 1] \div Entries ^ ((k - 1) % 4)) % Entries]
PairOf(bytes) ==
    LET word(i) == FoldRight(LAMBDA k, x : x * Entries + bytes[i + k], <<1, 2, 3, 4>>, 0)
    IN  <<word(0), word(4)>>

writeBFdata(ctx, data, cbc) ==
    FoldLeft(LAMBDA out, p : Append(out, Blowfish_Encrypt(ctx, Mixed(p, IF out = <<>> THEN cbc ELSE Last(out)))),
             <<>>, data)
readBFdata(ctx, data, cbc) ==
    [x \in 1 .. Len(data) |-> Mixed(Blowfish_Decrypt(ctx, data[x]), IF x = 1 THEN cbc ELSE data[x - 1])]

\* The random first block is not encrypted, and its bytes count for the line from the start.
writePrivateKey(key, pass, tl) ==
    LET blocks == writeBFdata(Schedule[pass], <<PASSWORD>> \o key.private, tl)
    IN  [bits |-> key.bits,
         text |-> FlattenSeq([i \in 1 .. 8 |-> <<BytesOf(tl)[i] \div Entries, BytesOf(tl)[i] % Entries>>])
                  \o Ended(HexText(FlattenSeq([x \in 1 .. Len(blocks) |-> BytesOf(blocks[x])]), Entries, 8))]
\* The first block tells the password; another one goes unnoticed where it gives these words.
doLoadKey(file, pass) ==
    LET head == ReadBytes(Reading(file.text), 16, Entries)
        body == ReadBytes(head, 48, Entries)
        ctx == Schedule[pass]
        block(bytes, x) == PairOf(SubSeq(bytes, 8 * x - 7, 8 * x))
        plain == readBFdata(ctx, [x \in 1 .. 6 |-> block(body.bytes, x)], block(head.bytes, 2))
    IN  IF file.bits \notin LoadBits \/ ~head.ok THEN Refused
        ELSE IF readBFdata(ctx, <<block(head.bytes, 2)>>, block(head.bytes, 1)) # <<PASSWORD>> THEN Refused
        ELSE IF ~body.ok THEN Refused
        ELSE [bits |-> file.bits, private |-> plain]

-----------------------------------------------------------------------------
(* Public keys in the keyring and the clipboard *)

KeySize(bits) == (bits + KBits - 1) \div KBits
LastBytes(field, n) == SubSeq(field, ModLen - n + 1, ModLen)
Whole(bytes) == [i \in 1 .. ModLen |-> IF i <= ModLen - Len(bytes) THEN 0 ELSE bytes[i - (ModLen - Len(bytes))]]
Trimmed(name) ==
    LET seen == {i \in 1 .. Len(name) : name[i] # Space}
    IN  IF seen = {} THEN <<>> ELSE SubSeq(name, 1, CHOOSE i \in seen : \A j \in seen : j <= i)
Bare(name) == Reverse(Trimmed(Reverse(Trimmed(name))))
CutName(name) == SubSeq(name, 1, Least(Len(name), PkNameLen - 1))
Unknown == <<2, 2>>

\* savePKList and copyMyPubKey: of the exponent only what follows its leading zeros.
WritePublicKey(key, name) ==
    LET used == {i \in 1 .. ModLen : key.exponent[i] # 0}
        ks == IF used = {} THEN 0 ELSE ModLen + 1 - (CHOOSE i \in used : \A j \in used : i <= j)
    IN  [bits |-> key.bits, name |-> IF name = <<>> THEN Unknown ELSE name,
         text |-> Ended(HexText(LastBytes(key.modulus, KeySize(key.bits))
                                    \o <<ks \div KByte, ks % KByte>> \o LastBytes(key.exponent, ks),
                                2 ^ (KBits \div 2), 0))]
\* The bytes before are those of a structure that was cleared.
loadPK(file) ==
    LET ks == KeySize(file.bits)
        base == 2 ^ (KBits \div 2)
        modulus == ReadBytes(Reading(file.text), ks, base)
        size == ReadBytes(modulus, 2, base)
        expsize == size.bytes[1] * KByte + size.bytes[2]
        exponent == ReadBytes(size, expsize, base)
        read == [bits |-> file.bits, modulus |-> Whole(modulus.bytes), exponent |-> Whole(exponent.bytes)]
    IN  IF file.bits \notin LoadBits \/ ~size.ok THEN Refused
        ELSE IF expsize < 1 \/ expsize > ks THEN Refused
        ELSE IF ~exponent.ok THEN Refused
        ELSE [name |-> CutName(Bare(file.name)), pk |-> read, hash |-> Sha(read.modulus, read.exponent)]

-----------------------------------------------------------------------------
(* The exported key *)

Sextets == 2 ^ SBits
base64_encode(data) ==
    LET at(i) == IF i <= Len(data) THEN data[i] ELSE 0
        n(g) == (at(3 * g - 2) * KByte + at(3 * g - 1)) * KByte + at(3 * g)
        group(g) == [k \in 1 .. 4 |-> IF 3 * g + k - 4 > Len(data) THEN Padding
                                      ELSE (n(g) \div Sextets ^ (4 - k)) % Sextets]
    IN  FlattenSeq([g \in 1 .. (Len(data) + 2) \div 3 |-> group(g)])
\* Characters of other kinds are passed over.
base64_decode(encoded) ==
    FoldLeft(LAMBDA s, val :
                 LET bits == s.bits + SBits
                     buf == s.buf * Sextets + val
                 IN  IF val < 0 THEN s
                     ELSE IF bits < KBits THEN [s EXCEPT !.bits = bits, !.buf = buf]
                     ELSE [bits |-> bits - KBits, buf |-> buf % 2 ^ (bits - KBits),
                           result |-> Append(s.result, (buf \div 2 ^ (bits - KBits)) % KByte)],
             [bits |-> 0, buf |-> 0, result |-> <<>>], encoded).result

\* "Name: " and what follows, of which importPublicKey trims the end; of a name of spaces it
\* leaves four letters and a colon, which are taken for data.
NameLine(nick) == IF nick # <<>> /\ Trimmed(nick) = <<>> THEN <<0, 1, 2, 3, Padding>> ELSE <<>>
exportPublicKey(key, nick) ==
    LET keydata == Sha(key.modulus, key.exponent) \o [i \in 1 .. PkNameLen |-> IF i <= Len(CutName(nick)) THEN nick[i] ELSE 0]
                   \o [i \in 1 .. 4 |-> (key.bits \div KByte ^ (i - 1)) % KByte] \o key.modulus \o key.exponent
    IN  [bits |-> key.bits, name |-> Trimmed(nick), text |-> NameLine(nick) \o base64_encode(keydata)]
DataSize == 1 + PkNameLen + 4 + 2 * ModLen
\* What lies behind data that end too early is read with them; the hash is computed anew.
importPublicKey(file, beyond) ==
    LET keydata == base64_decode(file.text)
        at(i) == IF i <= Len(keydata) THEN keydata[i] ELSE beyond
        field(from, n) == [i \in 1 .. n |-> at(from + i)]
        inData == field(1, PkNameLen)
        named == {i \in 1 .. PkNameLen : inData[i] = 0} \cup {PkNameLen}
        modulus == field(PkNameLen + 5, ModLen)
        exponent == field(PkNameLen + 5 + ModLen, ModLen)
    IN  IF Len(keydata) < ImportSize THEN Refused
        ELSE [name |-> IF file.name # <<>> THEN CutName(file.name)
                       ELSE SubSeq(inData, 1, (CHOOSE i \in named : \A j \in named : i <= j) - 1),
              hash |-> Sha(modulus, exponent),
              pk |-> [bits |-> FoldRight(LAMBDA i, x : x * KByte + at(1 + PkNameLen + i), <<1, 2, 3, 4>>, 0),
                      modulus |-> modulus, exponent |-> exponent]]

-----------------------------------------------------------------------------
VARIABLES kp, nick, pass,  \* what is written
          keyFile,          \* the file: its form, what is in it, and whether it was cut short
          tried,            \* the password it was read with
          loaded            \* what was read

keyFileVars == <<kp, nick, pass, keyFile, tried, loaded>>

NoFile == [form |-> "none"]
KeyFilesInit ==
    /\ kp \in SampleKeys /\ nick \in Nicks /\ pass \in DOMAIN PassKey
    /\ keyFile = NoFile /\ tried = pass /\ loaded = NoFile

SaveKey ==
    /\ keyFile = NoFile
    /\ \E form \in {"private", "keyring", "exported"} :
        keyFile' = [form |-> form, cut |-> FALSE,
                    of |-> CASE form = "private" -> writePrivateKey(kp, pass, <<1, 2>>)
                             [] form = "keyring" -> WritePublicKey(kp, nick)
                             [] form = "exported" -> exportPublicKey(kp, nick)]
    /\ UNCHANGED <<kp, nick, pass, tried, loaded>>
\* The program ends while it writes, or the disk is full.
CutShort ==
    /\ keyFile # NoFile /\ ~keyFile.cut /\ loaded = NoFile
    /\ \E n \in 0 .. Len(keyFile.of.text) - 1 :
        keyFile' = [keyFile EXCEPT !.of.text = SubSeq(@, 1, n), !.cut = TRUE]
    /\ UNCHANGED <<kp, nick, pass, tried, loaded>>
LoadKey ==
    /\ keyFile # NoFile /\ loaded = NoFile
    /\ tried' \in DOMAIN PassKey
    /\ \E beyond \in {0, KByte - 1} :
        loaded' = CASE keyFile.form = "private" -> doLoadKey(keyFile.of, tried')
                    [] keyFile.form = "keyring" -> loadPK(keyFile.of)
                    [] keyFile.form = "exported" -> importPublicKey(keyFile.of, beyond)
    /\ UNCHANGED <<kp, nick, pass, keyFile>>

KeyFilesNext == SaveKey \/ CutShort \/ LoadKey

-----------------------------------------------------------------------------
\* A key is read as it was written, with its name up to the limit, and its hash is that of
\* the key; with another password, or from a file cut short, it is read right or not at all.
\* Left out are names of nothing but spaces, and exported data that end behind the length
\* importPublicKey asks for, which is that of shorter keys (waste_core.cpp:526-581, 874-1126,
\* util.cpp:507-664, 744-950).
Written ==
    IF keyFile.form = "private" THEN [bits |-> kp.bits, private |-> kp.private]
    ELSE [pk |-> [bits |-> kp.bits, modulus |-> kp.modulus, exponent |-> kp.exponent],
          hash |-> Sha(kp.modulus, kp.exponent),
          name |-> CutName(IF keyFile.form = "exported" THEN Trimmed(nick)
                           ELSE Bare(IF nick = <<>> THEN Unknown ELSE nick))]
ReadAmiss ==
    /\ keyFile.form = "exported"
    /\ \/ NameLine(nick) # <<>>
       \/ keyFile.cut /\ Len(base64_decode(keyFile.of.text)) \in ImportSize .. DataSize - 1
KeysReadBack ==
    loaded # NoFile /\ ~ReadAmiss =>
        \/ loaded = Written /\ (keyFile.form = "private" => tried = pass)
        \/ loaded = Refused /\ (keyFile.cut \/ tried # pass)
=============================================================================
