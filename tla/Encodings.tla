------------------------------ MODULE Encodings ------------------------------
(****************************************************************************)
(* The number formats of compressed bundles: what the clients encode        *)
(* (contracts/clients/src/encodeUtils.ts) and what the contracts decode     *)
(* (contracts/contracts/lib/VLQ.sol, PseudoFloat.sol, RegIndex.sol).        *)
(*                                                                          *)
(* A stream is a sequence of tokens.  A token is a byte, or one of the      *)
(* fixed-width words that both sides copy as they are: a key (128 bytes),   *)
(* an address (20 bytes), a signature (64 bytes), an encoded function call. *)
(* A cursor is where the contract is in a stream: the tokens still to read, *)
(* the bits of the operation's bit stream that are left, and the values it   *)
(* has read.  A decoder gives the set of the cursors it may lead to: one, or *)
(* none if it reverts.                                                      *)
(****************************************************************************)
EXTENDS Integers, Sequences, SequencesExt

CONSTANTS
    WordSize,      \* 2^256: the numbers of the EVM
    MaxExponent    \* 30: the largest exponent of a pseudo-float

ASSUME EncodingsAssumption ==
    /\ WordSize \in Nat \ 0..255
    /\ MaxExponent \in 0..30

Words == 0..(WordSize - 1)

Byte(n) == [kind |-> "byte", value |-> n]
Word(kind, value) == [kind |-> kind, value |-> value]

Power10[e \in Nat] == IF e = 0 THEN 1 ELSE 10 * Power10[e - 1]

-----------------------------------------------------------------------------
(* The clients                                                              *)

VLQSegments[x \in Nat] ==
    IF x < 128 THEN <<x>> ELSE Append(VLQSegments[x \div 128], x % 128)

EncodeVLQ(x) ==
    LET segments == VLQSegments[x]
    IN  [i \in DOMAIN segments |->
            Byte(segments[i] + IF i < Len(segments) THEN 128 ELSE 0)]

\* The exponent and the mantissa of x > 0.
PseudoFloatParts(x) ==
    LET exponent == CHOOSE e \in 0..MaxExponent :
                        /\ x % Power10[e] = 0
                        /\ e = MaxExponent \/ x % Power10[e + 1] # 0
    IN  <<exponent, x \div Power10[exponent]>>

EncodePseudoFloat(x) ==
    IF x = 0 THEN <<Byte(0)>>
    ELSE LET exponent == PseudoFloatParts(x)[1]
             mantissa == PseudoFloatParts(x)[2]
         IN  <<Byte(8 * (exponent + 1) + (mantissa % 8))>> \o EncodeVLQ(mantissa \div 8)

EncodeRegIndex(x) ==
    EncodeVLQ(x \div 65536) \o <<Byte((x \div 256) % 256), Byte(x % 256)>>

\* The first bit is the lowest.
BitStreamNumber(bits) ==
    LET last[k \in 0..Len(bits)] ==   \* of the last k bits
            IF k = 0 THEN 0
            ELSE 2 * last[k - 1] + (IF bits[Len(bits) - k + 1] THEN 1 ELSE 0)
    IN  last[Len(bits)]

EncodeBitStream(bits) == EncodeVLQ(BitStreamNumber(bits))

-----------------------------------------------------------------------------
(* The contracts                                                            *)

Cursor(stream) == [stream |-> stream, bits |-> 0, values |-> <<>>]

\* The cursor d, with this value after the values of the cursor c.
Result(d, c, value) == [d EXCEPT !.values = Append(c.values, value)]

Skip(c, n) == [c EXCEPT !.stream = SubSeq(@, n + 1, Len(@))]

\* The next token, if it is one of this kind.
Read(c, kind) ==
    { Result(Skip(c, 1), c, token.value) :
        token \in {t \in Range(SubSeq(c.stream, 1, 1)) : t.kind = kind} }

\* The position of the first byte without the bit that says to go on.
VLQEnds(stream) ==
    { i \in DOMAIN stream : \A j \in 1..i :
        stream[j].kind = "byte" /\ (stream[j].value < 128 <=> j = i) }

\* Shifted left by seven bits for each byte, the highest bits fall away.
VLQValue(bytes) ==
    LET value[i \in 0..Len(bytes)] ==
            IF i = 0 THEN 0
            ELSE ((128 * value[i - 1]) % WordSize) + (bytes[i].value % 128)
    IN  value[Len(bytes)]

DecodeVLQ(c) ==
    { Result(Skip(c, end), c, VLQValue(SubSeq(c.stream, 1, end))) :
        end \in VLQEnds(c.stream) }

\* The exponent of a byte below eight underflows; a product beyond the word
\* is an overflow.
PseudoFloatValues(first, high) ==
    LET mantissa == ((8 * high) % WordSize) + (first % 8)
        power == Power10[first \div 8 - 1]
    IN  IF first < 8 \/ mantissa > (WordSize - 1) \div power THEN {}
        ELSE {mantissa * power}

\* A byte of zero is all there is of a zero.
DecodePseudoFloat(c) ==
    UNION { IF Last(first.values) = 0 THEN {first}
            ELSE UNION { { Result(high, c, value) :
                             value \in PseudoFloatValues(Last(first.values), Last(high.values)) } :
                         high \in DecodeVLQ(first) } :
            first \in Read(c, "byte") }

TwoBytes(stream) == Len(stream) >= 2 /\ \A i \in 1..2 : stream[i].kind = "byte"

DecodeRegIndex(c) ==
    { Result(Skip(high, 2), c,
             ((65536 * Last(high.values)) % WordSize)
                 + 256 * high.stream[1].value + high.stream[2].value) :
        high \in {h \in DecodeVLQ(c) : TwoBytes(h.stream)} }
=============================================================================
