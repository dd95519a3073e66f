-------------------------- MODULE CompressionProofs --------------------------
(****************************************************************************)
(* For every value of the constants, and all bundles that fit: a compressed *)
(* bundle expands to the bundle that was signed (ExpandsToBundle).          *)
(*                                                                          *)
(* The proof reads the stream from the outside in.  The expanders decode    *)
(* the codes of an operation's fields one after the other: Here is the      *)
(* cursor before the k-th of them.  The fields of an action, of the actions *)
(* and of the operation follow each other there, so each is expanded to     *)
(* itself, and the delegator expands one operation after the other.  What   *)
(* is left is that the client writes such codes: InProgress says of each    *)
(* operation that the first of its fields are encoded, under registries     *)
(* that were smaller then, or as they are now.                              *)
(****************************************************************************)
EXTENDS ExpandersProofs

-----------------------------------------------------------------------------
(* One step after the other                                                 *)

\* A sequence of sets, each with one cursor if the one before it has.
LEMMA InTurn ==
    ASSUME NEW n \in Nat, NEW C, NEW f, f[0] = {C[0]},
           \A i \in 1..n : f[i - 1] = {C[i - 1]} => f[i] = {C[i]}
    PROVE  f[n] = {C[n]}
<1> DEFINE T == {i \in Nat : i <= n => f[i] = {C[i]}}
<1>1. 0 \in T
  OBVIOUS
<1>2. \A i \in Nat : i \in T => i + 1 \in T
  <2> SUFFICES ASSUME NEW i \in Nat, i \in T, i + 1 <= n
               PROVE  f[i + 1] = {C[i + 1]}
    OBVIOUS
  <2> DEFINE j == i + 1
  <2>1. j \in 1..n /\ j - 1 = i /\ f[i] = {C[i]}
    OBVIOUS
  <2> HIDE DEF j
  <2>2. f[j] = {C[j]}
    BY <2>1
  <2> QED
    BY <2>2 DEF j
<1> HIDE DEF T
<1>3. n \in T
  BY <1>1, <1>2, NatSetInduction
<1> QED
  BY <1>3 DEF T

\* Fields are decoded one after the other.
LEMMA FieldsInTurn ==
    ASSUME NEW types, Len(types) \in Nat, NEW C,
           \A i \in 1..Len(types) : Decode(C[i - 1], types[i]) = {C[i]}
    PROVE  DecodeFields(C[0], types) = {C[Len(types)]}
<1> DEFINE n == Len(types)
           Is(f) == f = [i \in 0..n |->
                            IF i = 0 THEN {C[0]}
                            ELSE UNION {Decode(d, types[i]) : d \in f[i - 1]}]
           w == [i \in 0..n |-> {C[i]}]
           after == CHOOSE f : Is(f)
<1>1. \A i \in 1..n : i - 1 \in 0..n
  OBVIOUS
<1>2. \A i \in 1..n : UNION {Decode(d, types[i]) : d \in {C[i - 1]}} = {C[i]}
  OBVIOUS
<1>3. Is(w)
  <2>1. \A i \in 0..n : w[i] = IF i = 0 THEN {C[0]}
                               ELSE UNION {Decode(d, types[i]) : d \in w[i - 1]}
    <3> SUFFICES ASSUME NEW i \in 0..n, i # 0
                 PROVE  {C[i]} = UNION {Decode(d, types[i]) : d \in w[i - 1]}
      OBVIOUS
    <3>1. i \in 1..n /\ w[i - 1] = {C[i - 1]}
      BY <1>1
    <3> QED
      BY <1>2, <3>1
  <2> QED
    BY <2>1
<1>4. Is(after)
  BY <1>3
<1>5. DecodeFields(C[0], types) = after[n]
  BY DEF DecodeFields
<1>6. \A i \in 1..n : after[i - 1] = {C[i - 1]} => after[i] = {C[i]}
  <2> SUFFICES ASSUME NEW i \in 1..n, after[i - 1] = {C[i - 1]}
               PROVE  after[i] = {C[i]}
    OBVIOUS
  <2>1. after[i] = UNION {Decode(d, types[i]) : d \in after[i - 1]}
    <3>1. i \in 0..n /\ i # 0
      OBVIOUS
    <3> HIDE DEF after
    <3> QED
      BY <1>4, <3>1
  <2> HIDE DEF after
  <2> QED
    BY <1>2, <2>1
<1>7. after[0] = {C[0]}
  <2>1. 0 \in 0..n
    OBVIOUS
  <2> HIDE DEF after, n
  <2> QED
    BY <1>4, <2>1
<1> HIDE DEF after
<1> QED
  BY <1>5, <1>6, <1>7, InTurn

ActionsLead(expander, c, C, n) ==
    /\ n \in Nat /\ C[0] = Fresh(c)
    /\ \A i \in 1..n : ExpandAction(expander, C[i - 1]) = {C[i]}

\* So are the actions of an operation.
LEMMA ActionsInTurn ==
    ASSUME NEW expander, NEW c, NEW n, NEW C, ActionsLead(expander, c, C, n)
    PROVE  ExpandActions(expander, c, n) = {C[n]}
<1> USE DEF ActionsLead
<1> DEFINE Is(f) == f = [i \in 0..n |->
                            IF i = 0 THEN {Fresh(c)}
                            ELSE UNION {ExpandAction(expander, d) : d \in f[i - 1]}]
           w == [i \in 0..n |-> {C[i]}]
           after == CHOOSE f : Is(f)
<1>1. \A i \in 1..n : i - 1 \in 0..n
  OBVIOUS
<1>2. \A i \in 1..n : UNION {ExpandAction(expander, d) : d \in {C[i - 1]}} = {C[i]}
  OBVIOUS
<1>3. Is(w)
  <2>1. \A i \in 0..n : w[i] = IF i = 0 THEN {Fresh(c)}
                               ELSE UNION {ExpandAction(expander, d) : d \in w[i - 1]}
    <3> SUFFICES ASSUME NEW i \in 0..n, i # 0
                 PROVE  {C[i]} = UNION {ExpandAction(expander, d) : d \in w[i - 1]}
      OBVIOUS
    <3>1. i \in 1..n /\ w[i - 1] = {C[i - 1]}
      BY <1>1
    <3> QED
      BY <1>2, <3>1
  <2> QED
    BY <2>1
<1>4. Is(after)
  BY <1>3
<1>5. ExpandActions(expander, c, n) = after[n]
  BY DEF ExpandActions
<1>6. \A i \in 1..n : after[i - 1] = {C[i - 1]} => after[i] = {C[i]}
  <2> SUFFICES ASSUME NEW i \in 1..n, after[i - 1] = {C[i - 1]}
               PROVE  after[i] = {C[i]}
    OBVIOUS
  <2>1. after[i] = UNION {ExpandAction(expander, d) : d \in after[i - 1]}
    <3>1. i \in 0..n /\ i # 0
      OBVIOUS
    <3> HIDE DEF after
    <3> QED
      BY <1>4, <3>1
  <2> HIDE DEF after
  <2> QED
    BY <1>2, <2>1
<1>7. after[0] = {C[0]}
  <2>1. 0 \in 0..n
    OBVIOUS
  <2> HIDE DEF after
  <2> QED
    BY <1>4, <2>1
<1> HIDE DEF after
<1> QED
  BY <1>5, <1>6, <1>7, InTurn

OperationsLead(c, C, n) ==
    /\ n \in Nat /\ C[0] = Fresh(c)
    /\ \A i \in 1..n : Expand(C[i - 1]) = {C[i]}

\* And the operations of a bundle.
LEMMA OperationsInTurn ==
    ASSUME NEW c, NEW n, NEW C, OperationsLead(c, C, n)
    PROVE  ExpandAll(c, n) = {C[n]}
<1> USE DEF OperationsLead
<1> DEFINE Is(f) == f = [i \in 0..n |->
                            IF i = 0 THEN {Fresh(c)}
                            ELSE UNION {Expand(d) : d \in f[i - 1]}]
           w == [i \in 0..n |-> {C[i]}]
           after == CHOOSE f : Is(f)
<1>1. \A i \in 1..n : i - 1 \in 0..n
  OBVIOUS
<1>2. \A i \in 1..n : UNION {Expand(d) : d \in {C[i - 1]}} = {C[i]}
  OBVIOUS
<1>3. Is(w)
  <2>1. \A i \in 0..n : w[i] = IF i = 0 THEN {Fresh(c)}
                               ELSE UNION {Expand(d) : d \in w[i - 1]}
    <3> SUFFICES ASSUME NEW i \in 0..n, i # 0
                 PROVE  {C[i]} = UNION {Expand(d) : d \in w[i - 1]}
      OBVIOUS
    <3>1. i \in 1..n /\ w[i - 1] = {C[i - 1]}
      BY <1>1
    <3> QED
      BY <1>2, <3>1
  <2> QED
    BY <2>1
<1>4. Is(after)
  BY <1>3
<1>5. ExpandAll(c, n) = after[n]
  BY DEF ExpandAll
<1>6. \A i \in 1..n : after[i - 1] = {C[i - 1]} => after[i] = {C[i]}
  <2> SUFFICES ASSUME NEW i \in 1..n, after[i - 1] = {C[i - 1]}
               PROVE  after[i] = {C[i]}
    OBVIOUS
  <2>1. after[i] = UNION {Expand(d) : d \in after[i - 1]}
    <3>1. i \in 0..n /\ i # 0
      OBVIOUS
    <3> HIDE DEF after
    <3> QED
      BY <1>4, <3>1
  <2> HIDE DEF after
  <2> QED
    BY <1>2, <2>1
<1>7. after[0] = {C[0]}
  <2>1. 0 \in 0..n
    OBVIOUS
  <2> HIDE DEF after
  <2> QED
    BY <1>4, <2>1
<1> HIDE DEF after
<1> QED
  BY <1>5, <1>6, <1>7, InTurn

-----------------------------------------------------------------------------
(* Fields                                                                   *)

Tokens ==
    Bytes \union [kind : {"key"}, value : Keys]
          \union [kind : {"address"}, value : Addresses]
          \union [kind : {"call"}, value : Calls]

Codes == [data : Seq(Tokens), bits : Seq(BOOLEAN)]

FieldTypes ==
    [type : {"key", "newKey"}, value : Keys]
        \union [type : {"address"}, value : Addresses]
        \union [type : {"vlq", "float"}, value : Words]
        \union [type : {"bit"}, value : BOOLEAN]
        \union [type : {"call"}, value : Calls]

HasBit(field) == field.type \in {"key", "address", "bit"}

\* What a field is encoded to, under registries that have grown since then.
EncodesUnder(keys, addresses, field, code) ==
    /\ field.type = "key" => EncodedUnder(keys, RegistrableKeys, field, code)
    /\ field.type = "address" => EncodedUnder(addresses, RegistrableAddresses, field, code)
    /\ field.type = "vlq" => code = [data |-> EncodeVLQ(field.value), bits |-> <<>>]
    /\ field.type = "float" => code = [data |-> EncodePseudoFloat(field.value), bits |-> <<>>]
    /\ field.type = "bit" => code = [data |-> <<>>, bits |-> <<field.value>>]
    /\ field.type = "newKey" => code = [data |-> <<Word("key", field.value)>>, bits |-> <<>>]
    /\ field.type = "call" => code = [data |-> <<Word("call", field.value)>>, bits |-> <<>>]

Encodes(field, code) == EncodesUnder(keyRegistry, addressRegistry, field, code)

\* What the contracts make of a field.
FieldValue(field) ==
    IF field.type = "bit" THEN (IF field.value THEN 1 ELSE 0) ELSE field.value

\* A pseudo-float is a sequence of bytes.
LEMMA PseudoFloatBytes ==
    ASSUME NEW x \in Words
    PROVE  EncodePseudoFloat(x) \in Seq(Bytes)
<1>1. CASE x = 0
  <2>1. EncodePseudoFloat(x) = <<Byte(0)>> /\ Byte(0) \in Bytes
    BY <1>1 DEF EncodePseudoFloat, Byte, Bytes
  <2> QED
    BY <2>1
<1>2. CASE x # 0
  <2> DEFINE e == PseudoFloatParts(x)[1]
             m == PseudoFloatParts(x)[2]
             high == m \div 8
             byte == 8 * (e + 1) + (m % 8)
             code == EncodeVLQ(high)
  <2>1. EncodePseudoFloat(x) = <<Byte(byte)>> \o code
    BY <1>2 DEF EncodePseudoFloat
  <2>2. e \in 0..MaxExponent /\ m \in Nat
    <3> HIDE DEF e, m
    <3> QED
      BY <1>2, PartsMultiply DEF e, m
  <2> HIDE DEF e, m
  <2>3. high \in Nat /\ m % 8 \in 0..7
    BY <2>2
  <2> HIDE DEF high
  <2>4. byte \in 0..255
    BY <2>2, <2>3, EncodingsAssumption
  <2>5. Byte(byte) \in Bytes
    <3> HIDE DEF byte
    <3> QED
      BY <2>4 DEF Byte, Bytes
  <2>6. code \in Seq(Bytes)
    BY <2>3, EncodedVLQ
  <2> HIDE DEF byte, code
  <2>7. <<Byte(byte)>> \in Seq(Bytes)
    BY <2>5
  <2> QED
    BY <2>1, <2>6, <2>7, ConcatProperties
<1> QED
  BY <1>1, <1>2

\* So is an id.
LEMMA RegIndexBytes ==
    ASSUME NEW x \in Nat
    PROVE  EncodeRegIndex(x) \in Seq(Bytes)
<1> DEFINE high == x \div 65536
           b1 == Byte((x \div 256) % 256)
           b2 == Byte(x % 256)
<1>1. high \in Nat /\ (x \div 256) % 256 \in 0..255 /\ x % 256 \in 0..255
  BY SplitId
<1>2. b1 \in Bytes /\ b2 \in Bytes
  BY <1>1 DEF Byte, Bytes
<1>3. EncodeRegIndex(x) = EncodeVLQ(high) \o <<b1, b2>>
  BY DEF EncodeRegIndex
<1>4. EncodeVLQ(high) \in Seq(Bytes)
  BY <1>1, EncodedVLQ
<1> HIDE DEF high, b1, b2
<1>5. <<b1, b2>> \in Seq(Bytes)
  BY <1>2
<1> QED
  BY <1>3, <1>4, <1>5, ConcatProperties

\* The code of a field has one bit or none.
LEMMA CodeType ==
    ASSUME NEW field \in FieldTypes, NEW code, Encodes(field, code)
    PROVE  /\ code \in Codes
           /\ Len(code.bits) = IF HasBit(field) THEN 1 ELSE 0
<1>1. Bytes \subseteq Tokens /\ Seq(Bytes) \subseteq Seq(Tokens)
  <2>1. Bytes \subseteq Tokens
    BY DEF Tokens
  <2> QED
    BY <2>1, SeqMonotonic
<1>2. ASSUME NEW V, NEW r \in Registries(V),
             code = EncodeRegistered(r, field),
             Word(field.type, field.value) \in Tokens
      PROVE  code \in Codes /\ Len(code.bits) = 1
  <2>1. CASE HasId(r, field.value)
    <3> DEFINE x == ReverseLookup(r, field.value)
    <3>1. PICK i \in 1..Len(r.entries) : x = r.first + i - 1
      BY <2>1, <1>2, LookupFindsId
    <3>2. r.first \in Nat /\ Len(r.entries) \in Nat
      BY LenProperties DEF Registries
    <3> HIDE DEF x
    <3>3. x \in Nat
      BY <3>1, <3>2
    <3>4. EncodeRegIndex(x) \in Seq(Tokens)
      BY <1>1, <3>3, RegIndexBytes
    <3>5. code = [data |-> EncodeRegIndex(x), bits |-> <<TRUE>>]
      BY <1>2, <2>1 DEF EncodeRegistered, x
    <3> QED
      BY <3>4, <3>5 DEF Codes
  <2>2. CASE ~HasId(r, field.value)
    <3> DEFINE w == Word(field.type, field.value)
    <3>1. code = [data |-> <<w>>, bits |-> <<FALSE>>]
      BY <1>2, <2>2 DEF EncodeRegistered
    <3>2. w \in Tokens
      BY <1>2
    <3> HIDE DEF w
    <3> QED
      BY <3>1, <3>2 DEF Codes
  <2> QED
    BY <2>1, <2>2
<1>3. CASE field.type = "key"
  <2>1. field.value \in Keys /\ Word(field.type, field.value) \in Tokens
    BY <1>3 DEF FieldTypes, Tokens, Word
  <2>2. PICK r \in Registries(RegistrableKeys) : code = EncodeRegistered(r, field)
    BY <1>3 DEF Encodes, EncodesUnder, EncodedUnder
  <2> QED
    BY <1>2, <1>3, <2>1, <2>2 DEF HasBit
<1>4. CASE field.type = "address"
  <2>1. field.value \in Addresses /\ Word(field.type, field.value) \in Tokens
    BY <1>4 DEF FieldTypes, Tokens, Word
  <2>2. PICK r \in Registries(RegistrableAddresses) : code = EncodeRegistered(r, field)
    BY <1>4 DEF Encodes, EncodesUnder, EncodedUnder
  <2> QED
    BY <1>2, <1>4, <2>1, <2>2 DEF HasBit
<1>5. CASE field.type = "vlq"
  <2>1. field.value \in Nat
    BY <1>5, EncodingsAssumption DEF FieldTypes, Words
  <2>2. EncodeVLQ(field.value) \in Seq(Tokens)
    BY <1>1, <2>1, EncodedVLQ
  <2> DEFINE e == EncodeVLQ(field.value)
  <2>3. e \in Seq(Tokens) /\ code = [data |-> e, bits |-> <<>>]
    BY <1>5, <2>2 DEF Encodes, EncodesUnder
  <2> HIDE DEF e
  <2> QED
    BY <1>5, <2>3 DEF Codes, HasBit
<1>6. CASE field.type = "float"
  <2>1. field.value \in Words
    BY <1>6 DEF FieldTypes
  <2>2. EncodePseudoFloat(field.value) \in Seq(Tokens)
    BY <1>1, <2>1, PseudoFloatBytes
  <2> DEFINE e == EncodePseudoFloat(field.value)
  <2>3. e \in Seq(Tokens) /\ code = [data |-> e, bits |-> <<>>]
    BY <1>6, <2>2 DEF Encodes, EncodesUnder
  <2> HIDE DEF e
  <2> QED
    BY <1>6, <2>3 DEF Codes, HasBit
<1>7. CASE field.type = "bit"
  <2>1. field.value \in BOOLEAN
    BY <1>7 DEF FieldTypes
  <2>2. code = [data |-> <<>>, bits |-> <<field.value>>]
    BY <1>7 DEF Encodes, EncodesUnder
  <2> QED
    BY <1>7, <2>1, <2>2 DEF Codes, HasBit
<1>8. CASE field.type \in {"newKey", "call"}
  <2> DEFINE w == Word(IF field.type = "call" THEN "call" ELSE "key", field.value)
  <2>1. w \in Tokens
    BY <1>8 DEF FieldTypes, Tokens, Word
  <2>2. code = [data |-> <<w>>, bits |-> <<>>]
    BY <1>8 DEF Encodes, EncodesUnder
  <2> HIDE DEF w
  <2> QED
    BY <1>8, <2>1, <2>2 DEF Codes, HasBit
<1> QED
  BY <1>3, <1>4, <1>5, <1>6, <1>7, <1>8 DEF FieldTypes

\* A field is decoded as it was encoded, whatever follows it.
LEMMA DecodesField ==
    ASSUME NEW field \in FieldTypes, NEW code, Encodes(field, code),
           NEW V, NEW c, NEW rest, NEW bits,
           Reads(Tokens, V, c, code, rest, bits)
    PROVE  Decode(c, field.type) = {At(rest, bits, Append(c.values, FieldValue(field)))}
<1> DEFINE d == At(rest, bits, Append(c.values, FieldValue(field)))
<1>1. code \in Codes
  BY CodeType
<1>2. code.data \in Seq(Tokens) /\ code.bits \in Seq(BOOLEAN)
  BY <1>1 DEF Codes
<1>5. /\ c \in Cursors(Tokens, V) /\ StartsWith(c, code.data, rest)
      /\ c.bits = BitStreamNumber(code.bits \o bits)
      /\ rest \in Seq(Tokens) /\ bits \in Seq(BOOLEAN)
  BY DEF Reads
<1>6. <<>> \o bits = bits /\ <<>> \o rest = rest
  BY <1>5, ConcatEmptySeq
<1>8. CASE field.type = "key"
  <2>1. EncodedUnder(keyRegistry, RegistrableKeys, field, code) /\ FieldValue(field) = field.value
    BY <1>8 DEF Encodes, EncodesUnder, FieldValue
  <2> field.value # zero
    BY <1>8, ExpandersAssumption DEF FieldTypes
  <2>2. Decode(c, field.type) = DecodeRegistered(keyRegistry, c, field.type)
    BY <1>8 DEF Decode
  <2>3. DecodeRegistered(keyRegistry, c, field.type) =
            {At(rest, bits, Append(c.values, field.value))}
    BY <2>1, RegisteredRoundTrip
  <2> QED
    BY <2>1, <2>2, <2>3
<1>9. CASE field.type = "address"
  <2>1. EncodedUnder(addressRegistry, RegistrableAddresses, field, code) /\ FieldValue(field) = field.value
    BY <1>9 DEF Encodes, EncodesUnder, FieldValue
  <2> field.value # zero
    BY <1>9, ExpandersAssumption DEF FieldTypes
  <2>2. Decode(c, field.type) = DecodeRegistered(addressRegistry, c, field.type)
    BY <1>9 DEF Decode
  <2>3. DecodeRegistered(addressRegistry, c, field.type) =
            {At(rest, bits, Append(c.values, field.value))}
    BY <2>1, RegisteredRoundTrip
  <2> QED
    BY <2>1, <2>2, <2>3
\* Of the other types but "bit", the value follows and no bit is read.
<1>10. ASSUME field.type # "bit", code.bits = <<>>
       PROVE  d = After(c, rest, field.value)
  BY <1>5, <1>6, <1>10 DEF After, At, FieldValue
<1>11. CASE field.type = "vlq"
  <2>1. /\ field.value \in Words /\ code.data = EncodeVLQ(field.value)
        /\ code.bits = <<>>
    BY <1>11 DEF FieldTypes, Encodes, EncodesUnder
  <2>2. DecodeVLQ(c) = {After(c, rest, field.value)}
    BY <1>5, <2>1, VLQRoundTrip
  <2>3. Decode(c, field.type) = DecodeVLQ(c)
    BY <1>11 DEF Decode
  <2>4. d = After(c, rest, field.value)
    BY <1>10, <1>11, <2>1
  <2> QED
    BY <2>2, <2>3, <2>4
<1>12. CASE field.type = "float"
  <2>1. /\ field.value \in Words /\ code.data = EncodePseudoFloat(field.value)
        /\ code.bits = <<>>
    BY <1>12 DEF FieldTypes, Encodes, EncodesUnder
  <2>2. DecodePseudoFloat(c) = {After(c, rest, field.value)}
    BY <1>5, <2>1, PseudoFloatRoundTrip
  <2>3. Decode(c, field.type) = DecodePseudoFloat(c)
    BY <1>12 DEF Decode
  <2>4. d = After(c, rest, field.value)
    BY <1>10, <1>12, <2>1
  <2> QED
    BY <2>2, <2>3, <2>4
<1>13. CASE field.type \in {"newKey", "call"}
  <2> DEFINE kind == IF field.type = "call" THEN "call" ELSE "key"
  <2>1. code.data = <<Word(kind, field.value)>> /\ code.bits = <<>>
    BY <1>13 DEF Encodes, EncodesUnder
  <2>2. Decode(c, field.type) = Read(c, kind)
    BY <1>13 DEF Decode
  <2> HIDE DEF kind
  <2>3. Read(c, kind) = {After(c, rest, field.value)}
    BY <1>5, <2>1, ReadsToken
  <2>4. d = After(c, rest, field.value)
    BY <1>10, <1>13, <2>1
  <2> QED
    BY <2>2, <2>3, <2>4
<1>14. CASE field.type = "bit"
  <2>1. field.value \in BOOLEAN /\ code.data = <<>> /\ code.bits = <<field.value>>
    BY <1>14 DEF FieldTypes, Encodes, EncodesUnder
  <2>2. c.bits = BitStreamNumber(<<field.value>> \o bits) /\ c.stream = rest
    BY <1>5, <1>6, <2>1 DEF StartsWith
  <2>3. /\ c.bits % 2 = (IF field.value THEN 1 ELSE 0)
        /\ NextBit(c) \in Cursors(Tokens, V)
        /\ NextBit(c) = [ stream |-> c.stream, bits |-> BitStreamNumber(bits),
                          values |-> c.values ]
    BY <1>5, <2>1, <2>2, NextBitFields
  <2>4. Result(NextBit(c), c, c.bits % 2) =
            [ stream |-> NextBit(c).stream, bits |-> NextBit(c).bits,
              values |-> Append(c.values, c.bits % 2) ]
    BY <2>3, ResultFields
  <2>5. Result(NextBit(c), c, c.bits % 2) = d
    <3>1. NextBit(c).stream = rest /\ NextBit(c).bits = BitStreamNumber(bits)
      BY <2>2, <2>3
    <3>2. c.bits % 2 = FieldValue(field)
      BY <1>14, <2>3 DEF FieldValue
    <3> QED
      BY <1>5, <2>4, <3>1, <3>2 DEF At
  <2>6. Decode(c, field.type) = {Result(NextBit(c), c, c.bits % 2)}
    BY <1>14 DEF Decode
  <2> QED
    BY <2>5, <2>6
<1> QED
  BY <1>8, <1>9, <1>11, <1>12, <1>13, <1>14 DEF FieldTypes

-----------------------------------------------------------------------------
(* The fields of an operation                                               *)

\* The codes of these fields, in their order.
Compressed(fields, codes) ==
    /\ fields \in Seq(FieldTypes) /\ codes \in Seq(Codes)
    /\ Len(codes) = Len(fields)
    /\ \A i \in 1..Len(fields) : Encodes(fields[i], codes[i])

IsSeq(s) == \E V : s \in Seq(V)

DataOf(codes) == [i \in 1..Len(codes) |-> codes[i].data]
BitsOf(codes) == [i \in 1..Len(codes) |-> codes[i].bits]

\* What is left of the codes, and of what follows them, after k of them.
DataAfter(codes, k, rest) == FlattenSeq(SubSeq(DataOf(codes), k + 1, Len(codes))) \o rest
BitsAfter(codes, k) == FlattenSeq(SubSeq(BitsOf(codes), k + 1, Len(codes)))

\* After k codes, with these values read.
Here(codes, k, rest, values) ==
    At(DataAfter(codes, k, rest), BitsAfter(codes, k), values)

\* The data and the bits of some codes.
LEMMA CodesParts ==
    ASSUME NEW codes \in Seq(Codes)
    PROVE  /\ DataOf(codes) \in Seq(Seq(Tokens)) /\ BitsOf(codes) \in Seq(Seq(BOOLEAN))
           /\ Len(DataOf(codes)) = Len(codes) /\ Len(BitsOf(codes)) = Len(codes)
           /\ Len(codes) \in Nat
           /\ \A i \in 1..Len(codes) :
                  /\ DataOf(codes)[i] = codes[i].data /\ BitsOf(codes)[i] = codes[i].bits
                  /\ codes[i] \in Codes
<1>1. Len(codes) \in Nat /\ \A i \in 1..Len(codes) : codes[i] \in Codes
  BY LenProperties, ElementOfSeq
<1>2. \A i \in 1..Len(codes) :
          codes[i].data \in Seq(Tokens) /\ codes[i].bits \in Seq(BOOLEAN)
  BY <1>1 DEF Codes
<1>3. DataOf(codes) \in Seq(Seq(Tokens)) /\ Len(DataOf(codes)) = Len(codes)
  BY <1>1, <1>2 DEF DataOf
<1>4. BitsOf(codes) \in Seq(Seq(BOOLEAN)) /\ Len(BitsOf(codes)) = Len(codes)
  BY <1>1, <1>2 DEF BitsOf
<1> QED
  BY <1>1, <1>3, <1>4 DEF DataOf, BitsOf

\* What is left begins with the next code.
LEMMA ReadsNext ==
    ASSUME NEW codes \in Seq(Codes), NEW k \in 1..Len(codes),
           NEW rest \in Seq(Tokens), NEW V, NEW values \in Seq(V)
    PROVE  Reads(Tokens, V, Here(codes, k - 1, rest, values), codes[k],
                 DataAfter(codes, k, rest), BitsAfter(codes, k))
<1> DEFINE n == Len(codes)
           D == DataOf(codes)
           B == BitsOf(codes)
           d == FlattenSeq(SubSeq(D, k + 1, Len(D)))
           b == FlattenSeq(SubSeq(B, k + 1, Len(B)))
<1>1. /\ D \in Seq(Seq(Tokens)) /\ B \in Seq(Seq(BOOLEAN)) /\ Len(D) = n /\ Len(B) = n
      /\ n \in Nat /\ D[k] = codes[k].data /\ B[k] = codes[k].bits
      /\ codes[k] \in Codes
  BY CodesParts
<1> HIDE DEF D, B, n
<1>2. k \in 1..Len(D) /\ k \in 1..Len(B) /\ k - 1 + 1 = k
  BY <1>1 DEF n
<1>3. d \in Seq(Tokens) /\ FlattenSeq(SubSeq(D, k, Len(D))) = codes[k].data \o d
  BY <1>1, <1>2, FlattenRest
<1>4. b \in Seq(BOOLEAN) /\ FlattenSeq(SubSeq(B, k, Len(B))) = codes[k].bits \o b
  BY <1>1, <1>2, FlattenRest
<1>5. /\ DataAfter(codes, k, rest) = d \o rest
      /\ BitsAfter(codes, k) = b
  BY <1>1 DEF DataAfter, BitsAfter, D, B, n
<1>6. /\ DataAfter(codes, k - 1, rest) = (codes[k].data \o d) \o rest
      /\ BitsAfter(codes, k - 1) = codes[k].bits \o b
  BY <1>1, <1>2, <1>3, <1>4 DEF DataAfter, BitsAfter, D, B, n
<1> HIDE DEF d, b
<1> DEFINE data == codes[k].data
           bits == codes[k].bits
<1>7. data \in Seq(Tokens) /\ bits \in Seq(BOOLEAN)
  BY <1>1 DEF Codes
<1> HIDE DEF data, bits
<1>8. (data \o d) \o rest = data \o (d \o rest)
  <2>1. Regroups(Tokens)
    BY Regroup
  <2> QED
    BY <1>3, <1>7, <2>1 DEF Regroups
<1>9. d \o rest \in Seq(Tokens) /\ data \o (d \o rest) \in Seq(Tokens)
      /\ bits \o b \in Seq(BOOLEAN)
  BY <1>3, <1>4, <1>7, ConcatProperties
<1>10. BitStreamNumber(bits \o b) \in Nat
  BY <1>9, BitStreamNumberType
<1> DEFINE c == Here(codes, k - 1, rest, values)
<1>11. c = [stream |-> data \o (d \o rest), bits |-> BitStreamNumber(bits \o b), values |-> values]
  BY <1>6, <1>8 DEF Here, At, data, bits
<1> HIDE DEF c
<1>12. c \in Cursors(Tokens, V)
  BY <1>9, <1>10, <1>11 DEF Cursors
<1>13. StartsWith(c, data, d \o rest) /\ c.bits = BitStreamNumber(bits \o b)
  BY <1>11 DEF StartsWith
<1>14. Reads(Tokens, V, c, codes[k], d \o rest, b)
  BY <1>4, <1>9, <1>12, <1>13 DEF Reads, data, bits
<1> QED
  BY <1>5, <1>14 DEF c

\* The cursor before field k leads to the one after it.
DecodesAt(fields, codes, k, rest, values) ==
    Decode(Here(codes, k - 1, rest, values), fields[k].type) =
        {Here(codes, k, rest, Append(values, FieldValue(fields[k])))}

\* The contracts read the next field.
LEMMA DecodesNext ==
    ASSUME NEW fields, NEW codes, Compressed(fields, codes),
           NEW k \in 1..Len(fields), NEW rest \in Seq(Tokens), NEW values, IsSeq(values)
    PROVE  DecodesAt(fields, codes, k, rest, values)
<1>1. PICK V : values \in Seq(V)
  BY DEF IsSeq
<1>2. /\ codes \in Seq(Codes) /\ k \in 1..Len(codes)
      /\ fields[k] \in FieldTypes /\ Encodes(fields[k], codes[k])
  BY ElementOfSeq DEF Compressed
<1> DEFINE c == Here(codes, k - 1, rest, values)
           d == DataAfter(codes, k, rest)
           b == BitsAfter(codes, k)
           field == fields[k]
           code == codes[k]
<1>3. Reads(Tokens, V, c, code, d, b)
  BY <1>1, <1>2, ReadsNext
<1>4. c.values = values
  BY DEF Here, At
<1>5. field \in FieldTypes /\ Encodes(field, code)
  BY <1>2
<1> HIDE DEF c, d, b, field, code
<1>6. Decode(c, field.type) = {At(d, b, Append(c.values, FieldValue(field)))}
  BY <1>3, <1>5, DecodesField
<1> QED
  BY <1>4, <1>6 DEF c, d, b, Here, field, DecodesAt

\* All codes are left at first, and none in the end.
LEMMA FirstAndLast ==
    ASSUME NEW codes \in Seq(Codes), NEW rest \in Seq(Tokens), NEW values
    PROVE  /\ Here(codes, 0, rest, values) =
                  At(FlattenSeq(DataOf(codes)) \o rest, FlattenSeq(BitsOf(codes)), values)
           /\ Here(codes, Len(codes), rest, values) = At(rest, <<>>, values)
<1> DEFINE n == Len(codes)
           D == DataOf(codes)
           B == BitsOf(codes)
<1>1. D \in Seq(Seq(Tokens)) /\ B \in Seq(Seq(BOOLEAN)) /\ Len(D) = n /\ Len(B) = n /\ n \in Nat
  BY CodesParts
<1> HIDE DEF D, B, n
<1>2. SubSeq(D, 1, n) = D /\ SubSeq(B, 1, n) = B
  BY <1>1, SubSeqFull
<1>3. SubSeq(D, n + 1, n) = <<>> /\ SubSeq(B, n + 1, n) = <<>>
  BY <1>1, SubSeqEmpty
<1>4. FlattenSeq(<<>>) = <<>> /\ <<>> \o rest = rest
  BY ConcatEmptySeq DEF FlattenSeq
<1>5. DataAfter(codes, 0, rest) = FlattenSeq(D) \o rest /\ BitsAfter(codes, 0) = FlattenSeq(B)
  <2>1. 0 + 1 = 1
    OBVIOUS
  <2> QED
    BY <1>2, <2>1 DEF DataAfter, BitsAfter, D, B, n
<1>6. DataAfter(codes, n, rest) = rest /\ BitsAfter(codes, n) = <<>>
  BY <1>3, <1>4 DEF DataAfter, BitsAfter, D, B, n
<1> QED
  BY <1>5, <1>6 DEF Here, D, B, n

\* What is read of n fields after q of them.
Values(fields, q, n) == [j \in 1..n |-> FieldValue(fields[q + j])]

ValuesAfter(values, fields, q, n) == values \o Values(fields, q, n)

ValuesGrow(values, fields, q, n) ==
    /\ IsSeq(ValuesAfter(values, fields, q, n))
    /\ IsSeq(ValuesAfter(values, fields, q, n - 1))
    /\ Append(ValuesAfter(values, fields, q, n - 1), FieldValue(fields[q + n])) =
           ValuesAfter(values, fields, q, n)
    /\ ValuesAfter(values, fields, q, 0) = values

\* One more field is one more value.
LEMMA ValuesAppend ==
    ASSUME NEW fields, NEW q \in Nat, NEW n \in Nat \ {0}, NEW values, IsSeq(values)
    PROVE  ValuesGrow(values, fields, q, n)
<1>1. PICK U : values \in Seq(U)
  BY DEF IsSeq
<1> DEFINE V == U \union {FieldValue(fields[q + j]) : j \in 1..n}
           s == Values(fields, q, n - 1)
           e == FieldValue(fields[q + n])
           t == Values(fields, q, n)
<1>2. values \in Seq(V)
  BY <1>1, SeqMonotonic
<1>3. s \in Seq(V) /\ t \in Seq(V) /\ e \in V /\ Len(s) = n - 1 /\ Len(t) = n
  BY DEF Values
<1>4. t = s \o <<e>>
  <2>1. s \o <<e>> = Append(s, e)
    BY <1>3, AppendIsConcat
  <2>2. /\ Append(s, e) \in Seq(V) /\ Len(Append(s, e)) = n
        /\ \A i \in 1..(n - 1) : Append(s, e)[i] = s[i]
        /\ Append(s, e)[n] = e
    <3> HIDE DEF s, e, V, t
    <3>1. Append(s, e)[Len(s) + 1] = e /\ \A i \in 1..Len(s) : Append(s, e)[i] = s[i]
      BY <1>3, AppendProperties
    <3>2. Append(s, e) \in Seq(V) /\ Len(Append(s, e)) = Len(s) + 1
      BY <1>3, AppendProperties
    <3>3. Len(s) + 1 = n
      BY <1>3
    <3> QED
      BY <1>3, <3>1, <3>2, <3>3
  <2>3. \A i \in 1..n : t[i] = Append(s, e)[i]
    <3>1. \A i \in 1..(n - 1) : t[i] = s[i]
      BY DEF Values
    <3>2. t[n] = e
      BY DEF Values
    <3> HIDE DEF s, e, t
    <3> QED
      BY <2>2, <3>1, <3>2
  <2> HIDE DEF s, e, t, V
  <2> QED
    BY <1>3, <2>1, <2>2, <2>3, SeqEqual
<1> HIDE DEF V
<1>5. values \o t \in Seq(V) /\ values \o s \in Seq(V) /\ <<e>> \in Seq(V)
  <2> HIDE DEF s, e, t
  <2> QED
    BY <1>2, <1>3, ConcatProperties
<1>6. Append(values \o s, e) = values \o t
  <2> HIDE DEF s, e, t
  <2>1. Append(values \o s, e) = (values \o s) \o <<e>>
    BY <1>3, <1>5, AppendIsConcat
  <2>2. Regroups(V)
    BY Regroup
  <2>3. (values \o s) \o <<e>> = values \o (s \o <<e>>)
    BY <1>2, <1>3, <1>5, <2>2 DEF Regroups
  <2> QED
    BY <1>4, <2>1, <2>3
<1>7. values \o Values(fields, q, 0) = values
  <2>1. Values(fields, q, 0) = <<>>
    BY DEF Values
  <2> QED
    BY <1>2, <2>1, ConcatEmptySeq
<1> QED
  BY <1>5, <1>6, <1>7 DEF IsSeq, ValuesAfter, ValuesGrow

\* These fields are the next ones after q others.
Following(fields, codes, q, s) ==
    /\ Compressed(fields, codes)
    /\ q \in Nat /\ Len(s) \in Nat /\ q + Len(s) <= Len(fields)
    /\ \A j \in 1..Len(s) : fields[q + j] = s[j]

AreTypesOf(types, s) ==
    Len(types) = Len(s) /\ \A j \in 1..Len(s) : types[j] = s[j].type

ValuesOf(s) == [j \in 1..Len(s) |-> FieldValue(s[j])]

DecodesAll(codes, q, s, types, rest, values) ==
    DecodeFields(Here(codes, q, rest, values), types) =
        {Here(codes, q + Len(s), rest, values \o ValuesOf(s))}

\* The contracts read the fields that follow.
LEMMA DecodesFollowing ==
    ASSUME NEW fields, NEW codes, NEW q, NEW s, Following(fields, codes, q, s),
           NEW types, AreTypesOf(types, s),
           NEW rest \in Seq(Tokens), NEW values, IsSeq(values)
    PROVE  DecodesAll(codes, q, s, types, rest, values)
<1> DEFINE n == Len(types)
           C == [i \in 0..n |-> Here(codes, q + i, rest, ValuesAfter(values, fields, q, i))]
<1>0. /\ Compressed(fields, codes) /\ q \in Nat /\ n \in Nat /\ q + n <= Len(fields)
      /\ n = Len(s) /\ \A j \in 1..n : types[j] = fields[q + j].type
  BY DEF Following, AreTypesOf
<1>1. Len(fields) \in Nat
  BY LenProperties DEF Following, Compressed
<1>2. ASSUME NEW i \in 1..n PROVE Decode(C[i - 1], types[i]) = {C[i]}
  <2> DEFINE k == q + i
             v == ValuesAfter(values, fields, q, i - 1)
  <2>1. k \in 1..Len(fields) /\ i - 1 \in 0..n /\ i \in 0..n /\ q + (i - 1) = k - 1
        /\ i \in Nat \ {0}
    BY <1>0, <1>1
  <2>2. C[i - 1] = Here(codes, k - 1, rest, v)
    BY <2>1
  <2>3. C[i] = Here(codes, k, rest, ValuesAfter(values, fields, q, i))
    BY <2>1
  <2>4. IsSeq(v) /\ Append(v, FieldValue(fields[k])) = ValuesAfter(values, fields, q, i)
    <3>1. ValuesGrow(values, fields, q, i)
      BY <1>0, <2>1, ValuesAppend
    <3> QED
      BY <3>1 DEF ValuesGrow, k, v
  <2>5. types[i] = fields[k].type
    BY <1>0
  <2> HIDE DEF C, k, v
  <2>6. Decode(Here(codes, k - 1, rest, v), fields[k].type) =
            {Here(codes, k, rest, Append(v, FieldValue(fields[k])))}
    <3>1. DecodesAt(fields, codes, k, rest, v)
      BY <1>0, <2>1, <2>4, DecodesNext
    <3> QED
      BY <3>1 DEF DecodesAt
  <2> QED
    BY <2>2, <2>3, <2>4, <2>5, <2>6
<1>3. C[0] = Here(codes, q, rest, values)
  <2>1. ValuesAfter(values, fields, q, 0) = values
    <3>1. 1 \in Nat \ {0}
      OBVIOUS
    <3>2. ValuesGrow(values, fields, q, 1)
      BY <1>0, <3>1, ValuesAppend
    <3> QED
      BY <3>2 DEF ValuesGrow
  <2>2. 0 \in 0..n /\ q + 0 = q
    BY <1>0
  <2> QED
    BY <2>1, <2>2
<1>4. C[n] = Here(codes, q + n, rest, ValuesAfter(values, fields, q, n))
  BY <1>0
<1> HIDE DEF C
<1>5. DecodeFields(C[0], types) = {C[Len(types)]}
  BY <1>0, <1>2, FieldsInTurn
<1>6. ValuesAfter(values, fields, q, n) = values \o ValuesOf(s)
  <2>1. Values(fields, q, n) = ValuesOf(s)
    BY <1>0 DEF Values, ValuesOf, Following
  <2> QED
    BY <2>1 DEF ValuesAfter
<1> QED
  BY <1>0, <1>3, <1>4, <1>5, <1>6 DEF DecodesAll

-----------------------------------------------------------------------------
(* Actions                                                                  *)

\* The fields of such a cursor.
LEMMA HereFields ==
    ASSUME NEW codes, NEW k, NEW rest, NEW values
    PROVE  /\ Here(codes, k, rest, values).values = values
           /\ Fresh(Here(codes, k, rest, values)) = Here(codes, k, rest, <<>>)
           /\ \A c, x : Result(Here(codes, k, rest, values), c, x) =
                            Here(codes, k, rest, Append(c.values, x))
<1> DEFINE s == DataAfter(codes, k, rest)
           b == BitStreamNumber(BitsAfter(codes, k))
<1>1. \A v : Here(codes, k, rest, v) = [stream |-> s, bits |-> b, values |-> v]
  BY DEF Here, At
<1> HIDE DEF s, b
<1>2. \A v, w : [Here(codes, k, rest, v) EXCEPT !.values = w] = Here(codes, k, rest, w)
  BY <1>1
<1>3. Here(codes, k, rest, values).values = values
  BY <1>1
<1> QED
  BY <1>2, <1>3 DEF Fresh, Result

\* Before the first field there is no value.
LEMMA EmptyValues == IsSeq(<<>>) /\ \A s : Len(s) \in Nat => <<>> \o ValuesOf(s) = ValuesOf(s)
<1>1. <<>> \in Seq({})
  OBVIOUS
<1>2. ASSUME NEW s, Len(s) \in Nat PROVE <<>> \o ValuesOf(s) = ValuesOf(s)
  <2>1. ValuesOf(s) \in Seq({FieldValue(s[j]) : j \in 1..Len(s)})
    BY <1>2 DEF ValuesOf
  <2> QED
    BY <2>1, ConcatEmptySeq
<1> QED
  BY <1>1, <1>2 DEF IsSeq

\* The action, after the others, and what follows its fields.
LEMMA ExpandsFallbackAction ==
    ASSUME NEW fields, NEW codes, NEW q, NEW action \in Actions,
           Following(fields, codes, q, FallbackAction(action)),
           NEW rest \in Seq(Tokens), NEW values, IsSeq(values)
    PROVE  ExpandFallbackAction(Here(codes, q, rest, values)) =
               {Here(codes, q + Len(FallbackAction(action)), rest, Append(values, action))}
<1> DEFINE s == FallbackAction(action)
           c == Here(codes, q, rest, values)
           types == <<"float", "address", "vlq", "call">>
           v == ValuesOf(s)
           d == Here(codes, q + Len(s), rest, v)
<1>1. /\ Len(s) = 4 /\ Len(types) = 4
      /\ \A j \in 1..4 : types[j] = s[j].type
      /\ s[1] = Field("float", action.ethValue) /\ s[2] = Field("address", action.contract)
      /\ s[3] = Field("vlq", CallLength[action.call.method])
      /\ s[4] = Field("call", action.call)
  BY DEF FallbackAction, Field
<1>2. /\ v[1] = action.ethValue /\ v[2] = action.contract
      /\ v[3] = CallLength[action.call.method] /\ v[4] = action.call
  BY <1>1 DEF ValuesOf, FieldValue, Field
<1>3. action = Action(v[1], v[2], v[4])
  BY <1>2 DEF Actions, Action
<1> HIDE DEF s, c, types
<1>4. DecodeFields(Fresh(c), types) = {d}
  <2>1. Fresh(c) = Here(codes, q, rest, <<>>)
    BY HereFields DEF c
  <2>2. IsSeq(<<>>) /\ <<>> \o ValuesOf(s) = ValuesOf(s)
    BY <1>1, EmptyValues
  <2>3. Following(fields, codes, q, s) /\ AreTypesOf(types, s)
    BY <1>1 DEF s, AreTypesOf
  <2>4. DecodesAll(codes, q, s, types, rest, <<>>)
    BY <2>2, <2>3, DecodesFollowing
  <2> QED
    BY <2>1, <2>2, <2>4 DEF DecodesAll
<1>5. /\ d.values = v
      /\ Result(d, c, Action(v[1], v[2], v[4])) = Here(codes, q + Len(s), rest, Append(values, action))
  <2>1. c.values = values
    BY HereFields DEF c
  <2> QED
    BY <1>3, <2>1, HereFields
<1> HIDE DEF v, d
<1>6. d.values[3] = CallLength[d.values[4].method]
  BY <1>2, <1>5
<1>7. ExpandFallbackAction(c) = {Result(d, c, Action(v[1], v[2], v[4]))}
  BY <1>4, <1>5, <1>6 DEF ExpandFallbackAction, types
<1> QED
  BY <1>5, <1>7 DEF s, c

\* What follows in two parts.
LEMMA FollowingParts ==
    ASSUME NEW S, NEW h \in Seq(S), NEW t \in Seq(S), NEW fields, NEW codes, NEW q,
           Following(fields, codes, q, h \o t)
    PROVE  /\ Following(fields, codes, q, h)
           /\ Following(fields, codes, q + Len(h), t)
           /\ Len(h \o t) = Len(h) + Len(t)
<1> DEFINE n == Len(h)
           m == Len(t)
           both == h \o t
<1>1. /\ n \in Nat /\ m \in Nat /\ Len(both) = n + m
      /\ \A i \in 1..(n + m) : both[i] = IF i <= n THEN h[i] ELSE t[i - n]
  BY LenProperties, ConcatProperties
<1>2. /\ Compressed(fields, codes) /\ q \in Nat /\ q + Len(both) <= Len(fields)
      /\ \A j \in 1..Len(both) : fields[q + j] = both[j]
  BY DEF Following
<1>3. Len(fields) \in Nat
  BY <1>2, LenProperties DEF Compressed
<1> HIDE DEF both
<1>4. ASSUME NEW j \in 1..n PROVE fields[q + j] = h[j]
  <2>1. j \in 1..(n + m) /\ j <= n
    BY <1>1
  <2> QED
    BY <1>1, <1>2, <2>1
<1>5. ASSUME NEW j \in 1..m PROVE fields[q + n + j] = t[j]
  <2> DEFINE i == n + j
  <2>1. i \in 1..(n + m) /\ ~(i <= n) /\ i - n = j /\ q + n + j = q + i
    BY <1>1, <1>2
  <2> HIDE DEF i
  <2> QED
    BY <1>1, <1>2, <2>1
<1>6. q + n <= Len(fields) /\ q + n + m <= Len(fields) /\ q + n \in Nat
  BY <1>1, <1>2, <1>3
<1> QED
  BY <1>1, <1>2, <1>4, <1>5, <1>6 DEF Following, both

FieldValues == {FieldValue(f) : f \in FieldTypes}

\* The values of two parts, one after the other.
LEMMA ValuesOfParts ==
    ASSUME NEW h \in Seq(FieldTypes), NEW t \in Seq(FieldTypes)
    PROVE  /\ ValuesOf(h) \in Seq(FieldValues) /\ Len(ValuesOf(h)) = Len(h)
           /\ ValuesOf(h \o t) = ValuesOf(h) \o ValuesOf(t)
<1> DEFINE n == Len(h)
           m == Len(t)
           both == h \o t
           v == ValuesOf(h)
           w == ValuesOf(t)
           vw == ValuesOf(both)
<1>1. /\ n \in Nat /\ m \in Nat /\ Len(both) = n + m /\ both \in Seq(FieldTypes)
      /\ \A i \in 1..(n + m) : both[i] = IF i <= n THEN h[i] ELSE t[i - n]
  BY LenProperties, ConcatProperties
<1>2. ASSUME NEW s \in Seq(FieldTypes)
      PROVE  /\ ValuesOf(s) \in Seq(FieldValues) /\ Len(ValuesOf(s)) = Len(s)
             /\ \A i \in 1..Len(s) : ValuesOf(s)[i] = FieldValue(s[i])
  <2>1. Len(s) \in Nat /\ \A i \in 1..Len(s) : FieldValue(s[i]) \in FieldValues
    BY LenProperties, ElementOfSeq DEF FieldValues
  <2> QED
    BY <2>1 DEF ValuesOf
<1>3. /\ v \in Seq(FieldValues) /\ Len(v) = n
      /\ \A i \in 1..n : v[i] = FieldValue(h[i])
  BY <1>2
<1>4. /\ w \in Seq(FieldValues) /\ Len(w) = m
      /\ \A i \in 1..m : w[i] = FieldValue(t[i])
  BY <1>2
<1>5. /\ vw \in Seq(FieldValues) /\ Len(vw) = n + m
      /\ \A i \in 1..(n + m) : vw[i] = FieldValue(both[i])
  BY <1>1, <1>2
<1> HIDE DEF v, w, vw, both
<1>6. /\ v \o w \in Seq(FieldValues) /\ Len(v \o w) = n + m
      /\ \A i \in 1..(n + m) : (v \o w)[i] = IF i <= n THEN v[i] ELSE w[i - n]
  <2>1. v \in Seq(FieldValues) /\ w \in Seq(FieldValues)
    BY <1>3, <1>4
  <2>2. /\ v \o w \in Seq(FieldValues) /\ Len(v \o w) = Len(v) + Len(w)
        /\ \A i \in 1..(Len(v) + Len(w)) :
               (v \o w)[i] = IF i <= Len(v) THEN v[i] ELSE w[i - Len(v)]
    BY <2>1, ConcatProperties
  <2> QED
    BY <1>3, <1>4, <2>2
<1>7. ASSUME NEW i \in 1..(n + m) PROVE vw[i] = (v \o w)[i]
  <2>1. CASE i <= n
    <3>1. i \in 1..n
      BY <1>1, <2>1
    <3> QED
      BY <1>1, <1>3, <1>5, <1>6, <2>1, <3>1
  <2>2. CASE ~(i <= n)
    <3> DEFINE j == i - n
    <3>1. j \in 1..m
      BY <1>1, <2>2
    <3>2. both[i] = t[j] /\ (v \o w)[i] = w[j]
      BY <1>1, <1>6, <2>2
    <3> HIDE DEF j
    <3> QED
      BY <1>4, <1>5, <3>1, <3>2
  <2> QED
    BY <2>1, <2>2
<1>8. vw = v \o w
  BY <1>5, <1>6, <1>7, SeqEqual
<1> QED
  BY <1>3, <1>8 DEF v, w, vw, both

\* What the compressor of tokens encodes of an action.
Erc20Head(action, index) == <<Field("address", action.contract), Field("vlq", index - 1)>>

WordFields(words) == [i \in DOMAIN words |-> Field("address", words[i])]

Erc20Arguments(action, max) ==
    WordFields(action.call.words)
    \o IF max THEN <<>> ELSE <<Field("float", action.call.value)>>

IsErc20(action) ==
    /\ action \in Actions /\ HasArguments(action.call)
    /\ action.call.method \in Range(Erc20Methods)
    /\ action.ethValue = 0

Erc20Encoding(action, index, max) ==
    /\ index \in 1..5 /\ max \in BOOLEAN
    /\ Erc20Methods[index] = action.call.method
    /\ max <=> index = 4
    /\ max => action.call.value = MaxUint
    /\ Erc20Head(action, index) \in Seq(FieldTypes)
    /\ Erc20Arguments(action, max) \in Seq(FieldTypes)
    /\ Erc20Action(action) = Erc20Head(action, index) \o Erc20Arguments(action, max)
    /\ AreTypesOf(Erc20Types[index], Erc20Arguments(action, max))

\* The number of a method: approve has two, and the first is found.
LEMMA Erc20Number ==
    ASSUME NEW method \in Range(Erc20Methods)
    PROVE  /\ SelectInSeq(Erc20Methods, LAMBDA m : m = method) \in {1, 2, 3, 5}
           /\ Erc20Methods[SelectInSeq(Erc20Methods, LAMBDA m : m = method)] = method
<1> DEFINE I == {i \in 1..Len(Erc20Methods) : Erc20Methods[i] = method}
<1>1. method \in {"transfer", "transferFrom", "approve", "mint"}
  BY DEF Erc20Methods, Range
<1>2. Len(Erc20Methods) = 5
  BY DEF Erc20Methods
<1>3. /\ method = "transfer" => I = {1}
      /\ method = "transferFrom" => I = {2}
      /\ method = "approve" => I = {3, 4}
      /\ method = "mint" => I = {5}
  BY <1>2 DEF Erc20Methods
<1>4. \E j \in I : \A k \in I : j <= k
  BY <1>1, <1>3
<1>5. SelectInSeq(Erc20Methods, LAMBDA m : m = method) = Min(I)
  BY <1>4 DEF SelectInSeq
<1>6. Min(I) \in I /\ \A k \in I : Min(I) <= k
  BY <1>4 DEF Min
<1> HIDE DEF I
<1>7. Min(I) \in {1, 2, 3, 5}
  BY <1>1, <1>3, <1>6
<1>8. Erc20Methods[Min(I)] = method
  BY <1>6 DEF I
<1> QED
  BY <1>5, <1>7, <1>8

\* How an action of a token is encoded, in two parts.
LEMMA Erc20Encodes ==
    ASSUME NEW action, IsErc20(action)
    PROVE  \E index, max : Erc20Encoding(action, index, max)
<1> DEFINE call == action.call
           words == call.words
           max == call.method = "approve" /\ call.value = MaxUint
           number == SelectInSeq(Erc20Methods, LAMBDA m : m = call.method)
           index == IF max THEN 4 ELSE number
           w == WordFields(words)
           last == IF max THEN <<>> ELSE <<Field("float", call.value)>>
           head == Erc20Head(action, index)
<1>1. /\ call \in Calls /\ action.contract \in Addresses
      /\ call.method \in Range(Erc20Methods)
  BY DEF IsErc20, Actions
<1>2. /\ words \in Seq(Addresses) /\ call.value \in Words
      /\ Len(words) = IF call.method = "transferFrom" THEN 2 ELSE 1
  BY <1>1 DEF IsErc20, HasArguments, Calls
<1>3. number \in {1, 2, 3, 5} /\ Erc20Methods[number] = call.method
  BY <1>1, Erc20Number
<1> HIDE DEF number
<1>4. /\ index \in 1..5 /\ Erc20Methods[index] = call.method
      /\ max <=> index = 4
  BY <1>3 DEF Erc20Methods
<1>5. /\ w \in Seq(FieldTypes) /\ Len(w) = Len(words)
      /\ \A i \in 1..Len(words) : w[i] = Field("address", words[i])
  <2>1. \A i \in 1..Len(words) : Field("address", words[i]) \in FieldTypes
    <3>1. \A i \in 1..Len(words) : words[i] \in Addresses
      BY <1>2, ElementOfSeq
    <3> QED
      BY <3>1 DEF FieldTypes, Field
  <2>2. DOMAIN words = 1..Len(words) /\ Len(words) \in Nat
    BY <1>2, LenProperties
  <2>3. w = [i \in 1..Len(words) |-> Field("address", words[i])]
    BY <2>2 DEF WordFields
  <2> HIDE DEF w, words
  <2> QED
    BY <2>1, <2>2, <2>3
<1>6. last \in Seq(FieldTypes) /\ Len(last) = (IF max THEN 0 ELSE 1)
      /\ (~max => last[1] = Field("float", call.value))
  <2>1. Field("float", call.value) \in FieldTypes
    BY <1>2 DEF FieldTypes, Field
  <2> DEFINE f == Field("float", call.value)
  <2> HIDE DEF f
  <2>2. f \in FieldTypes /\ last = IF max THEN <<>> ELSE <<f>>
    BY <2>1 DEF f
  <2> HIDE DEF last
  <2>3. CASE max
    BY <2>2, <2>3
  <2>4. CASE ~max
    BY <2>2, <2>4 DEF f
  <2> QED
    BY <2>3, <2>4
<1>7. head \in Seq(FieldTypes)
  <2>1. Field("address", action.contract) \in FieldTypes
    BY <1>1 DEF FieldTypes, Field
  <2>2. index - 1 \in Words
    BY <1>4, EncodingsAssumption DEF Words
  <2>3. Field("vlq", index - 1) \in FieldTypes
    BY <2>2 DEF FieldTypes, Field
  <2> QED
    BY <2>1, <2>3 DEF Erc20Head
<1>8. Erc20Action(action) = (head \o w) \o last
  BY DEF Erc20Action, Erc20Head, WordFields, number
<1>9. Erc20Arguments(action, max) = w \o last
  BY DEF Erc20Arguments
<1> HIDE DEF head, w, last
<1>10. (head \o w) \o last = head \o (w \o last)
  BY <1>5, <1>6, <1>7, Regroup DEF Regroups
<1>11. /\ w \o last \in Seq(FieldTypes) /\ Len(w \o last) = Len(w) + Len(last)
       /\ \A i \in 1..(Len(w) + Len(last)) :
              (w \o last)[i] = IF i <= Len(w) THEN w[i] ELSE last[i - Len(w)]
  <2>1. w \in Seq(FieldTypes) /\ last \in Seq(FieldTypes)
    BY <1>5, <1>6
  <2> HIDE DEF max, index, number, call, words
  <2> QED
    BY <2>1, ConcatProperties
<1>12. AreTypesOf(Erc20Types[index], w \o last)
  <2> DEFINE t == Erc20Types[index]
  <2>1. CASE index = 2
    <3>1. t = <<"address", "address", "float">> /\ Len(words) = 2 /\ ~max
      BY <1>2, <1>4, <2>1 DEF Erc20Types, Erc20Methods
    <3>2. w[1].type = "address" /\ w[2].type = "address" /\ last[1].type = "float"
      BY <1>5, <1>6, <3>1 DEF Field
    <3>3. Len(w) = 2 /\ Len(last) = 1
      BY <1>5, <1>6, <3>1
    <3>4. /\ Len(w \o last) = 3 /\ (w \o last)[1] = w[1] /\ (w \o last)[2] = w[2]
          /\ (w \o last)[3] = last[1]
      BY <1>11, <3>3
    <3> DEFINE s == w \o last
    <3> HIDE DEF s, t
    <3>5. Len(t) = 3 /\ t[1] = "address" /\ t[2] = "address" /\ t[3] = "float"
      BY <3>1
    <3>6. Len(s) = 3 /\ \A j \in 1..3 : t[j] = s[j].type
      BY <3>2, <3>4, <3>5 DEF s
    <3>7. AreTypesOf(t, s)
      BY <3>5, <3>6 DEF AreTypesOf
    <3> QED
      BY <3>7 DEF s, t
  <2>2. CASE index = 4
    <3>1. t = <<"address">> /\ Len(words) = 1 /\ max
      BY <1>2, <1>4, <2>2 DEF Erc20Types, Erc20Methods
    <3>2. w[1].type = "address"
      BY <1>5, <3>1 DEF Field
    <3>3. Len(w) = 1 /\ Len(last) = 0
      BY <1>5, <1>6, <3>1
    <3>4. Len(w \o last) = 1 /\ (w \o last)[1] = w[1]
      BY <1>11, <3>3
    <3> QED
      BY <3>1, <3>2, <3>4 DEF AreTypesOf
  <2>3. CASE index \in {1, 3, 5}
    <3>1. t = <<"address", "float">> /\ Len(words) = 1 /\ ~max
      BY <1>2, <1>4, <2>3 DEF Erc20Types, Erc20Methods
    <3>2. w[1].type = "address" /\ last[1].type = "float"
      BY <1>5, <1>6, <3>1 DEF Field
    <3>3. Len(w) = 1 /\ Len(last) = 1
      BY <1>5, <1>6, <3>1
    <3>4. Len(w \o last) = 2 /\ (w \o last)[1] = w[1] /\ (w \o last)[2] = last[1]
      BY <1>11, <3>3
    <3> DEFINE s == w \o last
    <3> HIDE DEF s, t
    <3>5. Len(t) = 2 /\ t[1] = "address" /\ t[2] = "float"
      BY <3>1
    <3>6. Len(s) = 2 /\ \A j \in 1..2 : t[j] = s[j].type
      BY <3>2, <3>4, <3>5 DEF s
    <3>7. AreTypesOf(t, s)
      BY <3>5, <3>6 DEF AreTypesOf
    <3> QED
      BY <3>7 DEF s, t
  <2> QED
    BY <1>4, <2>1, <2>2, <2>3
<1>13. Erc20Encoding(action, index, max)
  <2>1. /\ Erc20Arguments(action, max) \in Seq(FieldTypes)
        /\ AreTypesOf(Erc20Types[index], Erc20Arguments(action, max))
    BY <1>9, <1>11, <1>12
  <2>2. Erc20Action(action) = Erc20Head(action, index) \o Erc20Arguments(action, max)
    BY <1>8, <1>9, <1>10 DEF head
  <2>3. max \in BOOLEAN /\ (max => call.value = MaxUint) /\ Erc20Head(action, index) \in Seq(FieldTypes)
    BY <1>7 DEF head
  <2> HIDE DEF max, index
  <2> QED
    BY <1>4, <2>1, <2>2, <2>3 DEF Erc20Encoding
<1> QED
  BY <1>13

\* What comes before a last element, and that element.
LEMMA FrontAndLast ==
    ASSUME NEW S, NEW s \in Seq(S), NEW e
    PROVE  Front(s \o <<e>>) = s /\ Last(s \o <<e>>) = e
<1> DEFINE U == S \union {e}
           one == <<e>>
           n == Len(s)
<1>1. s \in Seq(U) /\ one \in Seq(U) /\ Len(one) = 1 /\ one[1] = e
  <2>1. e \in U
    OBVIOUS
  <2>2. s \in Seq(U)
    BY SeqMonotonic
  <2> HIDE DEF U
  <2> QED
    BY <2>1, <2>2
<1> HIDE DEF U, one
<1>2. /\ n \in Nat /\ Len(s \o one) = n + 1
      /\ \A i \in 1..(n + 1) : (s \o one)[i] = IF i <= n THEN s[i] ELSE one[i - n]
  <2>1. /\ Len(s \o one) = Len(s) + Len(one)
        /\ \A i \in 1..(Len(s) + Len(one)) :
               (s \o one)[i] = IF i <= Len(s) THEN s[i] ELSE one[i - Len(s)]
    BY <1>1, ConcatProperties
  <2> QED
    BY <1>1, <2>1, LenProperties
<1>3. SubSeq(s \o one, 1, n) = s
  BY <1>1, SplitConcat
<1>4. (s \o one)[n + 1] = e
  <2> DEFINE k == n + 1
  <2>1. k \in 1..(n + 1) /\ ~(k <= n) /\ k - n = 1
    BY <1>2
  <2> HIDE DEF k
  <2>2. (s \o one)[k] = one[1]
    BY <1>2, <2>1
  <2> QED
    BY <1>1, <2>2 DEF k
<1>5. Front(s \o one) = s
  <2>1. Len(s \o one) - 1 = n
    BY <1>2
  <2> QED
    BY <1>3, <2>1 DEF Front
<1>6. Last(s \o one) = e
  BY <1>2, <1>4 DEF Last
<1> QED
  BY <1>5, <1>6 DEF one

\* Addresses are their own values.
LEMMA ValuesOfWords ==
    ASSUME NEW words \in Seq(Addresses)
    PROVE  /\ WordFields(words) \in Seq(FieldTypes)
           /\ ValuesOf(WordFields(words)) = words
<1> DEFINE w == WordFields(words)
<1>1. \A i \in 1..Len(words) : words[i] \in Addresses
  BY ElementOfSeq
<1>2. \A i \in 1..Len(words) :
          /\ Field("address", words[i]) \in FieldTypes
          /\ FieldValue(Field("address", words[i])) = words[i]
  BY <1>1 DEF FieldTypes, Field, FieldValue
<1>3. DOMAIN words = 1..Len(words) /\ Len(words) \in Nat
      /\ words = [i \in 1..Len(words) |-> words[i]]
  BY LenProperties
<1>4. /\ w \in Seq(FieldTypes) /\ Len(w) = Len(words)
      /\ \A i \in 1..Len(words) : w[i] = Field("address", words[i])
  <2>1. w = [i \in 1..Len(words) |-> Field("address", words[i])]
    BY <1>3 DEF WordFields
  <2> HIDE DEF w
  <2> QED
    BY <1>2, <1>3, <2>1
<1> HIDE DEF w
<1>5. ValuesOf(w) = [i \in 1..Len(words) |-> words[i]]
  BY <1>2, <1>4 DEF ValuesOf
<1> QED
  BY <1>3, <1>4, <1>5 DEF w

\* The words and the number of a call of a token, from the values of its fields.
LEMMA ValuesOfArguments ==
    ASSUME NEW action, IsErc20(action), NEW index, NEW max,
           Erc20Encoding(action, index, max)
    PROVE  /\ ValuesOf(Erc20Arguments(action, max)) \in Seq(FieldValues)
           /\ ValuesOf(Erc20Arguments(action, max)) \o (IF max THEN <<MaxUint>> ELSE <<>>)
                  = action.call.words \o <<action.call.value>>
<1> DEFINE call == action.call
           words == call.words
           w == WordFields(words)
           last == IF max THEN <<>> ELSE <<Field("float", call.value)>>
           number == <<call.value>>
<1>1. words \in Seq(Addresses) /\ call.value \in Words
  BY DEF IsErc20, HasArguments, Actions, Calls
<1>2. w \in Seq(FieldTypes) /\ ValuesOf(w) = words
  BY <1>1, ValuesOfWords
<1>3. Field("float", call.value) \in FieldTypes /\ FieldValue(Field("float", call.value)) = call.value
  BY <1>1 DEF FieldTypes, Field, FieldValue
<1>4. last \in Seq(FieldTypes) /\ ValuesOf(last) = IF max THEN <<>> ELSE number
  <2> DEFINE f == Field("float", call.value)
  <2>1. f \in FieldTypes /\ FieldValue(f) = call.value /\ last = IF max THEN <<>> ELSE <<f>>
    BY <1>3
  <2> HIDE DEF f, last
  <2>2. CASE max
    BY <2>1, <2>2 DEF ValuesOf
  <2>3. CASE ~max
    <3>1. last = <<f>> /\ Len(last) = 1
      BY <2>1, <2>3
    <3>2. ValuesOf(last) = [j \in 1..1 |-> call.value]
      BY <2>1, <3>1 DEF ValuesOf
    <3>3. [j \in 1..1 |-> call.value] = <<call.value>>
      OBVIOUS
    <3> QED
      BY <2>1, <2>3, <3>1, <3>2, <3>3
  <2> QED
    BY <2>2, <2>3
<1>5. Erc20Arguments(action, max) = w \o last
  BY DEF Erc20Arguments
<1> DEFINE x == ValuesOf(last)
<1>6. /\ words \in Seq(FieldValues) /\ x \in Seq(FieldValues)
      /\ ValuesOf(w \o last) = words \o x
  <2> HIDE DEF w, last, words
  <2> QED
    BY <1>2, <1>4, ValuesOfParts
<1>7. words \o x \in Seq(FieldValues)
  <2> HIDE DEF w, last, words, x
  <2> QED
    BY <1>6, ConcatProperties
<1>8. (words \o x) \o (IF max THEN <<MaxUint>> ELSE <<>>) = words \o number
  <2>1. CASE max
    <3>1. call.value = MaxUint /\ x = <<>>
      BY <1>4, <2>1 DEF Erc20Encoding
    <3>2. words \o <<>> = words
      BY <1>1, ConcatEmptySeq
    <3> QED
      BY <2>1, <3>1, <3>2
  <2>2. CASE ~max
    <3>1. x = number
      BY <1>4, <2>2
    <3> HIDE DEF words, x, number
    <3>2. (words \o x) \o <<>> = words \o x
      BY <1>7, ConcatEmptySeq
    <3> QED
      BY <2>2, <3>1, <3>2
  <2> QED
    BY <2>1, <2>2 DEF Erc20Encoding
<1> QED
  BY <1>5, <1>6, <1>7, <1>8

\* The values of its parts are expanded to the action.
LEMMA Erc20ExpandsTo ==
    ASSUME NEW action, IsErc20(action), NEW index, NEW max,
           Erc20Encoding(action, index, max)
    PROVE  /\ ValuesOf(Erc20Head(action, index)) = <<action.contract, index - 1>>
           /\ Erc20Expanded(ValuesOf(Erc20Head(action, index))
                            \o ValuesOf(Erc20Arguments(action, max))) = action
<1> DEFINE head == Erc20Head(action, index)
           h == ValuesOf(head)
           a == ValuesOf(Erc20Arguments(action, max))
           v == h \o a
           call == action.call
<1>1. Len(head) = 2 /\ head[1].type = "address" /\ head[2].type = "vlq"
      /\ head[1].value = action.contract /\ head[2].value = index - 1
  BY DEF Erc20Head, Field
<1>2. h = <<action.contract, index - 1>>
  <2>1. FieldValue(head[1]) = action.contract /\ FieldValue(head[2]) = index - 1
    BY <1>1 DEF FieldValue
  <2>2. h = [j \in 1..2 |-> FieldValue(head[j])]
    BY <1>1 DEF ValuesOf
  <2> HIDE DEF head, h
  <2>3. [j \in 1..2 |-> FieldValue(head[j])] = <<FieldValue(head[1]), FieldValue(head[2])>>
    OBVIOUS
  <2> QED
    BY <2>1, <2>2, <2>3
<1>3. /\ a \in Seq(FieldValues)
      /\ a \o (IF max THEN <<MaxUint>> ELSE <<>>) = call.words \o <<call.value>>
  BY ValuesOfArguments
<1> HIDE DEF a
<1>4. h \in Seq(FieldValues) /\ Len(h) = 2 /\ h[1] = action.contract /\ h[2] = index - 1
  <2>1. head \in Seq(FieldTypes)
    BY DEF Erc20Encoding
  <2> HIDE DEF head
  <2>2. h \in Seq(FieldValues)
    BY <2>1, ValuesOfParts
  <2> HIDE DEF h
  <2> QED
    BY <1>2, <2>2
<1> HIDE DEF h
<1>5. SubSeq(v, 3, Len(v)) = a /\ v[1] = action.contract /\ v[2] = index - 1
  <2>1. SubSeq(v, Len(h) + 1, Len(v)) = a
    BY <1>3, <1>4, SplitConcat
  <2>2. /\ \A i \in 1..(Len(h) + Len(a)) : v[i] = IF i <= Len(h) THEN h[i] ELSE a[i - Len(h)]
        /\ Len(a) \in Nat
    BY <1>3, <1>4, ConcatProperties, LenProperties
  <2> HIDE DEF v
  <2> QED
    BY <1>4, <2>1, <2>2
<1> HIDE DEF v
<1> DEFINE arguments == a \o (IF max THEN <<MaxUint>> ELSE <<>>)
<1>6. Front(arguments) = call.words /\ Last(arguments) = call.value
  <2>1. call.words \in Seq(Addresses)
    BY DEF IsErc20, HasArguments
  <2>2. /\ Front(call.words \o <<call.value>>) = call.words
        /\ Last(call.words \o <<call.value>>) = call.value
    BY <2>1, FrontAndLast
  <2> QED
    BY <1>3, <2>2
<1>7. (v[2] = 3 <=> max) /\ Erc20Methods[v[2] + 1] = call.method
  BY <1>5 DEF Erc20Encoding
<1>8. Erc20Expanded(v) = Action(0, v[1], Call(Erc20Methods[v[2] + 1], Front(arguments), Last(arguments)))
  BY <1>5, <1>7 DEF Erc20Expanded
<1>9. Action(0, action.contract, Call(call.method, call.words, call.value)) = action
  <2>1. action \in Actions /\ action.ethValue = 0
    BY DEF IsErc20
  <2>2. call \in Calls
    BY <2>1 DEF Actions
  <2>3. call = Call(call.method, call.words, call.value)
    <3> HIDE DEF call
    <3> QED
      BY <2>2 DEF Calls, Call
  <2> QED
    BY <2>1, <2>3 DEF Actions, Action
<1> QED
  BY <1>2, <1>5, <1>6, <1>7, <1>8, <1>9 DEF v, h, a

\* An action of a token, after the others.
LEMMA ExpandsErc20Action ==
    ASSUME NEW fields, NEW codes, NEW q, NEW action, IsErc20(action),
           Following(fields, codes, q, Erc20Action(action)),
           NEW rest \in Seq(Tokens), NEW values, IsSeq(values)
    PROVE  ExpandErc20Action(Here(codes, q, rest, values)) =
               {Here(codes, q + Len(Erc20Action(action)), rest, Append(values, action))}
<1> DEFINE c == Here(codes, q, rest, values)
<1>1. PICK index, max : Erc20Encoding(action, index, max)
  BY Erc20Encodes
<1> DEFINE h == Erc20Head(action, index)
           t == Erc20Arguments(action, max)
           v == ValuesOf(h)
           w == ValuesOf(t)
           types == <<"address", "vlq">>
           head == Here(codes, q + Len(h), rest, v)
           d == Here(codes, q + Len(h) + Len(t), rest, v \o w)
<1>2. /\ h \in Seq(FieldTypes) /\ t \in Seq(FieldTypes)
      /\ Erc20Action(action) = h \o t
      /\ AreTypesOf(Erc20Types[index], t)
      /\ index \in 1..5
  BY <1>1 DEF Erc20Encoding
<1>3. AreTypesOf(types, h)
  BY DEF AreTypesOf, Erc20Head, Field
<1>4. v = <<action.contract, index - 1>> /\ Erc20Expanded(v \o w) = action
  BY <1>1, Erc20ExpandsTo
<1> HIDE DEF h, t, types, c
<1>5. /\ Following(fields, codes, q, h) /\ Following(fields, codes, q + Len(h), t)
      /\ Len(Erc20Action(action)) = Len(h) + Len(t)
  BY <1>2, FollowingParts
<1>6. DecodeFields(Fresh(c), types) = {head}
  <2>1. Fresh(c) = Here(codes, q, rest, <<>>)
    BY HereFields DEF c
  <2>2. IsSeq(<<>>) /\ <<>> \o ValuesOf(h) = ValuesOf(h)
    BY <1>2, LenProperties, EmptyValues
  <2>3. DecodesAll(codes, q, h, types, rest, <<>>)
    BY <1>3, <1>5, <2>2, DecodesFollowing
  <2> QED
    BY <2>1, <2>2, <2>3 DEF DecodesAll
<1>7. DecodeFields(head, Erc20Types[index]) = {d}
  <2>1. IsSeq(v)
    BY <1>2, ValuesOfParts DEF IsSeq
  <2> HIDE DEF v
  <2>2. DecodesAll(codes, q + Len(h), t, Erc20Types[index], rest, v)
    BY <1>2, <1>5, <2>1, DecodesFollowing
  <2> QED
    BY <2>2 DEF DecodesAll
<1>8. head.values = v /\ d.values = v \o w /\ c.values = values
      /\ \A x : Result(d, c, x) = Here(codes, q + Len(h) + Len(t), rest, Append(values, x))
  <2> HIDE DEF v, w
  <2>1. head.values = v
    BY HereFields
  <2> DEFINE k == q + Len(h) + Len(t)
             u == v \o w
  <2> HIDE DEF k, u
  <2>2. d = Here(codes, k, rest, u)
    BY DEF k, u
  <2>3. d.values = u
    BY <2>2, HereFields
  <2>4. c.values = values
    BY HereFields DEF c
  <2>5. \A x : Result(d, c, x) = Here(codes, k, rest, Append(values, x))
    BY <2>2, <2>4, HereFields
  <2> QED
    BY <2>1, <2>3, <2>4, <2>5 DEF k, u
<1>9. head.values[2] = index - 1
  <2> DEFINE x == index - 1
  <2> HIDE DEF v, w, head, d, x
  <2>1. head.values = <<action.contract, x>>
    BY <1>4, <1>8 DEF x
  <2> QED
    BY <2>1 DEF x
<1> HIDE DEF head, d, v, w
<1>10. head.values[2] < Len(Erc20Methods) /\ head.values[2] + 1 = index
  BY <1>2, <1>9 DEF Erc20Methods
<1>11. ExpandErc20Action(c) = {Result(d, c, Erc20Expanded(d.values))}
  <2>1. {x \in DecodeFields(Fresh(c), types) : x.values[2] < Len(Erc20Methods)} = {head}
    BY <1>6, <1>10
  <2>2. ExpandErc20Action(c) =
            UNION { { Result(x, c, Erc20Expanded(x.values)) :
                          x \in DecodeFields(y, Erc20Types[y.values[2] + 1]) } :
                    y \in {x \in DecodeFields(Fresh(c), types) :
                               x.values[2] < Len(Erc20Methods)} }
    BY DEF ExpandErc20Action, types
  <2>3. ExpandErc20Action(c) =
            { Result(x, c, Erc20Expanded(x.values)) :
                x \in DecodeFields(head, Erc20Types[head.values[2] + 1]) }
    BY <2>1, <2>2
  <2> QED
    BY <1>7, <1>10, <2>3
<1>12. q + Len(h) + Len(t) = q + Len(Erc20Action(action))
  <2>1. q \in Nat /\ Len(h) \in Nat /\ Len(t) \in Nat
    BY <1>5 DEF Following
  <2> QED
    BY <1>5, <2>1
<1> QED
  BY <1>4, <1>8, <1>11, <1>12 DEF c

-----------------------------------------------------------------------------
(* All actions of an operation                                              *)

ActionCode(expander, action) ==
    IF expander = "erc20" THEN Erc20Action(action) ELSE FallbackAction(action)

ActionFits(expander, action) == action \in Actions /\ (expander = "erc20" => IsErc20(action))

ActionFields(expander, actions) ==
    [i \in 1..Len(actions) |-> ActionCode(expander, actions[i])]

ActionExpands(expander, codes, q, action, rest, values) ==
    ExpandAction(expander, Here(codes, q, rest, values)) =
        {Here(codes, q + Len(ActionCode(expander, action)), rest, Append(values, action))}

\* An action is expanded to itself.
LEMMA ExpandsAction ==
    ASSUME NEW expander, NEW action, ActionFits(expander, action),
           NEW fields, NEW codes, NEW q,
           Following(fields, codes, q, ActionCode(expander, action)),
           NEW rest \in Seq(Tokens), NEW values, IsSeq(values)
    PROVE  ActionExpands(expander, codes, q, action, rest, values)
<1>1. CASE expander = "erc20"
  <2>1. IsErc20(action) /\ Following(fields, codes, q, Erc20Action(action))
    BY <1>1 DEF ActionFits, ActionCode
  <2>2. ExpandErc20Action(Here(codes, q, rest, values)) =
            {Here(codes, q + Len(Erc20Action(action)), rest, Append(values, action))}
    BY <2>1, ExpandsErc20Action
  <2> QED
    BY <1>1, <2>2 DEF ActionExpands, ActionCode, ExpandAction
<1>2. CASE expander # "erc20"
  <2>1. action \in Actions /\ Following(fields, codes, q, FallbackAction(action))
    BY <1>2 DEF ActionFits, ActionCode
  <2>2. ExpandFallbackAction(Here(codes, q, rest, values)) =
            {Here(codes, q + Len(FallbackAction(action)), rest, Append(values, action))}
    BY <2>1, ExpandsFallbackAction
  <2> QED
    BY <1>2, <2>2 DEF ActionExpands, ActionCode, ExpandAction
<1> QED
  BY <1>1, <1>2

\* The fields of an action.
LEMMA ActionCodeType ==
    ASSUME NEW expander, NEW action, ActionFits(expander, action)
    PROVE  ActionCode(expander, action) \in Seq(FieldTypes)
<1>1. CASE expander = "erc20"
  <2>1. PICK index, max : Erc20Encoding(action, index, max)
    BY <1>1, Erc20Encodes DEF ActionFits
  <2>2. Erc20Action(action) \in Seq(FieldTypes)
    BY <2>1, ConcatProperties DEF Erc20Encoding
  <2> QED
    BY <1>1, <2>2 DEF ActionCode
<1>2. CASE expander # "erc20"
  <2>1. /\ action.ethValue \in Words /\ action.contract \in Addresses
        /\ action.call \in Calls /\ action.call.method \in DOMAIN CallLength
    BY DEF ActionFits, Actions, Calls
  <2>2. CallLength[action.call.method] \in Words
    <3>1. CallLength[action.call.method] \in 0..132
      BY <2>1 DEF CallLength
    <3>2. 0..132 \subseteq Words
      BY EncodingsAssumption DEF Words
    <3> QED
      BY <3>1, <3>2
  <2>3. /\ Field("float", action.ethValue) \in FieldTypes
        /\ Field("address", action.contract) \in FieldTypes
        /\ Field("vlq", CallLength[action.call.method]) \in FieldTypes
        /\ Field("call", action.call) \in FieldTypes
    BY <2>1, <2>2 DEF FieldTypes, Field
  <2>4. FallbackAction(action) \in Seq(FieldTypes)
    BY <2>3 DEF FallbackAction
  <2> QED
    BY <1>2, <2>4 DEF ActionCode
<1> QED
  BY <1>1, <1>2

\* And those of all the actions.
LEMMA ActionFieldsType ==
    ASSUME NEW expander, NEW actions \in Seq(Actions),
           \A i \in 1..Len(actions) : ActionFits(expander, actions[i])
    PROVE  /\ ActionFields(expander, actions) \in Seq(Seq(FieldTypes))
           /\ Len(ActionFields(expander, actions)) = Len(actions)
           /\ \A i \in 1..Len(actions) :
                  ActionFields(expander, actions)[i] = ActionCode(expander, actions[i])
           /\ Len(actions) \in Nat
<1>1. \A i \in 1..Len(actions) : ActionCode(expander, actions[i]) \in Seq(FieldTypes)
  BY ActionCodeType
<1>2. Len(actions) \in Nat
  BY LenProperties
<1> DEFINE T == Seq(FieldTypes)
           s == ActionFields(expander, actions)
           n == Len(actions)
<1>3. s = [i \in 1..n |-> ActionCode(expander, actions[i])]
  BY DEF ActionFields
<1> HIDE DEF T, s, n
<1>4. s \in Seq(T) /\ Len(s) = n /\ \A i \in 1..n : s[i] = ActionCode(expander, actions[i])
  BY <1>1, <1>2, <1>3 DEF T, n
<1> QED
  BY <1>2, <1>4 DEF T, s, n

\* One of several that follow.
LEMMA FollowingAmong ==
    ASSUME NEW S, NEW s \in Seq(Seq(S)), NEW fields, NEW codes, NEW q,
           Following(fields, codes, q, FlattenSeq(s)), NEW a \in 1..Len(s)
    PROVE  Following(fields, codes, q + Len(Before(s, a)), s[a])
<1> DEFINE f == FlattenSeq(s)
           b == Len(Before(s, a))
           n == Len(s[a])
<1>1. /\ Before(s, a) \in Seq(S) /\ b + n <= Len(f)
      /\ \A j \in 1..n : f[b + j] = s[a][j]
  BY FlattenPositions
<1>2. b \in Nat /\ n \in Nat /\ Len(f) \in Nat
  <2>1. s[a] \in Seq(S) /\ f \in Seq(S)
    BY ElementOfSeq, FlattenType
  <2> QED
    BY <1>1, <2>1, LenProperties
<1>3. /\ Compressed(fields, codes) /\ q \in Nat /\ q + Len(f) <= Len(fields)
      /\ \A j \in 1..Len(f) : fields[q + j] = f[j]
  BY DEF Following
<1>4. Len(fields) \in Nat
  BY <1>3, LenProperties DEF Compressed
<1> HIDE DEF f, b, n
<1>5. ASSUME NEW j \in 1..n PROVE fields[q + b + j] = s[a][j]
  <2> DEFINE i == b + j
  <2>1. i \in 1..Len(f) /\ q + b + j = q + i
    BY <1>1, <1>2, <1>3
  <2> HIDE DEF i
  <2>2. fields[q + i] = f[i]
    BY <1>3, <2>1
  <2>3. f[i] = s[a][j]
    BY <1>1 DEF i
  <2> QED
    BY <2>1, <2>2, <2>3
<1>6. q + b \in Nat /\ q + b + n <= Len(fields)
  BY <1>1, <1>2, <1>3, <1>4
<1> QED
  BY <1>2, <1>3, <1>5, <1>6 DEF Following, b, n

\* The first of a sequence, and one more.
LEMMA OneMore ==
    ASSUME NEW S, NEW s \in Seq(S), NEW a \in 1..Len(s)
    PROVE  /\ SubSeq(s, 1, a) = Append(SubSeq(s, 1, a - 1), s[a])
           /\ SubSeq(s, 1, a - 1) \in Seq(S)
<1>1. Len(s) \in Nat /\ s[a] \in S /\ \A i \in 1..Len(s) : s[i] \in S
  BY LenProperties, ElementOfSeq
<1>2. SubSeq(s, 1, a) = SubSeq(s, 1, a - 1) \o <<s[a]>>
  <2>1. 1 \in 1..Len(s) /\ a \in 1..Len(s)
    BY <1>1
  <2> QED
    BY <2>1, SubSeqRecursiveSecond
<1>3. SubSeq(s, 1, a - 1) \in Seq(S)
  <2>1. 1 \in Int /\ a - 1 \in Int /\ \A i \in 1..(a - 1) : s[i] \in S
    BY <1>1
  <2> QED
    BY <2>1, SubSeqProperties
<1> DEFINE b == SubSeq(s, 1, a - 1)
           e == s[a]
<1>4. Append(b, e) = b \o <<e>>
  <2> HIDE DEF b, e
  <2>1. b \in Seq(S) /\ e \in S
    BY <1>1, <1>3 DEF b, e
  <2> QED
    BY <2>1, AppendIsConcat
<1> QED
  BY <1>2, <1>3, <1>4

ActionsExpand(expander, codes, q, actions, rest, values) ==
    ExpandActions(expander, Here(codes, q, rest, values), Len(actions)) =
        {Here(codes, q + Len(FlattenSeq(ActionFields(expander, actions))), rest, actions)}

\* The actions that follow are expanded, one after the other.
LEMMA ExpandsActions ==
    ASSUME NEW expander, NEW actions \in Seq(Actions),
           \A i \in 1..Len(actions) : ActionFits(expander, actions[i]),
           NEW fields, NEW codes, NEW q,
           Following(fields, codes, q, FlattenSeq(ActionFields(expander, actions))),
           NEW rest \in Seq(Tokens), NEW values
    PROVE  ActionsExpand(expander, codes, q, actions, rest, values)
<1> DEFINE s == ActionFields(expander, actions)
           n == Len(actions)
           p(a) == q + Len(Before(s, a))
           C == [i \in 0..n |-> Here(codes, p(i + 1), rest, SubSeq(actions, 1, i))]
           c == Here(codes, q, rest, values)
<1>1. /\ s \in Seq(Seq(FieldTypes)) /\ Len(s) = n /\ n \in Nat
      /\ \A i \in 1..n : s[i] = ActionCode(expander, actions[i])
  BY ActionFieldsType
<1> HIDE DEF s, n
<1>2. q \in Nat /\ Following(fields, codes, q, FlattenSeq(s))
  BY DEF Following, s
<1>3. ASSUME NEW a \in 1..n
      PROVE  ExpandAction(expander, C[a - 1]) = {C[a]}
  <2> DEFINE v == SubSeq(actions, 1, a - 1)
             action == actions[a]
             x == Len(Before(s, a))
             m == Len(s[a])
  <2>1. a \in 1..Len(s) /\ a \in 1..Len(actions)
    BY <1>1 DEF n
  <2>2. Following(fields, codes, q + x, s[a])
    BY <1>1, <1>2, <2>1, FollowingAmong
  <2>3. /\ Before(s, a) \in Seq(FieldTypes) /\ s[a] \in Seq(FieldTypes)
        /\ Before(s, a + 1) = Before(s, a) \o s[a]
    BY <1>1, <2>1, FlattenPositions, ElementOfSeq
  <2>4. Len(Before(s, a + 1)) = x + m /\ x \in Nat /\ m \in Nat
    BY <2>3, ConcatProperties, LenProperties
  <2>5. v \in Seq(Actions) /\ SubSeq(actions, 1, a) = Append(v, action)
    BY <2>1, OneMore
  <2>6. ActionFits(expander, action) /\ s[a] = ActionCode(expander, action)
    BY <1>1, <2>1
  <2>7. C[a - 1] = Here(codes, q + x, rest, v) /\ C[a] = Here(codes, q + (x + m), rest, Append(v, action))
    <3>1. a - 1 \in 0..n /\ a \in 0..n /\ a - 1 + 1 = a
      BY <1>1
    <3>2. C[a - 1] = Here(codes, p(a), rest, v)
      BY <3>1
    <3>3. C[a] = Here(codes, p(a + 1), rest, SubSeq(actions, 1, a))
      BY <3>1
    <3> HIDE DEF C
    <3> QED
      BY <2>4, <2>5, <3>2, <3>3
  <2> HIDE DEF C, v, action, x, m
  <2>8. IsSeq(v)
    BY <2>5 DEF IsSeq
  <2>9. ActionExpands(expander, codes, q + x, action, rest, v)
    BY <2>2, <2>6, <2>8, ExpandsAction
  <2>10. q + x + m = q + (x + m)
    BY <1>2, <2>4
  <2> QED
    BY <2>6, <2>7, <2>9, <2>10 DEF ActionExpands, m
<1>4. C[0] = Fresh(c)
  <2>1. SubSeq(s, 1, 0) = <<>> /\ SubSeq(actions, 1, 0) = <<>>
    BY SubSeqEmpty
  <2>2. Len(Before(s, 0 + 1)) = 0
    <3>1. 0 + 1 - 1 = 0
      OBVIOUS
    <3>2. Before(s, 0 + 1) = <<>>
      BY <2>1, <3>1 DEF Before, FlattenSeq
    <3> QED
      BY <3>2
  <2>3. Fresh(c) = Here(codes, q, rest, <<>>)
    BY HereFields
  <2>4. C[0] = Here(codes, p(0 + 1), rest, SubSeq(actions, 1, 0))
    BY <1>1
  <2>5. p(0 + 1) = q
    BY <1>2, <2>2
  <2> HIDE DEF C, p
  <2> QED
    BY <2>1, <2>3, <2>4, <2>5
<1>5. C[n] = Here(codes, q + Len(FlattenSeq(s)), rest, actions)
  <2>1. SubSeq(s, 1, n) = s /\ SubSeq(actions, 1, n) = actions
    BY <1>1, SubSeqFull DEF n
  <2>2. Before(s, n + 1) = FlattenSeq(s)
    <3> DEFINE k == n + 1
    <3>1. k - 1 = n
      BY <1>1
    <3> HIDE DEF k
    <3>2. Before(s, k) = FlattenSeq(SubSeq(s, 1, n))
      BY <3>1 DEF Before
    <3> QED
      BY <2>1, <3>2 DEF k
  <2>3. C[n] = Here(codes, p(n + 1), rest, SubSeq(actions, 1, n))
    BY <1>1
  <2> HIDE DEF C
  <2> QED
    BY <2>1, <2>2, <2>3
<1> HIDE DEF C, c
<1>6. ExpandActions(expander, c, n) = {C[n]}
  <2>1. \A i \in 1..n : ExpandAction(expander, C[i - 1]) = {C[i]}
    BY <1>3
  <2>2. ActionsLead(expander, c, C, n)
    BY <1>1, <1>4, <2>1 DEF ActionsLead
  <2> QED
    BY <2>2, ActionsInTurn
<1> QED
  BY <1>5, <1>6 DEF ActionsExpand, s, n, c

OperationHead(key, operation) ==
    <<Field("key", key), Field("vlq", operation.nonce),
      Field("float", operation.gas), Field("vlq", Len(operation.actions)),
      Field("bit", Pays(operation.actions))>>

PaymentFields(operation) ==
    IF Pays(operation.actions)
    THEN <<Field("float", Last(operation.actions).ethValue)>> ELSE <<>>

Payment(operation) ==
    IF Pays(operation.actions)
    THEN <<PaymentAction(Last(operation.actions).ethValue)>> ELSE <<>>

\* An operation that one of these compressors accepts.
Accepted(compressor, key, operation) ==
    /\ compressor \in {"erc20", "fallback"}
    /\ OperationFits(key, operation) /\ Accepts(compressor, key, operation)

\* Its regular actions fit, and a payment is what follows them.
LEMMA RegularFit ==
    ASSUME NEW compressor, NEW key, NEW operation, Accepted(compressor, key, operation)
    PROVE  /\ RegularActions(operation.actions) \in Seq(Actions)
           /\ \A i \in 1..Len(RegularActions(operation.actions)) :
                  ActionFits(compressor, RegularActions(operation.actions)[i])
           /\ Len(operation.actions) = Len(RegularActions(operation.actions))
                                           + (IF Pays(operation.actions) THEN 1 ELSE 0)
           /\ Len(operation.actions) \in Nat
           /\ operation.actions = RegularActions(operation.actions) \o Payment(operation)
           /\ Pays(operation.actions) => Last(operation.actions) \in Actions
<1> DEFINE all == operation.actions
           acts == RegularActions(all)
           n == Len(all)
<1>1. /\ all \in Seq(Actions) /\ n \in Nat /\ DOMAIN all = 1..n
      /\ \A i \in 1..n : all[i] \in Actions /\ HasArguments(all[i].call)
  <2>1. all \in Seq(Actions) /\ \A i \in DOMAIN all : HasArguments(all[i].call)
    BY DEF Accepted, OperationFits
  <2> HIDE DEF all
  <2> QED
    BY <2>1, LenProperties, ElementOfSeq
<1>2. ASSUME Pays(all)
      PROVE  /\ acts = SubSeq(all, 1, n - 1) /\ n \in 1..n /\ acts \in Seq(Actions)
             /\ Len(acts) = n - 1 /\ \A i \in 1..Len(acts) : acts[i] = all[i]
             /\ all = acts \o <<Last(all)>>
  <2> HIDE DEF all
  <2>1. all # <<>> /\ acts = SubSeq(all, 1, n - 1)
    BY <1>2 DEF Pays, RegularActions, Front
  <2>2. n \in 1..n
    BY <1>1, <2>1, EmptySeq
  <2>3. SubSeq(all, 1, n) = Append(SubSeq(all, 1, n - 1), all[n])
        /\ SubSeq(all, 1, n - 1) \in Seq(Actions)
    BY <1>1, <2>2, OneMore
  <2>4. SubSeq(all, 1, n) = all
    BY <1>1, SubSeqFull
  <2>5. all = Append(acts, Last(all))
    BY <2>1, <2>3, <2>4 DEF Last
  <2>6. Last(all) \in Actions /\ acts \in Seq(Actions)
    BY <1>1, <2>1, <2>2, <2>3 DEF Last
  <2> DEFINE e == Last(all)
  <2> HIDE DEF acts, e
  <2>7. acts \in Seq(Actions) /\ e \in Actions
    BY <2>6 DEF e
  <2>8. /\ Append(acts, e) = acts \o <<e>> /\ Len(Append(acts, e)) = Len(acts) + 1
        /\ \A i \in 1..Len(acts) : Append(acts, e)[i] = acts[i]
        /\ Len(acts) \in Nat
    BY <2>7, AppendProperties, AppendIsConcat, LenProperties
  <2>9. Len(acts) = n - 1 /\ all = acts \o <<e>> /\ \A i \in 1..Len(acts) : acts[i] = all[i]
    <3>1. all = Append(acts, e)
      BY <2>5 DEF e
    <3>2. n = Len(acts) + 1
      BY <2>8, <3>1
    <3>3. all = acts \o <<e>> /\ \A i \in 1..Len(acts) : acts[i] = all[i]
      BY <2>8, <3>1
    <3> QED
      BY <2>8, <3>2, <3>3
  <2> QED
    BY <2>1, <2>2, <2>6, <2>9 DEF acts, e
<1>3. ASSUME ~Pays(all) PROVE acts = all
  BY <1>3 DEF RegularActions
<1>4. acts \in Seq(Actions)
  BY <1>1, <1>2, <1>3
<1>5. n = Len(acts) + (IF Pays(all) THEN 1 ELSE 0)
  <2> HIDE DEF all, acts
  <2>1. CASE Pays(all)
    <3>1. Len(acts) = n - 1 /\ n \in Nat
      BY <1>1, <1>2, <2>1
    <3> HIDE DEF n
    <3> QED
      BY <2>1, <3>1
  <2>2. CASE ~Pays(all)
    BY <1>1, <1>3, <2>2
  <2> QED
    BY <2>1, <2>2
<1>6. \A i \in 1..Len(acts) : i \in 1..n /\ acts[i] = all[i]
  <2> HIDE DEF all, acts
  <2>1. CASE Pays(all)
    BY <1>1, <1>2, <2>1
  <2>2. CASE ~Pays(all)
    BY <1>1, <1>3, <2>2
  <2> QED
    BY <2>1, <2>2
<1>7. \A i \in 1..Len(acts) : ActionFits(compressor, acts[i])
  <2> SUFFICES ASSUME NEW i \in 1..Len(acts), compressor = "erc20"
               PROVE  IsErc20(acts[i])
    BY <1>1, <1>6 DEF ActionFits
  <2>1. Erc20Accepts(operation)
    BY DEF Accepted, Accepts
  <2>2. DOMAIN acts = 1..Len(acts)
    BY <1>4, LenProperties
  <2>3. \A j \in DOMAIN acts : all[j].call.method \in Range(Erc20Methods)
    BY <2>1 DEF Erc20Accepts
  <2>4. \A j \in DOMAIN acts : all[j].ethValue = 0
    BY <2>1 DEF Accepted, OperationFits
  <2> HIDE DEF acts, all
  <2> QED
    BY <1>1, <1>6, <2>2, <2>3, <2>4 DEF IsErc20
<1>8. all = acts \o Payment(operation) /\ (Pays(all) => Last(all) \in Actions)
  <2>1. CASE Pays(all)
    <3>1. Last(all) \in Actions
      BY <1>1, <1>2, <2>1 DEF Last
    <3>2. Last(all) = PaymentAction(Last(all).ethValue)
      <4>1. Last(all).contract = aggregatorUtilities /\ Last(all).call = SendEthToTxOrigin
        BY <2>1 DEF Pays
      <4> DEFINE e == Last(all)
      <4> HIDE DEF e
      <4>2. e \in Actions /\ e.contract = aggregatorUtilities /\ e.call = SendEthToTxOrigin
        BY <3>1, <4>1 DEF e
      <4>3. e = PaymentAction(e.ethValue)
        BY <4>2 DEF Actions, PaymentAction, Action
      <4> QED
        BY <4>3 DEF e
    <3> QED
      BY <1>2, <2>1, <3>1, <3>2 DEF Payment
  <2>2. CASE ~Pays(all)
    <3>1. Payment(operation) = <<>>
      BY <2>2 DEF Payment
    <3> HIDE DEF all
    <3> QED
      BY <1>1, <1>3, <2>2, <3>1, ConcatEmptySeq
  <2> QED
    BY <2>1, <2>2
<1> QED
  BY <1>1, <1>4, <1>5, <1>7, <1>8

\* The fields of an operation, in three parts.
LEMMA FieldsInParts ==
    ASSUME NEW compressor, NEW key, NEW operation, Accepted(compressor, key, operation)
    PROVE  /\ OperationHead(key, operation) \in Seq(FieldTypes)
           /\ ActionFields(compressor, RegularActions(operation.actions)) \in Seq(Seq(FieldTypes))
           /\ FlattenSeq(ActionFields(compressor, RegularActions(operation.actions))) \in Seq(FieldTypes)
           /\ PaymentFields(operation) \in Seq(FieldTypes)
           /\ Fields(compressor, key, operation) =
                  (OperationHead(key, operation)
                   \o FlattenSeq(ActionFields(compressor, RegularActions(operation.actions))))
                  \o PaymentFields(operation)
<1> DEFINE all == operation.actions
           acts == RegularActions(all)
<1>1. /\ acts \in Seq(Actions) /\ Len(acts) \in Nat /\ DOMAIN acts = 1..Len(acts)
      /\ \A i \in 1..Len(acts) : ActionFits(compressor, acts[i])
      /\ Pays(all) => Last(all) \in Actions
  <2>1. /\ acts \in Seq(Actions) /\ \A i \in 1..Len(acts) : ActionFits(compressor, acts[i])
        /\ Pays(all) => Last(all) \in Actions
    BY RegularFit
  <2> HIDE DEF acts, all
  <2> QED
    BY <2>1, LenProperties
<1>2. /\ key \in Keys /\ operation.nonce \in Words /\ operation.gas \in Words
      /\ Len(all) \in Words /\ Pays(all) \in BOOLEAN
  BY DEF Accepted, OperationFits, Pays
<1>3. OperationHead(key, operation) \in Seq(FieldTypes)
  <2>1. /\ Field("key", key) \in FieldTypes /\ Field("vlq", operation.nonce) \in FieldTypes
        /\ Field("float", operation.gas) \in FieldTypes
        /\ Field("vlq", Len(all)) \in FieldTypes /\ Field("bit", Pays(all)) \in FieldTypes
    <3> HIDE DEF all
    <3> QED
      BY <1>2 DEF FieldTypes, Field
  <2> DEFINE f1 == Field("key", key)
             f2 == Field("vlq", operation.nonce)
             f3 == Field("float", operation.gas)
             f4 == Field("vlq", Len(all))
             f5 == Field("bit", Pays(all))
  <2>2. OperationHead(key, operation) = <<f1, f2, f3, f4, f5>>
    BY DEF OperationHead
  <2>3. /\ f1 \in FieldTypes /\ f2 \in FieldTypes /\ f3 \in FieldTypes
        /\ f4 \in FieldTypes /\ f5 \in FieldTypes
    BY <2>1
  <2> HIDE DEF f1, f2, f3, f4, f5
  <2> QED
    BY <2>2, <2>3
<1>4. PaymentFields(operation) \in Seq(FieldTypes)
  <2>1. CASE Pays(all)
    <3> DEFINE f == Field("float", Last(all).ethValue)
    <3>1. Last(all).ethValue \in Words
      BY <1>1, <2>1 DEF Actions
    <3>2. f \in FieldTypes
      BY <3>1 DEF FieldTypes, Field
    <3>3. PaymentFields(operation) = <<f>>
      BY <2>1 DEF PaymentFields
    <3> HIDE DEF f
    <3> QED
      BY <3>2, <3>3
  <2>2. CASE ~Pays(all)
    BY <2>2 DEF PaymentFields
  <2> QED
    BY <2>1, <2>2
<1>5. ActionFields(compressor, acts) \in Seq(Seq(FieldTypes))
      /\ FlattenSeq(ActionFields(compressor, acts)) \in Seq(FieldTypes)
  <2> HIDE DEF acts
  <2> QED
    BY <1>1, ActionFieldsType, FlattenType
<1>6. Fields(compressor, key, operation) =
          (OperationHead(key, operation) \o FlattenSeq(ActionFields(compressor, acts)))
          \o PaymentFields(operation)
  <2>1. CASE compressor = "erc20"
    <3>1. ActionFields(compressor, acts) = [i \in DOMAIN acts |-> Erc20Action(acts[i])]
      <4> HIDE DEF acts
      <4> QED
        BY <1>1, <2>1 DEF ActionFields, ActionCode
    <3>2. Fields(compressor, key, operation) =
              OperationFields(key, operation, [i \in DOMAIN acts |-> Erc20Action(acts[i])])
      BY <2>1 DEF Fields
    <3> QED
      BY <3>1, <3>2 DEF OperationFields, OperationHead, PaymentFields
  <2>2. CASE compressor = "fallback"
    <3>1. ActionFields(compressor, acts) = [i \in DOMAIN acts |-> FallbackAction(acts[i])]
      <4> HIDE DEF acts
      <4> QED
        BY <1>1, <2>2 DEF ActionFields, ActionCode
    <3>2. Fields(compressor, key, operation) =
              OperationFields(key, operation, [i \in DOMAIN acts |-> FallbackAction(acts[i])])
      BY <2>2 DEF Fields
    <3> QED
      BY <3>1, <3>2 DEF OperationFields, OperationHead, PaymentFields
  <2> QED
    BY <2>1, <2>2 DEF Accepted
<1> QED
  BY <1>3, <1>4, <1>5, <1>6

\* The codes of all its fields.
OperationCodes(compressor, key, operation, codes) ==
    /\ Accepted(compressor, key, operation)
    /\ Compressed(Fields(compressor, key, operation), codes)

\* How many fields its actions have.
ActionsLength(compressor, operation) ==
    Len(FlattenSeq(ActionFields(compressor, RegularActions(operation.actions))))

\* The parts follow each other.
LEMMA PartsFollow ==
    ASSUME NEW compressor, NEW key, NEW operation, NEW codes,
           OperationCodes(compressor, key, operation, codes)
    PROVE  LET fields == Fields(compressor, key, operation)
               n == ActionsLength(compressor, operation)
           IN  /\ n \in Nat /\ Len(OperationHead(key, operation)) = 5
               /\ Following(fields, codes, 0, OperationHead(key, operation))
               /\ Following(fields, codes, 5,
                       FlattenSeq(ActionFields(compressor, RegularActions(operation.actions))))
               /\ Following(fields, codes, 5 + n, PaymentFields(operation))
               /\ Len(fields) = 5 + n + Len(PaymentFields(operation))
<1> DEFINE fields == Fields(compressor, key, operation)
           h == OperationHead(key, operation)
           f == FlattenSeq(ActionFields(compressor, RegularActions(operation.actions)))
           p == PaymentFields(operation)
           n == ActionsLength(compressor, operation)
<1>1. /\ h \in Seq(FieldTypes) /\ f \in Seq(FieldTypes) /\ p \in Seq(FieldTypes)
      /\ fields = (h \o f) \o p
  BY FieldsInParts DEF OperationCodes
<1>2. Len(h) = 5 /\ n = Len(f)
  BY DEF OperationHead, ActionsLength
<1>3. Compressed(fields, codes)
  BY DEF OperationCodes
<1> HIDE DEF fields, h, f, p, n
<1>4. Following(fields, codes, 0, fields)
  <2>1. Len(fields) \in Nat
    BY <1>3, LenProperties DEF Compressed
  <2>2. 0 + Len(fields) <= Len(fields) /\ \A j \in 1..Len(fields) : 0 + j = j
    BY <2>1
  <2> QED
    BY <1>3, <2>1, <2>2 DEF Following
<1>5. h \o f \in Seq(FieldTypes)
  BY <1>1, ConcatProperties
<1> DEFINE hf == h \o f
<1> HIDE DEF hf
<1>6. /\ Following(fields, codes, 0, hf) /\ Following(fields, codes, 0 + Len(hf), p)
      /\ Len(fields) = Len(hf) + Len(p)
  <2>1. hf \in Seq(FieldTypes) /\ Following(fields, codes, 0, hf \o p)
    BY <1>1, <1>4, <1>5 DEF hf
  <2>2. /\ Following(fields, codes, 0, hf) /\ Following(fields, codes, 0 + Len(hf), p)
        /\ Len(hf \o p) = Len(hf) + Len(p)
    BY <1>1, <2>1, FollowingParts
  <2> QED
    BY <1>1, <2>2 DEF hf
<1>7. /\ Following(fields, codes, 0, h) /\ Following(fields, codes, 0 + Len(h), f)
      /\ Len(hf) = Len(h) + Len(f)
  BY <1>1, <1>6, FollowingParts DEF hf
<1>8. n \in Nat /\ 0 + Len(h) = 5 /\ 0 + Len(hf) = 5 + n /\ Len(hf) = 5 + n
  <2>1. Len(f) \in Nat
    BY <1>1, LenProperties
  <2> QED
    BY <1>2, <1>7, <2>1
<1> QED
  BY <1>2, <1>6, <1>7, <1>8 DEF fields, h, f, p, n

\* What the contract decodes first.
HeadTypes == <<"bits", "key", "vlq", "float", "vlq", "bit">>

\* The cursor before the codes of an operation.
BeforeOperation(codes, rest, values) ==
    [ stream |-> EncodeBitStream(FlattenSeq(BitsOf(codes)))
                     \o (FlattenSeq(DataOf(codes)) \o rest),
      bits |-> 0, values |-> values ]

\* The bit stream comes first, and gives the bits of all fields.
LEMMA DecodesBitStream ==
    ASSUME NEW codes \in Seq(Codes), BitStreamNumber(FlattenSeq(BitsOf(codes))) \in Words,
           NEW rest \in Seq(Tokens), NEW values
    PROVE  DecodeBits(Fresh(BeforeOperation(codes, rest, values))) =
               {Here(codes, 0, rest, <<>>)}
<1> DEFINE bits == FlattenSeq(BitsOf(codes))
           data == FlattenSeq(DataOf(codes))
           e == EncodeBitStream(bits)
           left == data \o rest
           c == [stream |-> e \o left, bits |-> 0, values |-> <<>>]
<1>1. bits \in Seq(BOOLEAN) /\ data \in Seq(Tokens)
  BY CodesParts, FlattenType
<1> HIDE DEF data
<1>2. left \in Seq(Tokens)
  BY <1>1, ConcatProperties
<1>3. e \in Seq(Tokens)
  <2>1. BitStreamNumber(bits) \in Nat
    BY <1>1, BitStreamNumberType
  <2>2. e \in Seq(Bytes)
    BY <2>1, EncodedVLQ DEF EncodeBitStream
  <2>3. Bytes \subseteq Tokens
    BY DEF Tokens
  <2> HIDE DEF e
  <2> QED
    BY <2>2, <2>3, SeqMonotonic
<1>4. Fresh(BeforeOperation(codes, rest, values)) = c
  <2> HIDE DEF e, left
  <2>1. BeforeOperation(codes, rest, values) = [stream |-> e \o left, bits |-> 0, values |-> values]
    BY DEF BeforeOperation, e, left, bits, data
  <2> DEFINE s == e \o left
  <2> HIDE DEF s
  <2>2. BeforeOperation(codes, rest, values) = [stream |-> s, bits |-> 0, values |-> values]
    BY <2>1 DEF s
  <2>3. \A v, w : [[stream |-> s, bits |-> 0, values |-> v] EXCEPT !.values = w] =
                      [stream |-> s, bits |-> 0, values |-> w]
    OBVIOUS
  <2>4. Fresh(BeforeOperation(codes, rest, values)) = [stream |-> s, bits |-> 0, values |-> <<>>]
    BY <2>2, <2>3 DEF Fresh
  <2> QED
    BY <2>4 DEF s
<1> HIDE DEF left
<1>5. c \in Cursors(Tokens, {}) /\ StartsWith(c, e, left) /\ c.values = <<>>
  <2> HIDE DEF e
  <2>1. e \o left \in Seq(Tokens) /\ <<>> \in Seq({})
    BY <1>2, <1>3, ConcatProperties
  <2> QED
    BY <2>1 DEF Cursors, StartsWith
<1> HIDE DEF c, e
<1>6. DecodeBits(c) = {[stream |-> left, bits |-> BitStreamNumber(bits), values |-> c.values]}
  <2>1. StartsWith(c, EncodeBitStream(bits), left)
    BY <1>5 DEF e
  <2>2. BitStreamNumber(bits) \in Words
    OBVIOUS
  <2> HIDE DEF bits
  <2> QED
    BY <1>1, <1>2, <1>5, <2>1, <2>2, BitStreamDecoded
<1>7. Here(codes, 0, rest, <<>>) = [stream |-> left, bits |-> BitStreamNumber(bits), values |-> <<>>]
  BY FirstAndLast DEF At, left, data
<1> QED
  BY <1>4, <1>5, <1>6, <1>7

OperandsRead(key, operation, v) ==
    /\ v[1] = key /\ v[2] = operation.nonce /\ v[3] = operation.gas
    /\ v[4] = Len(operation.actions)
    /\ v[5] = IF Pays(operation.actions) THEN 1 ELSE 0

\* Then come the key, the nonce, the gas, the number of actions, and whether it pays.
LEMMA DecodesHead ==
    ASSUME NEW compressor, NEW key, NEW operation, NEW codes,
           OperationCodes(compressor, key, operation, codes),
           BitStreamNumber(FlattenSeq(BitsOf(codes))) \in Words,
           NEW rest \in Seq(Tokens), NEW values
    PROVE  \E v : /\ OperandsRead(key, operation, v)
                  /\ DecodeFields(Fresh(BeforeOperation(codes, rest, values)), HeadTypes) =
                         {Here(codes, 5, rest, v)}
<1> DEFINE fields == Fields(compressor, key, operation)
           h == OperationHead(key, operation)
           c == Fresh(BeforeOperation(codes, rest, values))
           V(k) == ValuesAfter(<<>>, fields, 0, k)
           C == [i \in 0..6 |-> IF i = 0 THEN c ELSE Here(codes, i - 1, rest, V(i - 1))]
           v == V(5)
<1>1. /\ Compressed(fields, codes) /\ codes \in Seq(Codes) /\ Len(fields) \in Nat
      /\ 5 <= Len(fields) /\ \A j \in 1..5 : fields[j] = h[j]
  <2>1. Compressed(fields, codes)
    BY DEF OperationCodes
  <2>2. Following(fields, codes, 0, h) /\ Len(h) = 5
    BY PartsFollow
  <2> HIDE DEF fields, h
  <2>3. Len(fields) \in Nat /\ codes \in Seq(Codes)
    BY <2>1, LenProperties DEF Compressed
  <2>4. 0 + 5 <= Len(fields) /\ \A j \in 1..5 : fields[0 + j] = h[j]
    BY <2>2 DEF Following
  <2>5. \A j \in 1..5 : 0 + j = j
    OBVIOUS
  <2> QED
    BY <2>1, <2>3, <2>4, <2>5
<1>2. DecodeBits(c) = {Here(codes, 0, rest, <<>>)}
  BY <1>1, DecodesBitStream
<1> HIDE DEF fields, c
<1>3. IsSeq(<<>>)
  BY EmptyValues
<1>4. ASSUME NEW k \in 1..5
      PROVE  /\ IsSeq(V(k - 1)) /\ V(0) = <<>>
             /\ Append(V(k - 1), FieldValue(fields[k])) = V(k)
  <2>1. k \in Nat \ {0} /\ 0 \in Nat /\ 0 + k = k
    OBVIOUS
  <2>2. ValuesGrow(<<>>, fields, 0, k)
    BY <1>3, <2>1, ValuesAppend
  <2> QED
    BY <2>1, <2>2 DEF ValuesGrow
<1>5. ASSUME NEW k \in 1..5
      PROVE  Decode(Here(codes, k - 1, rest, V(k - 1)), fields[k].type) =
                 {Here(codes, k, rest, V(k))}
  <2>1. k \in 1..Len(fields)
    BY <1>1
  <2> DEFINE u == V(k - 1)
             w == V(k)
  <2>2. IsSeq(u) /\ Append(u, FieldValue(fields[k])) = w
    BY <1>4
  <2> HIDE DEF u, w, V
  <2>3. DecodesAt(fields, codes, k, rest, u)
    BY <1>1, <2>1, <2>2, DecodesNext
  <2> QED
    BY <2>2, <2>3 DEF DecodesAt, u, w
<1>6. \A k \in 1..5 : HeadTypes[k + 1] = fields[k].type
  <2>1. \A k \in 1..5 : HeadTypes[k + 1] = h[k].type
    BY DEF HeadTypes, OperationHead, Field
  <2> HIDE DEF h
  <2> QED
    BY <1>1, <2>1
<1>7. \A i \in 1..6 : Decode(C[i - 1], HeadTypes[i]) = {C[i]}
  <2> SUFFICES ASSUME NEW i \in 1..6
               PROVE  Decode(C[i - 1], HeadTypes[i]) = {C[i]}
    OBVIOUS
  <2>1. CASE i = 1
    <3>1. HeadTypes[1] = "bits"
      BY DEF HeadTypes
    <3>2. Decode(c, "bits") = DecodeBits(c)
      BY DEF Decode
    <3>3. C[0] = c /\ C[1] = Here(codes, 0, rest, V(0)) /\ V(0) = <<>>
      BY <1>4
    <3> HIDE DEF C, V
    <3> QED
      BY <1>2, <2>1, <3>1, <3>2, <3>3
  <2>2. CASE i # 1
    <3> DEFINE k == i - 1
    <3>1. k \in 1..5 /\ k + 1 = i /\ k \in 0..6 /\ k # 0 /\ i \in 0..6 /\ i # 0
      BY <2>2
    <3>2. C[k] = Here(codes, k - 1, rest, V(k - 1)) /\ C[i] = Here(codes, k, rest, V(k))
      BY <3>1
    <3> HIDE DEF C, k, V
    <3>3. HeadTypes[i] = fields[k].type
      BY <1>6, <3>1
    <3>4. Decode(C[k], HeadTypes[i]) = {C[i]}
      BY <1>5, <3>1, <3>2, <3>3
    <3> QED
      BY <3>4 DEF k
  <2> QED
    BY <2>1, <2>2
<1>8. C[0] = c /\ C[6] = Here(codes, 5, rest, v)
  OBVIOUS
<1> HIDE DEF C
<1>9. Len(HeadTypes) = 6
  BY DEF HeadTypes
<1>10. DecodeFields(c, HeadTypes) = {Here(codes, 5, rest, v)}
  <2>1. Len(HeadTypes) \in Nat /\ \A i \in 1..Len(HeadTypes) : Decode(C[i - 1], HeadTypes[i]) = {C[i]}
    BY <1>7, <1>9
  <2>2. DecodeFields(C[0], HeadTypes) = {C[Len(HeadTypes)]}
    BY <2>1, FieldsInTurn
  <2> QED
    BY <1>8, <1>9, <2>2
<1>11. OperandsRead(key, operation, v)
  <2>1. v = [j \in 1..5 |-> FieldValue(h[j])]
    <3>1. Values(fields, 0, 5) = [j \in 1..5 |-> FieldValue(h[j])]
      <4>1. \A j \in 1..5 : 0 + j = j
        OBVIOUS
      <4> HIDE DEF h
      <4> QED
        BY <1>1, <4>1 DEF Values
    <3> DEFINE w == [j \in 1..5 |-> FieldValue(h[j])]
    <3>2. w \in Seq({FieldValue(h[j]) : j \in 1..5})
      <4> HIDE DEF h
      <4> QED
        OBVIOUS
    <3> HIDE DEF w
    <3>3. <<>> \o w = w
      BY <3>2, ConcatEmptySeq
    <3> QED
      BY <3>1, <3>3 DEF ValuesAfter, w
  <2>2. /\ FieldValue(h[1]) = key /\ FieldValue(h[2]) = operation.nonce
        /\ FieldValue(h[3]) = operation.gas /\ FieldValue(h[4]) = Len(operation.actions)
        /\ FieldValue(h[5]) = IF Pays(operation.actions) THEN 1 ELSE 0
    BY DEF OperationHead, Field, FieldValue
  <2> HIDE DEF v, h
  <2> QED
    BY <2>1, <2>2 DEF OperandsRead
<1> QED
  BY <1>10, <1>11 DEF c

\* The payment, after the other actions.
LEMMA ExpandsPayment ==
    ASSUME NEW fields, NEW codes, NEW q, NEW ethValue,
           Following(fields, codes, q, <<Field("float", ethValue)>>),
           NEW rest \in Seq(Tokens), NEW V, NEW values \in Seq(V)
    PROVE  ExpandPayment(Here(codes, q, rest, values)) =
               {Here(codes, q + 1, rest, Append(values, PaymentAction(ethValue)))}
<1> DEFINE k == q + 1
           c == Here(codes, q, rest, values)
           v == Append(values, ethValue)
           d == Here(codes, k, rest, v)
<1>1. /\ Compressed(fields, codes) /\ k \in 1..Len(fields) /\ k - 1 = q
      /\ fields[k] = Field("float", ethValue)
  <2> DEFINE s == <<Field("float", ethValue)>>
  <2>1. Len(s) = 1 /\ s[1] = Field("float", ethValue) /\ 1 \in 1..Len(s)
    OBVIOUS
  <2>2. Compressed(fields, codes) /\ q \in Nat /\ q + Len(s) <= Len(fields) /\ fields[q + 1] = s[1]
    BY <2>1 DEF Following
  <2>3. Len(fields) \in Nat
    BY <2>2, LenProperties DEF Compressed
  <2> QED
    BY <2>1, <2>2, <2>3
<1> HIDE DEF k, v
<1>2. IsSeq(values)
  BY DEF IsSeq
<1>3. DecodesAt(fields, codes, k, rest, values)
  BY <1>1, <1>2, DecodesNext
<1>4. fields[k].type = "float" /\ FieldValue(fields[k]) = ethValue
  BY <1>1 DEF Field, FieldValue
<1>5. Decode(c, "float") = {d}
  BY <1>1, <1>3, <1>4 DEF DecodesAt, v
<1>6. DecodePseudoFloat(c) = {d}
  BY <1>5 DEF Decode
<1>7. Last(v) = ethValue
  BY LastOfAppend DEF v
<1>8. d.values = v /\ c.values = values
      /\ \A x : Result(d, c, x) = Here(codes, k, rest, Append(c.values, x))
  BY HereFields
<1> HIDE DEF c, d
<1>9. ExpandPayment(c) = {Result(d, c, PaymentAction(Last(d.values)))}
  BY <1>6 DEF ExpandPayment
<1> QED
  BY <1>7, <1>8, <1>9 DEF c, k

\* Then its actions, a payment as the last of them.
LEMMA ExpandsAllActions ==
    ASSUME NEW compressor, NEW key, NEW operation, NEW codes,
           OperationCodes(compressor, key, operation, codes),
           NEW rest \in Seq(Tokens), NEW v, OperandsRead(key, operation, v)
    PROVE  ExpandAllActions(compressor, Here(codes, 5, rest, v), v[4], v[5]) =
               {At(rest, <<>>, operation.actions)}
<1> DEFINE fields == Fields(compressor, key, operation)
           all == operation.actions
           acts == RegularActions(all)
           n == ActionsLength(compressor, operation)
           c == Here(codes, 5, rest, v)
           p == PaymentFields(operation)
           pay == Payment(operation)
           pays == Pays(all)
           eth == Last(all).ethValue
<1>1. /\ acts \in Seq(Actions) /\ Len(all) = Len(acts) + (IF pays THEN 1 ELSE 0)
      /\ \A i \in 1..Len(acts) : ActionFits(compressor, acts[i])
      /\ all = acts \o pay
      /\ pays => Last(all) \in Actions
  BY RegularFit DEF OperationCodes
<1>2. /\ n \in Nat /\ Following(fields, codes, 5, FlattenSeq(ActionFields(compressor, acts)))
      /\ Following(fields, codes, 5 + n, p)
      /\ Len(fields) = 5 + n + Len(p)
  BY PartsFollow
<1>3. n = Len(FlattenSeq(ActionFields(compressor, acts)))
  BY DEF ActionsLength
<1>4. codes \in Seq(Codes) /\ Len(codes) = Len(fields)
  BY DEF OperationCodes, Compressed
<1>5. v[4] = Len(all) /\ v[5] = IF pays THEN 1 ELSE 0
  BY DEF OperandsRead
<1>6. /\ pays => p = <<Field("float", eth)>> /\ pay = <<PaymentAction(eth)>>
      /\ ~pays => p = <<>> /\ pay = <<>>
  BY DEF PaymentFields, Payment
<1> HIDE DEF fields, all, acts, n, p, pay, pays, eth
<1>7. Len(acts) \in Nat
  BY <1>1, LenProperties
<1>8. ExpandActions(compressor, c, Len(acts)) = {Here(codes, 5 + n, rest, acts)}
  <2>1. ActionsExpand(compressor, codes, 5, acts, rest, v)
    BY <1>1, <1>2, ExpandsActions
  <2> QED
    BY <1>3, <2>1 DEF ActionsExpand
<1>9. \A values : Here(codes, Len(fields), rest, values) = At(rest, <<>>, values)
  BY <1>4, FirstAndLast
<1> HIDE DEF c
<1>10. CASE pays
  <2>1. v[4] = Len(acts) + 1 /\ v[5] = 1 /\ v[4] - v[5] = Len(acts) /\ ~(v[4] < v[5]) /\ v[5] # 0
    BY <1>1, <1>5, <1>7, <1>10
  <2> DEFINE d == Here(codes, 5 + n, rest, acts)
  <2>2. ExpandAllActions(compressor, c, v[4], v[5]) = ExpandPayment(d)
    <3>1. ExpandAllActions(compressor, c, v[4], v[5]) =
              UNION {ExpandPayment(x) : x \in ExpandActions(compressor, c, Len(acts))}
      BY <2>1 DEF ExpandAllActions
    <3> HIDE DEF d
    <3> QED
      BY <1>8, <3>1 DEF d
  <2>3. ExpandPayment(d) = {Here(codes, 5 + n + 1, rest, Append(acts, PaymentAction(eth)))}
    BY <1>1, <1>2, <1>6, <1>10, ExpandsPayment
  <2>4. Append(acts, PaymentAction(eth)) = all
    <3> DEFINE e == PaymentAction(eth)
    <3>1. acts \in Seq(Actions \union {e}) /\ e \in Actions \union {e}
      BY <1>1, SeqMonotonic
    <3>2. all = acts \o <<e>>
      BY <1>1, <1>6, <1>10
    <3> HIDE DEF e
    <3>3. Append(acts, e) = acts \o <<e>>
      BY <3>1, AppendIsConcat
    <3> QED
      BY <3>2, <3>3 DEF e
  <2>5. 5 + n + 1 = Len(fields)
    <3>1. Len(p) = 1
      BY <1>6, <1>10
    <3> QED
      BY <1>2, <3>1
  <2> QED
    BY <1>9, <2>2, <2>3, <2>4, <2>5 DEF c, all
<1>11. CASE ~pays
  <2>1. v[4] = Len(acts) /\ v[5] = 0 /\ ~(v[4] < v[5])
    BY <1>1, <1>5, <1>7, <1>11
  <2>2. ExpandAllActions(compressor, c, v[4], v[5]) = ExpandActions(compressor, c, Len(acts))
    BY <2>1 DEF ExpandAllActions
  <2>3. all = acts
    <3>1. acts \o <<>> = acts
      BY <1>1, ConcatEmptySeq
    <3> QED
      BY <1>1, <1>6, <1>11, <3>1
  <2>4. 5 + n = Len(fields)
    <3>1. Len(p) = 0
      BY <1>6, <1>11
    <3> QED
      BY <1>2, <3>1
  <2> QED
    BY <1>8, <1>9, <2>2, <2>3, <2>4 DEF c, all
<1> QED
  BY <1>10, <1>11

-----------------------------------------------------------------------------
(* An operation                                                             *)

\* A cursor between two operations.
Between(stream_, values) == [stream |-> stream_, bits |-> 0, values |-> values]

\* No bit is left between two operations.
LEMMA NoBits == \A rest, values : At(rest, <<>>, values) = Between(rest, values)
<1>1. <<>> \in Seq(BOOLEAN) /\ Len(<<>>) = 0
  OBVIOUS
<1>2. PICK last : NumbersOfLast(last, <<>>) /\ BitStreamNumber(<<>>) = last[Len(<<>>)]
  BY <1>1, BitStreamNumberDef
<1>3. BitStreamNumber(<<>>) = 0
  BY <1>1, <1>2 DEF NumbersOfLast
<1> QED
  BY <1>3 DEF At, Between

\* The fields of a cursor between two operations.
LEMMA BetweenFields ==
    ASSUME NEW rest, NEW values
    PROVE  /\ Between(rest, values).values = values
           /\ Between(rest, values).stream = rest
           /\ Fresh(Between(rest, values)) = Between(rest, <<>>)
           /\ \A c, x : Result(Between(rest, values), c, x) =
                            Between(rest, Append(c.values, x))
<1>1. \A v, w : [[stream |-> rest, bits |-> 0, values |-> v] EXCEPT !.values = w] =
                    [stream |-> rest, bits |-> 0, values |-> w]
  OBVIOUS
<1> QED
  BY <1>1 DEF Between, Fresh, Result

Item(key, operation) == By(key, operation.nonce, operation.gas, operation.actions)

\* The erc20 and the fallback expander expand an operation to itself.
LEMMA ExpandsOperation ==
    ASSUME NEW compressor, NEW key, NEW operation, NEW codes,
           OperationCodes(compressor, key, operation, codes),
           BitStreamNumber(FlattenSeq(BitsOf(codes))) \in Words,
           NEW rest \in Seq(Tokens), NEW values
    PROVE  ExpandOperation(compressor, BeforeOperation(codes, rest, values)) =
               {Between(rest, Append(values, Item(key, operation)))}
<1> DEFINE c == BeforeOperation(codes, rest, values)
<1>1. PICK v : /\ OperandsRead(key, operation, v)
               /\ DecodeFields(Fresh(c), HeadTypes) = {Here(codes, 5, rest, v)}
  BY DecodesHead
<1> DEFINE head == Here(codes, 5, rest, v)
           d == Between(rest, operation.actions)
<1>2. head.values = v
  BY HereFields
<1>3. ExpandAllActions(compressor, head, v[4], v[5]) = {d}
  BY <1>1, ExpandsAllActions, NoBits
<1>4. c.values = values
  BY DEF BeforeOperation
<1>5. d.values = operation.actions /\ \A x : Result(d, c, x) = Between(rest, Append(values, x))
  BY <1>4, BetweenFields
<1> HIDE DEF c, head, d
<1>6. ExpandOperation(compressor, c) =
          { Result(x, c, By(v[1], v[2], v[3], x.values)) : x \in {d} }
  <2>1. ExpandOperation(compressor, c) =
            UNION { { Result(x, c, By(y.values[1], y.values[2], y.values[3], x.values)) :
                        x \in ExpandAllActions(compressor, y, y.values[4], y.values[5]) } :
                    y \in DecodeFields(Fresh(c), HeadTypes) }
    BY DEF ExpandOperation, HeadTypes
  <2>2. DecodeFields(Fresh(c), HeadTypes) = {head}
    BY <1>1 DEF head
  <2>3. ExpandOperation(compressor, c) =
            { Result(x, c, By(head.values[1], head.values[2], head.values[3], x.values)) :
                x \in ExpandAllActions(compressor, head, head.values[4], head.values[5]) }
    BY <2>1, <2>2
  <2> QED
    BY <1>2, <1>3, <2>3
<1>7. By(v[1], v[2], v[3], d.values) = Item(key, operation)
  BY <1>1, <1>5 DEF OperandsRead, Item
<1> QED
  BY <1>5, <1>6, <1>7 DEF c

\* A registration that its compressor accepts, and the codes of its fields.
RegistrationCodes(key, operation, codes) ==
    /\ OperationFits(key, operation) /\ RegistrationAccepts(key, operation)
    /\ Compressed(RegistrationFields(key, operation), codes)

\* A sequence of two elements.
LEMMA TwoElements ==
    ASSUME NEW a, NEW b
    PROVE  <<a>> \o <<b>> = <<a, b>>
<1> DEFINE S == {a, b}
<1>1. <<a>> \in Seq(S) /\ b \in S
  OBVIOUS
<1>2. <<a, b>> \in Seq(S) /\ Len(<<a, b>>) = 2 /\ <<a, b>>[1] = a /\ <<a, b>>[2] = b
  OBVIOUS
<1>3. Len(<<a>>) = 1 /\ <<a>>[1] = a
  OBVIOUS
<1> DEFINE s == <<a>>
           t == <<a, b>>
<1> HIDE DEF S, s, t
<1>4. /\ Append(s, b) = s \o <<b>> /\ Append(s, b) \in Seq(S)
      /\ Len(Append(s, b)) = Len(s) + 1
      /\ \A i \in 1..Len(s) : Append(s, b)[i] = s[i]
      /\ Append(s, b)[Len(s) + 1] = b
  BY <1>1, AppendIsConcat, AppendProperties DEF s
<1>5. Append(s, b) = t
  <2>1. Len(Append(s, b)) = 2 /\ Append(s, b)[1] = a /\ Append(s, b)[2] = b
    BY <1>3, <1>4 DEF s
  <2> DEFINE u == Append(s, b)
  <2> HIDE DEF u
  <2>2. u \in Seq(S) /\ t \in Seq(S) /\ Len(u) = 2 /\ Len(t) = 2
        /\ \A i \in 1..2 : u[i] = t[i]
    BY <1>2, <1>4, <2>1 DEF u, t
  <2>3. u = t
    BY <2>2, SeqEqual
  <2> QED
    BY <2>3 DEF u
<1> QED
  BY <1>4, <1>5 DEF s, t

\* The fields of a registration, and what they are expanded to.
LEMMA RegistrationFieldsType ==
    ASSUME NEW key, NEW operation, OperationFits(key, operation),
           RegistrationAccepts(key, operation)
    PROVE  /\ RegistrationFields(key, operation) \in Seq(FieldTypes)
           /\ Len(RegistrationFields(key, operation)) = 4
           /\ AreTypesOf(<<"newKey", "vlq", "float", "float">>,
                         RegistrationFields(key, operation))
           /\ LET v == ValuesOf(RegistrationFields(key, operation))
              IN  /\ v[1] = key /\ v[2] = operation.nonce /\ v[3] = operation.gas
                  /\ RegistrationActions(v[1], v[4]) = operation.actions
<1> DEFINE all == operation.actions
           pays == Pays(all)
           paid == IF pays THEN Last(all).ethValue ELSE 0
           s == RegistrationFields(key, operation)
           f1 == Field("newKey", key)
           f2 == Field("vlq", operation.nonce)
           f3 == Field("float", operation.gas)
           f4 == Field("float", paid)
           first == Action(0, blsRegistration, Register(key))
<1>1. /\ key \in Keys /\ operation.nonce \in Words /\ operation.gas \in Words
      /\ all \in Seq(Actions)
  BY DEF OperationFits
<1>2. /\ Len(all) \in 1..2 /\ all[1] = first
      /\ Len(all) = 2 => pays /\ all[2].ethValue # 0
  BY DEF RegistrationAccepts
<1>3. first.call # SendEthToTxOrigin
  BY DEF Action, Register, Call, SendEthToTxOrigin
<1>4. pays <=> Len(all) = 2
  <2>1. ASSUME Len(all) = 1 PROVE ~pays
    <3>1. Last(all) = first
      BY <1>2, <2>1 DEF Last
    <3> QED
      BY <1>3, <3>1 DEF Pays
  <2> HIDE DEF all, pays
  <2> QED
    BY <1>2, <2>1
<1>5. /\ paid \in Words
      /\ all = <<first>> \o IF paid = 0 THEN <<>> ELSE <<PaymentAction(paid)>>
  <2>1. CASE pays
    <3> DEFINE e == all[2]
    <3>1. Len(all) = 2 /\ Last(all) = e /\ e \in Actions
      BY <1>1, <1>4, <2>1, ElementOfSeq DEF Last
    <3>2. e.contract = aggregatorUtilities /\ e.call = SendEthToTxOrigin
      BY <2>1, <3>1 DEF Pays
    <3>3. paid = e.ethValue /\ paid # 0
      BY <1>2, <2>1, <3>1
    <3> HIDE DEF e, paid
    <3>4. e = PaymentAction(paid) /\ paid \in Words
      BY <3>1, <3>2, <3>3 DEF Actions, PaymentAction, Action
    <3>5. all = <<first, e>>
      <4> HIDE DEF all, first
      <4> QED
        BY <1>1, <1>2, <3>1 DEF e
    <3> DEFINE g == PaymentAction(paid)
    <3> HIDE DEF first, all, g
    <3>6. <<first>> \o <<g>> = <<first, g>>
      BY TwoElements
    <3> QED
      BY <3>3, <3>4, <3>5, <3>6 DEF g
  <2>2. CASE ~pays
    <3>1. paid = 0
      BY <2>2
    <3>2. Len(all) = 1
      BY <1>2, <1>4, <2>2
    <3>3. all = <<first>>
      <4> HIDE DEF all, first
      <4> QED
        BY <1>1, <1>2, <3>2
    <3> HIDE DEF first, all, paid
    <3>4. <<first>> \o <<>> = <<first>>
      OBVIOUS
    <3>5. 0 \in Words
      BY EncodingsAssumption DEF Words
    <3> QED
      BY <3>1, <3>3, <3>4, <3>5
  <2> QED
    BY <2>1, <2>2
<1> HIDE DEF paid, all
<1>6. /\ f1 \in FieldTypes /\ f2 \in FieldTypes /\ f3 \in FieldTypes /\ f4 \in FieldTypes
      /\ f1.type = "newKey" /\ f2.type = "vlq" /\ f3.type = "float" /\ f4.type = "float"
      /\ FieldValue(f1) = key /\ FieldValue(f2) = operation.nonce
      /\ FieldValue(f3) = operation.gas /\ FieldValue(f4) = paid
  BY <1>1, <1>5 DEF FieldTypes, Field, FieldValue
<1>7. s = <<f1, f2, f3, f4>>
  BY DEF RegistrationFields, paid, all
<1> HIDE DEF f1, f2, f3, f4, s
<1>8. s \in Seq(FieldTypes) /\ Len(s) = 4
  BY <1>6, <1>7
<1>9. AreTypesOf(<<"newKey", "vlq", "float", "float">>, s)
  BY <1>6, <1>7 DEF AreTypesOf
<1> DEFINE v == ValuesOf(s)
<1>10. v[1] = key /\ v[2] = operation.nonce /\ v[3] = operation.gas /\ v[4] = paid
  BY <1>6, <1>7, <1>8 DEF ValuesOf
<1>11. RegistrationActions(key, paid) = all
  BY <1>5 DEF RegistrationActions
<1> HIDE DEF v
<1>12. RegistrationActions(v[1], v[4]) = all
  BY <1>10, <1>11
<1> QED
  BY <1>8, <1>9, <1>10, <1>12 DEF s, v, all

\* The registration expander expands a registration to itself.
LEMMA ExpandsRegistration ==
    ASSUME NEW key, NEW operation, NEW codes, RegistrationCodes(key, operation, codes),
           NEW rest \in Seq(Tokens), NEW values
    PROVE  ExpandRegistration(Between(FlattenSeq(DataOf(codes)) \o rest, values)) =
               {Between(rest, Append(values, Item(key, operation)))}
<1> DEFINE s == RegistrationFields(key, operation)
           types == <<"newKey", "vlq", "float", "float">>
           v == ValuesOf(s)
           c == Between(FlattenSeq(DataOf(codes)) \o rest, values)
           d == Between(rest, v)
<1>1. /\ s \in Seq(FieldTypes) /\ Len(s) = 4 /\ AreTypesOf(types, s)
      /\ v[1] = key /\ v[2] = operation.nonce /\ v[3] = operation.gas
      /\ RegistrationActions(v[1], v[4]) = operation.actions
  BY RegistrationFieldsType DEF RegistrationCodes
<1>2. Compressed(s, codes) /\ codes \in Seq(Codes) /\ Len(codes) = 4
      /\ \A i \in 1..4 : s[i] \in FieldTypes /\ Encodes(s[i], codes[i]) /\ ~HasBit(s[i])
  <2>1. Compressed(s, codes)
    BY DEF RegistrationCodes
  <2>2. \A i \in 1..4 : ~HasBit(s[i])
    <3>1. \A i \in 1..4 : types[i] = s[i].type
      BY <1>1 DEF AreTypesOf
    <3>2. \A i \in 1..4 : types[i] \notin {"key", "address", "bit"}
      <4>1. types[1] = "newKey" /\ types[2] = "vlq" /\ types[3] = "float" /\ types[4] = "float"
        OBVIOUS
      <4> HIDE DEF types
      <4> QED
        BY <4>1
    <3> HIDE DEF s, types
    <3> QED
      BY <3>1, <3>2 DEF HasBit
  <2> HIDE DEF s
  <2> QED
    BY <1>1, <2>1, <2>2, ElementOfSeq DEF Compressed
<1> HIDE DEF s, types
<1>3. FlattenSeq(BitsOf(codes)) = <<>>
  <2>1. /\ Len(BitsOf(codes)) = 4 /\ BitsOf(codes) \in Seq(Seq(BOOLEAN))
        /\ \A i \in 1..4 : BitsOf(codes)[i] = codes[i].bits /\ codes[i] \in Codes
    BY <1>2, CodesParts
  <2>2. ASSUME NEW i \in 1..4 PROVE BitsOf(codes)[i] = <<>>
    <3>1. codes[i] \in Codes /\ Len(codes[i].bits) = 0
      BY <1>2, CodeType
    <3>2. codes[i].bits = <<>>
      BY <3>1, EmptySeq DEF Codes
    <3> QED
      BY <2>1, <3>2
  <2> DEFINE b == BitsOf(codes)
  <2> HIDE DEF b
  <2>3. b \in Seq(Seq({}))
    <3> DEFINE E == Seq({})
    <3>1. <<>> \in E
      OBVIOUS
    <3> HIDE DEF E
    <3>2. b \in Seq(Seq(BOOLEAN)) /\ Len(b) = 4 /\ \A i \in 1..4 : b[i] \in E
      BY <2>1, <2>2, <3>1 DEF b
    <3>3. b = [i \in 1..4 |-> b[i]]
      BY <3>2, LenProperties
    <3>4. b \in Seq(E)
      BY <3>2, <3>3
    <3> QED
      BY <3>4 DEF E
  <2>4. FlattenSeq(b) \in Seq({})
    BY <2>3, FlattenType
  <2> DEFINE f == FlattenSeq(b)
  <2> HIDE DEF f
  <2>5. f = <<>>
    <3>1. f \in Seq({})
      BY <2>4 DEF f
    <3>2. ~(1 \in 1..Len(f))
      BY <3>1, ElementOfSeq
    <3> QED
      BY <3>1, <3>2, EmptySeq, LenProperties
  <2> QED
    BY <2>5 DEF b, f
<1>4. Fresh(c) = Here(codes, 0, rest, <<>>)
  <2>1. Fresh(c) = Between(FlattenSeq(DataOf(codes)) \o rest, <<>>)
    BY BetweenFields
  <2>2. Here(codes, 0, rest, <<>>) = At(FlattenSeq(DataOf(codes)) \o rest, <<>>, <<>>)
    BY <1>2, <1>3, FirstAndLast
  <2> HIDE DEF c
  <2> QED
    BY <2>1, <2>2, NoBits
<1>5. DecodeFields(Fresh(c), types) = {d}
  <2>1. Following(s, codes, 0, s)
    <3>1. Len(s) \in Nat /\ 0 + Len(s) <= Len(s) /\ \A j \in 1..Len(s) : 0 + j = j
      BY <1>1
    <3> QED
      BY <1>2, <3>1 DEF Following
  <2>2. IsSeq(<<>>) /\ <<>> \o v = v
    BY <1>1, EmptyValues
  <2>3. DecodesAll(codes, 0, s, types, rest, <<>>)
    BY <1>1, <2>1, <2>2, DecodesFollowing
  <2>4. DecodeFields(Here(codes, 0, rest, <<>>), types) = {Here(codes, 0 + Len(s), rest, v)}
    BY <2>2, <2>3 DEF DecodesAll
  <2>5. Here(codes, 4, rest, v) = At(rest, <<>>, v)
    BY <1>2, FirstAndLast
  <2> HIDE DEF v, c, d
  <2> QED
    BY <1>1, <1>4, <2>4, <2>5, NoBits DEF d
<1>6. /\ c.values = values /\ d.values = v
      /\ \A x : Result(d, c, x) = Between(rest, Append(c.values, x))
  BY BetweenFields
<1> HIDE DEF v, c, d
<1>7. ExpandRegistration(c) =
          {Result(d, c, By(v[1], v[2], v[3], RegistrationActions(v[1], v[4])))}
  BY <1>5, <1>6 DEF ExpandRegistration, types
<1>8. By(v[1], v[2], v[3], RegistrationActions(v[1], v[4])) = Item(key, operation)
  BY <1>1 DEF Item
<1> QED
  BY <1>6, <1>7, <1>8 DEF c

\* The number of some bits is largest if they are all set.
LEMMA AllSetIsLargest ==
    ASSUME NEW bits \in Seq(BOOLEAN), NEW set \in Seq({TRUE}), Len(bits) = Len(set)
    PROVE  BitStreamNumber(bits) <= BitStreamNumber(set)
<1> DEFINE n == Len(bits)
<1>1. set \in Seq(BOOLEAN) /\ n \in Nat
  BY SeqMonotonic, LenProperties
<1>2. PICK f : NumbersOfLast(f, bits) /\ BitStreamNumber(bits) = f[n]
  BY BitStreamNumberDef
<1>3. PICK g : NumbersOfLast(g, set) /\ BitStreamNumber(set) = g[n]
  <2>1. PICK g : NumbersOfLast(g, set) /\ BitStreamNumber(set) = g[Len(set)]
    BY <1>1, BitStreamNumberDef
  <2> QED
    BY <2>1
<1>4. \A k \in 1..n : set[n - k + 1] = TRUE
  <2> SUFFICES ASSUME NEW k \in 1..n PROVE set[n - k + 1] = TRUE
    OBVIOUS
  <2> DEFINE j == n - k + 1
  <2>1. j \in 1..Len(set)
    BY <1>1
  <2> HIDE DEF j
  <2>2. set[j] \in {TRUE}
    BY <2>1, ElementOfSeq
  <2> QED
    BY <2>2 DEF j
<1> DEFINE T == {k \in Nat : k <= n => f[k] <= g[k]}
<1>5. /\ f \in [0..n -> Nat] /\ g \in [0..n -> Nat] /\ f[0] = 0 /\ g[0] = 0
      /\ \A k \in 1..n : f[k] = 2 * f[k - 1] + (IF bits[n - k + 1] THEN 1 ELSE 0)
      /\ \A k \in 1..n : g[k] = 2 * g[k - 1] + (IF set[n - k + 1] THEN 1 ELSE 0)
  BY <1>2, <1>3 DEF NumbersOfLast
<1>6. 0 \in T
  BY <1>5
<1>7. \A k \in Nat : k \in T => k + 1 \in T
  <2> SUFFICES ASSUME NEW k \in Nat, k \in T, k + 1 <= n
               PROVE  f[k + 1] <= g[k + 1]
    OBVIOUS
  <2> DEFINE j == k + 1
  <2>1. j \in 1..n /\ j - 1 = k /\ k \in 0..n
    BY <1>1
  <2>2. f[k] <= g[k] /\ f[k] \in Nat /\ g[k] \in Nat
    <3>1. k <= n
      BY <1>1
    <3>2. f[k] <= g[k]
      BY <3>1
    <3> HIDE DEF n, T
    <3> QED
      BY <1>5, <2>1, <3>2
  <2> HIDE DEF j, T
  <2>3. f[j] = 2 * f[k] + (IF bits[n - j + 1] THEN 1 ELSE 0)
    BY <1>5, <2>1
  <2>4. g[j] = 2 * g[k] + 1
    <3>1. set[n - j + 1] = TRUE
      BY <1>4, <2>1
    <3> HIDE DEF n
    <3> QED
      BY <1>5, <2>1, <3>1
  <2> QED
    BY <2>2, <2>3, <2>4 DEF j
<1> HIDE DEF T
<1>8. n \in T
  BY <1>1, <1>6, <1>7, NatSetInduction
<1> QED
  BY <1>1, <1>2, <1>3, <1>8 DEF T

\* So the bits of an operation that fits are the number of a word.
LEMMA BitsFit ==
    ASSUME NEW fields, NEW codes, Compressed(fields, codes),
           BitStreamNumber(AllSet(fields)) \in Words
    PROVE  BitStreamNumber(FlattenSeq(BitsOf(codes))) \in Words
<1> DEFINE n == Len(fields)
           all == [i \in DOMAIN fields |-> IF fields[i].type \in {"key", "address", "bit"}
                                          THEN <<TRUE>> ELSE <<>>]
           B == BitsOf(codes)
<1>1. /\ n \in Nat /\ DOMAIN fields = 1..n /\ codes \in Seq(Codes) /\ Len(codes) = n
      /\ \A i \in 1..n : fields[i] \in FieldTypes /\ Encodes(fields[i], codes[i])
  <2>1. fields \in Seq(FieldTypes)
    BY DEF Compressed
  <2> QED
    BY <2>1, LenProperties, ElementOfSeq DEF Compressed
<1>2. /\ B \in Seq(Seq(BOOLEAN)) /\ Len(B) = n
      /\ \A i \in 1..n : B[i] = codes[i].bits
  BY <1>1, CodesParts
<1>3. /\ all \in Seq(Seq({TRUE})) /\ Len(all) = n
      /\ \A i \in 1..n : Len(all[i]) = IF HasBit(fields[i]) THEN 1 ELSE 0
  <2> DEFINE E == Seq({TRUE})
             bit(i) == IF fields[i].type \in {"key", "address", "bit"} THEN <<TRUE>> ELSE <<>>
  <2>1. \A i \in 1..n : bit(i) \in E /\ Len(bit(i)) = IF HasBit(fields[i]) THEN 1 ELSE 0
    <3>1. /\ <<TRUE>> \in Seq({TRUE}) /\ <<>> \in Seq({TRUE})
          /\ Len(<<TRUE>>) = 1 /\ Len(<<>>) = 0
      OBVIOUS
    <3> DEFINE t == <<TRUE>>
               e == <<>>
    <3> HIDE DEF t, e
    <3>2. t \in E /\ e \in E /\ Len(t) = 1 /\ Len(e) = 0
      BY <3>1 DEF t, e
    <3> HIDE DEF E
    <3>3. \A i \in 1..n : bit(i) = IF HasBit(fields[i]) THEN t ELSE e
      BY DEF HasBit, t, e
    <3> HIDE DEF bit
    <3> QED
      BY <3>2, <3>3
  <2>2. all = [i \in 1..n |-> bit(i)]
    BY <1>1
  <2> HIDE DEF E, bit, all
  <2>3. all \in Seq(E) /\ Len(all) = n /\ \A i \in 1..n : all[i] = bit(i)
    BY <1>1, <2>1, <2>2
  <2> QED
    BY <2>1, <2>3 DEF E
<1>4. AllSet(fields) = FlattenSeq(all)
  BY DEF AllSet
<1> HIDE DEF all, B, n
<1>5. \A i \in 1..n : Len(B[i]) = Len(all[i])
  <2> SUFFICES ASSUME NEW i \in 1..n PROVE Len(B[i]) = Len(all[i])
    OBVIOUS
  <2>1. Len(codes[i].bits) = IF HasBit(fields[i]) THEN 1 ELSE 0
    BY <1>1, CodeType
  <2> QED
    BY <1>2, <1>3, <2>1
<1>6. Len(FlattenSeq(B)) = Len(FlattenSeq(all))
  BY <1>2, <1>3, <1>5, FlattenLengths
<1>7. FlattenSeq(B) \in Seq(BOOLEAN) /\ FlattenSeq(all) \in Seq({TRUE})
  BY <1>2, <1>3, FlattenType
<1> DEFINE b == FlattenSeq(B)
           a == FlattenSeq(all)
<1> HIDE DEF b, a
<1>8. b \in Seq(BOOLEAN) /\ a \in Seq({TRUE}) /\ Len(b) = Len(a)
  BY <1>6, <1>7 DEF a, b
<1>9. BitStreamNumber(b) <= BitStreamNumber(a)
  BY <1>8, AllSetIsLargest
<1>10. BitStreamNumber(a) \in Words
  BY <1>4 DEF a
<1>11. BitStreamNumber(b) \in Nat
  BY <1>8, BitStreamNumberType
<1>12. BitStreamNumber(b) \in Words
  BY <1>9, <1>10, <1>11, EncodingsAssumption DEF Words
<1> QED
  BY <1>12 DEF b, B

-----------------------------------------------------------------------------
(* A bundle                                                                 *)

\* A compressor, with an id under which its expander is registered.
CompressorOf(registered, x) ==
    /\ x.compressor \in {"erc20", "registration", "fallback"}
    /\ x.expander \in Nat /\ x.expander < Len(registered)
    /\ registered[x.expander + 1] = x.compressor

IsCompressor(x) == CompressorOf(expanders, x)

\* An operation that fits, and the compressor it is given to.
IsGiven(x, item) ==
    /\ IsCompressor(x)
    /\ item = Item(item.key, item.operation)
    /\ OperationFits(item.key, item.operation)
    /\ Accepts(x.compressor, item.key, item.operation)

FieldsOf(x, item) == Fields(x.compressor, item.key, item.operation)

\* All of its fields are encoded.
IsComplete(p, item) ==
    /\ IsGiven(p.compressor, item)
    /\ \E codes : /\ Compressed(FieldsOf(p.compressor, item), codes)
                  /\ p.data = FlattenSeq(DataOf(codes))
                  /\ p.bits = FlattenSeq(BitsOf(codes))

\* The id of an expander is the number of a word.
LEMMA SmallIds ==
    ASSUME RegistriesOK, NEW x, IsCompressor(x)
    PROVE  x.expander \in Words
<1>1. /\ Len(expanders) \in Nat /\ Len(addressRegistry.entries) \in Nat
      /\ Len(keyRegistry.entries) \in Nat
  BY LenProperties DEF RegistriesOK, Registries
<1>2. Len(expanders) <= MaxRegistrations
  <2>1. Len(addressRegistry.entries) + Len(keyRegistry.entries) + Len(expanders)
            <= MaxRegistrations /\ MaxRegistrations \in Nat
    BY ExpandersAssumption DEF RegistriesOK
  <2> DEFINE a == Len(addressRegistry.entries)
             k == Len(keyRegistry.entries)
             n == Len(expanders)
  <2>2. a \in Nat /\ k \in Nat /\ n \in Nat /\ MaxRegistrations \in Nat
        /\ a + k + n <= MaxRegistrations
    BY <1>1, <2>1
  <2> HIDE DEF a, k, n
  <2>3. n <= MaxRegistrations
    BY <2>2
  <2> QED
    BY <2>3 DEF n
<1>3. MaxRegistrations < WordSize
  BY ExpandersAssumption, EncodingsAssumption DEF Words
<1>4. x.expander \in Nat /\ x.expander < Len(expanders)
  BY DEF IsCompressor, CompressorOf
<1> QED
  BY <1>1, <1>2, <1>3, <1>4, ExpandersAssumption, EncodingsAssumption DEF Words

\* The delegator reads the expander's id and hands over to the expander.
LEMMA ExpandsById ==
    ASSUME RegistriesOK, NEW x, IsCompressor(x),
           NEW left \in Seq(Tokens), NEW V, NEW values \in Seq(V)
    PROVE  /\ EncodeVLQ(x.expander) \in Seq(Tokens)
           /\ Expand(Between(EncodeVLQ(x.expander) \o left, values)) =
                  ExpandBy(x.compressor, Between(left, values))
<1> DEFINE id == x.expander
           e == EncodeVLQ(id)
           s == e \o left
           c == Between(s, values)
           d == After(c, left, id)
           f == [d EXCEPT !.values = c.values]
<1>1. /\ id \in Words /\ id \in Nat /\ id < Len(expanders)
      /\ expanders[id + 1] = x.compressor
  BY SmallIds DEF IsCompressor, CompressorOf
<1> HIDE DEF id
<1>2. e \in Seq(Tokens)
  <2>1. e \in Seq(Bytes)
    BY <1>1, EncodedVLQ
  <2>2. Bytes \subseteq Tokens
    BY DEF Tokens
  <2> HIDE DEF e
  <2> QED
    BY <2>1, <2>2, SeqMonotonic
<1>3. s \in Seq(Tokens) /\ s = EncodeVLQ(id) \o left
  <2> HIDE DEF e
  <2>1. s \in Seq(Tokens)
    BY <1>2, ConcatProperties
  <2> QED
    BY <2>1 DEF e
<1> HIDE DEF e, s
<1>4. /\ c \in Cursors(Tokens, V) /\ StartsWith(c, EncodeVLQ(id), left)
      /\ c.values = values /\ c.bits = 0
  BY <1>3 DEF Between, Cursors, StartsWith
<1> HIDE DEF c
<1>5. DecodeVLQ(c) = {d}
  BY <1>1, <1>4, VLQRoundTrip
<1>6. Last(d.values) = id
  <2>1. d.values = Append(values, id)
    BY <1>4 DEF After
  <2>2. Last(Append(values, id)) = id
    BY LastOfAppend
  <2> QED
    BY <2>1, <2>2
<1>7. f = Between(left, values)
  <2> DEFINE w == Append(c.values, id)
  <2> HIDE DEF w
  <2>1. d = [stream |-> left, bits |-> 0, values |-> w]
    BY <1>4 DEF After, w
  <2> HIDE DEF d
  <2>2. \A v : [[stream |-> left, bits |-> 0, values |-> w] EXCEPT !.values = v] =
                   [stream |-> left, bits |-> 0, values |-> v]
    OBVIOUS
  <2> QED
    BY <1>4, <2>1, <2>2 DEF Between
<1> HIDE DEF d
<1>8. Expand(c) = ExpandBy(expanders[Last(d.values) + 1], f)
  <2>1. Expand(c) =
            UNION { ExpandBy(expanders[Last(y.values) + 1], [y EXCEPT !.values = c.values]) :
                      y \in { z \in {d} : Last(z.values) < Len(expanders) } }
    BY <1>5 DEF Expand
  <2>2. { z \in {d} : Last(z.values) < Len(expanders) } = {d}
    BY <1>1, <1>6
  <2>3. Expand(c) =
            UNION { ExpandBy(expanders[Last(y.values) + 1], [y EXCEPT !.values = c.values]) :
                      y \in {d} }
    BY <2>1, <2>2
  <2> QED
    BY <2>3
<1> HIDE DEF f
<1>9. Expand(c) = ExpandBy(x.compressor, Between(left, values))
  BY <1>1, <1>6, <1>7, <1>8
<1> QED
  BY <1>2, <1>9 DEF e, s, c, id

\* A compressed operation is expanded to the operation.
LEMMA ExpandsCompressed ==
    ASSUME RegistriesOK, NEW p, NEW item, IsComplete(p, item),
           NEW rest \in Seq(Tokens), NEW V, NEW values \in Seq(V)
    PROVE  /\ CompressedOperation(p) \in Seq(Tokens)
           /\ Expand(Between(CompressedOperation(p) \o rest, values)) =
                  {Between(rest, Append(values, item))}
<1> DEFINE x == p.compressor
           key == item.key
           operation == item.operation
<1>1. PICK codes : /\ Compressed(FieldsOf(x, item), codes)
                   /\ p.data = FlattenSeq(DataOf(codes))
                   /\ p.bits = FlattenSeq(BitsOf(codes))
  BY DEF IsComplete
<1>2. /\ IsCompressor(x) /\ item = Item(key, operation)
      /\ OperationFits(key, operation) /\ Accepts(x.compressor, key, operation)
  BY DEF IsComplete, IsGiven
<1> DEFINE data == p.data
           bits == p.bits
           e == EncodeVLQ(x.expander)
           middle == IF x.compressor = "registration" THEN <<>> ELSE EncodeBitStream(bits)
           left == middle \o (data \o rest)
<1>3. codes \in Seq(Codes)
  BY <1>1 DEF Compressed
<1>4. data \in Seq(Tokens) /\ bits \in Seq(BOOLEAN)
  BY <1>1, <1>3, CodesParts, FlattenType
<1>5. middle \in Seq(Tokens)
  <2>1. <<>> \in Seq(Tokens)
    OBVIOUS
  <2>2. BitStreamNumber(bits) \in Nat
    BY <1>4, BitStreamNumberType
  <2>3. EncodeBitStream(bits) \in Seq(Bytes)
    BY <2>2, EncodedVLQ DEF EncodeBitStream
  <2>4. Bytes \subseteq Tokens
    BY DEF Tokens
  <2>5. EncodeBitStream(bits) \in Seq(Tokens)
    BY <2>3, <2>4, SeqMonotonic
  <2> QED
    BY <2>1, <2>5
<1>6. e \in Seq(Tokens)
  BY <1>2, ExpandsById
<1>7. CompressedOperation(p) = (e \o middle) \o data
  BY DEF CompressedOperation
<1> HIDE DEF data, bits, e, middle
<1>8. /\ left \in Seq(Tokens) /\ data \o rest \in Seq(Tokens)
      /\ e \o middle \in Seq(Tokens) /\ (e \o middle) \o data \in Seq(Tokens)
  BY <1>4, <1>5, <1>6, ConcatProperties
<1>9. ((e \o middle) \o data) \o rest = e \o left
  <2> DEFINE r == data \o rest
             em == e \o middle
  <2>1. (em \o data) \o rest = em \o r
    <3>1. Regroups(Tokens) /\ em \in Seq(Tokens)
      BY <1>8, Regroup
    <3> HIDE DEF em
    <3> QED
      BY <1>4, <3>1 DEF Regroups
  <2>2. (e \o middle) \o r = e \o (middle \o r)
    <3>1. Regroups(Tokens) /\ r \in Seq(Tokens)
      BY <1>8, Regroup
    <3> HIDE DEF r
    <3> QED
      BY <1>5, <1>6, <3>1 DEF Regroups
  <2> QED
    BY <2>1, <2>2
<1>10. Expand(Between(e \o left, values)) = ExpandBy(x.compressor, Between(left, values))
  <2> HIDE DEF left
  <2> QED
    BY <1>2, <1>8, ExpandsById DEF e
<1>11. ExpandBy(x.compressor, Between(left, values)) = {Between(rest, Append(values, item))}
  <2>1. CASE x.compressor = "registration"
    <3>1. RegistrationCodes(key, operation, codes)
      BY <1>1, <1>2, <2>1 DEF RegistrationCodes, FieldsOf, Fields, Accepts
    <3>2. left = data \o rest
      <4> DEFINE r == data \o rest
      <4>1. r \in Seq(Tokens)
        BY <1>8
      <4> HIDE DEF r
      <4>2. <<>> \o r = r
        BY <4>1, ConcatEmptySeq
      <4>3. middle = <<>>
        BY <2>1 DEF middle
      <4> QED
        BY <4>2, <4>3 DEF r
    <3>3. ExpandRegistration(Between(FlattenSeq(DataOf(codes)) \o rest, values)) =
              {Between(rest, Append(values, Item(key, operation)))}
      BY <3>1, ExpandsRegistration
    <3> QED
      BY <1>1, <1>2, <2>1, <3>2, <3>3 DEF ExpandBy, data
  <2>2. CASE x.compressor # "registration"
    <3>1. x.compressor \in {"erc20", "fallback"}
      BY <1>2, <2>2 DEF IsCompressor, CompressorOf
    <3>2. OperationCodes(x.compressor, key, operation, codes)
      BY <1>1, <1>2, <3>1 DEF OperationCodes, Accepted, FieldsOf
    <3>3. BitStreamNumber(AllSet(Fields(x.compressor, key, operation))) \in Words
      BY <1>2, <3>1 DEF OperationFits
    <3>4. BitStreamNumber(FlattenSeq(BitsOf(codes))) \in Words
      BY <3>2, <3>3, BitsFit DEF OperationCodes
    <3>5. ExpandOperation(x.compressor, BeforeOperation(codes, rest, values)) =
              {Between(rest, Append(values, Item(key, operation)))}
      BY <3>2, <3>4, ExpandsOperation
    <3>6. Between(left, values) = BeforeOperation(codes, rest, values)
      BY <1>1, <2>2 DEF BeforeOperation, Between, middle, data, bits
    <3> QED
      BY <1>2, <2>2, <3>5, <3>6 DEF ExpandBy
  <2> QED
    BY <2>1, <2>2
<1> HIDE DEF left
<1> QED
  BY <1>7, <1>8, <1>9, <1>10, <1>11

Operations(q) == [i \in DOMAIN q |-> CompressedOperation(q[i])]

\* Compressed operations of this bundle, all complete.
AreComplete(q, b) ==
    /\ BundleFits(b) /\ DOMAIN q = 1..Len(b)
    /\ \A i \in 1..Len(b) : IsComplete(q[i], b[i])

ExpandAllOf(q, b) ==
    \A c : Fresh(c) = Between(FlattenSeq(Operations(q)), <<>>) =>
               ExpandAll(c, Len(b)) = {Between(<<>>, b)}

\* The delegator expands the operations one after the other.
LEMMA ExpandsAll ==
    ASSUME RegistriesOK, NEW q, NEW b, AreComplete(q, b)
    PROVE  FlattenSeq(Operations(q)) \in Seq(Tokens) /\ ExpandAllOf(q, b)
<1> DEFINE n == Len(b)
           V == {b[i] : i \in 1..n}
           ops == Operations(q)
           rest(i) == FlattenSeq(SubSeq(ops, i + 1, n))
           C == [i \in 0..n |-> Between(rest(i), SubSeq(b, 1, i))]
<1>1. n \in Nat /\ n \in Words /\ b \in Seq(V) /\ DOMAIN b = 1..n
  <2>1. /\ b = [i \in 1..n |-> By(b[i].key, b[i].operation.nonce,
                                  b[i].operation.gas, b[i].operation.actions)]
        /\ n \in Words
    BY DEF AreComplete, BundleFits
  <2>2. n \in Nat
    BY <2>1, EncodingsAssumption DEF Words
  <2>3. DOMAIN b = 1..n /\ b = [i \in 1..n |-> b[i]]
    BY <2>1
  <2>4. b \in Seq(V)
    <3> HIDE DEF n
    <3> QED
      BY <2>2, <2>3
  <2> QED
    BY <2>1, <2>2, <2>3, <2>4
<1> HIDE DEF V
<1>2. /\ DOMAIN q = 1..n
      /\ \A i \in 1..n : IsComplete(q[i], b[i])
  BY DEF AreComplete
<1>3. \A i \in 1..n : CompressedOperation(q[i]) \in Seq(Tokens)
  <2> SUFFICES ASSUME NEW i \in 1..n PROVE CompressedOperation(q[i]) \in Seq(Tokens)
    OBVIOUS
  <2>1. IsComplete(q[i], b[i]) /\ <<>> \in Seq(Tokens)
    BY <1>2
  <2> QED
    BY <2>1, ExpandsCompressed
<1> HIDE DEF n
<1>4. ops \in Seq(Seq(Tokens)) /\ Len(ops) = n /\ \A i \in 1..n : ops[i] = CompressedOperation(q[i])
  <2>1. ops = [i \in 1..n |-> CompressedOperation(q[i])]
    BY <1>2 DEF Operations
  <2> DEFINE E == Seq(Tokens)
  <2> HIDE DEF E, ops
  <2>2. ops \in Seq(E)
    BY <1>1, <1>3, <2>1 DEF E
  <2> QED
    BY <1>1, <2>1, <2>2 DEF E
<1> HIDE DEF ops
<1>5. C[0] = Between(FlattenSeq(ops), <<>>)
  <2>1. SubSeq(ops, 1, n) = ops
    BY <1>4, SubSeqFull
  <2>2. SubSeq(b, 1, 0) = <<>>
    BY SubSeqEmpty
  <2>3. 0 \in 0..n /\ 0 + 1 = 1
    BY <1>1
  <2> QED
    BY <2>1, <2>2, <2>3
<1>6. ASSUME NEW i \in 1..n PROVE Expand(C[i - 1]) = {C[i]}
  <2> DEFINE v == SubSeq(b, 1, i - 1)
             r == FlattenSeq(SubSeq(ops, i + 1, n))
  <2>1. SubSeq(b, 1, i) = Append(v, b[i]) /\ v \in Seq(V)
    BY <1>1, OneMore DEF n
  <2>2. r \in Seq(Tokens) /\ FlattenSeq(SubSeq(ops, i, n)) = ops[i] \o r
    BY <1>4, FlattenRest
  <2>3. C[i - 1] = Between(CompressedOperation(q[i]) \o r, v)
    <3>1. i - 1 \in 0..n /\ (i - 1) + 1 = i
      BY <1>1
    <3> HIDE DEF r, v
    <3>2. C[i - 1] = Between(FlattenSeq(SubSeq(ops, i, n)), v)
      BY <3>1 DEF v
    <3> QED
      BY <1>4, <2>2, <3>2
  <2>4. C[i] = Between(r, Append(v, b[i]))
    <3>1. i \in 0..n
      BY <1>1
    <3>2. C[i] = Between(r, SubSeq(b, 1, i))
      BY <3>1
    <3> QED
      BY <2>1, <3>2
  <2> HIDE DEF r, v, C
  <2>5. Expand(Between(CompressedOperation(q[i]) \o r, v)) = {Between(r, Append(v, b[i]))}
    <3>1. IsComplete(q[i], b[i])
      BY <1>2
    <3> QED
      BY <2>1, <2>2, <3>1, ExpandsCompressed
  <2> QED
    BY <2>3, <2>4, <2>5
<1>7. C[n] = Between(<<>>, b)
  <2>1. SubSeq(ops, n + 1, n) = <<>>
    <3>1. n + 1 > n
      BY <1>1
    <3> QED
      BY <1>1, <3>1, SubSeqEmpty
  <2>2. SubSeq(b, 1, n) = b
    BY <1>1, SubSeqFull DEF n
  <2>3. FlattenSeq(<<>>) = <<>>
    BY DEF FlattenSeq
  <2>4. n \in 0..n
    BY <1>1
  <2> QED
    BY <2>1, <2>2, <2>3, <2>4
<1> HIDE DEF C
<1>8. ASSUME NEW c, Fresh(c) = Between(FlattenSeq(ops), <<>>)
      PROVE  ExpandAll(c, n) = {Between(<<>>, b)}
  <2>1. OperationsLead(c, C, n)
    BY <1>1, <1>5, <1>6, <1>8 DEF OperationsLead
  <2> QED
    BY <1>7, <2>1, OperationsInTurn
<1>9. FlattenSeq(ops) \in Seq(Tokens)
  BY <1>4, FlattenType
<1> QED
  BY <1>8, <1>9 DEF ops, n, ExpandAllOf

\* The bundle compressed, as Compress does.
CompressedBundle(q, b) ==
    EncodeVLQ(Len(b)) \o FlattenSeq(Operations(q)) \o <<Word("signature", b)>>

\* BLSExpanderDelegator.run expands it to the bundle.
LEMMA RunExpands ==
    ASSUME RegistriesOK, NEW q, NEW b, AreComplete(q, b), stream = CompressedBundle(q, b)
    PROVE  Run = {b}
<1> DEFINE n == Len(b)
           e == EncodeVLQ(n)
           ops == FlattenSeq(Operations(q))
           c == Cursor(e \o ops)
           d == After(c, ops, n)
           f == Between(<<>>, b)
<1>1. n \in Words /\ n \in Nat
  BY EncodingsAssumption DEF AreComplete, BundleFits, Words
<1>2. ops \in Seq(Tokens) /\ ExpandAllOf(q, b)
  BY ExpandsAll
<1>3. e \in Seq(Tokens)
  <2>1. e \in Seq(Bytes)
    BY <1>1, EncodedVLQ
  <2>2. Bytes \subseteq Tokens
    BY DEF Tokens
  <2> HIDE DEF e
  <2> QED
    BY <2>1, <2>2, SeqMonotonic
<1> HIDE DEF n
<1>4. Front(stream) = e \o ops /\ e \o ops \in Seq(Tokens)
  <2>1. stream = (e \o ops) \o <<Word("signature", b)>>
    BY DEF CompressedBundle, n
  <2> DEFINE w == Word("signature", b)
             s == e \o ops
  <2> HIDE DEF w, e, ops
  <2>2. s \in Seq(Tokens)
    BY <1>2, <1>3, ConcatProperties
  <2>3. stream = s \o <<w>>
    BY <2>1 DEF w
  <2> HIDE DEF s
  <2>4. Front(stream) = s
    BY <2>2, <2>3, FrontAndLast
  <2> QED
    BY <2>2, <2>4 DEF s
<1>5. /\ c \in Cursors(Tokens, {}) /\ StartsWith(c, EncodeVLQ(n), ops)
      /\ c.bits = 0 /\ c.values = <<>>
  <2> DEFINE s == e \o ops
  <2>1. s \in Seq(Tokens) /\ s = EncodeVLQ(n) \o ops /\ <<>> \in Seq({})
    BY <1>4
  <2> HIDE DEF s, e, ops
  <2>2. c = [stream |-> s, bits |-> 0, values |-> <<>>]
    BY DEF Cursor, s
  <2> HIDE DEF c
  <2> QED
    BY <2>1, <2>2 DEF Cursors, StartsWith
<1>6. DecodeVLQ(Cursor(Front(stream))) = {d}
  <2> HIDE DEF c, e, ops
  <2>1. DecodeVLQ(c) = {d}
    BY <1>1, <1>2, <1>5, VLQRoundTrip
  <2> QED
    BY <1>4, <2>1 DEF c
<1> HIDE DEF c, e, ops
<1>7. Last(d.values) = n /\ Fresh(d) = Between(ops, <<>>)
  <2>1. d = [stream |-> ops, bits |-> 0, values |-> Append(<<>>, n)]
    BY <1>5 DEF After
  <2>2. <<>> \in Seq({})
    OBVIOUS
  <2>3. Last(Append(<<>>, n)) = n
    BY <2>2, LastOfAppend
  <2> DEFINE v == Append(<<>>, n)
  <2> HIDE DEF v, d
  <2>4. d = [stream |-> ops, bits |-> 0, values |-> v] /\ Last(v) = n
    BY <2>1, <2>3 DEF v
  <2>5. [[stream |-> ops, bits |-> 0, values |-> v] EXCEPT !.values = <<>>] =
            [stream |-> ops, bits |-> 0, values |-> <<>>]
    OBVIOUS
  <2>6. Fresh(d) = Between(ops, <<>>)
    BY <2>4, <2>5 DEF Fresh, Between
  <2>7. Last(d.values) = n
    BY <2>4
  <2> QED
    BY <2>6, <2>7
<1> HIDE DEF d
<1>8. ExpandAll(d, Last(d.values)) = {f}
  BY <1>2, <1>7 DEF ExpandAllOf, n, ops
<1>9. f.values = b /\ f.stream = <<>>
  BY DEF Between
<1> HIDE DEF f
<1>10. Run = UNION { { y.values : y \in {x \in ExpandAll(z, Last(z.values)) : x.stream = <<>>} } :
                     z \in {d} }
  BY <1>6 DEF Run
<1>11. Run = { y.values : y \in {x \in {f} : x.stream = <<>>} }
  BY <1>8, <1>10
<1>12. {x \in {f} : x.stream = <<>>} = {f}
  BY <1>9
<1>13. Run = { y.values : y \in {f} }
  BY <1>11, <1>12
<1> QED
  BY <1>9, <1>13

-----------------------------------------------------------------------------
(* A bundle while it is compressed                                          *)

\* The codes of the first of these fields.
Begun(keys, addresses, fields, codes) ==
    /\ fields \in Seq(FieldTypes) /\ codes \in Seq(Codes) /\ Len(codes) <= Len(fields)
    /\ \A i \in 1..Len(codes) : EncodesUnder(keys, addresses, fields[i], codes[i])

\* How far an operation is when these codes are written.
With(x, fields, codes) ==
    [ compressor |-> x, data |-> FlattenSeq(DataOf(codes)),
      bits |-> FlattenSeq(BitsOf(codes)),
      fields |-> SubSeq(fields, Len(codes) + 1, Len(fields)) ]

InProgress(keys, addresses, registered, p, item) ==
    /\ CompressorOf(registered, p.compressor)
    /\ item = Item(item.key, item.operation)
    /\ OperationFits(item.key, item.operation)
    /\ Accepts(p.compressor.compressor, item.key, item.operation)
    /\ \E codes : /\ Begun(keys, addresses, FieldsOf(p.compressor, item), codes)
                  /\ p = With(p.compressor, FieldsOf(p.compressor, item), codes)

\* What has grown and grows again has grown.
LEMMA GrownAgain ==
    ASSUME NEW a, NEW b, NEW c, Len(a.entries) \in Nat, Len(b.entries) \in Nat,
           Len(c.entries) \in Nat, Grown(a, b), Grown(b, c)
    PROVE  Grown(a, c)
<1>1. Len(c.entries) >= Len(a.entries)
  BY DEF Grown
<1>2. \A i \in 1..Len(a.entries) : i \in 1..Len(b.entries)
  BY DEF Grown
<1> QED
  BY <1>1, <1>2 DEF Grown

\* What was encoded stays encoded when more is registered.
LEMMA EncodedStays ==
    ASSUME NEW V, NEW r \in Registries(V), NEW later \in Registries(V), Grown(r, later),
           NEW field, NEW code, EncodedUnder(r, V, field, code)
    PROVE  EncodedUnder(later, V, field, code)
<1>1. PICK earlier \in Registries(V) :
           /\ Grown(earlier, r)
           /\ earlier.first + Len(earlier.entries) < WordSize
           /\ code = EncodeRegistered(earlier, field)
  BY DEF EncodedUnder
<1>2. \A x \in Registries(V) : Len(x.entries) \in Nat
  BY LenProperties DEF Registries
<1>3. Grown(earlier, later)
  BY <1>1, <1>2, GrownAgain
<1> QED
  BY <1>1, <1>3 DEF EncodedUnder

\* What more is registered: keys, addresses and expanders.
MoreRegistered(keys, addresses, registered, keys2, addresses2, registered2) ==
    /\ {keys, keys2} \subseteq Registries(RegistrableKeys)
    /\ {addresses, addresses2} \subseteq Registries(RegistrableAddresses)
    /\ Grown(keys, keys2) /\ Grown(addresses, addresses2)
    /\ Len(registered) \in Nat /\ Len(registered2) \in Nat
    /\ Len(registered2) >= Len(registered)
    /\ \A i \in 1..Len(registered) : registered2[i] = registered[i]

\* So what was compressed stays what it was.
LEMMA ProgressStays ==
    ASSUME NEW keys, NEW addresses, NEW registered,
           NEW keys2, NEW addresses2, NEW registered2,
           MoreRegistered(keys, addresses, registered, keys2, addresses2, registered2),
           NEW p, NEW item, InProgress(keys, addresses, registered, p, item)
    PROVE  InProgress(keys2, addresses2, registered2, p, item)
<1> DEFINE x == p.compressor
           fields == FieldsOf(x, item)
<1>1. CompressorOf(registered2, x)
  <2> DEFINE k == x.expander + 1
  <2>1. /\ x.compressor \in {"erc20", "registration", "fallback"}
        /\ x.expander \in Nat /\ x.expander < Len(registered)
        /\ registered[k] = x.compressor
    BY DEF InProgress, CompressorOf
  <2>2. /\ Len(registered) \in Nat /\ Len(registered2) \in Nat
        /\ Len(registered2) >= Len(registered)
        /\ \A i \in 1..Len(registered) : registered2[i] = registered[i]
    BY DEF MoreRegistered
  <2>3. k \in 1..Len(registered) /\ x.expander < Len(registered2)
    BY <2>1, <2>2
  <2> HIDE DEF k
  <2>4. registered2[k] = x.compressor
    BY <2>1, <2>2, <2>3
  <2> QED
    BY <2>1, <2>3, <2>4 DEF CompressorOf, k
<1>2. PICK codes : Begun(keys, addresses, fields, codes) /\ p = With(x, fields, codes)
  BY DEF InProgress
<1> HIDE DEF x, fields
<1>3. \A i \in 1..Len(codes) : EncodesUnder(keys2, addresses2, fields[i], codes[i])
  <2> SUFFICES ASSUME NEW i \in 1..Len(codes)
               PROVE  EncodesUnder(keys2, addresses2, fields[i], codes[i])
    OBVIOUS
  <2> DEFINE field == fields[i]
             code == codes[i]
  <2>1. EncodesUnder(keys, addresses, field, code)
    BY <1>2 DEF Begun
  <2> HIDE DEF field, code
  <2>2. field.type = "key" => EncodedUnder(keys2, RegistrableKeys, field, code)
    <3> SUFFICES ASSUME field.type = "key" PROVE EncodedUnder(keys2, RegistrableKeys, field, code)
      OBVIOUS
    <3>1. EncodedUnder(keys, RegistrableKeys, field, code)
      BY <2>1 DEF EncodesUnder
    <3> QED
      BY <3>1, EncodedStays DEF MoreRegistered
  <2>3. field.type = "address" => EncodedUnder(addresses2, RegistrableAddresses, field, code)
    <3> SUFFICES ASSUME field.type = "address"
                 PROVE  EncodedUnder(addresses2, RegistrableAddresses, field, code)
      OBVIOUS
    <3>1. EncodedUnder(addresses, RegistrableAddresses, field, code)
      BY <2>1 DEF EncodesUnder
    <3> QED
      BY <3>1, EncodedStays DEF MoreRegistered
  <2>4. EncodesUnder(keys2, addresses2, field, code)
    BY <2>1, <2>2, <2>3 DEF EncodesUnder
  <2> QED
    BY <2>4 DEF field, code
<1>4. Begun(keys2, addresses2, fields, codes)
  BY <1>2, <1>3 DEF Begun
<1> QED
  BY <1>1, <1>2, <1>4 DEF InProgress, x, fields

\* When no field is left, the operation is complete.
LEMMA ProgressEnds ==
    ASSUME NEW p, NEW item, p.fields = <<>>,
           InProgress(keyRegistry, addressRegistry, expanders, p, item)
    PROVE  IsComplete(p, item)
<1> DEFINE x == p.compressor
           fields == FieldsOf(x, item)
<1>1. PICK codes : /\ Begun(keyRegistry, addressRegistry, fields, codes)
                   /\ p = With(x, fields, codes)
  BY DEF InProgress
<1>2. IsGiven(x, item)
  BY DEF InProgress, IsGiven, IsCompressor, CompressorOf
<1> HIDE DEF x, fields
<1>3. /\ Len(codes) \in Nat /\ Len(fields) \in Nat /\ Len(codes) <= Len(fields)
      /\ fields \in Seq(FieldTypes) /\ codes \in Seq(Codes)
  BY <1>1, LenProperties DEF Begun
<1>4. Len(codes) = Len(fields)
  <2> DEFINE k == Len(codes) + 1
             n == Len(fields)
             r == SubSeq(fields, k, n)
  <2>1. r = <<>>
    BY <1>1 DEF With
  <2>2. Len(r) = IF k <= n THEN n - k + 1 ELSE 0
    <3>1. k \in Int /\ n \in Int /\ \A i \in k..n : fields[i] \in FieldTypes
      BY <1>3, ElementOfSeq
    <3> HIDE DEF k, n
    <3> QED
      BY <3>1, SubSeqProperties
  <2>3. Len(<<>>) = 0
    OBVIOUS
  <2> HIDE DEF r
  <2>4. ~(k <= n)
    BY <1>3, <2>1, <2>2, <2>3
  <2> QED
    BY <1>3, <2>4
<1>5. Compressed(fields, codes)
  <2>1. \A i \in 1..Len(fields) : Encodes(fields[i], codes[i])
    <3> SUFFICES ASSUME NEW i \in 1..Len(fields) PROVE Encodes(fields[i], codes[i])
      OBVIOUS
    <3>1. EncodesUnder(keyRegistry, addressRegistry, fields[i], codes[i])
      BY <1>1, <1>4 DEF Begun
    <3> QED
      BY <3>1 DEF Encodes, EncodesUnder
  <2> QED
    BY <1>3, <1>4, <2>1 DEF Compressed
<1>6. p.data = FlattenSeq(DataOf(codes)) /\ p.bits = FlattenSeq(BitsOf(codes))
  <2> DEFINE data == FlattenSeq(DataOf(codes))
             bits == FlattenSeq(BitsOf(codes))
  <2>1. p = [ compressor |-> x, data |-> data, bits |-> bits,
              fields |-> SubSeq(fields, Len(codes) + 1, Len(fields)) ]
    BY <1>1 DEF With
  <2> HIDE DEF data, bits
  <2>2. p.data = data /\ p.bits = bits
    BY <2>1
  <2> QED
    BY <2>2 DEF data, bits
<1> QED
  BY <1>2, <1>5, <1>6 DEF IsComplete, x, fields

\* What is left of what is left.
LEMMA RestOfRest ==
    ASSUME NEW S, NEW s \in Seq(S), NEW k \in 0..Len(s), NEW n \in 0..(Len(s) - k)
    PROVE  LET r == SubSeq(s, k + 1, Len(s))
           IN  /\ r \in Seq(S) /\ Len(r) = Len(s) - k
               /\ \A i \in 1..(Len(s) - k) : r[i] = s[k + i]
               /\ SubSeq(r, n + 1, Len(r)) = SubSeq(s, k + n + 1, Len(s))
<1> DEFINE L == Len(s)
           r == SubSeq(s, k + 1, L)
           t == SubSeq(r, n + 1, L - k)
           u == SubSeq(s, k + n + 1, L)
<1>1. L \in Nat /\ k \in Nat /\ n \in Nat /\ k <= L /\ n <= L - k
      /\ \A i \in 1..L : s[i] \in S
  BY LenProperties, ElementOfSeq
<1> HIDE DEF L
<1>2. /\ r \in Seq(S) /\ Len(r) = L - k
      /\ \A i \in 1..(L - k) : r[i] = s[k + i]
  <2> DEFINE m == k + 1
  <2>1. m \in Int /\ L \in Int /\ \A i \in m..L : s[i] \in S
    BY <1>1
  <2> HIDE DEF m
  <2>2. /\ SubSeq(s, m, L) \in Seq(S)
        /\ Len(SubSeq(s, m, L)) = IF m <= L THEN L - m + 1 ELSE 0
        /\ \A i \in 1..(L - m + 1) : SubSeq(s, m, L)[i] = s[m + i - 1]
    BY <2>1, SubSeqProperties
  <2> DEFINE v == SubSeq(s, m, L)
  <2> HIDE DEF v
  <2>3. /\ v \in Seq(S) /\ Len(v) = IF m <= L THEN L - m + 1 ELSE 0
        /\ \A i \in 1..(L - m + 1) : v[i] = s[m + i - 1]
    BY <2>2 DEF v
  <2>4. Len(v) = L - k /\ L - m + 1 = L - k /\ \A i \in 1..(L - k) : m + i - 1 = k + i
    BY <1>1, <2>3 DEF m
  <2>5. \A i \in 1..(L - k) : v[i] = s[k + i]
    BY <2>3, <2>4
  <2> QED
    BY <2>3, <2>4, <2>5 DEF v, m
<1> HIDE DEF r
<1>3. /\ t \in Seq(S) /\ Len(t) = L - k - n
      /\ \A i \in 1..(L - k - n) : t[i] = r[n + i]
  <2> DEFINE m == n + 1
             M == L - k
  <2>1. m \in Int /\ M \in Int /\ \A i \in m..M : r[i] \in S
    <3>1. \A i \in m..M : i \in 1..Len(r)
      BY <1>1, <1>2
    <3> QED
      BY <1>1, <1>2, <3>1, ElementOfSeq
  <2> HIDE DEF m, M
  <2>2. /\ SubSeq(r, m, M) \in Seq(S)
        /\ Len(SubSeq(r, m, M)) = IF m <= M THEN M - m + 1 ELSE 0
        /\ \A i \in 1..(M - m + 1) : SubSeq(r, m, M)[i] = r[m + i - 1]
    BY <2>1, SubSeqProperties
  <2> DEFINE v == SubSeq(r, m, M)
  <2> HIDE DEF v
  <2>3. /\ v \in Seq(S) /\ Len(v) = IF m <= M THEN M - m + 1 ELSE 0
        /\ \A i \in 1..(M - m + 1) : v[i] = r[m + i - 1]
    BY <2>2 DEF v
  <2>4. Len(v) = L - k - n /\ M - m + 1 = L - k - n
        /\ \A i \in 1..(L - k - n) : m + i - 1 = n + i
    BY <1>1, <2>3 DEF m, M
  <2>5. \A i \in 1..(L - k - n) : v[i] = r[n + i]
    BY <2>3, <2>4
  <2> QED
    BY <2>3, <2>4, <2>5 DEF v, m, M
<1> HIDE DEF t
<1>4. /\ u \in Seq(S) /\ Len(u) = L - k - n
      /\ \A i \in 1..(L - k - n) : u[i] = s[k + n + i]
  <2> DEFINE m == k + n + 1
  <2>1. m \in Int /\ L \in Int /\ \A i \in m..L : s[i] \in S
    BY <1>1
  <2> HIDE DEF m
  <2>2. /\ SubSeq(s, m, L) \in Seq(S)
        /\ Len(SubSeq(s, m, L)) = IF m <= L THEN L - m + 1 ELSE 0
        /\ \A i \in 1..(L - m + 1) : SubSeq(s, m, L)[i] = s[m + i - 1]
    BY <2>1, SubSeqProperties
  <2> DEFINE v == SubSeq(s, m, L)
  <2> HIDE DEF v
  <2>3. /\ v \in Seq(S) /\ Len(v) = IF m <= L THEN L - m + 1 ELSE 0
        /\ \A i \in 1..(L - m + 1) : v[i] = s[m + i - 1]
    BY <2>2 DEF v
  <2>4. Len(v) = L - k - n /\ L - m + 1 = L - k - n
        /\ \A i \in 1..(L - k - n) : m + i - 1 = k + n + i
    BY <1>1, <2>3 DEF m
  <2>5. \A i \in 1..(L - k - n) : v[i] = s[k + n + i]
    BY <2>3, <2>4
  <2> QED
    BY <2>3, <2>4, <2>5 DEF v, m
<1> HIDE DEF u
<1>5. \A i \in 1..(L - k - n) : t[i] = u[i]
  <2> SUFFICES ASSUME NEW i \in 1..(L - k - n) PROVE t[i] = u[i]
    OBVIOUS
  <2> DEFINE j == n + i
  <2>1. j \in 1..(L - k) /\ k + j = k + n + i
    BY <1>1
  <2> HIDE DEF j
  <2>2. r[j] = s[k + n + i]
    BY <1>2, <2>1
  <2> QED
    BY <1>3, <1>4, <2>2 DEF j
<1>6. t = u
  BY <1>3, <1>4, <1>5, SeqEqual
<1> QED
  BY <1>2, <1>6 DEF t, u, r, L

\* A set of numbers has a least one.
LEMMA MinIsIn ==
    ASSUME NEW I \in SUBSET Nat, I # {}
    PROVE  Min(I) \in I
<1>1. \E j \in I : \A k \in I : j <= k
  <2> SUFFICES ASSUME \A j \in I : \E k \in I : k < j
               PROVE  FALSE
    OBVIOUS
  <2> DEFINE T == {n \in Nat : n \notin I}
  <2>1. ASSUME NEW n \in Nat, \A m \in Nat : m < n => m \in T
        PROVE  n \in T
    BY <2>1
  <2> HIDE DEF T
  <2>2. \A n \in Nat : n \in T
    BY <2>1, StrongInduction
  <2> QED
    BY <2>2 DEF T
<1> QED
  BY <1>1 DEF Min

\* There are as many fields up to the next lookup.
LEMMA UpToLookupType ==
    ASSUME NEW fields, Len(fields) \in Nat
    PROVE  UpToLookup(fields) \in 0..Len(fields)
<1> DEFINE I == {i \in 1..Len(fields) : fields[i].type \in {"key", "address"}}
           i == IF I # {} THEN Min(I) ELSE 0
<1>1. UpToLookup(fields) = IF i = 0 THEN Len(fields) ELSE i
  BY DEF UpToLookup, SelectInSeq
<1>2. I \in SUBSET Nat /\ I \subseteq 1..Len(fields)
  OBVIOUS
<1> HIDE DEF I
<1>3. i \in 0..Len(fields)
  <2>1. CASE I = {}
    BY <2>1
  <2>2. CASE I # {}
    <3>1. Min(I) \in I
      BY <1>2, <2>2, MinIsIn
    <3> QED
      <4> DEFINE m == Min(I)
      <4>1. m \in 1..Len(fields) /\ i = m
        BY <1>2, <2>2, <3>1
      <4> HIDE DEF i, m
      <4> QED
        BY <4>1
  <2> QED
    BY <2>1, <2>2
<1> HIDE DEF i
<1> QED
  BY <1>1, <1>3

\* A field is encoded as the registries are now.
LEMMA EncodesNow ==
    ASSUME RegistriesOK, NEW field \in FieldTypes
    PROVE  /\ EncodesUnder(keyRegistry, addressRegistry, field, EncodeField(field))
           /\ EncodeField(field) \in Codes
<1>1. ASSUME NEW V, NEW r \in Registries(V), r.first + MaxRegistrations \in Words,
             Len(r.entries) <= MaxRegistrations
      PROVE  EncodedUnder(r, V, field, EncodeRegistered(r, field))
  <2>1. Len(r.entries) \in Nat /\ r.first \in Nat
    BY LenProperties DEF Registries
  <2>2. Grown(r, r)
    BY <2>1 DEF Grown
  <2>3. r.first + Len(r.entries) < WordSize
    BY <1>1, <2>1, ExpandersAssumption, EncodingsAssumption DEF Words
  <2> QED
    BY <2>2, <2>3 DEF EncodedUnder
<1> DEFINE a == Len(addressRegistry.entries)
           k == Len(keyRegistry.entries)
           n == Len(expanders)
<1>2. /\ keyRegistry \in Registries(RegistrableKeys)
      /\ addressRegistry \in Registries(RegistrableAddresses)
      /\ keyRegistry.first = FirstKeyId /\ addressRegistry.first = FirstAddressId
      /\ a \in Nat /\ k \in Nat /\ n \in Nat /\ a + k + n <= MaxRegistrations
  BY LenProperties DEF RegistriesOK, Registries
<1>3. a <= MaxRegistrations /\ k <= MaxRegistrations
  <2>1. MaxRegistrations \in Nat
    BY ExpandersAssumption
  <2> HIDE DEF a, k, n
  <2> QED
    BY <1>2, <2>1
<1>4. /\ FirstKeyId + MaxRegistrations \in Words
      /\ FirstAddressId + MaxRegistrations \in Words
  BY ExpandersAssumption
<1>5. EncodedUnder(keyRegistry, RegistrableKeys, field, EncodeRegistered(keyRegistry, field))
  BY <1>1, <1>2, <1>3, <1>4
<1>6. EncodedUnder(addressRegistry, RegistrableAddresses, field, EncodeRegistered(addressRegistry, field))
  BY <1>1, <1>2, <1>3, <1>4
<1> HIDE DEF a, k, n
<1>7. field.type \in {"key", "address", "vlq", "float", "bit", "newKey", "call"}
  BY DEF FieldTypes
<1> DEFINE code == EncodeField(field)
<1>8. /\ field.type = "key" => code = EncodeRegistered(keyRegistry, field)
      /\ field.type = "address" => code = EncodeRegistered(addressRegistry, field)
      /\ field.type = "vlq" => code = [data |-> EncodeVLQ(field.value), bits |-> <<>>]
      /\ field.type = "float" => code = [data |-> EncodePseudoFloat(field.value), bits |-> <<>>]
      /\ field.type = "bit" => code = [data |-> <<>>, bits |-> <<field.value>>]
      /\ field.type = "newKey" => code = [data |-> <<Word("key", field.value)>>, bits |-> <<>>]
      /\ field.type = "call" => code = [data |-> <<Word("call", field.value)>>, bits |-> <<>>]
  BY <1>7 DEF EncodeField
<1> HIDE DEF code
<1>9. EncodesUnder(keyRegistry, addressRegistry, field, code)
  <2>1. field.type = "key" => EncodedUnder(keyRegistry, RegistrableKeys, field, code)
    BY <1>5, <1>8
  <2>2. field.type = "address" => EncodedUnder(addressRegistry, RegistrableAddresses, field, code)
    BY <1>6, <1>8
  <2> QED
    BY <1>8, <2>1, <2>2 DEF EncodesUnder
<1>10. Encodes(field, code)
  BY <1>9 DEF Encodes, EncodesUnder
<1>11. code \in Codes
  BY <1>10, CodeType
<1> QED
  BY <1>9, <1>11 DEF code

\* Codes after other codes.
LEMMA PartsOfMore ==
    ASSUME NEW codes \in Seq(Codes), NEW new \in Seq(Codes)
    PROVE  /\ codes \o new \in Seq(Codes) /\ Len(codes \o new) = Len(codes) + Len(new)
           /\ \A i \in 1..(Len(codes) + Len(new)) :
                  (codes \o new)[i] = IF i <= Len(codes) THEN codes[i] ELSE new[i - Len(codes)]
           /\ FlattenSeq(DataOf(codes \o new)) =
                  FlattenSeq(DataOf(codes)) \o FlattenSeq(DataOf(new))
           /\ FlattenSeq(BitsOf(codes \o new)) =
                  FlattenSeq(BitsOf(codes)) \o FlattenSeq(BitsOf(new))
<1> DEFINE all == codes \o new
           a == Len(codes)
           b == Len(new)
<1>1. /\ all \in Seq(Codes) /\ Len(all) = a + b
      /\ \A i \in 1..(a + b) : all[i] = IF i <= a THEN codes[i] ELSE new[i - a]
  BY ConcatProperties
<1> DEFINE D == DataOf(codes)
           E == DataOf(new)
           DE == DataOf(all)
           B == BitsOf(codes)
           C == BitsOf(new)
           BC == BitsOf(all)
<1>2. /\ D \in Seq(Seq(Tokens)) /\ Len(D) = a /\ a \in Nat
      /\ B \in Seq(Seq(BOOLEAN)) /\ Len(B) = a
      /\ \A i \in 1..a : D[i] = codes[i].data /\ B[i] = codes[i].bits
  BY CodesParts
<1>3. /\ E \in Seq(Seq(Tokens)) /\ Len(E) = b /\ b \in Nat
      /\ C \in Seq(Seq(BOOLEAN)) /\ Len(C) = b
      /\ \A i \in 1..b : E[i] = new[i].data /\ C[i] = new[i].bits
  BY CodesParts
<1>4. /\ DE \in Seq(Seq(Tokens)) /\ Len(DE) = a + b
      /\ BC \in Seq(Seq(BOOLEAN)) /\ Len(BC) = a + b
      /\ \A i \in 1..(a + b) : DE[i] = all[i].data /\ BC[i] = all[i].bits
  <2> HIDE DEF all
  <2>1. /\ DE \in Seq(Seq(Tokens)) /\ Len(DE) = Len(all)
        /\ BC \in Seq(Seq(BOOLEAN)) /\ Len(BC) = Len(all)
        /\ \A i \in 1..Len(all) : DE[i] = all[i].data /\ BC[i] = all[i].bits
    BY <1>1, CodesParts
  <2> HIDE DEF DE, BC
  <2> QED
    BY <1>1, <2>1
<1> HIDE DEF all, a, b, D, E, DE, B, C, BC
<1>5. \A i \in 1..(a + b) : ~(i <= a) => i - a \in 1..b
  BY <1>2, <1>3
<1>6. \A i \in 1..(a + b) : i <= a => i \in 1..a
  BY <1>2, <1>3
<1>7. DE = D \o E
  <2> DEFINE s == D \o E
  <2>1. /\ s \in Seq(Seq(Tokens)) /\ Len(s) = a + b
        /\ \A i \in 1..(a + b) : s[i] = IF i <= a THEN D[i] ELSE E[i - a]
    <3>1. /\ s \in Seq(Seq(Tokens)) /\ Len(s) = Len(D) + Len(E)
          /\ \A i \in 1..(Len(D) + Len(E)) :
                 s[i] = IF i <= Len(D) THEN D[i] ELSE E[i - Len(D)]
      BY <1>2, <1>3, ConcatProperties
    <3> HIDE DEF s
    <3> QED
      BY <1>2, <1>3, <3>1
  <2> HIDE DEF s
  <2>2. \A i \in 1..(a + b) : DE[i] = s[i]
    <3> SUFFICES ASSUME NEW i \in 1..(a + b) PROVE DE[i] = s[i]
      OBVIOUS
    <3>1. CASE i <= a
      BY <1>1, <1>2, <1>4, <1>6, <2>1, <3>1
    <3>2. CASE ~(i <= a)
      <4> DEFINE j == i - a
      <4>1. j \in 1..b /\ all[i] = new[j] /\ s[i] = E[j] /\ DE[i] = all[i].data
        BY <1>1, <1>4, <1>5, <2>1, <3>2
      <4> HIDE DEF j
      <4> QED
        BY <1>3, <4>1
    <3> QED
      BY <3>1, <3>2
  <2>3. DE = s
    <3> DEFINE S == Seq(Tokens)
               n == a + b
    <3>1. /\ DE \in Seq(S) /\ s \in Seq(S) /\ Len(DE) = n /\ Len(s) = n
          /\ \A i \in 1..n : DE[i] = s[i]
      BY <1>4, <2>1, <2>2
    <3> HIDE DEF S, n
    <3> QED
      BY <3>1, SeqEqual
  <2> QED
    BY <2>3 DEF s
<1>8. BC = B \o C
  <2> DEFINE s == B \o C
  <2>1. /\ s \in Seq(Seq(BOOLEAN)) /\ Len(s) = a + b
        /\ \A i \in 1..(a + b) : s[i] = IF i <= a THEN B[i] ELSE C[i - a]
    <3>1. /\ s \in Seq(Seq(BOOLEAN)) /\ Len(s) = Len(B) + Len(C)
          /\ \A i \in 1..(Len(B) + Len(C)) :
                 s[i] = IF i <= Len(B) THEN B[i] ELSE C[i - Len(B)]
      BY <1>2, <1>3, ConcatProperties
    <3> HIDE DEF s
    <3> QED
      BY <1>2, <1>3, <3>1
  <2> HIDE DEF s
  <2>2. \A i \in 1..(a + b) : BC[i] = s[i]
    <3> SUFFICES ASSUME NEW i \in 1..(a + b) PROVE BC[i] = s[i]
      OBVIOUS
    <3>1. CASE i <= a
      BY <1>1, <1>2, <1>4, <1>6, <2>1, <3>1
    <3>2. CASE ~(i <= a)
      <4> DEFINE j == i - a
      <4>1. j \in 1..b /\ all[i] = new[j] /\ s[i] = C[j] /\ BC[i] = all[i].bits
        BY <1>1, <1>4, <1>5, <2>1, <3>2
      <4> HIDE DEF j
      <4> QED
        BY <1>3, <4>1
    <3> QED
      BY <3>1, <3>2
  <2>3. BC = s
    <3> DEFINE S == Seq(BOOLEAN)
               n == a + b
    <3>1. /\ BC \in Seq(S) /\ s \in Seq(S) /\ Len(BC) = n /\ Len(s) = n
          /\ \A i \in 1..n : BC[i] = s[i]
      BY <1>4, <2>1, <2>2
    <3> HIDE DEF S, n
    <3> QED
      BY <3>1, SeqEqual
  <2> QED
    BY <2>3 DEF s
<1>9. FlattenSeq(D \o E) = FlattenSeq(D) \o FlattenSeq(E)
  BY <1>2, <1>3, FlattenConcat
<1>10. FlattenSeq(B \o C) = FlattenSeq(B) \o FlattenSeq(C)
  BY <1>2, <1>3, FlattenConcat
<1>11. FlattenSeq(DE) = FlattenSeq(D) \o FlattenSeq(E)
  BY <1>7, <1>9
<1>12. FlattenSeq(BC) = FlattenSeq(B) \o FlattenSeq(C)
  BY <1>8, <1>10
<1> QED
  BY <1>1, <1>11, <1>12 DEF all, a, b, D, E, DE, B, C, BC

\* The fields of an operation, whichever compressor it is given to.
LEMMA FieldsType ==
    ASSUME NEW x, NEW item, x.compressor \in {"erc20", "registration", "fallback"},
           OperationFits(item.key, item.operation),
           Accepts(x.compressor, item.key, item.operation)
    PROVE  FieldsOf(x, item) \in Seq(FieldTypes)
<1> DEFINE key == item.key
           operation == item.operation
<1>1. CASE x.compressor = "registration"
  <2>1. RegistrationAccepts(key, operation)
    BY <1>1 DEF Accepts
  <2>2. RegistrationFields(key, operation) \in Seq(FieldTypes)
    BY <2>1, RegistrationFieldsType
  <2> QED
    BY <1>1, <2>2 DEF FieldsOf, Fields
<1>2. CASE x.compressor \in {"erc20", "fallback"}
  <2>1. Accepted(x.compressor, key, operation)
    BY <1>2 DEF Accepted
  <2> DEFINE h == OperationHead(key, operation)
             f == FlattenSeq(ActionFields(x.compressor, RegularActions(operation.actions)))
             p == PaymentFields(operation)
  <2>2. /\ h \in Seq(FieldTypes) /\ f \in Seq(FieldTypes) /\ p \in Seq(FieldTypes)
        /\ Fields(x.compressor, key, operation) = (h \o f) \o p
    BY <2>1, FieldsInParts
  <2> HIDE DEF h, f, p
  <2>3. (h \o f) \o p \in Seq(FieldTypes)
    BY <2>2, ConcatProperties
  <2> QED
    BY <2>2, <2>3 DEF FieldsOf
<1> QED
  BY <1>1, <1>2

\* An operation begins with no code.
LEMMA ProgressBegins ==
    ASSUME NEW keys, NEW addresses, NEW registered, NEW x, NEW item,
           CompressorOf(registered, x), item = Item(item.key, item.operation),
           OperationFits(item.key, item.operation),
           Accepts(x.compressor, item.key, item.operation)
    PROVE  InProgress(keys, addresses, registered,
                      [ compressor |-> x, data |-> <<>>, bits |-> <<>>,
                        fields |-> FieldsOf(x, item) ], item)
<1> DEFINE fields == FieldsOf(x, item)
           p == [compressor |-> x, data |-> <<>>, bits |-> <<>>, fields |-> fields]
           codes == <<>>
<1>1. fields \in Seq(FieldTypes) /\ Len(fields) \in Nat
  <2>1. fields \in Seq(FieldTypes)
    BY FieldsType DEF CompressorOf
  <2> HIDE DEF fields
  <2> QED
    BY <2>1, LenProperties
<1> HIDE DEF fields
<1>2. p.compressor = x
  OBVIOUS
<1>3. Begun(keys, addresses, fields, codes)
  <2>1. codes \in Seq(Codes) /\ Len(codes) = 0
    OBVIOUS
  <2> HIDE DEF codes
  <2> QED
    BY <1>1, <2>1 DEF Begun
<1>4. p = With(x, fields, codes)
  <2>1. Len(codes) = 0
    OBVIOUS
  <2>2. DataOf(codes) = <<>> /\ BitsOf(codes) = <<>>
    BY <2>1 DEF DataOf, BitsOf
  <2>3. FlattenSeq(<<>>) = <<>>
    BY DEF FlattenSeq
  <2>4. SubSeq(fields, Len(codes) + 1, Len(fields)) = fields
    BY <1>1, <2>1, SubSeqFull
  <2> QED
    BY <2>2, <2>3, <2>4 DEF With
<1> HIDE DEF p, codes
<1>5. InProgress(keys, addresses, registered, p, item)
  <2>1. FieldsOf(p.compressor, item) = fields
    BY <1>2 DEF fields
  <2>2. \E c : /\ Begun(keys, addresses, FieldsOf(p.compressor, item), c)
               /\ p = With(p.compressor, FieldsOf(p.compressor, item), c)
    BY <1>2, <1>3, <1>4, <2>1
  <2> QED
    BY <1>2, <2>2 DEF InProgress
<1> QED
  BY <1>5 DEF p, fields

\* From one lookup to the next, more of its codes are written.
LEMMA ProgressMade ==
    ASSUME RegistriesOK, NEW p, NEW item,
           InProgress(keyRegistry, addressRegistry, expanders, p, item)
    PROVE  InProgress(keyRegistry, addressRegistry, expanders,
                      EncodeFields(p, UpToLookup(p.fields)), item)
<1> DEFINE x == p.compressor
           fields == FieldsOf(x, item)
<1>1. PICK codes : /\ Begun(keyRegistry, addressRegistry, fields, codes)
                   /\ p = With(x, fields, codes)
  BY DEF InProgress
<1> DEFINE k == Len(codes)
           L == Len(fields)
           left == SubSeq(fields, k + 1, L)
           data == FlattenSeq(DataOf(codes))
           bits == FlattenSeq(BitsOf(codes))
           n == UpToLookup(p.fields)
           new == [i \in 1..n |-> EncodeField(left[i])]
           moreData == FlattenSeq(DataOf(new))
           moreBits == FlattenSeq(BitsOf(new))
           all == codes \o new
           q == EncodeFields(p, n)
<1> HIDE DEF x, fields
<1>2. /\ fields \in Seq(FieldTypes) /\ codes \in Seq(Codes)
      /\ k \in Nat /\ L \in Nat /\ k <= L
      /\ \A i \in 1..k : EncodesUnder(keyRegistry, addressRegistry, fields[i], codes[i])
  BY <1>1, LenProperties DEF Begun
<1>3. p = [compressor |-> x, data |-> data, bits |-> bits, fields |-> left]
  BY <1>1 DEF With
<1>4. /\ left \in Seq(FieldTypes) /\ Len(left) = L - k
      /\ \A i \in 1..(L - k) : left[i] = fields[k + i]
  <2>1. k \in 0..Len(fields) /\ 0 \in 0..(Len(fields) - k)
    BY <1>2
  <2> HIDE DEF k
  <2> QED
    BY <1>2, <2>1, RestOfRest DEF L
<1> HIDE DEF data, bits, left
<1>5. p.fields = left /\ p.data = data /\ p.bits = bits
  BY <1>3
<1>6. n \in 0..(L - k)
  <2>1. L - k \in Nat /\ n = UpToLookup(left)
    BY <1>2, <1>5
  <2> HIDE DEF n
  <2> QED
    BY <1>4, <2>1, UpToLookupType
<1> HIDE DEF n
<1>7. \A i \in 1..n : /\ left[i] \in FieldTypes /\ left[i] = fields[k + i]
                      /\ EncodesUnder(keyRegistry, addressRegistry, left[i], EncodeField(left[i]))
                      /\ EncodeField(left[i]) \in Codes
  <2> SUFFICES ASSUME NEW i \in 1..n
               PROVE  /\ left[i] \in FieldTypes /\ left[i] = fields[k + i]
                      /\ EncodesUnder(keyRegistry, addressRegistry, left[i], EncodeField(left[i]))
                      /\ EncodeField(left[i]) \in Codes
    OBVIOUS
  <2>1. i \in 1..Len(left) /\ i \in 1..(L - k)
    BY <1>2, <1>4, <1>6
  <2>2. left[i] \in FieldTypes
    BY <1>4, <2>1, ElementOfSeq
  <2> QED
    BY <1>4, <2>1, <2>2, EncodesNow
<1>8. new \in Seq(Codes) /\ Len(new) = n /\ n \in Nat
      /\ \A i \in 1..n : new[i] = EncodeField(left[i])
  BY <1>6, <1>7
<1>9. q = [compressor |-> x, data |-> data \o moreData, bits |-> bits \o moreBits,
           fields |-> SubSeq(left, n + 1, Len(left))]
  <2> DEFINE encoded == [i \in 1..n |-> EncodeField(p.fields[i])]
             D == [i \in 1..n |-> encoded[i].data]
             B == [i \in 1..n |-> encoded[i].bits]
  <2>1. encoded = new
    BY <1>5
  <2> HIDE DEF encoded, new
  <2>2. D = DataOf(new) /\ B = BitsOf(new)
    BY <1>8, <2>1 DEF DataOf, BitsOf
  <2>3. q = [p EXCEPT !.fields = SubSeq(@, n + 1, Len(@)),
                      !.data = @ \o FlattenSeq(D), !.bits = @ \o FlattenSeq(B)]
    BY DEF EncodeFields, encoded
  <2>4. q = [p EXCEPT !.fields = SubSeq(left, n + 1, Len(left)),
                      !.data = data \o moreData, !.bits = bits \o moreBits]
    <3> HIDE DEF D, B
    <3> QED
      BY <1>5, <2>2, <2>3
  <2> DEFINE d == data \o moreData
             b == bits \o moreBits
             f == SubSeq(left, n + 1, Len(left))
  <2> HIDE DEF d, b, f, q
  <2>5. q = [p EXCEPT !.fields = f, !.data = d, !.bits = b]
    BY <2>4 DEF d, b, f
  <2>6. q = [compressor |-> x, data |-> d, bits |-> b, fields |-> f]
    BY <1>3, <2>5
  <2> QED
    BY <2>6 DEF d, b, f
<1> HIDE DEF new, q
<1>10. /\ all \in Seq(Codes) /\ Len(all) = k + n
       /\ \A i \in 1..(k + n) : all[i] = IF i <= k THEN codes[i] ELSE new[i - k]
       /\ FlattenSeq(DataOf(all)) = data \o moreData
       /\ FlattenSeq(BitsOf(all)) = bits \o moreBits
  BY <1>2, <1>8, PartsOfMore DEF data, bits
<1>11. SubSeq(left, n + 1, Len(left)) = SubSeq(fields, k + n + 1, L)
  <2>1. k \in 0..Len(fields) /\ n \in 0..(Len(fields) - k)
    BY <1>2, <1>6
  <2> HIDE DEF k
  <2> QED
    BY <1>2, <2>1, RestOfRest DEF L, left
<1> HIDE DEF all, moreData, moreBits, k, L
<1>12. Begun(keyRegistry, addressRegistry, fields, all)
  <2>1. Len(all) <= Len(fields)
    BY <1>2, <1>6, <1>10 DEF L
  <2>2. ASSUME NEW i \in 1..(k + n)
        PROVE  EncodesUnder(keyRegistry, addressRegistry, fields[i], all[i])
    <3>1. CASE i <= k
      <4>1. i \in 1..k /\ all[i] = codes[i]
        BY <1>2, <1>8, <1>10, <3>1
      <4> QED
        BY <1>2, <4>1
    <3>2. CASE ~(i <= k)
      <4> DEFINE j == i - k
      <4>1. j \in 1..n /\ k + j = i /\ all[i] = new[j]
        BY <1>2, <1>8, <1>10, <3>2
      <4> HIDE DEF j
      <4>2. left[j] = fields[i] /\ new[j] = EncodeField(left[j])
        BY <1>7, <1>8, <4>1
      <4>3. EncodesUnder(keyRegistry, addressRegistry, left[j], EncodeField(left[j]))
        BY <1>7, <4>1
      <4> QED
        BY <4>1, <4>2, <4>3
    <3> QED
      BY <3>1, <3>2
  <2> QED
    BY <1>2, <1>10, <2>1, <2>2 DEF Begun
<1>13. q = With(x, fields, all)
  BY <1>9, <1>10, <1>11 DEF With, L
<1>14. q.compressor = x
  <2> DEFINE d == data \o moreData
             b == bits \o moreBits
             f == SubSeq(left, n + 1, Len(left))
  <2> HIDE DEF d, b, f
  <2>1. q = [compressor |-> x, data |-> d, bits |-> b, fields |-> f]
    BY <1>9 DEF d, b, f
  <2> QED
    BY <2>1
<1>15. InProgress(keyRegistry, addressRegistry, expanders, q, item)
  <2>1. FieldsOf(q.compressor, item) = fields
    BY <1>14 DEF fields
  <2>2. \E c : /\ Begun(keyRegistry, addressRegistry, FieldsOf(q.compressor, item), c)
               /\ q = With(q.compressor, FieldsOf(q.compressor, item), c)
    BY <1>12, <1>13, <1>14, <2>1
  <2> QED
    BY <1>14, <2>2 DEF InProgress, x
<1> QED
  BY <1>15 DEF q, n

-----------------------------------------------------------------------------
(* The client                                                               *)

\* Its compressors, of expanders that are registered.
CompressorsOK ==
    /\ compressors \in Seq([expander : Nat, compressor : Range(CompressorOrder)])
    /\ Len(compressors) <= Len(CompressorOrder)
    /\ \A i \in 1..Len(compressors) :
           /\ compressors[i].compressor = CompressorOrder[i]
           /\ CompressorOf(expanders, compressors[i])

\* The bundle, and how far it is.
ProgressOK ==
    /\ BundleFits(bundle)
    /\ DOMAIN progress = 1..Len(bundle)
    /\ \A i \in 1..Len(bundle) :
           InProgress(keyRegistry, addressRegistry, expanders, progress[i], bundle[i])

\* The stream, once it is complete.
StreamOK ==
    stream # <<>> =>
        /\ bundle # <<>>
        /\ \A i \in DOMAIN progress : progress[i].fields = <<>>
        /\ stream = CompressedBundle(progress, bundle)

CompressionOK == BundlesFit /\ RegistriesOK /\ CompressorsOK /\ ProgressOK /\ StreamOK

\* The three compressors of the client.
LEMMA OrderOfCompressors ==
    /\ Len(CompressorOrder) = 3
    /\ CompressorOrder[1] = "erc20" /\ CompressorOrder[2] = "registration"
    /\ CompressorOrder[3] = "fallback"
    /\ Range(CompressorOrder) = {"erc20", "registration", "fallback"}
    /\ \A i \in 1..3 : CompressorOrder[i] \in Range(CompressorOrder)
<1> QED
  BY DEF CompressorOrder, Range

\* The client begins with no compressor and no bundle.
LEMMA CompressionInit == BundlesFit /\ Init => CompressionOK
<1> SUFFICES ASSUME BundlesFit, Init PROVE CompressionOK
  OBVIOUS
<1>1. RegistriesOK
  BY RegistriesInit
<1>2. compressors = <<>> /\ bundle = <<>> /\ progress = <<>> /\ stream = <<>>
  BY DEF Init
<1>3. CompressorsOK
  BY <1>2, OrderOfCompressors DEF CompressorsOK
<1>4. BundleFits(<<>>)
  <2>1. 0 \in Words
    BY EncodingsAssumption DEF Words
  <2> QED
    BY <2>1 DEF BundleFits
<1>5. ProgressOK
  BY <1>2, <1>4 DEF ProgressOK
<1> QED
  BY <1>1, <1>2, <1>3, <1>5 DEF CompressionOK, StreamOK

\* The id of a compressor is that of an expander of its name.
LEMMA AddCompressorStep ==
    ASSUME CompressionOK, AddCompressor
    PROVE  CompressorsOK'
<1> DEFINE next == Len(compressors) + 1
           name == CompressorOrder[next]
           I == {i \in 1..Len(expanders) : expanders[i] = name}
           m == IF I # {} THEN Min(I) ELSE 0
           x == [expander |-> m - 1, compressor |-> name]
           R == [expander : Nat, compressor : Range(CompressorOrder)]
<1>1. /\ compressors \in Seq(R) /\ Len(compressors) \in Nat
      /\ Len(expanders) \in Nat
      /\ \A i \in 1..Len(compressors) :
             /\ compressors[i].compressor = CompressorOrder[i]
             /\ CompressorOf(expanders, compressors[i])
  BY LenProperties DEF CompressionOK, CompressorsOK, RegistriesOK
<1>2. /\ next <= Len(CompressorOrder) /\ m - 1 >= 0
      /\ compressors' = Append(compressors, x)
      /\ expanders' = expanders
  BY DEF AddCompressor, SelectInSeq
<1>3. next \in 1..3 /\ name \in {"erc20", "registration", "fallback"}
      /\ name \in Range(CompressorOrder)
  BY <1>1, <1>2, OrderOfCompressors
<1> HIDE DEF name, I
<1>4. m \in 1..Len(expanders) /\ expanders[m] = name
  <2>1. I # {}
    BY <1>2
  <2>2. I \in SUBSET Nat
    BY <1>1 DEF I
  <2>3. Min(I) \in I
    BY <2>1, <2>2, MinIsIn
  <2> QED
    BY <2>1, <2>3 DEF I
<1> HIDE DEF m
<1>5. CompressorOf(expanders, x) /\ x.compressor = name /\ x \in R
  <2>1. m - 1 \in Nat /\ m - 1 < Len(expanders) /\ (m - 1) + 1 = m
    BY <1>1, <1>4
  <2> DEFINE id == m - 1
  <2>2. id \in Nat /\ id < Len(expanders) /\ expanders[id + 1] = name
    BY <1>4, <2>1
  <2>3. x = [expander |-> id, compressor |-> name]
    OBVIOUS
  <2> HIDE DEF id, x
  <2> QED
    BY <1>3, <2>2, <2>3 DEF CompressorOf, R
<1> HIDE DEF x, R
<1>6. /\ compressors' \in Seq(R) /\ Len(compressors') = Len(compressors) + 1
      /\ \A i \in 1..Len(compressors) : compressors'[i] = compressors[i]
      /\ compressors'[Len(compressors) + 1] = x
  BY <1>1, <1>2, <1>5, AppendProperties
<1>7. \A i \in 1..Len(compressors') :
          /\ compressors'[i].compressor = CompressorOrder[i]
          /\ CompressorOf(expanders', compressors'[i])
  <2> SUFFICES ASSUME NEW i \in 1..Len(compressors')
               PROVE  /\ compressors'[i].compressor = CompressorOrder[i]
                      /\ CompressorOf(expanders', compressors'[i])
    OBVIOUS
  <2>1. CASE i \in 1..Len(compressors)
    BY <1>1, <1>2, <1>6, <2>1
  <2>2. CASE i = next
    BY <1>2, <1>5, <1>6, <2>2 DEF name
  <2> QED
    BY <1>1, <1>6, <2>1, <2>2
<1> QED
  BY <1>1, <1>2, <1>6, <1>7 DEF CompressorsOK, R

\* The compressor that an operation is given to.
GivenTo(key, operation) ==
    compressors[SelectInSeq(compressors, LAMBDA x : Accepts(x.compressor, key, operation))]

\* Some compressor accepts an operation, the fallback if no other does.
LEMMA FirstThatAccepts ==
    ASSUME CompressionOK, Len(compressors) = Len(CompressorOrder),
           NEW key, NEW operation
    PROVE  /\ CompressorOf(expanders, GivenTo(key, operation))
           /\ Accepts(GivenTo(key, operation).compressor, key, operation)
<1> DEFINE I == {i \in 1..Len(compressors) : Accepts(compressors[i].compressor, key, operation)}
           m == IF I # {} THEN Min(I) ELSE 0
<1>1. Len(compressors) = 3 /\ compressors[3].compressor = "fallback"
      /\ \A i \in 1..3 : CompressorOf(expanders, compressors[i])
  BY OrderOfCompressors DEF CompressionOK, CompressorsOK
<1>2. SelectInSeq(compressors, LAMBDA x : Accepts(x.compressor, key, operation)) = m
  BY DEF SelectInSeq
<1>3. 3 \in I
  <2>1. Accepts("fallback", key, operation)
    BY DEF Accepts
  <2> QED
    BY <1>1, <2>1
<1>4. I \in SUBSET Nat
  BY <1>1
<1>5. m \in I
  <2> HIDE DEF I
  <2> QED
    BY <1>3, <1>4, MinIsIn
<1>6. m \in 1..3 /\ Accepts(compressors[m].compressor, key, operation)
  BY <1>1, <1>5
<1> HIDE DEF m
<1> QED
  BY <1>1, <1>2, <1>6 DEF GivenTo

\* A bundle begins with no code.
LEMMA StartCompressStep ==
    ASSUME CompressionOK, NEW b \in Bundles, StartCompress(b)
    PROVE  ProgressOK' /\ StreamOK'
<1> DEFINE c(i) == GivenTo(b[i].key, b[i].operation)
           p(i) == [ compressor |-> c(i), data |-> <<>>, bits |-> <<>>,
                     fields |-> FieldsOf(c(i), b[i]) ]
<1>1. /\ Len(compressors) = Len(CompressorOrder) /\ bundle = <<>> /\ bundle' = b
      /\ progress' = [i \in DOMAIN b |-> p(i)]
      /\ stream' = stream /\ expanders' = expanders
      /\ keyRegistry' = keyRegistry /\ addressRegistry' = addressRegistry
  BY DEF StartCompress, FieldsOf, GivenTo
<1>2. BundleFits(b)
  BY DEF CompressionOK, BundlesFit
<1>3. /\ b = [i \in 1..Len(b) |-> Item(b[i].key, b[i].operation)]
      /\ \A i \in 1..Len(b) : OperationFits(b[i].key, b[i].operation)
  BY <1>2 DEF BundleFits, Item
<1>4. ASSUME NEW i \in 1..Len(b)
      PROVE  InProgress(keyRegistry, addressRegistry, expanders, p(i), b[i])
  <2> DEFINE x == c(i)
             item == b[i]
  <2>1. CompressorOf(expanders, x) /\ Accepts(x.compressor, item.key, item.operation)
    BY <1>1, FirstThatAccepts
  <2>2. item = Item(item.key, item.operation) /\ OperationFits(item.key, item.operation)
    BY <1>3
  <2> HIDE DEF x, item
  <2>3. InProgress(keyRegistry, addressRegistry, expanders,
                   [ compressor |-> x, data |-> <<>>, bits |-> <<>>,
                     fields |-> FieldsOf(x, item) ], item)
    BY <2>1, <2>2, ProgressBegins
  <2> QED
    BY <2>3 DEF x, item
<1> HIDE DEF p, c
<1>5. DOMAIN b = 1..Len(b)
  BY <1>3
<1>6. DOMAIN progress' = 1..Len(b) /\ \A i \in 1..Len(b) : progress'[i] = p(i)
  BY <1>1, <1>5
<1>7. ProgressOK'
  BY <1>1, <1>2, <1>4, <1>6 DEF ProgressOK
<1>8. stream' = <<>>
  BY <1>1 DEF CompressionOK, StreamOK
<1> QED
  BY <1>7, <1>8 DEF StreamOK

\* An operation is compressed up to its next lookup.
LEMMA CompressOperationStep ==
    ASSUME CompressionOK, NEW k \in DOMAIN progress, CompressOperation(k)
    PROVE  ProgressOK' /\ StreamOK'
<1>1. /\ progress[k].fields # <<>>
      /\ progress' = [progress EXCEPT ![k] =
                          EncodeFields(progress[k], UpToLookup(progress[k].fields))]
      /\ bundle' = bundle /\ stream' = stream /\ expanders' = expanders
      /\ keyRegistry' = keyRegistry /\ addressRegistry' = addressRegistry
  BY DEF CompressOperation
<1>2. /\ BundleFits(bundle) /\ DOMAIN progress = 1..Len(bundle) /\ RegistriesOK
      /\ \A i \in 1..Len(bundle) :
             InProgress(keyRegistry, addressRegistry, expanders, progress[i], bundle[i])
  BY DEF CompressionOK, ProgressOK
<1> DEFINE q == EncodeFields(progress[k], UpToLookup(progress[k].fields))
<1>3. InProgress(keyRegistry, addressRegistry, expanders, q, bundle[k])
  BY <1>2, ProgressMade
<1> HIDE DEF q
<1>4. /\ DOMAIN progress' = DOMAIN progress /\ progress'[k] = q
      /\ \A i \in DOMAIN progress : i # k => progress'[i] = progress[i]
  <2>1. progress' = [progress EXCEPT ![k] = q]
    BY <1>1 DEF q
  <2> QED
    BY <2>1
<1>5. ASSUME NEW i \in 1..Len(bundle)
      PROVE  InProgress(keyRegistry, addressRegistry, expanders, progress'[i], bundle[i])
  BY <1>2, <1>3, <1>4
<1>6. ProgressOK'
  BY <1>1, <1>2, <1>4, <1>5 DEF ProgressOK
<1>7. stream = <<>>
  BY <1>1 DEF CompressionOK, StreamOK
<1> QED
  BY <1>1, <1>6, <1>7 DEF StreamOK

\* The stream is complete when all operations are.
LEMMA CompressStep ==
    ASSUME CompressionOK, Compress
    PROVE  StreamOK'
<1>1. /\ bundle # <<>> /\ \A i \in DOMAIN progress : progress[i].fields = <<>>
      /\ stream' = CompressedBundle(progress, bundle)
      /\ bundle' = bundle /\ progress' = progress
  BY DEF Compress, CompressedBundle, Operations
<1> QED
  BY <1>1 DEF StreamOK, CompressedBundle, Operations, CompressedOperation

\* What does not change the bundle leaves it as far as it was, whatever is
\* registered meanwhile.
LEMMA BundleStays ==
    ASSUME CompressionOK, RegistriesOK', StepExtends,
           UNCHANGED <<bundle, progress>>
    PROVE  ProgressOK'
<1>1. MoreRegistered(keyRegistry, addressRegistry, expanders,
                     keyRegistry', addressRegistry', expanders')
  <2>1. Len(expanders) \in Nat /\ Len(expanders') \in Nat
    BY LenProperties DEF CompressionOK, RegistriesOK
  <2> QED
    BY <2>1 DEF MoreRegistered, StepExtends, CompressionOK, RegistriesOK
<1>2. ASSUME NEW i \in 1..Len(bundle)
      PROVE  InProgress(keyRegistry', addressRegistry', expanders', progress[i], bundle[i])
  <2>1. InProgress(keyRegistry, addressRegistry, expanders, progress[i], bundle[i])
    BY DEF CompressionOK, ProgressOK
  <2> QED
    BY <1>1, <2>1, ProgressStays
<1> QED
  BY <1>2 DEF ProgressOK, CompressionOK

\* So do the client's compressors.
LEMMA CompressorsStay ==
    ASSUME CompressionOK, RegistriesOK', StepExtends, UNCHANGED compressors
    PROVE  CompressorsOK'
<1>1. /\ Len(expanders) \in Nat /\ Len(expanders') \in Nat
      /\ Len(expanders') >= Len(expanders)
      /\ \A i \in 1..Len(expanders) : expanders'[i] = expanders[i]
  BY LenProperties DEF CompressionOK, RegistriesOK, StepExtends
<1>2. ASSUME NEW x, CompressorOf(expanders, x) PROVE CompressorOf(expanders', x)
  <2> DEFINE k == x.expander + 1
  <2>1. x.expander \in Nat /\ x.expander < Len(expanders) /\ expanders[k] = x.compressor
    BY <1>2 DEF CompressorOf
  <2>2. k \in 1..Len(expanders) /\ x.expander < Len(expanders')
    BY <1>1, <2>1
  <2> HIDE DEF k
  <2>3. expanders'[k] = x.compressor
    BY <1>1, <2>1, <2>2
  <2> QED
    BY <1>2, <2>1, <2>2, <2>3 DEF CompressorOf, k
<1> QED
  BY <1>2 DEF CompressionOK, CompressorsOK

\* Every step preserves the invariant.
LEMMA CompressionStep == CompressionOK /\ [Next]_vars => CompressionOK'
<1> SUFFICES ASSUME CompressionOK, [Next]_vars PROVE CompressionOK'
  OBVIOUS
<1>1. RegistriesOK' /\ StepExtends
  BY RegistriesStep DEF CompressionOK
<1>2. BundlesFit'
  BY DEF CompressionOK, BundlesFit
<1>3. CASE Registration
  <2>1. UNCHANGED <<compressors, bundle, progress, stream>>
    BY <1>3 DEF Registration, RegisterAddress, RegisterKey, RegisterBoth, RegisterExpander
  <2>2. CompressorsOK' /\ ProgressOK'
    BY <1>1, <2>1, BundleStays, CompressorsStay
  <2>3. StreamOK'
    BY <2>1 DEF CompressionOK, StreamOK, CompressedBundle, Operations, CompressedOperation
  <2> QED
    BY <1>1, <1>2, <2>2, <2>3 DEF CompressionOK
<1>4. CASE AddCompressor
  <2>1. UNCHANGED <<bundle, progress, stream>>
    BY <1>4 DEF AddCompressor
  <2>2. CompressorsOK' /\ ProgressOK'
    BY <1>1, <1>4, <2>1, AddCompressorStep, BundleStays
  <2>3. StreamOK'
    BY <2>1 DEF CompressionOK, StreamOK, CompressedBundle, Operations, CompressedOperation
  <2> QED
    BY <1>1, <1>2, <2>2, <2>3 DEF CompressionOK
<1>5. CASE \E b \in Bundles : StartCompress(b)
  <2>1. PICK b \in Bundles : StartCompress(b)
    BY <1>5
  <2>2. CompressorsOK'
    BY <1>1, <2>1, CompressorsStay DEF StartCompress
  <2>3. ProgressOK' /\ StreamOK'
    BY <2>1, StartCompressStep
  <2> QED
    BY <1>1, <1>2, <2>2, <2>3 DEF CompressionOK
<1>6. CASE \E i \in DOMAIN progress : CompressOperation(i)
  <2>1. PICK i \in DOMAIN progress : CompressOperation(i)
    BY <1>6
  <2>2. CompressorsOK'
    BY <1>1, <2>1, CompressorsStay DEF CompressOperation
  <2>3. ProgressOK' /\ StreamOK'
    BY <2>1, CompressOperationStep
  <2> QED
    BY <1>1, <1>2, <2>2, <2>3 DEF CompressionOK
<1>7. CASE Compress
  <2>1. UNCHANGED <<compressors, bundle, progress>>
    BY <1>7 DEF Compress
  <2>2. CompressorsOK' /\ ProgressOK'
    BY <1>1, <2>1, BundleStays, CompressorsStay
  <2>3. StreamOK'
    BY <1>7, CompressStep
  <2> QED
    BY <1>1, <1>2, <2>2, <2>3 DEF CompressionOK
<1>8. CASE UNCHANGED vars
  <2>1. UNCHANGED <<compressors, bundle, progress, stream>>
    BY <1>8 DEF vars
  <2>2. CompressorsOK' /\ ProgressOK'
    BY <1>1, <2>1, BundleStays, CompressorsStay
  <2>3. StreamOK'
    BY <2>1 DEF CompressionOK, StreamOK, CompressedBundle, Operations, CompressedOperation
  <2> QED
    BY <1>1, <1>2, <2>2, <2>3 DEF CompressionOK
<1> QED
  BY <1>3, <1>4, <1>5, <1>6, <1>7, <1>8 DEF Next

\* And where it holds, a complete stream expands to the bundle.
LEMMA CompressionExpands == CompressionOK => ExpandsToBundle
<1> SUFFICES ASSUME CompressionOK, stream # <<>> PROVE Run = {bundle}
  BY DEF ExpandsToBundle
<1>1. /\ \A i \in DOMAIN progress : progress[i].fields = <<>>
      /\ stream = CompressedBundle(progress, bundle)
  BY DEF CompressionOK, StreamOK
<1>2. /\ BundleFits(bundle) /\ DOMAIN progress = 1..Len(bundle) /\ RegistriesOK
      /\ \A i \in 1..Len(bundle) :
             InProgress(keyRegistry, addressRegistry, expanders, progress[i], bundle[i])
  BY DEF CompressionOK, ProgressOK
<1>3. \A i \in 1..Len(bundle) : IsComplete(progress[i], bundle[i])
  <2> SUFFICES ASSUME NEW i \in 1..Len(bundle) PROVE IsComplete(progress[i], bundle[i])
    OBVIOUS
  <2>1. progress[i].fields = <<>>
    BY <1>1, <1>2
  <2> QED
    BY <1>2, <2>1, ProgressEnds
<1>4. AreComplete(progress, bundle)
  BY <1>2, <1>3 DEF AreComplete
<1> QED
  BY <1>1, <1>2, <1>4, RunExpands

\* A compressed bundle expands to the bundle that was signed, whatever anyone
\* registers while it is compressed and after: BundleCompressor and
\* BLSExpanderDelegator, for all bundles that fit.
THEOREM CompressedBundlesExpand == BundlesFit /\ Spec => []ExpandsToBundle
<1>1. BundlesFit /\ Init => CompressionOK
  BY CompressionInit
<1>2. CompressionOK /\ [Next]_vars => CompressionOK'
  BY CompressionStep
<1>3. CompressionOK => ExpandsToBundle
  BY CompressionExpands
<1> QED
  BY <1>1, <1>2, <1>3, PTL DEF Spec
=============================================================================
