------------------------------ MODULE Expanders ------------------------------
(****************************************************************************)
(* Compressed bundles, from the clients that compress them                  *)
(* (contracts/clients/src/BundleCompressor.ts and its compressors) to the   *)
(* contracts that expand them again (contracts/contracts:                   *)
(* BLSExpanderDelegator.sol, ERC20Expander.sol, BLSRegistration.sol,        *)
(* FallbackExpander.sol), with the two registries that give short ids to    *)
(* addresses and keys.                                                      *)
(*                                                                          *)
(* A compressor reads the registries while anyone may register more, and    *)
(* its bundle is expanded later still.                                      *)
(****************************************************************************)
EXTENDS Encodings

CONSTANTS
    Keys,
    Addresses,          \* those but zero
    zero,               \* the address zero, and the key of four zeros
    aggregatorUtilities,
    blsRegistration,
    Bundles,            \* sequences of operations to compress
    FirstAddressId,     \* how many addresses and keys of no interest were
    FirstKeyId,         \* registered before
    MaxRegistrations    \* bounds the registrations, of expanders too

ASSUME ExpandersAssumption ==
    /\ {aggregatorUtilities, blsRegistration} \subseteq Addresses
    /\ zero \notin Keys \union Addresses
    /\ {FirstAddressId, FirstKeyId, MaxRegistrations} \subseteq Nat
    /\ {FirstAddressId + MaxRegistrations, FirstKeyId + MaxRegistrations} \subseteq Words

VARIABLES
    addressRegistry,    \* AddressRegistry and
    keyRegistry,        \* BLSPublicKeyRegistry: [first |-> id, entries |-> <<..>>]
    expanders,          \* the delegator's expanders, of ids 0, 1, ...
    compressors,        \* the client's, with their expanders' ids
    bundle,             \* what the client compresses, << >> if nothing
    progress,           \* and how far it is, by operation
    stream              \* the compressed bundle, << >> before it is complete

vars == <<addressRegistry, keyRegistry, expanders, compressors, bundle,
          progress, stream>>

CompressorOrder == <<"erc20", "registration", "fallback">>

-----------------------------------------------------------------------------
(* Operations.  A call has a method, its words (addresses, or the key of    *)
(* register), and a number.                                                 *)

Action(ethValue, contract, call) ==
    [ethValue |-> ethValue, contract |-> contract, call |-> call]

Call(method, words, value) == [method |-> method, words |-> words, value |-> value]

SendEthToTxOrigin == Call("sendEthToTxOrigin", <<>>, 0)

Register(key) == Call("register", <<key>>, 0)

\* Bytes of a call: four for the method, 32 for each argument, 128 for a key.
CallLength ==
    [ none |-> 0, sendEthToTxOrigin |-> 4, register |-> 132,
      transfer |-> 68, transferFrom |-> 100, approve |-> 68, mint |-> 68 ]

Erc20Methods == <<"transfer", "transferFrom", "approve", "approve", "mint">>

\* The types of their arguments; the fourth approves the largest number.
Erc20Types == << <<"address", "float">>, <<"address", "address", "float">>,
                 <<"address", "float">>, <<"address">>, <<"address", "float">> >>

MaxUint == WordSize - 1

-----------------------------------------------------------------------------
(* The registries                                                           *)

Registered(registry, v) ==
    [registry EXCEPT !.entries = Append(@, v)]

MayRegister(n) ==
    Len(addressRegistry.entries) + Len(keyRegistry.entries) + Len(expanders) + n
        <= MaxRegistrations

HasId(registry, v) == v \in Range(registry.entries)

\* Of the events for v, the last one has the id.
ReverseLookup(registry, v) ==
    registry.first + SelectLastInSeq(registry.entries, LAMBDA e : e = v) - 1

\* The entry whose id was read last.  There may be none, and a zero, which
\* anyone may register too, counts as none.
Lookup(registry, c, id) ==
    { Result(id, c, registry.entries[i]) :
        i \in { j \in {Last(id.values) - registry.first + 1} \cap DOMAIN registry.entries :
                  registry.entries[j] # zero } }

RegisterAddress(address) ==
    /\ MayRegister(1)
    /\ addressRegistry' = Registered(addressRegistry, address)
    /\ UNCHANGED <<keyRegistry, expanders, compressors, bundle, progress, stream>>

RegisterKey(key) ==
    /\ MayRegister(1)
    /\ keyRegistry' = Registered(keyRegistry, key)
    /\ UNCHANGED <<addressRegistry, expanders, compressors, bundle, progress, stream>>

\* BLSRegistration.register, called by a wallet for any key.
RegisterBoth(key, sender) ==
    /\ MayRegister(2)
    /\ keyRegistry' = Registered(keyRegistry, key)
    /\ addressRegistry' = Registered(addressRegistry, sender)
    /\ UNCHANGED <<expanders, compressors, bundle, progress, stream>>

-----------------------------------------------------------------------------
(* The compressors                                                          *)

Field(type, value) == [type |-> type, value |-> value]

\* A payment to the aggregator, as the last action, is encoded on its own.
Pays(actions) ==
    /\ actions # <<>>
    /\ Last(actions).contract = aggregatorUtilities
    /\ Last(actions).call = SendEthToTxOrigin

RegularActions(actions) == IF Pays(actions) THEN Front(actions) ELSE actions

OperationFields(key, operation, actionFields) ==
    <<Field("key", key), Field("vlq", operation.nonce),
      Field("float", operation.gas), Field("vlq", Len(operation.actions)),
      Field("bit", Pays(operation.actions))>>
    \o FlattenSeq(actionFields)
    \o IF Pays(operation.actions)
       THEN <<Field("float", Last(operation.actions).ethValue)>> ELSE <<>>

FallbackAction(action) ==
    <<Field("float", action.ethValue), Field("address", action.contract),
      Field("vlq", CallLength[action.call.method]), Field("call", action.call)>>

\* The action's ether is not encoded.
Erc20Action(action) ==
    LET call == action.call
        max == call.method = "approve" /\ call.value = MaxUint
        index == IF max THEN 4 ELSE SelectInSeq(Erc20Methods, LAMBDA m : m = call.method)
    IN  <<Field("address", action.contract), Field("vlq", index - 1)>>
        \o [i \in DOMAIN call.words |-> Field("address", call.words[i])]
        \o IF max THEN <<>> ELSE <<Field("float", call.value)>>

Erc20Accepts(operation) ==
    \A i \in DOMAIN RegularActions(operation.actions) :
        operation.actions[i].call.method \in Range(Erc20Methods)

\* Mutated: a payment of nothing is accepted, and expands to no payment.
RegistrationAcceptsAnyPayment(key, operation) ==
    /\ Len(operation.actions) \in 1..2
    /\ operation.actions[1] = Action(0, blsRegistration, Register(key))
    /\ Len(operation.actions) = 2 => Pays(operation.actions)

RegistrationAccepts(key, operation) ==
    /\ Len(operation.actions) \in 1..2
    /\ operation.actions[1] = Action(0, blsRegistration, Register(key))
    /\ Len(operation.actions) = 2 =>
           Pays(operation.actions) /\ operation.actions[2].ethValue # 0

RegistrationFields(key, operation) ==
    <<Field("newKey", key), Field("vlq", operation.nonce),
      Field("float", operation.gas),
      Field("float", IF Pays(operation.actions)
                     THEN Last(operation.actions).ethValue ELSE 0)>>

Accepts(compressor, key, operation) ==
    CASE compressor = "erc20" -> Erc20Accepts(operation)
      [] compressor = "registration" -> RegistrationAccepts(key, operation)
      [] compressor = "fallback" -> TRUE

\* What a compressor encodes of an operation, in the order in which it does.
Fields(compressor, key, operation) ==
    LET actions == RegularActions(operation.actions)
    IN  CASE compressor = "erc20" ->
                 OperationFields(key, operation,
                                 [i \in DOMAIN actions |-> Erc20Action(actions[i])])
          [] compressor = "registration" -> RegistrationFields(key, operation)
          [] compressor = "fallback" ->
                 OperationFields(key, operation,
                                 [i \in DOMAIN actions |-> FallbackAction(actions[i])])

\* An address or a key: its id if it has one, the whole otherwise.
EncodeRegistered(registry, field) ==
    IF HasId(registry, field.value)
    THEN [data |-> EncodeRegIndex(ReverseLookup(registry, field.value)), bits |-> <<TRUE>>]
    ELSE [data |-> <<Word(field.type, field.value)>>, bits |-> <<FALSE>>]

EncodeField(field) ==
    CASE field.type = "key" -> EncodeRegistered(keyRegistry, field)
      [] field.type = "address" -> EncodeRegistered(addressRegistry, field)
      [] field.type = "vlq" -> [data |-> EncodeVLQ(field.value), bits |-> <<>>]
      [] field.type = "float" -> [data |-> EncodePseudoFloat(field.value), bits |-> <<>>]
      [] field.type = "bit" -> [data |-> <<>>, bits |-> <<field.value>>]
      [] field.type = "newKey" -> [data |-> <<Word("key", field.value)>>, bits |-> <<>>]
      [] field.type = "call" -> [data |-> <<Word("call", field.value)>>, bits |-> <<>>]

EncodeFields(p, n) ==
    LET encoded == [i \in 1..n |-> EncodeField(p.fields[i])]
    IN  [p EXCEPT
            !.fields = SubSeq(@, n + 1, Len(@)),
            !.data = @ \o FlattenSeq([i \in 1..n |-> encoded[i].data]),
            !.bits = @ \o FlattenSeq([i \in 1..n |-> encoded[i].bits])]

\* How many fields are encoded from one lookup to the next.
UpToLookup(fields) ==
    LET i == SelectInSeq(fields, LAMBDA f : f.type \in {"key", "address"})
    IN  IF i = 0 THEN Len(fields) ELSE i

-----------------------------------------------------------------------------
(* The client                                                               *)

\* The id in the first event for the compressor's expander.
AddCompressor ==
    LET next == Len(compressors) + 1
        id == SelectInSeq(expanders, LAMBDA e : e = CompressorOrder[next]) - 1
    IN  /\ next <= Len(CompressorOrder)
        /\ id >= 0
        /\ compressors' = Append(compressors,
                                 [expander |-> id, compressor |-> CompressorOrder[next]])
        /\ UNCHANGED <<addressRegistry, keyRegistry, expanders, bundle, progress, stream>>

\* Each operation is given to the first compressor that accepts it.
StartCompress(b) ==
    /\ Len(compressors) = Len(CompressorOrder) /\ bundle = <<>>
    /\ bundle' = b
    /\ progress' = [i \in DOMAIN b |->
           LET key == b[i].key
               operation == b[i].operation
               c == compressors[SelectInSeq(compressors, LAMBDA x :
                                    Accepts(x.compressor, key, operation))]
           IN  [ compressor |-> c, data |-> <<>>, bits |-> <<>>,
                 fields |-> Fields(c.compressor, key, operation) ]]
    /\ UNCHANGED <<addressRegistry, keyRegistry, expanders, compressors, stream>>

\* compressOperation, from one lookup to the next.
CompressOperation(i) ==
    /\ progress[i].fields # <<>>
    /\ progress' = [progress EXCEPT ![i] = EncodeFields(@, UpToLookup(@.fields))]
    /\ UNCHANGED <<addressRegistry, keyRegistry, expanders, compressors, bundle, stream>>

CompressedOperation(p) ==
    EncodeVLQ(p.compressor.expander)
    \o (IF p.compressor.compressor = "registration" THEN <<>>
        ELSE EncodeBitStream(p.bits))
    \o p.data

Compress ==
    /\ bundle # <<>> /\ stream = <<>>
    /\ \A i \in DOMAIN progress : progress[i].fields = <<>>
    /\ stream' = EncodeVLQ(Len(bundle))
                 \o FlattenSeq([i \in DOMAIN progress |-> CompressedOperation(progress[i])])
                 \o <<Word("signature", bundle)>>
    /\ UNCHANGED <<addressRegistry, keyRegistry, expanders, compressors, bundle, progress>>

-----------------------------------------------------------------------------
(* The expanders                                                            *)

NextBit(c) == [c EXCEPT !.bits = @ \div 2]

\* The bit stream of an operation comes first.
DecodeBits(c) ==
    { [d EXCEPT !.bits = Last(d.values), !.values = c.values] : d \in DecodeVLQ(c) }

\* A registered key or address, or the whole.
DecodeRegistered(registry, c, type) ==
    IF c.bits % 2 = 1
    THEN UNION { Lookup(registry, c, id) : id \in DecodeRegIndex(NextBit(c)) }
    ELSE Read(NextBit(c), type)

\* What the contracts read, named by the types of the fields.
Decode(c, type) ==
    CASE type = "bits" -> DecodeBits(c)
      [] type = "bit" -> {Result(NextBit(c), c, c.bits % 2)}
      [] type = "key" -> DecodeRegistered(keyRegistry, c, "key")
      [] type = "address" -> DecodeRegistered(addressRegistry, c, "address")
      [] type = "vlq" -> DecodeVLQ(c)
      [] type = "float" -> DecodePseudoFloat(c)
      [] type = "newKey" -> Read(c, "key")
      [] type = "call" -> Read(c, "call")

DecodeFields(c, types) ==
    LET after[i \in 0..Len(types)] ==
            IF i = 0 THEN {c} ELSE UNION {Decode(d, types[i]) : d \in after[i - 1]}
    IN  after[Len(types)]

Fresh(c) == [c EXCEPT !.values = <<>>]

ExpandFallbackAction(c) ==
    { Result(d, c, Action(d.values[1], d.values[2], d.values[4])) :
        d \in { x \in DecodeFields(Fresh(c), <<"float", "address", "vlq", "call">>) :
                  x.values[3] = CallLength[x.values[4].method] } }

\* Of the token, the method's number and the arguments.
Erc20Expanded(v) ==
    LET arguments == SubSeq(v, 3, Len(v)) \o IF v[2] = 3 THEN <<MaxUint>> ELSE <<>>
    IN  Action(0, v[1], Call(Erc20Methods[v[2] + 1], Front(arguments), Last(arguments)))

\* decodeFunctionCall, and the method's own decoder.
ExpandErc20Action(c) ==
    UNION { { Result(d, c, Erc20Expanded(d.values)) :
                d \in DecodeFields(head, Erc20Types[head.values[2] + 1]) } :
            head \in { x \in DecodeFields(Fresh(c), <<"address", "vlq">>) :
                         x.values[2] < Len(Erc20Methods) } }

ExpandAction(expander, c) ==
    IF expander = "erc20" THEN ExpandErc20Action(c) ELSE ExpandFallbackAction(c)

ExpandActions(expander, c, count) ==
    LET after[i \in 0..count] ==
            IF i = 0 THEN {Fresh(c)}
            ELSE UNION {ExpandAction(expander, d) : d \in after[i - 1]}
    IN  after[count]

PaymentAction(ethValue) == Action(ethValue, aggregatorUtilities, SendEthToTxOrigin)

ExpandPayment(c) ==
    { Result(d, c, PaymentAction(Last(d.values))) : d \in DecodePseudoFloat(c) }

\* The count is of all actions; a payment is the last of them.
ExpandAllActions(expander, c, count, pays) ==
    IF count < pays THEN {}
    ELSE IF pays = 0 THEN ExpandActions(expander, c, count)
    ELSE UNION {ExpandPayment(d) : d \in ExpandActions(expander, c, count - pays)}

Operation(nonce, gas, actions) == [nonce |-> nonce, gas |-> gas, actions |-> actions]

By(key, nonce, gas, actions) == [key |-> key, operation |-> Operation(nonce, gas, actions)]

ExpandOperation(expander, c) ==
    UNION { { Result(d, c, By(head.values[1], head.values[2], head.values[3], d.values)) :
                d \in ExpandAllActions(expander, head, head.values[4], head.values[5]) } :
            head \in DecodeFields(Fresh(c),
                        <<"bits", "key", "vlq", "float", "vlq", "bit">>) }

RegistrationActions(key, payment) ==
    <<Action(0, blsRegistration, Register(key))>>
    \o IF payment = 0 THEN <<>> ELSE <<PaymentAction(payment)>>

ExpandRegistration(c) ==
    { Result(d, c, By(d.values[1], d.values[2], d.values[3],
                      RegistrationActions(d.values[1], d.values[4]))) :
        d \in DecodeFields(Fresh(c), <<"newKey", "vlq", "float", "float">>) }

ExpandBy(expander, c) ==
    IF expander = "registration" THEN ExpandRegistration(c) ELSE ExpandOperation(expander, c)

\* One operation: the expander's id, and what that expander reads.
Expand(c) ==
    UNION { ExpandBy(expanders[Last(id.values) + 1], [id EXCEPT !.values = c.values]) :
            id \in { x \in DecodeVLQ(c) : Last(x.values) < Len(expanders) } }

\* BLSExpanderDelegator.run: the bundles that it may pass to the gateway, none
\* if it reverts.  It reads operations while there is something to read; the
\* number that comes first is the size of the array they go to.
ExpandAll(c, count) ==
    LET after[i \in 0..count] ==
            IF i = 0 THEN {Fresh(c)} ELSE UNION {Expand(d) : d \in after[i - 1]}
    IN  after[count]

Run ==
    UNION { { d.values : d \in {x \in ExpandAll(c, Last(c.values)) : x.stream = <<>>} } :
            c \in DecodeVLQ(Cursor(Front(stream))) }

-----------------------------------------------------------------------------

Init ==
    /\ addressRegistry = [first |-> FirstAddressId, entries |-> <<>>]
    /\ keyRegistry = [first |-> FirstKeyId, entries |-> <<>>]
    /\ expanders = <<>> /\ compressors = <<>>
    /\ bundle = <<>> /\ progress = <<>> /\ stream = <<>>

\* Anyone may register an expander, and register it again.
RegisterExpander(expander) ==
    /\ MayRegister(1)
    /\ expanders' = Append(expanders, expander)
    /\ UNCHANGED <<addressRegistry, keyRegistry, compressors, bundle, progress, stream>>

Registration ==
    \/ \E address \in Addresses \union {zero} : RegisterAddress(address)
    \/ \E key \in Keys \union {zero} : RegisterKey(key)
    \/ \E key \in Keys \union {zero}, sender \in Addresses : RegisterBoth(key, sender)
    \/ \E expander \in Range(CompressorOrder) : RegisterExpander(expander)

Next ==
    \/ Registration
    \/ AddCompressor
    \/ \E b \in Bundles : StartCompress(b)
    \/ \E i \in DOMAIN progress : CompressOperation(i)
    \/ Compress

Spec == Init /\ [][Next]_vars

-----------------------------------------------------------------------------
(* Bundles whose numbers fit words, whose calls have the arguments of their *)
(* methods, which send no ether with a call of a token, and which neither   *)
(* the key of zeros signs nor have the address zero where a compressor      *)
(* would look up an id.                                                     *)

Calls == [method : DOMAIN CallLength, words : Seq(Keys \union Addresses), value : Words]

Actions == [ethValue : Words, contract : Addresses, call : Calls]

HasArguments(call) ==
    call.method \in Range(Erc20Methods) =>
        /\ call.words \in Seq(Addresses)
        /\ Len(call.words) = IF call.method = "transferFrom" THEN 2 ELSE 1

\* The bits of these fields if all of them were set.
AllSet(fields) ==
    FlattenSeq([i \in DOMAIN fields |->
        IF fields[i].type \in {"key", "address", "bit"} THEN <<TRUE>> ELSE <<>>])

OperationFits(key, operation) ==
    /\ key \in Keys
    /\ operation \in [nonce : Words, gas : Words, actions : Seq(Actions)]
    /\ Len(operation.actions) \in Words
    /\ \A i \in DOMAIN operation.actions : HasArguments(operation.actions[i].call)
    /\ Erc20Accepts(operation) =>
           \A i \in DOMAIN RegularActions(operation.actions) :
               operation.actions[i].ethValue = 0
    /\ \A compressor \in {"erc20", "fallback"} :
           Accepts(compressor, key, operation) =>
               BitStreamNumber(AllSet(Fields(compressor, key, operation))) \in Words

BundleFits(b) ==
    /\ b = [i \in 1..Len(b) |-> By(b[i].key, b[i].operation.nonce,
                                   b[i].operation.gas, b[i].operation.actions)]
    /\ Len(b) \in Words
    /\ \A i \in 1..Len(b) : OperationFits(b[i].key, b[i].operation)

BundlesFit == \A b \in Bundles : BundleFits(b)

-----------------------------------------------------------------------------
(* Properties                                                               *)

\* Stated by BundleCompressor.ts:9, "Produces compressed bundles that can be
\* passed to `BLSExpanderDelegator.run` instead of
\* `VerificationGateway.processBundle`": from the time it is complete on, and
\* whatever is registered while it is compressed and after, a compressed bundle
\* expands to the bundle that was signed.
ExpandsToBundle == stream # <<>> => Run = {bundle}
=============================================================================
