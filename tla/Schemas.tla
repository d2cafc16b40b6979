------------------------------ MODULE Schemas ------------------------------
(***************************************************************************)
(* What the generated encoders and decoders of the data models put on the  *)
(* wire and take from it: for a type written as a map, the fields that its *)
(* Marshal functions write, in their order, and the cases of the switch of *)
(* its Unmarshal functions; for a type written as a tuple, its parts.  The *)
(* four functions of a type are four pieces of code, and four definitions. *)
(* How a field of each kind is written and read is the module Codec.       *)
(***************************************************************************)
EXTENDS Naturals, Sequences

\* The kinds of values.
Text == <<"text">>
Integer == <<"int">>
Bytes == <<"bytes">>
Link == <<"link">>
DID == <<"did">>
Command == <<"command">>
Raw == <<"raw">>
AnyValue == <<"any">>
Pol == <<"policy">>
Statement == <<"statement">>
Const(text) == <<"const", text>>
Pointer(kind) == <<"pointer", kind>>
ListOf(kind) == <<"list", kind>>
DictOf(kind) == <<"dict", kind>>
Struct(name) == <<"struct", name>>
Tuple(name) == <<"tuple", name>>

(***************************************************************************)
(* A field of a struct and its name on the wire.  A pointer that is nil is *)
(* left out when the field is optional ("omitempty") and a null when it is *)
(* nullable, and a null is read as nil.                                    *)
(***************************************************************************)
Required(name, kind) ==
    [field |-> name, name |-> name, kind |-> kind, nil |-> "never"]
OmitEmpty(name, kind) == [Required(name, kind) EXCEPT !.nil = "omitted"]
Nullable(name, kind) == [Required(name, kind) EXCEPT !.nil = "null"]
Named(name, field) == [field EXCEPT !.name = name]

-----------------------------------------------------------------------------
\* did/plc

OperationMarshalCBOR ==
    <<Nullable("prev", Text), Required("type", Const("plc_operation")),
      Required("services", DictOf(Struct("Service"))),
      Required("alsoKnownAs", ListOf(Text)),
      Required("rotationKeys", ListOf(DID)),
      Required("verificationMethods", DictOf(DID))>>

OperationUnmarshalCBOR ==
    <<OmitEmpty("prev", Text), Required("type", Text),
      Required("services", DictOf(Struct("Service"))),
      Required("alsoKnownAs", ListOf(Text)),
      Required("rotationKeys", ListOf(DID)),
      Required("verificationMethods", DictOf(DID))>>

OperationMarshalDagJSON ==
    <<Required("alsoKnownAs", ListOf(Text)), Nullable("prev", Text),
      Required("rotationKeys", ListOf(DID)),
      Required("services", DictOf(Struct("Service"))),
      Required("type", Const("plc_operation")),
      Required("verificationMethods", DictOf(DID))>>

OperationUnmarshalDagJSON ==
    <<Required("alsoKnownAs", ListOf(Text)), OmitEmpty("prev", Text),
      Required("rotationKeys", ListOf(DID)),
      Required("services", DictOf(Struct("Service"))), Required("type", Text),
      Required("verificationMethods", DictOf(DID))>>

SignedOperationMarshalCBOR ==
    <<Required("sig", Text)>> \o OperationMarshalCBOR

SignedOperationUnmarshalCBOR ==
    <<Required("sig", Text)>> \o OperationUnmarshalCBOR

SignedOperationMarshalDagJSON ==
    <<Required("alsoKnownAs", ListOf(Text)), Nullable("prev", Text),
      Required("rotationKeys", ListOf(DID)),
      Required("services", DictOf(Struct("Service"))), Required("sig", Text),
      Required("type", Const("plc_operation")),
      Required("verificationMethods", DictOf(DID))>>

SignedOperationUnmarshalDagJSON ==
    <<Required("sig", Text)>> \o OperationUnmarshalDagJSON

ServiceMarshalCBOR == <<Required("type", Text), Required("endpoint", Text)>>

ServiceUnmarshalCBOR == <<Required("type", Text), Required("endpoint", Text)>>

ServiceMarshalDagJSON == <<Required("endpoint", Text), Required("type", Text)>>

ServiceUnmarshalDagJSON ==
    <<Required("endpoint", Text), Required("type", Text)>>

TombstoneMarshalCBOR ==
    <<Required("prev", Text), Required("type", Const("plc_tombstone"))>>

TombstoneUnmarshalCBOR == <<Required("prev", Text), Required("type", Text)>>

TombstoneMarshalDagJSON ==
    <<Required("prev", Text), Required("type", Const("plc_tombstone"))>>

TombstoneUnmarshalDagJSON == <<Required("prev", Text), Required("type", Text)>>

SignedTombstoneMarshalCBOR ==
    <<Required("sig", Text)>> \o TombstoneMarshalCBOR

SignedTombstoneUnmarshalCBOR ==
    <<Required("sig", Text)>> \o TombstoneUnmarshalCBOR

SignedTombstoneMarshalDagJSON ==
    <<Required("prev", Text), Required("sig", Text),
      Required("type", Const("plc_tombstone"))>>

SignedTombstoneUnmarshalDagJSON ==
    <<Required("sig", Text)>> \o TombstoneUnmarshalDagJSON

-----------------------------------------------------------------------------
\* ucan/delegation/datamodel

DelegationSigPayloadMarshalCBOR ==
    <<Required("h", Bytes),
      OmitEmpty("ucan/dlg@1.0.0-rc.1", Struct("DelegationPayload"))>>

DelegationSigPayloadUnmarshalCBOR ==
    <<Required("h", Bytes),
      OmitEmpty("ucan/dlg@1.0.0-rc.1", Struct("DelegationPayload"))>>

DelegationSigPayloadMarshalDagJSON ==
    <<Required("h", Bytes),
      OmitEmpty("ucan/dlg@1.0.0-rc.1", Struct("DelegationPayload"))>>

DelegationSigPayloadUnmarshalDagJSON ==
    <<Required("h", Bytes),
      OmitEmpty("ucan/dlg@1.0.0-rc.1", Struct("DelegationPayload"))>>

DelegationPayloadMarshalCBOR ==
    <<Required("aud", DID), Required("cmd", Command), Nullable("exp", Integer),
      Required("iss", DID), OmitEmpty("nbf", Integer), Required("pol", Pol),
      Required("sub", DID), OmitEmpty("meta", Raw), Required("nonce", Bytes)>>

DelegationPayloadUnmarshalCBOR ==
    <<Required("aud", DID), Required("cmd", Command),
      OmitEmpty("exp", Integer), Required("iss", DID),
      OmitEmpty("nbf", Integer), Required("pol", Pol), Required("sub", DID),
      OmitEmpty("meta", Raw), Required("nonce", Bytes)>>

DelegationPayloadMarshalDagJSON ==
    <<Required("aud", DID), Required("cmd", Command), Nullable("exp", Integer),
      Required("iss", DID), OmitEmpty("meta", Raw), OmitEmpty("nbf", Integer),
      Required("nonce", Bytes), Required("pol", Pol), Required("sub", DID)>>

\* A bug: the decoder was generated before the field was added.
DelegationWithoutNotBefore ==
    SelectSeq(DelegationPayloadMarshalDagJSON, LAMBDA f : f.name # "nbf")

DelegationPayloadUnmarshalDagJSON ==
    <<Required("aud", DID), Required("cmd", Command),
      OmitEmpty("exp", Integer), Required("iss", DID), OmitEmpty("meta", Raw),
      OmitEmpty("nbf", Integer), Required("nonce", Bytes),
      Required("pol", Pol), Required("sub", DID)>>

-----------------------------------------------------------------------------
\* ucan/invocation/datamodel

InvocationSigPayloadMarshalCBOR ==
    <<Required("h", Bytes),
      OmitEmpty("ucan/inv@1.0.0-rc.1", Struct("InvocationPayload"))>>

InvocationSigPayloadUnmarshalCBOR ==
    <<Required("h", Bytes),
      OmitEmpty("ucan/inv@1.0.0-rc.1", Struct("InvocationPayload"))>>

InvocationSigPayloadMarshalDagJSON ==
    <<Required("h", Bytes),
      OmitEmpty("ucan/inv@1.0.0-rc.1", Struct("InvocationPayload"))>>

InvocationSigPayloadUnmarshalDagJSON ==
    <<Required("h", Bytes),
      OmitEmpty("ucan/inv@1.0.0-rc.1", Struct("InvocationPayload"))>>

InvocationPayloadMarshalCBOR ==
    <<OmitEmpty("aud", DID), Required("cmd", Command),
      Nullable("exp", Integer), OmitEmpty("iat", Integer),
      Required("iss", DID), Required("prf", ListOf(Link)),
      Required("sub", DID), Required("args", Raw), OmitEmpty("meta", Raw),
      OmitEmpty("cause", Link), Required("nonce", Bytes)>>

InvocationPayloadUnmarshalCBOR ==
    <<OmitEmpty("aud", DID), Required("cmd", Command),
      OmitEmpty("exp", Integer), OmitEmpty("iat", Integer),
      Required("iss", DID), Required("prf", ListOf(Link)),
      Required("sub", DID), Required("args", Raw), OmitEmpty("meta", Raw),
      OmitEmpty("cause", Link), Required("nonce", Bytes)>>

InvocationPayloadMarshalDagJSON ==
    <<Required("args", Raw), OmitEmpty("aud", DID), OmitEmpty("cause", Link),
      Required("cmd", Command), Nullable("exp", Integer),
      OmitEmpty("iat", Integer), Required("iss", DID), OmitEmpty("meta", Raw),
      Required("nonce", Bytes), Required("prf", ListOf(Link)),
      Required("sub", DID)>>

\* A bug: the decoder was generated before the field was added.
InvocationWithoutCause ==
    SelectSeq(InvocationPayloadMarshalDagJSON, LAMBDA f : f.name # "cause")

InvocationPayloadUnmarshalDagJSON ==
    <<Required("args", Raw), OmitEmpty("aud", DID), OmitEmpty("cause", Link),
      Required("cmd", Command), OmitEmpty("exp", Integer),
      OmitEmpty("iat", Integer), Required("iss", DID), OmitEmpty("meta", Raw),
      Required("nonce", Bytes), Required("prf", ListOf(Link)),
      Required("sub", DID)>>

TaskMarshalCBOR ==
    <<Required("cmd", Command), Required("sub", DID), Required("args", Raw),
      Required("nonce", Bytes)>>

TaskUnmarshalCBOR ==
    <<Required("cmd", Command), Required("sub", DID), Required("args", Raw),
      Required("nonce", Bytes)>>

TaskMarshalDagJSON ==
    <<Required("args", Raw), Required("cmd", Command),
      Required("nonce", Bytes), Required("sub", DID)>>

TaskUnmarshalDagJSON ==
    <<Required("args", Raw), Required("cmd", Command),
      Required("nonce", Bytes), Required("sub", DID)>>

-----------------------------------------------------------------------------
\* ucan/receipt/datamodel

ReceiptArgsMarshalCBOR ==
    <<Required("out", Struct("Result")), Required("ran", Link)>>

ReceiptArgsUnmarshalCBOR ==
    <<Required("out", Struct("Result")), Required("ran", Link)>>

ReceiptArgsMarshalDagJSON ==
    <<Required("out", Struct("Result")), Required("ran", Link)>>

ReceiptArgsUnmarshalDagJSON ==
    <<Required("out", Struct("Result")), Required("ran", Link)>>

-----------------------------------------------------------------------------
\* result/datamodel: the DAG-JSON generator was given no tags

ResultMarshalCBOR == <<OmitEmpty("ok", Raw), OmitEmpty("error", Raw)>>

ResultUnmarshalCBOR == <<OmitEmpty("ok", Raw), OmitEmpty("error", Raw)>>

ResultMarshalDagJSON ==
    <<Named("Err", Nullable("error", Raw)), Named("Ok", Nullable("ok", Raw))>>

ResultUnmarshalDagJSON ==
    <<Named("Err", OmitEmpty("error", Raw)), Named("Ok", OmitEmpty("ok", Raw))>>

-----------------------------------------------------------------------------
\* errors/datamodel

ErrorMarshalCBOR == <<Required("name", Text), Required("message", Text)>>

ErrorUnmarshalCBOR == <<Required("name", Text), Required("message", Text)>>

ErrorMarshalDagJSON == <<Required("message", Text), Required("name", Text)>>

ErrorUnmarshalDagJSON == <<Required("message", Text), Required("name", Text)>>

-----------------------------------------------------------------------------
\* ucan/promise/datamodel

AwaitAnyMarshalCBOR == <<Required("await/*", Link)>>

AwaitAnyUnmarshalCBOR == <<Required("await/*", Link)>>

AwaitAnyMarshalDagJSON == <<Required("await/*", Link)>>

AwaitAnyUnmarshalDagJSON == <<Required("await/*", Link)>>

AwaitOKMarshalCBOR == <<Required("await/ok", Link)>>

AwaitOKUnmarshalCBOR == <<Required("await/ok", Link)>>

AwaitOKMarshalDagJSON == <<Required("await/ok", Link)>>

AwaitOKUnmarshalDagJSON == <<Required("await/ok", Link)>>

AwaitErrorMarshalCBOR == <<Required("await/error", Link)>>

AwaitErrorUnmarshalCBOR == <<Required("await/error", Link)>>

AwaitErrorMarshalDagJSON == <<Required("await/error", Link)>>

AwaitErrorUnmarshalDagJSON == <<Required("await/error", Link)>>

-----------------------------------------------------------------------------
\* ucan/container/datamodel

ContainerMarshalCBOR == <<Required("ctn-v1", ListOf(Bytes))>>

ContainerUnmarshalCBOR == <<Required("ctn-v1", ListOf(Bytes))>>

ContainerMarshalDagJSON == <<Required("ctn-v1", ListOf(Bytes))>>

ContainerUnmarshalDagJSON == <<Required("ctn-v1", ListOf(Bytes))>>

-----------------------------------------------------------------------------
\* ucan/delegation/policy/selector/datamodel

ParseErrorMarshalCBOR ==
    <<Required("name", Text), Required("token", Text),
      Required("column", Integer), Required("source", Text),
      Required("message", Text)>>

ParseErrorUnmarshalCBOR ==
    <<Required("name", Text), Required("token", Text),
      Required("column", Integer), Required("source", Text),
      Required("message", Text)>>

ParseErrorMarshalDagJSON ==
    <<Required("column", Integer), Required("message", Text),
      Required("name", Text), Required("source", Text),
      Required("token", Text)>>

ParseErrorUnmarshalDagJSON ==
    <<Required("column", Integer), Required("message", Text),
      Required("name", Text), Required("source", Text),
      Required("token", Text)>>

ResolutionErrorMarshalCBOR ==
    <<Required("at", ListOf(Text)), Required("name", Text),
      Required("message", Text)>>

ResolutionErrorUnmarshalCBOR ==
    <<Required("at", ListOf(Text)), Required("name", Text),
      Required("message", Text)>>

ResolutionErrorMarshalDagJSON ==
    <<Required("at", ListOf(Text)), Required("message", Text),
      Required("name", Text)>>

ResolutionErrorUnmarshalDagJSON ==
    <<Required("at", ListOf(Text)), Required("message", Text),
      Required("name", Text)>>

-----------------------------------------------------------------------------
\* testutil/datamodel, which has no DAG-JSON

TestObjectMarshalCBOR == <<Required("bytes", Bytes)>>

TestObjectUnmarshalCBOR == <<Required("bytes", Bytes)>>

TestObject2MarshalCBOR == <<Required("str", Text), Required("bytes", Bytes)>>

TestObject2UnmarshalCBOR == <<Required("str", Text), Required("bytes", Bytes)>>

TestArgsMarshalCBOR ==
    <<Required("id", DID), Required("num", Integer),
      Required("obj", Struct("TestObject")), Required("str", Text),
      Required("link", Link), Required("list", ListOf(Text)),
      Required("obj2", Struct("TestObject2")), Required("bytes", Bytes)>>

TestArgsUnmarshalCBOR ==
    <<Required("id", DID), Required("num", Integer),
      Required("obj", Struct("TestObject")), Required("str", Text),
      Required("link", Link), Required("list", ListOf(Text)),
      Required("obj2", Struct("TestObject2")), Required("bytes", Bytes)>>

-----------------------------------------------------------------------------
\* ucan/envelope/datamodel

EnvelopeMarshalCBOR == <<Bytes, Raw>>

EnvelopeUnmarshalCBOR == <<Bytes, Raw>>

EnvelopeMarshalDagJSON == <<Bytes, Raw>>

EnvelopeUnmarshalDagJSON == <<Bytes, Raw>>

-----------------------------------------------------------------------------
\* ucan/delegation/policy/datamodel

ComparisonMarshalCBOR == <<Text, Text, AnyValue>>

ComparisonUnmarshalCBOR == <<Text, Text, AnyValue>>

ComparisonMarshalDagJSON == <<Text, Text, AnyValue>>

ComparisonUnmarshalDagJSON == <<Text, Text, AnyValue>>

WildcardMarshalCBOR == <<Text, Text, Text>>

WildcardUnmarshalCBOR == <<Text, Text, Text>>

WildcardMarshalDagJSON == <<Text, Text, Text>>

WildcardUnmarshalDagJSON == <<Text, Text, Text>>

ConjunctionMarshalCBOR == <<Text, ListOf(Pointer(Statement))>>

ConjunctionUnmarshalCBOR == <<Text, ListOf(Pointer(Statement))>>

ConjunctionMarshalDagJSON == <<Text, ListOf(Pointer(Statement))>>

ConjunctionUnmarshalDagJSON == <<Text, ListOf(Pointer(Statement))>>

DisjunctionMarshalCBOR == <<Text, ListOf(Pointer(Statement))>>

DisjunctionUnmarshalCBOR == <<Text, ListOf(Pointer(Statement))>>

DisjunctionMarshalDagJSON == <<Text, ListOf(Pointer(Statement))>>

DisjunctionUnmarshalDagJSON == <<Text, ListOf(Pointer(Statement))>>

NegationMarshalCBOR == <<Text, Pointer(Statement)>>

NegationUnmarshalCBOR == <<Text, Pointer(Statement)>>

NegationMarshalDagJSON == <<Text, Pointer(Statement)>>

NegationUnmarshalDagJSON == <<Text, Pointer(Statement)>>

QuantificationMarshalCBOR == <<Text, Text, Pointer(Statement)>>

QuantificationUnmarshalCBOR == <<Text, Text, Pointer(Statement)>>

QuantificationMarshalDagJSON == <<Text, Text, Pointer(Statement)>>

QuantificationUnmarshalDagJSON == <<Text, Text, Pointer(Statement)>>

-----------------------------------------------------------------------------
MarshalCBOR ==
    [Operation |-> OperationMarshalCBOR,
     SignedOperation |-> SignedOperationMarshalCBOR,
     Service |-> ServiceMarshalCBOR, Tombstone |-> TombstoneMarshalCBOR,
     SignedTombstone |-> SignedTombstoneMarshalCBOR,
     DelegationSigPayload |-> DelegationSigPayloadMarshalCBOR,
     DelegationPayload |-> DelegationPayloadMarshalCBOR,
     InvocationSigPayload |-> InvocationSigPayloadMarshalCBOR,
     InvocationPayload |-> InvocationPayloadMarshalCBOR,
     Task |-> TaskMarshalCBOR, ReceiptArgs |-> ReceiptArgsMarshalCBOR,
     Result |-> ResultMarshalCBOR, Error |-> ErrorMarshalCBOR,
     AwaitAny |-> AwaitAnyMarshalCBOR, AwaitOK |-> AwaitOKMarshalCBOR,
     AwaitError |-> AwaitErrorMarshalCBOR, Container |-> ContainerMarshalCBOR,
     ParseError |-> ParseErrorMarshalCBOR,
     ResolutionError |-> ResolutionErrorMarshalCBOR,
     TestObject |-> TestObjectMarshalCBOR,
     TestObject2 |-> TestObject2MarshalCBOR, TestArgs |-> TestArgsMarshalCBOR,
     Envelope |-> EnvelopeMarshalCBOR, Comparison |-> ComparisonMarshalCBOR,
     Wildcard |-> WildcardMarshalCBOR, Conjunction |-> ConjunctionMarshalCBOR,
     Disjunction |-> DisjunctionMarshalCBOR, Negation |-> NegationMarshalCBOR,
     Quantification |-> QuantificationMarshalCBOR]

UnmarshalCBOR ==
    [Operation |-> OperationUnmarshalCBOR,
     SignedOperation |-> SignedOperationUnmarshalCBOR,
     Service |-> ServiceUnmarshalCBOR, Tombstone |-> TombstoneUnmarshalCBOR,
     SignedTombstone |-> SignedTombstoneUnmarshalCBOR,
     DelegationSigPayload |-> DelegationSigPayloadUnmarshalCBOR,
     DelegationPayload |-> DelegationPayloadUnmarshalCBOR,
     InvocationSigPayload |-> InvocationSigPayloadUnmarshalCBOR,
     InvocationPayload |-> InvocationPayloadUnmarshalCBOR,
     Task |-> TaskUnmarshalCBOR, ReceiptArgs |-> ReceiptArgsUnmarshalCBOR,
     Result |-> ResultUnmarshalCBOR, Error |-> ErrorUnmarshalCBOR,
     AwaitAny |-> AwaitAnyUnmarshalCBOR, AwaitOK |-> AwaitOKUnmarshalCBOR,
     AwaitError |-> AwaitErrorUnmarshalCBOR,
     Container |-> ContainerUnmarshalCBOR,
     ParseError |-> ParseErrorUnmarshalCBOR,
     ResolutionError |-> ResolutionErrorUnmarshalCBOR,
     TestObject |-> TestObjectUnmarshalCBOR,
     TestObject2 |-> TestObject2UnmarshalCBOR,
     TestArgs |-> TestArgsUnmarshalCBOR, Envelope |-> EnvelopeUnmarshalCBOR,
     Comparison |-> ComparisonUnmarshalCBOR,
     Wildcard |-> WildcardUnmarshalCBOR,
     Conjunction |-> ConjunctionUnmarshalCBOR,
     Disjunction |-> DisjunctionUnmarshalCBOR,
     Negation |-> NegationUnmarshalCBOR,
     Quantification |-> QuantificationUnmarshalCBOR]

MarshalDagJSON ==
    [Operation |-> OperationMarshalDagJSON,
     SignedOperation |-> SignedOperationMarshalDagJSON,
     Service |-> ServiceMarshalDagJSON, Tombstone |-> TombstoneMarshalDagJSON,
     SignedTombstone |-> SignedTombstoneMarshalDagJSON,
     DelegationSigPayload |-> DelegationSigPayloadMarshalDagJSON,
     DelegationPayload |-> DelegationPayloadMarshalDagJSON,
     InvocationSigPayload |-> InvocationSigPayloadMarshalDagJSON,
     InvocationPayload |-> InvocationPayloadMarshalDagJSON,
     Task |-> TaskMarshalDagJSON, ReceiptArgs |-> ReceiptArgsMarshalDagJSON,
     Result |-> ResultMarshalDagJSON, Error |-> ErrorMarshalDagJSON,
     AwaitAny |-> AwaitAnyMarshalDagJSON, AwaitOK |-> AwaitOKMarshalDagJSON,
     AwaitError |-> AwaitErrorMarshalDagJSON,
     Container |-> ContainerMarshalDagJSON,
     ParseError |-> ParseErrorMarshalDagJSON,
     ResolutionError |-> ResolutionErrorMarshalDagJSON,
     Envelope |-> EnvelopeMarshalDagJSON,
     Comparison |-> ComparisonMarshalDagJSON,
     Wildcard |-> WildcardMarshalDagJSON,
     Conjunction |-> ConjunctionMarshalDagJSON,
     Disjunction |-> DisjunctionMarshalDagJSON,
     Negation |-> NegationMarshalDagJSON,
     Quantification |-> QuantificationMarshalDagJSON]

UnmarshalDagJSON ==
    [Operation |-> OperationUnmarshalDagJSON,
     SignedOperation |-> SignedOperationUnmarshalDagJSON,
     Service |-> ServiceUnmarshalDagJSON,
     Tombstone |-> TombstoneUnmarshalDagJSON,
     SignedTombstone |-> SignedTombstoneUnmarshalDagJSON,
     DelegationSigPayload |-> DelegationSigPayloadUnmarshalDagJSON,
     DelegationPayload |-> DelegationPayloadUnmarshalDagJSON,
     InvocationSigPayload |-> InvocationSigPayloadUnmarshalDagJSON,
     InvocationPayload |-> InvocationPayloadUnmarshalDagJSON,
     Task |-> TaskUnmarshalDagJSON,
     ReceiptArgs |-> ReceiptArgsUnmarshalDagJSON,
     Result |-> ResultUnmarshalDagJSON, Error |-> ErrorUnmarshalDagJSON,
     AwaitAny |-> AwaitAnyUnmarshalDagJSON,
     AwaitOK |-> AwaitOKUnmarshalDagJSON,
     AwaitError |-> AwaitErrorUnmarshalDagJSON,
     Container |-> ContainerUnmarshalDagJSON,
     ParseError |-> ParseErrorUnmarshalDagJSON,
     ResolutionError |-> ResolutionErrorUnmarshalDagJSON,
     Envelope |-> EnvelopeUnmarshalDagJSON,
     Comparison |-> ComparisonUnmarshalDagJSON,
     Wildcard |-> WildcardUnmarshalDagJSON,
     Conjunction |-> ConjunctionUnmarshalDagJSON,
     Disjunction |-> DisjunctionUnmarshalDagJSON,
     Negation |-> NegationUnmarshalDagJSON,
     Quantification |-> QuantificationUnmarshalDagJSON]
=============================================================================
