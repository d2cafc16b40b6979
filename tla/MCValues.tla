------------------------------ MODULE MCValues ------------------------------
(***************************************************************************)
(* Values for TLC.  For Codec, of every type of Schemas a value with all   *)
(* its fields and one with as few as there may be, arbitrary data at and   *)
(* past the limits, and what others may have written instead of a struct   *)
(* or a policy: a field left out, null or of the wrong kind, statements    *)
(* with too many or too few parts.  For Tokens, a delegation, an           *)
(* invocation and a receipt of each sort, and requests that are refused.   *)
(* Policy is evaluated on the policies and arguments of MCPolicy.  The     *)
(* three share nothing, and a behaviour is of one of them.                 *)
(***************************************************************************)
EXTENDS Tokens, MCPolicy

MCBytewise ==
    <<"", "/", "Err", "Ok", "a", "alsoKnownAs", "args", "at", "aud",
      "await/*", "await/error", "await/ok", "b", "bytes", "cause", "cmd",
      "column", "ctn-v1", "dlg", "dlg long", "dlg null", "dlg power", "endpoint",
      "error", "exp", "h", "iat", "id", "inv", "inv again", "inv big",
      "inv cause", "inv null", "iss", "key longer than the buffer", "link", "list",
      "message", "meta", "name", "nbf", "nonce", "num", "obj", "obj2", "ok",
      "out", "pol", "prev", "prf", "ran", "rcpt", "rcpt error", "rcpt null",
      "rotationKeys", "services", "sig", "source", "str", "sub", "token",
      "type", "ucan/dlg@1.0.0-rc.1", "ucan/inv@1.0.0-rc.1", "unknown",
      "verificationMethods", "very long", "very very very very very long">>

LongKey == "key longer than the buffer"
TooLong == "very very very very very long"
Blob == "xxxx"
LongBlob == "xxxxxxxxxxxxxxxxxxxxxxxxxxxx"

text(s) == <<"text", s>>
int(n) == <<"int", n>>
list(s) == <<"list", s>>
dict(f) == <<"dict", f>>

NullFirst == list(<<Null, text("a")>>)

Compare1 == <<"tuple", <<text("=="), text(".a"), int(1)>>>>
ComparesNull == <<"tuple", <<text("=="), text(".a"), NullFirst>>>>
Like1 == <<"tuple", <<text("like"), text(".b"), text("*x")>>>>
Statements1 == {Compare1, Like1}
Statements2 ==
    {<<"tuple", <<text("not"), s>>>> : s \in Statements1}
    \cup {<<"tuple", <<text(op), list(ss)>>>> :
            op \in {"and", "or"}, ss \in {<<>>, <<Like1>>, <<Compare1, Like1>>}}
    \cup {<<"tuple", <<text("all"), text(".a"), s>>>> : s \in Statements1}

Scalars ==
    {Null, <<"bool", TRUE>>, int(1), <<"big", 1>>, <<"big", 9>>, text(""), text("a"),
     text(TooLong), text("cid"), text(Base64(Blob)), <<"bytes", Blob>>, <<"bytes", LongBlob>>,
     <<"bytes", TooLong>>, <<"link", "cid">>}

Data1 ==
    Scalars \cup {list(<<>>), dict([k \in {} |-> Null])}
    \cup {list(<<v, w>>) : v \in Scalars, w \in {Null, <<"link", "cid">>}}
    \cup {dict([k \in keys |-> IF k = "a" THEN int(1) ELSE v]) :
            v \in Scalars, keys \in {{"a", "b"}, {"at", "b"}, {"a", "at", "exp"}, {"/"}, {LongKey}, {TooLong}}}

Data2 ==
    Data1 \cup {dict([k \in {"/"} |-> v]) : v \in {dict([k \in {"bytes"} |-> w]) : w \in Scalars}}
    \cup {list([n \in 1 .. 31 |-> Null]), list(<<dict([k \in {LongKey, "b"} |-> Null])>>)}

\* What a field of each kind holds.
RECURSIVE Example(_, _, _)
Example(name, kind, full) ==
    LET fields == MarshalCBOR[kind[2]]
        field(f) == IF f.nil # "never" /\ ~full THEN Null ELSE Example(f.name, f.kind, full)
    IN  CASE kind = Text -> text(name)
          [] kind[1] = "const" -> text(kind[2])
          [] kind = Integer -> int(1)
          [] kind = Bytes -> <<"bytes", Blob>>
          [] kind = Link -> <<"link", "cid">>
          [] kind = DID -> text("did:a")
          [] kind = Command -> text("/c")
          [] kind = Raw -> <<"raw", <<"map", <<<<"b", int(1)>>, <<"at", Null>>>>>>>>
          [] kind = Pol -> list(IF full THEN <<Compare1>> ELSE <<>>)
          [] kind[1] = "list" -> list(IF full THEN <<Example(name, kind[2], full)>> ELSE <<>>)
          [] kind[1] = "dict" ->
                dict([k \in (IF full THEN {"at", "b"} ELSE {}) |-> Example(k, kind[2], full)])
          [] kind[1] = "struct" ->
                <<"struct", [k \in {fields[n].field : n \in DOMAIN fields} |->
                                field(CHOOSE f \in Range(fields) : f.field = k)]>>

InBoth(type) == type[1] = "struct" => type[2] \in DOMAIN MarshalDagJSON

Tuples ==
    {"Envelope", "Comparison", "Wildcard", "Conjunction", "Disjunction", "Negation",
     "Quantification"}
Structs == DOMAIN MarshalCBOR \ Tuples
Codecs(type) == IF InBoth(type) THEN {"cbor", "json"} ELSE {"cbor"}

\* What else it may hold.
Variants(kind) ==
    CASE kind = Text -> {text(TooLong), text("")}
      [] kind = Integer -> {int(2)}
      [] kind = Bytes -> {<<"bytes", LongBlob>>, <<"bytes", "">>}
      [] kind = Link -> {Null}
      [] kind = DID -> {Null, text("did:longer than the buffer")}
      [] kind = Command -> {Null, text("/longer than the buffer"), text("/")}
      [] kind = Raw ->
            {<<"raw", AnyMarshal("cbor", d)>> :
                d \in Scalars \cup {dict([k \in {LongKey, "b"} |-> Null])}}
      [] kind = Pol -> {list(<<s>>) : s \in Statements2}
      [] kind = DictOf(DID) ->
            {dict([k \in {"a", "b", "at"} |-> text("did:a")])}
      [] OTHER -> {}

Varied(name) ==
    LET full == Example(name, Struct(name), TRUE)
    IN  UNION {{<<"struct", [full[2] EXCEPT ![f.field] = v]>> : v \in Variants(f.kind)} :
                  f \in Range(MarshalCBOR[name])}

ValuesOf(type) ==
    CASE type = AnyValue -> Data2
      [] type = Raw -> {<<"raw", AnyMarshal("cbor", d)>> : d \in Data2}
      [] type = Pol ->
            {list(<<s>>) : s \in Statements2}
            \cup {list(<<s, t>>) : s \in Statements1, t \in Statements1 \cup Statements2}
            \cup {list(<<<<"tuple", <<text("!="), text(".a"), d>>>>>>) : d \in Data1}
      [] type = Tuple("Envelope") ->
            {<<"tuple", <<<<"bytes", b>>, r>>>> : b \in {Blob, LongBlob}, r \in Variants(Raw)}
      [] OTHER -> {Example("name", type, TRUE), Example("name", type, FALSE)} \cup Varied(type[2])

Types == {AnyValue, Raw, Pol, Tuple("Envelope")} \cup {Struct(name) : name \in Structs}

MCModels ==
    UNION {[type : {type}, codec : Codecs(type), value : ValuesOf(type)] : type \in Types}

\* The items that differ from a struct's in one field.
Altered(x) ==
    {<<"map", RemoveAt(x[2], n)>> : n \in DOMAIN x[2]}
    \cup {<<"map", [x[2] EXCEPT ![n][2] = item]>> :
            n \in DOMAIN x[2], item \in {Null, <<"bool", TRUE>>, text("a"), NullFirst}}
    \cup {<<"map", [x[2] EXCEPT ![n][2] = <<"map", <<<<"a", text("did:a")>>, <<"b", text("did:a")>>,
                                                    <<"at", text("did:a")>>>>>>]>> :
            n \in DOMAIN x[2]}

Compare3 == list(<<text("=="), text(".a"), int(1)>>)
Others ==
    {Compare3, list(<<text("=="), text(".a")>>), list(<<text("=="), text(".a"), int(1), int(2)>>),
     list(<<text("=="), text(".a"), NullFirst>>),
     list(<<text("not"), Compare3>>), list(<<text("not"), Null>>),
     list(<<text("not"), Compare3, Compare3>>), list(<<text("not")>>),
     list(<<text("and"), list(<<Compare3>>)>>), list(<<text("and"), list(<<Compare3, Null>>)>>),
     list(<<text("and"), list(<<>>), text("or")>>), list(<<text("like"), text(".("), text("*x")>>),
     list(<<text("any"), text(".a"), Compare3>>), list(<<text("xor"), text(".a")>>), list(<<>>), Null}

ForeignPolicies ==
    {list(<<x>>) : x \in Others} \cup {list(<<x, y>>) : x \in Others, y \in Others}

MCForeign ==
    UNION {[type : {Struct(name)}, codec : {codec},
            wire : Altered(Marshal(codec, Struct(name), Example(name, Struct(name), TRUE)))] :
              name \in Structs \cap DOMAIN MarshalDagJSON, codec \in {"cbor", "json"}}
    \cup [type : {Pol}, codec : {"cbor"}, wire : ForeignPolicies]

Delegated ==
    [kind |-> "delegation", header |-> "varsig", iss |-> text("did:a"), aud |-> text("did:a"),
     sub |-> text("did:a"), cmd |-> text("/c"), options |-> <<>>]
Invoked ==
    [kind |-> "invocation", header |-> "varsig", iss |-> text("did:a"), sub |-> text("did:a"),
     cmd |-> text("/c"), args |-> AnyMarshal("cbor", dict([k \in {"b", "at"} |-> Null])),
     options |-> <<<<"nononce", TRUE>>>>]
Attested ==
    [kind |-> "receipt", header |-> "varsig", iss |-> text("did:a"), ran |-> <<"link", "cid">>,
     ok |-> <<"raw", <<"map", <<>>>>>>, error |-> Null, options |-> <<>>]

MCRequests ==
       "dlg" :> [Delegated EXCEPT !.options = <<<<"pol", list(<<Compare1, Like1>>)>>, <<"nbf", int(1)>>>>]
    @@ "dlg long" :> [Delegated EXCEPT !.aud = text("did:longer than the buffer")]
    @@ "dlg power" :>
          [Delegated EXCEPT !.sub = Null,
              !.options = <<<<"noexp", TRUE>>, <<"nononce", TRUE>>,
                            <<"meta", dict([k \in {LongKey} |-> int(1)])>>>>]
    @@ "dlg null" :>
          [Delegated EXCEPT
              !.options = <<<<"pol", list(<<ComparesNull>>)>>>>]
    @@ "inv null" :> [Invoked EXCEPT !.args = AnyMarshal("cbor", dict([k \in {"a"} |-> NullFirst]))]
    @@ "inv" :> Invoked
    @@ "inv again" :> Invoked
    @@ "inv big" :>
          [Invoked EXCEPT !.args = AnyMarshal("cbor", dict([k \in {"a"} |-> <<"big", 1>>])),
              !.options = <<<<"exp", int(2)>>, <<"prf", list(<<<<"link", "cid">>>>)>>>>]
    @@ "inv cause" :>
          [Invoked EXCEPT !.cmd = ReceiptCommand,
              !.options = <<<<"aud", text("did:a")>>, <<"cause", <<"link", "cid">>>>,
                            <<"nonce", <<"bytes", Blob>>>>, <<"nononce", TRUE>>, <<"iat", int(1)>>>>]
    @@ "rcpt" :> Attested
    @@ "rcpt error" :> [Attested EXCEPT !.ok = Null, !.error = <<"raw", int(1)>>]
    @@ "rcpt null" :> [Attested EXCEPT !.ok = <<"raw", Null>>, !.options = <<<<"exp", int(2)>>>>]
    @@ "nothing" :> [Attested EXCEPT !.ok = Null]
    @@ "undefined" :> [Delegated EXCEPT !.cmd = Null]
    @@ "not a map" :> [Invoked EXCEPT !.args = list(<<>>)]

MCBlobs == {"", Blob, LongBlob, TooLong, "varsig"} \cup DOMAIN MCRequests

VARIABLE part   \* what the behaviour is of

NoCodec == model = [type |-> AnyValue] /\ wire = Unset /\ got = Unset /\ stage = "none"
NoTokens ==
    issued = Unset /\ box = <<>> /\ parcel = Unset /\ letters = Unset /\ post = "none"
NoPolicy ==
    policy = <<>> /\ args = (CHOOSE v \in Arguments : TRUE) /\ i = 1 /\ verdict = "pending"

MCInit ==
    \/ part = "codec" /\ CInit /\ NoTokens /\ NoPolicy
    \/ part = "tokens" /\ TInit /\ NoCodec /\ NoPolicy
    \/ part = "policy" /\ Init /\ NoCodec /\ NoTokens

MCNext ==
    \/ part = "codec" /\ CNext /\ UNCHANGED <<part, tvars, vars>>
    \/ part = "tokens" /\ TNext /\ UNCHANGED <<part, cvars, vars>>
    \/ part = "policy" /\ Next /\ UNCHANGED <<part, cvars, tvars>>

MCSpec == MCInit /\ [][MCNext]_<<part, cvars, tvars, vars>>
=============================================================================
