------------------------------- MODULE Tokens -------------------------------
(***************************************************************************)
(* Delegations, invocations and receipts (ucan/delegation, ucan/invocation *)
(* and ucan/receipt): how they are made, and what their decoders accept;   *)
(* and the containers that carry them (ucan/container), in the CBOR and    *)
(* DAG-JSON of Codec and in the six transport encodings.                   *)
(*                                                                         *)
(* A token's bytes are the CBOR item of its envelope.  Its link is a hash  *)
(* of them, so tokens are the same when their items are.  A signature is   *)
(* named after the request it was made for, and so are a token's bytes in  *)
(* a container.  Signing is deterministic.                                 *)
(***************************************************************************)
EXTENDS Codec

CONSTANTS
    Requests,     \* name :> what is to be issued
    Headers,      \* the varsig headers that can be decoded
    Later,        \* thirty seconds from now, the default expiration
    MaxBox        \* a bound on the options of a container

VARIABLES
    issued,       \* what is signed for each request, or an error
    box,          \* the tokens of the container, in the order of the options
    parcel,       \* [before, codec, body, after]: what is sent
    letters,      \* the tokens the receiver decoded, or an error
    post          \* the last step

tvars == <<issued, box, parcel, letters, post>>

Names == DOMAIN Requests

ReceiptCommand == <<"text", "/ucan/assert/receipt">>
Delegation == "ucan/dlg@1.0.0-rc.1"
Invocation == "ucan/inv@1.0.0-rc.1"

-----------------------------------------------------------------------------
\* The options of Delegate, Invoke and IssueOK.
Config ==
    [exp |-> Null, noexp |-> FALSE, nonce |-> Null, nononce |-> FALSE, aud |-> Null,
     iat |-> Null, nbf |-> Null, meta |-> Null, cause |-> Null,
     prf |-> <<"list", <<>>>>, pol |-> <<"list", <<>>>>]

With(option, cfg) ==
    CASE option[1] = "exp" -> [cfg EXCEPT !.exp = option[2], !.noexp = FALSE]
      [] option[1] = "noexp" -> [cfg EXCEPT !.exp = Null, !.noexp = TRUE]
      [] OTHER -> [cfg EXCEPT ![option[1]] = option[2]]

Configured(options) == FoldLeft(LAMBDA cfg, option : With(option, cfg), Config, options)

\* A nonce of the configuration is used even if there should be none.
Nonce(cfg, random) ==
    CASE cfg.nonce # Null -> cfg.nonce
      [] cfg.nononce -> <<"bytes", "">>
      [] OTHER -> <<"bytes", random>>

Expiration(cfg) ==
    IF cfg.noexp THEN Null ELSE IF cfg.exp = Null THEN <<"int", Later>> ELSE cfg.exp

Metadata(cfg) == IF cfg.meta = Null THEN Null ELSE <<"raw", AnyMarshal("cbor", cfg.meta)>>

\* The payload that is signed, or an error.
SigPayload(header, type, version, payload) ==
    Marshal("cbor", Struct(type),
            <<"struct", "h" :> <<"bytes", header>> @@ version :> <<"struct", payload>>>>)

Delegate(name, r) ==
    LET cfg == Configured(r.options)
    IN  IF r.cmd = Null THEN Err
        ELSE SigPayload(r.header, "DelegationSigPayload", Delegation,
                [iss |-> r.iss, aud |-> r.aud, sub |-> r.sub, cmd |-> r.cmd, pol |-> cfg.pol,
                 nonce |-> Nonce(cfg, name), meta |-> Metadata(cfg), nbf |-> cfg.nbf,
                 exp |-> Expiration(cfg)])

\* The arguments are a map.
Invoke(name, r, sub, cmd, args, options) ==
    LET cfg == Configured(options)
    IN  IF cmd = Null \/ args[1] # "map" THEN Err
        ELSE SigPayload(r.header, "InvocationSigPayload", Invocation,
                [iss |-> r.iss, sub |-> sub, aud |-> cfg.aud, cmd |-> cmd,
                 args |-> <<"raw", args>>, prf |-> cfg.prf, meta |-> Metadata(cfg),
                 nonce |-> Nonce(cfg, name), exp |-> Expiration(cfg), iat |-> cfg.iat,
                 cause |-> cfg.cause])

\* Whatever was produced is attested: ok and error are pointers to its CBOR.
Issue(name, r) ==
    LET out == <<"struct", [ok |-> r.ok, error |-> r.error]>>
        args == Marshal("cbor", Struct("ReceiptArgs"), <<"struct", [ran |-> r.ran, out |-> out]>>)
    IN  IF (r.ok = Null) = (r.error = Null) THEN Err
        ELSE Invoke(name, r, r.iss, ReceiptCommand, args, <<<<"noexp", TRUE>>>> \o r.options)

Signed(name) ==
    LET r == Requests[name]
    IN  CASE r.kind = "delegation" -> Delegate(name, r)
          [] r.kind = "invocation" -> Invoke(name, r, r.sub, r.cmd, r.args, r.options)
          [] r.kind = "receipt" -> Issue(name, r)

Issuable == {name \in Names : ~Failed(issued[name])}

\* Two requests for the same make one signature and one token.
Sign(name) == CHOOSE first \in Names : issued[first] = issued[name]

Token(name) ==
    Marshal("cbor", Tuple("Envelope"),
            <<"tuple", <<<<"bytes", Sign(name)>>, <<"raw", issued[name]>>>>>>)

-----------------------------------------------------------------------------
\* A task's link depends on all of it, and a task without arguments has none.
Task(payload) ==
    LET args == IF payload.args[2] = Unset THEN <<"raw", <<"map", <<>>>>>> ELSE payload.args
    IN  Marshal("cbor", Struct("Task"),
                <<"struct", [sub |-> payload.sub, cmd |-> payload.cmd, args |-> args,
                             nonce |-> payload.nonce]>>)

Payload(kind) == IF kind = "delegation" THEN "DelegationSigPayload" ELSE "InvocationSigPayload"
Version(kind) == IF kind = "delegation" THEN Delegation ELSE Invocation

Checked(kind, envelope, sigPayload) ==
    LET payload == sigPayload[2][Version(kind)]
    IN  IF Failed(sigPayload) THEN sigPayload
        ELSE IF \/ payload = Null
                \/ sigPayload[2].h[2] \notin Headers
                \/ kind # "delegation" /\ Failed(Task(payload[2]))
             THEN Err
             ELSE <<"token", [kind |-> kind, bytes |-> Marshal("cbor", Tuple("Envelope"), envelope),
                              signature |-> envelope[2][1][2], signed |-> envelope[2][2][2],
                              payload |-> payload[2]]>>

\* What a token of a type is when its envelope has been read; the payload is
\* read from the CBOR that was signed.
Opened(kind, envelope) ==
    IF Failed(envelope) THEN envelope
    ELSE Checked(kind, envelope, Unmarshal("cbor", Struct(Payload(kind)), envelope[2][2][2]))

\* A receipt is an invocation of its command that leaves out the audience and
\* says how the task went.
IsReceipt(payload, args) ==
    /\ payload.cmd = ReceiptCommand
    /\ payload.aud = Null
    /\ ~Failed(args)
    /\ args[2].out[2].ok # Null \/ args[2].out[2].error # Null

FromInvocation(token) ==
    IF Failed(token) THEN token
    ELSE IF IsReceipt(token[2].payload,
                      Unmarshal("cbor", Struct("ReceiptArgs"), token[2].payload.args[2]))
         THEN token
         ELSE Err

As(kind, token) == IF kind = "receipt" THEN FromInvocation(token) ELSE token

Decode(codec, kind, item) == As(kind, Opened(kind, Unmarshal(codec, Tuple("Envelope"), item)))

Accepted(token) == IF token = Err THEN <<>> ELSE <<token>>

FirstAccepted(kinds, item) ==
    FoldLeft(LAMBDA found, kind :
                 IF found = <<>> THEN Accepted(Decode("cbor", kind, item)) ELSE found,
             <<>>, kinds)

\* A bug: every receipt is an invocation too, and this finds it first.
InvocationsFirst(item) == FirstAccepted(<<"delegation", "invocation", "receipt">>, item)

\* A container takes a token for the first kind whose decoder reads it, and
\* leaves it out if none does.  A decoder that panics ends all of it.
DecodeToken(item) == FirstAccepted(<<"delegation", "receipt", "invocation">>, item)

-----------------------------------------------------------------------------
(***************************************************************************)
(* Containers.  The transport encodings are base64 over gzip over CBOR,    *)
(* and each may be left out; the seventh is DAG-JSON.                      *)
(***************************************************************************)
Layers ==
    [Raw |-> <<>>, Base64 |-> <<"base64">>, Base64url |-> <<"base64url">>,
     RawGzip |-> <<"gzip">>, Base64Gzip |-> <<"gzip", "base64">>,
     Base64urlGzip |-> <<"gzip", "base64url">>, DagJSON |-> <<>>]

Textual(codec) == codec \notin {"Raw", "RawGzip", "DagJSON"}
Of(codec) == IF codec = "DagJSON" THEN "json" ELSE "cbor"

\* encodeTokens: sorted bytewise.
EncodeTokens(names) ==
    LET sorted == SortSeq(names, Before) IN [k \in DOMAIN sorted |-> <<"bytes", sorted[k]>>]

\* DecodeTransport: the whitespace around text is trimmed.  Around the others
\* it is part of them: what comes first is no codec, gzip does not end so, and
\* the CBOR decoder stops where the container does.
DecodeTransport(p) ==
    IF \/ p.before /\ ~Textual(p.codec)
       \/ p.after /\ p.codec = "RawGzip"
       \/ p.body[1] # Layers[p.codec]
    THEN Err ELSE p.body[2]

DecodeTokens(model_) ==
    IF Failed(model_) THEN model_
    ELSE LET entries == model_[2]["ctn-v1"][2]
             tokens == [k \in DOMAIN entries |-> DecodeToken(Token(entries[k][2]))]
         IN  Tagged("letters", FlattenSeq(tokens))

TInit ==
    /\ issued = [name \in Names |-> Signed(name)]
    /\ box = <<>> /\ parcel = Unset /\ letters = Unset /\ post = "open"

\* WithInvocations, WithDelegations, WithReceipts: a link is taken once.
Put(name) ==
    /\ post = "open"
    /\ Len(box) < MaxBox
    /\ box' = IF Sign(name) \in Range(box) THEN box ELSE Append(box, Sign(name))
    /\ UNCHANGED <<issued, parcel, letters, post>>

Send(codec) ==
    /\ post = "open"
    /\ parcel' = [before |-> FALSE, codec |-> codec, after |-> FALSE,
                  body |-> <<Layers[codec],
                             Marshal(Of(codec), Struct("Container"),
                                     <<"struct", "ctn-v1" :> <<"list", EncodeTokens(box)>>>>)>>]
    /\ post' = "sent"
    /\ UNCHANGED <<issued, box, letters>>

\* A newline at the end of a file, or blanks around a header's value.
Pad ==
    /\ post = "sent"
    /\ parcel.codec # "DagJSON"
    /\ \E before, after \in BOOLEAN :
          /\ before \/ after
          /\ parcel' = [parcel EXCEPT !.before = before, !.after = after]
    /\ post' = "padded"
    /\ UNCHANGED <<issued, box, letters>>

Receive ==
    /\ post \in {"sent", "padded"}
    /\ letters' = DecodeTokens(
                     IF Failed(DecodeTransport(parcel)) THEN Err
                     ELSE Unmarshal(Of(parcel.codec), Struct("Container"), DecodeTransport(parcel)))
    /\ post' = "received"
    /\ UNCHANGED <<issued, box, parcel>>

\* A single token that is sent as DAG-JSON, for which what was signed is decoded,
\* and read again.
SendToken(name) ==
    /\ post = "open"
    /\ box = <<name>>
    /\ LET envelope == Unmarshal("cbor", Tuple("Envelope"), Token(name))
       IN  parcel' = IF Failed(envelope) THEN envelope
                     ELSE Marshal("json", Tuple("Envelope"), envelope)
    /\ post' = IF Failed(parcel') THEN "unsent" ELSE "token"
    /\ UNCHANGED <<issued, box, letters>>

Alone(token) == IF Failed(token) THEN token ELSE <<"letters", <<token>>>>

ReceiveToken ==
    /\ post = "token"
    /\ letters' = Alone(Decode("json", Requests[box[1]].kind, parcel))
    /\ post' = "reread"
    /\ UNCHANGED <<issued, box, parcel>>

TNext ==
    \/ \E name \in Issuable : Put(name)
    \/ \E name \in Issuable : SendToken(name)
    \/ \E codec \in DOMAIN Layers : Send(codec)
    \/ Pad \/ Receive \/ ReceiveToken

TSpec == TInit /\ [][TNext]_tvars

-----------------------------------------------------------------------------
Letter(k) == letters[2][k][2]
Letters == DOMAIN letters[2]
Copies(name) == {k \in Letters : Letter(k).bytes = Token(name)}

\* The CBOR of the result is a null, which the decoder takes for no result.
NullResult(name) ==
    Requests[name].kind = "receipt" /\ <<"raw", Null>> \in {Requests[name].ok, Requests[name].error}

\* Every token that was packed comes out of a container once, as what it went
\* in, and nothing else does; but one with a DID, a command or a policy that
\* its decoder refuses is left out, and a receipt of a null is taken for an
\* invocation.  Nothing at all comes out only if white space was added to what
\* is not text, or over the panic of a policy that compares with a list that
\* begins with nulls.
Delivered ==
    post = "received" =>
        IF letters = Panics
        THEN \E name \in Range(box) :
                Requests[name].kind = "delegation" /\ \E v \in Within(issued[name]) : LedByNull(v)
        ELSE IF Failed(letters) THEN ~Textual(parcel.codec) /\ (parcel.before \/ parcel.after)
        ELSE /\ \A k \in Letters : \E name \in Range(box) : k \in Copies(name)
             /\ \A name \in Range(box) :
                  IF Copies(name) = {} THEN \E v \in Within(issued[name]) : Unreadable("cbor", v)
                  ELSE /\ Cardinality(Copies(name)) = 1
                       /\ \A k \in Copies(name) :
                             Letter(k).kind = (IF NullResult(name) THEN "invocation"
                                                ELSE Requests[name].kind)

\* A token that was read again has the signature of what it says, and the link
\* it had: the bytes that were signed survive a container, and DAG-JSON as
\* well, where they are encoded anew, unless they hold something ambiguous.
\* The DAG-JSON of a token can be written and read, unless something in it is
\* too long, there or in the CBOR that it stands for, or is a list that begins
\* with nulls.
StillVerifies ==
    /\ post \in {"received", "reread"} /\ ~Failed(letters) =>
          \A k \in Letters :
              \/ /\ Letter(k).signed = issued[Letter(k).signature]
                 /\ Letter(k).bytes = Token(Letter(k).signature)
              \/ /\ post = "reread"
                 /\ \E v \in Within(issued[box[1]]) : Ambiguous("json", v)
    /\ post = "unsent" \/ (post = "reread" /\ Failed(letters)) =>
          \/ NullResult(box[1])
          \/ \E v \in Within(issued[box[1]]) :
                LedByNull(v) \/ \E codec \in {"cbor", "json"} : Unreadable(codec, v)
=============================================================================
