------------------------------- MODULE Codec -------------------------------
(***************************************************************************)
(* The DAG-CBOR and DAG-JSON forms of values: the data model types Any,    *)
(* Map and Raw (ipld/datamodel), the codecs of DIDs, commands and policies *)
(* and what the generated code does with the tables of Schemas.            *)
(*                                                                         *)
(* A value and an item on the wire are pairs <<tag, data>>.  The data of a *)
(* map is the sequence of its entries, of a dict (a Go map) and a struct a *)
(* function.  No map has two entries with one key.  Errors carry no text.  *)
(***************************************************************************)
EXTENDS Schemas, SequencesExt

CONSTANTS
    Models,       \* the values to write: [type, codec, value]
    Foreign,      \* what others have written: [type, codec, wire]
    Bytewise,     \* all keys of maps, in byte order
    MaxLength,    \* of a string, an array or a map: 8192 in the code
    KeyBuffer,    \* of a DID, a command and a key of a Map in CBOR: 2048
    MapLength,    \* of a generated map: 4096
    MaxBytes,     \* of bytes: 2 MiB
    Int64,
    Blobs, Cids, DIDs, Commands,  \* the strings that parse as such
    Parsable                      \* and the selectors and patterns that do

VARIABLES
    model,        \* the member of Models or Foreign this is about
    wire,         \* what was written last
    got,          \* what was read last
    stage         \* the last step

cvars == <<model, wire, got, stage>>

Null == <<"null">>
Unset == <<"unset">>
Err == <<"error">>
Panics == <<"panic">>
Failed(x) == x \in {Err, Panics}

\* What becomes of the parts of something: the first failure, or the whole.
Together(make(_), parts) ==
    LET bad == SelectSeq(parts, Failed) IN IF bad = <<>> THEN make(parts) ELSE bad[1]

Tagged(tag, parts) == Together(LAMBDA s : <<tag, s>>, parts)

Entries(keys, items) ==
    Together(LAMBDA s : <<"map", [i \in DOMAIN keys |-> <<keys[i], s[i]>>]>>, items)

Keys(entries) == [i \in DOMAIN entries |-> entries[i][1]]

Record(keys, values) ==
    [k \in Range(keys) |-> values[CHOOSE i \in DOMAIN keys : keys[i] = k]]

-----------------------------------------------------------------------------
(***************************************************************************)
(* ipld/datamodel.                                                         *)
(***************************************************************************)
Position(s) == SelectInSeq(Bytewise, LAMBDA t : t = s)
Before(s, t) == Position(s) < Position(t)
LengthFirst(s, t) == Len(s) < Len(t) \/ (Len(s) = Len(t) /\ Before(s, t))

Alphabetical(keys) == SelectSeq(Bytewise, LAMBDA k : k \in keys)

\* A bug: Go's order of strings in CBOR too.
OrderedAlike(codec, keys) == Alphabetical(keys)

\* Any's maps: in CBOR the shorter keys come first.
Ordered(codec, keys) ==
    IF codec = "cbor" THEN SortSeq(Alphabetical(keys), LengthFirst) ELSE Alphabetical(keys)

Base64(b) == "m" \o b

\* DAG-JSON has numbers of one kind, and writes bytes and links as maps.
Scalar(codec, v) ==
    CASE codec = "json" /\ v[1] \in {"int", "big"} -> <<"number", v[2]>>
      [] codec = "json" /\ v[1] = "link" -> <<"map", <<<<"/", <<"text", v[2]>>>>>>>>
      [] codec = "json" /\ v[1] = "bytes" ->
            <<"map", <<<<"/", <<"map", <<<<"bytes", <<"text", Base64(v[2])>>>>>>>>>>>>>>
      [] OTHER -> v

RECURSIVE AnyMarshal(_, _)
MapMarshal(codec, d) ==
    LET keys == Ordered(codec, DOMAIN d)
    IN  Entries(keys, [i \in DOMAIN keys |-> AnyMarshal(codec, d[keys[i]])])

AnyMarshal(codec, v) ==
    CASE v[1] = "dict" -> MapMarshal(codec, v[2])
      [] v[1] = "list" ->
            Tagged("list", [i \in DOMAIN v[2] |-> AnyMarshal(codec, v[2][i])])
      [] OTHER -> Scalar(codec, v)

\* The maps that DAG-JSON reserves for links and bytes.
Reserved(d) ==
    LET only == d["/"]
        blobs == {b \in Blobs : Base64(b) = only[2]["bytes"][2]}
    IN  CASE DOMAIN d # {"/"} -> <<"dict", d>>
          [] only[1] = "text" -> IF only[2] \in Cids THEN <<"link", only[2]>> ELSE Err
          [] /\ only[1] = "dict"
             /\ DOMAIN only[2] = {"bytes"}
             /\ only[2]["bytes"][1] = "text" ->
                IF blobs = {} THEN Err ELSE <<"bytes", CHOOSE b \in blobs : TRUE>>
          [] OTHER -> <<"dict", d>>

\* Map's CBOR decoder skips an entry whose key is longer than its buffer.
RECURSIVE AnyUnmarshal(_, _)
MapUnmarshal(codec, entries) ==
    LET kept == IF codec = "json" THEN entries
                ELSE SelectSeq(entries, LAMBDA e : Len(e[1]) <= KeyBuffer)
    IN  IF Len(entries) > MaxLength \/ \E k \in Range(Keys(entries)) : Len(k) > MaxLength THEN Err
        ELSE Together(LAMBDA s : <<"dict", Record(Keys(kept), s)>>,
                      [i \in DOMAIN kept |-> AnyUnmarshal(codec, kept[i][2])])

AnyMap(codec, read) ==
    IF codec = "json" /\ ~Failed(read) THEN Reserved(read[2]) ELSE read

\* The Go type of what was decoded: a list of one type of items is a list of it.
RECURSIVE GoType(_)
GoType(v) ==
    LET types == {GoType(v[2][i]) : i \in DOMAIN v[2]}
    IN  CASE v[1] # "list" -> <<v[1]>>
          [] Cardinality(types) = 1 /\ types # {Null} -> <<"list">> \o CHOOSE type \in types : TRUE
          [] OTHER -> <<"list", "any">>

\* Items of one type are moved to a list of that type, which panics over the
\* nulls before them.
AnyList(items) ==
    IF \E n \in 2 .. Len(items) :
          \A i \in DOMAIN items :
              IF i < n THEN items[i] = Null
              ELSE items[i] # Null /\ GoType(items[i]) = GoType(items[n])
    THEN Panics
    ELSE <<"list", items>>

\* A DAG-JSON number that fits in an int64 is one.
AnyUnmarshal(codec, x) ==
    LET data == x[2]
    IN  CASE x[1] \in {"null", "bool", "link", "big"} -> x
          [] x[1] = "bytes" -> IF Len(data) > MaxBytes THEN Err ELSE x
          [] x[1] \in {"text", "list"} /\ Len(data) > MaxLength -> Err
          [] x[1] = "text" -> x
          [] x[1] = "int" -> IF data \in Int64 THEN x ELSE Err
          [] x[1] = "number" -> IF data \in Int64 THEN <<"int", data>> ELSE <<"big", data>>
          [] x[1] = "list" ->
                Together(AnyList, [i \in DOMAIN data |-> AnyUnmarshal(codec, data[i])])
          [] x[1] = "map" -> AnyMap(codec, MapUnmarshal(codec, data))
          [] OTHER -> Err

FromAny(v) == IF Failed(v) THEN v ELSE <<"raw", AnyMarshal("cbor", v)>>

\* A bug: the CBOR is not kept, but decoded and encoded anew as for DAG-JSON.
RawReencodes(codec, x) == FromAny(AnyUnmarshal(codec, x))

\* Raw keeps the CBOR it has read; DAG-JSON goes through Any.
RawUnmarshal(codec, x) ==
    IF codec = "cbor" THEN <<"raw", x>> ELSE FromAny(AnyUnmarshal(codec, x))

ToAny(v) == IF Failed(v) THEN v ELSE AnyMarshal("json", v)

\* The zero Raw holds nothing, which CBOR refuses and DAG-JSON takes for null.
RawMarshal(codec, r) ==
    CASE r[2] = Unset -> IF codec = "cbor" THEN Err ELSE Null
      [] codec = "cbor" -> r[2]
      [] OTHER -> ToAny(AnyUnmarshal("cbor", r[2]))

-----------------------------------------------------------------------------
(***************************************************************************)
(* Policies.  A statement is a tuple that begins with its operator, which  *)
(* says what the other parts are.                                          *)
(***************************************************************************)
Shape(op) ==
    CASE op \in {"==", "!=", ">", ">=", "<", "<="} -> "Comparison"
      [] op = "and" -> "Conjunction"
      [] op = "or" -> "Disjunction"
      [] op = "not" -> "Negation"
      [] op = "like" -> "Wildcard"
      [] op \in {"all", "any"} -> "Quantification"
      [] OTHER -> "unknown"

\* A statement of the policy is made of a decoded one: its selector and its
\* pattern are parsed, and the pointers to the statements inside followed.
RECURSIVE NewStatement(_)
NewStatement(s) ==
    LET part == s[2]
        type == Shape(part[1][2])
        parsed == /\ part[2][2] \in Parsable
                  /\ type = "Wildcard" => part[3][2] \in Parsable
        inner == IF type \in {"Conjunction", "Disjunction"} THEN part[2][2]
                 ELSE IF type \in {"Negation", "Quantification"} THEN <<Last(part)>>
                 ELSE <<>>
    IN  CASE s = Null -> Panics
          [] type \in {"Comparison", "Wildcard", "Quantification"} /\ ~parsed -> Err
          [] OTHER -> Together(LAMBDA t : s, [i \in DOMAIN inner |-> NewStatement(inner[i])])

PolicyUnmarshal(statements) ==
    IF Failed(statements) THEN statements
    ELSE Tagged("list", [i \in DOMAIN statements[2] |-> NewStatement(statements[2][i])])

\* An item as the heads and scalars that a CBOR reader meets one after another.
RECURSIVE Stream(_)
Stream(x) ==
    IF x[1] # "list" THEN <<x>>
    ELSE <<<<"array", Len(x[2])>>>>
            \o FlattenSeq([i \in DOMAIN x[2] |-> Stream(x[2][i])])

\* The first n items of a stream, and what follows them.
RECURSIVE Take(_, _)
Take(n, s) ==
    LET inner == Take(s[1][2], Tail(s))
        first == IF s[1][1] = "array" THEN <<Tagged("list", inner[1]), inner[2]>>
                 ELSE <<s[1], Tail(s)>>
        others == Take(n - 1, first[2])
    IN  IF n = 0 THEN <<<<>>, s>>
        ELSE IF s = <<>> THEN <<<<Err>>, <<>>>>
        ELSE <<<<first[1]>> \o others[1], others[2]>>

(***************************************************************************)
(* What a reader makes of a stream, and what it leaves of it.  The reader  *)
(* of a statement takes an array's head and an operator, and hands the     *)
(* tuple of that operator the head it expects, whatever the input's was.   *)
(***************************************************************************)
Collected(tag, read) == <<Tagged(tag, read[1]), read[2]>>

AnyItem(taken) == <<Together(LAMBDA t : AnyUnmarshal("cbor", t[1]), taken[1]), taken[2]>>

RECURSIVE ReadOne(_, _), ReadAll(_, _)
ReadOne(kind, s) ==
    LET head == s[1]
        name == IF Len(s) > 1 /\ s[2][1] = "text" THEN Shape(s[2][2]) ELSE "unknown"
    IN  CASE s = <<>> -> <<Err, s>>
          [] kind = Text -> <<IF head[1] = "text" THEN head ELSE Err, Tail(s)>>
          [] kind[1] = "pointer" /\ head = Null -> <<Null, Tail(s)>>
          [] kind[1] = "pointer" -> ReadOne(kind[2], s)
          [] kind = AnyValue -> AnyItem(Take(1, s))
          [] kind = Statement /\ head[1] = "array" /\ head[2] \in 1 .. 3 /\ name # "unknown" ->
                Collected("tuple", ReadAll(UnmarshalCBOR[name], Tail(s)))
          [] kind[1] = "list" /\ head[1] = "array" /\ head[2] <= MaxLength ->
                Collected("list", ReadAll([i \in 1 .. head[2] |-> kind[2]], Tail(s)))
          [] OTHER -> <<Err, s>>

ReadAll(kinds, s) ==
    LET first == ReadOne(kinds[1], s)
        others == ReadAll(Tail(kinds), first[2])
    IN  IF kinds = <<>> THEN <<<<>>, s>>
        ELSE <<<<first[1]>> \o others[1], others[2]>>

-----------------------------------------------------------------------------
(***************************************************************************)
(* The kinds of Schemas.                                                   *)
(***************************************************************************)
Writes(codec, name) == IF codec = "cbor" THEN MarshalCBOR[name] ELSE MarshalDagJSON[name]
Reads(codec, name) == IF codec = "cbor" THEN UnmarshalCBOR[name] ELSE UnmarshalDagJSON[name]

Fields(fields) == [i \in DOMAIN fields |-> fields[i].field]

RECURSIVE Zero(_)
ZeroFields(fields) ==
    Record(Fields(fields),
           [i \in DOMAIN fields |->
              IF fields[i].nil = "never" THEN Zero(fields[i].kind) ELSE Null])

Zero(kind) ==
    CASE kind[1] \in {"text", "bytes"} -> <<kind[1], "">>
      [] kind = Integer -> <<"int", 0>>
      [] kind = Raw -> <<"raw", Unset>>
      [] kind[1] \in {"list", "policy"} -> <<"list", <<>>>>
      [] kind[1] = "dict" -> <<"dict", <<>>>>
      [] kind[1] = "struct" -> <<"struct", ZeroFields(UnmarshalCBOR[kind[2]])>>
      [] OTHER -> Null

\* What is absent is a null: an undefined DID or command, and a nil pointer.
RECURSIVE Marshal(_, _, _)
StructMarshal(codec, fields, data) ==
    Entries([i \in DOMAIN fields |-> fields[i].name],
            [i \in DOMAIN fields |->
               IF fields[i].nil = "null" /\ data[fields[i].field] = Null THEN Null
               ELSE Marshal(codec, fields[i].kind, data[fields[i].field])])

DictMarshal(codec, kind, keys, data) ==
    Entries(keys, [i \in DOMAIN keys |-> Marshal(codec, kind, data[keys[i]])])

TupleMarshal(codec, kinds, data) ==
    Tagged("list", [i \in DOMAIN kinds |-> Marshal(codec, kinds[i], data[i])])

Marshal(codec, kind, v) ==
    LET data == v[2]
    IN  CASE v = Null -> IF kind = Link THEN Err ELSE Null
          [] kind[1] = "const" -> <<"text", kind[2]>>
          [] kind = Text /\ Len(data) > MaxLength -> Err
          [] kind = Bytes /\ Len(data) > MaxBytes -> Err
          [] kind[1] \in {"text", "int", "bytes", "link", "did", "command"} -> Scalar(codec, v)
          [] kind = Raw -> RawMarshal(codec, v)
          [] kind = AnyValue -> AnyMarshal(codec, v)
          [] kind = Pol -> Marshal(codec, ListOf(Statement), v)
          [] kind[1] = "pointer" -> Marshal(codec, kind[2], v)
          [] kind[1] = "list" /\ Len(data) > MaxLength -> Err
          [] kind[1] = "list" ->
                TupleMarshal(codec, [i \in DOMAIN data |-> kind[2]], data)
          [] kind[1] = "dict" /\ Cardinality(DOMAIN data) > MapLength -> Err
          [] kind[1] = "dict" -> DictMarshal(codec, kind[2], Alphabetical(DOMAIN data), data)
          [] kind[1] = "struct" ->
                StructMarshal(codec,
                              SelectSeq(Writes(codec, kind[2]),
                                        LAMBDA f : f.nil # "omitted" \/ data[f.field] # Null),
                              data)
          [] OTHER ->
                TupleMarshal(codec,
                             Writes(codec, IF kind = Statement THEN Shape(data[1][2]) ELSE kind[2]),
                             data)

\* The strings of a DID or a command are read into a buffer and parsed.
Parsed(codec, strings, x) ==
    LET limit == IF codec = "cbor" THEN KeyBuffer ELSE MaxLength
    IN  IF x = Null \/ (x[1] = "text" /\ Len(x[2]) <= limit /\ x[2] \in strings) THEN x ELSE Err

DIDUnmarshal(codec, x) == Parsed(codec, DIDs, x)
CommandUnmarshal(codec, x) == Parsed(codec, Commands, x)

\* The number, bytes or link that is written as x.
Read(codec, tag, x) ==
    LET data == CASE tag = "int" -> Int64
                  [] tag = "bytes" -> {b \in Blobs : Len(b) <= MaxBytes}
                  [] tag = "link" -> Cids
        values == {d \in data : Scalar(codec, <<tag, d>>) = x}
    IN  IF values = {} THEN Err ELSE <<tag, CHOOSE d \in values : TRUE>>

(***************************************************************************)
(* A field that is not there keeps its zero value, and one that is in no   *)
(* case of the switch is skipped.  A type that is a constant is read as    *)
(* any text.                                                               *)
(***************************************************************************)
RECURSIVE Unmarshal(_, _, _)
FieldUnmarshal(codec, f, items) ==
    CASE f.nil # "never" /\ (items = <<>> \/ items[1][2] = Null) -> Null
      [] items = <<>> -> Zero(f.kind)
      [] OTHER -> Unmarshal(codec, f.kind, items[1][2])

\* parts are what the decoder knows, fields what the type has.  The entries are
\* read as they come, so the first of them that fails is what fails.
StructUnmarshal(codec, parts, fields, data) ==
    LET isOf(f, entry) ==
            \E part \in Range(parts) : part.field = f.field /\ part.name = entry[1]
        read == [i \in DOMAIN fields |->
                    FieldUnmarshal(codec, fields[i],
                        SelectSeq(data, LAMBDA entry : isOf(fields[i], entry)))]
        at == [i \in DOMAIN fields |->
                    SelectInSeq(data, LAMBDA entry : isOf(fields[i], entry))]
        failed == {i \in DOMAIN fields : Failed(read[i])}
    IN  IF failed = {} THEN <<"struct", Record(Fields(fields), read)>>
        ELSE read[CHOOSE i \in failed : \A j \in failed : at[i] <= at[j]]

ListUnmarshal(codec, tag, kinds, data) ==
    Tagged(tag, [i \in DOMAIN data |-> Unmarshal(codec, kinds[i], data[i])])

DictUnmarshal(codec, kind, data) ==
    Together(LAMBDA s : <<"dict", Record(Keys(data), s)>>,
             [i \in DOMAIN data |-> Unmarshal(codec, kind, data[i][2])])

\* A tuple has as many items as the type has parts.
TupleUnmarshal(codec, kinds, data) ==
    IF Len(data) # Len(kinds) THEN Err ELSE ListUnmarshal(codec, "tuple", kinds, data)

Unmarshal(codec, kind, x) ==
    LET data == x[2]
        isMap == kind[1] \in {"dict", "struct"}
        name == CASE kind # Statement -> kind[2]
                  [] data # <<>> /\ data[1][1] = "text" -> Shape(data[1][2])
                  [] OTHER -> "unknown"
    IN  CASE kind = Raw -> RawUnmarshal(codec, x)
          [] kind = AnyValue -> AnyUnmarshal(codec, x)
          [] kind = Text -> IF x[1] = "text" /\ Len(data) <= MaxLength THEN x ELSE Err
          [] kind = DID -> DIDUnmarshal(codec, x)
          [] kind = Command -> CommandUnmarshal(codec, x)
          [] kind = Pointer(Statement) /\ x = Null -> Null
          [] kind \in {Integer, Bytes, Link} -> Read(codec, kind[1], x)
          [] kind = Pol /\ codec = "cbor" ->
                PolicyUnmarshal(ReadOne(ListOf(Statement), Stream(x))[1])
          [] kind = Pol -> PolicyUnmarshal(Unmarshal(codec, ListOf(Statement), x))
          [] kind[1] = "pointer" -> Unmarshal(codec, kind[2], x)
          [] \/ x[1] # (IF isMap THEN "map" ELSE "list")
             \/ Len(data) > MaxLength
             \/ isMap /\ \E k \in Range(Keys(data)) : Len(k) > MaxLength -> Err
          [] kind[1] = "list" ->
                ListUnmarshal(codec, "list", [i \in DOMAIN data |-> kind[2]], data)
          [] kind[1] = "dict" /\ codec = "cbor" /\ Len(data) > MapLength -> Err
          [] kind[1] = "dict" -> DictUnmarshal(codec, kind[2], data)
          [] kind[1] = "struct" ->
                StructUnmarshal(codec, Reads(codec, name), UnmarshalCBOR[name], data)
          [] name = "unknown" -> Err
          [] OTHER -> TupleUnmarshal(codec, Reads(codec, name), data)

-----------------------------------------------------------------------------
(***************************************************************************)
(* A value is written, relayed perhaps by an implementation that orders    *)
(* the fields of a struct differently and knows one more, read, and        *)
(* written again; or it begins with what somebody else has written.        *)
(***************************************************************************)
CInit ==
    /\ got = Unset
    /\ \/ model \in Models /\ wire = Unset /\ stage = "value"
       \/ model \in Foreign /\ wire = model.wire /\ stage = "foreign"

Write ==
    /\ stage = "value"
    /\ wire' = Marshal(model.codec, model.type, model.value)
    /\ stage' = IF Failed(wire') THEN "unwritten" ELSE "written"
    /\ UNCHANGED <<model, got>>

Relay ==
    /\ stage = "written"
    /\ model.type[1] = "struct"
    /\ wire' \in {<<"map", Reverse(wire[2])>>, <<"map", Append(wire[2], <<"unknown", Null>>)>>}
    /\ stage' = "relayed"
    /\ UNCHANGED <<model, got>>

ReadBack ==
    /\ stage \in {"written", "relayed", "foreign"}
    /\ got' = Unmarshal(model.codec, model.type, wire)
    /\ stage' = IF Failed(got') THEN "refused" ELSE "read"
    /\ UNCHANGED <<model, wire>>

WriteAgain ==
    /\ stage = "read"
    /\ wire' = Marshal(model.codec, model.type, got)
    /\ stage' = IF Failed(wire') THEN "stuck" ELSE "again"
    /\ UNCHANGED <<model, got>>

CNext == Write \/ Relay \/ ReadBack \/ WriteAgain

CSpec == CInit /\ [][CNext]_cvars

-----------------------------------------------------------------------------
\* The values and items inside a value or an item.
RECURSIVE Within(_)
Within(v) ==
    LET data == v[2]
    IN  {v} \cup
        CASE v[1] \in {"list", "tuple"} -> UNION {Within(data[i]) : i \in DOMAIN data}
          [] v[1] \in {"dict", "struct"} -> UNION {Within(data[k]) : k \in DOMAIN data}
          [] v[1] = "map" -> UNION {Within(data[i][2]) : i \in DOMAIN data}
          [] v[1] = "raw" -> Within(data)
          [] OTHER -> {}

KeysIn(v) == IF v[1] = "map" THEN Range(Keys(v[2])) ELSE DOMAIN v[2]

\* The IPLD node that an item of either codec stands for.
RECURSIVE Node(_)
Node(x) ==
    LET data == x[2]
        scalars == {v \in {"link"} \X Cids \cup {"bytes"} \X Blobs : Scalar("json", v) = x}
    IN  CASE scalars # {} -> CHOOSE v \in scalars : TRUE
          [] x[1] \in {"int", "big"} -> <<"number", data>>
          [] x[1] = "list" -> <<"list", [i \in DOMAIN data |-> Node(data[i])]>>
          [] x[1] = "map" ->
                <<"dict", Record(Keys(data), [i \in DOMAIN data |-> Node(data[i][2])])>>
          [] OTHER -> x

(***************************************************************************)
(* What does not come back as it was written: a pointer to a Raw that is a *)
(* null comes back as nil, a map with a key longer than the buffer without *)
(* that key, and from DAG-JSON a map that looks like a link or like bytes  *)
(* as one, and a big integer that fits in an int64 as an int64.            *)
(***************************************************************************)
LooksReserved(v) ==
    /\ v[1] \in {"map", "dict"}
    /\ KeysIn(v) = {"/"}

Ambiguous(codec, v) ==
    \/ v = <<"raw", Null>>
    \/ v[1] \in {"map", "dict"} /\ \E k \in KeysIn(v) : Len(k) > KeyBuffer
    \/ codec = "json" /\ (LooksReserved(v) \/ (v[1] = "big" /\ v[2] \in Int64))

(***************************************************************************)
(* What is written and cannot be read: a DID or a command longer than the  *)
(* buffer, and what Any writes without a limit; in DAG-JSON also a map     *)
(* that looks like a link or like bytes, and bytes that are too long in    *)
(* base64 for the string that Any takes them for.                          *)
(***************************************************************************)
Unreadable(codec, v) ==
    LET size == IF v[1] = "dict" THEN Cardinality(DOMAIN v[2]) ELSE Len(v[2])
    IN  \/ codec = "cbor" /\ v[1] = "text" /\ v[2] \in DIDs \cup Commands /\ size > KeyBuffer
        \/ v[1] \in {"text", "list", "map", "dict"} /\ size > MaxLength
        \/ v[1] \in {"map", "dict"} /\ \E k \in KeysIn(v) : Len(k) > MaxLength
        \/ v[1] = "bytes" /\ (size > MaxBytes \/ (codec = "json" /\ Len(Base64(v[2])) > MaxLength))
        \/ codec = "json" /\ LooksReserved(v)

\* Nulls before items of one kind: Any writes them, and panics reading them.
LedByNull(v) ==
    /\ v[1] = "list"
    /\ \E n \in 2 .. Len(v[2]) :
          \A i \in DOMAIN v[2] :
              IF i < n THEN v[2][i] = Null
              ELSE v[2][i] # Null /\ v[2][i][1] = v[2][n][1]

Own == "value" \in DOMAIN model

\* What the code writes it can read, and it is what it was, whoever has
\* rearranged its fields on the way, but for the cases above.  It panics over
\* lists that begin with nulls only, as does the DAG-JSON of a Raw that holds
\* such a list, since it is decoded for it.
ReadsItsOwn ==
    /\ Own /\ (wire = Panics \/ got = Panics) =>
          \E v \in Within(model.value) : LedByNull(v)
    /\ Own /\ stage = "refused" /\ got # Panics =>
          \E v \in Within(model.value) : Unreadable(model.codec, v)
    /\ Own /\ stage = "read" /\ got # model.value =>
          \E v \in Within(model.value) : Ambiguous(model.codec, v)

\* A delegation, an invocation or an operation has one encoding, on which its
\* CID and its signature depend: the keys of its maps come shorter ones first
\* in CBOR and in byte order in DAG-JSON.  The dicts that are fields of structs
\* are in byte order in CBOR too.
Canonical ==
    stage \in {"written", "again"} =>
        \A x \in Within(wire) :
            x[1] = "map" =>
                \/ \A i \in 2 .. Len(x[2]) :
                      IF model.codec = "json" THEN Before(x[2][i - 1][1], x[2][i][1])
                      ELSE LengthFirst(x[2][i - 1][1], x[2][i][1])
                \/ /\ model.type[1] = "struct"
                   /\ \E v \in Within(IF Own THEN model.value ELSE got) :
                         v[1] = "dict" /\ DOMAIN v[2] = KeysIn(x)

\* The statements of a policy have the parts that their operators ask for.
RECURSIVE WellShaped(_)
WellShaped(statement) ==
    LET data == statement[2]
        name == IF data[1][1] = "text" THEN Shape(data[1][2]) ELSE "unknown"
        inner == CASE name \in {"Conjunction", "Disjunction"} -> data[2][2]
                   [] name \in {"Negation", "Quantification"} -> <<Last(data)>>
                   [] OTHER -> <<>>
    IN  /\ name # "unknown"
        /\ Len(data) = Len(UnmarshalCBOR[name])
        /\ \A i \in DOMAIN inner : inner[i][1] = "list" => WellShaped(inner[i])

\* Every field of the type is there again with what it had, and a policy says
\* the same.  A type that is a constant is written whatever was read, and a
\* policy in CBOR whose statements have too many or too few parts may be read
\* as another one.
Understood ==
    ~Own /\ stage = "again" =>
        IF model.type = Pol
        THEN \/ Node(wire) = Node(model.wire)
             \/ model.codec = "cbor" /\ \E i \in DOMAIN model.wire[2] : ~WellShaped(model.wire[2][i])
        ELSE \A f \in Range(Writes(model.codec, model.type[2])) :
                \A i \in DOMAIN model.wire[2] :
                    /\ model.wire[2][i][1] = f.name
                    /\ f.kind[1] \notin {"const", "struct"}
                    /\ f.nil = "omitted" => model.wire[2][i][2] # Null
                    => \E j \in DOMAIN wire[2] :
                          /\ wire[2][j][1] = f.name
                          /\ Node(wire[2][j][2]) = Node(model.wire[2][i][2])

\* Whatever was accepted can be written again, and is then read as the same;
\* unless something is missing that the decoder did not ask for, a type was
\* not the constant, or the DAG-JSON had more entries than may be written.
Mistyped(v) ==
    v[1] = "struct" /\ "type" \in DOMAIN v[2] /\ v[2]["type"][2] \notin {"plc_operation", "plc_tombstone"}

Settled ==
    /\ stage = "again" /\ Unmarshal(model.codec, model.type, wire) # got =>
          <<"raw", Unset>> \in Within(got) \/ Mistyped(got)
    /\ stage = "stuck" =>
          \E v \in Within(got) :
              \/ v \in {Null, <<"raw", Unset>>}
              \/ v[1] = "dict" /\ Cardinality(DOMAIN v[2]) > MapLength

\* A decoder panics over a null for a statement, and over lists that begin with
\* nulls; over nothing else.
PanicsOverNull ==
    ~Own /\ got = Panics =>
        \/ \E v \in Within(model.wire) : LedByNull(v)
        \/ /\ model.type = Pol
           /\ \E v \in Within(model.wire) : v[1] = "list" /\ Null \in Range(v[2])

\* Short of a panic, what others wrote is either refused or understood, and then
\* written again as something that is read as the same.
ReadAsWritten == Understood /\ Settled /\ PanicsOverNull
=============================================================================
