------------------------------ MODULE Selector ------------------------------
(***************************************************************************)
(* Selectors (ucan/delegation/policy/selector): what a selector extracts   *)
(* from the arguments of an invocation, with the Go types that the         *)
(* comparison of policies can tell apart, and beside it what the selector  *)
(* denotes, read the way of jq.                                            *)
(*                                                                         *)
(* A value is a pair of its Go type and its data: a list knows the type of *)
(* its elements, "any" unless all of them have the same, as the decoder    *)
(* (ipld/datamodel/any.go) leaves it.  Bytes are a list to the code, with  *)
(* elements of the type "byte".  Links, booleans and big numbers behave as *)
(* other scalars do and are left out.                                      *)
(*                                                                         *)
(* The run time picks an order of the keys whenever it comes to a map, so  *)
(* what a selector resolves to on a value, and what it denotes there, is a *)
(* set: one outcome for all these choices, each of them made anew.         *)
(***************************************************************************)
EXTENDS Integers, Sequences, FiniteSets

CONSTANTS
    Field,   \* the keys of maps
    Depth    \* how deep values are nested

ASSUME SelectorAssumption == IsFiniteSet(Field) /\ Depth \in Nat

TypeOf(v) == v[1]
Kind(v) == v[1][1]
Data(v) == v[2]

\* What a map has for a key it does not have.
None == <<<<"none">>, 0>>

Nil == <<<<"nil">>, 0>>
Num(i) == <<<<"int">>, i>>
Str(s) == <<<<"string">>, s>>
List(t, s) == <<<<"list">> \o t, s>>
Octets(s) == <<<<"list", "byte">>, [k \in DOMAIN s |-> <<<<"byte">>, s[k]>>]>>
MapOf(f) == <<<<"map">>, [k \in Field |-> IF k \in DOMAIN f THEN f[k] ELSE None]>>

AnyType == <<"any">>

IsBytes(v) == TypeOf(v) = <<"list", "byte">>

\* A nil slice: no items, like an empty one, but reflect.DeepEqual tells them
\* apart.
NilSlice == <<<<"list", "any", "nil">>, <<>>>>

\* The values whose items and entries are in W, and those of bounded depth.
TypeNames == {"nil", "int", "byte", "string", "list", "map", "any"}
ListTypes == {t \in Seq(TypeNames) : t # <<>> /\ t[1] = "list"}

Nest(W) ==
    {Nil} \cup ({<<"int">>} \X Int) \cup ({<<"byte">>} \X (0 .. 255))
    \cup ({<<"string">>} \X Seq(STRING))
    \cup (ListTypes \X Seq(W)) \cup ({<<"map">>} \X [Field -> W \cup {None}])

ValuesTo[n \in Nat] == IF n = 0 THEN {} ELSE Nest(ValuesTo[n - 1])
Values == ValuesTo[Depth]

\* The places of a value: the positions of a list, the keys that a map has.
Places(v) ==
    CASE Kind(v) = "list" -> DOMAIN Data(v)
      [] Kind(v) = "map" -> {k \in Field : Data(v)[k] # None}
      [] OTHER -> {}

Value(v) == <<"value", v>>
ResolutionError == <<"error">>
Panic == <<"panic">>

Outcomes == ({"value"} \X Values) \cup {ResolutionError, Panic}

Status(o) == o[1]
Result(o) == o[2]

\* A list whose items have one common type becomes a typed list.  Items that
\* are nil have no type: when they come first the conversion panics, later they
\* only keep the list untyped.
Typed(v) ==
    LET s == Data(v)
        named == {k \in DOMAIN s : s[k] # Nil}
        first == CHOOSE k \in named : \A l \in named : k <= l
        common == \A k \in first .. Len(s) : TypeOf(s[k]) = TypeOf(s[first])
    IN  IF Kind(v) # "list" \/ named = {} THEN Value(v)
        ELSE IF ~common THEN Value(v)
        ELSE IF first = 1 THEN Value(List(TypeOf(s[1]), s)) ELSE Panic

\* A list as the decoder leaves it, and the values all of whose lists are so or
\* are bytes, with nothing but bytes in them; there are none with a nil before
\* items of one type, over which the decoder panics.
Decoded(s) == Result(Typed(List(AnyType, s)))

AsDecoded[v \in Values] ==
    /\ Kind(v) = "list" => Typed(List(AnyType, Data(v))) = Value(v) \/ v = Octets(<<>>)
    /\ \A k \in Places(v) : (Kind(Data(v)[k]) = "byte" <=> IsBytes(v)) /\ AsDecoded[Data(v)[k]]

-----------------------------------------------------------------------------
(***************************************************************************)
(* Segments: <<"identity">>, <<"iterator", optional>>,                     *)
(* <<"field", optional, name>>, <<"index", optional, i>> and               *)
(* <<"slice", optional, <<lo>> or <<lo, hi>>>>.                            *)
(***************************************************************************)
Segments ==
    {<<"identity">>} \cup ({"iterator"} \X BOOLEAN) \cup ({"field"} \X BOOLEAN \X Field)
    \cup ({"index"} \X BOOLEAN \X Int)
    \cup ({"slice"} \X BOOLEAN \X {r \in Seq(Int) : Len(r) \in {1, 2}})

Selectors == Seq(Segments)

\* The functions that choose one of the members of every f[k].
OneOfEach(f) == {g \in [DOMAIN f -> UNION {f[k] : k \in DOMAIN f}] : \A k \in DOMAIN f : g[k] \in f[k]}

Optional(seg) == Len(seg) > 1 /\ seg[2]
IsIterator(seg) == seg[1] = "iterator"

IsCollection(v) == Kind(v) \in {"list", "map"}
IsIndexed(v) == Kind(v) \in {"list", "string"}

\* The orders of the keys in K, and the sequences in which the run time may
\* iterate over the items of a collection.
Orders(K) == {o \in [1 .. Cardinality(K) -> K] : \A k \in K : \E n \in DOMAIN o : o[n] = k}

Enumerated(v) ==
    IF Kind(v) = "list" THEN {Data(v)}
    ELSE {[n \in DOMAIN o |-> Data(v)[o[n]]] : o \in Orders(Places(v))}

\* What a segment that does not fit its value yields.
Missing(seg) == IF Optional(seg) THEN Value(Nil) ELSE ResolutionError

\* Appends r to the items collected: lists are spliced, nil is left out.
Collect(many, r) ==
    IF Kind(r) = "nil" THEN many
    ELSE IF Kind(r) = "list" THEN many \o Data(r)
    ELSE Append(many, r)

CollectAll(results) ==
    LET many[n \in 0 .. Len(results)] ==
            IF n = 0 THEN <<>> ELSE Collect(many[n - 1], results[n])
    IN  many[Len(results)]

ResolveField(seg, v) ==
    IF Kind(v) = "map" /\ seg[3] \in Places(v)
    THEN Value(Data(v)[seg[3]])
    ELSE Missing(seg)

\* An upper bound beyond the end is an error even when the segment is optional;
\* a negative or inverted range panics.
ResolveSlice(seg, v) ==
    LET lo == seg[3][1]
        hi == IF Len(seg[3]) = 1 THEN Len(Data(v)) ELSE seg[3][2]
    IN  IF ~IsIndexed(v) THEN Missing(seg)
        ELSE IF hi > Len(Data(v)) THEN ResolutionError
        ELSE IF lo < 0 \/ hi < lo THEN Panic
        ELSE Value(<<TypeOf(v), SubSeq(Data(v), lo + 1, hi)>>)

\* A bug: an index from the end is taken without looking at its range.
ResolveIndexUnchecked(seg, v) ==
    LET k == IF seg[3] < 0 THEN Len(Data(v)) + seg[3] ELSE seg[3]
    IN  IF ~IsIndexed(v) \/ k >= Len(Data(v)) THEN Missing(seg)
        ELSE IF k < 0 THEN Panic
        ELSE Value(IF Kind(v) = "list" THEN Data(v)[k + 1] ELSE Str(<<Data(v)[k + 1]>>))

ResolveIndex(seg, v) ==
    LET k == IF seg[3] < 0 THEN Len(Data(v)) + seg[3] ELSE seg[3]
    IN  IF ~IsIndexed(v) \/ k \notin 0 .. Len(Data(v)) - 1 THEN Missing(seg)
        ELSE Value(IF Kind(v) = "list" THEN Data(v)[k + 1] ELSE Str(<<Data(v)[k + 1]>>))

\* The first item on which the rest of the selector fails fails the iterator.
Iterated(results) ==
    LET failed == {k \in DOMAIN results : Status(results[k]) # "value"}
        many == CollectAll([k \in DOMAIN results |-> Result(results[k])])
    IN  IF failed # {}
        THEN results[CHOOSE k \in failed : \A l \in failed : k <= l]
        ELSE Value(IF many = <<>> THEN NilSlice ELSE List(AnyType, many))

\* An iterator resolves the rest of the selector against every item.
ResolveIterator(seg, v, rest) ==
    IF ~IsCollection(v) THEN {Missing(seg)}
    ELSE UNION {{Iterated(results) : results \in OneOfEach([k \in DOMAIN items |-> rest[items[k]]])} :
                   items \in Enumerated(v)}

\* The outcomes of one turn of the loop over the segments; rest has those of
\* the rest of the selector.
Step(seg, v, rest) ==
    CASE seg[1] = "identity" -> {Value(v)}
      [] seg[1] = "iterator" -> ResolveIterator(seg, v, rest)
      [] seg[1] = "field" -> {ResolveField(seg, v)}
      [] seg[1] = "slice" -> {ResolveSlice(seg, v)}
      [] seg[1] = "index" -> {ResolveIndex(seg, v)}

\* The loop applies the rest of the selector to what a segment yields, and so
\* once more to what an iterator has collected.
Then(o, rest) == IF Status(o) = "value" THEN rest[Result(o)] ELSE {o}

Resolve[sel \in Selectors] ==
    [v \in Values |->
        IF sel = <<>> THEN {Typed(v)}
        ELSE UNION {Then(o, Resolve[Tail(sel)]) : o \in Step(Head(sel), v, Resolve[Tail(sel)])}]

-----------------------------------------------------------------------------
(***************************************************************************)
(* What a selector denotes: the values it reaches, all of them or, when    *)
(* one segment fails on one of them, none.  A reading, for one choice of   *)
(* the orders of maps, is a set with at most one sequence of values.       *)
(* Bytes are a scalar here, that can be cut and indexed as strings can.    *)
(***************************************************************************)
\* The nil of an optional segment that reached nothing.
Absent == <<<<"nil">>, 1>>

Sole(S) == CHOOSE x \in S : TRUE

IsIterable(v) == IsCollection(v) /\ ~IsBytes(v)

\* The readings of one segment.  Positions count from zero, the negative ones
\* from the end.  A range must lie within the value, the optional one too.
Reach(seg, v) ==
    LET at == {k \in 1 .. Len(Data(v)) : seg[3] \in {k - 1, k - 1 - Len(Data(v))}}
        item(k) ==
            IF Kind(v) = "string" THEN Str(<<Data(v)[k]>>)
            ELSE IF Kind(Data(v)[k]) = "byte" THEN Num(Data(Data(v)[k])) ELSE Data(v)[k]
        lo == seg[3][1]
        hi == Append(seg[3], Len(Data(v)))[2]
    IN  CASE seg[1] = "identity" -> {{<<v>>}}
          [] seg[1] = "iterator" /\ IsIterable(v) -> {{items} : items \in Enumerated(v)}
          [] seg[1] = "field" /\ Kind(v) = "map" /\ seg[3] \in Places(v)
                -> {{<<Data(v)[seg[3]]>>}}
          [] seg[1] = "index" /\ IsIndexed(v) /\ at # {} -> {{<<item(k)>> : k \in at}}
          [] seg[1] = "slice" /\ IsIndexed(v)
                -> {{<<<<TypeOf(v), SubSeq(Data(v), lo + 1, hi)>>>> :
                       ok \in {TRUE} \cap {0 <= lo /\ lo <= hi /\ hi <= Len(Data(v))}}}
          [] OTHER -> {IF Optional(seg) THEN {<<Absent>>} ELSE {}}

Flat(ss) ==
    LET flat[n \in 0 .. Len(ss)] == IF n = 0 THEN <<>> ELSE flat[n - 1] \o ss[n]
    IN  flat[Len(ss)]

\* The rest of a selector goes on from each of the values that were reached.
Onward(reached, rest) ==
    IF reached = {} THEN {{}}
    ELSE LET r == Sole(reached)
         IN  {IF \A k \in DOMAIN r : g[k] # {} THEN {Flat([k \in DOMAIN r |-> Sole(g[k])])} ELSE {} :
                g \in OneOfEach([k \in DOMAIN r |-> rest[r[k]]])}

Outputs[sel \in Selectors] ==
    [v \in Values \cup {Absent} |->
        IF sel = <<>> THEN {{<<v>>}}
        ELSE UNION {Onward(reached, Outputs[Tail(sel)]) : reached \in Reach(Head(sel), v)}]

Iterates(sel) == \E k \in DOMAIN sel : IsIterator(sel[k])

\* Bytes are not spliced.
Unspliced(w) == IF IsBytes(w) THEN List(AnyType, <<w>>) ELSE w

\* At most one value for a reading: the list of what an iterating selector
\* reaches, lists in it spliced and nil left out, or the value itself.
Denotes(sel, v) ==
    {{CASE s = <<Absent>> -> Nil
        [] s # <<Absent>> /\ Iterates(sel) ->
              List(AnyType, CollectAll([k \in DOMAIN s |-> Unspliced(s[k])]))
        [] OTHER -> s[1] : s \in reading} : reading \in Outputs[sel][v]}

\* The value without the Go types of its lists.
Plain[v \in Values] ==
    CASE Kind(v) = "list" /\ ~IsBytes(v) ->
            <<<<"list">>, [k \in DOMAIN Data(v) |-> Plain[Data(v)[k]]]>>
      [] Kind(v) = "map" ->
            MapOf([k \in Places(v) |-> Plain[Data(v)[k]]])
      [] OTHER -> v
=============================================================================
