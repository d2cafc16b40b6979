------------------------------ MODULE MCPolicy ------------------------------
(***************************************************************************)
(* Inputs of Policy for TLC: comparisons over every kind of segment,       *)
(* patterns, quantifiers, and connectives two deep, against arguments that *)
(* hold numbers, strings, bytes, typed and untyped lists, maps and nulls;  *)
(* selectors that iterate over a map twice in one statement.               *)
(***************************************************************************)
EXTENDS Policy

Self == <<"identity">>
Each == <<"iterator", FALSE>>
Fld(k) == <<"field", FALSE, k>>
Idx(n) == <<"index", FALSE, n>>
Cut(r) == <<"slice", FALSE, r>>
Opt(seg) == [seg EXCEPT ![2] = TRUE]

A == <<Self, Fld("a")>>

MCSelectors ==
    {<<Self>>, A, <<Self, Opt(Fld("a"))>>, <<Self, Fld("b")>>, <<Self, Opt(Fld("b"))>>}
    \cup {Append(A, seg) :
            seg \in {Each, Opt(Each), Idx(0), Opt(Idx(1)), Idx(-1), Fld("b"),
                     Cut(<<1>>), Cut(<<0, 1>>), Opt(Cut(<<0, 1>>)), Cut(<<1, 1>>)}}
    \cup {A \o <<Each, Fld("b")>>, A \o <<Opt(Each), Opt(Fld("b"))>>, A \o <<Each, Each>>,
          A \o <<Each, Idx(0)>>}

Literals ==
    {Nil, Num(1), Str(<<"x">>), Octets(<<1, 2>>), Decoded(<<>>), Decoded(<<Num(1)>>),
     Decoded(<<Num(1), Num(2)>>), Decoded(<<Num(2), Str(<<"x">>)>>),
     MapOf([k \in {"b"} |-> Num(1)])}

Comparisons ==
    {<<op, sel, v>> : op \in {"==", "!="}, sel \in MCSelectors, v \in Literals}
    \cup {<<op, sel, v>> : op \in Ordering, sel \in MCSelectors, v \in {Nil, Num(1), Str(<<"x">>)}}

IsOne(sel) == <<"==", sel, Num(1)>>
LikeX(sel) == <<"like", sel, {<<"x">>, <<"x", "x">>}>>
Likes == {LikeX(sel) : sel \in MCSelectors}

Bodies ==
    {IsOne(<<Self>>), IsOne(<<Self, Fld("b")>>), LikeX(<<Self>>), <<"!=", <<Self>>, Nil>>,
     <<"==", <<Self, Cut(<<1>>)>>, Decoded(<<Num(2)>>)>>, <<"not", <<>>, IsOne(<<Self>>)>>,
     <<"all", <<Self>>, <<"<=", <<Self>>, Num(2)>>>>}

Quantified ==
    {<<op, sel, body>> : op \in Quantifier, sel \in MCSelectors, body \in Bodies}

Connectable ==
    Bodies \cup {IsOne(A), <<">", A, Num(1)>>, <<"==", A, Nil>>,
                 <<"==", Append(A, Each), Decoded(<<Num(1), Num(2)>>)>>,
                 <<"==", Append(A, Each), Decoded(<<Num(2), Num(1)>>)>>,
                 <<"any", A, IsOne(<<Self>>)>>, <<"and", <<>>, <<IsOne(A)>>>>,
                 <<"not", <<>>, <<"all", A, IsOne(<<Self>>)>>>>}

Connected ==
    {<<"not", <<>>, s>> : s \in Connectable}
    \cup {<<op, <<>>, ss>> : op \in {"and", "or"},
            ss \in {<<>>} \cup {<<s>> : s \in Connectable}
                   \cup {<<s, t>> : s \in Connectable, t \in Connectable}}
    \cup {<<"not", <<>>, <<op, <<>>, <<s, t>>>>>> : op \in {"and", "or"},
            s \in Connectable, t \in {IsOne(A), <<"not", <<>>, LikeX(A)>>}}

MCPolicies ==
    {<<>>} \cup {<<s>> : s \in Comparisons \cup Likes \cup Quantified \cup Connected}
    \cup {<<s, t>> : s \in Connectable, t \in Connectable}

QuantifiedPolicies == {<<s>> : s \in Quantified}

Pairs(v, w) == {MapOf([k \in {"a"} |-> v]), MapOf([k \in {"a", "b"} |-> IF k = "a" THEN v ELSE w])}

MCArguments ==
    {MapOf([k \in {} |-> Nil])}
    \cup UNION {Pairs(v, Num(1)) :
        v \in {Nil, Num(1), Num(2), Str(<<>>), Str(<<"x">>), Str(<<"x", "x">>),
               Octets(<<>>), Octets(<<1, 2>>), Decoded(<<Octets(<<1>>), Octets(<<2>>)>>),
               Decoded(<<>>), Decoded(<<Num(1)>>), Decoded(<<Num(1), Num(2)>>),
               Decoded(<<Num(2), Str(<<"x">>)>>), Decoded(<<Num(1), Nil>>),
               Decoded(<<Decoded(<<Num(1)>>), Decoded(<<Num(2)>>)>>),
               Decoded(<<Decoded(<<Nil>>), Decoded(<<Num(1)>>)>>),
               Decoded(<<MapOf([k \in {"b"} |-> Num(1)]), MapOf([k \in {"b"} |-> Num(2)])>>),
               MapOf([k \in {"b"} |-> Num(1)]),
               MapOf([k \in {"a", "b"} |-> IF k = "a" THEN Num(1) ELSE Num(2)])}}
=============================================================================
