------------------------------- MODULE Policy -------------------------------
(***************************************************************************)
(* Policies (ucan/delegation/policy): Match evaluates the statements of a  *)
(* decoded policy one after the other against the arguments of an          *)
(* invocation.  The outcome of a statement is "match", "no" (an error) or  *)
(* "panic".                                                                *)
(*                                                                         *)
(* A statement is <<operator, selector, argument>>; and, or and not have   *)
(* the empty selector.  The pattern of like is the set of the strings it   *)
(* matches.                                                                *)
(***************************************************************************)
EXTENDS Selector

CONSTANTS
    Policies,   \* sequences of statements
    Arguments,  \* values
    Nesting     \* how deep statements are nested

VARIABLES
    policy,     \* Match's policy
    args,       \* Match's value
    i,          \* the statement the loop has come to
    verdict     \* "pending", and then the outcome

vars == <<policy, args, i, verdict>>

Verdicts == {"match", "no", "panic"}

Op(s) == s[1]
Sel(s) == s[2]
Arg(s) == s[3]

Ordering == {"<", "<=", ">", ">="}
Comparison == Ordering \cup {"==", "!="}
Connective == {"and", "or", "not"}
Quantifier == {"all", "any"}

\* The statements over those in X, and those of bounded depth; what they
\* compare with was decoded.
StatementsOver(X) ==
    (Comparison \X Selectors \X {v \in Values : AsDecoded[v]})
    \cup ({"like"} \X Selectors \X SUBSET Seq(STRING))
    \cup ({"not"} \X {<<>>} \X X)
    \cup ({"and", "or"} \X {<<>>} \X Seq(X))
    \cup (Quantifier \X Selectors \X X)

StatementsTo[n \in Nat] == IF n = 0 THEN {} ELSE StatementsOver(StatementsTo[n - 1])
Statements == StatementsTo[Nesting]

ASSUME PolicyAssumption ==
    /\ Nesting \in Nat
    /\ Policies \subseteq Seq(Statements)
    /\ Arguments \subseteq {v \in Values : AsDecoded[v]}

Children(s) == IF Op(s) = "not" THEN <<Arg(s)>> ELSE Arg(s)

\* A bug: every turn of a loop overwrites the outcome of the one before.
LastOf(outcomes, stop, end) ==
    IF outcomes # <<>> /\ outcomes[Len(outcomes)] \in stop THEN outcomes[Len(outcomes)] ELSE end

\* The first outcome that stops a loop, or what the loop ends with.
FirstOf(outcomes, stop, end) ==
    LET stops == {k \in DOMAIN outcomes : outcomes[k] \in stop}
    IN  IF stops = {} THEN end
        ELSE outcomes[CHOOSE k \in stops : \A l \in stops : k <= l]

-----------------------------------------------------------------------------
(***************************************************************************)
(* The statements inside a connective are pointers, and a pointer is no    *)
(* Statement: toStatement builds it anew from its accessors.  Argument has *)
(* nothing for a quantifier, which is an error, and reads through the nil  *)
(* that the decoder left for a null to compare with.                       *)
(***************************************************************************)
Argument(s) ==
    CASE Op(s) \in Quantifier -> "no"
      [] Op(s) \in Comparison /\ Arg(s) = Nil -> "panic"
      [] OTHER -> "match"

Rebuild[s \in Statements] ==
    IF Op(s) \in Connective
    THEN FirstOf([k \in DOMAIN Children(s) |-> Rebuild[Children(s)[k]]],
                 {"no", "panic"}, "match")
    ELSE Argument(s)

\* A bug: equal numbers are not in order.
StrictlyOrdered(a, b, op) ==
    /\ Kind(a) = "int" /\ Kind(b) = "int"
    /\ IF op \in {"<", "<="} THEN Data(a) < Data(b) ELSE Data(a) > Data(b)

IsOrdered(a, b, op) ==
    /\ Kind(a) = "int" /\ Kind(b) = "int"
    /\ CASE op = "<"  -> Data(a) < Data(b)
         [] op = "<=" -> Data(a) <= Data(b)
         [] op = ">"  -> Data(a) > Data(b)
         [] op = ">=" -> Data(a) >= Data(b)

Verdict(b) == IF b THEN "match" ELSE "no"

\* The outcome of a statement that compares, or matches a pattern, given what
\* its selector selects.
Compare(s, v) ==
    CASE Op(s) = "==" -> Verdict(v = Arg(s))
      [] Op(s) = "!=" -> Verdict(v # Arg(s))
      [] Op(s) \in Ordering -> Verdict(IsOrdered(v, Arg(s), Op(s)))
      [] Op(s) = "like" -> Verdict(Kind(v) = "string" /\ Data(v) \in Arg(s))

\* The outcome of a connective, given those of its statements.
Connect(op, outcomes) ==
    CASE op = "not" -> IF outcomes[1] = "panic" THEN "panic" ELSE Verdict(outcomes[1] = "no")
      [] op = "and" -> FirstOf(outcomes, {"no", "panic"}, "match")
      [] op = "or" ->
            IF outcomes = <<>> THEN "match" ELSE FirstOf(outcomes, {"match", "panic"}, "no")

\* The outcome of a quantifier, given those of its statement on every item.
Quantifies(op, outcomes) ==
    CASE op = "all" -> FirstOf(outcomes, {"no", "panic"}, "match")
      [] op = "any" -> FirstOf(outcomes, {"match", "panic"}, "no")

\* The outcomes of a quantifier on a value, given those of its statement.
Ranges(s, w, match) ==
    IF ~IsCollection(w) THEN {"no"}
    ELSE UNION {{Quantifies(Op(s), outcomes) :
                    outcomes \in OneOfEach([k \in DOMAIN items |-> match[Arg(s)][items[k]]])} :
                   items \in Enumerated(w)}

\* The outcomes of a statement on what its selector resolves to.
Judged(s, selected, match) ==
    IF Status(selected) # "value" THEN {IF Status(selected) = "panic" THEN "panic" ELSE "no"}
    ELSE IF Op(s) \in Quantifier THEN Ranges(s, Result(selected), match)
    ELSE {Compare(s, Result(selected))}

\* The outcomes of a statement; match has those of its parts.
Outcome(s, v, match) ==
    LET pointer(c) == IF Rebuild[c] # "match" THEN {Rebuild[c]} ELSE match[c][v]
        children == [k \in DOMAIN Children(s) |-> pointer(Children(s)[k])]
    IN  IF Op(s) \in Connective
        THEN {Connect(Op(s), outcomes) : outcomes \in OneOfEach(children)}
        ELSE UNION {Judged(s, selected, match) : selected \in Resolve[Sel(s)][v]}

MatchStatement[s \in Statements] == [v \in Values |-> Outcome(s, v, MatchStatement)]

-----------------------------------------------------------------------------
Init ==
    /\ args \in Arguments
    /\ policy \in Policies
    /\ i = 1
    /\ verdict = "pending"

\* One turn of Match's loop.
MatchNext ==
    /\ verdict = "pending"
    /\ i <= Len(policy)
    /\ \E outcome \in MatchStatement[policy[i]][args] :
          IF outcome = "match"
          THEN i' = i + 1 /\ UNCHANGED verdict
          ELSE verdict' = outcome /\ UNCHANGED i
    /\ UNCHANGED <<policy, args>>

Matched ==
    /\ verdict = "pending"
    /\ i > Len(policy)
    /\ verdict' = "match"
    /\ UNCHANGED <<policy, args, i>>

Terminated == verdict \in Verdicts /\ UNCHANGED vars

Next == MatchNext \/ Matched \/ Terminated

Spec == Init /\ [][Next]_vars

-----------------------------------------------------------------------------
(***************************************************************************)
(* What a statement means: a proposition about the value its selector      *)
(* denotes, false when it denotes none.  It may be both true and false of  *)
(* arguments when the orders of their maps matter to it.                   *)
(***************************************************************************)
\* Whether w satisfies a statement; parts are the truth values of a
\* quantifier's statement at the places of w.
Satisfies(s, w, parts) ==
    CASE Op(s) = "==" -> Plain[w] = Plain[Arg(s)]
      [] Op(s) = "!=" -> Plain[w] # Plain[Arg(s)]
      [] Op(s) = "<"  -> Kind(w) = "int" /\ Kind(Arg(s)) = "int" /\ Data(w) < Data(Arg(s))
      [] Op(s) = ">"  -> Kind(w) = "int" /\ Kind(Arg(s)) = "int" /\ Data(w) > Data(Arg(s))
      [] Op(s) = "<=" -> Kind(w) = "int" /\ Kind(Arg(s)) = "int" /\ ~(Data(w) > Data(Arg(s)))
      [] Op(s) = ">=" -> Kind(w) = "int" /\ Kind(Arg(s)) = "int" /\ ~(Data(w) < Data(Arg(s)))
      [] Op(s) = "like" -> Kind(w) = "string" /\ Data(w) \in Arg(s)
      [] Op(s) = "all" -> IsIterable(w) /\ \A k \in Places(w) : parts[k]
      [] Op(s) = "any" -> IsIterable(w) /\ \E k \in Places(w) : parts[k]

\* The truth values of a statement for one reading of its selector.
Truths(s, denoted, holds) ==
    LET w == Sole(denoted)
        places == IF Op(s) \in Quantifier THEN Places(w) ELSE {}
    IN  IF denoted = {} THEN {FALSE}
        ELSE {Satisfies(s, w, parts) :
                parts \in OneOfEach([k \in places |-> holds[Arg(s)][Data(w)[k]]])}

Meaning(s, v, holds) ==
    LET children == OneOfEach([k \in DOMAIN Children(s) |-> holds[Children(s)[k]][v]])
    IN  CASE Op(s) = "not" -> {~b : b \in holds[Arg(s)][v]}
          [] Op(s) = "and" -> {\A k \in DOMAIN b : b[k] : b \in children}
          [] Op(s) = "or" -> {Arg(s) = <<>> \/ \E k \in DOMAIN b : b[k] : b \in children}
          [] OTHER -> UNION {Truths(s, denoted, holds) : denoted \in Denotes(Sel(s), v)}

Holds[s \in Statements] == [v \in Values |-> Meaning(s, v, Holds)]

\* Everything a statement is made of, itself included.
Parts[s \in Statements] ==
    {s} \cup CASE Op(s) \in Connective ->
                    UNION {Parts[Children(s)[k]] : k \in DOMAIN Children(s)}
               [] Op(s) \in Quantifier -> Parts[Arg(s)]
               [] OTHER -> {}

(***************************************************************************)
(* Where the code and the meaning are known to part: under a connective,   *)
(* quantifiers and nulls; segments after an iterator; a comparison of an   *)
(* empty list that was iterated or cut, which DeepEqual tells from []; and *)
(* bytes that are iterated, indexed or quantified over.                    *)
(***************************************************************************)
Rebuilds(s) ==
    \A p \in Parts[s] : Op(p) \in Connective =>
        \A k \in DOMAIN Children(p) : Rebuild[Children(p)[k]] = "match"

IteratesLast(s) ==
    \A p \in Parts[s] : \A k \in DOMAIN Sel(p) : IsIterator(Sel(p)[k]) => k = Len(Sel(p))

Whole(sel) == \A k \in DOMAIN sel : sel[k][1] \notin {"iterator", "slice"}

NoEmptyCut(s) ==
    \A p \in Parts[s] :
        Op(p) \in {"==", "!="} /\ Kind(Arg(p)) = "list" /\ Data(Arg(p)) = <<>> => Whole(Sel(p))

Faithful(s) == Rebuilds(s) /\ IteratesLast(s) /\ NoEmptyCut(s)

\* Bytes anywhere in a value, and statements that do more than look at values as
\* wholes, name their entries or cut them.
HoldsBytes[v \in Values] ==
    Kind(v) = "byte" \/ IsBytes(v) \/ \E k \in Places(v) : HoldsBytes[Data(v)[k]]

TakesApart(s) ==
    \E p \in Parts[s] :
        Op(p) \in Quantifier \/ \E k \in DOMAIN Sel(p) : Sel(p)[k][1] \in {"iterator", "index"}

LeavesBytes == HoldsBytes[args] => \A k \in DOMAIN policy : ~TakesApart(policy[k])

\* Outside the cases above, and short of a panic, a policy matches exactly the
\* arguments of which all its statements hold, for some orders of their maps;
\* in particular the order in which a quantifier meets the entries of a map and
\* the Go types of decoded and selected lists do not matter.
AcceptsAsMeant ==
    /\ verdict \in {"match", "no"}
    /\ LeavesBytes
    /\ \A k \in DOMAIN policy : Faithful(policy[k])
    => IF verdict = "match"
       THEN \A k \in DOMAIN policy : TRUE \in Holds[policy[k]][args]
       ELSE FALSE \in Holds[policy[i]][args]

\* Even under a connective, and for what comes out empty, a policy that negates
\* nothing, does not ask for null and leaves bytes whole is never wider than it
\* means: what goes wrong rejects.  So does a field after an iterator, but not
\* any segment there: .a[][0] is the first item of the list of first items.
Positive(s) ==
    \A p \in Parts[s] : Op(p) \notin {"not", "!="} /\ (Op(p) = "==" => Arg(p) # Nil)

NamesAfterIterating(s) ==
    \A p \in Parts[s] : \A k \in DOMAIN Sel(p) :
        IsIterator(Sel(p)[k]) => k = Len(Sel(p)) \/ Sel(p)[k + 1][1] = "field"

NeverWidened ==
    /\ verdict = "match"
    /\ LeavesBytes
    /\ \A k \in DOMAIN policy : Positive(policy[k]) /\ NamesAfterIterating(policy[k])
    => \A k \in DOMAIN policy : TRUE \in Holds[policy[k]][args]

\* A list with a null in it, anywhere in a value.
HoldsNull[v \in Values] ==
    \E k \in Places(v) : (Kind(v) = "list" /\ Data(v)[k] = Nil) \/ HoldsNull[Data(v)[k]]

\* Match only panics over a statement that cuts a range, one that cannot be
\* built anew, or one that iterates over lists with nulls in them.
PanicsForCause ==
    verdict = "panic" =>
        \/ ~Rebuilds(policy[i])
        \/ \E p \in Parts[policy[i]] : \E k \in DOMAIN Sel(p) :
              \/ Sel(p)[k][1] = "slice"
              \/ IsIterator(Sel(p)[k]) /\ HoldsNull[args]

\* A policy of the top level is an implicit and: wrapping its statements into
\* one changes nothing.
TopLevelIsAnd ==
    verdict = "match" => "match" \in MatchStatement[<<"and", <<>>, policy>>][args]
=============================================================================
