---------------------------- MODULE MCValidator ----------------------------
(***************************************************************************)
(* Inputs of Validator for TLC: a subject, two delegates, the commands /,  *)
(* /x, /x/y and /z, and every chain of at most MaxProofs delegations, each *)
(* sound or with one thing wrong.                                          *)
(***************************************************************************)
EXTENDS Validator

CONSTANTS subject, alice, bob, rotated, MCCommands

MCPaths == {<<>>, <<"x">>, <<"x", "y">>, <<"z">>}

Chained ==
    {[iss |-> i, aud |-> a, sub |-> s, cmd |-> c, pol |-> p,
      exp |-> None, nbf |-> None, key |-> i] :
        i \in {subject, alice}, a \in {alice, bob}, s \in {subject, Undef},
        c \in MCCommands, p \in {{"1"}, {"1", "2"}}}

Root == [iss |-> subject, aud |-> alice, sub |-> subject, cmd |-> <<"x">>,
         pol |-> {"1", "2"}, exp |-> None, nbf |-> None, key |-> subject]

\* Bounds around the validation time, foreign subjects, keys and algorithms.
Odd ==
    {[Root EXCEPT !.exp = t] : t \in {Now - 1, Now, Now + 1}}
    \cup {[Root EXCEPT !.nbf = t] : t \in {0, Now - 1, Now, Now + 1}}
    \cup {[Root EXCEPT !.key = k] : k \in {bob, rotated, NonStandard}}
    \cup {[Root EXCEPT !.iss = alice, !.aud = bob, !.sub = bob, !.key = k] :
            k \in {alice, NonStandard}}

MCDelegations == Chained \cup Odd

Invoke == [iss |-> alice, sub |-> subject, cmd |-> <<"x", "y">>, args |-> "1",
           exp |-> None, key |-> alice]

MCInvocations ==
    {[Invoke EXCEPT !.iss = i, !.key = i, !.cmd = c] :
        i \in {alice, bob}, c \in {<<"x">>, <<"x", "y">>}}
    \cup {[Invoke EXCEPT !.args = a] : a \in {"2", None}}
    \cup {[Invoke EXCEPT !.exp = Now], [Invoke EXCEPT !.key = bob],
          [Invoke EXCEPT !.iss = subject, !.key = subject],
          [Invoke EXCEPT !.iss = bob, !.key = NonStandard]}

Usable(k) == [key |-> k, expires |-> None, revoked |-> None, state |-> "usable"]
Unusable == [key |-> rotated, expires |-> None, revoked |-> None, state |-> "unusable"]
Expiring == [key |-> rotated, expires |-> Now, revoked |-> Now + 1, state |-> "usable"]
Revoked == [key |-> bob, expires |-> None, revoked |-> Now, state |-> "unsupported"]

Plain(k) == [methods |-> {Usable(k)}, invocation |-> None, delegation |-> None]

\* The subject's document has a rotated key and others beside the right one.
Crowded ==
    [methods |-> {Usable(subject), Unusable, Expiring, Revoked},
     invocation |-> {}, delegation |-> None]
Restricted ==
    [methods |-> {Usable(subject), Usable(rotated), Unusable},
     invocation |-> {Usable(subject)}, delegation |-> {Usable(rotated), Usable(bob)}]

MCDocuments ==
    {[d \in DID |-> CASE d = subject -> s [] d = bob -> b [] OTHER -> Plain(d)] :
        <<s, b>> \in {<<Crowded, Plain(bob)>>, <<Restricted, None>>}}
=============================================================================
