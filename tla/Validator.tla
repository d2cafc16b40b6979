----------------------------- MODULE Validator -----------------------------
(***************************************************************************)
(* ValidateInvocation (validator/validator.go): whether a chain of proofs  *)
(* authorises an invocation.  The invocation's own signature and time      *)
(* bounds come first, then all proofs are fetched, then each is verified   *)
(* and linked to the one before, which narrows the capability the          *)
(* invocation is held against in the end.                                  *)
(*                                                                         *)
(* Tokens, DID documents and policies are reduced to what is decided on: a *)
(* signature is the key that made it, a policy is the set of the arguments *)
(* it matches, a command is its segments.                                  *)
(***************************************************************************)
EXTENDS Integers, Sequences, FiniteSets

CONSTANTS
    DID,
    Undef,        \* no DID: the subject of a powerline delegation
    Segment,      \* of commands
    Arg,          \* well-formed arguments
    Key,
    NonStandard,  \* the key of a signature with a non-standard algorithm
    Trusted,      \* issuers whose non-standard signatures the configured
                  \* verifier accepts
    None,         \* no time bound, no relationship, no proof
    Now,          \* the validation time
    Delegations,  \* the delegations a proof may be
    Invocations,  \* the invocations to validate
    Documents,    \* the documents the resolver may hold, by DID
    MaxProofs     \* bound on the length of a proof chain

Command == Seq(Segment)
Time == Nat

Method == [key : Key, expires : Time \cup {None}, revoked : Time \cup {None},
           state : {"usable", "unsupported", "unusable"}]

Document == [methods : SUBSET Method,
             invocation : SUBSET Method \cup {None},
             delegation : SUBSET Method \cup {None}]

Delegation == [iss : DID, aud : DID, sub : DID \cup {Undef}, cmd : Command,
               pol : SUBSET Arg, exp : Time \cup {None}, nbf : Time \cup {None},
               key : Key \cup {NonStandard}]

Invocation == [iss : DID, sub : DID, cmd : Command, args : Arg \cup {None},
               exp : Time \cup {None}, key : Key \cup {NonStandard}]

ASSUME UndefAssumption == Undef \notin DID
ASSUME NoneAssumption ==
    None \notin Time /\ None \notin Arg /\ None \notin Delegations
ASSUME TokenAssumption ==
    Now \in Time /\ Delegations \subseteq Delegation /\ Invocations \subseteq Invocation
ASSUME DocumentAssumption == Documents \subseteq [DID -> Document \cup {None}]
ASSUME MaxProofsAssumption == MaxProofs \in Nat

VARIABLES
    inv,        \* the invocation
    prf,        \* its proofs, None for one the proof resolver does not find
    docs,       \* the DID documents
    cancelled,  \* the context is done
    pc,
    at,         \* the token being verified: 0 the invocation, k the k-th proof
    todo,       \* the verification methods the search has yet to try
    authority,  \* currentAuthority
    cap         \* currentCapability

input == <<inv, prf, docs>>
vars == <<input, cancelled, pc, at, todo, authority, cap>>

Token(k) == IF k = 0 THEN inv ELSE prf[k]
-----------------------------------------------------------------------------
\* Command.Proves: the same command or a parent of it.
Proves(c, d) == Len(c) <= Len(d) /\ \A k \in 1 .. Len(c) : c[k] = d[k]

\* NewCapability: the top command and no policy.
Unrestricted == [cmd |-> <<>>, pol |-> Arg]

Conflict(c, d) == ~Proves(c, d) /\ ~Proves(d, c)

\* A bug: the later command always replaces the earlier.
Replaced(c, d) == [cmd |-> d.cmd, pol |-> c.pol \cap d.pol]

\* Capability.Attenuate, unless the commands conflict: the narrower command
\* and both policies.
Attenuated(c, d) ==
    [cmd |-> IF Proves(c.cmd, d.cmd) THEN d.cmd ELSE c.cmd,
     pol |-> c.pol \cap d.pol]

\* VerificationRelationship.All: a relationship the document does not declare
\* endorses all of its methods; one it declares, those it lists and has.
Endorsed(doc, declared) ==
    IF declared = None THEN doc.methods ELSE doc.methods \cap declared

\* The methods to try for token k, by the relationship its kind calls for.
Methods(k) ==
    LET doc == docs[Token(k).iss]
    IN  Endorsed(doc, IF k = 0 THEN doc.invocation ELSE doc.delegation)

Past(time) == time # None /\ time <= Now

\* Whether a method, once a verifier can be made of it, verifies token k.
Verifies(m, k) ==
    /\ ~Past(m.expires) /\ ~Past(m.revoked)
    /\ m.state = "usable"
    /\ m.key = Token(k).key

\* ValidateNotExpired; ValidateNotTooEarly.
Expired(t) == t.exp # None /\ t.exp <= Now
TooEarly(t) == t.nbf # None /\ t.nbf # 0 /\ Now <= t.nbf
-----------------------------------------------------------------------------
Init ==
    /\ inv \in Invocations
    /\ prf \in UNION {[1 .. n -> Delegations \cup {None}] : n \in 0 .. MaxProofs}
    /\ docs \in Documents
    /\ cancelled = FALSE
    /\ pc = "resolve"
    /\ at = 0
    /\ todo = {}
    /\ authority = inv.sub
    /\ cap = Unrestricted

\* Validation ends with a verdict; "error" is one about the means, not the token.
Verdict(v) ==
    /\ pc' = v
    /\ UNCHANGED <<input, cancelled, at, todo, authority, cap>>

Goto(label) ==
    /\ pc' = label
    /\ UNCHANGED <<input, cancelled, at, todo, authority, cap>>

Cancel ==
    /\ ~cancelled
    /\ cancelled' = TRUE
    /\ UNCHANGED <<input, pc, at, todo, authority, cap>>

\* A non-standard signature goes to the configured verifier alone.
VerifyNonStandard ==
    /\ pc = "resolve"
    /\ Token(at).key = NonStandard
    /\ IF Token(at).iss \in Trusted THEN Goto("bounds") ELSE Verdict("reject")

\* The issuer's document, unless the resolver fails.
Resolve ==
    /\ pc = "resolve"
    /\ Token(at).key # NonStandard
    /\ \/ Verdict("error")
       \/ /\ docs[Token(at).iss] # None
          /\ todo' = Methods(at)
          /\ pc' = "search"
          /\ UNCHANGED <<input, cancelled, at, authority, cap>>

\* A bug: a method no verifier can be made of ends the search.
VetoedTry(m) ==
    /\ pc = "search"
    /\ IF ~Past(m.expires) /\ ~Past(m.revoked) /\ m.state = "unusable"
       THEN Verdict("reject")
       ELSE /\ IF Verifies(m, at)
               THEN pc' = "bounds" /\ todo' = {}
               ELSE todo' = todo \ {m} /\ UNCHANGED pc
            /\ UNCHANGED <<input, cancelled, at, authority, cap>>

\* A factory is asked for a verifier of method m.
Made(m) == ~Past(m.expires) /\ ~Past(m.revoked) /\ m.state # "unsupported"

(***************************************************************************)
(* One round of the search, over a Go map and so in any order: a method    *)
(* that is expired, revoked, of an unsupported type, unusable or another   *)
(* key's is passed over.  The search only ends with an error when making a *)
(* verifier is cut off, by the context or a deadline of the factory's own, *)
(* and when it fails while the context is done.                            *)
(***************************************************************************)
Try(m) ==
    /\ pc = "search"
    /\ \/ /\ Made(m)
          /\ Verdict("error")
       \/ /\ ~(Made(m) /\ m.state = "unusable" /\ cancelled)
          /\ IF Verifies(m, at)
             THEN pc' = "bounds" /\ todo' = {}
             ELSE todo' = todo \ {m} /\ UNCHANGED pc
          /\ UNCHANGED <<input, cancelled, at, authority, cap>>

NoMethodVerifies ==
    /\ pc = "search"
    /\ todo = {}
    /\ Verdict("reject")

\* The rest of ValidateToken; only delegations have a not-before time.
CheckBounds ==
    /\ pc = "bounds"
    /\ IF Expired(Token(at)) \/ (at > 0 /\ TooEarly(Token(at)))
       THEN Verdict("reject")
       ELSE Goto(IF at = 0 THEN "gather" ELSE "link")

\* capabilityFromProofChain fetches every proof before it looks at any.
GatherProofs ==
    /\ pc = "gather"
    /\ IF \E k \in DOMAIN prf : prf[k] = None
       THEN Verdict("reject")
       ELSE /\ at' = 1
            /\ pc' = IF prf = <<>> THEN "conclude" ELSE "resolve"
            /\ UNCHANGED <<input, cancelled, todo, authority, cap>>

(***************************************************************************)
(* The proof just verified is linked to the chain: the first may not be a  *)
(* powerline delegation, none may be about another subject, each is issued *)
(* by the audience of the one before (the first by the subject), and its   *)
(* command and policy attenuate the capability.                            *)
(***************************************************************************)
Link ==
    /\ pc = "link"
    /\ IF \/ at = 1 /\ prf[at].sub = Undef
          \/ prf[at].sub \notin {Undef, inv.sub}
          \/ prf[at].iss # authority
          \/ Conflict(cap.cmd, prf[at].cmd)
       THEN Verdict("reject")
       ELSE /\ authority' = prf[at].aud
            /\ cap' = Attenuated(cap, prf[at])
            /\ at' = at + 1
            /\ pc' = IF at = Len(prf) THEN "conclude" ELSE "resolve"
            /\ UNCHANGED <<input, cancelled, todo>>

\* The chain must end at the issuer, the arguments decode, and the capability
\* allow the invocation.
Conclude ==
    /\ pc = "conclude"
    /\ Verdict(IF /\ authority = inv.iss
                  /\ inv.args # None
                  /\ Proves(cap.cmd, inv.cmd)
                  /\ inv.args \in cap.pol
               THEN "accept" ELSE "reject")

Verdicts == {"accept", "reject", "error"}

Terminated == pc \in Verdicts /\ UNCHANGED vars

Next ==
    \/ Cancel
    \/ VerifyNonStandard \/ Resolve
    \/ \E m \in todo : Try(m)
    \/ NoMethodVerifies
    \/ CheckBounds \/ GatherProofs \/ Link \/ Conclude
    \/ Terminated

Spec == Init /\ [][Next]_vars
-----------------------------------------------------------------------------
PCs == {"resolve", "search", "bounds", "gather", "link", "conclude"} \cup Verdicts

TypeOK ==
    /\ inv \in Invocations
    /\ prf \in Seq(Delegations \cup {None})
    /\ docs \in Documents
    /\ cancelled \in BOOLEAN
    /\ pc \in PCs
    /\ at \in 0 .. Len(prf) + 1
    /\ at > 0 => \A k \in DOMAIN prf : prf[k] # None
    /\ pc \in {"resolve", "search", "bounds", "link"} => at <= Len(prf)
    /\ todo \in SUBSET Method
    /\ authority \in DID
    /\ cap \in [cmd : Command, pol : SUBSET Arg]
-----------------------------------------------------------------------------
(***************************************************************************)
(* What the invocation must be to be valid, without the order in which     *)
(* anything is looked at.                                                  *)
(***************************************************************************)
Signed(k) ==
    \/ Token(k).key = NonStandard /\ Token(k).iss \in Trusted
    \/ /\ Token(k).key # NonStandard
       /\ docs[Token(k).iss] # None
       /\ \E m \in Methods(k) : Verifies(m, k)

InTime(k) == ~Expired(Token(k)) /\ (k > 0 => ~TooEarly(Token(k)))

\* Whom proof k must be issued by; the invocation is issued by the last.
Holder(k) == IF k = 1 THEN inv.sub ELSE prf[k - 1].aud

\* Proof k grants, by itself, the invocation its issuer's authority.
Grants(k) ==
    /\ prf[k].sub = inv.sub \/ (prf[k].sub = Undef /\ k > 1)
    /\ prf[k].iss = Holder(k)
    /\ Proves(prf[k].cmd, inv.cmd)
    /\ inv.args \in prf[k].pol

Authorized ==
    /\ \A k \in DOMAIN prf : prf[k] # None
    /\ \A k \in 0 .. Len(prf) : Signed(k) /\ InTime(k)
    /\ \A k \in 1 .. Len(prf) : Grants(k)
    /\ inv.iss = Holder(Len(prf) + 1)
    /\ inv.args # None

(***************************************************************************)
(* ValidateInvocation accepts nothing but what every single proof of the   *)
(* chain grants: no proof widens what another has narrowed, whichever      *)
(* comes first, and no signature is taken from a method that is not        *)
(* endorsed or no longer valid.                                            *)
(***************************************************************************)
AcceptsOnlyAuthorized == pc = "accept" => Authorized

(***************************************************************************)
(* And it rejects nothing of that, whatever order the methods of a         *)
(* document are tried in and whatever unusable ones are among them: "one   *)
(* method the verifier cannot use must never veto another that it can"     *)
(* (validator.go:147), and no two proofs that each grant the invocation    *)
(* are found to conflict.                                                  *)
(***************************************************************************)
RejectsOnlyUnauthorized == pc = "reject" => ~Authorized

(***************************************************************************)
(* ucan.go:161 has a delegation's not-before time as the one at which it   *)
(* "becomes valid".  The code rejects a delegation at that very second.    *)
(***************************************************************************)
TooEarlyAsDocumented(t) == t.nbf # None /\ Now < t.nbf

ValidFromNotBefore ==
    pc = "reject" =>
        ~ /\ \A k \in DOMAIN prf : prf[k] # None /\ ~TooEarlyAsDocumented(prf[k])
          /\ \A k \in 0 .. Len(prf) : Signed(k) /\ ~Expired(Token(k))
          /\ \A k \in 1 .. Len(prf) : Grants(k)
          /\ inv.iss = Holder(Len(prf) + 1)
          /\ inv.args # None
=============================================================================
