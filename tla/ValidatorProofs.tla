-------------------------- MODULE ValidatorProofs --------------------------
(***************************************************************************)
(* Validator's loop and its declarative counterpart agree for every chain, *)
(* document and invocation.  The loop invariant says what the tokens and   *)
(* the links behind the loop's index have been found to be, and that the   *)
(* capability is what they have in common.                                 *)
(***************************************************************************)
EXTENDS Validator, TLAPS

Verified(k) == Signed(k) /\ InTime(k)

\* What Link finds of proof k, its command and policy apart.
Linked(k) ==
    /\ prf[k].sub = inv.sub \/ (prf[k].sub = Undef /\ k > 1)
    /\ prf[k].iss = Holder(k)

\* What each control state knows of the token at hand.
TokenInv ==
    /\ pc = "search" =>
          /\ Token(at).key # NonStandard
          /\ docs[Token(at).iss] # None
          /\ todo \subseteq Methods(at)
          /\ \A m \in Methods(at) : m \in todo \/ ~Verifies(m, at)
    /\ pc = "bounds" => Signed(at)
    /\ pc \in {"link", "gather"} => Verified(at)

\* The capability is the narrowest command so far and the common arguments.
CapInv ==
    /\ \A k \in 1 .. at - 1 : Proves(prf[k].cmd, cap.cmd)
    /\ cap.cmd = <<>> \/ \E k \in 1 .. at - 1 : cap.cmd = prf[k].cmd
    /\ cap.pol = {a \in Arg : \A k \in 1 .. at - 1 : a \in prf[k].pol}

\* What is behind the loop, and where the loop is.
ChainInv ==
    /\ pc \in {"gather"} => at = 0
    /\ pc \in {"link"} => at > 0
    /\ pc = "conclude" => at = Len(prf) + 1
    /\ at > 0 => Verified(0)
    /\ \A k \in 1 .. at - 1 : Verified(k) /\ Linked(k)
    /\ authority = IF at = 0 THEN inv.sub ELSE Holder(at)

IInv ==
    /\ TypeOK
    /\ pc \notin Verdicts => TokenInv /\ CapInv /\ ChainInv
    /\ AcceptsOnlyAuthorized
    /\ RejectsOnlyUnauthorized
-----------------------------------------------------------------------------
(***************************************************************************)
(* Proves is a partial order on commands whose smaller elements are        *)
(* comparable: two parents of one command are parent and child, or equal.  *)
(***************************************************************************)
LEMMA ProvesTransitive ==
    ASSUME NEW c \in Command, NEW d \in Command, NEW e \in Command,
           Proves(c, d), Proves(d, e)
    PROVE  Proves(c, e)
BY DEF Proves, Command

LEMMA ProvesReflexive == \A c \in Command : Proves(c, c)
BY DEF Proves, Command

LEMMA TopProves == \A c \in Command : <<>> \in Command /\ Proves(<<>>, c)
BY DEF Proves, Command

LEMMA ParentsCompare ==
    ASSUME NEW c \in Command, NEW d \in Command, NEW e \in Command,
           Proves(c, e), Proves(d, e)
    PROVE  ~Conflict(c, d)
<1>1. CASE Len(c) <= Len(d)
  BY <1>1 DEF Conflict, Proves, Command
<1>2. CASE Len(d) < Len(c)
  BY <1>2 DEF Conflict, Proves, Command
<1> QED  BY <1>1, <1>2 DEF Command

(***************************************************************************)
(* The fields of the tokens a typed state holds.                           *)
(***************************************************************************)
LEMMA TokenTypes ==
    ASSUME TypeOK
    PROVE  /\ inv \in Invocation /\ inv.sub \in DID /\ inv.cmd \in Command
           /\ inv.args \in Arg \cup {None}
           /\ prf \in Seq(Delegations \cup {None})
           /\ \A k \in 1 .. Len(prf) : prf[k] # None => prf[k] \in Delegation
<1>1. inv \in Invocation
  BY TokenAssumption DEF TypeOK
<1>2. inv.sub \in DID /\ inv.cmd \in Command /\ inv.args \in Arg \cup {None}
  BY <1>1 DEF Invocation
<1>3. prf \in Seq(Delegations \cup {None})
  BY DEF TypeOK
<1>4. \A k \in 1 .. Len(prf) : prf[k] \in Delegations \cup {None}
  BY <1>3
<1> QED  BY <1>1, <1>2, <1>3, <1>4, TokenAssumption

LEMMA DelegationTypes ==
    ASSUME NEW d \in Delegation
    PROVE  /\ d.iss \in DID /\ d.aud \in DID /\ d.sub \in DID \cup {Undef}
           /\ d.cmd \in Command /\ d.pol \in SUBSET Arg
BY DEF Delegation

LEMMA DocumentTypes ==
    ASSUME TypeOK, at \in 0 .. Len(prf), docs[Token(at).iss] # None
    PROVE  Methods(at) \in SUBSET Method
<1>1. Token(at).iss \in DID
  <2>1. CASE at = 0
    BY <2>1, TokenTypes DEF Token, Invocation
  <2>2. CASE at > 0
    <3>1. at \in 1 .. Len(prf) /\ prf[at] # None
      BY <2>2, TokenTypes DEF TypeOK
    <3> QED  BY <3>1, <2>2, TokenTypes, DelegationTypes DEF Token
  <2> QED  BY <2>1, <2>2
<1>2. docs \in [DID -> Document \cup {None}]
  BY DocumentAssumption DEF TypeOK
<1>3. docs[Token(at).iss] \in Document
  BY <1>1, <1>2
<1>4. docs[Token(at).iss].methods \in SUBSET Method
  BY <1>3 DEF Document
<1> QED  BY <1>4 DEF Methods, Endorsed
-----------------------------------------------------------------------------
(***************************************************************************)
(* The input does not change, so neither does what is said of it.          *)
(***************************************************************************)
LEMMA InputStays ==
    ASSUME UNCHANGED input
    PROVE  /\ Authorized' <=> Authorized
           /\ \A k : Signed(k)' <=> Signed(k)
           /\ \A k : Verified(k)' <=> Verified(k)
           /\ \A k : Linked(k)' <=> Linked(k)
           /\ \A k : Holder(k)' = Holder(k)
           /\ \A k : Token(k)' = Token(k)
           /\ \A k : Methods(k)' = Methods(k)
           /\ \A m, k : Verifies(m, k)' <=> Verifies(m, k)
<1>1. inv' = inv /\ prf' = prf /\ docs' = docs
  BY DEF input
<1>2. \A k : Token(k)' = Token(k)
  BY <1>1 DEF Token
<1>3. \A k : Methods(k)' = Methods(k)
  BY <1>1, <1>2 DEF Methods, Endorsed
<1>4. \A m, k : Verifies(m, k)' <=> Verifies(m, k)
  BY <1>2 DEF Verifies, Past
<1>5. \A k : Signed(k)' <=> Signed(k)
  BY <1>1, <1>2, <1>3, <1>4 DEF Signed
<1>6. \A k : InTime(k)' <=> InTime(k)
  BY <1>2 DEF InTime, Expired, TooEarly
<1>7. \A k : Holder(k)' = Holder(k)
  BY <1>1 DEF Holder
<1>8. \A k : Linked(k)' <=> Linked(k)
  BY <1>1, <1>7 DEF Linked
<1>9. \A k : Grants(k)' <=> Grants(k)
  BY <1>1, <1>7 DEF Grants
<1>10. Authorized' <=> Authorized
  BY <1>1, <1>5, <1>6, <1>7, <1>9 DEF Authorized
<1>11. \A k : Verified(k)' <=> Verified(k)
  BY <1>5, <1>6 DEF Verified
<1> QED  BY <1>2, <1>3, <1>4, <1>5, <1>7, <1>8, <1>10, <1>11

\* A verdict keeps the invariant if it is the right one.
LEMMA VerdictKeeps ==
    ASSUME IInv, NEW v \in Verdicts, Verdict(v), pc \notin Verdicts,
           v = "accept" => Authorized, v = "reject" => ~Authorized
    PROVE  IInv'
<1>1. TypeOK'
  BY DEF IInv, TypeOK, Verdict, PCs, Verdicts, input
<1>2. pc' \in Verdicts
  BY DEF Verdict
<1>3. AcceptsOnlyAuthorized' /\ RejectsOnlyUnauthorized'
  BY InputStays DEF Verdict, AcceptsOnlyAuthorized, RejectsOnlyUnauthorized, Verdicts
<1> QED  BY <1>1, <1>2, <1>3 DEF IInv

\* An authorised invocation's proofs have commands that parent its command,
\* so the capability's command does not conflict with a proof's, and proves it.
LEMMA CapabilityProves ==
    ASSUME TypeOK, CapInv, Authorized, at > 0
    PROVE  /\ Proves(cap.cmd, inv.cmd)
           /\ \A k \in 1 .. Len(prf) : ~Conflict(cap.cmd, prf[k].cmd)
           /\ inv.args \in cap.pol
<1>1. at \in 0 .. Len(prf) + 1 /\ Len(prf) \in Nat
  BY DEF TypeOK
<1>2. \A k \in 1 .. Len(prf) :
         prf[k].cmd \in Command /\ Proves(prf[k].cmd, inv.cmd) /\ inv.args \in prf[k].pol
  BY TokenTypes, DelegationTypes DEF Authorized, Grants
<1>3. Proves(cap.cmd, inv.cmd)
  BY <1>1, <1>2, TopProves, TokenTypes DEF CapInv
<1>4. cap.cmd \in Command
  BY DEF TypeOK
<1>5. \A k \in 1 .. Len(prf) : ~Conflict(cap.cmd, prf[k].cmd)
  BY <1>2, <1>3, <1>4, ParentsCompare, TokenTypes
<1>6. inv.args \in Arg
  BY TokenTypes DEF Authorized
<1>7. inv.args \in cap.pol
  BY <1>1, <1>2, <1>6 DEF CapInv
<1> QED  BY <1>3, <1>5, <1>7
-----------------------------------------------------------------------------
\* Going on keeps the invariant if the next control state may know as much.
LEMMA GotoKeeps ==
    ASSUME IInv, pc \notin Verdicts, NEW label \in {"bounds", "gather", "link"},
           Goto(label), at \in 0 .. Len(prf),
           label = "bounds" => Signed(at),
           label \in {"gather", "link"} => Verified(at),
           label = "gather" => at = 0,
           label = "link" => at > 0
    PROVE  IInv'
<1>1. /\ pc' = label /\ inv' = inv /\ prf' = prf /\ docs' = docs
      /\ cancelled' = cancelled /\ at' = at /\ todo' = todo
      /\ authority' = authority /\ cap' = cap
  BY DEF Goto, input
<1>2. TypeOK'
  BY <1>1 DEF IInv, TypeOK, PCs
<1>3. TokenInv'
  BY <1>1, InputStays DEF TokenInv, input
<1>4. CapInv'
  BY <1>1 DEF IInv, CapInv
<1>5. ChainInv'
  BY <1>1, InputStays DEF IInv, ChainInv, input
<1>6. pc' \notin Verdicts
  BY <1>1 DEF Verdicts
<1> QED
  BY <1>1, <1>2, <1>3, <1>4, <1>5, <1>6
     DEF IInv, AcceptsOnlyAuthorized, RejectsOnlyUnauthorized, Verdicts

LEMMA InitIInv == Init => IInv
<1> SUFFICES ASSUME Init PROVE IInv
  OBVIOUS
<1> USE DEF Init
<1>1. TypeOK
  <2>1. prf \in Seq(Delegations \cup {None}) /\ Len(prf) \in Nat
    <3>1. PICK n \in 0 .. MaxProofs : prf \in [1 .. n -> Delegations \cup {None}]
      OBVIOUS
    <3> QED  BY <3>1, MaxProofsAssumption
  <2>2. inv.sub \in DID
    BY TokenAssumption DEF Invocation
  <2>3. cap \in [cmd : Command, pol : SUBSET Arg]
    BY TopProves DEF Unrestricted, Command
  <2>4. at \in 0 .. Len(prf) + 1 /\ ~(at > 0) /\ at <= Len(prf)
    BY <2>1
  <2>5. pc \in PCs /\ todo \in SUBSET Method /\ cancelled \in BOOLEAN
    BY DEF PCs
  <2> QED  BY <2>1, <2>2, <2>3, <2>4, <2>5 DEF TypeOK
<1>2. TokenInv /\ ChainInv
  BY DEF TokenInv, ChainInv
<1>3. CapInv
  BY DEF CapInv, Unrestricted
<1> QED  BY <1>1, <1>2, <1>3
         DEF IInv, AcceptsOnlyAuthorized, RejectsOnlyUnauthorized, Verdicts

LEMMA CancelKeeps == IInv /\ Cancel => IInv'
<1> SUFFICES ASSUME IInv, Cancel PROVE IInv'
  OBVIOUS
<1> USE DEF Cancel
<1>1. TypeOK'
  BY DEF IInv, TypeOK, input
<1>2. ASSUME pc \notin Verdicts PROVE (TokenInv /\ CapInv /\ ChainInv)'
  <2>1. CapInv'
    BY <1>2 DEF IInv, CapInv, input
  <2>2. TokenInv'
    <3>1. docs' = docs /\ pc' = pc /\ at' = at /\ todo' = todo
      BY DEF input
    <3> QED  BY <1>2, <3>1, InputStays DEF IInv, TokenInv
  <2>3. ChainInv'
    <3>1. prf' = prf /\ inv' = inv
      BY DEF input
    <3> QED  BY <1>2, <3>1, InputStays DEF IInv, ChainInv
  <2> QED  BY <2>1, <2>2, <2>3
<1>3. (AcceptsOnlyAuthorized /\ RejectsOnlyUnauthorized)'
  BY InputStays DEF IInv, AcceptsOnlyAuthorized, RejectsOnlyUnauthorized
<1> QED  BY <1>1, <1>2, <1>3 DEF IInv

LEMMA VerifyNonStandardKeeps == IInv /\ VerifyNonStandard => IInv'
<1> SUFFICES ASSUME IInv, VerifyNonStandard PROVE IInv'
  OBVIOUS
<1> USE DEF VerifyNonStandard
<1>0. pc = "resolve" /\ pc \notin Verdicts /\ at \in 0 .. Len(prf)
  BY DEF IInv, TypeOK, Verdicts
<1>1. CASE Token(at).iss \in Trusted
  <2>1. Goto("bounds")
    BY <1>1
  <2>2. Signed(at)
    BY <1>1 DEF Signed
  <2> QED  BY <2>1, <2>2, <1>0, GotoKeeps
<1>2. CASE Token(at).iss \notin Trusted
  <2>1. ~Signed(at)
    BY <1>2 DEF Signed
  <2>2. ~Authorized
    BY <2>1, <1>0 DEF Authorized
  <2> QED  BY <2>2, <1>0, <1>2, VerdictKeeps DEF Verdicts
<1> QED  BY <1>1, <1>2

LEMMA ResolveKeeps == IInv /\ Resolve => IInv'
<1> SUFFICES ASSUME IInv, Resolve PROVE IInv'
  OBVIOUS
<1>0. /\ pc = "resolve" /\ pc \notin Verdicts /\ at \in 0 .. Len(prf)
      /\ Token(at).key # NonStandard
  BY DEF Resolve, IInv, TypeOK, Verdicts
<1>1. CASE Verdict("error")
  BY <1>0, <1>1, VerdictKeeps DEF Verdicts
<1>2. CASE /\ docs[Token(at).iss] # None
           /\ todo' = Methods(at)
           /\ pc' = "search"
           /\ UNCHANGED <<input, cancelled, at, authority, cap>>
  <2>1. /\ inv' = inv /\ prf' = prf /\ docs' = docs /\ cancelled' = cancelled
        /\ at' = at /\ authority' = authority /\ cap' = cap /\ UNCHANGED input
    BY <1>2 DEF input
  <2>2. todo' \in SUBSET Method
    BY <1>0, <1>2, DocumentTypes DEF IInv
  <2>3. TypeOK'
    BY <1>0, <1>2, <2>1, <2>2 DEF IInv, TypeOK, PCs
  <2>4. TokenInv'
    BY <1>0, <1>2, <2>1, InputStays DEF TokenInv
  <2>5. CapInv'
    BY <1>0, <2>1 DEF IInv, CapInv
  <2>6. ChainInv'
    BY <1>0, <1>2, <2>1, InputStays DEF IInv, ChainInv
  <2> QED
    BY <1>2, <2>3, <2>4, <2>5, <2>6
       DEF IInv, AcceptsOnlyAuthorized, RejectsOnlyUnauthorized
<1> QED  BY <1>1, <1>2 DEF Resolve

LEMMA TryKeeps == ASSUME IInv, NEW m \in todo, Try(m) PROVE IInv'
<1>0. pc = "search" /\ pc \notin Verdicts /\ at \in 0 .. Len(prf)
  BY DEF Try, IInv, TypeOK, Verdicts
<1>1. CASE Verdict("error")
  BY <1>0, <1>1, VerdictKeeps DEF Verdicts
<1>2. CASE ~Verdict("error")
  <2>1. /\ IF Verifies(m, at)
           THEN pc' = "bounds" /\ todo' = {}
           ELSE todo' = todo \ {m} /\ pc' = pc
        /\ inv' = inv /\ prf' = prf /\ docs' = docs /\ cancelled' = cancelled
        /\ at' = at /\ authority' = authority /\ cap' = cap /\ UNCHANGED input
    BY <1>2 DEF Try, input
  <2>2. pc' \in {"search", "bounds"}
    BY <1>0, <2>1
  <2>3. TypeOK'
    <3>1. todo' \in SUBSET Method
      BY <2>1 DEF IInv, TypeOK
    <3> QED  BY <1>0, <2>1, <2>2, <3>1 DEF IInv, TypeOK, PCs
  <2>4. CapInv'
    BY <1>0, <2>1 DEF IInv, CapInv
  <2>5. ChainInv'
    BY <1>0, <2>1, <2>2, InputStays DEF IInv, ChainInv
  <2>6. TokenInv'
    <3>1. CASE Verifies(m, at)
      <4>1. Signed(at)
        BY <1>0, <3>1 DEF IInv, TokenInv, Signed
      <4> QED  BY <2>1, <3>1, <4>1, InputStays DEF TokenInv
    <3>2. CASE ~Verifies(m, at)
      <4>1. /\ Token(at).key # NonStandard /\ docs[Token(at).iss] # None
            /\ todo \subseteq Methods(at)
            /\ \A n \in Methods(at) : n \in todo \/ ~Verifies(n, at)
        BY <1>0 DEF IInv, TokenInv
      <4>2. \A n \in Methods(at) : n \in todo' \/ ~Verifies(n, at)
        BY <2>1, <3>2, <4>1
      <4> QED  BY <1>0, <2>1, <3>2, <4>1, <4>2, InputStays DEF TokenInv
    <3> QED  BY <3>1, <3>2
  <2> QED
    BY <2>2, <2>3, <2>4, <2>5, <2>6
       DEF IInv, AcceptsOnlyAuthorized, RejectsOnlyUnauthorized
<1> QED  BY <1>1, <1>2

LEMMA NoMethodVerifiesKeeps == IInv /\ NoMethodVerifies => IInv'
<1> SUFFICES ASSUME IInv, NoMethodVerifies PROVE IInv'
  OBVIOUS
<1>0. /\ pc = "search" /\ pc \notin Verdicts /\ at \in 0 .. Len(prf)
      /\ Verdict("reject") /\ todo = {}
  BY DEF NoMethodVerifies, IInv, TypeOK, Verdicts
<1>1. ~Signed(at)
  BY <1>0 DEF IInv, TokenInv, Signed
<1>2. ~Authorized
  BY <1>0, <1>1 DEF Authorized
<1> QED  BY <1>0, <1>2, VerdictKeeps DEF Verdicts

LEMMA CheckBoundsKeeps == IInv /\ CheckBounds => IInv'
<1> SUFFICES ASSUME IInv, CheckBounds PROVE IInv'
  OBVIOUS
<1>0. pc = "bounds" /\ pc \notin Verdicts /\ at \in 0 .. Len(prf) /\ Signed(at)
  BY DEF CheckBounds, IInv, TypeOK, TokenInv, Verdicts
<1>1. CASE InTime(at)
  <2>1. Verified(at)
    BY <1>0, <1>1 DEF Verified
  <2>2. Goto(IF at = 0 THEN "gather" ELSE "link")
    BY <1>0, <1>1 DEF CheckBounds, InTime
  <2>3. CASE at = 0
    BY <1>0, <2>1, <2>2, <2>3, GotoKeeps
  <2>4. CASE at > 0
    BY <1>0, <2>1, <2>2, <2>4, GotoKeeps
  <2> QED  BY <1>0, <2>3, <2>4
<1>2. CASE ~InTime(at)
  <2>1. Verdict("reject")
    BY <1>0, <1>2 DEF CheckBounds, InTime
  <2>2. ~Authorized
    BY <1>0, <1>2 DEF Authorized
  <2> QED  BY <1>0, <2>1, <2>2, VerdictKeeps DEF Verdicts
<1> QED  BY <1>1, <1>2

LEMMA GatherProofsKeeps == IInv /\ GatherProofs => IInv'
<1> SUFFICES ASSUME IInv, GatherProofs PROVE IInv'
  OBVIOUS
<1>0. /\ pc = "gather" /\ pc \notin Verdicts /\ at = 0
      /\ TypeOK /\ TokenInv /\ CapInv /\ ChainInv /\ Verified(0)
  BY DEF GatherProofs, IInv, Verdicts, ChainInv, TokenInv
<1>1. CASE \E k \in DOMAIN prf : prf[k] = None
  <2>1. Verdict("reject") /\ ~Authorized
    BY <1>1 DEF GatherProofs, Authorized
  <2> QED  BY <1>0, <2>1, VerdictKeeps DEF Verdicts
<1>2. CASE \A k \in DOMAIN prf : prf[k] # None
  <2>1. /\ at' = 1 /\ pc' = IF prf = <<>> THEN "conclude" ELSE "resolve"
        /\ inv' = inv /\ prf' = prf /\ docs' = docs /\ cancelled' = cancelled
        /\ todo' = todo /\ authority' = authority /\ cap' = cap /\ UNCHANGED input
    BY <1>2 DEF GatherProofs, input
  <2>2. prf \in Seq(Delegations \cup {None}) /\ Len(prf) \in Nat
    BY <1>0, TokenTypes
  <2>3. prf # <<>> => 1 <= Len(prf)
    BY <2>2
  <2>4. TypeOK'
    BY <1>0, <1>2, <2>1, <2>2, <2>3 DEF TypeOK, PCs
  <2>5. TokenInv'
    BY <2>1 DEF TokenInv
  <2>6. CapInv'
    BY <1>0, <2>1 DEF CapInv
  <2>7. authority' = Holder(1)
    BY <1>0, <2>1 DEF ChainInv, Holder
  <2>8. ChainInv'
    <3>1. prf = <<>> => 1 = Len(prf) + 1
      BY <2>2
    <3>2. \A k \in 1 .. 1 - 1 : FALSE
      OBVIOUS
    <3> QED  BY <1>0, <2>1, <2>7, <3>1, <3>2, InputStays DEF ChainInv
  <2> QED
    BY <2>1, <2>4, <2>5, <2>6, <2>8
       DEF IInv, AcceptsOnlyAuthorized, RejectsOnlyUnauthorized
<1> QED  BY <1>1, <1>2

(***************************************************************************)
(* A link that fails is one no authorised invocation has: the proof does   *)
(* not grant, or it does and then its command does not conflict with the   *)
(* capability's.  One that holds adds a proof to what the capability is.   *)
(***************************************************************************)
LEMMA LinkKeeps == IInv /\ Link => IInv'
<1> SUFFICES ASSUME IInv, Link PROVE IInv'
  OBVIOUS
<1> DEFINE Broken == \/ at = 1 /\ prf[at].sub = Undef
                     \/ prf[at].sub \notin {Undef, inv.sub}
                     \/ prf[at].iss # authority
                     \/ Conflict(cap.cmd, prf[at].cmd)
<1>0. /\ pc = "link" /\ pc \notin Verdicts /\ at \in 1 .. Len(prf)
      /\ TypeOK /\ TokenInv /\ CapInv /\ ChainInv /\ Verified(at)
      /\ authority = Holder(at)
  BY DEF Link, IInv, Verdicts, ChainInv, TokenInv, TypeOK
<1>1. Len(prf) \in Nat /\ at \in Nat
  BY <1>0, TokenTypes
<1>2. /\ prf[at] # None /\ prf[at] \in Delegation
      /\ prf[at].cmd \in Command /\ prf[at].pol \in SUBSET Arg
      /\ prf[at].aud \in DID /\ prf[at].sub \in DID \cup {Undef}
  <2>1. prf[at] # None
    BY <1>0 DEF TypeOK
  <2> QED  BY <1>0, <2>1, TokenTypes DEF Delegation
<1>3. inv.sub \in DID /\ inv.sub # Undef
  BY <1>0, TokenTypes, UndefAssumption
<1>4. CASE Broken
  <2>1. Verdict("reject")
    BY <1>4 DEF Link
  <2>2. ~Authorized
    <3>1. SUFFICES ASSUME Authorized PROVE FALSE
      OBVIOUS
    <3>2. Grants(at)
      BY <1>0, <3>1 DEF Authorized
    <3>3. ~Conflict(cap.cmd, prf[at].cmd)
      BY <1>0, <3>1, CapabilityProves
    <3> QED  BY <1>0, <1>3, <1>4, <3>2, <3>3 DEF Grants
  <2> QED  BY <1>0, <2>1, <2>2, VerdictKeeps DEF Verdicts
<1>5. CASE ~Broken
  <2>1. /\ authority' = prf[at].aud /\ cap' = Attenuated(cap, prf[at])
        /\ at' = at + 1 /\ pc' = IF at = Len(prf) THEN "conclude" ELSE "resolve"
        /\ inv' = inv /\ prf' = prf /\ docs' = docs /\ cancelled' = cancelled
        /\ todo' = todo /\ UNCHANGED input
    BY <1>5 DEF Link, input
  <2>2. /\ cap.cmd \in Command /\ cap.pol \in SUBSET Arg
    BY <1>0 DEF TypeOK
  <2>3. /\ cap'.cmd = IF Proves(cap.cmd, prf[at].cmd) THEN prf[at].cmd ELSE cap.cmd
        /\ cap'.pol = cap.pol \cap prf[at].pol
        /\ cap' \in [cmd : Command, pol : SUBSET Arg]
    BY <1>2, <2>1, <2>2 DEF Attenuated
  <2>4. TypeOK'
    <3>1. at' \in 0 .. Len(prf) + 1
      BY <1>0, <1>1, <2>1
    <3>2. pc' \in PCs /\ (pc' \in {"resolve", "search", "bounds", "link"} => at' <= Len(prf))
      BY <1>0, <1>1, <2>1 DEF PCs
    <3>3. at > 0
      BY <1>0
    <3> QED  BY <1>0, <1>2, <2>1, <2>3, <3>1, <3>2, <3>3 DEF TypeOK
  <2>5. TokenInv'
    BY <2>1 DEF TokenInv
  <2>6. Linked(at)
    BY <1>0, <1>1, <1>2, <1>5 DEF Linked
  <2>7. Holder(at + 1) = prf[at].aud
    <3>1. at + 1 # 1 /\ (at + 1) - 1 = at
      BY <1>0
    <3> QED  BY <3>1 DEF Holder
  <2>8. ChainInv'
    <3>1. \A k \in 1 .. (at + 1) - 1 : Verified(k) /\ Linked(k)
      BY <1>0, <1>1, <2>6 DEF ChainInv
    <3>2. Verified(0) /\ at + 1 > 0 /\ at + 1 # 0
      BY <1>0, <1>1 DEF ChainInv
    <3>3. pc' \notin {"gather", "link"} /\ (pc' = "conclude" => at + 1 = Len(prf) + 1)
      BY <2>1
    <3> QED  BY <2>1, <2>7, <3>1, <3>2, <3>3, InputStays DEF ChainInv
  <2>9. CapInv'
    <3>1. \A k \in 1 .. (at + 1) - 1 : k = at \/ k \in 1 .. at - 1
      BY <1>0, <1>1
    <3>2. at \in 1 .. (at + 1) - 1 /\ \A k \in 1 .. at - 1 : k \in 1 .. (at + 1) - 1
      BY <1>0, <1>1
    <3>3. \A k \in 1 .. at - 1 : prf[k].cmd \in Command
      <4>1. \A k \in 1 .. at - 1 : k \in 1 .. Len(prf) /\ prf[k] # None
        BY <1>0, <1>1 DEF TypeOK
      <4> QED  BY <1>0, <4>1, TokenTypes DEF Delegation
    <3>4. \A k \in 1 .. at - 1 : Proves(prf[k].cmd, cap.cmd)
      BY <1>0 DEF CapInv
    <3>5. Proves(cap.cmd, cap'.cmd) /\ Proves(prf[at].cmd, cap'.cmd)
      <4>1. CASE Proves(cap.cmd, prf[at].cmd)
        BY <1>2, <2>3, <4>1, ProvesReflexive
      <4>2. CASE ~Proves(cap.cmd, prf[at].cmd)
        <5>1. Proves(prf[at].cmd, cap.cmd)
          BY <1>5, <4>2 DEF Conflict
        <5> QED  BY <2>2, <2>3, <4>2, <5>1, ProvesReflexive
      <4> QED  BY <4>1, <4>2
    <3>6. cap'.cmd \in Command
      BY <2>3
    <3>7. \A k \in 1 .. (at + 1) - 1 : Proves(prf[k].cmd, cap'.cmd)
      <4>1. \A k \in 1 .. at - 1 : Proves(prf[k].cmd, cap'.cmd)
        BY <2>2, <3>3, <3>4, <3>5, <3>6, ProvesTransitive
      <4> QED  BY <3>1, <3>5, <4>1
    <3>8. cap'.cmd = <<>> \/ \E k \in 1 .. (at + 1) - 1 : cap'.cmd = prf[k].cmd
      <4>1. CASE Proves(cap.cmd, prf[at].cmd)
        BY <2>3, <3>2, <4>1
      <4>2. CASE ~Proves(cap.cmd, prf[at].cmd)
        BY <1>0, <2>3, <3>2, <4>2 DEF CapInv
      <4> QED  BY <4>1, <4>2
    <3>9. cap'.pol = {a \in Arg : \A k \in 1 .. (at + 1) - 1 : a \in prf[k].pol}
      <4>1. cap.pol = {a \in Arg : \A k \in 1 .. at - 1 : a \in prf[k].pol}
        BY <1>0 DEF CapInv
      <4> QED  BY <1>2, <2>3, <3>1, <3>2, <4>1
    <3> QED  BY <2>1, <3>7, <3>8, <3>9 DEF CapInv
  <2>10. pc' \in {"conclude", "resolve"}
    BY <2>1
  <2> QED
    BY <2>4, <2>5, <2>8, <2>9, <2>10
       DEF IInv, AcceptsOnlyAuthorized, RejectsOnlyUnauthorized
<1> QED  BY <1>4, <1>5

LEMMA ConcludeKeeps == IInv /\ Conclude => IInv'
<1> SUFFICES ASSUME IInv, Conclude PROVE IInv'
  OBVIOUS
<1> DEFINE Allowed == /\ authority = inv.iss
                      /\ inv.args # None
                      /\ Proves(cap.cmd, inv.cmd)
                      /\ inv.args \in cap.pol
<1>0. /\ pc = "conclude" /\ pc \notin Verdicts /\ at = Len(prf) + 1
      /\ TypeOK /\ CapInv /\ ChainInv /\ Len(prf) \in Nat
      /\ Verdict(IF Allowed THEN "accept" ELSE "reject")
  BY TokenTypes DEF Conclude, IInv, Verdicts, ChainInv
<1>1. at > 0 /\ at - 1 = Len(prf) /\ authority = Holder(Len(prf) + 1)
  BY <1>0 DEF ChainInv
<1>2. CASE Allowed
  <2>1. \A k \in 1 .. Len(prf) : prf[k] # None /\ prf[k].cmd \in Command
    BY <1>0, <1>1, TokenTypes DEF TypeOK, Delegation
  <2>2. \A k \in 1 .. Len(prf) : Verified(k) /\ Linked(k)
    BY <1>0, <1>1 DEF ChainInv
  <2>3. \A k \in 0 .. Len(prf) : Signed(k) /\ InTime(k)
    BY <1>0, <1>1, <2>2 DEF ChainInv, Verified
  <2>4. cap.cmd \in Command /\ inv.cmd \in Command
    BY <1>0, TokenTypes DEF TypeOK
  <2>5. \A k \in 1 .. Len(prf) : Proves(prf[k].cmd, inv.cmd)
    <3>1. \A k \in 1 .. Len(prf) : Proves(prf[k].cmd, cap.cmd)
      BY <1>0, <1>1 DEF CapInv
    <3> QED  BY <1>2, <2>1, <2>4, <3>1, ProvesTransitive
  <2>6. \A k \in 1 .. Len(prf) : inv.args \in prf[k].pol
    BY <1>0, <1>1, <1>2 DEF CapInv
  <2>7. \A k \in 1 .. Len(prf) : Grants(k)
    BY <2>2, <2>5, <2>6 DEF Linked, Grants
  <2>8. DOMAIN prf = 1 .. Len(prf)
    BY <1>0, TokenTypes
  <2>9. Authorized
    BY <1>1, <1>2, <2>1, <2>3, <2>7, <2>8 DEF Authorized
  <2> QED  BY <1>0, <1>2, <2>9, VerdictKeeps DEF Verdicts
<1>3. CASE ~Allowed
  <2>1. ~Authorized
    <3>1. SUFFICES ASSUME Authorized PROVE FALSE
      OBVIOUS
    <3>2. Proves(cap.cmd, inv.cmd) /\ inv.args \in cap.pol
      BY <1>0, <1>1, <3>1, CapabilityProves
    <3>3. authority = inv.iss /\ inv.args # None
      BY <1>1, <3>1 DEF Authorized
    <3> QED  BY <1>3, <3>2, <3>3
  <2> QED  BY <1>0, <1>3, <2>1, VerdictKeeps DEF Verdicts
<1> QED  BY <1>2, <1>3
-----------------------------------------------------------------------------
\* Nothing moves, nothing said changes.
LEMMA StutterKeeps == IInv /\ UNCHANGED vars => IInv'
<1> SUFFICES ASSUME IInv, UNCHANGED vars PROVE IInv'
  OBVIOUS
<1>1. /\ inv' = inv /\ prf' = prf /\ docs' = docs /\ cancelled' = cancelled
      /\ pc' = pc /\ at' = at /\ todo' = todo /\ authority' = authority
      /\ cap' = cap /\ UNCHANGED input
  BY DEF vars, input
<1>2. TypeOK'
  BY <1>1 DEF IInv, TypeOK
<1>3. TokenInv' <=> TokenInv
  BY <1>1, InputStays DEF TokenInv
<1>4. CapInv' <=> CapInv
  BY <1>1 DEF CapInv
<1>5. ChainInv' <=> ChainInv
  BY <1>1, InputStays DEF ChainInv
<1>6. (AcceptsOnlyAuthorized /\ RejectsOnlyUnauthorized)'
  BY <1>1, InputStays DEF IInv, AcceptsOnlyAuthorized, RejectsOnlyUnauthorized
<1> QED  BY <1>1, <1>2, <1>3, <1>4, <1>5, <1>6 DEF IInv

(***************************************************************************)
(* The loop invariant holds of every chain, document and invocation, of    *)
(* every length and in every order the methods may be tried in.            *)
(***************************************************************************)
THEOREM Inductive == Spec => []IInv
<1>1. ASSUME IInv, [Next]_vars PROVE IInv'
  <2>1. CASE Cancel
    BY <1>1, <2>1, CancelKeeps
  <2>2. CASE VerifyNonStandard
    BY <1>1, <2>2, VerifyNonStandardKeeps
  <2>3. CASE Resolve
    BY <1>1, <2>3, ResolveKeeps
  <2>4. ASSUME NEW m \in todo, Try(m) PROVE IInv'
    BY <1>1, <2>4, TryKeeps
  <2>5. CASE NoMethodVerifies
    BY <1>1, <2>5, NoMethodVerifiesKeeps
  <2>6. CASE CheckBounds
    BY <1>1, <2>6, CheckBoundsKeeps
  <2>7. CASE GatherProofs
    BY <1>1, <2>7, GatherProofsKeeps
  <2>8. CASE Link
    BY <1>1, <2>8, LinkKeeps
  <2>9. CASE Conclude
    BY <1>1, <2>9, ConcludeKeeps
  <2>10. CASE UNCHANGED vars
    BY <1>1, <2>10, StutterKeeps
  <2> QED
    BY <1>1, <2>1, <2>2, <2>3, <2>4, <2>5, <2>6, <2>7, <2>8, <2>9, <2>10
       DEF Next, Terminated
<1> QED  BY <1>1, InitIInv, PTL DEF Spec

(***************************************************************************)
(* The loop never runs past the chain, never looks at a token of a proof   *)
(* that was not found, and the capability stays one.                       *)
(***************************************************************************)
THEOREM TypeCorrect == Spec => []TypeOK
<1>1. IInv => TypeOK
  BY DEF IInv
<1> QED  BY <1>1, Inductive, PTL

(***************************************************************************)
(* ValidateInvocation accepts only what is authorised: for chains of every *)
(* length, whatever the commands and policies, and whatever the resolvers  *)
(* return.                                                                 *)
(***************************************************************************)
THEOREM AcceptCorrect == Spec => []AcceptsOnlyAuthorized
<1>1. IInv => AcceptsOnlyAuthorized
  BY DEF IInv
<1> QED  BY <1>1, Inductive, PTL

(***************************************************************************)
(* ValidateInvocation rejects nothing that is authorised.                  *)
(***************************************************************************)
THEOREM RejectCorrect == Spec => []RejectsOnlyUnauthorized
<1>1. IInv => RejectsOnlyUnauthorized
  BY DEF IInv
<1> QED  BY <1>1, Inductive, PTL
=============================================================================
