------------------------------- MODULE Tiered -------------------------------
(***************************************************************************)
(* resolver.Tiered over the other resolvers (did/resolver, did/key,        *)
(* did/web): one Resolve after the other, which asks tier after tier until *)
(* one has a document.  A tier is a map of documents (WellKnown), a        *)
(* resolver for each of some methods (ByMethod, did.ResolverMap), or one   *)
(* for a single method.  What a remote service answers is a choice of the  *)
(* environment, and so is whether it answers.                              *)
(***************************************************************************)
EXTENDS Naturals, Sequences

CONSTANTS
    Input,     \* the DIDs to resolve
    Tiers,     \* the configured tiers
    Permitted, \* the DIDs that the globs of the did:web resolver match
    method     \* the method of each DID

Methods == {"key", "web", "plc"}

\* A map of documents, of resolvers by method, or the resolver of one method.
Tier == ({"well-known"} \X SUBSET Input) \cup ({"by method"} \X SUBSET Methods)
            \cup ({"method"} \X Methods)

ASSUME TiersAssumption == Tiers \subseteq Seq(Tier)

VARIABLES
    input,      \* the DID of the call
    configured, \* the tiers
    errs,       \* the error of every tier asked so far
    ended       \* how the call ended: "document", "error", or "open"

tvars == <<input, configured, errs, ended>>

\* key.resolve makes the document out of the DID itself.
ResolveKey(d) == IF method[d] = "key" THEN {"document"} ELSE {"unknown"}

\* web.Resolver.Resolve
ResolveWeb(d) ==
    IF method[d] = "web" /\ d \in Permitted THEN {"document", "failed"} ELSE {"unknown"}

\* plc.Resolver, see PLCResolver
ResolvePLC(d) == IF method[d] = "plc" THEN {"document", "failed"} ELSE {"unknown"}

ResolveMethod(m, d) ==
    CASE m = "key" -> ResolveKey(d) [] m = "web" -> ResolveWeb(d) [] m = "plc" -> ResolvePLC(d)

ResolveWellKnown(docs, d) == IF d \in docs THEN {"document"} ELSE {"unknown"}

ResolveByMethod(methods, d) ==
    IF method[d] \in methods THEN ResolveMethod(method[d], d) ELSE {"unknown"}

\* What a call of a tier may return.
Resolve(tier, d) ==
    CASE tier[1] = "well-known" -> ResolveWellKnown(tier[2], d)
      [] tier[1] = "by method" -> ResolveByMethod(tier[2], d)
      [] tier[1] = "method" -> ResolveMethod(tier[2], d)

TInit ==
    /\ input \in Input
    /\ configured \in Tiers
    /\ errs = <<>>
    /\ ended = "open"

Turn == Len(errs) + 1

\* A bug: the first tier that fails, unlike one that does not know the DID,
\* ends the call.
FailAtOnce ==
    /\ ended = "open"
    /\ Turn <= Len(configured)
    /\ \E e \in Resolve(configured[Turn], input) \ {"document"} :
          /\ errs' = Append(errs, e)
          /\ ended' = IF e = "failed" THEN "error" ELSE ended
    /\ UNCHANGED <<input, configured>>

\* The tier's error is kept and the next one asked.
AskNext ==
    /\ ended = "open"
    /\ Turn <= Len(configured)
    /\ \E e \in Resolve(configured[Turn], input) \ {"document"} : errs' = Append(errs, e)
    /\ UNCHANGED <<input, configured, ended>>

Answered ==
    /\ ended = "open"
    /\ Turn <= Len(configured)
    /\ "document" \in Resolve(configured[Turn], input)
    /\ ended' = "document"
    /\ UNCHANGED <<input, configured, errs>>

NotResolvable ==
    /\ ended = "open"
    /\ Turn > Len(configured)
    /\ ended' = "error"
    /\ UNCHANGED <<input, configured, errs>>

\* The next call.
Again ==
    /\ ended # "open"
    /\ input' \in Input
    /\ errs' = <<>>
    /\ ended' = "open"
    /\ UNCHANGED configured

TNext == AskNext \/ Answered \/ NotResolvable \/ Again

TSpec == TInit /\ [][TNext]_tvars
-----------------------------------------------------------------------------
\* Whether a tier is meant for a DID at all.
Serves(tier, d) ==
    \/ tier[1] = "well-known" /\ d \in tier[2]
    \/ /\ \/ tier[1] = "by method" /\ method[d] \in tier[2]
          \/ tier[1] = "method" /\ method[d] = tier[2]
       /\ method[d] = "web" => d \in Permitted

Local(tier, d) == tier[1] = "well-known" \/ method[d] = "key"

(***************************************************************************)
(* A DID is answered for by the first tier that serves it and is not out   *)
(* of order: a later one only answers after the failure of every earlier   *)
(* one that serves it too, and a local one does not fail.  When no tier    *)
(* has answered, no tier that serves the DID has been left out, each one's *)
(* error is told, and all of them are of remote services.                  *)
(***************************************************************************)
FirstInOrder ==
    ended # "open" =>
        /\ \A i \in 1 .. Len(errs) : Serves(configured[i], input) =>
              errs[i] = "failed" /\ ~Local(configured[i], input)
        /\ ended = "document" => Serves(configured[Len(errs) + 1], input)
        /\ ended = "error" => Len(errs) = Len(configured)
=============================================================================
