----------------------------- MODULE Resolution -----------------------------
(***************************************************************************)
(* What a caller may expect of a DID resolver (did.Resolver): a call for a *)
(* DID fails or returns a document of that DID that was the current one at *)
(* some time during the call.  Documents change under way.                 *)
(***************************************************************************)
EXTENDS Naturals

CONSTANTS
    Caller,
    DID,
    None,
    Failed,     \* the call returned an error
    MaxVersion  \* bound on the versions of a document

ASSUME CallerAssumption == Caller # {}
VARIABLES
    current,  \* the version of each DID's document at the directory
    asked,    \* what a caller asks for: the DID, and the version it was then
    result    \* None while a call is under way

Version == 0 .. MaxVersion
Request == [did : DID, since : Version]
Outcome == (DID \X Version) \cup {Failed, None}

ASSUME VersionAssumption == MaxVersion \in Nat
ASSUME OutcomeAssumption ==
    /\ None # Failed
    /\ None \notin DID \X Version /\ Failed \notin DID \X Version
    /\ None \notin Version /\ None \notin Request

Init ==
    /\ current = [d \in DID |-> 0]
    /\ asked = [c \in Caller |-> None]
    /\ result = [c \in Caller |-> Failed]

\* The controller of a DID updates its document.
Change(d) ==
    /\ current[d] < MaxVersion
    /\ current' = [current EXCEPT ![d] = @ + 1]
    /\ UNCHANGED <<asked, result>>

\* A caller whose last call has returned makes another.
Ask(c, d) ==
    /\ result[c] # None
    /\ asked' = [asked EXCEPT ![c] = [did |-> d, since |-> current[d]]]
    /\ result' = [result EXCEPT ![c] = None]
    /\ UNCHANGED current

\* A version the document of c's DID had during c's call.
Fresh(c, version) ==
    version \in asked[c].since .. current[asked[c].did]

Return(c, outcome) ==
    /\ result[c] = None
    /\ outcome # Failed => Fresh(c, outcome[2]) /\ outcome[1] = asked[c].did
    /\ result' = [result EXCEPT ![c] = outcome]
    /\ UNCHANGED <<current, asked>>

Next ==
    \/ \E d \in DID : Change(d)
    \/ \E c \in Caller, d \in DID : Ask(c, d)
    \/ \E c \in Caller, outcome \in (DID \X Version) \cup {Failed} : Return(c, outcome)

Spec == Init /\ [][Next]_<<current, asked, result>>
=============================================================================
