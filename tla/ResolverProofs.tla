--------------------------- MODULE ResolverProofs ---------------------------
(***************************************************************************)
(* How stale a cached document may be, for every number of goroutines,     *)
(* every history of the document and every time to live but zero; and      *)
(* which tier of a Tiered resolver answers, for any tiers and DIDs.        *)
(***************************************************************************)
EXTENDS CachedResolver, Tiered, TLAPS

\* A version that was current when an open call of the wrapped resolver began,
\* or later, was not replaced before it began.
FetchInv ==
    \A c \in Caller : fetch[c] # None =>
        /\ fetch[c].start <= now /\ now <= fetch[c].start + Timeout
        /\ fetch[c].since <= current
        /\ \A v \in Version :
              fetch[c].since <= v /\ v < current => fetch[c].start <= replaced[v]

\* The item was set at most Timeout after its document was last current.
ItemInv ==
    item # None =>
        /\ item.set <= now
        /\ item.doc <= current
        /\ item.doc < current => item.set <= replaced[item.doc] + Timeout

AnswerInv ==
    \A c \in Caller : answer[c] # None =>
        /\ answer[c].at <= now
        /\ answer[c].doc <= current
        /\ answer[c].doc < current =>
              answer[c].at <= replaced[answer[c].doc] + TTL + Timeout

IInv == TypeOK /\ FetchInv /\ ItemInv /\ AnswerInv
-----------------------------------------------------------------------------
\* The records a typed state holds, and the order on their fields.
LEMMA Numbers ==
    ASSUME TypeOK
    PROVE  /\ now \in Nat /\ current \in Nat /\ TTL \in Nat /\ Timeout \in Nat
           /\ \A v \in Version : v \in Int /\ replaced[v] \in Nat
           /\ item # None => item.doc \in Version /\ item.set \in Nat
           /\ \A c \in Caller : fetch[c] # None =>
                 fetch[c].since \in Version /\ fetch[c].start \in Nat
           /\ \A c \in Caller : answer[c] # None =>
                 answer[c].doc \in Version /\ answer[c].at \in Nat
<1>1. now \in Nat /\ current \in Nat /\ TTL \in Nat /\ Timeout \in Nat
  BY TimeAssumption, VersionAssumption DEF TypeOK, Time, Version
<1>2. \A v \in Version : v \in Int /\ replaced[v] \in Nat
  BY TimeAssumption DEF TypeOK, Time, Version
<1>3. item # None => item.doc \in Version /\ item.set \in Nat
  BY TimeAssumption DEF TypeOK, Item, Time
<1>4. \A c \in Caller : fetch[c] # None =>
         fetch[c].since \in Version /\ fetch[c].start \in Nat
  BY TimeAssumption DEF TypeOK, Fetch, Time
<1>5. \A c \in Caller : answer[c] # None =>
         answer[c].doc \in Version /\ answer[c].at \in Nat
  BY TimeAssumption DEF TypeOK, Answer, Time
<1> QED  BY <1>1, <1>2, <1>3, <1>4, <1>5

LEMMA InitIInv == Init => IInv
<1> SUFFICES ASSUME Init PROVE IInv
  OBVIOUS
<1>1. TypeOK
  BY TimeAssumption, VersionAssumption DEF Init, TypeOK, Time, Version
<1> QED  BY <1>1 DEF Init, IInv, FetchInv, ItemInv, AnswerInv

LEMMA TickKeeps == IInv /\ Tick => IInv'
<1> SUFFICES ASSUME IInv, Tick PROVE IInv'
  OBVIOUS
<1> USE Numbers DEF IInv, Tick
<1>1. TypeOK'
  <2>1. now' \in Time
    BY TimeAssumption DEF TypeOK, Time
  <2> QED  BY <2>1 DEF TypeOK
<1>2. FetchInv'
  BY DEF FetchInv
<1>3. ItemInv' /\ AnswerInv'
  BY DEF ItemInv, AnswerInv
<1> QED  BY <1>1, <1>2, <1>3

\* Whatever was current until now was current when any call began.
LEMMA ChangeKeeps == IInv /\ Change => IInv'
<1> SUFFICES ASSUME IInv, Change PROVE IInv'
  OBVIOUS
<1> USE Numbers DEF IInv, Change
<1>1. current \in Version /\ now \in Time
  BY DEF TypeOK
<1>2. TypeOK'
  BY <1>1, VersionAssumption DEF TypeOK, Version
<1>3. \A v \in Version : replaced'[v] = IF v = current THEN now ELSE replaced[v]
  BY DEF TypeOK
<1>4. FetchInv'
  BY <1>1, <1>3 DEF FetchInv
<1>5. ItemInv'
  BY <1>1, <1>3 DEF ItemInv
<1>6. AnswerInv'
  BY <1>1, <1>3 DEF AnswerInv
<1> QED  BY <1>2, <1>4, <1>5, <1>6

LEMMA HitKeeps ==
    ASSUME TTL > 0, IInv, NEW c \in Caller, Hit(c)
    PROVE  IInv'
<1> USE Numbers DEF IInv, Hit
<1>1. item # None /\ item \in Item /\ now <= item.set + TTL
  BY DEF Found, TypeOK
<1>2. answer' = [answer EXCEPT ![c] = [doc |-> item.doc, set |-> item.set, at |-> now]]
  BY DEF Return
<1>3. TypeOK'
  BY <1>1, <1>2 DEF TypeOK, Item, Answer
<1>4. FetchInv' /\ ItemInv'
  BY DEF FetchInv, ItemInv
<1>5. AnswerInv'
  <2> SUFFICES ASSUME NEW d \in Caller, answer'[d] # None
               PROVE  /\ answer'[d].at <= now
                      /\ answer'[d].doc <= current
                      /\ answer'[d].doc < current =>
                           answer'[d].at <= replaced[answer'[d].doc] + TTL + Timeout
    BY DEF AnswerInv
  <2>1. CASE d = c
    <3>1. answer'[d].doc = item.doc /\ answer'[d].at = now
      BY <1>2, <2>1 DEF TypeOK
    <3> QED  BY <1>1, <3>1 DEF ItemInv
  <2>2. CASE d # c
    <3>1. answer'[d] = answer[d]
      BY <1>2, <2>2 DEF TypeOK
    <3> QED  BY <3>1 DEF AnswerInv
  <2> QED  BY <2>1, <2>2
<1> QED  BY <1>3, <1>4, <1>5

LEMMA MissKeeps ==
    ASSUME IInv, NEW c \in Caller, Miss(c)
    PROVE  IInv'
<1> USE Numbers DEF IInv, Miss
<1>1. TypeOK'
  BY DEF TypeOK, Fetch
<1>2. FetchInv'
  <2> SUFFICES ASSUME NEW d \in Caller, fetch'[d] # None
               PROVE  /\ fetch'[d].start <= now /\ now <= fetch'[d].start + Timeout
                      /\ fetch'[d].since <= current
                      /\ \A v \in Version :
                            fetch'[d].since <= v /\ v < current =>
                                fetch'[d].start <= replaced[v]
    BY DEF FetchInv
  <2>1. CASE d = c
    <3>1. fetch'[d].start = now /\ fetch'[d].since = current
      BY <2>1 DEF TypeOK
    <3> QED  BY <3>1
  <2>2. CASE d # c
    <3>1. fetch'[d] = fetch[d]
      BY <2>2 DEF TypeOK
    <3> QED  BY <3>1 DEF FetchInv
  <2> QED  BY <2>1, <2>2
<1>3. ItemInv' /\ AnswerInv'
  BY DEF ItemInv, AnswerInv
<1> QED  BY <1>1, <1>2, <1>3

LEMMA FillKeeps ==
    ASSUME IInv, NEW c \in Caller, Fill(c)
    PROVE  IInv'
<1> USE Numbers DEF IInv, Fill
<1>1. PICK doc \in fetch[c].since .. current :
         /\ item' = [doc |-> doc, set |-> now]
         /\ answer' = [answer EXCEPT ![c] = [doc |-> doc, set |-> now, at |-> now]]
  BY DEF Return
<1>2. doc \in Version /\ doc <= current
  <2>1. fetch[c].since \in Version /\ current \in Version
    BY DEF TypeOK
  <2> QED  BY <2>1, VersionAssumption DEF Version
<1>3. doc < current => now <= replaced[doc] + Timeout
  BY <1>2 DEF FetchInv
<1>4. TypeOK'
  BY <1>1, <1>2 DEF TypeOK, Item, Answer
<1>5. FetchInv'
  <2>1. \A d \in Caller : fetch'[d] # None => fetch'[d] = fetch[d]
    BY DEF TypeOK
  <2> QED  BY <2>1 DEF FetchInv
<1>6. ItemInv'
  BY <1>1, <1>2, <1>3 DEF ItemInv
<1>7. AnswerInv'
  <2> SUFFICES ASSUME NEW d \in Caller, answer'[d] # None
               PROVE  /\ answer'[d].at <= now
                      /\ answer'[d].doc <= current
                      /\ answer'[d].doc < current =>
                           answer'[d].at <= replaced[answer'[d].doc] + TTL + Timeout
    BY DEF AnswerInv
  <2>1. CASE d = c
    <3>1. answer'[d].doc = doc /\ answer'[d].at = now
      BY <1>1, <2>1 DEF TypeOK
    <3> QED  BY <1>2, <1>3, <3>1
  <2>2. CASE d # c
    <3>1. answer'[d] = answer[d]
      BY <1>1, <2>2 DEF TypeOK
    <3> QED  BY <3>1 DEF AnswerInv
  <2> QED  BY <2>1, <2>2
<1> QED  BY <1>4, <1>5, <1>6, <1>7

\* What only takes an item or a call away leaves the rest as it was.
LEMMA DropKeeps ==
    ASSUME IInv, UNCHANGED <<now, current, replaced, answer>>,
           item' \in {item, None},
           fetch' \in [Caller -> Fetch \cup {None}],
           \A c \in Caller : fetch'[c] \in {fetch[c], None}
    PROVE  IInv'
<1> USE DEF IInv
<1>1. TypeOK'
  BY DEF TypeOK
<1>2. FetchInv'
  BY DEF FetchInv
<1>3. ItemInv' /\ AnswerInv'
  BY DEF ItemInv, AnswerInv
<1> QED  BY <1>1, <1>2, <1>3

THEOREM Inductive == ASSUME TTL > 0 PROVE Spec => []IInv
<1>1. ASSUME IInv, [Next]_vars PROVE IInv'
  <2>1. CASE Tick
    BY <1>1, <2>1, TickKeeps
  <2>2. CASE Change
    BY <1>1, <2>2, ChangeKeeps
  <2>3. CASE Purge
    BY <1>1, <2>3, DropKeeps DEF Purge, IInv, TypeOK
  <2>4. ASSUME NEW c \in Caller, Hit(c) PROVE IInv'
    BY <1>1, <2>4, HitKeeps
  <2>5. ASSUME NEW c \in Caller, Miss(c) PROVE IInv'
    BY <1>1, <2>5, MissKeeps
  <2>6. ASSUME NEW c \in Caller, Fill(c) PROVE IInv'
    BY <1>1, <2>6, FillKeeps
  <2>7. ASSUME NEW c \in Caller, FetchFails(c) PROVE IInv'
    BY <1>1, <2>7, DropKeeps DEF FetchFails, IInv, TypeOK
  <2>8. CASE UNCHANGED vars
    BY <1>1, <2>8, DropKeeps DEF vars, IInv, TypeOK
  <2> QED
    BY <1>1, <2>1, <2>2, <2>3, <2>4, <2>5, <2>6, <2>7, <2>8 DEF Next
<1> QED  BY <1>1, InitIInv, PTL DEF Spec

(***************************************************************************)
(* A document is returned for at most the time to live and one call of the *)
(* wrapped resolver after it was replaced, unless the time to live is zero *)
(* and so means no limit.                                                  *)
(***************************************************************************)
THEOREM StalenessBounded == ASSUME TTL > 0 PROVE Spec => []BoundedStaleness
<1>1. IInv => BoundedStaleness
  BY Numbers DEF IInv, AnswerInv, BoundedStaleness, LastCurrent
<1> QED  BY <1>1, Inductive, PTL

-----------------------------------------------------------------------------
TTypeOK ==
    /\ input \in Input
    /\ configured \in Seq(Tier)
    /\ errs \in Seq({"unknown", "failed"})
    /\ ended \in {"open", "document", "error"}

\* Every tier asked so far has been asked about this DID and has no document.
TAsked ==
    /\ Len(errs) <= Len(configured)
    /\ \A i \in 1 .. Len(errs) : errs[i] \in Resolve(configured[i], input) \ {"document"}

\* The call ends with the document of the tier whose turn it is, or after the
\* last.
TEnded ==
    /\ ended = "document" =>
          Turn <= Len(configured) /\ "document" \in Resolve(configured[Turn], input)
    /\ ended = "error" => Len(errs) = Len(configured)

TIInv == TTypeOK /\ TAsked /\ TEnded

\* What the resolver of a single method may return.
LEMMA MethodServes ==
    ASSUME NEW m \in Methods, NEW d \in Input
    PROVE  /\ ResolveMethod(m, d) \subseteq {"document", "unknown", "failed"}
           /\ method[d] = m /\ (method[d] = "web" => d \in Permitted) =>
                 "unknown" \notin ResolveMethod(m, d)
           /\ method[d] = "key" => "failed" \notin ResolveMethod(m, d)
           /\ "document" \in ResolveMethod(m, d) =>
                 method[d] = m /\ (method[d] = "web" => d \in Permitted)
<1>1. CASE m = "key"
  BY <1>1 DEF ResolveMethod, ResolveKey
<1>2. CASE m = "web"
  BY <1>2 DEF ResolveMethod, ResolveWeb
<1>3. CASE m = "plc"
  BY <1>3 DEF ResolveMethod, ResolvePLC
<1> QED
  BY <1>1, <1>2, <1>3 DEF Methods

\* What a tier that serves the DID may return, and one that does not.
LEMMA TierServes ==
    ASSUME NEW tier \in Tier, NEW d \in Input
    PROVE  /\ Resolve(tier, d) \subseteq {"document", "unknown", "failed"}
           /\ Serves(tier, d) => "unknown" \notin Resolve(tier, d)
           /\ Local(tier, d) => "failed" \notin Resolve(tier, d)
           /\ "document" \in Resolve(tier, d) => Serves(tier, d)
<1>1. CASE tier \in {"well-known"} \X SUBSET Input
  BY <1>1 DEF Resolve, ResolveWellKnown, Serves, Local
<1>2. CASE tier \in {"by method"} \X SUBSET Methods
  <2>1. /\ tier[1] = "by method" /\ tier[2] \subseteq Methods
        /\ Resolve(tier, d) = ResolveByMethod(tier[2], d)
    BY <1>2 DEF Resolve
  <2>2. CASE method[d] \in tier[2]
    <3>1. method[d] \in Methods /\ Resolve(tier, d) = ResolveMethod(method[d], d)
      BY <2>1, <2>2 DEF ResolveByMethod
    <3>2. /\ Serves(tier, d) <=> (method[d] = "web" => d \in Permitted)
          /\ Local(tier, d) <=> method[d] = "key"
      BY <2>1, <2>2 DEF Serves, Local
    <3> QED
      BY <3>1, <3>2, MethodServes
  <2>3. CASE method[d] \notin tier[2]
    <3>1. Resolve(tier, d) = {"unknown"}
      BY <2>1, <2>3 DEF ResolveByMethod
    <3>2. ~Serves(tier, d)
      BY <2>1, <2>3 DEF Serves
    <3> QED
      BY <3>1, <3>2
  <2> QED
    BY <2>2, <2>3
<1>3. CASE tier \in {"method"} \X Methods
  <2>1. /\ tier[1] = "method" /\ tier[2] \in Methods
        /\ Resolve(tier, d) = ResolveMethod(tier[2], d)
    BY <1>3 DEF Resolve
  <2> QED
    BY <2>1, MethodServes DEF Serves, Local
<1> QED
  BY <1>1, <1>2, <1>3 DEF Tier

LEMMA TInitially == TInit => TIInv
BY TiersAssumption DEF TInit, TIInv, TTypeOK, TAsked, TEnded

LEMMA TStep == TIInv /\ [TNext]_tvars => TIInv'
<1> SUFFICES ASSUME TIInv, [TNext]_tvars PROVE TIInv'
  OBVIOUS
<1> USE DEF TIInv, TTypeOK, TAsked, TEnded
<1>1. CASE AskNext
  <2>1. PICK e \in Resolve(configured[Turn], input) \ {"document"} : errs' = Append(errs, e)
    BY <1>1 DEF AskNext
  <2>2. Turn \in 1 .. Len(configured) /\ Turn = Len(errs) + 1 /\ ended = "open"
    BY <1>1 DEF AskNext, Turn
  <2>3. e \in {"unknown", "failed"}
    <3>1. configured[Turn] \in Tier
      BY <2>2
    <3> QED
      BY <2>1, <3>1, TierServes
  <2>4. /\ errs' \in Seq({"unknown", "failed"}) /\ Len(errs') = Len(errs) + 1
        /\ \A i \in 1 .. Len(errs) : errs'[i] = errs[i]
        /\ errs'[Turn] = e
    BY <2>1, <2>2, <2>3
  <2>5. UNCHANGED <<input, configured, ended>>
    BY <1>1 DEF AskNext
  <2>6. TTypeOK'
    BY <2>4, <2>5
  <2>7. TAsked'
    <3>1. \A i \in 1 .. Len(errs') : i \in 1 .. Len(errs) \/ i = Turn
      BY <2>2, <2>4
    <3>2. \A i \in 1 .. Len(errs') : errs'[i] \in Resolve(configured[i], input) \ {"document"}
      BY <2>1, <2>4, <3>1
    <3>3. Len(errs') <= Len(configured)
      BY <2>2, <2>4
    <3>4. \A i : Resolve(configured[i], input)' = Resolve(configured[i], input)
      BY <2>5
    <3>5. \A i \in 1 .. Len(errs') :
             errs'[i] \in Resolve(configured[i], input)' \ {"document"}
      BY <3>2, <3>4
    <3> QED
      BY <3>3, <3>5, <2>5
  <2>8. TEnded'
    BY <2>2, <2>5
  <2> QED
    BY <2>6, <2>7, <2>8
<1>2. CASE Answered
  BY <1>2 DEF Answered, Turn
<1>3. CASE NotResolvable
  BY <1>3 DEF NotResolvable, Turn
<1>4. CASE Again
  BY <1>4 DEF Again
<1>5. CASE UNCHANGED tvars
  BY <1>5 DEF tvars, Turn
<1> QED
  BY <1>1, <1>2, <1>3, <1>4, <1>5 DEF TNext

(***************************************************************************)
(* A DID is answered for by the first tier that serves it and does not     *)
(* fail, whatever the tiers are, and the call fails only after all of them *)
(* (resolver.Tiered over WellKnown, ByMethod and the methods' resolvers).  *)
(***************************************************************************)
THEOREM FirstAnswers == TSpec => []FirstInOrder
<1>1. ASSUME TIInv PROVE FirstInOrder
  <2>1. \A i \in 1 .. Len(configured) : configured[i] \in Tier
    BY <1>1 DEF TIInv, TTypeOK
  <2>2. \A i \in 1 .. Len(errs) : Serves(configured[i], input) =>
           errs[i] = "failed" /\ ~Local(configured[i], input)
    <3> SUFFICES ASSUME NEW i \in 1 .. Len(errs), Serves(configured[i], input)
                 PROVE  errs[i] = "failed" /\ ~Local(configured[i], input)
      OBVIOUS
    <3>1. configured[i] \in Tier /\ input \in Input
      BY <1>1, <2>1 DEF TIInv, TTypeOK, TAsked
    <3>2. errs[i] \in Resolve(configured[i], input) /\ errs[i] # "document"
      BY <1>1 DEF TIInv, TAsked
    <3> QED
      BY <3>1, <3>2, TierServes
  <2>3. ended = "document" => Serves(configured[Len(errs) + 1], input)
    <3> SUFFICES ASSUME ended = "document" PROVE Serves(configured[Turn], input)
      BY DEF Turn
    <3>1. Turn \in 1 .. Len(configured) /\ "document" \in Resolve(configured[Turn], input)
      BY <1>1 DEF TIInv, TTypeOK, TEnded, Turn
    <3>2. configured[Turn] \in Tier /\ input \in Input
      BY <1>1, <2>1, <3>1 DEF TIInv, TTypeOK
    <3> QED
      BY <3>1, <3>2, TierServes
  <2> QED
    BY <1>1, <2>2, <2>3 DEF FirstInOrder, TIInv, TEnded
<1> QED
  BY <1>1, TInitially, TStep, PTL DEF TSpec
=============================================================================
