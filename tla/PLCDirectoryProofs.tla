------------------------- MODULE PLCDirectoryProofs -------------------------
(***************************************************************************)
(* The log of a did:plc DID, for every number of clients, every change     *)
(* they may make and every length of the log; and what its resolvers see   *)
(* of it, for every number of goroutines that resolve meanwhile.           *)
(***************************************************************************)
EXTENDS PLCDirectory, WellFoundedInduction, TLAPS
-----------------------------------------------------------------------------
(***************************************************************************)
(* plc.Resolver implements Resolution for every number of goroutines,      *)
(* every set of DIDs and every history of their documents, with and        *)
(* without a cache.                                                        *)
(***************************************************************************)

\* What the cache holds was served by the directory under that ETag.
CacheInv ==
    /\ \A d \in DID : cache[d] # None => cache[d].doc = <<d, cache[d].etag>>
    /\ \A c \in Caller : cached[c] # None =>
          cached[c].doc = <<asked[c].did, cached[c].etag>>

\* What the directory has answered was so after the call began.
ReplyInv ==
    \A c \in Caller : stage[c] = "answered" =>
        /\ reply[c] = NotModified =>
              cached[c] # None /\ Fresh(c, cached[c].etag)
        /\ reply[c].status = 200 =>
              /\ \E v \in Version : reply[c].doc = <<asked[c].did, v>> /\ Fresh(c, v)
              /\ reply[c].etag # None => reply[c].doc[2] = reply[c].etag

\* A call's DID had its version by then when it began.
AskedInv ==
    \A c \in Caller : asked[c] # None => asked[c].since <= current[asked[c].did]

IInv == PTypeOK /\ CacheInv /\ ReplyInv /\ AskedInv
-----------------------------------------------------------------------------
LEMMA InitIInv == PInit => IInv
<1> SUFFICES ASSUME PInit PROVE IInv
  OBVIOUS
<1> USE DEF PInit, Init
<1>1. PTypeOK
  <2>1. None # Failed /\ 0 \in Version
    BY OutcomeAssumption, VersionAssumption DEF Version
  <2> QED  BY <2>1 DEF PTypeOK, Outcome
<1>2. CacheInv /\ ReplyInv /\ AskedInv
  BY DEF CacheInv, ReplyInv, AskedInv
<1> QED  BY <1>1, <1>2 DEF IInv

\* What a call under way knows of its own DID.
LEMMA Open ==
    ASSUME PTypeOK, NEW c \in Caller, stage[c] # "returned"
    PROVE  /\ result[c] = None /\ asked[c] \in Request
           /\ asked[c].did \in DID /\ asked[c].since \in Version
           /\ current[asked[c].did] \in Version
<1>1. result[c] = None /\ asked[c] \in Request
  BY DEF PTypeOK
<1> QED  BY <1>1 DEF PTypeOK, Request

LEMMA UpdateKeeps == ASSUME IInv, NEW d \in DID, Update(d) PROVE IInv'
<1> USE DEF IInv, Update, Change
<1>0. /\ cache' = cache /\ stage' = stage /\ cached' = cached /\ reply' = reply
      /\ asked' = asked /\ result' = result
  OBVIOUS
<1>1. \A e \in DID : /\ current[e] \in Nat /\ current'[e] \in Nat
                     /\ current'[e] \in Version /\ current[e] <= current'[e]
  BY VersionAssumption DEF PTypeOK, Version
<1>2. PTypeOK'
  <2>1. current' \in [DID -> Version]
    BY <1>1 DEF PTypeOK
  <2> QED  BY <1>0, <2>1 DEF PTypeOK
<1>3. CacheInv'
  BY <1>0 DEF CacheInv
<1>4. \A c \in Caller : asked[c] # None =>
         /\ asked[c].did \in DID /\ asked[c].since \in Nat
  BY DEF PTypeOK, Request, Version
<1>5. AskedInv'
  BY <1>0, <1>1, <1>4 DEF AskedInv
<1>6. ASSUME NEW c \in Caller, NEW v \in Nat, stage[c] # "returned", Fresh(c, v)
      PROVE  Fresh(c, v)'
  <2>1. asked[c] # None
    BY <1>6 DEF PTypeOK
  <2> QED  BY <1>0, <1>1, <1>4, <1>6, <2>1 DEF Fresh
<1>7. ReplyInv'
  <2> SUFFICES ASSUME NEW c \in Caller, stage[c] = "answered"
               PROVE  /\ reply[c] = NotModified =>
                            cached[c] # None /\ Fresh(c, cached[c].etag)'
                      /\ reply[c].status = 200 =>
                            /\ \E v \in Version :
                                  reply[c].doc = <<asked[c].did, v>> /\ Fresh(c, v)'
                            /\ reply[c].etag # None => reply[c].doc[2] = reply[c].etag
    BY <1>0 DEF ReplyInv
  <2>1. \A v \in Version : v \in Nat
    BY DEF Version
  <2>2. ASSUME reply[c] = NotModified
        PROVE  cached[c] # None /\ Fresh(c, cached[c].etag)'
    <3>1. cached[c] # None /\ Fresh(c, cached[c].etag)
      BY <2>2 DEF ReplyInv
    <3>2. cached[c].etag \in Nat
      BY <2>1, <3>1 DEF PTypeOK, Entry
    <3> QED  BY <1>6, <3>1, <3>2
  <2>3. ASSUME reply[c].status = 200
        PROVE  \E v \in Version : reply[c].doc = <<asked[c].did, v>> /\ Fresh(c, v)'
    <3>1. PICK v \in Version : reply[c].doc = <<asked[c].did, v>> /\ Fresh(c, v)
      BY <2>3 DEF ReplyInv
    <3> QED  BY <1>6, <2>1, <3>1
  <2> QED  BY <2>2, <2>3 DEF ReplyInv
<1> QED  BY <1>2, <1>3, <1>5, <1>7

LEMMA ExpireKeeps == ASSUME IInv, NEW d \in DID, Expire(d) PROVE IInv'
<1> USE DEF IInv, Expire, calls
<1>1. \A e \in DID : cache'[e] \in {cache[e], None}
  BY DEF PTypeOK
<1>2. PTypeOK'
  BY DEF PTypeOK
<1>3. CacheInv'
  BY <1>1 DEF CacheInv
<1>4. ReplyInv' /\ AskedInv'
  BY DEF ReplyInv, AskedInv, Fresh
<1> QED  BY <1>2, <1>3, <1>4

LEMMA CallKeeps ==
    ASSUME IInv, NEW c \in Caller, NEW d \in DID, Call(c, d)
    PROVE  IInv'
<1> USE DEF IInv, Call, Ask
<1>0. cache' = cache /\ cached' = cached /\ reply' = reply /\ current' = current
  OBVIOUS
<1>1. stage[c] = "returned" /\ reply[c] = None
  BY DEF PTypeOK
<1>2. PTypeOK'
  <2>1. [did |-> d, since |-> current[d]] \in Request /\ current[d] \in Version
    BY DEF PTypeOK, Request
  <2>2. asked' \in [Caller -> Request \cup {None}] /\ asked'[c] # None
    BY <2>1, OutcomeAssumption DEF PTypeOK
  <2>3. result' \in [Caller -> Outcome]
    BY DEF PTypeOK, Outcome
  <2> QED  BY <1>0, <1>1, <2>2, <2>3 DEF PTypeOK
<1>3. \A e \in Caller : e # c => asked'[e] = asked[e] /\ stage'[e] = stage[e]
  BY DEF PTypeOK
<1>4. cached[c] = None
  BY <1>1 DEF PTypeOK
<1>5. CacheInv'
  BY <1>0, <1>3, <1>4 DEF CacheInv
<1>6. ReplyInv'
  <2>1. stage'[c] = "called"
    BY DEF PTypeOK
  <2> QED  BY <1>0, <1>3, <2>1 DEF ReplyInv, Fresh
<1>7. AskedInv'
  <2>1. asked'[c] = [did |-> d, since |-> current[d]] /\ current[d] \in Nat
    BY DEF PTypeOK, Version
  <2> QED  BY <1>0, <1>3, <2>1 DEF AskedInv
<1> QED  BY <1>2, <1>5, <1>6, <1>7

LEMMA SendKeeps == ASSUME IInv, NEW c \in Caller, Send(c) PROVE IInv'
<1> USE DEF IInv, Send
<1>0. /\ cache' = cache /\ reply' = reply /\ current' = current
      /\ asked' = asked /\ result' = result
  OBVIOUS
<1>1. asked[c].did \in DID
  BY Open
<1>2. /\ \A e \in Caller : e # c => cached'[e] = cached[e] /\ stage'[e] = stage[e]
      /\ cached'[c] \in {cache[asked[c].did], None} /\ stage'[c] = "sent"
  BY DEF PTypeOK
<1>3. PTypeOK'
  <2>1. cached' \in [Caller -> Entry \cup {None}]
    BY <1>1 DEF PTypeOK
  <2>2. stage' \in [Caller -> {"called", "sent", "answered", "returned"}]
    BY DEF PTypeOK
  <2> QED  BY <1>0, <1>2, <2>1, <2>2 DEF PTypeOK
<1>4. CacheInv'
  BY <1>0, <1>1, <1>2 DEF CacheInv
<1>5. ReplyInv' /\ AskedInv'
  BY <1>0, <1>2 DEF ReplyInv, AskedInv, Fresh
<1> QED  BY <1>3, <1>4, <1>5

LEMMA AnswerKeeps == ASSUME IInv, NEW c \in Caller, Answer(c) PROVE IInv'
<1> USE DEF IInv, Answer
<1>0. /\ cache' = cache /\ cached' = cached /\ current' = current
      /\ asked' = asked /\ result' = result
  OBVIOUS
<1>1. /\ asked[c].did \in DID /\ asked[c].since \in Version /\ asked[c] # None
      /\ current[asked[c].did] \in Version
  BY Open DEF PTypeOK
<1> DEFINE v == current[asked[c].did]
<1>2. PICK answer \in Answers(c) : reply' = [reply EXCEPT ![c] = answer]
  OBVIOUS
<1>3. /\ \A e \in Caller : e # c => reply'[e] = reply[e] /\ stage'[e] = stage[e]
      /\ reply'[c] = answer /\ stage'[c] = "answered"
  BY <1>2 DEF PTypeOK
<1>4. \/ answer = Bad
      \/ answer = NotModified /\ cached[c] # None /\ cached[c].etag = v
      \/ /\ answer \in Reply /\ answer.status = 200
         /\ answer.doc = <<asked[c].did, v>> /\ answer.etag \in {None, v}
  BY <1>1, <1>2 DEF Answers, Reply
<1>5. answer \in Reply /\ answer # None
  BY <1>4, RecordAssumption DEF Reply
<1>6. PTypeOK'
  <2>1. reply' \in [Caller -> Reply \cup {None}]
    BY <1>2, <1>5 DEF PTypeOK
  <2>2. stage' \in [Caller -> {"called", "sent", "answered", "returned"}]
    BY DEF PTypeOK
  <2> QED  BY <1>0, <1>3, <1>5, <2>1, <2>2 DEF PTypeOK
<1>7. Fresh(c, v)
  BY <1>1 DEF Fresh, AskedInv, Version
<1>8. CacheInv' /\ AskedInv'
  BY <1>0 DEF CacheInv, AskedInv
<1>9. ReplyInv'
  <2>1. NotModified.status # 200 /\ Bad.status # 200 /\ Bad # NotModified
    BY DEF NotModified, Bad
  <2>2. \A e, u : Fresh(e, u)' <=> Fresh(e, u)
    BY <1>0 DEF Fresh
  <2>3. /\ reply'[c] = NotModified => cached[c] # None /\ Fresh(c, cached[c].etag)
        /\ reply'[c].status = 200 =>
              /\ reply'[c].doc = <<asked[c].did, v>>
              /\ reply'[c].etag # None => reply'[c].etag = v
    BY <1>3, <1>4, <1>7, <2>1
  <2>4. reply'[c].doc = <<asked[c].did, v>> => reply'[c].doc[2] = v
    OBVIOUS
  <2> QED  BY <1>0, <1>1, <1>3, <1>7, <2>2, <2>3, <2>4 DEF ReplyInv
<1> QED  BY <1>6, <1>8, <1>9

(***************************************************************************)
(* A call that ends forgets what it found; the cache may be left alone or  *)
(* given a document with its ETag.                                         *)
(***************************************************************************)
LEMMA EndKeeps ==
    ASSUME IInv, NEW c \in Caller, NEW outcome \in Outcome \ {None},
           result' = [result EXCEPT ![c] = outcome],
           stage' = [stage EXCEPT ![c] = "returned"],
           cached' = [cached EXCEPT ![c] = None],
           reply' = [reply EXCEPT ![c] = None],
           UNCHANGED <<current, asked>>,
           cache' \in [DID -> Entry \cup {None}],
           \A d \in DID : \/ cache'[d] = cache[d]
                          \/ cache'[d].doc = <<d, cache'[d].etag>>
    PROVE  IInv'
<1> USE DEF IInv
<1>1. \A e \in Caller : e # c => /\ result'[e] = result[e] /\ stage'[e] = stage[e]
                                 /\ cached'[e] = cached[e] /\ reply'[e] = reply[e]
  BY DEF PTypeOK
<1>2. /\ result'[c] = outcome /\ stage'[c] = "returned"
      /\ cached'[c] = None /\ reply'[c] = None
  BY DEF PTypeOK
<1>3. PTypeOK'
  <2>1. /\ result' \in [Caller -> Outcome]
        /\ stage' \in [Caller -> {"called", "sent", "answered", "returned"}]
        /\ cached' \in [Caller -> Entry \cup {None}]
        /\ reply' \in [Caller -> Reply \cup {None}]
    BY DEF PTypeOK
  <2> QED  BY <1>1, <1>2, <2>1 DEF PTypeOK
<1>4. CacheInv'
  BY <1>1, <1>2 DEF CacheInv
<1>5. ReplyInv' /\ AskedInv'
  BY <1>1, <1>2 DEF ReplyInv, AskedInv, Fresh
<1> QED  BY <1>3, <1>4, <1>5

LEMMA FailKeeps ==
    ASSUME IInv, NEW c \in Caller, Fail(c)
    PROVE  IInv' /\ Return(c, Failed)
<1>1. Failed \in Outcome \ {None}
  BY OutcomeAssumption DEF Outcome
<1>2. cache' = cache /\ cache \in [DID -> Entry \cup {None}]
  BY DEF Fail, IInv, PTypeOK
<1> QED  BY <1>1, <1>2, EndKeeps DEF Fail, Return

\* The document the directory has confirmed is a fresh one.
LEMMA UseCachedKeeps ==
    ASSUME IInv, NEW c \in Caller, UseCached(c)
    PROVE  IInv' /\ \E outcome \in DID \X Version : Return(c, outcome)
<1> USE DEF UseCached, Done
<1>0. IInv /\ PTypeOK /\ result[c] = None /\ asked[c].did \in DID
  BY Open DEF IInv
<1>1. cached[c] # None /\ Fresh(c, cached[c].etag) /\ cached[c] \in Entry
  BY DEF IInv, ReplyInv, PTypeOK
<1>2. cached[c].doc = <<asked[c].did, cached[c].etag>> /\ cached[c].etag \in Version
  BY <1>1 DEF IInv, CacheInv, Entry
<1> DEFINE doc == cached[c].doc
<1>3. doc \in DID \X Version /\ doc[1] = asked[c].did /\ doc[2] = cached[c].etag
  BY <1>0, <1>2
<1>4. Return(c, doc)
  BY <1>0, <1>1, <1>3 DEF Return
<1>5. doc \in Outcome \ {None}
  BY <1>3, OutcomeAssumption DEF Outcome
<1>6. cache' = cache /\ cache \in [DID -> Entry \cup {None}]
  BY <1>0 DEF PTypeOK
<1>7. IInv'
  BY <1>5, <1>6, EndKeeps
<1> QED  BY <1>3, <1>4, <1>7

\* The document the directory has sent is a fresh one, and so is its ETag.
LEMMA StoreKeeps ==
    ASSUME IInv, NEW c \in Caller, Store(c)
    PROVE  IInv' /\ \E outcome \in DID \X Version : Return(c, outcome)
<1> USE DEF Store, Done
<1>0. IInv /\ PTypeOK /\ result[c] = None /\ asked[c].did \in DID
  BY Open DEF IInv
<1>1. PICK v \in Version : reply[c].doc = <<asked[c].did, v>> /\ Fresh(c, v)
  BY DEF IInv, ReplyInv
<1> DEFINE doc == reply[c].doc
<1>2. doc \in DID \X Version /\ doc[1] = asked[c].did /\ doc[2] = v
  BY <1>0, <1>1
<1>3. Return(c, doc)
  BY <1>0, <1>1, <1>2 DEF Return
<1>4. doc \in Outcome \ {None}
  BY <1>2, OutcomeAssumption DEF Outcome
<1>5. reply[c].etag # None => reply[c].etag = v
  BY <1>2 DEF IInv, ReplyInv
<1>6. cache' \in [DID -> Entry \cup {None}]
  <2>1. reply[c].etag # None => [etag |-> reply[c].etag, doc |-> doc] \in Entry
    BY <1>2, <1>5 DEF Entry
  <2> QED  BY <1>0, <2>1 DEF PTypeOK
<1>7. \A d \in DID : cache'[d] = cache[d] \/ cache'[d].doc = <<d, cache'[d].etag>>
  <2>1. \A d \in DID : d # asked[c].did => cache'[d] = cache[d]
    BY <1>0 DEF PTypeOK
  <2>2. cache'[asked[c].did] =
            IF HasCache /\ reply[c].etag # None
            THEN [etag |-> reply[c].etag, doc |-> doc] ELSE cache[asked[c].did]
    BY <1>0 DEF PTypeOK
  <2> QED  BY <1>1, <1>5, <2>1, <2>2
<1>8. IInv'
  BY <1>4, <1>6, <1>7, EndKeeps
<1> QED  BY <1>2, <1>3, <1>8
-----------------------------------------------------------------------------
LEMMA StutterKeeps == IInv /\ UNCHANGED vars => IInv'
<1> SUFFICES ASSUME IInv, UNCHANGED vars PROVE IInv'
  OBVIOUS
<1>1. /\ current' = current /\ cache' = cache /\ asked' = asked /\ result' = result
      /\ stage' = stage /\ cached' = cached /\ reply' = reply
  BY DEF vars, calls
<1> QED
  BY <1>1 DEF IInv, PTypeOK, CacheInv, ReplyInv, AskedInv, Fresh

\* A step keeps the invariant and is a step of Resolution or none of its own.
LEMMA StepImplements ==
    ASSUME IInv, [PNext]_vars
    PROVE  IInv' /\ [Next]_<<current, asked, result>>
<1>1. ASSUME NEW d \in DID, Update(d) PROVE IInv' /\ Next
  BY <1>1, UpdateKeeps DEF Update, Next
<1>2. ASSUME NEW d \in DID, Expire(d)
      PROVE  IInv' /\ UNCHANGED <<current, asked, result>>
  BY <1>2, ExpireKeeps DEF Expire, calls
<1>3. ASSUME NEW d \in DID, NEW c \in Caller, Call(c, d) PROVE IInv' /\ Next
  BY <1>3, CallKeeps DEF Call, Next
<1>4. ASSUME NEW c \in Caller, WrongMethod(c) \/ RequestFailed(c) PROVE IInv' /\ Next
  BY <1>4, FailKeeps DEF WrongMethod, RequestFailed, Next
<1>5. ASSUME NEW c \in Caller, Send(c)
      PROVE  IInv' /\ UNCHANGED <<current, asked, result>>
  BY <1>5, SendKeeps DEF Send
<1>6. ASSUME NEW c \in Caller, Answer(c)
      PROVE  IInv' /\ UNCHANGED <<current, asked, result>>
  BY <1>6, AnswerKeeps DEF Answer
<1>7. ASSUME NEW c \in Caller, UseCached(c) PROVE IInv' /\ Next
  BY <1>7, UseCachedKeeps DEF Next
<1>8. ASSUME NEW c \in Caller, Store(c) PROVE IInv' /\ Next
  BY <1>8, StoreKeeps DEF Next
<1>9. CASE UNCHANGED vars
  BY <1>9, StutterKeeps DEF vars, calls
<1> QED
  BY <1>1, <1>2, <1>3, <1>4, <1>5, <1>6, <1>7, <1>8, <1>9 DEF PNext

(***************************************************************************)
(* Every behaviour of the resolver is one of Resolution: no document is    *)
(* returned that was not current during the call.                          *)
(***************************************************************************)
THEOREM Implements == PSpec => NeverStale
<1>1. PInit => Init
  BY DEF PInit
<1> QED  BY <1>1, InitIInv, StepImplements, PTL DEF PSpec, NeverStale, Spec

(***************************************************************************)
(* The resolver's state stays well typed; what it caches has an ETag.      *)
(***************************************************************************)
THEOREM TypeCorrect == PSpec => []PTypeOK
<1>1. IInv => PTypeOK
  BY DEF IInv
<1> QED  BY <1>1, InitIInv, StepImplements, PTL DEF PSpec
-----------------------------------------------------------------------------
(***************************************************************************)
(* The log.                                                                *)
(***************************************************************************)
\* A set of natural numbers that is not empty has a least one.
LEMMA Least ==
    ASSUME NEW T, T \subseteq Nat, T # {}
    PROVE  \E r \in T : \A j \in T : r <= j
<1>1. PICK r \in T : \A j \in T : <<j, r>> \notin OpToRel(<, Nat)
  BY NatLessThanWellFounded, WFMin, Zenon
<1>2. ASSUME NEW j \in T, j < r PROVE FALSE
  <2>1. <<j, r>> \in OpToRel(<, Nat)
    BY <1>2 DEF OpToRel
  <2> QED  BY <1>1, <2>1
<1>3. \A j \in T : r <= j
  BY <1>2
<1> QED  BY <1>3

\* A property of 0 that a number passes on to the next holds up to n.
LEMMA UpTo ==
    ASSUME NEW n \in Nat, NEW T, 0 \in T,
           \A m \in 0 .. n : m \in T /\ m < n => m + 1 \in T
    PROVE  \A m \in 0 .. n : m \in T
<1> DEFINE Out == {m \in 0 .. n : m \notin T}
<1> SUFFICES ASSUME Out # {} PROVE FALSE
  OBVIOUS
<1>1. PICK r \in Out : \A j \in Out : r <= j
  <2>1. Out \subseteq Nat
    OBVIOUS
  <2> HIDE DEF Out
  <2> QED  BY <2>1, Least
<1>2. r # 0 /\ r \in 0 .. n /\ r \notin T
  OBVIOUS
<1>3. r - 1 \in 0 .. n /\ r - 1 \in Nat /\ r - 1 < n /\ (r - 1) + 1 = r /\ ~(r <= r - 1)
  BY <1>2
<1>4. r - 1 \in T
  BY <1>1, <1>3
<1> QED  BY <1>2, <1>3, <1>4

LEMMA OwnSet == ASSUME NEW S, NEW s \in Seq(S) PROVE IsSlice(s)
<1>1. Len(s) \in Nat /\ DOMAIN s = 1 .. Len(s) /\ s = [i \in 1 .. Len(s) |-> s[i]]
  OBVIOUS
<1>2. \A i \in 1 .. Len(s) : s[i] \in ToSet(s)
  BY <1>1 DEF ToSet
<1> QED  BY <1>1, <1>2 DEF IsSlice

LEMMA AppendSet ==
    ASSUME NEW S, NEW s \in Seq(S), NEW e
    PROVE  ToSet(Append(s, e)) = ToSet(s) \cup {e}
<1> DEFINE t == Append(s, e)
<1>1. /\ Len(s) \in Nat /\ DOMAIN s = 1 .. Len(s) /\ DOMAIN t = 1 .. Len(s) + 1
      /\ t[Len(s) + 1] = e /\ \A i \in 1 .. Len(s) : t[i] = s[i]
  <2>1. s \in Seq(S \cup {e})
    OBVIOUS
  <2> QED  BY <2>1
<1> HIDE DEF t
<1>2. ToSet(t) = ToSet(s) \cup {e}
  BY <1>1 DEF ToSet
<1> QED  BY <1>2 DEF t

\* Delete keeps what it does not delete, and nothing else.
LEMMA Deletes ==
    ASSUME NEW seq, IsSlice(seq), NEW elems
    PROVE  /\ IsSlice(Delete(seq, elems))
           /\ ToSet(Delete(seq, elems)) = ToSet(seq) \ elems
<1> DEFINE n == Len(seq)
           Step(f, i) == IF i = 0 THEN <<>>
                         ELSE IF seq[i] \in elems THEN f[i-1] ELSE Append(f[i-1], seq[i])
           kept == CHOOSE f : f = [i \in 0 .. n |-> Step(f, i)]
<1>1. n \in Nat /\ DOMAIN seq = 1 .. n
  BY DEF IsSlice
<1>2. \E f : f = [i \in 0 .. n |-> Step(f, i)]
  <2> DEFINE T == {m \in 0 .. n : \E g : \A i \in 0 .. m : g[i] = Step(g, i)}
  <2>1. 0 \in T
    <3> DEFINE g == [i \in 0 .. 0 |-> <<>>]
    <3>1. \A i \in 0 .. 0 : g[i] = Step(g, i)
      OBVIOUS
    <3> HIDE DEF g, Step
    <3> QED  BY <1>1, <3>1
  <2>2. ASSUME NEW m \in 0 .. n, m \in T, m < n PROVE m + 1 \in T
    <3>1. PICK g : \A i \in 0 .. m : g[i] = Step(g, i)
      BY <2>2
    <3> DEFINE h == [i \in 0 .. m + 1 |-> IF i = m + 1 THEN Step(g, m + 1) ELSE g[i]]
    <3>2. ASSUME NEW i \in 0 .. m + 1 PROVE h[i] = Step(h, i)
      <4>1. m \in Nat
        BY <1>1
      <4>2. CASE i = m + 1
        BY <4>1, <4>2
      <4>3. CASE i # m + 1
        <5>1. i \in 0 .. m /\ (i # 0 => i - 1 \in 0 .. m /\ i - 1 # m + 1)
          BY <4>1, <4>3
        <5>2. h[i] = g[i] /\ (i # 0 => h[i-1] = g[i-1])
          BY <4>1, <5>1
        <5> QED  BY <3>1, <5>1, <5>2
      <4> QED  BY <4>2, <4>3
    <3> HIDE DEF h, Step
    <3>3. m + 1 \in 0 .. n
      BY <1>1, <2>2
    <3> QED  BY <3>2, <3>3
  <2> HIDE DEF T
  <2>3. n \in T
    <3> HIDE DEF n
    <3>1. \A m \in 0 .. n : m \in T
      BY <1>1, <2>1, <2>2, UpTo
    <3> QED  BY <1>1, <3>1
  <2>4. PICK g : \A i \in 0 .. n : g[i] = Step(g, i)
    BY <2>3 DEF T
  <2> DEFINE f == [i \in 0 .. n |-> g[i]]
  <2>5. ASSUME NEW i \in 0 .. n PROVE f[i] = Step(f, i)
    <3>1. i # 0 => i - 1 \in 0 .. n
      BY <1>1
    <3>2. f[i] = g[i] /\ (i # 0 => f[i-1] = g[i-1])
      BY <3>1
    <3> QED  BY <2>4, <3>2
  <2>6. f = [i \in 0 .. n |-> Step(f, i)]
    <3> HIDE DEF Step
    <3>1. f = [i \in 0 .. n |-> f[i]]
      OBVIOUS
    <3> HIDE DEF f
    <3> QED  BY <2>5, <3>1
  <2> HIDE DEF f
  <2> QED  BY <2>6
<1>3. kept = [i \in 0 .. n |-> Step(kept, i)]
  <2> HIDE DEF Step
  <2> QED  BY <1>2, Zenon
<1>4. Delete(seq, elems) = kept[n]
  BY DEF Delete
<1> HIDE DEF kept
<1>5. \A i \in 0 .. n : kept[i] = Step(kept, i)
  <2> HIDE DEF Step
  <2> QED  BY <1>3
<1>6. \A i \in 0 .. n : kept[i] \in Seq(ToSet(seq))
  <2> DEFINE T == {i \in 0 .. n : kept[i] \in Seq(ToSet(seq))}
  <2>1. 0 \in T
    <3>1. 0 \in 0 .. n /\ kept[0] = <<>>
      BY <1>1, <1>5
    <3>2. <<>> \in Seq(ToSet(seq))
      OBVIOUS
    <3> QED  BY <3>1, <3>2
  <2>2. ASSUME NEW m \in 0 .. n, m \in T, m < n PROVE m + 1 \in T
    <3>1. m + 1 \in 0 .. n /\ m + 1 # 0 /\ (m + 1) - 1 = m /\ m + 1 \in 1 .. n
      BY <1>1, <2>2
    <3>2. seq[m + 1] \in ToSet(seq)
      BY <1>1, <3>1 DEF ToSet
    <3>3. kept[m + 1] = IF seq[m + 1] \in elems THEN kept[m] ELSE Append(kept[m], seq[m + 1])
      BY <1>5, <3>1
    <3>4. kept[m] \in Seq(ToSet(seq))
      BY <2>2
    <3>5. Append(kept[m], seq[m + 1]) \in Seq(ToSet(seq))
      BY <3>2, <3>4
    <3>6. kept[m + 1] \in Seq(ToSet(seq))
      BY <3>3, <3>4, <3>5
    <3> QED  BY <3>1, <3>6
  <2> HIDE DEF T, n
  <2>3. \A m \in 0 .. n : m \in T
    BY <1>1, <2>1, <2>2, UpTo
  <2> HIDE DEF Step
  <2> QED  BY <2>3 DEF T
<1>7. \A i \in 0 .. n : ToSet(kept[i]) = {seq[j] : j \in 1 .. i} \ elems
  <2> DEFINE T == {i \in 0 .. n : ToSet(kept[i]) = {seq[j] : j \in 1 .. i} \ elems}
  <2>1. 0 \in T
    <3>1. 0 \in 0 .. n /\ kept[0] = <<>>
      BY <1>1, <1>5
    <3>2. ToSet(<<>>) = {} /\ 1 .. 0 = {}
      BY DEF ToSet
    <3>3. ToSet(kept[0]) = {seq[j] : j \in 1 .. 0} \ elems
      BY <3>1, <3>2
    <3> QED  BY <3>1, <3>3
  <2>2. ASSUME NEW m \in 0 .. n, m \in T, m < n PROVE m + 1 \in T
    <3>1. m \in Nat /\ m + 1 \in 0 .. n /\ m + 1 # 0 /\ (m + 1) - 1 = m
      BY <1>1, <2>2
    <3>3. kept[m + 1] = IF seq[m + 1] \in elems THEN kept[m] ELSE Append(kept[m], seq[m + 1])
      BY <1>5, <3>1
    <3>4. {seq[j] : j \in 1 .. m + 1} = {seq[j] : j \in 1 .. m} \cup {seq[m + 1]}
      BY <3>1
    <3>5. ToSet(Append(kept[m], seq[m + 1])) = ToSet(kept[m]) \cup {seq[m + 1]}
      BY <1>6, AppendSet
    <3> QED  BY <2>2, <3>1, <3>3, <3>4, <3>5
  <2> HIDE DEF T, n
  <2>3. \A m \in 0 .. n : m \in T
    BY <1>1, <2>1, <2>2, UpTo
  <2> HIDE DEF Step
  <2> QED  BY <2>3 DEF T
<1>8. n \in 0 .. n /\ ToSet(seq) = {seq[j] : j \in 1 .. n}
  BY <1>1 DEF ToSet
<1>9. IsSlice(kept[n])
  BY <1>6, <1>8, OwnSet
<1> HIDE DEF n
<1>10. ToSet(kept[n]) = ToSet(seq) \ elems
  BY <1>7, <1>8
<1> QED  BY <1>4, <1>9, <1>10

LEMMA Concats ==
    ASSUME NEW s, NEW t, IsSlice(s), IsSlice(t)
    PROVE  IsSlice(s \o t) /\ ToSet(s \o t) = ToSet(s) \cup ToSet(t)
<1> DEFINE S == ToSet(s) \cup ToSet(t)
<1>1. s \in Seq(S) /\ t \in Seq(S)
  <2>1. ASSUME NEW A, NEW B, NEW q \in Seq(A), A \subseteq B PROVE q \in Seq(B)
    BY <2>1
  <2> QED  BY <2>1 DEF IsSlice
<1> HIDE DEF S
<1> DEFINE r == s \o t
           n == Len(s)
           m == Len(t)
<1>2. /\ r \in Seq(S) /\ n \in Nat /\ m \in Nat
      /\ DOMAIN s = 1 .. n /\ DOMAIN t = 1 .. m /\ DOMAIN r = 1 .. n + m
      /\ \A i \in 1 .. n : r[i] = s[i]
      /\ \A i \in n + 1 .. n + m : r[i] = t[i - n]
  BY <1>1
<1> HIDE DEF r, n, m
<1>3. ASSUME NEW x \in ToSet(r) PROVE x \in ToSet(s) \cup ToSet(t)
  <2>1. PICK i \in 1 .. n + m : r[i] = x
    BY <1>2, <1>3 DEF ToSet
  <2>2. CASE i \in 1 .. n
    BY <1>2, <2>1, <2>2 DEF ToSet
  <2>3. CASE i \in n + 1 .. n + m
    <3>1. i - n \in 1 .. m /\ x = t[i - n]
      BY <1>2, <2>1, <2>3
    <3> QED  BY <1>2, <3>1 DEF ToSet
  <2> QED  BY <1>2, <2>1, <2>2, <2>3
<1>4. ASSUME NEW x \in ToSet(s) PROVE x \in ToSet(r)
  <2>1. PICK i \in 1 .. n : s[i] = x
    BY <1>2, <1>4 DEF ToSet
  <2>2. i \in 1 .. n + m /\ r[i] = x
    BY <1>2, <2>1
  <2> QED  BY <1>2, <2>2 DEF ToSet
<1>5. ASSUME NEW x \in ToSet(t) PROVE x \in ToSet(r)
  <2>1. PICK i \in 1 .. m : t[i] = x
    BY <1>2, <1>5 DEF ToSet
  <2>2. n + i \in n + 1 .. n + m /\ n + i \in 1 .. n + m /\ (n + i) - n = i
    BY <1>2
  <2>3. r[n + i] = x
    BY <1>2, <2>1, <2>2
  <2> QED  BY <1>2, <2>2, <2>3 DEF ToSet
<1>6. IsSlice(r)
  BY <1>2, OwnSet
<1> QED  BY <1>3, <1>4, <1>5, <1>6 DEF r

LEMMA Merges ==
    ASSUME NEW map, NEW with
    PROVE  /\ IsMap(Merge(map, with))
           /\ DOMAIN Merge(map, with) = DOMAIN map \cup DOMAIN with
           /\ \A x \in DOMAIN with : Merge(map, with)[x] = with[x]
           /\ \A x \in DOMAIN map \ DOMAIN with : Merge(map, with)[x] = map[x]
BY DEF Merge, IsMap

LEMMA Withouts ==
    ASSUME NEW map, NEW keys
    PROVE  /\ IsMap(Without(map, keys))
           /\ DOMAIN Without(map, keys) = DOMAIN map \ keys
           /\ \A x \in DOMAIN map \ keys : Without(map, keys)[x] = map[x]
BY DEF Without, Restrict, IsMap

\* A configuration has all of its fields.
IsConfig(cfg) == DOMAIN cfg = Fields /\ \A f \in Fields : WellFormed(f, cfg[f])

IsOption(opt) ==
    opt[1] \in {"+", "-"} /\ opt[2] \in Fields /\ WellFormed(opt[2], opt[3])

\* What an option that is about x makes its field say of x.
Effect(opt, f, x) == IF opt[1] = "+" THEN Says(f, opt[3], x) ELSE <<>>

\* An option changes its field about its own members only.
LEMMA SetsField ==
    ASSUME NEW cfg, IsConfig(cfg), NEW opt, IsOption(opt)
    PROVE  \E value :
              /\ Option(cfg, opt) = [cfg EXCEPT ![opt[2]] = value]
              /\ WellFormed(opt[2], value)
              /\ \A x : Says(opt[2], value, x) =
                    IF x \in Members(opt[2], opt[3]) THEN Effect(opt, opt[2], x)
                    ELSE Says(opt[2], cfg[opt[2]], x)
<1> DEFINE f == opt[2]
           arg == opt[3]
           old == cfg[f]
<1>1. f \in Fields /\ WellFormed(f, arg) /\ WellFormed(f, old) /\ opt[1] \in {"+", "-"}
  BY DEF IsConfig, IsOption
<1>2. CASE f \in Slices
  <2>1. IsSlice(arg) /\ IsSlice(old)
    BY <1>1, <1>2 DEF WellFormed
  <2>2. CASE opt[1] = "+"
    <3> DEFINE value == old \o arg
    <3>1. Option(cfg, opt) = [cfg EXCEPT ![f] = value]
      BY <1>2, <2>2 DEF Option, WithRotationKeys, WithAlsoKnownAs, Slices
    <3>2. IsSlice(value) /\ ToSet(value) = ToSet(old) \cup ToSet(arg)
      BY <2>1, Concats
    <3> HIDE DEF value, f, arg, old
    <3> QED  BY <1>2, <2>2, <3>1, <3>2 DEF WellFormed, Says, Members, Effect, f, arg, old
  <2>3. CASE opt[1] = "-"
    <3> DEFINE value == Delete(old, ToSet(arg))
    <3>1. Option(cfg, opt) = [cfg EXCEPT ![f] = value]
      BY <1>2, <2>3 DEF Option, WithoutRotationKeys, WithoutAlsoKnownAs, Slices
    <3>2. IsSlice(value) /\ ToSet(value) = ToSet(old) \ ToSet(arg)
      BY <2>1, Deletes
    <3> HIDE DEF value, f, arg, old
    <3> QED  BY <1>2, <2>3, <3>1, <3>2 DEF WellFormed, Says, Members, Effect, f, arg, old
  <2> QED  BY <1>1, <2>2, <2>3
<1>3. CASE f \notin Slices
  <2>1. IsMap(arg) /\ IsMap(old) /\ f \in {"methods", "services"}
    BY <1>1, <1>3 DEF WellFormed, Fields, Slices
  <2>2. CASE opt[1] = "+"
    <3> DEFINE value == Merge(old, arg)
    <3>1. Option(cfg, opt) = [cfg EXCEPT ![f] = value]
      BY <2>1, <2>2 DEF Option, WithVerificationMethods, WithServices
    <3>2. /\ IsMap(value) /\ DOMAIN value = DOMAIN old \cup DOMAIN arg
          /\ \A x \in DOMAIN arg : value[x] = arg[x]
          /\ \A x \in DOMAIN old \ DOMAIN arg : value[x] = old[x]
      <4> HIDE DEF f, arg, old
      <4> QED  BY Merges
    <3> HIDE DEF value
    <3>3. \A x : x \in DOMAIN arg => Says(f, value, x) = Effect(opt, f, x)
      BY <1>3, <2>2, <3>2 DEF Says, Members, Effect
    <3>4. \A x : x \notin DOMAIN arg => Says(f, value, x) = Says(f, old, x)
      BY <1>3, <3>2 DEF Says, Members
    <3>5. \A x : x \in Members(f, arg) <=> x \in DOMAIN arg
      BY <1>3 DEF Members
    <3>6. WellFormed(f, value)
      BY <1>3, <3>2 DEF WellFormed
    <3> QED  BY <3>1, <3>3, <3>4, <3>5, <3>6
  <2>3. CASE opt[1] = "-"
    <3> DEFINE value == Without(old, DOMAIN arg)
    <3>1. Option(cfg, opt) = [cfg EXCEPT ![f] = value]
      BY <2>1, <2>3 DEF Option, WithoutVerificationMethods, WithoutServices
    <3>2. /\ IsMap(value) /\ DOMAIN value = DOMAIN old \ DOMAIN arg
          /\ \A x \in DOMAIN old \ DOMAIN arg : value[x] = old[x]
      BY Withouts
    <3> HIDE DEF value, f, arg, old
    <3> QED  BY <1>3, <2>3, <3>1, <3>2 DEF WellFormed, Says, Members, Effect, f, arg, old
  <2> QED  BY <1>1, <2>2, <2>3
<1> QED  BY <1>2, <1>3

LEMMA OptionSays ==
    ASSUME NEW cfg, IsConfig(cfg), NEW opt, IsOption(opt)
    PROVE  /\ IsConfig(Option(cfg, opt))
           /\ \A f \in Fields : \A x :
                 Says(f, Option(cfg, opt)[f], x) =
                     IF f = opt[2] /\ x \in Members(f, opt[3]) THEN Effect(opt, f, x)
                     ELSE Says(f, cfg[f], x)
<1>1. PICK value :
         /\ Option(cfg, opt) = [cfg EXCEPT ![opt[2]] = value]
         /\ WellFormed(opt[2], value)
         /\ \A x : Says(opt[2], value, x) =
               IF x \in Members(opt[2], opt[3]) THEN Effect(opt, opt[2], x)
               ELSE Says(opt[2], cfg[opt[2]], x)
  BY SetsField
<1>2. /\ DOMAIN Option(cfg, opt) = Fields /\ Option(cfg, opt)[opt[2]] = value
      /\ \A f \in Fields : f # opt[2] => Option(cfg, opt)[f] = cfg[f]
  BY <1>1 DEF IsConfig, IsOption
<1> QED  BY <1>1, <1>2 DEF IsConfig

AreOptions(opts) == IsSlice(opts) /\ \A i \in DOMAIN opts : IsOption(opts[i])

\* The configurations on the way to Configured.
BuildOf(built, cfg, opts) ==
    /\ Configured(cfg, opts) = built[Len(opts)]
    /\ built[0] = cfg
    /\ \A i \in 1 .. Len(opts) : built[i] = Option(built[i-1], opts[i])

LEMMA Builds ==
    ASSUME NEW cfg, NEW opts, IsSlice(opts)
    PROVE  \E built : BuildOf(built, cfg, opts)
<1> DEFINE n == Len(opts)
           Step(f, i) == IF i = 0 THEN cfg ELSE Option(f[i-1], opts[i])
           built == CHOOSE f : f = [i \in 0 .. n |-> Step(f, i)]
<1>1. n \in Nat /\ DOMAIN opts = 1 .. n
  BY DEF IsSlice
<1>2. \E f : f = [i \in 0 .. n |-> Step(f, i)]
  <2> DEFINE T == {m \in 0 .. n : \E g : \A i \in 0 .. m : g[i] = Step(g, i)}
  <2>1. 0 \in T
    <3> DEFINE g == [i \in 0 .. 0 |-> cfg]
    <3>1. \A i \in 0 .. 0 : g[i] = Step(g, i)
      OBVIOUS
    <3> HIDE DEF g, Step
    <3> QED  BY <1>1, <3>1
  <2>2. ASSUME NEW m \in 0 .. n, m \in T, m < n PROVE m + 1 \in T
    <3>1. PICK g : \A i \in 0 .. m : g[i] = Step(g, i)
      BY <2>2
    <3> DEFINE h == [i \in 0 .. m + 1 |-> IF i = m + 1 THEN Step(g, m + 1) ELSE g[i]]
    <3>2. ASSUME NEW i \in 0 .. m + 1 PROVE h[i] = Step(h, i)
      <4>1. m \in Nat
        BY <1>1
      <4>2. CASE i = m + 1
        BY <4>1, <4>2
      <4>3. CASE i # m + 1
        <5>1. i \in 0 .. m /\ (i # 0 => i - 1 \in 0 .. m /\ i - 1 # m + 1)
          BY <4>1, <4>3
        <5>2. h[i] = g[i] /\ (i # 0 => h[i-1] = g[i-1])
          BY <4>1, <5>1
        <5> QED  BY <3>1, <5>1, <5>2
      <4> QED  BY <4>2, <4>3
    <3> HIDE DEF h, Step
    <3>3. m + 1 \in 0 .. n
      BY <1>1, <2>2
    <3> QED  BY <3>2, <3>3
  <2> HIDE DEF T
  <2>3. n \in T
    <3> HIDE DEF n
    <3>1. \A m \in 0 .. n : m \in T
      BY <1>1, <2>1, <2>2, UpTo
    <3> QED  BY <1>1, <3>1
  <2>4. PICK g : \A i \in 0 .. n : g[i] = Step(g, i)
    BY <2>3 DEF T
  <2> DEFINE f == [i \in 0 .. n |-> g[i]]
  <2>5. ASSUME NEW i \in 0 .. n PROVE f[i] = Step(f, i)
    <3>1. i # 0 => i - 1 \in 0 .. n
      BY <1>1
    <3>2. f[i] = g[i] /\ (i # 0 => f[i-1] = g[i-1])
      BY <3>1
    <3> QED  BY <2>4, <3>2
  <2>6. f = [i \in 0 .. n |-> Step(f, i)]
    <3> HIDE DEF Step
    <3>1. f = [i \in 0 .. n |-> f[i]]
      OBVIOUS
    <3> HIDE DEF f
    <3> QED  BY <2>5, <3>1
  <2> HIDE DEF f
  <2> QED  BY <2>6
<1>3. built = [i \in 0 .. n |-> Step(built, i)]
  <2> HIDE DEF Step
  <2> QED  BY <1>2, Zenon
<1>4. Configured(cfg, opts) = built[n]
  BY DEF Configured
<1> HIDE DEF built
<1>5. \A i \in 0 .. n : built[i] = Step(built, i)
  <2> HIDE DEF Step
  <2> QED  BY <1>3
<1>6. built[0] = cfg
  BY <1>1, <1>5
<1>7. \A i \in 1 .. n : built[i] = Option(built[i-1], opts[i])
  BY <1>1, <1>5
<1>8. BuildOf(built, cfg, opts)
  BY <1>4, <1>6, <1>7 DEF BuildOf
<1> QED  BY <1>8

\* The last option about x decides; what no option is about is inherited.
LEMMA ConfiguredSays ==
    ASSUME NEW cfg, IsConfig(cfg), NEW opts, AreOptions(opts)
    PROVE  /\ IsConfig(Configured(cfg, opts))
           /\ \A f \in Fields : \A x :
                 Says(f, Configured(cfg, opts)[f], x) =
                     IF About(opts, f, x) = {} THEN Says(f, cfg[f], x)
                     ELSE Effect(opts[LastAbout(opts, f, x)], f, x)
<1> DEFINE n == Len(opts)
<1>1. n \in Nat /\ DOMAIN opts = 1 .. n /\ \A i \in 1 .. n : IsOption(opts[i])
  BY DEF AreOptions, IsSlice
<1>2. PICK built :
         /\ Configured(cfg, opts) = built[n]
         /\ built[0] = cfg
         /\ \A i \in 1 .. n : built[i] = Option(built[i-1], opts[i])
  <2>1. PICK built : BuildOf(built, cfg, opts)
    BY Builds DEF AreOptions
  <2> QED  BY <2>1 DEF BuildOf
<1> HIDE DEF n
<1> DEFINE Decided(k, f, x) ==
              \/ /\ \A i \in About(opts, f, x) : ~(i <= k)
                 /\ Says(f, built[k][f], x) = Says(f, cfg[f], x)
              \/ \E i \in About(opts, f, x) :
                    /\ i <= k
                    /\ \A j \in About(opts, f, x) : j <= k => j <= i
                    /\ Says(f, built[k][f], x) = Effect(opts[i], f, x)
           T == {k \in 0 .. n : IsConfig(built[k]) /\ \A f \in Fields : \A x : Decided(k, f, x)}
<1>3. \A f, x : \A i \in About(opts, f, x) : i \in 1 .. n
  BY <1>1 DEF About
<1>4. 0 \in T
  <2>1. \A f, x : \A i \in About(opts, f, x) : ~(i <= 0)
    BY <1>1, <1>3
  <2> QED  BY <1>1, <1>2, <2>1
<1>5. ASSUME NEW k \in 0 .. n, k \in T, k < n PROVE k + 1 \in T
  <2> DEFINE opt == opts[k + 1]
  <2>1. k \in Nat /\ k + 1 \in 0 .. n /\ k + 1 \in 1 .. n /\ (k + 1) - 1 = k
    BY <1>1, <1>5
  <2>2. built[k + 1] = Option(built[k], opt) /\ IsOption(opt) /\ IsConfig(built[k])
    BY <1>1, <1>2, <1>5, <2>1
  <2>3. /\ IsConfig(built[k + 1])
        /\ \A f \in Fields : \A x :
              Says(f, built[k + 1][f], x) =
                  IF f = opt[2] /\ x \in Members(f, opt[3]) THEN Effect(opt, f, x)
                  ELSE Says(f, built[k][f], x)
    BY <2>2, OptionSays
  <2>4. ASSUME NEW f \in Fields, NEW x PROVE Decided(k + 1, f, x)
    <3> DEFINE A == About(opts, f, x)
    <3>1. \A i \in A : i \in Nat /\ (i <= k + 1 <=> i <= k \/ i = k + 1)
      BY <1>1, <1>3, <2>1
    <3>2. k + 1 \in A <=> f = opt[2] /\ x \in Members(f, opt[3])
      BY <1>1, <2>1 DEF About
    <3>3. CASE k + 1 \in A
      <4>1. Says(f, built[k + 1][f], x) = Effect(opts[k + 1], f, x)
        BY <2>3, <3>2, <3>3
      <4>2. \A j \in A : j <= k + 1 => j <= k + 1
        OBVIOUS
      <4> QED  BY <2>1, <3>3, <4>1, <4>2
    <3>4. CASE k + 1 \notin A
      <4>1. Says(f, built[k + 1][f], x) = Says(f, built[k][f], x)
        BY <2>3, <3>2, <3>4
      <4>2. \A i \in A : i <= k + 1 <=> i <= k
        BY <3>1, <3>4
      <4>3. Decided(k, f, x)
        BY <1>5
      <4> HIDE DEF A
      <4>4. CASE /\ \A i \in A : ~(i <= k)
                 /\ Says(f, built[k][f], x) = Says(f, cfg[f], x)
        BY <4>1, <4>2, <4>4 DEF A
      <4>5. CASE \E i \in A : /\ i <= k
                              /\ \A j \in A : j <= k => j <= i
                              /\ Says(f, built[k][f], x) = Effect(opts[i], f, x)
        BY <4>1, <4>2, <4>5 DEF A
      <4> QED  BY <4>3, <4>4, <4>5 DEF A
    <3> QED  BY <3>3, <3>4
  <2> HIDE DEF Decided
  <2> QED  BY <2>1, <2>3, <2>4
<1> HIDE DEF Decided, T
<1>6. n \in T
  <2>1. \A k \in 0 .. n : k \in T
    BY <1>1, <1>4, <1>5, UpTo
  <2> QED  BY <1>1, <2>1
<1>7. IsConfig(built[n]) /\ \A f \in Fields : \A x : Decided(n, f, x)
  BY <1>6 DEF T
<1>8. ASSUME NEW f \in Fields, NEW x
      PROVE  Says(f, built[n][f], x) =
                 IF About(opts, f, x) = {} THEN Says(f, cfg[f], x)
                 ELSE Effect(opts[LastAbout(opts, f, x)], f, x)
  <2> DEFINE A == About(opts, f, x)
  <2>1. \A i \in A : i \in Nat /\ i <= n
    BY <1>1, <1>3
  <2>2. CASE /\ \A i \in A : ~(i <= n)
             /\ Says(f, built[n][f], x) = Says(f, cfg[f], x)
    BY <2>1, <2>2
  <2>3. ASSUME NEW i \in A, \A j \in A : j <= n => j <= i,
               Says(f, built[n][f], x) = Effect(opts[i], f, x)
        PROVE  Says(f, built[n][f], x) = Effect(opts[LastAbout(opts, f, x)], f, x)
    <3>1. \A j \in A : j <= i
      BY <2>1, <2>3
    <3>2. \A j \in A : (\A l \in A : l <= j) => j = i
      BY <2>1, <3>1
    <3>3. LastAbout(opts, f, x) = i
      BY <3>1, <3>2 DEF LastAbout
    <3> QED  BY <2>3, <3>3
  <2> QED  BY <1>7, <2>2, <2>3 DEF Decided
<1> QED  BY <1>2, <1>7, <1>8

\* An operation says what it is configured to say.
LEMMA Operations ==
    ASSUME NEW cfg, IsConfig(cfg), NEW prev
    PROVE  /\ IsConfig(Config(Operation(cfg, prev)))
           /\ \A f \in Fields : Operation(cfg, prev)[f] = cfg[f]
<1>1. \A f \in Fields : Operation(cfg, prev)[f] = cfg[f]
  BY DEF Fields, Operation
<1>2. \A f \in Fields : Config(Operation(cfg, prev))[f] = cfg[f]
  BY <1>1 DEF Config
<1>3. DOMAIN Config(Operation(cfg, prev)) = Fields
  BY DEF Config
<1> QED  BY <1>1, <1>2, <1>3 DEF IsConfig

LEMMA Empties == IsConfig(Empty)
<1>1. IsSlice(<<>>)
  BY DEF IsSlice
<1>2. IsMap(<<>>)
  BY DEF IsMap
<1> QED  BY <1>1, <1>2 DEF IsConfig, Empty, Fields, WellFormed

LEMMA OptionLists == \A opts \in Changes \cup {<<>>} : AreOptions(opts)
<1>1. AreOptions(<<>>)
  BY DEF AreOptions, IsSlice
<1> QED  BY <1>1, ChangesAssumption DEF AreOptions, IsOption
-----------------------------------------------------------------------------

\* What e may be as the operation after p, made with opts.
Successor(p, opts, e) ==
    e.op = NewOperationFromPrevious(p, opts) \/ e.op = NewTombstoneFromPrevious(p)

\* An operation derives its state from the one it follows in the log.
Linked ==
    \A i \in DOMAIN log :
        /\ i = 1 => log[i].op.prev = NoLink
        /\ i > 1 => /\ ~IsTombstone(log[i-1])
                    /\ log[i].op.prev = Cid(log[i-1])
                    /\ Successor(log[i-1], made[i], log[i])

\* Every operation says something of each field.
Complete == \A i \in DOMAIN log : ~IsTombstone(log[i]) => IsConfig(Config(log[i].op))

Distinct == \A i, j \in DOMAIN log : log[i] = log[j] => i = j

\* What a client has signed, whether or not the directory ever takes it.
Drafted(e, opts) ==
    /\ ~IsTombstone(e) => e.op.keys # <<>> /\ IsConfig(Config(e.op))
    /\ \/ e.op.prev = NoLink
       \/ \E i \in DOMAIN log :
             /\ ~IsTombstone(log[i])
             /\ e.op.prev = Cid(log[i])
             /\ Successor(log[i], opts, e)

Drafts ==
    /\ \A c \in Client : Holds(c) => Drafted(signed[c], options[c])
    /\ \A m \in wire : Drafted(m.e, m.opts) /\ m.opts \in Changes \cup {<<>>}

Fetched ==
    \A c \in Client : pc[c] = "has last" =>
        \E i \in DOMAIN log : last[c] = log[i] /\ ~IsTombstone(log[i])

\* The request a client waits for is for the operation it holds.
Waiting ==
    \A m \in wire : pc[m.from] = "posting" /\ tries[m.from] = m.try + 1 => m.e = signed[m.from]

Published == \A c \in Client : told[c] = "ok" => \E i \in DOMAIN log : log[i] = signed[c]

LogInv ==
    /\ OTypeOK /\ Linked /\ Distinct /\ AlwaysControlled /\ Complete
    /\ Drafts /\ Fetched /\ Waiting /\ Published
-----------------------------------------------------------------------------
LEMMA Appending ==
    ASSUME NEW s, s \in Seq(ToSet(s)), NEW e
    PROVE  /\ Append(s, e) \in Seq(ToSet(Append(s, e)))
           /\ Len(s) \in Nat /\ DOMAIN s = 1 .. Len(s)
           /\ Len(Append(s, e)) = Len(s) + 1
           /\ DOMAIN Append(s, e) = 1 .. Len(s) + 1
           /\ Append(s, e)[Len(s) + 1] = e
           /\ \A i \in 1 .. Len(s) : Append(s, e)[i] = s[i]
<1> DEFINE S == ToSet(s) \cup {e}
           t == Append(s, e)
<1>1. s \in Seq(S)
  BY DEF ToSet
<1>2. t \in Seq(S) /\ Len(t) = Len(s) + 1 /\ DOMAIN t = 1 .. Len(s) + 1
      /\ t[Len(s) + 1] = e /\ \A i \in 1 .. Len(s) : t[i] = s[i]
  BY <1>1
<1>3. \A i \in 1 .. Len(t) : t[i] \in ToSet(t)
  BY <1>2 DEF ToSet
<1>4. t \in Seq(ToSet(t))
  BY <1>2, <1>3
<1> QED  BY <1>2, <1>4

LEMMA NonEmpty ==
    ASSUME NEW s, s \in Seq(ToSet(s)), s # <<>>
    PROVE  Len(s) \in Nat /\ Len(s) \in DOMAIN s
<1> DEFINE S == ToSet(s)
<1>1. s \in Seq(S)
  OBVIOUS
<1> HIDE DEF S
<1> QED  BY <1>1

LEMMA LogLength ==
    ASSUME LogInv
    PROVE  /\ Len(log) \in Nat /\ DOMAIN log = 1 .. Len(log)
           /\ log # <<>> => Len(log) \in DOMAIN log
<1>1. log \in Seq(ToSet(log))
  BY DEF LogInv, OTypeOK
<1> QED  BY <1>1, Appending, NonEmpty

\* A CID is the CID of one operation.
LEMMA Links == \A x, y : (Cid(x) = Cid(y) => x = y) /\ Cid(x) # NoLink
<1> SUFFICES ASSUME NEW x, NEW y PROVE (Cid(x) = Cid(y) => x = y) /\ Cid(x) # NoLink
  OBVIOUS
<1>1. Cid(x)[1] = x /\ Cid(y)[1] = y /\ Len(Cid(x)) = 1 /\ Len(NoLink) = 0
  BY DEF Cid, NoLink
<1> QED  BY <1>1

LEMMA Counted ==
    ASSUME OTypeOK
    PROVE  /\ MaxTries \in Nat
           /\ \A c \in Client : tries[c] \in Nat /\ tries[c] <= MaxTries
           /\ \A m \in wire : m.from \in Client /\ m.try \in Nat /\ m.try < tries[m.from]
<1>1. \A c \in Client : tries[c] \in 0 .. MaxTries
  BY DEF OTypeOK
<1>2. \A m \in wire : m.from \in Client /\ m.try \in 0 .. MaxTries /\ m.try < tries[m.from]
  BY DEF OTypeOK
<1>3. \A c \in Client : tries[c] \in Nat /\ tries[c] <= MaxTries
  BY <1>1, MaxAssumption
<1> QED  BY <1>2, <1>3, MaxAssumption

\* A client that makes a request, or does not, has made no fewer.
LEMMA Rising ==
    ASSUME OTypeOK, NEW c \in Client,
           tries' = tries \/ (tries[c] < MaxTries /\ tries' = [tries EXCEPT ![c] = @ + 1])
    PROVE  /\ tries' \in [Client -> 0 .. MaxTries]
           /\ \A d \in Client : tries'[d] \in Nat /\ tries[d] <= tries'[d]
           /\ tries' # tries => tries'[c] = tries[c] + 1
<1>1. ASSUME NEW d \in Client
      PROVE  tries'[d] \in 0 .. MaxTries /\ tries'[d] \in Nat /\ tries[d] <= tries'[d]
  <2>1. MaxTries \in Nat /\ tries[d] \in Nat /\ tries[d] <= MaxTries
    BY Counted
  <2>2. tries'[d] = tries[d] \/ (tries[d] < MaxTries /\ tries'[d] = tries[d] + 1)
    BY DEF OTypeOK
  <2> QED  BY <2>1, <2>2
<1>2. tries' = [d \in Client |-> tries'[d]]
  BY DEF OTypeOK
<1>3. tries' # tries => tries'[c] = tries[c] + 1
  BY DEF OTypeOK
<1> QED  BY <1>1, <1>2, <1>3

\* The requests on the wire have been made.
LEMMA WireStep ==
    ASSUME OTypeOK, NEW c \in Client,
           tries' = tries \/ (tries[c] < MaxTries /\ tries' = [tries EXCEPT ![c] = @ + 1]),
           NEW m,
           m \in wire \/ (m.from = c /\ m.try = tries[c] /\ tries' # tries)
    PROVE  m.from \in Client /\ m.try \in 0 .. MaxTries /\ m.try < tries'[m.from]
<1> DEFINE d == m.from
           n == m.try
<1>1. d \in Client /\ n \in Nat /\ n <= tries[d] /\ (n < tries[d] \/ tries'[d] = tries[d] + 1)
  BY Counted, Rising
<1>2. tries[d] \in Nat /\ tries[d] <= MaxTries /\ MaxTries \in Nat /\ tries'[d] \in Nat
      /\ tries[d] <= tries'[d]
  BY <1>1, Counted, Rising
<1> HIDE DEF d, n
<1>3. n \in 0 .. MaxTries /\ n < tries'[d]
  BY <1>1, <1>2
<1> QED  BY <1>1, <1>3 DEF d, n

\* The steps of a client c, and of the directory answering it, keep the types.
LEMMA TypeStep ==
    ASSUME OTypeOK, NEW c \in Client,
           NEW p \in {"idle", "has last", "signed", "posting", "stopped"},
           NEW t \in {"nothing", "error", "ok", "deactivated"},
           t = "error" => p \in {"idle", "signed"}, t = "ok" => p = "signed",
           t = "deactivated" <=> p = "stopped",
           pc' = [pc EXCEPT ![c] = p], told' = [told EXCEPT ![c] = t],
           tries' = tries \/ (tries[c] < MaxTries /\ tries' = [tries EXCEPT ![c] = @ + 1]),
           \A m \in wire' : m \in wire \/ (m.from = c /\ m.try = tries[c] /\ tries' # tries),
           log' \in Seq(ToSet(log')), made' \in Seq(Changes \cup {<<>>}), Len(made') = Len(log'),
           DOMAIN last' = Client, DOMAIN signed' = Client,
           options' \in [Client -> Changes \cup {<<>>}]
    PROVE  OTypeOK'
<1>1. tries' \in [Client -> 0 .. MaxTries]
  BY Rising
<1>2. \A m \in wire' : m.from \in Client /\ m.try \in 0 .. MaxTries /\ m.try < tries'[m.from]
  BY WireStep
<1>3. pc' \in [Client -> {"idle", "has last", "signed", "posting", "stopped"}]
      /\ told' \in [Client -> {"nothing", "error", "ok", "deactivated"}]
  BY DEF OTypeOK
<1>4. \A d \in Client : /\ told'[d] = "error" => pc'[d] \in {"idle", "signed"}
                       /\ told'[d] = "ok" => pc'[d] = "signed"
                       /\ told'[d] = "deactivated" <=> pc'[d] = "stopped"
  BY DEF OTypeOK
<1> QED  BY <1>1, <1>2, <1>3, <1>4 DEF OTypeOK

LEMMA OInitLogInv == OInit => LogInv
<1> SUFFICES ASSUME OInit PROVE LogInv
  OBVIOUS
<1>1. OTypeOK
  <2>1. 0 \in 0 .. MaxTries
    BY MaxAssumption
  <2> QED  BY <2>1 DEF OInit, OTypeOK
<1>2. DOMAIN log = {}
  BY DEF OInit
<1> QED
  BY <1>1, <1>2 DEF OInit, LogInv, Linked, Distinct, AlwaysControlled, Complete, Drafts,
     Holds, Fetched, Waiting, Published

\* The parts that only speak of the log stay when it does not change.
LEMMA SameLog ==
    ASSUME LogInv, UNCHANGED <<log, made>>
    PROVE  Linked' /\ Distinct' /\ AlwaysControlled' /\ Complete' /\
           \A e, opts : Drafted(e, opts) => Drafted(e, opts)'
BY DEF LogInv, Linked, Distinct, AlwaysControlled, Complete, Drafted, Successor, IsTombstone,
   Cid, NoLink,
   NewOperationFromPrevious, NewTombstoneFromPrevious

LEMMA ErrsKeeps ==
    ASSUME LogInv, NEW c \in Client, Errs(c), UNCHANGED <<log, made, wire>>,
           tries' = tries \/ (tries[c] < MaxTries /\ tries' = [tries EXCEPT ![c] = @ + 1])
    PROVE  LogInv'
<1> USE DEF LogInv, Errs
<1>1. OTypeOK'
  BY TypeStep, Counted DEF OTypeOK
<1>2. Drafts'
  BY SameLog DEF Drafts, Holds, OTypeOK
<1>3. Fetched' /\ Published'
  BY DEF Fetched, Published, OTypeOK
<1>4. Waiting'
  BY DEF Waiting, OTypeOK
<1> QED  BY <1>1, <1>2, <1>3, <1>4, SameLog

LEMMA DraftKeeps ==
    ASSUME LogInv, NEW c \in Client, NEW opts \in Changes \cup {<<>>}, NEW e, Draft(c, opts, e),
           Drafted(e, opts), UNCHANGED <<log, made, tries, wire>>
    PROVE  LogInv'
<1> USE DEF LogInv, Draft
<1>1. OTypeOK'
  BY DEF OTypeOK
<1>2. Drafts'
  BY SameLog DEF Drafts, Holds, OTypeOK
<1>3. Fetched' /\ Published'
  BY DEF Fetched, Published, OTypeOK
<1>4. Waiting'
  BY DEF Waiting, OTypeOK
<1> QED  BY <1>1, <1>2, <1>3, <1>4, SameLog

LEMMA NewKeeps == \A c \in Client, opts \in Changes : LogInv /\ New(c, opts) => LogInv'
<1> SUFFICES ASSUME NEW c \in Client, NEW opts \in Changes, LogInv, New(c, opts) PROVE LogInv'
  OBVIOUS
<1> DEFINE cfg == Configured(Empty, opts)
           e == Sign(KeyOf[c], Operation(cfg, NoLink))
<1>1. CASE HasKeys(cfg)
  <2>1. Draft(c, opts, e) /\ UNCHANGED <<log, made, tries, wire>>
    BY <1>1 DEF New
  <2>2. e.op = Operation(cfg, NoLink)
    BY DEF Sign
  <2>3. e.op.keys # <<>> /\ e.op.prev = NoLink
    BY <1>1, <2>2 DEF Operation, HasKeys
  <2>4. IsConfig(cfg)
    BY Empties, OptionLists, ConfiguredSays
  <2>5. IsConfig(Config(e.op))
    BY <2>2, <2>4, Operations
  <2> HIDE DEF e, cfg
  <2>6. Drafted(e, opts)
    BY <2>3, <2>5 DEF Drafted
  <2> QED  BY <2>1, <2>6, DraftKeeps
<1>2. CASE ~HasKeys(cfg)
  BY <1>2, ErrsKeeps DEF New, LogInv, OTypeOK
<1> QED  BY <1>1, <1>2

LEMMA FetchLastKeeps == \A c \in Client : LogInv /\ FetchLast(c) => LogInv'
<1> SUFFICES ASSUME NEW c \in Client, LogInv, FetchLast(c) PROVE LogInv'
  OBVIOUS
<1>0. tries[c] < MaxTries /\ tries' = [tries EXCEPT ![c] = @ + 1]
      /\ UNCHANGED <<log, made, wire>>
  BY DEF FetchLast
<1>1. CASE Errs(c)
  BY <1>0, <1>1, ErrsKeeps
<1>2. CASE /\ log # <<>>
           /\ pc' = [pc EXCEPT ![c] = "stopped"]
           /\ told' = [told EXCEPT ![c] = "deactivated"]
           /\ UNCHANGED <<last, options, signed>>
  <2>1. OTypeOK'
    <3> DEFINE p == "stopped"
               t == "deactivated"
    <3> QED  BY <1>0, <1>2, TypeStep DEF OTypeOK, LogInv
  <2>2. Drafts' /\ Waiting'
    BY <1>0, <1>2, SameLog DEF Drafts, Waiting, Holds, OTypeOK, LogInv
  <2>3. Fetched' /\ Published'
    BY <1>0, <1>2 DEF Fetched, Published, OTypeOK, LogInv
  <2> QED  BY <1>0, <2>1, <2>2, <2>3, SameLog DEF LogInv
<1>3. CASE /\ log # <<>>
           /\ ~IsTombstone(Newest)
           /\ last' = [last EXCEPT ![c] = Newest]
           /\ pc' = [pc EXCEPT ![c] = "has last"]
           /\ told' = [told EXCEPT ![c] = "nothing"]
           /\ UNCHANGED <<options, signed>>
  <2>1. OTypeOK'
    <3> DEFINE p == "has last"
               t == "nothing"
    <3> QED  BY <1>0, <1>3, TypeStep DEF OTypeOK, LogInv
  <2>2. Drafts' /\ Waiting'
    BY <1>0, <1>3, SameLog DEF Drafts, Waiting, Holds, OTypeOK, LogInv
  <2>3. Len(log) \in DOMAIN log
    BY <1>3, NonEmpty DEF LogInv, OTypeOK
  <2>4. Fetched'
    BY <1>0, <1>3, <2>3 DEF Fetched, LogInv, OTypeOK, Newest, IsTombstone
  <2>5. Published'
    BY <1>0, <1>3 DEF Published, OTypeOK, LogInv
  <2> QED  BY <1>0, <2>1, <2>2, <2>4, <2>5, SameLog DEF LogInv
<1> QED  BY <1>1, <1>2, <1>3 DEF FetchLast

LEMMA DeriveKeeps == \A c \in Client, opts \in Changes : LogInv /\ Derive(c, opts) => LogInv'
<1> SUFFICES ASSUME NEW c \in Client, NEW opts \in Changes, LogInv, Derive(c, opts) PROVE LogInv'
  OBVIOUS
<1> DEFINE cfg == Configured(Config(last[c].op), opts)
           e == Sign(KeyOf[c], NewOperationFromPrevious(last[c], opts))
<1>1. CASE HasKeys(cfg)
  <2>1. Draft(c, opts, e) /\ UNCHANGED <<log, made, tries, wire>>
    BY <1>1 DEF Derive
  <2>2. e.op = NewOperationFromPrevious(last[c], opts)
    BY DEF Sign
  <2>3. e.op.keys # <<>> /\ e.op.prev = Cid(last[c])
    BY <1>1, <2>2 DEF NewOperationFromPrevious, Operation, HasKeys
  <2>4. PICK i \in DOMAIN log : last[c] = log[i] /\ ~IsTombstone(log[i])
    BY DEF Derive, LogInv, Fetched
  <2>5. IsConfig(cfg)
    BY <2>4, OptionLists, ConfiguredSays DEF LogInv, Complete
  <2>6. IsConfig(Config(e.op))
    BY <2>2, <2>5, Operations DEF NewOperationFromPrevious
  <2> HIDE DEF e, cfg
  <2>7. Drafted(e, opts)
    BY <2>2, <2>3, <2>4, <2>6 DEF Drafted, Successor
  <2> QED  BY <2>1, <2>7, DraftKeeps
<1>2. CASE ~HasKeys(cfg)
  BY <1>2, ErrsKeeps DEF Derive, LogInv, OTypeOK
<1> QED  BY <1>1, <1>2

LEMMA DeriveTombstoneKeeps == \A c \in Client : LogInv /\ DeriveTombstone(c) => LogInv'
<1> SUFFICES ASSUME NEW c \in Client, LogInv, DeriveTombstone(c) PROVE LogInv'
  OBVIOUS
<1> DEFINE e == Sign(KeyOf[c], NewTombstoneFromPrevious(last[c]))
<1>1. Draft(c, <<>>, e) /\ UNCHANGED <<log, made, tries, wire>>
  BY DEF DeriveTombstone
<1>2. e.op = NewTombstoneFromPrevious(last[c])
  BY DEF Sign
<1>3. IsTombstone(e) /\ e.op.prev = Cid(last[c])
  BY <1>2 DEF NewTombstoneFromPrevious, IsTombstone
<1>4. PICK i \in DOMAIN log : last[c] = log[i] /\ ~IsTombstone(log[i])
  BY DEF DeriveTombstone, LogInv, Fetched
<1> HIDE DEF e
<1>5. Drafted(e, <<>>)
  BY <1>2, <1>3, <1>4 DEF Drafted, Successor
<1> QED  BY <1>1, <1>5, DraftKeeps

LEMMA PostKeeps == \A c \in Client : LogInv /\ Post(c) => LogInv'
<1> SUFFICES ASSUME NEW c \in Client, LogInv, Post(c) PROVE LogInv'
  OBVIOUS
<1> DEFINE m == [from |-> c, try |-> tries[c], e |-> signed[c], opts |-> options[c]]
<1>1. tries[c] \in Nat /\ tries' # tries
  <2>1. tries'[c] = tries[c] + 1
    BY DEF Post, LogInv, OTypeOK
  <2> QED  BY <2>1, Counted DEF LogInv
<1>2. OTypeOK'
  <2>1. \A x \in wire' : x \in wire \/ (x.from = c /\ x.try = tries[c])
    BY DEF Post
  <2> QED  BY <1>1, <2>1, TypeStep DEF Post, LogInv, OTypeOK
<1>3. Drafts'
  <2>1. Drafted(m.e, m.opts)' /\ m.opts \in Changes \cup {<<>>}
    BY SameLog DEF Post, LogInv, Drafts, Holds, OTypeOK
  <2>2. \A x \in wire : Drafted(x.e, x.opts)' /\ x.opts \in Changes \cup {<<>>}
    BY SameLog DEF Post, LogInv, Drafts
  <2>3. \A x \in wire' : Drafted(x.e, x.opts)' /\ x.opts \in Changes \cup {<<>>}
    BY <2>1, <2>2 DEF Post
  <2>4. \A d \in Client : Holds(d)' => Drafted(signed[d], options[d])'
    BY SameLog DEF Post, LogInv, Drafts, Holds, OTypeOK
  <2> QED  BY <2>3, <2>4 DEF Post, Drafts
<1>4. Fetched' /\ Published'
  BY DEF Post, Fetched, Published, OTypeOK, LogInv
<1>5. Waiting'
  <2>1. m.e = signed'[m.from]
    BY DEF Post
  <2>2. ASSUME NEW x \in wire, pc'[x.from] = "posting", tries'[x.from] = x.try + 1
        PROVE  x.e = signed'[x.from]
    <3>1. CASE x.from = c
      <4>1. tries'[c] = tries[c] + 1 /\ x.try \in Nat /\ x.try < tries[c]
        BY <2>2, <3>1, Counted DEF Post, LogInv, OTypeOK
      <4> QED  BY <1>1, <2>2, <3>1, <4>1
    <3>2. CASE x.from # c
      BY <2>2, <3>2 DEF Post, LogInv, OTypeOK, Waiting
    <3> QED  BY <3>1, <3>2
  <2> QED  BY <2>1, <2>2 DEF Post, Waiting
<1>6. UNCHANGED <<log, made>>
  BY DEF Post
<1> QED  BY <1>2, <1>3, <1>4, <1>5, <1>6, SameLog DEF LogInv

LEMMA GiveUpKeeps == \A c \in Client : LogInv /\ GiveUp(c) => LogInv'
<1> SUFFICES ASSUME NEW c \in Client, LogInv, GiveUp(c) PROVE LogInv'
  OBVIOUS
<1> USE DEF GiveUp, LogInv
<1>1. OTypeOK'
  BY TypeStep DEF OTypeOK
<1>2. Drafts'
  BY SameLog DEF Drafts, Holds, OTypeOK
<1>3. Fetched' /\ Published' /\ Waiting'
  BY DEF Fetched, Published, Waiting, OTypeOK
<1> QED  BY <1>1, <1>2, <1>3, SameLog

\* The steps that take a request from the wire and leave the log alone.
LEMMA DroppedKeeps ==
    ASSUME LogInv, NEW m \in wire, wire' = wire \ {m},
           Answered(m, "error") \/ UNCHANGED <<pc, told>>,
           UNCHANGED <<log, made, last, options, signed, tries>>
    PROVE  LogInv'
<1>0. m.from \in Client
  BY DEF LogInv, OTypeOK
<1>1. CASE UNCHANGED <<pc, told>>
  <2>1. OTypeOK'
    BY <1>1 DEF LogInv, OTypeOK
  <2>2. Drafts'
    BY <1>1, SameLog DEF LogInv, Drafts, Holds, OTypeOK
  <2>3. Fetched' /\ Published' /\ Waiting'
    BY <1>1 DEF LogInv, Fetched, Published, Waiting
  <2> QED  BY <2>1, <2>2, <2>3, SameLog DEF LogInv
<1>2. CASE /\ pc[m.from] = "posting"
           /\ pc' = [pc EXCEPT ![m.from] = "signed"]
           /\ told' = [told EXCEPT ![m.from] = "error"]
  <2>1. OTypeOK'
    BY <1>0, <1>2, TypeStep DEF LogInv, OTypeOK
  <2>2. Drafts'
    BY <1>2, SameLog DEF LogInv, Drafts, Holds, OTypeOK
  <2>3. Fetched' /\ Published'
    BY <1>0, <1>2 DEF LogInv, Fetched, Published, OTypeOK
  <2>4. Waiting'
    BY <1>0, <1>2 DEF LogInv, Waiting, OTypeOK
  <2> QED  BY <2>1, <2>2, <2>3, <2>4, SameLog DEF LogInv
<1> QED  BY <1>1, <1>2 DEF Answered

\* What the log holds is in it once and follows what was its last operation.
LEMMA TakeExtends ==
    \A m \in wire : LogInv /\ Take(m) => (Linked /\ Distinct /\ AlwaysControlled /\ Complete)'
<1> SUFFICES ASSUME NEW m \in wire, LogInv, Take(m)
             PROVE  (Linked /\ Distinct /\ AlwaysControlled /\ Complete)'
  OBVIOUS
<1> DEFINE n == Len(log)
           e == m.e
<1>1. /\ n \in Nat /\ DOMAIN log = 1 .. n /\ DOMAIN log' = 1 .. n + 1 /\ log'[n + 1] = e
      /\ \A i \in 1 .. n : log'[i] = log[i]
  <2>1. log \in Seq(ToSet(log)) /\ log' = Append(log, e)
    BY DEF Take, LogInv, OTypeOK
  <2> HIDE DEF e
  <2> QED  BY <2>1, Appending
<1>2. made'[n + 1] = m.opts /\ \A i \in 1 .. n : made'[i] = made[i]
  <2>1. made \in Seq(Changes \cup {<<>>}) /\ Len(made) = n /\ made' = Append(made, m.opts)
    BY DEF Take, LogInv, OTypeOK
  <2>2. m.opts \in Changes \cup {<<>>}
    BY DEF LogInv, Drafts
  <2> QED  BY <2>1, <2>2
<1>3. Drafted(e, m.opts) /\ (n = 0 => e.op.prev = NoLink /\ ~IsTombstone(e))
      /\ (n > 0 => ~IsTombstone(log[n]) /\ e.op.prev = Cid(log[n]))
  <2>1. (log = <<>>) <=> (n = 0)
    <3>1. log \in Seq(ToSet(log)) /\ Len(<<>>) = 0
      BY DEF LogInv, OTypeOK
    <3>2. log # <<>> => n \in 1 .. n
      BY <1>1, <3>1, NonEmpty
    <3> QED  BY <1>1, <3>1, <3>2
  <2> QED  BY <1>1, <2>1 DEF Take, Accepts, Newest, LogInv, Drafts, IsTombstone
<1>4. n > 0 => Successor(log[n], m.opts, e)
  <2> SUFFICES ASSUME n > 0 PROVE Successor(log[n], m.opts, e)
    OBVIOUS
  <2>1. e.op.prev = Cid(log[n]) /\ e.op.prev # NoLink
    BY <1>3, Links
  <2>2. PICK i \in DOMAIN log : e.op.prev = Cid(log[i]) /\ Successor(log[i], m.opts, e)
    BY <1>3, <2>1 DEF Drafted
  <2>3. log[i] = log[n]
    BY <2>1, <2>2, Links
  <2> QED  BY <2>2, <2>3
<1>5. \A i \in 1 .. n : log[i] # e
  <2> SUFFICES ASSUME NEW i \in 1 .. n, log[i] = e PROVE FALSE
    OBVIOUS
  <2>1. CASE i = 1
    <3>1. e.op.prev = NoLink /\ n > 0
      BY <1>1, <2>1 DEF LogInv, Linked
    <3> QED  BY <1>3, <3>1, Links
  <2>2. CASE i > 1
    <3>1. e.op.prev = Cid(log[i-1]) /\ e.op.prev = Cid(log[n])
      BY <1>1, <1>3, <2>2 DEF LogInv, Linked
    <3>2. log[i-1] = log[n]
      BY <3>1, Links
    <3>3. i - 1 \in DOMAIN log /\ n \in DOMAIN log /\ i - 1 # n
      BY <1>1, <2>2
    <3> QED  BY <3>2, <3>3 DEF LogInv, Distinct
  <2> QED  BY <1>1, <2>1, <2>2
<1> HIDE DEF n, e
<1>6. Distinct'
  BY <1>1, <1>5 DEF LogInv, Distinct
<1>7. AlwaysControlled'
  BY <1>1, <1>3 DEF LogInv, AlwaysControlled, Drafted, IsTombstone
<1>9. Complete'
  BY <1>1, <1>3 DEF LogInv, Complete, Drafted, IsTombstone
<1>8. Linked'
  <2> SUFFICES ASSUME NEW i \in 1 .. n + 1
               PROVE  /\ i = 1 => log'[i].op.prev = NoLink
                      /\ i > 1 => /\ ~IsTombstone(log'[i-1])
                                  /\ log'[i].op.prev = Cid(log'[i-1])
                                  /\ Successor(log'[i-1], made'[i], log'[i])
    BY <1>1 DEF Linked, Successor, Cid, NoLink, IsTombstone, NewOperationFromPrevious,
       NewTombstoneFromPrevious
  <2>1. CASE i \in 1 .. n
    <3>1. log'[i] = log[i] /\ made'[i] = made[i] /\ (i > 1 => log'[i-1] = log[i-1])
      BY <1>1, <1>2, <2>1
    <3> QED  BY <1>1, <2>1, <3>1 DEF LogInv, Linked
  <2>2. CASE i = n + 1
    <3>1. log'[i] = e /\ made'[i] = m.opts /\ (i > 1 => log'[i-1] = log[n] /\ n > 0)
          /\ (i = 1 => n = 0)
      BY <1>1, <1>2, <2>2
    <3> QED  BY <1>3, <1>4, <3>1
  <2> QED  BY <1>1, <2>1, <2>2
<1> QED  BY <1>6, <1>7, <1>8, <1>9

\* What a client has fetched stays in the log.
LEMMA FetchedKept ==
    ASSUME Fetched, UNCHANGED last,
           \A i \in DOMAIN log : i \in DOMAIN log' /\ log'[i] = log[i],
           \A c \in Client : pc'[c] = "has last" => pc[c] = "has last"
    PROVE  Fetched'
<1> SUFFICES ASSUME NEW c \in Client, pc'[c] = "has last"
             PROVE  \E i \in DOMAIN log' : last[c] = log'[i] /\ ~IsTombstone(log'[i])
  BY DEF Fetched, IsTombstone
<1>1. PICK i \in DOMAIN log : last[c] = log[i] /\ ~IsTombstone(log[i])
  BY DEF Fetched
<1>2. i \in DOMAIN log' /\ log'[i] = log[i]
  OBVIOUS
<1> QED  BY <1>1, <1>2

LEMMA TakeKeeps == \A m \in wire : LogInv /\ Take(m) => LogInv'
<1> SUFFICES ASSUME NEW m \in wire, LogInv, Take(m) PROVE LogInv'
  OBVIOUS
<1>0. m.from \in Client
  BY DEF LogInv, OTypeOK
<1>1. log' \in Seq(ToSet(log')) /\ Len(log') = Len(log) + 1 /\ m.e = log'[Len(log) + 1]
      /\ Len(log) + 1 \in DOMAIN log'
      /\ \A i \in DOMAIN log : i \in DOMAIN log' /\ log'[i] = log[i]
  <2>1. log \in Seq(ToSet(log)) /\ log' = Append(log, m.e)
    BY DEF Take, LogInv, OTypeOK
  <2> QED  BY <2>1, Appending
<1>2. made' \in Seq(Changes \cup {<<>>}) /\ Len(made') = Len(log')
  <2>1. m.opts \in Changes \cup {<<>>}
    BY DEF LogInv, Drafts
  <2>2. made \in Seq(Changes \cup {<<>>}) /\ Len(made) = Len(log) /\ made' = Append(made, m.opts)
    BY DEF Take, LogInv, OTypeOK
  <2> QED  BY <1>1, <2>1, <2>2
<1>3. \A x, opts : Drafted(x, opts) => Drafted(x, opts)'
  BY <1>1 DEF Drafted, Successor, IsTombstone, Cid, NoLink, NewOperationFromPrevious,
     NewTombstoneFromPrevious
<1>4. CASE UNCHANGED <<pc, told>>
  <2>1. OTypeOK'
    <3>1. wire' \subseteq wire /\ UNCHANGED <<last, options, signed, tries>>
      BY DEF Take
    <3> QED  BY <1>1, <1>2, <1>4, <3>1 DEF LogInv, OTypeOK
  <2>2. Drafts'
    BY <1>3, <1>4 DEF Take, LogInv, Drafts, Holds
  <2>3. Fetched'
    BY <1>1, <1>4, FetchedKept DEF Take, LogInv
  <2>4. Published'
    <3> SUFFICES ASSUME NEW c \in Client, told[c] = "ok"
                 PROVE  \E i \in DOMAIN log' : log'[i] = signed[c]
      BY <1>4 DEF Take, Published
    <3>1. PICK i \in DOMAIN log : log[i] = signed[c]
      BY DEF LogInv, Published
    <3> QED  BY <1>1, <3>1
  <2>5. Waiting'
    BY <1>4 DEF Take, LogInv, Waiting
  <2> QED  BY <2>1, <2>2, <2>3, <2>4, <2>5, TakeExtends DEF LogInv
<1>5. CASE /\ pc[m.from] = "posting" /\ tries[m.from] = m.try + 1
           /\ pc' = [pc EXCEPT ![m.from] = "signed"]
           /\ told' = [told EXCEPT ![m.from] = "ok"]
  <2>1. OTypeOK'
    <3>1. wire' \subseteq wire /\ UNCHANGED <<last, options, signed, tries>>
      BY DEF Take
    <3> QED  BY <1>0, <1>1, <1>2, <1>5, <3>1, TypeStep DEF LogInv, OTypeOK
  <2>2. Drafts'
    BY <1>0, <1>3, <1>5 DEF Take, LogInv, Drafts, Holds, OTypeOK
  <2>3. Fetched'
    <3>1. \A c \in Client : pc'[c] = "has last" => pc[c] = "has last"
      BY <1>0, <1>5 DEF LogInv, OTypeOK
    <3> QED  BY <1>1, <3>1, FetchedKept DEF Take, LogInv
  <2>4. Waiting'
    BY <1>0, <1>5 DEF Take, LogInv, Waiting, OTypeOK
  <2>5. Published'
    <3>1. m.e = signed[m.from] /\ signed' = signed
      BY <1>5 DEF Take, LogInv, Waiting
    <3> SUFFICES ASSUME NEW c \in Client, told'[c] = "ok"
                 PROVE  \E i \in DOMAIN log' : log'[i] = signed[c]
      BY <3>1 DEF Published
    <3>2. CASE c = m.from
      BY <1>1, <3>1, <3>2
    <3>3. CASE c # m.from
      <4>1. told[c] = "ok"
        BY <1>0, <1>5, <3>3 DEF LogInv, OTypeOK
      <4>2. PICK i \in DOMAIN log : log[i] = signed[c]
        BY <4>1 DEF LogInv, Published
      <4> QED  BY <1>1, <4>2
    <3> QED  BY <3>2, <3>3
  <2> QED  BY <2>1, <2>2, <2>3, <2>4, <2>5, TakeExtends DEF LogInv
<1> QED  BY <1>4, <1>5 DEF Take, Answered

LEMMA LogStutters == LogInv /\ UNCHANGED ovars => LogInv'
<1> SUFFICES ASSUME LogInv, UNCHANGED ovars PROVE LogInv'
  OBVIOUS
<1>1. OTypeOK'
  BY DEF ovars, LogInv, OTypeOK
<1>2. Drafts'
  BY SameLog DEF ovars, LogInv, Drafts, Holds
<1>3. Fetched' /\ Published' /\ Waiting'
  BY DEF ovars, LogInv, Fetched, Published, Waiting
<1> QED  BY <1>1, <1>2, <1>3, SameLog DEF ovars, LogInv

LEMMA NextKeeps == LogInv /\ [ONext]_ovars => LogInv'
<1> SUFFICES ASSUME LogInv, [ONext]_ovars PROVE LogInv'
  OBVIOUS
<1>1. ASSUME NEW c \in Client, NEW opts \in Changes, New(c, opts) \/ Derive(c, opts)
      PROVE  LogInv'
  BY <1>1, NewKeeps, DeriveKeeps
<1>2. ASSUME NEW c \in Client, FetchLast(c) \/ DeriveTombstone(c) \/ Post(c) \/ GiveUp(c)
      PROVE  LogInv'
  BY <1>2, FetchLastKeeps, DeriveTombstoneKeeps, PostKeeps, GiveUpKeeps
<1>3. ASSUME NEW m \in wire, Take(m) PROVE LogInv'
  BY <1>3, TakeKeeps
<1>4. ASSUME NEW m \in wire, Refuse(m) \/ Lose(m) PROVE LogInv'
  BY <1>4, DroppedKeeps DEF Refuse, Lose
<1> QED  BY <1>1, <1>2, <1>3, <1>4, LogStutters DEF ONext

LEMMA LogInvariant == OSpec => []LogInv
BY OInitLogInv, NextKeeps, PTL DEF OSpec
-----------------------------------------------------------------------------
\* Every variable keeps its type.
THEOREM LogTypeCorrect == OSpec => []OTypeOK
BY LogInvariant, PTL DEF LogInv

\* An operation of the log is made from the one right before it, whatever was
\* posted in between: NewOperationFromPrevious with its author's options, or
\* a tombstone, which nothing follows (operation.go:18).
Inherited ==
    \A i \in DOMAIN log : i > 1 =>
        ~IsTombstone(log[i-1]) /\ Successor(log[i-1], made[i], log[i])

THEOREM InheritsFromBefore == OSpec => []Inherited
<1>1. LogInv => Inherited
  BY DEF LogInv, Linked, Inherited
<1> QED  BY LogInvariant, <1>1, PTL

\* No update is lost or undone (operation.go:14): for every list of options,
\* an operation says of a key, a name, a method or a service what the last
\* option about it says, and what the operation before said if there is none.
THEOREM UndoesNothing == OSpec => []NothingUndone
<1>1. LogInv => NothingUndone
  <2> SUFFICES ASSUME LogInv, NEW i \in 2 .. Len(log), ~IsTombstone(log[i]),
                      NEW f \in Fields, NEW x
               PROVE  Says(f, log[i].op[f], x) =
                          IF About(made[i], f, x) = {} THEN Says(f, log[i-1].op[f], x)
                          ELSE Effect(made[i][LastAbout(made[i], f, x)], f, x)
    BY DEF NothingUndone, Effect
  <2> DEFINE p == log[i-1]
             cfg == Configured(Config(p.op), made[i])
  <2>1. Len(log) \in Nat /\ DOMAIN log = 1 .. Len(log)
    BY LogLength
  <2>2. i \in DOMAIN log /\ i - 1 \in DOMAIN log /\ i > 1
    BY <2>1
  <2>3. ~IsTombstone(p) /\ Successor(p, made[i], log[i])
    BY <2>2 DEF LogInv, Linked
  <2>4. log[i].op = Operation(cfg, Cid(p))
    BY <2>3 DEF Successor, NewOperationFromPrevious, NewTombstoneFromPrevious, IsTombstone
  <2>5. IsConfig(Config(p.op)) /\ Config(p.op)[f] = p.op[f]
    BY <2>2, <2>3 DEF LogInv, Complete, Config
  <2>6. AreOptions(made[i])
    <3>1. made \in Seq(Changes \cup {<<>>}) /\ Len(made) = Len(log)
      BY DEF LogInv, OTypeOK
    <3>2. made[i] \in Changes \cup {<<>>}
      BY <2>1, <2>2, <3>1
    <3> QED  BY <3>2, OptionLists
  <2>7. /\ IsConfig(cfg)
        /\ Says(f, cfg[f], x) =
               IF About(made[i], f, x) = {} THEN Says(f, Config(p.op)[f], x)
               ELSE Effect(made[i][LastAbout(made[i], f, x)], f, x)
    BY <2>5, <2>6, ConfiguredSays
  <2>8. log[i].op[f] = cfg[f]
    BY <2>4, <2>7, Operations
  <2> QED  BY <2>5, <2>7, <2>8
<1> QED  BY LogInvariant, <1>1, PTL

\* As long as it is not deactivated, the DID has a rotation key.
THEOREM Controlled == OSpec => []AlwaysControlled
BY LogInvariant, PTL DEF LogInv

\* A successful Update or Deactivate has published its operation exactly once.
THEOREM PublishesOnce == OSpec => []PublishedOnce
<1>1. LogInv => PublishedOnce
  BY DEF LogInv, Published, Distinct, PublishedOnce
<1> QED  BY LogInvariant, <1>1, PTL

\* What is signed follows something in the log that is no tombstone.
THEOREM SignsOnTheLog == OSpec => []FollowsTheLog
<1>1. LogInv => FollowsTheLog
  BY DEF LogInv, Drafts, Drafted, FollowsTheLog
<1> QED  BY LogInvariant, <1>1, PTL
-----------------------------------------------------------------------------
\* What is shown of the writers alone and of the readers alone holds of them
\* together: all the theorems above.
THEOREM BothKept == DSpec => PSpec /\ OSpec
<1>1. DInit => PInit /\ OInit
  BY DEF DInit
<1>2. [DNext]_dvars => [PNext]_vars /\ [ONext]_ovars
  <2> SUFFICES ASSUME [DNext]_dvars PROVE [PNext]_vars /\ [ONext]_ovars
    OBVIOUS
  <2>1. CASE Writes
    BY <2>1 DEF Writes, ONext
  <2>2. ASSUME NEW m \in wire, Publish(m) PROVE [PNext]_vars /\ [ONext]_ovars
    BY <2>2, SubjectAssumption, PLCAssumption DEF Publish, PNext, ONext
  <2>3. CASE Reads
    BY <2>3 DEF Reads, PNext
  <2>4. CASE UNCHANGED dvars
    BY <2>4 DEF dvars
  <2> QED  BY <2>1, <2>2, <2>3, <2>4 DEF DNext
<1> QED  BY <1>1, <1>2, PTL DEF DSpec, PSpec, OSpec
-----------------------------------------------------------------------------
\* A document some answer of the directory was about: one of a DID that had
\* been created and was not deactivated.
Served(v) == v \in 1 .. Len(log) /\ ~IsTombstone(log[v])

\* The version of the document is the length of the log.
Counts == current[Subject] = Len(log)

\* What a call holds of the directory's answer, and what it has returned.
Answered200(c) == reply[c].status = 200 => Served(reply[c].doc[2])
Answered304(c) == reply[c] = NotModified => Served(cached[c].etag)

Replies ==
    \A c \in Caller : stage[c] = "answered" /\ asked[c].did = Subject =>
        Answered200(c) /\ Answered304(c)

Returned(c) ==
    result[c] \notin {None, Failed} /\ asked[c].did = Subject =>
        /\ asked[c].since \in Nat
        /\ result[c][2] \in asked[c].since .. Len(log)
        /\ Served(result[c][2])

Results == \A c \in Caller : Returned(c)

DirInv == Counts /\ Replies /\ Results
\* Nothing follows a tombstone.
LEMMA UpToServed ==
    ASSUME LogInv, NEW v, Served(v)
    PROVE  \A i \in 1 .. v : ~IsTombstone(log[i])
<1> SUFFICES ASSUME NEW i \in 1 .. v, i # v PROVE ~IsTombstone(log[i])
  BY DEF Served
<1>1. Len(log) \in Nat /\ DOMAIN log = 1 .. Len(log)
  BY LogLength
<1>2. i + 1 \in DOMAIN log /\ i + 1 > 1 /\ (i + 1) - 1 = i
  BY <1>1 DEF Served
<1> QED  BY <1>2 DEF LogInv, Linked

\* The version an available DID has is that of its newest operation.
LEMMA AvailableServes ==
    ASSUME LogInv, Counts, Available(Subject)
    PROVE  Served(current[Subject])
<1>1. Len(log) \in Nat /\ DOMAIN log = 1 .. Len(log) /\ Len(log) \in DOMAIN log
  BY LogLength DEF Available
<1> QED  BY <1>1 DEF Counts, Available, Newest, Served

LEMMA DirInit == DInit => DirInv
<1> SUFFICES ASSUME DInit PROVE DirInv
  OBVIOUS
<1>1. Subject \in DID
  BY SubjectAssumption, PLCAssumption
<1>2. Counts
  BY <1>1 DEF DInit, PInit, Init, OInit, Counts
<1>3. Replies /\ Results
  BY DEF DInit, PInit, Init, Replies, Results, Returned
<1> QED  BY <1>2, <1>3 DEF DirInv

\* A writer's step leaves the log and the readers alone.
LEMMA WritesKeep == ASSUME DirInv, Writes PROVE DirInv'
<1>1. UNCHANGED <<log, vars>>
  BY DEF Writes, New, Derive, FetchLast, DeriveTombstone, Post, GiveUp, Refuse, Lose
<1> QED
  BY <1>1 DEF DirInv, Counts, Replies, Answered200, Answered304, Results, Returned, Served,
     IsTombstone, vars, calls

\* The log grows by one, and so does the version.
LEMMA PublishKeeps ==
    ASSUME IInv, LogInv, DirInv, NEW m \in wire, Publish(m)
    PROVE  DirInv'
<1>1. /\ Len(log) \in Nat /\ Len(log') = Len(log) + 1
      /\ \A i \in 1 .. Len(log) : log'[i] = log[i]
  <2>1. log \in Seq(ToSet(log)) /\ log' = Append(log, m.e)
    BY DEF Publish, Take, LogInv, OTypeOK
  <2> QED  BY <2>1, Appending
<1>2. /\ UNCHANGED <<asked, result, stage, cached, reply>>
      /\ current' = [current EXCEPT ![Subject] = @ + 1]
  BY DEF Publish, Update, Change
<1>3. \A v : Served(v) => Served(v)'
  BY <1>1 DEF Served, IsTombstone
<1>4. Counts'
  <2>1. Subject \in DOMAIN current
    BY SubjectAssumption, PLCAssumption DEF IInv, PTypeOK
  <2> QED  BY <1>1, <1>2, <2>1 DEF DirInv, Counts
<1>5. Replies'
  BY <1>2, <1>3 DEF DirInv, Replies, Answered200, Answered304
<1>6. Results'
  <2> SUFFICES ASSUME NEW c \in Caller, result[c] \notin {None, Failed},
                      asked[c].did = Subject
               PROVE  Returned(c)'
    BY <1>2 DEF Results, Returned
  <2> DEFINE v == result[c][2]
             from == asked[c].since
  <2>1. from \in Nat /\ v \in from .. Len(log) /\ Served(v)
    BY DEF DirInv, Results, Returned
  <2>2. result'[c][2] = v /\ asked'[c].since = from
    BY <1>2
  <2> HIDE DEF v, from
  <2>3. v \in from .. Len(log') /\ v \in 1 .. Len(log') /\ ~IsTombstone(log'[v])
    BY <1>1, <2>1 DEF Served, IsTombstone
  <2> QED  BY <2>1, <2>2, <2>3 DEF Returned, Served, IsTombstone
<1> QED  BY <1>4, <1>5, <1>6 DEF DirInv

\* A reader's step that leaves the other readers alone has to be looked at for
\* its own call only.
LEMMA ReaderKeeps ==
    ASSUME DirInv, NEW c \in Caller, UNCHANGED <<log, current>>,
           \A d \in Caller \ {c} : /\ asked'[d] = asked[d] /\ result'[d] = result[d]
                                   /\ stage'[d] = stage[d] /\ cached'[d] = cached[d]
                                   /\ reply'[d] = reply[d],
           stage'[c] = "answered" /\ asked'[c].did = Subject =>
               Answered200(c)' /\ Answered304(c)',
           Returned(c)'
    PROVE  DirInv'
<1>1. Counts'
  BY DEF DirInv, Counts
<1>2. \A v : Served(v)' = Served(v)
  BY DEF Served, IsTombstone
<1>3. Replies'
  BY <1>2 DEF DirInv, Replies, Answered200, Answered304
<1>4. ASSUME NEW d \in Caller \ {c} PROVE Returned(d)'
  BY <1>2 DEF DirInv, Results, Returned
<1>5. Results'
  BY <1>4 DEF Results
<1> QED  BY <1>1, <1>3, <1>5 DEF DirInv

\* Whatever the directory answers about the DID, it is available then.
LEMMA DirAnswerKeeps ==
    ASSUME IInv, LogInv, DirInv, UNCHANGED ovars, NEW c \in Caller, Answer(c),
           ~Available(asked[c].did) => reply'[c] = Bad
    PROVE  DirInv'
<1> DEFINE d == asked[c].did
<1>1. /\ UNCHANGED <<log, current, asked, result, cached>>
      /\ stage[c] = "sent" /\ stage' = [stage EXCEPT ![c] = "answered"]
      /\ reply' = [reply EXCEPT ![c] = reply'[c]] /\ reply'[c] \in Answers(c)
  <2>1. PICK a \in Answers(c) : reply' = [reply EXCEPT ![c] = a]
    BY DEF Answer
  <2>2. reply'[c] = a
    BY <2>1 DEF IInv, PTypeOK
  <2> QED  BY <2>1, <2>2 DEF Answer, ovars
<1>2. \A e \in Caller \ {c} : stage'[e] = stage[e] /\ reply'[e] = reply[e]
  BY <1>1 DEF IInv, PTypeOK
<1>3. Returned(c)'
  BY <1>1 DEF DirInv, Results, Returned, Served, IsTombstone
<1>4. ASSUME d = Subject PROVE Answered200(c)' /\ Answered304(c)'
  <2>1. CASE reply'[c] = Bad
    BY <2>1 DEF Answered200, Answered304, Bad, NotModified
  <2>2. CASE reply'[c] # Bad
    <3>1. Served(current[Subject])'
      <4>1. Served(current[Subject])
        BY <1>4, <2>2, AvailableServes DEF DirInv
      <4> QED  BY <1>1, <4>1 DEF Served, IsTombstone
    <3>2. \/ reply'[c] = NotModified /\ cached[c].etag = current[Subject]
          \/ reply'[c].status = 200 /\ reply'[c].doc = <<Subject, current[Subject]>>
      BY <1>1, <1>4, <2>2 DEF Answers
    <3>3. CASE reply'[c] = NotModified /\ cached[c].etag = current[Subject]
      BY <1>1, <3>1, <3>3 DEF Answered200, Answered304, NotModified
    <3>4. CASE reply'[c].status = 200 /\ reply'[c].doc = <<Subject, current[Subject]>>
      <4>1. reply'[c] # NotModified
        BY <3>4 DEF NotModified
      <4> QED  BY <1>1, <3>1, <3>4, <4>1 DEF Answered200, Answered304
    <3> QED  BY <3>2, <3>3, <3>4
  <2> QED  BY <2>1, <2>2
<1> QED  BY <1>1, <1>2, <1>3, <1>4, ReaderKeeps

\* A call returns the document the directory has answered with or confirmed.
LEMMA DirDoneKeeps ==
    ASSUME IInv, DirInv, UNCHANGED ovars, NEW c \in Caller, UseCached(c) \/ Store(c)
    PROVE  DirInv'
<1>1. PICK doc :
          /\ result' = [result EXCEPT ![c] = doc]
          /\ stage[c] = "answered" /\ stage' = [stage EXCEPT ![c] = "returned"]
          /\ cached' = [cached EXCEPT ![c] = None] /\ reply' = [reply EXCEPT ![c] = None]
          /\ UNCHANGED <<log, current, asked>>
          /\ \/ reply[c] = NotModified /\ doc = cached[c].doc
             \/ reply[c].status = 200 /\ doc = reply[c].doc
  BY DEF UseCached, Store, Done, ovars
<1>2. \A e \in Caller \ {c} : /\ result'[e] = result[e] /\ stage'[e] = stage[e]
                              /\ cached'[e] = cached[e] /\ reply'[e] = reply[e]
  BY <1>1 DEF IInv, PTypeOK
<1>3. result'[c] = doc /\ stage'[c] = "returned"
  BY <1>1 DEF IInv, PTypeOK
<1>4. ASSUME asked[c].did = Subject
      PROVE  /\ asked[c].since \in Nat
             /\ doc[2] \in asked[c].since .. Len(log)
             /\ Served(doc[2])
  <2>1. Fresh(c, doc[2]) /\ Served(doc[2])
    <3>1. CASE reply[c] = NotModified /\ doc = cached[c].doc
      <4>1. doc[2] = cached[c].etag
        BY <1>1, <3>1 DEF IInv, CacheInv, ReplyInv
      <4> QED
        BY <1>1, <1>4, <3>1, <4>1 DEF IInv, ReplyInv, DirInv, Replies, Answered304
    <3>2. CASE reply[c].status = 200 /\ doc = reply[c].doc
      BY <1>1, <1>4, <3>2 DEF IInv, ReplyInv, DirInv, Replies, Answered200
    <3> QED  BY <1>1, <3>1, <3>2
  <2>2. asked[c].since \in Nat
    BY <1>1, Open DEF IInv, Version
  <2> QED  BY <1>4, <2>1, <2>2 DEF Fresh, DirInv, Counts
<1>5. Returned(c)'
  BY <1>1, <1>3, <1>4 DEF Returned, Served, IsTombstone
<1> QED  BY <1>1, <1>2, <1>3, <1>5, ReaderKeeps

LEMMA ReadsKeep == ASSUME IInv, LogInv, DirInv, Reads PROVE DirInv'
<1>0. UNCHANGED ovars
  BY DEF Reads
<1>1. ASSUME NEW d \in DID, Expire(d) PROVE DirInv'
  BY <1>0, <1>1 DEF Expire, calls, ovars, DirInv, Counts, Replies, Answered200, Answered304,
     Results, Returned, Served, IsTombstone
<1>2. ASSUME NEW c \in Caller, NEW d \in DID, Call(c, d) PROVE DirInv'
  <2>1. /\ UNCHANGED <<log, current, cached, reply>>
        /\ result' = [result EXCEPT ![c] = None] /\ stage' = [stage EXCEPT ![c] = "called"]
        /\ \A e \in Caller \ {c} : asked'[e] = asked[e]
    BY <1>0, <1>2 DEF Call, Ask, ovars, IInv, PTypeOK
  <2>2. /\ result'[c] = None /\ stage'[c] = "called"
        /\ \A e \in Caller \ {c} : result'[e] = result[e] /\ stage'[e] = stage[e]
    BY <2>1 DEF IInv, PTypeOK
  <2>3. Returned(c)'
    BY <2>2 DEF Returned
  <2> QED  BY <2>1, <2>2, <2>3, ReaderKeeps
<1>3. ASSUME NEW c \in Caller, WrongMethod(c) \/ RequestFailed(c) PROVE DirInv'
  <2>1. /\ UNCHANGED <<log, current, asked>>
        /\ result' = [result EXCEPT ![c] = Failed] /\ stage' = [stage EXCEPT ![c] = "returned"]
        /\ cached' = [cached EXCEPT ![c] = None] /\ reply' = [reply EXCEPT ![c] = None]
    BY <1>0, <1>3 DEF WrongMethod, RequestFailed, Fail, Return, ovars
  <2>2. /\ result'[c] = Failed /\ stage'[c] = "returned"
        /\ \A e \in Caller \ {c} : /\ result'[e] = result[e] /\ stage'[e] = stage[e]
                                   /\ cached'[e] = cached[e] /\ reply'[e] = reply[e]
    BY <2>1 DEF IInv, PTypeOK
  <2>3. Returned(c)'
    BY <2>2 DEF Returned
  <2> QED  BY <2>1, <2>2, <2>3, ReaderKeeps
<1>4. ASSUME NEW c \in Caller, Send(c) PROVE DirInv'
  <2>1. /\ UNCHANGED <<log, current, asked, result, reply>>
        /\ stage' = [stage EXCEPT ![c] = "sent"]
        /\ \A e \in Caller \ {c} : cached'[e] = cached[e]
    BY <1>0, <1>4 DEF Send, ovars, IInv, PTypeOK
  <2>2. stage'[c] = "sent" /\ \A e \in Caller \ {c} : stage'[e] = stage[e]
    BY <2>1 DEF IInv, PTypeOK
  <2>3. Returned(c)'
    BY <2>1 DEF DirInv, Results, Returned, Served, IsTombstone
  <2> QED  BY <2>1, <2>2, <2>3, ReaderKeeps
<1>5. ASSUME NEW c \in Caller, Answer(c),
             ~Available(asked[c].did) => reply'[c] = Bad
      PROVE  DirInv'
  BY <1>0, <1>5, DirAnswerKeeps
<1>6. ASSUME NEW c \in Caller, UseCached(c) \/ Store(c) PROVE DirInv'
  BY <1>0, <1>6, DirDoneKeeps
<1> QED  BY <1>1, <1>2, <1>3, <1>4, <1>5, <1>6 DEF Reads

LEMMA DirKeeps == IInv /\ LogInv /\ DirInv /\ [DNext]_dvars => DirInv'
<1> SUFFICES ASSUME IInv, LogInv, DirInv, [DNext]_dvars PROVE DirInv'
  OBVIOUS
<1>1. CASE UNCHANGED dvars
  BY <1>1 DEF dvars, vars, calls, ovars, DirInv, Counts, Replies, Answered200, Answered304,
     Results, Returned, Served, IsTombstone
<1> QED  BY <1>1, WritesKeep, PublishKeeps, ReadsKeep DEF DNext

\* Who resolves a DID sees what was published before the call, whatever the
\* cache holds, and never a deactivated DID (Resolver.Resolve with
\* DirectoryClient.Update and Deactivate).
THEOREM SeesPublished == DSpec => []ResolvesPublished
<1>1. IInv /\ LogInv /\ DirInv => ResolvesPublished
  <2> SUFFICES ASSUME IInv, LogInv, DirInv, NEW c \in Caller,
                      result[c] \notin {None, Failed}, asked[c].did = Subject
               PROVE  /\ result[c][2] \in asked[c].since .. Len(log)
                      /\ result[c][2] > 0
                      /\ \A i \in 1 .. asked[c].since : ~IsTombstone(log[i])
    BY DEF ResolvesPublished
  <2> DEFINE v == result[c][2]
             from == asked[c].since
  <2>1. from \in Nat /\ v \in from .. Len(log) /\ Served(v)
    BY DEF DirInv, Results, Returned
  <2>2. \A i \in 1 .. v : ~IsTombstone(log[i])
    BY <2>1, UpToServed
  <2>3. v \in Nat /\ v > 0
    BY <2>1 DEF Served
  <2> HIDE DEF v, from
  <2>4. \A i \in 1 .. from : i \in 1 .. v
    BY <2>1, <2>3
  <2> QED  BY <2>1, <2>2, <2>3, <2>4 DEF v, from
<1>2. PSpec => []IInv
  BY InitIInv, StepImplements, PTL DEF PSpec
<1>3. DSpec => []IInv /\ []LogInv
  BY <1>2, BothKept, LogInvariant, PTL
<1> QED  BY <1>1, <1>3, DirInit, DirKeeps, PTL DEF DSpec
=============================================================================
