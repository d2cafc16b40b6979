---------------------------- MODULE PLCResolver ----------------------------
(***************************************************************************)
(* plc.Resolver.Resolve (did/plc/resolver.go) called by several goroutines *)
(* at once.  They share a cache of documents and of the ETags these were   *)
(* served with; a cached document is only returned once the directory has  *)
(* confirmed it with 304 Not Modified.                                     *)
(*                                                                         *)
(* A document is <<its DID, its version>>.  The directory is external: it  *)
(* answers a conditional request by comparing ETags, and may leave the     *)
(* ETag out of an answer.                                                  *)
(***************************************************************************)
EXTENDS Resolution

CONSTANTS
    PLC,      \* the DIDs of the method "plc"
    HasCache  \* whether the resolver was given a cache

ASSUME PLCAssumption == PLC \subseteq DID
ASSUME HasCacheAssumption == HasCache \in BOOLEAN

VARIABLES
    cache,   \* by DID; None for a document not cached or expired
    stage,   \* where a call is
    cached,  \* the cache's entry a call found
    reply    \* the directory's answer to a call

calls == <<asked, result, stage, cached, reply>>
vars == <<current, cache, calls>>

\* cachedDocument; the directory's ETags are the versions.
Entry == [etag : Version, doc : DID \X Version]

NotModified == [status |-> 304]
Bad == [status |-> 500]
Reply == [status : {200}, doc : DID \X Version, etag : Version \cup {None}]
             \cup {NotModified, Bad}

ASSUME RecordAssumption == None \notin Entry /\ None \notin Reply

PInit ==
    /\ Init
    /\ cache = [d \in DID |-> None]
    /\ stage = [c \in Caller |-> "returned"]
    /\ cached = [c \in Caller |-> None]
    /\ reply = [c \in Caller |-> None]

Update(d) == Change(d) /\ UNCHANGED <<cache, stage, cached, reply>>

\* The cache drops an entry: its time to live is over.
Expire(d) ==
    /\ cache[d] # None
    /\ cache' = [cache EXCEPT ![d] = None]
    /\ UNCHANGED <<current, calls>>

Call(c, d) ==
    /\ Ask(c, d)
    /\ stage' = [stage EXCEPT ![c] = "called"]
    /\ UNCHANGED <<cache, cached, reply>>

Fail(c) ==
    /\ Return(c, Failed)
    /\ stage' = [stage EXCEPT ![c] = "returned"]
    /\ cached' = [cached EXCEPT ![c] = None]
    /\ reply' = [reply EXCEPT ![c] = None]
    /\ UNCHANGED cache

WrongMethod(c) ==
    /\ stage[c] = "called"
    /\ asked[c].did \notin PLC
    /\ Fail(c)

\* The cache is read once, before the request is sent.
Send(c) ==
    /\ stage[c] = "called"
    /\ asked[c].did \in PLC
    /\ cached' = [cached EXCEPT ![c] = IF HasCache THEN cache[asked[c].did] ELSE None]
    /\ stage' = [stage EXCEPT ![c] = "sent"]
    /\ UNCHANGED <<current, cache, asked, result, reply>>

\* What the directory says at this moment, unless something goes wrong: an
\* error, an answer that does not parse, a timeout.
Answers(c) ==
    LET doc == <<asked[c].did, current[asked[c].did]>>
    IN  {Bad} \cup
        IF cached[c] # None /\ cached[c].etag = doc[2]
        THEN {NotModified}
        ELSE {[status |-> 200, doc |-> doc, etag |-> etag] : etag \in {None, doc[2]}}

Answer(c) ==
    /\ stage[c] = "sent"
    /\ \E answer \in Answers(c) : reply' = [reply EXCEPT ![c] = answer]
    /\ stage' = [stage EXCEPT ![c] = "answered"]
    /\ UNCHANGED <<current, cache, asked, result, cached>>

Done(c, doc) ==
    /\ result' = [result EXCEPT ![c] = doc]
    /\ stage' = [stage EXCEPT ![c] = "returned"]
    /\ cached' = [cached EXCEPT ![c] = None]
    /\ reply' = [reply EXCEPT ![c] = None]
    /\ UNCHANGED <<current, asked>>

\* A bug: the cache is read again, and may hold another call's document by now.
UseCacheNow(c) ==
    /\ stage[c] = "answered"
    /\ reply[c] = NotModified
    /\ Done(c, IF cache[asked[c].did] = None THEN cached[c].doc ELSE cache[asked[c].did].doc)
    /\ UNCHANGED cache

\* 304: the document the call found in the cache is still the current one.
UseCached(c) ==
    /\ stage[c] = "answered"
    /\ reply[c] = NotModified
    /\ Done(c, cached[c].doc)
    /\ UNCHANGED cache

\* 200: the document is cached if it came with an ETag, whatever the cache
\* holds by now.
Store(c) ==
    /\ stage[c] = "answered"
    /\ reply[c].status = 200
    /\ Done(c, reply[c].doc)
    /\ cache' = [cache EXCEPT ![asked[c].did] =
                    IF HasCache /\ reply[c].etag # None
                    THEN [etag |-> reply[c].etag, doc |-> reply[c].doc] ELSE @]

\* A bug: the document in the cache is returned when the directory fails.
UseCachedOnError(c) ==
    /\ stage[c] = "answered"
    /\ reply[c] = Bad
    /\ cached[c] # None
    /\ Done(c, cached[c].doc)
    /\ UNCHANGED cache

RequestFailed(c) ==
    /\ stage[c] = "answered"
    /\ reply[c] = Bad
    /\ Fail(c)

PNext ==
    \/ \E d \in DID : Update(d) \/ Expire(d) \/ \E c \in Caller : Call(c, d)
    \/ \E c \in Caller :
          \/ WrongMethod(c) \/ Send(c) \/ Answer(c)
          \/ UseCached(c) \/ Store(c) \/ RequestFailed(c)

PSpec == PInit /\ [][PNext]_vars
-----------------------------------------------------------------------------
PTypeOK ==
    /\ current \in [DID -> Version]
    /\ asked \in [Caller -> Request \cup {None}]
    /\ result \in [Caller -> Outcome]
    /\ cache \in [DID -> Entry \cup {None}]
    /\ stage \in [Caller -> {"called", "sent", "answered", "returned"}]
    /\ cached \in [Caller -> Entry \cup {None}]
    /\ reply \in [Caller -> Reply \cup {None}]
    /\ \A c \in Caller : (stage[c] = "returned") <=> (result[c] # None)
    /\ \A c \in Caller : result[c] = None => asked[c] # None
    /\ \A c \in Caller : (stage[c] = "answered") <=> (reply[c] # None)
    /\ \A c \in Caller : stage[c] \in {"called", "returned"} => cached[c] = None

(***************************************************************************)
(* "Only cache when an ETag is present so every subsequent hit revalidates *)
(* rather than risk serving a stale document" (resolver.go:146): a call    *)
(* returns a document of its own DID, one that was current after the call  *)
(* began, whatever other calls do to the cache meanwhile.                  *)
(***************************************************************************)
NeverStale == Spec
=============================================================================
