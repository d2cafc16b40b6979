--------------------------- MODULE CachedResolver ---------------------------
(***************************************************************************)
(* resolver.Cached (did/resolver/cached.go): a cache with a time to live   *)
(* in front of any resolver, called by several goroutines at once.  Of the *)
(* wrapped resolver only what Resolution promises is used: it returns a    *)
(* document that was current during the call, or fails, within Timeout.    *)
(*                                                                         *)
(* One DID is enough: the cache's items do not interact.  Time passes only *)
(* while the wrapped resolver is called or between calls; what Cached does *)
(* itself takes none.                                                      *)
(***************************************************************************)
EXTENDS Integers

CONSTANTS
    Caller,
    None,
    TTL,        \* the time an item remains in the cache
    Timeout,    \* bound on the time a call of the wrapped resolver takes
    MaxVersion, \* bound on the versions of the document
    MaxTime     \* bound on the clock

Version == 0 .. MaxVersion
Time == 0 .. MaxTime

Item == [doc : Version, set : Time]         \* a document, and when it was set
Fetch == [since : Version, start : Time]    \* a call of the wrapped resolver
Answer == [doc : Version, set : Time, at : Time]  \* what a call returned, when

ASSUME TimeAssumption == TTL \in Nat /\ Timeout \in Nat /\ MaxTime \in Nat
ASSUME VersionAssumption == MaxVersion \in Nat
ASSUME NoneAssumption == None \notin Item /\ None \notin Fetch /\ None \notin Answer

VARIABLES
    now,
    current,   \* the version of the document
    replaced,  \* when the earlier versions ceased to be current
    item,      \* the cache's item, None if there is none
    fetch,     \* each caller's call of the wrapped resolver, None if none is
               \* under way
    answer     \* what each caller's last successful call returned

vars == <<now, current, replaced, item, fetch, answer>>

Init ==
    /\ now = 0
    /\ current = 0
    /\ replaced = [v \in Version |-> 0]
    /\ item = None
    /\ fetch = [c \in Caller |-> None]
    /\ answer = [c \in Caller |-> None]

\* No call of the wrapped resolver takes longer than Timeout.
Tick ==
    /\ now < MaxTime
    /\ \A c \in Caller : fetch[c] # None => now < fetch[c].start + Timeout
    /\ now' = now + 1
    /\ UNCHANGED <<current, replaced, item, fetch, answer>>

Change ==
    /\ current < MaxVersion
    /\ current' = current + 1
    /\ replaced' = [replaced EXCEPT ![current] = now]
    /\ UNCHANGED <<now, item, fetch, answer>>

\* Cache.Get of go-cache, for which a time to live of zero is no expiry.
Found == item # None /\ (TTL = 0 \/ now <= item.set + TTL)

\* go-cache drops what has expired every hour.
Purge ==
    /\ item # None
    /\ ~Found
    /\ item' = None
    /\ UNCHANGED <<now, current, replaced, fetch, answer>>

Return(c, doc, set) ==
    answer' = [answer EXCEPT ![c] = [doc |-> doc, set |-> set, at |-> now]]

\* A bug: a hit renews the item's time to live.
HitRenews(c) ==
    /\ fetch[c] = None
    /\ Found
    /\ Return(c, item.doc, item.set)
    /\ item' = [item EXCEPT !.set = now]
    /\ UNCHANGED <<now, current, replaced, fetch>>

Hit(c) ==
    /\ fetch[c] = None
    /\ Found
    /\ Return(c, item.doc, item.set)
    /\ UNCHANGED <<now, current, replaced, item, fetch>>

Miss(c) ==
    /\ fetch[c] = None
    /\ ~Found
    /\ fetch' = [fetch EXCEPT ![c] = [since |-> current, start |-> now]]
    /\ UNCHANGED <<now, current, replaced, item, answer>>

\* The wrapped resolver returns a version; it is cached from now on, even in
\* the place of a later one that another call has cached meanwhile.
Fill(c) ==
    /\ fetch[c] # None
    /\ \E doc \in fetch[c].since .. current :
          /\ item' = [doc |-> doc, set |-> now]
          /\ Return(c, doc, now)
    /\ fetch' = [fetch EXCEPT ![c] = None]
    /\ UNCHANGED <<now, current, replaced>>

\* It fails; errors are not cached.
FetchFails(c) ==
    /\ fetch[c] # None
    /\ fetch' = [fetch EXCEPT ![c] = None]
    /\ UNCHANGED <<now, current, replaced, item, answer>>

Next ==
    \/ Tick \/ Change \/ Purge
    \/ \E c \in Caller : Hit(c) \/ Miss(c) \/ Fill(c) \/ FetchFails(c)

Spec == Init /\ [][Next]_vars
-----------------------------------------------------------------------------
TypeOK ==
    /\ now \in Time
    /\ current \in Version
    /\ replaced \in [Version -> Time]
    /\ item \in Item \cup {None}
    /\ fetch \in [Caller -> Fetch \cup {None}]
    /\ answer \in [Caller -> Answer \cup {None}]

\* When the version ceased to be current, or the present if it has not.
LastCurrent(doc) == IF doc = current THEN now ELSE replaced[doc]

(***************************************************************************)
(* A replaced document, and so a key rotated out of it, is not returned    *)
(* any more once its time to live and the time of one call of the wrapped  *)
(* resolver are over: the item's time begins when that call ends, and the  *)
(* document may have been replaced since it began.  No order in which      *)
(* concurrent misses fill the cache makes it longer.                       *)
(***************************************************************************)
BoundedStaleness ==
    \A c \in Caller : answer[c] # None =>
        answer[c].at <= LastCurrent(answer[c].doc) + TTL + Timeout
=============================================================================
