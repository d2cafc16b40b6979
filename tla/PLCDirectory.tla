---------------------------- MODULE PLCDirectory ----------------------------
(***************************************************************************)
(* The writers of a DID's log (PLCOperations, each a plc.DirectoryClient)  *)
(* and its readers (PLCResolver, a plc.Resolver with a cache) at one       *)
(* directory.  The document of the DID changes with every operation the    *)
(* directory takes; its version is the length of the log.  There is none   *)
(* before the first operation and none after a tombstone.                  *)
(***************************************************************************)
EXTENDS PLCResolver, PLCOperations

CONSTANT Subject  \* the DID

ASSUME SubjectAssumption == Subject \in PLC

dvars == <<vars, ovars>>

Available(d) == d = Subject => log # <<>> /\ ~IsTombstone(Newest)

DInit == PInit /\ OInit

\* A client's step that does not reach the directory's log.
Writes ==
    /\ \/ \E c \in Client :
             \/ \E opts \in Changes : New(c, opts) \/ Derive(c, opts)
             \/ FetchLast(c) \/ DeriveTombstone(c) \/ Post(c) \/ GiveUp(c)
       \/ \E m \in wire : Refuse(m) \/ Lose(m)
    /\ UNCHANGED vars

Publish(m) == Take(m) /\ Update(Subject)

Reads ==
    /\ \/ \E d \in DID : Expire(d) \/ \E c \in Caller : Call(c, d)
       \/ \E c \in Caller :
             \/ WrongMethod(c) \/ Send(c)
             \/ Answer(c) /\ (~Available(asked[c].did) => reply'[c] = Bad)
             \/ UseCached(c) \/ Store(c) \/ RequestFailed(c)
    /\ UNCHANGED ovars

DNext ==
    \/ Writes
    \/ \E m \in wire : Publish(m)
    \/ Reads

DSpec == DInit /\ [][DNext]_dvars
-----------------------------------------------------------------------------
(***************************************************************************)
(* Who resolves the DID after an operation was published sees it: a key    *)
(* that was rotated out by then is not in the document, whatever the cache *)
(* holds, and once the DID is deactivated it does not resolve at all.      *)
(***************************************************************************)
ResolvesPublished ==
    \A c \in Caller : result[c] \notin {None, Failed} /\ asked[c].did = Subject =>
        /\ result[c][2] \in asked[c].since .. Len(log)
        /\ result[c][2] > 0
        /\ \A i \in 1 .. asked[c].since : ~IsTombstone(log[i])
=============================================================================
