--------------------------- MODULE MCPLCDirectory ---------------------------
(***************************************************************************)
(* Two clients with a rotation key each, and two goroutines that resolve.  *)
(* The changes add a key that may be there already, remove the client's    *)
(* own or the other's, and add, replace and remove names, methods and      *)
(* services.  Either the requests of the clients get lost and delayed, or  *)
(* the goroutines resolve the DID, and one of another method, while the    *)
(* log grows without any trouble; the two do not go together, so that each *)
(* can have its interleavings.                                             *)
(***************************************************************************)
EXTENDS PLCDirectory

CONSTANTS c1, c2, k1, k2, n, p, w

VARIABLE trouble

MCKeyOf == [c \in Client |-> IF c = c1 THEN k1 ELSE k2]

Of(x, v) == [y \in {x} |-> v]

MCChanges ==
    {<<<<"+", "keys", <<k1, k2>>>>, <<"-", "aka", <<n>>>>, <<"+", "methods", Of(n, k1)>>>>,
     <<<<"-", "keys", <<k2>>>>, <<"+", "aka", <<n, n>>>>, <<"+", "services", Of(n, k1)>>>>,
     <<<<"-", "keys", <<k1>>>>, <<"+", "methods", Of(n, k2)>>, <<"-", "services", Of(n, k2)>>,
       <<"-", "methods", Of(n, k1)>>>>}

\* The founder's operation and one more, each of them taken before the next.
Calm ==
    /\ wire = {}
    /\ \A c \in Client :
          /\ told'[c] # "error"
          /\ options'[c] \in {<<>>, <<<<"+", "keys", <<k1, k2>>>>, <<"-", "aka", <<n>>>>,
                                   <<"+", "methods", Of(n, k1)>>>>}
          /\ pc'[c] = "has last" => c # Founder /\ told[c] # "ok"

MCInit == DInit /\ trouble \in BOOLEAN

MCNext ==
    /\ \/ trouble /\ Writes
       \/ \E m \in wire : Publish(m)
       \/ ~trouble /\ Writes /\ Calm
       \/ ~trouble /\ Reads
    /\ UNCHANGED trouble

MCSpec == MCInit /\ [][MCNext]_<<dvars, trouble>>
=============================================================================
