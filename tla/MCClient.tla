------------------------------ MODULE MCClient ------------------------------
(***************************************************************************)
(* Calls for TLC.  Invocations a to d are addressed to the server, a and b *)
(* are two tokens of one task; x is addressed elsewhere.  The server's     *)
(* handlers may attach receipts of the tasks of d and x.                   *)
(***************************************************************************)
EXTENDS Client

CONSTANTS a, b, c, d, x

MCInv == {a, b, c, d, x}
MCAddressed == {a, b, c, d}
MCTask == [i \in MCInv |-> CASE i \in {a, b} -> "ab" [] i = c -> "c" [] i = d -> "d"
                              [] OTHER -> "x"]
MCAttachable == {"d", "x"}

Slice(array, lo, hi, context) ==
    [array |-> array, lo |-> lo, hi |-> hi, context |-> context]

\* Two parts of one slice, of which the second ends with the array, so that its
\* context is appended to a copy; a request of one whose context is written into
\* what is left of its array; and an empty request.
DisjointArrays == <<<<a, b, c, x>>, <<d, a, b>>>>
DisjointRequests ==
    [i \in 1 .. 4 |-> CASE i = 1 -> Slice(1, 1, 3, <<>>) [] i = 2 -> Slice(1, 3, 4, <<d>>)
                        [] i = 3 -> Slice(2, 1, 1, <<x, c>>) [] OTHER -> Slice(2, 1, 0, <<>>)]

\* Two parts of one slice, each with the same context.
ChunkedArrays == <<<<a, c>>>>
ChunkedRequests == [i \in 1 .. 2 |-> Slice(1, i, i, <<d>>)]

\* The first requests do not meet on an array's elements; the chunked ones do.
ASSUME ApartAssumption == Requests = DisjointRequests <=> Apart
=============================================================================
