--------------------------- MODULE MCBatchHandler ---------------------------
(***************************************************************************)
(* Routes behind up to two checks, in either order, called with a few      *)
(* invocations of every combination of issuer, subject and arguments.      *)
(***************************************************************************)
EXTENDS BatchHandler

CONSTANTS service, user

Checks == {<<"NotSelfSigned", service>>, <<"OnlySubject", service>>, <<"OnlyIssuer", service>>}

MCChains == {<<>>} \cup {<<f>> : f \in Checks} \cup {<<f, g>> : f \in Checks, g \in Checks}
=============================================================================
