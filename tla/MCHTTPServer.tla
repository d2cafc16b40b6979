---------------------------- MODULE MCHTTPServer ----------------------------
(***************************************************************************)
(* A request of four invocations for TLC: the first two run the same task, *)
(* and the last is addressed to another server.  Of four listeners the     *)
(* second and the fourth observe.  Handlers may attach a receipt of the    *)
(* task asked for twice, or of the one asked of the other server.          *)
(***************************************************************************)
EXTENDS HTTPServer, TLC

CONSTANTS c1, self, other, t1, t2, t3

MCTask == 1 :> t1 @@ 2 :> t1 @@ 3 :> t2 @@ 4 :> t3
MCAudience == 1 :> self @@ 2 :> self @@ 3 :> self @@ 4 :> other
=============================================================================
