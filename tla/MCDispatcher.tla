---------------------------- MODULE MCDispatcher ----------------------------
(***************************************************************************)
(* Instances of Dispatcher for TLC: two commands, one with a handler       *)
(* wrapped by Each and one with a batch handler, and requests without a    *)
(* handler.                                                                *)
(***************************************************************************)
EXTENDS Dispatcher

CONSTANTS e, b
=============================================================================
