-------------------------- MODULE MCCachedResolver --------------------------
(***************************************************************************)
(* Two goroutines that call a Cached resolver, with a clock of a few       *)
(* ticks; and the calls of a Tiered one, with up to three tiers of every   *)
(* kind in any order.  Cached uses of what it wraps only that a call ends  *)
(* in time, so the two are explored side by side, not together.            *)
(***************************************************************************)
EXTENDS CachedResolver, Tiered, TLC

CONSTANTS k, w, v, p

VARIABLE part

MCMethod == (k :> "key") @@ (w :> "web") @@ (v :> "web") @@ (p :> "plc")

MCTier ==
    {<<"well-known", {}>>, <<"well-known", {k, p}>>, <<"by method", {"key", "plc"}>>,
     <<"by method", {"web", "plc"}>>, <<"method", "key">>, <<"method", "web">>}

MCTiers == UNION {[1 .. n -> MCTier] : n \in 0 .. 3}

MCInit ==
    /\ part \in {"cached", "tiered"}
    /\ Init
    /\ IF part = "tiered" THEN TInit
       ELSE input = k /\ configured = <<>> /\ errs = <<>> /\ ended = "open"

MCNext ==
    /\ \/ part = "cached" /\ Next /\ UNCHANGED tvars
       \/ part = "tiered" /\ TNext /\ UNCHANGED vars
    /\ UNCHANGED part

MCSpec == MCInit /\ [][MCNext]_<<vars, tvars, part>>
=============================================================================
