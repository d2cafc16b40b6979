---------------------------- MODULE BatchHandler ----------------------------
(***************************************************************************)
(* One call of a route's handler: the checks it is served behind           *)
(* (server/middleware), the decoding of arguments (binding), the command's *)
(* own handler, which may be a batch handler or one for a single           *)
(* invocation wrapped by Each, and the responses they record outcomes on   *)
(* (execution/response.go).                                                *)
(*                                                                         *)
(* What the command does, and whether a receipt can be issued (the signer  *)
(* or the encoder may refuse), are choices of the environment.             *)
(***************************************************************************)
EXTENDS Naturals, Sequences, FiniteSets

CONSTANTS
    N,          \* number of invocations the handler is called with
    Principal,  \* issuers and subjects
    Chains,     \* sequences of checks: middleware, the first one outermost
    None

ASSUME NAssumption == N \in Nat \ {0}

Item == 1 .. N

\* An invocation as the checks see it; conforms: its arguments decode.
Invocation == [iss : Principal, sub : Principal, conforms : BOOLEAN]

\* "batch": NewBatchRoute; "each": NewRoute, called by a dispatcher; "direct":
\* NewRoute, called by anything else.
Kinds == {"batch", "each", "direct"}

\* A receipt: the task it is for, and its outcome.  A failure has the name of
\* the check that it comes from, or is the command's own.
Receipt == [ran : Item, out : {"Success", "Failed", "HandlerExecutionError", "ExecutionFailure",
               "Arguments", "NotSelfSigned", "OnlySubject", "OnlyIssuer"}]

Success(i) == [ran |-> i, out |-> "Success"]
Failure(i, name) == [ran |-> i, out |-> name]

ASSUME ChainsAssumption ==
    Chains \subseteq Seq({"NotSelfSigned", "OnlySubject", "OnlyIssuer"} \X Principal)
ASSUME NoneAssumption == None \notin Receipt

VARIABLES
    invocation, \* the invocations, by item
    kind,       \* how the command's handler is registered
    filters,    \* the checks, and the decoding of a typed batch handler
    level,      \* the filter that runs, the command's handler after the last
    batch,      \* the items that filter was called with
    seen,       \* those of them its loop has come past
    accepted,   \* those it lets through
    stage,      \* a call for a single invocation: "none", "running", "done"
    called,     \* the items the command was called with
    resp,       \* the receipt of each item's response, None without one
    lost,       \* items whose failed call could not be given a receipt
    result      \* how the route's handler ended, "none" before

input == <<invocation, kind, filters>>
vars == <<input, level, batch, seen, accepted, stage, called, resp, lost, result>>

Arguments == <<"Arguments", None>>

Rejects(f, inv) ==
    CASE f[1] = "NotSelfSigned" -> inv.iss = inv.sub
      [] f[1] = "OnlySubject" -> inv.sub # f[2]
      [] f[1] = "OnlyIssuer" -> inv.iss # f[2]
      [] f[1] = "Arguments" -> ~inv.conforms

\* The outcomes of issuing a receipt on a response that holds old: it is set,
\* or there is an error and the response stays as it is.
Issued(old, receipt) == {[receipt |-> receipt, err |-> FALSE], [receipt |-> old, err |-> TRUE]}

SetReceipt(old, i, receipt) == IF receipt.ran = i THEN receipt ELSE old

\* A typed batch handler decodes behind the checks, in one more loop like theirs;
\* a typed handler of single invocations decodes when it is called.
Init ==
    /\ invocation \in [Item -> Invocation]
    /\ kind \in Kinds
    /\ \E chain \in Chains :
          filters \in IF kind = "batch" THEN {chain, Append(chain, Arguments)} ELSE {chain}
    /\ level = 1
    /\ batch = Item
    /\ seen = {}
    /\ accepted = {}
    /\ stage = [i \in Item |-> "none"]
    /\ called = {}
    /\ resp = [i \in Item |-> None]
    /\ lost = {}
    /\ result = "none"
-----------------------------------------------------------------------------
Filtering == result = "none" /\ level <= Len(filters)
Serving == result = "none" /\ level > Len(filters)

\* The item a loop over the batch has come to.
Current(i) == i \in batch \ seen /\ \A j \in batch \ seen : i <= j

Accept(i) ==
    /\ Filtering
    /\ Current(i)
    /\ ~Rejects(filters[level], invocation[i])
    /\ seen' = seen \cup {i}
    /\ accepted' = accepted \cup {i}
    /\ UNCHANGED <<input, level, batch, stage, called, resp, lost, result>>

\* A bug: a failure that cannot be recorded is skipped over.
RejectAnyway(i) ==
    /\ Filtering
    /\ Current(i)
    /\ Rejects(filters[level], invocation[i])
    /\ \E set \in Issued(resp[i], Failure(i, filters[level][1])) :
          resp' = [resp EXCEPT ![i] = set.receipt]
    /\ seen' = seen \cup {i}
    /\ UNCHANGED <<input, level, batch, accepted, stage, called, lost, result>>

\* A bug: a rejected invocation stays in the batch.
RejectButKeep(i) ==
    /\ Filtering
    /\ Current(i)
    /\ Rejects(filters[level], invocation[i])
    /\ \E set \in Issued(resp[i], Failure(i, filters[level][1])) :
          resp' = [resp EXCEPT ![i] = set.receipt]
    /\ seen' = seen \cup {i}
    /\ accepted' = accepted \cup {i}
    /\ UNCHANGED <<input, level, batch, stage, called, lost, result>>

\* The failure is recorded and the item dropped, or the whole chain returns.
Reject(i) ==
    /\ Filtering
    /\ Current(i)
    /\ Rejects(filters[level], invocation[i])
    /\ \E set \in Issued(resp[i], Failure(i, filters[level][1])) :
          /\ resp' = [resp EXCEPT ![i] = set.receipt]
          /\ result' \in IF set.err THEN {"short", "long"} ELSE {"none"}
    /\ seen' = seen \cup {i}
    /\ UNCHANGED <<input, level, batch, accepted, stage, called, lost>>

\* The next handler is called with what is left, if anything is.
Pass ==
    /\ Filtering
    /\ batch \subseteq seen
    /\ result' = IF accepted = {} THEN "nil" ELSE "none"
    /\ level' = level + 1
    /\ batch' = accepted
    /\ seen' = {}
    /\ accepted' = {}
    /\ UNCHANGED <<input, stage, called, resp, lost>>

-----------------------------------------------------------------------------
\* The items whose responses the command may write to.
Held ==
    IF kind = "batch"
    THEN IF result = "none" THEN called ELSE {}
    ELSE {i \in Item : stage[i] = "running"}

\* The command sets the outcome of an item, as often as it likes: SetSuccess,
\* SetFailure, or SetReceipt with a receipt it has issued for any task.
Set(i) ==
    /\ i \in Held
    /\ \/ \E receipt \in {Success(i), Failure(i, "Failed")} :
             \E set \in Issued(resp[i], receipt) : resp' = [resp EXCEPT ![i] = set.receipt]
       \/ \E j \in Item : \E receipt \in {Success(j), Failure(j, "Failed")} :
             resp' = [resp EXCEPT ![i] = SetReceipt(resp[i], i, receipt)]
    /\ UNCHANGED <<input, level, batch, seen, accepted, stage, called, lost, result>>

CallBatch ==
    /\ Serving
    /\ kind = "batch"
    /\ called = {}
    /\ called' = batch
    /\ UNCHANGED <<input, level, batch, seen, accepted, stage, resp, lost, result>>

BatchReturns ==
    /\ Serving
    /\ kind = "batch"
    /\ called # {}
    /\ \E r \in {"nil", "short", "long", "panic"} : result' = r
    /\ UNCHANGED <<input, level, batch, seen, accepted, stage, called, resp, lost>>

\* How a call for item i ends.  A dispatcher turns an error or a panic into the
\* item's receipt, unless the error is too long for one; elsewhere the handler
\* itself ends so.
Return(i, r) ==
    /\ stage' = [stage EXCEPT ![i] = "done"]
    /\ IF kind = "each"
       THEN /\ lost' = IF r = "long" THEN lost \cup {i} ELSE lost
            /\ resp' = [resp EXCEPT ![i] =
                  CASE r = "short" -> Failure(i, "HandlerExecutionError")
                    [] r = "panic" -> Failure(i, "ExecutionFailure")
                    [] OTHER -> @]
            /\ UNCHANGED result
       ELSE /\ result' = IF r = "nil" THEN result ELSE r
            /\ UNCHANGED <<lost, resp>>

\* Each calls the next item's handler, at the same time as the others' in a
\* dispatcher and after the one before it elsewhere.
Start(i) ==
    /\ Serving
    /\ kind # "batch"
    /\ Current(i)
    /\ kind = "direct" => \A j \in Item : stage[j] # "running"
    /\ seen' = seen \cup {i}
    /\ IF invocation[i].conforms
       THEN /\ stage' = [stage EXCEPT ![i] = "running"]
            /\ called' = called \cup {i}
            /\ UNCHANGED <<resp, lost, result>>
       ELSE /\ \/ /\ resp' = [resp EXCEPT ![i] = Failure(i, "Arguments")]
                  /\ stage' = [stage EXCEPT ![i] = "done"]
                  /\ UNCHANGED <<lost, result>>
               \/ \E r \in {"short", "long"} : Return(i, r)
            /\ UNCHANGED called
    /\ UNCHANGED <<input, level, batch, accepted>>

CallReturns(i) ==
    /\ stage[i] = "running"
    /\ \E r \in {"nil", "short", "long", "panic"} : Return(i, r)
    /\ UNCHANGED <<input, level, batch, seen, accepted, called>>

\* A bug: Each does not wait for the calls it has started.
EachReturnsEarly ==
    /\ Serving
    /\ kind # "batch"
    /\ batch \subseteq seen
    /\ result' \in IF lost = {} THEN {"nil"} ELSE {"short", "long"}
    /\ UNCHANGED <<input, level, batch, seen, accepted, stage, called, resp, lost>>

EachReturns ==
    /\ Serving
    /\ kind # "batch"
    /\ \A i \in batch : stage[i] = "done"
    /\ result' \in IF lost = {} THEN {"nil"} ELSE {"short", "long"}
    /\ UNCHANGED <<input, level, batch, seen, accepted, stage, called, resp, lost>>

Terminated == result # "none" /\ UNCHANGED vars

Next ==
    \/ \E i \in Item : Accept(i) \/ Reject(i) \/ Set(i) \/ Start(i) \/ CallReturns(i)
    \/ Pass \/ CallBatch \/ BatchReturns \/ EachReturns
    \/ Terminated

Spec == Init /\ [][Next]_vars
-----------------------------------------------------------------------------
\* Everything an invocation must pass: a handler of single invocations decodes
\* behind the last check.
Conditions == IF kind = "batch" THEN filters ELSE Append(filters, Arguments)

Meets(inv, f) ==
    /\ f[1] = "NotSelfSigned" => inv.iss # inv.sub
    /\ f[1] = "OnlySubject" => inv.sub = f[2]
    /\ f[1] = "OnlyIssuer" => inv.iss = f[2]
    /\ f[1] = "Arguments" => inv.conforms

Passes(i) == \A k \in DOMAIN Conditions : Meets(invocation[i], Conditions[k])

\* The name of the first condition, from the outermost, i does not meet.
IsFirstRejecting(i, name) ==
    \E k \in DOMAIN Conditions :
        /\ ~Meets(invocation[i], Conditions[k])
        /\ \A l \in 1 .. k - 1 : Meets(invocation[i], Conditions[l])
        /\ name = Conditions[k][1]

(***************************************************************************)
(* "The handler receives only the invocations every check accepted"        *)
(* (middleware.go:5), and all of those unless something failed; none that  *)
(* does not decode; and none at all when a rejection could not be recorded.*)
(***************************************************************************)
ServesAccepted ==
    /\ called \subseteq {i \in Item : Passes(i)}
    /\ result = "nil" => called = {i \in Item : Passes(i)}

(***************************************************************************)
(* An invocation that the command was not called with keeps the failure of *)
(* the first check it does not pass, whatever the command, the other calls *)
(* and the outer checks do after that; when the handler succeeds each has  *)
(* one.  Only Each's own failure may take the place of one for arguments.  *)
(***************************************************************************)
FirstRejectionStands ==
    \A i \in Item \ called :
        /\ resp[i] # None =>
              /\ ~Passes(i)
              /\ \/ IsFirstRejecting(i, resp[i].out)
                 \/ /\ kind = "each" /\ IsFirstRejecting(i, "Arguments")
                    /\ resp[i].out = "HandlerExecutionError"
        /\ result = "nil" => resp[i] # None

\* What the dispatcher sees of the responses, once the handler has ended.
Outcome ==
    [i \in Item |->
        IF result = "none" \/ resp[i] = None THEN "Empty"
        ELSE IF resp[i].out = "Success" THEN "Success" ELSE "Failed"]

Served == INSTANCE Dispatcher WITH
    Command <- {"route"}, Each <- {}, Unhandled <- None,
    MaxConcurrency <- 0, JoinLimit <- 1,
    command <- [i \in Item |-> "route"],
    next <- N + 1,
    stage <- [i \in Item |-> "validated"],
    slots <- 0,
    pending <- [c \in {"route"} |-> 0],
    ready <- [i \in Item |-> TRUE],
    resp <- Outcome,
    err <- [i \in Item |-> FALSE],
    runner <- [c \in {"route"} |-> IF result = "none" THEN "calling" ELSE "settling"],
    members <- [c \in {"route"} |-> Item],
    lost <- [i \in Item |-> FALSE],
    result <- [c \in {"route"} |-> result],
    returned <- FALSE

(***************************************************************************)
(* What Dispatcher assumes of a batch handler covers every route: however  *)
(* many checks, decodings and concurrent calls it is made of, it shows as  *)
(* one call that sets some outcomes and returns or panics.                 *)
(***************************************************************************)
ServesAsBatch ==
    [][kind # "direct" => Served!CallBatch("route")]_<<Outcome, result>>

(***************************************************************************)
(* With the dispatcher's settling on top, a task that some check rejects   *)
(* is never answered with a success, and neither is one that the command   *)
(* was not called with or whose call failed.                               *)
(***************************************************************************)
SuccessIsServed ==
    result # "none" /\ kind # "direct" =>
        \A i \in Item : Served!Settled(i, result).resp = "Success" =>
            Passes(i) /\ i \in called /\ result = "nil"
=============================================================================
