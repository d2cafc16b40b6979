----------------------------- MODULE Dispatcher -----------------------------
(***************************************************************************)
(* One call of Dispatcher.ExecuteAll (execution/dispatcher/dispatcher.go): *)
(* the admission loop, one goroutine per validation, one batch runner per  *)
(* command, one goroutine per call of a handler wrapped by Each, and the   *)
(* channel and wait groups that order them.                                *)
(*                                                                         *)
(* A handler, a validator and the size of an error message are choices of  *)
(* the environment: what they may do is enumerated, what the dispatcher    *)
(* does about it is modelled.  A receipt is one of a few values that tell  *)
(* apart who wrote it and whether it is a failure.                         *)
(***************************************************************************)
EXTENDS Integers, FiniteSets

CONSTANTS
    N,               \* number of requests passed to ExecuteAll
    Command,         \* the commands with a registered handler
    Each,            \* those of them whose handler is wrapped by Each
    Unhandled,       \* a command without a handler
    MaxConcurrency,  \* WithMaxConcurrency, 0 for no cap
    JoinLimit        \* how many joined errors outgrow an error message

ASSUME NAssumption == N \in Nat
ASSUME CommandAssumption ==
    IsFiniteSet(Command) /\ Each \subseteq Command /\ Unhandled \notin Command
ASSUME CapAssumption == MaxConcurrency \in Nat
ASSUME JoinLimitAssumption == JoinLimit \in Nat \ {0}

VARIABLES
    command,   \* command[i] is the command request i invokes
    next,      \* the admission loop's index
    stage,     \* how far the goroutines working on request i have come
    slots,     \* length of the semaphore channel r.slots
    pending,   \* pending[c] is the counter of c's wait group g.validated
    ready,     \* ready[i]: resps[i] awaits its handler
    resp,      \* resp[i] is resps[i], reduced to the receipt it holds
    err,       \* err[i]: errs[i] is not nil
    runner,    \* where c's batch runner is
    members,   \* members[c] are the requests c's handler is called with
    lost,      \* lost[i]: handleOne could not issue the receipt of i's failure
    result,    \* result[c] is how c's handler ended
    returned   \* ExecuteAll has returned

vars == <<command, next, stage, slots, pending, ready, resp, err,
          runner, members, lost, result, returned>>

Request == 1 .. N

(***************************************************************************)
(* What a response may hold: nothing at all ("Nil"), no receipt yet        *)
(* ("Empty"), a success, a failure from prepare ("Rejected") or from the   *)
(* handler itself ("Failed"), or one of the two short-lived failures.      *)
(***************************************************************************)
Failures == {"Rejected", "Failed", "HandlerExecutionError", "ExecutionFailure"}
Receipts == Failures \cup {"Success"}
Responses == Receipts \cup {"Nil", "Empty"}

(***************************************************************************)
(* A handler returns nil, an error whose message fits in a receipt, one    *)
(* whose message does not (ErrorModel refuses more than 8192 bytes), or it *)
(* panics.                                                                 *)
(***************************************************************************)
HandlerReturns == {"nil", "short", "long", "panic"}

Stages == {"queued", "validating", "checked", "released", "validated",
           "calling", "answered", "called"}

Group(c) == {i \in Request : command[i] = c}
-----------------------------------------------------------------------------
(***************************************************************************)
(* transientFailure: the short-lived receipt of an unexpected failure, or  *)
(* an error when the failure's message cannot be encoded.                  *)
(***************************************************************************)
Transient(failure) ==
    CASE failure = "short" -> [resp |-> "HandlerExecutionError", err |-> FALSE]
      [] failure = "panic" -> [resp |-> "ExecutionFailure", err |-> FALSE]
      [] OTHER             -> [resp |-> "Nil", err |-> TRUE]

Rejection == [resp |-> "Rejected", err |-> FALSE, ready |-> FALSE]
Unissued  == [resp |-> "Nil", err |-> TRUE, ready |-> FALSE]
Panicked  == [resp |-> "ExecutionFailure", err |-> FALSE, ready |-> FALSE]
Valid     == [resp |-> "Empty", err |-> FALSE, ready |-> TRUE]

(***************************************************************************)
(* The outcomes of guard(prepare): an invocation that is addressed to      *)
(* someone else, has no handler or does not validate is rejected, unless   *)
(* the rejection itself cannot be encoded; validation code may panic; and  *)
(* only an invocation whose command has a handler can become ready.        *)
(***************************************************************************)
Prepared(i) ==
    {Rejection, Unissued}
        \cup (IF command[i] \in Command THEN {Valid, Panicked} ELSE {})

(***************************************************************************)
(* run.acquire and run.release, without effect when there is no cap.  A    *)
(* receive from the empty channel would block, hence the guard.            *)
(***************************************************************************)
UncappedAcquire == slots' = slots + 1      \* a bug: never waits

Acquire ==
    IF MaxConcurrency = 0
    THEN slots' = slots
    ELSE slots < MaxConcurrency /\ slots' = slots + 1

LeakyRelease == slots' = slots             \* a bug: keeps the slot

Release ==
    IF MaxConcurrency = 0
    THEN slots' = slots
    ELSE slots > 0 /\ slots' = slots - 1

-----------------------------------------------------------------------------
Init ==
    /\ command \in [Request -> Command \cup {Unhandled}]
    /\ next = 1
    /\ stage = [i \in Request |-> "queued"]
    /\ slots = 0
    /\ pending = [c \in Command |-> Cardinality(Group(c))]
    /\ ready = [i \in Request |-> FALSE]
    /\ resp = [i \in Request |-> "Nil"]
    /\ err = [i \in Request |-> FALSE]
    /\ runner = [c \in Command |-> IF Group(c) = {} THEN "done" ELSE "waiting"]
    /\ members = [c \in Command |-> {}]
    /\ lost = [i \in Request |-> FALSE]
    /\ result = [c \in Command |-> "none"]
    /\ returned = FALSE

(***************************************************************************)
(* The admission loop: it takes a slot before it starts the goroutine that *)
(* validates the next request, so it waits here when the cap is reached.   *)
(***************************************************************************)
Admit ==
    /\ next <= N
    /\ Acquire
    /\ stage' = [stage EXCEPT ![next] = "validating"]
    /\ next' = next + 1
    /\ UNCHANGED <<command, pending, ready, resp, err, runner, members, lost,
                   result, returned>>

\* A bug: a panic is recovered but the request is still handed to its handler.
ReadyBeforeChecked(i) ==
    /\ stage[i] = "validating"
    /\ stage' = [stage EXCEPT ![i] = "checked"]
    /\ \E p \in Prepared(i) :
          /\ resp' = [resp EXCEPT ![i] = p.resp]
          /\ err' = [err EXCEPT ![i] = p.err]
          /\ ready' = [ready EXCEPT ![i] = p.ready \/ p = Panicked]
    /\ UNCHANGED <<command, next, slots, pending, runner, members, lost,
                   result, returned>>

\* The validation goroutine runs prepare under guard and records its outcome.
Validate(i) ==
    /\ stage[i] = "validating"
    /\ stage' = [stage EXCEPT ![i] = "checked"]
    /\ \E p \in Prepared(i) :
          /\ resp' = [resp EXCEPT ![i] = p.resp]
          /\ err' = [err EXCEPT ![i] = p.err]
          /\ ready' = [ready EXCEPT ![i] = p.ready]
    /\ UNCHANGED <<command, next, slots, pending, runner, members, lost,
                   result, returned>>

\* The validation goroutine's deferred release of its slot.
ReleaseValidation(i) ==
    /\ stage[i] = "checked"
    /\ Release
    /\ stage' = [stage EXCEPT ![i] = "released"]
    /\ UNCHANGED <<command, next, pending, ready, resp, err, runner, members,
                   lost, result, returned>>

(***************************************************************************)
(* The validation goroutine ends: g.validated.Done() for a request of a    *)
(* group, wg.Done() for one whose command has no handler.                  *)
(***************************************************************************)
FinishValidation(i) ==
    /\ stage[i] = "released"
    /\ stage' = [stage EXCEPT ![i] = "validated"]
    /\ pending' = [c \in Command |->
          IF command[i] = c THEN pending[c] - 1 ELSE pending[c]]
    /\ UNCHANGED <<command, next, slots, ready, resp, err, runner, members,
                   lost, result, returned>>
-----------------------------------------------------------------------------
\* A bug: the batch is made of whatever is ready once one member is.
StartEagerly(c) ==
    /\ runner[c] = "waiting"
    /\ \E i \in Group(c) : stage[i] = "validated"
    /\ LET valid == {i \in Group(c) : ready[i]}
       IN  /\ members' = [members EXCEPT ![c] = valid]
           /\ runner' = [runner EXCEPT ![c] =
                            IF valid = {} THEN "done" ELSE "calling"]
    /\ UNCHANGED <<command, next, stage, slots, pending, ready, resp, err,
                   lost, result, returned>>

(***************************************************************************)
(* The batch runner returns from g.validated.Wait() and collects the ready *)
(* requests; without one the handler is not called.                        *)
(***************************************************************************)
StartBatch(c) ==
    /\ runner[c] = "waiting"
    /\ pending[c] = 0
    /\ LET valid == {i \in Group(c) : ready[i]}
       IN  /\ members' = [members EXCEPT ![c] = valid]
           /\ runner' = [runner EXCEPT ![c] =
                            IF valid = {} THEN "done" ELSE "calling"]
    /\ UNCHANGED <<command, next, stage, slots, pending, ready, resp, err,
                   lost, result, returned>>

(***************************************************************************)
(* A batch handler runs: it sets the outcome of any of its tasks, then     *)
(* returns or panics.  It holds no slot.                                   *)
(***************************************************************************)
CallBatch(c) ==
    /\ runner[c] = "calling"
    /\ c \notin Each
    /\ \E set \in [members[c] -> {"Empty", "Success", "Failed"}] :
          resp' = [i \in Request |-> IF i \in members[c] THEN set[i] ELSE resp[i]]
    /\ \E r \in HandlerReturns : result' = [result EXCEPT ![c] = r]
    /\ runner' = [runner EXCEPT ![c] = "settling"]
    /\ UNCHANGED <<command, next, stage, slots, pending, ready, err, members,
                   lost, returned>>

(***************************************************************************)
(* Each's loop, run by the batch runner: the next invocation in batch      *)
(* order gets a slot and then a goroutine of its own.                      *)
(***************************************************************************)
StartCall(i) ==
    /\ command[i] \in Each
    /\ runner[command[i]] = "calling"
    /\ i \in members[command[i]]
    /\ stage[i] = "validated"
    /\ \A j \in members[command[i]] : j < i => stage[j] # "validated"
    /\ Acquire
    /\ stage' = [stage EXCEPT ![i] = "calling"]
    /\ UNCHANGED <<command, next, pending, ready, resp, err, runner, members,
                   lost, result, returned>>

(***************************************************************************)
(* handleOne: the handler sets an outcome or none and returns.  An error   *)
(* or a panic replaces what it set by a short-lived failure, except when   *)
(* that receipt cannot be issued: then the response stays as it is and the *)
(* error goes to Each.                                                     *)
(***************************************************************************)
Call(i) ==
    /\ stage[i] = "calling"
    /\ stage' = [stage EXCEPT ![i] = "answered"]
    /\ \E set \in {"Empty", "Success", "Failed"}, r \in HandlerReturns :
          /\ resp' = [resp EXCEPT ![i] =
                IF r \in {"short", "panic"} THEN Transient(r).resp ELSE set]
          /\ lost' = [lost EXCEPT ![i] = r = "long"]
    /\ UNCHANGED <<command, next, slots, pending, ready, err, runner, members,
                   result, returned>>

\* The call's goroutine ends: its deferred release, then the wait group's Done.
FinishCall(i) ==
    /\ stage[i] = "answered"
    /\ Release
    /\ stage' = [stage EXCEPT ![i] = "called"]
    /\ UNCHANGED <<command, next, pending, ready, resp, err, runner, members,
                   lost, result, returned>>

\* A bug: any failed call, not only a lost receipt, is reported to the batch.
JoinEveryFailure(c) ==
    /\ runner[c] = "calling"
    /\ c \in Each
    /\ \A i \in members[c] : stage[i] = "called"
    /\ LET unissued == {i \in members[c] : lost[i] \/ resp[i] = "HandlerExecutionError"}
       IN  result' = [result EXCEPT ![c] =
              IF unissued = {} THEN "nil" ELSE "short"]
    /\ runner' = [runner EXCEPT ![c] = "settling"]
    /\ UNCHANGED <<command, next, stage, slots, pending, ready, resp, err,
                   members, lost, returned>>

(***************************************************************************)
(* Each returns once all of its calls have: the errors of the receipts     *)
(* that could not be issued, joined.                                       *)
(***************************************************************************)
EachReturn(c) ==
    /\ runner[c] = "calling"
    /\ c \in Each
    /\ \A i \in members[c] : stage[i] = "called"
    /\ LET unissued == {i \in members[c] : lost[i]}
       IN  result' = [result EXCEPT ![c] =
              IF unissued = {} THEN "nil"
              ELSE IF Cardinality(unissued) < JoinLimit THEN "short" ELSE "long"]
    /\ runner' = [runner EXCEPT ![c] = "settling"]
    /\ UNCHANGED <<command, next, stage, slots, pending, ready, resp, err,
                   members, lost, returned>>
-----------------------------------------------------------------------------
\* A bug: a task the handler left without a receipt stays so.
MissingStaysMissing(i, r) ==
    IF r # "nil" /\ resp[i] \in {"Empty", "Success"}
    THEN Transient(r)
    ELSE [resp |-> resp[i], err |-> err[i]]

\* A bug: a failed batch overwrites the failures its tasks already have.
FailEveryTask(i, r) ==
    IF resp[i] = "Empty" \/ r # "nil"
    THEN Transient(IF r = "nil" THEN "panic" ELSE r)
    ELSE [resp |-> resp[i], err |-> err[i]]

\* A bug: a success survives the failure of its batch.
KeepSuccesses(i, r) ==
    IF resp[i] = "Empty"
    THEN Transient(IF r = "nil" THEN "panic" ELSE r)
    ELSE [resp |-> resp[i], err |-> err[i]]

(***************************************************************************)
(* What becomes of task i when its handler ended with r: a task without a  *)
(* receipt fails either way, a success does not survive the failure of the *)
(* batch, and a failure stays.                                             *)
(***************************************************************************)
Settled(i, r) ==
    IF resp[i] = "Empty"
    THEN Transient(IF r = "nil" THEN "panic" ELSE r)
    ELSE IF r # "nil" /\ resp[i] = "Success"
         THEN Transient(r)
         ELSE [resp |-> resp[i], err |-> err[i]]

(***************************************************************************)
(* The rest of runBatch, after the handler: it settles every member and    *)
(* the runner ends.  Nobody else reads or writes the members' slots.       *)
(***************************************************************************)
SettleBatch(c) ==
    /\ runner[c] = "settling"
    /\ resp' = [i \in Request |->
          IF i \in members[c] THEN Settled(i, result[c]).resp ELSE resp[i]]
    /\ err' = [i \in Request |->
          IF i \in members[c] THEN Settled(i, result[c]).err ELSE err[i]]
    /\ runner' = [runner EXCEPT ![c] = "done"]
    /\ UNCHANGED <<command, next, stage, slots, pending, ready, members, lost,
                   result, returned>>

(***************************************************************************)
(* wg.Wait() returns: wg counts the batch runners and the validations of   *)
(* requests without a handler.                                             *)
(***************************************************************************)
Return ==
    /\ ~returned
    /\ next > N
    /\ \A c \in Command : runner[c] = "done"
    /\ \A i \in Group(Unhandled) : stage[i] = "validated"
    /\ returned' = TRUE
    /\ UNCHANGED <<command, next, stage, slots, pending, ready, resp, err,
                   runner, members, lost, result>>

\* The call is over; everything that could still move would show as a step.
Terminated == returned /\ UNCHANGED vars

Next ==
    \/ Admit
    \/ \E i \in Request :
          \/ Validate(i)
          \/ ReleaseValidation(i)
          \/ FinishValidation(i)
          \/ StartCall(i)
          \/ Call(i)
          \/ FinishCall(i)
    \/ \E c \in Command :
          \/ StartBatch(c)
          \/ CallBatch(c)
          \/ EachReturn(c)
          \/ SettleBatch(c)
    \/ Return
    \/ Terminated

Spec == Init /\ [][Next]_vars

(***************************************************************************)
(* Go runs every goroutine that can run.  The goroutines block only on the *)
(* semaphore and on the wait groups, and take finitely many slots, so weak *)
(* fairness of each goroutine's own steps is all that is needed.           *)
(***************************************************************************)
GoroutineFairness ==
    /\ WF_vars(Admit)
    /\ WF_vars(Return)
    /\ \A i \in Request :
          /\ WF_vars(Validate(i))
          /\ WF_vars(ReleaseValidation(i))
          /\ WF_vars(FinishValidation(i))
          /\ WF_vars(StartCall(i))
          /\ WF_vars(Call(i))
          /\ WF_vars(FinishCall(i))
    /\ \A c \in Command :
          /\ WF_vars(StartBatch(c))
          /\ WF_vars(EachReturn(c))
          /\ WF_vars(SettleBatch(c))

\* Every batch handler returns or panics, in the end.
HandlersReturn == \A c \in Command : WF_vars(CallBatch(c))

\* Batch handlers may never return.
FairSpec == Spec /\ GoroutineFairness
-----------------------------------------------------------------------------
(***************************************************************************)
(* Every variable has the type its Go counterpart has.                     *)
(***************************************************************************)
TypeOK ==
    /\ command \in [Request -> Command \cup {Unhandled}]
    /\ next \in 1 .. N + 1
    /\ stage \in [Request -> Stages]
    /\ slots \in Nat
    /\ pending \in [Command -> Nat]
    /\ ready \in [Request -> BOOLEAN]
    /\ resp \in [Request -> Responses]
    /\ err \in [Request -> BOOLEAN]
    /\ runner \in [Command -> {"waiting", "calling", "settling", "done"}]
    /\ members \in [Command -> SUBSET Request]
    /\ lost \in [Request -> BOOLEAN]
    /\ result \in [Command -> HandlerReturns \cup {"none"}]
    /\ returned \in BOOLEAN

\* The requests with a validation or a per-invocation handler call under way.
Running == {i \in Request : stage[i] \in {"validating", "calling"}}

\* The goroutines that have taken a slot and not given it back.
Holders == {i \in Request :
               stage[i] \in {"validating", "checked", "calling", "answered"}}

(***************************************************************************)
(* Slots are neither leaked nor given back twice: the semaphore's length   *)
(* is the number of goroutines that hold one, whichever of the two loops   *)
(* took it.                                                                *)
(***************************************************************************)
SlotsAccounted == MaxConcurrency > 0 => slots = Cardinality(Holders)

(***************************************************************************)
(* WithMaxConcurrency: at most that many validations and per-invocation    *)
(* handler calls of one ExecuteAll run at once, even when the validations  *)
(* of one command overlap the calls of several others.                     *)
(***************************************************************************)
CapRespected == MaxConcurrency > 0 => Cardinality(Running) <= MaxConcurrency

(***************************************************************************)
(* A command's handler gets every valid request of the command, and none   *)
(* that is invalid or already answered: when it is called, each of the     *)
(* command's validations is over and the batch is exactly the requests     *)
(* found valid, however the validations interleaved.                       *)
(***************************************************************************)
BatchComplete ==
    \A c \in Command : runner[c] \in {"calling", "settling"} =>
        /\ \A i \in Group(c) :
              stage[i] \in {"validated", "calling", "answered", "called"}
        /\ members[c] = {i \in Group(c) : ready[i]}
        /\ runner[c] = "calling" =>
              \A i \in members[c] :
                 stage[i] \in {"validated", "calling"} => resp[i] = "Empty" /\ ~err[i]

(***************************************************************************)
(* When ExecuteAll returns, every request has a receipt or an error, so    *)
(* ExecuteBatch never gathers a nil receipt, and no goroutine it started   *)
(* is left to write to the slices it returned.                             *)
(***************************************************************************)
AnsweredOnReturn ==
    returned =>
        /\ \A i \in Request : resp[i] \in Receipts \/ err[i]
        /\ \A i \in Request : stage[i] \in {"validated", "called"}
        /\ \A c \in Command : runner[c] = "done"

(***************************************************************************)
(* A task is answered with a success only if it was valid and the call of  *)
(* its command's handler, the whole batch's, came back without an error.   *)
(***************************************************************************)
SuccessIsComplete ==
    returned => \A i \in Request : resp[i] = "Success" =>
        /\ command[i] \in Command
        /\ i \in members[command[i]]
        /\ ready[i]
        /\ result[command[i]] = "nil"

(***************************************************************************)
(* A failure receipt that a validation or a handler call has left behind   *)
(* is that task's answer: no later step of the batch it belongs to, or of  *)
(* another, changes it.                                                    *)
(***************************************************************************)
FailureStays ==
    [][\A i \in Request : resp[i] \in Failures => resp'[i] = resp[i]]_vars

(***************************************************************************)
(* As Each's comment has it (dispatcher.go:238), each call of a handler    *)
(* wrapped by Each "fails only its own task": a task whose own call came   *)
(* back with a success keeps it whatever its siblings do.  The code does   *)
(* not keep this.                                                          *)
(***************************************************************************)
EachFailsOnlyItsOwnTask ==
    [][\A i \in Request :
          /\ command[i] \in Each
          /\ stage[i] \in {"answered", "called"}
          /\ ~lost[i]
          /\ resp[i] = "Success"
          => resp'[i] = "Success"]_vars

(***************************************************************************)
(* What the code does keep of it: a sibling's error or panic leaves the    *)
(* receipts of the other tasks alone as long as every failure's receipt    *)
(* could be issued.                                                        *)
(***************************************************************************)
EachFailsOnlyIssued ==
    [][\A i \in Request :
          /\ command[i] \in Each
          /\ resp[i] \in Receipts
          /\ \A j \in Group(command[i]) : ~lost[j]
          => resp'[i] = resp[i]]_vars

(***************************************************************************)
(* ExecuteAll returns, whatever the cap, when the handlers do: the slots   *)
(* the calls of Each need are never all waited for by the admission loop,  *)
(* nor the other way round.                                                *)
(***************************************************************************)
EventuallyReturns == HandlersReturn => <>returned

(***************************************************************************)
(* A batch handler call is outside the cap: one that never returns keeps   *)
(* no other request from being validated, and no other command's batch     *)
(* from being answered.                                                    *)
(***************************************************************************)
OthersProceed ==
    /\ \A i \in Request : <>(stage[i] \in {"validated", "called"})
    /\ \A c \in Each : <>(runner[c] = "done")

(***************************************************************************)
(* The goroutines, slots and wait groups above amount to the few steps of  *)
(* Dispatch.  A verdict is in when the validation has recorded it; an      *)
(* answer is out once the runner of the request's batch has settled it,    *)
(* and at once for a request that goes to no handler.                      *)
(***************************************************************************)
Verdict ==
    [i \in Request |->
        IF stage[i] \in {"queued", "validating"} THEN "unknown"
        ELSE IF ready[i] THEN "valid" ELSE "invalid"]

BatchState ==
    [c \in Command |->
        IF members[c] = {} THEN "open"
        ELSE IF runner[c] = "done" THEN "answered" ELSE "called"]

Answer ==
    [i \in Request |->
        IF \/ Verdict[i] = "unknown"
           \/ Verdict[i] = "valid" /\ runner[command[i]] # "done"
        THEN "none"
        ELSE IF err[i] THEN "Error" ELSE resp[i]]

Promise == INSTANCE Dispatch WITH
    verdict <- Verdict, batch <- BatchState, answer <- Answer

(***************************************************************************)
(* The dispatcher keeps the promise of Dispatch: each of its behaviours    *)
(* maps to one in which requests are judged once, handlers are called once *)
(* with whole batches, and all of a batch is answered together.            *)
(***************************************************************************)
KeepsPromise == Promise!Spec
=============================================================================
