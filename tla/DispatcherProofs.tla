-------------------------- MODULE DispatcherProofs --------------------------
(***************************************************************************)
(* Proofs about Dispatcher for any number of requests, any commands, any   *)
(* cap and any JoinLimit.                                                  *)
(*                                                                         *)
(* The invariants the runs check are not inductive.  IInv adds to them     *)
(* what relates the counters (the semaphore, the wait groups, the          *)
(* admission index) to the goroutines they count, and a runner to the      *)
(* validations and calls it has waited for.                                *)
(***************************************************************************)
EXTENDS Dispatcher, FiniteSetTheorems, TLAPS

\* The stages of a validation whose goroutine has not called Done.
Unfinished == {"queued", "validating", "checked", "released"}

\* The stages of a per-invocation handler call.
InCall == {"calling", "answered", "called"}

Unvalidated(c) == {i \in Group(c) : stage[i] \in Unfinished}

\* The semaphore counts the goroutines that hold a slot, up to the cap.
SlotInv ==
    MaxConcurrency > 0 => slots = Cardinality(Holders) /\ slots <= MaxConcurrency

\* The admission loop has passed the requests that are no longer queued.
QueueInv == \A i \in Request : stage[i] = "queued" <=> i >= next

\* The wait group of a command counts its unfinished validations.
PendingInv == \A c \in Command : pending[c] = Cardinality(Unvalidated(c))

\* What a runner has waited for, at each of its stages.
RunnerInv ==
    \A c \in Command :
        /\ runner[c] = "waiting" => members[c] = {}
        /\ runner[c] # "waiting" =>
              /\ \A i \in Group(c) : stage[i] \notin Unfinished
              /\ members[c] = {i \in Group(c) : ready[i]}
        /\ runner[c] \in {"calling", "settling"} => members[c] # {}
        /\ runner[c] \in {"settling", "done"} =>
              /\ members[c] # {} => result[c] \in HandlerReturns
              /\ c \in Each => \A i \in members[c] : stage[i] = "called"
        /\ /\ runner[c] = "settling" /\ c \in Each
           /\ \A i \in members[c] : ~lost[i]
           => result[c] = "nil"

\* Only the ready members of a started batch are ever called.
CallInv ==
    \A i \in Request : stage[i] \in InCall =>
        command[i] \in Each /\ i \in members[command[i]]

\* A verdict is recorded with its answer; only a validated request is ready.
VerdictInv ==
    \A i \in Request :
        /\ ready[i] => /\ command[i] \in Command
                       /\ stage[i] \notin {"queued", "validating"}
        /\ stage[i] \notin {"queued", "validating"} /\ ~ready[i] =>
              resp[i] \in {"Rejected", "ExecutionFailure"} \/ err[i]
        /\ stage[i] \in {"queued", "validating"} => resp[i] = "Nil"
        /\ ~ready[i] => resp[i] \notin {"Success", "Failed"}

\* How far the answer of a ready request is, by the stage of its runner.
AnswerInv ==
    \A i \in Request : ready[i] =>
        /\ runner[command[i]] # "done" => ~err[i] /\ resp[i] # "Nil" /\ resp[i] # "Rejected"
        /\ runner[command[i]] = "waiting" => resp[i] = "Empty"
        /\ runner[command[i]] = "calling" /\ stage[i] \in {"validated", "calling"} =>
              resp[i] = "Empty"
        /\ runner[command[i]] = "done" => resp[i] \in Receipts \/ err[i]
        /\ runner[command[i]] = "done" /\ resp[i] = "Success" =>
              result[command[i]] = "nil"

\* ExecuteAll returns after everything wg counts.
ReturnInv ==
    returned =>
        /\ next > N
        /\ \A c \in Command : runner[c] = "done"
        /\ \A i \in Group(Unhandled) : stage[i] = "validated"

IInv ==
    /\ TypeOK
    /\ SlotInv
    /\ QueueInv
    /\ PendingInv
    /\ RunnerInv
    /\ CallInv
    /\ VerdictInv
    /\ AnswerInv
    /\ ReturnInv
-----------------------------------------------------------------------------
(***************************************************************************)
(* Sets of requests are finite, so they can be counted one at a time.      *)
(***************************************************************************)
LEMMA RequestsFinite ==
    ASSUME NEW S \in SUBSET Request
    PROVE  IsFiniteSet(S) /\ Cardinality(S) \in Nat
<1>1. IsFiniteSet(Request)
  BY NAssumption, FS_Interval DEF Request
<1>2. IsFiniteSet(S)
  BY <1>1, FS_Subset
<1> QED
  BY <1>2, FS_CardinalityType

\* A request that joins a set of requests adds one to its count.
LEMMA OneMore ==
    ASSUME NEW S \in SUBSET Request, NEW T \in SUBSET Request,
           NEW i \in Request, i \notin S, T = S \cup {i}
    PROVE  Cardinality(T) = Cardinality(S) + 1
  BY RequestsFinite, FS_AddElement

\* A request that leaves a set of requests takes one from its count.
LEMMA OneLess ==
    ASSUME NEW S \in SUBSET Request, NEW T \in SUBSET Request,
           NEW i \in Request, i \in S, T = S \ {i}
    PROVE  Cardinality(T) = Cardinality(S) - 1 /\ Cardinality(S) > 0
<1>1. Cardinality(T) = Cardinality(S) - 1
  BY RequestsFinite, FS_RemoveElement
<1> QED
  BY <1>1, RequestsFinite

\* The outcome of every operator that answers a request is typed.
LEMMA PreparedType ==
    ASSUME NEW i \in Request, NEW p \in Prepared(i)
    PROVE  /\ p.resp \in Responses /\ p.err \in BOOLEAN /\ p.ready \in BOOLEAN
           /\ p.ready => p = Valid /\ command[i] \in Command
           /\ ~p.ready => /\ p.resp \in {"Rejected", "ExecutionFailure"} \/ p.err
                          /\ p.resp \notin {"Success", "Failed"}
<1>1. \/ p \in {Rejection, Unissued}
      \/ p \in {Valid, Panicked} /\ command[i] \in Command
  BY DEF Prepared
<1>2. CASE p = Rejection
  BY <1>2 DEF Rejection, Responses, Receipts, Failures
<1>3. CASE p = Unissued
  BY <1>3 DEF Unissued, Responses
<1>4. CASE p = Valid /\ command[i] \in Command
  BY <1>4 DEF Valid, Responses
<1>5. CASE p = Panicked /\ command[i] \in Command
  BY <1>5 DEF Panicked, Responses, Receipts, Failures
<1> QED
  BY <1>1, <1>2, <1>3, <1>4, <1>5

LEMMA TransientType ==
    ASSUME NEW r
    PROVE  /\ Transient(r).resp \in {"HandlerExecutionError", "ExecutionFailure", "Nil"}
           /\ Transient(r).err \in BOOLEAN
           /\ Transient(r).err <=> Transient(r).resp = "Nil"
           /\ r \in {"short", "panic"} => ~Transient(r).err
  BY DEF Transient

LEMMA SettledType ==
    ASSUME TypeOK, NEW i \in Request, NEW r \in HandlerReturns
    PROVE  /\ Settled(i, r).resp \in Responses
           /\ Settled(i, r).err \in BOOLEAN
  BY TransientType DEF Settled, TypeOK, Responses, Receipts, Failures
-----------------------------------------------------------------------------
(***************************************************************************)
(* Types.  A wait group's counter stays a natural number because PendingInv *)
(* says what it counts, and the handler of a settling runner has ended.    *)
(***************************************************************************)
LEMMA TypeStep ==
    ASSUME TypeOK, PendingInv, RunnerInv, [Next]_vars
    PROVE  TypeOK'
<1> USE DEF TypeOK
<1>1. CASE Admit
  <2>1. next' \in 1 .. N + 1 /\ next \in Request
    BY <1>1, NAssumption DEF Admit, Request
  <2>2. slots' \in Nat
    BY <1>1 DEF Admit, Acquire
  <2> QED
    BY <1>1, <2>1, <2>2 DEF Admit, Stages
<1>2. ASSUME NEW i \in Request, Validate(i)
      PROVE  TypeOK'
  <2>1. PICK p \in Prepared(i) :
            /\ resp' = [resp EXCEPT ![i] = p.resp]
            /\ err' = [err EXCEPT ![i] = p.err]
            /\ ready' = [ready EXCEPT ![i] = p.ready]
    BY <1>2 DEF Validate
  <2> QED
    BY <1>2, <2>1, PreparedType DEF Validate, Stages
<1>3. ASSUME NEW i \in Request, ReleaseValidation(i)
      PROVE  TypeOK'
  BY <1>3 DEF ReleaseValidation, Release, Stages
<1>4. ASSUME NEW i \in Request, FinishValidation(i)
      PROVE  TypeOK'
  <2>1. ASSUME NEW c \in Command, command[i] = c
        PROVE  pending[c] - 1 \in Nat
    <3>1. Unvalidated(c) \in SUBSET Request /\ i \in Unvalidated(c)
      BY <1>4, <2>1 DEF FinishValidation, Unvalidated, Group, Unfinished
    <3>2. Cardinality(Unvalidated(c)) > 0
      BY <3>1, OneLess
    <3> QED
      BY <3>1, <3>2, RequestsFinite DEF PendingInv
  <2> QED
    BY <1>4, <2>1 DEF FinishValidation, Stages
<1>5. ASSUME NEW i \in Request, StartCall(i)
      PROVE  TypeOK'
  BY <1>5 DEF StartCall, Acquire, Stages
<1>6. ASSUME NEW i \in Request, Call(i)
      PROVE  TypeOK'
  BY <1>6, TransientType DEF Call, Stages, Responses, Receipts, Failures
<1>7. ASSUME NEW i \in Request, FinishCall(i)
      PROVE  TypeOK'
  BY <1>7 DEF FinishCall, Release, Stages
<1>8. ASSUME NEW c \in Command, StartBatch(c)
      PROVE  TypeOK'
  BY <1>8 DEF StartBatch, Group
<1>9. ASSUME NEW c \in Command, CallBatch(c)
      PROVE  TypeOK'
  BY <1>9 DEF CallBatch, Responses, Receipts, Failures
<1>10. ASSUME NEW c \in Command, EachReturn(c)
       PROVE  TypeOK'
  BY <1>10 DEF EachReturn, HandlerReturns
<1>11. ASSUME NEW c \in Command, SettleBatch(c)
       PROVE  TypeOK'
  <2>1. members[c] # {} => result[c] \in HandlerReturns
    BY <1>11 DEF SettleBatch, RunnerInv
  <2>2. \A i \in members[c] : /\ Settled(i, result[c]).resp \in Responses
                              /\ Settled(i, result[c]).err \in BOOLEAN
    BY <2>1, SettledType
  <2> QED
    BY <1>11, <2>2 DEF SettleBatch
<1>12. CASE Return
  BY <1>12 DEF Return
<1>13. CASE UNCHANGED vars
  BY <1>13 DEF vars
<1> QED
  BY <1>1, <1>2, <1>3, <1>4, <1>5, <1>6, <1>7, <1>8, <1>9, <1>10, <1>11,
     <1>12, <1>13 DEF Next, Terminated
-----------------------------------------------------------------------------
(***************************************************************************)
(* The admission index separates the queued requests from the others: the  *)
(* steps that move a request forward never move a queued one, but Admit.   *)
(***************************************************************************)
LEMMA QueueStep ==
    ASSUME TypeOK, QueueInv, CallInv, [Next]_vars
    PROVE  QueueInv'
<1> USE DEF QueueInv, TypeOK
<1>1. CASE Admit
  BY <1>1 DEF Admit, Request
<1>2. ASSUME NEW i \in Request,
             \/ Validate(i) \/ ReleaseValidation(i) \/ FinishValidation(i)
             \/ StartCall(i) \/ Call(i) \/ FinishCall(i)
      PROVE  QueueInv'
  BY <1>2 DEF Validate, ReleaseValidation, FinishValidation, StartCall, Call,
              FinishCall, Request
<1>3. ASSUME NEW c \in Command,
             StartBatch(c) \/ CallBatch(c) \/ EachReturn(c) \/ SettleBatch(c)
      PROVE  QueueInv'
  BY <1>3 DEF StartBatch, CallBatch, EachReturn, SettleBatch
<1>4. CASE Return \/ UNCHANGED vars
  BY <1>4 DEF Return, vars
<1> QED
  BY <1>1, <1>2, <1>3, <1>4 DEF Next, Terminated

(***************************************************************************)
(* The semaphore: Admit and StartCall add one goroutine to those that hold *)
(* a slot, ReleaseValidation and FinishCall remove one, nothing else does. *)
(***************************************************************************)
LEMMA HoldersUnchanged ==
    ASSUME Holders' = Holders, slots' = slots, SlotInv
    PROVE  SlotInv'
  BY DEF SlotInv

LEMMA SlotStep ==
    ASSUME TypeOK, QueueInv, SlotInv, [Next]_vars
    PROVE  SlotInv'
<1> USE DEF TypeOK
<1>0. Holders \in SUBSET Request /\ Holders' \in SUBSET Request
  BY DEF Holders
<1>1. ASSUME NEW i \in Request, i \notin Holders, Holders' = Holders \cup {i}, Acquire
      PROVE  SlotInv'
  <2>1. Cardinality(Holders') = Cardinality(Holders) + 1
    BY <1>0, <1>1, OneMore
  <2> QED
    BY <1>1, <2>1, CapAssumption DEF SlotInv, Acquire
<1>2. ASSUME NEW i \in Request, i \in Holders, Holders' = Holders \ {i}, Release
      PROVE  SlotInv'
  <2>1. Cardinality(Holders') = Cardinality(Holders) - 1
    BY <1>0, <1>2, OneLess
  <2> QED
    BY <1>2, <2>1, CapAssumption DEF SlotInv, Release
<1>3. CASE Admit
  <2>1. next \in Request /\ stage[next] = "queued" /\ Acquire
    BY <1>3 DEF Admit, QueueInv, Request
  <2>2. next \notin Holders /\ Holders' = Holders \cup {next}
    BY <1>3, <2>1 DEF Admit, Holders
  <2> QED
    BY <1>1, <2>1, <2>2
<1>4. ASSUME NEW i \in Request, StartCall(i)
      PROVE  SlotInv'
  <2>1. i \notin Holders /\ Holders' = Holders \cup {i} /\ Acquire
    BY <1>4 DEF StartCall, Holders
  <2> QED
    BY <1>1, <2>1
<1>5. ASSUME NEW i \in Request, ReleaseValidation(i) \/ FinishCall(i)
      PROVE  SlotInv'
  <2>1. i \in Holders /\ Holders' = Holders \ {i} /\ Release
    BY <1>5 DEF ReleaseValidation, FinishCall, Holders
  <2> QED
    BY <1>2, <2>1
<1>6. ASSUME NEW i \in Request, Validate(i) \/ FinishValidation(i) \/ Call(i)
      PROVE  SlotInv'
  <2>1. Holders' = Holders /\ slots' = slots
    BY <1>6 DEF Validate, FinishValidation, Call, Holders
  <2> QED
    BY <2>1, HoldersUnchanged
<1>7. ASSUME NEW c \in Command,
             StartBatch(c) \/ CallBatch(c) \/ EachReturn(c) \/ SettleBatch(c)
      PROVE  SlotInv'
  <2>1. Holders' = Holders /\ slots' = slots
    BY <1>7 DEF StartBatch, CallBatch, EachReturn, SettleBatch, Holders
  <2> QED
    BY <2>1, HoldersUnchanged
<1>8. CASE Return \/ UNCHANGED vars
  <2>1. Holders' = Holders /\ slots' = slots
    BY <1>8 DEF Return, vars, Holders
  <2> QED
    BY <2>1, HoldersUnchanged
<1> QED
  BY <1>3, <1>4, <1>5, <1>6, <1>7, <1>8 DEF Next, Terminated

(***************************************************************************)
(* The wait groups: only FinishValidation ends a validation, and it takes  *)
(* one from the counter of the request's own command, if it has one.       *)
(***************************************************************************)
LEMMA PendingStep ==
    ASSUME TypeOK, QueueInv, CallInv, PendingInv, [Next]_vars
    PROVE  PendingInv'
<1> USE DEF TypeOK
<1>1. ASSUME NEW c \in Command, Unvalidated(c)' = Unvalidated(c), pending' = pending
      PROVE  pending'[c] = Cardinality(Unvalidated(c)')
  BY <1>1 DEF PendingInv
<1>2. ASSUME NEW i \in Request, FinishValidation(i), NEW c \in Command
      PROVE  pending'[c] = Cardinality(Unvalidated(c)')
  <2>1. CASE command[i] = c
    <3>1. /\ Unvalidated(c) \in SUBSET Request /\ Unvalidated(c)' \in SUBSET Request
          /\ i \in Unvalidated(c) /\ Unvalidated(c)' = Unvalidated(c) \ {i}
      BY <1>2, <2>1 DEF FinishValidation, Unvalidated, Group, Unfinished
    <3>2. Cardinality(Unvalidated(c)') = Cardinality(Unvalidated(c)) - 1
      BY <3>1, OneLess
    <3> QED
      BY <1>2, <2>1, <3>2 DEF FinishValidation, PendingInv
  <2>2. CASE command[i] # c
    <3>1. Unvalidated(c)' = Unvalidated(c) /\ pending'[c] = pending[c]
      BY <1>2, <2>2 DEF FinishValidation, Unvalidated, Group, Unfinished
    <3> QED
      BY <3>1 DEF PendingInv
  <2> QED
    BY <2>1, <2>2
<1>3. ASSUME NEW c \in Command,
             \/ Admit
             \/ \E i \in Request : \/ Validate(i) \/ ReleaseValidation(i)
                                   \/ StartCall(i) \/ Call(i) \/ FinishCall(i)
             \/ \E d \in Command : \/ StartBatch(d) \/ CallBatch(d)
                                   \/ EachReturn(d) \/ SettleBatch(d)
             \/ Return
             \/ UNCHANGED vars
      PROVE  Unvalidated(c)' = Unvalidated(c) /\ pending' = pending
  <2>1. CASE Admit
    <3>1. next \in Request /\ stage[next] = "queued"
      BY <2>1 DEF Admit, QueueInv, Request
    <3> QED
      BY <2>1, <3>1 DEF Admit, Unvalidated, Group, Unfinished
  <2>2. ASSUME NEW i \in Request,
               \/ Validate(i) \/ ReleaseValidation(i)
               \/ StartCall(i) \/ Call(i) \/ FinishCall(i)
        PROVE  Unvalidated(c)' = Unvalidated(c) /\ pending' = pending
    BY <2>2 DEF Validate, ReleaseValidation, StartCall, Call, FinishCall,
                Unvalidated, Group, Unfinished
  <2>3. ASSUME NEW d \in Command,
               StartBatch(d) \/ CallBatch(d) \/ EachReturn(d) \/ SettleBatch(d)
        PROVE  Unvalidated(c)' = Unvalidated(c) /\ pending' = pending
    BY <2>3 DEF StartBatch, CallBatch, EachReturn, SettleBatch, Unvalidated, Group
  <2>4. CASE Return \/ UNCHANGED vars
    BY <2>4 DEF Return, vars, Unvalidated, Group
  <2> QED
    BY <1>3, <2>1, <2>2, <2>3, <2>4
<1>4. ASSUME NEW c \in Command
      PROVE  pending'[c] = Cardinality(Unvalidated(c)')
  BY <1>1, <1>2, <1>3 DEF Next, Terminated
<1> QED
  BY <1>4 DEF PendingInv

(***************************************************************************)
(* When its wait group's counter is zero, none of a command's validations  *)
(* is unfinished: this is what the counter buys the runner.                *)
(***************************************************************************)
LEMMA WaitReturns ==
    ASSUME TypeOK, PendingInv, NEW c \in Command, pending[c] = 0
    PROVE  \A i \in Group(c) : stage[i] \notin Unfinished
<1> SUFFICES ASSUME NEW i \in Group(c), stage[i] \in Unfinished
             PROVE  FALSE
  OBVIOUS
<1>1. Unvalidated(c) \in SUBSET Request /\ i \in Unvalidated(c)
  BY DEF Unvalidated, Group
<1>2. i \in Request
  BY DEF Group
<1>3. Cardinality(Unvalidated(c)) > 0
  <2>1. Unvalidated(c) \ {i} \in SUBSET Request
    BY <1>1
  <2> QED
    BY <1>1, <1>2, <2>1, OneLess
<1> QED
  BY <1>3 DEF PendingInv

(***************************************************************************)
(* Runners: a request that has ended its validation never goes back, a     *)
(* verdict is recorded before that, and a call that has ended stays ended. *)
(***************************************************************************)
LEMMA RunnerStep ==
    ASSUME TypeOK, QueueInv, PendingInv, RunnerInv, [Next]_vars
    PROVE  RunnerInv'
<1> USE DEF TypeOK
<1>1. CASE Admit
  <2>1. next \in Request /\ stage[next] = "queued"
    BY <1>1 DEF Admit, QueueInv, Request
  <2> QED
    BY <1>1, <2>1 DEF Admit, RunnerInv, Group, Unfinished
<1>2. ASSUME NEW i \in Request, Validate(i)
      PROVE  RunnerInv'
  <2>1. /\ UNCHANGED <<command, runner, members, lost, result>>
        /\ stage' = [stage EXCEPT ![i] = "checked"]
        /\ \A j \in Request : j # i => ready'[j] = ready[j]
    BY <1>2 DEF Validate
  <2>2. \A c \in Command : runner[c] # "waiting" => i \notin Group(c)
    BY <1>2 DEF Validate, RunnerInv, Unfinished
  <2> QED
    BY <2>1, <2>2 DEF RunnerInv, Group, Unfinished
<1>3. ASSUME NEW i \in Request, ReleaseValidation(i) \/ FinishValidation(i)
      PROVE  RunnerInv'
  BY <1>3 DEF ReleaseValidation, FinishValidation, RunnerInv, Group, Unfinished
<1>4. ASSUME NEW i \in Request, StartCall(i) \/ Call(i) \/ FinishCall(i)
      PROVE  RunnerInv'
  BY <1>4 DEF StartCall, Call, FinishCall, RunnerInv, Group, Unfinished
<1>5. ASSUME NEW c \in Command, StartBatch(c)
      PROVE  RunnerInv'
  <2>1. \A i \in Group(c) : stage[i] \notin Unfinished
    BY <1>5, WaitReturns DEF StartBatch
  <2> QED
    BY <1>5, <2>1 DEF StartBatch, RunnerInv, Group, Unfinished
<1>6. ASSUME NEW c \in Command, CallBatch(c)
      PROVE  RunnerInv'
  BY <1>6 DEF CallBatch, RunnerInv, Group, HandlerReturns
<1>7. ASSUME NEW c \in Command, EachReturn(c)
      PROVE  RunnerInv'
  BY <1>7 DEF EachReturn, RunnerInv, Group, HandlerReturns
<1>8. ASSUME NEW c \in Command, SettleBatch(c)
      PROVE  RunnerInv'
  BY <1>8 DEF SettleBatch, RunnerInv, Group
<1>9. CASE Return \/ UNCHANGED vars
  BY <1>9 DEF Return, vars, RunnerInv, Group
<1> QED
  BY <1>1, <1>2, <1>3, <1>4, <1>5, <1>6, <1>7, <1>8, <1>9 DEF Next, Terminated

\* Calls: StartCall is the only way in, and a batch never loses a member.
LEMMA CallStep ==
    ASSUME TypeOK, CallInv, RunnerInv, [Next]_vars
    PROVE  CallInv'
<1> USE DEF TypeOK, CallInv, InCall
<1>1. CASE Admit
  BY <1>1 DEF Admit
<1>2. ASSUME NEW i \in Request,
             \/ Validate(i) \/ ReleaseValidation(i) \/ FinishValidation(i)
             \/ StartCall(i) \/ Call(i) \/ FinishCall(i)
      PROVE  CallInv'
  BY <1>2 DEF Validate, ReleaseValidation, FinishValidation, StartCall, Call,
              FinishCall
<1>3. ASSUME NEW c \in Command, StartBatch(c)
      PROVE  CallInv'
  BY <1>3 DEF StartBatch, RunnerInv
<1>4. ASSUME NEW c \in Command, CallBatch(c) \/ EachReturn(c) \/ SettleBatch(c)
      PROVE  CallInv'
  BY <1>4 DEF CallBatch, EachReturn, SettleBatch
<1>5. CASE Return \/ UNCHANGED vars
  BY <1>5 DEF Return, vars
<1> QED
  BY <1>1, <1>2, <1>3, <1>4, <1>5 DEF Next, Terminated

(***************************************************************************)
(* Verdicts: they are recorded once, and only ready requests, which are    *)
(* the members of the batches, are answered after that.                    *)
(***************************************************************************)
LEMMA VerdictStep ==
    ASSUME TypeOK, QueueInv, RunnerInv, CallInv, VerdictInv, [Next]_vars
    PROVE  VerdictInv'
<1> USE DEF TypeOK
<1>1. CASE Admit
  <2>1. next \in Request /\ stage[next] = "queued"
    BY <1>1 DEF Admit, QueueInv, Request
  <2> QED
    BY <1>1, <2>1 DEF Admit, VerdictInv
<1>2. ASSUME NEW i \in Request, Validate(i)
      PROVE  VerdictInv'
  <2>1. PICK p \in Prepared(i) :
            /\ resp' = [resp EXCEPT ![i] = p.resp]
            /\ err' = [err EXCEPT ![i] = p.err]
            /\ ready' = [ready EXCEPT ![i] = p.ready]
    BY <1>2 DEF Validate
  <2>2. /\ p.ready \in BOOLEAN /\ p.err \in BOOLEAN
        /\ p.ready => command[i] \in Command
        /\ ~p.ready => /\ p.resp \in {"Rejected", "ExecutionFailure"} \/ p.err
                       /\ p.resp \notin {"Success", "Failed"}
    BY PreparedType
  <2> QED
    BY <1>2, <2>1, <2>2 DEF Validate, VerdictInv
<1>3. ASSUME NEW i \in Request,
             \/ ReleaseValidation(i) \/ FinishValidation(i)
             \/ StartCall(i) \/ FinishCall(i)
      PROVE  VerdictInv'
  BY <1>3 DEF ReleaseValidation, FinishValidation, StartCall, FinishCall, VerdictInv
<1>4. ASSUME NEW i \in Request, Call(i)
      PROVE  VerdictInv'
  <2>1. ready[i]
    BY <1>4, CommandAssumption DEF Call, CallInv, InCall, RunnerInv, Group
  <2>2. /\ \A j \in Request : j # i => resp'[j] = resp[j] /\ stage'[j] = stage[j]
        /\ stage'[i] = "answered"
        /\ UNCHANGED <<command, ready, err>>
    BY <1>4 DEF Call
  <2> QED
    BY <2>1, <2>2 DEF VerdictInv
<1>5. ASSUME NEW c \in Command, StartBatch(c) \/ EachReturn(c)
      PROVE  VerdictInv'
  BY <1>5 DEF StartBatch, EachReturn, VerdictInv
<1>6. ASSUME NEW c \in Command, CallBatch(c) \/ SettleBatch(c)
      PROVE  VerdictInv'
  <2>1. \A i \in members[c] : ready[i]
    BY <1>6 DEF CallBatch, SettleBatch, RunnerInv
  <2>2. /\ \A i \in Request : i \notin members[c] => resp'[i] = resp[i] /\ err'[i] = err[i]
        /\ UNCHANGED <<command, stage, ready>>
    BY <1>6 DEF CallBatch, SettleBatch
  <2> QED
    BY <2>1, <2>2 DEF VerdictInv
<1>7. CASE Return \/ UNCHANGED vars
  BY <1>7 DEF Return, vars, VerdictInv
<1> QED
  BY <1>1, <1>2, <1>3, <1>4, <1>5, <1>6, <1>7 DEF Next, Terminated

(***************************************************************************)
(* What runBatch's loop leaves of a member: always a receipt or an error,  *)
(* and a success only of a handler that returned nil.                      *)
(***************************************************************************)
LEMMA SettledAnswers ==
    ASSUME TypeOK, NEW i \in Request, NEW r \in HandlerReturns,
           ~err[i], resp[i] \in Receipts \cup {"Empty"}
    PROVE  /\ Settled(i, r).resp \in Receipts \/ Settled(i, r).err
           /\ Settled(i, r).resp = "Success" => r = "nil"
           /\ resp[i] # "Rejected" => Settled(i, r).resp # "Rejected"
           /\ resp[i] \in Failures => Settled(i, r).resp = resp[i]
           /\ r = "nil" /\ resp[i] \in Receipts => Settled(i, r).resp = resp[i]
<1>1. ASSUME NEW f
      PROVE  /\ Transient(f).resp \in Receipts \/ Transient(f).err
             /\ Transient(f).resp # "Success"
             /\ Transient(f).resp # "Rejected"
  BY TransientType DEF Receipts, Failures
<1> QED
  BY <1>1 DEF Settled, TypeOK, Receipts, Failures

(***************************************************************************)
(* Answers: between its validation and its runner's end a ready request's  *)
(* response is written by its handler's call and by SettleBatch alone.     *)
(***************************************************************************)
LEMMA AnswerStep ==
    ASSUME TypeOK, QueueInv, RunnerInv, CallInv, VerdictInv, AnswerInv, [Next]_vars
    PROVE  AnswerInv'
<1> USE DEF TypeOK
<1>1. CASE Admit
  <2>1. next \in Request /\ stage[next] = "queued"
    BY <1>1 DEF Admit, QueueInv, Request
  <2>2. ~ready[next]
    BY <2>1 DEF VerdictInv
  <2> QED
    BY <1>1, <2>1, <2>2 DEF Admit, AnswerInv
<1>2. ASSUME NEW i \in Request, Validate(i)
      PROVE  AnswerInv'
  <2>1. PICK p \in Prepared(i) :
            /\ resp' = [resp EXCEPT ![i] = p.resp]
            /\ err' = [err EXCEPT ![i] = p.err]
            /\ ready' = [ready EXCEPT ![i] = p.ready]
    BY <1>2 DEF Validate
  <2>2. /\ p.ready \in BOOLEAN
        /\ p.ready => p.resp = "Empty" /\ ~p.err /\ command[i] \in Command
    BY PreparedType DEF Valid
  <2>3. command[i] \in Command => runner[command[i]] = "waiting"
    BY <1>2 DEF Validate, RunnerInv, Group, Unfinished
  <2> QED
    BY <1>2, <2>1, <2>2, <2>3 DEF Validate, AnswerInv
<1>3. ASSUME NEW i \in Request, ReleaseValidation(i) \/ FinishValidation(i)
      PROVE  AnswerInv'
  <2>1. command[i] \in Command => runner[command[i]] = "waiting"
    BY <1>3 DEF ReleaseValidation, FinishValidation, RunnerInv, Group, Unfinished
  <2> QED
    BY <1>3, <2>1 DEF ReleaseValidation, FinishValidation, AnswerInv, VerdictInv
<1>4. ASSUME NEW i \in Request, StartCall(i) \/ FinishCall(i)
      PROVE  AnswerInv'
  BY <1>4 DEF StartCall, FinishCall, AnswerInv, VerdictInv
<1>5. ASSUME NEW i \in Request, Call(i)
      PROVE  AnswerInv'
  <2>1. /\ command[i] \in Command /\ command[i] \in Each
        /\ runner[command[i]] = "calling"
    BY <1>5, CommandAssumption DEF Call, CallInv, InCall, RunnerInv
  <2>2. \A set \in {"Empty", "Success", "Failed"}, r \in HandlerReturns :
            (IF r \in {"short", "panic"} THEN Transient(r).resp ELSE set)
                \notin {"Nil", "Rejected"}
    BY TransientType DEF Transient
  <2>3. /\ \A j \in Request : j # i => resp'[j] = resp[j] /\ stage'[j] = stage[j]
        /\ resp'[i] \notin {"Nil", "Rejected"}
        /\ stage'[i] = "answered"
        /\ UNCHANGED <<command, ready, err, runner, result>>
    BY <1>5, <2>2 DEF Call
  <2> QED
    BY <2>1, <2>3 DEF AnswerInv
<1>6. ASSUME NEW c \in Command, StartBatch(c)
      PROVE  AnswerInv'
  BY <1>6 DEF StartBatch, AnswerInv, VerdictInv, Group
<1>7. ASSUME NEW c \in Command, CallBatch(c)
      PROVE  AnswerInv'
  <2>1. \A i \in members[c] : command[i] = c
    BY <1>7 DEF CallBatch, RunnerInv, Group
  <2>2. \A i \in members[c] : resp'[i] \in {"Empty", "Success", "Failed"}
    BY <1>7 DEF CallBatch
  <2>3. /\ \A i \in Request : i \notin members[c] => resp'[i] = resp[i]
        /\ \A d \in Command : d # c => runner'[d] = runner[d] /\ result'[d] = result[d]
        /\ runner[c] = "calling" /\ runner'[c] = "settling"
        /\ UNCHANGED <<command, stage, ready, err>>
    BY <1>7 DEF CallBatch
  <2> QED
    BY <2>1, <2>2, <2>3 DEF AnswerInv, VerdictInv
<1>8. ASSUME NEW c \in Command, EachReturn(c)
      PROVE  AnswerInv'
  BY <1>8 DEF EachReturn, AnswerInv, VerdictInv
<1>9. ASSUME NEW c \in Command, SettleBatch(c)
      PROVE  AnswerInv'
  <2>1. \A i \in Request : ready[i] /\ command[i] = c => i \in members[c]
    BY <1>9 DEF SettleBatch, RunnerInv, Group
  <2>2. ASSUME NEW i \in members[c]
        PROVE  /\ command[i] = c
               /\ resp'[i] \in Receipts \/ err'[i]
               /\ resp'[i] = "Success" => result[c] = "nil"
    <3>1. i \in Request /\ command[i] = c /\ ready[i]
      BY <1>9, <2>2 DEF SettleBatch, RunnerInv, Group
    <3>2. ~err[i] /\ resp[i] \in Receipts \cup {"Empty"}
      BY <1>9, <3>1 DEF SettleBatch, AnswerInv, Responses
    <3>3. result[c] \in HandlerReturns
      BY <1>9, <2>2 DEF SettleBatch, RunnerInv
    <3> QED
      BY <1>9, <3>1, <3>2, <3>3, SettledAnswers DEF SettleBatch
  <2>3. /\ \A i \in Request : i \notin members[c] => resp'[i] = resp[i] /\ err'[i] = err[i]
        /\ \A d \in Command : d # c => runner'[d] = runner[d]
        /\ runner'[c] = "done"
        /\ UNCHANGED <<command, stage, ready, result>>
    BY <1>9 DEF SettleBatch
  <2> QED
    BY <2>1, <2>2, <2>3 DEF AnswerInv, VerdictInv
<1>10. CASE Return \/ UNCHANGED vars
  BY <1>10 DEF Return, vars, AnswerInv
<1> QED
  BY <1>1, <1>2, <1>3, <1>4, <1>5, <1>6, <1>7, <1>8, <1>9, <1>10
     DEF Next, Terminated

\* Once ExecuteAll has returned there is nothing left that could move.
LEMMA ReturnStep ==
    ASSUME TypeOK, CallInv, RunnerInv, ReturnInv, [Next]_vars
    PROVE  ReturnInv'
<1> USE DEF TypeOK, ReturnInv, Group
<1>1. CASE Admit
  BY <1>1, NAssumption DEF Admit
<1>2. ASSUME NEW i \in Request,
             \/ Validate(i) \/ ReleaseValidation(i) \/ FinishValidation(i)
             \/ Call(i) \/ FinishCall(i)
      PROVE  ReturnInv'
  BY <1>2 DEF Validate, ReleaseValidation, FinishValidation, Call, FinishCall
<1>3. ASSUME NEW i \in Request, StartCall(i)
      PROVE  ReturnInv'
  BY <1>3, CommandAssumption DEF StartCall
<1>4. ASSUME NEW c \in Command,
             StartBatch(c) \/ CallBatch(c) \/ EachReturn(c) \/ SettleBatch(c)
      PROVE  ReturnInv'
  BY <1>4 DEF StartBatch, CallBatch, EachReturn, SettleBatch
<1>5. CASE Return
  BY <1>5 DEF Return
<1>6. CASE UNCHANGED vars
  BY <1>6 DEF vars
<1> QED
  BY <1>1, <1>2, <1>3, <1>4, <1>5, <1>6 DEF Next, Terminated
-----------------------------------------------------------------------------
LEMMA IInvInit ==
    ASSUME Init
    PROVE  IInv
<1> USE DEF Init
<1>1. TypeOK
  <2>1. \A c \in Command : Cardinality(Group(c)) \in Nat
    <3>1. \A c \in Command : Group(c) \in SUBSET Request
      BY DEF Group
    <3> QED
      BY <3>1, RequestsFinite
  <2>2. next \in 1 .. N + 1 /\ slots \in Nat
    BY NAssumption
  <2>3. pending \in [Command -> Nat]
    BY <2>1
  <2> QED
    BY <2>2, <2>3 DEF TypeOK, Stages, Responses
<1>2. SlotInv
  <2>1. Holders = {}
    BY DEF Holders
  <2> QED
    BY <2>1, FS_EmptySet, CapAssumption DEF SlotInv
<1>3. QueueInv
  BY DEF QueueInv, Request
<1>4. PendingInv
  <2>1. \A c \in Command : Unvalidated(c) = Group(c)
    BY DEF Unvalidated, Group, Unfinished
  <2> QED
    BY <2>1 DEF PendingInv
<1>5. RunnerInv
  BY DEF RunnerInv, Group
<1>6. CallInv /\ VerdictInv /\ AnswerInv /\ ReturnInv
  BY DEF CallInv, InCall, VerdictInv, AnswerInv, ReturnInv
<1> QED
  BY <1>1, <1>2, <1>3, <1>4, <1>5, <1>6 DEF IInv

LEMMA IInvStep ==
    ASSUME IInv, [Next]_vars
    PROVE  IInv'
<1> USE DEF IInv
<1>1. TypeOK'
  BY TypeStep
<1>2. SlotInv' /\ QueueInv' /\ PendingInv'
  BY SlotStep, QueueStep, PendingStep
<1>3. RunnerInv' /\ CallInv'
  BY RunnerStep, CallStep
<1>4. VerdictInv' /\ AnswerInv' /\ ReturnInv'
  BY VerdictStep, AnswerStep, ReturnStep
<1> QED
  BY <1>1, <1>2, <1>3, <1>4

\* The inductive invariant holds in every reachable state.
THEOREM Inductive == Spec => []IInv
<1>1. Init => IInv
  BY IInvInit
<1>2. IInv /\ [Next]_vars => IInv'
  BY IInvStep
<1> QED
  BY <1>1, <1>2, PTL DEF Spec

(***************************************************************************)
(* Every variable keeps its type; in particular no wait group's counter    *)
(* becomes negative, which would panic.                                    *)
(***************************************************************************)
THEOREM TypeCorrect == Spec => []TypeOK
<1>1. IInv => TypeOK
  BY DEF IInv
<1> QED
  BY <1>1, Inductive, PTL

\* Slots are neither leaked nor given back twice.
THEOREM SlotsCorrect == Spec => []SlotsAccounted
<1>1. IInv => SlotsAccounted
  BY DEF IInv, SlotInv, SlotsAccounted
<1> QED
  BY <1>1, Inductive, PTL

(***************************************************************************)
(* At most MaxConcurrency validations and per-invocation handler calls run *)
(* at once: whoever runs holds a slot, and the semaphore counts the slots. *)
(***************************************************************************)
THEOREM CapCorrect == Spec => []CapRespected
<1>1. IInv => CapRespected
  <2> SUFFICES ASSUME IInv, MaxConcurrency > 0
               PROVE  Cardinality(Running) <= MaxConcurrency
    BY DEF CapRespected
  <2>1. Running \in SUBSET Holders /\ Holders \in SUBSET Request
    BY DEF Running, Holders
  <2>2. Cardinality(Running) <= Cardinality(Holders)
    BY <2>1, RequestsFinite, FS_Subset
  <2>3. Cardinality(Holders) <= MaxConcurrency
    BY DEF IInv, SlotInv
  <2>4. Cardinality(Running) \in Nat /\ Cardinality(Holders) \in Nat
    BY <2>1, RequestsFinite
  <2> QED
    BY <2>2, <2>3, <2>4, CapAssumption
<1> QED
  BY <1>1, Inductive, PTL

(***************************************************************************)
(* A handler is called with exactly the valid requests of its command, all *)
(* of them judged and none of them answered.                               *)
(***************************************************************************)
THEOREM BatchesComplete == Spec => []BatchComplete
<1>1. IInv => BatchComplete
  <2> SUFFICES ASSUME IInv, NEW c \in Command, runner[c] \in {"calling", "settling"}
               PROVE  /\ \A i \in Group(c) :
                            stage[i] \in {"validated", "calling", "answered", "called"}
                      /\ members[c] = {i \in Group(c) : ready[i]}
                      /\ runner[c] = "calling" =>
                            \A i \in members[c] :
                               stage[i] \in {"validated", "calling"} =>
                                  resp[i] = "Empty" /\ ~err[i]
    BY DEF BatchComplete
  <2>1. \A i \in Group(c) : stage[i] \in Stages /\ stage[i] \notin Unfinished
    BY DEF IInv, TypeOK, RunnerInv, Group
  <2>2. members[c] = {i \in Group(c) : ready[i]}
    BY DEF IInv, RunnerInv
  <2>3. \A i \in members[c] : i \in Request /\ command[i] = c /\ ready[i]
    BY <2>2 DEF Group
  <2> QED
    BY <2>1, <2>2, <2>3 DEF IInv, AnswerInv, Stages, Unfinished
<1> QED
  BY <1>1, Inductive, PTL

(***************************************************************************)
(* When ExecuteAll returns every request is answered and every goroutine   *)
(* it started has ended.                                                   *)
(***************************************************************************)
THEOREM AllAnswered == Spec => []AnsweredOnReturn
<1>1. IInv => AnsweredOnReturn
  <2> SUFFICES ASSUME IInv, returned
               PROVE  /\ \A i \in Request : resp[i] \in Receipts \/ err[i]
                      /\ \A i \in Request : stage[i] \in {"validated", "called"}
                      /\ \A c \in Command : runner[c] = "done"
    BY DEF AnsweredOnReturn
  <2>1. \A c \in Command : runner[c] = "done"
    BY DEF IInv, ReturnInv
  <2>2. ASSUME NEW i \in Request
        PROVE  stage[i] \in {"validated", "called"}
    <3>1. CASE command[i] = Unhandled
      BY <3>1 DEF IInv, ReturnInv, Group
    <3>2. CASE command[i] \in Command
      <4>1. stage[i] \in Stages \ Unfinished
        BY <2>1, <3>2 DEF IInv, RunnerInv, TypeOK, Group
      <4>2. stage[i] \in InCall => stage[i] = "called"
        BY <2>1, <3>2 DEF IInv, RunnerInv, CallInv
      <4> QED
        BY <4>1, <4>2 DEF Stages, Unfinished, InCall
    <3> QED
      BY <3>1, <3>2 DEF IInv, TypeOK
  <2>3. ASSUME NEW i \in Request
        PROVE  resp[i] \in Receipts \/ err[i]
    <3>1. CASE ready[i]
      BY <2>1, <3>1 DEF IInv, AnswerInv, VerdictInv
    <3>2. CASE ~ready[i]
      BY <2>2, <3>2 DEF IInv, VerdictInv, Receipts, Failures
    <3> QED
      BY <3>1, <3>2
  <2> QED
    BY <2>1, <2>2, <2>3
<1> QED
  BY <1>1, Inductive, PTL

(***************************************************************************)
(* A success is never what is left of a batch that failed.                 *)
(***************************************************************************)
THEOREM SuccessesComplete == Spec => []SuccessIsComplete
<1>1. IInv => SuccessIsComplete
  <2> SUFFICES ASSUME IInv, returned, NEW i \in Request, resp[i] = "Success"
               PROVE  /\ command[i] \in Command
                      /\ i \in members[command[i]]
                      /\ ready[i]
                      /\ result[command[i]] = "nil"
    BY DEF SuccessIsComplete
  <2>1. ready[i] /\ command[i] \in Command
    BY DEF IInv, VerdictInv, TypeOK
  <2>2. runner[command[i]] = "done"
    BY <2>1 DEF IInv, ReturnInv
  <2> QED
    BY <2>1, <2>2 DEF IInv, RunnerInv, AnswerInv, Group
<1> QED
  BY <1>1, Inductive, PTL

(***************************************************************************)
(* Between its verdict and its handler's call a member of a batch has no   *)
(* receipt, so the call has no failure to overwrite.                       *)
(***************************************************************************)
LEMMA UncalledIsEmpty ==
    ASSUME IInv, NEW c \in Command, runner[c] = "calling", NEW i \in members[c],
           c \in Each => stage[i] = "calling"
    PROVE  i \in Request /\ command[i] = c /\ resp[i] = "Empty"
<1>1. i \in Request /\ command[i] = c /\ ready[i] /\ stage[i] \notin Unfinished
  BY DEF IInv, RunnerInv, Group
<1>2. CASE c \in Each
  BY <1>1, <1>2 DEF IInv, AnswerInv
<1>3. CASE c \notin Each
  <2>1. stage[i] = "validated"
    BY <1>1, <1>3 DEF IInv, TypeOK, CallInv, Stages, Unfinished, InCall
  <2> QED
    BY <1>1, <2>1 DEF IInv, AnswerInv
<1> QED
  BY <1>2, <1>3

(***************************************************************************)
(* What SettleBatch finds in its members.                                  *)
(***************************************************************************)
LEMMA SettlingMembers ==
    ASSUME IInv, NEW c \in Command, runner[c] = "settling", NEW i \in members[c]
    PROVE  /\ i \in Request /\ command[i] = c /\ ready[i]
           /\ ~err[i] /\ resp[i] \in Receipts \cup {"Empty"} /\ resp[i] # "Rejected"
           /\ result[c] \in HandlerReturns
<1>1. i \in Request /\ command[i] = c /\ ready[i] /\ result[c] \in HandlerReturns
  BY DEF IInv, RunnerInv, Group
<1> QED
  BY <1>1 DEF IInv, TypeOK, AnswerInv, Responses

(***************************************************************************)
(* A receipt is only ever replaced by the runner of its own batch, when it *)
(* settles.                                                                *)
(***************************************************************************)
LEMMA ReceiptStays ==
    ASSUME IInv, [Next]_vars, NEW k \in Request, resp[k] \in Receipts,
           \A c \in Command : k \in members[c] => ~SettleBatch(c)
    PROVE  resp'[k] = resp[k]
<1> USE DEF Receipts, Failures
<1>1. ASSUME NEW i \in Request, Validate(i)
      PROVE  resp'[k] = resp[k]
  <2>1. resp[i] = "Nil"
    BY <1>1 DEF Validate, IInv, VerdictInv
  <2> QED
    BY <1>1, <2>1 DEF Validate, IInv, TypeOK
<1>2. ASSUME NEW i \in Request, Call(i)
      PROVE  resp'[k] = resp[k]
  <2>1. command[i] \in Command /\ i \in members[command[i]]
    BY <1>2, CommandAssumption DEF Call, IInv, CallInv, InCall
  <2>2. runner[command[i]] = "calling"
    BY <1>2, <2>1, CommandAssumption
       DEF Call, IInv, TypeOK, CallInv, InCall, RunnerInv
  <2>3. resp[i] = "Empty"
    BY <1>2, <2>1, <2>2, UncalledIsEmpty DEF Call
  <2> QED
    BY <1>2, <2>3 DEF Call, IInv, TypeOK
<1>3. ASSUME NEW c \in Command, CallBatch(c)
      PROVE  resp'[k] = resp[k]
  <2>1. k \notin members[c]
    BY <1>3, UncalledIsEmpty DEF CallBatch
  <2> QED
    BY <1>3, <2>1 DEF CallBatch
<1>4. ASSUME NEW c \in Command, SettleBatch(c)
      PROVE  resp'[k] = resp[k]
  BY <1>4 DEF SettleBatch
<1>5. CASE \/ Admit \/ Return \/ UNCHANGED vars
           \/ \E i \in Request : \/ ReleaseValidation(i) \/ FinishValidation(i)
                                 \/ StartCall(i) \/ FinishCall(i)
           \/ \E c \in Command : StartBatch(c) \/ EachReturn(c)
  BY <1>5 DEF Admit, Return, vars, ReleaseValidation, FinishValidation,
              StartCall, FinishCall, StartBatch, EachReturn
<1> QED
  BY <1>1, <1>2, <1>3, <1>4, <1>5 DEF Next, Terminated

(***************************************************************************)
(* A failure receipt left by a validation or a handler call stays.         *)
(***************************************************************************)
THEOREM FailuresStay == Spec => FailureStays
<1>1. ASSUME IInv, [Next]_vars, NEW k \in Request, resp[k] \in Failures
      PROVE  resp'[k] = resp[k]
  <2>1. ASSUME NEW c \in Command, SettleBatch(c), k \in members[c]
        PROVE  resp'[k] = resp[k]
    <3>1. Settled(k, result[c]).resp = resp[k]
      BY <1>1, <2>1, SettlingMembers, SettledAnswers DEF SettleBatch, IInv
    <3> QED
      BY <2>1, <3>1 DEF SettleBatch
  <2> QED
    BY <1>1, <2>1, ReceiptStays DEF Receipts
<1>2. IInv /\ [Next]_vars =>
         [\A i \in Request : resp[i] \in Failures => resp'[i] = resp[i]]_vars
  BY <1>1
<1> QED
  BY <1>2, Inductive, PTL DEF Spec, FailureStays

(***************************************************************************)
(* While every failure of its siblings could be issued, a task of a        *)
(* handler wrapped by Each keeps the receipt it has.                       *)
(***************************************************************************)
THEOREM EachIsolatesIssued == Spec => EachFailsOnlyIssued
<1>1. ASSUME IInv, [Next]_vars, NEW k \in Request, command[k] \in Each,
             resp[k] \in Receipts, \A j \in Group(command[k]) : ~lost[j]
      PROVE  resp'[k] = resp[k]
  <2>1. ASSUME NEW c \in Command, SettleBatch(c), k \in members[c]
        PROVE  resp'[k] = resp[k]
    <3>1. command[k] = c /\ \A i \in members[c] : i \in Group(c)
      BY <1>1, <2>1, SettlingMembers DEF SettleBatch, Group
    <3>2. result[c] = "nil"
      BY <1>1, <2>1, <3>1 DEF SettleBatch, IInv, RunnerInv
    <3>3. Settled(k, result[c]).resp = resp[k]
      BY <1>1, <2>1, <3>2, SettlingMembers, SettledAnswers DEF SettleBatch, IInv
    <3> QED
      BY <2>1, <3>3 DEF SettleBatch
  <2> QED
    BY <1>1, <2>1, ReceiptStays
<1>2. IInv /\ [Next]_vars =>
         [\A i \in Request :
             /\ command[i] \in Each
             /\ resp[i] \in Receipts
             /\ \A j \in Group(command[i]) : ~lost[j]
             => resp'[i] = resp[i]]_vars
  BY <1>1
<1> QED
  BY <1>2, Inductive, PTL DEF Spec, EachFailsOnlyIssued
-----------------------------------------------------------------------------
(***************************************************************************)
(* Dispatcher implements Dispatch, for every value of the constants: under *)
(* the mapping of Dispatcher's Promise, each step of a goroutine is one    *)
(* step of Dispatch or none.                                               *)
(***************************************************************************)
LEMMA InitRefines ==
    ASSUME Init
    PROVE  Promise!Init
<1> USE DEF Init
<1>1. Verdict = [i \in Request |-> "unknown"]
  BY DEF Verdict
<1>2. BatchState = [c \in Command |-> "open"]
  BY DEF BatchState
<1>3. Answer = [i \in Request |-> "none"]
  BY <1>1 DEF Answer
<1> QED
  BY <1>1, <1>2, <1>3 DEF Promise!Init

(***************************************************************************)
(* A step that touches none of what the mapping reads is a stutter.        *)
(***************************************************************************)
LEMMA Stutter ==
    ASSUME TypeOK, TypeOK', UNCHANGED <<command, returned>>,
           \A i \in Request : Verdict'[i] = Verdict[i] /\ Answer'[i] = Answer[i],
           \A c \in Command : BatchState'[c] = BatchState[c]
    PROVE  UNCHANGED Promise!vars
<1>1. Verdict' = Verdict
  BY DEF Verdict
<1>2. BatchState' = BatchState
  BY DEF BatchState
<1>3. Answer' = Answer
  BY DEF Answer
<1> QED
  BY <1>1, <1>2, <1>3 DEF Promise!vars

\* A recorded verdict is a judgement, and a rejection its answer.
LEMMA ValidateJudges ==
    ASSUME IInv, IInv', NEW i \in Request, Validate(i)
    PROVE  Promise!Judge(i)
<1> USE DEF IInv, TypeOK
<1>1. PICK p \in Prepared(i) :
          /\ resp' = [resp EXCEPT ![i] = p.resp]
          /\ err' = [err EXCEPT ![i] = p.err]
          /\ ready' = [ready EXCEPT ![i] = p.ready]
  BY DEF Validate
<1>2. stage[i] = "validating" /\ stage' = [stage EXCEPT ![i] = "checked"]
      /\ UNCHANGED <<command, runner, members, returned>>
  BY DEF Validate
<1>3. \A j \in Request : j # i => Verdict'[j] = Verdict[j] /\ Answer'[j] = Answer[j]
  BY <1>1, <1>2 DEF Verdict, Answer
<1>4. BatchState' = BatchState
  BY <1>2 DEF BatchState
<1>5. Verdict[i] = "unknown" /\ Answer[i] = "none"
  BY <1>2 DEF Verdict, Answer
<1>6. CASE p.ready
  <2>1. command[i] \in Command /\ runner[command[i]] = "waiting"
    BY <1>2, <1>6, PreparedType DEF RunnerInv, Group, Unfinished
  <2>2. Verdict'[i] = "valid" /\ Answer'[i] = "none"
    BY <1>1, <1>2, <1>6, <2>1 DEF Verdict, Answer
  <2>3. Verdict' = [Verdict EXCEPT ![i] = "valid"]
    BY <1>3, <2>2 DEF Verdict
  <2>4. Answer' = Answer
    BY <1>3, <1>5, <2>2 DEF Answer
  <2> QED
    BY <1>2, <1>4, <1>5, <2>1, <2>3, <2>4 DEF Promise!Judge
<1>7. CASE ~p.ready
  <2>1. p.resp \in {"Rejected", "ExecutionFailure"} \/ p.err
    BY <1>7, PreparedType
  <2>2. /\ Verdict'[i] = "invalid"
        /\ \E a \in {"Rejected", "ExecutionFailure", "Error"} : Answer'[i] = a
    BY <1>1, <1>2, <1>7, <2>1 DEF Verdict, Answer
  <2>3. Verdict' = [Verdict EXCEPT ![i] = "invalid"]
    BY <1>3, <2>2 DEF Verdict
  <2>4. \E a \in {"Rejected", "ExecutionFailure", "Error"} :
            Answer' = [Answer EXCEPT ![i] = a]
    <3>1. PICK a \in {"Rejected", "ExecutionFailure", "Error"} : Answer'[i] = a
      BY <2>2
    <3>2. \A j \in Request : Answer'[j] = [Answer EXCEPT ![i] = a][j]
      BY <1>3, <3>1 DEF Answer
    <3>3. Answer' = [Answer EXCEPT ![i] = a]
      BY <3>2 DEF Answer
    <3> QED
      BY <3>3
  <2> QED
    BY <1>2, <1>4, <1>5, <2>2, <2>3, <2>4 DEF Promise!Judge
<1> QED
  BY <1>1, <1>6, <1>7, PreparedType

\* What Dispatch calls the members of a batch are those of its runner.
LEMMA SameMembers ==
    ASSUME IInv, NEW c \in Command, \A i \in Group(c) : stage[i] \notin Unfinished
    PROVE  /\ Promise!Members(c) = {i \in Group(c) : ready[i]}
           /\ Promise!Judged(c)
<1>1. \A i \in Group(c) : Verdict[i] = IF ready[i] THEN "valid" ELSE "invalid"
  BY DEF Verdict, Group, Unfinished
<1> QED
  BY <1>1 DEF Promise!Members, Promise!Judged, Group

\* A runner's start calls the handler, unless there is nothing to call it for.
LEMMA StartRefines ==
    ASSUME IInv, IInv', NEW c \in Command, StartBatch(c)
    PROVE  Promise!CallHandler(c) \/ UNCHANGED Promise!vars
<1> USE DEF IInv, TypeOK
<1>1. \A i \in Group(c) : stage[i] \notin Unfinished
  BY WaitReturns DEF StartBatch
<1>2. members[c] = {} /\ runner[c] = "waiting"
  BY DEF StartBatch, RunnerInv
<1>3. /\ members' = [members EXCEPT ![c] = {i \in Group(c) : ready[i]}]
      /\ runner' = [runner EXCEPT ![c] =
            IF {i \in Group(c) : ready[i]} = {} THEN "done" ELSE "calling"]
      /\ UNCHANGED <<command, stage, ready, resp, err, returned>>
  BY DEF StartBatch
<1>4. \A i \in Request : Verdict'[i] = Verdict[i]
  BY <1>3 DEF Verdict
<1>5. \A i \in Request : Answer'[i] = Answer[i]
  BY <1>2, <1>3, <1>4 DEF Answer, Verdict, VerdictInv, Group
<1>6. \A d \in Command : d # c => BatchState'[d] = BatchState[d]
  BY <1>3 DEF BatchState
<1>7. CASE {i \in Group(c) : ready[i]} = {}
  <2>1. BatchState'[c] = BatchState[c]
    BY <1>2, <1>3, <1>7 DEF BatchState
  <2> QED
    BY <1>3, <1>4, <1>5, <1>6, <2>1, Stutter
<1>8. CASE {i \in Group(c) : ready[i]} # {}
  <2>1. BatchState[c] = "open" /\ BatchState'[c] = "called"
    BY <1>2, <1>3, <1>8 DEF BatchState
  <2>2. BatchState' = [BatchState EXCEPT ![c] = "called"]
    BY <1>6, <2>1 DEF BatchState
  <2>3. Verdict' = Verdict /\ Answer' = Answer
    BY <1>4, <1>5 DEF Verdict, Answer
  <2> QED
    BY <1>1, <1>3, <1>8, <2>1, <2>2, <2>3, SameMembers DEF Promise!CallHandler
<1> QED
  BY <1>7, <1>8

\* Settling a batch answers all of its members and nobody else.
LEMMA SettleRefines ==
    ASSUME IInv, IInv', NEW c \in Command, SettleBatch(c)
    PROVE  Promise!AnswerBatch(c)
<1> USE DEF IInv, TypeOK
<1>1. /\ runner[c] = "settling" /\ members[c] # {}
      /\ members[c] = {i \in Group(c) : ready[i]}
      /\ \A i \in Group(c) : stage[i] \notin Unfinished
  BY DEF SettleBatch, RunnerInv
<1>2. /\ \A i \in Request : i \in members[c] =>
            /\ resp'[i] = Settled(i, result[c]).resp
            /\ err'[i] = Settled(i, result[c]).err
      /\ \A i \in Request : i \notin members[c] =>
            resp'[i] = resp[i] /\ err'[i] = err[i]
      /\ runner' = [runner EXCEPT ![c] = "done"]
      /\ UNCHANGED <<command, stage, ready, members, returned>>
  BY DEF SettleBatch
<1>3. Promise!Members(c) = members[c] /\ \A i \in members[c] : i \in Request /\ command[i] = c
  BY <1>1, SameMembers DEF Group
<1>4. BatchState[c] = "called" /\ BatchState' = [BatchState EXCEPT ![c] = "answered"]
  BY <1>1, <1>2 DEF BatchState
<1>5. Verdict' = Verdict
  BY <1>2 DEF Verdict
<1>6. ASSUME NEW i \in members[c]
      PROVE  Answer'[i] \in Promise!Answers \ {"Rejected"}
  <2>1. /\ i \in Request /\ command[i] = c /\ ready[i] /\ ~err[i]
        /\ resp[i] \in Receipts \cup {"Empty"} /\ resp[i] # "Rejected"
        /\ result[c] \in HandlerReturns
    BY <1>1, <1>6, SettlingMembers
  <2>2. /\ resp'[i] \in Receipts \/ err'[i]
        /\ resp'[i] # "Rejected"
    <3>1. /\ Settled(i, result[c]).resp \in Receipts \/ Settled(i, result[c]).err
          /\ Settled(i, result[c]).resp # "Rejected"
      BY <2>1, SettledAnswers
    <3> QED
      BY <1>2, <1>6, <2>1, <3>1
  <2>3. Verdict'[i] = "valid" /\ runner'[command'[i]] = "done"
    BY <1>1, <1>2, <2>1 DEF Verdict, Group, Unfinished
  <2>4. Answer'[i] = IF err'[i] THEN "Error" ELSE resp'[i]
    BY <2>1, <2>3 DEF Answer
  <2> QED
    BY <2>2, <2>4 DEF Promise!Answers, Promise!Failures, Receipts, Failures
<1>7. \A i \in Request : i \notin members[c] => Answer'[i] = Answer[i]
  <2> SUFFICES ASSUME NEW i \in Request, i \notin members[c]
               PROVE  Answer'[i] = Answer[i]
    OBVIOUS
  <2>1. ready[i] => command[i] # c /\ command[i] \in Command
    BY <1>1 DEF Group, VerdictInv
  <2>2. Verdict'[i] = Verdict[i] /\ (Verdict[i] = "valid" => ready[i])
    BY <1>5 DEF Verdict
  <2> QED
    BY <1>2, <2>1, <2>2 DEF Answer
<1>8. Answer' = [i \in Request |->
                    IF i \in members[c] THEN [j \in members[c] |-> Answer'[j]][i]
                    ELSE Answer[i]]
  BY <1>7 DEF Answer
<1>9. [j \in members[c] |-> Answer'[j]] \in [members[c] -> Promise!Answers \ {"Rejected"}]
  BY <1>6
<1>10. \E a \in [Promise!Members(c) -> Promise!Answers \ {"Rejected"}] :
          Answer' = [i \in Request |->
                        IF i \in Promise!Members(c) THEN a[i] ELSE Answer[i]]
  <2> DEFINE a == [j \in members[c] |-> Answer'[j]]
  <2>1. a \in [Promise!Members(c) -> Promise!Answers \ {"Rejected"}]
    BY <1>3, <1>9
  <2>2. Answer' = [i \in Request |->
                      IF i \in Promise!Members(c) THEN a[i] ELSE Answer[i]]
    BY <1>3, <1>8
  <2> HIDE DEF a
  <2> QED
    BY <2>1, <2>2
<1> QED
  BY <1>2, <1>4, <1>5, <1>10 DEF Promise!AnswerBatch

\* ExecuteAll returns with an answer for everyone.
LEMMA ReturnRefines ==
    ASSUME IInv, IInv', Return
    PROVE  Promise!Return
<1>1. \A i \in Request : Answer[i] # "none"
  <2> SUFFICES ASSUME NEW i \in Request
               PROVE  Answer[i] # "none"
    OBVIOUS
  <2>1. stage[i] \notin {"queued", "validating"}
    <3>1. CASE command[i] = Unhandled
      BY <3>1 DEF Return, Group
    <3>2. CASE command[i] \in Command
      BY <3>2 DEF Return, IInv, RunnerInv, Group, Unfinished
    <3> QED
      BY <3>1, <3>2 DEF IInv, TypeOK
  <2>2. ready[i] => runner[command[i]] = "done"
    BY DEF Return, IInv, VerdictInv
  <2>3. Verdict[i] = IF ready[i] THEN "valid" ELSE "invalid"
    BY <2>1 DEF Verdict
  <2>4. resp[i] # "none"
    BY DEF IInv, TypeOK, Responses, Receipts, Failures
  <2> QED
    BY <2>2, <2>3, <2>4 DEF Answer
<1>2. Verdict' = Verdict /\ BatchState' = BatchState /\ Answer' = Answer
  BY DEF Return, Verdict, BatchState, Answer
<1> QED
  BY <1>1, <1>2 DEF Return, Promise!Return

LEMMA StepRefines ==
    ASSUME IInv, IInv', [Next]_vars
    PROVE  [Promise!Next]_(Promise!vars)
<1> USE DEF IInv, TypeOK
<1>1. CASE Admit
  <2>1. next \in Request /\ stage[next] = "queued"
    BY <1>1 DEF Admit, QueueInv, Request
  <2>2. \A i \in Request : Verdict'[i] = Verdict[i]
    BY <1>1, <2>1 DEF Admit, Verdict
  <2>3. \A i \in Request : Answer'[i] = Answer[i]
    BY <1>1, <2>2 DEF Admit, Answer
  <2>4. \A c \in Command : BatchState'[c] = BatchState[c]
    BY <1>1 DEF Admit, BatchState
  <2> QED
    BY <1>1, <2>2, <2>3, <2>4, Stutter DEF Admit
<1>2. ASSUME NEW i \in Request, Validate(i)
      PROVE  Promise!Next
  BY <1>2, ValidateJudges DEF Promise!Next
<1>3. ASSUME NEW i \in Request,
             \/ ReleaseValidation(i) \/ FinishValidation(i)
             \/ StartCall(i) \/ FinishCall(i)
      PROVE  UNCHANGED Promise!vars
  <2>1. /\ stage[i] \notin {"queued", "validating"}
        /\ stage'[i] \notin {"queued", "validating"}
        /\ \A j \in Request : j # i => stage'[j] = stage[j]
        /\ UNCHANGED <<command, ready, resp, err, runner, members, returned>>
    BY <1>3 DEF ReleaseValidation, FinishValidation, StartCall, FinishCall
  <2>2. \A j \in Request : Verdict'[j] = Verdict[j]
    BY <2>1 DEF Verdict
  <2>3. \A j \in Request : Answer'[j] = Answer[j]
    BY <2>1, <2>2 DEF Answer
  <2>4. \A c \in Command : BatchState'[c] = BatchState[c]
    BY <2>1 DEF BatchState
  <2> QED
    BY <2>1, <2>2, <2>3, <2>4, Stutter
<1>4. ASSUME NEW i \in Request, Call(i)
      PROVE  UNCHANGED Promise!vars
  <2>1. command[i] \in Command /\ i \in members[command[i]]
    BY <1>4, CommandAssumption DEF Call, CallInv, InCall
  <2>2. ready[i] /\ runner[command[i]] = "calling"
    BY <1>4, <2>1, CommandAssumption DEF Call, CallInv, InCall, RunnerInv
  <2>3. /\ stage[i] = "calling" /\ stage'[i] = "answered"
        /\ \A j \in Request : j # i => stage'[j] = stage[j] /\ resp'[j] = resp[j]
        /\ UNCHANGED <<command, ready, err, runner, members, returned>>
    BY <1>4 DEF Call
  <2>4. \A j \in Request : Verdict'[j] = Verdict[j]
    BY <2>3 DEF Verdict
  <2>5. \A j \in Request : Answer'[j] = Answer[j]
    BY <2>2, <2>3, <2>4 DEF Answer, Verdict
  <2>6. \A c \in Command : BatchState'[c] = BatchState[c]
    BY <2>3 DEF BatchState
  <2> QED
    BY <2>3, <2>4, <2>5, <2>6, Stutter
<1>5. ASSUME NEW c \in Command, StartBatch(c)
      PROVE  [Promise!Next]_(Promise!vars)
  BY <1>5, StartRefines DEF Promise!Next
<1>6. ASSUME NEW c \in Command, CallBatch(c) \/ EachReturn(c)
      PROVE  UNCHANGED Promise!vars
  <2>1. /\ runner[c] = "calling" /\ runner'[c] = "settling"
        /\ \A d \in Command : d # c => runner'[d] = runner[d]
        /\ \A i \in Request : i \notin members[c] => resp'[i] = resp[i]
        /\ UNCHANGED <<command, stage, ready, err, members, returned>>
    BY <1>6 DEF CallBatch, EachReturn
  <2>2. \A i \in members[c] : ready[i] /\ command[i] = c
    BY <2>1 DEF RunnerInv, Group
  <2>3. \A i \in Request : Verdict'[i] = Verdict[i]
    BY <2>1 DEF Verdict
  <2>4. ASSUME NEW i \in Request
        PROVE  Answer'[i] = Answer[i]
    <3>1. CASE i \in members[c]
      <4>1. Verdict[i] = "unknown" \/ Verdict[i] = "valid"
        BY <2>2, <3>1 DEF Verdict
      <4> QED
        BY <2>1, <2>2, <2>3, <3>1, <4>1 DEF Answer
    <3>2. CASE i \notin members[c]
      <4>1. Verdict[i] = "valid" => command[i] \in Command
        BY DEF Verdict, VerdictInv
      <4>2. Verdict[i] = "valid" => (runner'[command[i]] = "done" <=> runner[command[i]] = "done")
        BY <2>1, <4>1
      <4> QED
        BY <2>1, <2>3, <3>2, <4>2 DEF Answer
    <3> QED
      BY <3>1, <3>2
  <2>5. \A d \in Command : BatchState'[d] = BatchState[d]
    BY <2>1 DEF BatchState
  <2> QED
    BY <2>1, <2>3, <2>4, <2>5, Stutter
<1>7. ASSUME NEW c \in Command, SettleBatch(c)
      PROVE  Promise!Next
  BY <1>7, SettleRefines DEF Promise!Next
<1>8. CASE Return
  BY <1>8, ReturnRefines DEF Promise!Next
<1>9. CASE UNCHANGED vars
  <2>1. Verdict' = Verdict /\ BatchState' = BatchState /\ Answer' = Answer
    BY <1>9 DEF vars, Verdict, BatchState, Answer
  <2> QED
    BY <1>9, <2>1 DEF vars, Promise!vars
<1> QED
  BY <1>1, <1>2, <1>3, <1>4, <1>5, <1>6, <1>7, <1>8, <1>9 DEF Next, Terminated

(***************************************************************************)
(* Every behaviour of the dispatcher is one Dispatch allows.               *)
(***************************************************************************)
THEOREM Implements == Spec => KeepsPromise
<1>1. Init => Promise!Init
  BY InitRefines
<1>2. IInv /\ IInv' /\ [Next]_vars => [Promise!Next]_(Promise!vars)
  BY StepRefines
<1> QED
  BY <1>1, <1>2, Inductive, PTL DEF Spec, KeepsPromise, Promise!Spec
=============================================================================
