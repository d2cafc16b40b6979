----------------------------- MODULE HTTPServer -----------------------------
(***************************************************************************)
(* One HTTP request through HTTPServer (server/http.go): RoundTrip decodes *)
(* it, calls the listeners that gate it, starts the ones that only observe *)
(* it, has the dispatcher execute the invocations addressed to the server, *)
(* waits for the observers, gathers the receipts and calls the listeners   *)
(* again; ServeHTTP writes the response while a goroutine encodes it.      *)
(*                                                                         *)
(* The execution in the middle is composed in: it is Dispatch, which       *)
(* Dispatcher is proved to implement, on the addressed invocations.        *)
(***************************************************************************)
EXTENDS Integers, FiniteSets

CONSTANTS
    Invocation,   \* positions of the request's invocations, a range from 1
    Task,         \* Task[i] is the task invocation i runs
    Audience,     \* Audience[i] is whom it is addressed to
    Self,         \* the server's own identity
    L,            \* number of registered listeners, numbered in order
    Concurrent,   \* those registered with WithConcurrentEventListener
    Attachable,   \* the tasks of which handlers may attach receipts to their
                  \* responses, besides the receipt of what they execute
    Command,
    Unhandled

ASSUME InvocationAssumption ==
    /\ Invocation \subseteq Nat /\ IsFiniteSet(Invocation)
    /\ DOMAIN Task = Invocation /\ DOMAIN Audience = Invocation
ASSUME ListenerAssumption == L \in Nat /\ Concurrent \subseteq 1 .. L
ASSUME UnhandledAssumption == Unhandled \notin Command

Listener == 1 .. L

\* The audience, or the subject without one, is the server's own identity.
Addressed == {i \in Invocation : Audience[i] = Self}

VARIABLES
    pc,        \* where the goroutine serving the request is
    at,        \* the index of the loop over the listeners it is in
    observed,  \* observed[l]: listener l's OnRequestDecode
    encoded,   \* the listeners whose OnResponseEncode has been called
    failed,    \* the stages whose errors the returned error joins
    receipts,  \* the invocations whose receipts the response carries
    attached,  \* the tasks of the receipts it carries from handlers' metadata
    outcome,   \* what RoundTrip ended with
    body,      \* what of the response's body the client got
    encoder    \* the goroutine that encodes the body into a pipe

VARIABLES command, verdict, batch, answer, returned   \* the dispatcher's

gathered == <<receipts, attached>>
http == <<pc, at, observed, encoded, failed, gathered, outcome, body, encoder>>
exec == <<command, verdict, batch, answer, returned>>
vars == <<http, exec>>

Execution == INSTANCE Dispatch WITH Request <- Addressed

\* The loops over the listeners; each starts at the first.
Loops == {"gate", "emit"}

PCs == {"decode", "gate", "start", "execute", "await", "emit", "encode",
        "unwind", "write", "close", "done"}

Init ==
    /\ pc = "decode"
    /\ at = 1
    /\ observed = [l \in Listener |-> "idle"]
    /\ encoded = {}
    /\ failed = {}
    /\ receipts = {}
    /\ attached = {}
    /\ outcome = "none"
    /\ body = "none"
    /\ encoder = "none"
    /\ Execution!Init
    /\ \A i, j \in Addressed : Task[i] = Task[j] => command[i] = command[j]
-----------------------------------------------------------------------------
(***************************************************************************)
(* Returning from RoundTrip: without an error path's own wait, the         *)
(* deferred await still runs ("unwind").                                   *)
(***************************************************************************)
Fail(stages) ==
    /\ failed' = failed \cup stages
    /\ outcome' = "error"
    /\ pc' = "unwind"

\* The codec refuses the request; no listener has been started.
DecodeFails ==
    /\ pc = "decode"
    /\ Fail({"decode"})
    /\ UNCHANGED <<at, observed, encoded, gathered, body, encoder, exec>>

Decode ==
    /\ pc = "decode"
    /\ pc' = "gate"
    /\ UNCHANGED <<at, observed, encoded, failed, gathered, outcome, body,
                   encoder, exec>>

(***************************************************************************)
(* emitRequestDecode: the gating listeners in registration order.  Each is *)
(* called, also after one has failed, and their errors are joined.         *)
(***************************************************************************)
Gate(l) ==
    /\ pc = "gate" /\ at = l
    /\ at' = at + 1
    /\ IF l \in Concurrent
       THEN UNCHANGED <<observed, failed>>
       ELSE \E r \in {"ok", "failed"} :
               /\ observed' = [observed EXCEPT ![l] = r]
               /\ failed' = IF r = "failed" THEN failed \cup {"gate"} ELSE failed
    /\ UNCHANGED <<pc, encoded, gathered, outcome, body, encoder, exec>>

\* A gating listener panics: net/http recovers and drops the connection.
GatePanics ==
    /\ pc = "gate" /\ at <= L /\ at \notin Concurrent
    /\ outcome' = "panic"
    /\ pc' = "unwind"
    /\ UNCHANGED <<at, observed, encoded, failed, gathered, body, encoder, exec>>

GateEnds ==
    /\ pc = "gate" /\ at = L + 1
    /\ at' = 1
    /\ IF "gate" \in failed
       THEN outcome' = "error" /\ pc' = "unwind"
       ELSE pc' = "start" /\ UNCHANGED outcome
    /\ UNCHANGED <<observed, encoded, failed, gathered, body, encoder, exec>>

\* A bug: the observers are waited for before anything executes.
StartAndWait ==
    /\ pc = "start"
    /\ \/ /\ \A l \in Concurrent : observed[l] = "idle"
          /\ observed' = [l \in Listener |->
                IF l \in Concurrent THEN "running" ELSE observed[l]]
          /\ UNCHANGED pc
       \/ /\ \A l \in Concurrent : observed[l] \notin {"idle", "running"}
          /\ pc' = "execute"
          /\ UNCHANGED observed
    /\ UNCHANGED <<at, encoded, failed, gathered, outcome, body, encoder, exec>>

\* startRequestDecode: every observing listener gets a goroutine of its own.
Start ==
    /\ pc = "start"
    /\ observed' = [l \in Listener |->
          IF l \in Concurrent THEN "running" ELSE observed[l]]
    /\ pc' = "execute"
    /\ UNCHANGED <<at, encoded, failed, gathered, outcome, body, encoder, exec>>

(***************************************************************************)
(* requestDecode on the listener's goroutine: it returns nil or an error,  *)
(* and a panic becomes an error.                                           *)
(***************************************************************************)
Observe(l) ==
    /\ observed[l] = "running"
    /\ \E r \in {"ok", "failed"} : observed' = [observed EXCEPT ![l] = r]
    /\ UNCHANGED <<pc, at, encoded, failed, gathered, outcome, body, encoder, exec>>

\* ExecuteAll, on the invocations ExecuteBatch has found addressed to Self.
Execute ==
    /\ pc = "execute"
    /\ Execution!Next
    /\ UNCHANGED http

\* A bug: the wait ends with the first observer.
FirstListenerDone ==
    Concurrent # {} => \E l \in Concurrent : observed[l] # "running"

\* wg.Wait() over the observers, and what errors.Join then finds of them.
ListenersDone == \A l \in Concurrent : observed[l] # "running"
ListenersFailed == \E l \in Concurrent : observed[l] = "failed"

\* A bug: the failure of the execution alone is reported.
ExecutionFailsAlone ==
    /\ pc = "execute" /\ returned
    /\ \E i \in Addressed : answer[i] = "Error"
    /\ ListenersDone
    /\ Fail({"execute"})
    /\ UNCHANGED <<at, observed, encoded, gathered, body, encoder, exec>>

(***************************************************************************)
(* ExecuteAll has failed for some invocation, so the whole request fails.  *)
(* The observers are waited for, and their errors reported with it.        *)
(***************************************************************************)
ExecutionFails ==
    /\ pc = "execute" /\ returned
    /\ \E i \in Addressed : answer[i] = "Error"
    /\ ListenersDone
    /\ Fail({"execute"} \cup (IF ListenersFailed THEN {"listener"} ELSE {}))
    /\ UNCHANGED <<at, observed, encoded, gathered, body, encoder, exec>>

\* A bug: receipts are kept by position, for tasks that have only one.
ByPosition == {i \in Addressed : \A j \in Addressed : Task[j] = Task[i] => i = j}

(***************************************************************************)
(* batch.NewResponse and Response.Receipt: receipts are found by task, and *)
(* the first one gathered for a task is the one that is kept.              *)
(***************************************************************************)
ByTask == {i \in Addressed : \A j \in Addressed : Task[j] = Task[i] => i <= j}

\* A handler has been called, so it may have set metadata on the responses it
\* got; the dispatcher's own failures have none.
SomeHandled == \E c \in Command : batch[c] = "answered"

(***************************************************************************)
(* The response container gets, for each invocation of the request, the    *)
(* receipt of its task if there is one, and the receipts of the responses' *)
(* metadata; it drops duplicates of one receipt, not a second one of a     *)
(* task.                                                                   *)
(***************************************************************************)
Gather ==
    /\ pc = "execute" /\ returned
    /\ \A i \in Addressed : answer[i] # "Error"
    /\ receipts' = {r \in ByTask : \E i \in Invocation : Task[i] = Task[r]}
    /\ attached' \in SUBSET Attachable
    /\ attached' # {} => SomeHandled
    /\ pc' = "await"
    /\ UNCHANGED <<at, observed, encoded, failed, outcome, body, encoder, exec>>

\* A bug: the observers' errors are taken without waiting for the observers.
AwaitNobody ==
    /\ pc = "await"
    /\ IF ListenersFailed
       THEN Fail({"listener"})
       ELSE pc' = "emit" /\ UNCHANGED <<failed, outcome>>
    /\ UNCHANGED <<at, observed, encoded, gathered, body, encoder, exec>>

\* awaitRequestDecode, before any response listener runs.
Await ==
    /\ pc = "await"
    /\ ListenersDone
    /\ IF ListenersFailed
       THEN Fail({"listener"})
       ELSE pc' = "emit" /\ UNCHANGED <<failed, outcome>>
    /\ UNCHANGED <<at, observed, encoded, gathered, body, encoder, exec>>

(***************************************************************************)
(* emitResponseEncode: every listener in registration order, however it is *)
(* registered and whatever the others returned.                            *)
(***************************************************************************)
Emit(l) ==
    /\ pc = "emit" /\ at = l
    /\ at' = at + 1
    /\ encoded' = encoded \cup {l}
    /\ \E r \in {"ok", "failed"} :
          failed' = IF r = "failed" THEN failed \cup {"emit"} ELSE failed
    /\ UNCHANGED <<pc, observed, gathered, outcome, body, encoder, exec>>

EmitPanics ==
    /\ pc = "emit" /\ at <= L
    /\ outcome' = "panic"
    /\ pc' = "unwind"
    /\ UNCHANGED <<at, observed, encoded, failed, gathered, body, encoder, exec>>

EmitEnds ==
    /\ pc = "emit" /\ at = L + 1
    /\ at' = 1
    /\ IF "emit" \in failed
       THEN outcome' = "error" /\ pc' = "unwind"
       ELSE pc' = "encode" /\ UNCHANGED outcome
    /\ UNCHANGED <<observed, encoded, failed, gathered, body, encoder, exec>>

(***************************************************************************)
(* The codec's Encode starts the goroutine that writes the container into  *)
(* a pipe and returns a 200 response that reads from it; a codec given     *)
(* with WithHTTPCodec may fail.                                            *)
(***************************************************************************)
Encode ==
    /\ pc = "encode"
    /\ \/ Fail({"encode"}) /\ UNCHANGED encoder
       \/ /\ encoder' = "writing"
          /\ outcome' = "response"
          /\ pc' = "unwind"
          /\ UNCHANGED failed
    /\ UNCHANGED <<at, observed, encoded, gathered, body, exec>>

\* The deferred await of RoundTrip; ServeHTTP then writes what it returned.
Unwind ==
    /\ pc = "unwind"
    /\ ListenersDone
    /\ pc' = IF outcome = "response" THEN "write" ELSE "done"
    /\ UNCHANGED <<at, observed, encoded, failed, gathered, outcome, body,
                   encoder, exec>>

(***************************************************************************)
(* io.Copy in ServeHTTP, after the status has been sent: all of the body,  *)
(* or as much as the encoder managed (its error, more than MaxTokens       *)
(* tokens say, is not looked at), or as much as the client stayed for.     *)
(***************************************************************************)
Copy ==
    /\ pc = "write"
    /\ \/ body' = "whole" /\ encoder' = "ended"
       \/ body' = "truncated" /\ encoder' \in {"writing", "ended"}
    /\ pc' = "close"
    /\ UNCHANGED <<at, observed, encoded, failed, gathered, outcome, exec>>

\* A bug: ServeHTTP does not close the body.
LeaveOpen ==
    /\ pc = "close"
    /\ pc' = "done"
    /\ UNCHANGED <<at, observed, encoded, failed, gathered, outcome, body,
                   encoder, exec>>

\* resp.Body.Close() closes the pipe, so an encoder still writing fails.
Close ==
    /\ pc = "close"
    /\ pc' = "done"
    /\ encoder' = "ended"
    /\ UNCHANGED <<at, observed, encoded, failed, gathered, outcome, body, exec>>

\* The request has been served.
Terminated == pc = "done" /\ UNCHANGED vars

Next ==
    \/ DecodeFails \/ Decode
    \/ \E l \in Listener : Gate(l) \/ Observe(l) \/ Emit(l)
    \/ GatePanics \/ GateEnds
    \/ Start
    \/ Execute \/ ExecutionFails \/ Gather
    \/ Await
    \/ EmitPanics \/ EmitEnds
    \/ Encode \/ Unwind \/ Copy \/ Close
    \/ Terminated

Spec == Init /\ [][Next]_vars

(***************************************************************************)
(* The serving goroutine runs while it can, ExecuteAll returns (Dispatcher *)
(* is checked to, its handlers returning).                                 *)
(***************************************************************************)
ServerFairness ==
    /\ WF_vars(DecodeFails \/ Decode)
    /\ WF_vars(\E l \in Listener : Gate(l) \/ Emit(l))
    /\ WF_vars(GateEnds \/ EmitEnds \/ Start)
    /\ WF_vars(Execute)
    /\ WF_vars(ExecutionFails \/ Gather \/ Await)
    /\ WF_vars(Encode \/ Unwind \/ Copy \/ Close)

\* The observing listeners return.
ListenersReturn == \A l \in Concurrent : WF_vars(Observe(l))

\* Observing listeners may never return.
FairSpec == Spec /\ ServerFairness
-----------------------------------------------------------------------------
TypeOK ==
    /\ pc \in PCs
    /\ at \in 1 .. L + 1
    /\ observed \in [Listener -> {"idle", "running", "ok", "failed"}]
    /\ encoded \in SUBSET Listener
    /\ failed \in SUBSET {"decode", "gate", "execute", "listener", "emit", "encode"}
    /\ receipts \in SUBSET Addressed
    /\ attached \in SUBSET Attachable
    /\ outcome \in {"none", "response", "error", "panic"}
    /\ body \in {"none", "whole", "truncated"}
    /\ encoder \in {"none", "writing", "ended"}
    /\ pc \notin Loops \cup {"unwind", "done"} => at = 1

(***************************************************************************)
(* RoundTrip returns on no path, its error and panic paths included, while *)
(* an observing listener is still running (server/http.go:287): the        *)
(* request's context is cancelled once ServeHTTP returns.                  *)
(***************************************************************************)
NoListenerOutlivesRequest ==
    pc \in {"write", "close", "done"} => \A l \in Listener : observed[l] # "running"

(***************************************************************************)
(* The phases of a request keep their order.  Nothing of it is validated   *)
(* or executed unless every gating listener has let it pass, and no        *)
(* response listener runs before every request listener has returned nil   *)
(* and every addressed invocation is answered: what a listener stores of   *)
(* the request is in place before anything of the response.                *)
(***************************************************************************)
PhasesInOrder ==
    /\ (\E i \in Addressed : verdict[i] # "unknown") =>
          \A l \in Listener \ Concurrent : observed[l] = "ok"
    /\ encoded # {} =>
          /\ \A l \in Listener : observed[l] = "ok"
          /\ \A i \in Addressed : answer[i] \in Execution!Answers \ {"Error"}

(***************************************************************************)
(* A response means that nothing failed and that every response listener   *)
(* was called.  The error of a request that executed reports the           *)
(* observers' failures whatever else failed, and a response listener's own *)
(* does not keep the others from being called.                             *)
(***************************************************************************)
FailuresReported ==
    pc = "done" =>
        /\ outcome = "response" =>
              /\ failed = {} /\ encoded = Listener
              /\ \A l \in Listener : observed[l] = "ok"
        /\ outcome = "error" =>
              /\ ListenersFailed => "listener" \in failed
              /\ "emit" \in failed => encoded = Listener

(***************************************************************************)
(* A response carries, for every task an addressed invocation asks for,    *)
(* the receipt of an execution, an answer of the dispatcher's, and of one  *)
(* execution only, however many of its invocations ask for the task.       *)
(* Whatever other receipts there are, of these tasks or of any other, come *)
(* from the metadata of handlers: a response to a request of which nothing *)
(* was valid carries none.                                                 *)
(***************************************************************************)
TaskAnswered ==
    outcome = "response" =>
        /\ \A i \in Addressed : \E r \in receipts : Task[r] = Task[i]
        /\ \A r, s \in receipts : Task[r] = Task[s] => r = s
        /\ \A r \in receipts : answer[r] \in Execution!Answers \ {"Error"}
        /\ attached # {} => \E i \in Addressed : verdict[i] = "valid"

(***************************************************************************)
(* A request is served to its end, and the goroutine that encodes the      *)
(* response ends with it, whether or not the client reads it all, if its   *)
(* observing listeners return.                                             *)
(***************************************************************************)
ServedAndEncoded ==
    ListenersReturn => <>[](pc = "done" /\ encoder # "writing")

(***************************************************************************)
(* An observing listener delays the response only: one that never returns  *)
(* keeps no invocation from being executed.                                *)
(***************************************************************************)
ObserversDelayNothing == pc = "start" ~> returned
=============================================================================
