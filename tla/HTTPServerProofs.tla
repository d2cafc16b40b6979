-------------------------- MODULE HTTPServerProofs --------------------------
(***************************************************************************)
(* What the runs check of one request through HTTPServer, proved for any   *)
(* number of invocations and listeners, however they are registered.       *)
(*                                                                         *)
(* The inductive invariant says what the place of the serving goroutine    *)
(* tells of the listeners, the executions, the errors and the receipts:    *)
(* each phase leaves behind what the next ones rely on, and nobody undoes  *)
(* it, since a listener that has ended stays as it is.                     *)
(***************************************************************************)
EXTENDS HTTPServer, WellFoundedInduction, TLAPS

Before == {"decode", "gate", "start"}
Ending == {"unwind", "write", "close", "done"}

AllOk == \A l \in Listener : observed[l] = "ok"
AllAnswered == \A i \in Addressed : answer[i] \in Execution!Answers \ {"Error"}

\* The variables of the execution have their types, it does not return before
\* everything is answered, and it calls no handler without a valid request.
Executed ==
    /\ command \in [Addressed -> Command \cup {Unhandled}]
    /\ verdict \in [Addressed -> {"unknown", "valid", "invalid"}]
    /\ batch \in [Command -> {"open", "called", "answered"}]
    /\ answer \in [Addressed -> Execution!Answers \cup {"none"}]
    /\ returned \in BOOLEAN
    /\ returned => \A i \in Addressed : answer[i] # "none"
    /\ \A c \in Command : batch[c] # "open" =>
          \E i \in Addressed : verdict[i] = "valid"

\* Before the observers are started nothing has been executed or observed.
Unstarted ==
    pc \in Before =>
        /\ \A i \in Addressed : verdict[i] = "unknown"
        /\ \A l \in Concurrent : observed[l] = "idle"

\* From then on every observer has been started.
Observed ==
    pc \in {"execute", "await"} => \A l \in Concurrent : observed[l] # "idle"

\* The gating loop goes on past a listener only if it keeps its verdict, and
\* is left behind only with everyone's.
Gated ==
    /\ pc = "gate" /\ "gate" \notin failed =>
          \A l \in Listener \ Concurrent : l < at => observed[l] = "ok"
    /\ (\/ pc \in {"start", "execute", "await", "emit", "encode"}
        \/ \E i \in Addressed : verdict[i] # "unknown") =>
          \A l \in Listener \ Concurrent : observed[l] = "ok"

\* The receipts are those of the first invocation of each task.
Gathered ==
    pc \in {"await", "emit", "encode"} \/ outcome = "response" =>
        receipts = ByTask /\ AllAnswered

\* Receipts are attached to responses by handlers that have been called.
Attached ==
    /\ pc \in Before \cup {"execute"} => attached = {}
    /\ attached # {} => \E i \in Addressed : verdict[i] = "valid"

\* How far the response listeners have got, and what they can rely on.
Encoding ==
    /\ pc \in Before \cup {"execute", "await"} => encoded = {}
    /\ pc = "emit" => encoded = 1 .. at - 1
    /\ pc = "encode" \/ outcome = "response" => encoded = Listener
    /\ pc \in {"emit", "encode"} \/ outcome = "response" \/ encoded # {} =>
          AllOk /\ AllAnswered

\* Which errors have been joined, and that an error is returned only when the
\* observers are done.
Failing ==
    /\ (\/ pc \in {"decode", "start", "execute", "await", "encode"}
        \/ outcome = "response") => failed = {}
    /\ pc = "gate" => failed \subseteq {"gate"}
    /\ pc = "emit" => failed \subseteq {"emit"}
    /\ outcome = "error" =>
          /\ ListenersDone
          /\ ListenersFailed => "listener" \in failed
          /\ "emit" \in failed => encoded = Listener

\* A listener that does not observe is never running; and none is once the
\* deferred wait is over.
Ended ==
    /\ outcome = "none" <=> pc \notin Ending
    /\ pc \in {"write", "close"} => outcome = "response"
    /\ outcome = "response" => at = 1
    /\ \A l \in Listener : observed[l] = "running" => l \in Concurrent
    /\ pc \in {"write", "close", "done"} =>
          \A l \in Listener : observed[l] # "running"

IInv ==
    /\ TypeOK /\ Executed /\ Unstarted /\ Observed /\ Gated
    /\ Gathered /\ Attached /\ Encoding /\ Failing /\ Ended
-----------------------------------------------------------------------------
\* The execution's steps keep its types, and answers stay answers.
LEMMA ExecuteStep ==
    ASSUME Executed, Execution!Next
    PROVE  Executed'
<1> USE DEF Executed, Execution!Answers, Execution!Failures
<1>1. ASSUME NEW i \in Addressed, Execution!Judge(i) PROVE Executed'
  BY <1>1 DEF Execution!Judge
<1>2. ASSUME NEW c \in Command, Execution!CallHandler(c) PROVE Executed'
  BY <1>2 DEF Execution!CallHandler, Execution!Members
<1>3. ASSUME NEW c \in Command, Execution!AnswerBatch(c) PROVE Executed'
  BY <1>3 DEF Execution!AnswerBatch, Execution!Members
<1>4. CASE Execution!Return
  BY <1>4 DEF Execution!Return
<1> QED
  BY <1>1, <1>2, <1>3, <1>4 DEF Execution!Next

\* A task that somebody asks for has a first invocation.
LEMMA FirstOfTask ==
    ASSUME NEW i \in Addressed
    PROVE  \E r \in ByTask : Task[r] = Task[i]
<1> DEFINE Same == {j \in Addressed : Task[j] = Task[i]}
<1>1. Same \subseteq Nat /\ Same # {} /\ Addressed \subseteq Nat
  BY InvocationAssumption DEF Addressed
<1>2. PICK r \in Same : \A j \in Same : <<j, r>> \notin OpToRel(<, Nat)
  BY <1>1, NatLessThanWellFounded, WFMin, Zenon
<1>3. \A j \in Same : r <= j
  <2>1. ASSUME NEW j \in Same, j < r PROVE <<j, r>> \in OpToRel(<, Nat)
    BY <1>1, <2>1 DEF OpToRel
  <2>2. \A j \in Same : ~(j < r)
    BY <1>2, <2>1
  <2> HIDE DEF Same
  <2> QED
    BY <1>1, <2>2
<1> QED
  BY <1>3 DEF ByTask

LEMMA Initially == Init => IInv
<1> SUFFICES ASSUME Init PROVE IInv
  OBVIOUS
<1>1. Executed
  BY DEF Init, Execution!Init, Executed
<1>2. TypeOK /\ Gathered /\ Attached /\ Encoding /\ Failing /\ Ended
  BY ListenerAssumption
     DEF Init, TypeOK, Gathered, Attached, Encoding, Failing, Ended, PCs, Loops,
         Listener, Before, Ending
<1>3. Unstarted /\ Observed /\ Gated
  BY ListenerAssumption
     DEF Init, Execution!Init, Unstarted, Observed, Gated, Listener
<1> QED
  BY <1>1, <1>2, <1>3 DEF IInv

LEMMA Step == IInv /\ [Next]_vars => IInv'
<1> SUFFICES ASSUME IInv, [Next]_vars PROVE IInv'
  OBVIOUS
<1> USE ListenerAssumption
    DEF IInv, TypeOK, Executed, Unstarted, Observed, Gated, Gathered,
        Attached, Encoding, Failing, Ended,
        AllOk, AllAnswered, ListenersDone, ListenersFailed,
        Before, Ending, PCs, Loops, Listener, exec, gathered, Fail
<1>1. CASE DecodeFails
  BY <1>1 DEF DecodeFails, ByTask
<1>2. CASE Decode
  BY <1>2 DEF Decode, ByTask
<1>3. CASE Start
  BY <1>3 DEF Start, ByTask
<1>4. CASE GatePanics
  BY <1>4 DEF GatePanics, ByTask
<1>5. CASE GateEnds
  BY <1>5 DEF GateEnds, ByTask
<1>6. CASE ExecutionFails
  BY <1>6 DEF ExecutionFails, ByTask
<1>7. CASE EmitPanics
  BY <1>7 DEF EmitPanics, ByTask
<1>8. CASE EmitEnds
  BY <1>8 DEF EmitEnds, ByTask
<1>9. CASE Encode
  BY <1>9 DEF Encode, ByTask
<1>10. CASE Copy
  BY <1>10 DEF Copy, ByTask
<1>11. CASE Close
  BY <1>11 DEF Close, ByTask
<1>12. CASE Gather
  <2>1. receipts' = ByTask /\ ByTask \subseteq Addressed
    BY <1>12 DEF Gather, ByTask, Addressed
  <2>2. AllAnswered'
    BY <1>12 DEF Gather
  <2>3. receipts' \in SUBSET Addressed /\ Gathered'
    BY <1>12, <2>1, <2>2 DEF Gather, ByTask
  <2>4. Attached'
    BY <1>12 DEF Gather, SomeHandled
  <2> QED
    BY <1>12, <2>2, <2>3, <2>4 DEF Gather
<1>13. CASE Await
  <2>1. TypeOK' /\ Executed' /\ Unstarted' /\ Observed' /\ Gated'
    BY <1>13 DEF Await
  <2>2. Gathered'
    BY <1>13 DEF Await, ByTask
  <2>3. CASE ListenersFailed
    <3>1. Attached' /\ Encoding' /\ Ended'
      BY <1>13, <2>3 DEF Await
    <3>2. Failing'
      BY <1>13, <2>3 DEF Await
    <3> QED
      BY <2>1, <2>2, <3>1, <3>2
  <2>4. CASE ~ListenersFailed
    <3>1. \A l \in Listener : observed[l] = "ok"
      BY <1>13, <2>4 DEF Await
    <3>2. Attached' /\ Encoding' /\ Ended'
      BY <1>13, <2>4, <3>1 DEF Await
    <3>3. Failing'
      BY <1>13, <2>4 DEF Await
    <3> QED
      BY <2>1, <2>2, <3>2, <3>3
  <2> QED
    BY <2>3, <2>4
<1>14. CASE Unwind
  <2>1. \A l \in Listener : observed[l] # "running"
    BY <1>14 DEF Unwind
  <2>2. TypeOK' /\ Executed' /\ Unstarted' /\ Observed' /\ Gated'
    BY <1>14 DEF Unwind
  <2>3. Gathered'
    BY <1>14 DEF Unwind, ByTask
  <2>4. Encoding' /\ Attached'
    BY <1>14 DEF Unwind
  <2>5. Failing'
    BY <1>14 DEF Unwind
  <2>6. outcome' = outcome /\ observed' = observed /\ pc' \in {"write", "done"}
    BY <1>14 DEF Unwind
  <2>7. pc' = "write" => outcome' = "response"
    BY <1>14 DEF Unwind
  <2>8. Ended'
    BY <1>14, <2>1, <2>6, <2>7 DEF Unwind
  <2> QED
    BY <2>2, <2>3, <2>4, <2>5, <2>8
<1>15. CASE Execute
  <2>1. Executed'
    BY <1>15, ExecuteStep DEF Execute
  <2>2. /\ TypeOK' /\ Unstarted' /\ Observed' /\ Gated'
        /\ Gathered' /\ Attached' /\ Encoding' /\ Failing' /\ Ended'
    BY <1>15 DEF Execute, http
  <2> QED
    BY <2>1, <2>2
<1>16. ASSUME NEW l \in Listener, Gate(l) PROVE IInv'
  <2>1. CASE l \in Concurrent
    <3>1. /\ at' = l + 1 /\ at = l /\ observed' = observed /\ failed' = failed
          /\ pc' = pc /\ pc = "gate"
          /\ UNCHANGED <<encoded, gathered, outcome, body, encoder, exec>>
      BY <1>16, <2>1 DEF Gate
    <3>2. TypeOK'
      <4>1. at' \in 1 .. L + 1
        BY <3>1
      <4> QED
        BY <3>1, <4>1
    <3>3. Executed' /\ Unstarted' /\ Observed'
      BY <3>1
    <3>4. Gathered' /\ Attached' /\ Encoding' /\ Failing' /\ Ended'
      BY <3>1 DEF ByTask
    <3>5. Gated'
      <4>1. \A k \in Listener \ Concurrent : k < at' => k < at
        BY <2>1, <3>1
      <4> QED
        BY <3>1, <4>1
    <3> QED
      BY <3>2, <3>3, <3>4, <3>5
  <2>2. CASE l \notin Concurrent
    <3>1. PICK r \in {"ok", "failed"} :
             /\ observed' = [observed EXCEPT ![l] = r]
             /\ failed' = IF r = "failed" THEN failed \cup {"gate"} ELSE failed
      BY <1>16, <2>2 DEF Gate
    <3>2. /\ at' = l + 1 /\ at = l /\ pc' = pc /\ pc = "gate"
          /\ UNCHANGED <<encoded, gathered, outcome, body, encoder, exec>>
      BY <1>16, <2>2 DEF Gate
    <3>3. TypeOK'
      <4>1. at' \in 1 .. L + 1
        BY <3>2
      <4>2. failed' \in SUBSET {"decode", "gate", "execute", "listener",
                                 "emit", "encode"}
        BY <3>1
      <4>3. observed' \in [Listener -> {"idle", "running", "ok", "failed"}]
        BY <3>1
      <4> QED
        BY <3>2, <4>1, <4>2, <4>3
    <3>4. Executed' /\ Unstarted' /\ Observed'
      BY <2>2, <3>1, <3>2
    <3>5. Gathered'
      BY <3>2 DEF ByTask
    <3>6. Encoding' /\ Attached'
      BY <3>2
    <3>7. Ended'
      BY <2>2, <3>1, <3>2
    <3>8. Gated'
      BY <2>2, <3>1, <3>2
    <3>9. Failing'
      BY <3>1, <3>2
    <3> QED
      BY <3>3, <3>4, <3>5, <3>6, <3>7, <3>8, <3>9
  <2> QED
    BY <2>1, <2>2
<1>17. ASSUME NEW l \in Listener, Observe(l) PROVE IInv'
  BY <1>17 DEF Observe, ByTask
<1>18. ASSUME NEW l \in Listener, Emit(l) PROVE IInv'
  BY <1>18 DEF Emit, ByTask
<1>19. CASE UNCHANGED vars
  BY <1>19 DEF vars, http, ByTask
<1> QED
  BY <1>1, <1>2, <1>3, <1>4, <1>5, <1>6, <1>7, <1>8, <1>9, <1>10,
     <1>11, <1>12, <1>13, <1>14, <1>15, <1>16, <1>17, <1>18, <1>19
     DEF Next, Terminated

\* Every behaviour of a request keeps the inductive invariant.
LEMMA Always == Spec => []IInv
<1> QED
  BY Initially, Step, PTL DEF Spec

(***************************************************************************)
(* The variables of a request, those of the execution among them, keep     *)
(* their types, whatever the listeners, the handlers and the client do     *)
(* (HTTPServer.RoundTrip and ServeHTTP).                                   *)
(***************************************************************************)
THEOREM TypeCorrect == Spec => []TypeOK
<1>1. IInv => TypeOK
  BY DEF IInv
<1> QED
  BY <1>1, Always, PTL

(***************************************************************************)
(* RoundTrip returns on no path while an observing listener is running,    *)
(* for any number of listeners (the deferred await of server/http.go).     *)
(***************************************************************************)
THEOREM AwaitsListeners == Spec => []NoListenerOutlivesRequest
<1>1. IInv => NoListenerOutlivesRequest
  BY DEF IInv, Ended, NoListenerOutlivesRequest
<1> QED
  BY <1>1, Always, PTL

(***************************************************************************)
(* Nothing executes before every gating listener has let the request pass, *)
(* and no response listener runs before every request listener and every   *)
(* invocation is done (the order of the calls in RoundTrip).               *)
(***************************************************************************)
THEOREM KeepsPhases == Spec => []PhasesInOrder
<1>1. IInv => PhasesInOrder
  BY DEF IInv, Gated, Encoding, AllOk, AllAnswered, PhasesInOrder
<1> QED
  BY <1>1, Always, PTL

(***************************************************************************)
(* A response is of a request of which nothing failed, and the error of    *)
(* one that executed joins the observers' errors (RoundTrip's joins).      *)
(***************************************************************************)
THEOREM ReportsFailures == Spec => []FailuresReported
<1>1. IInv => FailuresReported
  BY DEF IInv, Encoding, AllOk, Failing, FailuresReported
<1> QED
  BY <1>1, Always, PTL

(***************************************************************************)
(* The response has, for each task asked of this server, the receipt of    *)
(* one execution, an answer of the dispatcher's (batch.NewResponse, then   *)
(* the response container): every task has a first invocation, whose       *)
(* receipt it is.  Other receipts come from handlers that were called, so  *)
(* not without a valid invocation.                                         *)
(***************************************************************************)
THEOREM AnswersTasks == Spec => []TaskAnswered
<1>1. ASSUME IInv, outcome = "response" PROVE TaskAnswered
  <2>1. receipts = ByTask /\ AllAnswered
    BY <1>1 DEF IInv, Gathered
  <2>2. \A i \in Addressed : \E r \in receipts : Task[r] = Task[i]
    BY <2>1, FirstOfTask
  <2>3. \A r, s \in receipts : Task[r] = Task[s] => r = s
    BY <2>1, InvocationAssumption DEF ByTask, Addressed
  <2>4. \A r \in receipts : answer[r] \in Execution!Answers \ {"Error"}
    BY <2>1 DEF ByTask, AllAnswered
  <2>5. attached # {} => \E i \in Addressed : verdict[i] = "valid"
    BY <1>1 DEF IInv, Attached
  <2> QED
    BY <2>2, <2>3, <2>4, <2>5 DEF TaskAnswered
<1>2. IInv => TaskAnswered
  BY <1>1 DEF TaskAnswered
<1> QED
  BY <1>2, Always, PTL
=============================================================================
