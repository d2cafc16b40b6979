------------------------------ MODULE Dispatch ------------------------------
(***************************************************************************)
(* What Dispatcher.ExecuteAll promises its caller (the comment at          *)
(* execution/dispatcher/dispatcher.go:94), without goroutines, slots and   *)
(* wait groups: every request is judged on its own and once, the valid     *)
(* requests of a command go to its handler in a single call made when the  *)
(* last of them has been judged, the call answers all of them, and the     *)
(* caller gets an answer for every request.                                *)
(***************************************************************************)
CONSTANTS
    Request,     \* the requests of one call
    Command,     \* the commands with a handler
    Unhandled    \* a command without one

VARIABLES
    command,     \* command[i] is the command request i invokes
    verdict,     \* verdict[i] is the outcome of validating it
    batch,       \* batch[c] is the one call of c's handler
    answer,      \* answer[i] is what the caller gets for request i
    returned     \* the call has returned

vars == <<command, verdict, batch, answer, returned>>

Failures == {"Rejected", "Failed", "HandlerExecutionError", "ExecutionFailure"}

\* An answer is a receipt, or an error when no receipt can be issued.
Answers == Failures \cup {"Success", "Error"}

Members(c) == {i \in Request : command[i] = c /\ verdict[i] = "valid"}
Judged(c) == \A i \in Request : command[i] = c => verdict[i] # "unknown"

Init ==
    /\ command \in [Request -> Command \cup {Unhandled}]
    /\ verdict = [i \in Request |-> "unknown"]
    /\ batch = [c \in Command |-> "open"]
    /\ answer = [i \in Request |-> "none"]
    /\ returned = FALSE

\* A valid request awaits its handler; an invalid one is answered at once.
Judge(i) ==
    /\ verdict[i] = "unknown"
    /\ \/ /\ command[i] \in Command
          /\ verdict' = [verdict EXCEPT ![i] = "valid"]
          /\ UNCHANGED answer
       \/ /\ verdict' = [verdict EXCEPT ![i] = "invalid"]
          /\ \E a \in {"Rejected", "ExecutionFailure", "Error"} :
                answer' = [answer EXCEPT ![i] = a]
    /\ UNCHANGED <<command, batch, returned>>

\* The handler is called once, with every valid request of its command.
CallHandler(c) ==
    /\ batch[c] = "open"
    /\ Judged(c)
    /\ Members(c) # {}
    /\ batch' = [batch EXCEPT ![c] = "called"]
    /\ UNCHANGED <<command, verdict, answer, returned>>

(***************************************************************************)
(* The call ends and answers its whole batch, and only its batch.          *)
(***************************************************************************)
AnswerBatch(c) ==
    /\ batch[c] = "called"
    /\ batch' = [batch EXCEPT ![c] = "answered"]
    /\ \E a \in [Members(c) -> Answers \ {"Rejected"}] :
          answer' = [i \in Request |-> IF i \in Members(c) THEN a[i] ELSE answer[i]]
    /\ UNCHANGED <<command, verdict, returned>>

Return ==
    /\ ~returned
    /\ \A i \in Request : answer[i] # "none"
    /\ returned' = TRUE
    /\ UNCHANGED <<command, verdict, batch, answer>>

Next ==
    \/ \E i \in Request : Judge(i)
    \/ \E c \in Command : CallHandler(c) \/ AnswerBatch(c)
    \/ Return

Spec == Init /\ [][Next]_vars
=============================================================================
