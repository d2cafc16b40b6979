------------------------------- MODULE Client -------------------------------
(***************************************************************************)
(* HTTPClient.ExecuteBatch (client/client.go, client/http.go) called by    *)
(* several goroutines at once, each with a request of its own.  A request  *)
(* holds a slice of the caller's and not a copy of it, so requests made    *)
(* from parts of one slice share an array.                                 *)
(*                                                                         *)
(* The server is external: if a request arrives, it executes each of its   *)
(* invocations that is addressed to it and answers its task, as HTTPServer *)
(* has it; its handlers may attach receipts of other tasks.                *)
(* HTTPClient.Execute is the call with a request of one whose array has    *)
(* room for that one.                                                      *)
(***************************************************************************)
EXTENDS Naturals, Sequences, FiniteSets

CONSTANTS
    Call,
    Inv,
    Task,       \* the task of an invocation; two may have the same one
    Addressed,  \* the invocations addressed to the server
    Attachable, \* the tasks of which its handlers may attach receipts to a
                \* response, whoever has executed them
    Arrays,     \* the arrays at first, a sequence of invocations each
    Requests,   \* by call: its array, the slice [lo, hi] of it, and the
                \* context invocations that travel along
    OwnCodec,   \* the codec is the caller's own and its containers are not
                \* HTTPResponseContainers
    None,
    Failed

Request == [array : DOMAIN Arrays, lo : Nat \ {0}, hi : Nat, context : Seq(Inv)]

ASSUME TaskAssumption == DOMAIN Task = Inv
ASSUME AddressedAssumption == Addressed \subseteq Inv
ASSUME ArraysAssumption == Arrays \in [DOMAIN Arrays -> Seq(Inv)]
ASSUME RequestsAssumption ==
    /\ DOMAIN Requests = Call
    /\ \A c \in Call : /\ Requests[c] \in Request
                       /\ Requests[c].hi <= Len(Arrays[Requests[c].array])
ASSUME CodecAssumption == OwnCodec \in BOOLEAN

Tasks == {Task[i] : i \in Inv}

ASSUME AttachableAssumption == Attachable \subseteq Tasks

ASSUME NoneAssumption ==
    /\ None # Failed
    /\ \A answer \in SUBSET Tasks : answer \notin {None, Failed}

VARIABLES
    arrays,
    pc,
    sent,      \* the invocations of a call's container
    executed,  \* {<<c, i>>}: the server has executed i for call c
    receipts,  \* the tasks answered in the response, in the end only those
               \* asked for
    body,      \* the response's body
    result,    \* None, Failed, or the tasks whose receipts are returned
    faulty     \* the calls in which a listener, codec, transport or server failed

vars == <<arrays, pc, sent, executed, receipts, body, result, faulty>>

Range(c) == Requests[c].lo .. Requests[c].hi
Array(c) == arrays[Requests[c].array]
Context(c) == {Requests[c].context[k] : k \in DOMAIN Requests[c].context}

\* Request.Invocations, as the array is now, and as the caller has made it.
Invocations(c) == {Array(c)[k] : k \in Range(c)}
Asked(c) == {Arrays[Requests[c].array][k] : k \in Range(c)}

\* Whether append has room for the context behind the slice.
Fits(c) == Requests[c].hi + Len(Requests[c].context) <= Len(Array(c))
-----------------------------------------------------------------------------
Init ==
    /\ arrays = Arrays
    /\ pc = [c \in Call |-> "append"]
    /\ sent = [c \in Call |-> {}]
    /\ executed = {}
    /\ receipts = [c \in Call |-> {}]
    /\ body = [c \in Call |-> "none"]
    /\ result = [c \in Call |-> None]
    /\ faulty = {}

Goto(c, label) == pc' = [pc EXCEPT ![c] = label]

Return(c, answer) ==
    /\ Goto(c, "returned")
    /\ result' = [result EXCEPT ![c] = answer]

\* Something the call relies on fails, and the call with it.
Abort(c) ==
    /\ Return(c, Failed)
    /\ faulty' = faulty \cup {c}

\* A bug: nobody closes the body on the way out with an error.
LeaveBody(c) == body' = body

\* The deferred function, and HTTPResponseContainer.Close.
CloseBody(c) == body' = [body EXCEPT ![c] = "closed"]

NoInvocations(c) ==
    /\ pc[c] = "append"
    /\ Range(c) = {}
    /\ Return(c, Failed)
    /\ UNCHANGED <<arrays, sent, executed, receipts, body, faulty>>

\* The context invocations are appended to the request's slice: in place where
\* the array has room, whatever it holds there, and else to a copy.
AppendContext(c) ==
    /\ pc[c] = "append"
    /\ Range(c) # {}
    /\ IF Fits(c)
       THEN /\ arrays' = [arrays EXCEPT ![Requests[c].array] =
                  [k \in DOMAIN @ |->
                      IF k - Requests[c].hi \in DOMAIN Requests[c].context
                      THEN Requests[c].context[k - Requests[c].hi] ELSE @[k]]]
            /\ UNCHANGED sent
       ELSE /\ sent' = [sent EXCEPT ![c] = Invocations(c) \cup Context(c)]
            /\ UNCHANGED arrays
    /\ Goto(c, "build")
    /\ UNCHANGED <<executed, receipts, body, result, faulty>>

\* container.New copies what the slice holds, each token once.
Build(c) ==
    /\ pc[c] = "build"
    /\ sent' = IF Fits(c)
               THEN [sent EXCEPT ![c] =
                        {Array(c)[k] : k \in Requests[c].lo ..
                                                Requests[c].hi + Len(Requests[c].context)}]
               ELSE sent
    /\ Goto(c, "send")
    /\ UNCHANGED <<arrays, executed, receipts, body, result, faulty>>

\* A listener or the codec fails before anything is sent, or the transport
\* before the request arrives.
NotSent(c) ==
    /\ pc[c] = "send"
    /\ Abort(c)
    /\ UNCHANGED <<arrays, sent, executed, receipts, body>>

\* The request arrives; its response does, or is lost.
RoundTrip(c) ==
    /\ pc[c] = "send"
    /\ executed' = executed \cup {<<c, i>> : i \in sent[c] \cap Addressed}
    /\ \/ /\ Abort(c)
          /\ UNCHANGED <<receipts, body>>
       \/ /\ \E attached \in SUBSET Attachable :
                /\ sent[c] \cap Addressed = {} => attached = {}
                /\ receipts' = [receipts EXCEPT
                      ![c] = {Task[i] : i \in sent[c] \cap Addressed} \cup attached]
          /\ body' = [body EXCEPT ![c] = "open"]
          /\ Goto(c, "decode")
          /\ UNCHANGED <<result, faulty>>
    /\ UNCHANGED <<arrays, sent>>

\* The response is one of another content type, or is cut off; the codec
\* closes its body.
DecodeFails(c) ==
    /\ pc[c] = "decode"
    /\ Abort(c)
    /\ CloseBody(c)
    /\ UNCHANGED <<arrays, sent, executed, receipts>>

Decode(c) ==
    /\ pc[c] = "decode"
    /\ Goto(c, "emit")
    /\ UNCHANGED <<arrays, sent, executed, receipts, body, result, faulty>>

EmitFails(c) ==
    /\ pc[c] = "emit"
    /\ Abort(c)
    /\ CloseBody(c)
    /\ UNCHANGED <<arrays, sent, executed, receipts>>

Emit(c) ==
    /\ pc[c] = "emit"
    /\ Goto(c, "match")
    /\ UNCHANGED <<arrays, sent, executed, receipts, body, result, faulty>>

\* A bug: the context is expected to be answered too.
MissingAnySent(c) ==
    /\ pc[c] = "match"
    /\ \E i \in sent[c] : Task[i] \notin receipts[c]
    /\ Return(c, Failed)
    /\ CloseBody(c)
    /\ UNCHANGED <<arrays, sent, executed, receipts, faulty>>

\* A bug: the receipts are counted and not looked up.
UnansweredByNumber(c) ==
    IF Cardinality(receipts[c]) < Cardinality({Task[i] : i \in Invocations(c)})
    THEN Invocations(c) ELSE {}

Unanswered(c) == {i \in Invocations(c) : Task[i] \notin receipts[c]}

\* One of the request's invocations has no receipt.
Missing(c) ==
    /\ pc[c] = "match"
    /\ Unanswered(c) # {}
    /\ Return(c, Failed)
    /\ CloseBody(c)
    /\ UNCHANGED <<arrays, sent, executed, receipts, faulty>>

Match(c) ==
    /\ pc[c] = "match"
    /\ Unanswered(c) = {}
    /\ receipts' = [receipts EXCEPT ![c] = @ \cap {Task[i] : i \in Invocations(c)}]
    /\ Goto(c, "close")
    /\ UNCHANGED <<arrays, sent, executed, body, result, faulty>>

\* HTTPClient closes the body of a successful response, if it can tell that
\* the container has one.
Close(c) ==
    /\ pc[c] = "close"
    /\ IF OwnCodec
       THEN Return(c, Failed) /\ UNCHANGED <<body, faulty>>
       ELSE /\ CloseBody(c)
            /\ \/ Return(c, receipts[c]) /\ UNCHANGED faulty
               \/ Abort(c)
    /\ UNCHANGED <<arrays, sent, executed, receipts>>

Terminated == (\A c \in Call : pc[c] = "returned") /\ UNCHANGED vars

Next ==
    \/ \E c \in Call :
          \/ NoInvocations(c) \/ AppendContext(c) \/ Build(c)
          \/ NotSent(c) \/ RoundTrip(c) \/ DecodeFails(c) \/ Decode(c)
          \/ EmitFails(c) \/ Emit(c) \/ Missing(c) \/ Match(c) \/ Close(c)
    \/ Terminated

Spec == Init /\ [][Next]_vars
-----------------------------------------------------------------------------
\* No call's context falls on the invocations of another one when it is appended.
Apart ==
    \A c, d \in Call :
        \/ Requests[c].array # Requests[d].array
        \/ Range(d) = {}
        \/ Requests[d].hi + Len(Requests[d].context) > Len(Arrays[Requests[d].array])
        \/ \A k \in Range(c) : k - Requests[d].hi \notin DOMAIN Requests[d].context

(***************************************************************************)
(* "The response is an error if the executor did not answer one of the     *)
(* invocations" (client.go:56): one that is none has a receipt for each    *)
(* invocation the caller has asked for, and the server has executed a      *)
(* token of its task for this call, or its handlers hand out receipts of   *)
(* that task without executing it.                                         *)
(***************************************************************************)
AnswersAll ==
    \A c \in Call : result[c] \notin {None, Failed} =>
        \A i \in Asked(c) :
            /\ Task[i] \in result[c]
            /\ \/ \E j \in Inv : Task[j] = Task[i] /\ <<c, j>> \in executed
               \/ Task[i] \in Attachable

(***************************************************************************)
(* Nor is it an error without a cause: if nothing has failed, one of the   *)
(* invocations asked for is addressed elsewhere, or there are none.  That  *)
(* a context invocation has no receipt is no cause.                        *)
(***************************************************************************)
FailsForCause ==
    \A c \in Call : result[c] = Failed =>
        c \in faulty \/ Asked(c) = {} \/ ~(Asked(c) \subseteq Addressed)

(***************************************************************************)
(* "On the way out with an error the caller never sees the container and   *)
(* so cannot close it [...] so release it here" (client.go:92): a call     *)
(* that has returned has left no body open, whatever has failed.           *)
(***************************************************************************)
BodiesReleased == \A c \in Call : pc[c] = "returned" => body[c] # "open"
=============================================================================
