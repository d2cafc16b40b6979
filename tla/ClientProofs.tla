---------------------------- MODULE ClientProofs ----------------------------
(***************************************************************************)
(* What the run checks of the client, proved for any number of concurrent  *)
(* calls, any arrays and any tasks.  Where a property depends on it, the   *)
(* theorem says so: that the calls' slices are Apart, so that no context   *)
(* is written over invocations of another request, and that the codec's    *)
(* containers can be closed.                                               *)
(***************************************************************************)
EXTENDS Client, TLAPS

Labels == {"append", "build", "send", "decode", "emit", "match", "close", "returned"}

\* Every variable has the type its Go counterpart has, and an array keeps its
\* length.
TypeOK ==
    /\ arrays \in [DOMAIN Arrays -> Seq(Inv)]
    /\ \A a \in DOMAIN Arrays : Len(arrays[a]) = Len(Arrays[a])
    /\ pc \in [Call -> Labels]
    /\ sent \in [Call -> SUBSET Inv]
    /\ executed \subseteq Call \X Inv
    /\ receipts \in [Call -> SUBSET Tasks]
    /\ body \in [Call -> {"none", "open", "closed"}]
    /\ result \in [Call -> {None, Failed} \cup SUBSET Tasks]
    /\ faulty \subseteq Call

\* Each call's part of its array is as the caller has made it.
Unwritten == \A c \in Call : \A k \in Range(c) :
                Array(c)[k] = Arrays[Requests[c].array][k]

\* answer has a receipt for each of c's invocations, executed for this call
\* unless it may be an attached one.
Covers(c, answer) ==
    \A i \in Asked(c) :
        /\ Task[i] \in answer
        /\ \/ \E j \in Inv : Task[j] = Task[i] /\ <<c, j>> \in executed
           \/ Task[i] \in Attachable

\* Nothing asked for is left out of the container.
Sent(c) ==
    \/ pc[c] = "build" /\ ~Fits(c)
    \/ pc[c] \in {"send", "decode", "emit", "match"}
    => Asked(c) \subseteq sent[c]

\* The response answers what the server has executed, and maybe more.
Received(c) ==
    pc[c] \in {"decode", "emit", "match"} =>
        /\ {Task[i] : i \in sent[c] \cap Addressed} \subseteq receipts[c]
        /\ receipts[c] \subseteq {Task[i] : i \in sent[c] \cap Addressed} \cup Attachable
        /\ \A i \in sent[c] \cap Addressed : <<c, i>> \in executed

\* What is returned covers the request.
Matched(c) ==
    /\ pc[c] = "close" => Covers(c, receipts[c])
    /\ result[c] # None <=> pc[c] = "returned"
    /\ result[c] \notin {None, Failed} => Covers(c, result[c])

\* An error has a cause; that the container cannot be closed is one.
Caused(c) ==
    ~OwnCodec /\ result[c] = Failed =>
        c \in faulty \/ Asked(c) = {} \/ ~(Asked(c) \subseteq Addressed)

Good(c) == Sent(c) /\ Received(c) /\ Matched(c) /\ Caused(c)

IInv == TypeOK /\ Unwritten /\ \A c \in Call : Good(c)

\* A body is open only while its call goes on.
Opened == \A c \in Call :
    pc[c] \in {"append", "build", "send", "returned"} => body[c] # "open"

-----------------------------------------------------------------------------
USE DEF Range, Array, Context, Goto, Return, Abort, CloseBody

\* The array that c's context is appended to in place, if it is.
Appended(c) ==
    [arrays EXCEPT ![Requests[c].array] =
        [k \in DOMAIN @ |->
            IF k - Requests[c].hi \in DOMAIN Requests[c].context
            THEN Requests[c].context[k - Requests[c].hi] ELSE @[k]]]

\* A request names an array and a part of it.
LEMMA RequestTypes ==
    ASSUME NEW c \in Call
    PROVE  /\ Requests[c].array \in DOMAIN Arrays
           /\ Requests[c].lo \in Nat \ {0} /\ Requests[c].hi \in Nat
           /\ Requests[c].hi <= Len(Arrays[Requests[c].array])
           /\ Requests[c].context \in Seq(Inv)
           /\ Range(c) \subseteq 1 .. Len(Arrays[Requests[c].array])
BY RequestsAssumption, ArraysAssumption DEF Request

LEMMA AppendTypes ==
    ASSUME TypeOK, NEW c \in Call
    PROVE  /\ Appended(c) \in [DOMAIN Arrays -> Seq(Inv)]
           /\ \A a \in DOMAIN Arrays : Len(Appended(c)[a]) = Len(Arrays[a])
           /\ \A a \in DOMAIN Arrays : \A k \in 1 .. Len(Arrays[a]) :
                 \/ a = Requests[c].array /\ k - Requests[c].hi \in DOMAIN Requests[c].context
                 \/ Appended(c)[a][k] = arrays[a][k]
<1> DEFINE b == Requests[c].array
           old == arrays[b]
           new == [k \in DOMAIN old |->
                      IF k - Requests[c].hi \in DOMAIN Requests[c].context
                      THEN Requests[c].context[k - Requests[c].hi] ELSE old[k]]
<1>1. /\ b \in DOMAIN Arrays /\ old \in Seq(Inv) /\ Len(old) = Len(Arrays[b])
      /\ Requests[c].context \in Seq(Inv)
  BY RequestTypes DEF TypeOK
<1>2. new \in Seq(Inv) /\ Len(new) = Len(old)
  <2>1. DOMAIN old = 1 .. Len(old) /\ Len(old) \in Nat
    BY <1>1
  <2>2. \A k \in DOMAIN old :
           /\ old[k] \in Inv
           /\ k - Requests[c].hi \in DOMAIN Requests[c].context
                 => Requests[c].context[k - Requests[c].hi] \in Inv
    BY <1>1
  <2>3. new \in [1 .. Len(old) -> Inv]
    BY <2>1, <2>2
  <2> QED
    BY <2>1, <2>3
<1>3. Appended(c) = [arrays EXCEPT ![b] = new]
  BY DEF Appended
<1>4. /\ Appended(c)[b] = new
      /\ \A a \in DOMAIN Arrays \ {b} : Appended(c)[a] = arrays[a]
  BY <1>1, <1>3 DEF TypeOK
<1>5. \A k \in 1 .. Len(Arrays[b]) :
         k - Requests[c].hi \in DOMAIN Requests[c].context \/ new[k] = old[k]
  BY <1>1
<1> HIDE DEF new
<1> QED
  BY <1>1, <1>2, <1>3, <1>4, <1>5 DEF TypeOK

LEMMA InvocationTypes ==
    ASSUME TypeOK, NEW c \in Call
    PROVE  Invocations(c) \subseteq Inv /\ Context(c) \subseteq Inv
<1>1. Array(c) \in Seq(Inv) /\ Len(Array(c)) = Len(Arrays[Requests[c].array])
  BY RequestTypes DEF TypeOK
<1> QED
  BY <1>1, RequestTypes DEF Invocations

LEMMA AppendStep ==
    ASSUME NEW c \in Call, AppendContext(c)
    PROVE  /\ pc[c] = "append" /\ Range(c) # {}
           /\ \/ Fits(c) /\ arrays' = Appended(c) /\ sent' = sent
              \/ /\ ~Fits(c) /\ arrays' = arrays
                 /\ sent' = [sent EXCEPT ![c] = Invocations(c) \cup Context(c)]
           /\ pc' = [pc EXCEPT ![c] = "build"]
           /\ UNCHANGED <<executed, receipts, body, result, faulty>>
BY DEF AppendContext, Appended

LEMMA FittingTypes ==
    ASSUME TypeOK, NEW c \in Call, Fits(c)
    PROVE  \A k \in Requests[c].lo .. Requests[c].hi + Len(Requests[c].context) :
              Array(c)[k] \in Inv
<1> DEFINE n == Len(Array(c))
           m == Len(Requests[c].context)
<1>1. Array(c) \in Seq(Inv)
  BY RequestTypes DEF TypeOK
<1>2. n \in Nat /\ m \in Nat
  BY <1>1, RequestTypes
<1>3. Requests[c].lo \in Nat \ {0} /\ Requests[c].hi \in Nat
  BY RequestTypes
<1>4. Requests[c].hi + m <= n
  BY DEF Fits
<1> HIDE DEF n, m
<1>5. \A l \in Nat \ {0}, h \in Nat :
         h + m <= n => \A k \in l .. h + m : k \in 1 .. n
  BY <1>2
<1>6. \A k \in 1 .. n : Array(c)[k] \in Inv
  BY <1>1 DEF n
<1> QED
  BY <1>3, <1>4, <1>5, <1>6 DEF m

LEMMA TypeStep ==
    ASSUME TypeOK, [Next]_vars
    PROVE  TypeOK'
<1> USE DEF TypeOK, Labels
<1>1. ASSUME NEW c \in Call, NoInvocations(c) PROVE TypeOK'
  BY <1>1 DEF NoInvocations
<1>2. ASSUME NEW c \in Call, AppendContext(c) PROVE TypeOK'
  <2>1. /\ arrays' \in [DOMAIN Arrays -> Seq(Inv)]
        /\ \A a \in DOMAIN Arrays : Len(arrays'[a]) = Len(Arrays[a])
    <3>1. arrays' = arrays \/ arrays' = Appended(c)
      BY <1>2, AppendStep
    <3>2. /\ Appended(c) \in [DOMAIN Arrays -> Seq(Inv)]
          /\ \A a \in DOMAIN Arrays : Len(Appended(c)[a]) = Len(Arrays[a])
      BY AppendTypes
    <3>3. CASE arrays' = arrays
      BY <3>3
    <3>4. CASE arrays' = Appended(c)
      BY <3>2, <3>4
    <3> QED
      BY <3>1, <3>3, <3>4
  <2>2. sent' \in [Call -> SUBSET Inv]
    BY <1>2, AppendStep, InvocationTypes
  <2> QED
    BY <1>2, <2>1, <2>2, AppendStep
<1>3. ASSUME NEW c \in Call, Build(c) PROVE TypeOK'
  <2> DEFINE all == {Array(c)[k] : k \in Requests[c].lo ..
                                        Requests[c].hi + Len(Requests[c].context)}
  <2>1. Fits(c) => all \subseteq Inv
    BY FittingTypes
  <2>2. sent' = IF Fits(c) THEN [sent EXCEPT ![c] = all] ELSE sent
    BY <1>3 DEF Build
  <2> HIDE DEF all
  <2>3. sent' \in [Call -> SUBSET Inv]
    BY <2>1, <2>2
  <2>4. pc' \in [Call -> Labels]
    BY <1>3 DEF Build
  <2>5. UNCHANGED <<arrays, executed, receipts, body, result, faulty>>
    BY <1>3 DEF Build
  <2> QED
    BY <2>3, <2>4, <2>5
<1>4. ASSUME NEW c \in Call, NotSent(c) PROVE TypeOK'
  BY <1>4 DEF NotSent
<1>5. ASSUME NEW c \in Call, RoundTrip(c) PROVE TypeOK'
  <2>1. {Task[i] : i \in sent[c] \cap Addressed} \subseteq Tasks
    BY DEF Tasks
  <2>2. {<<c, i>> : i \in sent[c] \cap Addressed} \subseteq Call \X Inv
    OBVIOUS
  <2>3. executed' \subseteq Call \X Inv
    BY <1>5, <2>2 DEF RoundTrip
  <2>4. ASSUME NEW attached \in SUBSET Attachable
        PROVE  {Task[i] : i \in sent[c] \cap Addressed} \cup attached \subseteq Tasks
    BY <2>1, AttachableAssumption
  <2>5. CASE UNCHANGED receipts
    BY <1>5, <2>3, <2>5 DEF RoundTrip
  <2>6. ASSUME NEW attached \in SUBSET Attachable,
               receipts' = [receipts EXCEPT
                   ![c] = {Task[i] : i \in sent[c] \cap Addressed} \cup attached]
        PROVE  receipts' \in [Call -> SUBSET Tasks]
    BY <2>4, <2>6
  <2>7. CASE receipts' \in [Call -> SUBSET Tasks]
    BY <1>5, <2>3, <2>7 DEF RoundTrip
  <2>8. \/ UNCHANGED receipts
        \/ \E attached \in SUBSET Attachable :
              receipts' = [receipts EXCEPT
                  ![c] = {Task[i] : i \in sent[c] \cap Addressed} \cup attached]
    BY <1>5 DEF RoundTrip
  <2> QED
    BY <2>5, <2>6, <2>7, <2>8
<1>6. ASSUME NEW c \in Call, DecodeFails(c) \/ EmitFails(c) \/ Decode(c) \/ Emit(c)
      PROVE  TypeOK'
  BY <1>6 DEF DecodeFails, EmitFails, Decode, Emit
<1>7. ASSUME NEW c \in Call, Missing(c) PROVE TypeOK'
  BY <1>7 DEF Missing
<1>8. ASSUME NEW c \in Call, Match(c) PROVE TypeOK'
  <2>1. {Task[i] : i \in Invocations(c)} \subseteq Tasks
    BY InvocationTypes DEF Tasks
  <2> QED
    BY <1>8, <2>1 DEF Match
<1>9. ASSUME NEW c \in Call, Close(c) PROVE TypeOK'
  BY <1>9 DEF Close
<1>10. CASE UNCHANGED vars
  BY <1>10 DEF vars
<1> QED
  BY <1>1, <1>2, <1>3, <1>4, <1>5, <1>6, <1>7, <1>8, <1>9, <1>10 DEF Next, Terminated

LEMMA TypeInitially == Init => TypeOK
BY ArraysAssumption DEF Init, TypeOK, Labels

(***************************************************************************)
(* The variables of the calls keep their types; in particular an append in *)
(* place never grows the caller's array (client.go's ExecuteBatch).        *)
(***************************************************************************)
THEOREM TypeCorrect == Spec => []TypeOK
BY TypeInitially, TypeStep, PTL DEF Spec

-----------------------------------------------------------------------------
\* A body is open only from the response on, until the call returns.
LEMMA OpenStep ==
    ASSUME ~OwnCodec, TypeOK, Opened, [Next]_vars
    PROVE  Opened'
<1> USE DEF TypeOK, Opened
<1>1. ASSUME NEW c \in Call, NoInvocations(c) PROVE Opened'
  BY <1>1 DEF NoInvocations
<1>2. ASSUME NEW c \in Call, AppendContext(c) PROVE Opened'
  BY <1>2, AppendStep
<1>3. ASSUME NEW c \in Call, Build(c) PROVE Opened'
  BY <1>3 DEF Build
<1>4. ASSUME NEW c \in Call, NotSent(c) PROVE Opened'
  BY <1>4 DEF NotSent
<1>5. ASSUME NEW c \in Call, RoundTrip(c) PROVE Opened'
  BY <1>5 DEF RoundTrip
<1>6. ASSUME NEW c \in Call, DecodeFails(c) \/ EmitFails(c) \/ Decode(c) \/ Emit(c)
      PROVE  Opened'
  BY <1>6 DEF DecodeFails, EmitFails, Decode, Emit
<1>7. ASSUME NEW c \in Call, Missing(c) PROVE Opened'
  BY <1>7 DEF Missing
<1>8. ASSUME NEW c \in Call, Match(c) PROVE Opened'
  BY <1>8 DEF Match
<1>9. ASSUME NEW c \in Call, Close(c) PROVE Opened'
  BY <1>9 DEF Close
<1>10. CASE UNCHANGED vars
  BY <1>10 DEF vars
<1> QED
  BY <1>1, <1>2, <1>3, <1>4, <1>5, <1>6, <1>7, <1>8, <1>9, <1>10 DEF Next, Terminated

(***************************************************************************)
(* A call that has returned has left no body open, whatever has failed,    *)
(* if the client can tell that the codec's container has one to close      *)
(* (the deferred release of ExecuteBatch, HTTPClient's Close).             *)
(***************************************************************************)
THEOREM ReleasesBodies == ~OwnCodec => (Spec => []BodiesReleased)
<1> SUFFICES ASSUME ~OwnCodec PROVE Spec => []BodiesReleased
  OBVIOUS
<1>1. Init => Opened
  BY DEF Init, Opened
<1>2. TypeOK /\ Opened /\ [Next]_vars => Opened'
  BY OpenStep
<1>3. Opened => BodiesReleased
  BY DEF Opened, BodiesReleased
<1> QED
  BY <1>1, <1>2, <1>3, TypeCorrect, PTL DEF Spec

-----------------------------------------------------------------------------
\* A step of c leaves the other calls alone.
OnlyMoves(c) ==
    \A d \in Call \ {c} :
        /\ pc'[d] = pc[d] /\ sent'[d] = sent[d] /\ receipts'[d] = receipts[d]
        /\ result'[d] = result[d]
        /\ d \in faulty => d \in faulty'

LEMMA OthersGood ==
    ASSUME TypeOK, TypeOK', NEW c \in Call, OnlyMoves(c), executed \subseteq executed',
           NEW d \in Call \ {c}, Good(d)
    PROVE  Good(d)'
<1>1. Fits(d)' <=> Fits(d)
  BY RequestTypes DEF TypeOK, Fits
<1>2. Asked(d)' = Asked(d)
  BY DEF Asked
<1>3. \A answer : Covers(d, answer) => Covers(d, answer)'
  BY <1>2 DEF Covers
<1> QED
  BY <1>1, <1>2, <1>3
     DEF Good, Sent, Received, Matched, Caused, OnlyMoves

\* The invocations are still the ones that the caller has asked for.
LEMMA AsAsked ==
    ASSUME Unwritten, NEW c \in Call
    PROVE  Invocations(c) = Asked(c)
BY DEF Unwritten, Invocations, Asked

\* What c appends in place falls on nobody's invocations.
LEMMA AppendApart ==
    ASSUME Apart, TypeOK, Unwritten, NEW c \in Call, AppendContext(c)
    PROVE  Unwritten'
<1>1. CASE arrays' = arrays
  BY <1>1 DEF Unwritten
<1>2. CASE Fits(c) /\ Range(c) # {} /\ arrays' = Appended(c)
  <2> SUFFICES ASSUME NEW d \in Call, NEW k \in Range(d)
               PROVE  arrays'[Requests[d].array][k] = Arrays[Requests[d].array][k]
    BY DEF Unwritten
  <2>1. /\ Requests[d].array \in DOMAIN Arrays
        /\ k \in 1 .. Len(Arrays[Requests[d].array])
    BY RequestTypes
  <2>2. \/ Requests[d].array # Requests[c].array
        \/ k - Requests[c].hi \notin DOMAIN Requests[c].context
    <3>1. Requests[c].hi + Len(Requests[c].context) <= Len(Arrays[Requests[c].array])
      BY <1>2, RequestTypes DEF Fits, TypeOK
    <3>2. ~(Requests[c].hi + Len(Requests[c].context) > Len(Arrays[Requests[c].array]))
      BY <3>1, RequestTypes, ArraysAssumption
    <3> QED
      BY <1>2, <3>2 DEF Apart
  <2>3. Appended(c)[Requests[d].array][k] = arrays[Requests[d].array][k]
    BY <2>1, <2>2, AppendTypes
  <2> QED
    BY <1>2, <2>3 DEF Unwritten
<1> QED
  BY <1>1, <1>2, AppendStep

\* A call that ends without an answer and for a reason.
LEMMA Ends ==
    ASSUME IInv, TypeOK', NEW c \in Call, Goto(c, "returned"),
           result' = [result EXCEPT ![c] = Failed],
           \/ faulty' = faulty \cup {c}
           \/ /\ faulty' = faulty
              /\ OwnCodec \/ Asked(c) = {} \/ ~(Asked(c) \subseteq Addressed),
           sent' = sent, executed \subseteq executed',
           \A d \in Call \ {c} : receipts'[d] = receipts[d]
    PROVE  \A d \in Call : Good(d)'
<1>1. OnlyMoves(c)
  BY DEF IInv, TypeOK, OnlyMoves
<1>2. Good(c)'
  <2>1. pc'[c] = "returned" /\ result'[c] = Failed
    BY DEF IInv, TypeOK
  <2>2. Failed # None
    BY NoneAssumption
  <2>3. Asked(c)' = Asked(c)
    BY DEF Asked
  <2> QED
    BY <2>1, <2>2, <2>3 DEF Good, Sent, Received, Matched, Caused
<1> QED
  BY <1>1, <1>2, OthersGood DEF IInv

LEMMA Step ==
    ASSUME Apart, IInv, [Next]_vars
    PROVE  IInv'
<1>1. TypeOK /\ TypeOK'
  BY TypeStep DEF IInv
<1>2. ASSUME NEW c \in Call, NoInvocations(c) PROVE IInv'
  <2>1. Asked(c) = {}
    BY <1>2 DEF NoInvocations, Asked
  <2>2. \A d \in Call : Good(d)'
    BY <1>1, <1>2, <2>1, Ends DEF NoInvocations
  <2> QED
    BY <1>1, <1>2, <2>2 DEF IInv, Unwritten, NoInvocations
<1>3. ASSUME NEW c \in Call, AppendContext(c) PROVE IInv'
  <2>1. Unwritten'
    BY <1>3, AppendApart DEF IInv
  <2>2. OnlyMoves(c) /\ executed' = executed
    BY <1>1, <1>3, AppendStep DEF OnlyMoves, TypeOK
  <2>3. Good(c)'
    <3>1. /\ pc[c] = "append" /\ pc'[c] = "build" /\ result'[c] = result[c]
          /\ ~Fits(c) => sent'[c] = Invocations(c) \cup Context(c)
      BY <1>1, <1>3, AppendStep DEF TypeOK
    <3>2. Asked(c)' = Asked(c) /\ Invocations(c) = Asked(c)
      BY AsAsked DEF Asked, IInv
    <3>3. Fits(c)' <=> Fits(c)
      BY <1>1, RequestTypes DEF TypeOK, Fits
    <3>4. result[c] = None
      BY <3>1 DEF IInv, Good, Matched
    <3>5. Failed # None
      BY NoneAssumption
    <3> QED
      BY <3>1, <3>2, <3>3, <3>4, <3>5 DEF Good, Sent, Received, Matched, Caused
  <2> QED
    BY <1>1, <2>1, <2>2, <2>3, OthersGood DEF IInv
<1>4. ASSUME NEW c \in Call, Build(c) PROVE IInv'
  <2>1. Unwritten'
    BY <1>4 DEF IInv, Unwritten, Build
  <2>2. OnlyMoves(c) /\ executed' = executed
    BY <1>1, <1>4 DEF OnlyMoves, TypeOK, Build
  <2>3. Good(c)'
    <3>1. pc[c] = "build" /\ pc'[c] = "send" /\ result'[c] = result[c]
      BY <1>1, <1>4 DEF TypeOK, Build
    <3>2. Asked(c)' = Asked(c) /\ Invocations(c) = Asked(c)
      BY AsAsked DEF Asked, IInv
    <3>3. Asked(c) \subseteq sent'[c]
      <4>1. CASE Fits(c)
        <5>1. sent'[c] = {Array(c)[k] : k \in Requests[c].lo ..
                                               Requests[c].hi + Len(Requests[c].context)}
          BY <1>1, <1>4, <4>1 DEF TypeOK, Build
        <5>2. \A k \in Range(c) :
                 k \in Requests[c].lo .. Requests[c].hi + Len(Requests[c].context)
          <6>1. Len(Requests[c].context) \in Nat
            BY RequestTypes
          <6> QED
            BY <6>1, RequestTypes
        <5> QED
          BY <3>2, <5>1, <5>2 DEF Invocations
      <4>2. CASE ~Fits(c)
        BY <1>4, <3>1, <4>2 DEF Build, IInv, Good, Sent
      <4> QED
        BY <4>1, <4>2
    <3>4. result[c] = None /\ Failed # None
      BY <3>1, NoneAssumption DEF IInv, Good, Matched
    <3> QED
      BY <3>1, <3>2, <3>3, <3>4 DEF Good, Sent, Received, Matched, Caused
  <2> QED
    BY <1>1, <2>1, <2>2, <2>3, OthersGood DEF IInv
<1>5. ASSUME NEW c \in Call, NotSent(c) PROVE IInv'
  <2>1. \A d \in Call : Good(d)'
    BY <1>1, <1>5, Ends DEF NotSent
  <2> QED
    BY <1>1, <1>5, <2>1 DEF IInv, Unwritten, NotSent
<1>6. ASSUME NEW c \in Call, RoundTrip(c) PROVE IInv'
  <2>1. Unwritten'
    BY <1>6 DEF IInv, Unwritten, RoundTrip
  <2>2. /\ executed' = executed \cup {<<c, i>> : i \in sent[c] \cap Addressed}
        /\ sent' = sent
    BY <1>6 DEF RoundTrip
  <2>3. CASE Abort(c) /\ UNCHANGED receipts
    <3>1. \A d \in Call : Good(d)'
      BY <1>1, <2>2, <2>3, Ends
    <3> QED
      BY <1>1, <2>1, <3>1 DEF IInv
  <2>4. CASE /\ \E attached \in SUBSET Attachable :
                   receipts' = [receipts EXCEPT
                       ![c] = {Task[i] : i \in sent[c] \cap Addressed} \cup attached]
             /\ Goto(c, "decode")
             /\ UNCHANGED <<result, faulty>>
    <3> DEFINE Executed == {Task[i] : i \in sent[c] \cap Addressed}
    <3>a. PICK attached \in SUBSET Attachable :
             receipts' = [receipts EXCEPT ![c] = Executed \cup attached]
      BY <2>4
    <3>1. OnlyMoves(c)
      BY <1>1, <2>2, <2>4, <3>a DEF OnlyMoves, TypeOK
    <3>2. /\ pc[c] = "send" /\ pc'[c] = "decode"
          /\ receipts'[c] = Executed \cup attached
      BY <1>1, <1>6, <2>4, <3>a DEF TypeOK, RoundTrip
    <3>3. Asked(c)' = Asked(c) /\ Asked(c) \subseteq sent[c]
      BY <3>2 DEF Asked, IInv, Good, Sent
    <3>4. result[c] = None /\ Failed # None
      BY <3>2, NoneAssumption DEF IInv, Good, Matched
    <3>5. \A i \in sent[c] \cap Addressed : <<c, i>> \in executed'
      BY <2>2
    <3>6. Good(c)'
      <4>1. Received(c)'
        BY <2>2, <3>2, <3>5 DEF Received
      <4> QED
        BY <2>2, <2>4, <3>2, <3>3, <3>4, <4>1 DEF Good, Sent, Matched, Caused
    <3> QED
      BY <1>1, <2>1, <2>2, <3>1, <3>6, OthersGood DEF IInv
  <2> QED
    BY <1>6, <2>3, <2>4 DEF RoundTrip
<1>7. ASSUME NEW c \in Call, DecodeFails(c) \/ EmitFails(c) PROVE IInv'
  <2>1. \A d \in Call : Good(d)'
    BY <1>1, <1>7, Ends DEF DecodeFails, EmitFails
  <2> QED
    BY <1>1, <1>7, <2>1 DEF IInv, Unwritten, DecodeFails, EmitFails
<1>8. ASSUME NEW c \in Call, Decode(c) \/ Emit(c) PROVE IInv'
  <2>1. /\ pc[c] \in {"decode", "emit"} /\ pc'[c] \in {"emit", "match"}
        /\ UNCHANGED <<arrays, sent, executed, receipts, result, faulty>>
    BY <1>1, <1>8 DEF TypeOK, Decode, Emit
  <2>2. OnlyMoves(c)
    BY <1>1, <1>8, <2>1 DEF OnlyMoves, TypeOK, Decode, Emit
  <2>3. Good(c)'
    BY <2>1 DEF IInv, Good, Sent, Received, Matched, Caused, Asked, Covers
  <2> QED
    BY <1>1, <2>1, <2>2, <2>3, OthersGood DEF IInv, Unwritten
<1>9. ASSUME NEW c \in Call, Missing(c) PROVE IInv'
  <2>1. ~(Asked(c) \subseteq Addressed)
    <3>1. PICK i \in Asked(c) : Task[i] \notin receipts[c]
      BY <1>9, AsAsked DEF Missing, Unanswered, IInv
    <3>2. i \in sent[c] /\ {Task[j] : j \in sent[c] \cap Addressed} \subseteq receipts[c]
      BY <1>9, <3>1 DEF Missing, IInv, Good, Sent, Received
    <3> QED
      BY <3>1, <3>2
  <2>2. \A d \in Call : Good(d)'
    BY <1>1, <1>9, <2>1, Ends DEF Missing
  <2> QED
    BY <1>1, <1>9, <2>2 DEF IInv, Unwritten, Missing
<1>10. ASSUME NEW c \in Call, Match(c) PROVE IInv'
  <2>1. /\ pc[c] = "match" /\ pc'[c] = "close"
        /\ receipts'[c] = {Task[i] : i \in Asked(c)}
        /\ UNCHANGED <<arrays, sent, executed, result, faulty>>
    <3>1. Invocations(c) = Asked(c)
      BY AsAsked DEF IInv
    <3>2. {Task[i] : i \in Asked(c)} \subseteq receipts[c]
      BY <1>10, <3>1 DEF Match, Unanswered
    <3>3. receipts[c] \cap {Task[i] : i \in Asked(c)} = {Task[i] : i \in Asked(c)}
      BY <3>2
    <3> QED  BY <1>1, <1>10, <3>1, <3>3 DEF TypeOK, Match
  <2>2. OnlyMoves(c)
    BY <1>1, <1>10, <2>1 DEF OnlyMoves, TypeOK, Match
  <2>3. \A i \in Asked(c) : \/ \E j \in Inv : Task[j] = Task[i] /\ <<c, j>> \in executed
                           \/ Task[i] \in Attachable
    <3> SUFFICES ASSUME NEW i \in Asked(c), Task[i] \notin Attachable
                 PROVE  \E j \in Inv : Task[j] = Task[i] /\ <<c, j>> \in executed
      OBVIOUS
    <3>1. Task[i] \in receipts[c]
      BY <1>10, AsAsked DEF Match, Unanswered, IInv
    <3>2. /\ receipts[c] \subseteq {Task[j] : j \in sent[c] \cap Addressed} \cup Attachable
          /\ \A j \in sent[c] \cap Addressed : <<c, j>> \in executed
      BY <2>1 DEF IInv, Good, Received
    <3> QED
      BY <1>1, <3>1, <3>2, AddressedAssumption
  <2>4. Good(c)'
    <3>1. Asked(c)' = Asked(c)
      BY DEF Asked
    <3>2. Covers(c, receipts[c])'
      BY <2>1, <2>3, <3>1 DEF Covers
    <3>3. result[c] = None /\ Failed # None
      BY <2>1, NoneAssumption DEF IInv, Good, Matched
    <3> QED
      BY <2>1, <3>2, <3>3 DEF Good, Sent, Received, Matched, Caused
  <2> QED
    BY <1>1, <2>1, <2>2, <2>4, OthersGood DEF IInv, Unwritten
<1>11. ASSUME NEW c \in Call, Close(c) PROVE IInv'
  <2>1. pc[c] = "close" /\ UNCHANGED <<arrays, sent, executed, receipts>>
    BY <1>11 DEF Close
  <2>2. CASE /\ Return(c, Failed)
             /\ (OwnCodec /\ faulty' = faulty) \/ faulty' = faulty \cup {c}
    <3>1. \A d \in Call : Good(d)'
      BY <1>1, <2>1, <2>2, Ends
    <3> QED
      BY <1>1, <2>1, <3>1 DEF IInv, Unwritten
  <2>3. CASE Return(c, receipts[c]) /\ UNCHANGED faulty
    <3>1. pc'[c] = "returned" /\ result'[c] = receipts[c]
      BY <1>1, <2>3 DEF TypeOK
    <3>2. receipts[c] \notin {None, Failed}
      BY <1>1, NoneAssumption DEF TypeOK
    <3>3. Covers(c, result[c])'
      BY <2>1, <3>1 DEF IInv, Good, Matched, Covers, Asked
    <3>4. Good(c)'
      BY <3>1, <3>2, <3>3 DEF Good, Sent, Received, Matched, Caused
    <3>5. OnlyMoves(c)
      BY <1>1, <2>1, <2>3 DEF OnlyMoves, TypeOK
    <3> QED
      BY <1>1, <2>1, <3>4, <3>5, OthersGood DEF IInv, Unwritten
  <2> QED
    BY <1>11, <2>2, <2>3 DEF Close
<1>12. CASE UNCHANGED vars
  <2>1. UNCHANGED <<arrays, pc, sent, executed, receipts, result, faulty>>
    BY <1>12 DEF vars
  <2>2. ASSUME NEW c \in Call PROVE Good(c)'
    <3>1. Asked(c)' = Asked(c) /\ (Fits(c)' <=> Fits(c))
      BY <2>1 DEF Asked, Fits
    <3>2. \A answer : Covers(c, answer)' <=> Covers(c, answer)
      BY <2>1, <3>1 DEF Covers
    <3> QED
      BY <2>1, <3>1, <3>2 DEF IInv, Good, Sent, Received, Matched, Caused
  <2> QED
    BY <1>1, <2>1, <2>2 DEF IInv, Unwritten
<1> QED
  BY <1>2, <1>3, <1>4, <1>5, <1>6, <1>7, <1>8, <1>9, <1>10, <1>11, <1>12
     DEF Next, Terminated

LEMMA Always == ASSUME Apart PROVE Spec => []IInv
<1>1. Init => IInv
  <2>1. ASSUME Init PROVE Unwritten /\ \A c \in Call : Good(c)
    <3>1. Failed # None
      BY NoneAssumption
    <3> QED
      BY <2>1, <3>1 DEF Init, Unwritten, Good, Sent, Received, Matched, Caused
  <2> QED
    BY <2>1, TypeInitially DEF IInv
<1>2. IInv /\ [Next]_vars => IInv'
  BY Step
<1> QED
  BY <1>1, <1>2, PTL DEF Spec

(***************************************************************************)
(* A response has a receipt for each invocation asked for, of an execution *)
(* made for this call or attached by a handler, if the slices the requests *)
(* are made of are Apart (ExecuteBatch's append, and its matching).        *)
(***************************************************************************)
THEOREM Answers == Apart => (Spec => []AnswersAll)
<1> SUFFICES ASSUME Apart PROVE Spec => []AnswersAll
  OBVIOUS
<1>1. IInv => AnswersAll
  BY DEF IInv, Good, Matched, Covers, AnswersAll
<1> QED
  BY <1>1, Always, PTL

(***************************************************************************)
(* Nor is there an error without a cause, if moreover the codec's          *)
(* containers can be closed: what a call does not share with others cannot *)
(* make it fail (ExecuteBatch's matching of receipts, HTTPClient.Execute). *)
(***************************************************************************)
THEOREM Fails == Apart /\ ~OwnCodec => (Spec => []FailsForCause)
<1> SUFFICES ASSUME Apart, ~OwnCodec PROVE Spec => []FailsForCause
  OBVIOUS
<1>1. IInv => FailsForCause
  BY DEF IInv, Good, Caused, FailsForCause
<1> QED
  BY <1>1, Always, PTL
=============================================================================
