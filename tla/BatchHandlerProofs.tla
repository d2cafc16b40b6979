------------------------- MODULE BatchHandlerProofs -------------------------
(***************************************************************************)
(* What the run checks of a route's handler, proved for any number of      *)
(* invocations, any principals and any chain of checks, and that a route   *)
(* shows to the dispatcher as the one call its model takes it for.         *)
(*                                                                         *)
(* The inductive invariant ties the place the handler has come to to the   *)
(* outcomes it has recorded: the batch at a filter is what all those       *)
(* before it let through, whoever has been dropped holds the failure of    *)
(* the filter that dropped it, and nobody else may write there.            *)
(***************************************************************************)
EXTENDS BatchHandler, TLAPS

Filter == ({"NotSelfSigned", "OnlySubject", "OnlyIssuer"} \X Principal) \cup {Arguments}

\* Every variable has the type its Go counterpart has.
TypeOK ==
    /\ invocation \in [Item -> Invocation]
    /\ kind \in Kinds
    /\ filters \in Seq(Filter)
    /\ level \in 1 .. Len(filters) + 1
    /\ batch \subseteq Item
    /\ seen \subseteq batch
    /\ accepted \subseteq seen
    /\ stage \in [Item -> {"none", "running", "done"}]
    /\ called \subseteq batch
    /\ resp \in [Item -> Receipt \cup {None}]
    /\ lost \subseteq Item
    /\ result \in {"none", "nil", "short", "long", "panic"}

\* Item i passes the first n filters.
PassesFirst(i, n) == \A k \in 1 .. n : Meets(invocation[i], filters[k])

\* The filter loops keep exactly what meets the filters they are past.
Filtered ==
    /\ batch = {i \in Item : PassesFirst(i, level - 1)}
    /\ level <= Len(filters) =>
          accepted = {i \in seen : Meets(invocation[i], filters[level])}

\* Filter k is the first that i does not pass.
FirstRejects(i, k) ==
    /\ PassesFirst(i, k - 1)
    /\ ~Meets(invocation[i], filters[k])

\* The items that a filter has dropped.
Dropped ==
    {i \in Item : \/ i \notin batch
                  \/ level <= Len(filters) /\ i \in seen \ accepted}

\* What is dropped holds the failure of the filter that dropped it, unless it
\* could not be issued, and then the chain has returned.
Rejected ==
    \A i \in Dropped :
        /\ resp[i] # None =>
              \E k \in DOMAIN filters : FirstRejects(i, k) /\ resp[i].out = filters[k][1]
        /\ result \in {"none", "nil"} => resp[i] # None

\* Nothing else is recorded before the command's handler is called.
Untouched ==
    \A i \in Item \ Dropped :
        (IF kind = "batch" THEN i \notin called ELSE stage[i] = "none") => resp[i] = None

\* The command's handler is called behind the last filter: a batch handler
\* with the whole batch, the others item by item.
Calls ==
    /\ level <= Len(filters) => called = {} /\ \A i \in Item : stage[i] = "none"
    /\ kind = "batch" =>
          called \in {{}, batch} /\ lost = {} /\ \A i \in Item : stage[i] = "none"
    /\ kind # "batch" =>
          /\ called = {i \in Item : stage[i] # "none" /\ invocation[i].conforms}
          /\ level > Len(filters) => seen = {i \in Item : stage[i] # "none"}

\* A call for a single invocation runs only while the handler does, and only
\* a dispatcher runs several of them at once.
Runs ==
    \A i \in Item : stage[i] = "running" =>
        /\ result = "none"
        /\ invocation[i].conforms
        /\ kind = "direct" => \A j \in Item : stage[j] = "running" => j = i

\* An item whose arguments do not decode is not called, and has the failure
\* that tells so or is accounted for in the error that the handler ends with.
Undecoded ==
    \A i \in Item : stage[i] = "done" /\ i \notin called =>
        /\ resp[i] # None =>
              \/ resp[i].out = "Arguments"
              \/ kind = "each" /\ resp[i].out = "HandlerExecutionError"
        /\ resp[i] = None =>
              IF kind = "each" THEN i \in lost ELSE result \in {"short", "long"}

\* The handler succeeds only when nothing is left to do and nothing was lost.
Succeeds ==
    result = "nil" =>
        \/ batch = {}
        \/ /\ level > Len(filters)
           /\ lost = {}
           /\ IF kind = "batch" THEN called = batch ELSE \A i \in batch : stage[i] = "done"

IInv ==
    /\ TypeOK /\ Filtered /\ Rejected /\ Untouched
    /\ Calls /\ Runs /\ Undecoded /\ Succeeds
-----------------------------------------------------------------------------
\* The checks reject exactly what does not meet their condition.
LEMMA RejectsUnmet ==
    ASSUME NEW f \in Filter, NEW inv
    PROVE  Rejects(f, inv) <=> ~Meets(inv, f)
<1>1. f[1] \in {"NotSelfSigned", "OnlySubject", "OnlyIssuer", "Arguments"}
  BY DEF Filter, Arguments
<1> QED
  BY <1>1 DEF Rejects, Meets

\* One more filter.
LEMMA PassesNext ==
    ASSUME NEW i, NEW n \in Nat \ {0}
    PROVE  PassesFirst(i, n) <=>
               PassesFirst(i, n - 1) /\ Meets(invocation[i], filters[n])
<1>1. 1 .. n = (1 .. n - 1) \cup {n}
  OBVIOUS
<1> QED
  BY <1>1 DEF PassesFirst

LEMMA Initially == Init => IInv
<1> SUFFICES ASSUME Init PROVE IInv
  OBVIOUS
<1>1. TypeOK
  <2>1. filters \in Seq(Filter)
    <3>1. PICK chain \in Chains : filters \in {chain, Append(chain, Arguments)}
      BY DEF Init
    <3>2. chain \in Seq(Filter) /\ Arguments \in Filter
      BY ChainsAssumption DEF Filter
    <3> QED
      BY <3>1, <3>2
  <2>2. 1 \in 1 .. Len(filters) + 1
    BY <2>1
  <2> QED
    BY <2>1, <2>2 DEF Init, TypeOK
<1>2. \A i \in Item : PassesFirst(i, level - 1)
  BY DEF Init, PassesFirst
<1>3. Dropped = {}
  BY DEF Init, Dropped
<1> QED
  BY <1>1, <1>2, <1>3
     DEF Init, IInv, Filtered, Rejected, Untouched, Calls, Runs, Undecoded, Succeeds
\* A filter's loop comes past an item that meets its condition.
LEMMA AcceptKeeps ==
    ASSUME IInv, NEW i \in Item, Accept(i)
    PROVE  IInv'
<1>1. /\ result = "none" /\ level \in 1 .. Len(filters)
      /\ i \in batch \ seen
      /\ seen' = seen \cup {i}
      /\ accepted' = accepted \cup {i}
      /\ UNCHANGED <<invocation, kind, filters, level, batch, stage, called, resp, lost, result>>
  BY DEF Accept, Filtering, Current, IInv, TypeOK, input
<1>2. Meets(invocation[i], filters[level])
  <2>1. filters[level] \in Filter
    BY <1>1 DEF IInv, TypeOK
  <2> QED
    BY <2>1, RejectsUnmet DEF Accept
<1>3. TypeOK'
  BY <1>1 DEF IInv, TypeOK
<1>4. Filtered'
  BY <1>1, <1>2 DEF IInv, Filtered, PassesFirst
<1>5. Dropped' = Dropped
  BY <1>1 DEF IInv, TypeOK, Dropped
<1>6. Rejected' /\ Untouched'
  BY <1>1, <1>5 DEF IInv, Rejected, Untouched, FirstRejects, PassesFirst
<1>7. Calls' /\ Runs' /\ Undecoded' /\ Succeeds'
  BY <1>1 DEF IInv, TypeOK, Calls, Runs, Undecoded, Succeeds
<1> QED
  BY <1>3, <1>4, <1>6, <1>7 DEF IInv

\* A filter's loop drops an item, or gives up since it cannot.
LEMMA RejectKeeps ==
    ASSUME IInv, NEW i \in Item, Reject(i)
    PROVE  IInv'
<1>1. /\ result = "none" /\ level \in 1 .. Len(filters)
      /\ i \in batch \ seen
      /\ seen' = seen \cup {i}
      /\ UNCHANGED <<invocation, kind, filters, level, batch, accepted, stage, called, lost>>
  BY DEF Reject, Filtering, Current, IInv, TypeOK, input
<1>2. filters[level] \in Filter
  BY <1>1 DEF IInv, TypeOK
<1>3. FirstRejects(i, level)
  <2>1. ~Meets(invocation[i], filters[level])
    BY <1>2, RejectsUnmet DEF Reject
  <2> QED
    BY <1>1, <2>1 DEF IInv, Filtered, FirstRejects
<1>4. \/ /\ resp' = [resp EXCEPT ![i] = Failure(i, filters[level][1])]
         /\ result' = "none"
      \/ resp' = resp /\ result' \in {"short", "long"}
  <2>1. PICK set \in Issued(resp[i], Failure(i, filters[level][1])) :
          /\ resp' = [resp EXCEPT ![i] = set.receipt]
          /\ result' \in IF set.err THEN {"short", "long"} ELSE {"none"}
    BY DEF Reject
  <2>2. CASE set = [receipt |-> Failure(i, filters[level][1]), err |-> FALSE]
    BY <2>1, <2>2
  <2>3. CASE set = [receipt |-> resp[i], err |-> TRUE]
    BY <2>1, <2>3 DEF IInv, TypeOK
  <2> QED
    BY <2>2, <2>3 DEF Issued
<1>5. Failure(i, filters[level][1]) \in Receipt
  BY <1>2 DEF Failure, Receipt, Filter, Arguments
<1>6. TypeOK'
  BY <1>1, <1>4, <1>5 DEF IInv, TypeOK
<1>7. Filtered'
  BY <1>1, <1>3 DEF IInv, Filtered, PassesFirst, FirstRejects
<1>8. Dropped' = Dropped \cup {i}
  BY <1>1 DEF IInv, TypeOK, Dropped
<1>9. resp[i] = None
  BY <1>1 DEF IInv, TypeOK, Untouched, Calls, Dropped
<1>10. Rejected'
  <2> SUFFICES ASSUME NEW j \in Dropped'
               PROVE  /\ resp'[j] # None =>
                            \E k \in DOMAIN filters : FirstRejects(j, k)
                                                      /\ resp'[j].out = filters[k][1]
                      /\ result' \in {"none", "nil"} => resp'[j] # None
    BY <1>1 DEF Rejected, FirstRejects, PassesFirst
  <2>1. CASE j = i
    <3>1. level \in DOMAIN filters
      BY <1>1 DEF IInv, TypeOK
    <3>2. Failure(i, filters[level][1]) # None
      BY <1>5, NoneAssumption
    <3> QED
      BY <2>1, <3>1, <3>2, <1>3, <1>4, <1>9 DEF IInv, TypeOK, Failure
  <2>2. CASE j # i
    <3>1. j \in Dropped /\ resp'[j] = resp[j]
      BY <2>2, <1>4, <1>8 DEF IInv, TypeOK, Dropped
    <3> QED
      BY <3>1, <1>1 DEF IInv, Rejected
  <2> QED
    BY <2>1, <2>2
<1>11. Untouched'
  BY <1>1, <1>4, <1>8 DEF IInv, TypeOK, Untouched, Dropped
<1>12. Calls' /\ Runs' /\ Undecoded' /\ Succeeds'
  BY <1>1, <1>4 DEF IInv, TypeOK, Calls, Runs, Undecoded, Succeeds
<1> QED
  BY <1>6, <1>7, <1>10, <1>11, <1>12 DEF IInv

\* The next filter, or the command's handler, is called with what is left.
LEMMA PassKeeps ==
    ASSUME IInv, Pass
    PROVE  IInv'
<1>1. /\ result = "none" /\ level \in 1 .. Len(filters)
      /\ seen = batch
      /\ result' = IF accepted = {} THEN "nil" ELSE "none"
      /\ level' = level + 1
      /\ batch' = accepted
      /\ seen' = {}
      /\ accepted' = {}
      /\ UNCHANGED <<invocation, kind, filters, stage, called, resp, lost>>
  BY DEF Pass, Filtering, IInv, TypeOK, input
<1>2. called = {} /\ \A i \in Item : stage[i] = "none"
  BY <1>1 DEF IInv, Calls
<1>3. TypeOK'
  BY <1>1, <1>2 DEF IInv, TypeOK
<1>4. Filtered'
  <2>1. accepted = {i \in Item : PassesFirst(i, level)}
    BY <1>1, PassesNext DEF IInv, TypeOK, Filtered
  <2>2. \A i \in Item : PassesFirst(i, level - 1)' <=> PassesFirst(i, level)
    <3>1. level' - 1 = level
      BY <1>1
    <3> QED
      BY <1>1, <3>1 DEF PassesFirst
  <2> QED
    BY <1>1, <2>1, <2>2 DEF Filtered, IInv, TypeOK
<1>5. Dropped' = Dropped
  BY <1>1 DEF IInv, TypeOK, Dropped
<1>6. Rejected' /\ Untouched'
  BY <1>1, <1>5 DEF IInv, Rejected, Untouched, FirstRejects, PassesFirst
<1>7. Calls' /\ Runs' /\ Undecoded' /\ Succeeds'
  BY <1>1, <1>2 DEF IInv, TypeOK, Calls, Runs, Undecoded, Succeeds
<1> QED
  BY <1>3, <1>4, <1>6, <1>7 DEF IInv
-----------------------------------------------------------------------------
\* A task's response keeps the receipt it holds or gets one for that task.
LEMMA SetTypes ==
    ASSUME IInv, NEW i \in Item, Set(i)
    PROVE  \E v \in Receipt \cup {None} : resp' = [resp EXCEPT ![i] = v]
<1>1. resp[i] \in Receipt \cup {None}
  BY DEF IInv, TypeOK
<1>2. \A j \in Item : Success(j) \in Receipt /\ Failure(j, "Failed") \in Receipt
  BY DEF Success, Failure, Receipt
<1>3. CASE \E receipt \in {Success(i), Failure(i, "Failed")} :
               \E set \in Issued(resp[i], receipt) : resp' = [resp EXCEPT ![i] = set.receipt]
  <2>1. PICK receipt \in {Success(i), Failure(i, "Failed")} :
               \E set \in Issued(resp[i], receipt) : resp' = [resp EXCEPT ![i] = set.receipt]
    BY <1>3
  <2>2. PICK set \in Issued(resp[i], receipt) : resp' = [resp EXCEPT ![i] = set.receipt]
    BY <2>1
  <2>3. set.receipt \in {receipt, resp[i]}
    BY DEF Issued
  <2> QED
    BY <1>1, <1>2, <2>1, <2>2, <2>3
<1>4. CASE \E j \in Item : \E receipt \in {Success(j), Failure(j, "Failed")} :
               resp' = [resp EXCEPT ![i] = SetReceipt(resp[i], i, receipt)]
  <2>1. PICK j \in Item : \E receipt \in {Success(j), Failure(j, "Failed")} :
               resp' = [resp EXCEPT ![i] = SetReceipt(resp[i], i, receipt)]
    BY <1>4
  <2>2. PICK receipt \in {Success(j), Failure(j, "Failed")} :
               resp' = [resp EXCEPT ![i] = SetReceipt(resp[i], i, receipt)]
    BY <2>1
  <2>3. SetReceipt(resp[i], i, receipt) \in {receipt, resp[i]}
    BY DEF SetReceipt
  <2> QED
    BY <1>1, <1>2, <2>2, <2>3
<1> QED
  BY <1>3, <1>4 DEF Set

\* The command writes to the responses it was called with, and to no other.
LEMMA SetKeeps ==
    ASSUME IInv, NEW i \in Item, Set(i)
    PROVE  IInv'
<1>1. UNCHANGED <<invocation, kind, filters, level, batch, seen, accepted,
                  stage, called, lost, result>>
  BY DEF Set, input
<1>2. /\ i \in called
      /\ level > Len(filters)
      /\ result = "none"
      /\ kind # "batch" => stage[i] = "running"
  BY DEF Set, Held, IInv, TypeOK, Calls, Runs
<1>3. PICK v \in Receipt \cup {None} : resp' = [resp EXCEPT ![i] = v]
  BY SetTypes
<1>4. TypeOK'
  BY <1>1, <1>3 DEF IInv, TypeOK
<1>5. Filtered'
  BY <1>1 DEF IInv, Filtered, PassesFirst
<1>6. Dropped' = Dropped /\ i \notin Dropped
  BY <1>1, <1>2 DEF IInv, TypeOK, Dropped
<1>7. \A j \in Item \ {i} : resp'[j] = resp[j]
  BY <1>3 DEF IInv, TypeOK
<1>8. Rejected'
  <2> SUFFICES ASSUME NEW j \in Dropped
               PROVE  /\ resp'[j] # None =>
                            \E k \in DOMAIN filters : FirstRejects(j, k)
                                                      /\ resp'[j].out = filters[k][1]
                      /\ result \in {"none", "nil"} => resp'[j] # None
    BY <1>1, <1>6 DEF Rejected, FirstRejects, PassesFirst
  <2> QED
    BY <1>6, <1>7 DEF IInv, Rejected, Dropped
<1>9. Untouched'
  BY <1>1, <1>2, <1>6, <1>7 DEF IInv, TypeOK, Untouched
<1>10. Calls' /\ Runs' /\ Succeeds'
  BY <1>1 DEF IInv, TypeOK, Calls, Runs, Succeeds
<1>11. Undecoded'
  BY <1>1, <1>2, <1>7 DEF IInv, Undecoded
<1> QED
  BY <1>4, <1>5, <1>8, <1>9, <1>10, <1>11 DEF IInv

\* A batch handler is called, or returns.
LEMMA BatchKeeps ==
    ASSUME IInv, CallBatch \/ BatchReturns
    PROVE  IInv'
<1>1. /\ result = "none" /\ level > Len(filters) /\ kind = "batch"
      /\ UNCHANGED <<invocation, kind, filters, level, batch, seen, accepted,
                     stage, resp, lost>>
      /\ \/ called = {} /\ called' = batch /\ result' = result
         \/ /\ called # {} /\ called' = called
            /\ result' \in {"nil", "short", "long", "panic"}
  BY DEF CallBatch, BatchReturns, Serving, input, IInv, TypeOK
<1>2. TypeOK'
  BY <1>1 DEF IInv, TypeOK
<1>3. Filtered'
  BY <1>1 DEF IInv, Filtered, PassesFirst
<1>4. Dropped' = Dropped
  BY <1>1 DEF Dropped
<1>5. Rejected'
  BY <1>1, <1>4 DEF IInv, Rejected, FirstRejects, PassesFirst
<1>6. Untouched'
  BY <1>1, <1>4 DEF IInv, Untouched
<1>7. Calls' /\ Runs' /\ Undecoded' /\ Succeeds'
  BY <1>1 DEF IInv, TypeOK, Calls, Runs, Undecoded, Succeeds
<1> QED
  BY <1>2, <1>3, <1>5, <1>6, <1>7 DEF IInv

\* Each returns, when all its calls have.
LEMMA EachKeeps ==
    ASSUME IInv, EachReturns
    PROVE  IInv'
<1>1. /\ result = "none" /\ level > Len(filters) /\ kind # "batch"
      /\ \A i \in batch : stage[i] = "done"
      /\ UNCHANGED <<invocation, kind, filters, level, batch, seen, accepted,
                     stage, called, resp, lost>>
      /\ result' \in {"nil", "short", "long"}
      /\ result' = "nil" <=> lost = {}
  BY DEF EachReturns, Serving, input
<1>2. TypeOK'
  BY <1>1 DEF IInv, TypeOK
<1>3. Filtered'
  BY <1>1 DEF IInv, Filtered, PassesFirst
<1>4. Dropped' = Dropped
  BY <1>1 DEF Dropped
<1>5. Rejected'
  BY <1>1, <1>4 DEF IInv, Rejected, FirstRejects, PassesFirst
<1>6. Untouched'
  BY <1>1, <1>4 DEF IInv, Untouched
<1>7. \A i \in Item : stage[i] # "running"
  BY <1>1 DEF IInv, TypeOK, Calls
<1>8. Calls' /\ Runs' /\ Undecoded' /\ Succeeds'
  BY <1>1, <1>7 DEF IInv, TypeOK, Calls, Runs, Undecoded, Succeeds
<1> QED
  BY <1>2, <1>3, <1>5, <1>6, <1>8 DEF IInv
-----------------------------------------------------------------------------
\* How the end of a call for item i is recorded: v in its response, the item
\* among the lost ones, or as the end of the handler itself.
Recorded(i, v) ==
    /\ stage' = [stage EXCEPT ![i] = "done"]
    /\ resp' = [resp EXCEPT ![i] = v]
    /\ lost' \in {lost, lost \cup {i}}
    /\ kind = "each" => result' = result
    /\ kind # "each" =>
          lost' = lost /\ result' \in {result, "short", "long", "panic"}
    /\ result' # "nil" \/ result = "nil"

LEMMA ReturnRecords ==
    ASSUME IInv, NEW i \in Item, NEW r \in {"nil", "short", "long", "panic"},
           result = "none", Return(i, r)
    PROVE  /\ \E v \in Receipt \cup {None} : Recorded(i, v)
           /\ r \in {"short", "long"} =>
                 \/ kind = "each" /\ resp'[i] = Failure(i, "HandlerExecutionError")
                 \/ kind = "each" /\ resp'[i] = resp[i] /\ i \in lost'
                 \/ kind # "each" /\ resp' = resp /\ result' = r
<1>1. resp[i] \in Receipt \cup {None} /\ resp = [resp EXCEPT ![i] = resp[i]]
  BY DEF IInv, TypeOK
<1>2. /\ Failure(i, "HandlerExecutionError") \in Receipt
      /\ Failure(i, "ExecutionFailure") \in Receipt
  BY DEF Failure, Receipt
<1>3. CASE kind = "each"
  <2>1. CASE r = "short"
    <3>1. resp' = [resp EXCEPT ![i] = Failure(i, "HandlerExecutionError")]
      BY <1>3, <2>1 DEF Return
    <3> QED
      BY <1>2, <1>3, <2>1, <3>1 DEF Return, Recorded, IInv, TypeOK
  <2>2. CASE r = "panic"
    <3>1. resp' = [resp EXCEPT ![i] = Failure(i, "ExecutionFailure")]
      BY <1>3, <2>2 DEF Return
    <3> QED
      BY <1>2, <1>3, <2>2, <3>1 DEF Return, Recorded
  <2>3. CASE r \in {"nil", "long"}
    <3>1. resp' = [resp EXCEPT ![i] = resp[i]]
      BY <1>3, <2>3 DEF Return
    <3> QED
      BY <1>1, <1>3, <2>3, <3>1 DEF Return, Recorded
  <2> QED
    BY <2>1, <2>2, <2>3
<1>4. CASE kind # "each"
  BY <1>1, <1>4 DEF Return, Recorded
<1> QED
  BY <1>3, <1>4

\* A call for a single invocation begins, or its arguments do not decode.
LEMMA StartKeeps ==
    ASSUME IInv, NEW i \in Item, Start(i)
    PROVE  IInv'
<1>1. /\ result = "none" /\ level > Len(filters) /\ kind # "batch"
      /\ i \in batch \ seen
      /\ kind = "direct" => \A j \in Item : stage[j] # "running"
      /\ seen' = seen \cup {i}
      /\ UNCHANGED <<invocation, kind, filters, level, batch, accepted>>
  BY DEF Start, Serving, Current, input
<1>2. stage[i] = "none" /\ i \notin Dropped /\ resp[i] = None
  BY <1>1 DEF IInv, TypeOK, Calls, Dropped, Untouched
<1>3. Filtered'
  BY <1>1 DEF IInv, TypeOK, Filtered, PassesFirst
<1>4. Dropped' = Dropped
  BY <1>1 DEF IInv, TypeOK, Dropped
<1>5. CASE invocation[i].conforms
  <2>1. /\ stage' = [stage EXCEPT ![i] = "running"]
        /\ called' = called \cup {i}
        /\ UNCHANGED <<resp, lost, result>>
    BY <1>5 DEF Start
  <2>2. TypeOK'
    BY <1>1, <2>1 DEF IInv, TypeOK
  <2>3. Rejected'
    BY <1>1, <1>4, <2>1 DEF IInv, Rejected, FirstRejects, PassesFirst
  <2>4. Untouched'
    BY <1>1, <1>4, <2>1 DEF IInv, TypeOK, Untouched
  <2>5. Calls'
    BY <1>1, <1>5, <2>1 DEF IInv, TypeOK, Calls
  <2>6. Runs'
    BY <1>1, <1>5, <2>1 DEF IInv, TypeOK, Runs
  <2>7. Undecoded' /\ Succeeds'
    BY <1>1, <2>1 DEF IInv, TypeOK, Undecoded, Succeeds
  <2> QED
    BY <1>3, <2>2, <2>3, <2>4, <2>5, <2>6, <2>7 DEF IInv
<1>6. CASE ~invocation[i].conforms
  <2>1. PICK v \in Receipt \cup {None} :
            /\ Recorded(i, v)
            /\ v # None => \/ v.out = "Arguments"
                           \/ kind = "each" /\ v.out = "HandlerExecutionError"
            /\ v = None => IF kind = "each" THEN i \in lost' ELSE result' \in {"short", "long"}
    <3>1. CASE /\ resp' = [resp EXCEPT ![i] = Failure(i, "Arguments")]
               /\ stage' = [stage EXCEPT ![i] = "done"]
               /\ UNCHANGED <<lost, result>>
      <4>1. /\ Failure(i, "Arguments") \in Receipt
            /\ Failure(i, "Arguments").out = "Arguments"
        BY DEF Failure, Receipt
      <4>2. Recorded(i, Failure(i, "Arguments"))
        BY <1>1, <3>1 DEF Recorded
      <4> QED
        BY <4>1, <4>2, NoneAssumption
    <3>2. ASSUME NEW r \in {"short", "long"}, Return(i, r)
          PROVE  \E v \in Receipt \cup {None} :
                    /\ Recorded(i, v)
                    /\ v # None => \/ v.out = "Arguments"
                                   \/ kind = "each" /\ v.out = "HandlerExecutionError"
                    /\ v = None =>
                          IF kind = "each" THEN i \in lost' ELSE result' \in {"short", "long"}
      <4>1. PICK v \in Receipt \cup {None} : Recorded(i, v)
        BY <1>1, <3>2, ReturnRecords
      <4>2. resp'[i] = v
        BY <4>1 DEF Recorded, IInv, TypeOK
      <4>3. \/ kind = "each" /\ v = Failure(i, "HandlerExecutionError")
            \/ kind = "each" /\ v = None /\ i \in lost'
            \/ kind # "each" /\ v = None /\ result' = r
        BY <1>1, <1>2, <3>2, <4>2, ReturnRecords
      <4>4. /\ Failure(i, "HandlerExecutionError") \in Receipt
            /\ Failure(i, "HandlerExecutionError").out = "HandlerExecutionError"
        BY DEF Failure, Receipt
      <4> QED
        BY <4>1, <4>3, <4>4, NoneAssumption
    <3> QED
      BY <1>6, <3>1, <3>2 DEF Start
  <2>2. called' = called
    BY <1>6 DEF Start
  <2>3. /\ stage' = [stage EXCEPT ![i] = "done"]
        /\ resp' = [resp EXCEPT ![i] = v]
        /\ lost' \in {lost, lost \cup {i}}
        /\ kind = "each" => result' = "none"
        /\ kind # "each" =>
              lost' = lost /\ result' \in {"none", "short", "long", "panic"}
    BY <1>1, <2>1 DEF Recorded
  <2>4. TypeOK'
    BY <1>1, <2>2, <2>3 DEF IInv, TypeOK, Kinds
  <2>5. \A j \in Item \ {i} : resp'[j] = resp[j] /\ stage'[j] = stage[j]
    BY <2>3 DEF IInv, TypeOK
  <2>6. resp'[i] = v /\ stage'[i] = "done"
    BY <2>3 DEF IInv, TypeOK
  <2>7. Rejected'
    <3> SUFFICES ASSUME NEW j \in Dropped
                 PROVE  /\ resp'[j] # None =>
                              \E k \in DOMAIN filters : FirstRejects(j, k)
                                                        /\ resp'[j].out = filters[k][1]
                        /\ result' \in {"none", "nil"} => resp'[j] # None
      BY <1>1, <1>4 DEF Rejected, FirstRejects, PassesFirst
    <3>1. j \in Item \ {i} /\ resp'[j] = resp[j]
      BY <1>2, <2>5 DEF Dropped
    <3> QED
      BY <1>1, <3>1 DEF IInv, Rejected
  <2>8. Untouched'
    BY <1>1, <1>4, <2>2, <2>5, <2>6 DEF IInv, TypeOK, Untouched
  <2>9. Calls'
    BY <1>1, <1>6, <2>2, <2>3 DEF IInv, TypeOK, Calls
  <2>10. Runs'
    BY <1>1, <2>3, <2>5, <2>6 DEF IInv, TypeOK, Runs, Kinds
  <2>11. Undecoded'
    <3>1. \A j \in Item \ {i} : stage[j] = "done" /\ j \notin called =>
              /\ resp'[j] # None =>
                    \/ resp'[j].out = "Arguments"
                    \/ kind = "each" /\ resp'[j].out = "HandlerExecutionError"
              /\ resp'[j] = None => kind = "each" /\ j \in lost'
      BY <1>1, <2>3, <2>5 DEF IInv, Undecoded
    <3> QED
      BY <1>1, <2>1, <2>2, <2>5, <2>6, <3>1 DEF Undecoded
  <2>12. Succeeds'
    BY <1>1, <2>3 DEF Succeeds, IInv, TypeOK, Kinds
  <2> QED
    BY <1>3, <2>4, <2>7, <2>8, <2>9, <2>10, <2>11, <2>12 DEF IInv
<1> QED
  BY <1>5, <1>6
\* A call for a single invocation ends.
LEMMA ReturnKeeps ==
    ASSUME IInv, NEW i \in Item, CallReturns(i)
    PROVE  IInv'
<1>1. /\ result = "none" /\ level > Len(filters) /\ kind # "batch"
      /\ stage[i] = "running" /\ i \in called /\ i \notin Dropped
      /\ UNCHANGED <<invocation, kind, filters, level, batch, seen, accepted, called>>
  BY DEF CallReturns, IInv, TypeOK, Calls, Runs, Dropped, input
<1>2. PICK v \in Receipt \cup {None} : Recorded(i, v)
  <2>1. PICK r \in {"nil", "short", "long", "panic"} : Return(i, r)
    BY DEF CallReturns
  <2> QED
    BY <1>1, <2>1, ReturnRecords
<1>3. /\ stage' = [stage EXCEPT ![i] = "done"]
      /\ resp' = [resp EXCEPT ![i] = v]
      /\ lost' \in {lost, lost \cup {i}}
      /\ kind = "each" => result' = "none"
      /\ kind # "each" =>
            lost' = lost /\ result' \in {"none", "short", "long", "panic"}
  BY <1>1, <1>2 DEF Recorded
<1>4. \A j \in Item \ {i} : resp'[j] = resp[j] /\ stage'[j] = stage[j]
  BY <1>3 DEF IInv, TypeOK
<1>5. stage'[i] = "done"
  BY <1>3 DEF IInv, TypeOK
<1>6. TypeOK'
  BY <1>1, <1>3 DEF IInv, TypeOK, Kinds
<1>7. Filtered'
  BY <1>1 DEF IInv, Filtered, PassesFirst
<1>8. Dropped' = Dropped
  BY <1>1 DEF Dropped
<1>9. Rejected'
  <2> SUFFICES ASSUME NEW j \in Dropped
               PROVE  /\ resp'[j] # None =>
                            \E k \in DOMAIN filters : FirstRejects(j, k)
                                                      /\ resp'[j].out = filters[k][1]
                      /\ result' \in {"none", "nil"} => resp'[j] # None
    BY <1>1, <1>8 DEF Rejected, FirstRejects, PassesFirst
  <2>1. j \in Item \ {i} /\ resp'[j] = resp[j]
    BY <1>1, <1>4 DEF Dropped
  <2> QED
    BY <1>1, <2>1 DEF IInv, Rejected
<1>10. Untouched'
  BY <1>1, <1>4, <1>5, <1>8 DEF IInv, TypeOK, Untouched
<1>11. Calls'
  BY <1>1, <1>3 DEF IInv, TypeOK, Calls
<1>12. Runs'
  BY <1>1, <1>3, <1>4, <1>5 DEF IInv, TypeOK, Runs, Kinds
<1>13. Undecoded'
  BY <1>1, <1>3, <1>4, <1>5 DEF IInv, Undecoded
<1>14. Succeeds'
  BY <1>1, <1>3 DEF Succeeds, IInv, TypeOK, Kinds
<1> QED
  BY <1>6, <1>7, <1>9, <1>10, <1>11, <1>12, <1>13, <1>14 DEF IInv

LEMMA Step == IInv /\ [Next]_vars => IInv'
<1> SUFFICES ASSUME IInv, [Next]_vars PROVE IInv'
  OBVIOUS
<1>1. CASE UNCHANGED vars
  BY <1>1 DEF vars, input, IInv, TypeOK, Filtered, PassesFirst, Dropped, Rejected,
              FirstRejects, Untouched, Calls, Runs, Undecoded, Succeeds
<1> QED
  BY <1>1, AcceptKeeps, RejectKeeps, PassKeeps, SetKeeps, BatchKeeps, StartKeeps,
     ReturnKeeps, EachKeeps DEF Next, Terminated

\* Every behaviour of a handler keeps the inductive invariant.
LEMMA Always == Spec => []IInv
<1> QED
  BY Initially, Step, PTL DEF Spec

-----------------------------------------------------------------------------
(***************************************************************************)
(* The variables of a call keep their types, and the command is called     *)
(* with a part of what the last filter was (server/middleware's chain and  *)
(* execution/response.go).                                                 *)
(***************************************************************************)
THEOREM TypeCorrect == Spec => []TypeOK
<1>1. IInv => TypeOK
  BY DEF IInv
<1> QED
  BY <1>1, Always, PTL

\* A response only holds a receipt for its own task.
OwnReceipts == \A i \in Item : resp[i] # None => resp[i].ran = i

LEMMA OwnStep ==
    ASSUME IInv, OwnReceipts, [Next]_vars
    PROVE  OwnReceipts'
<1> DEFINE Keeps(i) ==
      \E v : resp' = [resp EXCEPT ![i] = v] /\ (v # None => v.ran = i)
<1>1. ASSUME NEW i \in Item, Keeps(i) PROVE OwnReceipts'
  <2>1. PICK v : resp' = [resp EXCEPT ![i] = v] /\ (v # None => v.ran = i)
    BY <1>1
  <2> QED
    BY <2>1 DEF OwnReceipts, IInv, TypeOK
<1>2. \A i \in Item : resp = [resp EXCEPT ![i] = resp[i]] /\ (resp[i] # None => resp[i].ran = i)
  BY DEF OwnReceipts, IInv, TypeOK
<1>3. \A i \in Item : \A name : Failure(i, name).ran = i /\ Success(i).ran = i
  BY DEF Failure, Success
<1>4. ASSUME NEW i \in Item, Reject(i) PROVE Keeps(i)
  <2>1. PICK set \in Issued(resp[i], Failure(i, filters[level][1])) :
            resp' = [resp EXCEPT ![i] = set.receipt]
    BY <1>4 DEF Reject
  <2>2. set.receipt \in {Failure(i, filters[level][1]), resp[i]}
    BY DEF Issued
  <2> QED
    BY <1>2, <1>3, <2>1, <2>2
<1>5. ASSUME NEW i \in Item, Set(i) PROVE Keeps(i)
  <2>1. CASE \E receipt \in {Success(i), Failure(i, "Failed")} :
                \E set \in Issued(resp[i], receipt) : resp' = [resp EXCEPT ![i] = set.receipt]
    <3>1. PICK receipt \in {Success(i), Failure(i, "Failed")} :
                \E set \in Issued(resp[i], receipt) : resp' = [resp EXCEPT ![i] = set.receipt]
      BY <2>1
    <3>2. PICK set \in Issued(resp[i], receipt) : resp' = [resp EXCEPT ![i] = set.receipt]
      BY <3>1
    <3>3. set.receipt \in {receipt, resp[i]}
      BY DEF Issued
    <3> QED
      BY <1>2, <1>3, <3>1, <3>2, <3>3
  <2>2. CASE \E j \in Item : \E receipt \in {Success(j), Failure(j, "Failed")} :
                resp' = [resp EXCEPT ![i] = SetReceipt(resp[i], i, receipt)]
    <3>1. PICK j \in Item : \E receipt \in {Success(j), Failure(j, "Failed")} :
                resp' = [resp EXCEPT ![i] = SetReceipt(resp[i], i, receipt)]
      BY <2>2
    <3>2. PICK receipt \in {Success(j), Failure(j, "Failed")} :
                resp' = [resp EXCEPT ![i] = SetReceipt(resp[i], i, receipt)]
      BY <3>1
    <3>3. \/ SetReceipt(resp[i], i, receipt) = resp[i]
          \/ SetReceipt(resp[i], i, receipt) = receipt /\ receipt.ran = i
      BY DEF SetReceipt
    <3> QED
      BY <1>2, <3>2, <3>3
  <2> QED
    BY <1>5, <2>1, <2>2 DEF Set
<1>6. ASSUME NEW i \in Item, NEW r \in {"nil", "short", "long", "panic"}, Return(i, r)
      PROVE  Keeps(i)
  <2>1. CASE kind = "each"
    <3>1. CASE r = "short"
      BY <1>3, <1>6, <2>1, <3>1 DEF Return
    <3>2. CASE r = "panic"
      BY <1>3, <1>6, <2>1, <3>2 DEF Return
    <3>3. CASE r \in {"nil", "long"}
      <4>1. resp' = [resp EXCEPT ![i] = resp[i]]
        BY <1>6, <2>1, <3>3 DEF Return
      <4> QED
        BY <1>2, <4>1
    <3> QED
      BY <3>1, <3>2, <3>3
  <2>2. CASE kind # "each"
    BY <1>2, <1>6, <2>2 DEF Return
  <2> QED
    BY <2>1, <2>2
<1>7. ASSUME NEW i \in Item, CallReturns(i) PROVE Keeps(i)
  BY <1>6, <1>7 DEF CallReturns
<1>8. ASSUME NEW i \in Item, Start(i) PROVE Keeps(i)
  <2>1. CASE resp' = resp
    BY <1>2, <2>1
  <2>2. CASE resp' = [resp EXCEPT ![i] = Failure(i, "Arguments")]
    BY <1>3, <2>2
  <2> QED
    BY <1>6, <1>8, <2>1, <2>2 DEF Start
<1>9. ASSUME UNCHANGED resp PROVE OwnReceipts'
  BY <1>9 DEF OwnReceipts
<1> HIDE DEF Keeps
<1>10. CASE \E i \in Item : Accept(i) \/ Reject(i) \/ Set(i) \/ Start(i) \/ CallReturns(i)
  <2>1. PICK i \in Item : Accept(i) \/ Reject(i) \/ Set(i) \/ Start(i) \/ CallReturns(i)
    BY <1>10
  <2>2. CASE Accept(i)
    BY <1>9, <2>2 DEF Accept
  <2> QED
    BY <2>1, <2>2, <1>1, <1>4, <1>5, <1>7, <1>8
<1>11. CASE Pass \/ CallBatch \/ BatchReturns \/ EachReturns \/ UNCHANGED vars
  BY <1>9, <1>11 DEF Pass, CallBatch, BatchReturns, EachReturns, vars
<1> QED
  BY <1>10, <1>11 DEF Next, Terminated

(***************************************************************************)
(* A response never holds the receipt of another task, whatever receipts   *)
(* the command offers it (SetReceipt in execution/response.go).            *)
(***************************************************************************)
THEOREM ReceiptsOwn == Spec => []OwnReceipts
<1>1. Init => OwnReceipts
  BY DEF Init, OwnReceipts
<1>2. IInv /\ OwnReceipts /\ [Next]_vars => OwnReceipts'
  BY OwnStep
<1> QED
  BY <1>1, <1>2, Always, PTL DEF Spec

\* An item passes all the conditions if it passes the filters and, for a
\* handler of single invocations, its arguments decode.
LEMMA PassesAll ==
    ASSUME TypeOK, NEW i \in Item
    PROVE  Passes(i) <=> /\ PassesFirst(i, Len(filters))
                         /\ kind # "batch" => invocation[i].conforms
<1>1. CASE kind = "batch"
  BY <1>1 DEF TypeOK, Passes, Conditions, PassesFirst
<1>2. CASE kind # "batch"
  <2>1. /\ Conditions = Append(filters, Arguments)
        /\ DOMAIN Conditions = 1 .. Len(filters) + 1
        /\ \A k \in 1 .. Len(filters) : Conditions[k] = filters[k]
        /\ Conditions[Len(filters) + 1] = Arguments
    BY <1>2 DEF TypeOK, Conditions
  <2>2. Meets(invocation[i], Arguments) <=> invocation[i].conforms
    BY DEF Meets, Arguments
  <2>3. Passes(i) <=> /\ \A k \in 1 .. Len(filters) : Meets(invocation[i], Conditions[k])
                      /\ Meets(invocation[i], Conditions[Len(filters) + 1])
    BY <2>1 DEF TypeOK, Passes
  <2> QED
    BY <1>2, <2>1, <2>2, <2>3 DEF PassesFirst
<1> QED
  BY <1>1, <1>2

\* What a filter is the first to reject, a condition is the first to.
LEMMA FirstOfAll ==
    ASSUME TypeOK, NEW i \in Item, NEW k \in DOMAIN filters, FirstRejects(i, k)
    PROVE  ~Passes(i) /\ IsFirstRejecting(i, filters[k][1])
<1>1. /\ k \in DOMAIN Conditions /\ k \in Nat
      /\ \A l \in 1 .. k : Conditions[l] = filters[l]
  BY DEF TypeOK, Conditions
<1>2. \A l \in 1 .. k - 1 : Meets(invocation[i], Conditions[l])
  BY <1>1 DEF FirstRejects, PassesFirst
<1>3. Conditions[k] = filters[k]
  BY <1>1 DEF TypeOK
<1> QED
  BY <1>1, <1>2, <1>3 DEF FirstRejects, Passes, IsFirstRejecting

\* What a handler of single invocations cannot decode passes no less than the
\* filters.
LEMMA ArgumentsLast ==
    ASSUME TypeOK, NEW i \in Item, kind # "batch",
           PassesFirst(i, Len(filters)), ~invocation[i].conforms
    PROVE  ~Passes(i) /\ IsFirstRejecting(i, "Arguments")
<1>1. /\ Len(filters) + 1 \in DOMAIN Conditions
      /\ \A k \in 1 .. Len(filters) : Conditions[k] = filters[k]
      /\ Conditions[Len(filters) + 1] = Arguments
  BY DEF TypeOK, Conditions
<1>2. ~Meets(invocation[i], Arguments) /\ Arguments[1] = "Arguments"
  BY DEF Meets, Arguments
<1>3. \A l \in 1 .. (Len(filters) + 1) - 1 : Meets(invocation[i], Conditions[l])
  BY <1>1 DEF PassesFirst, TypeOK
<1> QED
  BY <1>1, <1>2, <1>3 DEF Passes, IsFirstRejecting

\* The items the command was called with have passed everything.
LEMMA CalledPass ==
    ASSUME IInv
    PROVE  called \subseteq {i \in Item : Passes(i)}
<1> SUFFICES ASSUME NEW i \in called PROVE i \in Item /\ Passes(i)
  OBVIOUS
<1>1. i \in batch /\ i \in Item /\ level - 1 = Len(filters)
  BY DEF IInv, TypeOK, Calls
<1>2. PassesFirst(i, Len(filters))
  BY <1>1 DEF IInv, Filtered
<1>3. kind # "batch" => invocation[i].conforms
  BY DEF IInv, Calls
<1> QED
  BY <1>1, <1>2, <1>3, PassesAll DEF IInv

(***************************************************************************)
(* The command is called with invocations that pass every check and whose  *)
(* arguments decode, with all of those if the handler succeeds, and with   *)
(* none once a rejection could not be recorded (middleware.go's chain,     *)
(* binding's decoding and NewRoute).                                       *)
(***************************************************************************)
THEOREM ServesAll == Spec => []ServesAccepted
<1>1. ASSUME IInv, result = "nil", NEW i \in Item, Passes(i)
      PROVE  i \in called
  <2>1. PassesFirst(i, Len(filters)) /\ (kind # "batch" => invocation[i].conforms)
    BY <1>1, PassesAll DEF IInv
  <2>2. PassesFirst(i, level - 1)
    BY <1>1, <2>1 DEF PassesFirst, IInv, TypeOK
  <2>3. i \in batch
    BY <1>1, <2>2 DEF IInv, Filtered
  <2> QED
    BY <1>1, <2>1, <2>3 DEF IInv, TypeOK, Succeeds, Calls
<1>2. IInv => ServesAccepted
  BY <1>1, CalledPass DEF ServesAccepted
<1> QED
  BY <1>2, Always, PTL

(***************************************************************************)
(* An invocation that is not served keeps the failure of the first check   *)
(* it does not pass: nobody past that check has its response (middleware's *)
(* filter and execution/response.go).                                      *)
(***************************************************************************)
THEOREM RejectionsStand == Spec => []FirstRejectionStands
<1>1. ASSUME IInv, NEW i \in Item \ called
      PROVE  /\ resp[i] # None =>
                   /\ ~Passes(i)
                   /\ \/ IsFirstRejecting(i, resp[i].out)
                      \/ /\ kind = "each" /\ IsFirstRejecting(i, "Arguments")
                         /\ resp[i].out = "HandlerExecutionError"
             /\ result = "nil" => resp[i] # None
  <2>1. CASE i \in Dropped
    BY <1>1, <2>1, FirstOfAll DEF IInv, Rejected
  <2>2. CASE i \notin Dropped
    <3>1. i \in batch /\ (kind = "batch" \/ stage[i] = "none" => resp[i] = None)
      BY <1>1, <2>2 DEF IInv, Dropped, Untouched
    <3>2. CASE stage[i] # "none"
      <4>1. /\ kind # "batch" /\ ~invocation[i].conforms
            /\ stage[i] = "done" /\ level - 1 = Len(filters)
        BY <1>1, <3>2 DEF IInv, TypeOK, Calls, Runs
      <4>2. PassesFirst(i, Len(filters))
        BY <1>1, <3>1, <4>1 DEF IInv, Filtered
      <4>3. ~Passes(i) /\ IsFirstRejecting(i, "Arguments")
        BY <1>1, <4>1, <4>2, ArgumentsLast DEF IInv
      <4>4. result = "nil" => resp[i] # None
        BY <1>1, <3>1, <4>1 DEF IInv, Undecoded, Succeeds
      <4> QED
        BY <1>1, <4>1, <4>3, <4>4 DEF IInv, Undecoded
    <3>3. CASE stage[i] = "none"
      BY <1>1, <3>1, <3>3 DEF IInv, TypeOK, Calls, Succeeds
    <3> QED
      BY <3>2, <3>3
  <2> QED
    BY <2>1, <2>2
<1>2. IInv => FirstRejectionStands
  BY <1>1 DEF FirstRejectionStands
<1> QED
  BY <1>2, Always, PTL
(***************************************************************************)
(* A task is answered with a success only if it passed every check, the    *)
(* command was called with it and the handler succeeded, whatever the      *)
(* dispatcher makes of the rest (dispatcher.go's runBatch on top).         *)
(***************************************************************************)
THEOREM SuccessesServed == Spec => []SuccessIsServed
<1>1. ASSUME IInv, result # "none", NEW i \in Item,
             Served!Settled(i, result).resp = "Success"
      PROVE  Passes(i) /\ i \in called /\ result = "nil"
  <2>1. Outcome[i] = "Success" /\ result = "nil"
    BY <1>1 DEF Served!Settled, Served!Transient
  <2>2. resp[i] # None /\ resp[i].out = "Success"
    BY <2>1 DEF Outcome
  <2>3. i \notin Dropped
    <3>1. ASSUME NEW k \in DOMAIN filters, resp[i].out = filters[k][1] PROVE FALSE
      <4>1. filters[k] \in Filter
        BY <1>1 DEF IInv, TypeOK
      <4> QED
        BY <2>2, <3>1, <4>1 DEF Filter, Arguments
    <3> QED
      BY <1>1, <2>2, <3>1 DEF IInv, Rejected
  <2>4. i \in called
    BY <1>1, <2>2, <2>3 DEF IInv, TypeOK, Untouched, Undecoded, Calls, Runs
  <2> QED
    BY <1>1, <2>1, <2>4, CalledPass
<1>2. IInv => SuccessIsServed
  BY <1>1 DEF SuccessIsServed
<1> QED
  BY <1>2, Always, PTL

\* Once the handler has ended nobody writes to a response any more.
LEMMA EndedStays ==
    ASSUME IInv, [Next]_vars, result # "none", kind # "direct"
    PROVE  Outcome' = Outcome /\ result' = result
<1>1. \A i \in Item : stage[i] # "running"
  BY DEF IInv, Runs
<1>2. UNCHANGED vars
  BY <1>1 DEF Next, Terminated, Accept, Reject, Set, Start, CallReturns, Pass, CallBatch,
              BatchReturns, EachReturns, Filtering, Serving, Held, IInv, Calls
<1> QED
  BY <1>2 DEF vars, input, Outcome

\* Up to then there is nothing to see, and then it is one call of a batch.
LEMMA ShowsAsCall ==
    ASSUME IInv, [Next]_vars, result = "none"
    PROVE  \/ Outcome' = Outcome /\ result' = result
           \/ Served!CallBatch("route")
<1>1. Outcome = [i \in Item |-> "Empty"]
  BY DEF Outcome
<1>2. CASE result' = "none"
  BY <1>1, <1>2 DEF Outcome
<1>3. CASE result' # "none"
  <2>1. result' \in {"nil", "short", "long", "panic"}
    BY <1>3, Step DEF IInv, TypeOK
  <2>2. Outcome' \in [Item -> {"Empty", "Success", "Failed"}]
    BY DEF Outcome
  <2>3. \E set \in [Item -> {"Empty", "Success", "Failed"}] :
           Outcome' = [i \in Item |-> IF i \in Item THEN set[i] ELSE Outcome[i]]
    <3>1. Outcome' = [i \in Item |-> IF i \in Item THEN Outcome'[i] ELSE Outcome[i]]
      BY <2>2
    <3> QED
      BY <2>2, <3>1
  <2>4. /\ [c \in {"route"} |-> IF result = "none" THEN "calling" ELSE "settling"]["route"]
              = "calling"
        /\ [c \in {"route"} |-> Item]["route"] = Item
    OBVIOUS
  <2>5. [c \in {"route"} |-> IF result = "none" THEN "calling" ELSE "settling"]'
           = [[c \in {"route"} |-> IF result = "none" THEN "calling" ELSE "settling"]
                 EXCEPT !["route"] = "settling"]
    BY <1>3
  <2>6. [c \in {"route"} |-> result]'
           = [[c \in {"route"} |-> result] EXCEPT !["route"] = result']
    OBVIOUS
  <2>7. \E r \in Served!HandlerReturns :
           [c \in {"route"} |-> result]' = [[c \in {"route"} |-> result] EXCEPT !["route"] = r]
    BY <2>1, <2>6 DEF Served!HandlerReturns
  <2>8. UNCHANGED <<[i \in Item |-> "route"], N + 1, [i \in Item |-> "validated"], 0,
                    [c \in {"route"} |-> 0], [i \in Item |-> TRUE], [i \in Item |-> FALSE],
                    [c \in {"route"} |-> Item], [i \in Item |-> FALSE], FALSE>>
    BY DEF Item
  <2>9. Served!Request = Item
    BY DEF Served!Request, Item
  <2>10. Served!CallBatch("route")
    BY <2>3, <2>4, <2>5, <2>7, <2>8, <2>9 DEF Served!CallBatch
  <2> QED
    BY <2>10
<1> QED
  BY <1>2, <1>3

(***************************************************************************)
(* A route is a batch handler as Dispatcher has it: the one step of it     *)
(* that the dispatcher sees sets some outcomes and ends the call           *)
(* (server/middleware, binding and Each behind dispatcher.go's runBatch).  *)
(***************************************************************************)
THEOREM ShowsAsBatch == Spec => ServesAsBatch
<1>1. IInv /\ [Next]_vars
        => [kind # "direct" => Served!CallBatch("route")]_<<Outcome, result>>
  BY EndedStays, ShowsAsCall
<1> QED
  BY <1>1, Always, PTL DEF Spec, ServesAsBatch
=============================================================================
