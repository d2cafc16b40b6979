# A TLA+ model of ucantone

ucantone is a Go implementation of UCAN (User Controlled Authorization
Networks): tokens that delegate and invoke capabilities, an HTTP server that
validates and executes the invocations of a request and answers with signed
receipts, a client that sends them, and the DID resolvers the validation rests
on. These modules model the parts of it where control is hard: concurrency,
partial failure, ordering, the decision procedure of the validator, and what
becomes of a token, a policy or an operation that is encoded, carried, decoded
and encoded again. All paths below are relative to the repository.

## 1. Inventory

| component | state it keeps | operations | properties that make it correct |
|---|---|---|---|
| dispatcher (`execution/dispatcher`) | handler table; per `ExecuteAll`: semaphore, wait groups, responses, errors | `Handle`, `HandleBatch`, `Execute`, `ExecuteAll`, `Each` | the cap holds, no slot is lost, a batch is complete, every request is answered, failures isolate, it returns |
| HTTP server (`server/http.go`) | listeners; per request: listener goroutines, receipts, the encoding goroutine | `RoundTrip`, `ServeHTTP`, `ExecuteBatch` | gating listeners gate, observers do not delay, nothing outlives the request, every task is answered |
| middleware, routes (`server/middleware`, `server/route.go`) | per call: the outcome of each invocation | `check`, `Apply`, `NewRoute`, `NewBatchRoute` | a rejected invocation never reaches the command, the others do, and the first rejection stands |
| binding (`binding`) | none | typed handlers over raw ones | arguments that do not decode fail their own task only |
| batch, execution (`execution`, `execution/batch`) | receipts by task | `NewResponse`, `SetResult`, ... | a response is a success only if the command was called |
| client (`client`, `transport`) | a response body it owns | `ExecuteBatch`, `Execute` | the body is closed once on every path; a missing receipt is an error |
| validator (`validator`) | none | `ValidateInvocation`, `ValidateToken`, `Capability` | accepts exactly what the proof chain authorises |
| policy, selector (`ucan/delegation/policy`) | none | `Match`, `Select` | a policy matches what its statements mean, in any order of a map |
| command (`ucan/command`) | none | `Parse`, `Join`, `Proves` | `Proves` is the segment-prefix order |
| container (`ucan/container`) | token lists, de-duplicated by CID | `New`, `Encode`, `Decode`, ... | every token comes out once, as what it went in |
| tokens (`ucan/invocation`, `delegation`, `receipt`, `promise`, `token`, ...) | immutable values | issue, encode, decode | the bytes that were signed are the ones that are verified |
| DIDs and documents (`did`) | documents | relationships, methods | a declared relationship never widens |
| resolvers (`did/resolver`, `did/plc/resolver.go`, `did/web`, `did/key`) | TTL cache, ETag cache | `Resolve` | a document is one the directory served, and recently; the first tier that has one answers |
| PLC operations (`did/plc`) | the operation being made; the directory keeps the log | `NewOperation`, `Last`, `NewOperationFromPrevious`, `Update`, `Deactivate` | no update undoes another, none is published twice, a key always controls the DID |
| keys and signatures (`multikey`, `varsig`, `ucan/crypto`) | keys | sign, verify | cryptographic |
| codecs, generated code, data model (`ipld`, `*_gen.go`, ...) | none | CBOR, DAG-JSON | what is written is read as it was, and has one encoding; what others wrote is understood or refused |

How they interact: `ServeHTTP` -> `RoundTrip` -> codec -> listeners ->
`ExecuteBatch` -> `Dispatcher.ExecuteAll` -> validator -> resolvers, then
middleware -> binding -> the service's handlers -> responses -> receipts ->
listeners -> codec. A client runs the same path from the other end. The hard
behaviours are the goroutines of `ExecuteAll` and of the listeners, the shared
semaphore, a handler that fails, panics or hangs in the middle of a batch,
caches read by concurrent resolutions, several writers of one log over a
network that loses and delays, and two encodings of the same data with limits
that differ between the writer and the reader.

## 2. Plan

The order is that of importance: what executes other people's requests first.

| step | modules | state |
|---|---|---|
| 1 | `Dispatch` (abstract), `Dispatcher`, `DispatcherProofs` | done |
| 2 | `HTTPServer`, composing `Dispatch` | done |
| 3 | `Validator`, `ValidatorProofs` | done |
| 4 | `Resolution` (abstract), `PLCResolver`, `CachedResolver` | done |
| 5 | `Client`, `ClientProofs` | done |
| 6 | `Selector`, `Policy`, `PolicyProofs` | done, without parsing and encoding |
| 7 | `Tiered`: tiers that fail and tiers that do not know a DID; `ResolverProofs`, about it and `CachedResolver` | done |
| 8 | `BatchHandler`: middleware, argument decoding, the typed handlers of `binding` and the responses, as one handler that `Dispatcher` calls; `Each` outside a dispatcher; `BatchHandlerProofs` | done |
| 9 | `PLCOperations`; `PLCDirectory`, composing it with `PLCResolver`; `PLCDirectoryProofs`, about all three | done |
| 10 | `Schemas`, `Codec`, `Tokens`: the two encodings, tokens and containers | done |
| 11 | `HTTPServerProofs` | done |
| 12 | `CachedResolver` over `PLCResolver`, one staleness bound for two caches in a row; nested uses of `Each`; a caller that retries after a lost response | open |

Theorems still worth proving: the round trips of `Codec`, once its operators
are recursive functions as those of `Selector` are, and the composition of the
two caches. `Validator` takes a policy as the set of the arguments it matches;
`PolicyProofs` says what that set is for the policies of `Policy`, and a module
that instantiates the one with the other would join the two.

## 3. How the modules correspond to the code

Variables are named after the Go variables they stand for, and each comment at
a variable says which. Operators marked `\* A bug:` are not part of any
specification: each is a plausible mistake in the operator that follows it,
kept as evidence that the property it breaks is about that operator.
`Terminated` is the stutter of a finished run, so that TLC's search for
deadlocks finds the ones that are. Deadlock is checked except in `plc` and
`values`: there the clients stop at a bound, and a value that was read back
has nowhere to go.

### Dispatcher

`Dispatcher` is one `ExecuteAll` call: the admission loop (`Admit`), a
goroutine per validation (`Validate`, `ReleaseValidation`, `FinishValidation`:
the deferred release of the slot and `Done` are steps of their own), a runner
per command (`StartBatch` after `g.validated.Wait()`, `CallBatch` and
`SettleBatch`), for a handler wrapped by `Each` the loop that takes a slot per
invocation (`StartCall`), its goroutines (`Call`, `FinishCall`) and the joined
result (`EachReturn`), and `Return`. `slots` is the length of the channel
`r.slots`, `pending[c]` the counter of a wait group, `resp` and `err` are the
slices that `ExecuteAll` returns. `Execute` is the case N = 1.

The handler of a command is one step of its own here; `BatchHandler` is what
happens in it.

Handlers, validation and the size of an error's message are choices of the
environment: a handler answers any of its tasks in any way and then returns
nil, an error that fits in a receipt, one that does not (`ErrorModel` refuses
strings of more than 8192 bytes), or panics. `JoinLimit` is the number of
joined errors that is too long for one receipt.

`Dispatch` is the promise: requests are judged once and in any order, a
command's handler is called at most once and with all of its valid requests,
and a batch is answered together. `KeepsPromise` is `Dispatch!Spec` under the
refinement mapping at the end of `Dispatcher`. `HTTPServer` uses `Dispatch` in
the dispatcher's place.

### HTTP server

`HTTPServer` is one request through `ServeHTTP` and `RoundTrip`; requests share
only the handler table, which is filled before. `Gate`, `GatePanics` and
`GateEnds` are the loop over gating listeners, `Start` the goroutines of the
observing ones, `Observe(l)` each of these, `Execute` a step of `Dispatch` with
the addressed invocations, `Gather` the receipts by task (`batch.NewResponse`
keeps the first) and whatever receipts the handlers have attached as metadata
(`attached`, of tasks in `Attachable`), `Await` the wait for the observers,
`Emit*` the response listeners, `Encode` the start of the goroutine that
encodes into the pipe, and `Copy` and `Close` what `ServeHTTP` does with it,
when the client stays and when it leaves. A panic goes to `Unwind`, where the
deferred wait for the observers is.

### Batch handler

`BatchHandler` is one call of the handler that a route gives to the dispatcher
(`server/route.go`): the checks of `server/middleware`, outermost first, each a
loop over the batch (`Accept`, `Reject`, `Set`: `middleware.go:105`), the
decoding of arguments, which for a batch handler is one more such loop
(`binding/handler.go`), and then the command (`CallBatch`, `BatchReturns`), or
one call for each invocation under `Each` (`Start`, `CallReturns`,
`EachReturns`), concurrent inside a dispatcher and in turn outside one. What a
handler records goes through `SetResult` and `SetReceipt` of
`execution/response.go`, where issuing the receipt may fail: `lost` are the
items for which that happened. `Served` hides the chain, and `ServesAsBatch`
says that the call is what `Dispatcher` takes it for: the outcomes of a batch
appear as the answers of one handler.

### Validator

`Validator` is `ValidateInvocation` with the operations it calls: for the
invocation (`at` = 0) and then each proof in order, resolve the issuer's
document, try its endorsed methods one by one in any order (`Try(m)`, a Go
map's), check the time bounds, then gather the proofs or `Link` the proof to
its predecessor and merge its capability. `cancelled` is the request's context,
which may be cancelled at any moment; a factory that makes a verifier may also
be cut off by a deadline of its own. Signatures are the key that made them, a
policy the set of arguments that it matches, and a document's resolution is a
function for the length of a call. `Authorized` says the same without order:
every token is signed by an endorsed method that is neither expired nor
revoked, in time, and every proof for itself grants the invocation.

### Resolvers

`Resolution` is what `did.Resolver` promises to its callers: the document
returned was current at some time between the call and the return.
`PLCResolver` is `Resolve` of `did/plc/resolver.go` by several goroutines with
one cache, against a directory that changes at any moment, answers conditional
requests and may leave out ETags; `NeverStale` is `Resolution`'s specification.
`CachedResolver` is `did/resolver/cached.go` over any such resolver, with
go-cache's rule that an item is expired when now is *after* its expiration and
that a time to live of 0 means none. Time is discrete; `Timeout` bounds one
call of the wrapped resolver, which is an assumption on that resolver.

### PLC operations

`PLCOperations` is several users of `plc.DirectoryClient` with one DID: `New`
makes the genesis operation, `FetchLast` reads the log's last operation,
`Derive` and `DeriveTombstone` build and sign the next from it with every
option of `did/plc/types.go`, `Post` sends it and `GiveUp` is a request
whose answer did not come. `wire` holds the requests that are still on their
way, so that `Take` may follow `GiveUp`. The client itself does not retry; its
caller may, with the operation it has or from a new `FetchLast`. The directory
is external and modelled from what `did/plc` expects of it: it takes an
operation that follows the last one, is signed with one of that one's rotation
keys and may be built on it (`Take`, else `Refuse`). `PLCDirectory` puts those
writers and the readers of `PLCResolver` at the same directory: `Publish` is
`Take` together with the new version of the document. The readers are
`plc.Resolver`s of their own: a `DirectoryClient` embeds one, but without the
cache that its options ask for (section 7).

`Tiered` is one `Resolve` of `did/resolver/tiered.go` over any list of tiers.

### Client

`Client` is `ExecuteBatch` by several calls at once. A request is a part of an
array that its caller owns; `AppendContext` is Go's `append`, which writes in
place where the array has room. Then the container is built, sent, decoded, its
listeners called, the receipts matched, and the body closed on every path. The
server behind `RoundTrip` is external; it answers what `TaskAnswered` of
`HTTPServer` promises, and the response may be lost. As there, its handlers
may attach receipts of other tasks, which the client cannot tell from receipts
of its own request's executions.

### Data model, encodings, tokens, containers

The generated encoders and decoders differ in their tables only. `Schemas` has
the tables: for every struct and tuple of the generated files, the fields in
the order in which each encoder writes them, with their names and kinds, what
a nil does ("omitted", "null", "never"), and what each decoder knows. Where the
CBOR and the DAG-JSON of a type differ, their tables do. `Codec` is what the
generated code does with a table (`Marshal`, `Unmarshal` and the operators
before them), and the hand-written codecs: `Any`, `Map`, `Raw`
(`ipld/datamodel`), DIDs, commands, and policies, whose CBOR reader hands the
tuple of an operator the head it expects whatever the input's was (`ReadOne`
over a `Stream`). An item on the wire is a tree, not bytes: number formats and
escapes belong to the libraries. A behaviour writes a value, has it relayed
perhaps by an implementation that reorders fields or adds one, reads it and
writes it again; or begins with what somebody else wrote.

`Tokens` makes delegations, invocations and receipts with their options
(`Delegate`, `Invoke`, `Issue`), decodes them (`Opened`, `FromInvocation`), and
packs and unpacks containers in all seven forms (`Send`, `Pad`, `Receive`);
`SendToken` is a single token's DAG-JSON. A decoder that panics (`Panics`)
takes everything around it with it. Bytes are what they encode, a link is what
it is the hash of, and a signature is the request it was made for, so that
`StillVerifies` compares what was signed with what a reader verifies.

### Policy and selector

`Selector` is `Select` with the Go types of what is selected (a decoded
`[]any`, or the typed list that reflection makes of what it iterated or cut)
and its panics; `Policy` is the loop of `Match`, `MatchStatement` and the
rebuilding of nested statements (`toStatement`). `Holds` is the meaning: a
proposition about the values that a selector denotes. The pattern of `like` is
the set of strings it matches. Bytes are a `[]byte`, which reflection takes for
a list, and so they are a list of the type "byte" in `Selector`; in the meaning
they are a scalar that can be cut and indexed. Booleans, links and big
integers, selector parsing and glob compilation are left out.

Go chooses an order of the keys each time it iterates over a map, so that two
selectors of one statement, or two turns of one quantifier, may meet the same
map in different orders. `Resolve[sel][v]` and `MatchStatement[s][v]` are
therefore sets, one outcome for every way of making all these choices, each
made anew (`Enumerated`, `OneOfEach`); an action takes any of them. `Denotes`
and `Holds` are sets too: what is meant may depend on the orders as well, and a
statement may be both true and false of the same arguments.

Values and statements are trees, built in levels: `ValuesTo[n]` are the values
of at most `n` levels over the keys in `Field`, with all numbers and strings
and lists of any length, and `StatementsTo[n]` the statements of at most `n`.
What the code does recursively are recursive functions on them: `Resolve` on
the segments of a selector, where `Step` is one turn of the loop and `Then`
the rest of it, `MatchStatement` and `Rebuild` on statements. `Depth` and
`Nesting` are any numbers; the code has no such bound but the size of a token.
A map is a function on all of `Field`, `None` where it has no entry. TLC
computes these functions argument by argument and never enumerates the sets.

## 4. What each run checks

| run | instance | distinct states | shows |
|---|---|---|---|
| `dispatcher_safety` | 3 requests over two commands and an unknown one, cap 2 | 276,457 | the safety properties, `KeepsPromise`, `EventuallyReturns`, `OthersProceed` over all interleavings |
| `dispatcher_isolation` | 2 requests, no cap | (violation) | finding 1 |
| `http_server` | 4 invocations, 4 listeners, receipts of 2 tasks to attach | 81,522 | the order of listeners, execution and response; `ServedAndEncoded`, `ObserversDelayNothing` |
| `validator_chains` | chains of at most 2 proofs | 2,875,266 | accepts and rejects exactly `Authorized` |
| `validator_too_early` | chains of at most 1 proof | (violation) | finding 2 |
| `plc` | 2 writers with 4 requests each, 2 readers of two DIDs, logs of at most 3 | 565,236 | no update undone or published twice, the DID always controlled, readers see what was published, `NeverStale` |
| `resolvers` | cached: 2 callers, 3 versions, TTL 2, timeout 1, time up to 6; tiered: up to 3 tiers of 6 | 290,832 | `BoundedStaleness`, `FirstInOrder` |
| `client_safety` | 4 concurrent calls | 12,512 | all receipts or an error with a cause; no body left open |
| `client_chunks` | 2 calls on parts of one slice, with context | (violation) | finding 3 |
| `values` | 1,390 values and 1,064 foreign items; 15 requests, containers of up to 2 tokens; 1,638 policies on 39 arguments | 156,434 | both encodings read and written again, tokens through containers and DAG-JSON, and `Match` against its meaning, outside named cases |
| `policy_top_level` | quantifiers on the top level | (violation) | finding 4 |
| `batch_handler` | 2 invocations, chains of up to 2 of 3 checks | 78,928 | only what passes is served, rejections stand, `ServesAsBatch` |

A run checks what a module can get wrong and a proof does not say of every
instance already; the type invariants are proved (section 6) and not run.

Why the bounds are enough to be interesting:

- Dispatcher: three requests put two in one batch beside a third that competes
  for a slot, in another batch or in none; a cap of 2 has a full semaphore with
  one request still waiting. Both kinds of handler are there;
  `JoinLimit` 2 has errors that fit and errors that do not. All assignments of
  requests to commands are initial states. The theorems cover the rest.
- HTTP server: two gating and two observing listeners, alternating, so that one
  fails after another succeeded and both orders of two observers occur; two
  invocations of one task and one addressed elsewhere. Those are the two tasks
  of which handlers may attach receipts: one that is asked for and one that is
  not.
- Validator: two proofs are the shortest chain with a link between proofs, and
  commands are above, below and beside each other. Bounds lie one second
  before, at and after the validation time. Documents have a rotated, an
  unusable, an expired and a revoked key, and both kinds of relationship. The
  theorems cover longer chains.
- Resolvers: two callers overlap in any way, and three versions let a document
  change twice during a call. In `CachedResolver` the clock runs for twice the
  staleness bound. The theorems cover any number of callers and versions.
- Client: the slices are disjoint in array space in `client_safety`, which is
  the condition under which `AnswersAll` holds; `client_chunks` drops it. One
  context is written into room behind its slice, another one to a copy.
- Policy: connectives two deep, selectors up to four segments, every operator
  and kind of segment, ranges at, before and beyond the ends of lists; bytes,
  and lists of bytes; a map of two entries that is iterated twice in one
  statement, for either order. `Depth` and `Nesting` only bound the functions:
  4 and 5 are above what occurs. The theorems cover every depth, nesting and
  length.
- PLC: two writers interleave fetch, post and answer in any way, three
  operations are a genesis, an update and one that may be a tombstone or the
  other's update, and four requests let each retry. Each writer's changes can
  take the other's key away, or its own. Trouble on the network and readers do
  not go together in the run; `PLCDirectoryProofs` covers them together and
  for any numbers.
- Tiers: three, of every sort that the code has, in every order, repeated or
  not; a DID of each method and a did:web DID that no glob matches.
- Batch handler: two invocations, so that one passes and the other does not;
  two checks, so that one rejects what another let through or would reject.
- Values: limits are small (`MaxLength` 28, `KeyBuffer` 20, `MapLength` 2,
  `MaxBytes` 28), in the order of the code's (8192, 2048, 4096, 2 MiB), and
  for each there is data at and beyond it. Every type of `Schemas` occurs with
  all its fields, with as few as there may be, and as others may write it: a
  field left out, null, or of the wrong kind. Two tokens in a container show
  order and duplicates (`MaxBox` 2).

With `OwnCodec` = TRUE, an `HTTPClient` whose codec is the caller's own and
whose containers are not `HTTPResponseContainer`s returns an error without
closing the body (`client/http.go:46`), so `BodiesReleased` is a property of
the default codec; no run sets it.

## 5. Fairness

`GoroutineFairness` is weak fairness of each goroutine's own step: the Go
runtime runs every goroutine that can run, and none of these steps can be
disabled for ever by another that keeps taking turns, because slots are taken
finitely often. It says nothing of the handlers: `HandlersReturn` is a
hypothesis of `EventuallyReturns`, and `OthersProceed` holds without it.
`ServerFairness` is the serving goroutine, the encoder, and `ExecuteAll`, which
`EventuallyReturns` shows to return; the observing listeners' returning is the
hypothesis of `ServedAndEncoded`, and `ObserversDelayNothing` holds without it.
The handlers behind `Execute` are taken to return there. The other modules
state safety only.

## 6. What is proved

TLAPS checks these for every value of the constants that their assumptions
allow (`ASSUME`s of the modules: finitely many commands, caps and counts that
are natural numbers, and values such as `None` that are distinct from the
data).

| module | theorems |
|---|---|
| `DispatcherProofs` | `TypeCorrect`, `SlotsCorrect`, `CapCorrect`, `BatchesComplete`, `AllAnswered`, `SuccessesComplete`, `FailuresStay`, `EachIsolatesIssued`; `Implements`: `Spec => KeepsPromise` |
| `BatchHandlerProofs` | `TypeCorrect`, `ReceiptsOwn`, `ServesAll`, `RejectionsStand`, `SuccessesServed`; `ShowsAsBatch`: `Spec => ServesAsBatch` |
| `HTTPServerProofs` | `TypeCorrect`, `AwaitsListeners`, `KeepsPhases`, `ReportsFailures`, `AnswersTasks` |
| `ClientProofs` | `TypeCorrect`; `Answers`, `Fails` and `ReleasesBodies`, each under its hypotheses |
| `ValidatorProofs` | `TypeCorrect`, `AcceptCorrect`, `RejectCorrect` |
| `PLCDirectoryProofs` | of the resolver `TypeCorrect`, `Implements`: `PSpec => NeverStale`; of the log `LogTypeCorrect`, `InheritsFromBefore`, `UndoesNothing`, `Controlled`, `PublishesOnce`, `SignsOnTheLog`; `BothKept`: `DSpec => PSpec /\ OSpec`; `SeesPublished` |
| `ResolverProofs` | `StalenessBounded`, for a positive time to live; `FirstAnswers` |
| `PolicyProofs` | `EvaluatedInductive`, `Panics`, `NotWidened`, `Accepts` |

So every safety property that a passing run checks is proved, except for the
five of `values` about encodings and tokens.

**Dispatcher.** None of the run's invariants is inductive: that the semaphore's
length counts the holders needs to know that a goroutine releases only what it
took, and that a batch is complete needs that the wait group's counter is the
number of the command's unfinished validations. `IInv` therefore joins to
`TypeOK` what each counter counts (`SlotInv`, `PendingInv`), where the
admission loop is (`QueueInv`), what a runner's state says of its group and
members (`RunnerInv`, `CallInv`), and which receipts belong to which stage
(`VerdictInv`, `AnswerInv`, `ReturnInv`). Each conjunct is preserved by a lemma
of its own, one step per action, from only the conjuncts that it needs. The
action properties and the refinement are proved from `IInv`: every action is
shown to be a step of `Dispatch` or a stutter.

**Batch handler.** The outcomes that a check has recorded are only kept if
nobody behind it writes to the same place. `IInv` therefore says, for the place
the chain has come to, that the batch is exactly what all filters before let
through (`Filtered`), that what was dropped holds the failure of the first
filter it does not pass, unless issuing that failed and the chain is on its way
out (`Rejected`), that everything else is untouched until its own call
(`Untouched`), and what the command has been called with under each of the
three kinds of handler (`Calls`, `Runs`, `Undecoded`, `Succeeds`). The
properties speak of the conditions of the whole chain, the invariant of a
number of filters passed; they meet when the last is past (`PassesFirst`).
`ShowsAsBatch` maps every step to the `CallBatch` of `Dispatcher` or a stutter.
`ReceiptsOwn` has no run of its own: a receipt set on a response is of the
response's task (`SetReceipt`), on which the other theorems rest.

**Client.** The calls share the arrays and nothing else, so that all but one
conjunct of the invariant are about a single call (`Good(c)`: nothing asked for
is left out of the container, the response answers what was executed, what is
returned covers the request, a failure has a cause), and a step of another call
keeps them. The one that is shared is that a call's part of its array is as the
caller has made it (`Unwritten`). It is kept as long as no context falls on the
slice of another request (`Apart`), which the code does not ensure; without it
`client_chunks` has the counterexample (finding 3), and TLC evaluates that the
requests of `client_safety` are `Apart` and those of `client_chunks` are not
(`ApartAssumption` of `MCClient`). `ReleasesBodies` and `Fails` are about
codecs whose containers can be closed (`~OwnCodec`, see section 4);
`ReleasesBodies` holds of overlapping slices too.

**Validator.** The loop invariant says what the tokens behind the index have
been found to be, and that the capability carries the narrowest command and the
common arguments of the proofs so far (`CapInv`). What makes the merge
order-independent is that commands with a common descendant are comparable
(`ParentsCompare`).

**HTTP server.** The run's invariants speak of the end of a request; `IInv`
says what every place on the way leaves behind: that nothing executes or is
observed before the gating loop is over (`Unstarted`, `Gated`), that observers
once started are never idle again (`Observed`), which errors can have been
joined where (`Failing`), that the response listeners are those before the
index (`Encoding`), that the dispatcher's receipts are those of the first
invocation of each task (`Gathered`), and that there are attached ones only
after a handler was called (`Attached`). That there is one for every task needs
a least element of a set of naturals (`FirstOfTask`, by
`WellFoundedInduction`). `AnswersTasks` does not say that a response has one
receipt for each task: the handlers' metadata is the handlers' (section 7).

**PLC resolver.** A cached entry, and an entry that a call has read, belongs to
its DID and was current at some time; a reply is a document that was current
since the call began, or a 304 for an entry that still is (`CacheInv`,
`ReplyInv`, `AskedInv`). No order in which calls write the cache breaks that,
because nothing is returned from it unconfirmed.

**Cached resolver.** A call that is under way has a document no older than its
beginning, and an item was set at most one timeout after its document was last
current (`FetchInv`, `ItemInv`); reading it before its expiry adds the time to
live. With TTL = 0 items never expire and no bound holds, hence the assumption.

**Tiered resolver.** Each tier asked so far has been asked about this DID and
had no document (`TAsked`), and the call ends with what the tier whose turn it
is has said (`TEnded`). That is all the property needs once each kind of tier
is shown to answer "unknown" never for a DID that it serves, "failed" never
from memory, and with a document only for a DID that it serves (`TierServes`).

**PLC operations.** What the log promises depends on what is under way: a draft
is made of an operation that was the log's last when it was fetched, and it is
posted unchanged (`Drafts`, `Fetched`); a request that waits is a draft of its
client's or of one that gave up (`Waiting`); and two operations of the log are
never the same, because each names the one before it (`Linked`, `Distinct`).
So a request that arrives late either still follows the last operation or is
refused, and a success is one operation (`Published`).

That no update is undone rests on what a list of options does to a
configuration: of everything a field may hold, the last option about it
decides, and what no option is about is inherited (`ConfiguredSays`). One
option is a case of eight (`SetsField`, over what `append`, `slices.DeleteFunc`
and the copying and deleting of map entries do: `Concats`, `Deletes`, `Merges`,
`Withouts`); a list of any length needs an induction. The library's induction
theorems take an operator, which the provers cannot instantiate, so `UpTo`
states induction over numbers for a *set*, and follows from the existence of a
least element (`WFMin`). The same is used to show that the recursive functions
in `Configured` and `Delete` exist (`Builds`). `ChangesAssumption` says what
the types of the options do: a list of keys or names, or a map.

**PLC directory.** `BothKept` maps a step of the composition to a step or a
stutter of each side, which carries the theorems of the two over to it.
`SeesPublished` is about both: the version of the document is the length of the
log (`Counts`), and the directory says something about a DID only while it is
available, so that whatever an answer was about is an operation of the log that
is no tombstone (`Replies`, `Results`). As nothing in the log follows a
tombstone, no operation up to that one is, and with the resolver's invariant it
is none from before the call.

**Policies.** The invariant of the loop, `Evaluated`, says little: every
statement before the index has a match among its outcomes, and a verdict other
than a match is an outcome of the statement it stopped at. The rest is about
what one statement does, for which the proof goes from recursive functions to
values, selectors, statements and their meaning.

*Induction.* A recursive function is whatever satisfies its equation, if
anything does; that one exists is `Recursion`, for a body that looks at
arguments of a lower rank only. It and `RankInduction` are stated for sets and
functions, not operators, and rest on `LeastOf`. The rank of a value or a
statement is the first level that has it, of a selector its length. Each
recursive definition has a lemma `...Unfolds` that gives back its equation and
its type, and all later proofs use those.

*Panics.* A selector that neither cuts nor meets a null in a list cannot
panic, whatever it iterates (`UncutResolves`), and one that neither iterates
nor cuts finds only decoded values in decoded ones (`WholeResolves`). Both are
`ResolveWithin`: all outcomes of a selector stay in a set that those of its
segments stay in. `NoPanic` then goes up the statements.

*What a selector denotes.* `Outputs` collects all that a selector reaches,
segment by segment; the code resolves the rest of the selector on each item and
then once more on what it has collected. For every outcome of a selector that
iterates last, if at all, there is a reading with the same choices of orders in
which it denotes the value selected, but for the types of lists, or nothing
where it failed (`Simulates`, `DenotesIs`); that is also why the meaning is not
asked for one order of each map. Values that hold bytes are those of `Sound`,
whose single bytes are in bytes only, and what the selector does with them is
restricted (`Fits`): below an iterator or an index there is none (`Free`). One
that has a field behind an iterator fails or selects nil (`NamesFindNothing`),
because the second pass asks a list for a field.

*Equality.* `reflect.DeepEqual` sees the Go types of lists, the meaning does
not. Decoded values are equal as soon as they are equal without types
(`PlainCanonic`), by induction over their structure. What is selected from
them was decoded, or is a list that was iterated or cut: the last conversion
gives it the type the decoder would have given, unless it is empty
(`FitResolves`). So the comparison is right except for empty lists
(`DeepEqual`), which is what `NoEmptyCut` excludes.

*Statements.* `NotWider` and `AsMeant` go up the statements: every outcome is
matched by a truth value, whichever choices led to it (`ConnectMatch`,
`QuantifiesMatch`), and `FirstOfIs` makes the loops that stop early independent
of the order in which they meet the entries. `Accepts` has no hypothesis but
`Faithful`, whose three parts are named in section 7, and `LeavesBytes`: the
arguments hold no bytes, or no statement iterates, indexes or quantifies.
`NotWidened` has `Positive` and `NamesAfterIterating` instead of `Faithful`,
under which everything that goes wrong rejects.

Only model-checked: liveness and what is `ENABLED`, which are out of the
prover's reach; and `ReadsItsOwn`, `Canonical`, `ReadAsWritten`, `Delivered`
and `StillVerifies`. `Codec` and `Tokens` are written with RECURSIVE operators
over items, tables and blocks, for which tlapm has no SMT backend.

## 7. Where the code and its documents part

1. **`Each` isolates only failures that fit in a receipt**
   (`dispatcher_isolation`). The comment at
   `execution/dispatcher/dispatcher.go:238` says that each call "fails only its
   own task". An error too long for a receipt makes `Each` itself fail, and the
   successes of its siblings become failures. `EachFailsOnlyIssued` is what
   holds, and is proved.
2. **A delegation is not yet valid in the second of its not-before time**
   (`validator_too_early`; `ucan/ucan.go:161`, `validator/validator.go:295`).
3. **A request overwrites what follows its slice** (`client_chunks`;
   `client/client.go:66`). `append` writes the context invocations into the
   caller's array.
4. **A quantifier inside a connective is an error** (`policy_top_level`;
   `ucan/delegation/policy/policy.go:138` and `:295`), so `["and", [["any",
   ...]]]` never matches and `["not", ["any", ...]]` always does.

Further places where `Match` and the meaning part, each a named exclusion in
`AcceptsAsMeant` and each necessary for it: a decoded null under a connective
panics; segments after an iterator are applied a second time to the collected
list, so `.[].a` always fails; an iterated or cut list that is empty is not
equal to `[]`. Slices with a negative or inverted range, and spliced lists with
nulls, panic (`PanicsForCause`). Except under a negation these only reject
more, with one exception: an index, a slice or another iterator behind an
iterator finds something in the collected list, so `.a[][0]` of `[[1, 2], [3]]`
selects 1, where `[1, 3]` is meant, and a policy that asks for 1 accepts it.
`NeverWidened` therefore asks for a field directly behind every iterator that
is not the last segment (`NamesAfterIterating`). The attempt to prove it
without that condition found the case; the run's selectors had none such, and
now do.

Bytes in the arguments are the other exception (`LeavesBytes`), with or without
a negation. They are a `[]byte`, so that an iterator goes over their bytes and
splices bytes that are items (`selector.go:201` and `:215`): `["==", ".a[]",
h'0102']` accepts the list of `h'01'` and `h'02'`. An index yields a Go byte,
which is equal to no number, and `all` and `any` range over the bytes.

The orders of maps belong to the meaning, not to the exceptions:
`["and", [["==", ".a[]", [1, 2]], ["==", ".a[]", [2, 1]]]]` may match a map of
1 and 2, since Go iterates over it twice, and may be refused, and `Holds` has
both.

The same holds of the encodings. These are named in the properties of `Codec`
and `Tokens`, each necessary for them:

- `Any` and `Map` write without a limit what they refuse to read (strings,
  lists and maps beyond 8192), and bytes beyond about 6 KB inside `Any` cannot
  be read from DAG-JSON, where they are base64 in a string (`Unreadable`). The
  2048 bytes of a DID or a command limit only their CBOR.
- A list that begins with nulls and goes on with items of one type, as in
  `[null, 1]`, is written and panics when it is read
  (`ipld/datamodel/any.go:242` and `:414`): the type of the later items is
  taken for that of all (`LedByNull`). So a delegation whose policy compares
  with such a list is issued and then panics the decoder of every container it
  is in, and the DAG-JSON of a token whose arguments hold one cannot be
  written, as they are decoded for it (`ReadsItsOwn`, `ReadAsWritten`,
  `Delivered`, `StillVerifies`).
- The CBOR decoder of `Map` drops the entries whose key is longer than 2048
  bytes (`ipld/datamodel/map.go:86`), and its DAG-JSON takes a map that looks
  like `{"/": ...}` for a link or for bytes, and a big number that fits into an
  int64 for one (`Ambiguous`).
- A receipt of a null result is written and not read: a pointer to a null is
  nil. In a container it comes out as an invocation of `/ucan/assert/receipt`
  (`NullResult`).
- A field that is missing keeps its zero value, which may be one that cannot be
  written; a type that is a constant is read as any text and written as the
  constant; and a dict of more than 4096 entries that was read from DAG-JSON
  cannot be written (`Settled`).
- A policy in CBOR whose statements have too many or too few parts is read as
  another one (`Understood`), and a null where a statement should be panics
  (`policy.go`, `newStatement`).
- The dicts of the generated types are sorted byte by byte in CBOR too, where
  DAG-CBOR wants the shorter keys first (`Canonical`).
  `ucan/envelope/datamodel/envelope.go:14` quotes that all UCANs must be
  canonically encoded; none of the structs of a UCAN has such a dict, PLC
  operations do.
- `ResultModel` is "ok" and "error" in CBOR and "Ok" and "Err" in DAG-JSON.
- `WithNoNonce` after `WithNonce` is ignored. White space around a container
  is tolerated where the container is text.
- The `did/plc` README says that the update example updates the handle;
  `WithAlsoKnownAs` appends to the names. The signature of an operation is
  verified over the type constant, not over the type that was read.

And of receipts and caches:

- `server/http.go:230-244` and `:312-318` add the receipts of the handlers'
  metadata to the response, of any task. A response may thus have a second
  receipt for a task that was asked for, or one for a task that nobody here has
  executed; `TaskAnswered` and `AnswersTasks` say what is sure of the
  dispatcher's receipts. A container is encoded with its tokens in bytewise
  order (`ucan/container/container.go:330`), so which of several receipts for
  a task the client finds first is decided by their bytes, and open in the
  model.
- `plc.NewDirectoryClient` (`did/plc/client.go:24`) takes every `Option` and
  drops the cache and its time to live: a `DirectoryClient` resolves without
  one.
- A call whose receipts cannot all be issued discards those that were
  (`execution/dispatcher/dispatcher.go:201`): the client learns nothing of what
  was executed. No document says otherwise.

## 8. Not modelled

- Keys and signatures: cryptography and its byte encodings, of which TLC could
  tell nothing apart that the models need.
- The byte level of CBOR, DAG-JSON, gzip and base64, which belongs to
  libraries; big integers beyond 256 bytes; inputs with a key twice in a map.
- The syntax of DIDs, commands, selectors, patterns and URLs: a string parses
  or it does not. The JSON of DID documents.
- The builders, accessors and options that only forward their arguments:
  `binding`'s `Invoke`, `Delegate` and `Unpack`, the statement builders of
  `policy`, the request and response options of `execution`.
- The directory's own recovery rule (a fork within 72 hours signed by a key of
  higher rank), which no client here makes use of.
- A caller's retry after a lost response (`client/client.go:83`): the client
  does not retry, and what a second execution does is up to the handlers.
- Whether a validation failed for good or only for now
  (`execution/dispatcher/dispatcher.go:413`): the code makes no difference.
- A handler under `Each` that runs an `Each` of the same run
  (`execution/dispatcher/dispatcher.go:264`): none of the repository's does.
- A cancelled context inside `ExecuteAll`: it reaches only handlers and
  validation, whose failures are modelled.
