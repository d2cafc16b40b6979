--------------------------- MODULE PLCOperations ---------------------------
(***************************************************************************)
(* The log of a did:plc DID, written by several holders of its keys        *)
(* through plc.DirectoryClient (did/plc): each fetches the last operation, *)
(* derives the next one from it, signs it, posts it, and after an error    *)
(* posts it again or starts over.  Requests and answers get lost, and a    *)
(* request that its client gave up on may still reach the directory.       *)
(*                                                                         *)
(* The directory is external: it takes an operation that names the last    *)
(* one of the log and is signed with one of that one's rotation keys.  A   *)
(* CID is what it is the hash of, a signature its key and what it is over. *)
(***************************************************************************)
EXTENDS Naturals, Sequences, SequencesExt

CONSTANTS
    Client,
    Founder,    \* the client that creates the DID
    Key,
    KeyOf,      \* the key each client signs with
    Changes,    \* lists of options
    MaxLog,     \* bound on the length of the log
    MaxTries,   \* bound on the requests a client makes
    Unset

\* What an operation says of the DID, in slices and in maps.
Fields == {"keys", "aka", "methods", "services"}

Slices == {"keys", "aka"}

IsSlice(value) == value \in Seq(ToSet(value))
IsMap(value) == value = [x \in DOMAIN value |-> value[x]]

WellFormed(field, value) == IF field \in Slices THEN IsSlice(value) ELSE IsMap(value)

ASSUME FounderAssumption == Founder \in Client
ASSUME MaxAssumption == MaxLog \in Nat /\ MaxTries \in Nat
ASSUME ChangesAssumption ==
    \A opts \in Changes :
        /\ IsSlice(opts)
        /\ \A i \in DOMAIN opts : /\ opts[i][1] \in {"+", "-"}
                                  /\ opts[i][2] \in Fields
                                  /\ WellFormed(opts[i][2], opts[i][3])

VARIABLES
    log,      \* the signed operations the directory has taken
    made,    \* the options each of them was made with
    pc,       \* where a client is
    last,     \* the operation it has fetched
    options,  \* the options it builds with
    signed,   \* the operation it posts
    tries,    \* the requests it has made
    wire,     \* the requests that have not reached the directory
    told      \* how its last call ended

ovars == <<log, made, pc, last, options, signed, tries, wire, told>>
-----------------------------------------------------------------------------
\* The options change a configuration: the keys and the names are slices, the
\* methods and the services maps.
Merge(map, with) ==
    [k \in DOMAIN map \cup DOMAIN with |-> IF k \in DOMAIN with THEN with[k] ELSE map[k]]

Without(map, keys) == Restrict(map, DOMAIN map \ keys)

\* A bug: only the first occurrence is deleted.
DeleteFirst(seq, elems) ==
    IF \E i \in DOMAIN seq : seq[i] \in elems
    THEN RemoveAt(seq, CHOOSE i \in DOMAIN seq :
            seq[i] \in elems /\ \A j \in 1 .. i - 1 : seq[j] \notin elems)
    ELSE seq

\* slices.DeleteFunc: every occurrence goes.
Delete(seq, elems) ==
    LET kept[i \in 0 .. Len(seq)] ==
            IF i = 0 THEN <<>>
            ELSE IF seq[i] \in elems THEN kept[i-1] ELSE Append(kept[i-1], seq[i])
    IN  kept[Len(seq)]

WithRotationKeys(cfg, keys) == [cfg EXCEPT !.keys = @ \o keys]
WithoutRotationKeys(cfg, keys) == [cfg EXCEPT !.keys = Delete(@, ToSet(keys))]

WithAlsoKnownAs(cfg, names) == [cfg EXCEPT !.aka = @ \o names]
WithoutAlsoKnownAs(cfg, names) == [cfg EXCEPT !.aka = Delete(@, ToSet(names))]

WithVerificationMethods(cfg, map) == [cfg EXCEPT !.methods = Merge(@, map)]
WithoutVerificationMethods(cfg, map) == [cfg EXCEPT !.methods = Without(@, DOMAIN map)]

WithServices(cfg, map) == [cfg EXCEPT !.services = Merge(@, map)]
WithoutServices(cfg, map) == [cfg EXCEPT !.services = Without(@, DOMAIN map)]

\* An option: <<sign, field, its argument>>.
Option(cfg, opt) ==
    CASE opt[2] = "keys" ->
            IF opt[1] = "+" THEN WithRotationKeys(cfg, opt[3]) ELSE WithoutRotationKeys(cfg, opt[3])
      [] opt[2] = "aka" ->
            IF opt[1] = "+" THEN WithAlsoKnownAs(cfg, opt[3]) ELSE WithoutAlsoKnownAs(cfg, opt[3])
      [] opt[2] = "methods" ->
            IF opt[1] = "+" THEN WithVerificationMethods(cfg, opt[3])
            ELSE WithoutVerificationMethods(cfg, opt[3])
      [] opt[2] = "services" ->
            IF opt[1] = "+" THEN WithServices(cfg, opt[3]) ELSE WithoutServices(cfg, opt[3])

\* The options are applied in their order.
Configured(cfg, opts) ==
    LET built[i \in 0 .. Len(opts)] ==
            IF i = 0 THEN cfg ELSE Option(built[i-1], opts[i])
    IN  built[Len(opts)]

Empty == [keys |-> <<>>, aka |-> <<>>, methods |-> <<>>, services |-> <<>>]

\* What the next operation inherits of one.
Config(op) == [f \in Fields |-> op[f]]

\* The link to the operation before: none, or the CID of a signed operation.
NoLink == <<>>
Cid(e) == <<e>>

\* NewOperation; without a rotation key there is none.
Operation(cfg, prev) ==
    [type |-> "plc_operation", prev |-> prev, keys |-> cfg.keys, aka |-> cfg.aka,
     methods |-> cfg.methods, services |-> cfg.services]

\* A bug: an operation without rotation keys is made like any other.
Buildable(cfg) == TRUE

HasKeys(cfg) == cfg.keys # <<>>

NewOperationFromPrevious(prev, opts) == Operation(Configured(Config(prev.op), opts), Cid(prev))

NewTombstoneFromPrevious(prev) == [type |-> "plc_tombstone", prev |-> Cid(prev)]

Sign(key, op) == [op |-> op, sig |-> [by |-> key, over |-> op]]

Verifies(key, e) == e.sig = [by |-> key, over |-> e.op]

IsTombstone(e) == e.op.type = "plc_tombstone"

-----------------------------------------------------------------------------
Newest == log[Len(log)]

\* Whose keys may sign the next operation: the first one's are its own.
Signers(e) == ToSet(IF log = <<>> THEN e.op.keys ELSE Newest.op.keys)

\* The rules of the directory.
Accepts(e) ==
    /\ IF log = <<>>
       THEN e.op.type = "plc_operation" /\ e.op.prev = NoLink
       ELSE ~IsTombstone(Newest) /\ e.op.prev = Cid(Newest)
    /\ \E k \in Signers(e) : Verifies(k, e)

OInit ==
    /\ log = <<>>
    /\ made = <<>>
    /\ pc = [c \in Client |-> "idle"]
    /\ last = [c \in Client |-> Unset]
    /\ options = [c \in Client |-> <<>>]
    /\ signed = [c \in Client |-> Unset]
    /\ tries = [c \in Client |-> 0]
    /\ wire = {}
    /\ told = [c \in Client |-> "nothing"]

\* A client's call ends with an error, and it has nothing to post.
Errs(c) ==
    /\ pc' = [pc EXCEPT ![c] = "idle"]
    /\ told' = [told EXCEPT ![c] = "error"]
    /\ UNCHANGED <<last, options, signed>>

Draft(c, opts, e) ==
    /\ options' = [options EXCEPT ![c] = opts]
    /\ signed' = [signed EXCEPT ![c] = e]
    /\ pc' = [pc EXCEPT ![c] = "signed"]
    /\ told' = [told EXCEPT ![c] = "nothing"]
    /\ UNCHANGED last

\* New: the founder makes the first operation; a second one would be that of
\* another DID.
New(c, opts) ==
    /\ c = Founder
    /\ pc[c] = "idle"
    /\ signed[c] = Unset
    /\ LET cfg == Configured(Empty, opts)
       IN  IF HasKeys(cfg)
           THEN Draft(c, opts, Sign(KeyOf[c], Operation(cfg, NoLink)))
           ELSE Errs(c)
    /\ UNCHANGED <<log, made, tries, wire>>

\* A bug, with the next: a tombstone is decoded as an operation without keys.
DecodedAsOperation(e) ==
    IF IsTombstone(e)
    THEN [e EXCEPT !.op = Operation(Empty, e.op.prev)]
    ELSE e

\* A bug: the type of the last operation is not looked at.
FetchLastOfAnyType(c) ==
    /\ pc[c] \in {"idle", "signed"}
    /\ tries[c] < MaxTries
    /\ tries' = [tries EXCEPT ![c] = @ + 1]
    /\ \/ Errs(c)
       \/ /\ log # <<>>
          /\ last' = [last EXCEPT ![c] = DecodedAsOperation(Newest)]
          /\ pc' = [pc EXCEPT ![c] = "has last"]
          /\ told' = [told EXCEPT ![c] = "nothing"]
          /\ UNCHANGED <<options, signed>>
    /\ UNCHANGED <<log, made, wire>>

\* Last: the last operation as it is when the directory answers, if nothing
\* fails; a tombstone is an error that carries it.
FetchLast(c) ==
    /\ pc[c] \in {"idle", "signed"}
    /\ tries[c] < MaxTries
    /\ tries' = [tries EXCEPT ![c] = @ + 1]
    /\ \/ Errs(c)
       \/ /\ log # <<>>
          /\ IsTombstone(Newest)
          /\ pc' = [pc EXCEPT ![c] = "stopped"]
          /\ told' = [told EXCEPT ![c] = "deactivated"]
          /\ UNCHANGED <<last, options, signed>>
       \/ /\ log # <<>>
          /\ ~IsTombstone(Newest)
          /\ last' = [last EXCEPT ![c] = Newest]
          /\ pc' = [pc EXCEPT ![c] = "has last"]
          /\ told' = [told EXCEPT ![c] = "nothing"]
          /\ UNCHANGED <<options, signed>>
    /\ UNCHANGED <<log, made, wire>>

\* NewOperationFromPrevious and SignOperation.
Derive(c, opts) ==
    /\ pc[c] = "has last"
    /\ IF HasKeys(Configured(Config(last[c].op), opts))
       THEN Draft(c, opts, Sign(KeyOf[c], NewOperationFromPrevious(last[c], opts)))
       ELSE Errs(c)
    /\ UNCHANGED <<log, made, tries, wire>>

\* NewTombstoneFromPrevious and SignTombstone.
DeriveTombstone(c) ==
    /\ pc[c] = "has last"
    /\ Draft(c, <<>>, Sign(KeyOf[c], NewTombstoneFromPrevious(last[c])))
    /\ UNCHANGED <<log, made, tries, wire>>

\* Update and Deactivate send the request, again after an error if the caller
\* wants it, who may as well start over with Last.
Post(c) ==
    /\ pc[c] = "signed"
    /\ told[c] # "ok"
    /\ tries[c] < MaxTries
    /\ tries' = [tries EXCEPT ![c] = @ + 1]
    /\ wire' = wire \cup {[from |-> c, try |-> tries[c], e |-> signed[c], opts |-> options[c]]}
    /\ pc' = [pc EXCEPT ![c] = "posting"]
    /\ told' = [told EXCEPT ![c] = "nothing"]
    /\ UNCHANGED <<log, made, last, options, signed>>

\* A bug: the status of the answer is not looked at.
AnsweredAlike(m, outcome) ==
    IF pc[m.from] = "posting" /\ tries[m.from] = m.try + 1
    THEN \/ /\ pc' = [pc EXCEPT ![m.from] = "signed"]
            /\ told' = [told EXCEPT ![m.from] = "ok"]
         \/ UNCHANGED <<pc, told>>
    ELSE UNCHANGED <<pc, told>>

\* The directory handles a request; its answer reaches the client that waits
\* for it, if it is not lost.
Answered(m, outcome) ==
    IF pc[m.from] = "posting" /\ tries[m.from] = m.try + 1
    THEN \/ /\ pc' = [pc EXCEPT ![m.from] = "signed"]
            /\ told' = [told EXCEPT ![m.from] = outcome]
         \/ UNCHANGED <<pc, told>>
    ELSE UNCHANGED <<pc, told>>

Take(m) ==
    /\ m \in wire
    /\ Len(log) < MaxLog
    /\ Accepts(m.e)
    /\ log' = Append(log, m.e)
    /\ made' = Append(made, m.opts)
    /\ wire' = wire \ {m}
    /\ Answered(m, "ok")
    /\ UNCHANGED <<last, options, signed, tries>>

Refuse(m) ==
    /\ m \in wire
    /\ ~Accepts(m.e)
    /\ wire' = wire \ {m}
    /\ Answered(m, "error")
    /\ UNCHANGED <<log, made, last, options, signed, tries>>

\* A request is lost.
Lose(m) ==
    /\ m \in wire
    /\ wire' = wire \ {m}
    /\ UNCHANGED <<log, made, pc, last, options, signed, tries, told>>

\* The client's timeout, its context, or a connection that breaks.
GiveUp(c) ==
    /\ pc[c] = "posting"
    /\ pc' = [pc EXCEPT ![c] = "signed"]
    /\ told' = [told EXCEPT ![c] = "error"]
    /\ UNCHANGED <<log, made, last, options, signed, tries, wire>>

ONext ==
    \/ \E c \in Client :
          \/ \E opts \in Changes : New(c, opts) \/ Derive(c, opts)
          \/ FetchLast(c) \/ DeriveTombstone(c) \/ Post(c) \/ GiveUp(c)
    \/ \E m \in wire : Take(m) \/ Refuse(m) \/ Lose(m)

OSpec == OInit /\ [][ONext]_ovars
-----------------------------------------------------------------------------
Holds(c) == pc[c] \in {"signed", "posting"}

OTypeOK ==
    /\ log \in Seq(ToSet(log))
    /\ made \in Seq(Changes \cup {<<>>})
    /\ Len(made) = Len(log)
    /\ pc \in [Client -> {"idle", "has last", "signed", "posting", "stopped"}]
    /\ DOMAIN last = Client /\ DOMAIN signed = Client
    /\ options \in [Client -> Changes \cup {<<>>}]
    /\ tries \in [Client -> 0 .. MaxTries]
    /\ \A m \in wire : m.from \in Client /\ m.try \in 0 .. MaxTries /\ m.try < tries[m.from]
    /\ told \in [Client -> {"nothing", "error", "ok", "deactivated"}]
    /\ \A c \in Client :
          /\ told[c] = "error" => pc[c] \in {"idle", "signed"}
          /\ told[c] = "ok" => pc[c] = "signed"
          /\ told[c] = "deactivated" <=> pc[c] = "stopped"

Members(field, value) == IF field \in Slices THEN ToSet(value) ELSE DOMAIN value

\* What a field says of x: that it is not there, or its value in a map.
Says(field, value, x) ==
    IF x \notin Members(field, value) THEN <<>>
    ELSE IF field \in Slices THEN <<x>> ELSE <<value[x]>>

\* The options that are about x, and the last of them.
About(opts, field, x) ==
    {i \in DOMAIN opts : opts[i][2] = field /\ x \in Members(field, opts[i][3])}

LastAbout(opts, field, x) ==
    CHOOSE i \in About(opts, field, x) : \A j \in About(opts, field, x) : j <= i

(***************************************************************************)
(* No update is lost or undone: whoever else writes to the log meanwhile,  *)
(* an operation of it differs from the one before it by what its author    *)
(* asked for and by nothing else.  What the last option about a key, a     *)
(* name, a method or a service adds is there, with its value; what it      *)
(* removes is gone, however often it had been added; and the rest is       *)
(* inherited (operation.go:14).                                            *)
(***************************************************************************)
NothingUndone ==
    \A i \in 2 .. Len(log) : ~IsTombstone(log[i]) =>
        \A field \in Fields :
            LET before == log[i-1].op[field]
                after == log[i].op[field]
            IN  \A x \in Members(field, before) \cup Members(field, after)
                       \cup UNION {Members(field, made[i][j][3]) :
                               j \in {k \in DOMAIN made[i] : made[i][k][2] = field}} :
                    Says(field, after, x) =
                        IF About(made[i], field, x) = {} THEN Says(field, before, x)
                        ELSE LET opt == made[i][LastAbout(made[i], field, x)]
                             IN  IF opt[1] = "+" THEN Says(field, opt[3], x) ELSE <<>>

(***************************************************************************)
(* The DID never gets out of its holders' control: as long as it is not    *)
(* deactivated the last operation has a rotation key, though two clients   *)
(* may each remove what the other one relies on.                           *)
(***************************************************************************)
AlwaysControlled == \A i \in DOMAIN log : ~IsTombstone(log[i]) => log[i].op.keys # <<>>

(***************************************************************************)
(* A call of Update or Deactivate that succeeds has published the          *)
(* operation, once: also when an earlier request for it, which the client  *)
(* gave up on, reached the directory before or after the one it repeats.   *)
(***************************************************************************)
PublishedOnce ==
    \A c \in Client : told[c] = "ok" =>
        \E i \in DOMAIN log : \A j \in DOMAIN log : log[j] = signed[c] <=> j = i

(***************************************************************************)
(* What a client signs follows an operation the directory has taken, and   *)
(* never a tombstone, which Last turns into an error: nobody works on a    *)
(* deactivated DID without being told (client.go:63).                      *)
(***************************************************************************)
FollowsTheLog ==
    \A c \in Client : Holds(c) /\ signed[c].op.prev # NoLink =>
        \E i \in DOMAIN log : signed[c].op.prev = Cid(log[i]) /\ ~IsTombstone(log[i])
=============================================================================
