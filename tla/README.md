# daql in TLA+

TLA+ models of the parts of [mb0/daql](../src) that keep state and are hard to
test, TLC configurations that check them on small instances, and proofs that
TLAPS checks for every instance. The Go code under `src/` is the reference:
every definition names the lines it stands for in `PROJECT.json`, and line
numbers in comments are those of the file in `src/` they name.

Run everything from this directory:

    tlasany Subs.tla                                  # parse a module
    tlc -workers 2 -config MCSubs.cfg MCSubs.tla      # check a model
    tlapm SubsProofs.tla                              # check the proofs

## 1. The system

daql describes project data as *schemas of models* (dom), versions and records
those descriptions (mig), generates Go and SQL from them (gen), queries data
(qry, qalt), and moves messages and events between participants at run time
(hub, evt). These are the parts, the state each keeps and what makes each
correct.

| Part | State | Operations | Hard behaviour | Correct if |
|---|---|---|---|---|
| `hub` (`hub.go`) | queue of messages, list of signed-on connections, one goroutine | sign-on, sign-off, route, stop by a nil message | every send blocks when the receiver's channel is full; participants, timers and websockets run concurrently | a sign-off is answered by exactly one nil message, the last thing a participant gets; nobody waits for ever on a hub that runs |
| `hub.Req` (`req.go`) | a channel for one reply, a timer | post, wait for the reply or the timeout | the answer races with the timeout; the hub may be stopped or busy | it returns; a late reply does not block the hub |
| `hub.RequestMap` (`reqmap.go`) | token -> origin | `Note`, `Response` | answers that never come, come twice or out of order, or carry unknown tokens | a reply reaches its origin once, with the origin's token |
| `hub` routers, services | none | filters on subjects, `Services.Handle` | - | a request is answered at most once |
| `hub/wshub` | websocket, channel and two goroutines per connection | connect, read, write, ping, sign off | the reader can only be ended by closing the websocket, the writer only by a nil message; a client keeps its channel over reconnects | no goroutine outlives its connection; nil messages match the sign-offs, whoever sent them |
| `evt.Subscribers` (`subs.go`) | subscribers by connection and by topic, buffers | `Sub`, `Unsub`, `Show`, `Bcast` | subscribe/unsubscribe/publish/broadcast in any order with any lists | both indexes agree; every wanted event is sent once, in order, to everyone but its publisher |
| broadcast timer (`subs.go`) | latest timer, revision of the latest broadcast | `Btrig`, `Stop` | timers pile up, wait behind a full queue, and are stopped | an event that waits is broadcast, in bounded time |
| `evt` ledger (`ledger.go`) | (application's) | `NextRev` | clocks go back, two transactions in one millisecond | revisions grow |
| `evt` merge (`utl.go`) | none of its own; the arguments of events, which `Merge` changes | `ByID`, `ByRev`, `Collect`, `Merge` | equal revisions in a sort that is not stable, arguments shared with the ledger | the merged action has the effect of all events |
| `mig` history (`history.go`, `manifest.go`, `version.go`) | project file, `manifest.json`, record folders | `ReadHistory`, `Commit`, `Update`, `Diff` | the tool dies between two files; goes on after a file that is incomplete, since errors of closing it are ignored; nodes vanish and come back; edits while the tool runs | a version means one definition for ever; records are sequential; what can be read is continued from its last record |
| `mig` data sets | files | read and write streams | I/O | - |
| `pol` | roles, members, rules | `AddMember`, `Police` | membership is not checked for cycles, the check recurses | every answer is the one the memberships call for; only cycles recurse for ever |
| `dom` | project, schemas, models | read, resolve, `Relate` | - | relations are symmetric |
| `qry` (`resolver.go`, `env.go`) | document: tasks and their selections; which tasks are done | resolve tags, selections, queries; look up `.key`, `..key`, `/name` | modes that stay in force over declarations, references across levels | a selection is what its declarations say; a reference means one row or one result |
| `qry/qrymem` | result literals | filter, select, order, slice, count | sort and slice boundaries at every level | the result is what the document means |
| `qry/qrypgx` | plan: jobs, columns, tables, aliases; one statement for a root task | `Analyse`, `genSelect`, `scanRow` | nested queries become joins and subselects of one statement | the same result; every name in the statement has one meaning |
| `qalt` | the backend's tables, result literals | a second query form: resolve and plan in one pass, execute in the next | tables are sorted in place, also while an outer query goes through them | as `qrymem`; no table loses a row |
| `gen`, `gen/gengo`, `gen/genpg` | writer with a precedence and parameters | write code | parentheses, conversions, parameter numbers | generated text means what the expression means |
| `cmd/daql`, `log` | none | terminal | - | - |

How they interact: participants *send* to the hub's queue and the hub *sends* to
their channels; a router that the application supplies is *called* by the hub's
goroutine and itself calls services, `Subscribers` and the ledger, so everything
of `evt` runs in the hub's goroutine, except the timers, which are goroutines
that send to the hub. `mig` is used by the command line tool only, which talks to
itself through files.

## 2. The modules

| Module | Models | Uses |
|---|---|---|
| `Hub` | the goroutine of `Hub.Run` | |
| `HubConns` | in-process participants, `Req`, the owner that stops the hub | extends `Hub` |
| `WsHub` | `wshub`: handlers and writers of clients and server connections | extends `Hub` |
| `Subs` | what `Subscribers` promises: slices as counts, a broadcast as one step | |
| `SubsSlices` | `Subscribers` with slices, loops and blocking sends | implements `Subs` |
| `BcastTimer` | `Btrig`, `Stop`, timer goroutines, the hub queue and a clock | |
| `History` | `mig`: versions, reading and recording a history | |
| `QryDoc` | query documents and their resolution (definitions) | |
| `QryMem` | the in-memory backend (definitions) | extends `QryDoc` |
| `QryPg` | plan, statement and scan of the PostgreSQL backend; PostgreSQL itself as far as its statements need it (definitions) | extends `QryDoc` |
| `QryAlt` | the query form of `qalt` and its backend by literal (definitions) | extends `QryMem` |
| `Query` | the evaluation of a document in both forms, in memory and by literal, and what selections mean | extends `QryAlt` |
| `QueryMeaning` | what documents mean, which of them a backend supports, and the evaluation by the PostgreSQL backend; for TLC only | extends `Query`, `QryPg` |
| `RequestMap` | `reqmap.go`: forwarded requests and their responses | |
| `EvtMerge` | `utl.go`: sorting, collecting and merging events | |
| `Policy` | `pol`: rules, and the two recursive walks of `Police` | |
| `PgExpr` | `gen/genpg`: the SQL text of expressions, and how it is read | |
| `SubsProofs`, `SubsSlicesProofs` | proofs | extend the module they are about; `SubsSlicesProofs` instantiates `SubsProofs` |
| `QryProofs` | proofs about the resolution of documents, and about both backends of `Query` | extends `Query` |
| `HubProofs` | lemmas about the hub's queue and its sends | extends `Hub` |
| `HubConnsProofs`, `WsHubProofs` | proofs | extend `HubConns` and `WsHub`, and `HubProofs` |
| `EvtProofs` | proofs about merging and about the broadcast timer | extends `EvtMerge`, `BcastTimer` |
| `PartsProofs` | proofs about the request map, the policy and the project history | extends `RequestMap`, `Policy`, `History` |
| `MC...` | instances for TLC; `MCParts` holds the four parts that are on their own | extend their module |

**Hub.** `mque`, `cmap` and `chan` are the fields of `Hub` and the channels of
the connections; a send is the operator `Send`, enabled while there is room, so
"the hub blocks" is "no action of the hub is enabled". `Hub.Run`'s loop body is
not one step: `HubRecv` (take a message, list a sign-on), `HubRoute` (one send of
the router), `HubRouted` (the router returns, a sign-off is taken off the list),
`HubSignoff` (send nil). The router is not part of daql. It is modelled as one
that remembers who signed on and sends a message to any of them in any order, and
answers a request at most once, which is what `Services.Handle` does.

**HubConns.** A participant signs on, sends messages and signs off through the
hub's queue, and takes messages from its channel until it takes a nil. A request
goes through `ReqStart` (make the channel), `ReqPost` (the send, before the timer
is started), and `ReqReply` or `ReqTimeout`. `StopHub` sends the hub a nil
message, as its owner may.

**WsHub.** One handler (`Open`, `SignOn`, `Read`, `Route`, `ReadEnds`, `SignOff`)
for each connection and one writer (`Write`, `Ping`) for each websocket the
connection ever had; `Break` ends a websocket from outside. A client has up to
`MaxSess` websockets over one channel. A server connection signs on and off in
the name of the hub, as `serv.go:31` and `serv.go:34` do. The peer of a websocket may
send any subject, `+` and `-` included: `readMsg` (`conn.go:82-108`) refuses the empty one
only, and `readAll` sends the message on in the name of the connection (`conn.go:55-56`),
although acceptors "are also responsible for sender sign-on and validation"
(`hub.go:52-53`). So the peer of a connection may sign it on and off as well as its handler;
`signed` and `offs` are history variables that record it. A channel may fill up: the
hub then waits in the middle of routing, for ever if no writer is left (`Blocked`).

**Subs / SubsSlices.** A subscriber is an object: `smap` maps a connection to one,
`tmap`/`list` lists them by topic, and `Unsub` without a list forgets the object
in `smap` only, so that a second one is made later while the first one goes on
collecting. `since`, `got` and `sent` are history variables; `since` is the length of the
ledger when a topic was subscribed, and 0 again without subscription. `Publish` is the
whole of what a router does for a publication: the ledger assigns `NextRev` and
`Show` distributes. The refinement mapping of `SubsSlices` (`Abs`) counts the
occurrences in lists and buffers; while a broadcast is under way, a subscriber
that it has not reached yet counts as already updated. `SharedLoopVar` is the one
place where the meaning of the code depends on the Go version: `subs.go:91`
stores the address of a loop variable, which up to Go 1.21 is one variable for
all rounds. The repository is older than that (and has no `go.mod`), so TLC checks
`TRUE`; the proofs are for both.

**BcastTimer.** A publication is only its time here. `timer` and `due` are the
timers in the order `Btrig` made them, `HubPub` and `HubBcast` the router's two
reactions, `Fire` the moment from which `Timer.Stop` comes too late and `Request`
the blocking send of the timer's goroutine. The constants `Delay` and `Window`
are the 200 milliseconds and two seconds of the code.

**History.** `Update` gives the nodes of a project their versions (`NextVersion`
is `manifestVersioner.Version`; hashes are what they are computed from, so two
definitions never collide). The tool is a process: `ReadHistory`, then
`NoChanges` or `Commit`, `WriteManifest`, `MakeFolder`, `WriteRecManifest`,
`WriteRecProject`; at each write it may `Fail`, which leaves the file untouched or
partly written and ends the tool. A write may also succeed and leave less than was written
(`Written`), because `writeFileGz` and `writeFile` ignore the errors of closing the
compressed stream and the file (`dataset.go:282`, `297`): a small compressed file is only
written there, and of a plain one a delayed error is only reported there. The tool then
goes on to the next file. `cut` is a history variable:
`manifest.json` lost its last versions in this way, but not its first. What a partly
written `manifest.json` reads as follows from
`Manifest.WriteTo` and `ReadManifest`: nothing, an error, or the first versions
in the order of their names. `Edit` changes the project file at any time.

**QryDoc, QryMem, QryPg, Query, QueryMeaning.** A query source has a kind, a model, conditions,
tags and declarations; `ResolveQuery` makes a query of it or an error, as
`resolveQuery` does, with `Declared` as the body of the loop in `resolveSel`. Which
arguments are conditions, tags and declarations is decided by `splitDecls` before; the
sources of the model are split as it splits them (`SplitAssumption`: all declarations with a
name come after the first mode, or after a bare symbol among them).
Names and values are numbers where their order matters; a call in an expression is
one injective, monotone function (`Called`), as `('Label: ' .name)` is. `Query`
and `QueryMeaning` execute the tasks of a document one after the other (`ExecTask` and
`ExecJob`, the loops of the two `Exec`), because later tasks may refer to the results of earlier
ones; an error ends the execution. `QryMem` evaluates nested queries for each row.
`QryPg` follows the code through its three representations: jobs with columns and
tables (`JobOf`, with `Join` and `Inline`), the statement (`GenSelect`, where a
name has an alias or none), and the result (`ScanRow`). What a statement means is
PostgreSQL's business: `Valid` and `Rows` evaluate it with nested scopes, products,
`ORDER BY` on output names before input names, `LIMIT`, `OFFSET`, `COUNT(*)` and
`jsonb_agg`, and are marked external. A query task, an address in the code, is the
path of positions that leads to it. `Meaning` says what a document means (`doc.go`)
without loops, jobs or statements: the rows that satisfy the conditions, in the
order of the tags, from the offset to the limit, and for each row the selected
values. Since no order of the rows in a table is promised, a result is right if it
is the meaning for some order of the tables (`Right`).

What recurs into nested queries is written as a function of the queries
(`ResolveQuery`, `MemQuery`, `AltResolve`, `AltQuery`), which `Sources` and `Depth` keep
well-founded, so that `Query` can be proved about; one call for given results of the
nested queries is an operator of its own (`Resolution`, `MemRun`, `AltResolution`,
`AltRun`). `QryPg` and `QueryMeaning` have `RECURSIVE` operators, and no proofs.

**QryAlt.** `qalt` reads the same documents as programs of its own: `AltProgram` is the
first pass, which resolves and plans every query, and `AltTask` executes a job. The
state is more than results, because a query without conditions sorts the list of
its table itself (`orderer.Swap` moves rows along with elements): executing a query
yields a value and the tables as it leaves them, and `data` in `Query` is what the
next job finds. A nested query is planned and executed for every row, so its order
moves the rows that the query around it still goes through; `AltRow` reads the row
that is at its place by then.

**RequestMap.** `Note` counts up and remembers who asked under which token. `Response`
is three steps, because its send may block: look up the request (`Response`), send
(`Send`), forget (`Delete`). Nothing is locked, so one goroutine calls both, and no
other call starts in between; the owners of the connections `Take` at any time.
Responses come in any order, any number of times, with any number.

**EvtMerge.** A ledger accepts events that are legal for the record they concern
(`Legal`, the application's), one to a transaction or several. `SortBy` leaves every
order that the comparison allows, as `sort.Sort` may; `MergeNext` merges the next
event of one signature. The arguments are pointers: event `i` and every action made
from it share `args[i]`, which `MergedArgs` overwrites. A record is a function whose
domain is the fields it has, so records of one signature may differ in optional fields.

**Policy.** `Police` is called once at the end of any sequence of building calls; the
recursion of `allowed` and `denied` is a stack of frames (`Scan`, `Descend`, `Return`),
because nothing keeps roles from being members of each other. Go's stack has room
for `PolDepth` calls here; at the limit the program dies (`overflow`).

**PgExpr.** The writer is a text, a precedence and a list of parameters; `WriteEl` and
the operators under it follow `exp.go` case by case, with `Open` and `Close` as
`Gen.Prec`. `Parse` reads a text as PostgreSQL does (external), `SqlValue` and
`Meaning` evaluate what was read and what was meant for every row and every value of
the parameters. `WriteColumn` and `WriteCondition` are the two places of `genSelect`
that write expressions, with one writer for both.

## 3. What the runs show

| Run | Shows | Bounds |
|---|---|---|
| `MCHubConns` | safety and liveness of hub, participants and a request: `Inv`, the inductive invariant of the proofs, `NilIsLast`, `SignoffInFlight`, `SignedOnListed`, `ReplyNeverBlocks`, `SignoffAnswered`, `ReqReturnsRunning` | 2 participants, 1 request, queue and channels of length 1, 4 messages, the owner may stop the hub |
| `MCWsHub` | `Inv`, the inductive invariant, `ListsSignedOn`, `NilsMatchSignoffs`, `ClientsAnswered`, `WritersEnd`, `SessionEnds` | a client (up to two websockets) and a server connection; 2 websockets in all, 1 message of a peer with any subject; queue of length 2, channels of length 1 |
| `MCWsHub_server_nil` | **violated:** `NilAfterSignoff` (`hub.go:42`) for a server connection | 1 connection |
| `MCSubs` | `Inv`, the inductive invariant of the proofs, and two of its parts by name: `IndexesAgree`, `NothingLost` | 2 connections, 2 topics, 2 keys, 2 subscriber objects, 3 events |
| `MCSubsSlices` | `ImplementsSubs`, `InLedgerOrder`, `WholeTransactions` | the same with 2 events and channels of length 1 |
| `MCBcastTimer` | `UnsentIsTriggered`, `BoundedDelay`, `EventuallySent` | delay 2, window 4, queue of length 1, 5 publications at times up to 8 |
| `MCHistory` | `Inv`, the inductive invariant, `RecordsInOrder`, `VersionsIdentify`, `VersionsGrowByOne`, `RecordsAreWhole`, `ContinuesLastRecord` | 2 models in 2 schemas, 2 definitions, 2 project names, 3 projects to choose from, 3 recordings, any file may fail or be left incomplete |
| `MCHistory_crash` | **violated:** `ManifestOfLastRecord`, the claim of `history.go:100` | the same, 2 recordings |
| `MCHistory_deletion` | **violated:** `DeletionsReported`, the claim of `manifest.go:87` | the same, 1 recording that does not fail |
| `MCQuery` | `SelectionMeaning`, `MemMeaning`, `AltMeaning`, `RowsKept`, `PgMeaning` | 2 models, 3 data sets (one with equal names and unsorted rows, one with a reference to nothing, one with an empty table) of up to 3 rows, ten families of documents |
| `MCParts` | requests: `AnswersOwn`, `WaitsForAnswer`; events: `MergedMeansAll`, `RecreatesStates`; policy: `AnswersRight`, `OverflowsOnlyByCycles`; statements: `SqlMeans` | 2 requesters, 2 tokens, 3 requests, 4 responses, channels of length 1; 2 signatures, 3 events, records with an optional field; 3 names, 1 action, 4 building calls, 3 frames; expressions of depth 2 (arithmetic) and 3 (logic), 2 parameters |
| `MCParts_sql` | **violated:** `SqlAlwaysMeans`, the claim of `pg.go:37` that expressions are translated | the same |

The type invariants of the modules with an `Inv` are its first conjunct; it bounds every
queue and channel, among others. Those of `RequestMap`, `Policy` and `SubsSlices` are
conjuncts of the invariants that are proved, as is that of `EvtMerge`, which is also part
of `MergedMeansAll`. `SelectionMeaning` includes `TypeOK` of
`Query` (limits of single results are one, scalar selections have one task), and
`SqlMeans` says that the writer is back at
precedence 0. `NoEcho`, `SentUpTo`, `AtMostOnce`, `BufferWanted` and the others are
conjuncts of `Inv` of `Subs`.

Why the bounds are enough. *Queues of length one* make every send block as early
as it can, which is what matters about the capacities 128 and 32. In `MCWsHub` the
queue has length two, because a queue of length one that is full blocks the hub at every sign-off
of a server connection, before it can stop; its channels of length one fill up with the
first message that is routed to a failed writer. *One message of a peer* can be a sign-on
or sign-off at any moment of either connection, and the client's second websocket comes
after it. *Two connections* are a publisher and a receiver, and either can be
both. *Two subscriber objects* let a connection be forgotten and come back.
*Two topics* and lists that name one twice reach every branch of the loops.
*Window twice the delay* leaves room for a timer that is replaced, one that is
not, and a second one after it, and *five publications* are enough to replace the
timer at every instant of the window. *Three recordings* allow a node to be
recorded, removed and recorded again, and the *three projects* change a definition, remove
and add a model and rename the project.
*The families of documents* are: single queries with every combination of kind, eleven
lists of tags, three conditions and five selections (`Plain`); all sequences of up to
three out of thirteen declarations (`Selections`); a query below a query in both
directions of the reference (`Down`, `Up`, `UpByCat`), with tags and selections of
its own; three levels (`Deep`), two queries on one model beside each other
(`Beside`), documents of three root tasks that refer to each other, forwards
and backwards (`Several`), queries that order a table while another one, around
or after them, reads it (`Shared`), and orders with equal rows at two levels or by a
computed value with the name of a field (`Ties`). They make joins, subselects of counts, values and
objects, ordered nested lists and aliases with a digit all occur.
*Four responses to three requests* contain a repeated and an unknown one, and
*channels of length one* make `Response` wait. *Three events* are every command
before and after every other, within a transaction and in different ones. *Three
names* and four calls make a chain of three roles, a cycle of two with a third, and a
role that is its own member; three frames are a call for each name. The
*expressions* nest every operator in every other, on both sides.

What a backend supports is stated by `MemSupports`, `AltSupports` and `PgSupports`, so that each
exclusion is visible; the reasons are:

- `qrymem` orders by the first key only (`misc.go:32` says so), and by a key of
  the result; on a scalar selection or another key it returns an error. A key whose
  name stands for another value in the result orders by that value.
- In `qrymem` a descending order turns equal rows round (`misc.go:57` negates the
  comparison, so equal elements are less than each other). One order of the table
  explains the result only if all lists of that model in the query do the same, or
  the keys tell its rows apart (`Consistent`).
- In PostgreSQL a joined query (a `?` that refers to its parent) is an inner join:
  a row without a match vanishes and several matches repeat it, so `Joins` asks for
  exactly one. Its own `asc`, `desc` and `off` are not in the statement at all.
- A query joined below a joined query leaves its table behind (`plan.go:161`), and
  the statement is refused; so nesting goes to two levels here, and to three in
  memory.
- A `?` that does not refer to its parent becomes a subselect, which must have one
  column.
- `COUNT(*)` and `jsonb_agg` of values take `LIMIT` and `OFFSET` as those of the one
  row that they return, and no `ORDER BY` (`PlainAggregate`).
- A list of values at the root (`(*prod.cat _:name)`) is scanned as a single value
  and fails (`exec.go:72`). A single value without a row is an error, too, while
  `qrymem` returns null.
- Values computed in a nested list have no name in the objects of `jsonb_agg`.
- Names that the code writes without an alias, which are those of `ORDER BY` and of
  computed values, are ambiguous when another table has the column (`Unambiguous`).
- A computed column of a joined query is written with the environment of the task
  around it (`genpg.go:85`), where its names mean other columns. `Joins` leaves it out.
- A single value that is a call has no name, which the statement needs as the name of a
  column (`genpg.go:64`).
- The results of expressions among the root tasks are not marked as done
  (`exec.go:28`), so later tasks cannot refer to them.
- `qalt` cannot order by the result of a nested query, and orders by a field of the
  model if the selection has something else under that name (`AltOrders`).
- A query of `qalt` with an empty selection returns whole rows.
- A nested query of `qalt` without conditions sorts the table for everybody. If the
  query around it goes through the same table, it sees some rows twice and others
  never; and a descending order turns equal rows round each time. `AltSupports` asks
  for another table and a definite order; `RowsKept` is checked, and proved, without
  these conditions.

`SqlMeans` is about the expressions that `Supported` describes. The writer goes
wrong for the others, as `SqlAlwaysMeans` shows for the first of them:

- A right operand of `-`, `*` or `/` that has the precedence of the operator loses
  its parentheses.
- The first operand of a comparison is written with the precedence of the operator
  around the comparison, and the others with that of the comparison itself, so a
  condition among them lacks its parentheses.
- A conversion (`con`) of an arithmetic expression converts its last operand.
- An operand that is written to a text of its own (`writeString`) has a copy of the
  writer, and the parameters that are first met in it are lost.
- Several conditions are joined by `AND` without parentheses (`genpg.go:118`), which
  splits an `or` among them.

Observations that are no property, because the repository promises nothing
about them:

- After a failed first recording the first record may have a version above 1
  (the new manifest is taken for the last one, since there is no record to
  compare it with); `RecordsInOrder` says exactly how far above.
- After any other failure between `manifest.json` and the record's manifest
  `ReadHistory` returns an error until somebody repairs the folder by hand.
- Before the first broadcast, and two seconds after the latest one, `Btrig` never
  stops the timer before, so a burst of publications starts a timer each. They are
  harmless (`UnsentIsNewer`: the first one broadcasts all), but they are not the
  "de-duped" request of `subs.go:125` (`OneTimer` does not hold).
- A server connection signs on as the hub, so the hub's list holds the hub, and a peer's `+`
  puts the connection itself there.
- A peer that sends `-` takes its connection off the list while its handler is at work, and
  the nil message that answers it ends the writer and with it the session; the handler's
  sign-off is then answered by a second nil message. A peer that sends `+` signs its
  connection on until a sign-off follows. `ListsSignedOn` says which clients are listed,
  `NilsMatchSignoffs` counts the sign-offs of peers too.
- A client that connects again may lose its new websocket to the nil message of
  the old one; `NilsMatchSignoffs` and `WritersEnd` hold nevertheless.
- A channel whose writer has failed is drained by nobody, unless a client connects again;
  in the meantime it may fill up, and the hub blocks on it, and so does every handler once the
  queue is full. When the queue is full the hub also blocks on itself, as it answers the
  sign-off of a server connection. The code promises nothing for these cases: the liveness properties
  say that a client is answered, a writer ends and a session ends unless the hub has
  stopped or is `Blocked` for ever (`HubGone`), and `Blocked` names just these two.
- The check that nothing follows a `_:name` (`resolver.go:326`) slices the arguments
  of that declaration (`args` of line 312 hides the parameter) with the index of the
  loop: after some declarations it panics, and trailing ones may go unnoticed.
  `Scalar` models it; `Selections` reaches the panic, and the document counts as
  refused.
- A name with a colon or semicolon before the first `+`, `-` or `_` is taken for a tag and
  refused, by both forms (`resolver.go:34` and `261`, `qalt/qry.go:72` and `141`); a bare symbol after a tag
  begins the declarations, and it and the names after it are passed over without an error
  until the first mode. Expressions are added without a look at the names that are
  there. `NewNames` leaves the latter out of `SelectionMeaning`.
- In memory, a symbol in a selection that names an earlier task of the same selection returns
  what that task left, which may be of the row before (`env.go:180-213`). `Value` leaves this
  out and `WellFormed` asks for documents without it (`Scoped`).
- In `Query`, conditions are equalities; other conditions are written by `PgExpr`.
- In `qalt`, `_:` with a query panics, because a query notes itself with the field
  that it is part of, and an unnamed value has none.
- A request to a hub that has stopped blocks for ever once the hub's queue is full,
  because the send (`req.go:34`) comes before the timer, although `req.go:28` says that
  it returns at the timeout. `ReqReturnsRunning` is about a hub that runs.
- A request without a response stays in the request map for ever.
- The events `+`, `-`, `+` of one record are merged to `*`, an update of a record that
  is not there (`Recreated`); the events `-`, `+` of a record that was there are merged to an
  update too, which leaves an optional field that the new record does not have as it was
  (`Narrowed`, the TODO of `utl.go:45`).
- A ledger "can be used to recreate a state at a revision" (`evt/doc.go:16`), but merging
  changes the arguments of the events it is given: where an update is merged into an earlier
  `+` or `*`, the states from that event up to the update can no longer be recreated from
  these events (`Rewritten`). `RecreatesStates` says that all other states can, the current one
  among them; a ledger that hands out copies of its events is not affected.
- Sorted by revision, events of one transaction may change places, as `ByRev` compares
  nothing else and `sort.Sort` is not stable; `InOrder` asks for one event to a
  revision or an order by id.
- The `def` of a group is not looked at, only that of the user's own role.
- The topic lists keep subscribers that `Unsub` without a list has forgotten, and
  their buffers grow without bound.

## 4. Fairness

- *Goroutines run*: weak fairness for each goroutine's next step that can be taken
  without waiting for room in a channel.
- *Blocked senders get their turn*: strong fairness for sends to a channel that
  others send to as well. A Go channel serves its waiting senders first in, first
  out, so a sender is not overtaken for ever.
- *Timers fire*: weak fairness for the timeout of a request, for `Fire` and for
  `Tick`.
- *Receivers receive*: a participant takes what is in its channel (`hub.go:41`
  asks for that); a websocket write succeeds or fails within its deadline.
- *A closed or broken websocket ends its reader*. A reader whose websocket is
  open may wait for ever.

Nothing makes a participant sign on, a websocket break, the owner stop the hub, or
anybody publish.

## 5. What is proved

All theorems hold for every value of the constants that satisfies the modules'
named assumptions, which TLC evaluates on every run.

`SubsProofs` (from `BoundsAssumption`, `InputAssumption`, `NoWatchAssumption`,
`ConnsAssumption`):

- `SubsInvariant`: `Spec => []Inv`. `Inv` is inductive. `NothingLost` and
  `AtMostOnce` alone are not: that an event is not appended twice needs
  `IndexesAgree` (a subscriber is listed once under each topic), that it is not
  sent twice needs `SentUpTo` and `LedgerAhead`, that a new object starts empty
  needs `SubscribersOK`, and that a broadcast cannot be skipped needs
  `LedgerOrdered`.
  There is one lemma for each operation (`SubWithInv`, `UnsubSomeInv`,
  `UnsubAllInv`, `PublishInv`, `BcastInv`) with one step for each conjunct.
- `SubsTypeOK`, `SubsIndexesAgree`, `SubsExactlyOnce`, `SubsBuffers` follow.
- Lemmas about `NextRev`, `Count`, and the ledger's revision.

`EvtProofs`, the broadcast timer (from `TimerAssumption`): `TimerInvariant`, and from it
`TimerTypeOK`, `TimerTriggers` and `TimerBounded`. `BoundedDelay` is not
inductive: the invariant adds `InTime`, that every waiting event has a timer that
is due before its deadline or a broadcast under way. A timer that `Btrig` stops is
replaced by one that is due at most a delay later, and only within the window; a
timer that is not stopped stays. Time cannot pass a timer that is due: what may take
longer is its goroutine's send to a full queue, and that is a broadcast under way. That
`HubBcast` really empties the buffers needs `UnsentIsNewer`, and that in turn
`BcastBehind`.

`EvtProofs`, merging (from `MergeAssumption`: a whole record has a field): `MergeInvariant`,
and from it `MergedMeansAllEvents` (`MergedMeansAll`) and `MergeRecreatesStates`
(`RecreatesStates`), for all signatures, fields, arguments and lengths of the ledger. What has
been merged of a signature must have the effect of the events merged so far, and merging
writes to the arguments of just these events. The invariant `EvtInv` therefore speaks of a
replay of the ledger with the arguments as they are now:

- `PlainOK`: the commands fit the records of this replay, and it ends with the current
  record. An argument that is overwritten gets the fields of a later update early, and
  only updates are in between, so that the records from that update on stay what they
  were (`ReplayMerged`).
- `RecallOK`: the states after the events that no update was carried back over (up to the last
  one merged, `LastOf`) are those that the replay passes through.
- `PartOK` (`Means`): a merged `+` has the record after the last of its events as its
  argument; a merged `*` overrides the first record like the last one does, unless the
  events created the record (`Recreated`); a `-` comes from a last `-`. For an update
  that `-` and `+` are merged to, this is all there is to say, hence `Narrowed`.
- `Straight`: sorted without a descent by id, or by revisions that all differ, the events
  are in the ledger's order (`RisingIsStraight`, from both ends), so `Collect` has each
  signature's events in their order (`Picks`).

The steps are lemmas about any ledger, arguments and actions (`MeansFirst`, `MeansNext`,
`MeansLast`, `PlainNext`, `PartOther`), by induction over rounds with `LeastNat`.

`SubsSlicesProofs` (from `SubsAssumption`, `ChanAssumption`):

- `SlicesInvariant` and `SlicesImplementSubs`: the initial states of `SubsSlices` are
  initial states of `Subs` under the mapping `Abs`, and every step is a step of `Subs`
  or a stutter. `Sub`, `Unsub` and `Publish` map to the step of the same name,
  `Bcast` to the whole broadcast, and its sends (`Update`) and `Take` to nothing.
- The loops over lists, subscribers and buffers are recursive functions of the round. The
  library's induction takes an operator as a parameter, so each fact about a loop is
  an induction by hand: the set of rounds at which the fact fails would have a least
  element (`LeastNat`, from the well-foundedness of `<` on `Nat`). `Times` of a list
  after each round of `Sub`, `Unsub`, `Show` and `filter` is what `Subs` says.
- `SubsProofs` is instantiated under the same mapping, so its invariant holds of the
  slices. With it, `SlicesInLedgerOrder` and `SlicesWholeTransactions` follow from
  `WaitInv`: what a connection was sent and what waits in its buffer are, one after the
  other, a part of the ledger in its order, and no two updates in its channel, nor an
  update and the buffer, have events of one transaction.

`HubConnsProofs` (from `CapAssumption`, `NamesDiffer`, `NilAssumption`,
`ConnsAssumption`): `HubConnsInvariant`, and from it `HubConnsTypeOK`, `HubNilIsLast`,
`HubSignoffInFlight`, `HubSignedOnListed` and `HubReplyNeverBlocks`, for any number of
participants and requests and any capacity above 0. None of them is inductive: `ConnOK`
says for each state of a participant where its sign-on and sign-off may be (queue, the
hub's hands, channel), that there is one of each at most and that they are in this
order; `RequestOK` that a request has one message or one reply at most, so the room for
one in its channel is enough; `RouterOK` that the router sends to those it knows from a
sign-on, or to the request that it handles. `HubProofs` has what both kinds of
participants need: what a queue holds after something was added or taken.

`WsHubProofs` (from `WsAssumption`, `CapAssumption`, `NamesDiffer`, `NilAssumption`):
`WsHubInvariant`, and from it `WsHubNilsMatchSignoffs` and `WsHubListsSignedOn`. The
invariant puts together, for each connection, what the hub's list says and what is still
queued (`Signs`): the last sign-on or sign-off among these is the last one that was sent
(`LastSign`), by the handler or by the peer, over any number of reconnections, and
`HandlerSigns` says which one that is as long as the peer has not sent a sign-off. Nothing
is assumed of what peers send. Lemmas count how often a message
occurs in a queue before and after a step, which is what relates sign-offs to nil
messages.

`PartsProofs`, the history (from `NodesAssumption`, `HistoryAssumption`, `ProjectsAssumption`,
`NoneAssumption`): `HistoryInvariant`, and from it `HistoryRecordsInOrder`,
`HistoryRecordsAreWhole`, `HistoryVersionsIdentify`, `HistoryVersionsGrowByOne` and
`HistoryContinuesLastRecord`, for all models and projects, any number of recordings and
any failures, those that the tool does not notice included. An incomplete manifest of a record
cannot be read, so the history is refused; an incomplete `manifest.json` may be read, and
only its first version is compared with the record. What depends on the versions it has
lost is proved unless that has happened unnoticed (`cut`); the order of the records and
that they are whole does not depend on it. The invariant adds to these properties what
makes them last: about records
that only the last one may be incomplete, that a node's version never goes back and that
it is the same only for the same definition (`Chained`), about the running tool
(`SessionOK`: the session continues the last record) and about `manifest.json`
(`FileOK`: one that can be read is that of the last record, or one version ahead of it,
or what is left of it).

`QryProofs` (from `SentinelsAssumption`, `FieldsAssumption`, `SourcesAssumption`,
`SplitAssumption`, `QueriesAssumption`, `DataAssumption`, `DocsAssumption`), for all
models, documents, tables
and any depth of queries:

- `QueryInvAlways`: `Spec => []QueryInv`, the inductive invariant of an evaluation. What
  was resolved is what the document resolves to, or nothing yet; results are a list that
  is as long as the tasks or shorter, and shorter while an execution goes on.
- `SelectionMeaningAlways` (`SelectionMeaning`, with `TypeOK`): the loops of both
  forms select what the declarations say, each name once. `SelInv` says after each round
  where every task of the selection comes from (a field of the model, or a declaration up
  to here); `NameInv` that the names so far are `SelectedBy` the declarations so far, that
  the mode is the last one set (`ModeAt`), and that no name is there twice. A round that
  ends the loop (a bare `_:name`, an error) keeps it ended. One lemma for each kind of
  round says what it does to the names (`AppendNames`, `RemoveNames`, `WithNames`), and one
  what a declaration changes of what is said (`SaysStep`, `StartStep`, `SelectedStep`).
- `RowsKeptAlways` (`RowsKept`): every table is a rearrangement of what it was, whatever
  the queries of a program do and however they end. Insertion sort makes a bijection of
  places from one of one place less (`ShuffledMore`); an execution of a query without
  conditions leaves the rows of its ordered pairs (`OrderMoves`), and a nested one may have
  moved them before. The invariant of the loop over the rows (`CollectInv`) says that all
  tables are rearranged, and that without conditions there is an element for each row so
  far, so that at the end the ordered pairs are as many as the table's rows, which are
  taken as they are by then (`AltRows`).
- `CountsAgreeWithLists`: in memory, a count is the length of the list that the same
  conditions, offset and limit return (`exec.go:155` computes it on its own).
- `ListsAreOrdered`: in memory, an ordered list is a part of all elements in the order of
  their keys, from the offset to the limit.

Loops and recursion take most of the lemmas. A recursive function is a `CHOOSE`, so
it has to be proved that there is a function which satisfies its equation: for loops by
induction over rounds, for nested queries over `Depth` (`RecursionExists`). The
provers take no operator as a parameter, so both lemmas are about a `Round` or
`Body` that tells all loops of the model apart by the name of a job.

`PartsProofs`, the rest:

- `RequestMapInvariant` (from `RequestMapAssumption`), and from it `RequestsAnsweredOwn`
  (`AnswersOwn`) and `RequestsWait` (`WaitsForAnswer`). That no response reaches
  anyone twice depends on the request being forgotten before the next response is
  looked at: `ReqInv` adds `Noted`, that what waits in the map is what was asked
  under that number, and `Sending`, that a response under way belongs to a request
  that still waits, and whether it is in the channel already. The proof goes over
  what was delivered (channel and received together), which `Take` leaves as it is.
- `PolicyInvariant` (from `PolAssumption`) and `PolicyAnswersRight` (`AnswersRight`),
  for any roles, cyclic or not, and any room on the stack. The invariant of the stack
  (`StackOK`) says that every frame below the top is at the group the frame above it
  is for, and that the groups a frame is done with do not list the action, directly or
  not (`Has` is the least set of names that is closed under membership; `HasSplit`
  takes it apart at a role's groups). So a walk that returns false has seen
  everything.
- `PolicyOverflowsOnlyByCycles`, if there are finitely many names and the stack has room
  for a call of each: a walk that is deeper visits a name twice (the pigeonhole
  principle), and the frames between the two are a path from a name to itself.

Only model-checked are:

- `MemMeaning`, `AltMeaning` and `PgMeaning`. `Meaning` and the conditions of the backends
  recur over documents as `RECURSIVE` operators, which the prover does not support; as
  functions they would still need that no value is taken for `Err`, which the values of
  TLA+, being untyped, do not say of the records and lists that a query builds. The
  theorems above are about what these properties hinge on: selections, orders, offsets,
  limits, counts, and tables that stay whole.
- `SqlMeans`: the SQL text recurs over expressions, and what it means over the text.
- The six liveness properties (`SignoffAnswered`, `ReqReturnsRunning`, `ClientsAnswered`,
  `WritersEnd`, `SessionEnds`, `EventuallySent`), which are out of the prover's reach, as
  is `ENABLED`. Those of `WsHub` end with a hub that has stopped or is blocked for ever.

## 6. Not modelled yet, and why

The plan, in this order:

1. `EvtServ`: `Hub`, `BcastTimer` and `Subs` together, so that a slow subscriber
   delays everybody's broadcast.
2. `Query`: documents with other conditions than equalities, queries on lists of
   another row (`execLocalQuery` of `qalt`), parameters of a document.
3. `Relate` (the relations of models), `WsCodec` (framing of messages), the writers of
   `set` and `apd` in `PgExpr`.

An abstract specification worth stating is an exactly-once ordered feed for 1.

Left out for good: reading and writing of data sets and backups, path and include
resolution, the terminal, logging and the text of generated code (I/O and
formatting); the xelf language (another repository); SQL execution (a database).
