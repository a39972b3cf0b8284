# etb3 in TLA+

Specifications, model-checking runs and machine-checked proofs of etb3, the
Evidential Tool Bus in C11: a Datalog evaluator with `says`, `speaks_for` and
negation, whose nodes answer each other's queries over TCP and hand over
certificates as evidence. Paths are relative to the root of the repository
(`src/` here holds it, so `src/engine/eval.c` is `src/src/engine/eval.c` in
`PROJECT.json`).

## The system

| component | state it keeps | operations |
|---|---|---|
| evaluator (`src/engine/eval.c`, `negation.c`) | program, relations, trace, `now` | load, run_fixpoint, query, import_answers |
| relations (`tables.c`) | facts by relation key, each with a trace id | add_fact, find |
| trace (`trace.c`) | append-only nodes with rule and premises | append, render |
| matching (`unify.c`), delegation (`delegation.c`), validation (`strata.c`) | none | unify, instantiate, allows, validate |
| parser (`src/core/parser.c`), canonical text (`canon.c`) | a token of lookahead | parse a program, an atom; write an atom |
| CBOR (`cbor.c`), certificates (`cert.c`) | none | encode, decode |
| framed messages (`distributed.c` 467-532, 809-1427) | a connection per call | send, receive, requests and responses |
| capability adapters (`src/runtime/capability.c`), provers (`distributed.c` 700-807) | a child process and its pipes per call | invoke, prove, verify |
| local run (`daemon.c`) | one engine | fixpoint, imports, fixpoint, query, certificate |
| route registry (`distributed.c` 113-184, 349-431, 1370-1547, 2055-2208) | a file of routes per node, rewritten by many processes | start, ingest, announce, pull, resolve, snapshot |
| remote queries (`distributed.c` 1549-1955) | per query: engine, bundles, fetched queries, visited goals | resolve goal and clause dependencies, import bundle |
| accept loop (`distributed.c` 34-41, 2102-2208) | listening descriptor, announcer pid, a process per connection | serve, stop |
| membership (`swim.c`, `peer.c`) | peers with leases | upsert, find, expire |
| signed snapshots, artifact store, telemetry, signers, `etbctl`, the Rust sidecar, the dashboard | files | put, append, sign, prove, show |

How they interact. A query to a node arrives as a framed message and is handled by
a process forked for its connection. The process rewrites the registry file, loads
the node's program into an engine of its own, runs a fixpoint, and walks the rules
that could answer the goal: for each `K says A` in a body it finds an endpoint for
`K` in the manual routes, the registry or at a seed, queries that node, verifies and
imports the certificates and runs the fixpoint again. Adapters are children of the
process that evaluates, provers of the process that answers. The answers and the
trace leave the engine as a certificate, in which atoms are canonical text and are
parsed again by whoever imports it. All processes of a node share one thing, the
registry file, without a lock, and inherit what the main process did with signals;
the evaluator itself is sequential.

What is hard. In the evaluator: the order of passes, clauses, derivations and
imports decides which trace node an atom gets and what negation sees; one atom
can be derived twice in a pass or arrive as an import as well; delegation limits
are reset along a chain; adapters answer anew in every pass and fail in the
middle of one. Between nodes: one query is a chain of processes that wait for each
other, rules of several nodes may need each other, evidence is nested and arrives
by several ways. In the node: read-modify-write of the registry by concurrent
processes, truncation before writing, announcements that are made once, starts
that overwrite what was learnt, a signal between any two steps, a child that talks
while its process does. On the wire: chunks, broken connections, terms that
canonical text cannot carry. `PROJECT.json` lists the hazards line by line with the
properties that cover them.

What makes each correct. Evaluator: only consequences are stored, all of them
when a run ends by itself, and the trace is a proof of each. Relations and
trace: evidence cited once never changes. Delegation: exactly the chains of
live links within their limits. Parser and canonical text: a program is made of the
tokens of its text, and a goal is the same after it was written and read. Messages:
the whole one or a failure. Adapters: success only on the whole reply of a child
that ended well. Registry: a route leads to a node that was published for it, own and
manual routes win, an acknowledged announcement was heard, and every process comes to
an end. Remote queries: an answer follows from the rules of the nodes, and the
bundles that come with it replay it. Accept loop: a signal ends the node and every
connection ends. Membership: an entry is the last word of the latest life of a peer.

## Modules

| module | models | builds on |
|---|---|---|
| `Delegation` | the walk over stored links | |
| `Chains` | abstract: a delegation as a chain of links, without a walk | `Delegation` |
| `Links` | the links an engine stores, one at a time, and the questions asked of them | `Chains` |
| `Datalog` | atoms, unification, matching, validation, and the one-step consequences they are held to | `Delegation` |
| `Derivation` | abstract: a growing set of atoms, each a consequence of earlier ones or imported | `Datalog` |
| `Engine` | one evaluator: program, facts, trace, passes, queries, imports | `Datalog` |
| `Evidence` | what facts, trace nodes and answers of an engine stand for | `Engine`, `Derivation` |
| `Registry` | live nodes: the registry file, the processes that rewrite it, discovery, lookups of a query | |
| `RegistryRace` | `Registry` and whether two processes of a node ever changed its file at a time | `Registry` |
| `Query` | one query across nodes: the walk of each process, calls, nested bundles, imports | |
| `Syntax` | scanner, parser, canonical text | |
| `Wire` | CBOR, certificates, the exchange with adapters, requests and responses | `Syntax` |
| `Channel` | abstract: a call gets its message or, if the connection broke, fails | |
| `Connection` | one framed message, chunk by chunk, over a connection that may break | `Wire` |
| `Children` | adapters and provers as child processes with pipes | |
| `Serve` | the accept loop, handlers, announcer and signals, with the handlers' children | `Children` |
| `Members` | the table of peers with leases | |
| `DelegationProofs`, `LinksProofs`, `EngineProofs`, `RegistryProofs`, `QueryProofs`, `ConnectionProofs`, `ServeProofs`, `MembersProofs` | theorems about the module named, `EngineProofs` also about `Evidence`, `RegistryProofs` about `RegistryRace` | that module, TLAPS; `LinksProofs` and `EngineProofs` also `DelegationProofs` |
| `MCDelegation`, `MCEngine`, `MCRegistry`, `MCRegistryRace`, `MCQuery`, `MCTransfer`, `MCServe`, `MCChildren`, `MCMembers` | instances for TLC and the properties that need a reference computation or a particular network | |

### Delegation and Datalog

`Allows` is `etb_delegation_visit` started at depth 0 with the default limit. The
code tries a direct link first and then every link recursively; a direct link is
also found by the recursion, whose first test is `speaker = target`, so one
disjunction stands for both loops. The recursion is written as a recursive
function of the links not yet visited (`Visit`, with `FirstVisit` and `NextVisit`),
so that it can be proved about. `LimitAfter` keeps the code's rule that a
link's depth *replaces* the limit.

Facts are ground, so unification only binds variables of the pattern. `Unifies`
says when `etb_unify_atom` succeeds, `Bind` what it leaves bound. `Matches` is the
positive branch of `etb_match_literal` as a set, `Refuted` its negative branch.
Strings, integers, symbols and null are all members of `Constants`. Scopes are
abstract: `Covers` says which predicates a scope is a prefix of. A predicate name
stands for a name with an arity.

### Engine

| variable | in the code |
|---|---|
| `program`, `now` | `engine->program` and its capabilities, `engine->now` |
| `facts`, `trace` | `engine->relations` with trace ids, `engine->trace` (ids from 1, not 0) |
| `phase`, `clause`, `pass` | where the control is: idle, in `run_fixpoint`, in `query`, returned false; `clause_index`; `pass_guard` |
| `todo` | the `etb_eval_state`s of the depth-first search that are still to be advanced |
| `derived` | the list `derived` of the current pass |
| `goal`, `answers` | arguments and result of `etb_engine_query` |
| `settled`, `imported`, `runs`, `imports`, `queries` | history, for the properties and bounds |

The code explores the partial solutions of a clause body depth first in the order
of the stored facts. The model keeps them in the set `todo` and advances any of
them. Facts do not change while clauses are evaluated, so the order only decides
the order of trace nodes; the code's order is among those explored, and the
properties hold for all of them. `MatchLiteral`, `NegateLiteral`, `InvokeAdapter`
and `AdapterFails` are the branches of `etb_match_literal`, `Derive` and `Answer` the
ends of a body in a pass and in a query, `NextClause` and `EndPass` the loops of
`etb_engine_run_fixpoint`, `Import` one round of `etb_engine_import_answers`.

`NextClause` counts clauses only: capability declarations, which the code stores
in the same list and skips, are the constant `Capabilities`.

`Evidence` relates the engine's variables to its clauses. `ByClause`, `ByAdapter` and
`ByImport` are the three ways a node gets into a trace: an instance of a clause with one
premise per positive literal, each of which answers its literal, an adapter's reply,
an imported answer. `TraceIsAProof` says that every node is one of them, `Backed` what an
answer rests on, and `SoundDerivation` that the engine implements `Derivation`.

### Registry

| variable | in the code |
|---|---|
| `node` | before `etb_node_serve` or stopped; between truncating and writing the first registry; accepting |
| `file` | `/tmp/etb-registry-<id>.txt`, as the route map that `etb_registry_load` reads out of it |
| `announcer` | the process forked for `etb_discovery_announce_loop`: `announced` and `pulled` are its set `done`, `index` its `task` |
| `conn` | the processes forked for a connection, from `etb_handle_client` down to `etb_send_request` |
| `save` | a process inside `etb_registry_ingest` or `etb_registry_merge_and_save`: what it holds in memory and how far it is |
| `inbox` | the response on the connection a process reads from |
| `queries`, `faults`, `heard` | history, for the bounds and for `AnnouncedWasHeard` |

A rewrite of the file takes three steps, `Load`, `Truncate` (`fopen` with `wb`) and
`Write` (`fclose`), and any other process may take steps in between. The text of a
registry is taken to fit one stdio buffer, so that each is one call. When two
processes have both truncated, the second writes over the first from offset 0,
and an end of the longer text remains, perhaps with the first line cut: `Written`
is the set of what may be left. The model keeps any subset of the old routes and
cuts any name to any of its proper ends (`Torn`), although the lengths of the two
texts admit fewer: properties hold for what the lengths allow as well.

`Call`, `Announce` and `UserQuery` connect and fork a handler at the other node, whose
first act is to rewrite that node's file with what the request carries (`Ingested`).
`Respond` answers all requests but a user's query; for that, `Lookup`, `Call`,
`CallRefused`, `SeedReplies`, `SeedLearnt` and `NoRoute` are the search of
`etb_resolve_discovery_endpoint`, and `TargetReplies` the end. `Announce`, `PassOver`,
`AnnouncerReply`, `TaskDone` and `EndRound` are the announcer's loop. `Start` and `Listen`
are `etb_node_serve` before and after its first save, `Stop` is SIGTERM, which ends
the announcer wherever it is, also after it truncated the file, and leaves the
handlers at work; `Break` is a connection that breaks, before the request was read
or after it.

In `Registry` a query is reduced to the lookup of one principal and the call to the
endpoint found: what happens to the file meanwhile is its subject. What the node asked
does in turn is `Query`, where routes are a given.

### Query

| variable | in the code |
|---|---|
| `world` | the programs, known routes and provers the nodes were started with, how their stored delegations let atoms be read (`reads`), the replies of their adapters |
| `calls[1..depth]` | the processes of one query: the first handles the user's request, each other one the request of the one before, and only the last is at work |
| `stack` | the recursion of `etb_resolve_goal_dependencies`: goal, `clause_index`, `literal_index` |
| `visited`, `fetched`, `bundles` | `visited_goals`, `fetched_queries`, the list of `etb_bundle` |
| `facts`, `passes` | the relations of the process's engine, `pass_guard` of its run |
| `reply` | the bundles of a response that are still to be imported |

Processes of one query share nothing but messages, and one waits while the next
works, so a stack of them is all the interleaving there is. `Enter`, `NextClause`,
`NextLiteral`, `ResolveLocal` and `GoalDone` are the two mutually recursive functions,
`CallNode`, `CallFails`, `ImportBundle`, `ImportFails` and `ImportDone` the remote branch,
`Evaluate` a pass of the fixpoint, `RunOver` its two ends: nothing new, or the last pass
a run may make (`MaxPasses`, 64 in the code), which its caller cannot tell from the first; `Respond` and `NoAnswers` the end of
`etb_execute_query`, `Abort` any early return, which becomes an error response and so an
early return of the caller. `Lost` is a process that is killed, a prover that fails or a
connection that breaks. Atoms are ground; a `says` literal that would keep a variable is
of kind `open` and fails at the node asked, since the text `?X` does not parse (`TermText`
and `ParseAtomText` of `Syntax`). That requests and responses arrive whole or not at all
is what `Connection` implements of `Channel`.

A positive literal, and the goal of a query, is answered by what is stored and by what that is read as: `Read` adds
the head of every reading whose statement and links are stored. Which readings a set of links gives, by
scopes, expiries and depths, is the subject of `Links`; here a deployment has them. Links do not
travel, since a link's text does not parse, so that the readings of a node are its own. A reading is of
stored atoms, never of what is read itself, and a negated literal ignores readings, as in the code. The
walk does not look for the premises of a reading. A capability literal holds if the deployment's adapters reply
with it, the same in every pass; replies that change or fail are in `Engine`, a call that fails is `Lost`.

### Syntax, Wire and Connection

A text is a sequence of pieces: a word is one piece, every other piece one character,
so that the scanner's boundaries are modelled (`:-` inside a word, `-` as a part of
one, quotes, comments, an unterminated string) and the letters of a word are not. Each
parsing operator is one function of `parser.c`, with what it accepts beyond the grammar: a
comma before a closing mark, a missing dot after an atom, a predicate of `says` that is any
token, repeated attributes of which the last counts. Integers stop at `IntMax` as
`strtoll` does, delegation depths wrap at `DepthSize`.

A byte is the first byte of an item, a digit of a number or a piece of a text. The
constants `Immediate` and `ByteSize` scale the encoding of lengths down, so that texts
and arrays of a few pieces need one and two length bytes. Two's complement is modelled
where the code reads negative numbers. Digests are one text: what a digest
covers is not modelled.

`Connection` moves any chunk of `Chunks` at a time, loses what is on its way or not when it
breaks, and decodes when the length it read is there. `Chan` maps it to `Channel`, with `cut` for
`broken`; `sent` and `outcome` are the same.

### Children and Serve

Requests, replies and pipes are counted in units. The process's steps are those of
`etb_capability_invoke` in order: `Spawn`, `WriteUnit` until all is written, `CloseInput`,
`ReadUnit` until `ReadEnd`, `WaitPid`; a prover is only waited for. What a child does is its own
(`reads`: it reads first, last or never) and it may die at any time. `served` says that
the process inherited that SIGCHLD is ignored: then `waitpid` returns an error when the
child is gone.

| variable of `Serve` | in the code |
|---|---|
| `main` | `etb_node_serve`: in `accept`, between `accept` and the end of the loop's body, returned |
| `listening`, `told` | whether `listen_fd` is open, `etb_shutdown_requested` |
| `conn` | a connection as its client sees it: queued by the kernel, accepted, with a handler that receives its request, handled, answered or closed |
| `announcer` | the process `etb_discovery_child_pid` names |

`Terminate` is SIGTERM, which reaches the main process, `Interrupt` SIGINT from a
terminal, which reaches all: handlers inherit the signal handler, so that their reads and
waits for a child fail with EINTR and they answer with an error; children and the announcer die. The receive of a
request tries again after EINTR.

A handler is in `etb_recv_message` first, which has no timeout: `Receive` and `HangUp` are the request that arrives
and the client that goes without one, and neither need ever happen.

### Members

`Upsert` and `Expire` are the two functions that change the table. Nothing in the node calls
them, so any report may come at any time. The clock is `TimeSize` wide, and the end
of a lease is computed modulo it.

## Runs

| run | question | instance |
|---|---|---|
| `delegation_links` | does the walk accept exactly the chains, and does a new link ever withdraw a permission? | every set of at most 3 links on 3 principals with every scope, expiry and depth; at most 4 on a chain of 5 principals with a back edge; 2 clocks, default limit 2 |
| `engine_core` | is the trace a proof, is evidence stable, are answers backed, is the result the stable model, does evaluation end? | 9 programs, 2 clocks, 2 runs with a pass limit of 2, imports between them, 1 query, adapters that answer anew or fail |
| `engine_negation` | is negation stratified? (no: violated) | a program of four clauses |
| `registry_crowd` | does the seed know all that announced unless two processes changed its file at a time; does a leaf learn what its seed hosts? | a bank as seed, 2 nodes that announce, 2 handlers |
| `registry_race` | does it know them in a race? (no: violated) | the same with 2 rounds |
| `registry_faults` | are routes ever invented, are own and manual routes used, do acknowledgements survive faults? | 2 nodes, 2 handlers, 1 query, 1 stop or broken connection; both nodes host one principal, a manual route contradicts what the other node announces, a name that is an end of another |
| `registry_live` | do announcers and handlers end? | 2 nodes, 2 handlers, 1 query that may need the seed, 1 fault |
| `query_chain` | do answers follow, does their evidence come from home, is it proved and does it replay, when may a query fail, does it end? | 20 deployments of 4 nodes, 3 questions, up to 8 processes, runs of at most 3 passes, a loss anywhere |
| `transfer_texts` | are programs read as written, do goals survive their text, which answers survive a certificate, is a cut one refused, does a message arrive whole or fail? | every text of up to 4 of 19 strokes; 24 messages, 16 answers, chunks of 9 and 100 bytes |
| `serve_node` | does a signal end the node, does every connection end, what does a success rest on? | 2 connections, whose clients may be silent or go, and a local run, one with an adapter (requests and replies of 1 or 2 units, pipes of 1) or a prover |
| `serve_prover` | does the proof of a prover that ended well reach the node? (no: violated) | one handler |
| `members_leases` | which report does an entry hold, and what does an expiry leave? | 3 reports of one node and 1 of another in every order, a clock of 8 times, a lease of 3 |

The bounds. A walk that goes wrong does so at a limit, an expiry or a scope, or on
a cycle: three links hold two of these at once, and the chain has a limit at
every distance up to the longest. The default limit of 8 is lowered to 2 so that
chains exceed it. The programs are the repository's examples reduced to what can
interact: recursion, two derivations of one atom in a pass, links that are facts,
that are derived, that expire, both temporal tags, an adapter as the first and as
a later literal, negation over given and over derived atoms, a program validation
rejects. The pass limit is the code's 64 scaled down to 2, which cuts runs short so
that the next one resumes. `ExactModel` compares the store with the
stable model as it is defined, the least closed set when negated literals are read against it, over every
subset of what is stored, and not with another evaluation.

For the registry, two handlers and an announcer per node are the least that race,
lose an update, truncate under a reader and overlay each other's text; one fault
leaves a file truncated, loses a request or its answer, or restarts a node while a
handler of its earlier life is writing. An announcer makes 20 attempts in the code
and 1 or 2 in the runs; the theorem is for any number.

For queries, the deployments are the two live demos and, around them: a denial, a
statement two nodes need and one node needs twice, two clauses of which the first
cannot be resolved, nodes that need each other with and without another way, rules of one
node that need each other, a literal with a variable left, a principal without a route, a
negated literal another node's statement would refute, an adapter without a reply, a chain of seven rules behind a
statement, delegations whose statement is given, has to be fetched and is not, or is fetched while another node
is asked as well, and nodes without a prover. A run makes at most 3 passes instead of 64: all deployments but that
with the chain (`Long`) then settle, and `Long` needs seven passes after its import, one more than the two runs
that follow it make, so that its query fails although the goal holds. Eight
processes are more than twice the longest chain that comes to an answer, so that a query that returns
goes round more than once, and one more than there are statements; the theorems are for any depth.

For texts, four strokes reach every branch of the parser with a token too many, too few
or of another kind. A message of some 60 to 100 bytes in chunks of 9 is cut inside its
length, inside an item and between items. An adapter's request and reply of one unit
more than a pipe holds are the least that fill it on both sides. Three reports are the
least in which an old life speaks after a new one and a late copy comes after both.

Fairness. `FairSpec` of `Engine` asks only that an evaluation in progress continues: the
evaluator is one thread that waits for nobody but the adapter, whose reply or
failure is part of one step there (what becomes of one that never ends is in `Serve`).
Callers owe nothing. `FairSpec` of `Registry` asks that every process
that can go on does, as a scheduler grants: processes that rewrite a file, handle a
connection, announce, or start to listen. A process that waits for a reply cannot go
on, and nothing makes the other side answer; a node need not be started, users need
not ask. `FairSpec` of `Query` is weak fairness of the one process at work. `Connection` asks
that writer and reader go on: both loop over `write` and `read` and retry EINTR. `Serve` asks for weak
fairness of the main process, of each handler and of each child, and strong fairness of accepting each
connection, since the kernel serves its queue in order; nothing makes a client come, send its request or go, a signal
arrive or a child fail, and a child that has nothing to read is not made to go on. That a child that can read, write or end
does so is an assumption about the adapter or prover, not about this code, which waits for ever for one that does not. Deadlock is not
checked in any run: an engine with no call left to make, nodes at rest, a transferred
message and a stopped node stop by design, and links and reports run out. What must
not stop is stated as liveness instead (`EvaluationEnds`, `AnnouncersEnd`, `HandlersEnd`,
`QueryEnds`, `EveryCallEnds`, `NodeStops`, `ArrivesWholeOrFails`).

What holds only in part. `EveryCallEnds` leaves out what only a timeout could end, and there is none: a client
that sends no request, which keeps its own handler, and a
child that writes more than a pipe holds before it reads a request longer than a pipe; `timeout_ms`
is parsed and never used. It shows that neither keeps another connection, as `NodeStops` shows for the end of the
node. `FailsForCause` has the causes the code itself makes, a principal without a route among them, a run that
was cut and a goal that only holds by delegation: it shows that there are no others. `ReturnedFails` states what happens to a query that comes back to a
goal a process already waits for: no answer ever gets past that process, although a clause may give one, and
since `QueryEnds` holds as well the query ends without.
`AnswersStratified` is for deployments that negate given facts only, `ExactModel` for runs that settle, `AnswersArriveAsText`
names the terms that canonical text changes or cannot carry.

What no property would catch. A delegation's temporal annotation is not in its canonical text, although
`docs/architecture.md:227` says that such annotations survive canonicalization: `CanonicalText` of `Syntax` drops it as `canon.c:52-61` does,
`TypedAtomsSurvive` leaves out delegations, and texts of four strokes have none with an annotation. An
answer carries the goal's annotation instead of the fact's (`eval.c:491`): `AnswersBacked` is about the fact, which was valid, and
not about how long a node that imports the answer believes it. `ExpiryLeavesTheRecent` has nothing against an entry that an
end of a lease beyond the clock's last time makes expire too early. A lookup that fails for want of a route,
although another clause would do, is listed as a cause.

## Findings

`engine_negation`: with `denied(X) :- flagged(X)` and `allowed(X) :- permit(X), not
denied(X)` the evaluator stores both `denied(a)` and `allowed(a)`. The strata
computed by validation are freed unread, all clauses run in every pass, and a
negated literal is tested against what is stored so far. `README.md:319` promises
stratified negation. `ExactModel` states what does hold: the stable model, which is the perfect one of a
stratified program, for programs that negate only given facts that are not imported, bind the negated variables first and put
the negation behind a literal no atom answers in the first pass.

`registry_race`: two nodes announce to the seed at a time. Both handlers load the
file before either saves, the second save drops the routes the first one added,
and both answer with success. Announcers do not repeat what succeeded, so that the
seed does not know one of the nodes until a request of it happens to come. The
sequence in `docs/architecture.md:113-116` ends with the seed knowing all and says
that discovery converges. `registry_crowd` shows that it does as long as no two
processes change the file at a time; it and `registry_faults` show what holds in spite of it.

`serve_prover`: a node ignores SIGCHLD, its handlers inherit that, and the status of a
child of theirs is discarded by the kernel. `waitpid` for a prover then returns an error
once the prover has ended, well or badly, and the handler reports that it failed. The
sequence in `docs/architecture.md:142-143` has a serving node obtain a proof from its
sidecar in just this place. Adapters of a served node fail in the same way; local runs
do not ignore the signal and are not affected (`serve_node` has both).

## Proofs

`EngineProofs` proves for every value of the constants, from the named
assumptions `DelegationAssumption`, `DatalogAssumption` and `EngineAssumption` only:

- `TypeCorrect`: `Spec => []TypeOK`;
- `FactsAreSupported`: a stored or pending fact points at a trace node about the
  same atom, and an atom is stored once;
- `TraceWellFounded`: premises are earlier nodes;
- `EvidenceStaysStable`: no step drops or re-points a fact or alters a node.

The inductive invariant is `IInv == TypeOK /\ Shape /\ PremisesInUse /\ PremisesEarlier
/\ FactsSupported`. Neither support nor the order of premises is inductive alone: a
derivation turns the premises of a partial solution into those of a node, so
`PremisesInUse` says that every partial solution only cites existing nodes, and
`Shape` ties the position of a solution in its body, and the clause index, to the
phase, so that the body being solved exists. One lemma per action shows that
`IInv` is kept.

`DelegationProofs` proves of the walk itself, for any finite set of links with bounded depths:

- `WalkIffChain`: it accepts a pair of principals exactly when a chain of usable links, each
  within the limit in force at its depth, leads from one to the other. The walk remembers nothing of
  where it was, only its depth and the limit that the links so far left it with; the proof shows that
  its recursion ends, also on cycles, since no limit exceeds the bound, and that the limit it carries
  is the one a chain defines by looking back for the nearest link with a depth;
- `MoreLinksGrantMore`: what is granted on some links is granted on more. For the walk this
  is not obvious, because a new link with a depth replaces the limit of those after it; for chains
  it is, and the first theorem carries it over.

`LinksProofs` states both of the links an engine comes to store: `LinksAllowsIffChain`,
`Spec => []AllowsIffChain`, and `LinksGrantsOnlyGrow`, `Spec => GrantsOnlyGrow`.

On top of both, `EngineProofs` proves of `Evidence`, from the assumptions of `Engine`:

- `EngineImplementsDerivation`, `Spec => SoundDerivation`: every step of the engine is, of its stored
  atoms, a step of `Derivation` or a stutter: an atom is stored only when it follows from
  those stored before, or was imported;
- `EveryNodeIsAStep`, `Spec => []TraceIsAProof`;
- `EveryAnswerIsBacked`, `Spec => []AnswersBacked`;
- `SettledStoreIsExact`, `Spec => []ExactModel`: after a run that settles the store is the stable model of
  the program and of what was imported, nothing missing and nothing more, for any program that
  negates given facts only and asks no adapter;
- `EvaluationDescends`: every step of a run or a query is one down (`WorkGoesDown`) in an order that is well-founded on
  what may be left to do (`Works`), whatever the program, the facts and the replies of adapters, so that none
  goes on for ever; that passes are limited is used.

Each needs more of the partial solutions. The refinement rests on
`DInv == IInv /\ PassValidated /\ SolutionsHold /\ DerivedFollow`: the literals a partial
solution has passed hold under its bindings, bindings are only ever extended, so that they
still hold at the end of the body, and validation saw to it that the head and a negated
literal are bound there; what a pass has derived follows from what it started from, although
it is merged one atom at a time and `Derivation` sees each of them on its own. The other two rest on
`EInv`, which adds that a partial solution has one premise for each positive literal it has
passed, at the place `Rank` gives it, that answers this literal (`SolutionsBacked`), what a
solution of a goal rests on (`GoalsBacked`), the properties themselves, and `DepthsBounded`. A premise
answered when it was taken, and must still when links have been added since: that is
`MoreLinksGrantMore`, for which the depths that are stored have to be bounded.

The model needs an invariant that looks both ways, `MInv`. That nothing is missing is `Covered`: every way
to satisfy a body from what was stored when the pass began is in what was derived, in a partial solution
kept at the literal reached, or yet to come, so that a pass that stores nothing leaves a closed set
(`SettledClosed`). That there is nothing more is `Founded`: a fact was imported or is yielded by facts
with earlier trace nodes, so that of a smaller closed set the earliest fact it lacks would be yielded by
facts it has. Both read negated literals against the final store although the evaluator tested
them against what there was at the time; `FactsFirst` is why that is the same: the first pass takes
only clauses without a body any further than their first positive literal, so that the given facts are
all stored before a negated literal is reached.

In the order of `EvaluationDescends` counts first whether the engine is at work, then the passes and the clauses left, then
the partial solutions, as a tuple: how many have passed no literal, one literal, and so on. To advance one retires it
for any number that have passed one more, and a complete one yields its head and none, so that the tuple goes down in its
first place that changes. There are always finitely many (`Finite`), since each step adds finitely many to a finite store;
the tuple's length is any bound on the lengths of bodies. An adapter's reply may be a fact never seen before, so that
stored facts are no measure of what is left, and the limit of passes is: a program that asks one may change the store in every pass.

`RegistryProofs` proves from `RegistryAssumption`, for any nodes, programs, seeds, manual
routes and number of attempts, handlers, queries and faults:

- `TypeCorrect`: `Spec => []TypeOK`, attempts bounded by the limit included;
- `RoutesAreProvenanced`: `Spec => []RouteProvenance`;
- `OwnRoutesAlwaysWin`: `Spec => []OwnRoutesWin`.

Its `IInv` is `Typed /\ Linked`. `Typed` strengthens the types: every map in a file, a
reply or a process's memory is good, and a process at work works for a node. What
a merge, an overlay or a cut leaves of good maps is good (`MergeGood`, `WrittenGood`;
the latter rests on ends of ends being ends). An endpoint in a reply must be good
for the principal its receiver looks for, which is not a matter of types: `Linked`
says that a process waits while a handler works for it or a reply is there, that
there is one handler or one reply, and that a resolve request carries the
principal its client wants. One lemma per action again. Own routes need a third
part, `Own`: a query for a principal the node owns a route for has its endpoint from the
lookup, which reads manual and local routes over whatever the file has, and so never
gets to a seed, whose answer nothing would hold against the own route.

It goes on to `AnnouncementsWereHeard`, `Spec => []AnnouncedWasHeard`, on top of
that invariant, with any number of stops, restarts and broken connections. The
invariant `Talks` follows an announcement: a handler whose client is an announcer works
for the task and seed that announcer waits on, there is one such handler or its reply and
not both, the handler replies after its file was saved, and a node that is not up has
no announcer, so that nothing is left of an earlier life when what it told others
is forgotten.

What nodes know in the end depends on who changes a file while somebody else does, and
two theorems say on what. `Placed` says that only a process that handles a connection of
a node, or its announcer, changes its file, and when. Above it, every step is put in terms of
what it does to one handler (`HandlerMove`: stays, saves, ends, starts, goes on) or to one
announcer (`AnnouncerMove`), so that each invariant is a case for each of these and not for each action.

- `UnracedRegistriesConverge`: `MaxFaults = 0` implies `WatchedSpec => []ConvergesUnlessRaced`, for
  any nodes, seeds, queries and handlers. A handler of an announcement carries the routes announced
  until they are written (`Carries`), and while no two processes are between reading and writing the
  same file, whatever was heard is in that file or, once that is truncated, in the memory of
  the one process that rewrites it (`HeardKept`). Without the assumption it is false: a seed that starts over
  forgets what others count as announced, and they do not announce again.
- `LeavesKeepWhatTheyLearnt`: `MaxQueries = 0` implies `Spec => []LeafLearnsSeeds`, with any faults and
  races. No handler works for a node that is nobody's seed (`OnlyDiscovery`), so that its announcer is alone
  with its file: what a reply tells is in the reply, then in what is saved, then in the file, and what was
  learnt before is read and written again (`LeavesLearn`). With queries others ask a leaf, or it
  looks up for its own user, and its file has several writers as well.

The last three are about waiting and ending, with any faults, files and orders (`AnnouncersEnd` and `HandlersEnd` without
the fairness). Connections have no timeout, so a circle of processes that wait would stay.

- `WaitersAreServed`, `Spec => []WaitsAreServed`: whoever waits has its reply, or a failure, or a process at
  work on its request that saves and responds and asks nobody (`Awaited`: the client of a handler that ends
  gets a reply, a client that is stopped is forgotten; with `Linked` and `Talks` for what the handler does);
- `HandlersDescend`: a process that handles a connection of a node with k seeds has at most 6k + 12 steps left
  (`HandlerLeft`), its own steps leave fewer and those of others no more. The seed it tries is one of the
  node's (`IndexesOK`), and only a process without a connection is given one (`BusyKept`);
- `AnnouncersDescend`: an announcer with k seeds and r rounds has at most r(12k + 1) + 12k + 5 (`AnnouncerLeft`). A round
  puts back the tasks of one round, for one of the rounds left, and tasks done are passed over, so that a seed that
  never answers costs its rounds and no more.

`QueryProofs` proves from `QueryAssumption`, for any nodes, programs, routes, provers and
depth, with losses at any time:

- `QueryTypeOK`: `Spec => []TypeOK`;
- `QueryAnswersFollow`: an answer is in every set of node-atom pairs that is closed under the
  rules of the nodes, each statement taken from its principal's home;
- `QueryEvidenceFromHome`: so is every bundle a process holds, and it is from that home;
- `QueryProvedChain`: a node with a prover holds and hands over proved bundles only;
- `QueryNoGoalOpenTwice`: the recursion of a process never has a goal open twice;
- `QueryChainFollows`: the bundles of a response, read from the first, each follow at their node
  from that node's program and its readings of delegations and the bundles before it, and no bundle is there twice. Negated
  literals count as true in this reading;
- `QueryChainReplays`: for finitely many atoms, where only facts that a node's own program gives are negated
  (`NegatesOwnFacts`), `ChainReplays`: running the programs pass by pass, with negation as the evaluator
  reads it, over the goals of the bundles before a bundle gives its goal, and the last bundle is the
  answer's own;
- `QueryReturnedFails`: `Spec => ReturnedFails`: when two processes of a query are for the same question, no step
  answers the first of them; there are two of them for as long as the query has no outcome;
- `QueryAnswersStratified`: where only given facts are negated, an answer is in the perfect model of the
  rules of all nodes: in every set closed under them when negated literals are read against
  what follows without any;
- `QueryFailsForCause`: the converse. Where only facts that a node's own program gives are negated
  (`NegatesOwnFacts`) and processes outnumber the statements that may be asked for (`EnoughProcesses`),
  a query that fails, with no process lost, has one of the causes `Cause` lists: the goal is not in the perfect
  model, a node has clauses for more atoms than a run makes passes, a goal needed may hold by delegation, or
  a statement needed is not in the model, has no route, is asked for with a variable, is needed for itself, or
  comes without a proof to a node that wants one;
- `QueryDescends`: for finitely many atoms, every step of a query is one down (`QueryGoesDown`) in an order that is well-founded
  on what a query may have left to do (`QueryRank`), so that no query has infinitely many steps, whether rules and
  nodes need each other or not, and whatever is negated.

What follows at a node rests on what the node's process stored, which rests on bundles
it imported, which rest on the process that answered: the inductive invariant says of each
process that every fact it stored is established for its node in every closed set, that
its bundles and the rest of a response are from the homes of their goals and, at a node with a
prover, proved, and that a process that waits was followed by one that works for the literal it stopped at
and at that principal's home. The last part is needed because an import itself does not
look at who a bundle is from. That no goal is open twice needs a part of its own, `Walks`: the
open goals are different ones and all remembered as visited, across imports and further runs.
The order of bundles needs one as well, `Chains`: what a process holds, with what is left to import of a
response, can be replayed, and what its engine stored follows from it. It tells what is stored (`KeepsAt`) from what is
read (`FindsAt`), since an answer may be either and nothing is read off what is only read. Nested evidence is
merged before the answer it is for, and a bundle that is held already is skipped, which only
ever leaves more before those that follow.

That an answer's own bundle comes last is not a matter of one process: were it among the bundles of its own
process already, it would stay where it is (distributed.c 262-266). Nothing relates what two processes do for the same
question but that they do the same, so the proof goes through `Runs`, the smallest set of process states that has the
new process of every question, the move of each (`Move`) and the return of each state that ended to each that
waits for it. From its being the smallest follow an induction (`RunsInduct`), that of two states for
one question one comes of the other (`RunsCompared`), so that a process has one next state and a question one answer,
and that questions which are each asked on the way to another are never answered (`CycleUnanswered`): the
last of their states would come after the one that waits. `Running` says that the processes of a query are in `Runs`; the rest
are corollaries: bundles are of questions asked below (`HoldsBelow`), no answered question is asked below itself,
and two processes of a query with the same question are such a cycle.

Why a query ends is in the order of `QueryDescends`, the one thing to read there. Of a query counts first whether it
has been asked and answered; then its processes, those that wait before those they wait for. Of a process count, each
before the next, the goals it has not visited, the frames of its walk, outer ones first, by clauses and literals left, the
phase it is in, the atoms it has not stored and the bundles to import. A pass is a step only if it stores something
and may be made, so that a run ends its phase once; a run after an import puts the process back before its walk, but only
after the literal that was asked for is passed over; and a literal opens a frame only for a goal not visited before. That frames
are no more than atoms, which `Walks` gives, makes the order one of tuples of a fixed length, which the library's
theorems know to be well-founded. It is a fact about steps, without fairness; with weak fairness, and that a query that is not over
can always take a step, follows `QueryEnds`, which TLC checks.

The chain with negation is the chain of another deployment, `Sifted`, which lacks the clauses that negate a given
fact of their node: a pass over what follows there stays there (`PassSifted`), since `Stratified` has the given facts
stored in time, and the lemmas about `Chains` are for any deployment. What follows there is found pass by pass,
because each pass that is not the last stores an atom and there are finitely many (`PassesSettle`).

For negation, `Stratified` says that what a process has stored, holds and is about to import is in the
perfect model, and that after its first pass it has stored what its program gives. No fact answers the
positive literal of a clause with negation in that pass (`PassStratified`), so that a negated atom that is not
stored when it is tested is none the node's program gives, and is in no lower stratum.

For the causes of a failure, `Explained` says three things of each process. `Searched`: a goal it visited has
an answer, or every literal of its clauses is dealt with or still before a frame of the stack. So when a walk is over, what was
visited and has none can be taken out of the perfect model and leaves it closed, that is, was not in it
(`NothingMissed`), if the last run settled and no reading is for what was visited. That it did is `Counted`: every pass of a run stored the
head of a clause, so that a run that made its last pass has stored the heads of all clauses of a node with no more
of them than passes. `WalkLeads` and `FromBelow`: the goals open and the bundles held are needed by the goal of the
process. `Linked`: each process works for the statement the one before stopped at, so that what the last
one lacks is needed by the question. When no process is left to ask, two of those at work have the same
statement (the pigeonhole theorem of the library), and it is needed for itself. Negated statements have to
be excluded: a bundle of another node may store one, which the perfect model reads as absent at the node. The run has a process
for every statement, nineteen of its twenty deployments meet `NegatesOwnFacts`, and in one a run may be cut.

`ConnectionProofs` proves from `ConnectionAssumption` and `CodecRoundTrips`, for any messages, any sizes of
writes and reads and a break at any byte:

- `CallImplementsChannel`, `Spec => Chan!Safety`: to its two ends a call is a step of `Channel` each time it
  is taken, broken, answered or given up, and nothing at every write and read between;
- `ConnectionTypeOK`, `Spec => []TypeOK`;
- `CallDescends`: a call with a message of n bytes takes at most 2n + 10 steps and then none (`StepsLeft`);
- `CallNeverStuck`, `Spec => [](outcome = Pending => GoesOn)`: while a call is under way one of its two sides can go on.

`CodecRoundTrips` says that each message is read back from its own bytes, up to the routes that are not
written, and that the four bytes of its length read as its length. It is a hypothesis because encoders and
decoders are recursions over data; run `transfer_texts` delivers, and so reads back, every message of the
instance. The invariant `Carried` is that what was read, what is on its way and a rest are, in this order, the
framed message, and that the rest is what is still to write unless the connection is broken. From it, and from
where the header ends, `Waiting` shows that the reader never waits for more bytes than the message has left, and
that when it waits for none it has the payload and nothing else, however the header itself was cut. That the
four bytes count the payload alone is what keeps the two sides from waiting for each other: when all is written and read
the reader waits for nothing. What is left of the refinement, that a call ends, follows from the last two theorems when what can
go on does so; that is a matter of fairness and TLC checks it (`ArrivesWholeOrFails`).

`ServeProofs` proves `ServedOkOnlyOnWholeReply`, `Spec => []OkOnlyOnWholeReply`, from `ChildrenAssumption` and `ServeAssumption`,
for any number of processes and connections, any sizes and any signals: a call that
reports success had a child that took its whole request, ended well and whose whole
reply was read. Its `IInv` adds to the types that the pipe to a child is closed only when all
was written, that a child that reads ends well only after the end of its request, and that a
call is done only on the whole reply of such a child.

It goes on to what waits for what, in a node whose connections, forks and signals come in any order:

- `CallsWaitOnlyInDeadlock`, `Spec => []WaitsOnlyInDeadlock`: a call under way can always go on, or its child
  can, except one of the shape `Deadlocks` excuses in `EveryCallEnds`: a child that writes more than a pipe holds before it
  reads a request that a pipe does not hold;
- `CallsDescend`: a process and its child take at most 2n + 2m + 6 steps for a request of n units and a reply of m
  (`StepsLeft`), and a step of the node or of another process gives them no more.

A call is under way once the handler has its request; that one arrives is up to the client. `SInv` adds to `IInv` what the pipes hold (`CountedAt`), where a call is (`PlacedAt`), and that the connection of
a handler with a call under way is neither closed nor answered (`Handled`), since else the handler would not be there to go on.
A call is stuck only at a write that finds the pipe full while the child finds its own pipe full; so more was asked and more was
to be answered than a pipe holds. What fairness adds is that what can go on does so, which is `EveryCallEnds`.

`MembersProofs` proves both properties of `Members` from `MembersAssumption` and `NoneIsNoEntry`,
for reports in any number and order and any clock and lease: `MembersHoldLatestLife` and
`MembersExpiryLeavesTheRecent`. `EntryOfLatestLife` with the types is inductive; the
second theorem is a step from it, with the fact that addition modulo the clock is no larger than the sum.

Model-checked only:

- `RegistryConverges`, which fails (run `registry_race`);
- all of `Syntax` and `Wire` (`MCTransfer`), whose operators are recursions over texts and bytes: what they
  compute for every input is an induction over data. With them `CodecRoundTrips`, which the proof about
  `Connection` starts from;
- liveness, which this prover does not handle; of `QueryEnds`, `EvaluationEnds`, `ArrivesWholeOrFails`, `EveryCallEnds`,
  `HandlersEnd` and `AnnouncersEnd`, the parts that are about states and steps are `QueryDescends`, `EvaluationDescends`,
  `CallDescends` with `CallNeverStuck`, `CallsDescend` with `CallsWaitOnlyInDeadlock`, and `HandlersDescend` and
  `AnnouncersDescend` with `WaitersAreServed`. `NodeStops` is only checked.

Induction appears in the proofs above in two forms only: a set of naturals that is not empty has a
least member (`DelegationProofs`, from the well-foundedness of the naturals in the library; `AllNumbers` of
`QueryProofs` is the same), and a set that is the smallest of its kind is in every set of that kind, since the library's induction theorems, which take a predicate, cannot be instantiated here.

## Not modelled, and why

- SHA-256 and the signers are standard or platform cryptography; digests are identities or one
  text in the models, so that neither the root of a certificate nor what a
  signature covers is modelled.
- Signed registry snapshots and the artifact store are called by a unit test only, one
  call at a time.
- TLS is a stub; telemetry appends lines for the dashboard that nothing in the node reads
  back; the dashboard starts demo nodes; `etbctl` formats what a node answered.
- The sidecar is a program around third-party proof systems; a node sees only how it
  ended.
- The strata that validation computes are freed unread by their only caller.
- Node digests and the rendered text of a trace carry no state the bus uses.
- `frame.c`, `rpc.c` and the symbol table are called by nothing.
- The reuse of pids and descriptor numbers, and the passing of time during a query, are
  left to the system; allocation failures are left out everywhere.
