# TLA+ verification of leptos_ntex

`leptos_ntex` serves Leptos applications with the ntex web framework. Most of
its code adapts one library to the other. The part with a concurrency design of
its own is the static-route subsystem (incremental static regeneration): one
render at a time per published file, shared by every caller, refreshed by
streams, bounded by permits, published as a pair of files that other processes
may read at the same moment, within a storage quota that several processes
share. Around it stand the request registry, which lets a handle to a
thread-bound request travel to other threads; the pump of a WebSocket server
function, one task between a peer and an application; the dispatch of a
request, whose reactive Owner has to survive the response body and every task
the function spawned; the file service, which opens what deployments replace;
and the route lists that bring a request to one of them. These are what the
modules model.

Paths below are relative to `src/src/`.

## 1. The system

| Part | Source | State | Operations | Hard because |
|---|---|---|---|---|
| Static generation | `static_routes.rs` 70-175, 483-891 | registry of work by key; per work: waiters, requested template, running, blocked, terminal, a waker | `StaticRuntime::render` (called by handlers), the `Generation` task, drop of a waiter or a task | callers, the task and drops interleave between three locks; cancellation at every await; refusals in the middle |
| Permit pools | `static_routes/policy.rs` 301-413 | used counter, pending wakers | acquire, split, drop, poll of a waiting future | wake-ups race registration; the counter is shared by threads |
| Publication and reads | `static_routes.rs` 1391-1670, `fs_boundary.rs` | two files, a lock file, a scratch lock, a cache of verified pairs | publish a response, read a pair | two renames cannot be atomic; processes die between them; the first publication creates the lock readers look for |
| Storage policy | `static_routes/storage.rs` | control record with limits and generation, cached usage per process | install, coordinate, admit, commit | several processes; crash between announcing and committing; a cache that must never be trusted when stale |
| Request scopes | `request.rs` | stack of scopes, entries, tokens, a dirty flag and waker | open, close, register, clone, send, drop, collect | the last handle may be dropped on any thread while the root future falls asleep |
| Policy binding | `static_routes/policy.rs` 190-299 | bindings by canonical root, started flag | configure_routes, bind, start | a root that does not exist yet has no identity |
| Work keys | `static_routes.rs` 176-480 | none | path to keys, case rule of the file system | probes of the file system |
| Static handler, generator | `static_routes.rs` 893-1136, 1822-1983 | none of their own | serve, generate, refuse | a policy and a key read earlier are used later |
| Owner lifecycle | `owner.rs` | the Owner of a request and its references | arm, hand over, release, leak | dispatch, body and tasks end in any order, on any thread |
| WebSocket pump | `server_fn/websocket.rs` | frame assembly, two bounded channels, write buffer | one poll loop, close and drain | backpressure in both directions, one waker for all |
| Server functions | `server_fn/*.rs`, `config.rs` | registry; per request: bytes read, failure marks | register, look up, preflight, drain, dispatch, redirect, refuse, spawn | failures seen before or after the response; two readings of `Accept` |
| Response options | `response.rs` | headers, status | override, merge, take | rules per header, errors that keep their own |
| Rendering | `render.rs`, `stream.rs` | none of their own besides the Owner | render up to the first chunk, stream, end the connection on an error | cancellation before and after the headers |
| File service | `files.rs`, `fs_boundary.rs` | cached root | check, negotiate, open, answer conditions | names change between the check and the opening; many header fields decide together |
| Route lists | `routes.rs`, `leptos_routes.rs` | the executor's state | generate, exclude, register | optional segments, exclusions and a synthetic root meet; the executor may be someone else's |
| Extraction | `extract.rs` | none | run an extractor of ntex | not stateful |

How they interact: a request is routed (RouteTable) to a server function, a
rendered route, a static page or a file. A static page's handler
(StaticServing) reads the published pair (Publication); on a miss
it looks up the keys of the entry (WorkKeys) and calls
`StaticRuntime::render` (StaticWork), which takes a waiter permit
(PermitPool), joins or starts a generation, and the generation takes a render
permit, renders, and publishes in a blocking task (Publication) under the
storage lease (StorageAccounting). Everything in a render that touches the
native request goes through a handle of RequestScope. A request to a server
function is dispatched (Dispatch); if the function upgrades the connection, the
pump (WebSocketPump) takes it over and, when it ends, cancels what Dispatch still
runs.

What makes each part correct: *generation* — an entry is generated by one task
at a time, every accepted caller gets an answer, a task never sleeps through a
request or through being abandoned, a permit is never lost; *pools* — the counter
is exact, a waiter never sleeps on a free slot; *publication* — readers see a
consistent pair, never an older one than they could have seen, and no error
unless a publisher was interrupted; *storage* — the site is within its limits
at every moment, and a cache that is trusted is right; *scopes* — a handle works
while its scope is open, and a request does not outlive its last handle; *pump* —
messages arrive whole, in order and within the limit, output is complete before
the close, and the pump never sleeps on something it could do; *dispatch* — the
last registration serves, no overflow or failure is reported as a success, no
response leaves the origin by itself, and the Owner is cleaned up once, after
everything that uses it; *binding and serving* — a policy is bound to all of its
runtimes or to none, what was published is found, no two generations write one
directory entry, and nobody waits for ever; *files* — one root serves
everything, and only regular files of it, coded and conditioned as RFC 9110
says; *routes* — what is declared reaches its handler, what is excluded does not.

## 2. Modules and how they correspond to the code

Definitions named `Bug...` are faulty variants of the definition after them.
They are used only to see that each property can fail. A module `MC...` gives
a module its instances, a module `...Proofs` its theorems (section 4).

**StaticWork** (`MCStaticWork`, `StaticWorkProofs`): calls of `render` and the tasks they spawn. A
call creates at most one work entry, so an entry and its task carry the name of
the creating call. `cpc` and `gpc` are the control points of calls and tasks.
One action is one critical section, or the code between two awaits where no
other thread can tell the difference. `Lookup` is the registry lock, `Join` the
state lock taken after it (they are two steps: the entry may end in between),
`SpawnAndWake` the spawn and the wake. `GenStart` ... `Unregister` follow
`Generation::run` and `StaticTaskGuard::drop`; `render_or_abandon` and
`next_trigger` are split at the waker registration, because a departure or a
request can fall into the gap. `Abort` drops the task at an await or unwinds a
panicking render; a blocking publication then goes on and keeps its permit until
`IoEnd`. `OtherRender` stands for other routes and applications that share the
policy, `StreamActivity` for the application's regeneration streams. What is
rendered is not modelled: a template is the name of the caller who brought it,
a result is one of five kinds. The keys of a call are constants; how they come
about is WorkKeys.

**Coalescing**: the abstract specification of the same subsystem. A call begins a
generation only if none under way shares a key with it, or is accepted by one or
turned away; whoever was accepted and has not left gets every answer, the end at
the latest. It has no locks, tasks, wakers or permits. StaticWork implements it
(`Promise == INSTANCE Coalescing WITH ...`, checked and proved as KeepsPromise): a
generation is under way from its registration to its terminal result, a call
accepted from the moment it is on the waiter list. StaticServing is built
on Coalescing, so that what is checked there holds of what StaticWork does.

**WorkKeys**: `static_work_key` and its probes as operators. A name is its text and
the case of two kinds of letters: those the code folds and those only the file
system folds. `CaseRule` walks up from the parent until a directory tells its rule,
`StoredName` finds the spelling of an existing entry among hard links, `WorkKey`
makes the one or two keys. `OneRule` and `SingleDirectories` say what the probes
rely on and StaticServing assumes of its scenarios: directories on one device
follow one rule, and a directory has one name.

**StaticServing** (`MCStaticServing`, `StaticServingProofs`): requests for pages and the calls of a
`StaticRouteGenerator`, beside policies that are opened and bound. `LockNext`
and `BindAll` are `configure_routes`, one lock after the other; `Start` is
`PolicyState::start`; `Request`, `Admit`, `LookUp`, `Register` or `Join`,
`TakeReply` and `Reopen` are the awaits of a call, so that the policy and the keys
it read are as old as they can be when they are used. A generation's render,
publication and slots appear by their outcomes.

**PermitPool** (`MCPermitPool`, `PermitPoolProofs`): one pool. `Take` is
`acquire` under the lock; `DropPermit` and `WakeOne` separate the locked part of
`Permit::drop` from the wakes after it; the poll of a waiting future is
three steps (register the waker, enqueue once, try). In StaticWork the same pool
appears as a counter, and `WaitForRender` as a step enabled when a permit is free:
NoLostWakeup and WaitersResume are what justifies that abstraction.

**Publication** (`MCPublication`, `PublicationProofs`): one published file and its metadata. A file is
identified by the publication that wrote it. Writers follow
`write_static_route_managed` from the scratch lock to the two renames and may be
interrupted at each step, by an error or by the death of the process. Readers
follow `read_paired_static_file`: no HTML, no lock yet, lock, pin HTML, pin
metadata, validate, look for the lock once more. The initial site is empty, left by
an older version without metadata, a deployed pair without lock, or one whose
metadata entry cannot be opened (a directory, say), which is not the same as none.

**StorageAccounting** (`MCStorageAccounting`, `StorageAccountingProofs`): the disk as a map from entries to
lengths; the control record; per process the cached usage. `Open` is
`Storage::open`; `CoordinateBound` and `CoordinateUnlimited` the lease; `Admit`
the check against the limits and the announcement of a generation; the file
steps are those of `write_static_route_managed`; `Commit`, `Fail` and `Crash`
end a publication. Lengths add up as sets of units, which makes the sums
finite-set cardinalities. `WriteRecord` may be cut short or fail to sync, which
leaves a record that nobody can decode, or one whose installer gave up. `managed`
are the policies of other directories, above the root or below it.

**RequestScope** (`RequestScopeProofs`): scopes opened on one origin thread, requests and their
handles on the origin (`here`) and on foreign threads (`away`). A final drop on
a foreign thread is three steps (count, flag, wake), the root future's poll
another three (register, swap the flag, collect).

**WebSocketPump** (`MCWebSocketPump`, `WebSocketPumpProofs`): the connection task after the upgrade.
`Out` and `Receive` are the two halves of a turn of the poll loop, `NextTurn` its
end (sleep, or go on; after its budget it wakes itself), `SendClose`
and `Drained` what `start` does afterwards. A frame is a kind, a size and flags;
`Accept` is the assembly with its limit. Application, peer and ntex's IO tasks
are external actions that may happen between any two polls.

**Dispatch**: one request, from its route to the end of its response and of the
task it spawned. Only the registry is shared between requests, so one request
beside the registrations covers them. `VerifyHandshake` are the checks of a
WebSocket upgrade, in their order. `Mount` and `Arrive` are the two kinds of
route, `Setup` the scope check and the arming of the Owner, `ReadChunk` and
`BodyReads` the body before and after the response, `Finish` everything after
`service.run` has returned: adapter errors, the redirect rules and the merge of the
application's overrides. `refs` are the references to the Owner, `work` what runs
under it: `DropWork` and `Release` keep the order in which each holder drops the
two. A Location is its origin and whether it echoes the Referer; a header is the
sequence of whose values it carries, one name for each merge rule. What server_fn
itself answers (`Raw`) follows from how it calls `NtexServerResponse`; middleware
may answer anything.

**FileService** and **FileResponse**: files on disk. FileResponse holds the pure
part, `accepted_encodings` to `file_response`, and beside it `BestCoding` and
`RequiredStatus`, written from RFC 9110 sections 12.5.3 and 13.2. FileService is
the part with steps: `ResolveRoot` and `StoreRoot` (the root is opened and then
kept by whoever is first), `CheckPath` (`safe_subpath`), `OpenFile`, `Relative` and
`OpenRelative` (`SiteRoot::open_file`: through the capability at once, or by
what the name resolves to). `MoveLink` and `Replace` are deployments, between any
two of them.

**RouteTable**: `generate_route_list...` and both implementations of
`leptos_routes_with_context`, as operators from declared routes to registered
ones; ntex's router (first match in order of registration) is external.

**ExecutorInit**: the remembered outcome of the one attempt to install the
executor, lazily or on request, and a foreign executor at any moment.

**Site** (`MCSite`, `SiteProofs`): composes RouteTable, ExecutorInit, Dispatch and FileService. The
executor is installed, a request is routed by the table, and the handler the table
names goes on. Dispatch and RouteTable are extended, the other two instantiated.

External pieces, modelled from how the code uses them: `AtomicWaker`
(register replaces, wake takes and schedules), the executor polling a scheduled
task, and the application's streams.

## 3. Runs

| Run | Instance | Shows |
|---|---|---|
| `static_work_coalesce` | 3 calls of one entry, no policy, 1 abort | SingleFlight, NoOrphanedWaiter, NoMissedAbandonment |
| `static_work_alias` | 2 calls whose keys overlap, under a policy with 1 render slot, 2 streams each for 2 subscription slots, 1 event, 1 abort | PermitsAreExact through refusals, ends and aborts; KeepsPromise: StaticWork implements Coalescing, also across spellings |
| `static_work_isr` | 2 calls, 1 stream, 1 event, 1 render slot contended by others | the subscribed task: NoMissedRequest, RefusedTemplateIsDropped; CallsReturn and RefreshResumes |
| `static_work_accepted` | 3 calls, 1 stream, 1 slot | the first finding of section 7 |
| `permit_pool` | 4 clients, limit 2, word 0..3, every amount | PoolIsExact, NoLostWakeup, WaitersResume |
| `publication` | 2 publications, 2 readers, any interruption, four initial sites | ReadsAreFresh, PairsAreWhole, ErrorsOnlyWhenTorn, ReadsEnd |
| `storage_accounting` | 2 processes with one policy, one with rival limits and one without; 2 routes, one in a directory to be created; policies above, below or nowhere else; 1 crash, generation up to its maximum | CacheExact, WithinLimits, OnePolicyGoverns |
| `request_scope` | runtime and nested scope, 2 requests, 2 handles each | HandlesStayUsable, NoLostRetirement, RetiredAreCollected |
| `websocket_pump` | 3 frames of any kind (a text broken inside a character among them), 2 output messages, channels and write buffer of one | InputIsFaithful, OutputIsFaithful, NoSleepOnWork, ConnectionEnds |
| `site` | 2 applications with 8 sets of exclusions, mounted in 2 ways; 7 URLs and 3 methods; for server functions 2 methods, 2 functions, limit 2, chunks of 1 and 2; for files 2 requests, 2 releases, 2 changes, or one request with about 6 500 combinations of header fields | RoutesReachTheirHandlers, VerdictsAreTrue; LastRegistrationServes, RedirectsAreSafe, AdapterErrorsStand, OwnerOutlivesWork, OwnerIsReleased; ServedFromOneRoot, ResponsesConform |
| `static_serving` | a request and a generator of two calls, 2 policies and 2 bindings over 2 runtimes in opposite order, 9 scenarios (below) | OnlyManagedWorkWaits, BindsAllOrNone, PublishedIsFound, OneWriterPerEntry, EveryoneReturns |
| `static_policy_late` | the same on a root that does not exist yet | the second finding of section 7 |

*Why the bounds are enough.* Three calls of one entry are the smallest
case in which a late guard, its successor and a third caller meet; with keys
that overlap two are enough for two generations side by side. One abort
reaches every await point. A slot limit of one with `OtherRender` makes both
outcomes of every acquire possible at every moment, so more slots add nothing
to a single route; two streams for two subscription slots let one generation
hold, split and return part of its reservation while another one is refused. In
publication one writer can complete after, before or beside an interrupted one,
with an equal body, over each kind of initial site; two readers share the cache
of verified pairs. In storage three publications with one crash let a process
trust a cache written before another's publication, and the small word puts the
generation at its maximum. Two handles of a request exercise "last" and "not
last". Three frames are the smallest message with a control frame or
a bad continuation in its middle; with channels and a write buffer of one message
every wait of the pump happens in both directions, and a budget of two turns
is used up. In dispatch a limit of two with chunks of one and two meets the limit
exactly and passes it, in the first chunk or later. Two file requests and
two changes let both resolve the root around a deployment, or a name change twice
between its check and its opening; header fields vary only while the namespace
stands still, because neither depends on the other.

*The scenarios of StaticServing* are initial states: under policies, a volume that
folds case, with two handles that rival each other, and one that does not, with a
deletion and with two generator calls; without policies, an entry whose
letters only the file system folds, hard links, an empty volume of its own (its
rule is unknown), the same with two generator calls (on both, the second caller may ask for the
spelling of the first, before or after that one has shown the rule), and a root that
does not exist. Two of the three calls are made in each, so that every pair of
spellings and both kinds of caller meet; three at a time add interleavings that
the pairs already have.
Which entries are deleted or respelled, who binds when and how each generation
ends is left open in all of them.

*Deadlock* is checked wherever the system should go on. StaticWork has an
explicit `Idle` step for the state in which every call has returned and every
task ended, so a stuck task is reported. `StorageAccounting`, `RequestScope`,
`WebSocketPump`, `Site` and `StaticServing` follow a bounded number of
publications, requests, frames and calls, so they stop: those runs turn deadlock
checking off, and RetiredAreCollected, ConnectionEnds, OwnerIsReleased and
EveryoneReturns say what must have happened before they do.

*Fairness.* `Scheduling`: the executor polls woken tasks, and blocking I/O ends.
`RendersEnd` adds that the application's render futures do.
Nothing is assumed of callers (they may cancel or not), of streams (they may stay
silent), of aborts or of the policy's other users. RefreshResumes therefore
has the premise that from some moment on the others hold no slot: the pool
is not a queue and promises no fairness against them. In PermitPool polls and
wake loops that have begun run on; permits need never be dropped, hence the
premise of WaitersResume. In Publication the file system grants a free lock
in the end. In RequestScope the woken root is polled and a begun
drop completes; the inner future need not make progress. In WebSocketPump the
executor polls the woken task, the drain timer fires, and the application goes on
reading: ConnectionEnds needs the last, because a lost peer is not noticed
while reading is paused, as the documentation of `NtexServerFnBackend` says
(`server_fn/mod.rs:59`). In Dispatch, and so in Site, ntex drops a body when it is sent or its
connection ends, drops a dispatch future with its connection, and spawned tasks
end; nothing is assumed of the function itself. In StaticServing one condition is
enough, `WF_vars(Progress)`: the process does not stand still while some call or
binding can move or an awaited generation can come to a result (which CallsReturn
shows of StaticWork). It does not say whose turn it is. That suffices because the
work of the instance is finite: calls, bindings and generations only move forward,
so that once nothing is left but the one that waits, it is its turn; what can
recur, a subscribed generation's refusals and events, is not part of Progress.

## 4. Proofs

The theorems hold for every value of the constants that the named assumptions
allow: any number of calls, readers, processes or requests, any limits, lengths
and word sizes, any interleaving. The assumptions say that sets which are
counted are finite, that bounds are natural numbers, that `None` is not a value it
stands beside, and what is listed below. None of the bounds of
section 3 is among them.

Each module has an inductive invariant, proved in the same three steps (it holds
initially, every action keeps it, the properties follow). The properties are
seldom inductive by themselves; what each one needs in addition is the argument
why the code is right.

**PermitPoolProofs.** `TypeCorrect`; `PoolCountsExactly`: the counter equals the
units in the permits alive and is at most the limit, so `Permit::drop` cannot
underflow; `WakeupsAreKept`: NoLostWakeup. Exactness is stated as the
cardinality of a set of units (`client, i`), so that acquire, split and drop
add, move and remove units. It needs that a client without a permit holds no
units (`AmountsOfLive`) and that a client that polls holds none
(`OwnersDoNotPoll`). That a parked future is woken by the next drop needs it to
be in `pending` (`EnqueuedBeforeTry`, `PendingIsRegistered`), and that the wake has
an effect needs its waker to be armed from registration until it is woken
(`ArmedBeforeTry`). The order of the three steps of the poll carries these through.

**StaticWorkProofs.** `TypeCorrect`, `GenerationIsSingle` (SingleFlight),
`WaitersAreKept` (NoOrphanedWaiter), `RequestsAreSeen` (NoMissedRequest),
`AbandonmentIsSeen` (NoMissedAbandonment), `RefusedIsNotRendered`
(RefusedTemplateIsDropped), `PermitsCountExactly` (PermitsAreExact) and
`StaticWorkImplementsCoalescing` (KeepsPromise). The invariant relates the control
points of calls and tasks to the state under the locks:
`CallState`, `TaskState` and `Admission` say what is set at each point;
`Registration` that the registry and the calls lead only to work that exists and
shares a key with them; `Senders` that the list of a work entry holds exactly the
accepted calls without an answer, besides calls that have left, and nobody once
there is a result or nothing to render; `Templates` that the template to render next
is that of a call that waits or has left, and that the one rendered last can no
longer be refused; `WakeInv` that the task's waker is armed, or a wake is on the
way, from the moment it may sleep. Permits
have an invariant of their own on top (`PermitInv`): the three counters are
cardinalities of the units held by calls, by tasks with their blocking I/O, and
by reservations with their streams. The refinement is proved step by step: the
lemmas `CallRefines`, `EndRefines` and `TaskRefines` give for each action the
abstract step it is, and `Invisible` covers those that callers cannot tell from
stuttering. Coalescing has no fairness, so this is the whole of KeepsPromise.

**PublicationProofs.** `TypeCorrect`, `ReadsAreWhole` (PairsAreWhole),
`ReadsReturnTheLatest` (ReadsAreFresh), `OnlyTornPairsFail` (ErrorsOnlyWhenTorn).
`Locks` says who may be at which point at the same time, `Files` what the two
entries are for each point of the writer that holds the lock, `History` how they
relate to the publications that completed, `CacheWhole` that a cached pair
has one body. Of each reader, `Pinned`, `ReadFresh` and `TornSeen` relate what it has
pinned to the publications and torn pairs since it began. `Paired` says that pins
no publication can separate belong together; it also covers the reader that found
no lock file, as long as there is none, which is why looking for it once more at the
end (`ErrorStands`) is enough.

**StorageAccountingProofs.** `TypeCorrect`, `PolicyGoverns` (OnePolicyGoverns),
`CachesAreExact` (CacheExact), `LimitsHold` (WithinLimits). The heart is `Admitted`:
what is on the disk together with what a publication may still add
(`Remaining`, which depends on its step) is within the limits, from its admission to its
end. A step that creates a file moves units from the second to the first, a
rename removes what it replaces, and a failure or crash leaves the files where they
are counted. `Caches` says that every cache falls behind the record's generation
when a publication is admitted, before the first file changes, and that one
which has not is exact; `Counted` gives the committing process its new total without
another scan. `Leases`, `Governed` and `RootsApart` say whose limits those
are although `Storage::open` waits for nobody, and `Numbered` and `Temporaries` that no
publication meets another's temporary files. Assumed: a control record has between 2
bytes and the largest length, and the directory above the root is none of those below it.

**RequestScopeProofs.** `TypeCorrect`, `HandlesAreUsable` (HandlesStayUsable),
`RetirementsAreSeen` (NoLostRetirement). `Distinct` and `Tokens` tie the stack, the
entries and the tokens together; `RetiredAway` and `FlagCovers` say that a
retirement on a foreign thread is covered by the flag or by a drop still
under way, `WakerArmed` and `FlagIsSeen` that the root future does not sleep past
the flag: registering before the swap, and setting before the wake.

**WebSocketPumpProofs.** `TypeCorrect` (no message longer than the limit is held,
no channel over its capacity); `FragmentsAgree`: codec and `Assembly` agree on
whether a message is open, so that the Assembly's own fragment errors cannot
occur; `OutputIsKept` (OutputIsFaithful); `PumpIsWoken` (NoSleepOnWork);
`InputIsKept` (InputIsFaithful). `Queued`, `Numbered`, `Closes` and `Finished` follow a message from the channel to
the write buffer and to the peer; `Watermark`, `Disconnects`, `Outputs` and `Inputs`
say for each thing the pump can wait for that it is armed for it whenever it sleeps.
InputIsFaithful says what the application must get from the frames on the wire
without following the pump: a frame is judged by the frames before it, a message is
the data frames since its start, its size the cardinality of their bytes, a text
is valid if every split character has its other half next to it, and the n-th
message is the one whose last frame is the n-th that completes one. Its invariant
`Heard` adds that, while the pump runs, every frame so far was well formed,
`fragmented` says whether a message is open, and the assembly holds exactly the
frames of that message in order, with their size and the state of their text
(`Hearing`). The proof compares the verdicts of `CheckedCodec::decode` and
`Assembly` on the next frame with the reference, error by error. Assumed, besides
the types of frames: a valid control frame is whole and short (`ControlAssumption`),
which the header checks of ntex's codec ensure.

**SiteProofs** is about the composition, `SiteSpec`: `LastRegistrationWins`
(LastRegistrationServes), `RedirectsStaySafe` (RedirectsAreSafe),
`AdapterErrorsAreKept` (AdapterErrorsStand), `OwnerIsHeld` (OwnerOutlivesWork),
`OneRootServes` (ServedFromOneRoot), `VerdictsStayTrue` (VerdictsAreTrue),
`ResponsesAreRight` (ResponsesConform), `RoutesAreReached`
(RoutesReachTheirHandlers). The
invariant is one of Dispatch (a method has one slot and it is the latest; the
Owner is held by everything that runs under it, in the order in which both
are dropped; before the function runs nothing is held, read or failed; an answer is
settled once), one of FileService (`Rooted`: every request past the cache has the
stored root), one of ExecutorInit, and `Unrouted`: nothing is dispatched before the
request is routed. Lemmas about the pure parts (`GuardedIsSafe`, `AnswerStands`,
`RefusedStands`, `LookupFindsLatest`) say what the redirect rules, the merge and the
registry do. Assumed: there is a release to deploy.

The last two theorems are about algorithms. `ResponsesAreRight` holds for any
`Accept-Encoding` and any conditions: `BestChosen` shows that the search through the
preferences ends with the best acceptable coding (every weight of the four tokens
in question, and every set of variants, is a case), `AsRequired` that the rewriting of the
conditions for ntex's `NamedFile`, its own order of checks and the ranges together
answer as the first applicable step of RFC 9110 does. `RoutesAreReached` holds
for any routes, server functions, exclusions, URLs and both ways of registering.
`Generated` and `RegisteredAll` give the routes of the table as a set: those of
the expansions and functions that are not excluded; `CrateComesFirst` that, the
crate's routes being registered first, one of them gets the request exactly when one fits.
What a pattern matches and how a path is converted is left as it is: the same
operators stand on both sides. Of the community modules' operators this needs what
`SetToSeq` and `FlattenSeq` return (`MembersListed`, `Flattened`); the recursion in
`FlattenSeq` is treated by looking at the least index at which a claim fails
(`LeastIndex`), which takes the place of an induction rule. Assumed: the fields of
requests are what FileResponse writes (`FieldsAssumption`), and applications are finite
(`SitesAssumption`).

**StaticServingProofs.** For every scenario with one case rule per device and one
name per directory (`ScenariosAssumption`): `PublishedPagesAreFound`
(PublishedIsFound) and `EntriesHaveOneWriter` (OneWriterPerEntry). `Looked` keeps what
a lookup found true while its call goes on, although entries come, go and change
their spelling; `Volume` keeps the assumptions on the directory; `Disjoint`
says that generations under way share no key, `Met` that a generation and the calls
it took ask for one entry. The lemmas about WorkKeys carry it: a rule that is observed is the volume's
(`ObservedIsTrue`, `WalkIsTrue`), a stored spelling names the same entry
(`StoredIsSame`), calls that share a key ask for one entry (`SharedKeysMeet`), and
those that ask for one entry share a key but for the exceptions (`DisjointWriters`).
One of these exceptions is no documented limit of the code: one spelling with
capitals, looked up before and after the rule of an empty volume shows (section 7).
Under the hypothesis `RootsExist` (no policy is opened for a
root that is missing when the calls start): `RefusalsHaveAPolicy`
(OnlyManagedWorkWaits) and `BindingIsWhole` (BindsAllOrNone), by an invariant that
relates bindings, started flags and the policy each call read. The hypothesis is
needed: `static_policy_late` refutes OnlyManagedWorkWaits without it.

## 5. Only model-checked

* Liveness: CallsReturn, RefreshResumes, WaitersResume, ReadsEnd,
  RetiredAreCollected, ConnectionEnds, OwnerIsReleased and EveryoneReturns rest on
  fairness and `ENABLED`, which the prover does not handle.
* KeepsPromise has no fairness, so it is proved whole; EveryoneReturns rests on
  the progress that CallsReturn shows of StaticWork, a link that is argued in
  section 3 and not proved.
* What patterns match and how paths are converted and expanded
  (`Matches`, `ToNtexPath`, `ExpandOptionals`): `site` evaluates them, the theorems use them as
  they are.

Every invariant that a run checks is the subject of a theorem.

## 6. Not modelled, and why

* Power loss. A rename is taken to be durable in order; `Interrupt` and `Crash`
  are deaths of a process, not of the machine.
* Bytes: the encoding and the checksum of the control record and of the metadata
  (a record is limits, empty or invalid; a digest is equality of bodies), masking
  and lengths inside ntex's frame codec, HTML, templates, error texts. Headers
  appear only as whose values they carry, one name for each merge rule; the
  decoding of server function arguments and the choice of a subprotocol do not
  appear at all.
* A policy of an overlapping root that is installed while this root is in use. The
  code refuses what it finds when it looks; the documentation excludes the rest
  ("install only while no publisher uses an overlapping, different root",
  README of the repository, line 415). `managed` is therefore constant.
* Work keys fold case only where the parent "demonstrably" does
  (`static_routes.rs:176-184`). OneWriterPerEntry therefore excepts spellings that
  differ: in a directory whose rule no entry shows, and in letters only the file
  system folds, in an entry that was missing or was respelled between two lookups.
  Its exception for one spelling is the third disagreement of section 7.
  PublishedIsFound has no exception. A lookup sees one state of each directory;
  changes in the middle of one listing, and with them the second attempt and the
  check of a retained entry (402-407, 429-446), are left out.
* Steps that are taken together because nothing of this process runs in between or
  because the outcomes are those of a model step. `Subscribe` splits the
  reservation for all streams at once (`static_routes.rs:858`, no await between).
  Publication's `OpenMeta` opens the metadata and reads its attributes.
  `ResolveRoot` looks into the cache, canonicalizes and opens the directory
  (`files.rs:365-368`, `fs_boundary.rs:23-31`), so that a link that moves
  between the last two is not shown.
* Outcomes that are merged. A failed admission leaves StorageAccounting's cache as it
  was, where the code may have remembered the usage it just measured.
  FileResponse has one flag for a file whose handle or metadata cannot be had,
  checked first; the code answers 500 at two places, the second (`files.rs:607-610`)
  after the preview. The 400 at 539 cannot be reached and has no counterpart.
  Dispatch has one status for each class that the code tells apart.
  StaticServing answers "file" whenever the entry exists; that a torn or unreadable
  pair is rendered again (`static_routes.rs:1848-1851`) belongs to Publication.
* In the run of RefreshResumes one key is contended by the policy's other users only;
  contention between routes is what PermitPool shows.
* Platforms without the required file operations, where policies and paired reads
  report an error at once.
* Which Owner is current during a poll (`RestoreOwner`, `ScopedWork`): set and
  reset within one synchronous call.
* Unwinding out of dispatch or of a body; StaticWork does cover
  panics of renders.
* What Leptos renders, ntex's router and server beyond what the code relies on,
  extraction (`extract.rs`), the initial capacity of buffers, and hooks that exist
  for tests.

## 7. Where the code and its comments disagree

`static_work_accepted`: in `next_trigger` the comment at
`static_routes.rs:732-734` says "Complete accepted work; otherwise close
admission before dropping it". If the streams end while a request is accepted,
and the render of that request is then refused for want of a slot,
`render_permit` reopens admission (771) and asks for the next trigger;
`next_trigger` finds no stream and returns `None` at 724-726 without closing
admission. A caller that joins in between is accepted and is told by the
guard that the "static render task ended before completion" (155). It gets an
error rather than hanging, so NoOrphanedWaiter and CallsReturn hold.

`static_policy_late`: `PolicyState::start` returns before it records anything when
the site root cannot be canonicalized (`policy.rs:289`), with the comment that such
a root "has no installed policy: opening a policy creates its root". The call goes
on, though, and will create the root itself. A policy can be opened and bound
after it, while the documentation of `configure_routes` says that binding "after
that root has started generating, or while another handle governs it, fails
without changing any runtime" (`policy.rs:190-193`). The early call has no
policy. It spends some time in its key lookup; when it then finds the managed
work of a later call, waiting for a render slot after a regeneration event, the
`expect("only managed work waits for capacity")` at `static_routes.rs:556`
panics. On a root that exists when the calls start this cannot happen:
`static_serving` shows it for its scenarios and `RefusalsHaveAPolicy` proves it.

One path in two generations (`static_serving`): the comment at
`static_routes.rs:58-60` says that the shared runtime is what "keeps startup and
request renders of one path in one generation", the one at 517-518 that "Every
spelling of one entry must find its active work before a new one is registered under
any of them". The key of a path depends on the rule `ascii_case_rule` observes
(208), and an empty volume that folds case has none to observe. A startup call for a
page with capitals looks then: its key is the requested spelling. It publishes the
first entry and, having a subscription, stays active. A request for the same page
that found no file before that publication looks after it, sees that the volume
folds, and has the lowered spelling as its key. It does not find the active work and
begins a second generation; each renders, subscribes and publishes the entry. The
files stay whole, because publications exclude each other (Publication). The comment
at 176-184 limits key lookup to best effort only for filesystem errors. A page
without capitals cannot be affected: its lowered spelling is its spelling.
OneWriterPerEntry excepts this case and no other for calls with one spelling, and
`EntriesHaveOneWriter` proves it for every instance. `static_serving` reaches it on
its empty volume: with `target[v] # target[w]` in place of the exception TLC reports
such a behaviour of twelve states.

## 8. Plan

Every part with state of its own has a module, every module with steps has its
proofs, and every safety property of a run is proved. What is left:

1. Reference definitions for `ToNtexPath` and `Matches` that do not share the
   code's structure, so that the conversion of patterns is compared as well.
2. The choice of a subprotocol and the decoding of server function arguments,
   which are not modelled.
3. Liveness proofs, once the prover handles `ENABLED`; the invariants about wake-ups
   (NoLostWakeup, NoMissedRequest, NoLostRetirement, NoSleepOnWork) are the safety
   part of them.
