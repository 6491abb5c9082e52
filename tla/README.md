# Verification of pi-web-js

pi-web-js runs an agent's JavaScript in a WebAssembly QuickJS VM inside a web
worker of a browser extension's side panel, and lets that code act on the tabs
of the panel's window. This directory holds TLA+ models of the parts where
several actors race, the TLC configurations that check them on small instances,
and TLAPS proofs for every size. `E/` below stands for
`src/crates/extension-js/js/src/`.

## 1. The system

```
 page (side panel, main thread)        worker                        tab, per frame
 useExtensionKernel                    worker.ts                     content-script/
   -> ExtensionSession  --requests-->    sessionQueue
      runQueue           <--replies--      -> ExtensionSession (WASM)
      pendingCalls                            run_cell_async_loop
      inFlightRelays    <--asyncRelay--          -> JsSession (QuickJS)
      TabTracker         --results-->          pendingRelays
      tools, network log --registryCall / Cancel---------------->  inFlightCalls
      <-- chrome.tabs, chrome.webRequest events                    lease, refIds
```

| Component | State | Operations | What makes it hard | What makes it correct |
|---|---|---|---|---|
| Host-call relay (`E/worker/worker.ts`, `E/main/session/extension-session.ts`, `E/content-script/registry.ts`) | `pendingRelays`, `inFlightRelays`, `inFlightCalls`, two message channels | call, answer, time out, cancel, reset, page lost | three tables in three processes; late answers, cancels, orphans | a promise settles once, success is real, no table leaks |
| Session and job queue (`extension-session.ts`, `worker.ts`) | `runQueue`, `pendingCalls`, `sessionQueue`, `activeRunCell` | `runCellAsync`, `reset`, other requests, `stopWith` | stop against running jobs; uncaught errors; traps | every request settles, once, with what happened |
| Cell loop and VM (`web-js-base/src/session.rs`, `web-js-core/src/session.rs`, `globals.rs`, `async_resume.rs`) | pending commands, `__webJsPending`, the top promise, `needs_reset`, fuel | run, batch, resume, clear a timer, abort, reset | commands yielded during resumes; cleared timers; partial failures | no command twice or forgotten; a cell ends and leaves nothing |
| Tab tracker and ownership (`tab-tracker.ts`, `tab-ownership.ts`) | `activeTabId`, `windowId` | Chrome events, queries, checks, acts, `rebindWindow` | the user moves tabs between a check and its use | only tabs of the session's window are acted on |
| Observation lease (`observation-lease.ts`, `ref-id.ts`) | `targets`, the refId counter, `data-ref-id` | observe, act by refId or label, invalidate | the page changes between observation and action | an action reaches what the agent was shown |
| Network log (`network-log-store.ts`) | four tables | webRequest events, list, get, clear | two limits, redirects under one id | the tables agree; each entry tells its own end |
| Blob and fetch stores, write caches (`E/worker/*-store.ts`, `vfs-write-cache.ts`, `vfs_write_cache.rs`) | take-once maps | store, take, clear | bytes cached for a file that changed since | setFiles sends the file's bytes |
| Navigation (`execute.ts`, `network-tracker.ts`, `tools/tab.ts`, `tools/page.ts`) | two listeners, `navSawLoading`, `sawLoading`, `graceTimer`, in-flight requests | `goto`, `wait_for_load`, ping, wait for idle | events before or after the listener; an old document that completes; timeouts | a goto returns its own document; no load is missed; each call ends |
| OPFS files (`web-fs/src/opfs.rs`) | the files | write, append, copy, move, delete | multi-step operations overlap in a batch and across panels | no data lost by a successful operation |
| API registry and bindings (`api_docs.rs`, `macros.rs`, `web/mod.rs`, `prelude.js`, `lib.rs`, both `session.rs`) | `REGISTRY`, `FROZEN`, the names of a JavaScript context | register one by one or in a batch, freeze, bind, reset | failed starts are retried; the registry outlives the contexts; names, aliases and proxies hide each other | a name belongs to one API; a context with bindings calls the tools it names |
| Calls (`prelude.js`, `command_params.rs`, `types.rs`, `api_docs.rs`, `web-js/src/browser_api.rs`) | one call: arguments, parameters, the handler's struct | call, dispatch, answer | three places that must agree on names and order of parameters | what a handler gets is what the call meant |
| Semantic tree (`crates/dom-semantic-tree`) | none | snapshot | the walk passes over, stops at and cuts off | lists what is visible, once, in order |
| Web demo (`crates/web-js`) | `data-ref-id` attributes, a pending `wait_for` | snapshot, find, act, wait, navigate | the page changes between them; refIds are numbered anew | an action reaches what was shown; a wait answers truthfully |
| Kernel hook (`web/src/hooks/useExtensionKernel.ts`) | `globalSession`, `initPromise`, `__kernelRunning` | run, stop, restart | stop while starting or running | one session, one cell at a time |
| Tool registry of the page (`tool-registry.ts`) | tool maps, frozen flag | register, freeze, call | two languages must agree | after the freeze every tool has its handler |
| Frame snapshots (`snapshot-merge.ts`) | none | snapshot every frame, merge | frames fail or navigate | refIds lead back to their frame |

The remaining parts (the extension's own snapshot walkers, schemas, file readers,
error wording, the notebook's rendering) are sequential or formatting; `PROJECT.json`
lists each with the reason.

## 2. Modules

### AsyncCall, Relay, RelayProofs

`AsyncCall` is what a caller who awaits a promise relies on: it settles once, the
command behind it is carried out at most once, and an `ok` is only reported for a
command that ended well. `Relay` and `Session` both implement it.

`Relay` is one host call from `safePostAsCall` to its promise. `Invoke` and
`Refuse` are the two ends of `safePostAsCall` at `MAX_PENDING_RELAYS`; `Timeout`,
`SettleAll` and `ReceiveResult` the three ways a promise settles; `HandleRelay`,
`HandleBadRelay` and `HandleCancel` the message handlers of the main thread;
`Locate`, `PingFails` and `PingAnswered` the awaits before a command is sent to a
page; `MainReturn`, `MainTimeout` and `OrphanReturn` a tool of the main thread;
`PageCall`, `PageCancel`, `PageReturn` and `PageGone` the content script. `StopWith` and
`Terminate` are the two ends of `stopWith`: the first aborts every relay in flight and
clears the map of the main thread, the second takes the worker with its promises and
messages; the worker's `stop` message, if it is handled in between, is a `SettleAll`.
Channels are one queue per relay: the code's channels are FIFO, and nothing depends on the
order between different relays, so the model allows more.

### Session, SessionProofs

`SessionProofs` also holds the proofs of `ApiRegistry`. The page's requests, from `runCellAsync` (chained by `runQueue`) or `postAndWait`
to the settled promise. Channel and `sessionQueue` are one FIFO because the
handler enqueues each message in the turn that receives it. `FinishJob` ends a job
of the worker, `UncaughtError` is the error listeners' blame on the active cell
(an error that was a WASM trap leaves its job hanging for ever), `StopWith` and
`Terminate` are the two halves of `stopWith` around its 50 ms. The host call of a
cell is one small state machine that stands for `Relay`.

### CellLoop, CellAndCallProofs

A cell is a sequence of segments (runs of the VM until its job queue is dry);
`Segments` says what a segment may have done: made calls and timers, cleared
timers, fulfilled or rejected the cell's promise. `FirstResult` and `ResumeResult`
turn the state of the VM into a result, `NextBatch`, `JoinAll`, `ResumeNext` and
`EndBatch` are the loop, `AbortNext` and `EndAbort` its abort path, `Stuck` its
stuck-cell error. `needsReset` follows the VM from one cell to the next; what the
new context then lacks is in `ApiRegistry`. What a cell does with an answer is left
open.

### TabTracker, TabTrackerProofs

Chrome's tabs and windows (external: `Activate`, `CompleteLoad`, `CloseTab`,
`DragTab` are the user) send events and answer queries through one FIFO `inbox`;
the page's handlers (`HandleEvent`, `HandleInit`, `HandleQuery`, `HandleGet`) run
one per message. A call of kind `relay` goes to the active tab after
`executeContentScriptCommand`'s check, `native` to tabs it names after
`assertTabOwnership`, `goto` through `navigateTab`. A relay is checked against the
session's window at that moment, `native` against the one it started with
(`CheckedWindow`); `RebindWindow` may come at any time. The history variables `where`
and `bound` record, of each call, which windows every tab was in while it was under
way and which windows the session had, and `hit` what the call acted on.

### ObservationLease, ObservationLeaseProofs

One document. The page adds, removes, changes and (with `Copies`) clones elements;
`Observe` allocates refIds and grants a lease; `ActOnRef`, `ActOnLabel` and
`ActRaw` are the three ways an action finds its element; every refusal observes the
whole document again, as the attached snapshot does, but that of a `press` without a lease
(`PressUnobserved`). A look is a fingerprint: the role, the name without its case and
spaces, and as one value the tag and how the name is written. A target that is still in
the document must have its look, all of it; `Refind` compares the first two. `shown` is what the agent was told, `twins` which refIds several
elements had at that time; both are histories.

### NetworkLog

`PushEntry` is `pushEntry` with both trims, `FinishEntry` the listeners that end an
entry, `ClearNetworkEntries` the clear by the agent or by the closing of the tab.
Arrays are sets of entry numbers, since entries are pushed in their order. `phase`
and `happened` are Chrome's own account of every request. The proofs are in
`LogAndPageProofs`, with those of `WebPage`.

### Files, FilesProofs

The extension's origin private file system under `fs.*`: every operation of
`opfs.rs` is the sequence of its awaits (`EnsureDir` and `EnsureFile` are
`resolve_file_create`; `Resolve`, `Size`, `Open`, `Commit` the steps of `append`,
`update` and `write_to_handle`; `Look` and `Take` those of `read`; `Remove` is
`delete`), and the operations of a batch, of the panel (`fsCall`) and of the panels
of other windows interleave. `Fail` is a rejected await, `Terminate` the end of one
worker or several, `Collect` the release of a stream that an error left open. A
content is a sequence of blocks, so that appends, updates and zero-filled holes can
be told apart. The two write caches from which `setFiles` takes bytes are part of the
module: `Start` fills them (`writeBase64` of a cell that in the WASM module, of the
panel that in the worker), `TakeCached` is `maybeResolveSetFilesParams` on a hit.
The histories `before` and `disturbed` hold the files at the start of an operation
and which operations overlapped another on the same path.

### ApiRegistry, ApiCatalog

`ApiCatalog` is data: the public name, aliases, action and fields of every API that
the Rust sources register, and the members of every parameter struct. `ApiRegistry`
is the thread-local registry in both programs (`host`): `OpenSession` runs the five
init functions and the docs of `register_web_module`, `RegisterBatch` is
`registerJsCallBatch` with any manifest of the page, `FreezeManifest` the freeze with
its look for async entries nobody executes, `InjectBindings` the last step of
`initWasm`. A start that fails (`stage = "failed"`) is tried again in the same
registry. `OpenWeb` is the session of the web demo; `LoseContext` is `needs_reset`,
after which cells run in a context nobody bound anything in (`stage = "bare"`). A
context is the names a script can see; `Visible` says when the proxy of a namespace
hides what is bound behind it, and `Bind` sets a name only where nothing is: not where
the prelude or the language has something (`Globals`), and not on what became the
namespace of another name first. The bindings come in the alphabetical order of the
actions, which the model does not know: `first` is any order (`Orders`). The APIs in Rust and the manifests are constants;
`RegistryAssumption` says that the tables of the program fit together, as they do or
the first start would panic, and of a manifest only that it holds async entries, which
`ApiManifestEntry::try_from` makes of whatever the page sends. `RegistryInit`,
`RegistryNext` and `RegistrySpec` have names of their own because the proofs are in
`SessionProofs`, next to those of the session that starts all this.

### ApiCalls

One call from the arguments of a cell to its outcome. `Transported` is `makeAsync`
(options, positions, single values, arrays), `Read` is what serde makes of the
parameters for a derived struct, objects by name and arrays by position, with the headers
of a request as a map of strings and its options as a struct of their own, `Parsed` adds
the untagged `FetchArgs`, and `Dispatch` starts the handler or reports invalid
parameters. Numbers are of one kind: that a width or a sign does not fit is left out.
`Meant` is written from the point of view of the caller and mentions none of these; the
property compares the two for every API, and names what a `fetch` loses (`MayBeLost`,
`Told`). `CallsAssumption` says what the
tables have to be for that (what a struct requires is among the fields, a single field is a
string or a number, no two fields or members have one name), and TLC finds the tables of
the sources so. `CallsInit`, `CallsNext` and `CallsSpec` have names of their own because
the proofs are in `CellAndCallProofs`, next to those of the cells that make the calls.

### SemanticTree, WebPage, LogAndPageProofs

`SemanticTree` has no state: `Role`, `Interactive` and `HasName` say of an element what
decides whether it is listed (the text of its name and its states are left out, no property
is about them), `Collect` is the walk of `traverse` and `recurse_children`
with its early returns, `Visible` what it should list, said without a walk. Both take from
the code which elements close what is in them (`Closed`, `EmptyGeneric`, `LeafSvg`): the
comparison is about the recursion, its returns and `max_nodes`, and would not see that one
of these three is wrong. Elements are
numbered in document order, which `TreeAssumption` says of `Parent`; `Behind` inside
`Collect` is a recursive function of the element and of the nodes so far, from an element
on through its next siblings, as the loop of `recurse_children` is. `WebPage` puts it in
a page that changes (`Toggle`, `Detach`, `Attach`, `Load` are external; an element that was
removed may come back with its refId, `removed`): `Snapshot`
numbers what it lists from `e1`, `Find` gives `webjs-find-<i>` to matches without a
refId, the actions find their element by refId, label or selector, which may also be given
as the refId (`Target`), and change it, `WaitFor`, `Look` and `Tick` are the loop of `wait_for` on a clock. `PageInit`,
`PageNext`, `PageSpec` and `PageTypes` have names of their own because `LogAndPageProofs`
holds the proofs of `NetworkLog` too.

### TabLoad, TabLoadProofs

One call of `web.tab.goto`, `page.goto` or `wait_for_load` against one tab. Chrome
(external) starts, commits, loads and drops navigations and answers `tabs.get` and
`tabs.update` in order; events and answers reach the panel later, through one FIFO
`inbox`. `pre` is `preNavigationUrl`, `saw` the two flags of the two listeners,
`ReadTab` is each of the looks of `waitForTabLoad` (`shouldSettleOnComplete`), and
`GraceFires`, `Deadline`, `Quiet` and `PingFails` are its timers. The history `others`
tells whether another navigation of the tab overlapped the call.

`MC*` modules give TLC its sets and symmetries; `CellLoop` needs no set of model
values and is run directly.

## 3. Runs

All passing runs check the whole state space of their instance. A property that
`PROJECT.json` lists for a passing run has a mutant there: a definition replaced by
one with a plausible bug, under which the property fails.

| Run | Instance | Shows |
|---|---|---|
| `relay_safety` | 1 page call, 1 main-thread call, table of 1, with fairness | types, exact tables, harmless cancels, also through a stop; `AsyncCall` is implemented; every promise settles; only a page whose handler runs can hold a main-thread entry for ever |
| `session_safety` | 3 cells, a reset, with fairness | no request lost, cells in order, true replies, errors blamed on the running cell; `AsyncCall` is implemented; everything settles unless a cell runs for ever in a session nobody stops |
| `cell_safety` | 2 cells of up to 3 calls, aborts, with fairness | no command twice or forgotten; `ok` leaves no call under way; only a throwing timer makes a cell stuck; every cell ends |
| `tab_safety` | 2 tabs, 3 windows, 1 call, 2 user actions, rebinds | the pointer that has caught up is ours, but for a query asked before a rebind; checked calls act only on tabs that were, during them, in a window that was the session's during them |
| `tab_goto` | 2 tabs | *violation*: `web.tab.goto` navigates a tab of any window |
| `tab_load` | 4 addresses, two of them not http(s); a tab that may be loading or navigating and moves once on its own; with fairness | an undisturbed goto returns its own document; no load is missed, however events and answers fall; each call ends |
| `lease_safety` | 3 elements, 3 fingerprints, two of them alike, clones and re-insertions | an action by a refId that was unique when observed reaches an element with the role and the name shown; an allocated refId is free in the document |
| `web_page` | 3 documents of 5 elements, one of which is hidden, removed, put back or made anew; 2 sets of options, refIds, a label and a selector; with fairness | snapshots list exactly what is visible; an action reaches what was shown or an element with a stale number; `wait_for` always answers, and truly |
| `log_safety` | 3 requests, 2 tabs, 5 entries, limits 2 and 3 | the tables agree, keep their limits, drop the oldest, and each entry tells its own end |
| `files_safety` | 2 operations of any kind, 2 paths, a directory, failures, terminations | an operation that none overlaps does exactly what it says, but for `setFiles` of a cached path and a move onto itself; wherever it is cut off, its files are whole |
| `registry_safety` | every API of the Rust sources; manifests of up to 3 of 11 tools, five of which do not fit, one has a name of the prelude and one a name that is a namespace | names stay unique and no start panics, over failed starts, resets and new workers; in contexts with bindings no name calls another API's tool, and each async API answers to the names that are not taken |
| `api_calls` | every API of the web demo and two of the page, up to 2 values of every kind (3 where there are 3 fields), every subset of members, and each with one of another type | a handler gets each value in the member it was meant for, or the call is refused; the options of `fetch(url, options)` are lost, and so are the members of a `fetch` with one of a wrong type, but its url and options |

The violation is a `finding` in `PROJECT.json` with the line of the code and the
sentence of the repository it contradicts. Where the code keeps only a weaker form of
what one would expect, the passing run of the module checks that form and the
comment of the property says what is missing. Several properties are conjunctions of
named parts (`RequestsAccounted`, `EachCallOnce`, `StatusTellsOfCalls`, `KeepsTheLatest`,
`CallsAreUnderstood`, ...), each part with its own comment.

**Seen while modelling.** The models follow the code in these places too, where a
comment or a test says more than the code does; no run is spent on them.

- `stopWith` aborts the relays in flight before the worker hears of the stop, so that an
  error they end with is swallowed although its cell still waits
  (`extension-session.ts:1036`, `:433`). The wait ends with the stop, with `E_STOPPED` or
  with the worker: `DroppedReplyUnawaited` says so, and that nothing else is swallowed.
- A relay that is aborted while its tab is pinged is sent to the page, and its
  `registryCallCancel` is not (`extension-session.ts:729`): the listener is added
  after the signal fired.
- The worker's `stop` waits in `sessionQueue` behind the running cell, so a relay it
  should settle is still pending when the worker is terminated (`worker.ts:1067`).
- `resume_cell` returns `ok` for a cell whose promise is still pending when no call
  is left (`web-js-core/src/session.rs:670`).
- `clearTimeout` of a timer whose sleep is being executed makes its resume an
  internal error, which costs the session its VM (`globals.rs:301`).
- A tab dragged to another window between the check and the act is acted on there
  (`extension-session.ts:656`). The tab need not even have been the session's at any
  one moment: it is in a foreign window when Chrome answers `tabs.get`, is dragged on
  to a third one, the session is rebound to the window of the answer, and the check
  passes. `TouchedWasOurs` is what remains true. An earlier form of it, that the tab
  had been ours at some moment of the call, held in every run over two windows; the
  proof found the behaviour with three.
- A background tab that finishes loading becomes the active tab
  (`tab-tracker.ts:185`).
- The answer to a query asked before `rebindWindow` sets the pointer to a tab of the
  old window, and no event of the new window corrects it (`tab-tracker.ts:127`).
  `PointerIsOurs` of `TabTracker` states the intent; `PointerCatchesUp`, which is
  checked, is the part the code keeps.
- The lease of a snapshot that shows only a clone is on the original, because the
  refId is looked up again in the document (`observation-lease.ts:283`).
  `ActsAsShown` states the intent; `ActsAsShownIfUnique` is checked.
- `fs.move` of a file to its own path deletes it (`opfs.rs:318`): the target is
  written and then, being the source, removed. `UndisturbedIsExact` leaves it out.
- Two appends of one batch read the same size and the later one to close overwrites
  the other (`opfs.rs:404`).
- `setFiles` sends the bytes of an earlier `writeBase64` after the file was written
  again, and prefers the cache of the cells to that of the panel, whichever is newer
  (`worker.ts:573`); `vfs-write-cache.ts:1` speaks of one running cell only. The step
  is `TakeCached`; it reads no file, and `UndisturbedIsExact` is of those that do.
- A write that fails between `createWritable` and `close` neither closes nor aborts
  its stream (`opfs.rs:183`), so that `fs.delete` of the file fails until the stream is
  collected.
- The refId counter goes back when the elements with the largest refIds leave
  (`ref-id.ts:17`), and a connected element that changed is stale at once, without
  being looked for again (`observation-lease.ts:135`). The search for one that is gone
  has no fallback to the role alone (`observation-lease.ts:14` speaks of one): it
  compares the role and the name, but neither the tag nor case and spaces.
- After an internal resume error the next cell runs in a context without API
  bindings (`web-js-core/src/session.rs:306`), and so do the cells of the web demo
  after a stop (`web-js/src/session.rs:128`); the extension's own `reset` rebuilds the
  context at once "so bindings are injected into the new context"
  (`extension-js/src/session.rs:51`).
- The synchronous names `web.log` and `web.url.parse` are not bound in the extension:
  the proxy of their namespace answers an unknown member with a function
  (`prelude.js:284`), and bindings are only set where nothing is found. The contract test
  `all-apis-extension-contract.js:1131` expects them to work.
- An async API whose name is a global of the context (`path.join`), a member that every
  object inherits (`toString`) or a namespace that other names made before it is registered
  and documented, and cannot be called by that name: the bindings skip what they find
  (`prelude.js:250`). `Taken` names the cases; no API of the sources is one.
- `register_executable_entries_batch` says it is atomic, and keeps what it inserted
  before an action that is registered already (`api_docs.rs:471`); a retry of a start
  that failed after it then fails on the names of the first one.
- `fetch(url, options)` by position loses its options: the untagged `FetchArgs` reads
  every such call as `FetchParams`, which has no such member (`command_params.rs:262`),
  although the enum is headed "Fetch positional args support" (`command_params.rs:247`) and
  a test posts that way (`web/tests/e2e/web/fetch.spec.ts:71`; it only asks that the cell
  ends, not what was sent). `ArrivesAsMeant` names this as the one value for a field that
  may be dropped (`MayBeLost`). And `fetch({url, method: 5})`, or one with a header that is
  no string, is not refused: what does not fit `FetchParams` is read as `Positional`, which
  ignores the members it does not know, so that one wrong member of several turns the
  request into a plain `GET` of its url (`Told` in `ApiCalls`).
- One positional argument to an API without fields is refused unless it is an object or
  an array; surplus arguments are dropped; the documented parameter `ref_id` is ignored,
  since the structs want `refId`. A callback of the page that takes longer than 30 s is
  reported as failed and goes on (`api_docs.rs:701`).
- A visible child of an element with `visibility: hidden`, or of a wrapper without size,
  is not listed (`collect.rs:136`); an empty `aria-label` is the name of its element
  (`name.rs:17`); a name that a snapshot took from `title`, `alt` or a label does not
  lead back to the element (`find_element_by_label`).
- In the web demo the refIds of a snapshot do not replace those of what it does not list
  (`collect.rs:438`), and `webjs-find-<i>` is given to elements of different finds
  (`browser_api.rs:1909`), so that several elements can carry one; `select` answers ok
  on any element, `press` without its element goes to the document, `goto` answers before
  the navigation.
- A goto to a tab that is still loading, or that another navigation or `pushState`
  overlaps, may return the document it was to leave: the old page's `loading` is taken
  for its own (`execute.ts:198`). A redirect back to the old address is reported as a
  navigation that did not start, a refused navigation to the tab's own address as a
  success, and a tab closed during the wait is noticed at the deadline.
- `networkidle` looks at both ends of its 500 ms and not between them, and counts only
  requests that begin after it started to listen (`network-tracker.ts:80`).

**Why the bounds are enough.** The safety properties of the modules with proofs (§4)
hold for every value of the constants, so that their bounds only matter for liveness,
and for the reader who wants to see that the interesting cases occur. A relay's tables interact only through
`MAX_PENDING_RELAYS`: a call of each kind over a table of one has the full table, the
refused call and every interleaving of two relays. Cells interact by being queued or running: with three, one
runs, one is posted and one still waits on the page, next to a control request. Three
calls of a cell give a batch of two whose first resume yields a third command, and
a timer cleared by another call of its batch. Three windows and two tabs give a
foreign tab, a background tab, a tab that moves between them and a rebind to the
window it left; two actions of the user move it away and on, or back. Three elements give an
original, a clone and a bystander; what looks the page gives each (`Drawn`) is bounded, so
that one changes, one can be taken for it and one has only its role. Limits of two and three with five entries let
each limit evict before and after the other, and a redirect evict its own earlier
hop. An operation on files meets another one at its own path or at the directory
above, so two operations on a file in a directory and a file in the root have every
overlap of a pair. The APIs and structs are all there; a batch of three has two entries
that clash with each other or with the registry and one behind them. Arguments are told
apart by kind and number, and no API has more than three fields. The documents have a
hidden, an empty, a passed-over and an excluded element, a drawing, a label and a box
without size, and the element that comes and goes (`Changing`) is first a child, then
a missing one; a field of one word (`MaxValue`) is full and a limit of three nodes cuts a
snapshot off. A `wait_for` of one interval (`Timeout`, `Interval`) with a
timer one tick late (`MaxLate`) looks before, at and after its deadline. A tab with the
address it leaves, the one it is sent to, one of chrome:// and about:blank, which may
redirect to any of them, and one move of its own (`MaxMoves`) has every case the checks of `navigateTab`
tell apart; what it does after the tool returned does not matter to it.
`registry_safety`, `api_calls` and `web_page` also find no deadlock; the other systems may
rest for good (a session is left alone, a call is over, a bound is reached), and their
configurations say so.

**Fairness.** `Relay`: messages are delivered, the worker's timer, the main
thread's timeout, the grace period of a stop and the deadline of the ping fire; nothing makes a tool or a page
answer. `Session`: messages are delivered, callbacks run, the timers of `stopWith`
and of a relay fire, and the jobs other than cells end; a cell need not, and
`RequestsSettle` therefore supposes that no cell keeps a session busy that nobody stops
(`CellsEnd`). `CellLoop`: the loop goes on,
which supposes that host calls settle, which `Relay` shows. `WebPage`: time passes and
the timer of `wait_for` fires. `TabLoad`: Chrome answers, the panel handles what it gets,
and its timers fire; nothing makes a tab load. All of it is weak fairness:
an event loop never postpones a ready task for ever, and none of these steps can be
disabled and enabled again without end.

## 4. Proofs

Every theorem is about all values of the constants: any sets of calls, cells, tabs,
windows, elements, documents, requests, operations, files, APIs and manifests, and any bounds and
limits. The only
assumptions are those that the modules name (`ASSUME ...Assumption`): bounds are numbers,
flags are Booleans, the kinds of a set are told apart, in `Files` the value for "no file"
is no content, in `TabLoad` "undefined" is no result, in `ApiRegistry` the tables of the
program fit together, in `ApiCalls` the fields of an API fit its struct, in `SemanticTree`
elements are numbered in document order, and in `WebPage` documents are loaded without
refIds, hold each element with its ancestors, and different numbers make different refIds.
TLC evaluates them in every run, those of `ApiRegistry` and `ApiCalls` on the complete
tables of the sources.

| Proof module | Inductive invariant | What it adds to the properties | Theorems |
|---|---|---|---|
| `RelayProofs` | `RelayInv` | `Consistent(c)`: which contents of the queues go with which stage of a call | types, `TablesExact`, `CancelsAreSafe`; the table's limit, real successes, one answer; refinement of `AsyncCall` |
| `SessionProofs` | `SessionInv` | what the worker took was posted; its queue holds new requests, once; it works on what it took; a cell is on the chain once | types, `RequestsAccounted`, `CellsInOrder`, `BlamesRunningCell`; refinement of `AsyncCall` |
| `SessionProofs`, registry | `RegistryInv` | an empty registry, or one that holds all that a start would register | types, `RegisteredOnce`, `CellsCallTheirTools`; nothing registered is replaced |
| `CellAndCallProofs`, cells | `CellInv` | where commands may wait at each point of the loop; what the result says of the VM | types, `EachCallOnce`, `StatusTellsOfCalls`; what clearing timers leaves in a queue |
| `CellAndCallProofs`, calls | `CallsInv` | a call under way has the parameters its arguments became; which steps may have refused it | types, `CallsAreUnderstood` |
| `TabTrackerProofs` | `TrackerInv` | a message about a tab is true or taken back by a later one; so is the pointer; a reply answers the call that waits; what passed a check may be touched | types, `PointerCatchesUp`, `TouchedWasOurs`; without rebinds also `PointerIsOurs` and that one window is touched |
| `ObservationLeaseProofs` | `LeaseInv` | refIds are counted up, an element at a time; the lease holds what was shown | types, `ActsAsShownIfUnique`, `AllocatedIsFree` |
| `LogAndPageProofs`, log | `LogInv` | `activeByRequest` holds its own request's entry; an unfinished entry is its request's latest, of a request under way | types, `KeepsTheLatest`, `TellsItsOwnEnd` |
| `LogAndPageProofs`, page | `PageInv` | the document is a tree; an element of the latest snapshot carries no other number of a snapshot than its place in it | types, `SnapshotIsExact`, `ActsAsShown`; `WaitTells` |
| `FilesProofs` | `FilesInv` | what each step of an undisturbed operation has done to its files and knows of them; that overlapping operations are both disturbed; an open stream has its file | types, `UndisturbedIsWhole`, `UndisturbedIsExact` |
| `TabLoadProofs` | `LoadInv` | whose turn it is in the two queues; that the news of a load is on its way; what an undisturbed goto knows of its tab before, during and after its navigation | types, `GotoArrives`, `NoLoadMissed` |

The invariants are in the modules of the models, and TLC checked each of them on the
instance of its run before it was proved. Each proof has a lemma for the first states,
one per action or per kind of action, and one that puts them together.

**Relay.** That the main thread, while the session runs, swallows no answer somebody waits
for depends on what the queues hold: a `relayCancel` is only sent after its promise settled, follows its
`asyncRelay`, and is handled after it. `Consistent(c)` speaks of one call only, so a
step of another call cannot disturb it (lemma `Frame`), and the step lemmas follow the
processes: `WorkerConsistent`, `MainConsistent`, `PageConsistent`,
`SettleAllConsistent`, `StopConsistent`, `TerminateConsistent`. A stop aborts relays that
are awaited; that such a relay is out of the table keeps a late `relayCancel` from
cancelling its page twice. `BoundedStep` is the only place where calls meet. The
refinement (`RelaySimulates`) maps `call` to the promise and `work` to the command, and
needs the invariant in one place: an answer `ok` is only read after the handler ended
well (`AnswerRead`).

**Session.** The order of cells is not inductive: it is about the cells on the chain,
in the channel and at work, and the chain only keeps it because a cell stands on it
once and what the worker took was posted before. `SessionSimulates` maps every step to
a step of `AsyncCall`. `Terminate` settles everything at once and is the one action
that changes many promises in a step; `FailSome` of `AsyncCall` lets any set of them fail.

**ApiRegistry.** `RegisteredOnce` alone is not inductive: a session is opened again in a
registry that a failed start filled in part, and that nothing of it is registered twice,
or panics, depends on what exactly is there. `RegistryInv` says that after the first start
the registry holds every built-in entry as that start left it (`BuiltIn`), whatever
manifests came since; then `has_handler` finds the first entry of each group, the init
functions register nothing (`LaterStart`) and the docs find their names taken
(`DocumentedStays`). A batch is the one step that brings in names from outside:
`CommittedIsApart` shows that what is committed, up to the first entry refused, has
names apart from the registry's and from each other, although each entry is only looked
up in the registry as it was before the batch. `Sound` and `Apart` are the invariant of a
registry and of what may join it (`JoinIsSound`); `BoundCalls` is the same for the names of
a context, which needs that names are unique before it can say whom a name calls; it
holds for any globals and any order of the bindings.
`RegisteredStays` is an action property no run checks: as long as the worker lives, no
step replaces a registered entry or its handler. The assumption that the tables fit is
needed where `CoreIsBuilt` and `WebIsBuilt` treat the first start.

**CellLoop.** `Once` says `EachCallOnce` of four queues (the batch, what its resumes
yielded, the queue of the VM, the result), and `Segment` says what any run of the VM
may have done to it: new calls are numbers beyond those issued, so they meet nothing
that waits. `Resumes` is the same of `resume_cell` with all its outcomes. Clearing a
timer filters a queue of any length, a recursive function, and what it leaves is proved
by induction (`WithoutKeeps`). The library's induction theorems take an operator as
parameter, which none of the provers instantiates; `SetInduction` states induction for
a set of numbers instead and is proved from the well-foundedness of finite sets.

**ApiCalls.** The steps of a call are few and `CallsInv` is small; the work is in what
`makeAsync` and serde make of arguments. `GivenIsMeant` says that whenever a struct fits the
parameters, what it is read from is what the call means: `NoneIsMeant`, `OneIsMeant` and
`SeveralAreMeant` go through the forms of arguments, and the ones that lose their names on
the way (a Boolean alone, no argument for `extract`) are those that fit no struct
(`FieldsAreRequired`). `ToldIsRead` is the fallback of `fetch`: its parameters are an
object, since it has fields, so both structs are read from the same members. `FieldsAreTold`
is why no other field's value is dropped. For
`FieldsAreEnough`, `EachGetsItsName` shows that one value of the right type for each field
arrives under that field's name, and `FieldsSuffice` that the struct then fits.

**TabTracker.** The pointer is late by what is in the `inbox`, so its invariant is about
every message in it (`NewsIsTrue`, `PointerIsTrue`): the tab it names is in the window
it says, or the message that takes it back is behind it. `UserKeeps`, `AnswersKeep` and
`ReceiveKeeps` are the three things that may happen to the queue. `TouchedWasOurs` needs
that there is no `goto` (its theorem supposes `"goto" \notin Kinds`, as the run does: the
violation of `tab_goto` is about it). `PointerStaysOurs` and `TouchesOneWindow` show that
rebinding is the only thing that weakens both: without it the properties one would
expect hold as they stand.

**ObservationLease.** A refId that a clone carries is no longer unique, and the counter
goes back; what saves a refId that was unique is that the lease holds a look like the one
that was shown and the action compares it. A rebinding replaces it by a look alike, which
is as good for the next one (`AlikeIsShown`). `CountUpTo` is the arithmetic of allocation, by which
refIds given out in one observation differ from each other and from all others.

**NetworkLog.** `PushKeepsTheLatest` is the step in which both limits evict; the set of
entries to drop is characterised by `OldestProperties` (as many as are too many, and all
of them older than any that stays).

**SemanticTree and WebPage.** `CollectIsVisible` is about every tree and needs no state.
`InsideIsTogether` says what document order gives: what lies between an element and
something in it is in it. So what there is from an element on (`Rest`) is the element,
what is in it, and what there is from its next sibling on, in this order (`InsideIs`,
`RestIs`), and listing it is joining three lists (`InOrderJoins`). `AfterIs` goes through
the early returns of one step (full, closed, passed over, empty, a drawing), `WalksOn`
puts the step before what comes after it, and the induction goes down from the last
element, since first children and next siblings come later. That the limit may be
applied at every step or once at the end is `UptoJoins`. For `ActsAsShown` the snapshot
must list each element once (`VisibleLists`): then its numbers are its own
(`CarriesItsOwn`, of elements in the document and of those taken out of it), whatever
finds, removals and insertions do, and the first carrier
of a number is the element shown, an earlier one with an older number, or none
(`OnShown`). `WaitTells` is the safety half of `WaitAnswers`.

**Files.** `HasDone` and `Knows` say for each step of each kind of operation what it has
done and read; they are kept by steps of other operations because those either touch
none of its files or disturb it (`MoveKeeps`), and by its own steps one lemma each
(`ResolveKeeps` to `RemoveKeeps`). `UndisturbedIsExact` is an action property: it follows
from the invariant at the last step (`CommitIsExact`, `RemoveIsExact`).

**TabLoad.** What a wait believes depends on messages it has not read yet. `SeesLoading(i)`
is what the tool will have seen of a load when it comes to message `i`, and it does not
change while messages arrive behind (`SeesMore`) or are read before (`Reads`); so the
invariant can say of each answer under way whether it will be believed. `NoLoadMissed`
follows from `NewsComes`: while a document that has loaded is waited for, a look at the
tab is under way or a message that says "complete" and will be acted on. `GotoArrives`
needs three phases: the tab is `Untouched` until the navigation commits, while it is
`UnderWay` exactly the messages read before its beginning say "complete" and are taken for
the old document, and after it the document is the goto's own. There is a lemma for each
step of Chrome (`StartKeeps` to `AnswerUpdateKeeps`), for each message that is read
(`EventIsRead` to `TabIsRead`), and for the timers.

**Only model-checked.** All liveness (the prover has no rule for fairness and ENABLED in
use here): `NothingHangs`, `RequestsSettle`, `CellEnds`, `CallEnds`,
`WaitAnswers`.

## 5. What the models leave out

Wording and schemas; ranges and formats of values; a session without a window;
intervals, standard input and the value of a cell; page navigation that replaces the
content script in the middle of a relay (the relay has it as `PageGone`); snapshots that
fail; in `Files`, nested directories, a path that is a file at one time and a directory at
another, and the normalisation of paths; the take-once handles of blobs and fetched
bodies. Of the web demo: `fetch`, storage, `sleep`, `host.call`, `extract`, `url`,
`title`, the formats of snapshots and the wrappers of `fs`, each a single call of the
browser or formatting, and selects with several values. Of the semantic tree: shadow
roots, iframes and geometry, but for "without size"; a document is loaded and an element
made without a refId (no page brings its own `data-ref-id`, and none clones an element that
carries one). In `TabLoad`: same-document
navigations, the own navigation of `tab_create`, and `NetworkTracker` beyond its outcome.
A WASM trap is a job that never ends, as in the code, and is only undone by
`stopWith`. Four assumptions on Chrome: events and replies reach a page in the order
they were made; a tab is `loading` from the start of a navigation to the load of its
document; a request has one `requestId` over its redirects; a writable stream
writes to a swap file that replaces the file when it is closed and blocks its removal
while it is open. The hazards no property covers are listed in `PROJECT.json`, each
with the reason.

## 6. Plan

In this order; all of the first list is done.

1. `Relay` with `AsyncCall` and its proofs.
2. `Session`, 3. `CellLoop`, 4. `TabTracker`, 5. `ObservationLease`, 6. `NetworkLog`,
   7. `Files` with the write caches.
8. `ApiCatalog`, `ApiRegistry` and `ApiCalls`: from registration to the parameters of a
   call.
9. `SemanticTree` and `WebPage`.
10. `TabLoad`.

Left for the models, in order of what they would add: the take-once handles of a run
(`binary-blob-store.ts`, `fetch-store.ts`); intervals in `CellLoop`; the start-up in
`Session`; `Session` over `Relay` instead of its one-call summary; the kernel hook.

Theorems to prove next: that the host calls of `CellLoop` implement `AsyncCall`, as those of
`Relay` and `Session` do.
