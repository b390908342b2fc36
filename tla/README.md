# CE-mcp-backend: TLA+ models and proofs

CE-mcp-backend lets an MCP client drive Cheat Engine.  This directory holds TLA+
models of its stateful parts, the TLC configurations that check them on small
instances, and TLAPS proofs of the properties that matter most.

1. The system  2. Modules  3. Runs, bounds and fairness  4. What is proved
5. What the code does not keep  6. Limits of the models  7. Plan  8. Not modelled

## 1. The system

Three programs, four boundaries:

    MCP client --HTTP/stdio--> sidecar (src/ce_mcp) --named pipe--> bridge (src/bridge, Lua in Cheat Engine) --> target process
                                                                      ^
    operator --command line--> controller (src/ce_controller) --starts/stops--+

| Component | State it keeps | Operations | What is hard |
|---|---|---|---|
| Bridge: scan and signature operations (`ce_mcp_bridge.lua` 80-109, 1646-2063) | table of operation handles, one Lua thread each, a native MemScan, FoundLists, the signature start timer | scan.start/refine/results/close, signature.start/result/close, operations.get/list/cancel, cleanup | worker threads share the operation table with the main-thread handlers and take no lock; a progress poll and the worker both publish results; cancel, close, target change and disconnect can come between any two steps of a worker |
| Bridge: target session (331-398, 526-568, 2329-2394) | pid, generation, sessionId, logicalDetached, attach timers | process.attach/get/detach, the STALE_SESSION gate, refresh on every request | attach takes effect a second after it is accepted; the target may exit or be changed by Cheat Engine's own UI at any time; opening a process may rebuild the Lua state (61-62, 531-532) |
| Bridge: debugger and event ring (111-142, 1182-1551) | ownership, active/stopped, processSuspended, stopGeneration, global callback, breakpoints, event ring | debug.control.*, breakpoints.*, events.list, registers.read, cleanup | stops arrive as callbacks; cached debugger state; adopted or owned debugger; ring rollover under cursors |
| Bridge: DBVM (144-155, 2065-2276) | watches, one trace | dbvm.watch.*, dbvm.trace.* | they outlive the target; native calls that fail; a detach that does not clean up |
| Bridge: memory, symbols, disassembly, pointers, structure reads (570-1180, 2036-2052) | none | reads | sequential data code |
| Bridge: pipe worker (2396-2504) | connected, pipe | accept, frame, execute, clean up | disconnect at any point |
| Sidecar: service (`service.py`) | cached session, statistics, one lock | call_tool: preflight, transport call, session update, reconciliation | answers lost after the bridge acted; mutations must not be repeated; session cached across calls |
| Sidecar: transport, protocol, framing | stream, request counter, lock, a timer per call | call, connect, verify, timeout, discard | timeout racing the answer; a late answer must never be taken for the next one; cancellation that finds nothing to cancel |
| Sidecar: artifact store (`artifacts.py`) | directory of files with manifests, verification cache | create, list, preview, metadata, delete, prune | crash between file and manifest; quotas; stale cache; two sidecars on one directory |
| Sidecar: structure workspace (`structures.py`) | structure definitions with revisions | create, update, delete, get, list | optimistic revisions of several clients, limits, restarts |
| Sidecar: audit log (`audit.py`) | current and rotated files | append, rotate | rotation at the limit, failure and crash within it |
| Sidecar: MCP adapter (`mcp_adapter.py`) | none | call_tool with an output limit | advice to retry a call that was already carried out |
| Sidecar: server, CLI, policy, models, schemas, catalog | configuration | validation, HTTP | one configuration file, read by two programs |
| Controller (`ce_controller`) | none of its own: the host's process list | status, start, stop, restart | the list is read, then acted on; a second operator or the user acts in between |
| Smoke programs and probe targets (`*_smoke.py`, `*_probe*`), `scripts/` | none | live checks | need Cheat Engine |

Interactions.  The sidecar sends one request at a time on the pipe and caches the
session (id and generation) that each answer carries.  The bridge compares that
session with its own before every target method (2370-2386) and runs the handler
on Cheat Engine's main thread through `thread.synchronize`, so handlers, timers
and debugger callbacks exclude each other.  Only the Lua threads of scans and
signatures run beside them.  When the pipe closes the bridge cleans up every
debugger, operation and DBVM resource (2442-2450).  The bridge launches one sidecar
with its own pid (`StartCEMCPBridge`); that sidecar exits when its host does.  The
controller starts and closes hosts, and learns of their state by asking that sidecar
over HTTP.  Artifact store and audit log are directories that several sidecars of a
user may share.

What makes each part correct is stated in the modules' last section, in one comment
per property; `PROJECT.json` lists, under "hazards", what each is about and where in
the code it bites.

## 2. Modules

| Module | Part of the code | Composed with |
|---|---|---|
| `ScanOperations` | operations and workers of the bridge | `MCScanOperations`, `MCLiveness` |
| `TargetSession` | session gate of the bridge | extended by `SidecarService` |
| `SidecarService` | `BackendService.call_tool` over the pipe and `TargetSession` | implements `MutationOutcome` |
| `MutationOutcome` | abstract: what a caller may rely on | |
| `DebuggerControl` | debugger of the bridge | |
| `DebugEvents` | event ring and a paging client | `MCParts` |
| `Hypervisor` | DBVM watches and trace | `MCParts` |
| `PipeTransport` | `transport.py`, `framing.py` | `MCParts`, `MCLiveness` |
| `ArtifactStore` | `artifacts.py` and its tools in `service.py` | `MCParts` |
| `AuditLog` | `audit.py` | `MCParts` |
| `StructureWorkspace` | `structures.py` and its tool | `MCParts` |
| `OutputLimit` | `mcp_adapter.py` and a client that follows its advice | `MCParts` |
| `SharedConfig` | `server_config.py`, `mcp_server.py`, `ce_controller/config.py` | `MCParts` |
| `HostController` | `ce_controller/core.py`, `platform.py`, the sidecar's life | `MCParts` |
| `ScanOperationsProofs`, `DebuggerControlProofs`, `TargetSessionProofs`, `SidecarServiceProofs`, `PipeTransportProofs`, `ArtifactStoreProofs` | theorems about the module they name | |
| `ControllerProofs` | theorems about `HostController` and `SharedConfig` | |
| `PartsProofs` | theorems about `DebugEvents`, `Hypervisor`, `StructureWorkspace`, `OutputLimit`, `AuditLog`, and `MCParts` | extends the proofs of the other parts |

### ScanOperations

One action per request handler, timer or cleanup; one action per shared read or
write of a worker thread.

| State | Code |
|---|---|
| `generation`, `attached` | `state.generation`; a target is open and not logically detached |
| `counter`, `table` | `state.operationCounter`, the keys of `state.operations` |
| `op[o]` | the Lua table of operation `o`, which its worker keeps after it left `state.operations` |
| `worker[o]` | the worker's position, `thread.Terminated`, and its locals `oldFoundList`, `refinedFoundList`/`firstFoundList`, the outcome of `pcall` |
| `lists[o]` | every FoundList ever created for `o`: the pass whose rows it shows, and whether it was destroyed |
| `op[o].native` | the MemScan inside Cheat Engine: scanning, all addresses read, files complete |

`op[o].everCancelled`, `op[o].overtaken`, `op[o].requested`, `op[o].passes`,
`worker[o].raised` and `lists` are history or native state; no guard of a handler reads
them except the bounds.  Failures of `createMemScan`, `firstScan`, `nextScan` and
`createFoundList` are choices of the actions that call them.  A failure that a `pcall`
catches becomes the operation's error; one outside every `pcall` (the `createMemScan` of a
signature, 1981, the reading of its results, 1997-1998, and the block in which a scan
publishes) ends the thread and leaves the operation running and its slot taken: `raised`
marks it.

What `getProgress` says between two passes is Cheat Engine's business, and nothing in the
bridge checks it: a poll may find the finished pass still reported as complete while the
worker has announced the next (1784) and not begun it (1787).  The poll then publishes the
rows of the pass before.  `overtaken` marks an operation to which that happened; section 5
has the run, and what `scan.results` serves is a property of the others.  A worker's two steps `FirstScan` and `MarkRunning` do not look
at `terminated`, because the code does not.  `thread.synchronize` makes a worker's
publishing block atomic with respect to handlers; between those blocks a worker runs
freely, which is why every shared read and write of a worker is an action of its own.

Abstracted: scan parameters, validation of arguments, the rows themselves, paging,
messages, the FoundList that a signature makes and destroys in one block.  The module is
about one life of the Lua state; `TargetSession` has what becomes of sessions when it is
rebuilt.

### DebugEvents

The ring of debugger events and a client that pages through it.  `eventCounter`,
`events` and `generation` are the fields of `state` and `state.debug`; `client` is what
one client holds: its cursor, and as history what it was sent and told was dropped.
`RecordDebugStop` is `recordDebugStop` (1222-1236), `EventsList` the handler
(1446-1473) with a client that passes on the cursor it got, `CleanupDebugger` and
`NewTarget` the two ways the ring is emptied: the first leaves the counter running, the
second restarts it.  A rebuilt Lua state is a `NewTarget` to the ring: empty, counting from
0, with a generation of its own.

### DebuggerControl

Who owns the debugger, whether the target is stopped, the global callback, and the
breakpoints.  State of Cheat Engine (`backend`, `waiting`, `suspensions`, `hook`,
`armed`) is kept apart from what the bridge remembers of it (`ownership`,
`processSuspended`, `stopGeneration`, `callbackInstalled`, `breakpoints`), because the
user acts on the first without the second.  Handlers refresh what they cache exactly
where the code does.  `client`, `stops`, `named`, `lost`, `failed` and `stranded` are history: the stop a client
last saw, the stops there were, the calls of Cheat Engine that failed, and the breakpoints
whose Lua state went away.

A start that fails does so in one of two ways.  When `debugProcess` itself fails
(`StartCallFails`), cleanup acts on whatever ownership there was; when the interface it
brought up is not supported (`StartUnsupported`), the handler has already made itself the
owner (1295) and cleans up as such (1299-1300).  `BridgeRestarts` is `openProcess`
rebuilding the Lua state: the callback goes with it, ownership is forgotten, `stopGeneration`
counts from 0 again, and what Cheat Engine has (the debugger, a suspension, armed
breakpoints) stays as it is.  The statement about stop generations is therefore about one
life of the Lua state; the one about adopted debuggers speaks of those that are still there
when they are given up.

Abstracted: kinds of events and `pendingStep`; register contents; the addresses of
breakpoints.  Assumed: reading debugger state does not fail; a native continue takes
effect at once; a breakpoint is set only while a debugger is active.

### TargetSession

The bridge's answer to "which process is this request for".  `bridge` holds `state.pid`,
`.generation`, `.sessionId` and `.logicalDetached`; `timers` the attaches that were
accepted and have not happened; `opened` and `running` are Cheat Engine's process and
Windows' processes.  A request is executed in one action (the main thread does nothing
else meanwhile), but the target can exit inside it: `Rechecked` is the second look that
`requireTarget` and `session()` take.  `status.get`, `process.attach`, `process.get` and
`process.detach` are modelled as they are; every other target method is `mutate`, which
refuses, acts or fails.  Reads are like `process.get` to the session.

### SidecarService and MutationOutcome

`SidecarService` extends `TargetSession` with `BackendService.call_tool`.  One call holds
the lock at a time; its phases follow the code: the accepted audit record and the
preflight (`Invoke`), the request on the pipe (`Send`), its execution by the bridge
(`Serve`), the answer (`Receive`), and for attach and detach the reconciliation loop
(`Send` of a `status.get`, `Observe`, `GivesUp`).  The transport may fail at every step
(`TransportFails`), an answer may be malformed (`ReceiveGarbled`), and a request whose
caller was answered may still be executed (`Serve` does not ask whether anybody waits).
The bridge's worker serves one connection to its end, so a new request is sent only when
nothing of an earlier one is left.

`MutationOutcome` is what a client may rely on, in one page: a call takes effect at most
once, and never when it was told that a retry is safe.  `OutcomeIsHonest` says that
`SidecarService` implements it, with `outcome` and the history variable `executed` as the
mapping.

Assumed: the seed of a rebuilt bridge is not a generation that was given out; an error the
bridge flags as safe is raised before any effect; the handle Cheat Engine holds keeps a
dead target's pid from being reused; a process that can be opened is opened or left alone.

### PipeTransport

`WindowsNamedPipeBridgeClient`, an action per system call.  `client` is the object: how
it was configured (`auto`, a pid, a pipe named after a pid, another name), whether
`_pipe_name` is known, the selected pid, and where the call is.  `stream` is `_stream`
with everything in the pipe: the request that was written, the frames of answers not yet
read and which call each belongs to, and what the bridge's worker does with the
connection.  `timer[c]` is the Timer thread of call `c`, with the stream whose handle it
was given: `TimerElapses` is the end of its wait, after which `timer.cancel()` cannot stop
it, and `TimerCancels` is `CancelIoEx`, which fails the I/O that is pending and nothing
else.  `missed`, a history variable, collects the calls whose cancellation found nothing.
The bridge answers in two writes, or half, wrongly, late, or never.  Hosts start and exit,
and the process that serves a pipe is whoever opened it, which is what the identity check
(`VerifyServer`) is for.

Two facts found here qualify `SidecarService`.  A late timer may cancel the I/O of the
next call on a kept stream: that call fails and discards the stream, and nothing unsafe
follows.  And a cancellation that is missed leaves a call without a deadline (section 5);
`SidecarService` therefore does not assume that a wait for an answer ends: that it does is
the premise of `CallReturns`, which `ReturnsUnlessCancelMissed` establishes here for the
calls that are not in `missed`.  The stream-based client, `FramedStreamBridgeClient`, is used by
tests only.

### ArtifactStore

`artifacts.py` a system call at a time, for two sidecars on one root (the default root is
one directory for a user, `mcp_server.py` 83-94), each with its lock and its verification
cache.  `files` has, per artifact, the data file and the manifest with the version that
stands for their fingerprint; `op[s]` the call that holds the lock of sidecar `s` and the
locals it works on: what it listed, the fingerprints it took, the pieces it captured.  A
create captures pieces (a memory dump reads one range of a session, a trace archive pages
through the trace), writes two temporary files, renames them and prunes; a delete or a
prune unlinks data, then manifest; a read opens, verifies or trusts its cache, looks again
and serves.  Any system call may fail, a sidecar may die between any two, and somebody may
edit a file in place: `mishaps` bounds the three together.  `used` records when an artifact
was created and whether its pieces belong together; `settled` what a completed prune had
listed; `skipped` what the listing of some prune has passed over.  For a listing does not
fail over an artifact whose manifest or data it cannot read (364-373): it goes on without
it, and the prune completes with a count that is too small.

Abstracted: a file's content is original, altered in place, or resized (which also stands
for metadata that does not validate); an edit changes the fingerprint; a listing of the
directory is one step, which sees every artifact but those it passes over.

### AuditLog

`JsonlAuditLog.record`: `logs` and `present` are the files, `step` and `file` the position
in the rotation.  Unlinking the oldest file, each move and the append are actions, each of
which may fail or be the sidecar's last (`RecordFails`).  The number of failed rotations
(`broken`) is history: each may cost one file's place, because the next record begins the
rotation anew, and never a record that is newer than one that is kept.  One sidecar
writes to a root at a time; the code does not enforce that, and its default root is shared.

### StructureWorkspace

`items` is `_items` with a revision and a content that is new with each change; `counter`
is `_counter`.  A client acts on what it last saw (`seen`), which may be any number of
calls old, and it may miss the answer to its own update.  The workspace lives in memory
and starts again with the sidecar (`life`); ids start again with it, so that an (id,
revision) from another life can name another structure.  `UpdateBuildsOnCurrent` is
therefore about one life.

### OutputLimit

A client's call, its execution, and the adapter's decision to withhold an answer that is
too large.  The advice that replaces it halves `limit`, `size` or `count`; the client
follows it.  What is executed is counted, so that advice to repeat a mutation would show.
Whether an answer fits is a free choice, except that one disassembled instruction always
fits.  `create`, `update` and `delete` of `ce.structures` are not among the adapter's
`_MUTATING_ACTIONS`, so their withheld answers come without advice to reconcile.  A call that its
client cancels is abandoned by the adapter (`abandon_on_cancel`, 86) and may be executed
later; the model's client waits for its answers.

### SharedConfig

One `config.json` and its tokens as classes of values: present, absent, well or badly
formed, oversized, a relative or absolute token file, a link.  `ServerStarts` is what the
sidecar makes of it and `ControllerRuns` what the controller makes of it; each has checks
the other lacks.  The controller refuses files over 64 KiB and tokens over 4096 bytes and has no
defaults, while the server counts the characters of a token and the controller its bytes;
the server resolves a relative token file beside the file a link leads to, and the
controller beside the link.  Each program reads `CE_MCP_TOKEN` of its own environment when it starts, and
nothing makes the two environments agree: `environment` has a value for each.
`ControllerAsksItsServer` says that, all this considered, a controller that asks at all asks
the endpoint that is served, and with the token it is served with, except that the token
may differ where the environments do, or behind a link; and that the sidecar may refuse to
start over a value the controller does not read or a token it counts as too short.

### HostController

Each invocation of `ce-mcp-control` is a process, and `command[c]` its locals: the action, the
host that it listed first, the number of the process it opened, what it touched.
`processes` are Windows' processes by pid, numbered so that a pid that is used again is told
apart; a pid stays taken while a command has its handle open.  `port` is the host whose
sidecar holds the MCP port.  `Observe` asks whoever holds that port, which need not be the
host that was listed.  A host launches its sidecar once, and a sidecar that finds the port
taken exits: after a restart the new host's sidecar may meet the old one and the host then
never becomes ready.

Abstracted: `HOST_EXECUTABLE_MISSING` also stands for an ambiguous or invalid executable;
the internal and platform errors that end a command at any point are left out.

### Hypervisor

`watches` and `trace` are the bridge's handles, `active` what DBVM has.  Every native call
may fail, with or without its effect, in handlers and in `CleanupHypervisor`; `excused`
records for which.  `session` has what decides about handles: pid, generation, logical
detach, the client and a pending attach.  A detach starts a generation without a cleanup
(562): the watches stay active under handles that every request refuses as stale, until
the attach timer's forced refresh or the disconnect removes them.  When `openProcess`
rebuilds the Lua state (`BridgeRestarts`), `state.hypervisor` is a new, empty table (75) and
nothing stopped what the old one held: `stranded` records it.  `DbvmStaysInReach` states
precisely this: everything active has a handle, or a native call failed for it, or its Lua
state was rebuilt; stale handles exist only while detached, and none without a client.

### MCScanOperations, MCParts, MCLiveness

`MCScanOperations` instantiates `ScanOperations` for TLC.  `MCParts` runs nine modules that
share no state in one run: a behaviour is a behaviour of one of them, chosen in the
initial state, while the others rest in one of their initial states.  The states of the run
are the disjoint union of the parts' states, and an invariant of one part is checked in all
of that part's states.  `MCLiveness` does the same for the two parts about which something
must eventually happen; its fairness is that of the part that moves.
Its run also checks what a scan serves, since that needs one operation with more
refinements than `scan_safety` has room for.

## 3. Runs, bounds and fairness

| Run | Bounds | Shows |
|---|---|---|
| `scan_safety` | 2 operations, table of 1, 2 generations, 1 refinement, 1 pattern length | every interleaving of two operations, one of which may be cancelled, closed or cleaned up at each step of its worker while the other takes its slot |
| `debugger_control` | 1 slot, 2 breakpoints, 3 stops, 2 generations | requests, stops, the user, target exits, rebuilt Lua states and failing native calls in any order |
| `sidecar_service` | 2 processes, 3 generations, 1 pending attach, 2 calls | two tool calls over a pipe that loses answers and executes late |
| `parts` | below | the nine independent parts |
| `liveness` | 1 operation, 2 refinements, 2 lengths; 2 calls, 2 pids | workers that were abandoned end, operations settle, calls return unless their cancellation was missed; and what scan.results serves after refinements, published by the worker or by a poll on the progress of this pass or of the one before |
| `nothing_left_behind`, `completed_scan_is_idle`, `completed_means_refined`, `debugger_accepted_stop`, `debugger_users`, `sidecar_reattach`, `pipe_deadline` | as small as the case needs | statements of the code's comments and documents that the code does not keep; section 5 |

Why these bounds are enough to make the cases happen:

- Scans: operations interact only through the table's size, the count of active scans and
  cleanup, each of which two operations exercise; every other action concerns one operation.
  Two generations let a handle outlive its target once.  Two refinements
  make FoundLists of two earlier passes available to be confused with the current one, on one
  operation (`liveness`).  `MaxLists` bounds the FoundLists up to which a poll may still
  raise an error once it has made one: 0 in `scan_safety`, where two operations would
  otherwise have more lists than can be explored, and 2 in the other runs.  The theorems
  have no such bound.
- Debugger: one slot makes the limit bind; two breakpoints let one be set after another was
  lost; three stops give an old, a current and a next stop generation.  The
  bound of 2 generations covers new targets and rebuilt Lua states together.
- Service: two calls are what a retry needs; with one pending attach and three generations
  an attach can fire before, during or after a detach or another attach.  The model with 4
  generations holds as well and takes twice the time.
- Event ring: a ring of 3, pages of at most 2, 6 events, 3 generations.  Six events roll the
  ring over completely and then once more between any two pages; the third generation lets a
  cursor outlive two targets.
- Pipe: 2 pids and 2 calls: a timer of the first call that fires in the second, an answer to
  the first that arrives in the second, and a pid other than the expected one.
- Store: one sidecar that dumps, previews and deletes and one that archives, lists and reads
  metadata; 2 artifacts where 1 may be retained, so that each create prunes; 2 pieces, 2
  further calls, 1 tick, 1 mishap, which may be a listing that passes over any artifacts.
- Audit: 3 files of 2 lines and 8 records: the log is full at the sixth, and rotates again.
- Structures: 2 clients, 2 structures at a time, 4 definitions, 2 lives of the sidecar.
- Output: values up to 8, of which 4 is implied: three halvings.
- Hosts: 2 commands, 2 pids, 2 host images and another, 2 processes ever started.
- DBVM: 2 targets, 2 watches, 4 native ids, 4 generations: detach, attach, disconnect and
  once more.

Deadlock is not checked in `parts`, `sidecar_service` and `sidecar_reattach`, where a
behaviour ends when its bounded calls, records or ids are used up.

Fairness:

- `liveness`, bridge side: weak fairness of each worker step, of each start timer and of the
  native scan, since Cheat Engine schedules its threads and its message loop.  None for
  requests: a client may never poll, close or refine.
- `liveness`, sidecar side, and `pipe_deadline`: weak fairness of the steps of the calling
  thread and of the Timer threads, which Python and Windows schedule.  None of the bridge,
  which may hang for ever: a blocked read ends only by an answer, a closed pipe or the
  cancellation.
- `sidecar_service` (`FairSpec`): weak fairness of what the sidecar's thread does without
  waiting for anybody (`ThreadStep`: sending, taking an answer that is there, the tests of
  the reconciliation loop, and the failure to get a free pipe, which has a timeout of its
  own) and of the passing of the deadline.  A failure of the transport while an answer is
  awaited has no fairness, since the pipe's timer may miss the wait: `CallReturns` has
  instead the premise `[]<>~AwaitsAnswer`, that no single wait for an answer lasts for ever.

## 4. What is proved

Proofs are for all values of the constants, under the named assumptions of the modules
(bounds are natural numbers, limits positive, the two sets of images disjoint).

| Module | Theorems | Argument |
|---|---|---|
| `ScanOperationsProofs` | `TypeCorrect`, `HandlesCurrent`, `CapacityKept`, `AbandonedTold` | none of the last three is inductive alone: `IInv` adds `WorkerInv`, which says at each position of a worker what its operation and its thread object may be, whether or not the table still holds it |
| | `CompletedHasResults`, `CompletedStays` | `StartInv`: a worker about to announce itself, and a command it has not taken, find the operation waiting, so neither can take a completed scan back. `ResultsInv`: what a worker is about to publish, and what was published, exists |
| | `ServedListsLive`, `ServedRowsCurrent` | of scans that no poll completed ahead of their refinement, whatever Cheat Engine reports of a finished pass: `RowsInvariant` ties, for listed scans that are not overtaken, the passes made, the refinements asked for and the FoundLists that the worker holds to publish or destroy; a closed or overtaken scan keeps none of it |
| `DebuggerControlProofs` | `TypeCorrect`, `HooksRemoved`, `NoOrphans`, `BreakpointsCurrent`, `StopsNamedOnce`, `OwnedReleased`, `AdoptedKept` | `IInv` adds that handles name breakpoints already counted and that a client holds no stop generation newer than the newest of this Lua state. `AdoptedKept` goes over every way to give up a debugger; the start that cleans up as owner begins without a debugger there |
| `TargetSessionProofs` | `GenerationsUnique`, `ActsRight`, `SessionsOver` | one relation carries everything: `Follows(b, c)`, the bridge `c` has the session of `b` or a later generation. Every handler, timer and restart leads to a following state, so `IssuedInv` (no session given out is later than the bridge's, and only its own is as late) is kept, and with it the uniqueness of generations |
| `SidecarServiceProofs` | `ServiceTypeCorrect`, `OutcomesAreHonest`, `EffectsAudited`, `CacheCurrent`, `ServiceActsRight` | the refinement of `MutationOutcome`: `ServiceInv` says what the pipe can hold. A mutation in it has had no effect and was not said to be safe (`RequestInv`); what the sidecar still waits for tells whether its call had its effect (`AnswerInv`); a call that has not sent did nothing (`CallInv`). Each step is then a step of `MutationOutcome` or none |
| | `DetachEnds` | `EndsInv`: a detached bridge that finds a target gives it a session and keeps that to itself (`ToldOn`), so a pending detach names a session that is over or still attached, and an answer tells of an end only when there was one, also the answer to a `status.get` of the reconciliation |
| `PipeTransportProofs` | `KeptStreamsSafe` | `StreamFollowsCall` says, phase by phase, what the pipe may hold: nothing of an earlier call before the write (`Clean`); between write and return exactly what is left of this call's answer (`Owes`); and the verified server from the verification on (`Served`) |
| `ArtifactStoreProofs` | `ArtifactsIntact` | a fingerprint noted anywhere is one that the files had (`Recorded`), an edit gives a file a version it never had, and an artifact whose metadata is still to be written is noted nowhere (`FreshInv`). So a fingerprint that still matches means that the file is unchanged (`RecordedAreOld`), and what was verified then holds now, for the cache (`VouchInv`) and for a read under way (`ReadInv`) |
| | `StoreBounded` | no prune by itself keeps the bound, since two run at once over listings of different moments. `BoundInv`: on untouched artifacts any two listings, and what was settled before, are `Nested`, because an untouched artifact leaves for good and enters once; so the larger of two contains the other, and its survivors are few enough (`SurvivorsAreFew`). "Untouched" excludes the artifacts that some listing passed over, which are the ones that can break the nesting |
| `ControllerProofs` | `HostInvariant`, `HostsOnly`, `HostAnswersHonest` | `CommandSound` says at each stage what a command's record knows of the processes: inside `platform.stop` its pid runs the image that was listed, or nothing; a stop that has returned has seen the exit; a command that launched is polling or done |
| | `AsksItsServer` | `ConfigInv`: each program does what the file and its own environment, each read once, say; the rest compares the checks of the two programs |
| `PartsProofs` | `RingConsecutive`, `CursorUsable`, `EventsAccounted` | `RingInv` adds `ClientInv`: the cursor of the current generation is at most the counter; `PageIsConsecutive` shows that a page is a run of consecutive events, from which the sum of delivered and dropped follows |
| | `DbvmInReach` | `DbvmStaysInReach` is inductive with the types; `CleanupForgetsNothing` says of the cleanup, which is part of three actions, that it leaves no handle and nothing active but what a call failed for or a rebuilt Lua state left |
| | `UpdatesBuildOnCurrent` | `SightInv`: what a client saw in this life is what there is, or of an earlier revision, so an accepted revision is the one it saw; ids are not used twice in a life |
| | `AdviceProgresses` | `LimitInv`: what was carried out and what is still asked for together stay below what may be asked for |
| | `LogKeepsRecent` | `MovesInv`: a record in file `f` was moved `f` times, and between two moves a whole file was written, but for one move in each rotation that failed. That, with the order of records in the files (`NoGap`, `NewestFirst`), says what an unlink can take away (`KeepsRecent`) |
| | `PartsTyped` | `MovingInv`: the part that moves keeps its own invariant |

Every invariant and action property of the passing runs is stated by a theorem, and so is
the refinement `OutcomeIsHonest`.  None has a hypothesis beyond the modules'
named assumptions.

Only model-checked: what must eventually happen (`CallReturns`, `AbandonedWorkerExits`,
`UncancelledOperationSettles`, `ReturnsUnlessCancelMissed`), since the prover has no rule for
`ENABLED` and thus none for fairness; and the counterexamples of section 5, which are
TLC's by nature.

## 5. What the code does not keep

| Run | Statement | What happens |
|---|---|---|
| `nothing_left_behind` | "Never allow a disconnected client to leave MemScan/FoundList workers behind" (`ce_mcp_bridge.lua` 2442) | a worker that was created but had not run when the cleanup came creates its MemScan afterwards; nothing destroys it |
| `completed_scan_is_idle` | "Poll get to determine completion before consuming results or refining" (`ce.operations.json` 4) | a poll completes the operation on full progress while the native pass is still finishing |
| `completed_means_refined` | "poll ce.operations.get until completed before refine or results, and poll again after refine" (`ce.scan.json` 4) | between the worker's announcement of a refinement (1784) and its `nextScan` (1787) a poll may find the finished pass complete: the operation is reported completed with the rows of the pass before |
| `debugger_accepted_stop` | "A stop event establishes the only valid generation for register reads and resume/step commands" (`ARCHITECTURE.md` 68) | adopting a debugger that is already stopped makes its stop resumable under an older generation |
| `debugger_users` | "Disconnect and release remove MCP hooks but never resume or detach an adopted debugger" (`CE_MCP_TOOLS.md` 38) | ownership survives the user's own detach and attach, and the user's debugger is released |
| `sidecar_reattach` | "Explicit reattach to the same CE-opened PID must still create a fresh MCP session" (`ce_mcp_bridge.lua` 538) | the reconciliation accepts the old session of the same pid, seen before the attach timer fires; a second later that session is over |
| `pipe_deadline` | "Deadline-bounded, serialized bridge client" (`transport.py` 153) | the timer cancels once; fired between the write of the request and the read of the answer it finds no I/O, and the read has no bound of its own |

## 6. Limits of the models

What the modules show of the code beyond section 5, and that a reader should know when
relying on a property:

- Signatures: one cancelled between `createThread` and its first line is set back to running
  and returns; it keeps the one slot for active searches.  `UncancelledOperationSettles` is
  about operations that nobody cancelled.
- Workers: a Lua error outside the workers' `pcall` leaves the operation running and its
  slot taken until it is closed, its target changes or the client disconnects.
- Refinements: an operation that a poll completed too early may, once its worker goes on,
  serve a FoundList that the worker has destroyed.
- Debugger: after the user detached a debugger that the bridge had adopted and suspended
  the target, a start that meets an unsupported interface cleans up as owner and lifts that
  suspension.
- Rebuilt Lua state: nothing is cleaned up when `openProcess` rebuilds it.  A debugger the
  bridge owned, its breakpoints and suspension, and DBVM watches stay without a handle.
- Attach and detach: a detach does not cancel an attach accepted before it.
- Artifacts: one that a listing cannot read is not counted by that prune, so more than the
  maximum may remain until the next one.  Temporary files and half artifacts left by a crash are never removed, so the
  disk is not bounded; what is served and counted is.  A new artifact may be pruned by its
  own create.  An `OSError` of the store passes through `_call_artifact`, which expects the
  store's own errors (673).
- Audit: with `Retained = 1` the file never rotates; each failed rotation may cost a file.
- Structures: paging by offset can skip an item when another client deletes one; an output
  that fails validation after the change is answered as a contract violation although the
  change was made.
- Controller: between the observation that no target is attached and the close, a client may
  attach (`core.py` 168); two starts that both list no host both launch one (142), so that
  "a running but unready host is not duplicated" (`host-control-v1.md` 61) holds of what the
  list showed; `HOST_OBSERVATION_FAILED` after a launch is answered as known and safe to
  retry (150).
- DBVM: a detach invalidates the owned handles as documented (`ARCHITECTURE.md` 65-66,
  `CE_MCP_TOOLS.md` 12-13): every request with one is refused as stale.  The native watches
  and the trace under them run on until the client attaches or disconnects; `TODO.md` 18-20
  lists a watch lifecycle with cleanup at a detach as required before DBVM is enabled.

## 7. Plan

1. Done: every stateful component has a module, and every safety property that a run checks
   is a theorem for all values of the constants.
2. Next: abstract specifications that the artifact store (a set of intact artifacts) and the
   audit log (a bounded queue) implement, with refinement proofs like that of
   `MutationOutcome`.
3. Then: normalisation of arguments and paging in `service.py`; authentication of HTTP
   requests; failures of `createPipe` in the bridge's pipe worker.

## 8. Not modelled

Memory, symbol, disassembly, pointer and structure reads keep no state between requests.
Schemas, the catalog, the MCP SDK's plumbing, the authentication of requests and the
command lines change no state after start-up.  Encodings of frames and messages are
abstracted to well and badly formed.  Smoke programs, probes and build scripts need Cheat
Engine or Windows and are not part of the running system.  Wall-clock durations, message
texts, registers and memory contents are abstracted wherever they decide no guard.
