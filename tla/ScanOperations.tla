---------------------------- MODULE ScanOperations ----------------------------
(***************************************************************************)
(* The scan and signature operations of the bridge                         *)
(* (src/bridge/ce_mcp_bridge.lua).  Request handlers, timers and the       *)
(* bodies of thread.synchronize run on Cheat Engine's main thread, one at  *)
(* a time, so each is one action.  Every operation also has a worker       *)
(* thread (createThread) that shares the operation's Lua table with the    *)
(* handlers and takes no lock: each shared read or write of the worker is  *)
(* an action of its own.                                                   *)
(***************************************************************************)
EXTENDS Integers, Sequences, FiniteSets

CONSTANTS
  Capacity,             \* handles the table may hold: 8 in the code
  MaxOperations,        \* bound: operations ever started
  MaxGeneration,        \* bound: target generations
  MaxRefines,           \* bound: refinements of one scan
  MaxLists,             \* bound: FoundLists of one operation, where a poll may fail on one
  Lengths               \* pattern lengths a signature search tries, at most 61 in the code

ASSUME ConstantsAssumption ==
  /\ Capacity \in Nat \ {0}
  /\ MaxOperations \in Nat
  /\ MaxGeneration \in Nat
  /\ MaxRefines \in Nat
  /\ MaxLists \in Nat
  /\ Lengths \in Nat \ {0}

VARIABLES
  generation,   \* state.generation
  attached,     \* a target is open and not logically detached
  counter,      \* state.operationCounter; an id is never given out twice
  table,        \* the ids that are keys of state.operations
  op,           \* the operation tables, reachable from their worker even when removed
  worker,       \* the worker thread of each operation and its locals
  lists         \* the FoundList objects created for each operation

vars == <<generation, attached, counter, table, op, worker, lists>>

Ids == 1 .. MaxOperations

Busy == {"queued", "running"}
States == Busy \cup {"completed", "failed", "cancelled", "closed"}

\* A native MemScan: all addresses are read ("scanned") before its result files
\* are complete ("idle"); "fresh" has run no pass.
NativeStates == {"none", "fresh", "scanning", "scanned", "idle", "destroyed"}

Steps == {"none", "scanStart", "firstScan", "firstWait", "firstPublish",
          "poll", "taken", "capture", "nextScan", "nextWait", "nextPublish",
          "signatureStart", "signatureCheck", "signatureScan", "signaturePublish", "done"}

\* A FoundList: the number of refinements its rows reflect, and whether it still exists.
FoundList == [pass : Nat, live : BOOLEAN]

Operation == [kind : {"scan", "signature"}, gen : Nat, state : States,
              command : BOOLEAN, timer : BOOLEAN, thread : BOOLEAN,
              memScan : BOOLEAN, native : NativeStates, foundList : Nat,
              passes : Nat, requested : Nat, everCancelled : BOOLEAN,
              overtaken : BOOLEAN]

Worker == [pc : Steps, terminated : BOOLEAN, ok : BOOLEAN, old : Nat, fresh : Nat,
           attempted : Nat, raised : BOOLEAN]

\* Two fields only record the past.  overtaken: a poll reported a refinement completed
\* on the progress of the pass before it.  raised: an error no pcall catches ended the
\* worker, kept it from being created or cut its last publication short.
NewOperation(kind, created) ==
  [kind |-> kind, gen |-> generation, state |-> "queued", command |-> FALSE,
   timer |-> created /\ kind = "signature", thread |-> created /\ kind = "scan",
   memScan |-> FALSE, native |-> "none", foundList |-> 0, passes |-> 0, requested |-> 0,
   everCancelled |-> FALSE, overtaken |-> FALSE]

NewWorker(kind, created) ==
  [pc |-> IF ~created THEN "done" ELSE IF kind = "scan" THEN "scanStart" ELSE "none",
   terminated |-> FALSE, ok |-> TRUE, old |-> 0, fresh |-> 0, attempted |-> 0,
   raised |-> ~created]

Init ==
  /\ generation = 1
  /\ attached \in BOOLEAN
  /\ counter = 0
  /\ table = {}
  /\ op = [o \in Ids |-> NewOperation("scan", TRUE)]
  /\ worker = [o \in Ids |-> NewWorker("signature", TRUE)]
  /\ lists = [o \in Ids |-> <<>>]

-----------------------------------------------------------------------------
\* destroyOperation, on the table, its thread and its FoundLists.

Destroyed(r) ==
  [r EXCEPT !.timer = FALSE, !.thread = FALSE, !.foundList = 0, !.memScan = FALSE,
            !.native = IF r.memScan THEN "destroyed" ELSE @]

\* Mutant: only a busy worker is told to stop.
TerminatedWhenBusy(w, r) ==
  [w EXCEPT !.terminated = @ \/ (r.thread /\ r.state \in Busy)]

Terminated(w, r) ==
  [w EXCEPT !.terminated =
     @ \/ (r.thread /\ (r.kind # "signature" \/ r.state \in Busy))]

Freed(ls, l) == IF l \in DOMAIN ls THEN [ls EXCEPT ![l].live = FALSE] ELSE ls

DestroyOperation(o, state) ==
  /\ op' = [op EXCEPT ![o] = [Destroyed(op[o]) EXCEPT
       !.state = state, !.everCancelled = op[o].everCancelled \/ state = "cancelled"]]
  /\ worker' = [worker EXCEPT ![o] = Terminated(worker[o], op[o])]
  /\ lists' = [lists EXCEPT ![o] = Freed(lists[o], op[o].foundList)]

\* Mutant: the handles are destroyed but the table is kept.
CleanupKeepsTable ==
  /\ op' = [o \in Ids |-> IF o \in table THEN Destroyed(op[o]) ELSE op[o]]
  /\ worker' = [o \in Ids |-> IF o \in table THEN Terminated(worker[o], op[o]) ELSE worker[o]]
  /\ lists' = [o \in Ids |-> IF o \in table THEN Freed(lists[o], op[o].foundList) ELSE lists[o]]
  /\ UNCHANGED table

CleanupOperations ==
  /\ op' = [o \in Ids |-> IF o \in table THEN Destroyed(op[o]) ELSE op[o]]
  /\ worker' = [o \in Ids |-> IF o \in table THEN Terminated(worker[o], op[o]) ELSE worker[o]]
  /\ lists' = [o \in Ids |-> IF o \in table THEN Freed(lists[o], op[o].foundList) ELSE lists[o]]
  /\ table' = {}

-----------------------------------------------------------------------------
\* Target and connection: what the rest of the bridge does to operations.

\* refreshTarget, forced or on a change of the opened process.
RefreshTarget ==
  /\ generation < MaxGeneration
  /\ CleanupOperations
  /\ generation' = generation + 1
  /\ attached' \in BOOLEAN
  /\ UNCHANGED counter

ProcessDetach ==
  /\ attached
  /\ generation < MaxGeneration
  /\ CleanupOperations
  /\ generation' = generation + 1
  /\ attached' = FALSE
  /\ UNCHANGED counter

\* The pipe client went away.  The generation stays.
ClientDisconnected ==
  /\ CleanupOperations
  /\ UNCHANGED <<generation, attached, counter>>

-----------------------------------------------------------------------------
\* Request handlers.

ActiveScans == {o \in table : op[o].state \in Busy}

MayStart ==
  /\ ActiveScans = {}
  /\ Cardinality(table) < Capacity

\* The table has the operation before createThread or createTimer is called: an error
\* there leaves it queued with no thread to run it.
Register(kind) ==
  /\ counter < MaxOperations
  /\ counter' = counter + 1
  /\ table' = table \cup {counter'}
  /\ \E created \in BOOLEAN :
       /\ op' = [op EXCEPT ![counter'] = NewOperation(kind, created)]
       /\ worker' = [worker EXCEPT ![counter'] = NewWorker(kind, created)]
  /\ UNCHANGED <<generation, attached, lists>>

ScanStart ==
  /\ attached
  /\ MayStart
  /\ Register("scan")

\* signature.start asks for no target of its own; its worker waits for a timer.
SignatureStart ==
  /\ MayStart
  /\ Register("signature")

\* getOperation: the handle is in the table and of the current generation.
GetOperation(o) == o \in table /\ op[o].gen = generation

ScanRefine(o) ==
  /\ GetOperation(o)
  /\ op[o].kind = "scan"
  /\ op[o].state = "completed"
  /\ op[o].requested < MaxRefines
  /\ op' = [op EXCEPT ![o] =
              [@ EXCEPT !.state = "queued", !.command = TRUE, !.requested = op[o].requested + 1]]
  /\ UNCHANGED <<generation, attached, counter, table, worker, lists>>

CloseOperation(o) ==
  /\ table' = table \ {o}
  /\ UNCHANGED <<generation, attached, counter>>

ScanClose(o) ==
  /\ GetOperation(o)
  /\ op[o].kind = "scan"
  /\ DestroyOperation(o, "closed")
  /\ CloseOperation(o)

\* signature.close forgets the operation but leaves its state as it was.
SignatureClose(o) ==
  /\ GetOperation(o)
  /\ op[o].kind = "signature"
  /\ DestroyOperation(o, op[o].state)
  /\ CloseOperation(o)

\* Mutant: a state no comparison in the bridge knows.
OperationsCancelMisspelt(o) ==
  /\ GetOperation(o)
  /\ op[o].state \in Busy
  /\ DestroyOperation(o, "canceled")
  /\ UNCHANGED <<generation, attached, counter, table>>

OperationsCancel(o) ==
  /\ GetOperation(o)
  /\ op[o].state \in Busy
  /\ DestroyOperation(o, "cancelled")
  /\ UNCHANGED <<generation, attached, counter, table>>

\* CE's getProgress reports every address as scanned.  Nothing in the bridge says how
\* long the counters of a pass outlive it: until the next pass has counted, they may
\* still describe the one before.
ProgressComplete(r) ==
  \/ r.native \in {"scanned", "idle"}
  \/ r.native = "scanning" /\ r.passes > 0

\* The pass whose rows a FoundList made now reads.
PassRead(r) == IF r.native = "scanning" /\ r.passes > 0 THEN r.passes - 1 ELSE r.passes

\* Ahead of its refinement, if completed on those rows.
Overtaken(r) == r.overtaken \/ PassRead(r) # r.requested

PollSeesComplete(o) ==
  /\ GetOperation(o)
  /\ op[o].kind = "scan"
  /\ op[o].memScan
  /\ op[o].state = "running"
  /\ ProgressComplete(op[o])

\* Mutant: a poll keeps the FoundList of an earlier pass.
SummaryKeepsList(o) ==
  /\ PollSeesComplete(o)
  /\ op[o].foundList # 0
  /\ op' = [op EXCEPT ![o] = [@ EXCEPT !.state = "completed", !.overtaken = Overtaken(op[o])]]
  /\ UNCHANGED <<generation, attached, counter, table, worker, lists>>

\* operationSummary, from operations.get, operations.list and the replies of the
\* other handlers: a poll that sees a running scan's progress complete publishes
\* its results without waiting for the worker.  getCount is called outside the pcall,
\* with the FoundList stored and the operation still running.
SummaryMaterializes(o) ==
  /\ PollSeesComplete(o)
  /\ \/ /\ lists' = [lists EXCEPT ![o] = Append(@, [pass |-> PassRead(op[o]), live |-> TRUE])]
        /\ \/ op' = [op EXCEPT ![o] = [@ EXCEPT
                 !.state = "completed", !.foundList = Len(lists[o]) + 1,
                 !.overtaken = Overtaken(op[o])]]
           \/ /\ Len(lists[o]) < MaxLists
              /\ op' = [op EXCEPT ![o].foundList = Len(lists[o]) + 1]
     \/ /\ op' = [op EXCEPT ![o].state = "failed"]
        /\ UNCHANGED lists
  /\ UNCHANGED <<generation, attached, counter, table, worker>>

\* The signature's startTimer, one second after signature.start; createThread may raise.
StartTimerFires(o) ==
  /\ op[o].timer
  /\ \/ /\ op[o].state = "queued"
        /\ op' = [op EXCEPT ![o] = [@ EXCEPT !.timer = FALSE, !.thread = TRUE]]
        /\ worker' = [worker EXCEPT ![o].pc = "signatureStart"]
     \/ /\ op[o].state = "queued"
        /\ op' = [op EXCEPT ![o].timer = FALSE]
        /\ worker' = [worker EXCEPT ![o] = [@ EXCEPT !.pc = "done", !.raised = TRUE]]
     \/ /\ op[o].state # "queued"
        /\ op' = [op EXCEPT ![o].timer = FALSE]
        /\ UNCHANGED worker
  /\ UNCHANGED <<generation, attached, counter, table, lists>>

-----------------------------------------------------------------------------
\* The scan worker.

Goto(o, pc) == worker' = [worker EXCEPT ![o].pc = pc]

At(o, pc) == worker[o].pc = pc

Shared == <<generation, attached, counter, table>>

\* The worker announces itself, whatever has happened to the operation since.
MarkRunning(o, from, to) ==
  /\ At(o, from)
  /\ op' = [op EXCEPT ![o].state = "running"]
  /\ Goto(o, to)
  /\ UNCHANGED <<Shared, lists>>

\* Neither this step nor the next looks at thread.Terminated.
FirstScan(o) ==
  /\ At(o, "firstScan")
  /\ \E native \in {"none", "fresh", "scanning"} :
       /\ op' = [op EXCEPT ![o] = [@ EXCEPT !.memScan = (native # "none"), !.native = native]]
       /\ IF native = "scanning"
          THEN Goto(o, "firstWait")
          ELSE worker' = [worker EXCEPT ![o] = [@ EXCEPT !.pc = "firstPublish", !.ok = FALSE]]
  /\ UNCHANGED <<Shared, lists>>

\* waitTillDone, then a FoundList of the memScan the operation still has.
CreateFoundList(o, next) ==
  \/ /\ op[o].memScan
     /\ lists' = [lists EXCEPT ![o] =
          Append(Freed(@, worker[o].old), [pass |-> op[o].passes, live |-> TRUE])]
     /\ worker' = [worker EXCEPT ![o] =
          [@ EXCEPT !.pc = next, !.ok = TRUE, !.fresh = Len(lists[o]) + 1]]
  \/ /\ \/ lists' = [lists EXCEPT ![o] = Freed(@, worker[o].old)]
        \/ ~op[o].memScan /\ UNCHANGED lists
     /\ worker' = [worker EXCEPT ![o] = [@ EXCEPT !.pc = next, !.ok = FALSE, !.fresh = 0]]

WaitTillDone(o, from, next) ==
  /\ At(o, from)
  /\ op[o].native \in {"idle", "destroyed"}
  /\ CreateFoundList(o, next)
  /\ UNCHANGED <<Shared, op>>

\* Mutant: the worker overwrites whatever state it finds.
OutcomeAlways(r, w) ==
  IF w.ok THEN [r EXCEPT !.state = "completed", !.foundList = w.fresh]
  ELSE [r EXCEPT !.state = "failed"]

\* Mutant: a failed pass is reported completed.
OutcomeUnchecked(r, w) ==
  IF r.state # "running" THEN r
  ELSE [r EXCEPT !.state = "completed", !.foundList = w.fresh]

\* Mutant: the refined FoundList never replaces the one the pass consumed.
OutcomeKeepsList(r, w) ==
  IF r.state # "running" THEN r
  ELSE IF ~w.ok THEN [r EXCEPT !.state = "failed"]
  ELSE [r EXCEPT !.state = "completed", !.foundList = IF @ = 0 THEN w.fresh ELSE @]

\* The outcome that thread.synchronize writes when the operation is still running.
Outcome(r, w) ==
  IF r.state # "running" THEN r
  ELSE IF w.ok THEN [r EXCEPT !.state = "completed", !.foundList = w.fresh]
  ELSE [r EXCEPT !.state = "failed"]

\* Mutant: the thread ends with the first scan.
FirstPublishAndExit(o) ==
  /\ At(o, "firstPublish")
  /\ op' = [op EXCEPT ![o] = Outcome(@, worker[o])]
  /\ Goto(o, "done")
  /\ UNCHANGED <<Shared, lists>>

\* A first result that comes too late is dropped, not destroyed.
FirstPublish(o) ==
  /\ At(o, "firstPublish")
  /\ op' = [op EXCEPT ![o] = Outcome(@, worker[o])]
  /\ Goto(o, "poll")
  /\ UNCHANGED <<Shared, lists>>

NextPublish(o) ==
  /\ At(o, "nextPublish")
  /\ op' = [op EXCEPT ![o] = Outcome(@, worker[o])]
  /\ lists' = IF op[o].state # "running"
              THEN [lists EXCEPT ![o] = Freed(@, worker[o].fresh)]
              ELSE lists
  /\ Goto(o, "poll")
  /\ UNCHANGED Shared

\* The bodies of both synchronize calls store the FoundList and then ask for its count:
\* an error there leaves the operation running.  Whether CE also ends the thread is not
\* said in the code.
PublishRaises(o) ==
  /\ At(o, "firstPublish") \/ At(o, "nextPublish")
  /\ op[o].state = "running"
  /\ worker[o].ok
  /\ op' = [op EXCEPT ![o].foundList = worker[o].fresh]
  /\ \E pc \in {"poll", "done"} :
       worker' = [worker EXCEPT ![o] = [@ EXCEPT !.pc = pc, !.raised = TRUE]]
  /\ UNCHANGED <<Shared, lists>>

TakeCommand(o) ==
  /\ At(o, "poll")
  /\ ~worker[o].terminated
  /\ op[o].command
  /\ op' = [op EXCEPT ![o].command = FALSE]
  /\ Goto(o, "taken")
  /\ UNCHANGED <<Shared, lists>>

ScanThreadExits(o) ==
  /\ At(o, "poll")
  /\ worker[o].terminated
  /\ Goto(o, "done")
  /\ UNCHANGED <<Shared, op, lists>>

CaptureOldList(o) ==
  /\ At(o, "capture")
  /\ worker' = [worker EXCEPT ![o] = [@ EXCEPT !.pc = "nextScan", !.old = op[o].foundList]]
  /\ UNCHANGED <<Shared, op, lists>>

NextScan(o) ==
  /\ At(o, "nextScan")
  /\ \/ /\ op[o].memScan
        /\ op' = [op EXCEPT ![o] = [@ EXCEPT !.native = "scanning", !.passes = op[o].passes + 1]]
        /\ Goto(o, "nextWait")
     \/ /\ worker' = [worker EXCEPT ![o] = [@ EXCEPT !.pc = "nextPublish", !.ok = FALSE, !.fresh = 0]]
        /\ UNCHANGED op
  /\ UNCHANGED <<Shared, lists>>

\* CE's scanning threads.
NativeScanProceeds(o) ==
  /\ \/ op[o].native = "scanning" /\ op' = [op EXCEPT ![o].native = "scanned"]
     \/ op[o].native = "scanned"  /\ op' = [op EXCEPT ![o].native = "idle"]
  /\ UNCHANGED <<Shared, worker, lists>>

-----------------------------------------------------------------------------
\* The signature worker: one fresh MemScan for each pattern length.

SignatureCheck(o) ==
  /\ At(o, "signatureCheck")
  /\ IF worker[o].terminated \/ op[o].state # "running"
     THEN Goto(o, "done") /\ UNCHANGED op
     ELSE /\ op' = [op EXCEPT ![o] = [@ EXCEPT !.memScan = TRUE, !.native = "scanning"]]
          /\ Goto(o, "signatureScan")
  /\ UNCHANGED <<Shared, lists>>

\* createMemScan for a length, or getCount and Address on what it found, are called
\* outside the pcall: an error ends the thread, with the operation as it is.
SignatureRaises(o) ==
  /\ \/ At(o, "signatureCheck") /\ ~worker[o].terminated /\ op[o].state = "running"
     \/ At(o, "signatureScan") /\ op[o].native \in {"idle", "destroyed"}
  /\ worker' = [worker EXCEPT ![o] = [@ EXCEPT !.pc = "done", !.raised = TRUE]]
  /\ UNCHANGED <<Shared, op, lists>>

\* The scan ends, its objects are destroyed; a failure, a unique pattern or the
\* last length ends the search.
SignatureScan(o) ==
  /\ At(o, "signatureScan")
  /\ op[o].native \in {"idle", "destroyed"}
  /\ op' = [op EXCEPT ![o] = [@ EXCEPT !.memScan = FALSE, !.native = "destroyed"]]
  /\ \E ok \in BOOLEAN, unique \in BOOLEAN :
       worker' = [worker EXCEPT ![o] = [@ EXCEPT
         !.attempted = worker[o].attempted + 1,
         !.ok = ok,
         !.pc = IF ok /\ ~unique /\ worker[o].attempted + 1 < Lengths
                THEN "signatureCheck" ELSE "signaturePublish"]]
  /\ UNCHANGED <<Shared, lists>>

SignaturePublish(o) ==
  /\ At(o, "signaturePublish")
  /\ op' = [op EXCEPT ![o] = Outcome(@, [worker[o] EXCEPT !.fresh = 0])]
  /\ Goto(o, "done")
  /\ UNCHANGED <<Shared, lists>>

-----------------------------------------------------------------------------
WorkerStep(o) ==
  \/ MarkRunning(o, "scanStart", "firstScan")
  \/ FirstScan(o)
  \/ WaitTillDone(o, "firstWait", "firstPublish")
  \/ FirstPublish(o)
  \/ TakeCommand(o)
  \/ ScanThreadExits(o)
  \/ MarkRunning(o, "taken", "capture")
  \/ CaptureOldList(o)
  \/ NextScan(o)
  \/ WaitTillDone(o, "nextWait", "nextPublish")
  \/ NextPublish(o)
  \/ PublishRaises(o)
  \/ MarkRunning(o, "signatureStart", "signatureCheck")
  \/ SignatureCheck(o)
  \/ SignatureScan(o)
  \/ SignatureRaises(o)
  \/ SignaturePublish(o)

HandlerStep(o) ==
  \/ ScanRefine(o)
  \/ ScanClose(o)
  \/ SignatureClose(o)
  \/ OperationsCancel(o)
  \/ SummaryMaterializes(o)

Next ==
  \/ RefreshTarget
  \/ ProcessDetach
  \/ ClientDisconnected
  \/ ScanStart
  \/ SignatureStart
  \/ \E o \in Ids : HandlerStep(o) \/ StartTimerFires(o) \/ NativeScanProceeds(o) \/ WorkerStep(o)

Spec == Init /\ [][Next]_vars

\* CE runs every thread and fires every timer; clients promise nothing.
Fairness ==
  \A o \in Ids : /\ WF_vars(WorkerStep(o))
                 /\ WF_vars(StartTimerFires(o))
                 /\ WF_vars(NativeScanProceeds(o))

FairSpec == Spec /\ Fairness

-----------------------------------------------------------------------------
\* Every variable has its type: the state names of operations and the fields their
\* workers write included.
TypeOK ==
  /\ generation \in Nat
  /\ attached \in BOOLEAN
  /\ counter \in 0 .. MaxOperations
  /\ table \in SUBSET (1 .. counter)
  /\ op \in [Ids -> Operation]
  /\ worker \in [Ids -> Worker]
  /\ lists \in [Ids -> Seq(FoundList)]

(***************************************************************************)
(* Safety.                                                                 *)
(***************************************************************************)

\* Every handle that a request can name was made for the target and generation
\* the bridge serves now: cleanup precedes every advance of the generation, so
\* the STALE_SESSION branch of getOperation is a second line of defence.
HandlesBelongToTarget == \A o \in table : op[o].gen = generation

\* The table never holds more than its limit of handles (scan.start and
\* signature.start count before they register), cancelled ones included.
TableWithinCapacity == Cardinality(table) <= Capacity

\* scan.results may rely on a completed scan having a FoundList, whichever of
\* the worker and the progress poll completed it.
CompletedScanHasResults ==
  \A o \in table : op[o].kind = "scan" /\ op[o].state = "completed"
                   => op[o].foundList \in DOMAIN lists[o]

Alive(o) == worker[o].pc \notin {"none", "done"}

Abandoned(o) == o <= counter /\ (o \notin table \/ op[o].everCancelled)

\* A worker whose operation was cancelled, closed or cleaned up has been told to
\* stop, at whatever step that caught it, and no timer can start another.
AbandonedIsTerminated ==
  \A o \in Ids : Abandoned(o) => (Alive(o) => worker[o].terminated) /\ ~op[o].timer

\* What scan.results serves.
Servable(o) == GetOperation(o) /\ op[o].kind = "scan" /\ op[o].state = "completed"

\* Rows are read from a FoundList that has not been destroyed under the reader,
\* whichever of the worker and the polls completed the scan, unless a poll once
\* completed it ahead of its refinement.
ServedListIsLive ==
  \A o \in Ids : Servable(o) /\ ~op[o].overtaken => lists[o][op[o].foundList].live

\* A scan reported completed after a refinement serves the rows of that refinement,
\* not those of an earlier pass, with the same exception.
ServedRowsAreRefined ==
  \A o \in Ids : Servable(o) /\ ~op[o].overtaken
                   => lists[o][op[o].foundList].pass = op[o].requested

\* Completed is final for a caller: only a refinement the caller asked for takes
\* an operation out of it; a late worker, a poll or a cancel does not.
CompletedIsStable ==
  [][\A o \in table : op[o].state = "completed" =>
       \/ o \notin table'
       \/ op'[o].state = "completed"
       \/ op'[o].state = "queued" /\ op'[o].requested = op[o].requested + 1]_vars

(***************************************************************************)
(* Liveness, under FairSpec.                                               *)
(***************************************************************************)

\* No disconnect, close or cancel leaves a worker thread running for ever.
AbandonedWorkerExits ==
  \A o \in Ids : Abandoned(o) ~> ~Alive(o)

\* A queued or running operation that nobody cancels or closes completes or fails, so
\* it cannot hold the single scan slot for ever, unless an error outside every pcall
\* ended its worker, kept it from starting or cut its publication short.
UncancelledOperationSettles ==
  \A o \in Ids :
    (o \in table /\ op[o].state \in Busy)
      ~> (o \notin table \/ op[o].everCancelled \/ op[o].state \notin Busy \/ worker[o].raised)

(***************************************************************************)
(* What the repository says and the code does not do.                      *)
(***************************************************************************)

\* "Never allow a disconnected client to leave MemScan/FoundList workers behind".
NothingLeftBehind ==
  \A o \in 1 .. counter :
    o \notin table /\ ~Alive(o) => op[o].native \in {"none", "destroyed"}

\* "Poll get to determine completion before consuming results or refining."
CompletedScanIsIdle ==
  \A o \in Ids : Servable(o) => op[o].native = "idle"

\* "poll ce.operations.get until completed before refine or results, and poll again after
\* refine": completed after a refinement means that its rows are the ones served.
CompletedMeansRefined ==
  \A o \in Ids : Servable(o) => lists[o][op[o].foundList].pass = op[o].requested
=============================================================================
