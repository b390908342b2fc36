------------------------ MODULE ScanOperationsProofs ------------------------
(* Theorems about ScanOperations, for every value of its constants. *)
EXTENDS ScanOperations, SequenceTheorems, FiniteSetTheorems, TLAPS

-----------------------------------------------------------------------------
(* What the helpers return. *)

\* destroyOperation leaves an operation table, with neither timer nor thread.
LEMMA DestroyedType ==
  ASSUME NEW r \in Operation
  PROVE  /\ Destroyed(r) \in Operation
         /\ Destroyed(r).timer = FALSE
         /\ Destroyed(r).gen = r.gen
         /\ Destroyed(r).kind = r.kind
         /\ Destroyed(r).state = r.state
         /\ Destroyed(r).everCancelled = r.everCancelled
         /\ Destroyed(r).overtaken = r.overtaken
BY DEF Destroyed, Operation, NativeStates

\* Its thread is unchanged but for the flag, which stays up once it is up.
LEMMA TerminatedType ==
  ASSUME NEW w \in Worker, NEW r \in Operation
  PROVE  /\ Terminated(w, r) \in Worker
         /\ Terminated(w, r).pc = w.pc
         /\ w.terminated => Terminated(w, r).terminated
         /\ r.thread /\ (r.kind # "signature" \/ r.state \in Busy)
              => Terminated(w, r).terminated
BY DEF Terminated, Worker, Operation

\* Destroying a FoundList keeps the list of all that were created.
LEMMA FreedType ==
  ASSUME NEW ls \in Seq(FoundList), NEW l
  PROVE  Freed(ls, l) \in Seq(FoundList) /\ Len(Freed(ls, l)) = Len(ls)
<1>1. CASE l \in DOMAIN ls
  <2>1. l \in 1 .. Len(ls)  BY <1>1
  <2>2. ls[l] \in FoundList  BY <2>1
  <2>3. [ls[l] EXCEPT !.live = FALSE] \in FoundList  BY <2>2 DEF FoundList
  <2>4. Freed(ls, l) = [ls EXCEPT ![l] = [ls[l] EXCEPT !.live = FALSE]]  BY <1>1 DEF Freed
  <2> QED  BY <2>1, <2>3, <2>4, ExceptSeq
<1>2. CASE l \notin DOMAIN ls
  BY <1>2 DEF Freed
<1> QED  BY <1>1, <1>2

\* A FoundList is appended to a list of FoundLists.
LEMMA AppendType ==
  ASSUME NEW ls \in Seq(FoundList), NEW pass \in Nat
  PROVE  /\ Append(ls, [pass |-> pass, live |-> TRUE]) \in Seq(FoundList)
         /\ Len(ls) + 1 \in Nat
BY AppendProperties DEF FoundList

\* The outcome of a pass is an operation table.
LEMMA OutcomeType ==
  ASSUME NEW r \in Operation, NEW w, w.ok \in BOOLEAN, w.fresh \in Nat
  PROVE  /\ Outcome(r, w) \in Operation
         /\ Outcome(r, w).gen = r.gen
         /\ Outcome(r, w).timer = r.timer
         /\ Outcome(r, w).thread = r.thread
         /\ Outcome(r, w).kind = r.kind
         /\ Outcome(r, w).everCancelled = r.everCancelled
         /\ Outcome(r, w).overtaken = r.overtaken
BY DEF Outcome, Operation, States, Busy

\* A new operation and its worker are well typed.
LEMMA NewType ==
  ASSUME NEW kind \in {"scan", "signature"}, NEW created \in BOOLEAN, generation \in Nat
  PROVE  NewOperation(kind, created) \in Operation /\ NewWorker(kind, created) \in Worker
BY DEF NewOperation, NewWorker, Operation, Worker, States, Busy, NativeStates, Steps

\* A poll reads the rows of a pass that was made.
LEMMA PassReadType ==
  ASSUME NEW r \in Operation
  PROVE  PassRead(r) \in Nat
BY DEF PassRead, Operation

-----------------------------------------------------------------------------
(* Type correctness. *)

\* The initial tables are well typed.
LEMMA InitTypeOK == Init => TypeOK
<1> SUFFICES ASSUME Init PROVE TypeOK  OBVIOUS
<1>1. NewOperation("scan", TRUE) \in Operation /\ NewWorker("signature", TRUE) \in Worker
  BY NewType DEF Init
<1>2. << >> \in Seq(FoundList)
  OBVIOUS
<1>3. op \in [Ids -> Operation] /\ worker \in [Ids -> Worker]
  BY <1>1, Zenon DEF Init
<1>4. lists \in [Ids -> Seq(FoundList)]
  BY <1>2, Zenon DEF Init
<1>5. generation = 1 /\ attached \in BOOLEAN /\ counter = 0 /\ table = {}
  BY Zenon DEF Init
<1> QED  BY <1>3, <1>4, <1>5, ConstantsAssumption DEF TypeOK

\* Cleaning up every operation of the table keeps the tables well typed.
LEMMA CleanupTypeOK ==
  ASSUME TypeOK, CleanupOperations
  PROVE  /\ op' \in [Ids -> Operation]
         /\ worker' \in [Ids -> Worker]
         /\ lists' \in [Ids -> Seq(FoundList)]
         /\ table' = {}
<1>1. \A o \in Ids : op[o] \in Operation /\ worker[o] \in Worker /\ lists[o] \in Seq(FoundList)
  BY DEF TypeOK
<1>2. \A o \in Ids : /\ Destroyed(op[o]) \in Operation
                     /\ Terminated(worker[o], op[o]) \in Worker
                     /\ Freed(lists[o], op[o].foundList) \in Seq(FoundList)
  BY <1>1, DestroyedType, TerminatedType, FreedType
<1> QED  BY <1>1, <1>2 DEF CleanupOperations

\* Registering an operation keeps the tables well typed.
LEMMA RegisterTypeOK ==
  ASSUME TypeOK, NEW kind \in {"scan", "signature"}, Register(kind)
  PROVE  TypeOK'
<1>1. \A created \in BOOLEAN :
        NewOperation(kind, created) \in Operation /\ NewWorker(kind, created) \in Worker
  BY NewType DEF TypeOK
<1>2. counter' \in Ids /\ counter' = counter + 1
  BY ConstantsAssumption DEF TypeOK, Register, Ids
<1>3. op' \in [Ids -> Operation] /\ worker' \in [Ids -> Worker]
  BY <1>1, <1>2 DEF TypeOK, Register
<1> QED  BY <1>2, <1>3, ConstantsAssumption DEF TypeOK, Register, Ids

\* Destroying one operation keeps the tables well typed.
LEMMA DestroyTypeOK ==
  ASSUME TypeOK, NEW o \in Ids, NEW s \in States, DestroyOperation(o, s)
  PROVE  /\ op' \in [Ids -> Operation]
         /\ worker' \in [Ids -> Worker]
         /\ lists' \in [Ids -> Seq(FoundList)]
<1>1. op[o] \in Operation /\ worker[o] \in Worker /\ lists[o] \in Seq(FoundList)
  BY DEF TypeOK
<1>2. /\ Destroyed(op[o]) \in Operation
      /\ Terminated(worker[o], op[o]) \in Worker
      /\ Freed(lists[o], op[o].foundList) \in Seq(FoundList)
  BY <1>1, DestroyedType, TerminatedType, FreedType
<1>3. [Destroyed(op[o]) EXCEPT !.state = s, !.everCancelled = op[o].everCancelled \/ s = "cancelled"] \in Operation
  BY <1>1, <1>2 DEF Operation
<1> QED  BY <1>2, <1>3 DEF TypeOK, DestroyOperation

\* Every step keeps the tables well typed.
LEMMA NextTypeOK ==
  ASSUME TypeOK, [Next]_vars
  PROVE  TypeOK'
<1> USE ConstantsAssumption
<1>1. CASE UNCHANGED vars
  BY <1>1 DEF TypeOK, vars
<1>2. CASE RefreshTarget
  BY <1>2, CleanupTypeOK DEF RefreshTarget, TypeOK
<1>3. CASE ProcessDetach
  <2>1. attached' \in BOOLEAN  BY <1>3 DEF ProcessDetach
  <2> QED  BY <1>3, <2>1, CleanupTypeOK DEF ProcessDetach, TypeOK
<1>4. CASE ClientDisconnected
  BY <1>4, CleanupTypeOK DEF ClientDisconnected, TypeOK
<1>5. CASE ScanStart
  BY <1>5, RegisterTypeOK DEF ScanStart
<1>6. CASE SignatureStart
  BY <1>6, RegisterTypeOK DEF SignatureStart
<1>7. ASSUME NEW o \in Ids, HandlerStep(o) \/ StartTimerFires(o) \/ NativeScanProceeds(o) \/ WorkerStep(o)
      PROVE  TypeOK'
  <2> USE DEF At, Goto, Shared
  <2>0. op[o] \in Operation /\ worker[o] \in Worker /\ lists[o] \in Seq(FoundList)
    BY DEF TypeOK
  <2>1. CASE ScanRefine(o)
    <3> DEFINE n == op[o].requested + 1
    <3>1. n \in Nat
      BY <2>0 DEF Operation
    <3>2. op' = [op EXCEPT ![o] =
                  [op[o] EXCEPT !.state = "queued", !.command = TRUE, !.requested = n]]
      BY <2>1 DEF ScanRefine
    <3> HIDE DEF n
    <3>3. [op[o] EXCEPT !.state = "queued", !.command = TRUE, !.requested = n] \in Operation
      BY <2>0, <3>1 DEF Operation, States, Busy
    <3> QED  BY <2>1, <3>2, <3>3 DEF ScanRefine, TypeOK
  <2>2. CASE ScanClose(o)
    BY <2>2, DestroyTypeOK DEF ScanClose, CloseOperation, TypeOK, States
  <2>3. CASE SignatureClose(o)
    <3>1. op[o].state \in States  BY <2>0 DEF Operation
    <3> QED  BY <2>3, <3>1, DestroyTypeOK DEF SignatureClose, CloseOperation, TypeOK
  <2>4. CASE OperationsCancel(o)
    BY <2>4, DestroyTypeOK DEF OperationsCancel, TypeOK, States
  <2>5. CASE SummaryMaterializes(o)
    <3>1. /\ Append(lists[o], [pass |-> PassRead(op[o]), live |-> TRUE]) \in Seq(FoundList)
          /\ Len(lists[o]) + 1 \in Nat
      BY <2>0, AppendType, PassReadType
    <3> DEFINE late == Overtaken(op[o])
    <3>3. \/ op' = [op EXCEPT ![o] = [op[o] EXCEPT !.state = "completed",
                        !.foundList = Len(lists[o]) + 1, !.overtaken = late]]
          \/ op' = [op EXCEPT ![o] = [op[o] EXCEPT !.foundList = Len(lists[o]) + 1]]
          \/ op' = [op EXCEPT ![o] = [op[o] EXCEPT !.state = "failed"]]
      BY <2>5 DEF SummaryMaterializes
    <3>2. /\ [op[o] EXCEPT !.state = "completed", !.foundList = Len(lists[o]) + 1,
                           !.overtaken = late] \in Operation
          /\ [op[o] EXCEPT !.foundList = Len(lists[o]) + 1] \in Operation
          /\ [op[o] EXCEPT !.state = "failed"] \in Operation
      <4>1. late \in BOOLEAN  BY DEF Overtaken
      <4> HIDE DEF late
      <4> QED  BY <2>0, <3>1, <4>1 DEF Operation, States, Busy
    <3>4. op' \in [Ids -> Operation]
      <4> HIDE DEF late
      <4> QED  BY <3>2, <3>3 DEF TypeOK
    <3> QED  BY <2>5, <3>1, <3>4 DEF SummaryMaterializes, TypeOK
  <2>6. CASE StartTimerFires(o)
    <3>1. /\ [op[o] EXCEPT !.timer = FALSE, !.thread = TRUE] \in Operation
          /\ [op[o] EXCEPT !.timer = FALSE] \in Operation
          /\ [worker[o] EXCEPT !.pc = "signatureStart"] \in Worker
          /\ [worker[o] EXCEPT !.pc = "done", !.raised = TRUE] \in Worker
      BY <2>0 DEF Operation, Worker, Steps
    <3> QED  BY <2>6, <3>1 DEF StartTimerFires, TypeOK
  <2>7. CASE NativeScanProceeds(o)
    <3>1. \A n \in NativeStates : [op[o] EXCEPT !.native = n] \in Operation
      BY <2>0 DEF Operation
    <3> QED  BY <2>7, <3>1 DEF NativeScanProceeds, TypeOK, NativeStates
  <2>8. ASSUME NEW from, NEW to \in Steps, MarkRunning(o, from, to)
        PROVE  TypeOK'
    BY <2>0, <2>8 DEF MarkRunning, TypeOK, Operation, Worker, States, Busy
  <2>9. CASE FirstScan(o)
    <3>1. \A b \in BOOLEAN, n \in NativeStates :
            [op[o] EXCEPT !.memScan = b, !.native = n] \in Operation
      BY <2>0 DEF Operation
    <3>2. /\ [worker[o] EXCEPT !.pc = "firstWait"] \in Worker
          /\ [worker[o] EXCEPT !.pc = "firstPublish", !.ok = FALSE] \in Worker
      BY <2>0 DEF Worker, Steps
    <3>3. PICK n \in {"none", "fresh", "scanning"} :
            op' = [op EXCEPT ![o] = [op[o] EXCEPT !.memScan = (n # "none"), !.native = n]]
      BY <2>9 DEF FirstScan
    <3>4. op' \in [Ids -> Operation]
      <4>1. (n # "none") \in BOOLEAN /\ n \in NativeStates  BY DEF NativeStates
      <4>2. [op[o] EXCEPT !.memScan = (n # "none"), !.native = n] \in Operation
        BY <3>1, <4>1
      <4> QED  BY <3>3, <4>2 DEF TypeOK
    <3>5. worker' \in [Ids -> Worker]
      BY <2>9, <3>2 DEF FirstScan, TypeOK
    <3> QED  BY <2>9, <3>4, <3>5 DEF FirstScan, TypeOK
  <2>10. ASSUME NEW from, NEW to \in Steps, WaitTillDone(o, from, to)
         PROVE  TypeOK'
    <3>1. Freed(lists[o], worker[o].old) \in Seq(FoundList)
      BY <2>0, FreedType
    <3>2. /\ Append(Freed(lists[o], worker[o].old), [pass |-> op[o].passes, live |-> TRUE])
               \in Seq(FoundList)
          /\ Len(lists[o]) + 1 \in Nat
      BY <2>0, <3>1, AppendType DEF Operation
    <3>3. /\ [worker[o] EXCEPT !.pc = to, !.ok = TRUE, !.fresh = Len(lists[o]) + 1] \in Worker
          /\ [worker[o] EXCEPT !.pc = to, !.ok = FALSE, !.fresh = 0] \in Worker
      BY <2>0, <3>2 DEF Worker
    <3> QED  BY <2>10, <3>1, <3>2, <3>3 DEF WaitTillDone, CreateFoundList, TypeOK
  <2>11. Outcome(op[o], worker[o]) \in Operation
    BY <2>0, OutcomeType DEF Worker
  <2>12. CASE FirstPublish(o)
    BY <2>0, <2>11, <2>12 DEF FirstPublish, TypeOK, Worker, Steps
  <2>13. CASE NextPublish(o)
    <3>1. Freed(lists[o], worker[o].fresh) \in Seq(FoundList)
      BY <2>0, FreedType
    <3> QED  BY <2>0, <2>11, <2>13, <3>1 DEF NextPublish, TypeOK, Worker, Steps
  <2>14. CASE TakeCommand(o)
    BY <2>0, <2>14 DEF TakeCommand, TypeOK, Operation, Worker, Steps
  <2>15. CASE ScanThreadExits(o)
    BY <2>0, <2>15 DEF ScanThreadExits, TypeOK, Worker, Steps
  <2>16. CASE CaptureOldList(o)
    BY <2>0, <2>16 DEF CaptureOldList, TypeOK, Operation, Worker, Steps
  <2>17. CASE NextScan(o)
    <3> DEFINE n == op[o].passes + 1
    <3>1. n \in Nat
      BY <2>0 DEF Operation
    <3>2. [op[o] EXCEPT !.native = "scanning", !.passes = n] \in Operation
      <4> HIDE DEF n
      <4> QED  BY <2>0, <3>1 DEF Operation, NativeStates
    <3>3. /\ [worker[o] EXCEPT !.pc = "nextWait"] \in Worker
          /\ [worker[o] EXCEPT !.pc = "nextPublish", !.ok = FALSE, !.fresh = 0] \in Worker
      BY <2>0 DEF Worker, Steps
    <3>4. \/ op' = op
          \/ op' = [op EXCEPT ![o] = [op[o] EXCEPT !.native = "scanning", !.passes = n]]
      BY <2>17 DEF NextScan
    <3>5. op' \in [Ids -> Operation]
      <4> HIDE DEF n
      <4> QED  BY <3>2, <3>4 DEF TypeOK
    <3> QED  BY <2>17, <3>3, <3>5 DEF NextScan, TypeOK
  <2>18. CASE SignatureCheck(o)
    <3>1. /\ [op[o] EXCEPT !.memScan = TRUE, !.native = "scanning"] \in Operation
          /\ \A pc \in Steps : [worker[o] EXCEPT !.pc = pc] \in Worker
      BY <2>0 DEF Operation, Worker, NativeStates
    <3> QED  BY <2>18, <3>1 DEF SignatureCheck, TypeOK, Steps
  <2>19. CASE SignatureScan(o)
    <3> DEFINE n == worker[o].attempted + 1
    <3>1. n \in Nat
      BY <2>0 DEF Worker
    <3>2. [op[o] EXCEPT !.memScan = FALSE, !.native = "destroyed"] \in Operation
      BY <2>0 DEF Operation, NativeStates
    <3>3. PICK ok \in BOOLEAN, pc \in {"signatureCheck", "signaturePublish"} :
            worker' = [worker EXCEPT ![o] =
                        [worker[o] EXCEPT !.attempted = n, !.ok = ok, !.pc = pc]]
      BY <2>19 DEF SignatureScan
    <3>4. worker' \in [Ids -> Worker]
      <4> HIDE DEF n
      <4>1. [worker[o] EXCEPT !.attempted = n, !.ok = ok, !.pc = pc] \in Worker
        BY <2>0, <3>1 DEF Worker, Steps
      <4> QED  BY <3>3, <4>1 DEF TypeOK
    <3> QED  BY <2>19, <3>2, <3>4 DEF SignatureScan, TypeOK
  <2>20. CASE SignaturePublish(o)
    <3>1. Outcome(op[o], [worker[o] EXCEPT !.fresh = 0]) \in Operation
      BY <2>0, OutcomeType DEF Worker
    <3> QED  BY <2>0, <2>20, <3>1 DEF SignaturePublish, TypeOK, Worker, Steps
  <2>21. CASE PublishRaises(o)
    <3>1. /\ [op[o] EXCEPT !.foundList = worker[o].fresh] \in Operation
          /\ \A pc \in Steps : [worker[o] EXCEPT !.pc = pc, !.raised = TRUE] \in Worker
      BY <2>0 DEF Operation, Worker
    <3> QED  BY <2>21, <3>1 DEF PublishRaises, TypeOK, Steps
  <2>22. CASE SignatureRaises(o)
    <3>1. [worker[o] EXCEPT !.pc = "done", !.raised = TRUE] \in Worker
      BY <2>0 DEF Worker, Steps
    <3> QED  BY <2>22, <3>1 DEF SignatureRaises, TypeOK
  <2> QED
    BY <1>7, <2>1, <2>2, <2>3, <2>4, <2>5, <2>6, <2>7, <2>8, <2>9, <2>10, <2>12, <2>13,
       <2>14, <2>15, <2>16, <2>17, <2>18, <2>19, <2>20, <2>21, <2>22
       DEF HandlerStep, WorkerStep, Steps
<1> QED  BY <1>1, <1>2, <1>3, <1>4, <1>5, <1>6, <1>7 DEF Next

\* Type correctness of every reachable state.
THEOREM TypeCorrect == Spec => []TypeOK
<1> QED  BY InitTypeOK, NextTypeOK, PTL DEF Spec

-----------------------------------------------------------------------------
(* The inductive invariant. *)

SignatureSteps == {"signatureStart", "signatureCheck", "signatureScan", "signaturePublish"}

\* What ties a worker to its operation: a worker that runs has been told to stop
\* or can still be told to, because the operation keeps its thread and, for a
\* signature, is busy; a pending timer belongs to a live signature.
WorkerInv(o) ==
  /\ o > counter => ~Alive(o) /\ ~op[o].timer
  /\ Alive(o) => (worker[o].pc \in SignatureSteps <=> op[o].kind = "signature")
  /\ Alive(o) /\ ~worker[o].terminated
       => op[o].thread /\ (op[o].kind = "signature" => op[o].state \in Busy)
  /\ op[o].timer
       => o \in table /\ op[o].kind = "signature" /\ ~op[o].everCancelled /\ worker[o].pc = "none"
  /\ Abandoned(o) /\ Alive(o) => worker[o].terminated

IInv ==
  /\ TypeOK
  /\ HandlesBelongToTarget
  /\ TableWithinCapacity
  /\ \A o \in Ids : WorkerInv(o)

\* A step of one operation: a handler on it, its timer, its scan or its worker.
OperationStep(o) ==
  HandlerStep(o) \/ StartTimerFires(o) \/ NativeScanProceeds(o) \/ WorkerStep(o)

\* It concerns no other operation and registers none.
LEMMA StepFrame ==
  ASSUME TypeOK, NEW o \in Ids, OperationStep(o)
  PROVE  /\ generation' = generation /\ counter' = counter
         /\ table' \in {table, table \ {o}}
         /\ \A x \in Ids \ {o} :
              op'[x] = op[x] /\ worker'[x] = worker[x] /\ lists'[x] = lists[x]
<1> USE DEF TypeOK, At, Goto, Shared, DestroyOperation, CloseOperation
<1>1. CASE HandlerStep(o)
  BY <1>1 DEF HandlerStep, ScanRefine, ScanClose, SignatureClose, OperationsCancel,
              SummaryMaterializes
<1>2. CASE StartTimerFires(o)
  BY <1>2 DEF StartTimerFires
<1>3. CASE NativeScanProceeds(o)
  BY <1>3 DEF NativeScanProceeds
<1>4. CASE WorkerStep(o)
  BY <1>4 DEF WorkerStep, MarkRunning, FirstScan, WaitTillDone, CreateFoundList, FirstPublish,
     TakeCommand, ScanThreadExits, CaptureOldList, NextScan, NextPublish, SignatureCheck,
     SignatureScan, SignaturePublish, PublishRaises, SignatureRaises
<1> QED  BY <1>1, <1>2, <1>3, <1>4 DEF OperationStep

\* What a worker step leaves alone, and where it goes: it keeps to the steps of
\* its kind, and a signature worker leaves a busy operation busy until it is done.
Effect(o) ==
  /\ op'[o].gen = op[o].gen /\ op'[o].kind = op[o].kind
  /\ op'[o].timer = op[o].timer /\ op'[o].thread = op[o].thread
  /\ op'[o].everCancelled = op[o].everCancelled
  /\ op[o].overtaken => op'[o].overtaken
  /\ worker'[o].terminated = worker[o].terminated

Moves(o) ==
  /\ Alive(o)
  /\ worker'[o].pc # "none"
  /\ worker'[o].pc = "done"
       \/ (worker'[o].pc \in SignatureSteps <=> worker[o].pc \in SignatureSteps)
  /\ worker[o].pc \in SignatureSteps /\ worker'[o].pc # "done" /\ op[o].state \in Busy
       => op'[o].state \in Busy

LEMMA WorkerEffect ==
  ASSUME TypeOK, NEW o \in Ids, WorkerStep(o)
  PROVE  Effect(o) /\ Moves(o) /\ table' = table
<1>0. /\ op[o] \in Operation /\ worker[o] \in Worker
      /\ o \in DOMAIN op /\ o \in DOMAIN worker
  BY DEF TypeOK
<1>1. \A w : /\ Outcome(op[o], w).gen = op[o].gen
             /\ Outcome(op[o], w).kind = op[o].kind
             /\ Outcome(op[o], w).timer = op[o].timer
             /\ Outcome(op[o], w).thread = op[o].thread
             /\ Outcome(op[o], w).everCancelled = op[o].everCancelled
             /\ Outcome(op[o], w).overtaken = op[o].overtaken
  BY <1>0 DEF Outcome, Operation
<1>15. \A b, n, k :
         LET q == [op[o] EXCEPT !.memScan = b, !.native = n]
             p == [op[o] EXCEPT !.native = n, !.passes = k]
         IN  /\ q.gen = op[o].gen /\ q.kind = op[o].kind /\ q.timer = op[o].timer
             /\ q.thread = op[o].thread /\ q.everCancelled = op[o].everCancelled
             /\ q.state = op[o].state /\ q.overtaken = op[o].overtaken
             /\ p.overtaken = op[o].overtaken
             /\ p.gen = op[o].gen /\ p.kind = op[o].kind /\ p.timer = op[o].timer
             /\ p.thread = op[o].thread /\ p.everCancelled = op[o].everCancelled
  BY <1>0 DEF Operation
<1>16. \A pc, b, n :
         LET f == [worker[o] EXCEPT !.pc = pc, !.ok = b]
             g == [worker[o] EXCEPT !.pc = pc, !.ok = b, !.fresh = n]
             h == [worker[o] EXCEPT !.attempted = n, !.ok = b, !.pc = pc]
         IN  /\ f.pc = pc /\ f.terminated = worker[o].terminated
             /\ g.pc = pc /\ g.terminated = worker[o].terminated
             /\ h.pc = pc /\ h.terminated = worker[o].terminated
  BY <1>0 DEF Worker
<1> USE <1>0 DEF Effect, Moves, Alive, SignatureSteps, Operation, Worker, At, Goto, Shared, Busy
<1>14. table' = table
  BY DEF WorkerStep, MarkRunning, FirstScan, WaitTillDone, CreateFoundList, FirstPublish,
     TakeCommand, ScanThreadExits, CaptureOldList, NextScan, NextPublish, SignatureCheck,
     SignatureScan, SignaturePublish, PublishRaises, SignatureRaises
<1>2. ASSUME NEW from, NEW to \in Steps \ {"none"}, MarkRunning(o, from, to),
             from \notin {"none", "done"}, from \in SignatureSteps <=> to \in SignatureSteps
      PROVE  Effect(o) /\ Moves(o)
  BY <1>2 DEF MarkRunning
<1>3. CASE FirstScan(o)
  <2>1. /\ \E n : op'[o] = [op[o] EXCEPT !.memScan = (n # "none"), !.native = n]
        /\ \/ worker'[o] = [worker[o] EXCEPT !.pc = "firstWait"]
           \/ worker'[o] = [worker[o] EXCEPT !.pc = "firstPublish", !.ok = FALSE]
    BY <1>3 DEF FirstScan
  <2>2. Effect(o) /\ worker[o].pc = "firstScan" /\ worker'[o].pc \in {"firstWait", "firstPublish"}
    BY <1>3, <1>15, <1>16, <2>1 DEF FirstScan
  <2> QED  BY <1>14, <2>2
<1>4. ASSUME NEW from, NEW to \in Steps \ {"none"}, WaitTillDone(o, from, to),
             from \notin {"none", "done"} \cup SignatureSteps, to \notin SignatureSteps
      PROVE  Effect(o) /\ Moves(o)
  <2> DEFINE n == Len(lists[o]) + 1
  <2>1. /\ op'[o] = op[o]
        /\ \/ worker'[o] = [worker[o] EXCEPT !.pc = to, !.ok = TRUE, !.fresh = n]
           \/ worker'[o] = [worker[o] EXCEPT !.pc = to, !.ok = FALSE, !.fresh = 0]
    BY <1>4 DEF WaitTillDone, CreateFoundList
  <2>2. worker'[o].pc = to /\ worker'[o].terminated = worker[o].terminated
    <3> HIDE DEF n
    <3>1. CASE worker'[o] = [worker[o] EXCEPT !.pc = to, !.ok = TRUE, !.fresh = n]
      BY <3>1
    <3>2. CASE worker'[o] = [worker[o] EXCEPT !.pc = to, !.ok = FALSE, !.fresh = 0]
      BY <3>2
    <3> QED  BY <2>1, <3>1, <3>2
  <2>3. worker[o].pc = from
    BY <1>4 DEF WaitTillDone
  <2> QED  BY <1>4, <1>14, <2>1, <2>2, <2>3
<1>5. CASE FirstPublish(o)
  BY <1>1, <1>5 DEF FirstPublish
<1>6. CASE NextPublish(o)
  BY <1>1, <1>6 DEF NextPublish
<1>7. CASE TakeCommand(o)
  BY <1>7 DEF TakeCommand
<1>8. CASE ScanThreadExits(o)
  BY <1>8 DEF ScanThreadExits
<1>9. CASE CaptureOldList(o)
  BY <1>9 DEF CaptureOldList
<1>10. CASE NextScan(o)
  <2>1. \/ /\ op'[o] = [op[o] EXCEPT !.native = "scanning", !.passes = op[o].passes + 1]
           /\ worker'[o] = [worker[o] EXCEPT !.pc = "nextWait"]
        \/ /\ op'[o] = op[o]
           /\ worker'[o] = [worker[o] EXCEPT !.pc = "nextPublish", !.ok = FALSE, !.fresh = 0]
    BY <1>10 DEF NextScan
  <2>2. Effect(o) /\ worker[o].pc = "nextScan" /\ worker'[o].pc \in {"nextWait", "nextPublish"}
    BY <1>10, <1>15, <1>16, <2>1 DEF NextScan
  <2> QED  BY <1>14, <2>2
<1>11. CASE SignatureCheck(o)
  <2>1. \/ op'[o] = op[o] /\ worker'[o].pc = "done"
        \/ /\ op'[o] = [op[o] EXCEPT !.memScan = TRUE, !.native = "scanning"]
           /\ worker'[o].pc = "signatureScan"
    BY <1>11 DEF SignatureCheck
  <2>2. worker[o].pc = "signatureCheck" /\ worker'[o].terminated = worker[o].terminated
    BY <1>11 DEF SignatureCheck
  <2>3. Effect(o) /\ op'[o].state = op[o].state
    BY <1>15, <2>1, <2>2
  <2> QED  BY <1>14, <2>1, <2>2, <2>3
<1>12. CASE SignatureScan(o)
  <2>1. /\ op'[o] = [op[o] EXCEPT !.memScan = FALSE, !.native = "destroyed"]
        /\ \E ok \in BOOLEAN, pc \in {"signatureCheck", "signaturePublish"} :
             worker'[o] = [worker[o] EXCEPT
               !.attempted = worker[o].attempted + 1, !.ok = ok, !.pc = pc]
    BY <1>12 DEF SignatureScan
  <2>2. /\ Effect(o) /\ op'[o].state = op[o].state
        /\ worker[o].pc = "signatureScan"
        /\ worker'[o].pc \in {"signatureCheck", "signaturePublish"}
    BY <1>12, <1>15, <1>16, <2>1 DEF SignatureScan
  <2> QED  BY <1>14, <2>2
<1>13. CASE SignaturePublish(o)
  BY <1>1, <1>13 DEF SignaturePublish
<1>17. CASE PublishRaises(o)
  <2>1. /\ op'[o] = [op[o] EXCEPT !.foundList = worker[o].fresh]
        /\ \E pc \in {"poll", "done"} :
             worker'[o] = [worker[o] EXCEPT !.pc = pc, !.raised = TRUE]
        /\ worker[o].pc \in {"firstPublish", "nextPublish"}
    BY <1>17 DEF PublishRaises
  <2>2. Effect(o)  BY <2>1
  <2>3. worker'[o].pc \in {"poll", "done"}  BY <2>1
  <2> QED  BY <1>14, <2>1, <2>2, <2>3
<1>18. CASE SignatureRaises(o)
  <2>1. /\ op'[o] = op[o]
        /\ worker'[o] = [worker[o] EXCEPT !.pc = "done", !.raised = TRUE]
        /\ worker[o].pc \in {"signatureCheck", "signatureScan"}
    BY <1>18 DEF SignatureRaises
  <2> QED  BY <1>14, <2>1
<1> QED
  BY <1>2, <1>3, <1>4, <1>5, <1>6, <1>7, <1>8, <1>9, <1>10, <1>11, <1>12, <1>13, <1>14,
     <1>17, <1>18
     DEF WorkerStep, Steps

\* What a handler or a timer does to the fields of the tie.
LEMMA DestroyEffect ==
  ASSUME TypeOK, NEW o \in Ids, NEW s, DestroyOperation(o, s)
  PROVE  /\ op'[o].gen = op[o].gen /\ op'[o].kind = op[o].kind
         /\ op'[o].timer = FALSE /\ worker'[o].pc = worker[o].pc
         /\ op'[o].overtaken = op[o].overtaken
         /\ worker[o].terminated => worker'[o].terminated
         /\ op[o].thread /\ (op[o].kind # "signature" \/ op[o].state \in Busy)
              => worker'[o].terminated
<1>0. /\ op[o] \in Operation /\ worker[o] \in Worker
      /\ o \in DOMAIN op /\ o \in DOMAIN worker
  BY DEF TypeOK
<1>1. /\ Destroyed(op[o]) \in Operation
      /\ Destroyed(op[o]).timer = FALSE
      /\ Destroyed(op[o]).gen = op[o].gen
      /\ Destroyed(op[o]).kind = op[o].kind
      /\ Destroyed(op[o]).overtaken = op[o].overtaken
  BY <1>0, DestroyedType
<1>2. /\ worker'[o] = Terminated(worker[o], op[o])
      /\ op'[o] = [Destroyed(op[o]) EXCEPT
           !.state = s, !.everCancelled = op[o].everCancelled \/ s = "cancelled"]
  BY <1>0 DEF DestroyOperation
<1>3. /\ op'[o].gen = op[o].gen /\ op'[o].kind = op[o].kind /\ op'[o].timer = FALSE
      /\ op'[o].overtaken = op[o].overtaken
  BY <1>1, <1>2 DEF Operation
<1> QED  BY <1>0, <1>2, <1>3, TerminatedType

LEMMA CallEffect ==
  ASSUME TypeOK, NEW o \in Ids, ScanRefine(o) \/ SummaryMaterializes(o) \/ NativeScanProceeds(o)
  PROVE  /\ Effect(o) /\ worker' = worker /\ table' = table
         /\ op[o].kind # "scan" => op'[o].state = op[o].state
<1>0. op[o] \in Operation /\ o \in DOMAIN op
  BY DEF TypeOK
<1>1. CASE ScanRefine(o)
  <2>1. /\ op'[o] = [op[o] EXCEPT
             !.state = "queued", !.command = TRUE, !.requested = op[o].requested + 1]
        /\ worker' = worker /\ table' = table /\ op[o].kind = "scan"
    BY <1>0, <1>1 DEF ScanRefine
  <2> QED  BY <1>0, <2>1 DEF Operation, Effect
<1>2. CASE SummaryMaterializes(o)
  <2> DEFINE late == Overtaken(op[o])
  <2>1. /\ \/ op'[o] = [op[o] EXCEPT
                 !.state = "completed", !.foundList = Len(lists[o]) + 1, !.overtaken = late]
           \/ op'[o] = [op[o] EXCEPT !.foundList = Len(lists[o]) + 1]
           \/ op'[o] = [op[o] EXCEPT !.state = "failed"]
        /\ worker' = worker /\ table' = table /\ op[o].kind = "scan"
    BY <1>0, <1>2 DEF SummaryMaterializes, PollSeesComplete
  <2>2. op[o].overtaken => late  BY DEF Overtaken
  <2> HIDE DEF late
  <2> QED  BY <1>0, <2>1, <2>2 DEF Operation, Effect
<1>3. CASE NativeScanProceeds(o)
  BY <1>0, <1>3 DEF NativeScanProceeds, Operation, Effect, Shared
<1> QED  BY <1>1, <1>2, <1>3

LEMMA TimerEffect ==
  ASSUME TypeOK, NEW o \in Ids, StartTimerFires(o)
  PROVE  /\ op[o].timer /\ op'[o].timer = FALSE
         /\ op'[o].gen = op[o].gen /\ op'[o].kind = op[o].kind
         /\ op'[o].everCancelled = op[o].everCancelled /\ op'[o].state = op[o].state
         /\ table' = table /\ op'[o].overtaken = op[o].overtaken
         /\ \/ worker'[o] = worker[o]
            \/ worker'[o].pc = "done" /\ op[o].state \in Busy
            \/ worker'[o].pc = "signatureStart" /\ op'[o].thread /\ op[o].state \in Busy
<1>0. op[o] \in Operation /\ o \in DOMAIN op /\ worker[o] \in Worker /\ o \in DOMAIN worker
  BY DEF TypeOK
<1>1. CASE op[o].state = "queued"
  <2>1. \/ /\ op'[o] = [op[o] EXCEPT !.timer = FALSE, !.thread = TRUE]
           /\ worker'[o] = [worker[o] EXCEPT !.pc = "signatureStart"]
        \/ /\ op'[o] = [op[o] EXCEPT !.timer = FALSE]
           /\ worker'[o] = [worker[o] EXCEPT !.pc = "done", !.raised = TRUE]
    BY <1>0, <1>1 DEF StartTimerFires
  <2>2. op'[o].timer = FALSE /\ op'[o].gen = op[o].gen
        /\ op'[o].kind = op[o].kind /\ op'[o].everCancelled = op[o].everCancelled
        /\ op'[o].state = op[o].state /\ op'[o].overtaken = op[o].overtaken
        /\ \/ worker'[o].pc = "signatureStart" /\ op'[o].thread = TRUE
           \/ worker'[o].pc = "done"
    BY <1>0, <2>1 DEF Operation, Worker
  <2> QED  BY <1>1, <2>2 DEF StartTimerFires, Busy
<1>2. CASE op[o].state # "queued"
  <2>1. op'[o] = [op[o] EXCEPT !.timer = FALSE] /\ worker' = worker
    BY <1>0, <1>2 DEF StartTimerFires
  <2> QED  BY <1>0, <2>1 DEF StartTimerFires, Operation
<1> QED  BY <1>1, <1>2

\* A step of an operation keeps its identity and the tie to its worker.
LEMMA StepWorkerInv ==
  ASSUME TypeOK, NEW o \in Ids, WorkerInv(o), OperationStep(o)
  PROVE  /\ WorkerInv(o)' /\ op'[o].gen = op[o].gen /\ op'[o].kind = op[o].kind
         /\ op[o].overtaken => op'[o].overtaken
<1>1. counter' = counter /\ table' \in {table, table \ {o}}
  BY StepFrame
<1> USE DEF WorkerInv, Alive, Abandoned
<1>2. CASE ScanClose(o) \/ SignatureClose(o) \/ OperationsCancel(o)
  <2>1. PICK s : DestroyOperation(o, s)
    BY <1>2 DEF ScanClose, SignatureClose, OperationsCancel
  <2> QED  BY <1>1, <2>1, DestroyEffect
<1>3. CASE ScanRefine(o) \/ SummaryMaterializes(o) \/ NativeScanProceeds(o)
  BY <1>1, <1>3, CallEffect DEF Effect
<1>4. CASE StartTimerFires(o)
  BY <1>1, <1>4, TimerEffect DEF SignatureSteps
<1>5. CASE WorkerStep(o)
  BY <1>1, <1>5, WorkerEffect DEF Effect, Moves
<1> QED  BY <1>2, <1>3, <1>4, <1>5 DEF OperationStep, HandlerStep

\* Cleaning up tells every worker of the table to stop and cancels its timer.
LEMMA CleanupWorkerInv ==
  ASSUME TypeOK, CleanupOperations, counter' = counter, NEW o \in Ids, WorkerInv(o)
  PROVE  WorkerInv(o)'
<1>0. op[o] \in Operation /\ worker[o] \in Worker
  BY DEF TypeOK
<1>1. CASE o \in table
  <2>1. /\ op'[o] = Destroyed(op[o]) /\ worker'[o] = Terminated(worker[o], op[o]) /\ table' = {}
    BY <1>1 DEF CleanupOperations
  <2>2. /\ op'[o].timer = FALSE /\ op'[o].kind = op[o].kind
        /\ worker'[o].pc = worker[o].pc
        /\ worker[o].terminated => worker'[o].terminated
        /\ op[o].thread /\ (op[o].kind # "signature" \/ op[o].state \in Busy)
             => worker'[o].terminated
    BY <1>0, <2>1, DestroyedType, TerminatedType
  <2> QED  BY <2>1, <2>2 DEF WorkerInv, Alive, Abandoned
<1>2. CASE o \notin table
  <2>1. op'[o] = op[o] /\ worker'[o] = worker[o] /\ table' = {}
    BY <1>2 DEF CleanupOperations
  <2> QED  BY <1>2, <2>1 DEF WorkerInv, Alive, Abandoned
<1> QED  BY <1>1, <1>2

\* A new operation is in the table and can be told to stop.
LEMMA RegisterWorkerInv ==
  ASSUME TypeOK, NEW kind \in {"scan", "signature"},
         Register(kind), NEW o \in Ids, WorkerInv(o)
  PROVE  WorkerInv(o)'
<1>1. counter' \in Ids /\ counter' = counter + 1 /\ counter \in Nat
  BY ConstantsAssumption DEF TypeOK, Register, Ids
<1>2. CASE o = counter'
  <2>1. PICK created \in BOOLEAN :
          op'[o] = NewOperation(kind, created) /\ worker'[o] = NewWorker(kind, created)
    BY <1>1, <1>2 DEF Register, TypeOK
  <2>7. o \in table'
    BY <1>2 DEF Register
  <2>2. ~(o > counter')
    BY <1>1, <1>2
  <2>3. /\ op'[o].kind = kind /\ op'[o].state = "queued"
        /\ op'[o].timer = (created /\ kind = "signature")
        /\ op'[o].thread = (created /\ kind = "scan")
        /\ op'[o].everCancelled = FALSE
    BY <2>1 DEF NewOperation
  <2>4. worker'[o].pc = IF ~created THEN "done" ELSE IF kind = "scan" THEN "scanStart" ELSE "none"
    BY <2>1 DEF NewWorker
  <2>5. CASE kind = "scan"
    BY <2>7, <2>2, <2>3, <2>4, <2>5 DEF WorkerInv, Alive, Abandoned, SignatureSteps
  <2>6. CASE kind = "signature"
    BY <2>7, <2>2, <2>3, <2>4, <2>6 DEF WorkerInv, Alive, Abandoned, SignatureSteps, Busy
  <2> QED  BY <2>5, <2>6
<1>3. CASE o # counter'
  <2>1. op'[o] = op[o] /\ worker'[o] = worker[o] /\ (o \in table' <=> o \in table)
    BY <1>1, <1>3 DEF Register, TypeOK
  <2>2. (o > counter' <=> o > counter) /\ (o <= counter' <=> o <= counter)
    <3>1. o \in Int  BY ConstantsAssumption DEF Ids
    <3> QED  BY <1>1, <1>3, <3>1
  <2> QED  BY <2>1, <2>2 DEF WorkerInv, Alive, Abandoned
<1> QED  BY <1>2, <1>3

\* The table is finite, so its handles can be counted.
LEMMA TableFinite == TypeOK => IsFiniteSet(table)
<1> SUFFICES ASSUME TypeOK PROVE IsFiniteSet(table)  OBVIOUS
<1>1. counter \in Nat /\ table \in SUBSET (1 .. counter)
  BY ConstantsAssumption DEF TypeOK
<1>2. IsFiniteSet(1 .. counter)
  BY <1>1, FS_Interval
<1> QED  BY <1>1, <1>2, FS_Subset

\* The limit is checked before a handle is registered and handles are only removed
\* otherwise.
LEMMA NextWithinCapacity ==
  ASSUME TypeOK, TypeOK', TableWithinCapacity, [Next]_vars
  PROVE  TableWithinCapacity'
<1>0. IsFiniteSet(table) /\ Cardinality(table) \in Nat
  BY TableFinite, FS_CardinalityType
<1>1. CASE table' = {}
  BY <1>1, FS_EmptySet, ConstantsAssumption DEF TableWithinCapacity
<1>2. CASE table' \subseteq table
  <2>1. Cardinality(table') <= Cardinality(table) /\ IsFiniteSet(table')
    BY <1>0, <1>2, FS_Subset
  <2>2. Cardinality(table') \in Nat
    BY <2>1, FS_CardinalityType
  <2> QED  BY <1>0, <2>1, <2>2, ConstantsAssumption DEF TableWithinCapacity
<1>3. CASE Cardinality(table) < Capacity /\ table' = table \cup {counter'}
  <2>1. Cardinality(table') <= Cardinality(table) + 1
    BY <1>0, <1>3, FS_AddElement
  <2>2. Cardinality(table') \in Nat
    BY <1>0, <1>3, FS_AddElement, FS_CardinalityType
  <2> QED  BY <1>0, <1>3, <2>1, <2>2, ConstantsAssumption DEF TableWithinCapacity
<1>4. \/ table' = {} \/ table' \subseteq table
      \/ Cardinality(table) < Capacity /\ table' = table \cup {counter'}
  <2>1. CASE UNCHANGED vars  BY <2>1 DEF vars
  <2>2. CASE RefreshTarget \/ ProcessDetach \/ ClientDisconnected
    BY <2>2 DEF RefreshTarget, ProcessDetach, ClientDisconnected, CleanupOperations
  <2>3. CASE ScanStart \/ SignatureStart
    BY <2>3 DEF ScanStart, SignatureStart, MayStart, Register
  <2>4. CASE \E o \in Ids : OperationStep(o)
    BY <2>4, StepFrame
  <2> QED  BY <2>1, <2>2, <2>3, <2>4 DEF Next, OperationStep
<1> QED  BY <1>1, <1>2, <1>3, <1>4

\* The invariant holds at the start.
LEMMA InitIInv == Init => IInv
<1> SUFFICES ASSUME Init PROVE IInv  OBVIOUS
<1>1. TypeOK  BY InitTypeOK
<1>2. HandlesBelongToTarget  BY DEF Init, HandlesBelongToTarget
<1>3. TableWithinCapacity
  BY FS_EmptySet, ConstantsAssumption DEF Init, TableWithinCapacity
<1>4. ASSUME NEW o \in Ids PROVE WorkerInv(o)
  BY DEF Init, WorkerInv, Alive, Abandoned, NewOperation, NewWorker
<1> QED  BY <1>1, <1>2, <1>3, <1>4 DEF IInv

\* Every step keeps it.
LEMMA NextIInv ==
  ASSUME IInv, [Next]_vars
  PROVE  IInv'
<1>1. TypeOK /\ TypeOK'
  BY NextTypeOK DEF IInv
<1>2. TableWithinCapacity'
  BY <1>1, NextWithinCapacity DEF IInv
<1>3. HandlesBelongToTarget' /\ \A x \in Ids : WorkerInv(x)'
  <2>1. CASE UNCHANGED vars
    BY <2>1 DEF vars, IInv, HandlesBelongToTarget, WorkerInv, Alive, Abandoned
  <2>2. CASE RefreshTarget \/ ProcessDetach \/ ClientDisconnected
    <3>1. CleanupOperations /\ counter' = counter /\ table' = {}
      BY <2>2 DEF RefreshTarget, ProcessDetach, ClientDisconnected, CleanupOperations
    <3>2. \A x \in Ids : WorkerInv(x)'
      BY <1>1, <3>1, CleanupWorkerInv DEF IInv
    <3> QED  BY <3>1, <3>2 DEF HandlesBelongToTarget
  <2>3. ASSUME NEW kind \in {"scan", "signature"}, Register(kind)
        PROVE  HandlesBelongToTarget' /\ \A x \in Ids : WorkerInv(x)'
    <3>1. \A x \in Ids : WorkerInv(x)'
      BY <1>1, <2>3, RegisterWorkerInv DEF IInv
    <3>2. ASSUME NEW x \in table'
          PROVE  op'[x].gen = generation'
      <4>1. counter' \in Ids /\ counter' = counter + 1 /\ counter \in Nat /\ generation' = generation
        BY <1>1, <2>3, ConstantsAssumption DEF TypeOK, Register, Ids
      <4>2. CASE x = counter'
        BY <1>1, <2>3, <4>1, <4>2 DEF Register, TypeOK, NewOperation
      <4>3. CASE x # counter'
        BY <1>1, <2>3, <4>1, <4>3 DEF Register, TypeOK, IInv, HandlesBelongToTarget
      <4> QED  BY <4>2, <4>3
    <3> QED  BY <3>1, <3>2 DEF HandlesBelongToTarget
  <2>4. CASE ScanStart \/ SignatureStart
    BY <2>3, <2>4 DEF ScanStart, SignatureStart
  <2>5. ASSUME NEW o \in Ids, OperationStep(o)
        PROVE  HandlesBelongToTarget' /\ \A x \in Ids : WorkerInv(x)'
    <3>1. /\ generation' = generation /\ counter' = counter
          /\ table' \in {table, table \ {o}}
          /\ \A x \in Ids \ {o} : op'[x] = op[x] /\ worker'[x] = worker[x]
      BY <1>1, <2>5, StepFrame
    <3>2. WorkerInv(o)' /\ op'[o].gen = op[o].gen
      BY <1>1, <2>5, StepWorkerInv DEF IInv
    <3>3. ASSUME NEW x \in Ids, x # o
          PROVE  WorkerInv(x)'
      BY <3>1, <3>3 DEF IInv, WorkerInv, Alive, Abandoned
    <3>4. ASSUME NEW x \in table'
          PROVE  op'[x].gen = generation'
      <4>1. x \in Ids /\ x \in table
        BY <1>1, <3>1, ConstantsAssumption DEF TypeOK, Ids
      <4> QED  BY <3>1, <3>2, <4>1 DEF IInv, HandlesBelongToTarget
    <3> QED  BY <3>2, <3>3, <3>4 DEF HandlesBelongToTarget
  <2> QED  BY <2>1, <2>2, <2>4, <2>5 DEF Next, OperationStep
<1> QED  BY <1>1, <1>2, <1>3 DEF IInv

-----------------------------------------------------------------------------
\* The invariant of every reachable state.
THEOREM Invariant == Spec => []IInv
<1> QED  BY InitIInv, NextIInv, PTL DEF Spec

\* However requests, disconnects and target changes interleave with the workers,
\* a handle that a request can name was made for the target served now.
THEOREM HandlesCurrent == Spec => []HandlesBelongToTarget
<1>1. IInv => HandlesBelongToTarget  BY DEF IInv
<1> QED  BY <1>1, Invariant, PTL

\* The table of handles never outgrows its limit.
THEOREM CapacityKept == Spec => []TableWithinCapacity
<1>1. IInv => TableWithinCapacity  BY DEF IInv
<1> QED  BY <1>1, Invariant, PTL

\* A cancelled, closed or cleaned-up operation has no pending timer, and its worker,
\* at whatever step it is, has been told to stop.
THEOREM AbandonedTold == Spec => []AbandonedIsTerminated
<1>1. IInv => AbandonedIsTerminated
  <2> SUFFICES ASSUME IInv, NEW o \in Ids, Abandoned(o)
               PROVE  (Alive(o) => worker[o].terminated) /\ ~op[o].timer
    BY DEF AbandonedIsTerminated
  <2> QED  BY DEF IInv, WorkerInv, Abandoned
<1> QED  BY <1>1, Invariant, PTL
-----------------------------------------------------------------------------
(***************************************************************************)
(* Results.  A command is given to a completed scan and makes it queued;   *)
(* the worker runs only what waits to be run, and publishes only a         *)
(* FoundList it created.                                                   *)
(***************************************************************************)

Waiting == {"queued", "cancelled", "closed"}
Publishing == {"firstPublish", "nextPublish"}

\* A worker that is about to announce itself, and a command it has not yet taken, find
\* the operation waiting.
StartInv(o) ==
  /\ worker[o].pc \in {"none", "scanStart", "taken", "signatureStart"}
       => op[o].state \in Waiting /\ ~op[o].command
  /\ op[o].command => op[o].state \in Waiting

\* What the worker is about to publish exists, and so does what was published.
ResultsInv(o) ==
  /\ worker[o].pc \in Publishing /\ worker[o].ok => worker[o].fresh \in 1 .. Len(lists[o])
  /\ o \in table /\ op[o].kind = "scan" /\ op[o].state = "completed"
       => op[o].foundList \in 1 .. Len(lists[o])

\* Completed is final for this operation.
Stable(o) ==
  o \in table /\ op[o].state = "completed" =>
    \/ o \notin table'
    \/ op'[o].state = "completed"
    \/ op'[o].state = "queued" /\ op'[o].requested = op[o].requested + 1

\* Destroying a FoundList leaves the others as they are.
LEMMA FreedRows ==
  ASSUME NEW ls \in Seq(FoundList), NEW l, NEW i \in 1 .. Len(ls), i # l
  PROVE  Freed(ls, l)[i] = ls[i]
<1>1. CASE l \in DOMAIN ls
  BY <1>1 DEF Freed
<1>2. CASE l \notin DOMAIN ls
  BY <1>2 DEF Freed
<1> QED  BY <1>1, <1>2

\* A FoundList that is appended comes last, whatever was destroyed before.
LEMMA AppendRows ==
  ASSUME NEW ls \in Seq(FoundList), NEW l, NEW pass \in Nat
  PROVE  LET new == Append(Freed(ls, l), [pass |-> pass, live |-> TRUE])
         IN  /\ Len(new) = Len(ls) + 1
             /\ new[Len(ls) + 1] = [pass |-> pass, live |-> TRUE]
             /\ \A i \in 1 .. Len(ls) : i # l => new[i] = ls[i]
<1>1. Freed(ls, l) \in Seq(FoundList) /\ Len(Freed(ls, l)) = Len(ls)
  BY FreedType
<1>2. [pass |-> pass, live |-> TRUE] \in FoundList  BY DEF FoundList
<1> QED  BY <1>1, <1>2, FreedRows, AppendProperties

\* What a handler, a timer or CE's scan does to what these invariants speak of.
LEMMA DestroyResults ==
  ASSUME TypeOK, NEW o \in Ids, NEW s, DestroyOperation(o, s)
  PROVE  /\ op'[o].state = s /\ op'[o].foundList = 0 /\ op'[o].memScan = FALSE
         /\ op'[o].kind = op[o].kind /\ op'[o].command = op[o].command
         /\ op'[o].passes = op[o].passes /\ op'[o].requested = op[o].requested
         /\ op'[o].native \in {op[o].native, "destroyed"}
         /\ worker'[o].pc = worker[o].pc /\ worker'[o].ok = worker[o].ok
         /\ worker'[o].old = worker[o].old /\ worker'[o].fresh = worker[o].fresh
         /\ Len(lists'[o]) = Len(lists[o])
         /\ \A i \in 1 .. Len(lists[o]) : i # op[o].foundList => lists'[o][i] = lists[o][i]
<1>0. /\ op[o] \in Operation /\ worker[o] \in Worker /\ lists[o] \in Seq(FoundList)
      /\ o \in DOMAIN op /\ o \in DOMAIN worker /\ o \in DOMAIN lists
  BY DEF TypeOK
<1>1. /\ op'[o] = [Destroyed(op[o]) EXCEPT
           !.state = s, !.everCancelled = op[o].everCancelled \/ s = "cancelled"]
      /\ worker'[o] = Terminated(worker[o], op[o])
      /\ lists'[o] = Freed(lists[o], op[o].foundList)
  BY <1>0 DEF DestroyOperation
<1>2. /\ op'[o].state = s /\ op'[o].foundList = 0 /\ op'[o].memScan = FALSE
      /\ op'[o].kind = op[o].kind /\ op'[o].command = op[o].command
      /\ op'[o].passes = op[o].passes /\ op'[o].requested = op[o].requested
      /\ op'[o].native \in {op[o].native, "destroyed"}
  BY <1>0, <1>1 DEF Destroyed, Operation
<1>3. /\ worker'[o].pc = worker[o].pc /\ worker'[o].ok = worker[o].ok
      /\ worker'[o].old = worker[o].old /\ worker'[o].fresh = worker[o].fresh
  BY <1>0, <1>1 DEF Terminated, Worker
<1> QED  BY <1>0, <1>1, <1>2, <1>3, FreedType, FreedRows

-----------------------------------------------------------------------------
(* Every step of an operation, field by field. *)

\* The operation's table after a step, but for the record of an early poll.
OpMayBe(o, state, command, memScan, native, foundList, passes, requested) ==
  /\ op'[o].kind = op[o].kind
  /\ op'[o].state = state /\ op'[o].command = command
  /\ op'[o].memScan = memScan /\ op'[o].native = native
  /\ op'[o].foundList = foundList
  /\ op'[o].passes = passes /\ op'[o].requested = requested

OpIs(o, state, command, memScan, native, foundList, passes, requested) ==
  /\ OpMayBe(o, state, command, memScan, native, foundList, passes, requested)
  /\ op'[o].overtaken = op[o].overtaken

OpStands(o) == op'[o] = op[o]

\* Its worker after a step.
WorkerIs(o, pc, ok, old, fresh) ==
  /\ worker'[o].pc = pc /\ worker'[o].ok = ok
  /\ worker'[o].old = old /\ worker'[o].fresh = fresh

Moved(o, pc) == WorkerIs(o, pc, worker[o].ok, worker[o].old, worker[o].fresh)

WorkerStands(o) == worker'[o] = worker[o]

\* The types of what belongs to one operation.
LEMMA OwnTypes ==
  ASSUME TypeOK, NEW o \in Ids
  PROVE  /\ op[o] \in Operation /\ worker[o] \in Worker /\ lists[o] \in Seq(FoundList)
         /\ o \in DOMAIN op /\ o \in DOMAIN worker /\ o \in DOMAIN lists
BY DEF TypeOK

LEMMA RefineFields ==
  ASSUME TypeOK, NEW o \in Ids, ScanRefine(o)
  PROVE  /\ op[o].kind = "scan" /\ op[o].state = "completed"
         /\ OpIs(o, "queued", TRUE, op[o].memScan, op[o].native, op[o].foundList,
                 op[o].passes, op[o].requested + 1)
         /\ WorkerStands(o) /\ lists' = lists /\ table' = table
<1> DEFINE n == op[o].requested + 1
<1>1. /\ op'[o] = [op[o] EXCEPT !.state = "queued", !.command = TRUE, !.requested = n]
      /\ op[o].kind = "scan" /\ op[o].state = "completed"
      /\ worker' = worker /\ lists' = lists /\ table' = table
  BY OwnTypes DEF ScanRefine
<1> HIDE DEF n
<1>2. OpIs(o, "queued", TRUE, op[o].memScan, op[o].native, op[o].foundList, op[o].passes, n)
  BY <1>1, OwnTypes DEF OpIs, OpMayBe, Operation
<1> QED  BY <1>1, <1>2 DEF n, WorkerStands

LEMMA SummaryFields ==
  ASSUME TypeOK, NEW o \in Ids, SummaryMaterializes(o)
  PROVE  /\ op[o].kind = "scan" /\ op[o].state = "running" /\ ProgressComplete(op[o])
         /\ op[o].memScan /\ WorkerStands(o) /\ table' = table
         /\ \/ /\ OpMayBe(o, "completed", op[o].command, op[o].memScan, op[o].native,
                          Len(lists[o]) + 1, op[o].passes, op[o].requested)
               /\ ~op'[o].overtaken => PassRead(op[o]) = op[o].requested
            \/ OpIs(o, "running", op[o].command, op[o].memScan, op[o].native,
                    Len(lists[o]) + 1, op[o].passes, op[o].requested)
            \/ /\ OpIs(o, "failed", op[o].command, op[o].memScan, op[o].native,
                       op[o].foundList, op[o].passes, op[o].requested)
               /\ lists' = lists
         /\ \/ op'[o].state = "failed"
            \/ /\ Len(lists'[o]) = Len(lists[o]) + 1
               /\ lists'[o][Len(lists[o]) + 1] = [pass |-> PassRead(op[o]), live |-> TRUE]
               /\ \A i \in 1 .. Len(lists[o]) : lists'[o][i] = lists[o][i]
<1>1. /\ op[o].kind = "scan" /\ op[o].state = "running" /\ ProgressComplete(op[o])
      /\ op[o].memScan /\ worker' = worker /\ table' = table
  BY DEF SummaryMaterializes, PollSeesComplete
<1>2. CASE op' = [op EXCEPT ![o].state = "failed"] /\ lists' = lists
  <2>1. op'[o] = [op[o] EXCEPT !.state = "failed"]  BY <1>2, OwnTypes
  <2>2. OpIs(o, "failed", op[o].command, op[o].memScan, op[o].native,
             op[o].foundList, op[o].passes, op[o].requested)
    BY <2>1, OwnTypes DEF OpIs, OpMayBe, Operation
  <2> QED  BY <1>1, <1>2, <2>2 DEF OpIs, OpMayBe, WorkerStands
<1>3. CASE /\ lists' = [lists EXCEPT ![o] =
                Append(lists[o], [pass |-> PassRead(op[o]), live |-> TRUE])]
           /\ \/ op' = [op EXCEPT ![o] = [op[o] EXCEPT
                   !.state = "completed", !.foundList = Len(lists[o]) + 1,
                   !.overtaken = Overtaken(op[o])]]
              \/ op' = [op EXCEPT ![o] = [op[o] EXCEPT !.foundList = Len(lists[o]) + 1]]
  <2> DEFINE n == Len(lists[o]) + 1
             late == Overtaken(op[o])
  <2>1. /\ \/ op'[o] = [op[o] EXCEPT !.state = "completed", !.foundList = n, !.overtaken = late]
           \/ op'[o] = [op[o] EXCEPT !.foundList = n]
        /\ lists'[o] = Append(lists[o], [pass |-> PassRead(op[o]), live |-> TRUE])
    BY <1>3, OwnTypes
  <2>2. [pass |-> PassRead(op[o]), live |-> TRUE] \in FoundList
    BY OwnTypes, PassReadType DEF FoundList
  <2>3. /\ Len(lists'[o]) = Len(lists[o]) + 1
        /\ lists'[o][Len(lists[o]) + 1] = [pass |-> PassRead(op[o]), live |-> TRUE]
        /\ \A i \in 1 .. Len(lists[o]) : lists'[o][i] = lists[o][i]
    BY <2>1, <2>2, OwnTypes, AppendProperties
  <2>4. \/ /\ OpMayBe(o, "completed", op[o].command, op[o].memScan, op[o].native,
                     n, op[o].passes, op[o].requested)
           /\ op'[o].overtaken = late
        \/ OpIs(o, "running", op[o].command, op[o].memScan, op[o].native, n, op[o].passes,
                op[o].requested)
    <3> HIDE DEF n, late
    <3> QED  BY <1>1, <2>1, OwnTypes DEF OpIs, OpMayBe, Operation
  <2>5. CASE OpIs(o, "running", op[o].command, op[o].memScan, op[o].native, n, op[o].passes,
                  op[o].requested)
    BY <1>1, <2>3, <2>5 DEF WorkerStands
  <2>6. CASE /\ OpMayBe(o, "completed", op[o].command, op[o].memScan, op[o].native,
                        n, op[o].passes, op[o].requested)
             /\ op'[o].overtaken = late
    BY <1>1, <2>3, <2>6 DEF WorkerStands, Overtaken
  <2> QED  BY <2>4, <2>5, <2>6
<1> QED  BY <1>1, <1>2, <1>3 DEF SummaryMaterializes

LEMMA TimerFields ==
  ASSUME TypeOK, NEW o \in Ids, StartTimerFires(o)
  PROVE  /\ OpIs(o, op[o].state, op[o].command, op[o].memScan, op[o].native,
                 op[o].foundList, op[o].passes, op[o].requested)
         /\ op[o].timer /\ lists' = lists /\ table' = table
         /\ WorkerStands(o) \/ Moved(o, "signatureStart") \/ Moved(o, "done")
<1>1. CASE op[o].state = "queued"
  <2>1. \/ /\ op'[o] = [op[o] EXCEPT !.timer = FALSE, !.thread = TRUE]
           /\ worker'[o] = [worker[o] EXCEPT !.pc = "signatureStart"]
        \/ /\ op'[o] = [op[o] EXCEPT !.timer = FALSE]
           /\ worker'[o] = [worker[o] EXCEPT !.pc = "done", !.raised = TRUE]
    BY <1>1, OwnTypes DEF StartTimerFires
  <2>2. OpIs(o, op[o].state, op[o].command, op[o].memScan, op[o].native,
             op[o].foundList, op[o].passes, op[o].requested)
    BY <2>1, OwnTypes DEF OpIs, OpMayBe, Operation
  <2>3. Moved(o, "signatureStart") \/ Moved(o, "done")
    BY <2>1, OwnTypes DEF Moved, WorkerIs, Worker
  <2> QED  BY <2>2, <2>3 DEF StartTimerFires
<1>2. CASE op[o].state # "queued"
  <2>1. op'[o] = [op[o] EXCEPT !.timer = FALSE] /\ worker'[o] = worker[o]
    BY <1>2, OwnTypes DEF StartTimerFires
  <2> QED  BY <2>1, OwnTypes DEF StartTimerFires, OpIs, OpMayBe, WorkerStands, Operation
<1> QED  BY <1>1, <1>2

LEMMA NativeFields ==
  ASSUME TypeOK, NEW o \in Ids, NativeScanProceeds(o)
  PROVE  /\ \E n \in {"scanned", "idle"} :
              OpIs(o, op[o].state, op[o].command, op[o].memScan, n,
                   op[o].foundList, op[o].passes, op[o].requested)
         /\ op[o].native \in {"scanning", "scanned"}
         /\ WorkerStands(o) /\ lists' = lists /\ table' = table
<1>1. PICK n \in {"scanned", "idle"} :
        op'[o] = [op[o] EXCEPT !.native = n] /\ op[o].native \in {"scanning", "scanned"}
  BY OwnTypes DEF NativeScanProceeds
<1>2. OpIs(o, op[o].state, op[o].command, op[o].memScan, n, op[o].foundList, op[o].passes,
           op[o].requested)
  BY <1>1, OwnTypes DEF OpIs, OpMayBe, Operation
<1> QED  BY <1>1, <1>2 DEF NativeScanProceeds, WorkerStands, Shared

LEMMA MarkRunningFields ==
  ASSUME TypeOK, NEW o \in Ids, NEW from, NEW to, MarkRunning(o, from, to)
  PROVE  /\ worker[o].pc = from /\ lists' = lists
         /\ OpIs(o, "running", op[o].command, op[o].memScan, op[o].native,
                 op[o].foundList, op[o].passes, op[o].requested)
         /\ Moved(o, to)
BY OwnTypes DEF MarkRunning, At, Goto, OpIs, OpMayBe, Moved, WorkerIs, Operation, Worker

LEMMA FirstScanFields ==
  ASSUME TypeOK, NEW o \in Ids, FirstScan(o)
  PROVE  /\ worker[o].pc = "firstScan" /\ lists' = lists
         /\ \E n \in {"none", "fresh", "scanning"} :
              /\ OpIs(o, op[o].state, op[o].command, n # "none", n,
                      op[o].foundList, op[o].passes, op[o].requested)
              /\ IF n = "scanning" THEN Moved(o, "firstWait")
                 ELSE WorkerIs(o, "firstPublish", FALSE, worker[o].old, worker[o].fresh)
<1>1. PICK n \in {"none", "fresh", "scanning"} :
        /\ op'[o] = [op[o] EXCEPT !.memScan = (n # "none"), !.native = n]
        /\ IF n = "scanning" THEN worker'[o] = [worker[o] EXCEPT !.pc = "firstWait"]
           ELSE worker'[o] = [worker[o] EXCEPT !.pc = "firstPublish", !.ok = FALSE]
  BY OwnTypes DEF FirstScan, Goto
<1>2. OpIs(o, op[o].state, op[o].command, n # "none", n, op[o].foundList, op[o].passes,
           op[o].requested)
  BY <1>1, OwnTypes DEF OpIs, OpMayBe, Operation
<1>3. IF n = "scanning" THEN Moved(o, "firstWait")
      ELSE WorkerIs(o, "firstPublish", FALSE, worker[o].old, worker[o].fresh)
  BY <1>1, OwnTypes DEF Moved, WorkerIs, Worker
<1> QED  BY <1>1, <1>2, <1>3 DEF FirstScan, At

LEMMA WaitFields ==
  ASSUME TypeOK, NEW o \in Ids, NEW from, NEW to, WaitTillDone(o, from, to)
  PROVE  /\ worker[o].pc = from /\ op[o].native \in {"idle", "destroyed"} /\ OpStands(o)
         /\ Len(lists'[o]) >= Len(lists[o])
         /\ \A i \in 1 .. Len(lists[o]) : i # worker[o].old => lists'[o][i] = lists[o][i]
         /\ \/ /\ WorkerIs(o, to, TRUE, worker[o].old, Len(lists[o]) + 1)
               /\ Len(lists'[o]) = Len(lists[o]) + 1
               /\ lists'[o][Len(lists[o]) + 1] = [pass |-> op[o].passes, live |-> TRUE]
            \/ WorkerIs(o, to, FALSE, worker[o].old, 0)
<1>1. worker[o].pc = from /\ op[o].native \in {"idle", "destroyed"} /\ OpStands(o)
  BY DEF WaitTillDone, At, OpStands
<1> DEFINE n == Len(lists[o]) + 1
<1>2. CASE /\ lists'[o] = Append(Freed(lists[o], worker[o].old), [pass |-> op[o].passes, live |-> TRUE])
           /\ worker'[o] = [worker[o] EXCEPT !.pc = to, !.ok = TRUE, !.fresh = n]
  <2>1. op[o].passes \in Nat  BY OwnTypes DEF Operation
  <2>2. /\ Len(lists'[o]) = Len(lists[o]) + 1
        /\ lists'[o][Len(lists[o]) + 1] = [pass |-> op[o].passes, live |-> TRUE]
        /\ \A i \in 1 .. Len(lists[o]) : i # worker[o].old => lists'[o][i] = lists[o][i]
    BY <1>2, <2>1, OwnTypes, AppendRows
  <2>3. WorkerIs(o, to, TRUE, worker[o].old, n)
    <3> HIDE DEF n
    <3> QED  BY <1>2, OwnTypes DEF WorkerIs, Worker
  <2>4. Len(lists'[o]) >= Len(lists[o])
    <3>1. Len(lists[o]) \in Nat  BY OwnTypes
    <3> QED  BY <2>2, <3>1
  <2> QED  BY <1>1, <2>2, <2>3, <2>4, Zenon
<1>3. CASE /\ lists'[o] \in {lists[o], Freed(lists[o], worker[o].old)}
           /\ worker'[o] = [worker[o] EXCEPT !.pc = to, !.ok = FALSE, !.fresh = 0]
  <2>1. /\ Len(lists'[o]) = Len(lists[o]) /\ Len(lists[o]) \in Nat
        /\ \A i \in 1 .. Len(lists[o]) : i # worker[o].old => lists'[o][i] = lists[o][i]
    BY <1>3, OwnTypes, FreedType, FreedRows
  <2>2. WorkerIs(o, to, FALSE, worker[o].old, 0)
    BY <1>3, OwnTypes DEF WorkerIs, Worker
  <2>3. Len(lists'[o]) >= Len(lists[o])  BY <2>1
  <2> QED  BY <1>1, <2>1, <2>2, <2>3, Zenon
<1> QED  BY <1>2, <1>3, OwnTypes DEF WaitTillDone, CreateFoundList

\* The outcome of a pass, with w for what the worker publishes.
Published(o, w) ==
  \/ op[o].state # "running" /\ OpStands(o)
  \/ /\ op[o].state = "running" /\ w.ok
     /\ OpIs(o, "completed", op[o].command, op[o].memScan, op[o].native, w.fresh,
             op[o].passes, op[o].requested)
  \/ /\ op[o].state = "running" /\ ~w.ok
     /\ OpIs(o, "failed", op[o].command, op[o].memScan, op[o].native, op[o].foundList,
             op[o].passes, op[o].requested)

LEMMA OutcomeFields ==
  ASSUME NEW o, op[o] \in Operation, NEW w, op'[o] = Outcome(op[o], w)
  PROVE  Published(o, w)
BY DEF Outcome, Published, OpStands, OpIs, OpMayBe, Operation

LEMMA FirstPublishFields ==
  ASSUME TypeOK, NEW o \in Ids, FirstPublish(o)
  PROVE  /\ worker[o].pc = "firstPublish" /\ lists' = lists
         /\ Published(o, worker[o]) /\ Moved(o, "poll")
<1>1. op'[o] = Outcome(op[o], worker[o]) /\ worker'[o] = [worker[o] EXCEPT !.pc = "poll"]
  BY OwnTypes DEF FirstPublish, Goto
<1> QED  BY <1>1, OwnTypes, OutcomeFields DEF FirstPublish, At, Moved, WorkerIs, Worker

LEMMA NextPublishFields ==
  ASSUME TypeOK, NEW o \in Ids, NextPublish(o)
  PROVE  /\ worker[o].pc = "nextPublish"
         /\ Published(o, worker[o]) /\ Moved(o, "poll")
         /\ Len(lists'[o]) = Len(lists[o])
         /\ op[o].state = "running" => lists' = lists
         /\ \A i \in 1 .. Len(lists[o]) : i # worker[o].fresh => lists'[o][i] = lists[o][i]
<1>1. op'[o] = Outcome(op[o], worker[o]) /\ worker'[o] = [worker[o] EXCEPT !.pc = "poll"]
  BY OwnTypes DEF NextPublish, Goto
<1>2. lists'[o] \in {lists[o], Freed(lists[o], worker[o].fresh)}
  BY OwnTypes DEF NextPublish
<1>3. /\ Len(lists'[o]) = Len(lists[o])
      /\ \A i \in 1 .. Len(lists[o]) : i # worker[o].fresh => lists'[o][i] = lists[o][i]
  BY <1>2, OwnTypes, FreedType, FreedRows
<1> QED  BY <1>1, <1>3, OwnTypes, OutcomeFields DEF NextPublish, At, Moved, WorkerIs, Worker

LEMMA PublishRaisesFields ==
  ASSUME TypeOK, NEW o \in Ids, PublishRaises(o)
  PROVE  /\ worker[o].pc \in Publishing /\ worker[o].ok /\ lists' = lists
         /\ OpIs(o, "running", op[o].command, op[o].memScan, op[o].native,
                 worker[o].fresh, op[o].passes, op[o].requested)
         /\ op[o].state = "running"
         /\ Moved(o, "poll") \/ Moved(o, "done")
<1>1. /\ op'[o] = [op[o] EXCEPT !.foundList = worker[o].fresh]
      /\ \E pc \in {"poll", "done"} : worker'[o] = [worker[o] EXCEPT !.pc = pc, !.raised = TRUE]
  BY OwnTypes DEF PublishRaises
<1>2. Moved(o, "poll") \/ Moved(o, "done")
  BY <1>1, OwnTypes DEF Moved, WorkerIs, Worker
<1> QED
  BY <1>1, <1>2, OwnTypes DEF PublishRaises, At, OpIs, OpMayBe, Publishing, Operation

LEMMA PollFields ==
  ASSUME TypeOK, NEW o \in Ids, TakeCommand(o) \/ ScanThreadExits(o)
  PROVE  /\ worker[o].pc = "poll" /\ lists' = lists
         /\ \/ /\ op[o].command /\ Moved(o, "taken")
               /\ OpIs(o, op[o].state, FALSE, op[o].memScan, op[o].native,
                       op[o].foundList, op[o].passes, op[o].requested)
            \/ Moved(o, "done") /\ OpStands(o)
<1>1. CASE TakeCommand(o)
  <2>1. op'[o] = [op[o] EXCEPT !.command = FALSE] /\ worker'[o] = [worker[o] EXCEPT !.pc = "taken"]
    BY <1>1, OwnTypes DEF TakeCommand, Goto
  <2> QED  BY <1>1, <2>1, OwnTypes DEF TakeCommand, At, OpIs, OpMayBe, Moved, WorkerIs, Operation, Worker
<1>2. CASE ScanThreadExits(o)
  <2>1. worker'[o] = [worker[o] EXCEPT !.pc = "done"]
    BY <1>2, OwnTypes DEF ScanThreadExits, Goto
  <2> QED  BY <1>2, <2>1, OwnTypes DEF ScanThreadExits, At, OpStands, Moved, WorkerIs, Worker
<1> QED  BY <1>1, <1>2

LEMMA CaptureFields ==
  ASSUME TypeOK, NEW o \in Ids, CaptureOldList(o)
  PROVE  /\ worker[o].pc = "capture" /\ lists' = lists /\ OpStands(o)
         /\ WorkerIs(o, "nextScan", worker[o].ok, op[o].foundList, worker[o].fresh)
<1>1. worker'[o] = [worker[o] EXCEPT !.pc = "nextScan", !.old = op[o].foundList]
  BY OwnTypes DEF CaptureOldList
<1> QED  BY <1>1, OwnTypes DEF CaptureOldList, At, OpStands, WorkerIs, Worker

LEMMA NextScanFields ==
  ASSUME TypeOK, NEW o \in Ids, NextScan(o)
  PROVE  /\ worker[o].pc = "nextScan" /\ lists' = lists
         /\ \/ /\ Moved(o, "nextWait")
               /\ OpIs(o, op[o].state, op[o].command, op[o].memScan, "scanning",
                       op[o].foundList, op[o].passes + 1, op[o].requested)
            \/ OpStands(o) /\ WorkerIs(o, "nextPublish", FALSE, worker[o].old, 0)
<1> DEFINE n == op[o].passes + 1
<1>1. CASE /\ op'[o] = [op[o] EXCEPT !.native = "scanning", !.passes = n]
           /\ worker'[o] = [worker[o] EXCEPT !.pc = "nextWait"]
  <2>1. OpIs(o, op[o].state, op[o].command, op[o].memScan, "scanning", op[o].foundList, n,
             op[o].requested)
    <3> HIDE DEF n
    <3> QED  BY <1>1, OwnTypes DEF OpIs, OpMayBe, Operation
  <2>2. Moved(o, "nextWait")
    <3> HIDE DEF n
    <3> QED  BY <1>1, OwnTypes DEF Moved, WorkerIs, Worker
  <2> QED  BY <2>1, <2>2 DEF NextScan, At, Shared
<1>2. CASE /\ op'[o] = op[o]
           /\ worker'[o] = [worker[o] EXCEPT !.pc = "nextPublish", !.ok = FALSE, !.fresh = 0]
  BY <1>2, OwnTypes DEF NextScan, At, OpStands, WorkerIs, Worker
<1> QED  BY <1>1, <1>2, OwnTypes DEF NextScan, Goto

\* A signature worker leaves no command and makes no FoundList.
LEMMA SignatureFields ==
  ASSUME TypeOK, NEW o \in Ids,
         SignatureCheck(o) \/ SignatureScan(o) \/ SignatureRaises(o) \/ SignaturePublish(o)
  PROVE  /\ worker[o].pc \in SignatureSteps /\ lists' = lists
         /\ op'[o].kind = op[o].kind /\ op'[o].command = op[o].command
         /\ op'[o].state = op[o].state \/ op[o].state = "running"
         /\ worker'[o].pc \in {"done", "signatureCheck", "signatureScan", "signaturePublish"}
<1>1. CASE SignatureCheck(o)
  <2>1. \/ op'[o] = op[o] /\ worker'[o] = [worker[o] EXCEPT !.pc = "done"]
        \/ /\ op'[o] = [op[o] EXCEPT !.memScan = TRUE, !.native = "scanning"]
           /\ worker'[o] = [worker[o] EXCEPT !.pc = "signatureScan"]
    BY <1>1, OwnTypes DEF SignatureCheck, Goto
  <2> QED  BY <1>1, <2>1, OwnTypes DEF SignatureCheck, At, SignatureSteps, Operation, Worker
<1>2. CASE SignatureScan(o)
  <2>1. op'[o] = [op[o] EXCEPT !.memScan = FALSE, !.native = "destroyed"]
    BY <1>2, OwnTypes DEF SignatureScan
  <2>2. worker'[o].pc \in {"signatureCheck", "signaturePublish"}
    <3> DEFINE n == worker[o].attempted + 1
    <3>1. PICK ok \in BOOLEAN, pc \in {"signatureCheck", "signaturePublish"} :
            worker' = [worker EXCEPT ![o] =
                        [worker[o] EXCEPT !.attempted = n, !.ok = ok, !.pc = pc]]
      BY <1>2 DEF SignatureScan
    <3> HIDE DEF n
    <3> QED  BY <3>1, OwnTypes DEF Worker
  <2> QED  BY <1>2, <2>1, <2>2, OwnTypes DEF SignatureScan, At, SignatureSteps, Operation
<1>3. CASE SignaturePublish(o)
  <2>1. /\ op'[o] = Outcome(op[o], [worker[o] EXCEPT !.fresh = 0])
        /\ worker'[o] = [worker[o] EXCEPT !.pc = "done"]
    BY <1>3, OwnTypes DEF SignaturePublish, Goto
  <2>2. Published(o, [worker[o] EXCEPT !.fresh = 0])
    BY <2>1, OwnTypes, OutcomeFields
  <2> QED
    BY <1>3, <2>1, <2>2, OwnTypes
       DEF SignaturePublish, At, SignatureSteps, Published, OpStands, OpIs, OpMayBe, Worker
<1>4. CASE SignatureRaises(o)
  <2>1. op'[o] = op[o] /\ worker'[o] = [worker[o] EXCEPT !.pc = "done", !.raised = TRUE]
    BY <1>4, OwnTypes DEF SignatureRaises
  <2> QED  BY <1>4, <2>1, OwnTypes DEF SignatureRaises, At, SignatureSteps, Worker
<1> QED  BY <1>1, <1>2, <1>3, <1>4

-----------------------------------------------------------------------------
\* The tie to the worker, a waiting operation and published lists, for one operation.
OwnInv(o) == WorkerInv(o) /\ StartInv(o) /\ ResultsInv(o)

\* No step of an operation lets its worker find it other than waiting, publishes a
\* list that was not made, or takes a completed one back.
LEMMA StepResults ==
  ASSUME TypeOK, TypeOK', NEW o \in Ids, OwnInv(o), OperationStep(o)
  PROVE  StartInv(o)' /\ ResultsInv(o)' /\ Stable(o)
<1>0. Len(lists[o]) \in Nat /\ Len(lists'[o]) \in Nat /\ table' \in {table, table \ {o}}
  BY OwnTypes, StepFrame DEF TypeOK
<1> USE DEF OwnInv, StartInv, ResultsInv, Stable, Waiting, Publishing, OpIs, OpMayBe, OpStands, WorkerIs,
            Moved, WorkerStands
<1>1. CASE ScanRefine(o)
  BY <1>0, <1>1, RefineFields
<1>2. CASE ScanClose(o) \/ SignatureClose(o) \/ OperationsCancel(o)
  <2>1. PICK s : /\ DestroyOperation(o, s)
                 /\ \/ s = "closed" /\ o \notin table'
                    \/ s = "cancelled" /\ op[o].state \in Busy
                    \/ s = op[o].state /\ o \notin table'
    <3>1. CASE ScanClose(o)
      BY <3>1 DEF ScanClose, CloseOperation
    <3>2. CASE SignatureClose(o)
      <4>1. DestroyOperation(o, op[o].state) /\ o \notin table'
        BY <3>2 DEF SignatureClose, CloseOperation
      <4> QED  BY <4>1
    <3>3. CASE OperationsCancel(o)
      BY <3>3 DEF OperationsCancel
    <3> QED  BY <1>2, <3>1, <3>2, <3>3
  <2> QED  BY <1>0, <2>1, DestroyResults DEF Busy
<1>3. CASE SummaryMaterializes(o)
  <2>1. /\ op[o].state = "running" /\ WorkerStands(o) /\ table' = table
        /\ op'[o].command = op[o].command /\ op'[o].kind = op[o].kind
        /\ Len(lists'[o]) \in {Len(lists[o]), Len(lists[o]) + 1}
        /\ op'[o].state \in {"completed", "running", "failed"}
        /\ op'[o].state = "completed" => /\ op'[o].foundList = Len(lists[o]) + 1
                                         /\ Len(lists'[o]) = Len(lists[o]) + 1
    BY <1>3, SummaryFields
  <2>2. 1 .. Len(lists[o]) \subseteq 1 .. Len(lists'[o])
    BY <1>0, <2>1
  <2>3. op'[o].state = "completed" => op'[o].foundList \in 1 .. Len(lists'[o])
    BY <1>0, <2>1
  <2> QED  BY <2>1, <2>2, <2>3
<1>4. CASE StartTimerFires(o)
  BY <1>0, <1>4, TimerFields DEF WorkerInv
<1>5. CASE NativeScanProceeds(o)
  BY <1>0, <1>5, NativeFields
<1>6. ASSUME NEW from, NEW to, MarkRunning(o, from, to),
             from \in {"scanStart", "taken", "signatureStart"},
             to \in {"firstScan", "capture", "signatureCheck"}
      PROVE  StartInv(o)' /\ ResultsInv(o)' /\ Stable(o)
  BY <1>0, <1>6, MarkRunningFields
<1>7. CASE FirstScan(o)
  BY <1>0, <1>7, FirstScanFields
<1>8. ASSUME NEW from, NEW to \in Publishing, WaitTillDone(o, from, to)
      PROVE  StartInv(o)' /\ ResultsInv(o)' /\ Stable(o)
  <2>0. /\ OpStands(o) /\ Len(lists'[o]) >= Len(lists[o])
        /\ \/ /\ WorkerIs(o, to, TRUE, worker[o].old, Len(lists[o]) + 1)
              /\ Len(lists'[o]) = Len(lists[o]) + 1
           \/ WorkerIs(o, to, FALSE, worker[o].old, 0)
    <3> HIDE DEF OpStands, WorkerIs
    <3> QED  BY <1>8, WaitFields
  <2>1. 1 .. Len(lists[o]) \subseteq 1 .. Len(lists'[o])
    BY <1>0, <2>0
  <2>2. OpStands(o) /\ worker'[o].pc = to /\ table' \subseteq table
    BY <1>0, <2>0
  <2>3. worker'[o].ok => worker'[o].fresh \in 1 .. Len(lists'[o])
    BY <1>0, <2>0
  <2> QED  BY <2>1, <2>2, <2>3
<1>9. CASE FirstPublish(o)
  BY <1>0, <1>9, FirstPublishFields DEF Published
<1>10. CASE NextPublish(o)
  BY <1>0, <1>10, NextPublishFields DEF Published
<1>11. CASE TakeCommand(o) \/ ScanThreadExits(o)
  BY <1>0, <1>11, PollFields
<1>12. CASE CaptureOldList(o)
  BY <1>0, <1>12, CaptureFields
<1>13. CASE NextScan(o)
  BY <1>0, <1>13, NextScanFields
<1>14. CASE SignatureCheck(o) \/ SignatureScan(o) \/ SignatureRaises(o) \/ SignaturePublish(o)
  BY <1>0, <1>14, SignatureFields DEF WorkerInv, Alive, SignatureSteps
<1>15. CASE PublishRaises(o)
  BY <1>0, <1>15, PublishRaisesFields
<1> QED
  BY <1>1, <1>2, <1>3, <1>4, <1>5, <1>6, <1>7, <1>8, <1>9, <1>10, <1>11, <1>12, <1>13, <1>14,
     <1>15
     DEF OperationStep, HandlerStep, WorkerStep

\* No step takes a completed operation back.
NoneTakenBack ==
  \A o \in table : op[o].state = "completed" =>
    \/ o \notin table'
    \/ op'[o].state = "completed"
    \/ op'[o].state = "queued" /\ op'[o].requested = op[o].requested + 1

\* Cleaning up takes every operation out of the table; the states are left as they were.
LEMMA CleanupResults ==
  ASSUME TypeOK, CleanupOperations, NEW o \in Ids, StartInv(o), ResultsInv(o)
  PROVE  StartInv(o)' /\ ResultsInv(o)'
<1>1. /\ op'[o].state = op[o].state /\ op'[o].command = op[o].command
      /\ worker'[o].pc = worker[o].pc /\ worker'[o].ok = worker[o].ok
      /\ worker'[o].fresh = worker[o].fresh
      /\ Len(lists'[o]) = Len(lists[o]) /\ table' = {}
  <2>1. CASE o \in table
    <3>1. /\ op'[o] = Destroyed(op[o]) /\ worker'[o] = Terminated(worker[o], op[o])
          /\ lists'[o] = Freed(lists[o], op[o].foundList) /\ table' = {}
      BY <2>1 DEF CleanupOperations
    <3> QED  BY <3>1, OwnTypes, FreedType DEF Destroyed, Terminated, Operation, Worker
  <2>2. CASE o \notin table
    BY <2>2 DEF CleanupOperations
  <2> QED  BY <2>1, <2>2
<1> QED  BY <1>1 DEF StartInv, ResultsInv

LEMMA RegisterResults ==
  ASSUME TypeOK, NEW kind \in {"scan", "signature"}, Register(kind),
         NEW o \in Ids, StartInv(o), ResultsInv(o)
  PROVE  StartInv(o)' /\ ResultsInv(o)'
<1>1. counter' \in Ids /\ lists' = lists
  BY ConstantsAssumption DEF TypeOK, Register, Ids
<1>2. CASE o = counter'
  <2>1. PICK created \in BOOLEAN :
          op'[o] = NewOperation(kind, created) /\ worker'[o] = NewWorker(kind, created)
    BY <1>1, <1>2 DEF Register, TypeOK
  <2>2. /\ op'[o].state = "queued" /\ op'[o].command = FALSE
        /\ worker'[o].pc \in {"done", "scanStart", "none"}
    BY <2>1 DEF NewOperation, NewWorker
  <2> QED  BY <2>2 DEF StartInv, ResultsInv, Waiting, Publishing
<1>3. CASE o # counter'
  <2>1. op'[o] = op[o] /\ worker'[o] = worker[o] /\ (o \in table' <=> o \in table)
    BY <1>1, <1>3 DEF Register, TypeOK
  <2> QED  BY <1>1, <2>1 DEF StartInv, ResultsInv
<1> QED  BY <1>2, <1>3

\* The two invariants, for every operation.
ResultsInvs == \A o \in Ids : StartInv(o) /\ ResultsInv(o)

LEMMA InitResults == Init => ResultsInvs
<1> SUFFICES ASSUME Init, NEW o \in Ids PROVE StartInv(o) /\ ResultsInv(o)
  BY DEF ResultsInvs
<1>1. op[o] = NewOperation("scan", TRUE) /\ worker[o] = NewWorker("signature", TRUE) /\ table = {}
  BY DEF Init
<1>2. op[o].state = "queued" /\ op[o].command = FALSE /\ worker[o].pc = "none"
  BY <1>1 DEF NewOperation, NewWorker
<1> QED  BY <1>1, <1>2 DEF StartInv, ResultsInv, Waiting, Publishing

\* A step of one operation leaves the invariants of the others.
LEMMA NextResults ==
  ASSUME IInv, ResultsInvs, [Next]_vars
  PROVE  ResultsInvs' /\ NoneTakenBack
<1>1. TypeOK /\ TypeOK' /\ table \subseteq Ids
  <2>1. TypeOK /\ TypeOK'  BY NextTypeOK DEF IInv
  <2>2. counter \in 0 .. MaxOperations /\ table \in SUBSET (1 .. counter)
    BY <2>1 DEF TypeOK
  <2> QED  BY <2>1, <2>2, ConstantsAssumption DEF Ids
<1>2. CASE UNCHANGED vars
  BY <1>2 DEF vars, ResultsInvs, StartInv, ResultsInv, NoneTakenBack
<1>3. CASE RefreshTarget \/ ProcessDetach \/ ClientDisconnected
  <2>1. CleanupOperations /\ table' = {}
    BY <1>3 DEF RefreshTarget, ProcessDetach, ClientDisconnected, CleanupOperations
  <2> QED  BY <1>1, <2>1, CleanupResults DEF ResultsInvs, NoneTakenBack
<1>4. ASSUME NEW kind \in {"scan", "signature"}, Register(kind)
      PROVE  ResultsInvs' /\ NoneTakenBack
  <2>1. ResultsInvs'  BY <1>1, <1>4, RegisterResults DEF ResultsInvs
  <2>2. NoneTakenBack
    <3>1. counter' \notin table
      BY <1>1, <1>4, ConstantsAssumption DEF TypeOK, Register
    <3> QED  BY <1>1, <1>4, <3>1 DEF NoneTakenBack, Register, TypeOK
  <2> QED  BY <2>1, <2>2
<1>5. CASE ScanStart \/ SignatureStart
  BY <1>4, <1>5 DEF ScanStart, SignatureStart
<1>6. ASSUME NEW o \in Ids, OperationStep(o)
      PROVE  ResultsInvs' /\ NoneTakenBack
  <2>1. /\ table' \in {table, table \ {o}}
        /\ \A x \in Ids \ {o} : op'[x] = op[x] /\ worker'[x] = worker[x] /\ lists'[x] = lists[x]
    BY <1>1, <1>6, StepFrame
  <2>2. StartInv(o)' /\ ResultsInv(o)' /\ Stable(o)
    BY <1>1, <1>6, StepResults DEF OwnInv, IInv, ResultsInvs
  <2>3. ASSUME NEW x \in Ids, x # o PROVE StartInv(x)' /\ ResultsInv(x)'
    BY <2>1, <2>3 DEF ResultsInvs, StartInv, ResultsInv
  <2>4. NoneTakenBack
    BY <1>1, <2>1, <2>2 DEF NoneTakenBack, Stable
  <2> QED  BY <2>2, <2>3, <2>4 DEF ResultsInvs
<1> QED  BY <1>2, <1>3, <1>5, <1>6 DEF Next, OperationStep

\* Every operation keeps what its results need.
THEOREM ResultsInvariant == Spec => []ResultsInvs
BY InitResults, NextResults, Invariant, PTL DEF Spec

\* A completed scan that a request can name has a FoundList to serve, whether its
\* worker or a progress poll completed it.
THEOREM CompletedHasResults == Spec => []CompletedScanHasResults
<1>1. IInv /\ ResultsInvs => CompletedScanHasResults
  <2> SUFFICES ASSUME IInv, ResultsInvs, NEW o \in table, op[o].kind = "scan",
                      op[o].state = "completed"
               PROVE  op[o].foundList \in DOMAIN lists[o]
    BY DEF CompletedScanHasResults
  <2>1. o \in Ids  BY ConstantsAssumption DEF IInv, TypeOK, Ids
  <2>2. op[o].foundList \in 1 .. Len(lists[o])  BY <2>1 DEF ResultsInvs, ResultsInv
  <2> QED  BY <2>1, <2>2, OwnTypes DEF IInv
<1> QED  BY <1>1, ResultsInvariant, Invariant, PTL

\* Nothing but a refinement takes a listed operation out of completed: no late worker,
\* poll, cancel or timer does.
THEOREM CompletedStays == Spec => CompletedIsStable
<1>1. IInv /\ ResultsInvs /\ [Next]_vars => [NoneTakenBack]_vars
  BY NextResults
<1>2. [NoneTakenBack]_vars =>
        [\A o \in table : op[o].state = "completed" =>
           \/ o \notin table'
           \/ op'[o].state = "completed"
           \/ op'[o].state = "queued" /\ op'[o].requested = op[o].requested + 1]_vars
  BY DEF NoneTakenBack
<1> QED  BY <1>1, <1>2, ResultsInvariant, Invariant, PTL DEF Spec, CompletedIsStable

-----------------------------------------------------------------------------
(***************************************************************************)
(* Rows.  A poll may complete a scan at any step of its worker, on the     *)
(* progress of whatever pass CE still counts.  As long as none completed   *)
(* it ahead of its refinement, the passes made are the refinements asked   *)
(* for whenever a scan is completed, and no list that the worker still     *)
(* holds to destroy is the one that is served.                             *)
(***************************************************************************)

Begun == {"running", "failed", "cancelled", "closed"}
Waits == {"firstWait", "nextWait"}

\* A FoundList that exists, with the rows of the last pass.
Current(o, l) == lists[o][l] = [pass |-> op[o].passes, live |-> TRUE]

\* What the worker and CE's scan are about at each step.
ScanInv(o) ==
  /\ worker[o].pc \notin Waits => op[o].native \notin {"scanning", "scanned"}
  /\ op[o].foundList \in 0 .. Len(lists[o]) /\ worker[o].old \in 0 .. Len(lists[o])
  /\ worker[o].pc \in Publishing => worker[o].fresh \in 0 .. Len(lists[o])
  /\ worker[o].pc \in {"firstScan", "capture", "nextScan"}
       => op[o].state \in Begun /\ ~op[o].command
  /\ worker[o].pc \in {"scanStart", "firstScan", "firstWait"}
       => worker[o].old = 0 /\ worker[o].fresh = 0
  /\ worker[o].pc \in {"scanStart", "firstScan"} => ~op[o].memScan

\* Refinements asked for and passes made.
PassesInv(o) ==
  /\ worker[o].pc \in {"scanStart", "firstScan"} => op[o].passes = op[o].requested
  /\ op[o].command \/ worker[o].pc \in {"taken", "capture", "nextScan"}
       => op[o].requested = op[o].passes + 1
  /\ worker[o].pc \in Waits /\ op[o].state = "running" => op[o].passes = op[o].requested

\* What is served, and what the worker holds to publish or to destroy.
ListsInv(o) ==
  /\ worker[o].pc \in Waits /\ op[o].state = "completed" => op[o].foundList # worker[o].old
  /\ worker[o].pc \in Publishing => worker[o].fresh = 0 \/ op[o].foundList # worker[o].fresh
  /\ worker[o].pc \in Publishing /\ worker[o].ok /\ op[o].state = "running" =>
       op[o].passes = op[o].requested /\ Current(o, worker[o].fresh)
  /\ op[o].state = "completed" =>
       op[o].passes = op[o].requested /\ Current(o, op[o].foundList)

RowsInv(o) ==
  o \in table /\ op[o].kind = "scan" /\ ~op[o].overtaken =>
    ScanInv(o) /\ PassesInv(o) /\ ListsInv(o)

\* What a step finds of a listed scan.
RowsBefore(o) ==
  /\ OwnInv(o) /\ op[o].kind = "scan" /\ o \in table /\ ~op[o].overtaken
  /\ ScanInv(o) /\ PassesInv(o) /\ ListsInv(o)

RowsAfter(o) == ScanInv(o)' /\ PassesInv(o)' /\ ListsInv(o)'

\* The numbers of an operation and its worker are natural.
LEMMA OwnNumbers ==
  ASSUME TypeOK, NEW o \in Ids
  PROVE  /\ op[o].passes \in Nat /\ op[o].requested \in Nat /\ op[o].foundList \in Nat
         /\ worker[o].old \in Nat /\ worker[o].fresh \in Nat /\ worker[o].ok \in BOOLEAN
         /\ Len(lists[o]) \in Nat
BY OwnTypes DEF Operation, Worker

LEMMA HandlerRows ==
  ASSUME TypeOK, NEW o \in Ids, RowsBefore(o), ~op'[o].overtaken,
         ScanRefine(o) \/ OperationsCancel(o) \/ SummaryMaterializes(o)
           \/ StartTimerFires(o) \/ NativeScanProceeds(o)
  PROVE  RowsAfter(o)
<1>0. /\ op[o].passes \in Nat /\ op[o].requested \in Nat /\ op[o].foundList \in Nat
      /\ worker[o].old \in Nat /\ worker[o].fresh \in Nat /\ worker[o].ok \in BOOLEAN
      /\ Len(lists[o]) \in Nat
  BY OwnNumbers
<1> USE DEF RowsBefore, RowsAfter, OwnInv, StartInv, ResultsInv, Waiting, Publishing,
        Begun, Waits, Current, ScanInv, PassesInv, ListsInv, WorkerStands
<1>1. CASE ScanRefine(o)
  <2>1. /\ op[o].state = "completed" /\ WorkerStands(o) /\ lists' = lists
        /\ OpIs(o, "queued", TRUE, op[o].memScan, op[o].native, op[o].foundList,
                op[o].passes, op[o].requested + 1)
    BY <1>1, RefineFields
  <2> QED  BY <1>0, <2>1 DEF OpIs, OpMayBe
<1>2. CASE OperationsCancel(o)
  <2>1. /\ op'[o].state = "cancelled" /\ op'[o].foundList = 0 /\ op'[o].memScan = FALSE
        /\ op'[o].command = op[o].command /\ op'[o].passes = op[o].passes
        /\ op'[o].requested = op[o].requested
        /\ op'[o].native \in {op[o].native, "destroyed"}
        /\ worker'[o].pc = worker[o].pc /\ worker'[o].ok = worker[o].ok
        /\ worker'[o].old = worker[o].old /\ worker'[o].fresh = worker[o].fresh
        /\ Len(lists'[o]) = Len(lists[o])
    BY <1>2, DestroyResults DEF OperationsCancel
  <2> QED  BY <1>0, <2>1
<1>3. CASE SummaryMaterializes(o)
  <2>1. /\ op[o].state = "running" /\ WorkerStands(o) /\ ProgressComplete(op[o])
        /\ worker[o].pc \notin {"none", "scanStart", "firstScan", "taken"}
    BY <1>3, SummaryFields DEF ProgressComplete
  <2>2. CASE /\ OpMayBe(o, "completed", op[o].command, op[o].memScan, op[o].native,
                        Len(lists[o]) + 1, op[o].passes, op[o].requested)
             /\ PassRead(op[o]) = op[o].requested
             /\ Len(lists'[o]) = Len(lists[o]) + 1
             /\ lists'[o][Len(lists[o]) + 1] = [pass |-> PassRead(op[o]), live |-> TRUE]
             /\ \A i \in 1 .. Len(lists[o]) : lists'[o][i] = lists[o][i]
    <3>1. PassRead(op[o]) = op[o].passes /\ op[o].passes = op[o].requested
      BY <1>0, <2>1, <2>2 DEF PassRead, ProgressComplete
    <3>2. worker[o].pc \notin {"capture", "nextScan"}  BY <1>0, <3>1
    <3> QED  BY <1>0, <2>1, <2>2, <3>1, <3>2 DEF OpMayBe
  <2>3. CASE /\ OpIs(o, "running", op[o].command, op[o].memScan, op[o].native,
                     Len(lists[o]) + 1, op[o].passes, op[o].requested)
             /\ Len(lists'[o]) = Len(lists[o]) + 1
             /\ \A i \in 1 .. Len(lists[o]) : lists'[o][i] = lists[o][i]
    BY <1>0, <2>1, <2>3 DEF OpIs, OpMayBe
  <2>4. CASE /\ OpIs(o, "failed", op[o].command, op[o].memScan, op[o].native,
                     op[o].foundList, op[o].passes, op[o].requested)
             /\ lists' = lists
    BY <1>0, <2>1, <2>4 DEF OpIs, OpMayBe
  <2> QED  BY <1>3, <2>2, <2>3, <2>4, SummaryFields DEF OpIs, OpMayBe
<1>4. CASE StartTimerFires(o)
  BY <1>4 DEF StartTimerFires, WorkerInv
<1>5. CASE NativeScanProceeds(o)
  BY <1>0, <1>5, NativeFields DEF OpIs, OpMayBe
<1> QED  BY <1>1, <1>2, <1>3, <1>4, <1>5

LEMMA WorkerRows ==
  ASSUME TypeOK, NEW o \in Ids, RowsBefore(o), WorkerStep(o)
  PROVE  RowsAfter(o)
<1>0. worker[o].pc \notin SignatureSteps
  BY DEF RowsBefore, OwnInv, WorkerInv, Alive, SignatureSteps
<1>13. /\ op[o].passes \in Nat /\ op[o].requested \in Nat /\ op[o].foundList \in Nat
      /\ worker[o].old \in Nat /\ worker[o].fresh \in Nat /\ worker[o].ok \in BOOLEAN
      /\ Len(lists[o]) \in Nat
  BY OwnNumbers
<1> USE DEF RowsBefore, RowsAfter, OwnInv, StartInv, ResultsInv, Waiting, Publishing,
        Begun, Waits, Current, ScanInv, PassesInv, ListsInv, Moved, WorkerIs, OpIs, OpMayBe, OpStands
<1>1. CASE MarkRunning(o, "scanStart", "firstScan")
  BY <1>1, <1>13, MarkRunningFields
<1>2. CASE MarkRunning(o, "taken", "capture")
  BY <1>2, <1>13, MarkRunningFields
<1>3. CASE MarkRunning(o, "signatureStart", "signatureCheck")
  BY <1>0, <1>3 DEF MarkRunning, At, SignatureSteps
<1>4. CASE FirstScan(o)
  <2>1. PICK n \in {"none", "fresh", "scanning"} :
          /\ OpIs(o, op[o].state, op[o].command, n # "none", n,
                  op[o].foundList, op[o].passes, op[o].requested)
          /\ IF n = "scanning" THEN Moved(o, "firstWait")
             ELSE WorkerIs(o, "firstPublish", FALSE, worker[o].old, worker[o].fresh)
    BY <1>4, FirstScanFields
  <2>2. worker[o].pc = "firstScan" /\ lists' = lists
    BY <1>4, FirstScanFields
  <2>3. CASE n = "scanning"
    <3>1. worker'[o].pc = "firstWait" /\ worker'[o].old = 0 /\ op[o].state \in Begun
      BY <2>1, <2>2, <2>3
    <3>2. ScanInv(o)' /\ PassesInv(o)'  BY <1>13, <2>1, <2>2, <3>1
    <3>3. ListsInv(o)'  BY <1>13, <2>1, <2>2, <3>1
    <3> QED  BY <3>2, <3>3
  <2>4. CASE n # "scanning"  BY <1>13, <2>1, <2>2, <2>4
  <2> QED  BY <2>3, <2>4
<1>5. CASE WaitTillDone(o, "firstWait", "firstPublish")
  <2>1. /\ worker[o].pc = "firstWait" /\ op[o].native \in {"idle", "destroyed"} /\ OpStands(o)
        /\ Len(lists'[o]) >= Len(lists[o])
        /\ \A i \in 1 .. Len(lists[o]) : i # worker[o].old => lists'[o][i] = lists[o][i]
    BY <1>5, WaitFields
  <2>2. CASE /\ WorkerIs(o, "firstPublish", TRUE, worker[o].old, Len(lists[o]) + 1)
             /\ Len(lists'[o]) = Len(lists[o]) + 1
             /\ lists'[o][Len(lists[o]) + 1] = [pass |-> op[o].passes, live |-> TRUE]
    BY <1>13, <2>1, <2>2
  <2>3. CASE WorkerIs(o, "firstPublish", FALSE, worker[o].old, 0)
    BY <1>13, <2>1, <2>3
  <2> QED  BY <1>5, <2>2, <2>3, WaitFields
<1>6. CASE WaitTillDone(o, "nextWait", "nextPublish")
  <2>1. /\ worker[o].pc = "nextWait" /\ op[o].native \in {"idle", "destroyed"} /\ OpStands(o)
        /\ Len(lists'[o]) >= Len(lists[o])
        /\ \A i \in 1 .. Len(lists[o]) : i # worker[o].old => lists'[o][i] = lists[o][i]
    BY <1>6, WaitFields
  <2>2. CASE /\ WorkerIs(o, "nextPublish", TRUE, worker[o].old, Len(lists[o]) + 1)
             /\ Len(lists'[o]) = Len(lists[o]) + 1
             /\ lists'[o][Len(lists[o]) + 1] = [pass |-> op[o].passes, live |-> TRUE]
    BY <1>13, <2>1, <2>2
  <2>3. CASE WorkerIs(o, "nextPublish", FALSE, worker[o].old, 0)
    BY <1>13, <2>1, <2>3
  <2> QED  BY <1>6, <2>2, <2>3, WaitFields
<1>7. CASE FirstPublish(o)
  <2>1. worker[o].pc = "firstPublish" /\ lists' = lists /\ Moved(o, "poll")
    BY <1>7, FirstPublishFields
  <2>2. Published(o, worker[o])
    BY <1>7, FirstPublishFields
  <2>3. CASE op[o].state # "running" /\ OpStands(o)
    BY <1>13, <2>1, <2>3
  <2>4. CASE op[o].state = "running" /\ worker[o].ok
    <3>1. /\ OpIs(o, "completed", op[o].command, op[o].memScan, op[o].native,
                 worker[o].fresh, op[o].passes, op[o].requested)
          /\ lists' = lists
      BY <2>1, <2>2, <2>4 DEF Published
    <3>2. ScanInv(o)'
      <4>1. worker[o].fresh \in 0 .. Len(lists[o])  BY <1>13, <2>1, <2>4
      <4> QED  BY <1>13, <2>1, <2>4, <3>1, <4>1
    <3>3. PassesInv(o)'  BY <1>13, <2>1, <2>4, <3>1
    <3>4. ListsInv(o)'  BY <1>13, <2>1, <2>4, <3>1
    <3> QED  BY <3>2, <3>3, <3>4
  <2>5. CASE op[o].state = "running" /\ ~worker[o].ok
    BY <1>13, <2>1, <2>2, <2>5 DEF Published
  <2> QED  BY <2>2, <2>3, <2>4, <2>5 DEF Published
<1>8. CASE NextPublish(o)
  <2>1. /\ worker[o].pc = "nextPublish" /\ Moved(o, "poll")
        /\ Len(lists'[o]) = Len(lists[o])
        /\ op[o].state = "running" => lists' = lists
        /\ \A i \in 1 .. Len(lists[o]) : i # worker[o].fresh => lists'[o][i] = lists[o][i]
    BY <1>8, NextPublishFields
  <2>2. Published(o, worker[o])
    BY <1>8, NextPublishFields
  <2>3. CASE op[o].state # "running" /\ OpStands(o)
    BY <1>13, <2>1, <2>3
  <2>4. CASE op[o].state = "running" /\ worker[o].ok
    <3>1. /\ OpIs(o, "completed", op[o].command, op[o].memScan, op[o].native,
                 worker[o].fresh, op[o].passes, op[o].requested)
          /\ lists' = lists
      BY <2>1, <2>2, <2>4 DEF Published
    <3>2. ScanInv(o)'
      <4>1. worker[o].fresh \in 0 .. Len(lists[o])  BY <1>13, <2>1, <2>4
      <4> QED  BY <1>13, <2>1, <2>4, <3>1, <4>1
    <3>3. PassesInv(o)'  BY <1>13, <2>1, <2>4, <3>1
    <3>4. ListsInv(o)'  BY <1>13, <2>1, <2>4, <3>1
    <3> QED  BY <3>2, <3>3, <3>4
  <2>5. CASE op[o].state = "running" /\ ~worker[o].ok
    BY <1>13, <2>1, <2>2, <2>5 DEF Published
  <2> QED  BY <2>2, <2>3, <2>4, <2>5 DEF Published
<1>9. CASE TakeCommand(o) \/ ScanThreadExits(o)
  BY <1>9, <1>13, PollFields
<1>10. CASE CaptureOldList(o)
  BY <1>10, <1>13, CaptureFields
<1>11. CASE NextScan(o)
  <2>0. worker[o].pc = "nextScan" /\ lists' = lists  BY <1>11, NextScanFields
  <2>1. CASE /\ Moved(o, "nextWait")
             /\ OpIs(o, op[o].state, op[o].command, op[o].memScan, "scanning",
                     op[o].foundList, op[o].passes + 1, op[o].requested)
    BY <1>13, <2>0, <2>1
  <2>2. CASE OpStands(o) /\ WorkerIs(o, "nextPublish", FALSE, worker[o].old, 0)
    BY <1>13, <2>0, <2>2
  <2> HIDE DEF Moved, WorkerIs, OpIs, OpMayBe, OpStands
  <2> QED  BY <1>11, <2>1, <2>2, NextScanFields
<1>12. CASE SignatureCheck(o) \/ SignatureScan(o) \/ SignatureRaises(o) \/ SignaturePublish(o)
  BY <1>0, <1>12, SignatureFields
<1>14. CASE PublishRaises(o)
  BY <1>13, <1>14, PublishRaisesFields
<1> QED
  BY <1>1, <1>2, <1>3, <1>4, <1>5, <1>6, <1>7, <1>8, <1>9, <1>10, <1>11, <1>12, <1>14
     DEF WorkerStep

\* Every listed scan keeps the invariant.
RowsInvs == \A o \in Ids : RowsInv(o)

LEMMA RegisterRows ==
  ASSUME TypeOK, NEW kind \in {"scan", "signature"}, Register(kind), RowsInvs
  PROVE  RowsInvs'
<1> SUFFICES ASSUME NEW o \in Ids, o \in table', op'[o].kind = "scan", ~op'[o].overtaken
             PROVE  RowsAfter(o)
  BY DEF RowsInvs, RowsInv, RowsAfter
<1>1. counter' \in Ids /\ lists' = lists
  BY ConstantsAssumption DEF TypeOK, Register, Ids
<1>2. CASE o = counter'
  <2>1. PICK created \in BOOLEAN :
          op'[o] = NewOperation(kind, created) /\ worker'[o] = NewWorker(kind, created)
    BY <1>1, <1>2 DEF Register, TypeOK
  <2>2. /\ op'[o].state = "queued" /\ op'[o].command = FALSE /\ op'[o].native = "none"
        /\ op'[o].foundList = 0 /\ op'[o].passes = 0 /\ op'[o].requested = 0
        /\ op'[o].memScan = FALSE
        /\ worker'[o].pc \in {"scanStart", "done"} /\ worker'[o].old = 0 /\ worker'[o].fresh = 0
    BY <2>1 DEF NewOperation, NewWorker
  <2>3. Len(lists'[o]) \in Nat  BY <1>1, OwnNumbers
  <2> QED  BY <2>2, <2>3 DEF RowsAfter, ScanInv, PassesInv, ListsInv, Waits, Publishing
<1>3. CASE o # counter'
  <2>1. op'[o] = op[o] /\ worker'[o] = worker[o] /\ o \in table
    BY <1>1, <1>3 DEF Register, TypeOK
  <2>2. ScanInv(o) /\ PassesInv(o) /\ ListsInv(o)
    BY <2>1 DEF RowsInvs, RowsInv
  <2> QED  BY <1>1, <2>1, <2>2 DEF RowsAfter, ScanInv, PassesInv, ListsInv, Current
<1> QED  BY <1>2, <1>3

LEMMA NextRows ==
  ASSUME IInv, ResultsInvs, RowsInvs, [Next]_vars
  PROVE  RowsInvs'
<1>1. TypeOK  BY DEF IInv
<1>2. CASE UNCHANGED vars
  BY <1>2 DEF vars, RowsInvs, RowsInv, ScanInv, PassesInv, ListsInv, Current
<1>3. CASE RefreshTarget \/ ProcessDetach \/ ClientDisconnected
  BY <1>3 DEF RefreshTarget, ProcessDetach, ClientDisconnected, CleanupOperations, RowsInvs, RowsInv
<1>4. CASE ScanStart \/ SignatureStart
  BY <1>1, <1>4, RegisterRows DEF ScanStart, SignatureStart
<1>5. ASSUME NEW o \in Ids, OperationStep(o)
      PROVE  RowsInvs'
  <2>1. /\ table' \in {table, table \ {o}}
        /\ \A x \in Ids \ {o} : op'[x] = op[x] /\ worker'[x] = worker[x] /\ lists'[x] = lists[x]
    BY <1>1, <1>5, StepFrame
  <2>2. op'[o].kind = op[o].kind /\ (op[o].overtaken => op'[o].overtaken)
    BY <1>1, <1>5, StepWorkerInv DEF IInv
  <2>3. ASSUME o \in table', op'[o].kind = "scan", ~op'[o].overtaken PROVE RowsAfter(o)
    <3>1. RowsBefore(o)
      BY <2>1, <2>2, <2>3 DEF RowsBefore, RowsInvs, RowsInv, OwnInv, IInv, ResultsInvs
    <3>2. ~ScanClose(o) /\ ~SignatureClose(o)
      BY <2>3 DEF ScanClose, SignatureClose, CloseOperation
    <3> QED  BY <1>1, <1>5, <2>3, <3>1, <3>2, HandlerRows, WorkerRows DEF OperationStep, HandlerStep
  <2>4. RowsInv(o)'  BY <2>3 DEF RowsInv, RowsAfter
  <2>5. ASSUME NEW x \in Ids, x # o PROVE RowsInv(x)'
    <3>1. /\ op'[x] = op[x] /\ worker'[x] = worker[x] /\ lists'[x] = lists[x]
          /\ x \in table' => x \in table
      BY <2>1, <2>5
    <3>4. RowsInv(x)  BY DEF RowsInvs
    <3>2. /\ ScanInv(x) => ScanInv(x)'
          /\ PassesInv(x) => PassesInv(x)'
      BY <3>1 DEF ScanInv, PassesInv
    <3>3. ListsInv(x) => ListsInv(x)'
      BY <3>1 DEF ListsInv, Current
    <3> QED  BY <3>1, <3>2, <3>3, <3>4 DEF RowsInv
  <2> QED  BY <2>4, <2>5 DEF RowsInvs
<1> QED  BY <1>2, <1>3, <1>4, <1>5 DEF Next, OperationStep

\* Every listed scan that no poll completed ahead of its refinement keeps passes,
\* requests and lists together.
THEOREM RowsInvariant == Spec => []RowsInvs
<1>1. Init => RowsInvs  BY DEF Init, RowsInvs, RowsInv
<1>2. IInv /\ ResultsInvs /\ RowsInvs /\ [Next]_vars => RowsInvs'  BY NextRows
<1> QED  BY <1>1, <1>2, Invariant, ResultsInvariant, PTL DEF Spec

\* What is served of such a scan is a FoundList of the last pass, and the last pass is
\* the refinement asked for last.
LEMMA ServedIsCurrent ==
  ASSUME IInv, ResultsInvs, RowsInvs, NEW o \in Ids, Servable(o), ~op[o].overtaken
  PROVE  lists[o][op[o].foundList] = [pass |-> op[o].requested, live |-> TRUE]
BY DEF Servable, GetOperation, RowsInvs, RowsInv, ListsInv, Current

\* Whatever CE reports of a pass that is over: unless a poll completed the scan ahead of
\* its refinement, no reader of scan.results is handed a FoundList that was destroyed,
THEOREM ServedListsLive == Spec => []ServedListIsLive
<1>1. ASSUME IInv, ResultsInvs, RowsInvs
      PROVE  ServedListIsLive
  <2>1. ASSUME NEW o \in Ids, Servable(o), ~op[o].overtaken
        PROVE  lists[o][op[o].foundList].live = TRUE
    <3>1. lists[o][op[o].foundList] = [pass |-> op[o].requested, live |-> TRUE]
      BY <1>1, <2>1, ServedIsCurrent
    <3> QED  BY <3>1
  <2> QED  BY <2>1, Zenon DEF ServedListIsLive
<1> QED  BY <1>1, RowsInvariant, Invariant, ResultsInvariant, PTL

\* and none the rows of a pass before the refinement it asked for.
THEOREM ServedRowsCurrent == Spec => []ServedRowsAreRefined
<1>1. ASSUME IInv, ResultsInvs, RowsInvs
      PROVE  ServedRowsAreRefined
  <2>1. ASSUME NEW o \in Ids, Servable(o), ~op[o].overtaken
        PROVE  lists[o][op[o].foundList].pass = op[o].requested
    <3>1. lists[o][op[o].foundList] = [pass |-> op[o].requested, live |-> TRUE]
      BY <1>1, <2>1, ServedIsCurrent
    <3> QED  BY <3>1
  <2> QED  BY <2>1, Zenon DEF ServedRowsAreRefined
<1> QED  BY <1>1, RowsInvariant, Invariant, ResultsInvariant, PTL
=============================================================================
