----------------------------- MODULE MCLiveness ------------------------------
(***************************************************************************)
(* What must come to an end: the worker threads of scans and signatures in *)
(* the bridge, and the calls of the sidecar's pipe client.  The two share  *)
(* no state; a behaviour is a fair behaviour of one of them, chosen at the *)
(* start, while the other rests in an initial state.                       *)
(* Beside liveness the run checks what one scan, refined more than once,   *)
(* serves.                                                                 *)
(***************************************************************************)
EXTENDS ScanOperations, PipeTransport

VARIABLE side

livenessVars == <<side, vars, pipeVars>>

LivenessInit ==
  /\ side \in {"bridge", "sidecar"}
  /\ Init
  /\ PipeInit
  /\ side = "sidecar" => ~attached
  /\ side = "bridge" => hosts = {} /\ client.mode = "auto" /\ client.selected = NoPid

Bridge(action) == side = "bridge" /\ action /\ UNCHANGED <<side, pipeVars>>
Sidecar(action) == side = "sidecar" /\ action /\ UNCHANGED <<side, vars>>

LivenessNext == Bridge(Next) \/ Sidecar(PipeNext)

\* Fairness of ScanOperations and PipeFairness.
LivenessFairness ==
  /\ \A o \in Ids : /\ WF_livenessVars(Bridge(WorkerStep(o)))
                    /\ WF_livenessVars(Bridge(StartTimerFires(o)))
                    /\ WF_livenessVars(Bridge(NativeScanProceeds(o)))
  /\ WF_livenessVars(Sidecar(ClientSteps))
  /\ WF_livenessVars(Sidecar(TimerSteps))

LivenessSpec == LivenessInit /\ [][LivenessNext]_livenessVars /\ LivenessFairness
=============================================================================
