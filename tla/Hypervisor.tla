----------------------------- MODULE Hypervisor ------------------------------
(***************************************************************************)
(* The DBVM watches and the DBVM trace of the bridge                       *)
(* (src/bridge/ce_mcp_bridge.lua).  They run below the target, so that     *)
(* nothing ends them but the bridge: a client that stops them, or the      *)
(* cleanup at a change of the target and at a disconnect.  A detach does   *)
(* not clean up, and neither does Cheat Engine when it rebuilds the Lua    *)
(* state.  Every native call may fail, with or without its effect.         *)
(***************************************************************************)
EXTENDS Naturals, FiniteSets

CONSTANTS
  DbvmTargets,      \* processes that Cheat Engine may open
  MaxWatches,       \* dbvm.watch.start: 8
  MaxNative,        \* bound: native watches and traces ever asked for
  MaxRenewals       \* bound: generations

ASSUME HypervisorAssumption ==
  /\ DbvmTargets \subseteq Nat \ {0}
  /\ MaxWatches \in Nat /\ MaxNative \in Nat /\ MaxRenewals \in Nat \ {0}

VARIABLES
  watches,   \* hypervisor.watches
  trace,     \* hypervisor.trace, or NoTrace
  active,    \* watches and traces that DBVM has
  begun,     \* how many were asked for
  session,   \* state.pid, .generation and .logicalDetached; the client and the attach timer
  openPid,   \* getOpenedProcessID
  excused,   \* history: native watches and traces for which a native call failed
  stranded   \* history: those whose Lua state was rebuilt under them

hypervisorVars == <<watches, trace, active, begun, session, openPid, excused, stranded>>

NativeIds == 1 .. MaxNative
DbvmHandle == [native : NativeIds, generation : 1 .. MaxRenewals]
NoTrace == [native |-> 0, generation |-> 0]

HypervisorTypeOK ==
  /\ watches \subseteq DbvmHandle
  /\ trace \in DbvmHandle \cup {NoTrace}
  /\ active \subseteq NativeIds /\ excused \subseteq NativeIds /\ stranded \subseteq NativeIds
  /\ begun \in 0 .. MaxNative
  /\ session \in [pid : DbvmTargets \cup {0}, generation : 1 .. MaxRenewals,
                  detached : BOOLEAN, connected : BOOLEAN, attaching : DbvmTargets \cup {0}]
  /\ openPid \in DbvmTargets \cup {0}

HypervisorInit ==
  /\ watches = {} /\ trace = NoTrace /\ active = {} /\ excused = {} /\ stranded = {}
  /\ begun = 0
  /\ openPid \in DbvmTargets \cup {0}
  /\ session = [pid |-> openPid, generation |-> 1, detached |-> FALSE, connected |-> FALSE,
                attaching |-> 0]

-----------------------------------------------------------------------------
Handles == watches \cup ({trace} \ {NoTrace})

\* cleanupHypervisor: each call is tried, and the handles are gone whatever comes of it.
CleanupHypervisor ==
  \E failed \in SUBSET {h.native : h \in Handles} :
    /\ \E had \in SUBSET failed : active' = (active \ {h.native : h \in Handles}) \cup (active \cap had)
    /\ excused' = excused \cup failed
    /\ watches' = {} /\ trace' = NoTrace

KeepHypervisor == UNCHANGED <<watches, trace, active, excused>>

\* Mutant: an attach renews nothing when the process is the one before.
RefreshTargetIfMoved(force, after) ==
  IF openPid # session.pid
  THEN /\ session.generation < MaxRenewals
       /\ CleanupHypervisor
       /\ session' = [after EXCEPT !.pid = openPid, !.generation = @ + 1]
  ELSE KeepHypervisor /\ session' = after

\* refreshTarget, in a state where session has become `after'.
RefreshTarget(force, after) ==
  IF force \/ openPid # session.pid
  THEN /\ session.generation < MaxRenewals
       /\ CleanupHypervisor
       /\ session' = [after EXCEPT !.pid = openPid, !.generation = @ + 1]
  ELSE KeepHypervisor /\ session' = after

\* A request, or what it calls, looks at the target again.
LooksAtTarget ==
  /\ session.connected
  /\ RefreshTarget(FALSE, session)
  /\ UNCHANGED <<begun, openPid, stranded>>

\* A request with the session of this target passes the test of executeRequest.
Attached == session.connected /\ ~session.detached /\ openPid = session.pid /\ openPid # 0

NewHandle == [native |-> begun + 1, generation |-> session.generation]

\* The native start fails, perhaps after it started something.
StartFails ==
  /\ active' = active \/ active' = active \cup {NewHandle.native}
  /\ excused' = excused \cup {NewHandle.native}
  /\ UNCHANGED <<watches, trace>>

WatchStart ==
  /\ Attached /\ begun < MaxNative /\ Cardinality(watches) < MaxWatches
  /\ \/ StartFails
     \/ /\ active' = active \cup {NewHandle.native}
        /\ watches' = watches \cup {NewHandle}
        /\ UNCHANGED <<trace, excused>>
  /\ begun' = begun + 1
  /\ UNCHANGED <<session, openPid, stranded>>

\* getWatch, getTrace.
OfThisGeneration(h) == h.generation = session.generation

\* dbvm_watch_disable may fail; the handle then stays.
WatchStop(watch) ==
  /\ Attached /\ OfThisGeneration(watch)
  /\ \/ watches' = watches \ {watch} /\ active' = active \ {watch.native}
     \/ UNCHANGED watches /\ (active' = active \/ active' = active \ {watch.native})
  /\ UNCHANGED <<trace, begun, session, openPid, excused, stranded>>

\* dbvm_traceonbp, and the status that must show it.
TraceStart ==
  /\ Attached /\ begun < MaxNative /\ trace = NoTrace
  /\ \/ StartFails
     \/ /\ active' = active \cup {NewHandle.native}
        /\ trace' = NewHandle
        /\ UNCHANGED <<watches, excused>>
     \/ UNCHANGED <<watches, trace, active, excused>>   \* not configured, and removed again
  /\ begun' = begun + 1
  /\ UNCHANGED <<session, openPid, stranded>>

\* dbvm_traceonbp_remove.
TraceRemove ==
  /\ Attached /\ trace # NoTrace /\ OfThisGeneration(trace)
  /\ \/ trace' = NoTrace /\ active' = active \ {trace.native}
     \/ UNCHANGED trace /\ (active' = active \/ active' = active \ {trace.native})
  /\ UNCHANGED <<watches, begun, session, openPid, excused, stranded>>

\* process.detach: a new generation, and no cleanup of these.
Detach ==
  /\ Attached /\ session.generation < MaxRenewals
  /\ session' = [session EXCEPT !.detached = TRUE, !.generation = @ + 1]
  /\ UNCHANGED <<watches, trace, active, begun, openPid, excused, stranded>>

Attach ==
  /\ session.connected /\ session.attaching = 0
  /\ \E pid \in DbvmTargets : session' = [session EXCEPT !.attaching = pid]
  /\ UNCHANGED <<watches, trace, active, begun, openPid, excused, stranded>>

\* The timer of process.attach.
AttachFires ==
  /\ session.attaching # 0
  /\ RefreshTarget(TRUE, [session EXCEPT !.detached = FALSE, !.attaching = 0])
  /\ openPid' \in {openPid, session.attaching}
  /\ UNCHANGED <<begun, stranded>>

ClientConnects ==
  /\ ~session.connected
  /\ session' = [session EXCEPT !.connected = TRUE]
  /\ UNCHANGED <<watches, trace, active, begun, openPid, excused, stranded>>

\* worker, after the connection; StopCEMCPBridge.
ClientDisconnects ==
  /\ session.connected
  /\ CleanupHypervisor
  /\ session' = [session EXCEPT !.connected = FALSE]
  /\ UNCHANGED <<begun, openPid, stranded>>

\* Cheat Engine's user opens a process, or the target exits.
UserOpensTarget ==
  /\ openPid' \in (DbvmTargets \cup {0}) \ {openPid}
  /\ UNCHANGED <<watches, trace, active, begun, session, excused, stranded>>

\* openProcess, the user's or the attach timer's, rebuilds the Lua state: the handles
\* are gone without a cleanup, the pipe breaks, and a new bridge starts.
BridgeRestarts ==
  /\ session.generation < MaxRenewals
  /\ watches' = {} /\ trace' = NoTrace
  /\ stranded' = stranded \cup active
  /\ session' = [pid |-> openPid, generation |-> session.generation + 1, detached |-> FALSE,
                 connected |-> FALSE, attaching |-> 0]
  /\ UNCHANGED <<active, begun, openPid, excused>>

HypervisorNext ==
  \/ LooksAtTarget \/ WatchStart \/ (\E w \in watches : WatchStop(w)) \/ TraceStart \/ TraceRemove
  \/ Detach \/ Attach \/ AttachFires \/ ClientConnects \/ ClientDisconnects \/ UserOpensTarget
  \/ BridgeRestarts

HypervisorSpec == HypervisorInit /\ [][HypervisorNext]_hypervisorVars

-----------------------------------------------------------------------------
\* Whatever DBVM still has is within reach: it has a handle that the next cleanup uses,
\* unless a native call failed for it or the Lua state was rebuilt under it; a client
\* that is attached can stop every handle, only a detach leaves some behind that are
\* stale; and without a client there is none (cleanupHypervisor 144-155, refreshTarget
\* 356-358, worker 2442-2450).
DbvmStaysInReach ==
  /\ active \ (excused \cup stranded) \subseteq {h.native : h \in Handles}
  /\ \A h \in Handles : OfThisGeneration(h) \/ session.detached
  /\ ~session.connected => Handles = {}
=============================================================================
