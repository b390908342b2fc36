--------------------------- MODULE DebuggerControl ---------------------------
(***************************************************************************)
(* Debugger ownership, stops and hardware breakpoints of the bridge        *)
(* (src/bridge/ce_mcp_bridge.lua) beside Cheat Engine's own debugger,      *)
(* which its user operates as well.  Handlers, cleanup and breakpoint      *)
(* callbacks run on Cheat Engine's main thread, so each is one action; the *)
(* user, the target and the debugger act between any two of them.          *)
(***************************************************************************)
EXTENDS Integers, FiniteSets

CONSTANTS
  BreakpointSlots,   \* hardware breakpoints at once: 4 in the code
  MaxBreakpoints,    \* bound: breakpoints ever set
  MaxStops,          \* bound: stops and pauses
  MaxGeneration      \* bound: generations, of targets and of rebuilt Lua states

ASSUME ConstantsAssumption ==
  /\ BreakpointSlots \in Nat
  /\ MaxBreakpoints \in Nat
  /\ MaxStops \in Nat
  /\ MaxGeneration \in Nat

VARIABLES
  \* Cheat Engine
  backend,             \* the active debugger interface
  waiting,             \* the stop at which a debugger thread waits, 0 when none does
  suspensions,         \* calls of pause() not yet undone by unpause()
  armed,               \* native breakpoints the bridge installed
  hook,                \* whose function the global debugger_onBreakpoint is
  stops,               \* stops and pauses so far; names each of them
  \* state.debug and state.generation
  generation,
  ownership,
  active,
  stopped,
  processSuspended,
  stopGeneration,
  callbackInstalled,
  breakpointCounter,
  breakpoints,         \* the entries of state.debug.breakpoints
  \* history
  named,               \* the stop that the current stopGeneration was given to
  starter,             \* who started the active debugger
  failed,              \* whether ownership went last without a release that succeeded
  lost,                \* native breakpoints for which a call of CE failed
  stranded,            \* native breakpoints whose Lua state was rebuilt under them
  client               \* a stopGeneration some client holds, the stop it saw, and
                       \* whether this Lua state gave it out

native == <<backend, waiting, suspensions, armed, hook, stops>>
vars == <<backend, waiting, suspensions, armed, hook, stops, generation, ownership, active,
          stopped, processSuspended, stopGeneration, callbackInstalled, breakpointCounter,
          breakpoints, named, starter, failed, lost, stranded, client>>

Supported == {"windows", "veh"}
Interfaces == Supported \cup {"kernel"}

Breakpoint == [id : 1 .. MaxBreakpoints, gen : Nat]

Ids(bps) == {b.id : b \in bps}

Init ==
  /\ backend \in {"none"} \cup Interfaces /\ waiting = 0 /\ suspensions = 0
  /\ armed = {} /\ hook = "user" /\ stops = 0
  /\ generation = 1 /\ ownership = "none" /\ active = FALSE /\ stopped = FALSE
  /\ processSuspended = FALSE /\ stopGeneration = 0 /\ callbackInstalled = FALSE
  /\ breakpointCounter = 0 /\ breakpoints = {}
  /\ named = 0 /\ starter = "user" /\ failed = FALSE /\ lost = {} /\ stranded = {}
  /\ client = [gen |-> 0, stop |-> 0, here |-> TRUE]

-----------------------------------------------------------------------------
\* refreshDebugState, the last thing every status, session and guard does: it
\* overwrites what the handler assigned, except while the process is suspended.
RefreshDebugState(assigned) ==
  /\ active' = (backend' # "none")
  /\ stopped' = IF processSuspended' THEN assigned
                ELSE backend' # "none" /\ waiting' # 0

\* state.debug.stopped, once refreshed.
Stopped == IF processSuspended THEN stopped ELSE backend # "none" /\ waiting # 0

\* unpause() of a process that is not suspended does nothing.
Unpaused == IF suspensions = 0 THEN 0 ELSE suspensions - 1

\* What cleanupDebugger does to the debugger it releases: owner is the ownership,
\* debugger the active interface, that it finds.

\* Mutant: an adopted debugger is released like an owned one.
ReleasesAny(owner) == owner # "none"

Releases(owner) == owner = "owned"

\* Mutant: a suspended process is resumed but its debugger stays.
ReleaseEither(owner, debugger, resumed, detached) ==
  /\ suspensions' = IF Releases(owner) /\ processSuspended /\ resumed THEN Unpaused
                    ELSE suspensions
  /\ backend' = IF Releases(owner) /\ ~processSuspended /\ detached THEN "none" ELSE debugger
  /\ waiting' = IF Releases(owner) /\ ~processSuspended /\ (detached \/ (resumed /\ stopped))
                THEN 0 ELSE waiting

\* unpause, or continue from the stop, then detach; each under pcall.
ReleaseDebugger(owner, debugger, resumed, detached) ==
  /\ suspensions' = IF Releases(owner) /\ processSuspended /\ resumed THEN Unpaused
                    ELSE suspensions
  /\ backend' = IF Releases(owner) /\ detached THEN "none" ELSE debugger
  /\ waiting' = IF Releases(owner) /\ (detached \/ (resumed /\ ~processSuspended /\ stopped))
                THEN 0 ELSE waiting

\* Mutant: the handles are forgotten, the native breakpoints are not removed.
ForgetsBreakpoints(kept) == armed' = armed /\ lost' = lost

\* Every breakpoint is removed, unless CE fails to.
RemovesBreakpoints(kept) ==
  /\ armed' = armed \ (Ids(breakpoints) \ kept)
  /\ lost' = lost \cup kept

\* Mutant: the callback is restored only when a debugger was owned.
RestoresOwnedCallback ==
  /\ callbackInstalled' = FALSE
  /\ hook' = IF callbackInstalled /\ ownership = "owned" THEN "user" ELSE hook

\* The callback goes only if it is still the bridge's own.
RestoresCallback ==
  /\ callbackInstalled' = FALSE
  /\ hook' = IF callbackInstalled /\ hook = "bridge" THEN "user" ELSE hook

\* Mutant: numbering restarts with each debugger session.
StopNumbersRestart == stopGeneration' = 0

\* Mutant: cleanup gives the number of the stop it releases back.
StopNumberReturned == stopGeneration' = stopGeneration - 1

StopNumbersContinue == stopGeneration' = stopGeneration

CleanupDebugger(owner, debugger) ==
  /\ RestoresCallback
  /\ StopNumbersContinue
  /\ \E resumed, detached \in BOOLEAN :
       ReleaseDebugger(owner, debugger, resumed, detached) /\ failed' = ~(resumed /\ detached)
  /\ \E kept \in SUBSET Ids(breakpoints) : RemovesBreakpoints(kept)
  /\ breakpoints' = {}
  /\ processSuspended' = FALSE
  /\ ownership' = "none"
  /\ UNCHANGED <<stops, breakpointCounter, named, stranded, client>>

\* Mutant: the debugger's state outlives its target.
NewTargetKeepsDebugger ==
  /\ generation < MaxGeneration
  /\ generation' = generation + 1
  /\ UNCHANGED <<native, ownership, active, stopped, processSuspended, stopGeneration,
                 callbackInstalled, breakpointCounter, breakpoints, named, starter, failed, lost,
                 stranded, client>>

\* refreshTarget and process.detach.
NewTarget ==
  /\ generation < MaxGeneration
  /\ generation' = generation + 1
  /\ CleanupDebugger(ownership, backend)
  /\ active' = FALSE /\ stopped' = FALSE
  /\ UNCHANGED starter

ClientDisconnected ==
  /\ CleanupDebugger(ownership, backend)
  /\ active' = FALSE /\ stopped' = FALSE
  /\ UNCHANGED <<generation, starter>>

\* debug.control.detach answers with a fresh summary.
ControlDetach ==
  /\ CleanupDebugger(ownership, backend)
  /\ RefreshDebugState(FALSE)
  /\ UNCHANGED <<generation, starter>>

\* openProcess, the user's or that of an attach (whose refreshTarget came before),
\* rebuilds the Lua state: state.debug is as at startup and nothing is cleaned up.
\* Native breakpoints stay, without the callbacks of the old state.
BridgeRestarts ==
  /\ generation < MaxGeneration
  /\ generation' = generation + 1
  /\ ownership' = "none" /\ active' = FALSE /\ stopped' = FALSE /\ processSuspended' = FALSE
  /\ stopGeneration' = 0 /\ named' = 0
  /\ callbackInstalled' = FALSE /\ hook' = "user"
  /\ breakpoints' = {}
  /\ stranded' = stranded \cup armed
  /\ failed' = TRUE
  /\ client' = [client EXCEPT !.here = FALSE]
  /\ UNCHANGED <<backend, waiting, suspensions, armed, stops, breakpointCounter, starter, lost>>

-----------------------------------------------------------------------------
\* debug.control.*

Kept == <<generation, breakpointCounter, breakpoints, failed, lost, stranded, client>>

Status ==
  /\ UNCHANGED <<native, Kept, ownership, processSuspended, stopGeneration,
                 callbackInstalled, named, starter>>
  /\ RefreshDebugState(stopped)

InstallDebuggerCallback ==
  /\ callbackInstalled' = TRUE
  /\ hook' = IF callbackInstalled THEN hook ELSE "bridge"

\* start with a supported debugger running: adopt it.  Here and below, a request
\* that is refused, or whose call of CE fails, is a Status step.
StartAdopts ==
  /\ backend \in Supported
  /\ IF ownership = "none"
     THEN InstallDebuggerCallback /\ ownership' = "adopted"
     ELSE UNCHANGED <<callbackInstalled, hook, ownership>>
  /\ UNCHANGED <<Kept, backend, waiting, suspensions, armed, stops, processSuspended,
                 stopGeneration, named, starter>>
  /\ RefreshDebugState(stopped)

\* start with no debugger running: debugProcess, then the interface it gave.
StartOwns(interface) ==
  /\ backend = "none"
  /\ interface \in Supported
  /\ InstallDebuggerCallback
  /\ ownership' = "owned"
  /\ backend' = interface /\ starter' = "bridge"
  /\ UNCHANGED <<Kept, waiting, suspensions, armed, stops, processSuspended,
                 stopGeneration, named>>
  /\ RefreshDebugState(FALSE)

\* debugProcess failed: the callback goes with the rest of cleanup.
StartCallFails ==
  /\ backend = "none"
  /\ CleanupDebugger(ownership, backend)
  /\ active' = FALSE /\ stopped' = FALSE
  /\ UNCHANGED <<generation, starter>>

\* debugProcess gave an interface that is not supported, or none, or one that could
\* not be queried: start cleans up as the owner it has just become.
StartUnsupported(interface) ==
  /\ backend = "none"
  /\ CleanupDebugger("owned", interface)
  /\ active' = FALSE /\ stopped' = FALSE
  /\ starter' = IF interface = "none" THEN starter ELSE "bridge"
  /\ UNCHANGED generation

\* recordDebugStop and the breakpoint's callback, but for the event ring.
RecordDebugStop ==
  /\ stopGeneration' = stopGeneration + 1
  /\ named' = stops'

Pause ==
  /\ stops < MaxStops
  /\ backend # "none" /\ ownership # "none"
  /\ ~Stopped
  /\ suspensions' = suspensions + 1
  /\ stops' = stops + 1
  /\ processSuspended' = TRUE
  /\ RecordDebugStop
  /\ UNCHANGED <<Kept, backend, waiting, armed, hook, ownership, callbackInstalled, starter>>
  /\ RefreshDebugState(TRUE)

\* requireDebuggerStopped.
RequireDebuggerStopped(expected) ==
  /\ backend # "none"
  /\ ownership # "none"
  /\ Stopped
  /\ expected = stopGeneration

\* continue with mode run of a suspended process.
ContinueSuspended(expected) ==
  /\ RequireDebuggerStopped(expected)
  /\ processSuspended
  /\ suspensions' = Unpaused
  /\ processSuspended' = FALSE
  /\ UNCHANGED <<Kept, backend, waiting, armed, hook, stops, ownership, stopGeneration,
                 callbackInstalled, named, starter>>
  /\ RefreshDebugState(FALSE)

\* continue or step from a stop; a step ends in a stop of its own.
ContinueStopped(expected) ==
  /\ RequireDebuggerStopped(expected)
  /\ ~processSuspended
  /\ waiting' = 0
  /\ UNCHANGED <<Kept, backend, suspensions, armed, hook, stops, ownership, processSuspended,
                 stopGeneration, callbackInstalled, named, starter>>
  /\ RefreshDebugState(FALSE)

-----------------------------------------------------------------------------
\* debug.breakpoints.*

\* Mutant: one slot too many.
SlotFreeInclusive == Cardinality(breakpoints) <= BreakpointSlots

SlotFree == Cardinality(breakpoints) < BreakpointSlots

\* set reads the cached active; without a native id the breakpoint is armed but
\* reported OUTCOME_UNKNOWN.
BreakpointsSet ==
  /\ active /\ ownership # "none"
  /\ SlotFree
  /\ breakpointCounter < MaxBreakpoints
  /\ UNCHANGED <<backend, waiting, suspensions, hook, stops, generation, ownership,
                 processSuspended, stopGeneration, callbackInstalled, named, starter, failed,
                 stranded, client>>
  /\ breakpointCounter' = breakpointCounter + 1
  /\ \/ /\ backend # "none"
        /\ armed' = armed \cup {breakpointCounter'}
        /\ \/ /\ breakpoints' = breakpoints \cup {[id |-> breakpointCounter', gen |-> generation]}
              /\ UNCHANGED lost
              /\ RefreshDebugState(stopped)
           \/ /\ lost' = lost \cup {breakpointCounter'}
              /\ UNCHANGED <<breakpoints, active, stopped>>
     \/ UNCHANGED <<armed, breakpoints, lost, active, stopped>>

\* The handle goes first; the native removal may then fail: OUTCOME_UNKNOWN.
BreakpointsRemove(b) ==
  /\ b \in breakpoints
  /\ breakpoints' = breakpoints \ {b}
  /\ UNCHANGED <<backend, waiting, suspensions, hook, stops, generation, ownership,
                 processSuspended, stopGeneration, callbackInstalled, breakpointCounter,
                 named, starter, failed, stranded, client>>
  /\ \/ /\ armed' = armed \ {b.id}
        /\ UNCHANGED lost
        /\ RefreshDebugState(stopped)
     \/ /\ lost' = lost \cup {b.id}
        /\ UNCHANGED <<armed, active, stopped>>

-----------------------------------------------------------------------------
\* Cheat Engine, its user and the target.

Bridge == <<generation, ownership, active, processSuspended, callbackInstalled,
            breakpointCounter, breakpoints, failed, lost, stranded, client>>

\* The callback of a breakpoint fires and returns 1: the thread waits.
BreakpointHit ==
  /\ backend # "none" /\ armed \ stranded # {} /\ waiting = 0 /\ stops < MaxStops
  /\ stops' = stops + 1
  /\ waiting' = stops'
  /\ stopped' = TRUE
  /\ RecordDebugStop
  /\ UNCHANGED <<Bridge, backend, suspensions, armed, hook, starter>>

\* Any other stop: recorded if the global callback is the bridge's, and kept or
\* continued by the callback that was there before.
GlobalBreak ==
  /\ backend # "none" /\ waiting = 0 /\ stops < MaxStops
  /\ stops' = stops + 1
  /\ waiting' \in {0, stops'}
  /\ IF hook = "bridge" THEN RecordDebugStop /\ stopped' = TRUE
     ELSE UNCHANGED <<stopGeneration, named, stopped>>
  /\ UNCHANGED <<Bridge, backend, suspensions, armed, hook, starter>>

\* The user attaches a debugger, detaches it or continues the target.
UserActs ==
  /\ \/ /\ backend = "none" /\ backend' \in Interfaces /\ starter' = "user"
        /\ UNCHANGED <<waiting, armed>>
     \/ backend' = "none" /\ waiting' = 0 /\ armed' = {} /\ UNCHANGED starter
     \/ waiting # 0 /\ waiting' = 0 /\ UNCHANGED <<backend, armed, starter>>
  /\ UNCHANGED <<Bridge, hook, stops, stopped, stopGeneration, named, suspensions>>

\* Another Lua script takes the global callback.
HookReplaced ==
  /\ hook = "bridge" /\ hook' = "user"
  /\ UNCHANGED <<Bridge, backend, waiting, suspensions, armed, stops, stopped, stopGeneration, named,
                 starter>>

\* The target process ends; the bridge learns of it in NewTarget.
TargetExits ==
  /\ backend' = "none" /\ waiting' = 0 /\ armed' = {} /\ suspensions' = 0
  /\ UNCHANGED <<Bridge, hook, stops, stopped, stopGeneration, named, starter>>

\* A client reads status or an event and keeps the stop generation.
ClientNotes ==
  /\ client' = [gen |-> stopGeneration, stop |-> named, here |-> TRUE]
  /\ UNCHANGED <<native, generation, ownership, active, stopped, processSuspended,
                 stopGeneration, callbackInstalled, breakpointCounter, breakpoints, named, starter,
                 failed, lost, stranded>>

-----------------------------------------------------------------------------
Next ==
  \/ NewTarget \/ ClientDisconnected \/ ControlDetach \/ BridgeRestarts
  \/ Status \/ StartAdopts \/ StartCallFails \/ Pause
  \/ \E interface \in Supported : StartOwns(interface)
  \/ \E interface \in {"none"} \cup Interfaces : StartUnsupported(interface)
  \/ ContinueSuspended(client.gen) \/ ContinueStopped(client.gen)
  \/ BreakpointsSet \/ \E b \in breakpoints : BreakpointsRemove(b)
  \/ BreakpointHit \/ GlobalBreak \/ UserActs \/ HookReplaced \/ TargetExits
  \/ ClientNotes

Spec == Init /\ [][Next]_vars

-----------------------------------------------------------------------------
\* Every variable has its type.
TypeOK ==
  /\ backend \in {"none"} \cup Interfaces
  /\ waiting \in Nat /\ suspensions \in Nat /\ stops \in Nat
  /\ armed \subseteq 1 .. breakpointCounter
  /\ hook \in {"user", "bridge"}
  /\ generation \in Nat
  /\ ownership \in {"none", "owned", "adopted"}
  /\ active \in BOOLEAN /\ stopped \in BOOLEAN /\ processSuspended \in BOOLEAN
  /\ callbackInstalled \in BOOLEAN
  /\ stopGeneration \in Nat /\ named \in Nat
  /\ breakpointCounter \in 0 .. MaxBreakpoints
  /\ breakpoints \subseteq Breakpoint
  /\ lost \subseteq 1 .. breakpointCounter
  /\ stranded \subseteq 1 .. breakpointCounter
  /\ starter \in {"bridge", "user"} /\ failed \in BOOLEAN
  /\ client \in [gen : Nat, stop : Nat, here : BOOLEAN]

\* "Disconnect and release remove MCP hooks": without an owned or adopted debugger
\* the global callback is not the bridge's, on every path that gives it up.
HookFollowsOwnership ==
  /\ callbackInstalled <=> ownership # "none"
  /\ ownership = "none" => hook = "user"

\* A breakpoint of the bridge stays armed in Cheat Engine without a handle only if
\* Cheat Engine failed a call, or rebuilt the Lua state that held the handle.
NoOrphanBreakpoint == armed \subseteq Ids(breakpoints) \cup lost \cup stranded

\* The handles are of the generation being served and fit the debug registers.
BreakpointsBelongToTarget ==
  /\ \A b \in breakpoints : b.gen = generation
  /\ Cardinality(breakpoints) <= BreakpointSlots

\* While a Lua state lives, a stop generation it gave out never comes to name another
\* stop, so a client that holds an old one cannot resume, or read registers at, a stop
\* recorded since: not across cleanup, another debugger session or another target.
\* (A rebuilt Lua state counts from 0 again; it also has a session of its own.)
StopGenerationNamesOneStop ==
  client.here /\ client.gen = stopGeneration => client.stop = named

\* "Disconnect and release ... never resume or detach an adopted debugger", nor does
\* any other step that gives up an adopted debugger which is still there.
AdoptedStaysAsItWas ==
  [][ownership = "adopted" /\ backend # "none" /\ ownership' = "none"
       => UNCHANGED <<backend, waiting, suspensions>>]_vars

\* Giving up an owned debugger leaves the target neither debugged nor stopped,
\* unless Cheat Engine fails a call that releases it, or rebuilds the Lua state.
OwnedIsReleased ==
  [][ownership = "owned" /\ ownership' = "none" /\ ~failed'
       => /\ backend' = "none" /\ waiting' = 0
          /\ processSuspended => suspensions' = Unpaused]_vars

(***************************************************************************)
(* What the repository says and the code does not do.                      *)
(***************************************************************************)

\* "A stop event establishes the only valid generation for register reads and
\* resume/step commands": where requireDebuggerStopped accepts a generation for a
\* waiting thread, while the bridge's callback is installed, some event gave that
\* generation to this stop.
AcceptedStopHasEvent ==
  hook = "bridge" /\ ~processSuspended =>
    \A expected \in 1 .. MaxStops : RequireDebuggerStopped(expected) => waiting = named

\* "A matching active debugger is adopted.  Disconnect and release remove MCP hooks
\* but never resume or detach an adopted debugger": a debugger that Cheat Engine's
\* user started is not detached when the bridge gives up its own hold.
UsersDebuggerKept ==
  [][ownership # "none" /\ ownership' = "none" /\ starter = "user" => UNCHANGED backend]_vars
=============================================================================
