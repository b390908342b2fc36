---------------------------- MODULE TargetSession ----------------------------
(***************************************************************************)
(* The target session of the bridge (src/bridge/ce_mcp_bridge.lua): which  *)
(* process it serves, the generation and session id it gives out, and how  *)
(* it answers a request.  Every handler runs on Cheat Engine's main        *)
(* thread, and so is one action; the user of Cheat Engine, the processes   *)
(* and the timer of an attach act between any two requests.  A target can  *)
(* also exit in the middle of a handler.                                   *)
(***************************************************************************)
EXTENDS Integers, Sequences

CONSTANTS
  Pids,            \* process ids
  MaxGeneration,   \* bound: generations
  MaxTimers        \* bound: attaches pending at once

ASSUME ConstantsAssumption ==
  /\ Pids \subseteq Nat \ {0}
  /\ MaxGeneration \in Nat
  /\ MaxTimers \in Nat

VARIABLES
  \* Windows and Cheat Engine
  running,    \* the processes that run
  opened,     \* the process Cheat Engine has opened, 0 when none
  \* the bridge
  bridge,     \* state.pid, .generation, .sessionId, .logicalDetached
  timers,     \* attach timers that have not fired, oldest first
  answer,     \* what it has written to the pipe and nobody has read
  \* history
  issued      \* every session id it ever had

bridgeVars == <<running, opened, bridge, timers, answer, issued>>

\* A session id holds the pid and the generation; None is nil.
Session == [pid : Pids, gen : Nat]
None == [pid |-> 0, gen |-> 0]

Bridge == [pid : Pids \cup {0}, generation : Nat, sessionId : Session \cup {None},
           detached : BOOLEAN]

\* Requests, as far as the session is concerned.  mutate stands for every method of
\* targetMethods that changes something and answers with the session.
TargetMethods == {"process.get", "process.detach", "mutate"}
Methods == {"status.get", "process.attach"} \cup TargetMethods

\* expected is expectedGeneration, 0 when absent; pid is the parameter of attach.
Request == [method : Methods, sessionId : Session \cup {None}, expected : Nat,
            pid : Pids \cup {0}]

\* A session id in a request is one the bridge gave out.
RequestsOf(sessions) ==
  {r \in [method : Methods, sessionId : sessions \cup {None}, expected : 0 .. MaxGeneration,
           pid : Pids \cup {0}] : r.method = "process.attach" => r.pid # 0}

\* Answers: what became of the request, the session they carry, and, as history, the
\* effect that the handler had: for which session, and on which process.
Results == {"ok", "pending", "refused", "stale", "failed"}
Effect == [session : Session \cup {None}, on : Pids \cup {0}]
NoEffect == [session |-> None, on |-> 0]
Answer == [result : Results, session : Session \cup {None}, effect : Effect]
NoAnswer == [result |-> "none", session |-> None, effect |-> NoEffect]

-----------------------------------------------------------------------------
\* refreshTarget and what it is made of, on a bridge b.

\* What refreshTarget may find where CE has opened p: the query for the process list
\* can fail, and p then counts as running.
Observations(p) == IF p \in running THEN {p} ELSE {0, p}

\* Mutant: a new target under the old generation.
RenewedQuietly(b, seen) ==
  [b EXCEPT !.pid = seen,
            !.sessionId = IF seen = 0 THEN None ELSE [pid |-> seen, gen |-> b.generation]]

\* Mutant: no test of the pid before the session id is made.
RenewedAlways(b, seen) ==
  [b EXCEPT !.pid = seen,
            !.generation = b.generation + 1,
            !.sessionId = [pid |-> seen, gen |-> b.generation + 1]]

Renewed(b, seen) ==
  [b EXCEPT !.pid = seen,
            !.generation = b.generation + 1,
            !.sessionId = IF seen = 0 THEN None
                          ELSE [pid |-> seen, gen |-> b.generation + 1]]

\* Mutant: the gate trusts what the last request saw.
RefreshedLater(b, seen) == b

Refreshed(b, seen) == IF seen # b.pid THEN Renewed(b, seen) ELSE b

\* session(): what an answer tells of the session.
SessionOf(b) == IF b.pid = 0 \/ b.detached THEN None ELSE b.sessionId

\* The bridge and the history of its session ids.
BecomesBridge(b) ==
  /\ b.generation <= MaxGeneration
  /\ bridge' = b
  /\ issued' = issued \cup ({b.sessionId} \ {None})

\* Mutant: generations start again with the Lua state.
StartedOver(seed, seen) ==
  Renewed([pid |-> 0, generation |-> 0, sessionId |-> None, detached |-> FALSE], seen)

\* A new Lua state: state is made, then StartCEMCPBridge refreshes with force.
Started(seed, seen) ==
  Renewed([pid |-> 0, generation |-> seed, sessionId |-> None, detached |-> FALSE], seen)

BridgeInit ==
  /\ running \in SUBSET Pids
  /\ opened \in running \cup {0}
  /\ bridge = Started(0, opened)
  /\ timers = <<>>
  /\ answer = NoAnswer
  /\ issued = {bridge.sessionId} \ {None}

-----------------------------------------------------------------------------
\* Handlers.

Answers(result, session, effect) ==
  answer' = [result |-> result, session |-> session, effect |-> effect]

StatusGet(r) ==
  /\ r.method = "status.get"
  /\ \E seen \in Observations(opened) :
       LET b == Refreshed(bridge, seen)
       IN  BecomesBridge(b) /\ Answers("ok", SessionOf(b), NoEffect)
  /\ UNCHANGED <<running, opened, timers>>

\* The session does not change before the timer fires.
ProcessAttach(r) ==
  /\ r.method = "process.attach"
  /\ Len(timers) < MaxTimers
  /\ timers' = Append(timers, r.pid)
  /\ Answers("pending", None, [session |-> None, on |-> r.pid])
  /\ UNCHANGED <<running, opened, bridge, issued>>

\* executeRequest's test, after its refresh.
Matches(b, r) ==
  /\ r.sessionId = b.sessionId
  /\ r.expected # 0 => r.expected = b.generation

StaleSession(r, b) ==
  /\ ~Matches(b, r)
  /\ BecomesBridge(b)
  /\ Answers("stale", None, NoEffect)
  /\ UNCHANGED <<running, opened, timers>>

\* What the handler finds when it looks again: the target may have exited since b.
Rechecked(b, after) ==
  \/ after = b /\ UNCHANGED running
  \/ b.pid # 0 /\ after = Refreshed(b, 0) /\ running' = running \ {opened}

\* requireTarget.
NoTarget(r, after) ==
  /\ r.method \in {"process.get", "process.detach"}
  /\ SessionOf(after) = None
  /\ BecomesBridge(after)
  /\ Answers("refused", None, NoEffect)
  /\ UNCHANGED timers

\* The target may exit between requireTarget and session(): no session then.
ProcessGet(r, b, after) ==
  /\ r.method = "process.get"
  /\ SessionOf(b) # None
  /\ BecomesBridge(after)
  /\ Answers("ok", SessionOf(after), NoEffect)
  /\ UNCHANGED timers

\* Mutant: the detach leaves the session id.
DetachedInName(b) == [b EXCEPT !.detached = TRUE, !.generation = b.generation + 1]

Detached(b) ==
  [b EXCEPT !.detached = TRUE, !.generation = b.generation + 1, !.sessionId = None]

ProcessDetach(r, after) ==
  /\ r.method = "process.detach"
  /\ SessionOf(after) # None
  /\ BecomesBridge(Detached(after))
  /\ Answers("ok", None, [session |-> r.sessionId, on |-> opened])
  /\ UNCHANGED timers

\* A handler that changes something: it refuses before any effect, does its work, or
\* fails with an outcome it does not vouch for.
Mutate(r, after) ==
  /\ r.method = "mutate"
  /\ BecomesBridge(after)
  /\ LET effect == [session |-> r.sessionId, on |-> opened]
     IN  \/ Answers("ok", SessionOf(after), effect)
         \/ \E seen \in {NoEffect, effect} : Answers("failed", None, seen)
         \/ Answers("refused", None, NoEffect)
  /\ UNCHANGED timers

TargetMethod(r, b) ==
  /\ Matches(b, r)
  /\ \E after \in {b, Refreshed(b, 0)} :
       /\ Rechecked(b, after)
       /\ NoTarget(r, after) \/ ProcessGet(r, b, after) \/ ProcessDetach(r, after)
            \/ Mutate(r, after)
  /\ UNCHANGED opened

\* executeRequest; the worker reads no request before its answer is written.
ExecuteRequest(r) ==
  /\ answer = NoAnswer
  /\ \/ StatusGet(r)
     \/ ProcessAttach(r)
     \/ /\ r.method \in TargetMethods
        /\ \E seen \in Observations(opened) :
             LET b == Refreshed(bridge, seen) IN StaleSession(r, b) \/ TargetMethod(r, b)

-----------------------------------------------------------------------------
\* Timers, restarts, Cheat Engine's user, processes and the pipe.

\* openProcess fails where the process is gone or may not be opened; it may have
\* noted the pid all the same.
AttachTimerFires ==
  /\ timers # <<>>
  /\ \E seen \in Observations(opened) :
       BecomesBridge(Renewed([bridge EXCEPT !.detached = FALSE], seen))
  /\ opened' \in {opened, Head(timers)}
  /\ timers' = Tail(timers)
  /\ UNCHANGED <<running, answer>>

\* Cheat Engine rebuilds its Lua state, as it does around openProcess, and autorun
\* starts a new bridge; the pipe breaks.  Its random seed is taken to be a generation
\* that was not given out.
BridgeRestarts ==
  /\ \E seen \in Observations(opened) : BecomesBridge(Started(bridge.generation, seen))
  /\ timers' = <<>>
  /\ answer' = NoAnswer
  /\ UNCHANGED <<running, opened>>

UserOpens(p) ==
  /\ p \in running \ {opened}
  /\ opened' = p
  /\ UNCHANGED <<running, bridge, timers, answer, issued>>

ProcessExits(p) ==
  /\ p \in running
  /\ running' = running \ {p}
  /\ UNCHANGED <<opened, bridge, timers, answer, issued>>

\* The handle Cheat Engine holds keeps the pid of a dead target from being given out.
ProcessStarts(p) ==
  /\ p \notin running \cup {opened}
  /\ running' = running \cup {p}
  /\ UNCHANGED <<opened, bridge, timers, answer, issued>>

\* The answer is read, or lost with the pipe.
AnswerTaken ==
  /\ answer # NoAnswer
  /\ answer' = NoAnswer
  /\ UNCHANGED <<running, opened, bridge, timers, issued>>

Environment ==
  \/ AttachTimerFires
  \/ \E p \in Pids : UserOpens(p) \/ ProcessExits(p) \/ ProcessStarts(p)

BridgeNext ==
  Environment \/ BridgeRestarts \/ AnswerTaken \/ \E r \in RequestsOf(issued) : ExecuteRequest(r)

BridgeSpec == BridgeInit /\ [][BridgeNext]_bridgeVars

-----------------------------------------------------------------------------
\* The bridge's state has its types, and a session id names the current generation.
BridgeTypeOK ==
  /\ running \subseteq Pids
  /\ opened \in Pids \cup {0}
  /\ bridge \in Bridge
  /\ timers \in Seq(Pids)
  /\ answer \in Answer \cup {NoAnswer}
  /\ issued \subseteq Session

\* One generation never names two processes, so expectedGeneration alone tells
\* targets apart: whatever exits, restarts, attaches and detaches came between.
OneTargetPerGeneration ==
  \A s, t \in issued : s.gen = t.gen => s = t

\* A mutation or a detach meets the process its session names, though Cheat Engine's
\* user can open another one, and the target exit, between any two requests.
ActsOnItsTarget ==
  answer.effect.session # None => answer.effect.on = answer.effect.session.pid

\* A session that has ended stays ended: detach, target death, attach and restart
\* never bring back a session id, and with it the handles a client still holds.
SessionsNeverReturn ==
  [][bridge'.sessionId \in issued => bridge'.sessionId = bridge.sessionId]_bridgeVars
=============================================================================
