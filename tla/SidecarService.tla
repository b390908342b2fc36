--------------------------- MODULE SidecarService ---------------------------
(***************************************************************************)
(* BackendService.call_tool of the sidecar (src/ce_mcp/service.py) over    *)
(* the bridge of TargetSession: preflight against the cached session, one  *)
(* request on the pipe, and for an attach or detach the reconciliation     *)
(* that follows.  Calls hold one lock, so there is one at a time.  The     *)
(* pipe may fail at any point, and a request the sidecar has given up may  *)
(* still be executed.  A worker of the bridge serves one connection to its *)
(* end, so nothing new is sent before that.                                *)
(***************************************************************************)
EXTENDS TargetSession

CONSTANT MaxCalls     \* bound: calls

ASSUME MaxCallsAssumption == MaxCalls \in Nat

VARIABLES
  cache,       \* self._session
  call,        \* the call that holds the lock, or the last that held it
  request,     \* the request in the pipe, not yet executed
  live,        \* whether the sidecar waits on the connection of request and answer
  outcome,     \* what each client was told
  \* history
  executed,    \* how often each call took effect
  audited      \* calls with an accepted record in the audit log

serviceVars == <<cache, call, request, live, outcome, executed, audited>>
vars == <<bridgeVars, serviceVars>>

Calls == 1 .. MaxCalls

\* A request in the pipe bears the id of its call.
Sent == [method : Methods, sessionId : Session \cup {None}, expected : Nat,
         pid : Pids \cup {0}, id : Calls]
NoRequest == [method |-> "none", sessionId |-> None, expected |-> 0, pid |-> 0, id |-> 0]

\* Where call_tool stands: to send its request or to wait for the answer, then, in
\* _reconcile_process_mutation, at the head of the loop or waiting for status.get.
Phases == {"idle", "sending", "waiting", "polling", "observing"}
Call == [id : 0 .. MaxCalls, method : Methods, pid : Pids \cup {0}, expected : Nat,
         phase : Phases, expired : BOOLEAN]

Init ==
  /\ BridgeInit
  /\ cache = None
  /\ call = [id |-> 0, method |-> "status.get", pid |-> 0, expected |-> 0,
             phase |-> "idle", expired |-> FALSE]
  /\ request = NoRequest
  /\ live = FALSE
  /\ outcome = [c \in Calls |-> "none"]
  /\ executed = [c \in Calls |-> 0]
  /\ audited = {}

-----------------------------------------------------------------------------
\* _MUTATING_ACTIONS, and the tools of _reconcile_process_mutation.
IsMutation(method) == method \in {"process.attach", "process.detach", "mutate"}
IsReconciled(method) == method \in {"process.attach", "process.detach"}

\* Tool ce.process.
IsProcess(method) == method = "process.get" \/ IsReconciled(method)

NeedsTarget(method) == method \in TargetMethods

GoesTo(phase) == call' = [call EXCEPT !.phase = phase]

\* The call returns told to its client.
Returns(told) ==
  /\ call' = [call EXCEPT !.phase = "idle", !.expired = FALSE]
  /\ outcome' = [outcome EXCEPT ![call.id] = told]

\* _preflight: what it answers, or none.
Preflight(method, expected) ==
  IF NeedsTarget(method) /\ cache = None THEN "safe"
  ELSE IF expected # 0 /\ cache # None /\ expected # cache.gen
       THEN IF IsProcess(method) THEN "unknown" ELSE "safe"
       ELSE "none"

\* Mutant: a call goes on when its record could not be written.
AcceptedIfPossible(id) == audited' \in {audited, audited \cup {id}}

\* The accepted record is flushed before anything else.
Accepted(id) == audited' = audited \cup {id}

Invoke(method, p, expected) ==
  /\ call.phase = "idle" /\ call.id < MaxCalls
  /\ LET id == call.id + 1
         new == [id |-> id, method |-> method, pid |-> p, expected |-> expected,
                 phase |-> "sending", expired |-> FALSE]
         refusal == Preflight(method, expected)
     IN  \/ /\ refusal = "none"
            /\ Accepted(id)
            /\ call' = new
            /\ UNCHANGED outcome
         \/ /\ refusal # "none"
            /\ Accepted(id)
            /\ call' = [new EXCEPT !.phase = "idle"]
            /\ outcome' = [outcome EXCEPT ![id] = refusal]
         \/ \* AUDIT_UNAVAILABLE
            /\ call' = [new EXCEPT !.phase = "idle"]
            /\ outcome' = [outcome EXCEPT ![id] = "safe"]
            /\ UNCHANGED audited
  /\ UNCHANGED <<bridgeVars, cache, request, live, executed>>

\* Mutant: the reconciliation sends the mutation again.
RequestAgain ==
  [method |-> call.method, sessionId |-> cache, expected |-> call.expected,
   pid |-> call.pid, id |-> call.id]

RequestToSend ==
  IF call.phase = "sending"
  THEN [method |-> call.method, sessionId |-> cache, expected |-> call.expected,
        pid |-> call.pid, id |-> call.id]
  ELSE [method |-> "status.get", sessionId |-> None, expected |-> 0, pid |-> 0,
        id |-> call.id]

Send ==
  /\ \/ call.phase = "sending"
     \/ call.phase = "polling" /\ ~call.expired
  /\ request = NoRequest /\ answer = NoAnswer
  /\ request' = RequestToSend
  /\ live' = TRUE
  /\ GoesTo(IF call.phase = "sending" THEN "waiting" ELSE "observing")
  /\ UNCHANGED <<bridgeVars, cache, outcome, executed, audited>>

\* The bridge executes the request, whether or not the sidecar still waits for it.
Serve ==
  /\ request # NoRequest
  /\ ExecuteRequest(request)
  /\ request' = NoRequest
  /\ executed' = IF answer'.effect # NoEffect THEN [executed EXCEPT ![request.id] = @ + 1] ELSE executed
  /\ UNCHANGED <<cache, call, live, outcome, audited>>

\* _update_session after a result.
UpdateSession(method, session) ==
  cache' = IF session = None /\ method \notin {"process.detach", "status.get"}
           THEN cache ELSE session

\* The client of a call that took effect is told done; of one that only looked, what
\* it saw.
Told(method) == IF method \in {"process.detach", "mutate"} THEN "done" ELSE "observed"

\* Mutant: every STALE_SESSION may be retried, and so may a failure.
RetriesFailures(result) == "safe"

\* Whether an error of the bridge may be retried.
RetryAdvice(result) ==
  IF result = "failed" \/ (result = "stale" /\ call.method = "process.detach")
  THEN "unknown" ELSE "safe"

Receive ==
  /\ call.phase = "waiting" /\ live /\ answer # NoAnswer
  /\ answer' = NoAnswer
  /\ live' = FALSE
  /\ \/ /\ answer.result = "pending"
        /\ call' = [call EXCEPT !.phase = "polling", !.expired = FALSE]
        /\ UNCHANGED <<cache, outcome>>
     \/ /\ answer.result \in {"refused", "stale", "failed"}
        /\ Returns(RetryAdvice(answer.result))
        /\ UNCHANGED cache
     \/ /\ answer.result = "ok"
        /\ IF call.method = "mutate" /\ answer.session = None
           THEN Returns("unknown") /\ UNCHANGED cache    \* the output schema wants a session
           ELSE Returns(Told(call.method)) /\ UpdateSession(call.method, answer.session)
  /\ UNCHANGED <<running, opened, bridge, timers, issued, request, executed, audited>>

\* A malformed answer: BACKEND_CONTRACT_VIOLATION, and the stream is discarded.
ReceiveGarbled ==
  /\ call.phase \in {"waiting", "observing"} /\ live /\ answer # NoAnswer
  /\ live' = FALSE
  /\ IF call.phase = "waiting" THEN Returns("unknown")
     ELSE GoesTo("polling") /\ UNCHANGED outcome
  /\ UNCHANGED <<bridgeVars, cache, request, executed, audited>>

\* Mutant: a lost mutation is reported like a lost read.
FailsSafe(method) == "safe"

\* _transport_failure.
TransportFailure(method) == IF IsMutation(method) THEN "unknown" ELSE "safe"

\* Connecting, writing or reading fails or outlasts the deadline; the stream is
\* discarded with whatever it still brings.
TransportFails ==
  /\ call.phase # "idle"
  /\ call.phase = "polling" => ~call.expired
  /\ live' = FALSE
  /\ IF call.phase \in {"polling", "observing"} THEN GoesTo("polling") /\ UNCHANGED outcome
     ELSE IF IsReconciled(call.method)
          THEN call' = [call EXCEPT !.phase = "polling", !.expired = FALSE] /\ UNCHANGED outcome
          ELSE Returns(TransportFailure(call.method))
  /\ UNCHANGED <<bridgeVars, cache, request, executed, audited>>

-----------------------------------------------------------------------------
\* _reconcile_process_mutation.

\* Whether the session that status.get reports is what the call asked for.
Reconciles(session) ==
  IF call.method = "process.detach" THEN session = None
  ELSE session # None /\ session.pid = call.pid

Observe ==
  /\ call.phase = "observing" /\ live /\ answer # NoAnswer
  /\ answer' = NoAnswer
  /\ live' = FALSE
  /\ IF Reconciles(answer.session)
     THEN Returns("observed") /\ cache' = answer.session
     ELSE GoesTo("polling") /\ UNCHANGED <<outcome, cache>>
  /\ UNCHANGED <<running, opened, bridge, timers, issued, request, executed, audited>>

DeadlinePasses ==
  /\ call.phase \in {"polling", "observing"} /\ ~call.expired
  /\ call' = [call EXCEPT !.expired = TRUE]
  /\ UNCHANGED <<bridgeVars, cache, request, live, outcome, executed, audited>>

\* Mutant: the loop ends only when it has seen what it waits for.
GivesUpNever == FALSE /\ UNCHANGED vars

GivesUp ==
  /\ call.phase = "polling" /\ call.expired
  /\ Returns("unknown")
  /\ UNCHANGED <<bridgeVars, cache, request, live, executed, audited>>

-----------------------------------------------------------------------------
\* The pipe and the surroundings of the bridge.

\* The broken connection takes the request or the answer with it.
ConnectionEnds ==
  /\ ~live
  /\ \/ request # NoRequest /\ request' = NoRequest /\ UNCHANGED bridgeVars
     \/ AnswerTaken /\ UNCHANGED request
  /\ UNCHANGED <<cache, call, live, outcome, executed, audited>>

Surroundings ==
  /\ \/ Environment /\ UNCHANGED request
     \/ BridgeRestarts /\ request' = NoRequest
  /\ UNCHANGED <<cache, call, live, outcome, executed, audited>>

\* What a client may ask for; expected generations are ones it has seen.
Invocations ==
  \/ Invoke("status.get", 0, 0)
  \/ Invoke("process.get", 0, 0)
  \/ \E p \in Pids, expected \in {0} \cup {s.gen : s \in issued} :
       Invoke("process.attach", p, expected)
  \/ \E s \in issued, method \in {"process.detach", "mutate"} : Invoke(method, 0, s.gen)

ServiceStep ==
  Send \/ Receive \/ ReceiveGarbled \/ TransportFails \/ Observe \/ GivesUp

Next == Invocations \/ ServiceStep \/ DeadlinePasses \/ Serve \/ ConnectionEnds \/ Surroundings

Spec == Init /\ [][Next]_vars

\* What the sidecar's thread does without waiting for anybody: the wait for a free
\* pipe has a timeout of its own, a read ends once there is an answer, and the loop
\* tests the time.  Whether an answer comes is up to the bridge, and whether the wait
\* for it is cut short up to the pipe's timer, which may miss it (PipeTransport).
ThreadStep ==
  \/ Send \/ Receive \/ ReceiveGarbled \/ Observe \/ GivesUp
  \/ call.phase \in {"sending", "polling"} /\ TransportFails

\* The sidecar's thread runs on and time passes.  Nothing is assumed of the bridge, nor
\* that a wait for its answer ends.
FairSpec == Spec /\ WF_vars(ThreadStep) /\ WF_vars(DeadlinePasses)

-----------------------------------------------------------------------------
\* The state of the sidecar has its types.
TypeOK ==
  /\ BridgeTypeOK
  /\ cache \in issued \cup {None}
  /\ call \in Call
  /\ request \in Sent \cup {NoRequest}
  /\ live \in BOOLEAN
  /\ outcome \in [Calls -> {"none", "done", "observed", "safe", "unknown"}]
  /\ executed \in [Calls -> Nat]
  /\ audited \subseteq Calls

Outcome == INSTANCE MutationOutcome WITH Calls <- Calls

\* Each call takes effect at most once, and never after an answer that said it was
\* safe to retry, though answers are lost and requests executed late.
OutcomeIsHonest == Outcome!Spec

\* "The accepted record was durably flushed before any mutation".
EffectIsAudited == \A c \in Calls : executed[c] > 0 => c \in audited

\* The cached session is the bridge's or one that is over: a generation the sidecar
\* checks expectedGeneration against never stands for another target.
CacheIsCurrentOrOver ==
  cache # None /\ cache.gen = bridge.generation => cache = bridge.sessionId

\* A detach that was reported done or observed has ended the session it named.
DetachEndsSession ==
  call.phase = "idle" /\ call.method = "process.detach" /\ call.id \in Calls =>
    (outcome[call.id] \in {"done", "observed"} => bridge.sessionId.gen # call.expected)

\* The sidecar waits for an answer that is not there.
AwaitsAnswer == call.phase \in {"waiting", "observing"} /\ live /\ answer = NoAnswer

\* Every call is answered, through any number of polls, unless one wait for an answer
\* never ends: nothing else that the bridge, the pipe or the target does keeps the
\* loop of the reconciliation going past its deadline.
CallReturns ==
  []<>~AwaitsAnswer => (call.phase # "idle" ~> call.phase = "idle")

\* "Explicit reattach to the same CE-opened PID must still create a fresh MCP
\* session": an attach does not return with the session its client already had.
ReattachIsFresh ==
  [][call.method = "process.attach" /\ call.phase # "idle" /\ call'.phase = "idle"
       /\ outcome'[call.id] = "observed" /\ executed[call.id] = 1
       => cache' # cache]_vars
=============================================================================
