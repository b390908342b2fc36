------------------------- MODULE SidecarServiceProofs -------------------------
(***************************************************************************)
(* Proofs about SidecarService, for any number of calls: whatever the pipe *)
(* loses or delays, the service implements MutationOutcome.                *)
(***************************************************************************)
EXTENDS SidecarService, TargetSessionProofs

Pending == call.phase # "idle"

\* A pending call is recorded and unanswered; before it sends, it has done nothing.
CallInv ==
  /\ Pending => call.id \in audited /\ outcome[call.id] = "none"
  /\ call.phase = "sending" =>
       /\ executed[call.id] = 0
       /\ request.id # call.id
       /\ NeedsTarget(call.method) => cache # None
       /\ call.method = "process.attach" => call.pid \in Pids

\* Nothing is known of calls to come, and a call that changes nothing has no effect.
EffectInv ==
  /\ \A c \in Calls : c > call.id => outcome[c] = "none" /\ executed[c] = 0
  /\ call.id \in Calls /\ ~IsMutation(call.method) => executed[call.id] = 0
  /\ EffectIsAudited

\* A mutation in the pipe has not had its effect, and was not said to be safe to retry.
RequestInv ==
  request # NoRequest =>
    /\ answer = NoAnswer
    /\ request.id \in audited /\ request.id <= call.id
    /\ Asked(request)
    /\ NeedsTarget(request.method) => request.sessionId # None
    /\ IsMutation(request.method) =>
         /\ executed[request.id] = 0
         /\ outcome[request.id] \in {"none", "unknown"}
         /\ request.id = call.id => request.method = call.method

\* What the sidecar waits for tells whether its call has had its effect.
AnswerInv ==
  /\ answer.session \in issued \cup {None}
  /\ call.phase = "waiting" /\ live =>
       /\ request # NoRequest => request.id = call.id /\ request.method = call.method
       /\ answer.result \in {"refused", "stale"} => executed[call.id] = 0
       /\ answer.result = "ok" /\ call.method \in {"process.detach", "mutate"} =>
            executed[call.id] = 1

ServiceInv == BridgeInv /\ TypeOK /\ CallInv /\ EffectInv /\ RequestInv /\ AnswerInv

\* A step of the service is a step of what it promises, or none.
Honest == [Outcome!Next]_<<outcome, executed>>

-----------------------------------------------------------------------------
LEMMA CallsAreNumbers == Calls \subseteq Nat /\ \A c \in 0 .. MaxCalls : c # 0 => c \in Calls
BY MaxCallsAssumption DEF Calls

LEMMA InitServiceInv == Init => ServiceInv
<1> SUFFICES ASSUME Init PROVE ServiceInv  OBVIOUS
<1>1. BridgeInv  BY InitBridgeInv DEF Init
<1>2. TypeOK
  <2>1. 0 \in 0 .. MaxCalls  BY MaxCallsAssumption
  <2>2. call \in Call  BY <2>1 DEF Init, Call, Methods, Phases
  <2> QED  BY <1>1, <2>2 DEF Init, TypeOK, BridgeInv, SessionInv
<1>3. CallInv /\ EffectInv /\ RequestInv
  BY CallsAreNumbers DEF Init, CallInv, EffectInv, RequestInv, Pending, EffectIsAudited, Calls
<1>4. AnswerInv
  BY DEF Init, BridgeInit, AnswerInv, NoAnswer
<1> QED  BY <1>1, <1>2, <1>3, <1>4 DEF ServiceInv

\* What an answer of the bridge tells.
LEMMA AnswerTells ==
  ASSUME NEW r, ExecuteRequest(r)
  PROVE  /\ answer'.result \in {"refused", "stale"} => answer'.effect = NoEffect
         /\ ~IsMutation(r.method) => answer'.effect = NoEffect
         /\ answer'.result = "ok" /\ r.method \in {"process.detach", "mutate"}
              /\ r.sessionId # None => answer'.effect # NoEffect
         /\ answer'.session \in {bridge'.sessionId, None}
         /\ answer'.session # None => ~bridge'.detached
<1>1. CASE StatusGet(r)
  BY <1>1 DEF StatusGet, Answers, BecomesBridge, SessionOf, IsMutation
<1>2. CASE ProcessAttach(r)
  BY <1>2 DEF ProcessAttach, Answers, IsMutation
<1>3. ASSUME NEW b, StaleSession(r, b) PROVE answer'.effect = NoEffect /\ answer'.session = None /\ answer'.result = "stale"
  BY <1>3 DEF StaleSession, Answers
<1>4. ASSUME NEW b, NEW after, NoTarget(r, after) \/ ProcessGet(r, b, after)
      PROVE  /\ answer'.effect = NoEffect /\ answer'.session \in {bridge'.sessionId, None}
             /\ answer'.session # None => ~bridge'.detached
             /\ answer'.result = "ok" => r.method = "process.get"
  BY <1>4 DEF NoTarget, ProcessGet, Answers, BecomesBridge, SessionOf
<1>5. ASSUME NEW after, ProcessDetach(r, after) \/ Mutate(r, after)
      PROVE  /\ answer'.result \in {"refused", "stale"} => answer'.effect = NoEffect
             /\ answer'.result = "ok" => answer'.effect.session = r.sessionId
             /\ answer'.session \in {bridge'.sessionId, None}
             /\ answer'.session # None => ~bridge'.detached
             /\ IsMutation(r.method)
  BY <1>5 DEF ProcessDetach, Mutate, Answers, BecomesBridge, SessionOf, IsMutation
<1>6. CASE /\ r.method \in TargetMethods
           /\ \E seen \in Observations(opened) :
                LET b == Refreshed(bridge, seen) IN StaleSession(r, b) \/ TargetMethod(r, b)
  <2>1. PICK b : StaleSession(r, b) \/ TargetMethod(r, b)
    BY <1>6
  <2>2. CASE TargetMethod(r, b)
    <3>1. PICK after : NoTarget(r, after) \/ ProcessGet(r, b, after) \/ ProcessDetach(r, after)
                         \/ Mutate(r, after)
      BY <2>2 DEF TargetMethod
    <3>2. NoEffect.session = None  BY DEF NoEffect
    <3> QED  BY <3>1, <3>2, <1>4, <1>5
  <2> QED  BY <2>1, <2>2, <1>3
<1> QED  BY <1>1, <1>2, <1>6 DEF ExecuteRequest

-----------------------------------------------------------------------------
\* The bridge's variables stand still.
LEMMA BridgeStands ==
  ASSUME BridgeInv, UNCHANGED bridgeVars
  PROVE  BridgeInv'
BY BridgeStep

\* A pending call is answered.
LEMMA CallReturned ==
  ASSUME ServiceInv, Pending, NEW told \in {"done", "observed", "safe", "unknown"},
         Returns(told), executed' = executed, request' = request, audited' = audited,
         told = "done" => executed[call.id] = 1,
         told = "safe" => executed[call.id] = 0,
         request # NoRequest /\ request.id = call.id /\ IsMutation(request.method)
           => told = "unknown",
         answer' \in {answer, NoAnswer}
  PROVE  /\ Honest
         /\ call' \in Call /\ outcome' \in [Calls -> {"none", "done", "observed", "safe", "unknown"}]
         /\ CallInv' /\ EffectInv' /\ RequestInv'
         /\ call'.phase = "idle" /\ call'.id = call.id
<1>1. /\ call \in Call /\ call.id \in Calls
      /\ outcome \in [Calls -> {"none", "done", "observed", "safe", "unknown"}]
      /\ executed \in [Calls -> Nat] /\ audited \subseteq Calls
      /\ outcome[call.id] = "none"
  BY DEF ServiceInv, TypeOK, CallInv
<1>2. /\ call' = [call EXCEPT !.phase = "idle", !.expired = FALSE]
      /\ outcome' = [outcome EXCEPT ![call.id] = told]
  BY DEF Returns
<1>3. /\ call' \in Call /\ call'.phase = "idle" /\ call'.id = call.id
      /\ call'.method = call.method
  BY <1>1, <1>2 DEF Call, Phases
<1>4. outcome' \in [Calls -> {"none", "done", "observed", "safe", "unknown"}]
  BY <1>1, <1>2
<1>5. Outcome!Answered(call.id, told)
  BY <1>1, <1>2 DEF Outcome!Answered
<1>6. Honest
  BY <1>1, <1>5 DEF Honest, Outcome!Next, Outcome!Outcomes
<1>7. CallInv'
  BY <1>3 DEF CallInv, Pending
<1>8. \A c \in Calls : c # call.id => outcome'[c] = outcome[c]
  BY <1>1, <1>2
<1>9. EffectInv'
  BY <1>1, <1>3, <1>8, CallsAreNumbers DEF ServiceInv, EffectInv, EffectIsAudited
<1>10. RequestInv'
  <2> SUFFICES ASSUME request # NoRequest PROVE RequestInv'
    BY DEF RequestInv
  <2>1. /\ answer' = NoAnswer /\ request.id \in audited' /\ request.id \in Calls
        /\ request.id <= call.id /\ Asked(request)
        /\ NeedsTarget(request.method) => request.sessionId # None
    BY <1>1 DEF ServiceInv, RequestInv
  <2>2. ASSUME IsMutation(request.method)
        PROVE  /\ executed[request.id] = 0
               /\ outcome'[request.id] \in {"none", "unknown"}
               /\ request.id = call.id => request.method = call.method
    BY <1>1, <1>2, <1>8, <2>1, <2>2 DEF ServiceInv, RequestInv
  <2> QED  BY <1>3, <2>1, <2>2 DEF RequestInv
<1> QED  BY <1>3, <1>4, <1>6, <1>7, <1>9, <1>10

\* A call whose phase changes without an answer.
LEMMA CallGoesOn ==
  ASSUME ServiceInv, Pending,
         NEW phase \in {"waiting", "polling", "observing"}, NEW expired \in BOOLEAN,
         call' = [call EXCEPT !.phase = phase, !.expired = expired],
         UNCHANGED <<outcome, executed, audited>>
  PROVE  /\ Honest
         /\ call' \in Call /\ CallInv' /\ EffectInv'
         /\ call'.phase = phase /\ call'.id = call.id /\ call'.method = call.method
<1>1. /\ call' \in Call /\ call'.phase = phase /\ call'.id = call.id
      /\ call'.method = call.method
  BY DEF ServiceInv, TypeOK, Call, Phases
<1>2. CallInv'
  BY <1>1 DEF ServiceInv, CallInv, Pending
<1>3. EffectInv'
  BY <1>1 DEF ServiceInv, EffectInv, EffectIsAudited
<1> QED  BY <1>1, <1>2, <1>3 DEF Honest

-----------------------------------------------------------------------------
LEMMA InvokeStep ==
  ASSUME ServiceInv, NEW method \in Methods, NEW p \in Pids \cup {0}, NEW expected \in Nat,
         method = "process.attach" => p \in Pids,
         Invoke(method, p, expected)
  PROVE  ServiceInv' /\ Honest
<1> DEFINE id == call.id + 1
<1>1. /\ id \in Calls /\ id # call.id /\ id > call.id /\ id \in 0 .. MaxCalls
      /\ call.id \in Nat
  BY MaxCallsAssumption DEF Invoke, Calls, ServiceInv, TypeOK, Call
<1>2. outcome[id] = "none" /\ executed[id] = 0
  BY <1>1 DEF ServiceInv, EffectInv
<1>3. /\ outcome \in [Calls -> {"none", "done", "observed", "safe", "unknown"}]
      /\ audited \subseteq Calls /\ executed \in [Calls -> Nat]
  BY DEF ServiceInv, TypeOK
<1>4. /\ call'.id = id /\ call'.method = method /\ call'.pid = p
      /\ call'.phase \in {"idle", "sending"} /\ call' \in Call
  <2> DEFINE new == [id |-> id, method |-> method, pid |-> p, expected |-> expected,
                     phase |-> "sending", expired |-> FALSE]
  <2>1. call' \in {new, [new EXCEPT !.phase = "idle"]}  BY DEF Invoke
  <2>2. new \in Call  BY <1>1 DEF Call, Phases
  <2>3. CASE call' = new  BY <2>2, <2>3
  <2>4. CASE call' = [new EXCEPT !.phase = "idle"]  BY <2>2, <2>4 DEF Call, Phases
  <2> QED  BY <2>1, <2>3, <2>4
<1>5. UNCHANGED <<bridgeVars, cache, request, live, executed>>
  BY DEF Invoke
<1>6. \/ /\ call'.phase = "sending" /\ audited' = audited \cup {id} /\ outcome' = outcome
         /\ Preflight(method, expected) = "none"
      \/ /\ call'.phase = "idle" /\ audited' \in {audited, audited \cup {id}}
         /\ \E told \in {"safe", "unknown"} : outcome' = [outcome EXCEPT ![id] = told]
  BY DEF Invoke, Accepted, Preflight
<1> HIDE DEF id
<1>7. BridgeInv'  BY <1>5, BridgeStands DEF ServiceInv
<1>8. /\ outcome' \in [Calls -> {"none", "done", "observed", "safe", "unknown"}]
      /\ audited' \subseteq Calls /\ audited \subseteq audited'
      /\ \A c \in Calls : c # id => outcome'[c] = outcome[c]
  BY <1>1, <1>3, <1>6
<1>9. TypeOK'
  BY <1>4, <1>5, <1>7, <1>8 DEF ServiceInv, TypeOK, BridgeInv, SessionInv, bridgeVars
<1>10. request # NoRequest => request.id # id /\ request.id \in Calls
  <2>1. call.id \in Nat /\ \A c \in Calls : c <= call.id => c < id
    BY <1>1, CallsAreNumbers DEF id
  <2>2. request # NoRequest => request.id \in Calls /\ request.id <= call.id
    BY <1>3 DEF ServiceInv, RequestInv
  <2> QED  BY <1>1, <2>1, <2>2, CallsAreNumbers
<1>11. NoRequest.id # id  BY <1>1 DEF NoRequest, Calls
<1>12. CallInv'
  <2>1. CASE call'.phase = "sending"
    <3>1. audited' = audited \cup {id} /\ outcome' = outcome /\ Preflight(method, expected) = "none"
      BY <1>6, <2>1
    <3>2. NeedsTarget(method) => cache # None
      BY <3>1 DEF Preflight
    <3> QED  BY <1>2, <1>4, <1>5, <1>10, <1>11, <3>1, <3>2 DEF CallInv, Pending
  <2>2. CASE call'.phase = "idle"
    BY <2>2 DEF CallInv, Pending
  <2> QED  BY <1>4, <2>1, <2>2
<1>13. EffectInv'
  <2>1. \A c \in Calls : c > id => c > call.id /\ c # id
    BY <1>1, CallsAreNumbers
  <2> QED  BY <1>1, <1>2, <1>4, <1>5, <1>8, <2>1 DEF ServiceInv, EffectInv, EffectIsAudited
<1>14. RequestInv'
  <2> SUFFICES ASSUME request # NoRequest PROVE RequestInv'
    BY <1>5 DEF RequestInv
  <2>1. /\ answer' = NoAnswer /\ request.id \in audited' /\ Asked(request)
        /\ request.id <= call.id /\ outcome'[request.id] = outcome[request.id]
        /\ NeedsTarget(request.method) => request.sessionId # None
    BY <1>5, <1>8, <1>10 DEF ServiceInv, RequestInv, bridgeVars
  <2>2. request.id <= call'.id
    <3>1. request.id \in Nat  BY <1>10, CallsAreNumbers
    <3> QED  BY <1>1, <1>4, <2>1, <3>1 DEF id
  <2>3. IsMutation(request.method) =>
          executed[request.id] = 0 /\ outcome'[request.id] \in {"none", "unknown"}
    BY <2>1 DEF ServiceInv, RequestInv
  <2> QED  BY <1>4, <1>5, <1>10, <2>1, <2>2, <2>3 DEF RequestInv
<1>15. AnswerInv'
  BY <1>4, <1>5 DEF ServiceInv, AnswerInv, bridgeVars
<1>16. Honest
  <2>1. CASE outcome' = outcome
    BY <1>5, <2>1 DEF Honest
  <2>2. ASSUME NEW told \in {"safe", "unknown"}, outcome' = [outcome EXCEPT ![id] = told]
        PROVE  Honest
    <3>1. Outcome!Answered(id, told)
      BY <1>2, <1>5, <2>2 DEF Outcome!Answered
    <3> QED  BY <1>1, <3>1 DEF Honest, Outcome!Next, Outcome!Outcomes
  <2> QED  BY <1>6, <2>1, <2>2
<1> QED  BY <1>7, <1>9, <1>12, <1>13, <1>14, <1>15, <1>16 DEF ServiceInv

-----------------------------------------------------------------------------
\* A request that stays in the pipe, or is lost with it.
LEMMA RequestStays ==
  ASSUME RequestInv, request' \in {request, NoRequest}, answer' \in {answer, NoAnswer},
         UNCHANGED <<outcome, executed, audited>>,
         call'.id = call.id, call'.method = call.method
  PROVE  RequestInv'
<1> SUFFICES ASSUME request' # NoRequest PROVE RequestInv'
  BY DEF RequestInv
<1>1. request' = request  OBVIOUS
<1> QED  BY <1>1 DEF RequestInv

\* What has no answer to come from the pipe tells nothing.
LEMMA NothingToTell ==
  ASSUME AnswerInv, answer' \in {answer, NoAnswer}, issued \subseteq issued',
         live' = FALSE \/ call'.phase # "waiting"
  PROVE  AnswerInv'
BY DEF AnswerInv, NoAnswer

\* The surroundings, or the pipe, act and the sidecar does not.
LEMMA SidecarStands ==
  ASSUME ServiceInv, BridgeInv', issued \subseteq issued',
         request' \in {request, NoRequest}, answer' \in {answer, NoAnswer},
         UNCHANGED <<cache, call, live, outcome, executed, audited>>
  PROVE  ServiceInv' /\ Honest
<1>1. TypeOK'
  BY DEF ServiceInv, TypeOK, BridgeInv, SessionInv
<1>2. CallInv'
  <2>1. Pending => call.id \in Calls  BY DEF ServiceInv, TypeOK, CallInv
  <2>2. Pending => NoRequest.id # call.id  BY <2>1 DEF NoRequest, Calls
  <2> QED  BY <2>2 DEF ServiceInv, CallInv, Pending
<1>3. EffectInv'
  BY DEF ServiceInv, EffectInv, EffectIsAudited
<1>4. RequestInv'
  BY RequestStays DEF ServiceInv
<1>5. AnswerInv'
  BY DEF ServiceInv, AnswerInv, NoAnswer
<1> QED  BY <1>1, <1>2, <1>3, <1>4, <1>5 DEF ServiceInv, Honest

\* GoesTo leaves the deadline as it was.
LEMMA GoingTo ==
  ASSUME call \in Call, NEW phase, GoesTo(phase)
  PROVE  call.expired \in BOOLEAN
         /\ call' = [call EXCEPT !.phase = phase, !.expired = call.expired]
BY DEF Call, GoesTo

LEMMA SendStep ==
  ASSUME ServiceInv, Send
  PROVE  ServiceInv' /\ Honest
<1>1. PICK phase \in {"waiting", "observing"} :
        /\ GoesTo(phase)
        /\ phase = (IF call.phase = "sending" THEN "waiting" ELSE "observing")
  BY DEF Send
<1>2. /\ call \in Call /\ Pending /\ call.id \in Calls /\ cache \in Session \cup {None}
      /\ call.id \in audited /\ outcome[call.id] = "none" /\ call.phase \in {"sending", "polling"}
      /\ call.method \in Methods /\ call.pid \in Pids \cup {0} /\ call.expected \in Nat
  BY DEF ServiceInv, TypeOK, CallInv, Send, Pending, Call, BridgeInv, SessionInv, BridgeTypeOK
<1>3. UNCHANGED <<bridgeVars, cache, outcome, executed, audited>>
  BY DEF Send
<1>4. /\ Honest /\ call' \in Call /\ CallInv' /\ EffectInv'
      /\ call'.phase = phase /\ call'.id = call.id /\ call'.method = call.method
  BY <1>1, <1>2, <1>3, GoingTo, CallGoesOn
<1>5. BridgeInv'  BY <1>3, BridgeStands DEF ServiceInv
<1>6. answer' = NoAnswer /\ request' = RequestToSend /\ live' = TRUE
  BY DEF Send, bridgeVars
<1>9. call.id \in Nat  BY <1>2, CallsAreNumbers
<1>7. CASE call.phase = "sending"
  <2>1. request' = [method |-> call.method, sessionId |-> cache, expected |-> call.expected,
                    pid |-> call.pid, id |-> call.id]
    BY <1>6, <1>7 DEF RequestToSend
  <2>2. request' \in Sent
    BY <1>2, <2>1 DEF Sent
  <2>3. /\ executed[call.id] = 0
        /\ NeedsTarget(call.method) => cache # None
        /\ call.method = "process.attach" => call.pid \in Pids
    BY <1>7 DEF ServiceInv, CallInv
  <2>4. RequestInv'
    <3>1. call.id <= call.id  BY <1>9
    <3>2. Asked(request')  BY <1>2, <2>1, <2>3 DEF Asked
    <3> QED  BY <1>2, <1>3, <1>4, <1>6, <2>1, <2>3, <3>1, <3>2 DEF RequestInv
  <2>5. AnswerInv'
    BY <1>3, <1>4, <1>6, <2>1 DEF ServiceInv, AnswerInv, NoAnswer
  <2>6. TypeOK'
    BY <1>3, <1>4, <1>5, <1>6, <2>2
       DEF ServiceInv, TypeOK, BridgeInv, SessionInv, bridgeVars
  <2> QED  BY <1>4, <1>5, <2>4, <2>5, <2>6 DEF ServiceInv
<1>8. CASE call.phase # "sending"
  <2>1. request' = [method |-> "status.get", sessionId |-> None, expected |-> 0, pid |-> 0,
                    id |-> call.id]
    BY <1>6, <1>8 DEF RequestToSend
  <2>2. request' \in Sent
    BY <1>2, <2>1 DEF Sent, Methods
  <2>3. ~NeedsTarget("status.get") /\ ~IsMutation("status.get")
    BY DEF NeedsTarget, IsMutation, TargetMethods
  <2>4. RequestInv'
    <3>1. call.id <= call.id  BY <1>9
    <3> QED  BY <1>2, <1>3, <1>4, <1>6, <2>1, <2>3, <3>1 DEF RequestInv, Asked
  <2>5. AnswerInv'
    BY <1>1, <1>3, <1>4, <1>6, <1>8 DEF ServiceInv, AnswerInv, NoAnswer
  <2>6. TypeOK'
    BY <1>3, <1>4, <1>5, <1>6, <2>2
       DEF ServiceInv, TypeOK, BridgeInv, SessionInv, bridgeVars
  <2> QED  BY <1>4, <1>5, <2>4, <2>5, <2>6 DEF ServiceInv
<1> QED  BY <1>7, <1>8

\* No request and nothing around the bridge takes back a session id.
LEMMA IssuedGrows ==
  ASSUME (\E r : ExecuteRequest(r)) \/ Environment \/ BridgeRestarts \/ AnswerTaken
  PROVE  issued \subseteq issued'
<1>1. ASSUME NEW b, BecomesBridge(b) PROVE issued \subseteq issued'
  BY <1>1 DEF BecomesBridge
<1>2. ASSUME NEW r, ExecuteRequest(r) PROVE issued \subseteq issued'
  <2>1. CASE StatusGet(r)  BY <1>1, <2>1 DEF StatusGet
  <2>2. CASE ProcessAttach(r)  BY <2>2 DEF ProcessAttach
  <2>3. ASSUME NEW b, StaleSession(r, b) PROVE issued \subseteq issued'
    BY <1>1, <2>3 DEF StaleSession
  <2>4. ASSUME NEW b, TargetMethod(r, b) PROVE issued \subseteq issued'
    BY <1>1, <2>4 DEF TargetMethod, NoTarget, ProcessGet, ProcessDetach, Mutate
  <2> QED  BY <1>2, <2>1, <2>2, <2>3, <2>4 DEF ExecuteRequest
<1>3. CASE Environment
  BY <1>1, <1>3 DEF Environment, AttachTimerFires, UserOpens, ProcessExits, ProcessStarts
<1>4. CASE BridgeRestarts  BY <1>1, <1>4 DEF BridgeRestarts
<1>5. CASE AnswerTaken  BY <1>5 DEF AnswerTaken
<1> QED  BY <1>2, <1>3, <1>4, <1>5

LEMMA ServeStep ==
  ASSUME ServiceInv, Serve
  PROVE  ServiceInv' /\ Honest
<1>1. /\ request # NoRequest /\ ExecuteRequest(request) /\ request' = NoRequest
      /\ UNCHANGED <<cache, call, live, outcome, audited>>
  BY DEF Serve
<1>2. /\ request.id \in audited /\ request.id \in Calls /\ request.id <= call.id
      /\ Asked(request) /\ audited \subseteq Calls
      /\ NeedsTarget(request.method) => request.sessionId # None
      /\ executed \in [Calls -> Nat] /\ call \in Call
  BY <1>1 DEF ServiceInv, RequestInv, TypeOK
<1>3. IsMutation(request.method) =>
        /\ executed[request.id] = 0 /\ outcome[request.id] \in {"none", "unknown"}
        /\ request.id = call.id => request.method = call.method
  BY <1>1 DEF ServiceInv, RequestInv
<1>4. BridgeInv'  BY <1>1, <1>2, ExecuteRequestStep DEF ServiceInv
<1>5. issued \subseteq issued'  BY <1>1, IssuedGrows
<1>6. answer'.session \in issued' \cup {None}
  BY <1>1, <1>4, AnswerTells DEF BridgeInv, SessionInv, IssuedInv
<1>7. \/ executed' = executed /\ answer'.effect = NoEffect
      \/ /\ executed' = [executed EXCEPT ![request.id] = 1] /\ answer'.effect # NoEffect
         /\ IsMutation(request.method)
  <2>1. CASE answer'.effect = NoEffect  BY <2>1 DEF Serve
  <2>2. CASE answer'.effect # NoEffect
    <3>1. IsMutation(request.method)  BY <1>1, <2>2, AnswerTells
    <3>2. executed[request.id] + 1 = 1  BY <1>3, <3>1
    <3>3. executed' = [executed EXCEPT ![request.id] = executed[request.id] + 1]
      BY <2>2 DEF Serve
    <3> QED  BY <2>2, <3>1, <3>2, <3>3
  <2> QED  BY <2>1, <2>2
<1>8. /\ executed' \in [Calls -> Nat]
      /\ \A c \in Calls : c # request.id => executed'[c] = executed[c]
  BY <1>2, <1>7
<1>9. TypeOK'
  BY <1>1, <1>4, <1>5, <1>8 DEF ServiceInv, TypeOK, BridgeInv, SessionInv
<1>10. CallInv'
  <2>1. Pending => call.id \in Calls  BY DEF ServiceInv, TypeOK, CallInv
  <2>2. Pending => NoRequest.id # call.id  BY <2>1 DEF NoRequest, Calls
  <2>3. call.phase = "sending" => Pending  BY DEF Pending
  <2> QED  BY <1>1, <1>8, <2>1, <2>2, <2>3 DEF ServiceInv, CallInv, Pending
<1>11. EffectInv'
  <2>1. \A c \in Calls : c > call.id => c # request.id
    <3>1. call.id \in Nat  BY <1>2, MaxCallsAssumption DEF Call
    <3> QED  BY <1>2, <3>1, CallsAreNumbers
  <2>2. call.id \in Calls /\ ~IsMutation(call.method) => executed'[call.id] = 0
    <3>1. call.id \in Calls /\ ~IsMutation(call.method) => executed[call.id] = 0
      BY DEF ServiceInv, EffectInv
    <3> QED  BY <1>2, <1>3, <1>7, <1>8, <3>1
  <2>3. EffectIsAudited'
    BY <1>1, <1>2, <1>8 DEF ServiceInv, EffectInv, EffectIsAudited
  <2> QED  BY <1>1, <1>8, <2>1, <2>2, <2>3 DEF ServiceInv, EffectInv
<1>12. RequestInv'  BY <1>1 DEF RequestInv
<1>13. AnswerInv'
  <2> SUFFICES ASSUME call.phase = "waiting", live
               PROVE  /\ answer'.result \in {"refused", "stale"} => executed'[call.id] = 0
                      /\ answer'.result = "ok" /\ call.method \in {"process.detach", "mutate"} =>
                           executed'[call.id] = 1
    BY <1>1, <1>6 DEF AnswerInv
  <2>1. request.id = call.id /\ request.method = call.method
    BY <1>1 DEF ServiceInv, AnswerInv
  <2>2. answer'.result \in {"refused", "stale"} => executed'[call.id] = 0
    <3> SUFFICES ASSUME answer'.result \in {"refused", "stale"} PROVE executed'[call.id] = 0
      OBVIOUS
    <3>1. executed' = executed  BY <1>1, <1>7, AnswerTells
    <3>2. ~IsMutation(call.method) => executed[call.id] = 0
      BY <1>2, <2>1 DEF ServiceInv, EffectInv
    <3> QED  BY <1>3, <2>1, <3>1, <3>2
  <2>3. ASSUME answer'.result = "ok", call.method \in {"process.detach", "mutate"}
        PROVE  executed'[call.id] = 1
    <3>1. request.sessionId # None
      BY <1>2, <2>1, <2>3 DEF NeedsTarget, TargetMethods
    <3>2. answer'.effect # NoEffect  BY <1>1, <2>1, <2>3, <3>1, AnswerTells
    <3> QED  BY <1>2, <1>7, <2>1, <3>2
  <2> QED  BY <2>2, <2>3
<1>14. Honest
  <2>1. CASE executed' = executed  BY <1>1, <2>1 DEF Honest
  <2>2. CASE executed' = [executed EXCEPT ![request.id] = 1] /\ IsMutation(request.method)
    <3>1. Outcome!TakesEffect(request.id)
      BY <1>1, <1>3, <2>2 DEF Outcome!TakesEffect
    <3> QED  BY <1>2, <3>1 DEF Honest, Outcome!Next
  <2> QED  BY <1>7, <2>1, <2>2
<1> QED  BY <1>4, <1>9, <1>10, <1>11, <1>12, <1>13, <1>14 DEF ServiceInv

-----------------------------------------------------------------------------
\* An answer is read from the pipe: there is no request in it.
LEMMA AnswerRead ==
  ASSUME ServiceInv, answer # NoAnswer, answer' = NoAnswer,
         UNCHANGED <<running, opened, bridge, timers, issued, request>>
  PROVE  BridgeInv' /\ request = NoRequest /\ RequestInv' /\ issued' = issued
<1>1. AnswerTaken  BY DEF AnswerTaken
<1>2. request = NoRequest  BY DEF ServiceInv, RequestInv
<1> QED  BY <1>1, <1>2, EnvironmentStep DEF ServiceInv, RequestInv

LEMMA ReceiveStep ==
  ASSUME ServiceInv, Receive
  PROVE  ServiceInv' /\ Honest
<1>1. /\ call.phase = "waiting" /\ live /\ answer # NoAnswer /\ answer' = NoAnswer
      /\ live' = FALSE /\ Pending
      /\ UNCHANGED <<running, opened, bridge, timers, issued, request, executed, audited>>
  BY DEF Receive, Pending
<1>2. BridgeInv' /\ request = NoRequest /\ RequestInv' /\ issued' = issued
  BY <1>1, AnswerRead
<1>3. AnswerInv'
  BY <1>1, <1>2, NothingToTell DEF ServiceInv
<1>4. cache' \in issued \cup {None}
  BY DEF Receive, UpdateSession, ServiceInv, TypeOK, AnswerInv
<1>5. SUFFICES /\ call' \in Call /\ CallInv' /\ EffectInv' /\ Honest
               /\ outcome' \in [Calls -> {"none", "done", "observed", "safe", "unknown"}]
  BY <1>1, <1>2, <1>3, <1>4 DEF ServiceInv, TypeOK, BridgeInv, SessionInv
<1>6. CASE call' = [call EXCEPT !.phase = "polling", !.expired = FALSE] /\ outcome' = outcome
  BY <1>1, <1>6, CallGoesOn DEF ServiceInv, TypeOK
<1>7. ASSUME NEW told \in {"done", "observed", "safe", "unknown"}, Returns(told),
             told = "done" => executed[call.id] = 1, told = "safe" => executed[call.id] = 0
      PROVE  /\ call' \in Call /\ CallInv' /\ EffectInv' /\ Honest
             /\ outcome' \in [Calls -> {"none", "done", "observed", "safe", "unknown"}]
  BY <1>1, <1>2, <1>7, CallReturned
<1>8. CASE answer.result \in {"refused", "stale", "failed"} /\ Returns(RetryAdvice(answer.result))
  <2>1. RetryAdvice(answer.result) = "safe" => answer.result \in {"refused", "stale"}
    BY <1>8 DEF RetryAdvice
  <2>2. RetryAdvice(answer.result) = "safe" => executed[call.id] = 0
    BY <1>1, <2>1 DEF ServiceInv, AnswerInv
  <2>3. RetryAdvice(answer.result) \in {"safe", "unknown"}
    BY DEF RetryAdvice
  <2> QED  BY <1>7, <1>8, <2>2, <2>3
<1>9. CASE Returns("unknown")
  BY <1>7, <1>9
<1>10. CASE answer.result = "ok" /\ Returns(Told(call.method))
  <2>1. Told(call.method) = "done" => executed[call.id] = 1
    BY <1>1, <1>10 DEF Told, ServiceInv, AnswerInv
  <2>2. Told(call.method) \in {"done", "observed"}
    BY DEF Told
  <2> QED  BY <1>7, <1>10, <2>1, <2>2
<1> QED  BY <1>6, <1>8, <1>9, <1>10 DEF Receive

LEMMA ObserveStep ==
  ASSUME ServiceInv, Observe
  PROVE  ServiceInv' /\ Honest
<1>1. /\ call.phase = "observing" /\ answer # NoAnswer /\ answer' = NoAnswer
      /\ live' = FALSE /\ Pending
      /\ UNCHANGED <<running, opened, bridge, timers, issued, request, executed, audited>>
  BY DEF Observe, Pending
<1>2. BridgeInv' /\ request = NoRequest /\ RequestInv' /\ issued' = issued
  BY <1>1, AnswerRead
<1>3. AnswerInv'
  BY <1>1, <1>2, NothingToTell DEF ServiceInv
<1>4. cache' \in issued \cup {None}
  BY DEF Observe, ServiceInv, TypeOK, AnswerInv
<1>5. SUFFICES /\ call' \in Call /\ CallInv' /\ EffectInv' /\ Honest
               /\ outcome' \in [Calls -> {"none", "done", "observed", "safe", "unknown"}]
  BY <1>1, <1>2, <1>3, <1>4 DEF ServiceInv, TypeOK, BridgeInv, SessionInv
<1>6. CASE Returns("observed")
  BY <1>1, <1>2, <1>6, CallReturned
<1>7. CASE GoesTo("polling") /\ outcome' = outcome
  BY <1>1, <1>7, GoingTo, CallGoesOn DEF ServiceInv, TypeOK
<1> QED  BY <1>6, <1>7 DEF Observe

\* The sidecar moves on, and what is in the pipe stays there.
LEMMA LeavingThePipe ==
  ASSUME ServiceInv, UNCHANGED <<bridgeVars, cache, request, executed, audited>>,
         live' = FALSE \/ (live' = live /\ call'.phase # "waiting"),
         call' \in Call, outcome' \in [Calls -> {"none", "done", "observed", "safe", "unknown"}],
         CallInv', EffectInv', RequestInv', Honest
  PROVE  ServiceInv' /\ Honest
<1>1. BridgeInv'  BY BridgeStands DEF ServiceInv
<1>2. AnswerInv'  BY NothingToTell DEF ServiceInv, bridgeVars
<1> QED  BY <1>1, <1>2 DEF ServiceInv, TypeOK, BridgeInv, SessionInv, bridgeVars

\* It moves on with an answer to the client,
LEMMA AnsweringTheClient ==
  ASSUME ServiceInv, Pending, NEW told \in {"safe", "unknown"}, Returns(told),
         UNCHANGED <<bridgeVars, cache, request, executed, audited>>,
         live' \in {live, FALSE},
         told = "safe" => ~IsMutation(call.method)
  PROVE  ServiceInv' /\ Honest
<1>1. told = "safe" => executed[call.id] = 0
  BY DEF ServiceInv, EffectInv, CallInv, TypeOK
<1>2. ASSUME request # NoRequest, request.id = call.id, IsMutation(request.method)
      PROVE  told = "unknown"
  BY <1>2 DEF ServiceInv, RequestInv
<1>3. /\ Honest /\ call' \in Call
      /\ outcome' \in [Calls -> {"none", "done", "observed", "safe", "unknown"}]
      /\ CallInv' /\ EffectInv' /\ RequestInv' /\ call'.phase = "idle"
  BY <1>1, <1>2, CallReturned DEF bridgeVars
<1>4. live' = FALSE \/ (live' = live /\ call'.phase # "waiting")
  BY <1>3
<1> QED  BY <1>3, <1>4, LeavingThePipe

\* or without.
LEMMA WaitingOn ==
  ASSUME ServiceInv, Pending, NEW phase \in {"polling", "observing"}, NEW expired \in BOOLEAN,
         call' = [call EXCEPT !.phase = phase, !.expired = expired],
         UNCHANGED <<bridgeVars, cache, request, outcome, executed, audited>>,
         live' \in {live, FALSE}
  PROVE  ServiceInv' /\ Honest
<1>1. /\ Honest /\ call' \in Call /\ CallInv' /\ EffectInv'
      /\ call'.phase = phase /\ call'.id = call.id /\ call'.method = call.method
  BY CallGoesOn
<1>2. RequestInv'  BY <1>1, RequestStays DEF ServiceInv, bridgeVars
<1>3. outcome' \in [Calls -> {"none", "done", "observed", "safe", "unknown"}]
  BY DEF ServiceInv, TypeOK
<1>4. live' = FALSE \/ (live' = live /\ call'.phase # "waiting")
  BY <1>1
<1> QED  BY <1>1, <1>2, <1>3, <1>4, LeavingThePipe

LEMMA FailureStep ==
  ASSUME ServiceInv, ReceiveGarbled \/ TransportFails
  PROVE  ServiceInv' /\ Honest
<1>1. /\ Pending /\ live' = FALSE
      /\ UNCHANGED <<bridgeVars, cache, request, executed, audited>>
  BY DEF ReceiveGarbled, TransportFails, Pending
<1>2. CASE Returns("unknown")
  BY <1>1, <1>2, AnsweringTheClient
<1>3. CASE GoesTo("polling") /\ outcome' = outcome
  BY <1>1, <1>3, GoingTo, WaitingOn DEF ServiceInv, TypeOK
<1>4. CASE call' = [call EXCEPT !.phase = "polling", !.expired = FALSE] /\ outcome' = outcome
  BY <1>1, <1>4, WaitingOn
<1>5. CASE Returns(TransportFailure(call.method))
  BY <1>1, <1>5, AnsweringTheClient DEF TransportFailure
<1> QED  BY <1>2, <1>3, <1>4, <1>5 DEF ReceiveGarbled, TransportFails

LEMMA TimeStep ==
  ASSUME ServiceInv, DeadlinePasses \/ GivesUp
  PROVE  ServiceInv' /\ Honest
<1>1. CASE DeadlinePasses
  <2>1. /\ Pending /\ call.phase \in {"polling", "observing"}
        /\ UNCHANGED <<bridgeVars, cache, request, live, outcome, executed, audited>>
    BY <1>1 DEF DeadlinePasses, Pending
  <2>2. call' = [call EXCEPT !.phase = call.phase, !.expired = TRUE]
    BY <1>1 DEF DeadlinePasses, ServiceInv, TypeOK, Call
  <2> QED  BY <2>1, <2>2, WaitingOn
<1>2. CASE GivesUp
  BY <1>2, AnsweringTheClient DEF GivesUp, Pending
<1> QED  BY <1>1, <1>2

LEMMA OtherStep ==
  ASSUME ServiceInv, ConnectionEnds \/ Surroundings \/ UNCHANGED vars
  PROVE  ServiceInv' /\ Honest
<1>1. CASE UNCHANGED vars
  BY <1>1, BridgeStands, SidecarStands DEF vars, serviceVars, bridgeVars, ServiceInv
<1>2. CASE ConnectionEnds
  <2>1. CASE request' = NoRequest /\ UNCHANGED bridgeVars
    BY <1>2, <2>1, BridgeStands, SidecarStands DEF ConnectionEnds, bridgeVars, ServiceInv
  <2>2. CASE AnswerTaken /\ UNCHANGED request
    <3>1. BridgeInv' /\ issued \subseteq issued'
      BY <2>2, EnvironmentStep, IssuedGrows DEF ServiceInv
    <3> QED  BY <1>2, <2>2, <3>1, SidecarStands DEF ConnectionEnds, AnswerTaken
  <2> QED  BY <1>2, <2>1, <2>2 DEF ConnectionEnds
<1>3. CASE Surroundings
  <2>1. BridgeInv' /\ issued \subseteq issued'
    BY <1>3, EnvironmentStep, IssuedGrows DEF Surroundings, ServiceInv
  <2>2. /\ request' \in {request, NoRequest} /\ answer' \in {answer, NoAnswer}
        /\ UNCHANGED <<cache, call, live, outcome, executed, audited>>
    BY <1>3 DEF Surroundings, Environment, BridgeRestarts, AttachTimerFires, UserOpens,
                ProcessExits, ProcessStarts
  <2> QED  BY <2>1, <2>2, SidecarStands
<1> QED  BY <1>1, <1>2, <1>3

LEMMA InvocationsStep ==
  ASSUME ServiceInv, Invocations
  PROVE  ServiceInv' /\ Honest
<1>1. \A s \in issued : s.gen \in Nat
  BY DEF ServiceInv, BridgeInv, SessionInv, BridgeTypeOK, Session
<1>2. PICK method \in Methods, p \in Pids \cup {0}, expected \in Nat :
        /\ Invoke(method, p, expected)
        /\ method = "process.attach" => p \in Pids
  BY <1>1 DEF Invocations, Methods, TargetMethods
<1> QED  BY <1>2, InvokeStep

\* Every step keeps the invariant, and is one of what the service promises.
LEMMA NextStep ==
  ASSUME ServiceInv, [Next]_vars
  PROVE  ServiceInv' /\ Honest
BY InvocationsStep, SendStep, ServeStep, ReceiveStep, FailureStep, ObserveStep, TimeStep,
   OtherStep DEF Next, ServiceStep

-----------------------------------------------------------------------------
(***************************************************************************)
(* The end of a session.  A client learns of a generation from an answer   *)
(* or the cache, and these tell only of sessions of a bridge that was not  *)
(* detached; a detached bridge that finds a new target gives it a session  *)
(* all the same, and keeps that to itself.                                 *)
(***************************************************************************)

\* The generation was given out and its session is not the bridge's.
EndedOn(b, g) == 0 < g /\ g <= b.generation /\ b.sessionId.gen # g

\* The generation was given out, and is not one that a detached bridge keeps to itself.
NamedOn(b, g) == 0 < g /\ g <= b.generation /\ (b.detached => b.sessionId.gen # g)

\* A session that was told of is not one that a detached bridge keeps to itself.
ToldOn(b, s) == s # None /\ s.gen = b.generation => ~b.detached

AsksToEnd == call.method = "process.detach"

\* A pending detach names a session that it was told of.
NamesEnd == Pending /\ AsksToEnd => NamedOn(bridge, call.expected)

\* A request in the pipe is the one the sidecar waits for.
KeepsQuestion ==
  request # NoRequest /\ live =>
    /\ call.phase = "waiting" => request.expected = call.expected
    /\ call.phase = "observing" => request.method = "status.get"

\* The answer that a detach waits for tells of an end only when there was one,
HearsOfEnd ==
  AsksToEnd /\ live /\ answer # NoAnswer =>
    /\ call.phase = "waiting" /\ answer.result = "ok" => EndedOn(bridge, call.expected)
    /\ call.phase = "observing" /\ answer.session = None => EndedOn(bridge, call.expected)

\* and so does the sidecar.
TellsOfEnd ==
  AsksToEnd /\ ~Pending /\ call.id \in Calls =>
    (outcome[call.id] \in {"done", "observed"} => EndedOn(bridge, call.expected))

EndsInv ==
  /\ ToldOn(bridge, cache) /\ ToldOn(bridge, answer.session)
  /\ NamesEnd /\ KeepsQuestion /\ HearsOfEnd /\ TellsOfEnd

\* A session that has ended has ended in every state that follows.
LEMMA EndedStays ==
  ASSUME NEW b \in Bridge, NEW c, Follows(b, c), NEW g \in Nat
  PROVE  /\ EndedOn(b, g) => EndedOn(c, g)
         /\ NamedOn(b, g) => NamedOn(c, g)
<1>1. c \in Bridge /\ Named(c) /\ b.generation \in Nat /\ c.generation \in Nat
  BY DEF Follows, Bridge
<1>2. CASE c.generation > b.generation
  <2>1. c.sessionId.gen \in {0, c.generation}
    BY <1>1 DEF Named, None
  <2>2. 0 < g /\ g <= b.generation => g <= c.generation /\ c.sessionId.gen # g
    BY <1>1, <1>2, <2>1
  <2> QED  BY <2>2 DEF EndedOn, NamedOn
<1>3. CASE c.generation = b.generation /\ c.sessionId = b.sessionId /\ c.detached = b.detached
  BY <1>3 DEF EndedOn, NamedOn
<1> QED  BY <1>2, <1>3 DEF Follows

\* So is a session that was told of.
LEMMA ToldStays ==
  ASSUME BridgeInv, Follows(bridge, bridge'), NEW s \in issued \cup {None}, ToldOn(bridge, s)
  PROVE  ToldOn(bridge', s)
<1>1. bridge \in Bridge /\ bridge' \in Bridge
  BY DEF BridgeInv, SessionInv, BridgeTypeOK, Follows
<1>2. s # None => s.gen \in Nat /\ s.gen <= bridge.generation
  BY DEF BridgeInv, SessionInv, BridgeTypeOK, IssuedInv, Session
<1> QED  BY <1>1, <1>2 DEF ToldOn, Follows, Bridge

\* A detach that succeeds has ended the session it named.
LEMMA DetachTells ==
  ASSUME BridgeInv, NEW r, r.method = "process.detach", ExecuteRequest(r),
         answer'.result = "ok", r.expected \in Nat, r.expected # 0
  PROVE  EndedOn(bridge', r.expected)
<1>1. PICK seen \in Observations(opened) :
        StaleSession(r, Refreshed(bridge, seen)) \/ TargetMethod(r, Refreshed(bridge, seen))
  BY DEF ExecuteRequest, StatusGet, ProcessAttach
<1> DEFINE b == Refreshed(bridge, seen)
<1>2. TargetMethod(r, b)
  BY <1>1 DEF StaleSession, Answers
<1>3. b \in Bridge /\ Named(b)
  BY ObservationsAreProcesses, RefreshedFollows
     DEF Follows, BridgeInv, SessionInv, BridgeTypeOK
<1> HIDE DEF b
<1>4. r.expected = b.generation  BY <1>2 DEF TargetMethod, Matches
<1>5. PICK after \in {b, Refreshed(b, 0)} : ProcessDetach(r, after)
  BY <1>2 DEF TargetMethod, NoTarget, ProcessGet, Mutate, Answers
<1>6. after \in Bridge /\ after.generation >= b.generation
  BY <1>3, RefreshedFollows DEF Follows, Bridge
<1>7. bridge' = [after EXCEPT !.detached = TRUE, !.generation = after.generation + 1,
                              !.sessionId = None]
  BY <1>5 DEF ProcessDetach, BecomesBridge, Detached
<1>8. bridge'.generation = after.generation + 1 /\ bridge'.sessionId.gen = 0
  BY <1>6, <1>7 DEF Bridge, None
<1> QED  BY <1>3, <1>4, <1>6, <1>8 DEF EndedOn, Bridge

\* A status.get that reports no session tells that every session a client knows of has
\* ended.
LEMMA StatusTells ==
  ASSUME BridgeInv, NEW r, r.method = "status.get", ExecuteRequest(r),
         answer'.session = None, NEW g \in Nat, NamedOn(bridge, g)
  PROVE  EndedOn(bridge', g)
<1>1. PICK seen \in Observations(opened) :
        LET b == Refreshed(bridge, seen)
        IN  BecomesBridge(b) /\ Answers("ok", SessionOf(b), NoEffect)
  BY DEF ExecuteRequest, StatusGet, ProcessAttach, TargetMethods
<1>2. bridge' = Refreshed(bridge, seen) /\ SessionOf(bridge') = None
  BY <1>1 DEF BecomesBridge, Answers
<1>3. Follows(bridge, bridge') /\ bridge \in Bridge
  BY <1>2, ObservationsAreProcesses, RefreshedFollows DEF BridgeInv, SessionInv, BridgeTypeOK
<1>4. NamedOn(bridge', g)  BY <1>3, EndedStays
<1>5. bridge'.detached \/ bridge'.sessionId = None
  BY <1>2, <1>3, NoneIsNoSession DEF SessionOf, Follows, Named, Bridge, Session
<1> QED  BY <1>4, <1>5 DEF NamedOn, EndedOn, None

\* Whatever the sidecar and its surroundings do, the bridge moves on.
LEMMA BridgeMovesOn ==
  ASSUME ServiceInv, [Next]_vars
  PROVE  Follows(bridge, bridge')
<1>1. CASE Serve
  <2>1. ExecuteRequest(request) /\ Asked(request)
    BY <1>1 DEF Serve, ServiceInv, RequestInv
  <2> QED  BY <2>1, ExecuteRequestStep DEF ServiceInv, Onward
<1>2. CASE Environment \/ BridgeRestarts \/ AnswerTaken
  BY <1>2, EnvironmentStep DEF ServiceInv, Onward
<1>3. CASE UNCHANGED bridge
  BY <1>3 DEF ServiceInv, BridgeInv, SessionInv, BridgeTypeOK, Follows
<1>4. CASE Receive \/ Observe
  BY <1>3, <1>4 DEF Receive, Observe
<1>5. CASE Invocations
  BY <1>3, <1>5 DEF Invocations, Invoke, bridgeVars
<1>6. CASE Send \/ ReceiveGarbled \/ TransportFails \/ GivesUp \/ DeadlinePasses
  BY <1>3, <1>6 DEF Send, ReceiveGarbled, TransportFails, GivesUp, DeadlinePasses, bridgeVars
<1>7. CASE ConnectionEnds \/ Surroundings
  BY <1>2, <1>3, <1>7 DEF ConnectionEnds, Surroundings, bridgeVars
<1>8. CASE UNCHANGED vars
  BY <1>3, <1>8 DEF vars, bridgeVars
<1> QED  BY <1>1, <1>4, <1>5, <1>6, <1>7, <1>8 DEF Next, ServiceStep

\* The cache and the answer in the pipe tell only of sessions that may be told of.
LEMMA OnlyToldSessions ==
  ASSUME ServiceInv, EndsInv, [Next]_vars
  PROVE  ToldOn(bridge', cache') /\ ToldOn(bridge', answer'.session)
<1>1. Follows(bridge, bridge') /\ issued \subseteq issued'
  <2>1. issued \subseteq issued'
    <3>1. CASE Serve  BY <3>1, IssuedGrows DEF Serve
    <3>2. CASE Environment \/ BridgeRestarts \/ AnswerTaken  BY <3>2, IssuedGrows
    <3>3. CASE Invocations  BY <3>3 DEF Invocations, Invoke, bridgeVars
    <3> QED  BY <3>1, <3>2, <3>3
             DEF Next, ServiceStep, Receive, Observe, Send, ReceiveGarbled, TransportFails,
                 GivesUp, DeadlinePasses, ConnectionEnds, Surroundings, vars, bridgeVars
  <2> QED  BY <2>1, BridgeMovesOn
<1>2. /\ cache \in issued \cup {None} /\ ToldOn(bridge', cache)
      /\ answer.session \in issued \cup {None} /\ ToldOn(bridge', answer.session)
  BY <1>1, ToldStays DEF ServiceInv, TypeOK, AnswerInv, EndsInv
<1>3. ToldOn(bridge', None) /\ ToldOn(bridge', NoAnswer.session)
  BY DEF ToldOn, NoAnswer
<1>4. CASE Serve
  <2>1. answer'.session # None => ~bridge'.detached
    BY <1>4, AnswerTells DEF Serve
  <2>2. cache' = cache  BY <1>4 DEF Serve
  <2> QED  BY <1>2, <2>1, <2>2 DEF ToldOn
<1>5. CASE cache' \in {cache, answer.session} /\ answer' \in {answer, NoAnswer}
  BY <1>2, <1>3, <1>5
<1>6. CASE Receive \/ Observe
  <2>1. cache' \in {cache, answer.session} /\ answer' \in {answer, NoAnswer}
    BY <1>6 DEF Receive, Observe, UpdateSession
  <2> QED  BY <1>5, <2>1
<1>7. CASE Invocations
  BY <1>5, <1>7 DEF Invocations, Invoke, bridgeVars
<1>8. CASE Send \/ ReceiveGarbled \/ TransportFails \/ GivesUp \/ DeadlinePasses \/ UNCHANGED vars
  BY <1>5, <1>8 DEF Send, ReceiveGarbled, TransportFails, GivesUp, DeadlinePasses, vars,
                    serviceVars, bridgeVars
<1>9. CASE ConnectionEnds \/ Surroundings
  <2>1. cache' = cache /\ answer' \in {answer, NoAnswer}
    BY <1>9 DEF ConnectionEnds, Surroundings, bridgeVars, AnswerTaken, Environment,
                BridgeRestarts, AttachTimerFires, UserOpens, ProcessExits, ProcessStarts
  <2> QED  BY <1>5, <2>1
<1> QED  BY <1>4, <1>6, <1>7, <1>8, <1>9 DEF Next, ServiceStep

-----------------------------------------------------------------------------
\* The steps, one by one, as far as the call and the pipe go.
CallEndsInv == NamesEnd /\ KeepsQuestion /\ HearsOfEnd /\ TellsOfEnd

\* A generation in the call keeps what is known of it.
LEMMA ExpectedStays ==
  ASSUME ServiceInv, Follows(bridge, bridge'), call'.expected = call.expected
  PROVE  /\ call.expected \in Nat
         /\ EndedOn(bridge, call.expected) => EndedOn(bridge', call'.expected)
         /\ NamedOn(bridge, call.expected) => NamedOn(bridge', call'.expected)
<1>1. call.expected \in Nat  BY DEF ServiceInv, TypeOK, Call
<1>2. bridge \in Bridge  BY DEF ServiceInv, BridgeInv, SessionInv, BridgeTypeOK
<1> QED  BY <1>1, <1>2, EndedStays

\* The call stands where it stood, and nothing comes into the pipe.
LEMMA CallStandsStep ==
  ASSUME ServiceInv, CallEndsInv, Follows(bridge, bridge'),
         UNCHANGED outcome, call' = [call EXCEPT !.expired = call'.expired],
         request' \in {request, NoRequest}, answer' \in {answer, NoAnswer}, live' = live
  PROVE  CallEndsInv'
<1>1. /\ call'.phase = call.phase /\ call'.method = call.method /\ call'.id = call.id
      /\ call'.expected = call.expected
  BY DEF ServiceInv, TypeOK, Call
<1> QED
  BY <1>1, ExpectedStays
     DEF CallEndsInv, NamesEnd, KeepsQuestion, HearsOfEnd, TellsOfEnd, Pending, AsksToEnd

\* The call gives up the pipe and goes on.
LEMMA CallPollsStep ==
  ASSUME ServiceInv, CallEndsInv, Pending, Follows(bridge, bridge'), live' = FALSE,
         NEW expired \in BOOLEAN,
         call' = [call EXCEPT !.phase = "polling", !.expired = expired]
  PROVE  CallEndsInv'
<1>1. /\ call'.phase = "polling" /\ call'.method = call.method /\ call'.expected = call.expected
  BY DEF ServiceInv, TypeOK, Call
<1> QED
  BY <1>1, ExpectedStays
     DEF CallEndsInv, NamesEnd, KeepsQuestion, HearsOfEnd, TellsOfEnd, Pending, AsksToEnd

\* The call returns, with what it knows.
LEMMA CallReturnsStep ==
  ASSUME ServiceInv, CallEndsInv, Pending, Follows(bridge, bridge'), NEW told, Returns(told),
         AsksToEnd /\ told \in {"done", "observed"} => EndedOn(bridge, call.expected)
  PROVE  CallEndsInv'
<1>1. /\ call'.phase = "idle" /\ call'.method = call.method /\ call'.id = call.id
      /\ call'.expected = call.expected
  BY DEF ServiceInv, TypeOK, Call, Returns
<1>2. call.id \in Calls => outcome'[call.id] = told
  BY DEF ServiceInv, TypeOK, Returns
<1> QED
  BY <1>1, <1>2, ExpectedStays
     DEF CallEndsInv, NamesEnd, KeepsQuestion, HearsOfEnd, TellsOfEnd, Pending, AsksToEnd

LEMMA InvokeEnds ==
  ASSUME ServiceInv, EndsInv, Invocations
  PROVE  CallEndsInv'
<1>1. PICK method, p, expected :
        /\ Invoke(method, p, expected)
        /\ method = "process.detach" => \E s \in issued : expected = s.gen
  BY DEF Invocations
<1> DEFINE id == call.id + 1
           new == [id |-> id, method |-> method, pid |-> p, expected |-> expected,
                   phase |-> "sending", expired |-> FALSE]
<1>2. /\ call.id \in Nat /\ id \in Calls
      /\ outcome \in [Calls -> {"none", "done", "observed", "safe", "unknown"}]
      /\ UNCHANGED <<bridge, cache, request, live, answer>>
  BY <1>1, MaxCallsAssumption DEF Invoke, bridgeVars, Calls, ServiceInv, TypeOK, Call
<1>3. CASE call' = new /\ Preflight(method, expected) = "none"
  <2>1. call'.phase = "sending" /\ call'.method = method /\ call'.expected = expected
    BY <1>3
  <2>2. ASSUME method = "process.detach" PROVE NamedOn(bridge, expected)
    <3>1. PICK s \in issued : expected = s.gen  BY <1>1, <2>2
    <3>2. 0 < expected /\ expected <= bridge.generation
      BY <3>1 DEF ServiceInv, BridgeInv, SessionInv, IssuedInv
    <3>3. cache # None /\ expected = cache.gen
      BY <1>3, <2>2, <3>2 DEF Preflight, NeedsTarget, TargetMethods
    <3>4. bridge.sessionId.gen # 0 => bridge.sessionId.gen = bridge.generation
      BY DEF ServiceInv, BridgeInv, SessionInv, Named, None
    <3> QED  BY <3>2, <3>3, <3>4 DEF NamedOn, EndsInv, ToldOn
  <2> QED
    BY <1>2, <2>1, <2>2
       DEF CallEndsInv, NamesEnd, KeepsQuestion, HearsOfEnd, TellsOfEnd, Pending, AsksToEnd
<1>4. CASE /\ call' = [new EXCEPT !.phase = "idle"]
           /\ \E told \in {"safe", "unknown"} : outcome' = [outcome EXCEPT ![id] = told]
  <2>1. call'.phase = "idle" /\ call'.id = id  BY <1>4
  <2>2. outcome'[id] \in {"safe", "unknown"}
    <3> HIDE DEF id
    <3> QED  BY <1>2, <1>4
  <2> HIDE DEF id
  <2> QED
    BY <1>2, <2>1, <2>2
       DEF CallEndsInv, NamesEnd, KeepsQuestion, HearsOfEnd, TellsOfEnd, Pending, AsksToEnd
<1> QED  BY <1>1, <1>3, <1>4 DEF Invoke, Preflight

LEMMA SendEnds ==
  ASSUME ServiceInv, EndsInv, Send
  PROVE  CallEndsInv'
<1>1. /\ answer' = NoAnswer /\ request' = RequestToSend /\ bridge' = bridge
      /\ call.phase \in {"sending", "polling"} /\ Pending
  BY DEF Send, bridgeVars, Pending
<1>2. /\ call'.phase = IF call.phase = "sending" THEN "waiting" ELSE "observing"
      /\ call'.method = call.method /\ call'.expected = call.expected
  BY DEF Send, GoesTo, ServiceInv, TypeOK, Call
<1>3. KeepsQuestion'
  BY <1>1, <1>2 DEF KeepsQuestion, RequestToSend
<1> QED
  BY <1>1, <1>2, <1>3
     DEF CallEndsInv, EndsInv, NamesEnd, HearsOfEnd, TellsOfEnd, Pending, AsksToEnd

LEMMA ServeEnds ==
  ASSUME ServiceInv, EndsInv, Follows(bridge, bridge'), Serve
  PROVE  CallEndsInv'
<1>1. /\ request # NoRequest /\ ExecuteRequest(request) /\ request' = NoRequest
      /\ UNCHANGED <<call, live, outcome>>
  BY DEF Serve
<1>2. ASSUME AsksToEnd, live, call.phase = "waiting", answer'.result = "ok"
      PROVE  EndedOn(bridge', call.expected)
  <2>1. request.method = "process.detach" /\ request.expected = call.expected
    BY <1>1, <1>2 DEF ServiceInv, AnswerInv, EndsInv, KeepsQuestion, AsksToEnd
  <2>2. call.expected \in Nat /\ call.expected # 0
    BY <1>2, ExpectedStays, <1>1 DEF EndsInv, NamesEnd, NamedOn, Pending
  <2> QED  BY <1>1, <1>2, <2>1, <2>2, DetachTells DEF ServiceInv
<1>3. ASSUME AsksToEnd, live, call.phase = "observing", answer'.session = None
      PROVE  EndedOn(bridge', call.expected)
  <2>1. request.method = "status.get"
    BY <1>1, <1>3 DEF EndsInv, KeepsQuestion
  <2>2. call.expected \in Nat /\ NamedOn(bridge, call.expected)
    BY <1>3, ExpectedStays, <1>1 DEF EndsInv, NamesEnd, Pending
  <2> QED  BY <1>1, <1>3, <2>1, <2>2, StatusTells DEF ServiceInv
<1>4. HearsOfEnd'
  BY <1>1, <1>2, <1>3 DEF HearsOfEnd, AsksToEnd
<1> QED
  BY <1>1, <1>4, ExpectedStays
     DEF CallEndsInv, EndsInv, NamesEnd, KeepsQuestion, TellsOfEnd, Pending, AsksToEnd

LEMMA AnswerEnds ==
  ASSUME ServiceInv, EndsInv, Receive \/ Observe
  PROVE  CallEndsInv'
<1>1. /\ Pending /\ live /\ answer # NoAnswer /\ live' = FALSE /\ bridge' = bridge
      /\ CallEndsInv /\ call \in Call
  BY DEF Receive, Observe, Pending, EndsInv, CallEndsInv, ServiceInv, TypeOK
<1>2. Follows(bridge, bridge')
  BY <1>1 DEF ServiceInv, BridgeInv, SessionInv, BridgeTypeOK, Follows
<1>3. ASSUME NEW told, Returns(told),
             AsksToEnd /\ told \in {"done", "observed"} => EndedOn(bridge, call.expected)
      PROVE  CallEndsInv'
  BY <1>1, <1>2, <1>3, CallReturnsStep
<1>4. CASE Receive
  <2>1. CASE answer.result = "ok" /\ Returns(Told(call.method))
    BY <1>1, <1>3, <1>4, <2>1 DEF CallEndsInv, HearsOfEnd, Receive
  <2>2. CASE Returns("unknown")
    BY <1>3, <2>2
  <2>3. CASE Returns(RetryAdvice(answer.result))
    BY <1>3, <2>3 DEF RetryAdvice
  <2>4. CASE call' = [call EXCEPT !.phase = "polling", !.expired = FALSE]
    BY <1>1, <1>2, <2>4, CallPollsStep
  <2> QED  BY <1>4, <2>1, <2>2, <2>3, <2>4 DEF Receive
<1>5. CASE Observe
  <2>1. CASE Reconciles(answer.session) /\ Returns("observed")
    BY <1>1, <1>3, <1>5, <2>1 DEF CallEndsInv, HearsOfEnd, Observe, Reconciles, AsksToEnd
  <2>2. CASE GoesTo("polling")
    BY <1>1, <1>2, <2>2, GoingTo, CallPollsStep
  <2> QED  BY <1>5, <2>1, <2>2 DEF Observe
<1> QED  BY <1>4, <1>5

LEMMA FailureEnds ==
  ASSUME ServiceInv, EndsInv, ReceiveGarbled \/ TransportFails \/ GivesUp
  PROVE  CallEndsInv'
<1>1. Pending /\ bridge' = bridge /\ CallEndsInv /\ call \in Call
  BY DEF ReceiveGarbled, TransportFails, GivesUp, bridgeVars, Pending, EndsInv, CallEndsInv,
         ServiceInv, TypeOK
<1>2. Follows(bridge, bridge')
  BY <1>1 DEF ServiceInv, BridgeInv, SessionInv, BridgeTypeOK, Follows
<1>3. CASE \E told \in {"unknown", "safe"} : Returns(told)
  BY <1>1, <1>2, <1>3, CallReturnsStep
<1>4. CASE live' = FALSE /\ GoesTo("polling")
  BY <1>1, <1>2, <1>4, GoingTo, CallPollsStep
<1>5. CASE live' = FALSE /\ call' = [call EXCEPT !.phase = "polling", !.expired = FALSE]
  BY <1>1, <1>2, <1>5, CallPollsStep
<1> QED  BY <1>3, <1>4, <1>5 DEF ReceiveGarbled, TransportFails, GivesUp, TransportFailure

LEMMA OtherEnds ==
  ASSUME ServiceInv, EndsInv, Follows(bridge, bridge'),
         DeadlinePasses \/ ConnectionEnds \/ Surroundings \/ UNCHANGED vars
  PROVE  CallEndsInv'
<1>1. CallEndsInv /\ call \in Call
  BY DEF EndsInv, CallEndsInv, ServiceInv, TypeOK
<1>2. outcome' = outcome /\ live' = live
  BY DEF DeadlinePasses, ConnectionEnds, Surroundings, vars, serviceVars
<1>3. call' = [call EXCEPT !.expired = call'.expired]
  <2>1. call' = call \/ call' = [call EXCEPT !.expired = TRUE]
    BY DEF DeadlinePasses, ConnectionEnds, Surroundings, vars, serviceVars
  <2> QED  BY <1>1, <2>1 DEF Call
<1>4. request' \in {request, NoRequest} /\ answer' \in {answer, NoAnswer}
  BY DEF DeadlinePasses, ConnectionEnds, Surroundings, vars, serviceVars, bridgeVars, AnswerTaken,
         Environment, BridgeRestarts, AttachTimerFires, UserOpens, ProcessExits, ProcessStarts
<1> QED  BY <1>1, <1>2, <1>3, <1>4, CallStandsStep

LEMMA EndsStep ==
  ASSUME ServiceInv, EndsInv, [Next]_vars
  PROVE  EndsInv'
<1>1. Follows(bridge, bridge') /\ ToldOn(bridge', cache') /\ ToldOn(bridge', answer'.session)
  BY BridgeMovesOn, OnlyToldSessions
<1>2. CallEndsInv'
  BY <1>1, InvokeEnds, SendEnds, ServeEnds, AnswerEnds, FailureEnds, OtherEnds
     DEF Next, ServiceStep
<1> QED  BY <1>1, <1>2 DEF EndsInv, CallEndsInv

LEMMA InitEnds == Init => EndsInv
BY DEF Init, BridgeInit, EndsInv, ToldOn, NamesEnd, KeepsQuestion, HearsOfEnd, TellsOfEnd,
       Pending, AsksToEnd, NoAnswer

-----------------------------------------------------------------------------
\* The invariant of every behaviour of the service.
THEOREM ServiceInvariant == Spec => []ServiceInv
BY InitServiceInv, NextStep, PTL DEF Spec

\* Every variable of the sidecar and the bridge keeps its type.
THEOREM ServiceTypeCorrect == Spec => []TypeOK
BY ServiceInvariant, PTL DEF ServiceInv

\* The service implements what it promises about its calls.
THEOREM OutcomesAreHonest == Spec => OutcomeIsHonest
<1>1. Init => Outcome!Init  BY DEF Init, Outcome!Init
<1>2. Honest => [Outcome!Next]_Outcome!outcomeVars
  BY DEF Honest, Outcome!outcomeVars
<1> QED  BY <1>1, <1>2, InitServiceInv, NextStep, PTL DEF Spec, OutcomeIsHonest, Outcome!Spec

\* No call has an effect that was not recorded first.
THEOREM EffectsAudited == Spec => []EffectIsAudited
BY ServiceInvariant, PTL DEF ServiceInv, EffectInv

\* The cache never holds a session of the bridge's generation that is not the bridge's.
THEOREM CacheCurrent == Spec => []CacheIsCurrentOrOver
<1>1. ServiceInv => CacheIsCurrentOrOver
  BY DEF ServiceInv, TypeOK, BridgeInv, SessionInv, IssuedInv, CacheIsCurrentOrOver
<1> QED  BY <1>1, ServiceInvariant, PTL

\* A detach that is reported done or observed has ended the session it named, for good:
\* the bridge went on to a later generation, or has no session.
THEOREM DetachEnds == Spec => []DetachEndsSession
<1>1. EndsInv => DetachEndsSession
  BY DEF EndsInv, TellsOfEnd, DetachEndsSession, EndedOn, Pending, AsksToEnd
<1>2. Spec => []EndsInv
  BY ServiceInvariant, InitEnds, EndsStep, PTL DEF Spec
<1> QED  BY <1>1, <1>2, PTL

\* Beside the sidecar too, no mutation or detach meets another process than its
\* session names.
THEOREM ServiceActsRight == Spec => []ActsOnItsTarget
BY ServiceInvariant, PTL DEF ServiceInv, BridgeInv
=============================================================================
