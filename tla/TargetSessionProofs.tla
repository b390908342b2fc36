-------------------------- MODULE TargetSessionProofs --------------------------
(***************************************************************************)
(* Proofs about TargetSession, for any processes and bounds.  Everything   *)
(* rests on one relation: a state of the bridge that follows another has   *)
(* either the same session, as open or as detached as it was, or a later   *)
(* generation.                                                             *)
(***************************************************************************)
EXTENDS TargetSession, TLAPS

\* A session id tells the process and the generation it was made for.
Named(b) == b.sessionId # None => b.sessionId = [pid |-> b.pid, gen |-> b.generation]

Follows(b, c) ==
  /\ c \in Bridge
  /\ Named(c)
  /\ \/ c.generation > b.generation
     \/ /\ c.generation = b.generation /\ c.sessionId = b.sessionId
        /\ c.detached = b.detached

\* No session is later than the bridge's, and only its own is as late.
IssuedInv ==
  /\ bridge.sessionId # None => bridge.sessionId \in issued
  /\ \A s \in issued : /\ s.gen > 0 /\ s.gen <= bridge.generation
                       /\ s.gen = bridge.generation => s = bridge.sessionId

SessionInv ==
  /\ BridgeTypeOK
  /\ Named(bridge)
  /\ IssuedInv
  /\ OneTargetPerGeneration

BridgeInv == SessionInv /\ ActsOnItsTarget

\* What a request holds, as far as the proofs need it.
Asked(r) ==
  /\ r.sessionId \in Session \cup {None}
  /\ r.method = "process.attach" => r.pid \in Pids

\* A session the bridge has ended does not come back in this step.
NoReturn == bridge'.sessionId \in issued => bridge'.sessionId = bridge.sessionId

\* A step of the bridge leads to a state that follows.
Onward == NoReturn /\ Follows(bridge, bridge')

-----------------------------------------------------------------------------
\* 0 is no process, so nil is no session.
LEMMA NoneIsNoSession == None \notin Session /\ 0 \notin Pids
BY ConstantsAssumption DEF None, Session

\* A renewed bridge is a later one.
LEMMA RenewedFollows ==
  ASSUME NEW b \in Bridge, NEW seen \in Pids \cup {0}
  PROVE  /\ Renewed(b, seen) \in Bridge
         /\ Named(Renewed(b, seen))
         /\ Renewed(b, seen).generation = b.generation + 1
         /\ Renewed(b, seen).pid = seen
<1>1. b.generation + 1 \in Nat  BY DEF Bridge
<1>2. seen # 0 => [pid |-> seen, gen |-> b.generation + 1] \in Session
  BY <1>1 DEF Session
<1> QED  BY <1>1, <1>2 DEF Renewed, Bridge, Named

\* A refreshed bridge is the same or a later one.
LEMMA RefreshedFollows ==
  ASSUME NEW b \in Bridge, Named(b), NEW seen \in Pids \cup {0}
  PROVE  Follows(b, Refreshed(b, seen)) /\ Refreshed(b, seen).pid = seen
<1>1. CASE seen # b.pid
  BY <1>1, RenewedFollows DEF Refreshed, Follows, Bridge
<1>2. CASE seen = b.pid
  BY <1>2 DEF Refreshed, Follows
<1> QED  BY <1>1, <1>2

\* A detach is later, whatever it follows.
LEMMA DetachedFollows ==
  ASSUME NEW b \in Bridge, NEW c \in Bridge, Follows(b, c)
  PROVE  Follows(b, Detached(c))
<1>1. c.generation + 1 \in Nat /\ c.generation + 1 > b.generation
  BY DEF Follows, Bridge
<1> QED  BY <1>1 DEF Follows, Detached, Bridge, Named

LEMMA FollowsTransitive ==
  ASSUME NEW b \in Bridge, NEW c \in Bridge, NEW d, Follows(b, c), Follows(c, d)
  PROVE  Follows(b, d)
BY DEF Follows, Bridge

\* What refreshTarget finds is a process or none.
LEMMA ObservationsAreProcesses ==
  ASSUME BridgeTypeOK
  PROVE  Observations(opened) \subseteq Pids \cup {0}
BY DEF BridgeTypeOK, Observations

\* The bridge may become any state that follows the present one.
LEMMA BecomingFollower ==
  ASSUME SessionInv, NEW b, Follows(bridge, b), BecomesBridge(b)
  PROVE  /\ bridge' \in Bridge /\ issued' \subseteq Session
         /\ Named(bridge)' /\ IssuedInv' /\ OneTargetPerGeneration'
         /\ Onward
<1>1. bridge' = b /\ issued' = issued \cup ({b.sessionId} \ {None})
  BY DEF BecomesBridge
<1>2. /\ bridge \in Bridge /\ issued \subseteq Session /\ b \in Bridge /\ Named(b)
      /\ b.generation \in Nat /\ bridge.generation \in Nat
      /\ b.sessionId \in Session \cup {None}
  BY DEF SessionInv, BridgeTypeOK, Follows, Bridge
<1>3. bridge' \in Bridge /\ issued' \subseteq Session /\ Named(bridge)'
  BY <1>1, <1>2 DEF Named
<1>4. b.sessionId # None => b.sessionId.gen = b.generation
  BY <1>2 DEF Named
<1>5. \A s \in issued : s.gen \in Nat /\ s # None
  BY <1>2, NoneIsNoSession DEF Session
<1>6. CASE b.generation > bridge.generation
  <2>1. \A s \in issued : s.gen < b.generation
    BY <1>2, <1>5, <1>6 DEF SessionInv, IssuedInv
  <2>2. IssuedInv'
    BY <1>1, <1>2, <1>4, <1>5, <1>6, <2>1 DEF SessionInv, IssuedInv
  <2>3. OneTargetPerGeneration'
    BY <1>1, <1>2, <1>4, <1>5, <2>1 DEF SessionInv, OneTargetPerGeneration
  <2>4. b.sessionId \notin issued
    BY <1>2, <1>4, <1>5, <2>1
  <2> QED  BY <1>1, <1>3, <2>2, <2>3, <2>4 DEF NoReturn, Onward
<1>7. CASE /\ b.generation = bridge.generation /\ b.sessionId = bridge.sessionId
           /\ b.detached = bridge.detached
  <2>1. issued' = issued
    BY <1>1, <1>7 DEF SessionInv, IssuedInv
  <2> QED  BY <1>1, <1>3, <1>7, <2>1
           DEF SessionInv, IssuedInv, OneTargetPerGeneration, NoReturn, Onward
<1> QED  BY <1>6, <1>7 DEF Follows

-----------------------------------------------------------------------------
\* A new Lua state: the invariant holds of the session it makes.
LEMMA InitBridgeInv == BridgeInit => BridgeInv
<1> SUFFICES ASSUME BridgeInit PROVE BridgeInv  OBVIOUS
<1>1. opened \in Pids \cup {0}  BY DEF BridgeInit
<1> DEFINE b == [pid |-> 0, generation |-> 0, sessionId |-> None, detached |-> FALSE]
<1>2. b \in Bridge /\ b.generation = 0  BY DEF Bridge
<1>3. bridge = Renewed(b, opened)  BY DEF BridgeInit, Started
<1> HIDE DEF b
<1>4. bridge \in Bridge /\ Named(bridge) /\ bridge.generation = b.generation + 1
  BY <1>1, <1>2, <1>3, RenewedFollows
<1>5. issued = {bridge.sessionId} \ {None} /\ issued \subseteq Session
  BY <1>4 DEF BridgeInit, Bridge
<1>6. bridge.sessionId # None => bridge.sessionId.gen = bridge.generation
  BY <1>4 DEF Named
<1>7. IssuedInv /\ OneTargetPerGeneration
  BY <1>2, <1>4, <1>5, <1>6 DEF IssuedInv, OneTargetPerGeneration, Bridge
<1>8. BridgeTypeOK
  BY <1>1, <1>4, <1>5 DEF BridgeInit, BridgeTypeOK
<1>9. ActsOnItsTarget
  BY DEF BridgeInit, ActsOnItsTarget, NoAnswer, NoEffect
<1> QED  BY <1>4, <1>7, <1>8, <1>9 DEF BridgeInv, SessionInv

-----------------------------------------------------------------------------
\* A step that leads to a following bridge keeps the invariant, if what it writes to
\* the other variables is sound.
LEMMA FollowingStep ==
  ASSUME BridgeInv, NEW b, Follows(bridge, b), BecomesBridge(b),
         running' \subseteq Pids, opened' \in Pids \cup {0}, timers' \in Seq(Pids),
         answer' \in Answer \cup {NoAnswer}, ActsOnItsTarget'
  PROVE  BridgeInv' /\ Onward
BY BecomingFollower DEF BridgeInv, SessionInv, BridgeTypeOK

\* A step that leaves the bridge alone.
LEMMA StandingStep ==
  ASSUME BridgeInv, UNCHANGED <<bridge, issued>>,
         running' \subseteq Pids, opened' \in Pids \cup {0}, timers' \in Seq(Pids),
         answer' \in Answer \cup {NoAnswer}, ActsOnItsTarget'
  PROVE  BridgeInv' /\ Onward
<1>1. BridgeTypeOK'  BY DEF BridgeInv, SessionInv, BridgeTypeOK
<1>2. Named(bridge)' /\ IssuedInv' /\ OneTargetPerGeneration'
  BY DEF BridgeInv, SessionInv, Named, IssuedInv, OneTargetPerGeneration
<1> QED  BY <1>1, <1>2 DEF BridgeInv, SessionInv, BridgeTypeOK, NoReturn, Onward, Follows

\* An answer has its type, and acts on its target if its effect does.
LEMMA AnswerIsSound ==
  ASSUME NEW result \in Results, NEW session \in Session \cup {None}, NEW effect \in Effect,
         effect.session # None => effect.on = effect.session.pid,
         Answers(result, session, effect)
  PROVE  answer' \in Answer \cup {NoAnswer} /\ ActsOnItsTarget'
BY DEF Answers, Answer, ActsOnItsTarget

\* An answer that leaves no effect.
LEMMA PlainAnswerIsSound ==
  ASSUME NEW result \in Results, NEW session \in Session \cup {None},
         Answers(result, session, NoEffect)
  PROVE  answer' \in Answer \cup {NoAnswer} /\ ActsOnItsTarget'
<1>1. NoEffect \in Effect /\ NoEffect.session = None  BY DEF NoEffect, Effect
<1> QED  BY <1>1, AnswerIsSound

LEMMA SessionOfIsSession ==
  ASSUME NEW b \in Bridge
  PROVE  SessionOf(b) \in Session \cup {None}
BY DEF SessionOf, Bridge

\* A request that matches a refreshed bridge concerns the process that is open.
LEMMA MatchMeetsTarget ==
  ASSUME BridgeInv, NEW r, Asked(r), NEW seen \in Observations(opened),
         Matches(Refreshed(bridge, seen), r)
  PROVE  LET effect == [session |-> r.sessionId, on |-> opened]
         IN  /\ effect \in Effect
             /\ effect.session # None => effect.on = effect.session.pid
<1> DEFINE b == Refreshed(bridge, seen)
<1>1. seen \in Pids \cup {0} /\ seen \in {0, opened} /\ opened \in Pids \cup {0}
  BY ObservationsAreProcesses DEF Observations, BridgeInv, SessionInv, BridgeTypeOK
<1>2. b.pid = seen /\ Named(b) /\ b \in Bridge
  BY <1>1, RefreshedFollows DEF Follows, BridgeInv, SessionInv, BridgeTypeOK
<1>3. r.sessionId = b.sessionId  BY DEF Matches
<1>4. r.sessionId # None => r.sessionId.pid \in Pids
  BY DEF Asked, Session
<1> HIDE DEF b
<1>5. r.sessionId # None => opened = r.sessionId.pid
  BY <1>1, <1>2, <1>3, <1>4, NoneIsNoSession DEF Named
<1>6. [session |-> r.sessionId, on |-> opened] \in Effect
  BY <1>1 DEF Effect, Asked
<1> QED  BY <1>5, <1>6

-----------------------------------------------------------------------------
LEMMA StatusGetStep ==
  ASSUME BridgeInv, NEW r, StatusGet(r)
  PROVE  BridgeInv' /\ Onward
<1>1. PICK seen \in Observations(opened) :
        LET b == Refreshed(bridge, seen)
        IN  BecomesBridge(b) /\ Answers("ok", SessionOf(b), NoEffect)
  BY DEF StatusGet
<1>2. seen \in Pids \cup {0}
  BY ObservationsAreProcesses DEF BridgeInv, SessionInv
<1>3. Follows(bridge, Refreshed(bridge, seen))
  BY <1>2, RefreshedFollows DEF BridgeInv, SessionInv, BridgeTypeOK
<1>4. answer' \in Answer \cup {NoAnswer} /\ ActsOnItsTarget'
  BY <1>1, <1>3, PlainAnswerIsSound, SessionOfIsSession DEF Results, Follows
<1> QED
  BY <1>1, <1>3, <1>4, FollowingStep
     DEF StatusGet, BridgeInv, SessionInv, BridgeTypeOK

LEMMA ProcessAttachStep ==
  ASSUME BridgeInv, NEW r, Asked(r), ProcessAttach(r)
  PROVE  BridgeInv' /\ Onward
<1>1. r.pid \in Pids  BY DEF Asked, ProcessAttach
<1>2. timers' \in Seq(Pids)
  BY <1>1 DEF ProcessAttach, BridgeInv, SessionInv, BridgeTypeOK
<1>3. [session |-> None, on |-> r.pid] \in Effect  BY <1>1 DEF Effect
<1>4. answer' \in Answer \cup {NoAnswer} /\ ActsOnItsTarget'
  BY <1>3, AnswerIsSound DEF ProcessAttach, Results
<1> QED
  BY <1>2, <1>4, StandingStep DEF ProcessAttach, BridgeInv, SessionInv, BridgeTypeOK

LEMMA TargetMethodStep ==
  ASSUME BridgeInv, NEW r, Asked(r), NEW seen \in Observations(opened),
         TargetMethod(r, Refreshed(bridge, seen))
  PROVE  BridgeInv' /\ Onward
<1> DEFINE b == Refreshed(bridge, seen)
           effect == [session |-> r.sessionId, on |-> opened]
<1>1. PICK after \in {b, Refreshed(b, 0)} :
        /\ Rechecked(b, after)
        /\ NoTarget(r, after) \/ ProcessGet(r, b, after) \/ ProcessDetach(r, after)
             \/ Mutate(r, after)
  BY DEF TargetMethod
<1>2. bridge \in Bridge /\ Named(bridge) /\ seen \in Pids \cup {0}
  BY ObservationsAreProcesses DEF BridgeInv, SessionInv, BridgeTypeOK
<1>3. Follows(bridge, b) /\ b \in Bridge /\ Named(b)
  BY <1>2, RefreshedFollows DEF Follows
<1>4. effect \in Effect /\ (effect.session # None => effect.on = effect.session.pid)
  BY MatchMeetsTarget DEF TargetMethod
<1> HIDE DEF b, effect
<1>5. Follows(bridge, after) /\ after \in Bridge
  <2>1. Follows(b, Refreshed(b, 0))  BY <1>3, RefreshedFollows
  <2>2. Refreshed(b, 0) \in Bridge  BY <2>1 DEF Follows
  <2>3. Follows(bridge, Refreshed(b, 0))
    BY <1>2, <1>3, <2>1, FollowsTransitive
  <2> QED  BY <1>1, <1>3, <2>2, <2>3
<1>6. running' \subseteq Pids /\ opened' \in Pids \cup {0} /\ timers' \in Seq(Pids)
  BY <1>1 DEF Rechecked, TargetMethod, NoTarget, ProcessGet, ProcessDetach, Mutate,
              BridgeInv, SessionInv, BridgeTypeOK
<1>7. CASE NoTarget(r, after)
  <2>1. answer' \in Answer \cup {NoAnswer} /\ ActsOnItsTarget'
    BY <1>7, PlainAnswerIsSound DEF NoTarget, Results
  <2> QED  BY <1>5, <1>6, <1>7, <2>1, FollowingStep DEF NoTarget
<1>8. CASE ProcessGet(r, b, after)
  <2>1. answer' \in Answer \cup {NoAnswer} /\ ActsOnItsTarget'
    BY <1>5, <1>8, PlainAnswerIsSound, SessionOfIsSession DEF ProcessGet, Results
  <2> QED  BY <1>5, <1>6, <1>8, <2>1, FollowingStep DEF ProcessGet
<1>9. CASE ProcessDetach(r, after)
  <2>1. Answers("ok", None, effect)  BY <1>9 DEF ProcessDetach, effect
  <2>2. answer' \in Answer \cup {NoAnswer} /\ ActsOnItsTarget'
    BY <1>4, <2>1, AnswerIsSound DEF Results
  <2>3. Follows(bridge, Detached(after))
    BY <1>2, <1>5, DetachedFollows
  <2> QED  BY <1>6, <1>9, <2>2, <2>3, FollowingStep DEF ProcessDetach
<1>10. CASE Mutate(r, after)
  <2>1. \E result \in Results, session \in Session \cup {None}, e \in {NoEffect, effect} :
          Answers(result, session, e)
    BY <1>5, <1>10, SessionOfIsSession DEF Mutate, Results, effect
  <2>2. NoEffect \in Effect /\ NoEffect.session = None  BY DEF NoEffect, Effect
  <2>3. answer' \in Answer \cup {NoAnswer} /\ ActsOnItsTarget'
    BY <1>4, <2>1, <2>2, AnswerIsSound
  <2> QED  BY <1>5, <1>6, <1>10, <2>3, FollowingStep DEF Mutate
<1> QED  BY <1>1, <1>7, <1>8, <1>9, <1>10

\* Whatever it asks for, a request keeps the invariant.
LEMMA ExecuteRequestStep ==
  ASSUME BridgeInv, NEW r, Asked(r), ExecuteRequest(r)
  PROVE  BridgeInv' /\ Onward
<1>1. CASE StatusGet(r)  BY <1>1, StatusGetStep
<1>2. CASE ProcessAttach(r)  BY <1>2, ProcessAttachStep
<1>3. CASE \E seen \in Observations(opened) :
             LET b == Refreshed(bridge, seen) IN StaleSession(r, b) \/ TargetMethod(r, b)
  <2>1. PICK seen \in Observations(opened) :
          StaleSession(r, Refreshed(bridge, seen)) \/ TargetMethod(r, Refreshed(bridge, seen))
    BY <1>3
  <2>2. CASE StaleSession(r, Refreshed(bridge, seen))
    <3>1. seen \in Pids \cup {0}
      BY ObservationsAreProcesses DEF BridgeInv, SessionInv
    <3>2. Follows(bridge, Refreshed(bridge, seen))
      BY <3>1, RefreshedFollows DEF BridgeInv, SessionInv, BridgeTypeOK
    <3>3. answer' \in Answer \cup {NoAnswer} /\ ActsOnItsTarget'
      BY <2>2, PlainAnswerIsSound DEF StaleSession, Results
    <3> QED
      BY <2>2, <3>2, <3>3, FollowingStep
         DEF StaleSession, BridgeInv, SessionInv, BridgeTypeOK
  <2>3. CASE TargetMethod(r, Refreshed(bridge, seen))
    BY <2>3, TargetMethodStep
  <2> QED  BY <2>1, <2>2, <2>3
<1> QED  BY <1>1, <1>2, <1>3 DEF ExecuteRequest

-----------------------------------------------------------------------------
LEMMA AttachTimerStep ==
  ASSUME BridgeInv, AttachTimerFires
  PROVE  BridgeInv' /\ Onward
<1> DEFINE attached == [bridge EXCEPT !.detached = FALSE]
<1>1. PICK seen \in Observations(opened) : BecomesBridge(Renewed(attached, seen))
  BY DEF AttachTimerFires
<1>2. attached \in Bridge /\ attached.generation = bridge.generation /\ seen \in Pids \cup {0}
  BY ObservationsAreProcesses DEF BridgeInv, SessionInv, BridgeTypeOK, Bridge
<1> HIDE DEF attached
<1>3. Follows(bridge, Renewed(attached, seen))
  BY <1>2, RenewedFollows DEF Follows, Bridge
<1>4. Head(timers) \in Pids /\ Tail(timers) \in Seq(Pids)
  BY DEF AttachTimerFires, BridgeInv, SessionInv, BridgeTypeOK
<1>5. ActsOnItsTarget'
  BY DEF AttachTimerFires, BridgeInv, ActsOnItsTarget
<1> QED
  BY <1>1, <1>3, <1>4, <1>5, FollowingStep
     DEF AttachTimerFires, BridgeInv, SessionInv, BridgeTypeOK

LEMMA BridgeRestartsStep ==
  ASSUME BridgeInv, BridgeRestarts
  PROVE  BridgeInv' /\ Onward
<1> DEFINE fresh == [pid |-> 0, generation |-> bridge.generation, sessionId |-> None,
                     detached |-> FALSE]
<1>1. PICK seen \in Observations(opened) : BecomesBridge(Renewed(fresh, seen))
  BY DEF BridgeRestarts, Started
<1>2. fresh \in Bridge /\ fresh.generation = bridge.generation /\ seen \in Pids \cup {0}
  BY ObservationsAreProcesses DEF BridgeInv, SessionInv, BridgeTypeOK, Bridge
<1> HIDE DEF fresh
<1>3. Follows(bridge, Renewed(fresh, seen))
  BY <1>2, RenewedFollows DEF Follows, Bridge
<1>4. timers' \in Seq(Pids) /\ answer' = NoAnswer /\ ActsOnItsTarget'
  BY DEF BridgeRestarts, ActsOnItsTarget, NoAnswer, NoEffect
<1> QED
  BY <1>1, <1>3, <1>4, FollowingStep
     DEF BridgeRestarts, BridgeInv, SessionInv, BridgeTypeOK

\* Everything that happens around the bridge keeps the invariant.
LEMMA EnvironmentStep ==
  ASSUME BridgeInv, Environment \/ BridgeRestarts \/ AnswerTaken
  PROVE  BridgeInv' /\ Onward
<1>1. CASE \E p \in Pids : UserOpens(p) \/ ProcessExits(p) \/ ProcessStarts(p)
  <2>1. running' \subseteq Pids /\ opened' \in Pids \cup {0} /\ timers' \in Seq(Pids)
    BY <1>1 DEF UserOpens, ProcessExits, ProcessStarts, BridgeInv, SessionInv, BridgeTypeOK
  <2>2. UNCHANGED <<bridge, issued, answer>>
    BY <1>1 DEF UserOpens, ProcessExits, ProcessStarts
  <2> QED
    BY <2>1, <2>2, StandingStep DEF BridgeInv, SessionInv, BridgeTypeOK, ActsOnItsTarget
<1>2. CASE AnswerTaken
  <2>1. answer' = NoAnswer /\ ActsOnItsTarget'
    BY <1>2 DEF AnswerTaken, ActsOnItsTarget, NoAnswer, NoEffect
  <2> QED
    BY <1>2, <2>1, StandingStep DEF AnswerTaken, BridgeInv, SessionInv, BridgeTypeOK
<1> QED  BY <1>1, <1>2, AttachTimerStep, BridgeRestartsStep DEF Environment

LEMMA BridgeStep ==
  ASSUME BridgeInv, [BridgeNext]_bridgeVars
  PROVE  BridgeInv' /\ Onward
<1>1. CASE \E r \in RequestsOf(issued) : ExecuteRequest(r)
  <2>1. PICK r \in RequestsOf(issued) : ExecuteRequest(r)  BY <1>1
  <2>2. Asked(r)
    BY DEF RequestsOf, Asked, BridgeInv, SessionInv, BridgeTypeOK
  <2> QED  BY <2>1, <2>2, ExecuteRequestStep
<1>2. CASE UNCHANGED bridgeVars
  BY <1>2, StandingStep
     DEF bridgeVars, BridgeInv, SessionInv, BridgeTypeOK, ActsOnItsTarget
<1> QED  BY <1>1, <1>2, EnvironmentStep DEF BridgeNext

-----------------------------------------------------------------------------
\* The invariant of the bridge by itself, whatever it is asked.
THEOREM Invariant == BridgeSpec => []BridgeInv
BY InitBridgeInv, BridgeStep, PTL DEF BridgeSpec

\* Every variable of the bridge keeps its type.
THEOREM TypeCorrect == BridgeSpec => []BridgeTypeOK
BY Invariant, PTL DEF BridgeInv, SessionInv

\* No generation ever names two processes.
THEOREM GenerationsUnique == BridgeSpec => []OneTargetPerGeneration
BY Invariant, PTL DEF BridgeInv, SessionInv

\* No mutation or detach meets another process than its session names.
THEOREM ActsRight == BridgeSpec => []ActsOnItsTarget
BY Invariant, PTL DEF BridgeInv

\* A session that has ended is never given out again.
THEOREM SessionsOver == BridgeSpec => SessionsNeverReturn
BY Invariant, BridgeStep, PTL DEF BridgeSpec, SessionsNeverReturn, NoReturn, Onward
=============================================================================
