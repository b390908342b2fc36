--------------------------- MODULE MutationOutcome ---------------------------
(***************************************************************************)
(* What the sidecar promises its clients about calls that change           *)
(* something: each takes effect at most once; an error that is marked safe *)
(* to retry means that it did not and never will; a success means that it  *)
(* did, or, for an attach or detach whose answer was lost, that the state  *)
(* the client asked for was seen.  Only an unknown outcome may still take  *)
(* effect after the answer.                                                *)
(***************************************************************************)
EXTENDS Naturals

CONSTANT Calls

VARIABLES
  outcome,    \* what the client of each call was told
  executed    \* how often each call took effect

outcomeVars == <<outcome, executed>>

Outcomes == {"none", "done", "observed", "safe", "unknown"}

Init ==
  /\ outcome = [c \in Calls |-> "none"]
  /\ executed = [c \in Calls |-> 0]

TakesEffect(c) ==
  /\ executed[c] = 0
  /\ outcome[c] \in {"none", "unknown"}
  /\ executed' = [executed EXCEPT ![c] = 1]
  /\ UNCHANGED outcome

Answered(c, told) ==
  /\ outcome[c] = "none"
  /\ told = "done" => executed[c] = 1
  /\ told = "safe" => executed[c] = 0
  /\ outcome' = [outcome EXCEPT ![c] = told]
  /\ UNCHANGED executed

Next == \E c \in Calls : TakesEffect(c) \/ \E told \in Outcomes \ {"none"} : Answered(c, told)

Spec == Init /\ [][Next]_outcomeVars
=============================================================================
