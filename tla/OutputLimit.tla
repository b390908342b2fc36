----------------------------- MODULE OutputLimit -----------------------------
(***************************************************************************)
(* The MCP adapter of the sidecar (src/ce_mcp/mcp_adapter.py) and a client *)
(* that follows its advice: a result that is larger than the configured    *)
(* output limit is withheld after the call was carried out, and the error  *)
(* that replaces it may suggest the same read with a smaller argument.     *)
(***************************************************************************)
EXTENDS Naturals

CONSTANTS
  MaxAsk,      \* largest value of limit, size or count
  Implied      \* what a page that leaves its limit out asks for

ASSUME OutputAssumption == MaxAsk \in Nat /\ Implied \in 2 .. MaxAsk

VARIABLES
  request,     \* the call: its kind and its shrinkable argument, 0 if left out
  answer,      \* where the call is
  advice,      \* next_actions of the answer: the smaller value to retry with, or to reconcile
  executions,  \* history: how often the client's call was carried out, retries included
  asked        \* history: values asked for before each retry

outputVars == <<request, answer, advice, executions, asked>>

\* Reads with a page limit or a size; memory_read of typed values, which reads one if count
\* is left out; disassembly steps, also one, and one always fits; calls without such an
\* argument, which read, mutate, or change a structure.
Shrinkable == {"page", "typed", "step"}
Mutations == {"mutation"}
Changes == Mutations \cup {"structure"}
CallKinds == Shrinkable \cup Changes \cup {"whole"}

Request == [kind : CallKinds, value : 0 .. MaxAsk]
Advice == [retry : 0 .. MaxAsk, refresh : BOOLEAN]
Answers == {"idle", "called", "result", "error", "withheld", "returned"}

OutputTypeOK ==
  /\ request \in Request
  /\ answer \in Answers
  /\ advice \in Advice
  /\ executions \in 0 .. MaxAsk + 1
  /\ asked \in 0 .. MaxAsk

NoAdvice == [retry |-> 0, refresh |-> FALSE]

OutputInit ==
  /\ request = [kind |-> "whole", value |-> 0]
  /\ answer = "idle" /\ advice = NoAdvice
  /\ executions = 0 /\ asked = 0

-----------------------------------------------------------------------------
\* The values that a request reads.
Work(r) == IF r.value # 0 THEN r.value ELSE IF r.kind = "page" THEN Implied ELSE 1

\* A call of the client's own, after any answer.
Call ==
  /\ answer \in {"idle", "returned"}
  /\ \E r \in Request :
       /\ r.kind \notin Shrinkable => r.value = 0
       /\ request' = r
  /\ answer' = "called" /\ advice' = NoAdvice
  /\ executions' = 0 /\ asked' = 0

\* service.call_tool: a result, or an error with whatever advice of its own.
CallTool ==
  /\ answer = "called"
  /\ answer' \in {"result", "error"}
  /\ executions' = executions + 1
  /\ UNCHANGED <<request, advice, asked>>

\* _bounded_result: what fits is returned as it is.
Fits ==
  /\ answer \in {"result", "error"}
  /\ answer' = "returned"
  /\ UNCHANGED <<request, advice, executions, asked>>

\* Mutant: a count that is left out is shrunk like a limit that is left out.
ReducibleUnlessOne == request.value # 1

\* current == 1, or implicit_one.
Reducible == ~(request.value = 1 \/ (request.value = 0 /\ request.kind = "typed"))

\* recommended.
Smaller == IF request.value \div 2 > 1 THEN request.value \div 2 ELSE 1

\* _output_limit_error.
Withhold ==
  /\ answer \in {"result", "error"}
  /\ ~(request.kind = "step" /\ Work(request) = 1)
  /\ answer' = "withheld"
  /\ advice' = IF answer = "result" /\ request.kind \in Shrinkable
               THEN [NoAdvice EXCEPT !.retry = IF Reducible THEN Smaller ELSE 0]
               ELSE [NoAdvice EXCEPT !.refresh = request.kind \in Mutations]
  /\ UNCHANGED <<request, executions, asked>>

\* RETRY_WITH_SMALLER_RESULT: the same call with the argument patched.
Retry ==
  /\ answer = "withheld" /\ advice.retry # 0
  /\ request' = [request EXCEPT !.value = advice.retry]
  /\ asked' = Work(request)
  /\ answer' = "called" /\ advice' = NoAdvice
  /\ UNCHANGED executions

\* REFRESH_STATUS, another advice, or none.
LeaveIt ==
  /\ answer = "withheld" /\ advice.retry = 0
  /\ answer' = "returned"
  /\ UNCHANGED <<request, advice, executions, asked>>

OutputNext == Call \/ CallTool \/ Fits \/ Withhold \/ Retry \/ LeaveIt

OutputSpec == OutputInit /\ [][OutputNext]_outputVars

-----------------------------------------------------------------------------
\* A client that does as it is told: each retry asks for less than the call before, so
\* that the retries end; nothing that changes state is carried out twice, and a client
\* that lost the result of a mutation is told to reconcile first (mcp_adapter.py 107-160).
AdviceMakesProgress ==
  /\ asked # 0 => Work(request) < asked
  /\ request.kind \in Changes => executions <= 1
  /\ answer = "withheld" /\ request.kind \in Mutations => advice.refresh
=============================================================================
