---------------------------- MODULE RetrievalLoop ------------------------------
(***************************************************************************)
(* The retrieval half of the workflow graph: the plan (nodes/context.py),  *)
(* the bounded loop over its steps with the fall-backs between the RAG     *)
(* runtime, the request's own chunks and the Go tool bridge, and what is   *)
(* made of the evidence: retrieved context, reranking, evidence pack and   *)
(* sufficiency gate (nodes/retrieval.py, retrieval.py, helpers.py).        *)
(*                                                                         *)
(* Chunks are abstract: a chunk has a source type and either can be cited  *)
(* (it has an id and a snippet) or cannot.  The rules of the reranking are *)
(* arithmetic on texts, so any choice of the wanted size is a possible     *)
(* one.  The run cache is keyed by the query, and the queries of one plan  *)
(* differ, so that a run never finds an entry of its own: what is left of  *)
(* it is whether it has any.  Confidence is counted in hundredths.         *)
(***************************************************************************)
EXTENDS RetryCall, Sequences, FiniteSetsExt

CONSTANTS
  Chunks,       \* the chunks there are
  TypeOf,       \* their source types
  Citable,      \* those with an id and a snippet
  Requests,     \* the requests considered
  RerankLimit   \* the limit of rerank_context (8)

ASSUME RetrievalAssumption ==
  /\ MaxRetries \in Nat
  /\ IsFiniteSet(Chunks)
  /\ Replies \subseteq SUBSET Chunks
  /\ Citable \subseteq Chunks
  /\ RerankLimit \in Nat

VARIABLES
  request,    \* what the retrieval reads of the WorkflowRequest
  node,       \* the node of the graph; the call it waits for is in call
  plan,       \* retrieval_plan.steps
  attempts,   \* retrieval_attempts: were there hits, and by which way
  gathered,   \* agentic_context_chunks
  selected,   \* the step's chunks while the bridge is asked
  context,    \* retrieved_context_chunks, then reranked_context_chunks
  sufficient  \* context_sufficiency

retrievalVars == <<configured, call, request, node, plan, attempts, gathered,
                   selected, context, sufficient>>

TypesOf(S) == {TypeOf[c] : c \in S}
AtMost(n, S) == kSubset(IF n < Cardinality(S) THEN n ELSE Cardinality(S), S)

-----------------------------------------------------------------------------
(***************************************************************************)
(* The plan                                                                *)
(***************************************************************************)
Step(scope, tool) == [scope |-> scope, tool |-> tool]
AllContext == Step("all", "context_chunks")
Knowledge == Step("knowledge", "knowledge_chunks")
Transcripts == Step("meeting_transcript", "meeting_transcripts")

\* resolve_agentic_rag_config: at most three steps, which is the default too.
MaxSteps == IF request.maxSteps \in 1..3 THEN request.maxSteps ELSE 3
MinConfidence == 60

\* An empty policy allows every tool.
ToolAllowed(tool) == request.tools = {} \/ tool \in request.tools

\* All context is the last candidate of every intent.
Candidates ==
  CASE request.intent = "consult" \/ request.preset = "context_qa" ->
         <<Knowledge, AllContext, AllContext>>
    [] request.intent = "risk" /\ request.preset # "context_qa" ->
         <<Transcripts, Knowledge, AllContext>>
    [] OTHER -> <<AllContext, Knowledge, AllContext>>

\* A step whose tool the policy forbids asks for all context instead.
Planned(step) == IF ToolAllowed(step.tool) THEN step ELSE AllContext

\* Steps outside the allowed source types are left out.
InScope(step) ==
  /\ step.scope = "all" \/ step.scope \in request.sources
  /\ ToolAllowed(Planned(step).tool)

Kept(step) == IF InScope(step) THEN <<step>> ELSE <<>>

\* The loop of the plan stops at max_steps only after a step that keeps its
\* tool: the steps that fall back are added without a look at the limit.
FullAt(steps) ==
  {i \in DOMAIN steps : i >= MaxSteps /\ ToolAllowed(steps[i].tool)}

PlanSteps ==
  LET kept == Kept(Candidates[1]) \o Kept(Candidates[2]) \o Kept(Candidates[3])
      full == FullAt(kept)
      steps == IF full = {} THEN kept ELSE SubSeq(kept, 1, Min(full))
  IN  IF steps = <<>> /\ ToolAllowed("context_chunks")
        THEN <<AllContext>>
        ELSE [i \in DOMAIN steps |-> Planned(steps[i])]

RetrievalInit ==
  /\ CallInit
  /\ request \in Requests
  /\ node = "retrieval_planner"
  /\ plan = <<>>
  /\ attempts = <<>>
  /\ gathered = {}
  /\ selected = {}
  /\ context = {}
  /\ sufficient = FALSE

RetrievalPlanner ==
  /\ node = "retrieval_planner"
  /\ plan' = IF request.agentic THEN PlanSteps ELSE <<>>
  /\ node' = "retrieval_loop"
  /\ UNCHANGED <<configured, call, request, attempts, gathered, selected,
                 context, sufficient>>

-----------------------------------------------------------------------------
(***************************************************************************)
(* The loop                                                                *)
(***************************************************************************)
\* Faulty variant: the loop takes every step of the plan.
AllSteps == plan

LoopSteps ==
  SubSeq(plan, 1, IF Len(plan) < MaxSteps THEN Len(plan) ELSE MaxSteps)

InLoop == node = "retrieval_loop" /\ call = NoCall
Current == LoopSteps[Len(attempts) + 1]
HasStep == Len(attempts) < Len(LoopSteps)

RequiredTypes ==
  IF request.intent = "chat"
    THEN {"conversation", "message", "note", "followup", "memory"}
    ELSE {"meeting_transcript", "knowledge", "memory"}

\* Hybrid: what the step or the intent asks for has not been gathered yet.
ShouldCallRag ==
  \/ request.mode = "rag_runtime"
  \/ /\ request.mode = "hybrid"
     /\ \/ Current.scope # "all" /\ Current.scope \notin TypesOf(gathered)
        \/ ~(RequiredTypes \subseteq TypesOf(gathered))

\* Faulty variant: a scope without chunks of its own has no evidence.
ScopedOnly(scope) ==
  {c \in request.chunks : scope = "all" \/ TypeOf[c] = scope}

\* local_agentic_retrieval: the chunks of the scope, or all when it has none
\* (its limit of six is not reached here).
LocalRetrieval(scope) ==
  LET scoped == {c \in request.chunks : scope = "all" \/ TypeOf[c] = scope}
  IN  IF scoped = {} THEN request.chunks ELSE scoped

Least(a, b) == IF a < b THEN a ELSE b

\* estimate_retrieval_confidence
Confidence(S) ==
  LET has(t) == t \in TypesOf(S)
      plus == Least(40 + 8 * Cardinality(S), 75)
                + (IF has("meeting_transcript") THEN 18 ELSE 0)
                + (IF has("knowledge") THEN 12 ELSE 0)
                + (IF /\ request.preset = "risk_review"
                      /\ TypesOf(S) \cap {"conversation", "message", "note"} # {}
                     THEN 12 ELSE 0)
                + (IF has("memory") THEN 5 ELSE 0)
      minus == (IF request.preset = "context_qa" /\ ~has("knowledge") THEN 25 ELSE 0)
                 + (IF request.preset = "meeting_brief" /\ ~has("meeting_transcript")
                      THEN 20 ELSE 0)
  IN  IF S = {} THEN 0 ELSE Least(plus - minus, 100)

\* The end of a step: its chunks are gathered and its attempt is noted; a chat
\* with enough confidence needs no further step.
EndStep(chunks, via) ==
  LET all == gathered \cup chunks
      enough == request.intent = "chat" /\ Confidence(all) >= MinConfidence
  IN  /\ gathered' = all
      /\ attempts' = Append(attempts, [hit |-> chunks # {}, via |-> via])
      /\ node' = IF enough \/ Len(attempts) + 1 >= Len(LoopSteps)
                   THEN "retrieve_context" ELSE "retrieval_loop"
      /\ selected' = {}
      /\ UNCHANGED <<configured, request, plan, context, sufficient>>

\* Local chunks are at hand: either the bridge is asked or the step ends.
AskBridge(local) ==
  /\ Request("tool_bridge")
  /\ selected' = local
  /\ UNCHANGED <<configured, request, node, plan, attempts, gathered, context,
                 sufficient>>

UseLocal(local) ==
  /\ EndStep(local, "preloaded_context")
  /\ EndCall

\* Without an answer of the RAG runtime the bridge is asked in any case; a
\* client that is not configured returns None.
BridgeOrLocal ==
  LET local == LocalRetrieval(Current.scope)
  IN  IF "tool_bridge" \in configured THEN AskBridge(local) ELSE UseLocal(local)

SkipLoop ==
  /\ InLoop
  /\ ~HasStep
  /\ node' = "retrieve_context"
  /\ UNCHANGED <<configured, call, request, plan, attempts, gathered, selected,
                 context, sufficient>>

StepCallsRag ==
  /\ InLoop
  /\ HasStep
  /\ ShouldCallRag
  /\ IF "rag_runtime" \in configured
       THEN /\ Request("rag_runtime")
            /\ UNCHANGED <<configured, request, node, plan, attempts, gathered,
                           selected, context, sufficient>>
       ELSE BridgeOrLocal

\* The request's own chunks will do; the bridge is asked when there are none.
StepStaysLocal ==
  /\ InLoop
  /\ HasStep
  /\ ~ShouldCallRag
  /\ LET local == LocalRetrieval(Current.scope)
     IN  IF local = {} /\ "tool_bridge" \in configured
           THEN AskBridge(local)
           ELSE UseLocal(local)

\* An empty answer is filled up with local chunks and counts as the runtime's.
RagAnswers ==
  /\ Awaiting("rag_runtime")
  /\ EndCall
  /\ \E chunks \in Replies :
       EndStep(IF chunks = {} THEN LocalRetrieval(Current.scope) ELSE chunks,
               "rag_runtime")

RagFails == Awaiting("rag_runtime") /\ BridgeOrLocal

\* The bridge's answer replaces the local chunks, even an empty one.
BridgeAnswers ==
  /\ node = "retrieval_loop"
  /\ Awaiting("tool_bridge")
  /\ EndCall
  /\ \E chunks \in Replies : EndStep(chunks, "tool_bridge")

BridgeFails ==
  /\ node = "retrieval_loop"
  /\ Awaiting("tool_bridge")
  /\ UseLocal(selected)

RetrievalRetries ==
  /\ node = "retrieval_loop"
  /\ Retry
  /\ UNCHANGED <<configured, request, node, plan, attempts, gathered, selected,
                 context, sufficient>>

-----------------------------------------------------------------------------
(***************************************************************************)
(* From the evidence to the gate                                           *)
(***************************************************************************)
\* retrieve_context: the request's chunks first, then what was gathered.
RetrieveContext ==
  /\ node = "retrieve_context"
  /\ context' = request.chunks \cup gathered
  /\ node' = "rerank_context"
  /\ UNCHANGED <<configured, call, request, plan, attempts, gathered, selected,
                 sufficient>>

\* rerank_context: the best of all; with entries in the run cache, the best of
\* the 2 * limit chunks with the highest scores, which is again any choice.
RerankContext ==
  /\ node = "rerank_context"
  /\ context' \in AtMost(RerankLimit, context)
  /\ node' = "sufficiency_gate"
  /\ UNCHANGED <<configured, call, request, plan, attempts, gathered, selected,
                 sufficient>>

Missing ==
  \/ context \cap Citable = {}
  \/ request.preset = "meeting_brief" /\ "meeting_transcript" \notin TypesOf(context)
  \/ request.preset = "context_qa" /\ context = {}
  \/ /\ request.intent = "risk"
     /\ {"meeting_transcript", "conversation", "message", "note"}
          \cap TypesOf(context) = {}
  \/ request.intent = "consult" /\ "knowledge" \notin TypesOf(context)

\* build_evidence_pack and sufficiency_gate
SufficiencyGate ==
  /\ node = "sufficiency_gate"
  /\ sufficient' =
       /\ ~Missing
       /\ Confidence(context) >= (IF request.intent = "chat" THEN 45 ELSE 55)
  /\ node' = "decompose"
  /\ UNCHANGED <<configured, call, request, plan, attempts, gathered, selected,
                 context>>

RetrievalNext ==
  \/ RetrievalPlanner
  \/ SkipLoop \/ StepCallsRag \/ StepStaysLocal
  \/ RagAnswers \/ RagFails \/ BridgeAnswers \/ BridgeFails \/ RetrievalRetries
  \/ RetrieveContext \/ RerankContext \/ SufficiencyGate
=============================================================================
