---------------------------- MODULE EvidenceProofs -----------------------------
(***************************************************************************)
(* Proofs about the retrieval and the bounded search that follows it, for  *)
(* all chunks, replies, requests, retries and thresholds.  The invariant   *)
(* has a part for each half of the graph and one for the call that a       *)
(* cancelled branch may still have under way.                              *)
(***************************************************************************)
EXTENDS ReactSearch, SequenceTheorems, FiniteSetTheorems, WellFoundedInduction,
        TLAPS

RetrievalNodes == {"retrieval_planner", "retrieval_loop", "retrieve_context",
                   "rerank_context", "sufficiency_gate", "decompose"}
SearchNodes == {"search", "tool_call", "tool_answer", "respond", "END"}

PlannedSteps == {Knowledge, AllContext, Transcripts}
Ways == {"preloaded_context", "rag_runtime", "tool_bridge"}
Attempt == [hit : BOOLEAN, via : Ways]
Call == [to : Services \cup {"nobody"}, attempt : 0..MaxAttempts]
Ends == {"", "cancelled", "goal_achieved", "confidence_plateau",
         "checkagent_early_stop", "citation_satisfied", "max_iterations"}
Search == [role : {"none", "searcher", "risk_analyst"}, cap : Nat,
           early : BOOLEAN, grouped : BOOLEAN, iteration : Nat, found : Nat, cited : SUBSET Citable,
           rounds : Seq(Nat), failed : SUBSET Nat, end : Ends]
Stops == {"", "tool_error", "max_iterations", "confidence_reached", "completed"}

EvidenceTypes ==
  /\ node \in RetrievalNodes \cup SearchNodes
  /\ call \in Call
  /\ plan \in Seq(PlannedSteps)
  /\ attempts \in Seq(Attempt)
  /\ search \in Search
  /\ cancel \in BOOLEAN
  /\ late \in Nat
  /\ loop \in [max : Nat, used : Nat, stop : Stops]

\* What can be going on at a node: a call is awaited at two of them only, and
\* the search has not begun before the last node of the retrieval.
Places ==
  /\ node \notin {"retrieval_loop", "tool_answer"} => call = NoCall
  /\ node = "tool_answer" => call.to = "tool_bridge"
  /\ node \in RetrievalNodes => search = NoSearch /\ ~cancel
  /\ node = "retrieval_planner" => attempts = <<>>
  /\ node \in {"search", "tool_call", "tool_answer"} => search.end = ""

\* An attempt under way has a step of its own, and when the bridge is asked
\* for a request with chunks, some of them are kept for its failure.
RetrievalInv ==
  /\ Len(attempts) <= MaxSteps
  /\ node = "retrieval_loop" /\ call # NoCall => Len(attempts) < Len(LoopSteps)
  /\ node = "retrieval_loop" /\ call.to = "tool_bridge" /\ request.chunks # {} =>
       selected # {}
  /\ FallbackKeepsEvidence

\* An iteration begins only while one is left.
SearchInv ==
  /\ node = "search" => search.iteration < Iterations
  /\ node \in {"tool_call", "tool_answer", "respond"} =>
       search.iteration \in 1..Iterations

\* All attempts begun after the cancellation belong to the call under way: a
\* search that decides to make one has not been cancelled before.
WindDownInv ==
  /\ ~cancel => late = 0
  /\ node = "tool_call" => late = 0
  /\ node = "tool_answer" => late <= call.attempt
  /\ late <= MaxAttempts

EInv == EvidenceTypes /\ Places /\ RetrievalInv /\ SearchInv /\ WindDownInv

-----------------------------------------------------------------------------
(***************************************************************************)
(* Operators of the retrieval                                              *)
(***************************************************************************)
LEMMA StepLimit == MaxSteps \in 1..3
BY DEF MaxSteps

\* A plan has a limit of attempts, however long it is itself.
LEMMA LoopStepsLength ==
  ASSUME plan \in Seq(PlannedSteps)
  PROVE  Len(LoopSteps) \in Nat /\ Len(LoopSteps) <= MaxSteps
<1> DEFINE n == IF Len(plan) < MaxSteps THEN Len(plan) ELSE MaxSteps
<1>1. Len(plan) \in Nat /\ DOMAIN plan = 1..Len(plan)
      /\ plan \in [1..Len(plan) -> PlannedSteps]
  BY LenProperties
<1>2. n \in Nat /\ n <= MaxSteps /\ n <= Len(plan)
  BY <1>1, StepLimit
<1> HIDE DEF n
<1>3. \A i \in 1..n : plan[i] \in PlannedSteps
  BY <1>1, <1>2
<1>4. Len(SubSeq(plan, 1, n)) = IF 1 <= n THEN n - 1 + 1 ELSE 0
  BY <1>2, <1>3, SubSeqProperties
<1>5. LoopSteps = SubSeq(plan, 1, n)
  BY DEF LoopSteps, n
<1> QED
  BY <1>2, <1>4, <1>5, StepLimit

\* A request that carries chunks finds some of them for every scope.
LEMMA LocalChunks ==
  ASSUME NEW scope, request.chunks # {}
  PROVE  LocalRetrieval(scope) # {}
BY DEF LocalRetrieval

LEMMA LeastPosition ==
  ASSUME NEW S \in SUBSET Nat, S # {}
  PROVE  Min(S) \in S
<1> DEFINE R == OpToRel(<, Nat)
<1>1. IsWellFoundedOn(R, Nat)
  BY NatLessThanWellFounded
<1>2. \A m, n \in Nat : m < n => <<m, n>> \in R
  BY DEF OpToRel
<1> HIDE DEF R
<1>3. PICK n \in S : \A m \in S : ~(<<m, n>> \in R)
  BY <1>1, WFMin
<1>4. \A m \in S : ~(m < n)
  BY <1>2, <1>3
<1>5. \A m \in S : n <= m
  BY <1>4
<1> QED
  BY <1>5 DEF Min

LEMMA KeptSteps ==
  ASSUME NEW step \in PlannedSteps
  PROVE  Kept(step) \in Seq(PlannedSteps)
<1>1. <<>> \in Seq(PlannedSteps) /\ <<step>> \in Seq(PlannedSteps)
  OBVIOUS
<1> QED
  BY <1>1 DEF Kept

LEMMA CandidateSteps ==
  /\ Candidates[1] \in PlannedSteps
  /\ Candidates[2] \in PlannedSteps
  /\ Candidates[3] \in PlannedSteps
BY DEF Candidates, PlannedSteps

LEMMA PlanType == PlanSteps \in Seq(PlannedSteps)
<1> DEFINE kept == Kept(Candidates[1]) \o Kept(Candidates[2]) \o Kept(Candidates[3])
           full == FullAt(kept)
           steps == IF full = {} THEN kept ELSE SubSeq(kept, 1, Min(full))
<1>1. kept \in Seq(PlannedSteps)
  BY CandidateSteps, KeptSteps, ConcatProperties
<1>2. PlanSteps = IF steps = <<>> /\ ToolAllowed("context_chunks")
                    THEN <<AllContext>>
                    ELSE [i \in DOMAIN steps |-> Planned(steps[i])]
  BY DEF PlanSteps
<1> HIDE DEF kept
<1>3. full \in SUBSET (1..Len(kept))
  BY <1>1, LenProperties DEF FullAt
<1>4. full # {} => Min(full) \in 1..Len(kept)
  BY <1>1, <1>3, LeastPosition, LenProperties
<1> HIDE DEF full
<1>5. steps \in Seq(PlannedSteps)
  <2>1. CASE full = {}
    BY <1>1, <2>1
  <2>2. CASE full # {}
    <3>1. \A i \in 1..Min(full) : kept[i] \in PlannedSteps
      BY <1>1, <1>4, <2>2, LenProperties
    <3>2. Min(full) \in Int
      BY <1>1, <1>4, <2>2, LenProperties
    <3> QED
      BY <2>2, <3>1, <3>2, SubSeqProperties
  <2> QED
    BY <2>1, <2>2
<1> HIDE DEF steps
<1>6. AllContext \in PlannedSteps
  BY DEF PlannedSteps
<1>7. <<AllContext>> \in Seq(PlannedSteps)
  BY <1>6
<1>8. [i \in DOMAIN steps |-> Planned(steps[i])] \in Seq(PlannedSteps)
  <2>1. /\ Len(steps) \in Nat /\ DOMAIN steps = 1..Len(steps)
        /\ \A i \in 1..Len(steps) : steps[i] \in PlannedSteps
    BY <1>5, LenProperties
  <2>2. \A i \in 1..Len(steps) : Planned(steps[i]) \in PlannedSteps
    BY <1>6, <2>1 DEF Planned
  <2> QED
    BY <2>1, <2>2
<1> QED
  BY <1>2, <1>7, <1>8


-----------------------------------------------------------------------------
(***************************************************************************)
(* The retrieval                                                           *)
(***************************************************************************)
LEMMA NoCallType == NoCall \in Call
BY RetrievalAssumption DEF NoCall, Call, MaxAttempts

LEMMA NoSearchType == NoSearch \in Search
<1>1. <<>> \in Seq(Nat)
  BY EmptySeq
<1> QED
  BY <1>1 DEF NoSearch, Search, Ends

LEMMA NoSearchFields ==
  /\ NoSearch.end = "" /\ NoSearch.iteration = 0
  /\ NoSearch.role = "none" /\ NoSearch.cap = 0 /\ NoSearch.cited = {}
  /\ ~NoSearch.grouped
BY DEF NoSearch

LEMMA EvidenceStarts == EvidenceInit => EInv
<1> SUFFICES ASSUME EvidenceInit PROVE EInv
  OBVIOUS
<1> USE DEF EvidenceInit, RetrievalInit, CallInit
<1>1. EvidenceTypes
  <2>1. plan \in Seq(PlannedSteps) /\ attempts \in Seq(Attempt)
    BY EmptySeq
  <2>2. loop \in [max : Nat, used : Nat, stop : Stops]
    BY DEF NoLoop, Stops
  <2> QED
    BY <2>1, <2>2, NoCallType, NoSearchType DEF EvidenceTypes, RetrievalNodes
<1>2. Places
  BY DEF Places
<1>3. RetrievalInv
  <2>1. Len(attempts) = 0 /\ DOMAIN attempts = {}
    BY EmptySeq
  <2> QED
    BY <2>1, StepLimit DEF RetrievalInv, FallbackKeepsEvidence
<1>4. SearchInv
  <2>1. node # "search" /\ node \notin {"tool_call", "tool_answer", "respond"}
    OBVIOUS
  <2> QED
    BY <2>1, Zenon DEF SearchInv
<1>5. WindDownInv
  BY RetrievalAssumption DEF WindDownInv, MaxAttempts
<1> QED
  BY <1>1, <1>2, <1>3, <1>4, <1>5 DEF EInv

\* A step of the retrieval leaves the search where it is.
LEMMA SearchUntouched ==
  ASSUME EInv, node' \in RetrievalNodes, node \in RetrievalNodes, UNCHANGED searchVars
  PROVE  /\ search' \in Search /\ cancel' \in BOOLEAN /\ late' \in Nat
         /\ loop' \in [max : Nat, used : Nat, stop : Stops]
         /\ search' = NoSearch /\ ~cancel'
         /\ SearchInv'
         /\ WindDownInv'
<1>1. /\ search' = search /\ cancel' = cancel /\ late' = late /\ loop' = loop
      /\ search = NoSearch /\ ~cancel /\ late = 0
  BY DEF searchVars, EInv, Places, WindDownInv
<1>2. SearchInv'
  <2>1. node' # "search" /\ node' \notin {"tool_call", "tool_answer", "respond"}
    BY DEF RetrievalNodes
  <2> QED
    BY <2>1, Zenon DEF SearchInv
<1>3. WindDownInv'
  BY <1>1, RetrievalAssumption DEF RetrievalNodes, WindDownInv, MaxAttempts
<1> QED
  BY <1>1, <1>2, <1>3 DEF EInv, EvidenceTypes

\* A step between two nodes of the retrieval that makes no call.
LEMMA QuietStep ==
  ASSUME EInv, node \in RetrievalNodes, call = NoCall,
         node' \in RetrievalNodes \ {"retrieval_planner"},
         UNCHANGED <<call, request, attempts>>,
         plan' \in Seq(PlannedSteps),
         UNCHANGED searchVars
  PROVE  EInv'
<1>1. EvidenceTypes'
  BY SearchUntouched DEF EInv, EvidenceTypes
<1>2. Places'
  BY SearchUntouched DEF Places, RetrievalNodes
<1>3. RetrievalInv'
  BY DEF EInv, RetrievalInv, FallbackKeepsEvidence, MaxSteps, NoCall
<1> QED
  BY <1>1, <1>2, <1>3, SearchUntouched DEF EInv

LEMMA PlannerKeeps ==
  ASSUME EInv, RetrievalPlanner, UNCHANGED searchVars
  PROVE  EInv'
<1>1. plan' \in Seq(PlannedSteps)
  BY PlanType, EmptySeq DEF RetrievalPlanner
<1> QED
  BY <1>1, QuietStep DEF RetrievalPlanner, RetrievalNodes, EInv, Places

LEMMA QuietActionsKeep ==
  ASSUME EInv, SkipLoop \/ RetrieveContext \/ RerankContext \/ SufficiencyGate,
         UNCHANGED searchVars
  PROVE  EInv'
<1>1. plan \in Seq(PlannedSteps)
  BY DEF EInv, EvidenceTypes
<1>2. CASE SkipLoop
  BY <1>1, <1>2, QuietStep DEF SkipLoop, InLoop, RetrievalNodes
<1>3. CASE RetrieveContext
  BY <1>1, <1>3, QuietStep DEF RetrieveContext, RetrievalNodes, EInv, Places
<1>4. CASE RerankContext
  BY <1>1, <1>4, QuietStep DEF RerankContext, RetrievalNodes, EInv, Places
<1>5. CASE SufficiencyGate
  BY <1>1, <1>5, QuietStep DEF SufficiencyGate, RetrievalNodes, EInv, Places
<1> QED
  BY <1>2, <1>3, <1>4, <1>5

\* The end of a step with chunks, or with an answer of the bridge, when the
\* request carries some.
LEMMA StepEnds ==
  ASSUME EInv, node = "retrieval_loop", Len(attempts) < Len(LoopSteps),
         NEW chunks, NEW via \in Ways, EndStep(chunks, via), EndCall,
         request.chunks # {} => chunks # {} \/ via = "tool_bridge",
         UNCHANGED searchVars
  PROVE  EInv'
<1>1. node' \in {"retrieve_context", "retrieval_loop"}
  BY DEF EndStep
<1>2. /\ request' = request /\ plan' = plan /\ call' = NoCall
      /\ attempts' = Append(attempts, [hit |-> chunks # {}, via |-> via])
  BY DEF EndStep, EndCall
<1>3. node \in RetrievalNodes /\ node' \in RetrievalNodes
  BY <1>1 DEF RetrievalNodes
<1>4. attempts \in Seq(Attempt) /\ [hit |-> chunks # {}, via |-> via] \in Attempt
  BY DEF EInv, EvidenceTypes, Attempt
<1>5. /\ attempts' \in Seq(Attempt)
      /\ Len(attempts') = Len(attempts) + 1
      /\ DOMAIN attempts = 1..Len(attempts) /\ Len(attempts) \in Nat
      /\ DOMAIN attempts' = 1..Len(attempts')
      /\ \A i \in 1..Len(attempts) : attempts'[i] = attempts[i]
      /\ attempts'[Len(attempts) + 1] = [hit |-> chunks # {}, via |-> via]
  BY <1>2, <1>4, AppendProperties, LenProperties
<1>6. EvidenceTypes'
  BY <1>2, <1>3, <1>5, SearchUntouched, NoCallType DEF EInv, EvidenceTypes
<1>7. Places'
  BY <1>1, <1>2, <1>3, SearchUntouched DEF Places
<1>8. RetrievalInv'
  <2>1. Len(attempts') <= MaxSteps'
    <3>1. Len(LoopSteps) \in Nat /\ Len(LoopSteps) <= MaxSteps
      BY LoopStepsLength DEF EInv, EvidenceTypes
    <3>2. MaxSteps' = MaxSteps
      BY <1>2 DEF MaxSteps
    <3> QED
      BY <1>5, <3>1, <3>2, StepLimit
  <2>2. FallbackKeepsEvidence'
    <3>1. SUFFICES ASSUME request.chunks # {}, NEW i \in DOMAIN attempts'
                   PROVE  attempts'[i].hit \/ attempts'[i].via = "tool_bridge"
      BY <1>2 DEF FallbackKeepsEvidence
    <3>2. CASE i \in 1..Len(attempts)
      BY <1>5, <3>1, <3>2 DEF EInv, RetrievalInv, FallbackKeepsEvidence
    <3>3. CASE i = Len(attempts) + 1
      <4> DEFINE noted == [hit |-> chunks # {}, via |-> via]
      <4>1. (noted.hit <=> chunks # {}) /\ noted.via = via
        OBVIOUS
      <4>2. attempts'[i] = noted
        BY <1>5, <3>3
      <4> HIDE DEF noted
      <4> QED
        BY <3>1, <4>1, <4>2
    <3> QED
      BY <1>5, <3>2, <3>3
  <2> QED
    BY <1>2, <2>1, <2>2 DEF RetrievalInv, NoCall
<1> QED
  BY <1>3, <1>6, <1>7, <1>8, SearchUntouched DEF EInv

\* A call begins or goes on at a step that has not been attempted yet.
LEMMA CallGoesOn ==
  ASSUME EInv, node = "retrieval_loop", Len(attempts) < Len(LoopSteps),
         call' \in Call,
         UNCHANGED <<node, request, plan, attempts>>,
         call'.to = "tool_bridge" /\ request.chunks # {} => selected' # {},
         UNCHANGED searchVars
  PROVE  EInv'
<1>1. node \in RetrievalNodes /\ node' \in RetrievalNodes
  BY DEF RetrievalNodes
<1>2. EvidenceTypes'
  BY <1>1, SearchUntouched DEF EInv, EvidenceTypes
<1>3. Places'
  BY <1>1, SearchUntouched DEF Places
<1>4. MaxSteps' = MaxSteps /\ LoopSteps' = LoopSteps
  BY DEF MaxSteps, LoopSteps
<1>5. RetrievalInv'
  BY <1>4 DEF EInv, RetrievalInv, FallbackKeepsEvidence
<1> QED
  BY <1>1, <1>2, <1>3, <1>5, SearchUntouched DEF EInv

LEMMA FirstAttempt ==
  ASSUME NEW service \in Services
  PROVE  [to |-> service, attempt |-> 1] \in Call
BY RetrievalAssumption DEF Call, MaxAttempts

LEMMA RetryType ==
  ASSUME call \in Call, Retry
  PROVE  /\ call' \in Call /\ call'.to = call.to
         /\ call'.attempt = call.attempt + 1
<1>1. /\ call.to \in Services \cup {"nobody"} /\ call.attempt \in 0..MaxAttempts
      /\ call.attempt < MaxAttempts /\ MaxAttempts \in Nat
  BY RetrievalAssumption DEF Retry, Call, MaxAttempts
<1>2. call.attempt + 1 \in 0..MaxAttempts
  BY <1>1
<1>3. call' = [call EXCEPT !.attempt = call.attempt + 1]
  BY DEF Retry
<1> QED
  BY <1>1, <1>2, <1>3 DEF Call

\* The bridge is asked with local chunks at hand, or they are used at once.
LEMMA LocalStep ==
  ASSUME EInv, node = "retrieval_loop", Len(attempts) < Len(LoopSteps),
         NEW local, request.chunks # {} => local # {},
         AskBridge(local) \/ UseLocal(local),
         UNCHANGED searchVars
  PROVE  EInv'
<1>1. CASE AskBridge(local)
  <2>1. call' \in Call
    BY <1>1, FirstAttempt DEF AskBridge, Request, Services
  <2> QED
    BY <1>1, <2>1, CallGoesOn DEF AskBridge
<1>2. CASE UseLocal(local)
  <2>1. EndStep(local, "preloaded_context") /\ EndCall
    BY <1>2 DEF UseLocal
  <2> QED
    BY <2>1, StepEnds DEF Ways
<1> QED
  BY <1>1, <1>2

LEMMA BridgeOrLocalKeeps ==
  ASSUME EInv, node = "retrieval_loop", Len(attempts) < Len(LoopSteps),
         BridgeOrLocal, UNCHANGED searchVars
  PROVE  EInv'
<1> DEFINE local == LocalRetrieval(Current.scope)
<1>1. request.chunks # {} => local # {}
  BY LocalChunks
<1>2. AskBridge(local) \/ UseLocal(local)
  BY DEF BridgeOrLocal
<1> QED
  BY <1>1, <1>2, LocalStep

LEMMA StepCallsRagKeeps ==
  ASSUME EInv, StepCallsRag, UNCHANGED searchVars
  PROVE  EInv'
<1>1. node = "retrieval_loop" /\ Len(attempts) < Len(LoopSteps)
  BY DEF StepCallsRag, InLoop, HasStep
<1>2. CASE "rag_runtime" \in configured
  <2>1. call' = [to |-> "rag_runtime", attempt |-> 1]
        /\ UNCHANGED <<node, request, plan, attempts>>
    BY <1>2 DEF StepCallsRag, Request
  <2>2. call' \in Call /\ call'.to # "tool_bridge"
    BY <2>1, FirstAttempt DEF Services
  <2> QED
    BY <1>1, <2>1, <2>2, CallGoesOn
<1>3. CASE "rag_runtime" \notin configured
  BY <1>1, <1>3, BridgeOrLocalKeeps DEF StepCallsRag
<1> QED
  BY <1>2, <1>3

LEMMA StepStaysLocalKeeps ==
  ASSUME EInv, StepStaysLocal, UNCHANGED searchVars
  PROVE  EInv'
<1> DEFINE local == LocalRetrieval(Current.scope)
<1>1. node = "retrieval_loop" /\ Len(attempts) < Len(LoopSteps)
  BY DEF StepStaysLocal, InLoop, HasStep
<1>2. request.chunks # {} => local # {}
  BY LocalChunks
<1>3. AskBridge(local) \/ UseLocal(local)
  BY DEF StepStaysLocal
<1> QED
  BY <1>1, <1>2, <1>3, LocalStep

\* Whoever awaits a service in the loop has a step to end.
LEMMA AwaitingHasStep ==
  ASSUME EInv, node = "retrieval_loop", call.to \in Services
  PROVE  Len(attempts) < Len(LoopSteps)
<1>1. call # NoCall
  BY DEF NoCall, Services
<1> QED
  BY <1>1 DEF EInv, RetrievalInv

LEMMA RagStepsKeep ==
  ASSUME EInv, RagAnswers \/ RagFails, UNCHANGED searchVars
  PROVE  EInv'
<1>1. call.to = "rag_runtime"
  BY DEF RagAnswers, RagFails, Awaiting
<1>2. node = "retrieval_loop"
  <2>1. NoCall.to # "rag_runtime"
    BY DEF NoCall
  <2> QED
    BY <1>1, <2>1 DEF EInv, Places
<1>3. Len(attempts) < Len(LoopSteps)
  BY <1>1, <1>2, AwaitingHasStep DEF Services
<1>4. CASE RagAnswers
  <2>1. PICK chunks \in Replies :
          EndStep(IF chunks = {} THEN LocalRetrieval(Current.scope) ELSE chunks,
                  "rag_runtime")
    BY <1>4 DEF RagAnswers
  <2> DEFINE some == IF chunks = {} THEN LocalRetrieval(Current.scope) ELSE chunks
  <2>2. request.chunks # {} => some # {}
    BY LocalChunks
  <2>3. EndStep(some, "rag_runtime") /\ EndCall
    BY <1>4, <2>1 DEF RagAnswers
  <2> HIDE DEF some
  <2> QED
    BY <1>2, <1>3, <2>2, <2>3, StepEnds DEF Ways
<1>5. CASE RagFails
  BY <1>2, <1>3, <1>5, BridgeOrLocalKeeps DEF RagFails
<1> QED
  BY <1>4, <1>5

LEMMA BridgeStepsKeep ==
  ASSUME EInv, BridgeAnswers \/ BridgeFails, UNCHANGED searchVars
  PROVE  EInv'
<1>1. node = "retrieval_loop" /\ call.to = "tool_bridge"
  BY DEF BridgeAnswers, BridgeFails, Awaiting
<1>2. Len(attempts) < Len(LoopSteps)
  BY <1>1, AwaitingHasStep DEF Services
<1>3. CASE BridgeAnswers
  <2>1. PICK chunks \in Replies : EndStep(chunks, "tool_bridge") /\ EndCall
    BY <1>3 DEF BridgeAnswers
  <2> QED
    BY <1>1, <1>2, <2>1, StepEnds DEF Ways
<1>4. CASE BridgeFails
  <2>1. request.chunks # {} => selected # {}
    BY <1>1 DEF EInv, RetrievalInv
  <2> QED
    BY <1>1, <1>2, <1>4, <2>1, LocalStep DEF BridgeFails
<1> QED
  BY <1>3, <1>4

LEMMA RetrievalRetriesKeeps ==
  ASSUME EInv, RetrievalRetries, UNCHANGED searchVars
  PROVE  EInv'
<1>1. /\ node = "retrieval_loop" /\ call.to \in Services /\ Retry
      /\ UNCHANGED <<node, request, plan, attempts, selected>>
  BY DEF RetrievalRetries, Retry
<1>2. call' \in Call /\ call'.to = call.to
  BY <1>1, RetryType DEF EInv, EvidenceTypes
<1>3. call'.to = "tool_bridge" /\ request.chunks # {} => selected' # {}
  BY <1>1, <1>2 DEF EInv, RetrievalInv
<1> QED
  BY <1>1, <1>2, <1>3, AwaitingHasStep, CallGoesOn

LEMMA RetrievalKeeps ==
  ASSUME EInv, RetrievalNext, UNCHANGED searchVars
  PROVE  EInv'
BY PlannerKeeps, QuietActionsKeep, StepCallsRagKeeps, StepStaysLocalKeeps,
   RagStepsKeep, BridgeStepsKeep, RetrievalRetriesKeeps DEF RetrievalNext


-----------------------------------------------------------------------------
(***************************************************************************)
(* Operators of the search                                                 *)
(***************************************************************************)
LEMMA IterationLimit ==
  ASSUME search \in Search
  PROVE  /\ RequestedCap \in Nat /\ RequestedCap >= 1
         /\ Iterations \in 1..3 /\ Iterations <= RequestedCap
<1>1. search.cap \in Nat
  BY DEF Search
<1>2. RequestedCap \in Nat /\ RequestedCap >= 1
  BY <1>1 DEF RequestedCap, DefaultCap
<1> QED
  BY <1>2 DEF Iterations, Least

LEMMA CitedIsFinite ==
  ASSUME NEW S \in SUBSET Citable
  PROVE  Cardinality(S) \in Nat
<1>1. IsFiniteSet(S)
  BY RetrievalAssumption, FS_Subset
<1> QED
  BY <1>1, FS_CardinalityType

LEMMA RoundConfidenceType ==
  ASSUME NEW s \in Search, s.iteration \in 1..3
  PROVE  RoundConfidence(s) \in Nat
<1> DEFINE base == 350 + s.found * 100 + If(Has(s, "meeting_transcript"), 150)
                     + If(Has(s, "knowledge"), 100)
           factor == <<100, 90, 81>>[s.iteration]
<1>1. /\ If(Has(s, "meeting_transcript"), 150) \in Nat
      /\ If(Has(s, "knowledge"), 100) \in Nat
  BY DEF If
<1>2. s.found \in Nat
  BY DEF Search
<1>3. base \in Nat
  BY <1>1, <1>2
<1>4. factor \in Nat
  BY DEF Search
<1>5. RoundConfidence(s) = Least(base * factor, 95000)
  BY DEF RoundConfidence
<1> HIDE DEF base, factor
<1>6. base * factor \in Nat
  BY <1>3, <1>4
<1> QED
  BY <1>5, <1>6 DEF Least

Outcomes == {"", "goal_achieved", "citation_satisfied", "max_iterations"}

\* A search goes on only while an iteration is left.
LEMMA TriggerMeaning ==
  ASSUME NEW s \in Search
  PROVE  /\ Trigger(s) \in Outcomes
         /\ Trigger(s) = "" => s.iteration # Iterations
<1> DEFINE gate == s.early /\ QualityGate(s)
           rest == IF s.role = "searcher" /\ s.iteration >= 2 /\ s.found > 0
                     THEN "citation_satisfied"
                   ELSE IF s.iteration = Iterations THEN "max_iterations" ELSE ""
<1>1. gate => GoalReached(s)
  BY Zenon DEF QualityGate
<1>2. Trigger(s) =
        CASE gate /\ GoalReached(s) -> "goal_achieved"
          [] gate /\ ~GoalReached(s) /\ Plateau(s) -> "confidence_plateau"
          [] gate /\ ~GoalReached(s) /\ ~Plateau(s) /\ s.iteration >= 2
               /\ InlineCheckStops(s) -> "checkagent_early_stop"
          [] OTHER -> rest
  BY Zenon DEF Trigger
<1> HIDE DEF gate, rest
<1>3. Trigger(s) = IF gate THEN "goal_achieved" ELSE rest
  BY <1>1, <1>2
<1>4. /\ rest \in {"", "citation_satisfied", "max_iterations"}
      /\ rest = "" => s.iteration # Iterations
  BY DEF rest, Search
<1> QED
  BY <1>1, <1>3, <1>4 DEF Outcomes

\* What an iteration adds to the search.
Noted(s, cites, failed) ==
  [s EXCEPT !.found = @ + Cardinality(cites),
            !.cited = @ \cup cites,
            !.failed = IF failed THEN @ \cup {s.iteration} ELSE @]
Judged(t) ==
  [t EXCEPT !.rounds = IF t.early THEN Append(@, RoundConfidence(t)) ELSE @]

LEMMA Observed ==
  ASSUME NEW s \in Search, NEW cites \in SUBSET Citable, NEW failed \in BOOLEAN,
         s.iteration \in 1..3,
         NEW r, r = Judged(Noted(s, cites, failed))
  PROVE  /\ r \in Search
         /\ r.role = s.role /\ r.cap = s.cap /\ r.iteration = s.iteration
<1> DEFINE found == s.found + Cardinality(cites)
           wrong == IF failed THEN s.failed \cup {s.iteration} ELSE s.failed
           t == Noted(s, cites, failed)
           rounds == IF t.early THEN Append(t.rounds, RoundConfidence(t))
                     ELSE t.rounds
<1>1. found \in Nat
  BY CitedIsFinite DEF Search
<1>2. wrong \in SUBSET Nat /\ s.cited \cup cites \in SUBSET Citable
  BY DEF Search
<1> HIDE DEF found, wrong
<1>3. /\ t \in Search
      /\ t.role = s.role /\ t.cap = s.cap /\ t.iteration = s.iteration
  <2>1. t = [s EXCEPT !.found = found, !.cited = s.cited \cup cites,
                      !.failed = wrong]
    BY DEF Noted, found, wrong
  <2> HIDE DEF t
  <2> QED
    BY <1>1, <1>2, <2>1 DEF Search
<1> HIDE DEF t
<1>4. rounds \in Seq(Nat)
  <2>1. t.rounds \in Seq(Nat)
    BY <1>3 DEF Search
  <2>2. RoundConfidence(t) \in Nat
    BY <1>3, RoundConfidenceType
  <2> QED
    BY <2>1, <2>2, AppendProperties
<1> HIDE DEF rounds
<1>5. /\ r \in Search
      /\ r.role = t.role /\ r.cap = t.cap /\ r.iteration = t.iteration
  <2>1. r = [t EXCEPT !.rounds = rounds]
    BY DEF Judged, rounds, t
  <2> QED
    BY <1>3, <1>4, <2>1 DEF Search
<1> QED
  BY <1>3, <1>5

-----------------------------------------------------------------------------
(***************************************************************************)
(* The search                                                              *)
(***************************************************************************)
\* What the search inherits from the retrieval it leaves where it is.
LEMMA RetrievalUntouched ==
  ASSUME EInv, node' \in SearchNodes, KeepRetrieval
  PROVE  /\ RetrievalInv'
         /\ plan' \in Seq(PlannedSteps) /\ attempts' \in Seq(Attempt)
<1>1. request' = request /\ plan' = plan /\ attempts' = attempts
  BY DEF KeepRetrieval
<1>2. node' # "retrieval_loop"
  BY DEF SearchNodes
<1>3. Len(attempts) <= MaxSteps /\ FallbackKeepsEvidence
  BY DEF EInv, RetrievalInv
<1>4. MaxSteps' = MaxSteps
  BY <1>1 DEF MaxSteps
<1>5. Len(attempts') <= MaxSteps'
  BY <1>1, <1>3, <1>4, Zenon
<1>6. FallbackKeepsEvidence'
  BY <1>1, <1>3, Zenon DEF FallbackKeepsEvidence
<1>7. RetrievalInv'
  BY <1>2, <1>5, <1>6, Zenon DEF RetrievalInv
<1> QED
  BY <1>1, <1>7 DEF EInv, EvidenceTypes

\* A step that leaves the search alone, and the cancellation with it.
LEMMA SearchStays ==
  ASSUME EInv, node' \in SearchNodes, search' = search,
         node' = "search" => node = "search",
         node' \in {"tool_call", "tool_answer", "respond"} =>
           node \in {"tool_call", "tool_answer", "respond"}
  PROVE  SearchInv'
<1>1. Iterations' = Iterations
  BY DEF Iterations, RequestedCap, DefaultCap
<1>2. /\ node = "search" => search.iteration < Iterations
      /\ node \in {"tool_call", "tool_answer", "respond"} =>
           search.iteration \in 1..Iterations
  BY Zenon DEF EInv, SearchInv
<1>3. /\ node' = "search" => search'.iteration < Iterations'
      /\ node' \in {"tool_call", "tool_answer", "respond"} =>
           search'.iteration \in 1..Iterations'
  BY <1>1, <1>2
<1> QED
  BY <1>3, Zenon DEF SearchInv

LEMMA StartRoleKeeps ==
  ASSUME EInv, StartRole
  PROVE  EInv'
<1>1. PICK role \in {"searcher", "risk_analyst"}, cap \in IterationCaps,
           early \in BOOLEAN, grouped \in BOOLEAN :
        search' = [NoSearch EXCEPT !.role = role, !.cap = cap,
                                   !.early = early, !.grouped = grouped]
  BY DEF StartRole
<1>2. /\ node' = "search" /\ call' = NoCall /\ plan' = <<>> /\ attempts' = <<>>
      /\ UNCHANGED <<cancel, late, loop>>
  BY DEF StartRole, At
<1>3. cap \in Nat
  BY SearchAssumption
<1>4. /\ search' \in Search /\ search'.iteration = 0 /\ search'.end = ""
  <2>1. ASSUME NEW s \in Search, NEW t,
               t = [s EXCEPT !.role = role, !.cap = cap, !.early = early,
                             !.grouped = grouped]
        PROVE  /\ t \in Search /\ t.iteration = s.iteration
               /\ t.end = s.end
    BY <1>3, <2>1 DEF Search
  <2> QED
    BY <1>1, <2>1, NoSearchType, NoSearchFields
<1>5. ~cancel /\ late = 0
  BY DEF StartRole, At, EInv, Places, RetrievalNodes, WindDownInv
<1>6. EvidenceTypes'
  BY <1>2, <1>4, NoCallType, EmptySeq DEF EInv, EvidenceTypes, SearchNodes
<1>7. Places'
  BY <1>2, <1>4 DEF Places, RetrievalNodes
<1>8. RetrievalInv'
  <2>1. Len(attempts') = 0 /\ DOMAIN attempts' = {}
    BY <1>2, EmptySeq
  <2>2. FallbackKeepsEvidence'
    BY <2>1 DEF FallbackKeepsEvidence
  <2>3. MaxSteps' \in 1..3
    BY DEF MaxSteps
  <2>4. Len(attempts') <= MaxSteps'
    BY <2>1, <2>3
  <2> QED
    BY <1>2, <2>2, <2>4 DEF RetrievalInv
<1>9. SearchInv'
  <2>1. Iterations' \in 1..3
    <3>1. search'.cap \in Nat
      BY <1>4 DEF Search
    <3> QED
      BY <3>1 DEF Iterations, RequestedCap, DefaultCap, Least
  <2>2. search'.iteration < Iterations'
    <3>1. 0 < Iterations'
      BY <2>1
    <3> QED
      BY <1>4, <3>1, Zenon
  <2> QED
    BY <1>2, <2>2 DEF SearchInv
<1>10. WindDownInv'
  BY <1>2, <1>5, RetrievalAssumption DEF WindDownInv, MaxAttempts
<1> QED
  BY <1>6, <1>7, <1>8, <1>9, <1>10 DEF EInv

\* A cancelled search ends without a result.
LEMMA SearchCancelledKeeps ==
  ASSUME EInv, SearchCancelled, call' = NoCall, KeepRetrieval,
         UNCHANGED <<cancel, late, loop>>
  PROVE  EInv'
<1>1. node' = "END" /\ search' = [search EXCEPT !.end = "cancelled"]
  BY DEF SearchCancelled
<1>2. search \in Search
  BY DEF EInv, EvidenceTypes
<1>3. /\ search' \in Search /\ search'.end = "cancelled"
  BY <1>1, <1>2 DEF Search, Ends
<1>4. node' \in SearchNodes
  BY <1>1 DEF SearchNodes
<1>5. EvidenceTypes'
  BY <1>3, <1>4, RetrievalUntouched, NoCallType DEF EInv, EvidenceTypes
<1>6. Places'
  BY <1>1 DEF Places, RetrievalNodes
<1>7. SearchInv'
  BY <1>1 DEF SearchInv
<1>8. WindDownInv'
  BY <1>1 DEF EInv, WindDownInv, MaxAttempts
<1> QED
  BY <1>4, <1>5, <1>6, <1>7, <1>8, RetrievalUntouched DEF EInv

\* An iteration that was decided on while the branch was not cancelled notes
\* what it has found.
LEMMA ObserveKeeps ==
  ASSUME EInv, node \in {"tool_call", "tool_answer"},
         NEW chunks, NEW failed \in BOOLEAN, Observe(chunks, failed),
         call' = NoCall, KeepRetrieval, UNCHANGED <<cancel, late, loop>>
  PROVE  EInv'
<1> DEFINE cites == chunks \cap Citable
           r == Judged(Noted(search, cites, failed))
<1>1. /\ search \in Search /\ Iterations \in 1..3
      /\ search.iteration \in 1..Iterations
  BY IterationLimit DEF EInv, EvidenceTypes, SearchInv
<1>2. search.iteration \in 1..3 /\ search.iteration \in Nat
  BY <1>1
<1>3. cites \in SUBSET Citable
  OBVIOUS
<1>4. /\ search' = [r EXCEPT !.end = Trigger(r)]
      /\ node' = IF Trigger(r) = "" THEN "search" ELSE "respond"
  BY Zenon DEF Observe, Judged, Noted
<1> HIDE DEF cites
<1>5. PICK s : s = r
  OBVIOUS
<1>6. /\ s \in Search
      /\ s.role = search.role /\ s.cap = search.cap
      /\ s.iteration = search.iteration
  BY <1>1, <1>2, <1>3, <1>5, Observed
<1> HIDE DEF r
<1>7. PICK e \in Outcomes :
        /\ e = Trigger(s)
        /\ e = "" => s.iteration # Iterations
  BY <1>6, TriggerMeaning
<1>8. /\ search' = [s EXCEPT !.end = e]
      /\ node' = IF e = "" THEN "search" ELSE "respond"
  BY <1>4, <1>5, <1>7
<1>9. e \in Ends
  BY DEF Ends, Outcomes
<1>10. /\ search' \in Search /\ search'.end = e
       /\ search'.role = s.role /\ search'.cap = s.cap
       /\ search'.iteration = s.iteration
  BY <1>6, <1>8, <1>9 DEF Search
<1>12. node' \in SearchNodes /\ node' \in {"search", "respond"}
  BY <1>8 DEF SearchNodes
<1>13. EvidenceTypes'
  BY <1>10, <1>12, RetrievalUntouched, NoCallType DEF EInv, EvidenceTypes
<1>14. Places'
  BY <1>8, <1>10, <1>12 DEF Places, RetrievalNodes
<1>15. SearchInv'
  <2>1. Iterations' = Iterations
    BY <1>6, <1>10 DEF Iterations, RequestedCap, DefaultCap
  <2>2. search'.iteration \in 1..Iterations'
    BY <1>1, <1>6, <1>10, <2>1
  <2>3. node' = "search" => search'.iteration < Iterations'
    <3>1. PICK n \in Nat : n = search'.iteration
      BY <1>10 DEF Search
    <3>2. n \in 1..Iterations' /\ Iterations' \in 1..3
      BY <1>1, <2>1, <2>2, <3>1
    <3>3. node' = "search" => n # Iterations'
      BY <1>7, <1>8, <1>10, <2>1, <3>1
    <3>4. ASSUME node' = "search"
          PROVE  n < Iterations'
      <4>1. n # Iterations'
        BY <3>3, <3>4, Zenon
      <4> QED
        BY <3>2, <4>1
    <3> QED
      BY <3>1, <3>4, Zenon
  <2> QED
    BY <2>2, <2>3 DEF SearchInv
<1>16. WindDownInv'
  BY <1>12 DEF EInv, WindDownInv, MaxAttempts
<1> QED
  BY <1>12, <1>13, <1>14, <1>15, <1>16, RetrievalUntouched DEF EInv


LEMMA BeginIterationKeeps ==
  ASSUME EInv, BeginIteration
  PROVE  EInv'
<1>1. node = "search" /\ call = NoCall /\ call' = NoCall /\ KeepRetrieval
      /\ UNCHANGED <<cancel, late, loop>>
  BY DEF BeginIteration, At
<1>2. CASE MustStop
  BY <1>1, <1>2, SearchCancelledKeeps DEF BeginIteration
<1>3. CASE ~MustStop
  <2>1. /\ node' = "tool_call" /\ ~cancel
        /\ search' = [search EXCEPT !.iteration = search.iteration + 1]
    BY <1>3 DEF BeginIteration, MustStop
  <2> DEFINE Going == search.end = ""
  <2>0. Going
    BY <1>1, Zenon DEF EInv, Places
  <2>2. /\ search \in Search /\ Iterations \in 1..3
        /\ search.iteration \in Nat
    BY <1>1, IterationLimit DEF EInv, EvidenceTypes, Search
  <2>3. search.iteration < Iterations
    BY <1>1, Zenon DEF EInv, SearchInv
  <2>4. search.iteration + 1 \in 1..Iterations
    BY <2>2, <2>3
  <2>5. search.iteration + 1 \in Nat
    BY <2>2
  <2>6. /\ search' \in Search /\ search'.iteration = search.iteration + 1
        /\ search'.role = search.role /\ search'.cap = search.cap
        /\ search'.end = search.end
    <3>1. ASSUME NEW s \in Search, NEW n \in Nat, NEW t, t = [s EXCEPT !.iteration = n]
          PROVE  /\ t \in Search /\ t.iteration = n
                 /\ t.role = s.role /\ t.cap = s.cap /\ t.end = s.end
      BY <3>1 DEF Search
    <3> QED
      BY <2>1, <2>2, <2>5, <3>1
  <2>7. node' \in SearchNodes
    BY <2>1 DEF SearchNodes
  <2>8. EvidenceTypes'
    BY <1>1, <2>6, <2>7, RetrievalUntouched, NoCallType DEF EInv, EvidenceTypes
  <2>9. Places'
    <3>1. search'.end = ""
      BY <2>0, <2>6, Zenon
    <3> QED
      BY <1>1, <2>1, <3>1 DEF Places, RetrievalNodes
  <2>10. SearchInv'
    <3>1. Iterations' = Iterations
      BY <2>6 DEF Iterations, RequestedCap, DefaultCap
    <3>2. search'.iteration \in 1..Iterations'
      BY <2>4, <2>6, <3>1
    <3>3. node' # "search"
      BY <2>1
    <3> QED
      BY <3>2, <3>3, Zenon DEF SearchInv
  <2>11. WindDownInv'
    BY <1>1, <2>1 DEF EInv, WindDownInv, MaxAttempts
  <2> QED
    BY <2>7, <2>8, <2>9, <2>10, <2>11, <1>1, RetrievalUntouched DEF EInv
<1> QED
  BY <1>2, <1>3

\* A request, a retry or a cancellation leaves what the search has found.
LEMMA CallStepKeeps ==
  ASSUME EInv, node' \in SearchNodes, KeepRetrieval, call' \in Call,
         UNCHANGED <<search, loop>>, cancel' \in BOOLEAN, late' \in Nat,
         Places', WindDownInv',
         node' = "search" => node = "search",
         node' \in {"tool_call", "tool_answer", "respond"} =>
           node \in {"tool_call", "tool_answer", "respond"}
  PROVE  EInv'
<1>1. EvidenceTypes'
  BY RetrievalUntouched DEF EInv, EvidenceTypes
<1> QED
  BY <1>1, RetrievalUntouched, SearchStays DEF EInv

LEMMA SendRequestKeeps ==
  ASSUME EInv, SendRequest
  PROVE  EInv'
<1>1. /\ node = "tool_call" /\ node' = "tool_answer" /\ KeepRetrieval
      /\ call' = [to |-> "tool_bridge", attempt |-> 1]
      /\ late' = IF cancel THEN late + 1 ELSE late
      /\ UNCHANGED <<search, cancel, loop>>
  BY DEF SendRequest, At, Request
<1>2. call' \in Call /\ call'.to = "tool_bridge" /\ call'.attempt = 1
  BY <1>1, FirstAttempt DEF Services
<1>3. late = 0 /\ cancel \in BOOLEAN
  BY <1>1 DEF EInv, EvidenceTypes, WindDownInv
<1>4. late' \in 0..1 /\ (~cancel' => late' = 0)
  BY <1>1, <1>3
<1>5. Places'
  BY <1>1, <1>2 DEF EInv, Places, RetrievalNodes
<1>6. WindDownInv'
  BY <1>1, <1>2, <1>4, RetrievalAssumption DEF WindDownInv, MaxAttempts
<1>7. node' \in SearchNodes
  BY <1>1 DEF SearchNodes
<1> QED
  BY <1>1, <1>2, <1>3, <1>4, <1>5, <1>6, <1>7, CallStepKeeps

\* A call has no more attempts than MaxAttempts, so that the attempts of the
\* one under way are all that begin after the cancellation.
LEMMA SearchRetriesKeeps ==
  ASSUME EInv, SearchRetries
  PROVE  EInv'
<1>1. /\ node = "tool_answer" /\ node' = node /\ KeepRetrieval /\ Retry
      /\ late' = IF cancel THEN late + 1 ELSE late
      /\ UNCHANGED <<search, cancel, loop>>
  BY DEF SearchRetries
<1>2. /\ call' \in Call /\ call'.to = call.to
      /\ call'.attempt = call.attempt + 1
  BY <1>1, RetryType DEF EInv, EvidenceTypes
<1>3. /\ late \in Nat /\ late <= call.attempt /\ (~cancel => late = 0)
      /\ cancel \in BOOLEAN /\ call.attempt \in Nat
  BY <1>1 DEF EInv, EvidenceTypes, WindDownInv, Call
<1>4. late' \in Nat /\ late' <= call'.attempt /\ (~cancel' => late' = 0)
  BY <1>1, <1>2, <1>3
<1>5. late' <= MaxAttempts
  <2>1. /\ call'.attempt \in Nat /\ call'.attempt <= MaxAttempts
        /\ MaxAttempts \in Nat
    BY <1>2, RetrievalAssumption DEF Call, MaxAttempts
  <2> QED
    BY <1>4, <2>1
<1>6. Places'
  BY <1>1, <1>2 DEF EInv, Places, RetrievalNodes
<1>7. MaxAttempts' = MaxAttempts /\ node' = "tool_answer"
  BY <1>1 DEF MaxAttempts
<1>8. WindDownInv'
  BY <1>4, <1>5, <1>7 DEF WindDownInv
<1>9. node' \in SearchNodes
  BY <1>1 DEF SearchNodes
<1> QED
  BY <1>1, <1>2, <1>3, <1>4, <1>6, <1>8, <1>9, CallStepKeeps

LEMMA AnswersKeep ==
  ASSUME EInv, ToolAnswers \/ ToolFails \/ NoToolAnswer
  PROVE  EInv'
<1>1. /\ node \in {"tool_call", "tool_answer"} /\ call' = NoCall
      /\ KeepRetrieval /\ UNCHANGED <<cancel, late, loop>>
  BY DEF ToolAnswers, ToolFails, NoToolAnswer, At, EndCall
<1>2. SearchCancelled \/ \E chunks : \E failed \in BOOLEAN : Observe(chunks, failed)
  <2>1. CASE ToolAnswers
    BY <2>1 DEF ToolAnswers
  <2>2. CASE ToolFails
    BY <2>2 DEF ToolFails
  <2>3. CASE NoToolAnswer
    BY <2>3 DEF NoToolAnswer
  <2> QED
    BY <2>1, <2>2, <2>3
<1>3. CASE SearchCancelled
  BY <1>1, <1>3, SearchCancelledKeeps
<1>4. CASE \E chunks : \E failed \in BOOLEAN : Observe(chunks, failed)
  BY <1>1, <1>4, ObserveKeeps
<1> QED
  BY <1>2, <1>3, <1>4

\* A branch can be cancelled only while it searches.
LEMMA SiblingFailsKeeps ==
  ASSUME EInv, SiblingFails
  PROVE  EInv'
<1>1. /\ search.grouped /\ cancel' = TRUE /\ KeepRetrieval
      /\ UNCHANGED <<node, call, search, late, loop>>
  BY DEF SiblingFails
<1>2. node \in SearchNodes /\ node \notin RetrievalNodes
  <2>1. node \in RetrievalNodes => search = NoSearch
    BY DEF EInv, Places
  <2> QED
    BY <1>1, <2>1, NoSearchFields DEF EInv, EvidenceTypes
<1>3. call' \in Call /\ late' \in Nat /\ cancel' \in BOOLEAN
  BY <1>1 DEF EInv, EvidenceTypes
<1>4. Places'
  <2>1. node # "retrieval_planner"
    BY <1>2 DEF RetrievalNodes
  <2>2. /\ node' = node /\ call' = call /\ search' = search
    BY <1>1
  <2>3. Places
    BY DEF EInv
  <2> QED
    BY <1>2, <2>1, <2>2, <2>3, Zenon DEF Places
<1>5. WindDownInv'
  BY <1>1 DEF EInv, WindDownInv, MaxAttempts
<1> QED
  BY <1>1, <1>2, <1>3, <1>4, <1>5, CallStepKeeps

LEMMA RespondKeeps ==
  ASSUME EInv, Respond
  PROVE  EInv'
<1>1. /\ node = "respond" /\ node' = "END" /\ call' = NoCall /\ KeepRetrieval
      /\ loop' = [max |-> RoleMaxSteps, used |-> search.iteration, stop |-> LoopStop]
      /\ UNCHANGED <<search, cancel, late>>
  BY DEF Respond, At
<1>2. search \in Search /\ search.iteration \in Nat
  BY DEF EInv, EvidenceTypes, Search
<1>3. RoleMaxSteps \in Nat
  BY <1>2, IterationLimit, SearchAssumption DEF RoleMaxSteps, Least
<1>4. LoopStop \in Stops
  BY DEF LoopStop, Stops
<1>5. loop' \in [max : Nat, used : Nat, stop : Stops]
  BY <1>1, <1>2, <1>3, <1>4
<1>6. node' \in SearchNodes
  BY <1>1 DEF SearchNodes
<1>7. EvidenceTypes'
  BY <1>1, <1>5, <1>6, RetrievalUntouched, NoCallType DEF EInv, EvidenceTypes
<1>8. Places'
  BY <1>1 DEF Places, RetrievalNodes
<1>9. SearchInv'
  BY <1>1, <1>6, SearchStays
<1>10. WindDownInv'
  BY <1>1 DEF EInv, WindDownInv, MaxAttempts
<1> QED
  BY <1>1, <1>6, <1>7, <1>8, <1>9, <1>10, RetrievalUntouched DEF EInv

LEMMA EvidenceStands ==
  ASSUME EInv, UNCHANGED evidenceVars
  PROVE  EInv'
<1>1. /\ UNCHANGED <<configured, call, request, node, plan, attempts, gathered,
                     selected, context, sufficient>>
      /\ UNCHANGED <<search, cancel, late, loop>>
  BY DEF evidenceVars, retrievalVars, searchVars
<1>2. EvidenceTypes' /\ Places' /\ WindDownInv'
  BY <1>1 DEF EInv, EvidenceTypes, Places, WindDownInv, MaxAttempts
<1>3. RetrievalInv'
  BY <1>1 DEF EInv, RetrievalInv, FallbackKeepsEvidence, MaxSteps, LoopSteps
<1>4. SearchInv'
  BY <1>1, Zenon DEF EInv, SearchInv, Iterations, RequestedCap, DefaultCap
<1> QED
  BY <1>2, <1>3, <1>4 DEF EInv

LEMMA EvidenceKeeps == EInv /\ [EvidenceNext]_evidenceVars => EInv'
<1> SUFFICES ASSUME EInv, [EvidenceNext]_evidenceVars PROVE EInv'
  OBVIOUS
<1>1. CASE RetrievalNext /\ UNCHANGED searchVars
  BY <1>1, RetrievalKeeps
<1>2. CASE StartRole
  BY <1>2, StartRoleKeeps
<1>3. CASE BeginIteration
  BY <1>3, BeginIterationKeeps
<1>4. CASE SendRequest
  BY <1>4, SendRequestKeeps
<1>5. CASE SearchRetries
  BY <1>5, SearchRetriesKeeps
<1>6. CASE ToolAnswers \/ ToolFails \/ NoToolAnswer
  BY <1>6, AnswersKeep
<1>7. CASE SiblingFails
  BY <1>7, SiblingFailsKeeps
<1>8. CASE Respond
  BY <1>8, RespondKeeps
<1>9. CASE Ended \/ UNCHANGED evidenceVars
  BY <1>9, EvidenceStands DEF Ended
<1> QED
  BY <1>1, <1>2, <1>3, <1>4, <1>5, <1>6, <1>7, <1>8, <1>9 DEF EvidenceNext

-----------------------------------------------------------------------------
(***************************************************************************)
(* The theorems                                                            *)
(***************************************************************************)
\* The inductive invariant of retrieval_loop and bounded_react_search: the
\* types of their state, where a call can be awaited, and what the search may
\* have noted at each of its steps.
THEOREM EvidenceInvariant == EvidenceSpec => []EInv
<1> QED
  BY EvidenceStarts, EvidenceKeeps, PTL DEF EvidenceSpec

\* retrieval_loop: whatever fails, retries or answers with nothing, an attempt
\* of a request with chunks of its own has hits, or the bridge has answered it.
THEOREM FailuresKeepTheEvidence == EvidenceSpec => []FallbackKeepsEvidence
<1>1. EInv => FallbackKeepsEvidence
  BY DEF EInv, RetrievalInv
<1> QED
  BY <1>1, EvidenceInvariant, PTL

\* branch_cancel_event: a search that is cancelled, at any moment, begins at
\* most the attempts of one call, for every number of retries.
THEOREM CancelledSearchesWindDown == EvidenceSpec => []CancelledBranchWindsDown
<1>1. EInv => CancelledBranchWindsDown
  BY DEF EInv, WindDownInv, CancelledBranchWindsDown
<1> QED
  BY <1>1, EvidenceInvariant, PTL

\* The retrieval's limit and _role_max_steps: with a loop_max_steps of at least
\* three, the most iterations a search makes, no budget is exceeded, whatever
\* the plan and max_iterations are.
THEOREM BudgetsHold ==
  ASSUME LoopMaxSteps >= 3
  PROVE  EvidenceSpec => []BudgetsRespected
<1> DEFINE Within == loop.used <= loop.max
<1>1. EvidenceInit => Within
  <2>1. NoLoop.used = 0 /\ NoLoop.max = 0
    BY DEF NoLoop
  <2>2. 0 <= 0
    OBVIOUS
  <2> QED
    BY <2>1, <2>2, Zenon DEF EvidenceInit
<1>2. EInv /\ Within /\ [EvidenceNext]_evidenceVars => Within'
  <2> SUFFICES ASSUME EInv, Within, [EvidenceNext]_evidenceVars PROVE Within'
    OBVIOUS
  <2>1. CASE Respond
    <3>1. /\ node = "respond"
          /\ loop' = [max |-> RoleMaxSteps, used |-> search.iteration, stop |-> LoopStop]
      BY <2>1 DEF Respond, At
    <3>2. search \in Search /\ search.iteration \in 1..Iterations
      BY <3>1 DEF EInv, EvidenceTypes, SearchInv
    <3>3. search.iteration <= RoleMaxSteps
      BY <3>2, IterationLimit, SearchAssumption DEF RoleMaxSteps, Least
    <3> QED
      BY <3>1, <3>3
  <2>2. CASE UNCHANGED loop
    BY <2>2
  <2>3. Respond \/ UNCHANGED loop
    BY DEF EvidenceNext, StartRole, BeginIteration, SendRequest, SearchRetries,
           ToolAnswers, ToolFails, NoToolAnswer, SiblingFails, Ended,
           evidenceVars, searchVars
  <2> QED
    BY <2>1, <2>2, <2>3
<1>3. EInv /\ Within => BudgetsRespected
  BY DEF EInv, RetrievalInv, BudgetsRespected
<1> QED
  BY <1>1, <1>2, <1>3, EvidenceInvariant, PTL DEF EvidenceSpec
=============================================================================
