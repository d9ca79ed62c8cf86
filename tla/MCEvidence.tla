----------------------------- MODULE MCEvidence --------------------------------
(***************************************************************************)
(* Small instance of ReactSearch: four chunks of four source types that    *)
(* can be cited and one that cannot, services that answer with nothing,    *)
(* with one chunk or with three, one retry, and requests of every intent.  *)
(***************************************************************************)
EXTENDS ReactSearch

MCChunks == {"segment", "policy", "body", "fact", "blank"}
MCTypeOf == [c \in MCChunks |->
               CASE c = "segment" -> "meeting_transcript"
                 [] c = "policy" -> "knowledge"
                 [] c = "fact" -> "memory"
                 [] OTHER -> "message"]
MCCitable == MCChunks \ {"blank"}
MCReplies == {{}, {"policy"}, {"segment", "body", "fact"}}

\* The presets with an intent they can be routed to.
Routes == {<<"meeting_brief", "chat">>, <<"meeting_brief", "risk">>,
           <<"react_general", "consult">>, <<"react_general", "chat">>,
           <<"context_qa", "consult">>, <<"risk_review", "risk">>}
AllTypes == {"meeting_transcript", "knowledge", "message", "memory"}
Carried == {{}, {"body", "blank"}, {"segment", "policy", "fact"}}

Plain(route, mode, chunks) ==
  [preset |-> route[1], intent |-> route[2], mode |-> mode, agentic |-> TRUE,
   sources |-> AllTypes, tools |-> {}, maxSteps |-> 3, chunks |-> chunks]

\* Every route, mode and context with an open policy; narrow policies and
\* limits with the default mode; the retrieval switched off.
MCRequests ==
  {Plain(route, mode, chunks) : route \in Routes,
     mode \in {"go_context", "rag_runtime", "hybrid"}, chunks \in Carried}
  \cup
  {[Plain(route, "hybrid", {"body", "blank"}) EXCEPT
      !.sources = sources, !.tools = tools, !.maxSteps = steps] :
     route \in Routes, sources \in {AllTypes, {"message"}},
     tools \in {{}, {"context_chunks"}, {"knowledge_chunks"}}, steps \in {1, 2}}
  \cup
  {[Plain(route, "hybrid", chunks) EXCEPT !.agentic = FALSE] :
     route \in Routes, chunks \in Carried}
=============================================================================
