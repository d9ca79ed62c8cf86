---------------------------- MODULE ApprovalProofs ----------------------------
(***************************************************************************)
(* Proofs about ApprovalFlow, for any number of runs and resumes of the    *)
(* thread, all tools, proposals and lists of decisions.                    *)
(*                                                                         *)
(* The invariant speaks of one resume (ResumeFits) or one run (RunFits)    *)
(* and the log.  A step belongs to one call, and to the others it is an    *)
(* entry of somebody else at the end of the log.                           *)
(***************************************************************************)
EXTENDS ApprovalFlow, FiniteSetTheorems, SequenceTheorems, TLAPS

Calls == Runs \cup Resumes
ToolSets == Proposals \cup {{}}
DecisionLists == Decisions \cup {NoDecisions}
Checkpoints == [writer : Calls \cup {"nobody"}, request : BOOLEAN, tools : ToolSets,
                decided : DecisionLists]
Replies == [status : {"none", "failed", "ready", "requires_action", "conflict",
                      "version_conflict"},
            version : Nat, tools : ToolSets]
RunPlaces == {"new", "graph", "abandoned", "ran", "reporting", "over"}
ResumePlaces == {"new", "sent", "comparing", "updating", "writing", "reporting", "over"}

Types ==
  /\ log \in Seq(Checkpoints)
  /\ run \in [Runs -> RunPlaces]
  /\ memory \in [Runs -> Checkpoints]
  /\ reply \in [Runs -> Replies]
  /\ resume \in [Resumes -> ResumePlaces]
  /\ request \in [Resumes -> [expected : Nat, decisions : DecisionLists,
                              names : {"run", "other", "other_approval"}]]
  /\ seen \in [Resumes -> [version : Nat, checkpoint : Checkpoints]]
  /\ base \in [Resumes -> Checkpoints]
  /\ answer \in [Resumes -> Replies]

\* What a resume read first is still in the log, at the version it had, and is not
\* older than the version the request names.
HasSnapshot(r) ==
  /\ seen[r].version \in DOMAIN log
  /\ log[seen[r].version] = seen[r].checkpoint
  /\ request[r].expected <= seen[r].version

\* The two reads of resume_workflow agreed with the request.
Checked(r) ==
  /\ request[r].expected = seen[r].version
  /\ Covers(request[r].decisions, seen[r].checkpoint.tools)

HasWritten(r) == \E i \in DOMAIN log : WrittenBy(i, r)

ResumeFits(r) ==
  /\ request[r].expected <= Len(log)
  /\ answer[r].version <= Len(log)
  /\ resume[r] \in {"comparing", "updating", "writing", "reporting"} => HasSnapshot(r)
  /\ resume[r] \in {"updating", "writing", "reporting"} => Checked(r)
  /\ resume[r] = "reporting" => HasWritten(r)
  /\ HasWritten(r) =>
       resume[r] \in {"reporting", "over"} /\ HasSnapshot(r) /\ Checked(r)
  /\ \A i \in DOMAIN log : WrittenBy(i, r) => request[r].expected < i
  /\ answer[r].status = "ready" => \E i \in 1 .. answer[r].version : WrittenBy(i, r)

\* The last checkpoint a graph has written is what it holds in memory.
LastWriteIsMemory(w) == \E i \in DOMAIN log : LastOf(i, w) /\ log[i] = memory[w]

\* An answer that names a version covers the run's last checkpoint.
NamesItsProposals(w) ==
  reply[w].version > 0 =>
    \E i \in 1 .. reply[w].version : LastOf(i, w) /\ log[i].tools = reply[w].tools

RunFits(w) ==
  /\ reply[w].version <= Len(log)
  /\ run[w] # "over" => reply[w].version = 0
  /\ run[w] \in {"graph", "abandoned", "ran", "reporting"} => LastWriteIsMemory(w)
  /\ NamesItsProposals(w)

IInv ==
  /\ Types
  /\ \A r \in Resumes : ResumeFits(r)
  /\ \A w \in Runs : RunFits(w)
-----------------------------------------------------------------------------
(***************************************************************************)
(* The log                                                                 *)
(***************************************************************************)

\* A step of call a: it appends one checkpoint of its own or none.
Grows(a) ==
  /\ log' \in Seq(Checkpoints)
  /\ Len(log) <= Len(log')
  /\ \A i \in DOMAIN log : i \in DOMAIN log' /\ log'[i] = log[i]
  /\ \A i \in DOMAIN log' : i \notin DOMAIN log => i > Len(log) /\ log'[i].writer = a

LEMMA LogDomain ==
  ASSUME Types
  PROVE  Len(log) \in Nat /\ DOMAIN log = 1 .. Len(log)
BY LenProperties DEF Types

LEMMA LogDomainPrimed ==
  ASSUME NEW a, Grows(a)
  PROVE  Len(log') \in Nat /\ DOMAIN log' = 1 .. Len(log')
BY LenProperties DEF Grows

LEMMA AppendGrows ==
  ASSUME Types, NEW x \in Checkpoints, log' = Append(log, x)
  PROVE  Grows(x.writer) /\ Len(log') = Len(log) + 1 /\ log'[Len(log) + 1] = x
<1>1. Len(log) \in Nat /\ DOMAIN log = 1 .. Len(log)
  BY LogDomain
<1>2. /\ log' \in Seq(Checkpoints)
      /\ Len(log') = Len(log) + 1
      /\ \A i \in 1 .. Len(log) : log'[i] = log[i]
      /\ log'[Len(log) + 1] = x
  BY AppendProperties DEF Types
<1>3. DOMAIN log' = 1 .. Len(log) + 1
  BY <1>2, LenProperties
<1>4. \A i \in 1 .. Len(log) + 1 :
        i \in 1 .. Len(log) \/ (i = Len(log) + 1 /\ i > Len(log))
  BY <1>1
<1> QED
  BY <1>1, <1>2, <1>3, <1>4 DEF Grows

LEMMA UnchangedGrows ==
  ASSUME Types, UNCHANGED log, NEW a
  PROVE  Grows(a)
BY LogDomain DEF Grows, Types

\* get_state returns a checkpoint of the log, or finds none and no request.
LEMMA LatestInLog ==
  ASSUME Types
  PROVE  /\ Latest \in Checkpoints
         /\ Latest.request => Version \in DOMAIN log /\ Latest = log[Version]
<1>1. Len(log) \in Nat /\ DOMAIN log = 1 .. Len(log)
  BY LogDomain
<1>2. CASE log = <<>>
  BY <1>2 DEF Latest, NoCheckpoint, Checkpoint, Checkpoints, ToolSets, DecisionLists
<1>3. CASE log # <<>>
  <2>1. Len(log) \in DOMAIN log
    BY <1>1, <1>3, EmptySeq DEF Types
  <2> QED
    BY <1>3, <2>1, ElementOfSeq DEF Latest, Last, Version, Types
<1> QED
  BY <1>2, <1>3

-----------------------------------------------------------------------------
(***************************************************************************)
(* A step of another call                                                  *)
(***************************************************************************)
LEMMA OtherResumeKept ==
  ASSUME Types, NEW r \in Resumes, ResumeFits(r), NEW a, Grows(a), a # r,
         resume'[r] = resume[r], request'[r] = request[r], seen'[r] = seen[r],
         answer'[r] = answer[r]
  PROVE  ResumeFits(r)'
<1>1. Len(log) \in Nat /\ DOMAIN log = 1 .. Len(log)
  BY LogDomain
<1>2. Len(log') \in Nat /\ DOMAIN log' = 1 .. Len(log') /\ Len(log) <= Len(log')
  BY LogDomainPrimed DEF Grows
<1>3. \A i \in DOMAIN log' : log'[i].writer = r <=> i \in DOMAIN log /\ log[i].writer = r
  BY DEF Grows
<1>4. HasWritten(r)' <=> HasWritten(r)
  BY <1>3 DEF HasWritten, WrittenBy, Grows
<1>5. HasSnapshot(r) => HasSnapshot(r)'
  BY DEF HasSnapshot, Grows
<1>6. Checked(r) => Checked(r)'
  BY DEF Checked
<1>7. (\A i \in DOMAIN log : WrittenBy(i, r) => request[r].expected < i)'
  BY <1>3 DEF ResumeFits, WrittenBy
<1>8. (answer[r].status = "ready" => \E i \in 1 .. answer[r].version : WrittenBy(i, r))'
  <2>1. 1 .. answer[r].version \subseteq DOMAIN log
    BY <1>1 DEF ResumeFits, Types, Replies
  <2> QED
    BY <2>1 DEF ResumeFits, WrittenBy, Grows
<1>9. (request[r].expected <= Len(log) /\ answer[r].version <= Len(log))'
  BY <1>1, <1>2 DEF ResumeFits, Types, Replies
<1> QED
  BY <1>4, <1>5, <1>6, <1>7, <1>8, <1>9 DEF ResumeFits

\* What a run has answered stands, whoever else writes.
LEMMA AnswerStands ==
  ASSUME Types, NEW w \in Runs, RunFits(w), NEW a, Grows(a), a # w,
         reply'[w] = reply[w]
  PROVE  reply'[w].version <= Len(log') /\ NamesItsProposals(w)'
<1> DEFINE v == reply[w].version
<1>1. Len(log) \in Nat /\ DOMAIN log = 1 .. Len(log) /\ v \in Nat /\ v <= Len(log)
  BY LogDomain DEF RunFits, Types, Replies
<1>2. Len(log') \in Nat /\ Len(log) <= Len(log')
  BY LogDomainPrimed DEF Grows
<1>3. ASSUME NEW i \in 1 .. v, LastOf(i, w), log[i].tools = reply[w].tools
      PROVE  LastOf(i, w)' /\ log'[i].tools = reply'[w].tools
  BY <1>1, <1>3 DEF LastOf, WrittenBy, Grows
<1>4. NamesItsProposals(w)'
  BY <1>3 DEF RunFits, NamesItsProposals
<1> QED
  BY <1>1, <1>2, <1>4

LEMMA OtherRunKept ==
  ASSUME Types, NEW w \in Runs, RunFits(w), NEW a, Grows(a), a # w,
         run'[w] = run[w], memory'[w] = memory[w], reply'[w] = reply[w]
  PROVE  RunFits(w)'
<1>1. LastWriteIsMemory(w) => LastWriteIsMemory(w)'
  BY DEF LastWriteIsMemory, LastOf, WrittenBy, Grows
<1>2. reply'[w].version <= Len(log') /\ NamesItsProposals(w)'
  BY AnswerStands
<1> QED
  BY <1>1, <1>2 DEF RunFits
-----------------------------------------------------------------------------
(***************************************************************************)
(* run_workflow                                                            *)
(***************************************************************************)
LEMMA RunStepKeeps ==
  ASSUME IInv, NEW w \in Runs, Grows(w), UNCHANGED resumeVars,
         run' \in [Runs -> RunPlaces], memory' \in [Runs -> Checkpoints],
         reply' \in [Runs -> Replies], RunFits(w)',
         \A v \in Runs \ {w} :
           run'[v] = run[v] /\ memory'[v] = memory[v] /\ reply'[v] = reply[v]
  PROVE  IInv'
<1>1. Types'
  BY DEF IInv, Types, Grows, resumeVars
<1>2. ASSUME NEW r \in Resumes PROVE ResumeFits(r)'
  BY OtherResumeKept, FlowAssumption DEF IInv, resumeVars
<1>3. ASSUME NEW v \in Runs \ {w} PROVE RunFits(v)'
  BY OtherRunKept DEF IInv
<1> QED
  BY <1>1, <1>2, <1>3 DEF IInv

\* The graph of a run writes what it then holds.
LEMMA GraphWriteKeeps ==
  ASSUME IInv, NEW w \in Runs, NEW x \in Checkpoints, x.writer = w,
         log' = Append(log, x), memory' = [memory EXCEPT ![w] = x], run[w] # "over",
         NEW place \in RunPlaces, run' = [run EXCEPT ![w] = place],
         UNCHANGED <<reply, resumeVars>>
  PROVE  IInv'
<1>1. Grows(w) /\ Len(log') = Len(log) + 1 /\ log'[Len(log) + 1] = x
  BY AppendGrows DEF IInv
<1>2. Len(log) \in Nat /\ DOMAIN log' = 1 .. Len(log) + 1
  BY <1>1, LogDomain, LogDomainPrimed DEF IInv
<1>3. memory'[w] = x
  BY DEF IInv, Types
<1>4. LastWriteIsMemory(w)'
  <2>1. Len(log) + 1 \in DOMAIN log' /\ \A j \in DOMAIN log' : ~(j > Len(log) + 1)
    BY <1>2
  <2> QED
    BY <1>1, <1>3, <2>1 DEF LastWriteIsMemory, LastOf, WrittenBy
<1>5. reply'[w].version = 0 /\ 0 <= Len(log') /\ NamesItsProposals(w)'
  BY <1>1, <1>2 DEF IInv, RunFits, NamesItsProposals
<1>6. RunFits(w)'
  BY <1>4, <1>5 DEF RunFits
<1> QED
  BY <1>1, <1>6, RunStepKeeps DEF IInv, Types

LEMMA StartRunKeeps ==
  ASSUME IInv, NEW w \in Runs, StartRun(w)
  PROVE  IInv'
<1> DEFINE x == [Latest EXCEPT !.writer = w]
<1>1. x \in Checkpoints /\ x.writer = w
  BY LatestInLog DEF IInv, Checkpoints, Calls
<1>2. /\ log' = Append(log, x)
      /\ memory' = [memory EXCEPT ![w] = x]
      /\ run' = [run EXCEPT ![w] = "graph"]
      /\ UNCHANGED <<reply, resumeVars>>
  BY DEF StartRun
<1>3. run[w] # "over"
  BY DEF StartRun
<1> HIDE DEF x
<1> QED
  BY <1>1, <1>2, <1>3, GraphWriteKeeps DEF RunPlaces

LEMMA RunGraphKeeps ==
  ASSUME IInv, NEW w \in Runs, RunGraph(w)
  PROVE  IInv'
<1>1. PICK tools \in Proposals : /\ memory' = [memory EXCEPT ![w] = Propose(w, tools)]
                                 /\ log' = Append(log, memory'[w])
  BY DEF RunGraph
<1> DEFINE x == Propose(w, tools)
           place == IF run[w] = "graph" THEN "ran" ELSE "over"
<1>2. memory[w] \in Checkpoints /\ memory[w].writer = w /\ run[w] # "over"
  BY DEF RunGraph, IInv, Types, RunFits, LastWriteIsMemory, LastOf, WrittenBy
<1>3. x \in Checkpoints /\ x.writer = w
  BY <1>2 DEF Propose, Checkpoints, ToolSets
<1>4. memory' = [memory EXCEPT ![w] = x] /\ log' = Append(log, x)
  BY <1>1 DEF IInv, Types
<1>5. run' = [run EXCEPT ![w] = place] /\ UNCHANGED <<reply, resumeVars>>
  BY DEF RunGraph
<1>6. place \in RunPlaces
  BY DEF RunPlaces
<1> HIDE DEF x, place
<1> QED
  BY <1>2, <1>3, <1>4, <1>5, <1>6, GraphWriteKeeps

LEMMA RunFailsKeeps ==
  ASSUME IInv, NEW w \in Runs, RunFails(w)
  PROVE  IInv'
<1>1. PICK place \in {"over", "abandoned"} : run' = [run EXCEPT ![w] = place]
  BY DEF RunFails
<1>2. run[w] = "graph" /\ UNCHANGED <<log, memory, resumeVars>>
  BY DEF RunFails
<1>3. reply[w] \in Replies
  BY DEF IInv, Types
<1>4. /\ reply' = [reply EXCEPT ![w] = [reply[w] EXCEPT !.status = "failed"]]
      /\ [reply[w] EXCEPT !.status = "failed"] \in Replies
  BY <1>3 DEF RunFails, Replies
<1>5. /\ reply' \in [Runs -> Replies]
      /\ reply'[w].version = reply[w].version
      /\ \A v \in Runs \ {w} : reply'[v] = reply[v]
  BY <1>3, <1>4 DEF IInv, Types, Replies
<1>6. Grows(w)
  BY <1>2, UnchangedGrows DEF IInv
<1>7. reply'[w].version = 0 /\ 0 <= Len(log') /\ NamesItsProposals(w)'
  BY <1>2, <1>5, LogDomain DEF IInv, RunFits, NamesItsProposals
<1>8. LastWriteIsMemory(w)'
  BY <1>2 DEF IInv, RunFits, LastWriteIsMemory, LastOf, WrittenBy
<1>9. RunFits(w)'
  BY <1>7, <1>8 DEF RunFits
<1>10. /\ run' \in [Runs -> RunPlaces] /\ memory' \in [Runs -> Checkpoints]
       /\ \A v \in Runs \ {w} : run'[v] = run[v] /\ memory'[v] = memory[v]
  BY <1>1, <1>2 DEF IInv, Types, RunPlaces
<1> QED
  BY <1>2, <1>5, <1>6, <1>9, <1>10, RunStepKeeps

LEMMA EnqueueKeeps ==
  ASSUME IInv, NEW w \in Runs, EnqueueProposals(w)
  PROVE  IInv'
<1>1. /\ run[w] = "ran" /\ run' = [run EXCEPT ![w] = "reporting"]
      /\ UNCHANGED <<log, memory, reply, resumeVars>>
  BY DEF EnqueueProposals
<1>2. Grows(w)
  BY <1>1, UnchangedGrows DEF IInv
<1>3. LastWriteIsMemory(w)'
  BY <1>1 DEF IInv, RunFits, LastWriteIsMemory, LastOf, WrittenBy
<1>4. reply'[w].version = 0 /\ 0 <= Len(log') /\ NamesItsProposals(w)'
  BY <1>1, LogDomain DEF IInv, RunFits, NamesItsProposals
<1>5. RunFits(w)'
  BY <1>3, <1>4 DEF RunFits
<1> QED
  BY <1>1, <1>2, <1>5, RunStepKeeps DEF IInv, Types, RunPlaces

\* The run's last checkpoint is what its graph returned, and the thread's version is
\* not below it.
LEMMA RespondRunKeeps ==
  ASSUME IInv, NEW w \in Runs, RespondRun(w)
  PROVE  IInv'
<1> DEFINE n == Len(log)
           x == [status |-> Status(memory[w].tools), version |-> n,
                 tools |-> memory[w].tools]
<1>1. /\ run[w] = "reporting" /\ run' = [run EXCEPT ![w] = "over"]
      /\ reply' = [reply EXCEPT ![w] = x]
      /\ UNCHANGED <<log, memory, resumeVars>>
  BY DEF RespondRun, Version
<1>2. n \in Nat /\ DOMAIN log = 1 .. n
  BY LogDomain DEF IInv
<1>3. x \in Replies
  BY <1>2 DEF IInv, Types, Checkpoints, Replies, Status
<1>4. reply'[w] = x /\ x.version = n /\ x.tools = memory[w].tools
  BY <1>1 DEF IInv, Types
<1> HIDE DEF x
<1>5. PICK i \in DOMAIN log : LastOf(i, w) /\ log[i] = memory[w]
  BY <1>1 DEF IInv, RunFits, LastWriteIsMemory
<1>6. LastOf(i, w)' /\ log'[i].tools = x.tools /\ i \in 1 .. x.version
  BY <1>1, <1>2, <1>4, <1>5 DEF LastOf, WrittenBy
<1>7. NamesItsProposals(w)'
  BY <1>4, <1>6 DEF NamesItsProposals
<1>8. RunFits(w)'
  <2>1. run'[w] = "over"
    BY <1>1 DEF IInv, Types
  <2> QED
    BY <1>1, <1>2, <1>4, <1>7, <2>1 DEF RunFits
<1>9. Grows(w)
  BY <1>1, UnchangedGrows DEF IInv
<1> QED
  BY <1>1, <1>3, <1>8, <1>9, RunStepKeeps DEF IInv, Types, RunPlaces
-----------------------------------------------------------------------------
(***************************************************************************)
(* resume_workflow                                                         *)
(***************************************************************************)
LEMMA ResumeStepKeeps ==
  ASSUME IInv, NEW r \in Resumes, Grows(r), UNCHANGED runVars,
         resume' \in [Resumes -> ResumePlaces],
         request' \in [Resumes -> [expected : Nat, decisions : DecisionLists,
                                   names : {"run", "other", "other_approval"}]],
         seen' \in [Resumes -> [version : Nat, checkpoint : Checkpoints]],
         base' \in [Resumes -> Checkpoints],
         answer' \in [Resumes -> Replies], ResumeFits(r)',
         \A q \in Resumes \ {r} :
           /\ resume'[q] = resume[q] /\ request'[q] = request[q]
           /\ seen'[q] = seen[q] /\ answer'[q] = answer[q]
  PROVE  IInv'
<1>1. Types'
  BY DEF IInv, Types, Grows, runVars
<1>2. ASSUME NEW w \in Runs PROVE RunFits(w)'
  BY OtherRunKept, FlowAssumption DEF IInv, runVars
<1>3. ASSUME NEW q \in Resumes \ {r} PROVE ResumeFits(q)'
  BY OtherResumeKept DEF IInv
<1> QED
  BY <1>1, <1>2, <1>3 DEF IInv

\* The versions the backend knows are those of checkpoints, or 0.
LEMMA KnownVersions ==
  ASSUME IInv, NEW v \in Known
  PROVE  v \in Nat /\ v <= Len(log)
BY DEF IInv, Types, Known, RunFits, ResumeFits, Replies

LEMMA SendKeeps ==
  ASSUME IInv, NEW r \in Resumes, SendResume(r)
  PROVE  IInv'
<1>1. PICK v \in Known, d \in Decisions, n \in {"run", "other", "other_approval"} :
        request' = [request EXCEPT ![r] = [expected |-> v, decisions |-> d, names |-> n]]
  BY DEF SendResume
<1> DEFINE q == [expected |-> v, decisions |-> d, names |-> n]
<1>2. /\ resume[r] = "new" /\ resume' = [resume EXCEPT ![r] = "sent"]
      /\ UNCHANGED <<log, runVars, seen, base, answer>>
  BY DEF SendResume, Goto
<1>3. /\ q \in [expected : Nat, decisions : DecisionLists,
                names : {"run", "other", "other_approval"}]
      /\ q.expected <= Len(log)
  BY KnownVersions DEF DecisionLists
<1> HIDE DEF q
<1>4. request'[r] = q /\ resume'[r] = "sent"
  BY <1>1, <1>2 DEF q, IInv, Types
<1>5. ~HasWritten(r) /\ ~HasWritten(r)'
  BY <1>2 DEF IInv, ResumeFits, HasWritten, WrittenBy
<1>6. /\ \A i \in DOMAIN log : ~WrittenBy(i, r)
      /\ answer[r].version <= Len(log)
      /\ answer[r].status = "ready" => \E i \in 1 .. answer[r].version : WrittenBy(i, r)
  BY <1>5 DEF IInv, ResumeFits, HasWritten
<1>7. ResumeFits(r)'
  BY <1>2, <1>3, <1>4, <1>5, <1>6 DEF ResumeFits, WrittenBy
<1>8. Grows(r)
  BY <1>2, UnchangedGrows DEF IInv
<1> QED
  BY <1>1, <1>2, <1>3, <1>7, <1>8, ResumeStepKeeps DEF IInv, Types, ResumePlaces, q

\* A rejected resume has written nothing.
LEMMA RejectKeeps ==
  ASSUME IInv, NEW r \in Resumes, NEW status \in {"conflict", "version_conflict"},
         ~HasWritten(r), Reject(r, status), UNCHANGED <<log, runVars, request, seen, base>>
  PROVE  IInv'
<1>1. answer[r] \in Replies
  BY DEF IInv, Types
<1> DEFINE x == [answer[r] EXCEPT !.status = status]
<1>2. x \in Replies /\ x.status = status /\ x.version = answer[r].version
  BY <1>1 DEF Replies
<1>3. answer' = [answer EXCEPT ![r] = x] /\ resume' = [resume EXCEPT ![r] = "over"]
  BY DEF Reject, Goto
<1> HIDE DEF x
<1>4. answer'[r] = x /\ resume'[r] = "over"
  BY <1>3 DEF IInv, Types
<1>5. ~HasWritten(r)' /\ \A i \in DOMAIN log : ~WrittenBy(i, r)
  BY DEF HasWritten, WrittenBy
<1>6. ResumeFits(r)'
  BY <1>2, <1>4, <1>5 DEF IInv, ResumeFits, WrittenBy
<1>7. Grows(r)
  BY UnchangedGrows DEF IInv
<1> QED
  BY <1>2, <1>3, <1>6, <1>7, ResumeStepKeeps DEF IInv, Types, ResumePlaces

LEMMA ReadSnapshotKeeps ==
  ASSUME IInv, NEW r \in Resumes, ReadSnapshot(r)
  PROVE  IInv'
<1>1. resume[r] = "sent" /\ UNCHANGED <<log, runVars, request, base>>
  BY DEF ReadSnapshot
<1>2. ~HasWritten(r)
  BY <1>1 DEF IInv, ResumeFits
<1>3. CASE /\ Latest.request
           /\ seen' = [seen EXCEPT ![r] = [version |-> Version, checkpoint |-> Latest]]
           /\ Goto(r, "comparing")
           /\ UNCHANGED answer
  <2> DEFINE x == [version |-> Version, checkpoint |-> Latest]
  <2>1. /\ Latest \in Checkpoints /\ Len(log) \in DOMAIN log /\ Latest = log[Len(log)]
        /\ Len(log) \in Nat
    BY <1>3, LatestInLog, LogDomain DEF IInv, Version
  <2>2. /\ x \in [version : Nat, checkpoint : Checkpoints]
        /\ x.version = Len(log) /\ x.checkpoint = Latest
    BY <2>1 DEF Version
  <2>3. seen' = [seen EXCEPT ![r] = x] /\ resume' = [resume EXCEPT ![r] = "comparing"]
    BY <1>3 DEF Goto
  <2> HIDE DEF x
  <2>4. seen'[r] = x /\ resume'[r] = "comparing"
    BY <2>3 DEF IInv, Types
  <2>5. HasSnapshot(r)'
    BY <1>1, <2>1, <2>2, <2>4 DEF IInv, ResumeFits, HasSnapshot
  <2>6. ~HasWritten(r)'
    BY <1>1, <1>2 DEF HasWritten, WrittenBy
  <2>7. ResumeFits(r)'
    BY <1>1, <1>3, <2>4, <2>5, <2>6 DEF IInv, ResumeFits, WrittenBy
  <2>8. Grows(r)
    BY <1>1, UnchangedGrows DEF IInv
  <2>9. /\ seen' \in [Resumes -> [version : Nat, checkpoint : Checkpoints]]
        /\ resume' \in [Resumes -> ResumePlaces]
        /\ \A q \in Resumes \ {r} : resume'[q] = resume[q] /\ seen'[q] = seen[q]
    BY <2>2, <2>3 DEF IInv, Types, ResumePlaces
  <2> QED
    BY <1>1, <1>3, <2>7, <2>8, <2>9, ResumeStepKeeps DEF IInv, Types
<1>4. CASE Reject(r, "conflict") /\ UNCHANGED seen
  BY <1>1, <1>2, <1>4, RejectKeeps
<1> QED
  BY <1>3, <1>4 DEF ReadSnapshot

\* The version compared is that of a later read, but the request names no version
\* later than the first.
LEMMA CompareKeeps ==
  ASSUME IInv, NEW r \in Resumes, Compare(r)
  PROVE  IInv'
<1>1. resume[r] = "comparing" /\ UNCHANGED <<log, runVars, request, seen, base>>
  BY DEF Compare
<1>2. ~HasWritten(r) /\ HasSnapshot(r)
  BY <1>1 DEF IInv, ResumeFits
<1>3. CASE VersionMatches(r) /\ DecisionsFit(r) /\ Goto(r, "updating") /\ UNCHANGED answer
  <2>1. request[r].expected = seen[r].version
    BY <1>2, <1>3, LogDomain DEF IInv, Types, HasSnapshot, VersionMatches, Version
  <2>2. Checked(r)' /\ HasSnapshot(r)'
    BY <1>1, <1>2, <1>3, <2>1 DEF Checked, DecisionsFit, HasSnapshot
  <2>3. resume' = [resume EXCEPT ![r] = "updating"] /\ resume'[r] = "updating"
    BY <1>3 DEF Goto, IInv, Types
  <2>4. ~HasWritten(r)'
    BY <1>1, <1>2 DEF HasWritten, WrittenBy
  <2>5. ResumeFits(r)'
    BY <1>1, <1>3, <2>2, <2>3, <2>4 DEF IInv, ResumeFits, WrittenBy
  <2>6. Grows(r)
    BY <1>1, UnchangedGrows DEF IInv
  <2> QED
    BY <1>1, <1>3, <2>3, <2>5, <2>6, ResumeStepKeeps DEF IInv, Types, ResumePlaces
<1>4. CASE Reject(r, "version_conflict") \/ Reject(r, "conflict")
  BY <1>1, <1>2, <1>4, RejectKeeps
<1> QED
  BY <1>3, <1>4 DEF Compare

LEMMA ReadBaseKeeps ==
  ASSUME IInv, NEW r \in Resumes, ReadBase(r)
  PROVE  IInv'
<1>1. /\ resume[r] = "updating" /\ base' = [base EXCEPT ![r] = Latest]
      /\ resume' = [resume EXCEPT ![r] = "writing"]
      /\ UNCHANGED <<log, runVars, request, seen, answer>>
  BY DEF ReadBase, Goto
<1>2. resume'[r] = "writing"
  BY <1>1 DEF IInv, Types
<1>3. /\ HasWritten(r)' <=> HasWritten(r)
      /\ HasSnapshot(r) => HasSnapshot(r)'
      /\ Checked(r) => Checked(r)'
  BY <1>1 DEF HasWritten, WrittenBy, HasSnapshot, Checked
<1>4. ResumeFits(r)'
  BY <1>1, <1>2, <1>3 DEF IInv, ResumeFits, WrittenBy
<1>5. Grows(r) /\ Latest \in Checkpoints
  BY <1>1, UnchangedGrows, LatestInLog DEF IInv
<1> QED
  BY <1>1, <1>4, <1>5, ResumeStepKeeps DEF IInv, Types, ResumePlaces

LEMMA WriteKeeps ==
  ASSUME IInv, NEW r \in Resumes, WriteDecisions(r)
  PROVE  IInv'
<1> DEFINE x == Checkpoint(r, base[r].request, base[r].tools, request[r].decisions)
           n == Len(log) + 1
<1>1. /\ resume[r] = "writing" /\ log' = Append(log, x)
      /\ resume' = [resume EXCEPT ![r] = "reporting"]
      /\ UNCHANGED <<runVars, request, seen, base, answer>>
  BY DEF WriteDecisions, Goto
<1>2. x \in Checkpoints /\ x.writer = r
  BY DEF IInv, Types, Checkpoint, Checkpoints, Calls
<1> HIDE DEF x
<1>3. Grows(r) /\ Len(log') = n /\ log'[n] = x
  BY <1>1, <1>2, AppendGrows DEF IInv
<1>4. /\ Len(log) \in Nat /\ DOMAIN log = 1 .. Len(log) /\ n \in DOMAIN log'
      /\ \A i \in DOMAIN log' : i \in DOMAIN log \/ i > Len(log)
  BY <1>3, LogDomain, LogDomainPrimed DEF IInv, Grows
<1>5. HasSnapshot(r) /\ Checked(r) /\ ~HasWritten(r) /\ request[r].expected <= Len(log)
  BY <1>1 DEF IInv, ResumeFits
<1>6. HasSnapshot(r)' /\ Checked(r)'
  BY <1>1, <1>3, <1>5 DEF HasSnapshot, Checked, Grows
<1>7. resume'[r] = "reporting" /\ HasWritten(r)'
  BY <1>1, <1>2, <1>3, <1>4 DEF IInv, Types, HasWritten, WrittenBy
<1>8. ASSUME NEW i \in DOMAIN log', log'[i].writer = r
      PROVE  request'[r].expected < i
  <2>1. i > Len(log) /\ i \in Nat
    BY <1>3, <1>4, <1>5, <1>8, LogDomainPrimed DEF HasWritten, WrittenBy, Grows
  <2> QED
    BY <1>1, <1>4, <1>5, <2>1 DEF IInv, Types
<1>9. /\ request'[r].expected <= Len(log') /\ answer'[r].version <= Len(log')
      /\ answer'[r].status # "ready"
  <2>1. answer[r].version \in Nat /\ answer[r].version <= Len(log)
    BY DEF IInv, Types, Replies, ResumeFits
  <2>2. answer[r].status # "ready"
    BY <1>4, <1>5, <2>1 DEF IInv, ResumeFits, HasWritten
  <2> QED
    BY <1>1, <1>3, <1>4, <1>5, <2>1, <2>2 DEF IInv, Types
<1>10. ResumeFits(r)'
  BY <1>6, <1>7, <1>8, <1>9 DEF ResumeFits, WrittenBy
<1> QED
  BY <1>1, <1>3, <1>10, ResumeStepKeeps DEF IInv, Types, ResumePlaces

LEMMA RespondResumeKeeps ==
  ASSUME IInv, NEW r \in Resumes, RespondResume(r)
  PROVE  IInv'
<1> DEFINE x == [status |-> Status({}), version |-> Version, tools |-> {}]
<1>1. /\ resume[r] = "reporting" /\ answer' = [answer EXCEPT ![r] = x]
      /\ resume' = [resume EXCEPT ![r] = "over"]
      /\ UNCHANGED <<log, runVars, request, seen, base>>
  BY DEF RespondResume, Goto
<1>2. Len(log) \in Nat /\ DOMAIN log = 1 .. Len(log)
  BY LogDomain DEF IInv
<1>3. x \in Replies /\ x.version = Len(log)
  BY <1>2 DEF Replies, Status, Version, ToolSets
<1> HIDE DEF x
<1>4. answer'[r] = x /\ resume'[r] = "over"
  BY <1>1 DEF IInv, Types
<1>5. HasWritten(r)' /\ HasSnapshot(r)' /\ Checked(r)'
  BY <1>1 DEF IInv, ResumeFits, HasWritten, WrittenBy, HasSnapshot, Checked
<1>6. \E i \in 1 .. x.version : log'[i].writer = r
  BY <1>1, <1>2, <1>3, <1>5 DEF HasWritten, WrittenBy
<1>7. ResumeFits(r)'
  BY <1>1, <1>2, <1>3, <1>4, <1>5, <1>6 DEF IInv, ResumeFits, WrittenBy
<1>8. Grows(r)
  BY <1>1, UnchangedGrows DEF IInv
<1> QED
  BY <1>1, <1>3, <1>7, <1>8, ResumeStepKeeps DEF IInv, Types, ResumePlaces
-----------------------------------------------------------------------------
(***************************************************************************)
(* The inductive invariant                                                 *)
(***************************************************************************)
LEMMA InitEstablishes == Init => IInv
<1> SUFFICES ASSUME Init PROVE IInv
  OBVIOUS
<1>1. Len(log) = 0 /\ DOMAIN log = {}
  BY DEF Init
<1>2. NoCheckpoint \in Checkpoints /\ NoReply \in Replies
  BY DEF NoCheckpoint, Checkpoint, Checkpoints, ToolSets, DecisionLists, NoReply, Replies
<1>3. Types
  <2>1. /\ log \in Seq(Checkpoints) /\ memory \in [Runs -> Checkpoints]
        /\ reply \in [Runs -> Replies] /\ base \in [Resumes -> Checkpoints]
        /\ answer \in [Resumes -> Replies]
    BY <1>2 DEF Init
  <2>2. run \in [Runs -> RunPlaces] /\ resume \in [Resumes -> ResumePlaces]
    BY DEF Init, RunPlaces, ResumePlaces
  <2>3. request \in [Resumes -> [expected : Nat, decisions : DecisionLists,
                                 names : {"run", "other", "other_approval"}]]
    BY DEF Init, NoRequest, DecisionLists
  <2>4. seen \in [Resumes -> [version : Nat, checkpoint : Checkpoints]]
    BY <1>2 DEF Init
  <2> QED
    BY <2>1, <2>2, <2>3, <2>4 DEF Types
<1>4. ASSUME NEW r \in Resumes PROVE ResumeFits(r)
  BY <1>1 DEF Init, ResumeFits, HasWritten, NoRequest, NoReply
<1>5. ASSUME NEW w \in Runs PROVE RunFits(w)
  BY <1>1 DEF Init, RunFits, NamesItsProposals, NoReply
<1> QED
  BY <1>3, <1>4, <1>5 DEF IInv

LEMMA StepKeeps == IInv /\ [Next]_vars => IInv'
<1> SUFFICES ASSUME IInv, [Next]_vars PROVE IInv'
  OBVIOUS
<1>1. CASE \E w \in Runs : RunStep(w)
  BY <1>1, StartRunKeeps, RunGraphKeeps, RunFailsKeeps, EnqueueKeeps, RespondRunKeeps
  DEF RunStep
<1>2. CASE \E r \in Resumes : SendResume(r) \/ ResumeStep(r)
  BY <1>2, SendKeeps, ReadSnapshotKeeps, CompareKeeps, ReadBaseKeeps, WriteKeeps,
     RespondResumeKeeps
  DEF ResumeStep
<1>3. CASE UNCHANGED vars
  <2>1. Types'
    BY <1>3 DEF vars, IInv, Types
  <2>2. ASSUME NEW r \in Resumes PROVE ResumeFits(r)'
    BY <1>3 DEF vars, IInv, ResumeFits, HasWritten, WrittenBy, HasSnapshot, Checked
  <2>3. ASSUME NEW w \in Runs PROVE RunFits(w)'
    BY <1>3 DEF vars, IInv, RunFits, LastWriteIsMemory, NamesItsProposals, LastOf, WrittenBy
  <2> QED
    BY <2>1, <2>2, <2>3 DEF IInv
<1> QED
  BY <1>1, <1>2, <1>3 DEF Next

-----------------------------------------------------------------------------
(***************************************************************************)
(* The theorems                                                            *)
(***************************************************************************)

\* The inductive invariant: a resume past its checks has its snapshot at the
\* version it names, and a graph's last checkpoint is what it holds.
THEOREM ApprovalInvariant == Spec => []IInv
<1> QED
  BY InitEstablishes, StepKeeps, PTL DEF Spec

\* As many different decisions as tools, each of a tool: every tool is decided
\* (_validate_resume_decisions).
LEMMA CoversEachTool ==
  ASSUME NEW tools, IsFiniteSet(tools), NEW d \in Seq(Tools), Covers(d, tools)
  PROVE  Range(d) = tools
<1> DEFINE n == Len(d)
<1>1. n \in Nat /\ DOMAIN d = 1 .. n
  BY LenProperties
<1>2. d \in [1 .. n -> tools]
  <2>1. d = [i \in 1 .. n |-> d[i]]
    BY <1>1, LenProperties
  <2>2. \A i \in 1 .. n : d[i] \in tools
    BY <1>1 DEF Covers, Range
  <2> QED
    BY <2>1, <2>2
<1>3. d \in Injection(1 .. n, tools)
  BY <1>2 DEF Covers, Injection
<1>4. Cardinality(1 .. n) = Cardinality(tools)
  BY <1>1, FS_Interval DEF Covers
<1>5. d \in Surjection(1 .. n, tools)
  BY <1>3, <1>4, FS_Injection
<1> QED
  BY <1>1, <1>5 DEF Surjection, Range

\* Decisions in the log cover the tools of the version they name.
LEMMA DecisionsCoverAlways == IInv => DecisionsCoverShownTools
<1> SUFFICES ASSUME IInv, NEW i \in DOMAIN log, NEW r \in Resumes, WrittenBy(i, r)
             PROVE  /\ request[r].expected \in DOMAIN log
                    /\ Len(request[r].decisions)
                         = Cardinality(log[request[r].expected].tools)
                    /\ Range(request[r].decisions)
                         = log[request[r].expected].tools
  BY DEF DecisionsCoverShownTools
<1> DEFINE T == seen[r].checkpoint.tools
           d == request[r].decisions
<1>1. HasSnapshot(r) /\ Checked(r)
  BY DEF IInv, ResumeFits, HasWritten
<1>2. request[r].expected \in DOMAIN log /\ log[request[r].expected].tools = T
  BY <1>1 DEF HasSnapshot, Checked
<1>3. T \in ToolSets /\ d \in DecisionLists
  BY DEF IInv, Types, Checkpoints
<1>4. IsFiniteSet(T)
  BY <1>3, FlowAssumption, FS_EmptySet DEF ToolSets
<1>5. d \in Seq(Tools)
  BY <1>3, FlowAssumption, EmptySeq DEF DecisionLists, NoDecisions
<1>6. Covers(d, T)
  BY <1>1 DEF Checked
<1> HIDE DEF T, d
<1>7. Len(d) = Cardinality(T) /\ Range(d) = T
  BY <1>4, <1>5, <1>6, CoversEachTool DEF Covers
<1> QED
  BY <1>2, <1>7 DEF T, d

\* Decisions that reach a checkpoint are one for each tool the reviewer was shown
\* (resume_workflow).
THEOREM DecisionsCover == Spec => []DecisionsCoverShownTools
<1> QED
  BY DecisionsCoverAlways, ApprovalInvariant, PTL

\* A version is resumed twice only by overlapping calls: the later one has read
\* the thread before the earlier one wrote (resume_workflow).
THEOREM ResumedOnce == Spec => []ResumedOnceUnlessConcurrent
<1>1. IInv => ResumedOnceUnlessConcurrent
  BY DEF IInv, ResumeFits, HasWritten, Checked, ResumedOnceUnlessConcurrent
<1> QED
  BY <1>1, ApprovalInvariant, PTL

\* A resume never answers with a version from before its decisions.
THEOREM AnswersAreCurrent == Spec => []AnswerIsNotOlderThanDecisions
<1>1. IInv => AnswerIsNotOlderThanDecisions
  BY DEF IInv, ResumeFits, AnswerIsNotOlderThanDecisions
<1> QED
  BY <1>1, ApprovalInvariant, PTL

\* A run's answer covers its last checkpoint, which holds its proposals, and decisions
\* on them are only accepted for a version that holds them (run_workflow,
\* resume_workflow).
THEOREM AnswersNameTheirProposals == Spec => []AnswerNamesItsProposals
<1>1. IInv /\ DecisionsCoverShownTools => AnswerNamesItsProposals
  BY DEF IInv, RunFits, NamesItsProposals, DecisionsCoverShownTools,
         AnswerNamesItsProposals
<1> QED
  BY <1>1, DecisionsCoverAlways, ApprovalInvariant, PTL
===============================================================================
