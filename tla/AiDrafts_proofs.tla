--------------------------- MODULE AiDrafts_proofs ---------------------------
(* Theorems about AiDrafts, for any tasks, drafts, jobs, requests and limits. *)
EXTENDS AiDrafts, FiniteSetTheorems, TLAPS

JobStatus == {"none", "pending", "running", "retry", "done", "failed"}
allVars == <<queue, aiVars>>

-----------------------------------------------------------------------------
(* Types, in parts.  A process that is at work has a task, and one that waits *)
(* a job: AiTypeOK alone is not inductive.                                    *)
QueueTyped ==
  /\ status \in [Jobs -> JobStatus] /\ accepted \in [Jobs -> Nat]
  /\ jobDraft \in [Jobs -> Drafts \cup {NoDraft}] /\ jobProc \in [Jobs -> Procs]
TasksTyped ==
  /\ tstat \in [Tasks -> TaskStatus] /\ lost \in [Tasks -> Nat]
  /\ replies \in [Tasks -> 0..MaxReplies] /\ stored \in [Tasks -> 0..MaxReplies]
  /\ agenda \in SUBSET Tasks
DraftsTyped ==
  /\ dstat \in [Drafts -> {"none", "draft", "sent", "deleted"}]
  /\ dtask \in [Drafts -> Tasks \cup {0}]
  /\ rowJob \in [Drafts -> Jobs \cup {NoJob}] /\ rowId \in [Drafts -> Drafts]
  /\ crossed \in SUBSET Jobs
  /\ replied \in SUBSET Drafts /\ imported \in SUBSET Jobs
ProcsTyped ==
  /\ pc \in [Procs -> Places]
  /\ ptask \in [Procs -> Tasks \cup {0}]
  /\ pjob \in [Procs -> Jobs \cup {NoJob}]
  /\ seen \in [Procs -> BOOLEAN]
  /\ got \in [Procs -> [n : 0..MaxReplies, own : SUBSET Jobs]]
AtWork ==
  \A p \in Procs :
    /\ pc[p] \in {"compose", "fetched", "waiting"} => ptask[p] \in Tasks
    /\ pc[p] = "waiting" => pjob[p] \in Jobs /\ jobDraft[pjob[p]] \in Drafts

Typed == QueueTyped /\ TasksTyped /\ DraftsTyped /\ ProcsTyped /\ AtWork

LEMMA TypedTypeOK == Typed => AiTypeOK
BY DEF Typed, QueueTyped, TasksTyped, DraftsTyped, ProcsTyped, AiTypeOK, JobStatus

LEMMA GotTyped ==
  ASSUME NEW n \in 0..MaxReplies, NEW own \in SUBSET Jobs
  PROVE  [n |-> n, own |-> own] \in [n : 0..MaxReplies, own : SUBSET Jobs]
OBVIOUS

LEMMA LoopIsProc == Loop \in Procs /\ Requests \subseteq Procs /\ Loop \notin Requests
BY AiAssumption DEF Procs

(* A process gives up what it holds.                                          *)
LEMMA ReleaseTyped ==
  ASSUME ProcsTyped, AtWork, NEW p \in Procs, Release(p), jobDraft' = jobDraft
  PROVE  ProcsTyped' /\ AtWork'
<1>1. Nothing \in [n : 0..MaxReplies, own : SUBSET Jobs]
  BY AiAssumption, GotTyped DEF Nothing
<1>2. ProcsTyped'
  BY <1>1 DEF ProcsTyped, Release, Places
<1>3. AtWork'
  BY DEF ProcsTyped, AtWork, Release
<1> QED BY <1>2, <1>3

(* A process loads a task.                                                    *)
LEMMA LoadTyped ==
  ASSUME ProcsTyped, AtWork, NEW p \in Procs, NEW t \in Tasks,
         NEW place \in {"compose", "fetched"}, Load(p, t, place),
         UNCHANGED <<pjob, jobDraft>>,
         got' = got \/ \E own \in SUBSET Jobs :
           got' = [got EXCEPT ![p] = [n |-> replies[t], own |-> own]],
         replies[t] \in 0..MaxReplies
  PROVE  ProcsTyped' /\ AtWork'
<1>1. got' \in [Procs -> [n : 0..MaxReplies, own : SUBSET Jobs]]
  BY GotTyped DEF ProcsTyped
<1>2. /\ pc' \in [Procs -> Places] /\ ptask' \in [Procs -> Tasks \cup {0}]
      /\ pjob' \in [Procs -> Jobs \cup {NoJob}]
  BY DEF ProcsTyped, Load, Places
<1>3. seen' \in [Procs -> BOOLEAN]
  BY Zenon DEF ProcsTyped, Load
<1>4. AtWork'
  BY DEF ProcsTyped, AtWork, Load
<1> QED BY <1>1, <1>2, <1>3, <1>4 DEF ProcsTyped

LEMMA NewDraftTyped ==
  ASSUME TasksTyped, DraftsTyped, NEW p \in Procs, NEW t \in Tasks, NEW d \in Drafts,
         NewDraft(p, t, d)
  PROVE  /\ tstat' \in [Tasks -> TaskStatus]
         /\ dstat' \in [Drafts -> {"none", "draft", "sent", "deleted"}]
         /\ dtask' \in [Drafts -> Tasks \cup {0}]
         /\ rowId' \in [Drafts -> Drafts] /\ crossed' \in SUBSET Jobs
         /\ UNCHANGED <<rowJob, lost>>
<1>1. PICK i \in {d} \cup {rowId[x] : x \in DraftsOf(t, "draft")} :
        rowId' = [rowId EXCEPT ![d] = i] /\ crossed' = crossed \cup WaitingFor(i)
  BY DEF NewDraft
<1>2. i \in Drafts
  BY DEF DraftsOf, DraftsTyped
<1>3. WaitingFor(i) \subseteq Jobs
  BY DEF WaitingFor
<1> QED BY <1>1, <1>2, <1>3 DEF TasksTyped, DraftsTyped, NewDraft, TaskStatus

LEMMA StoreTyped ==
  ASSUME QueueTyped, TasksTyped, DraftsTyped, ProcsTyped, NEW p \in Procs, ptask[p] \in Tasks,
         StoreInbound(p)
  PROVE  /\ stored' \in [Tasks -> 0..MaxReplies]
         /\ replied' \in SUBSET Drafts /\ imported' \in SUBSET Jobs
<1>1. got[p].n \in 0..MaxReplies
  BY DEF ProcsTyped
<1>2. stored' \in [Tasks -> 0..MaxReplies]
  BY <1>1 DEF TasksTyped, StoreInbound
<1>3. replied' \in SUBSET Drafts /\ imported' \in SUBSET Jobs
  BY DEF DraftsTyped, StoreInbound, DraftsOf, OwnUnknown
<1> QED BY <1>2, <1>3

LEMMA LoseTyped ==
  ASSUME TasksTyped, NEW p \in Procs, ptask[p] \in Tasks, NEW b, Lose(p, b)
  PROVE  lost' \in [Tasks -> Nat]
BY DEF TasksTyped, Lose

LEMMA ContinueTyped ==
  ASSUME Typed, NEW p \in Procs, Continue(p)
  PROVE  Typed'
<1> USE DEF Typed
<1>0. At(p, "compose") \/ At(p, "fetched") \/ At(p, "waiting") => ptask[p] \in Tasks
  BY DEF AtWork, At
<1>1. CASE AskFails(p)
  BY <1>1, ReleaseTyped
     DEF AskFails, queue, rows, drafts, jobs, history, QueueTyped, TasksTyped, DraftsTyped
<1>2. CASE SyncOnly(p)
  <2>1. ptask[p] \in Tasks
    BY <1>0, <1>2 DEF SyncOnly, StoreInbound
  <2>2. /\ stored' \in [Tasks -> 0..MaxReplies]
        /\ replied' \in SUBSET Drafts /\ imported' \in SUBSET Jobs
    BY <1>2, <2>1, StoreTyped DEF SyncOnly
  <2>3. ProcsTyped' /\ AtWork'
    BY <1>2, ReleaseTyped DEF SyncOnly, jobs
  <2> QED
    BY <1>2, <2>2, <2>3
       DEF SyncOnly, queue, drafts, jobs, history, QueueTyped, TasksTyped, DraftsTyped
<1>3. CASE RecordSent(p)
  <2>1. ptask[p] \in Tasks /\ pjob[p] \in Jobs /\ jobDraft[pjob[p]] \in Drafts
    BY <1>0, <1>3 DEF RecordSent, AtWork, At
  <2>2. lost' \in [Tasks -> Nat]
    BY <1>3, <2>1, LoseTyped DEF RecordSent
  <2>3. ProcsTyped' /\ AtWork'
    BY <1>3, ReleaseTyped DEF RecordSent, jobs
  <2>4. /\ dstat' \in [Drafts -> {"none", "draft", "sent", "deleted"}]
        /\ rowJob' \in [Drafts -> Jobs \cup {NoJob}]
    BY <1>3, <2>1 DEF RecordSent, DraftsTyped
  <2> QED
    BY <1>3, <2>2, <2>3, <2>4
       DEF RecordSent, queue, jobs, QueueTyped, TasksTyped, DraftsTyped
<1>4. CASE SendFails(p) \/ WaitTimesOut(p)
  <2>1. ptask[p] \in Tasks
    BY <1>0, <1>4 DEF SendFails, WaitTimesOut
  <2>2. lost' \in [Tasks -> Nat]
    BY <1>4, <2>1, LoseTyped DEF SendFails, WaitTimesOut
  <2>3. ProcsTyped' /\ AtWork'
    BY <1>4, ReleaseTyped DEF SendFails, WaitTimesOut, jobs
  <2> QED
    BY <1>4, <2>2, <2>3
       DEF SendFails, WaitTimesOut, queue, rows, drafts, jobs, QueueTyped, TasksTyped, DraftsTyped
<1>5. ASSUME NEW d \in Drafts, WriteDraft(p, d)
      PROVE  Typed'
  <2>1. ptask[p] \in Tasks
    BY <1>0, <1>5 DEF WriteDraft
  <2>2. /\ tstat' \in [Tasks -> TaskStatus]
        /\ dstat' \in [Drafts -> {"none", "draft", "sent", "deleted"}]
        /\ dtask' \in [Drafts -> Tasks \cup {0}]
        /\ rowId' \in [Drafts -> Drafts] /\ crossed' \in SUBSET Jobs
        /\ UNCHANGED <<rowJob, lost>>
    BY <1>5, <2>1, NewDraftTyped DEF WriteDraft
  <2>3. ProcsTyped' /\ AtWork'
    BY <1>5, ReleaseTyped DEF WriteDraft, jobs
  <2> QED
    BY <1>5, <2>2, <2>3 DEF WriteDraft, queue, jobs, QueueTyped, TasksTyped, DraftsTyped
<1>6. ASSUME NEW d \in Drafts, SyncAndGenerate(p, d)
      PROVE  Typed'
  <2>1. ptask[p] \in Tasks
    BY <1>0, <1>6 DEF SyncAndGenerate, StoreInbound
  <2>2. /\ tstat' \in [Tasks -> TaskStatus]
        /\ dstat' \in [Drafts -> {"none", "draft", "sent", "deleted"}]
        /\ dtask' \in [Drafts -> Tasks \cup {0}]
        /\ rowId' \in [Drafts -> Drafts] /\ crossed' \in SUBSET Jobs
        /\ UNCHANGED <<rowJob, lost>>
    BY <1>6, <2>1, NewDraftTyped DEF SyncAndGenerate
  <2>3. /\ stored' \in [Tasks -> 0..MaxReplies]
        /\ replied' \in SUBSET Drafts /\ imported' \in SUBSET Jobs
    BY <1>6, <2>1, StoreTyped DEF SyncAndGenerate
  <2>4. ProcsTyped' /\ AtWork'
    BY <1>6, ReleaseTyped DEF SyncAndGenerate, jobs
  <2> QED
    BY <1>6, <2>2, <2>3, <2>4 DEF SyncAndGenerate, queue, jobs, QueueTyped, TasksTyped, DraftsTyped
<1> QED BY <1>1, <1>2, <1>3, <1>4, <1>5, <1>6 DEF Continue

LEMMA ApproveTyped ==
  ASSUME Typed, NEW p \in Procs, NEW t \in Tasks, NEW d \in Drafts, NEW j \in Jobs,
         Approve(p, t, d, j), agenda' \in SUBSET Tasks
  PROVE  Typed'
<1> USE DEF Typed
<1>1. QueueTyped'
  BY DEF Approve, Enqueue, QueueTyped, JobStatus
<1>2. TasksTyped' /\ DraftsTyped'
  BY DEF Approve, rows, drafts, history, TasksTyped, DraftsTyped
<1>3. /\ pc' \in [Procs -> Places] /\ ptask' \in [Procs -> Tasks \cup {0}]
      /\ pjob' \in [Procs -> Jobs \cup {NoJob}]
  BY DEF Approve, Load, ProcsTyped, Places
<1>4. seen' \in [Procs -> BOOLEAN] /\ got' = got
  BY Zenon DEF Approve, Load, ProcsTyped
<1>5. ProcsTyped'
  BY <1>3, <1>4 DEF ProcsTyped
<1>6. AtWork'
  BY DEF Approve, Load, ProcsTyped, QueueTyped, AtWork
<1> QED BY <1>1, <1>2, <1>5, <1>6

LEMMA StatusTyped ==
  ASSUME Typed, NEW t \in Tasks, NEW s \in TaskStatus, SetStatus(t, s)
  PROVE  Typed'
BY DEF Typed, SetStatus, queue, drafts, jobs, procs, history, QueueTyped, TasksTyped,
       DraftsTyped, ProcsTyped, AtWork

LEMMA LoadsTyped ==
  ASSUME Typed, NEW p \in Procs, NEW t \in Tasks,
         NEW place \in {"compose", "fetched"}, Load(p, t, place),
         UNCHANGED <<queue, rows, replies, jobs, pjob, history>>, agenda' \in SUBSET Tasks,
         \/ got' = got
         \/ got' = [got EXCEPT ![p] = [n |-> replies[t], own |-> OwnUnknown(t)]]
  PROVE  Typed'
<1> USE DEF Typed
<1>1. QueueTyped' /\ TasksTyped' /\ DraftsTyped'
  BY DEF queue, rows, drafts, jobs, history, QueueTyped, TasksTyped, DraftsTyped
<1>2. OwnUnknown(t) \in SUBSET Jobs /\ replies[t] \in 0..MaxReplies
  BY DEF OwnUnknown, TasksTyped
<1>3. ProcsTyped' /\ AtWork'
  BY <1>2, LoadTyped DEF jobs
<1> QED BY <1>1, <1>3

LEMMA OperateTyped ==
  ASSUME Typed, NEW t \in Tasks, Operate(t)
  PROVE  Typed'
<1>0. agenda \in SUBSET Tasks
  BY DEF Typed, TasksTyped
<1>1. CASE StopTask(t) \/ ResumeTask(t)
  BY <1>1, StatusTyped DEF StopTask, ResumeTask, TaskStatus
<1>2. ASSUME NEW p \in Requests, CreateTask(p, t)
      PROVE  Typed'
  <2>1. p \in Procs
    BY LoopIsProc
  <2> QED
    BY <1>2, <2>1
       DEF CreateTask, Typed, queue, rows, drafts, jobs, history, QueueTyped, TasksTyped,
           DraftsTyped, ProcsTyped, AtWork, Places
<1>3. ASSUME NEW p \in Requests, InsertTask(p, t)
      PROVE  Typed'
  <2>1. p \in Procs
    BY LoopIsProc
  <2>2. ProcsTyped' /\ AtWork'
    BY <1>3, <2>1, ReleaseTyped DEF InsertTask, jobs, Typed
  <2> QED
    BY <1>3, <2>2
       DEF InsertTask, Typed, queue, drafts, jobs, history, QueueTyped, TasksTyped, DraftsTyped,
           TaskStatus
<1>4. ASSUME NEW p \in Requests, Generate(p, t) \/ Sync(p, t)
      PROVE  Typed'
  <2>1. p \in Procs
    BY LoopIsProc
  <2> QED BY <1>0, <1>4, <2>1, LoadsTyped DEF Generate, Sync
<1>5. ASSUME NEW p \in Requests, NEW d \in Drafts, NEW j \in Jobs, RequestApproves(p, t, d, j)
      PROVE  Typed'
  <2>1. p \in Procs
    BY LoopIsProc
  <2> QED BY <1>0, <1>5, <2>1, ApproveTyped DEF RequestApproves
<1> QED BY <1>1, <1>2, <1>3, <1>4, <1>5 DEF Operate

LEMMA PickTyped ==
  ASSUME Typed, NEW t \in Tasks, Pick(t)
  PROVE  Typed'
<1>0. agenda \in SUBSET Tasks
  BY DEF Typed, TasksTyped
<1>1. CASE LoopSkips(t) \/ LoopSupersedes(t) \/ LoopDeclines(t)
  <2>1. agenda' \in SUBSET Tasks
    BY <1>0, <1>1 DEF LoopSkips, LoopSupersedes, LoopDeclines, Visit
  <2>2. CASE LoopSkips(t)
    BY <2>1, <2>2, LoopIsProc
       DEF LoopSkips, Typed, queue, rows, drafts, jobs, history, QueueTyped, TasksTyped,
           DraftsTyped, ProcsTyped, AtWork, Places
  <2>3. CASE LoopSupersedes(t) \/ LoopDeclines(t)
    BY <2>1, <2>3
       DEF LoopSupersedes, LoopDeclines, Typed, queue, rows, drafts, jobs, procs, history,
           QueueTyped, TasksTyped, DraftsTyped, ProcsTyped, AtWork, TaskStatus
  <2> QED BY <1>1, <2>2, <2>3
<1>2. CASE LoopComposes(t) \/ LoopFetches(t)
  BY <1>0, <1>2, LoadsTyped, LoopIsProc DEF LoopComposes, LoopFetches, Processes, Visit
<1>3. ASSUME NEW d \in Drafts, NEW j \in Jobs, LoopApproves(t, d, j)
      PROVE  Typed'
  BY <1>0, <1>3, ApproveTyped, LoopIsProc DEF LoopApproves, Processes, Visit
<1> QED BY <1>1, <1>2, <1>3 DEF Pick

(* What the gateway may do to a job, whatever else.                           *)
LEMMA GatewayOfStep ==
  ASSUME QueueTyped, Gateway
  PROVE  /\ UNCHANGED aiVars
         /\ status' \in [Jobs -> JobStatus] /\ accepted' \in [Jobs -> Nat]
         /\ \A j \in Jobs : status'[j] = "none" <=> status[j] = "none"
         /\ \A j \in Jobs : accepted[j] > 0 => accepted'[j] > 0
         /\ \A j \in Jobs : status'[j] = "done" => status[j] = "done" \/ accepted[j] > 0
<1> PICK j \in Jobs : \/ TakeUp({j}) \/ PutBack({j}) \/ Finish(j) \/ Fail(j)
                      \/ accepted[j] < MaxSends /\ Accept(j)
  BY DEF Gateway
<1>1. UNCHANGED aiVars
  BY DEF Gateway
<1>2. CASE TakeUp({j}) \/ PutBack({j})
  BY <1>1, <1>2 DEF TakeUp, PutBack, QueueTyped, JobStatus
<1>3. CASE Finish(j)
  <2>1. PICK i \in Jobs : MessageOf[i] = MessageOf[j] /\ accepted[i] > 0
    BY <1>3, AiAssumption DEF Finish, Delivered
  <2>2. accepted[j] > 0
    BY <2>1, AiAssumption
  <2> QED BY <1>1, <1>3, <2>2 DEF Finish, QueueTyped, JobStatus
<1>4. CASE Fail(j)
  BY <1>1, <1>4 DEF Fail, QueueTyped, JobStatus
<1>5. CASE Accept(j)
  BY <1>1, <1>5 DEF Accept, QueueTyped
<1> QED BY <1>2, <1>3, <1>4, <1>5

LEMMA TypesKept ==
  ASSUME Typed, [AiNext]_allVars
  PROVE  Typed'
<1>1. CASE Gateway
  BY <1>1, GatewayOfStep
     DEF aiVars, rows, drafts, jobs, procs, history, Typed, QueueTyped, TasksTyped,
         DraftsTyped, ProcsTyped, AtWork
<1>2. ASSUME NEW t \in Tasks, PeerReplies(t)
      PROVE  Typed'
  BY <1>2, AiAssumption
     DEF PeerReplies, queue, rows, drafts, jobs, procs, history, Typed, QueueTyped, TasksTyped,
         DraftsTyped, ProcsTyped, AtWork
<1>3. CASE LoopDies
  <2>1. lost' \in [Tasks -> Nat]
    <3>1. At(Loop, "waiting") => ptask[Loop] \in Tasks
      BY LoopIsProc DEF Typed, AtWork, At
    <3> QED BY <1>3, <3>1, LoseTyped, LoopIsProc DEF LoopDies, Typed, TasksTyped
  <2>2. Nothing \in [n : 0..MaxReplies, own : SUBSET Jobs]
    BY AiAssumption, GotTyped DEF Nothing
  <2>3. ProcsTyped'
    BY <1>3, <2>2 DEF LoopDies, Typed, ProcsTyped, Places
  <2>4. AtWork'
    BY <1>3 DEF LoopDies, jobs, Typed, ProcsTyped, AtWork
  <2> QED
    BY <1>3, <2>1, <2>3, <2>4
       DEF LoopDies, queue, rows, drafts, jobs, Typed, QueueTyped, TasksTyped, DraftsTyped
<1>4. ASSUME NEW p \in Procs, RequestDies(p) \/ (p = Loop /\ LoopRestarts)
      PROVE  Typed'
  <2>1. ProcsTyped' /\ AtWork'
    BY <1>4, ReleaseTyped DEF RequestDies, LoopRestarts, jobs, Typed
  <2> QED
    BY <1>4, <2>1
       DEF RequestDies, LoopRestarts, queue, rows, drafts, jobs, history, Typed, QueueTyped,
           TasksTyped, DraftsTyped
<1>5. CASE StartCycle
  <2>1. agenda' \in SUBSET Tasks
    BY <1>5 DEF StartCycle, Listed
  <2> QED
    BY <1>5, <2>1
       DEF StartCycle, queue, rows, drafts, jobs, procs, history, Typed, QueueTyped, TasksTyped,
           DraftsTyped, ProcsTyped, AtWork
<1>6. CASE UNCHANGED allVars
  BY <1>6 DEF allVars, queue, aiVars, rows, drafts, jobs, procs, history, Typed, QueueTyped,
              TasksTyped, DraftsTyped, ProcsTyped, AtWork
<1> QED
  BY <1>1, <1>2, <1>3, <1>4, <1>5, <1>6, ContinueTyped, OperateTyped, PickTyped, LoopIsProc
     DEF AiNext

LEMMA TypesHold == AiSpec => []Typed
<1>1. AiInit => Typed
  <2> SUFFICES ASSUME AiInit PROVE Typed
    OBVIOUS
  <2> USE DEF AiInit
  <2>1. QueueTyped
    BY LoopIsProc DEF Init, QueueTyped, JobStatus
  <2>2. TasksTyped /\ DraftsTyped
    BY AiAssumption DEF TasksTyped, DraftsTyped, TaskStatus
  <2>3. Nothing \in [n : 0..MaxReplies, own : SUBSET Jobs]
    BY AiAssumption, GotTyped DEF Nothing
  <2>4. ProcsTyped
    BY <2>3 DEF ProcsTyped, Places
  <2>5. AtWork
    BY DEF AtWork
  <2> QED BY <2>1, <2>2, <2>4, <2>5 DEF Typed
<1>2. Typed /\ [AiNext]_allVars => Typed'
  BY TypesKept
<1> QED BY <1>1, <1>2, PTL DEF AiSpec, allVars

(* Every state has the types of AiTypeOK: what the loop, the requests and the *)
(* peer do about one task never leaves a row, a counter or a process without. *)
THEOREM AiTypesCorrect == AiSpec => []AiTypeOK
BY TypesHold, TypedTypeOK, PTL

-----------------------------------------------------------------------------
(* Jobs and rows.  A job that was enqueued carries its draft for good, and is *)
(* done only if its message was accepted; the row of a sent draft names one   *)
(* of its jobs, or one that crossed a regeneration.  Of the rows with one id  *)
(* one is there at most, and all were made for one task.                      *)
Live(d) == dstat[d] \in {"draft", "sent"}
Made ==
  \A j \in Jobs :
    /\ status[j] = "none" <=> jobDraft[j] = NoDraft
    /\ status[j] = "done" => accepted[j] > 0
    /\ jobDraft[j] # NoDraft => dstat[jobDraft[j]] # "none"
Ids ==
  /\ \A d \in Drafts : dstat[d] # "none" => dstat[rowId[d]] # "none"
  /\ \A d, e \in Drafts :
       dstat[d] # "none" /\ dstat[e] # "none" /\ rowId[d] = rowId[e] =>
         dtask[d] = dtask[e] /\ (Live(d) /\ Live(e) => d = e)
Named ==
  \A d \in Drafts :
    dstat[d] = "sent" => /\ rowJob[d] \in Jobs /\ accepted[rowJob[d]] > 0
                         /\ jobDraft[rowJob[d]] = d \/ rowJob[d] \in crossed
(* If the id of the draft that a process waits for is that of another row,    *)
(* its job is one of those that crossed a regeneration.                       *)
Crossing ==
  \A p \in Procs : pc[p] = "waiting" =>
    \A d \in Drafts :
      Live(d) /\ rowId[d] = rowId[jobDraft[pjob[p]]] =>
        d = jobDraft[pjob[p]] \/ pjob[p] \in crossed

(* The three kinds of steps, as to rows.                                      *)
LEMMA RowsOfStep ==
  ASSUME Typed, [AiNext]_allVars
  PROVE  \/ \E p \in Procs, t \in Tasks, e \in Drafts : NewDraft(p, t, e) /\ UNCHANGED jobs
         \/ \E p \in Procs : RecordSent(p)
         \/ UNCHANGED <<drafts, crossed>>
<1>1. ASSUME NEW p \in Procs, NEW e \in Drafts, WriteDraft(p, e) \/ SyncAndGenerate(p, e)
      PROVE  ptask[p] \in Tasks /\ NewDraft(p, ptask[p], e) /\ UNCHANGED jobs
  BY <1>1 DEF WriteDraft, SyncAndGenerate, StoreInbound, At, Typed, AtWork
<1>2. ASSUME NEW p \in Procs, \/ AskFails(p) \/ SyncOnly(p) \/ SendFails(p) \/ WaitTimesOut(p)
                              \/ RequestDies(p)
      PROVE  UNCHANGED <<drafts, crossed>>
  BY <1>2 DEF AskFails, SyncOnly, SendFails, WaitTimesOut, RequestDies, rows, history
<1>3. ASSUME NEW t \in Tasks, Operate(t) \/ Pick(t) \/ PeerReplies(t)
      PROVE  UNCHANGED <<drafts, crossed>>
  BY <1>3
     DEF Operate, Pick, StopTask, ResumeTask, SetStatus, CreateTask, InsertTask, Generate, Sync,
         RequestApproves, Approve, LoopSkips, LoopSupersedes, LoopDeclines, LoopComposes,
         LoopFetches, LoopApproves, PeerReplies, rows, history
<1>4. \/ Gateway \/ StartCycle \/ LoopDies \/ LoopRestarts \/ UNCHANGED allVars
      => UNCHANGED <<drafts, crossed>>
  BY DEF Gateway, StartCycle, LoopDies, LoopRestarts, allVars, aiVars, rows, history
<1> QED BY <1>1, <1>2, <1>3, <1>4 DEF AiNext, Continue

(* What becomes of a draft in a step.                                         *)
DraftStep(d) ==
  /\ dstat[d] # "none" => dstat'[d] # "none" /\ dtask'[d] = dtask[d] /\ rowId'[d] = rowId[d]
  /\ dstat[d] = "sent" => dstat'[d] = "sent"
  /\ dstat'[d] = "sent" =>
       \/ dstat[d] = "sent" /\ rowJob'[d] = rowJob[d]
       \/ \E p \in Procs : /\ pc[p] = "waiting" /\ status[pjob[p]] = "done"
                           /\ d \in RowOf(pjob[p]) /\ rowJob'[d] = pjob[p]

LEMMA NewDraftStep ==
  ASSUME DraftsTyped, NEW p \in Procs, NEW t \in Tasks, NEW e \in Drafts,
         NewDraft(p, t, e), NEW d \in Drafts
  PROVE  /\ dstat'[d] = IF d = e THEN "draft"
                        ELSE IF d \in DraftsOf(t, "draft") THEN "deleted" ELSE dstat[d]
         /\ dtask'[d] = (IF d = e THEN t ELSE dtask[d]) /\ dstat[e] = "none"
         /\ d # e => rowId'[d] = rowId[d]
         /\ rowJob' = rowJob
         /\ DraftStep(d)
<1>1. dstat'[d] = IF d = e THEN "draft"
                  ELSE IF d \in DraftsOf(t, "draft") THEN "deleted" ELSE dstat[d]
  BY DEF NewDraft
<1>2. dtask'[d] = (IF d = e THEN t ELSE dtask[d]) /\ dstat[e] = "none" /\ rowJob' = rowJob
  BY DEF NewDraft, DraftsTyped
<1>3. d \in DraftsOf(t, "draft") <=> dtask[d] = t /\ dstat[d] = "draft"
  BY DEF DraftsOf
<1>4. d # e => rowId'[d] = rowId[d]
  BY DEF NewDraft, DraftsTyped
<1> QED BY <1>1, <1>2, <1>3, <1>4 DEF DraftStep

LEMMA RecordStep ==
  ASSUME DraftsTyped, NEW p \in Procs, RecordSent(p), NEW d \in Drafts
  PROVE  /\ pc[p] = "waiting" /\ status[pjob[p]] = "done"
         /\ dstat'[d] = (IF d \in RowOf(pjob[p]) THEN "sent" ELSE dstat[d])
         /\ UNCHANGED <<dtask, rowId, crossed>>
         /\ DraftStep(d)
<1>1. /\ pc[p] = "waiting" /\ status[pjob[p]] = "done"
      /\ dstat'[d] = (IF d \in RowOf(pjob[p]) THEN "sent" ELSE dstat[d])
      /\ rowJob'[d] = (IF d \in RowOf(pjob[p]) THEN pjob[p] ELSE rowJob[d])
      /\ UNCHANGED <<dtask, rowId, crossed>>
  BY DEF RecordSent, At
<1> QED BY <1>1 DEF DraftStep

LEMMA DraftsOfStep ==
  ASSUME Typed, [AiNext]_allVars, NEW d \in Drafts
  PROVE  DraftStep(d)
<1>0. DraftsTyped
  BY DEF Typed
<1>1. CASE UNCHANGED <<drafts, crossed>>
  BY <1>1 DEF drafts, DraftStep
<1> QED BY <1>0, <1>1, RowsOfStep, NewDraftStep, RecordStep

LEMMA IdsKept ==
  ASSUME Typed, Ids, [AiNext]_allVars
  PROVE  Ids'
<1>0. DraftsTyped
  BY DEF Typed
<1>1. CASE UNCHANGED <<drafts, crossed>>
  BY <1>1 DEF drafts, Ids, Live
<1>2. ASSUME NEW p \in Procs, RecordSent(p)
      PROVE  Ids'
  <2>1. UNCHANGED <<dtask, rowId>>
    BY <1>2 DEF RecordSent
  <2>2. ASSUME NEW d \in Drafts
        PROVE  (dstat'[d] # "none" <=> dstat[d] # "none") /\ (Live(d)' <=> Live(d))
    <3>1. dstat'[d] = IF d \in RowOf(pjob[p]) THEN "sent" ELSE dstat[d]
      BY <1>0, <1>2, RecordStep
    <3> QED BY <3>1 DEF RowOf, Live
  <2> QED BY <1>0, <2>1, <2>2 DEF Ids, DraftsTyped
<1>3. ASSUME NEW p \in Procs, NEW t \in Tasks, NEW e \in Drafts, NewDraft(p, t, e)
      PROVE  Ids'
  <2>1. PICK i \in {e} \cup {rowId[x] : x \in DraftsOf(t, "draft")} : rowId'[e] = i
    BY <1>0, <1>3 DEF NewDraft, DraftsTyped
  <2>2. rowId[e] \in Drafts /\ i \in Drafts /\ rowId'[e] = i /\ dstat'[e] = "draft" /\ dtask'[e] = t
    BY <1>0, <1>3, <2>1, NewDraftStep DEF DraftsOf, DraftsTyped
  <2>3. \A d \in Drafts : d # e =>
          /\ rowId'[d] = rowId[d] /\ dtask'[d] = dtask[d] /\ (dstat'[d] # "none" <=> dstat[d] # "none")
          /\ Live(d)' => Live(d) /\ d \notin DraftsOf(t, "draft")
    BY <1>0, <1>3, NewDraftStep DEF Live, DraftsOf
  <2>4. ASSUME NEW d \in Drafts, dstat'[d] # "none"
        PROVE  dstat'[rowId'[d]] # "none"
    <3>1. CASE d = e
      <4>1. CASE i = e
        BY <2>2, <3>1, <4>1
      <4>2. ASSUME NEW x \in DraftsOf(t, "draft"), i = rowId[x]
            PROVE  dstat'[i] # "none"
        <5>1. x \in Drafts /\ dstat[x] = "draft"
          BY DEF DraftsOf
        <5>2. dstat[i] # "none"
          BY <4>2, <5>1 DEF Ids
        <5> QED BY <2>2, <2>3, <5>2
      <4> QED BY <2>1, <2>2, <3>1, <4>1, <4>2
    <3>2. CASE d # e
      <4>1. dstat[d] # "none" /\ rowId[d] \in Drafts /\ dstat[rowId[d]] # "none"
        BY <1>0, <2>3, <2>4, <3>2 DEF Ids, DraftsTyped
      <4> QED BY <2>2, <2>3, <3>2, <4>1
    <3> QED BY <3>1, <3>2
  <2>5. ASSUME NEW d \in Drafts, d # e, dstat'[d] # "none", rowId'[d] = rowId'[e]
        PROVE  dtask'[d] = dtask'[e] /\ ~Live(d)'
    <3>1. dstat[d] # "none" /\ rowId[d] = i /\ dtask'[d] = dtask[d] /\ dstat[i] # "none"
      BY <2>2, <2>3, <2>5 DEF Ids
    <3>2. i # e
      BY <1>3, <3>1 DEF NewDraft
    <3>3. PICK x \in DraftsOf(t, "draft") : i = rowId[x]
      BY <2>1, <2>2, <3>2
    <3>4. x \in Drafts /\ dstat[x] = "draft" /\ dtask[x] = t
      BY DEF DraftsOf
    <3>5. dtask[d] = t /\ (Live(d) => d = x)
      BY <3>1, <3>3, <3>4 DEF Ids, Live
    <3> QED BY <2>2, <2>3, <2>5, <3>1, <3>5
  <2>6. ASSUME NEW d \in Drafts, NEW f \in Drafts, d # e, f # e,
               dstat'[d] # "none", dstat'[f] # "none", rowId'[d] = rowId'[f]
        PROVE  dtask'[d] = dtask'[f] /\ (Live(d)' /\ Live(f)' => d = f)
    BY <2>3, <2>6 DEF Ids
  <2>7. ASSUME NEW d \in Drafts, NEW f \in Drafts,
               dstat'[d] # "none", dstat'[f] # "none", rowId'[d] = rowId'[f]
        PROVE  dtask'[d] = dtask'[f] /\ (Live(d)' /\ Live(f)' => d = f)
    <3>1. CASE d = e /\ f = e
      BY <3>1
    <3>2. CASE d = e /\ f # e
      BY <2>5, <2>7, <3>2
    <3>3. CASE d # e /\ f = e
      BY <2>5, <2>7, <3>3
    <3> QED BY <2>6, <2>7, <3>1, <3>2, <3>3
  <2> QED BY <2>4, <2>7 DEF Ids
<1> QED BY <1>1, <1>2, <1>3, RowsOfStep

(* What becomes of a job: what it was made for is kept, but for one that is   *)
(* made now.                                                                  *)
JobStep(j) ==
  /\ jobDraft[j] # NoDraft => jobDraft'[j] = jobDraft[j] /\ jobProc'[j] = jobProc[j]
  /\ status'[j] = "none" <=> jobDraft'[j] = NoDraft
  /\ accepted[j] > 0 => accepted'[j] > 0
  /\ status'[j] = "done" => status[j] = "done" \/ accepted[j] > 0
  /\ jobDraft'[j] # jobDraft[j] => jobDraft'[j] \in Drafts /\ dstat[jobDraft'[j]] # "none"

LEMMA JobsOfStep ==
  ASSUME Typed, Made, [AiNext]_allVars, NEW j \in Jobs
  PROVE  JobStep(j)
<1> USE DEF Typed, JobStep
<1>0. QueueTyped /\ (status[j] = "none" <=> jobDraft[j] = NoDraft)
  BY DEF Made
<1>1. CASE UNCHANGED <<queue, jobs>>
  BY <1>0, <1>1 DEF queue, jobs
<1>2. CASE Gateway
  BY <1>0, <1>2, GatewayOfStep DEF aiVars, jobs
<1>3. ASSUME NEW p \in Procs, NEW t \in Tasks, NEW d \in Drafts, NEW i \in Jobs,
             Approve(p, t, d, i)
      PROVE  JobStep(j)
  <2>1. /\ status[i] = "none" /\ status' = [status EXCEPT ![i] = "pending"]
        /\ accepted' = accepted
        /\ jobDraft' = [jobDraft EXCEPT ![i] = d] /\ jobProc' = [jobProc EXCEPT ![i] = p]
        /\ d \in Drafts /\ dstat[d] = "draft" /\ d # NoDraft
    BY <1>3, AiAssumption DEF Approve, Enqueue, DraftsOf
  <2> QED BY <1>0, <2>1 DEF QueueTyped
<1> QED
  BY <1>1, <1>2, <1>3, LoopIsProc
     DEF AiNext, Operate, Pick, Continue, StopTask, ResumeTask, SetStatus, CreateTask,
         InsertTask, Generate, Sync, RequestApproves, StartCycle, LoopSkips, LoopSupersedes,
         LoopDeclines, LoopComposes, LoopFetches, LoopApproves, AskFails, SyncOnly, WriteDraft,
         SyncAndGenerate, RecordSent, SendFails, WaitTimesOut, PeerReplies, RequestDies,
         LoopDies, LoopRestarts, allVars, aiVars

(* A process that waits waited before, for the same job, or begins to.        *)
LEMMA WaitersOfStep ==
  ASSUME Typed, [AiNext]_allVars, NEW p \in Procs, pc'[p] = "waiting"
  PROVE  \/ pc[p] = "waiting" /\ pjob'[p] = pjob[p]
         \/ \E t \in Tasks, d \in Drafts, j \in Jobs : Approve(p, t, d, j)
<1>0. /\ pc \in [Procs -> Places] /\ pjob \in [Procs -> Jobs \cup {NoJob}]
      /\ Loop \in Procs /\ Requests \subseteq Procs
  BY LoopIsProc DEF Typed, ProcsTyped
<1> DEFINE Same == pc[p] = "waiting" /\ pjob'[p] = pjob[p]
<1>1. CASE UNCHANGED procs
  BY <1>1 DEF procs
<1>2. ASSUME NEW q \in Procs, Release(q)
      PROVE  Same
  BY <1>0, <1>2 DEF Release
<1>3. ASSUME NEW q \in Procs, NEW t, NEW place, place # "waiting", Load(q, t, place), pjob' = pjob
      PROVE  Same
  BY <1>0, <1>3 DEF Load
<1>4. ASSUME NEW q \in Procs, NEW t \in Tasks, NEW d \in Drafts, NEW j \in Jobs,
             Approve(q, t, d, j)
      PROVE  Same \/ \E u \in Tasks, e \in Drafts, i \in Jobs : Approve(p, u, e, i)
  <2>1. CASE q = p
    BY <1>4, <2>1
  <2>2. CASE q # p
    BY <1>0, <1>4, <2>2 DEF Approve, Load
  <2> QED BY <2>1, <2>2
<1>5. ASSUME NEW q \in Procs, NEW t \in Tasks, CreateTask(q, t)
      PROVE  Same
  BY <1>0, <1>5 DEF CreateTask
<1>6. LoopDies => Same
  BY <1>0 DEF LoopDies
<1>7. ASSUME NEW t \in Tasks, LoopSkips(t)
      PROVE  Same
  BY <1>0, <1>7 DEF LoopSkips
<1>8. ASSUME NEW q \in Procs, Continue(q) \/ RequestDies(q)
      PROVE  Same
  BY <1>2, <1>8
     DEF Continue, AskFails, SyncOnly, RecordSent, SendFails, WaitTimesOut, WriteDraft,
         SyncAndGenerate, RequestDies
<1>9. ASSUME NEW t \in Tasks, Operate(t)
      PROVE  Same \/ \E u \in Tasks, e \in Drafts, i \in Jobs : Approve(p, u, e, i)
  BY <1>0, <1>1, <1>2, <1>3, <1>4, <1>5, <1>9
     DEF Operate, StopTask, ResumeTask, SetStatus, InsertTask, Generate, Sync, RequestApproves
<1>10. ASSUME NEW t \in Tasks, Pick(t)
       PROVE  Same \/ \E u \in Tasks, e \in Drafts, i \in Jobs : Approve(p, u, e, i)
  BY <1>0, <1>1, <1>3, <1>4, <1>7, <1>10
     DEF Pick, LoopSupersedes, LoopDeclines, LoopComposes, LoopFetches, LoopApproves
<1>11. \/ Gateway \/ StartCycle \/ (\E t \in Tasks : PeerReplies(t)) \/ UNCHANGED allVars
       => UNCHANGED procs
  BY DEF Gateway, StartCycle, PeerReplies, allVars, aiVars
<1>12. LoopRestarts => Same
  BY <1>0, <1>2 DEF LoopRestarts
<1> QED BY <1>1, <1>6, <1>8, <1>9, <1>10, <1>11, <1>12 DEF AiNext

LEMMA CrossingKept ==
  ASSUME Typed, Made, Ids, Crossing, [AiNext]_allVars
  PROVE  Crossing'
<1> SUFFICES ASSUME NEW p \in Procs, pc'[p] = "waiting", NEW d \in Drafts,
                    Live(d)', rowId'[d] = rowId'[jobDraft'[pjob'[p]]]
             PROVE  d = jobDraft'[pjob'[p]] \/ pjob'[p] \in crossed'
  BY DEF Crossing
<1>0. DraftsTyped /\ QueueTyped
  BY DEF Typed
<1>1. ASSUME NEW t \in Tasks, NEW x \in Drafts, NEW j \in Jobs, Approve(p, t, x, j)
      PROVE  d = jobDraft'[pjob'[p]]
  <2>1. pjob'[p] = j /\ jobDraft'[j] = x /\ UNCHANGED <<dstat, rowId>> /\ dstat[x] = "draft"
    BY <1>1 DEF Approve, rows, drafts, DraftsOf, Typed, QueueTyped, ProcsTyped
  <2>2. Live(d) /\ Live(x) /\ rowId[d] = rowId[x]
    BY <2>1 DEF Live
  <2> QED BY <2>1, <2>2 DEF Ids, Live
<1>2. CASE pc[p] = "waiting" /\ pjob'[p] = pjob[p]
  <2> DEFINE j == pjob[p]
             x == jobDraft[j]
  <2>1. j \in Jobs /\ x \in Drafts /\ x # NoDraft /\ dstat[x] # "none"
    BY <1>2, AiAssumption DEF Typed, AtWork, Made
  <2>2. jobDraft'[j] = x /\ rowId'[x] = rowId[x]
    BY <2>1, JobsOfStep, DraftsOfStep DEF JobStep, DraftStep
  <2>3. Live(d) /\ rowId[d] = rowId[x] => d = x \/ j \in crossed
    BY <1>2 DEF Crossing
  <2>4. CASE UNCHANGED <<drafts, crossed>>
    BY <1>2, <2>2, <2>3, <2>4 DEF drafts, Live
  <2>5. ASSUME NEW q \in Procs, RecordSent(q)
        PROVE  d = x \/ j \in crossed'
    <3>1. UNCHANGED <<rowId,
    crossed>> /\ dstat'[d] = IF d \in RowOf(pjob[q]) THEN "sent" ELSE dstat[d]
      BY <1>0, <2>5, RecordStep
    <3>2. Live(d)
      BY <3>1 DEF Live, RowOf
    <3> QED BY <1>2, <2>2, <2>3, <3>1, <3>2
  <2>6. ASSUME NEW q \in Procs, NEW t \in Tasks, NEW e \in Drafts, NewDraft(q, t, e)
        PROVE  d = x \/ j \in crossed'
    <3>1. crossed \subseteq crossed' /\ crossed' = crossed \cup WaitingFor(rowId'[e])
      BY <1>0, <2>6 DEF NewDraft, DraftsTyped
    <3>2. CASE d = e
      <4>1. rowId[x] = rowId'[e]
        BY <1>2, <2>2, <3>2
      <4>2. j \in WaitingFor(rowId'[e])
        BY <1>2, <2>1, <4>1 DEF WaitingFor
      <4> QED BY <3>1, <4>2
    <3>3. CASE d # e
      <4>1. rowId'[d] = rowId[d] /\ Live(d)
        BY <1>0, <2>6, <3>3, NewDraftStep DEF Live
      <4> QED BY <1>2, <2>2, <2>3, <3>1, <4>1
    <3> QED BY <3>2, <3>3
  <2>7. d = x \/ j \in crossed'
    BY <1>2, <2>2, <2>4, <2>5, <2>6, <2>3, RowsOfStep DEF drafts, Live
  <2> QED BY <1>2, <2>2, <2>7
<1> QED BY <1>1, <1>2, WaitersOfStep

LEMMA RowsKept ==
  ASSUME Typed, Typed', Made, Named, Crossing, [AiNext]_allVars
  PROVE  Made' /\ Named'
<1>1. Made'
  <2> SUFFICES ASSUME NEW j \in Jobs
               PROVE  /\ status'[j] = "none" <=> jobDraft'[j] = NoDraft
                      /\ status'[j] = "done" => accepted'[j] > 0
                      /\ jobDraft'[j] # NoDraft => dstat'[jobDraft'[j]] # "none"
    BY DEF Made
  <2>1. JobStep(j)
    BY JobsOfStep
  <2>2. jobDraft'[j] # NoDraft => jobDraft'[j] \in Drafts /\ dstat[jobDraft'[j]] # "none"
    BY <2>1 DEF JobStep, Made, Typed, QueueTyped
  <2>3. jobDraft'[j] # NoDraft => dstat'[jobDraft'[j]] # "none"
    BY <2>2, DraftsOfStep DEF DraftStep
  <2> QED BY <2>1, <2>3 DEF JobStep, Made
<1>2. crossed \subseteq crossed'
  BY RowsOfStep DEF NewDraft, RecordSent
<1>3. Named'
  <2> SUFFICES ASSUME NEW d \in Drafts, dstat'[d] = "sent"
               PROVE  /\ rowJob'[d] \in Jobs /\ accepted'[rowJob'[d]] > 0
                      /\ jobDraft'[rowJob'[d]] = d \/ rowJob'[d] \in crossed'
    BY DEF Named
  <2> DEFINE j == rowJob'[d]
  <2>1. j \in Jobs /\ accepted[j] > 0 /\ (jobDraft[j] = d \/ j \in crossed)
    <3>1. CASE dstat[d] = "sent" /\ rowJob'[d] = rowJob[d]
      BY <3>1 DEF Named
    <3>2. ASSUME NEW p \in Procs, pc[p] = "waiting", status[pjob[p]] = "done",
                 d \in RowOf(pjob[p]), rowJob'[d] = pjob[p]
          PROVE  j \in Jobs /\ accepted[j] > 0 /\ (jobDraft[j] = d \/ j \in crossed)
      <4>1. Live(d) /\ rowId[d] = rowId[jobDraft[pjob[p]]]
        BY <3>2 DEF RowOf, Live
      <4> QED BY <3>2, <4>1 DEF Typed, AtWork, Made, Crossing
    <3> QED BY <3>1, <3>2, DraftsOfStep DEF DraftStep
  <2>2. d # NoDraft
    BY AiAssumption
  <2> QED BY <1>2, <2>1, <2>2, JobsOfStep DEF JobStep
<1> QED BY <1>1, <1>3

LEMMA RowsHold == AiSpec => [](Made /\ Named /\ Ids)
<1>1. AiInit => Made /\ Named /\ Ids /\ Crossing
  BY DEF AiInit, Init, Made, Named, Ids, Crossing
<1>2. Typed /\ Typed' /\ Made /\ Named /\ Ids /\ Crossing /\ [AiNext]_allVars
        => Made' /\ Named' /\ Ids' /\ Crossing'
  BY RowsKept, IdsKept, CrossingKept
<1> QED BY <1>1, <1>2, TypesHold, PTL DEF AiSpec, allVars

(* A row is "sent" only if Telegram accepted its text, for the job the row    *)
(* names: whatever the queue retries, whoever approves the draft twice and    *)
(* whichever wait ends first.  A job whose draft lost its id to a new one     *)
(* during the wait is excepted: its record falls on the new one.              *)
THEOREM SentIsDelivered == AiSpec => []SentWasDelivered
<1>1. Named => SentWasDelivered
  BY DEF Named, SentWasDelivered
<1> QED BY <1>1, RowsHold, PTL

-----------------------------------------------------------------------------
(* The limit.  The loop looks at the rows that are sent before it enqueues,   *)
(* so its jobs, all but the lost ones, are of drafts with different ids, and  *)
(* each is waited for or a row with its id is sent, though perhaps not the    *)
(* row it was made for.  Which are the lost ones no variable tells.           *)
LoopJobs(t) == {j \in Jobs : jobDraft[j] # NoDraft /\ jobProc[j] = Loop /\ dtask[jobDraft[j]] = t}
Waits(j) == pc[Loop] = "waiting" /\ pjob[Loop] = j
RowSent(j) ==
  \E d \in Drafts : dstat[d] = "sent" /\ rowId[d] = rowId[jobDraft[j]]
Kept(t, K) ==
  /\ Cardinality(LoopJobs(t) \ K) =< lost[t] /\ Cardinality(K) =< MaxMessages
  /\ \A j \in LoopJobs(t) : Waits(j) => j \in K
  /\ \A j \in K : Waits(j) \/ RowSent(j)
  /\ \A i, j \in K : rowId[jobDraft[i]] = rowId[jobDraft[j]] => i = j
Limited == \A t \in Tasks : \E K \in SUBSET LoopJobs(t) : Kept(t, K)
(* The loop waits for a job of its own, for the task it is at.                *)
Errand ==
  pc[Loop] = "waiting" => /\ jobProc[pjob[Loop]] = Loop
                          /\ dtask[jobDraft[pjob[Loop]]] = ptask[Loop]

LEMMA JobsCounted ==
  ASSUME NEW S \in SUBSET Jobs
  PROVE  IsFiniteSet(S) /\ Cardinality(S) \in Nat
BY AiAssumption, FS_Subset, FS_CardinalityType

(* The jobs of the loop for a task stay, and a new one is one that is made.   *)
LEMMA LoopJobsOfStep ==
  ASSUME Typed, Made, [AiNext]_allVars, NEW t \in Tasks, NEW j \in Jobs
  PROVE  /\ j \in LoopJobs(t) => j \in LoopJobs(t)' /\ jobDraft'[j] = jobDraft[j]
         /\ j \in LoopJobs(t)' /\ j \notin LoopJobs(t) =>
              jobDraft[j] = NoDraft /\ jobDraft'[j] # NoDraft /\ jobProc'[j] = Loop
<1>1. JobStep(j)
  BY JobsOfStep
<1>2. CASE jobDraft[j] # NoDraft
  <2>1. /\ jobDraft[j] \in Drafts /\ dstat[jobDraft[j]] # "none"
        /\ jobDraft'[j] = jobDraft[j] /\ jobProc'[j] = jobProc[j]
    BY <1>1, <1>2 DEF JobStep, Made, Typed, QueueTyped
  <2>2. dtask'[jobDraft[j]] = dtask[jobDraft[j]]
    BY <2>1, DraftsOfStep DEF DraftStep
  <2> QED BY <1>2, <2>1, <2>2 DEF LoopJobs
<1>3. CASE jobDraft[j] = NoDraft
  BY <1>3 DEF LoopJobs
<1> QED BY <1>2, <1>3

LEMMA IdsOfJobs ==
  ASSUME Typed, Made, [AiNext]_allVars, NEW t \in Tasks, NEW j \in LoopJobs(t)
  PROVE  /\ j \in Jobs /\ jobDraft[j] \in Drafts /\ dstat[jobDraft[j]] # "none"
         /\ jobDraft'[j] = jobDraft[j] /\ rowId'[jobDraft[j]] = rowId[jobDraft[j]]
         /\ RowSent(j) => RowSent(j)'
<1>1. j \in Jobs /\ jobDraft[j] \in Drafts /\ dstat[jobDraft[j]] # "none"
  BY DEF LoopJobs, Made, Typed, QueueTyped
<1>2. jobDraft'[j] = jobDraft[j]
  BY <1>1, LoopJobsOfStep
<1>3. rowId'[jobDraft[j]] = rowId[jobDraft[j]]
  BY <1>1, DraftsOfStep DEF DraftStep
<1>4. ASSUME NEW d \in Drafts, dstat[d] = "sent"
      PROVE  dstat'[d] = "sent" /\ rowId'[d] = rowId[d]
  BY <1>4, DraftsOfStep DEF DraftStep
<1> QED BY <1>1, <1>2, <1>3, <1>4 DEF RowSent

(* A step that makes no job for the loop, loses none, and after which the     *)
(* loop waits for the same one or for none that is not sent.                  *)
LEMMA LimitStays ==
  ASSUME Typed, Made, [AiNext]_allVars, NEW t \in Tasks,
         NEW K \in SUBSET LoopJobs(t), Kept(t, K),
         LoopJobs(t)' \subseteq LoopJobs(t), lost'[t] = lost[t],
         \A j \in LoopJobs(t) : Waits(j)' => Waits(j),
         \A j \in LoopJobs(t) : Waits(j) => Waits(j)' \/ RowSent(j)'
  PROVE  (\E L \in SUBSET LoopJobs(t) : Kept(t, L))'
<1>1. LoopJobs(t)' = LoopJobs(t)
  <2>1. LoopJobs(t) \subseteq Jobs /\ LoopJobs(t)' \subseteq Jobs
    BY DEF LoopJobs
  <2> QED BY <2>1, LoopJobsOfStep
<1>2. \A j \in LoopJobs(t) : /\ rowId'[jobDraft'[j]] = rowId[jobDraft[j]]
                             /\ RowSent(j) => RowSent(j)'
  BY IdsOfJobs
<1>3. Kept(t, K)'
  BY <1>1, <1>2 DEF Kept
<1> QED BY <1>1, <1>3

(* A wait of the loop that ends without a record loses the job.               *)
LEMMA LimitLoses ==
  ASSUME Typed, Made, [AiNext]_allVars, NEW t \in Tasks,
         NEW K \in SUBSET LoopJobs(t), Kept(t, K),
         NEW i \in LoopJobs(t), Waits(i), UNCHANGED jobs, lost'[t] = lost[t] + 1,
         \A j \in Jobs : ~Waits(j)'
  PROVE  (\E L \in SUBSET LoopJobs(t) : Kept(t, L))'
<1>1. LoopJobs(t)' = LoopJobs(t) /\ LoopJobs(t) \subseteq Jobs
  <2>1. LoopJobs(t) \subseteq Jobs /\ LoopJobs(t)' \subseteq Jobs
    BY DEF LoopJobs
  <2> QED BY <2>1, LoopJobsOfStep DEF jobs
<1> DEFINE L == K \ {i}
           gone == LoopJobs(t) \ K
<1>2. K \in SUBSET Jobs /\ L \in SUBSET K /\ gone \in SUBSET Jobs
  BY <1>1
<1>3. Cardinality(L) =< MaxMessages
  <2>1. Cardinality(L) =< Cardinality(K) /\ Cardinality(L) \in Nat /\ Cardinality(K) \in Nat
    BY <1>2, JobsCounted, FS_Subset
  <2> QED BY <2>1, AiAssumption DEF Kept
<1>4. Cardinality(LoopJobs(t) \ L) =< lost'[t]
  <2>1. LoopJobs(t) \ L = gone \cup {i}
    OBVIOUS
  <2>2. Cardinality(gone) =< lost[t] /\ lost[t] \in Nat
    BY DEF Kept, Typed, TasksTyped
  <2> HIDE DEF gone
  <2>3. IsFiniteSet(gone) /\ Cardinality(gone) \in Nat
    BY <1>2, JobsCounted
  <2>4. Cardinality(gone \cup {i}) =< Cardinality(gone) + 1
    <3>1. Cardinality(gone \cup {i}) = IF i \in gone THEN Cardinality(gone) ELSE Cardinality(gone) + 1
      BY <2>3, FS_AddElement
    <3> QED BY <2>3, <3>1
  <2>5. Cardinality(gone \cup {i}) \in Nat
    BY <1>1, <1>2, JobsCounted
  <2> QED BY <2>1, <2>2, <2>3, <2>4, <2>5
<1>5. \A j \in LoopJobs(t) : /\ rowId'[jobDraft'[j]] = rowId[jobDraft[j]]
                             /\ RowSent(j) => RowSent(j)'
  BY IdsOfJobs
<1>6. \A j \in L : RowSent(j)'
  <2>1. \A j \in L : ~Waits(j) /\ j \in K /\ j \in LoopJobs(t)
    BY DEF Waits
  <2>2. \A j \in K : Waits(j) \/ RowSent(j)
    BY DEF Kept
  <2> HIDE DEF L
  <2> QED BY <1>5, <2>1, <2>2
<1>7. \A j, k \in L : rowId'[jobDraft'[j]] = rowId'[jobDraft'[k]] => j = k
  BY <1>5 DEF Kept
<1> HIDE DEF L
<1>8. L \in SUBSET LoopJobs(t)'
  BY <1>1, <1>2
<1>9. \E M \in SUBSET LoopJobs(t)' :
        /\ Cardinality(LoopJobs(t)' \ M) =< lost'[t] /\ Cardinality(M) =< MaxMessages
        /\ \A j \in LoopJobs(t)' : Waits(j)' => j \in M
        /\ \A j \in M : Waits(j)' \/ RowSent(j)'
        /\ \A j, k \in M : rowId'[jobDraft'[j]] = rowId'[jobDraft'[k]] => j = k
  BY <1>1, <1>3, <1>4, <1>6, <1>7, <1>8
<1> QED BY <1>9 DEF Kept

(* An idle loop has kept as many jobs as drafts of the task are sent, at most.*)
LEMMA KeptAreSent ==
  ASSUME Typed, Made, Ids, NEW t \in Tasks, NEW K \in SUBSET LoopJobs(t), Kept(t, K),
         pc[Loop] = "idle"
  PROVE  Cardinality(K) =< Cardinality(DraftsOf(t, "sent")) /\ Cardinality(DraftsOf(t,
  "sent")) \in Nat
<1> DEFINE S == DraftsOf(t, "sent")
           row(j) == CHOOSE d \in Drafts : dstat[d] = "sent" /\ rowId[d] = rowId[jobDraft[j]]
           f == [j \in K |-> row(j)]
<1>1. IsFiniteSet(S) /\ Cardinality(S) \in Nat
  <2>1. S \in SUBSET Drafts
    BY DEF DraftsOf
  <2> QED BY <2>1, AiAssumption, FS_Subset, FS_CardinalityType
<1>2. ASSUME NEW j \in K
      PROVE  row(j) \in S /\ rowId[row(j)] = rowId[jobDraft[j]]
  <2>1. RowSent(j)
    BY DEF Waits, Kept
  <2>2. row(j) \in Drafts /\ dstat[row(j)] = "sent" /\ rowId[row(j)] = rowId[jobDraft[j]]
    BY <2>1 DEF RowSent
  <2>3. /\ jobDraft[j] \in Drafts /\ dstat[jobDraft[j]] # "none"
        /\ dtask[jobDraft[j]] = t
    BY DEF LoopJobs, Made, Typed, QueueTyped
  <2> HIDE DEF row
  <2>4. dtask[row(j)] = t
    BY <2>2, <2>3 DEF Ids
  <2> QED BY <2>2, <2>4 DEF DraftsOf
<1> HIDE DEF row
<1>3. f \in [K -> S]
  BY <1>2
<1>4. f \in Injection(K, S)
  <2>1. ASSUME NEW i \in K, NEW j \in K, row(i) = row(j)
        PROVE  i = j
    BY <1>2, <2>1 DEF Kept
  <2> QED BY <1>3, <2>1 DEF Injection, IsInjective
<1> HIDE DEF S, f
<1>5. Cardinality(K) =< Cardinality(S)
  BY <1>1, <1>4, FS_Injection
<1> QED BY <1>1, <1>5 DEF S

LEMMA LimitGrows ==
  ASSUME Typed, Made, Ids, [AiNext]_allVars, NEW t \in Tasks,
         NEW K \in SUBSET LoopJobs(t), Kept(t, K),
         NEW d \in Drafts, NEW i \in Jobs, LoopApproves(t, d, i)
  PROVE  (\E L \in SUBSET LoopJobs(t) : Kept(t, L))'
<1>1. /\ pc[Loop] = "idle" /\ pc'[Loop] = "waiting" /\ pjob'[Loop] = i
      /\ Cardinality(DraftsOf(t, "sent")) < MaxMessages
      /\ dtask[d] = t /\ dstat[d] = "draft" /\ status[i] = "none"
      /\ jobDraft' = [jobDraft EXCEPT ![i] = d] /\ jobProc' = [jobProc EXCEPT ![i] = Loop]
      /\ UNCHANGED <<dstat, dtask, rowId, lost>>
  BY LoopIsProc
     DEF LoopApproves, Processes, Approve, Load, Enqueue, DraftsOf, At, rows, drafts, history,
         Typed, ProcsTyped
<1>2. jobDraft[i] = NoDraft /\ d # NoDraft /\ jobDraft'[i] = d /\ jobProc'[i] = Loop
  BY <1>1, AiAssumption DEF Made, Typed, QueueTyped
<1>3. LoopJobs(t) \subseteq Jobs /\ K \in SUBSET Jobs /\ i \notin LoopJobs(t)
  BY <1>2 DEF LoopJobs
<1>4. LoopJobs(t)' = LoopJobs(t) \cup {i}
  BY <1>1, <1>2 DEF LoopJobs, Typed, QueueTyped
<1> DEFINE L == K \cup {i}
<1>5. \A j \in K : jobDraft'[j] = jobDraft[j] /\ RowSent(j) /\ rowId[jobDraft[j]] # rowId[d]
  <2> SUFFICES ASSUME NEW j \in K
               PROVE  jobDraft'[j] = jobDraft[j] /\ RowSent(j) /\ rowId[jobDraft[j]] # rowId[d]
    OBVIOUS
  <2>1. j # i /\ j \in Jobs /\ ~Waits(j)
    BY <1>1, <1>3 DEF Waits
  <2>2. jobDraft'[j] = jobDraft[j] /\ RowSent(j)
    BY <1>1, <2>1 DEF Kept, Typed, QueueTyped
  <2>3. PICK e \in Drafts : dstat[e] = "sent" /\ rowId[e] = rowId[jobDraft[j]]
    BY <2>2 DEF RowSent
  <2>4. rowId[e] # rowId[d]
    BY <1>1, <2>3 DEF Ids, Live
  <2> QED BY <2>2, <2>3, <2>4
<1>6. Cardinality(L) =< MaxMessages
  <2>1. Cardinality(K) < MaxMessages /\ Cardinality(K) \in Nat /\ IsFiniteSet(K)
    BY <1>1, <1>3, KeptAreSent, JobsCounted, AiAssumption
  <2>2. Cardinality(L) = IF i \in K THEN Cardinality(K) ELSE Cardinality(K) + 1
    BY <2>1, FS_AddElement
  <2> QED BY <2>1, <2>2, AiAssumption
<1>7. LoopJobs(t)' \ L = LoopJobs(t) \ K /\ L \in SUBSET LoopJobs(t)'
  BY <1>3, <1>4
<1>8. \A j \in L : Waits(j)' \/ RowSent(j)'
  BY <1>1, <1>5 DEF Waits, RowSent
<1>9. \A j, k \in L : rowId'[jobDraft'[j]] = rowId'[jobDraft'[k]] => j = k
  BY <1>1, <1>2, <1>5 DEF Kept
<1>10. \A j \in LoopJobs(t)' : Waits(j)' => j \in L
  BY <1>1 DEF Waits
<1>11. Cardinality(LoopJobs(t)' \ L) =< lost'[t]
  BY <1>1, <1>7 DEF Kept
<1> HIDE DEF L
<1>12. \E M \in SUBSET LoopJobs(t)' :
         /\ Cardinality(LoopJobs(t)' \ M) =< lost'[t] /\ Cardinality(M) =< MaxMessages
         /\ \A j \in LoopJobs(t)' : Waits(j)' => j \in M
         /\ \A j \in M : Waits(j)' \/ RowSent(j)'
         /\ \A j, k \in M : rowId'[jobDraft'[j]] = rowId'[jobDraft'[k]] => j = k
  BY <1>6, <1>7, <1>8, <1>9, <1>10, <1>11
<1> QED BY <1>12 DEF Kept

(* The loop at work: its waits begin with LoopApproves and end in Continue or *)
(* with the process.                                                          *)
LEMMA WaitOfStep ==
  ASSUME Typed, [AiNext]_allVars
  PROVE  \/ UNCHANGED <<pc[Loop], pjob[Loop]>>
         \/ pc[Loop] # "waiting" /\ pc'[Loop] # "waiting"
         \/ \E t \in Tasks, d \in Drafts, j \in Jobs : LoopApproves(t, d, j)
         \/ RecordSent(Loop) \/ SendFails(Loop) \/ WaitTimesOut(Loop) \/ LoopDies
<1>0. pc \in [Procs -> Places] /\ pjob \in [Procs -> Jobs \cup {NoJob}] /\ Loop \in Procs
  BY LoopIsProc DEF Typed, ProcsTyped
<1>1. CASE UNCHANGED procs
  BY <1>1 DEF procs
<1>2. ASSUME NEW p \in Procs, p # Loop, Release(p)
      PROVE  UNCHANGED <<pc[Loop], pjob[Loop]>>
  BY <1>0, <1>2 DEF Release
<1>3. ASSUME NEW p \in Procs, p # Loop, NEW t, NEW place, Load(p, t, place),
             pjob' = pjob \/ \E j : pjob' = [pjob EXCEPT ![p] = j]
      PROVE  UNCHANGED <<pc[Loop], pjob[Loop]>>
  BY <1>0, <1>3 DEF Load
<1>4. ASSUME NEW t \in Tasks, Operate(t)
      PROVE  UNCHANGED <<pc[Loop], pjob[Loop]>>
  <2>1. CASE StopTask(t) \/ ResumeTask(t)
    BY <2>1 DEF StopTask, ResumeTask, SetStatus, procs
  <2>2. ASSUME NEW p \in Requests, \/ CreateTask(p, t) \/ InsertTask(p, t) \/ Generate(p, t)
                                   \/ Sync(p, t)
        PROVE  UNCHANGED <<pc[Loop], pjob[Loop]>>
    <3>1. p \in Procs /\ p # Loop
      BY LoopIsProc
    <3>2. CASE CreateTask(p, t)
      BY <1>0, <3>1, <3>2 DEF CreateTask
    <3>3. CASE InsertTask(p, t)
      BY <1>2, <3>1, <3>3 DEF InsertTask
    <3>4. CASE Generate(p, t) \/ Sync(p, t)
      BY <1>3, <3>1, <3>4 DEF Generate, Sync
    <3> QED BY <2>2, <3>2, <3>3, <3>4
  <2>3. ASSUME NEW p \in Requests, NEW d \in Drafts, NEW j \in Jobs, RequestApproves(p, t, d, j)
        PROVE  UNCHANGED <<pc[Loop], pjob[Loop]>>
    BY <1>3, <2>3, LoopIsProc DEF RequestApproves, Approve
  <2> QED BY <1>4, <2>1, <2>2, <2>3 DEF Operate
<1>5. ASSUME NEW t \in Tasks, Pick(t)
      PROVE  \/ UNCHANGED <<pc[Loop], pjob[Loop]>>
             \/ pc[Loop] # "waiting" /\ pc'[Loop] # "waiting"
             \/ \E d \in Drafts, j \in Jobs : LoopApproves(t, d, j)
  BY <1>0, <1>5
     DEF Pick, LoopSkips, LoopSupersedes, LoopDeclines, LoopComposes, LoopFetches, Visit, At,
         Load, procs
<1>6. ASSUME NEW p \in Procs, Continue(p) \/ RequestDies(p), p # Loop
      PROVE  UNCHANGED <<pc[Loop], pjob[Loop]>>
  BY <1>2, <1>6
     DEF Continue, AskFails, SyncOnly, RecordSent, SendFails, WaitTimesOut, WriteDraft,
         SyncAndGenerate, RequestDies
<1>7. ASSUME \/ AskFails(Loop) \/ SyncOnly(Loop)
             \/ \E d \in Drafts : WriteDraft(Loop, d) \/ SyncAndGenerate(Loop, d)
             \/ LoopRestarts
      PROVE  pc[Loop] # "waiting" /\ pc'[Loop] # "waiting"
  BY <1>0, <1>7
     DEF AskFails, SyncOnly, WriteDraft, SyncAndGenerate, StoreInbound, LoopRestarts, At, Release
<1>8. RequestDies(Loop) => FALSE
  BY DEF RequestDies
<1> QED
  BY <1>1, <1>4, <1>5, <1>6, <1>7, <1>8
     DEF AiNext, Gateway, StartCycle, PeerReplies, Continue, allVars, aiVars

(* What a step loses, and for whom a job is made.                             *)
LEMMA LostOfStep ==
  ASSUME Typed, [AiNext]_allVars,
         ~RecordSent(Loop), ~SendFails(Loop), ~WaitTimesOut(Loop),
         ~(LoopDies /\ pc[Loop] = "waiting")
  PROVE  lost' = lost
<1>0. lost \in [Tasks -> Nat] /\ Loop \in Procs
  BY LoopIsProc DEF Typed, TasksTyped
<1>1. ASSUME NEW p \in Procs, p # Loop, NEW b, Lose(p, b)
      PROVE  lost' = lost
  BY <1>0, <1>1 DEF Lose
<1>2. ASSUME NEW p \in Procs, RecordSent(p) \/ SendFails(p) \/ WaitTimesOut(p)
      PROVE  lost' = lost
  <2>1. p # Loop
    BY <1>2
  <2> QED BY <1>1, <1>2, <2>1 DEF RecordSent, SendFails, WaitTimesOut
<1>3. ASSUME NEW t \in Tasks, Operate(t) \/ Pick(t) \/ PeerReplies(t)
      PROVE  lost' = lost
  BY <1>3
     DEF Operate, Pick, StopTask, ResumeTask, SetStatus, CreateTask, InsertTask, Generate, Sync,
         RequestApproves, Approve, LoopSkips, LoopSupersedes, LoopDeclines, LoopComposes,
         LoopFetches, LoopApproves, PeerReplies, history
<1>4. ASSUME NEW p \in Procs, NEW d \in Drafts, WriteDraft(p, d) \/ SyncAndGenerate(p, d)
      PROVE  lost' = lost
  BY <1>4 DEF WriteDraft, SyncAndGenerate, NewDraft
<1>5. ASSUME NEW p \in Procs, AskFails(p) \/ SyncOnly(p) \/ RequestDies(p)
      PROVE  lost' = lost
  BY <1>5 DEF AskFails, SyncOnly, RequestDies, history
<1>6. LoopDies => lost' = lost
  BY DEF LoopDies, At
<1> QED
  BY <1>2, <1>3, <1>4, <1>5, <1>6
     DEF AiNext, Continue, Gateway, StartCycle, LoopRestarts, allVars, aiVars, history

LEMMA MadeForLoop ==
  ASSUME Typed, [AiNext]_allVars, NEW j \in Jobs,
         jobDraft[j] = NoDraft, jobDraft'[j] # NoDraft, jobProc'[j] = Loop
  PROVE  \E t \in Tasks, d \in Drafts : LoopApproves(t, d, j)
<1>0. QueueTyped
  BY DEF Typed
<1>1. ASSUME NEW p \in Procs, NEW t \in Tasks, NEW d \in Drafts, NEW i \in Jobs,
             Approve(p, t, d, i)
      PROVE  i = j /\ p = Loop
  BY <1>0, <1>1 DEF Approve, QueueTyped
<1>2. ASSUME NEW t \in Tasks, Operate(t)
      PROVE  FALSE
  BY <1>1, <1>2, LoopIsProc
     DEF Operate, StopTask, ResumeTask, SetStatus, CreateTask, InsertTask,
         Generate, Sync, RequestApproves, jobs
<1>3. ASSUME NEW t \in Tasks, Pick(t)
      PROVE  \E d \in Drafts : LoopApproves(t, d, j)
  <2>1. PICK d \in Drafts, i \in Jobs : LoopApproves(t, d, i)
    BY <1>3 DEF Pick, LoopSkips, LoopSupersedes, LoopDeclines, LoopComposes, LoopFetches, jobs
  <2>2. i = j
    BY <1>1, <2>1, LoopIsProc DEF LoopApproves
  <2> QED BY <2>1, <2>2
<1>4. ASSUME NEW p \in Procs, Continue(p) \/ RequestDies(p)
      PROVE  FALSE
  BY <1>4
     DEF Continue, AskFails, SyncOnly, RecordSent, SendFails, WaitTimesOut, WriteDraft,
         SyncAndGenerate, RequestDies, jobs
<1> QED
  BY <1>2, <1>3, <1>4
     DEF AiNext, Gateway, StartCycle, PeerReplies, LoopDies, LoopRestarts, allVars, aiVars, jobs

LEMMA ErrandKept ==
  ASSUME Typed, Made, Errand, [AiNext]_allVars
  PROVE  Errand'
<1> SUFFICES ASSUME pc'[Loop] = "waiting"
             PROVE  /\ jobProc'[pjob'[Loop]] = Loop
                    /\ dtask'[jobDraft'[pjob'[Loop]]] = ptask'[Loop]
  BY DEF Errand
<1>0. Loop \in Procs /\ ProcsTyped
  BY LoopIsProc DEF Typed
<1>1. ASSUME NEW t \in Tasks, NEW d \in Drafts, NEW j \in Jobs, LoopApproves(t, d, j)
      PROVE  /\ jobProc'[pjob'[Loop]] = Loop
             /\ dtask'[jobDraft'[pjob'[Loop]]] = ptask'[Loop]
  BY <1>0, <1>1
     DEF LoopApproves, Approve, Load, DraftsOf, rows, drafts, Typed, QueueTyped, ProcsTyped
<1>2. ASSUME RecordSent(Loop) \/ SendFails(Loop) \/ WaitTimesOut(Loop) \/ LoopDies
      PROVE  FALSE
  BY <1>0, <1>2 DEF RecordSent, SendFails, WaitTimesOut, LoopDies, Release, ProcsTyped
<1>3. CASE UNCHANGED <<pc[Loop], pjob[Loop]>>
  <2> DEFINE j == pjob[Loop]
  <2>1. j \in Jobs /\ jobDraft[j] \in Drafts /\ jobDraft[j] # NoDraft
    BY <1>0, <1>3, AiAssumption DEF Typed, AtWork
  <2>2. jobProc[j] = Loop /\ dtask[jobDraft[j]] = ptask[Loop]
    BY <1>3 DEF Errand
  <2>3. jobDraft'[j] = jobDraft[j] /\ jobProc'[j] = jobProc[j]
    BY <2>1, JobsOfStep DEF JobStep
  <2>4. dtask'[jobDraft[j]] = dtask[jobDraft[j]]
    BY <2>1, DraftsOfStep DEF DraftStep, Made
  <2>5. ptask'[Loop] = ptask[Loop]
    <3>1. pc[Loop] = "waiting"
      BY <1>3
    <3>2. ASSUME NEW p \in Procs, Release(p) \/ \E t, place : Load(p, t, place)
          PROVE  ptask'[Loop] = ptask[Loop]
      BY <1>0, <3>1, <3>2 DEF Release, Load, ProcsTyped
    <3>3. CASE UNCHANGED ptask
      BY <3>3
    <3>4. ASSUME NEW t \in Tasks, Operate(t)
          PROVE  ptask'[Loop] = ptask[Loop]
      BY <3>2, <3>3, <3>4, LoopIsProc
         DEF Operate, StopTask, ResumeTask, SetStatus, CreateTask, InsertTask, Generate, Sync,
             RequestApproves, Approve, procs
    <3>5. ASSUME NEW t \in Tasks, Pick(t)
          PROVE  ptask'[Loop] = ptask[Loop]
      <4>1. LoopSkips(t) => FALSE
        BY <3>1 DEF LoopSkips, Visit, At
      <4> QED
        BY <3>2, <3>3, <3>5, <4>1, LoopIsProc
           DEF Pick, LoopSupersedes, LoopDeclines, LoopComposes, LoopFetches, LoopApproves,
               Approve, procs
    <3>6. ASSUME NEW p \in Procs, Continue(p) \/ RequestDies(p)
          PROVE  ptask'[Loop] = ptask[Loop]
      BY <3>2, <3>6
         DEF Continue, AskFails, SyncOnly, RecordSent, SendFails, WaitTimesOut, WriteDraft,
             SyncAndGenerate, RequestDies
    <3>7. LoopDies \/ LoopRestarts => FALSE
      BY <1>0, <1>3, <3>1 DEF LoopDies, LoopRestarts, At, ProcsTyped
    <3> QED
      BY <3>3, <3>4, <3>5, <3>6, <3>7
         DEF AiNext, Gateway, StartCycle, PeerReplies, allVars, aiVars, procs
  <2> QED BY <1>3, <2>2, <2>3, <2>4, <2>5
<1> QED BY <1>1, <1>2, <1>3, WaitOfStep

LEMMA LimitedKept ==
  ASSUME Typed, Made, Ids, Errand, Limited, [AiNext]_allVars
  PROVE  Limited'
<1> SUFFICES ASSUME NEW t \in Tasks
             PROVE  (\E K \in SUBSET LoopJobs(t) : Kept(t, K))'
  BY DEF Limited
<1> PICK K \in SUBSET LoopJobs(t) : Kept(t, K)
  BY DEF Limited
<1>0. ProcsTyped /\ Loop \in Procs /\ LoopJobs(t)' \subseteq Jobs /\ LoopJobs(t) \subseteq Jobs
  BY LoopIsProc DEF Typed, LoopJobs
<1>1. ASSUME pc[Loop] = "waiting",
             RecordSent(Loop) \/ SendFails(Loop) \/ WaitTimesOut(Loop) \/ LoopDies
      PROVE  (\E L \in SUBSET LoopJobs(t) : Kept(t, L))'
  <2> DEFINE u == ptask[Loop]
  <2>0. PICK i \in Jobs : i = pjob[Loop]
    BY <1>0, <1>1 DEF Typed, AtWork
  <2>1. i \in Jobs /\ jobDraft[i] \in Drafts /\ u \in Tasks /\ i \in LoopJobs(u)
    BY <1>0, <1>1, <2>0, AiAssumption DEF Typed, AtWork, Errand, LoopJobs
  <2>2. pc'[Loop] # "waiting" /\ UNCHANGED jobs
    BY <1>0, <1>1 DEF RecordSent, SendFails, WaitTimesOut, LoopDies, Release, ProcsTyped
  <2>3. \A j \in Jobs : ~Waits(j)'
    BY <2>2 DEF Waits
  <2>4. LoopJobs(t)' \subseteq LoopJobs(t)
    BY <1>0, <2>2, LoopJobsOfStep DEF jobs
  <2>5. \E b \in BOOLEAN : Lose(Loop, b) /\ (~b => RowSent(i)')
    <3>1. CASE RecordSent(Loop)
      <4>1. Lose(Loop, RowOf(i) = {})
        BY <2>0, <3>1 DEF RecordSent
      <4>2. ASSUME NEW d \in RowOf(i)
            PROVE  RowSent(i)'
        <5>1. d \in Drafts /\ rowId[d] = rowId[jobDraft[i]]
          BY DEF RowOf
        <5>2. dstat'[d] = "sent" /\ rowId' = rowId /\ jobDraft' = jobDraft
          BY <2>0, <2>2, <3>1, <5>1 DEF RecordSent, jobs
        <5> QED BY <5>1, <5>2 DEF RowSent
      <4>3. CASE RowOf(i) = {}
        <5>1. Lose(Loop, TRUE)
          BY <4>1, <4>3 DEF Lose
        <5> QED BY <5>1
      <4>4. CASE RowOf(i) # {}
        <5>1. Lose(Loop, FALSE) /\ RowSent(i)'
          BY <4>1, <4>2, <4>4 DEF Lose
        <5> QED BY <5>1
      <4> QED BY <4>3, <4>4
    <3>2. CASE SendFails(Loop) \/ WaitTimesOut(Loop) \/ LoopDies
      <4>1. Lose(Loop, TRUE)
        BY <1>1, <3>2 DEF SendFails, WaitTimesOut, LoopDies, At
      <4> QED BY <4>1
    <3> QED BY <1>1, <3>1, <3>2
  <2>6. PICK b \in BOOLEAN : Lose(Loop, b) /\ (~b => RowSent(i)')
    BY <2>5
  <2>7. lost'[t] = IF t = u /\ b THEN lost[t] + 1 ELSE lost[t]
    BY <2>1, <2>6 DEF Lose, Typed, TasksTyped
  <2>8. CASE t = u /\ b
    <3>1. Waits(i) /\ i \in LoopJobs(t)
      BY <1>1, <2>0, <2>1, <2>8 DEF Waits
    <3>2. lost'[t] = lost[t] + 1
      BY <2>7, <2>8
    <3> QED BY <2>2, <2>3, <3>1, <3>2, LimitLoses
  <2>9. CASE ~(t = u /\ b)
    <3>1. lost'[t] = lost[t]
      BY <2>7, <2>9
    <3>2. \A j \in LoopJobs(t) : Waits(j) => RowSent(j)'
      <4>1. \A j \in LoopJobs(t) : Waits(j) => j = i
        BY <2>0 DEF Waits
      <4>2. i \in LoopJobs(t) => t = u
        BY <2>1 DEF LoopJobs
      <4>3. i \in LoopJobs(t) => RowSent(i)'
        BY <2>6, <2>9, <4>2
      <4> QED BY <4>1, <4>3
    <3>3. \A j \in LoopJobs(t) : ~Waits(j)'
      BY <1>0, <2>3
    <3> QED BY <2>4, <3>1, <3>2, <3>3, LimitStays
  <2> QED BY <2>8, <2>9
<1>2. ASSUME NEW u \in Tasks, NEW d \in Drafts, NEW i \in Jobs, LoopApproves(u, d, i)
      PROVE  (\E L \in SUBSET LoopJobs(t) : Kept(t, L))'
  <2>1. CASE u = t
    BY <1>2, <2>1, LimitGrows
  <2>2. CASE u # t
    <3>1. /\ pc[Loop] = "idle" /\ pjob'[Loop] = i /\ lost' = lost /\ dtask[d] = u
          /\ status[i] = "none" /\ jobDraft'[i] = d /\ dtask' = dtask
          /\ \A j \in Jobs : j # i => jobDraft'[j] = jobDraft[j]
      BY <1>0, <1>2
         DEF LoopApproves, Processes, Approve, Load, Enqueue, DraftsOf, At, rows, drafts,
             history, Typed, QueueTyped, ProcsTyped
    <3>2. i \notin LoopJobs(t) /\ i \notin LoopJobs(t)'
      BY <2>2, <3>1 DEF LoopJobs, Made
    <3>3. LoopJobs(t)' \subseteq LoopJobs(t)
      BY <1>0, <3>1, <3>2, LoopJobsOfStep
    <3>4. \A j \in LoopJobs(t) : ~Waits(j) /\ ~Waits(j)'
      BY <3>1, <3>2 DEF Waits
    <3> QED BY <3>1, <3>3, <3>4, LimitStays
  <2> QED BY <2>1, <2>2
<1>3. ASSUME \/ UNCHANGED <<pc[Loop], pjob[Loop]>>
             \/ pc[Loop] # "waiting" /\ pc'[Loop] # "waiting",
             \A u \in Tasks, d \in Drafts, i \in Jobs : ~LoopApproves(u, d, i),
             ~RecordSent(Loop), ~SendFails(Loop), ~WaitTimesOut(Loop),
             ~(LoopDies /\ pc[Loop] = "waiting")
      PROVE  (\E L \in SUBSET LoopJobs(t) : Kept(t, L))'
  <2>1. \A j \in LoopJobs(t) : Waits(j)' <=> Waits(j)
    BY <1>3 DEF Waits
  <2>2. LoopJobs(t)' \subseteq LoopJobs(t)
    BY <1>0, <1>3, LoopJobsOfStep, MadeForLoop
  <2>3. lost'[t] = lost[t]
    BY <1>3, LostOfStep
  <2> QED BY <2>1, <2>2, <2>3, LimitStays
<1>4. LoopDies /\ pc[Loop] # "waiting" => pc'[Loop] # "waiting"
  BY <1>0 DEF LoopDies, ProcsTyped
<1>5. RecordSent(Loop) \/ SendFails(Loop) \/ WaitTimesOut(Loop) => pc[Loop] = "waiting"
  BY DEF RecordSent, SendFails, WaitTimesOut, At
<1> QED BY <1>1, <1>2, <1>3, <1>4, <1>5, WaitOfStep

(* What the loop has sent for a task beyond max_messages it lost the answer   *)
(* of, although the operator's requests send the same drafts, the queue may   *)
(* send twice, and the count is only of rows that are sent.                   *)
THEOREM LoopIsLimited == AiSpec => []LoopKeepsToLimit
<1>1. AiInit => Errand /\ Limited
  <2> SUFFICES ASSUME AiInit PROVE Errand /\ Limited
    OBVIOUS
  <2>1. Errand
    BY LoopIsProc DEF AiInit, Errand
  <2>2. ASSUME NEW t \in Tasks
        PROVE  Kept(t, {})
    <3>1. LoopJobs(t) = {} /\ lost[t] = 0
      BY DEF AiInit, LoopJobs
    <3>2. Cardinality({}) = 0 /\ LoopJobs(t) \ {} = {} /\ MaxMessages \in Nat
      BY <3>1, FS_EmptySet, AiAssumption
    <3> QED BY <3>1, <3>2 DEF Kept
  <2> QED BY <2>1, <2>2 DEF Limited
<1>2. Typed /\ Made /\ Ids /\ Errand /\ Limited /\ [AiNext]_allVars => (Errand /\ Limited)'
  BY ErrandKept, LimitedKept
<1>3. Typed /\ Limited => LoopKeepsToLimit
  <2> SUFFICES ASSUME Typed, Limited, NEW t \in Tasks
               PROVE  Cardinality(JobsSent(t, Loop)) =< MaxMessages + lost[t]
    BY DEF LoopKeepsToLimit
  <2> PICK K \in SUBSET LoopJobs(t) : Kept(t, K)
    BY DEF Limited
  <2> DEFINE gone == LoopJobs(t) \ K
             sent == JobsSent(t, Loop)
  <2>1. /\ K \in SUBSET Jobs /\ gone \in SUBSET Jobs /\ sent \in SUBSET Jobs
        /\ sent \subseteq gone \cup K /\ gone \cap K = {}
    BY DEF LoopJobs, JobsSent
  <2>2. Cardinality(gone) =< lost[t] /\ lost[t] \in Nat /\ Cardinality(K) =< MaxMessages
    BY DEF Kept, Typed, TasksTyped
  <2> HIDE DEF gone, sent
  <2>3. /\ IsFiniteSet(gone) /\ Cardinality(gone) \in Nat
        /\ IsFiniteSet(K) /\ Cardinality(K) \in Nat /\ Cardinality(sent) \in Nat
    BY <2>1, JobsCounted
  <2>4. IsFiniteSet(gone \cup K) /\ Cardinality(gone \cup K) = Cardinality(gone) + Cardinality(K)
    <3>1. Cardinality(gone \cup K) = Cardinality(gone) + Cardinality(K) - Cardinality(gone \cap K)
      BY <2>3, FS_Union
    <3>2. Cardinality(gone \cap K) = 0
      BY <2>1, FS_EmptySet
    <3>3. IsFiniteSet(gone \cup K)
      BY <2>3, FS_Union
    <3> QED BY <2>3, <3>1, <3>2, <3>3
  <2>5. Cardinality(sent) =< Cardinality(gone \cup K)
    BY <2>1, <2>4, FS_Subset
  <2>6. Cardinality(sent) =< MaxMessages + lost[t]
    BY <2>2, <2>3, <2>4, <2>5, AiAssumption
  <2> QED BY <2>6 DEF sent
<1> QED BY <1>1, <1>2, <1>3, TypesHold, RowsHold, PTL DEF AiSpec, allVars
=============================================================================
