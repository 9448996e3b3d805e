------------------------------ MODULE AiDrafts ------------------------------
(* The AI agent: tasks that write to one Telegram target, their drafts, the   *)
(* background loop that generates and sends them, the requests of operators   *)
(* that do the same by hand, and the gateway queue they send through.         *)
(*                                                                            *)
(* The database is SQLite, the default: a transaction that has written holds  *)
(* the only write lock until it commits, so the approval that follows a       *)
(* generation in one transaction cannot enqueue its job and fails.  Of the    *)
(* gateway only the promise is used, GatewayQueue, which TelegramGateway      *)
(* keeps; a fetch of messages is taken as one answer of it.                   *)
EXTENDS GatewayQueue, Integers, FiniteSets

CONSTANTS
  Tasks,        \* numbers, in the order of creation; all for one target
  Autonomous,   \* tasks in auto_mode "autonomous"
  Off,          \* those in auto_mode "off", which the loop leaves alone
  Drafts,       \* drafts of outbound messages, each a text of its own
  Requests,     \* web requests and commands of the operator's bot
  Loop,         \* the thread of the auto loop
  MaxTasks,     \* AI_AGENT_AUTO_LOOP_MAX_TASKS
  MaxMessages,  \* max_messages of a task
  MaxReplies,   \* bound: replies of the peer to each task
  MaxSends      \* bound: times Telegram accepts one job

NoDraft == "no draft"
NoJob == "no job"
Procs == Requests \cup {Loop}

(* A send of the agent is not certified, so it is done only if its own        *)
(* message was accepted.                                                      *)
ASSUME AiAssumption ==
  /\ Fetches = {} /\ \A i, j \in Jobs : MessageOf[i] = MessageOf[j] => i = j
  /\ IsFiniteSet(Jobs) /\ IsFiniteSet(Drafts)
  /\ Tasks \subseteq Nat /\ IsFiniteSet(Tasks)
  /\ Autonomous \subseteq Tasks /\ Off \subseteq Tasks /\ Autonomous \cap Off = {}
  /\ NoDraft \notin Drafts /\ NoJob \notin Jobs /\ Loop \notin Requests
  /\ MaxTasks \in Nat \ {0} /\ MaxMessages \in Nat \ {0} /\ MaxReplies \in Nat /\ MaxSends \in Nat

VARIABLES
  tstat,      \* status of a task
  dstat, dtask, rowJob,   \* of a draft's row: status, task, whose message id
  rowId,      \* its id, named after the first draft that had it
  replied,    \* drafts older than the newest inbound row
  replies, stored,    \* messages of the peer: sent, stored as rows
  imported,   \* jobs whose message was stored as one of the peer
  jobDraft, jobProc,  \* what a job was enqueued for, and by whom
  pc, ptask, pjob,  \* of each process: where it is, and at what
  seen,       \* it loaded the task with status "waiting"
  got,        \* the messages it was given
  agenda,     \* the tasks the loop has yet to visit in its cycle
  lost,       \* history: approvals of the loop that ended without a record
  crossed     \* history: jobs whose draft lost its id to a new one during the wait

drafts == <<dstat, dtask, rowJob, rowId>>
rows == <<tstat, drafts, replied, stored, imported>>
procs == <<pc, ptask, pjob, seen, got>>
jobs == <<jobDraft, jobProc>>
history == <<lost, crossed>>
aiVars == <<rows, replies, jobs, procs, agenda, history>>

TaskStatus == {"none", "draft", "waiting", "stopped"}
Active == {"draft", "waiting"}
Places == {"idle", "insert", "compose", "fetched", "waiting", "skipped", "dead"}

AiTypeOK ==
  /\ status \in [Jobs -> {"none", "pending", "running", "retry", "done", "failed"}]
  /\ accepted \in [Jobs -> Nat]
  /\ tstat \in [Tasks -> TaskStatus]
  /\ dstat \in [Drafts -> {"none", "draft", "sent", "deleted"}]
  /\ dtask \in [Drafts -> Tasks \cup {0}]
  /\ rowJob \in [Drafts -> Jobs \cup {NoJob}] /\ rowId \in [Drafts -> Drafts]
  /\ replied \in SUBSET Drafts
  /\ replies \in [Tasks -> 0..MaxReplies] /\ stored \in [Tasks -> 0..MaxReplies]
  /\ imported \in SUBSET Jobs
  /\ jobDraft \in [Jobs -> Drafts \cup {NoDraft}]
  /\ jobProc \in [Jobs -> Procs]
  /\ pc \in [Procs -> Places]
  /\ ptask \in [Procs -> Tasks \cup {0}]
  /\ pjob \in [Procs -> Jobs \cup {NoJob}]
  /\ seen \in [Procs -> BOOLEAN]
  /\ got \in [Procs -> [n : 0..MaxReplies, own : SUBSET Jobs]]
  /\ agenda \in SUBSET Tasks
  /\ lost \in [Tasks -> Nat] /\ crossed \in SUBSET Jobs

Nothing == [n |-> 0, own |-> {}]

AiInit ==
  /\ Init
  /\ tstat = [t \in Tasks |-> "none"]
  /\ dstat = [d \in Drafts |-> "none"] /\ dtask = [d \in Drafts |-> 0]
  /\ rowJob = [d \in Drafts |-> NoJob] /\ rowId = [d \in Drafts |-> d]
  /\ replied = {}
  /\ replies = [t \in Tasks |-> 0] /\ stored = [t \in Tasks |-> 0]
  /\ imported = {}
  /\ jobDraft = [j \in Jobs |-> NoDraft] /\ jobProc = [j \in Jobs |-> Loop]
  /\ pc = [p \in Procs |-> "idle"]
  /\ ptask = [p \in Procs |-> 0]
  /\ pjob = [p \in Procs |-> NoJob]
  /\ seen = [p \in Procs |-> FALSE]
  /\ got = [p \in Procs |-> Nothing]
  /\ agenda = {}
  /\ lost = [t \in Tasks |-> 0] /\ crossed = {}

-----------------------------------------------------------------------------
(* Queries.                                                                   *)

DraftsOf(t, s) == {d \in Drafts : dtask[d] = t /\ dstat[d] = s}
HasOutbound(t) == DraftsOf(t, "draft") \cup DraftsOf(t, "sent") # {}

(* autonomous_should_wait_for_counterparty_reply compares the times at which  *)
(* the rows were made: a row is made when the draft is generated.             *)
MustWait(t) == DraftsOf(t, "sent") \ replied # {}

(* Slip: only a task that awaits approval counts as active.                   *)
NewerActive_Waiting(t) == {u \in Tasks : u > t /\ tstat[u] = "waiting"}

(* find_newer_active_duplicate.                                               *)
NewerActive(t) == {u \in Tasks : u > t /\ tstat[u] \in Active}

JobsSent(t, p) == {j \in Jobs : /\ jobDraft[j] # NoDraft /\ jobProc[j] = p
                                /\ dtask[jobDraft[j]] = t /\ accepted[j] > 0}

(* Messages of the account in the chat whose id no row has: those of a job    *)
(* whose answer was lost, and those a retry sent once more.                   *)
Recorded(j) == IF \E d \in Drafts : rowJob[d] = j THEN 1 ELSE 0
OwnUnknown(t) == {j \in Jobs \ imported : /\ jobDraft[j] # NoDraft /\ dtask[jobDraft[j]] = t
                                          /\ accepted[j] > Recorded(j)}

Release(p) ==
  /\ pc' = [pc EXCEPT ![p] = "idle"]
  /\ ptask' = [ptask EXCEPT ![p] = 0]
  /\ pjob' = [pjob EXCEPT ![p] = NoJob]
  /\ seen' = [seen EXCEPT ![p] = FALSE] /\ got' = [got EXCEPT ![p] = Nothing]

(* p loads task t and goes to a place.                                        *)
Load(p, t, place) ==
  /\ pc[p] = "idle" /\ tstat[t] # "none"
  /\ pc' = [pc EXCEPT ![p] = place]
  /\ ptask' = [ptask EXCEPT ![p] = t]
  /\ seen' = [seen EXCEPT ![p] = place # "waiting" /\ tstat[t] = "waiting"]

At(p, place) == pc[p] = place
Lose(p, b) == lost' = [lost EXCEPT ![ptask[p]] = IF p = Loop /\ b THEN @ + 1 ELSE @]

-----------------------------------------------------------------------------
(* Tasks.  A request looks for an active task of the target, then inserts.    *)
CreateTask(p, t) ==
  /\ p # Loop /\ pc[p] = "idle"
  /\ tstat[t] = "none" /\ \A u \in Tasks : u < t => tstat[u] # "none"
  /\ \A u \in Tasks : tstat[u] \notin Active
  /\ pc' = [pc EXCEPT ![p] = "insert"]
  /\ UNCHANGED <<queue, rows, replies, jobs, ptask, pjob, seen, got, agenda, history>>

InsertTask(p, t) ==
  /\ At(p, "insert")
  /\ tstat[t] = "none" /\ \A u \in Tasks : u < t => tstat[u] # "none"
  /\ tstat' = [tstat EXCEPT ![t] = "draft"]
  /\ Release(p)
  /\ UNCHANGED <<queue, drafts, replied, stored, imported, replies, jobs, agenda, history>>

SetStatus(t, s) ==
  /\ tstat[t] # "none"
  /\ tstat' = [tstat EXCEPT ![t] = s]
  /\ UNCHANGED <<queue, drafts, replied, stored, imported, replies, jobs, procs, agenda, history>>

(* Paused or completed: nothing here tells the two apart.                     *)
StopTask(t) == SetStatus(t, "stopped")

(* From any status, whatever other task of the target is active.              *)
ResumeTask(t) ==
  SetStatus(t, IF DraftsOf(t, "draft") # {} THEN "waiting" ELSE "draft")

-----------------------------------------------------------------------------
(* generate_draft: the model is asked, then the drafts of the task are        *)
(* deleted and the new one is added, in one transaction.  Ids are not         *)
(* AUTOINCREMENT: if the deleted row had the highest, the new one gets it.    *)
(* The status is written only if the task was loaded with another one.        *)
Generate(p, t) ==
  /\ p # Loop
  /\ Load(p, t, "compose")
  /\ UNCHANGED <<queue, rows, replies, jobs, pjob, got, agenda, history>>

WaitingFor(i) == {j \in Jobs : /\ \E q \in Procs : pc[q] = "waiting" /\ pjob[q] = j
                               /\ jobDraft[j] # NoDraft /\ rowId[jobDraft[j]] = i}

NewDraft(p, t, d) ==
  LET old == DraftsOf(t, "draft")
  IN  /\ dstat[d] = "none"
      /\ dstat' = [x \in Drafts |-> IF x = d THEN "draft" ELSE IF x \in old THEN "deleted" ELSE dstat[x]]
      /\ dtask' = [dtask EXCEPT ![d] = t]
      /\ \E i \in {d} \cup {rowId[x] : x \in old} :
           /\ rowId' = [rowId EXCEPT ![d] = i]
           /\ crossed' = crossed \cup WaitingFor(i)
      /\ tstat' = [tstat EXCEPT ![t] = IF seen[p] THEN @ ELSE "waiting"]
      /\ UNCHANGED <<rowJob, lost>>

(* /ai_run goes on to a draft when the gateway had no answer.                  *)
WriteDraft(p, d) ==
  /\ At(p, "compose") \/ (p # Loop /\ At(p, "fetched"))
  /\ NewDraft(p, ptask[p], d)
  /\ Release(p)
  /\ UNCHANGED <<queue, replied, stored, imported, replies, jobs, agenda>>

(* No answer of the model, or of the gateway, or a task that the loop passes  *)
(* over: nothing is written.                                                  *)
AskFails(p) ==
  /\ At(p, "compose") \/ At(p, "fetched") \/ At(p, "skipped")
  /\ Release(p)
  /\ UNCHANGED <<queue, rows, replies, jobs, agenda, history>>

-----------------------------------------------------------------------------
(* sync_inbound.  What is_outgoing says of a message is not looked at: an own *)
(* message with an unknown id becomes an inbound row.                         *)
Sync(p, t) ==
  /\ p # Loop
  /\ Load(p, t, "fetched")
  /\ got' = [got EXCEPT ![p] = [n |-> replies[t], own |-> OwnUnknown(t)]]
  /\ UNCHANGED <<queue, rows, replies, jobs, pjob, agenda, history>>

New(p) == \/ got[p].n > stored[ptask[p]]
          \/ got[p].own \cap OwnUnknown(ptask[p]) # {}

(* Slip: what is fetched is added to what was stored.                         *)
StoreInbound_Twice(p) ==
  LET t == ptask[p]
  IN  /\ At(p, "fetched")
      /\ stored' = [stored EXCEPT ![t] = @ + got[p].n]
      /\ imported' = imported \cup (got[p].own \cap OwnUnknown(t))
      /\ replied' = IF New(p) THEN replied \cup DraftsOf(t, "draft") \cup DraftsOf(t, "sent")
                    ELSE replied

StoreInbound(p) ==
  LET t == ptask[p]
  IN  /\ At(p, "fetched")
      /\ stored' = [stored EXCEPT ![t] = IF got[p].n > @ THEN got[p].n ELSE @]
      /\ imported' = imported \cup (got[p].own \cap OwnUnknown(t))
      /\ replied' = IF New(p) THEN replied \cup DraftsOf(t, "draft") \cup DraftsOf(t, "sent")
                    ELSE replied

SyncOnly(p) ==
  /\ StoreInbound(p)
  /\ Release(p)
  /\ UNCHANGED <<queue, tstat, drafts, replies, jobs, agenda, history>>

(* /ai_run, a new task of the bot and the loop go on to a draft.  The loop    *)
(* does if there was something new, or nothing sent yet, and it need not wait.*)
LoopAnswers(p) ==
  /\ New(p) \/ ~HasOutbound(ptask[p])
  /\ DraftsOf(ptask[p], "sent") \subseteq replied'

SyncAndGenerate(p, d) ==
  /\ StoreInbound(p)
  /\ p = Loop => LoopAnswers(p)
  /\ NewDraft(p, ptask[p], d)
  /\ Release(p)
  /\ UNCHANGED <<queue, replies, jobs, agenda>>

-----------------------------------------------------------------------------
(* approve_send: the newest draft goes to the gateway if the guard allows it  *)
(* and the database takes the job; the answer is waited for.                  *)
Approve(p, t, d, j) ==
  /\ d \in DraftsOf(t, "draft")
  /\ Load(p, t, "waiting")
  /\ Enqueue(j)
  /\ jobDraft' = [jobDraft EXCEPT ![j] = d]
  /\ jobProc' = [jobProc EXCEPT ![j] = p]
  /\ pjob' = [pjob EXCEPT ![p] = j]
  /\ UNCHANGED <<rows, replies, got, history>>

RequestApproves(p, t, d, j) ==
  /\ p # Loop
  /\ Approve(p, t, d, j)
  /\ UNCHANGED agenda

(* The row is written by id, whatever draft has the id by now; a row that is  *)
(* gone rolls back.                                                           *)
RowOf(j) == {d \in Drafts : rowId[d] = rowId[jobDraft[j]] /\ dstat[d] \in {"draft", "sent"}}

RecordSent(p) ==
  LET row == RowOf(pjob[p])
  IN  /\ At(p, "waiting") /\ status[pjob[p]] = "done"
      /\ dstat' = [d \in Drafts |-> IF d \in row THEN "sent" ELSE dstat[d]]
      /\ rowJob' = [d \in Drafts |-> IF d \in row THEN pjob[p] ELSE rowJob[d]]
      /\ Lose(p, row = {})
      /\ Release(p)
      /\ UNCHANGED <<queue, tstat, dtask, rowId, replied, stored, imported, replies, jobs,
                     agenda, crossed>>

(* The job failed, or two minutes have gone: the draft stays a draft.         *)
SendFails(p) ==
  /\ At(p, "waiting") /\ status[pjob[p]] = "failed"
  /\ Lose(p, TRUE)
  /\ Release(p)
  /\ UNCHANGED <<queue, rows, replies, jobs, agenda, crossed>>

(* Slip: a job that was taken up counts as sent when the wait is over.        *)
WaitTimesOut_Sent(p) ==
  /\ At(p, "waiting") /\ status[pjob[p]] \in {"pending", "running", "retry"}
  /\ dstat' = [dstat EXCEPT ![jobDraft[pjob[p]]] = "sent"]
  /\ rowJob' = [rowJob EXCEPT ![jobDraft[pjob[p]]] = pjob[p]]
  /\ Release(p)
  /\ UNCHANGED <<queue, tstat, dtask, rowId, replied, stored, imported, replies, jobs,
                 agenda, history>>

WaitTimesOut(p) ==
  /\ At(p, "waiting") /\ status[pjob[p]] \in {"pending", "running", "retry"}
  /\ Lose(p, TRUE)
  /\ Release(p)
  /\ UNCHANGED <<queue, rows, replies, jobs, agenda, crossed>>

-----------------------------------------------------------------------------
(* The auto loop.  A cycle lists the newest of the active tasks whose mode is *)
(* not "off", by their last activity, and visits them one at a time.          *)
Listed == {t \in Tasks \ Off : tstat[t] \in Active}

StartCycle ==
  /\ At(Loop, "idle") /\ agenda = {}
  /\ \E A \in (SUBSET Listed) \ {{}} :
       /\ Cardinality(A) =< MaxTasks
       /\ A = Listed \/ Cardinality(A) = MaxTasks
       /\ agenda' = A
  /\ UNCHANGED <<queue, rows, replies, jobs, procs, history>>

Visit(t) == At(Loop, "idle") /\ t \in agenda /\ agenda' = agenda \ {t}

(* Its account is in the cooldown of a busy session, or the database is       *)
(* locked: the task is not looked at.                                         *)
LoopSkips(t) ==
  /\ Visit(t)
  /\ pc' = [pc EXCEPT ![Loop] = "skipped"]
  /\ ptask' = [ptask EXCEPT ![Loop] = t]
  /\ UNCHANGED <<queue, rows, replies, jobs, pjob, seen, got, history>>

LoopSupersedes(t) ==
  /\ Visit(t) /\ tstat[t] \in Active
  /\ NewerActive(t) # {}
  /\ tstat' = [tstat EXCEPT ![t] = "stopped"]
  /\ UNCHANGED <<queue, drafts, replied, stored, imported, replies, jobs, procs, history>>

(* It was stopped meanwhile; or no newer one is active, and its delay has not *)
(* passed, the limit is reached, the text a repeated one, or its stage and    *)
(* facts leave it to the operator.                                            *)
LoopDeclines(t) ==
  /\ Visit(t)
  /\ tstat[t] \in Active => NewerActive(t) = {}
  /\ UNCHANGED <<queue, rows, replies, jobs, procs, history>>

(* Slip: the limit is compared with =<.                                       *)
Processes_OneMore(t) ==
  /\ Visit(t) /\ tstat[t] \in Active
  /\ NewerActive(t) = {}
  /\ Cardinality(DraftsOf(t, "sent")) =< MaxMessages

Processes(t) ==
  /\ Visit(t) /\ tstat[t] \in Active
  /\ NewerActive(t) = {}
  /\ Cardinality(DraftsOf(t, "sent")) < MaxMessages

ColdStart(t) == t \in Autonomous /\ tstat[t] = "draft" /\ ~HasOutbound(t)

LoopComposes(t) ==
  /\ Processes(t) /\ ColdStart(t)
  /\ Load(Loop, t, "compose")
  /\ UNCHANGED <<queue, rows, replies, jobs, pjob, got, history>>

LoopApproves(t, d, j) ==
  /\ Processes(t)
  /\ t \in Autonomous /\ tstat[t] = "waiting" /\ ~MustWait(t)
  /\ Approve(Loop, t, d, j)

LoopFetches(t) ==
  /\ Processes(t) /\ ~ColdStart(t)
  /\ t \in Autonomous /\ tstat[t] = "waiting" => DraftsOf(t, "draft") = {}
  /\ Load(Loop, t, "fetched")
  /\ got' = [got EXCEPT ![Loop] = [n |-> replies[t], own |-> OwnUnknown(t)]]
  /\ UNCHANGED <<queue, rows, replies, jobs, pjob, history>>

-----------------------------------------------------------------------------
PeerReplies(t) ==
  /\ tstat[t] # "none" /\ replies[t] < MaxReplies
  /\ replies' = [replies EXCEPT ![t] = @ + 1]
  /\ UNCHANGED <<queue, rows, jobs, procs, agenda, history>>

(* A web process dies, and the request with it; or the one of the loop, which *)
(* is started again.                                                          *)
RequestDies(p) ==
  /\ p # Loop /\ pc[p] # "idle"
  /\ Release(p)
  /\ UNCHANGED <<queue, rows, replies, jobs, agenda, history>>

LoopDies ==
  /\ ~At(Loop, "dead")
  /\ IF At(Loop, "waiting") THEN Lose(Loop, TRUE) ELSE UNCHANGED lost
  /\ pc' = [pc EXCEPT ![Loop] = "dead"]
  /\ ptask' = [ptask EXCEPT ![Loop] = 0] /\ pjob' = [pjob EXCEPT ![Loop] = NoJob]
  /\ seen' = [seen EXCEPT ![Loop] = FALSE] /\ got' = [got EXCEPT ![Loop] = Nothing]
  /\ agenda' = {}
  /\ UNCHANGED <<queue, rows, replies, jobs, crossed>>

LoopRestarts ==
  /\ At(Loop, "dead")
  /\ Release(Loop)
  /\ UNCHANGED <<queue, rows, replies, jobs, agenda, history>>

Gateway ==
  /\ \E j \in Jobs : \/ TakeUp({j}) \/ PutBack({j}) \/ Finish(j) \/ Fail(j)
                     \/ accepted[j] < MaxSends /\ Accept(j)
  /\ UNCHANGED aiVars

Operate(t) ==
  \/ StopTask(t) \/ ResumeTask(t)
  \/ \E p \in Requests : \/ CreateTask(p, t) \/ InsertTask(p, t) \/ Generate(p, t) \/ Sync(p, t)
                         \/ \E d \in Drafts, j \in Jobs : RequestApproves(p, t, d, j)

Pick(t) ==
  \/ LoopSkips(t) \/ LoopSupersedes(t) \/ LoopDeclines(t) \/ LoopComposes(t) \/ LoopFetches(t)
  \/ \E d \in Drafts, j \in Jobs : LoopApproves(t, d, j)

Continue(p) ==
  \/ AskFails(p) \/ SyncOnly(p)
  \/ RecordSent(p) \/ SendFails(p) \/ WaitTimesOut(p)
  \/ \E d \in Drafts : WriteDraft(p, d) \/ SyncAndGenerate(p, d)

LoopGoesOn == StartCycle \/ Continue(Loop) \/ \E t \in Tasks : Pick(t)

AiNext ==
  \/ Gateway \/ StartCycle
  \/ \E t \in Tasks : Operate(t) \/ Pick(t) \/ PeerReplies(t)
  \/ \E p \in Procs : Continue(p) \/ RequestDies(p)
  \/ LoopDies \/ LoopRestarts

AiSpec == AiInit /\ [][AiNext]_<<queue, aiVars>>

(* The loop's thread goes on: it finishes the task it is at and comes to the  *)
(* next of its cycle, and to the next cycle.                                  *)
AiFairSpec == AiSpec /\ WF_<<queue, aiVars>>(LoopGoesOn)

-----------------------------------------------------------------------------
(* Properties.                                                                *)

(* A draft is "sent" only if Telegram accepted its text, for the job its row  *)
(* names: the answer crosses a queue, a worker and a wait of two minutes.     *)
(* Not so if a regeneration crossed that wait: the record of the old text     *)
(* then falls on the new draft, which has the id of the old one.              *)
SentWasDelivered ==
  \A d \in Drafts : dstat[d] = "sent" =>
    LET j == rowJob[d] IN accepted[j] > 0 /\ (jobDraft[j] = d \/ j \in crossed)

(* What the loop has sent for a task beyond max_messages it lost the answer   *)
(* of: a wait ended without one, or the row was deleted meanwhile.            *)
LoopKeepsToLimit ==
  \A t \in Tasks : Cardinality(JobsSent(t, Loop)) =< MaxMessages + lost[t]

(* Of two active tasks for one target the older is paused if the loop looks   *)
(* at its mode, whatever operators create or resume meanwhile, unless it      *)
(* passes over the task again and again, or dies again and again.             *)
(* There are no more listed tasks than MaxTasks: else the loop may never come *)
(* to the older.                                                              *)
Hindered(t) == At(Loop, "dead") \/ (At(Loop, "skipped") /\ ptask[Loop] = t)

OlderTaskIsSuperseded ==
  \A t \in Tasks \ Off, u \in Tasks :
    t < u => \/ []<>Hindered(t)
             \/ (tstat[t] \in Active /\ tstat[u] \in Active
                    ~> tstat[t] \notin Active \/ tstat[u] \notin Active)

=============================================================================
