---------------------------- MODULE ScheduledDms ----------------------------
(* Scheduled direct messages: DM rows of scheduled_jobs, claimed by the      *)
(* scheduler loop like any job and sent through send_now under the key       *)
(* "scheduled-dm:<id>", beside the owner's own send-now requests.  Extends   *)
(* OwnerDm: its calls are the calls the executors make.                      *)
(*                                                                           *)
(* Time passes at any moment: a PENDING job may be due and a lease may be     *)
(* past whenever that is asked, so nothing below rests on their lengths.      *)
EXTENDS OwnerDm, FiniteSets

CONSTANTS
  Jobs,     \* DM jobs; a job stands for its idempotency key
  GroupJobs, \* those addressed to a group or channel
  Workers,  \* scheduler loops
  Scripts,  \* run_job_now processes
  BatchMax  \* jobs claimed per loop

Executors == Workers \cup Scripts
Owners == Callers \ Executors
NoJob == "no job"

ASSUME ScheduledDmsAssumption ==
  /\ Jobs \subseteq Keys /\ GroupJobs \subseteq Jobs /\ NoJob \notin Jobs
  /\ Executors \subseteq Callers /\ Workers \cap Scripts = {}
  /\ BatchMax \in Nat \ {0}

VARIABLES
  jobStatus,  \* scheduled_jobs.status
  overdue,    \* jobs whose run_at is more than 15 minutes ago
  leased,     \* jobs whose lease_until is not NULL
  cancelling, \* operator requests that read PENDING
  cancelled,  \* jobs found PENDING and cancelled, and left so by the executors (history)
  phase, batch, job   \* the executors: where, what is claimed, at what (last)

cancelVars == <<cancelling, cancelled>>
tableVars == <<jobStatus, overdue, leased, cancelVars>>
execVars == <<phase, batch, job>>
allVars == <<dmVars, tableVars, execVars>>

DmJobStatus == {"NONE", "PENDING", "RUNNING", "SENT", "FAILED", "CANCELLED", "UNCERTAIN"}
Phases == {"idle", "next", "check", "late", "fresh", "taken", "probe", "call", "sending"}

JobTypeOK ==
  /\ jobStatus \in [Jobs -> DmJobStatus]
  /\ overdue \in SUBSET Jobs /\ leased \in SUBSET Jobs
  /\ cancelling \in SUBSET Jobs /\ cancelled \in SUBSET Jobs
  /\ phase \in [Executors -> Phases]
  /\ batch \in [Executors -> SUBSET Jobs]
  /\ job \in [Executors -> Jobs \cup {NoJob}]

JobInit ==
  /\ Init
  /\ jobStatus = [j \in Jobs |-> "NONE"]
  /\ overdue = {} /\ leased = {} /\ cancelling = {} /\ cancelled = {}
  /\ phase = [e \in Executors |-> "idle"]
  /\ batch = [e \in Executors |-> {}]
  /\ job = [e \in Executors |-> NoJob]

Turn(e, from, to) == phase[e] = from /\ phase' = [phase EXCEPT ![e] = to]

(* The executor's write of an outcome: by id, whatever the status is now.    *)
Settle(j, st) ==
  /\ jobStatus' = [jobStatus EXCEPT ![j] = st]
  /\ leased' = leased \ {j}
  /\ UNCHANGED <<overdue, cancelVars>>

-----------------------------------------------------------------------------
(* Slips: the way a definition below might be got wrong.  No behaviour of    *)
(* JobSpec uses them; each run's properties are known to notice them.        *)

(* Slip: the cancel looks only at whether the job is finished.               *)
Cancel_Running(j) ==
  /\ jobStatus[j] \in {"PENDING", "RUNNING"}
  /\ jobStatus' = [jobStatus EXCEPT ![j] = "CANCELLED"]
  /\ leased' = leased \ {j}
  /\ cancelled' = cancelled \cup {j}
  /\ UNCHANGED <<dmVars, overdue, cancelling, execVars>>

(* Slip: an answer of SENDING taken for a success.                           *)
Outcome_SendingIsSent(e) == IF result[e] = "SENDING" THEN "SENT" ELSE result[e]

-----------------------------------------------------------------------------
(* The owner.                                                                *)

Schedule(j) ==
  /\ jobStatus[j] = "NONE"
  /\ jobStatus' = [jobStatus EXCEPT ![j] = "PENDING"]
  /\ UNCHANGED <<dmVars, overdue, leased, cancelVars, execVars>>

(* ScheduledDirectMessageService.cancel: one conditional update.             *)
Cancel(j) ==
  /\ jobStatus[j] = "PENDING"
  /\ jobStatus' = [jobStatus EXCEPT ![j] = "CANCELLED"]
  /\ leased' = leased \ {j}
  /\ cancelled' = cancelled \cup {j}
  /\ UNCHANGED <<dmVars, overdue, cancelling, execVars>>

(* operator_cancel_job, whose list shows jobs of every type: it reads the    *)
(* row and later writes CANCELLED by id.                                     *)
CancelRead(j) ==
  /\ jobStatus[j] = "PENDING" /\ j \notin cancelling
  /\ cancelling' = cancelling \cup {j}
  /\ UNCHANGED <<dmVars, jobStatus, overdue, leased, cancelled, execVars>>

CancelWrite(j) ==
  /\ j \in cancelling
  /\ cancelling' = cancelling \ {j}
  /\ jobStatus' = [jobStatus EXCEPT ![j] = "CANCELLED"]
  /\ cancelled' = IF jobStatus[j] = "PENDING" THEN cancelled \cup {j} ELSE cancelled
  /\ UNCHANGED <<dmVars, overdue, leased, execVars>>

(* POST /api/messages/send-now, with a key of the browser's.                 *)
SendNow(c) ==
  /\ c \in Owners
  /\ \/ \E k \in Keys \ Jobs : Call(c, k)
     \/ Send(c) \/ Return(c) \/ Crash(c)
  /\ UNCHANGED <<tableVars, execVars>>

-----------------------------------------------------------------------------
(* The executors.                                                            *)

DueJobs == {j \in Jobs : jobStatus[j] = "PENDING"}
StaleJobs == {j \in Jobs : jobStatus[j] = "RUNNING" /\ j \in leased}
(* One clock reading serves the batch: what was just claimed is not stale.   *)
Claimable(e) == IF DueJobs # {} THEN DueJobs ELSE StaleJobs \ batch[e]

ClaimDueJob(e, j) ==
  /\ e \in Workers /\ phase[e] = "idle" /\ Cardinality(batch[e]) < BatchMax
  /\ j \in Claimable(e)
  /\ jobStatus' = [jobStatus EXCEPT ![j] = "RUNNING"]
  /\ leased' = leased \cup {j}
  /\ batch' = [batch EXCEPT ![e] = @ \cup {j}]
  /\ UNCHANGED <<dmVars, overdue, cancelVars, phase, job>>

EndClaims(e) ==
  /\ batch[e] # {}
  /\ Cardinality(batch[e]) >= BatchMax \/ Claimable(e) = {}
  /\ Turn(e, "idle", "next")
  /\ UNCHANGED <<dmVars, tableVars, batch, job>>

NextJob(e, j) ==
  /\ j \in batch[e]
  /\ Turn(e, "next", "check")
  /\ batch' = [batch EXCEPT ![e] = @ \ {j}]
  /\ job' = [job EXCEPT ![e] = j]
  /\ UNCHANGED <<dmVars, tableVars>>

Sleep(e) ==
  /\ batch[e] = {}
  /\ Turn(e, "next", "idle")
  /\ UNCHANGED <<dmVars, tableVars, batch, job>>

RunJobNow(e, j) ==
  /\ e \in Scripts
  /\ Turn(e, "idle", "check")
  /\ job' = [job EXCEPT ![e] = j]
  /\ UNCHANGED <<dmVars, tableVars, batch>>

Runnable(j) == jobStatus[j] \in {"PENDING", "RUNNING"}

(* The read that opens execute_job: the status and run_at it decides on.     *)
Found(j) ==
  IF ~Runnable(j) THEN "next"
  ELSE IF j \in overdue THEN "late"
  ELSE IF jobStatus[j] = "PENDING" THEN "fresh" ELSE "taken"

Check(e) ==
  /\ Turn(e, "check", Found(job[e]))
  /\ UNCHANGED <<dmVars, tableVars, batch, job>>

(* OVERDUE_SKIPPED.                                                          *)
Overdue(e) ==
  /\ Turn(e, "late", "next")
  /\ Settle(job[e], "FAILED")
  /\ UNCHANGED <<dmVars, batch, job>>

(* No peer or no text.                                                       *)
Unfit(e) ==
  /\ Turn(e, "fresh", "next") \/ Turn(e, "taken", "next")
  /\ Settle(job[e], "FAILED")
  /\ UNCHANGED <<dmVars, batch, job>>

(* A job read as PENDING was never claimed: RUNNING is written by id and     *)
(* without a lease.  One read as RUNNING is left as it is.                   *)
Proceed(e) ==
  LET on == IF job[e] \in GroupJobs THEN "probe" ELSE "call" IN
  /\ \/ /\ Turn(e, "fresh", on)
        /\ jobStatus' = [jobStatus EXCEPT ![job[e]] = "RUNNING"]
        /\ cancelled' = cancelled \ {job[e]}
     \/ Turn(e, "taken", on) /\ UNCHANGED <<jobStatus, cancelled>>
  /\ UNCHANGED <<dmVars, overdue, leased, cancelling, batch, job>>

(* Membership and write permission are asked again before a group send.      *)
ProbePasses(e) ==
  /\ Turn(e, "probe", "call")
  /\ UNCHANGED <<dmVars, tableVars, batch, job>>

ProbeFails(e) ==
  /\ Turn(e, "probe", "next")
  /\ Settle(job[e], "FAILED")
  /\ UNCHANGED <<dmVars, batch, job>>

CallSend(e) ==
  /\ Turn(e, "call", "sending")
  /\ Call(e, job[e])
  /\ UNCHANGED <<tableVars, batch, job>>

Sending(e) ==
  /\ phase[e] = "sending"
  /\ Send(e)
  /\ UNCHANGED <<tableVars, execVars>>

Outcome(e) == IF result[e] \in {"SENT", "UNCERTAIN"} THEN result[e] ELSE "FAILED"

(* The job takes the outcome of the answer, replayed or not.                 *)
Finish(e) ==
  /\ pc[e] = "done"
  /\ Turn(e, "sending", "next")
  /\ Return(e)
  /\ Settle(job[e], Outcome(e))
  /\ UNCHANGED <<batch, job>>

(* send_now raised, or the write of the outcome does: the job stays RUNNING. *)
Abandon(e) ==
  /\ pc[e] = "raised" \/ (pc[e] = "done" /\ "db_error" \in Env)
  /\ Turn(e, "sending", "next")
  /\ Return(e)
  /\ UNCHANGED <<tableVars, batch, job>>

(* A transaction before the call raises.                                     *)
ExecDbError(e) ==
  /\ "db_error" \in Env
  /\ \/ Turn(e, "check", "next") /\ UNCHANGED batch
     \/ \E at \in {"late", "fresh", "taken", "probe"} : Turn(e, at, "next") /\ UNCHANGED batch
     \/ phase[e] = "idle" /\ batch' = [batch EXCEPT ![e] = {}] /\ UNCHANGED phase
  /\ UNCHANGED <<dmVars, tableVars, job>>

ExecCrash(e) ==
  /\ Crash(e)
  /\ phase' = [phase EXCEPT ![e] = "idle"]
  /\ batch' = [batch EXCEPT ![e] = {}]
  /\ UNCHANGED <<tableVars, job>>

TimePasses(j) ==
  /\ jobStatus[j] # "NONE"
  /\ overdue' = overdue \cup {j}
  /\ UNCHANGED <<dmVars, jobStatus, leased, cancelVars, execVars>>

(* The owner's per-account interval runs down.                               *)
IntervalTick == Tick /\ UNCHANGED <<tableVars, execVars>>

Execute(e) ==
  \/ Check(e) \/ Overdue(e) \/ Unfit(e) \/ Proceed(e)
  \/ ProbePasses(e) \/ ProbeFails(e) \/ CallSend(e) \/ Sending(e)
  \/ Finish(e) \/ Abandon(e) \/ ExecDbError(e)

Loop(e) ==
  \/ EndClaims(e) \/ Sleep(e)
  \/ \E j \in Jobs : ClaimDueJob(e, j) \/ NextJob(e, j)

JobNext ==
  \/ \E e \in Executors : \/ Loop(e) \/ Execute(e) \/ ExecCrash(e)
                          \/ \E j \in Jobs : RunJobNow(e, j)
  \/ \E c \in Callers : SendNow(c)
  \/ \E j \in Jobs : Schedule(j) \/ TimePasses(j)
  \/ \E j \in Jobs : Cancel(j) \/ CancelRead(j) \/ CancelWrite(j)
  \/ IntervalTick

JobSpec == JobInit /\ [][JobNext]_allVars

-----------------------------------------------------------------------------
(* Properties.                                                               *)

(* A SENT or UNCERTAIN job was accepted by Telegram, exactly once.           *)
OutcomeWasAccepted ==
  \A j \in Jobs : jobStatus[j] \in {"SENT", "UNCERTAIN"} => accepted[j] = 1

(* Nothing is sent, ever, for a job whose cancel went through, unless the    *)
(* two crossed: the operator's write fell on a job that was PENDING no       *)
(* longer, or an executor that had read PENDING wrote RUNNING over it.       *)
CancelledIsNotSent ==
  \A j \in cancelled : accepted[j] = 0

(* The executors use the intents as any caller may.                          *)
ImplementsOwnerDm == Spec

=============================================================================
