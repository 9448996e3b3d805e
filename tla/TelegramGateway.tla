-------------------------- MODULE TelegramGateway --------------------------
(* The telegram_gateway_jobs queue: web processes enqueue jobs, one worker    *)
(* process claims them in batches, talks to Telegram and records the         *)
(* outcome; failures are retried, jobs stuck in "running" are put back.      *)
(*                                                                           *)
(* One action per database transaction or answer of Telegram.                *)
EXTENDS Integers, FiniteSets

CONSTANTS
  Jobs,         \* rows of the queue
  Accounts,     \* Telegram accounts
  Messages,     \* a text for a peer from an account
  AccountOf, MessageOf,   \* of each job
  KindOf,       \* "send", "certified" (a send that is certified) or "fetch"
  Blind,        \* accounts whose history may not show a sent message
  Env,          \* what may go wrong, see EnvEvents
  Limit,        \* jobs claimed at once
  MaxAttempts,  \* max_attempts
  MaxFaults     \* bound: crashes, failpoints and database errors

NoJob == "no job"
EnvEvents == {"crash", "failpoint", "db_error"}

ASSUME GatewayAssumption ==
  /\ NoJob \notin Jobs
  /\ AccountOf \in [Jobs -> Accounts] /\ MessageOf \in [Jobs -> Messages]
  /\ \A i, j \in Jobs : MessageOf[i] = MessageOf[j] => AccountOf[i] = AccountOf[j]
  /\ KindOf \in [Jobs -> {"send", "certified", "fetch"}]
  /\ Blind \subseteq Accounts /\ Env \subseteq EnvEvents
  /\ Limit \in Nat \ {0} /\ MaxAttempts \in Nat \ {0} /\ MaxFaults \in Nat

VARIABLES
  status, attempts,
  due,        \* run_after has come
  stale,      \* updated_at is older than the limit for running jobs
  phase, batch, cur,  \* the worker
  accepted,   \* times Telegram accepted the message of a job
  confirmed,  \* history: the worker has seen that it was accepted
  faults

table == <<status, attempts, due, stale>>
telegram == <<accepted, confirmed>>
vars == <<table, phase, batch, cur, telegram, faults>>

JobStatus == {"none", "pending", "running", "retry", "done", "failed"}
Phases == {"start", "idle", "next", "allow", "guard", "lookup", "send", "accepted",
           "fetch", "found", "succeeded", "transient", "refused", "exception"}

TypeOK ==
  /\ status \in [Jobs -> JobStatus]
  /\ attempts \in [Jobs -> 0..MaxAttempts]
  /\ due \in [Jobs -> BOOLEAN] /\ stale \in [Jobs -> BOOLEAN]
  /\ phase \in Phases
  /\ batch \in SUBSET Jobs
  /\ cur \in Jobs \cup {NoJob}
  /\ accepted \in [Jobs -> Nat]
  /\ confirmed \in [Jobs -> BOOLEAN]
  /\ faults \in 0..MaxFaults

Init ==
  /\ status = [j \in Jobs |-> "none"]
  /\ attempts = [j \in Jobs |-> 0]
  /\ due = [j \in Jobs |-> TRUE]
  /\ stale = [j \in Jobs |-> FALSE]
  /\ phase = "start" /\ batch = {} /\ cur = NoJob
  /\ accepted = [j \in Jobs |-> 0]
  /\ confirmed = [j \in Jobs |-> FALSE]
  /\ faults = 0

Step(from, to) == phase = from /\ phase' = to
Fault(e) == e \in Env /\ faults < MaxFaults /\ faults' = faults + 1

(* A history that shows the message of j, sent for j or for another job.     *)
Delivered(j) == \E i \in Jobs : MessageOf[i] = MessageOf[j] /\ accepted[i] > 0

-----------------------------------------------------------------------------
(* Slips: the way a definition below might be got wrong.  No behaviour of    *)
(* Spec uses them; each run's properties are known to notice them.           *)

(* Slip: jobs left running are put back at the start only.                   *)
RecoverStale_StartOnly ==
  /\ Step("start", "idle") \/ Step("idle", "idle")
  /\ LET stuck == {j \in Jobs : phase = "start" /\ status[j] = "running" /\ stale[j]}
     IN  status' = [j \in Jobs |-> IF j \in stuck THEN "retry" ELSE status[j]]
  /\ UNCHANGED <<attempts, due, stale, batch, cur, telegram, faults>>

(* Slip: what is put back looks like a job that was never tried.             *)
RecoverStale_Pending ==
  /\ Step("start", "idle") \/ Step("idle", "idle")
  /\ LET stuck == {j \in Jobs : status[j] = "running" /\ stale[j]}
     IN  /\ status' = [j \in Jobs |-> IF j \in stuck THEN "pending" ELSE status[j]]
         /\ due' = [j \in Jobs |-> j \in stuck \/ due[j]]
         /\ stale' = [j \in Jobs |-> j \notin stuck /\ stale[j]]
  /\ UNCHANGED <<attempts, batch, cur, telegram, faults>>

(* Slip: a batch may hold two jobs of an account.                            *)
Batches_SameAccount ==
  {b \in SUBSET {j \in Jobs : status[j] \in {"pending", "retry"} /\ due[j]} :
     /\ Cardinality(b) =< Limit
     /\ \A i \in Jobs, j \in b : status[i] = "running" => AccountOf[i] # AccountOf[j]}

(* Slip: a failed look-up counts as evidence.                                *)
LookupFinds_Unproved ==
  /\ Step("lookup", "found")
  /\ UNCHANGED <<table, batch, cur, telegram, faults>>

(* Slip: certified jobs are not looked up.                                   *)
GuardAllows_NoLookup ==
  /\ Step("guard", IF KindOf[cur] = "fetch" THEN "fetch" ELSE "send")
  /\ UNCHANGED <<table, batch, cur, telegram, faults>>

-----------------------------------------------------------------------------
(* Writes to the row of the current job, by id.                              *)

MarkDone ==
  /\ status' = [status EXCEPT ![cur] = "done"]
  /\ UNCHANGED <<attempts, due, stale>>

(* mark_job_failed with neither a retry nor an attempt counted.              *)
MarkRejected ==
  /\ status' = [status EXCEPT ![cur] = "failed"]
  /\ UNCHANGED <<attempts, due, stale>>

(* mark_job_failed with a retry_at, if attempts are left.                    *)
MarkRetry ==
  /\ attempts' = [attempts EXCEPT ![cur] = @ + 1]
  /\ IF attempts[cur] + 1 < MaxAttempts
       THEN /\ status' = [status EXCEPT ![cur] = "retry"]
            /\ due' = [due EXCEPT ![cur] = FALSE]
       ELSE /\ status' = [status EXCEPT ![cur] = "failed"]
            /\ UNCHANGED due
  /\ UNCHANGED stale

MarkFailed ==
  /\ attempts' = [attempts EXCEPT ![cur] = @ + 1]
  /\ status' = [status EXCEPT ![cur] = "failed"]
  /\ UNCHANGED <<due, stale>>

-----------------------------------------------------------------------------
(* Any web process.                                                          *)
Enqueue(j) ==
  /\ status[j] = "none"
  /\ status' = [status EXCEPT ![j] = "pending"]
  /\ UNCHANGED <<attempts, due, stale, phase, batch, cur, telegram, faults>>

-----------------------------------------------------------------------------
(* The loop of the worker.                                                   *)

(* At the start and on every thirtieth cycle.                                *)
RecoverStale ==
  /\ Step("start", "idle") \/ Step("idle", "idle")
  /\ LET stuck == {j \in Jobs : status[j] = "running" /\ stale[j]}
     IN  /\ status' = [j \in Jobs |-> IF j \in stuck THEN "retry" ELSE status[j]]
         /\ due' = [j \in Jobs |-> j \in stuck \/ due[j]]
         /\ stale' = [j \in Jobs |-> j \notin stuck /\ stale[j]]
  /\ UNCHANGED <<attempts, batch, cur, telegram, faults>>

Ready == {j \in Jobs : status[j] \in {"pending", "retry"} /\ due[j]}
Busy == {AccountOf[j] : j \in {i \in Jobs : status[i] = "running"}}

(* A batch: at most Limit jobs, of different accounts, none of them busy.    *)
Batches == {b \in SUBSET Ready : /\ Cardinality(b) =< Limit
                                 /\ \A j \in b : AccountOf[j] \notin Busy
                                 /\ \A i, j \in b : AccountOf[i] = AccountOf[j] => i = j}

(* claim_next_jobs goes on while it can.  Its order, newest first or the AI  *)
(* accounts first, is left open.                                             *)
ClaimNextJobs ==
  \E b \in Batches \ {{}} :
    /\ \A j \in Ready \ b : b \cup {j} \notin Batches
    /\ Step("idle", "next")
    /\ batch' = b
    /\ status' = [j \in Jobs |-> IF j \in b THEN "running" ELSE status[j]]
    /\ stale' = [j \in Jobs |-> j \notin b /\ stale[j]]
    /\ UNCHANGED <<attempts, due, cur, telegram, faults>>

NextJob(j) ==
  /\ j \in batch
  /\ Step("next", "allow")
  /\ batch' = batch \ {j}
  /\ cur' = j
  /\ UNCHANGED <<table, telegram, faults>>

EndBatch ==
  /\ batch = {}
  /\ Step("next", "idle")
  /\ cur' = NoJob
  /\ UNCHANGED <<table, batch, telegram, faults>>

-----------------------------------------------------------------------------
(* One job.  Every way out of _run_send and _run_fetch disconnects the       *)
(* client of the account.                                                    *)

(* The account may have left the allowlist since the claim.  An exception    *)
(* here, the one of the rejection too, is logged and the job goes on.        *)
NotAllowed ==
  /\ Step("allow", "next")
  /\ MarkRejected
  /\ UNCHANGED <<batch, cur, telegram, faults>>

Allowed ==
  /\ Step("allow", "guard")
  /\ UNCHANGED <<table, batch, cur, telegram, faults>>

(* The declared hash of the text does not match, or the guard says no.       *)
GuardDenies ==
  /\ Step("guard", "next")
  /\ KindOf[cur] # "fetch"
  /\ MarkRejected
  /\ UNCHANGED <<batch, cur, telegram, faults>>

GuardAllows ==
  /\ Step("guard", IF KindOf[cur] = "certified" THEN "lookup"
                   ELSE IF KindOf[cur] = "send" THEN "send" ELSE "fetch")
  /\ UNCHANGED <<table, batch, cur, telegram, faults>>

(* pre_send_certification_guard looks the text up in the recent history of   *)
(* the chat.  A failed look-up counts as no evidence.                        *)
LookupFinds ==
  /\ Step("lookup", "found")
  /\ Delivered(cur)
  /\ UNCHANGED <<table, batch, cur, telegram, faults>>

LookupMisses ==
  /\ Step("lookup", "send")
  /\ ~Delivered(cur) \/ AccountOf[cur] \in Blind
  /\ UNCHANGED <<table, batch, cur, telegram, faults>>

(* The scenario that forbids a second attempt without evidence.              *)
LookupAmbiguous ==
  /\ Step("lookup", "next")
  /\ ~Delivered(cur) \/ AccountOf[cur] \in Blind
  /\ attempts[cur] > 0
  /\ MarkRejected
  /\ UNCHANGED <<batch, cur, telegram, faults>>

TelegramAccepts ==
  /\ Step("send", "accepted")
  /\ accepted' = [accepted EXCEPT ![cur] = @ + 1]
  /\ UNCHANGED <<table, batch, cur, confirmed, faults>>

Reply ==
  /\ Step("accepted", "succeeded")
  /\ confirmed' = [confirmed EXCEPT ![cur] = TRUE]
  /\ UNCHANGED <<table, batch, cur, accepted, faults>>

FetchSucceeds ==
  /\ Step("fetch", "succeeded")
  /\ UNCHANGED <<table, batch, cur, telegram, faults>>

(* No account, no session, no peer, an RPC error, a timeout: of the error    *)
(* only is_transient_telegram_error matters, not whether Telegram accepted.  *)
(* Before the call to Telegram the transport may also raise.                 *)
CallFails ==
  /\ \/ phase \in {"send", "accepted", "fetch"} /\ phase' \in {"transient", "refused"}
     \/ phase \in {"send", "fetch"} /\ phase' = "exception"
  /\ UNCHANGED <<table, batch, cur, telegram, faults>>

(* The delivery row and the job row in one transaction.                      *)
RecordDone ==
  /\ Step("succeeded", "next") \/ Step("found", "next")
  /\ MarkDone
  /\ UNCHANGED <<batch, cur, telegram, faults>>

RecordTransient ==
  /\ Step("transient", "next")
  /\ MarkRetry
  /\ UNCHANGED <<batch, cur, telegram, faults>>

RecordRefused ==
  /\ Step("refused", "next")
  /\ MarkFailed
  /\ UNCHANGED <<batch, cur, telegram, faults>>

(* An exception out of the job becomes a retry, whatever was sent.           *)
RecordException ==
  /\ Step("exception", "next")
  /\ MarkRetry
  /\ UNCHANGED <<batch, cur, telegram, faults>>

-----------------------------------------------------------------------------
(* Faults.                                                                   *)

DbError ==
  /\ Fault("db_error")
  /\ \/ \E p \in {"lookup", "found", "succeeded", "transient", "refused"} :
          Step(p, "exception") /\ UNCHANGED <<batch, cur>>
     \/ Step("start", "idle") /\ UNCHANGED <<batch, cur>>
     \/ Step("allow", "guard") /\ UNCHANGED <<batch, cur>>
     \/ \E p \in {"guard", "exception"} : Step(p, "start") /\ batch' = {} /\ cur' = NoJob
  /\ UNCHANGED <<table, telegram>>

(* A certification failpoint stops the job where it is, still running.       *)
Failpoint ==
  /\ Fault("failpoint")
  /\ \E p \in {"send", "succeeded", "transient", "refused"} : Step(p, "next")
  /\ KindOf[cur] # "fetch"
  /\ UNCHANGED <<table, batch, cur, telegram>>

Crash ==
  /\ Fault("crash")
  /\ phase' = "start" /\ batch' = {} /\ cur' = NoJob
  /\ UNCHANGED <<table, telegram>>

BecomesDue(j) ==
  /\ status[j] = "retry" /\ ~due[j]
  /\ due' = [due EXCEPT ![j] = TRUE]
  /\ UNCHANGED <<status, attempts, stale, phase, batch, cur, telegram, faults>>

BecomesStale(j) ==
  /\ status[j] = "running" /\ ~stale[j]
  /\ stale' = [stale EXCEPT ![j] = TRUE]
  /\ UNCHANGED <<status, attempts, due, phase, batch, cur, telegram, faults>>

-----------------------------------------------------------------------------
Process ==
  \/ NotAllowed \/ Allowed \/ GuardDenies \/ GuardAllows
  \/ LookupFinds \/ LookupMisses \/ LookupAmbiguous
  \/ TelegramAccepts \/ Reply \/ FetchSucceeds \/ CallFails
  \/ RecordDone \/ RecordTransient \/ RecordRefused \/ RecordException

Work == ClaimNextJobs \/ (\E j \in Jobs : NextJob(j)) \/ EndBatch \/ Process

Next ==
  \/ RecoverStale \/ Work \/ DbError \/ Failpoint \/ Crash
  \/ \E j \in Jobs : Enqueue(j) \/ BecomesDue(j) \/ BecomesStale(j)

Spec == Init /\ [][Next]_vars

(* The worker is restarted and keeps going, a recovery comes every thirtieth *)
(* cycle, and time passes.                                                   *)
FairSpec ==
  /\ Spec
  /\ WF_vars(Work) /\ WF_vars(phase = "start" /\ RecoverStale)
  /\ SF_vars(RecoverStale)
  /\ \A j \in Jobs : WF_vars(BecomesDue(j)) /\ WF_vars(BecomesStale(j))

-----------------------------------------------------------------------------
(* Properties.                                                               *)

Sends(j) == KindOf[j] # "fetch"

(* No two jobs of one account run at a time: claim_next_jobs never claims    *)
(* for an account that has a running job.                                    *)
OneRunningPerAccount ==
  \A i, j \in Jobs :
    status[i] = "running" /\ status[j] = "running" /\ AccountOf[i] = AccountOf[j] => i = j

(* The message of a job that is done was delivered.                          *)
DoneWasDelivered ==
  \A j \in Jobs : Sends(j) /\ status[j] = "done" => Delivered(j)

(* Where the history can be read, certified jobs of one message send it      *)
(* once: through retries, crashes, failpoints and lost records.              *)
Certain(j) == KindOf[j] = "certified" /\ AccountOf[j] \notin Blind

CertifiedOnce ==
  /\ \A j \in Jobs : Certain(j) => accepted[j] =< 1
  /\ \A i, j \in Jobs : Certain(i) /\ Certain(j) /\ i # j /\ MessageOf[i] = MessageOf[j]
                          => accepted[i] = 0 \/ accepted[j] = 0

(* Telegram is asked at most MaxAttempts times, and once more for each       *)
(* crash, failpoint or lost record.                                          *)
SendsAreBounded == \A j \in Jobs : accepted[j] =< MaxAttempts + faults

(* The worker, its batches and its retries implement the queue that those    *)
(* who enqueue rely on.                                                      *)
Queue == INSTANCE GatewayQueue WITH Fetches <- {j \in Jobs : ~Sends(j)}
KeepsQueue == Queue!Spec

(* An outcome is final.                                                      *)
OutcomeIsFinal ==
  [][\A j \in Jobs : status[j] \in {"done", "failed"} => status'[j] = status[j]]_vars

(* Every job is done or fails in the end: a running job that nobody works on *)
(* is put back, a retry comes due, attempts run out.                         *)
EveryJobSettles ==
  \A j \in Jobs : status[j] = "pending" ~> status[j] \in {"done", "failed"}

=============================================================================
