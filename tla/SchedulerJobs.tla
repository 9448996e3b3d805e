--------------------------- MODULE SchedulerJobs ---------------------------
(* The scheduled_jobs queue for chat posts (PROMO and INFO jobs): claiming   *)
(* under a lease, the executor's walk from the status check to the Telegram  *)
(* RPC, and the message_deliveries rows that record the send intent.         *)
(*                                                                           *)
(* Every database transaction of the code is one action and every await is a *)
(* point where another process may run.  The scheduler loop (src/scheduler/  *)
(* worker.py) and the operator's scripts/run_job_now.py run the same         *)
(* execute_job: the loop claims first, the script does not.                  *)
(*                                                                           *)
(* Time is relative: wait[j] is the number of ticks until run_at, lease[j]   *)
(* the ticks until lease_until (0: now).  Of instants in the past only the   *)
(* order is kept, -1 being the latest, so behaviours are unbounded and the   *)
(* state space is finite.                                                    *)
EXTENDS Integers, FiniteSets

CONSTANTS
  Jobs,        \* rows of scheduled_jobs
  Accounts,    \* Telegram accounts, each with one session file
  AccountOf,   \* the account each job posts from
  Workers,     \* scheduler loops (one per host by the flock singleton)
  Scripts,     \* run_job_now processes
  Markers,     \* the last_error markers jobs are created with
  Env,         \* what the environment may do, see EnvEvents
  BatchMax,    \* jobs claimed per loop (10 in the code)
  LeaseTicks,  \* LEASE_SECONDS
  DeferTicks,  \* SCHEDULER_TEMP_LOCK_DEFER_SEC
  ReloginTicks, \* the five minutes or more of an account that has to log in again
  IntervalTicks, \* SEND_MIN_ACCOUNT_INTERVAL_SEC
  JitterMin,   \* SEND_RANDOM_JITTER_MIN_SEC
  JitterMax,   \* SEND_RANDOM_JITTER_MAX_SEC
  MaxWait,     \* bound: run_at is at most this far ahead
  MaxRows,     \* bound: message_deliveries rows
  MaxCrashes   \* bound: process crashes

EnvEvents == {"crash", "db_error", "cancel", "temp_lock", "not_auth", "late"}
AllMarkers == {"none", "test", "cert"}
Procs == Workers \cup Scripts
Rows == 1..MaxRows
NoOwner == "no owner"
NoJob == "no job"

ASSUME ConstantsAssumption ==
  /\ AccountOf \in [Jobs -> Accounts] /\ IsFiniteSet(Jobs)
  /\ Workers \cap Scripts = {}
  /\ NoOwner \notin Procs /\ NoJob \notin Jobs
  /\ Markers \subseteq AllMarkers /\ Env \subseteq EnvEvents
  /\ BatchMax \in Nat \ {0} /\ LeaseTicks \in Nat \ {0}
  /\ DeferTicks \in Nat \ {0} /\ ReloginTicks \in Nat \ {0}
  /\ IntervalTicks \in Nat
  /\ JitterMin \in Nat /\ JitterMax \in Nat /\ JitterMin =< JitterMax
  /\ MaxWait \in Nat /\ MaxRows \in Nat /\ MaxCrashes \in Nat

VARIABLES
  status, wait, lease, owner, marker,   \* scheduled_jobs
  rowStatus, rowJob,                    \* message_deliveries
  cool,                                 \* ticks left of an account's send interval
  posts,                                \* times Telegram accepted a row's message
  lock,                                 \* session flock of each account
  pc, batch, cur, myRow, attempt, mode, \* the executors
  cancelling,                           \* operator requests that read PENDING
  crashes

jobVars  == <<status, wait, lease, owner, marker>>
rowVars  == <<rowStatus, rowJob, posts, cool>>
procVars == <<batch, cur, myRow, attempt, mode>>
envVars  == <<cancelling, crashes>>
vars == <<status, wait, lease, owner, marker, rowStatus, rowJob, posts, cool, lock,
          pc, batch, cur, myRow, attempt, mode, cancelling, crashes>>

JobStatus == {"PENDING", "RUNNING", "SENT", "FAILED", "SKIPPED", "CANCELLED"}
RowStatus == {"NONE", "SENDING", "UNCERTAIN", "SENT", "FAILED"}
Labels == {"idle", "claim", "next", "check", "gate", "reconcile", "preflight",
           "blocked", "already", "guard", "connect", "resolve", "create",
           "rpc", "accepted", "finsent", "finfail", "markunc", "release"}

UpTo(n) == -Cardinality(Jobs)..n

TypeOK ==
  /\ status \in [Jobs -> JobStatus]
  /\ wait \in [Jobs -> UpTo(MaxWait)]
  /\ lease \in [Jobs -> UpTo(LeaseTicks)]
  /\ owner \in [Jobs -> Workers \cup {NoOwner}]
  /\ marker \in [Jobs -> AllMarkers]
  /\ rowStatus \in [Rows -> RowStatus]
  /\ rowJob \in [Rows -> Jobs \cup {NoJob}]
  /\ posts \in [Rows -> Nat]
  /\ cool \in [Accounts -> 0..IntervalTicks]
  /\ lock \in [Accounts -> Procs \cup {NoOwner}]
  /\ pc \in [Procs -> Labels]
  /\ batch \in [Procs -> SUBSET Jobs]
  /\ cur \in [Procs -> Jobs \cup {NoJob}]
  /\ myRow \in [Procs -> Rows \cup {0}]
  /\ attempt \in [Procs -> 1..2]
  /\ mode \in [Procs -> AllMarkers]
  /\ cancelling \in SUBSET Jobs
  /\ crashes \in 0..MaxCrashes

Init ==
  /\ status = [j \in Jobs |-> "PENDING"]
  /\ wait \in [Jobs -> 0..MaxWait]
  /\ lease = [j \in Jobs |-> 0]
  /\ owner = [j \in Jobs |-> NoOwner]
  /\ marker \in [Jobs -> Markers]
  /\ rowStatus = [r \in Rows |-> "NONE"]
  /\ rowJob = [r \in Rows |-> NoJob]
  /\ posts = [r \in Rows |-> 0]
  /\ cool = [a \in Accounts |-> 0]
  /\ lock = [a \in Accounts |-> NoOwner]
  /\ pc = [p \in Procs |-> "idle"]
  /\ batch = [p \in Procs |-> {}]
  /\ cur = [p \in Procs |-> NoJob]
  /\ myRow = [p \in Procs |-> 0]
  /\ attempt = [p \in Procs |-> 1]
  /\ mode = [p \in Procs |-> "none"]
  /\ cancelling = {}
  /\ crashes = 0

-----------------------------------------------------------------------------
(* Helpers.                                                                  *)

Step(p, from, to) == pc[p] = from /\ pc' = [pc EXCEPT ![p] = to]
Runnable(j) == status[j] \in {"PENDING", "RUNNING"}
RowsOf(j, st) == {r \in Rows : rowJob[r] = j /\ rowStatus[r] = st}
Acct(p) == AccountOf[cur[p]]
AtMost(n) == IF n =< MaxWait THEN n ELSE MaxWait
Later(m, n) == IF m >= n THEN m ELSE n
Earliest(f, S) == {j \in S : \A k \in S : f[j] =< f[k]}

(* What a tick makes of the instants f of the jobs S.                        *)
Elapse(f, S) ==
  [j \in S |-> IF f[j] > 0 THEN f[j] - 1
               ELSE -Cardinality({f[k] : k \in {i \in S : f[i] \in f[j]..0}})]
Free(p) == [a \in Accounts |-> IF lock[a] = p THEN NoOwner ELSE lock[a]]

(* An ORM write of a terminal status: no condition on the status it         *)
(* replaces; lease_until and lease_owner cleared.  A refusal overwrites      *)
(* last_error, and with it the marker; SENT leaves it.                       *)
Settle(j, st) ==
  /\ status' = [status EXCEPT ![j] = st]
  /\ lease' = [lease EXCEPT ![j] = 0]
  /\ owner' = [owner EXCEPT ![j] = NoOwner]
  /\ marker' = IF st = "SENT" THEN marker ELSE [marker EXCEPT ![j] = "none"]
  /\ UNCHANGED wait

(* The local variables of a new call of execute_job.                         *)
NewCall(p, j) ==
  /\ cur' = [cur EXCEPT ![p] = j]
  /\ myRow' = [myRow EXCEPT ![p] = 0]
  /\ attempt' = [attempt EXCEPT ![p] = 1]
  /\ mode' = [mode EXCEPT ![p] = "none"]

(* Back to PENDING with a later run_at; last_error, and with it the marker,  *)
(* is overwritten.                                                           *)
Defer(j, w) ==
  /\ status' = [status EXCEPT ![j] = "PENDING"]
  /\ wait' = [wait EXCEPT ![j] = AtMost(w)]
  /\ lease' = [lease EXCEPT ![j] = 0]
  /\ owner' = [owner EXCEPT ![j] = NoOwner]
  /\ marker' = [marker EXCEPT ![j] = "none"]

-----------------------------------------------------------------------------
(* Slips: the way a definition below might be got wrong.  No behaviour of    *)
(* Spec uses them; each run's properties are known to notice them.           *)

(* Slip: RUNNING jobs are reclaimed without looking at the lease.            *)
StaleJobs_AnyLease == {j \in Jobs : status[j] = "RUNNING" /\ owner[j] # NoOwner}

(* Slip: no stale reclaim.                                                   *)
Claimable_NoReclaim == {j \in Jobs : status[j] = "PENDING" /\ wait[j] =< 0}

(* Slip: only stale work is claimed.                                         *)
Claimable_NoFresh == {j \in Jobs : status[j] = "RUNNING" /\ owner[j] # NoOwner /\ lease[j] < 0}

(* Slip: a status outside the enumeration.                                   *)
GateSkips_Denied(p) ==
  /\ Step(p, "gate", "next")
  /\ Settle(cur[p], "DENIED")
  /\ UNCHANGED <<rowVars, procVars, envVars, lock>>

(* Slip: an outcome that says nothing of the first post is retried.          *)
RetryablePost_Ambiguous(p) ==
  /\ attempt[p] = 1 /\ mode[p] # "cert"
  /\ Step(p, "rpc", "rpc") \/ Step(p, "accepted", "rpc")
  /\ attempt' = [attempt EXCEPT ![p] = 2]
  /\ UNCHANGED <<jobVars, rowVars, lock, batch, cur, myRow, mode, envVars>>

(* Slip: UNCERTAIN rows are cleared with the SENDING ones.                   *)
Cleared_Uncertain(j) == RowsOf(j, "SENDING") \cup RowsOf(j, "UNCERTAIN")

(* Slip: the flock is not tried, only recorded.                              *)
Connect_NoFlock(p) ==
  /\ Step(p, "connect", "resolve")
  /\ lock' = [lock EXCEPT ![Acct(p)] = p]
  /\ UNCHANGED <<jobVars, rowVars, procVars, envVars>>

(* Slip: a timeout taken for a success.                                      *)
AmbiguousRpc_Success(p) ==
  /\ Step(p, "rpc", "finsent") \/ Step(p, "accepted", "finsent")
  /\ UNCHANGED <<jobVars, rowVars, procVars, envVars, lock>>

(* Slip: an ambiguous outcome recorded as FAILED.                            *)
MarkUncertain_Failed(p) ==
  /\ Step(p, "markunc", "release")
  /\ rowStatus' = [rowStatus EXCEPT ![myRow[p]] = "FAILED"]
  /\ UNCHANGED <<jobVars, rowJob, posts, cool, procVars, envVars, lock>>

-----------------------------------------------------------------------------
(* The scheduler loop.                                                       *)

StartLoop(p) ==
  /\ p \in Workers
  /\ Step(p, "idle", "claim")
  /\ UNCHANGED <<jobVars, rowVars, procVars, envVars, lock>>

DueJobs == {j \in Jobs : status[j] = "PENDING" /\ wait[j] =< 0}
StaleJobs == {j \in Jobs : status[j] = "RUNNING" /\ owner[j] # NoOwner /\ lease[j] < 0}

(* claim_due_job: the due PENDING job of the earliest run_at first, a stale  *)
(* RUNNING one, of the earliest lease_until, only when there is none.  Among *)
(* equals (the code takes the least id) the choice is left open.             *)
Claimable == IF DueJobs # {} THEN Earliest(wait, DueJobs) ELSE Earliest(lease, StaleJobs)

ClaimDueJob(p, j) ==
  /\ pc[p] = "claim"
  /\ Cardinality(batch[p]) < BatchMax
  /\ j \in Claimable
  /\ status' = [status EXCEPT ![j] = "RUNNING"]
  /\ lease' = [lease EXCEPT ![j] = LeaseTicks]
  /\ owner' = [owner EXCEPT ![j] = p]
  /\ batch' = [batch EXCEPT ![p] = @ \cup {j}]
  /\ UNCHANGED <<wait, marker, rowVars, lock, pc, cur, myRow, attempt, mode, envVars>>

EndClaims(p) ==
  /\ Cardinality(batch[p]) >= BatchMax \/ Claimable = {}
  /\ Step(p, "claim", "next")
  /\ UNCHANGED <<jobVars, rowVars, procVars, envVars, lock>>

NextJob(p, j) ==
  /\ p \in Workers /\ j \in batch[p]
  /\ Step(p, "next", "check")
  /\ batch' = [batch EXCEPT ![p] = @ \ {j}]
  /\ NewCall(p, j)
  /\ UNCHANGED <<jobVars, rowVars, lock, envVars>>

Sleep(p) ==
  /\ p \in Workers /\ batch[p] = {}
  /\ Step(p, "next", "idle")
  /\ NewCall(p, NoJob)
  /\ UNCHANGED <<jobVars, rowVars, lock, batch, envVars>>

(* scripts/run_job_now.py JOB_ID: execute_job with no claim; its exit drops  *)
(* whatever flock the process still holds.                                   *)
StartScript(p, j) ==
  /\ p \in Scripts
  /\ Step(p, "idle", "check")
  /\ NewCall(p, j)
  /\ UNCHANGED <<jobVars, rowVars, lock, batch, envVars>>

ScriptExit(p) ==
  /\ p \in Scripts
  /\ Step(p, "next", "idle")
  /\ lock' = Free(p)
  /\ NewCall(p, NoJob)
  /\ UNCHANGED <<jobVars, rowVars, batch, envVars>>

-----------------------------------------------------------------------------
(* execute_job up to the session lock.                                       *)

(* The status read that opens execute_job.                                   *)
CheckRunnable(p) ==
  /\ Step(p, "check", IF Runnable(cur[p]) THEN "gate" ELSE "next")
  /\ UNCHANGED <<jobVars, rowVars, procVars, envVars, lock>>

(* Missing account, target or binding; no template; a blocked pilot.         *)
GateFails(p) ==
  /\ Step(p, "gate", "next")
  /\ Settle(cur[p], "FAILED")
  /\ UNCHANGED <<rowVars, procVars, envVars, lock>>

(* Disabled binding, unhealthy target, inactive or reserved account.         *)
GateSkips(p) ==
  /\ Step(p, "gate", "next")
  /\ Settle(cur[p], "SKIPPED")
  /\ UNCHANGED <<rowVars, procVars, envVars, lock>>

DeferTempLock(p) ==
  /\ "temp_lock" \in Env
  /\ Step(p, "gate", "next")
  /\ Defer(cur[p], Later(wait[cur[p]], 0) + DeferTicks)
  /\ UNCHANGED <<rowVars, procVars, envVars, lock>>

(* get_send_pacing_decision for a job without a marker: the instant is the   *)
(* end of the interval after the account's last SENT row (now, if it is      *)
(* over) plus a jitter, and the send is allowed if it is not in the future.  *)
(* An account known to be logged out is put off by a fixed time.             *)
PacingDelays(p) ==
  {cool[Acct(p)] + jitter : jitter \in JitterMin..JitterMax}
    \cup (IF "not_auth" \in Env THEN {Later(ReloginTicks, IntervalTicks)} ELSE {})

DeferPacing(p) ==
  /\ Step(p, "gate", "next")
  /\ marker[cur[p]] = "none"
  /\ \E d \in PacingDelays(p) \ {0} :
       Defer(cur[p], Later(wait[cur[p]], d))
  /\ UNCHANGED <<rowVars, procVars, envVars, lock>>

(* The marker is remembered.  The code also sets last_error to None, but the *)
(* job is expunged from its session before anything is flushed.              *)
GateOpens(p) ==
  /\ Step(p, "gate", "reconcile")
  /\ marker[cur[p]] # "none" \/ 0 \in PacingDelays(p)
  /\ mode' = [mode EXCEPT ![p] = marker[cur[p]]]
  /\ UNCHANGED <<jobVars, rowVars, lock, batch, cur, myRow, attempt, envVars>>

(* _reconcile_job_if_sent_delivery_exists.                                   *)
Reconcile(p) ==
  LET j == cur[p] IN
  /\ Step(p, "reconcile", IF RowsOf(j, "SENT") = {} THEN "preflight" ELSE "next")
  /\ IF RowsOf(j, "SENT") # {} /\ Runnable(j)
       THEN Settle(j, "SENT")
       ELSE UNCHANGED jobVars
  /\ UNCHANGED <<rowVars, procVars, envVars, lock>>

LeaseValid(j) == status[j] = "RUNNING" /\ owner[j] # NoOwner /\ lease[j] > 0

Verdict(j) ==
  IF RowsOf(j, "UNCERTAIN") # {} THEN "blocked"
  ELSE IF RowsOf(j, "SENDING") # {} /\ LeaseValid(j) THEN "already"
  ELSE "guard"

(* The SENDING rows preflight marks FAILED: superseded ones (all but the     *)
(* latest) under a valid lease, all of them as STALE_SENDING without one.    *)
Cleared(j) ==
  LET sending == RowsOf(j, "SENDING")
      latest == {r \in sending : \A s \in sending : s =< r}
  IN CASE Verdict(j) = "blocked" -> {}
       [] Verdict(j) = "already" -> sending \ latest
       [] OTHER -> sending

(* _preflight_delivery_intent.                                               *)
Preflight(p) ==
  /\ Step(p, "preflight", Verdict(cur[p]))
  /\ rowStatus' = [r \in Rows |-> IF r \in Cleared(cur[p]) THEN "FAILED" ELSE rowStatus[r]]
  /\ UNCHANGED <<jobVars, rowJob, posts, cool, procVars, envVars, lock>>

UncertainBlock(p) ==
  /\ Step(p, "blocked", "next")
  /\ Settle(cur[p], "FAILED")
  /\ UNCHANGED <<rowVars, procVars, envVars, lock>>

AlreadySending(p) ==
  /\ Step(p, "already", "next")
  /\ UNCHANGED <<jobVars, rowVars, procVars, envVars, lock>>

GuardDenies(p) ==
  /\ Step(p, "guard", "next")
  /\ Settle(cur[p], "SKIPPED")
  /\ UNCHANGED <<rowVars, procVars, envVars, lock>>

GuardAllows(p) ==
  /\ Step(p, "guard", "connect")
  /\ UNCHANGED <<jobVars, rowVars, procVars, envVars, lock>>

(* add_account: the session flock, or the wrapper this process still has.    *)
Connect(p) ==
  /\ Step(p, "connect", "resolve")
  /\ lock[Acct(p)] \in {NoOwner, p}
  /\ lock' = [lock EXCEPT ![Acct(p)] = p]
  /\ UNCHANGED <<jobVars, rowVars, procVars, envVars>>

(* Lock timeout or failed connection: the wrapper, if any, is released.      *)
ConnectFails(p) ==
  /\ Step(p, "connect", "next")
  /\ Settle(cur[p], "FAILED")
  /\ lock' = [lock EXCEPT ![Acct(p)] = IF @ = p THEN NoOwner ELSE @]
  /\ UNCHANGED <<rowVars, procVars, envVars>>

ResolveOk(p) ==
  /\ Step(p, "resolve", "create")
  /\ UNCHANGED <<jobVars, rowVars, procVars, envVars, lock>>

(* The return that precedes the try/finally: remove_account is not reached.  *)
ResolveFails(p) ==
  /\ Step(p, "resolve", "next")
  /\ Settle(cur[p], "FAILED")
  /\ UNCHANGED <<rowVars, procVars, envVars, lock>>

-----------------------------------------------------------------------------
(* The send.                                                                 *)

CreateSending(p, r) ==
  /\ rowStatus[r] = "NONE"
  /\ \A s \in Rows : s < r => rowStatus[s] # "NONE"
  /\ Step(p, "create", "rpc")
  /\ rowStatus' = [rowStatus EXCEPT ![r] = "SENDING"]
  /\ rowJob' = [rowJob EXCEPT ![r] = cur[p]]
  /\ myRow' = [myRow EXCEPT ![p] = r]
  /\ attempt' = [attempt EXCEPT ![p] = 1]
  /\ UNCHANGED <<jobVars, posts, cool, lock, batch, cur, mode, envVars>>

(* Telegram takes the message; the reply is still on its way.                *)
TelegramAccepts(p) ==
  /\ Step(p, "rpc", "accepted")
  /\ posts' = [posts EXCEPT ![myRow[p]] = @ + 1]
  /\ UNCHANGED <<jobVars, rowStatus, rowJob, cool, procVars, envVars, lock>>

Reply(p) ==
  /\ Step(p, "accepted", "finsent")
  /\ UNCHANGED <<jobVars, rowVars, procVars, envVars, lock>>

(* wait_for times out, or an error that does not say whether it was sent.    *)
AmbiguousRpc(p) ==
  /\ Step(p, "rpc", "markunc") \/ Step(p, "accepted", "markunc")
  /\ UNCHANGED <<jobVars, rowVars, procVars, envVars, lock>>

MaxAttempts(p) == IF mode[p] = "cert" THEN 1 ELSE 2

(* A refusal of retryable_post.  `if attempt == 0: ... continue` runs off    *)
(* the end of the loop when max_send_attempts is 1.                          *)
RetryablePost(p) ==
  /\ Step(p, "rpc", IF attempt[p] = 2 THEN "finfail"
                    ELSE IF MaxAttempts(p) = 1 THEN "release" ELSE "rpc")
  /\ attempt' = [attempt EXCEPT ![p] = 2]
  /\ UNCHANGED <<jobVars, rowVars, lock, batch, cur, myRow, mode, envVars>>

DefiniteRefusal(p) ==
  /\ Step(p, "rpc", "finfail")
  /\ UNCHANGED <<jobVars, rowVars, procVars, envVars, lock>>

FinalizeSent(p) ==
  /\ Step(p, "finsent", "release")
  /\ rowStatus' = [rowStatus EXCEPT ![myRow[p]] = "SENT"]
  /\ cool' = [cool EXCEPT ![Acct(p)] = IntervalTicks]
  /\ Settle(cur[p], "SENT")
  /\ UNCHANGED <<rowJob, posts, procVars, envVars, lock>>

FinalizeFailed(p) ==
  /\ Step(p, "finfail", "release")
  /\ rowStatus' = [rowStatus EXCEPT ![myRow[p]] = "FAILED"]
  /\ Settle(cur[p], "FAILED")
  /\ UNCHANGED <<rowJob, posts, cool, procVars, envVars, lock>>

(* Only the row: the job keeps RUNNING and its lease.                        *)
MarkUncertain(p) ==
  /\ Step(p, "markunc", "release")
  /\ rowStatus' = [rowStatus EXCEPT ![myRow[p]] = "UNCERTAIN"]
  /\ UNCHANGED <<jobVars, rowJob, posts, cool, procVars, envVars, lock>>

(* The finally clause: remove_account.                                       *)
Release(p) ==
  /\ Step(p, "release", "next")
  /\ lock' = [lock EXCEPT ![Acct(p)] = IF @ = p THEN NoOwner ELSE @]
  /\ UNCHANGED <<jobVars, rowVars, procVars, envVars>>

-----------------------------------------------------------------------------
(* The environment.                                                          *)

(* A transaction raises.  Before the send the exception leaves execute_job;  *)
(* after it the `except Exception` branch marks the row UNCERTAIN.           *)
DbError(p) ==
  /\ "db_error" \in Env
  /\ \/ \E l \in {"check", "gate", "reconcile", "preflight", "blocked", "guard", "create"} :
          Step(p, l, "next")
     \/ Step(p, "finsent", "markunc") \/ Step(p, "finfail", "markunc")
     \/ Step(p, "finfail", "release") \/ Step(p, "markunc", "release")
  /\ UNCHANGED <<jobVars, rowVars, procVars, envVars, lock>>

(* A claim still raises after its retries: the loop's `except` starts a new   *)
(* round and forgets the ids claimed so far; their jobs stay RUNNING.        *)
ClaimFails(p) ==
  /\ "db_error" \in Env
  /\ Step(p, "claim", "idle")
  /\ batch' = [batch EXCEPT ![p] = {}]
  /\ UNCHANGED <<jobVars, rowVars, lock, cur, myRow, attempt, mode, envVars>>

(* The process dies: its locals are gone, the kernel drops its flocks, the   *)
(* database keeps what was committed.                                        *)
Crash(p) ==
  /\ "crash" \in Env /\ crashes < MaxCrashes
  /\ pc' = [pc EXCEPT ![p] = "idle"]
  /\ batch' = [batch EXCEPT ![p] = {}]
  /\ NewCall(p, NoJob)
  /\ lock' = Free(p)
  /\ crashes' = crashes + 1
  /\ UNCHANGED <<jobVars, rowVars, cancelling>>

(* operator_cancel_job reads the row and later writes CANCELLED by id.       *)
CancelRead(j) ==
  /\ "cancel" \in Env
  /\ status[j] = "PENDING" /\ j \notin cancelling
  /\ cancelling' = cancelling \cup {j}
  /\ UNCHANGED <<jobVars, rowVars, lock, pc, procVars, crashes>>

CancelWrite(j) ==
  /\ j \in cancelling
  /\ cancelling' = cancelling \ {j}
  /\ status' = [status EXCEPT ![j] = "CANCELLED"]
  /\ UNCHANGED <<wait, lease, owner, marker, rowVars, lock, pc, procVars, crashes>>

Working(p) == {j \in Jobs : \/ j \in batch[p]
                            \/ j = cur[p] /\ pc[p] \notin {"idle", "claim", "next"}}

(* One tick.  A batch is claimed at one instant, so no tick falls inside it. *)
(* Unless "late" is in Env, the lease is long enough: no job a live process  *)
(* still works on, and owns, reaches the end of its lease.                   *)
Tick ==
  /\ \A p \in Workers : pc[p] # "claim"
  /\ "late" \notin Env =>
       \A p \in Procs : \A j \in Working(p) : owner[j] = p => lease[j] > 1
  /\ LET pending == {j \in Jobs : status[j] = "PENDING"} IN
       wait' = [j \in Jobs |-> IF j \in pending THEN Elapse(wait, pending)[j]
                               ELSE Later(wait[j] - 1, 0)]
  /\ LET leased == {j \in Jobs : owner[j] # NoOwner} IN
       lease' = [j \in Jobs |-> IF j \in leased THEN Elapse(lease, leased)[j] ELSE lease[j]]
  /\ cool' = [a \in Accounts |-> IF cool[a] > 0 THEN cool[a] - 1 ELSE 0]
  /\ UNCHANGED <<status, owner, marker, rowStatus, rowJob, posts, lock, pc, procVars, envVars>>

Execute(p) ==
  \/ CheckRunnable(p) \/ GateFails(p) \/ GateSkips(p)
  \/ DeferTempLock(p) \/ DeferPacing(p) \/ GateOpens(p)
  \/ Reconcile(p) \/ Preflight(p) \/ UncertainBlock(p) \/ AlreadySending(p)
  \/ GuardDenies(p) \/ GuardAllows(p) \/ Connect(p) \/ ConnectFails(p)
  \/ ResolveOk(p) \/ ResolveFails(p) \/ (\E r \in Rows : CreateSending(p, r))
  \/ TelegramAccepts(p) \/ Reply(p) \/ AmbiguousRpc(p)
  \/ RetryablePost(p) \/ DefiniteRefusal(p)
  \/ FinalizeSent(p) \/ FinalizeFailed(p) \/ MarkUncertain(p) \/ Release(p)

Loop(p) ==
  \/ StartLoop(p) \/ EndClaims(p) \/ Sleep(p) \/ ScriptExit(p)
  \/ \E j \in Jobs : ClaimDueJob(p, j) \/ NextJob(p, j)

Next ==
  \/ \E p \in Procs : Loop(p) \/ Execute(p) \/ DbError(p) \/ ClaimFails(p) \/ Crash(p)
  \/ \E p \in Procs, j \in Jobs : StartScript(p, j)
  \/ \E j \in Jobs : CancelRead(j) \/ CancelWrite(j)
  \/ Tick

Spec == Init /\ [][Next]_vars

(* The loop's process keeps running (Restart=always), its awaits end (the    *)
(* RPC by wait_for's timeout), and time passes.  Nothing is asked of the     *)
(* scripts, the operators, crashes or errors.                                *)
Fairness ==
  /\ \A p \in Workers : WF_vars(Loop(p) \/ Execute(p))
  /\ SF_vars(Tick)

FairSpec == Spec /\ Fairness

-----------------------------------------------------------------------------
(* Properties.                                                               *)

(* A job's message is accepted by Telegram at most once, whatever the        *)
(* crashes and database errors: the SENDING row is committed before the RPC  *)
(* and preflight refuses to send over it.                                    *)
PostedRows(j) == {r \in Rows : rowJob[r] = j /\ posts[r] > 0}

AtMostOnePost ==
  /\ \A r \in Rows : posts[r] =< 1
  /\ \A j \in Jobs : \A r, s \in PostedRows(j) : r = s

(* A row whose message Telegram accepted is never reported FAILED: SENT, or  *)
(* evidence (SENDING, UNCERTAIN) is left for the operator.                   *)
EvidenceKept ==
  \A r \in Rows : posts[r] > 0 => rowStatus[r] \in {"SENDING", "UNCERTAIN", "SENT"}

(* A job shown SENT has been accepted by Telegram under a row of its own.    *)
SentWasPosted == \A j \in Jobs : status[j] = "SENT" => PostedRows(j) # {}

(* Two processes never drive an account's Telegram session at once.          *)
Sending(p) == pc[p] \in {"resolve", "create", "rpc", "accepted", "finsent",
                        "finfail", "markunc", "release"}
SessionExclusive ==
  \A p, q \in Procs : Sending(p) /\ Sending(q) /\ Acct(p) = Acct(q) => p = q

(* Between the status check and the release of the session a job is in the   *)
(* hands of one process: the lease does what a lock would.                   *)
OneExecutor ==
  \A p, q \in Procs : p # q => Working(p) \cap Working(q) = {}

(* No step takes a finished job back to work or gives it another outcome.    *)
FinishedStaysFinished ==
  [][\A j \in Jobs : status[j] \in {"SENT", "FAILED", "SKIPPED"}
                      => status'[j] = status[j]]_vars

(* Nothing but an operator's review clears an UNCERTAIN row.                 *)
UncertainIsSticky ==
  [][\A r \in Rows : rowStatus[r] = "UNCERTAIN" => rowStatus'[r] = "UNCERTAIN"]_vars

(* A SENDING row whose process is gone, or has left it (RetryablePost of a   *)
(* certification): under its renewed lease the job is turned away by it.     *)
Abandoned(j) == \E r \in RowsOf(j, "SENDING") : \A p \in Procs : myRow[p] # r

(* A claimed job does not stay RUNNING, over crashes and deferrals: it is    *)
(* settled or put back, unless a SENDING row nobody is at holds it, or due   *)
(* jobs fill the batches again and again before the reclaim has its turn.    *)
RunningSettles ==
  \A j \in Jobs : \/ []<>(status[j] # "RUNNING" \/ Abandoned(j))
                 \/ []<>(Cardinality(DueJobs) >= BatchMax)

(* A job that is due is claimed, however often the jobs before it are put    *)
(* off, or it is cancelled.                                                  *)
DueIsClaimed ==
  \A j \in Jobs : j \in DueJobs ~> j \notin DueJobs

(* A claim of a docstring that the code does not keep.                       *)

(* executor.py:224: "already_sending - another worker holds a valid lease    *)
(* for SENDING intent": who is turned away so does not hold the lease.       *)
SendingIsAnothers == \A p \in Workers : pc[p] = "already" => owner[cur[p]] # p
=============================================================================
