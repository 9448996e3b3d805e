---------------------------- MODULE BulkSchedule ----------------------------
(* Bulk scheduling of one message for several accounts, over the sessions of  *)
(* SessionPools.  A request previews the chat with every account, which needs *)
(* its session, gives those that are ready a slot each, claims the key of the *)
(* batch in a ledger, finds or makes a job per slot, marks it with the key,   *)
(* and records its answer in the ledger.  The request may fail or its process *)
(* die at any step, and is sent again under the same key.  Meanwhile the      *)
(* scheduler takes the jobs, with the same sessions, and the owner cancels    *)
(* them.                                                                      *)
(*                                                                            *)
(* A key stands for a batch with a message and a time of its own, and for all *)
(* accounts.  Leases are not modelled: a job of a loop that died is taken up  *)
(* again some time.  The executor clears the marker in a commit of its own    *)
(* after the claim; a job that is running is not looked at for its marker in  *)
(* between, so both are one step.                                             *)
EXTENDS SessionPools

CONSTANTS
  Keys,     \* idempotency keys
  MaxJobs   \* bound: jobs made

Jobs == 1..MaxJobs
NoJob == 0
NoKey == "no key"

ASSUME BulkAssumption == MaxJobs \in Nat /\ NoKey \notin Keys

VARIABLES
  jacct, jslot, jkey,   \* of a job: account, slot; the batch it was made for
  jst, jmark,     \* its status, and whether it carries the marker of its batch
  ledger, listed, \* of a key: state of its row, jobs of the recorded answer
  step,           \* of a web process: where its bulk request is
  key, ready, left, made, cur,   \* its local variables; cur also of a loop
  plans           \* history: the sets of accounts a key was planned for

jobs == <<jacct, jslot, jkey, jst, jmark>>
answers == <<ledger, listed>>
locals == <<step, key, ready, left, made, cur>>
bulkVars == <<jobs, answers, locals, plans>>
vars == <<poolVars, bulkVars>>

Status == {"none", "PENDING", "RUNNING", "SENT", "FAILED", "UNCERTAIN", "CANCELLED"}

TypeOK ==
  /\ PoolTypeOK
  /\ jacct \in [Jobs -> Accounts \cup {NoAccount}] /\ jslot \in [Jobs -> Nat]
  /\ jkey \in [Jobs -> Keys \cup {NoKey}]
  /\ jst \in [Jobs -> Status] /\ jmark \in [Jobs -> BOOLEAN]
  /\ \A j \in Jobs : jst[j] # "none" => jacct[j] # NoAccount /\ jkey[j] # NoKey
  /\ ledger \in [Keys -> {"none", "pending", "answered"}]
  /\ listed \in [Keys -> SUBSET Jobs]
  /\ step \in [Procs -> {"plan", "find", "make", "mark"}]
  /\ key \in [Procs -> Keys \cup {NoKey}]
  /\ ready \in [Procs -> SUBSET Accounts] /\ left \in [Procs -> SUBSET Accounts]
  /\ made \in [Procs -> SUBSET Jobs] /\ cur \in [Procs -> Jobs \cup {NoJob}]
  /\ plans \in [Keys -> SUBSET SUBSET Accounts]
  /\ \A p \in Procs : left[p] \subseteq ready[p]

Init ==
  /\ PoolInit
  /\ jacct = [j \in Jobs |-> NoAccount] /\ jslot = [j \in Jobs |-> 0]
  /\ jkey = [j \in Jobs |-> NoKey]
  /\ jst = [j \in Jobs |-> "none"] /\ jmark = [j \in Jobs |-> FALSE]
  /\ ledger = [k \in Keys |-> "none"] /\ listed = [k \in Keys |-> {}]
  /\ step = [p \in Procs |-> "plan"] /\ key = [p \in Procs |-> NoKey]
  /\ ready = [p \in Procs |-> {}] /\ left = [p \in Procs |-> {}]
  /\ made = [p \in Procs |-> {}] /\ cur = [p \in Procs |-> NoJob]
  /\ plans = [k \in Keys |-> {}]

First(S) == CHOOSE a \in S : \A b \in S : a <= b
Last(S) == CHOOSE a \in S : \A b \in S : a >= b
SlotOf(a, R) == Cardinality({b \in R : b < a})

Forget(p) ==
  /\ step' = [step EXCEPT ![p] = "plan"] /\ key' = [key EXCEPT ![p] = NoKey]
  /\ ready' = [ready EXCEPT ![p] = {}] /\ left' = [left EXCEPT ![p] = {}]
  /\ made' = [made EXCEPT ![p] = {}] /\ cur' = [cur EXCEPT ![p] = NoJob]

-----------------------------------------------------------------------------
(* A request: build_matrix and create_bulk.                                   *)
BeginBulk(p, k) ==
  /\ \E a \in Accounts : Begin(p, "bulk", a)
  /\ key' = [key EXCEPT ![p] = k]
  /\ UNCHANGED <<jobs, answers, plans, step, ready, left, made, cur>>

(* Ready: a member whose preview says so and that can post.                   *)
Preview(p) ==
  /\ kind[p] = "bulk" /\ Read(p)
  /\ \/ member[acct[p]] = "in" /\ ready' = [ready EXCEPT ![p] = @ \cup {acct[p]}]
     \/ UNCHANGED ready
  /\ UNCHANGED <<jobs, answers, plans, step, key, left, made, cur>>

Busy(p, s) == at[p] = "busy" /\ step[p] = s
StepTo(p, s) == step' = [step EXCEPT ![p] = s]

(* The request ends; its process keeps the clients it has.                    *)
Reply(p) == Plan(p) /\ Forget(p)

NoneReady(p) ==
  /\ Busy(p, "plan") /\ ready[p] = {}
  /\ Reply(p)
  /\ UNCHANGED <<jobs, answers, plans>>

Replay(p) ==
  /\ Busy(p, "plan") /\ ready[p] # {} /\ ledger[key[p]] = "answered"
  /\ Reply(p)
  /\ UNCHANGED <<jobs, answers, plans>>

(* A row that is pending is taken for that of another tab: the request goes   *)
(* on beside it.                                                              *)
TakeKey(p) ==
  /\ Busy(p, "plan") /\ ready[p] # {} /\ ledger[key[p]] # "answered"
  /\ ledger' = [ledger EXCEPT ![key[p]] = "pending"]
  /\ plans' = [plans EXCEPT ![key[p]] = @ \cup {ready[p]}]
  /\ left' = [left EXCEPT ![p] = ready[p]]
  /\ StepTo(p, "find")
  /\ UNCHANGED <<poolVars, jobs, listed, key, ready, made, cur>>

(* Slip: a job is known by its marker alone.                                  *)
JobsFor_Marked(k, a, s) ==
  {j \in Jobs : jst[j] # "none" /\ jkey[j] = k /\ jacct[j] = a /\ jmark[j]}

(* _find_bulk_job_for_account: by the marker, whatever the status, else by    *)
(* account, message and time among the jobs that are not cancelled.           *)
JobsFor(k, a, s) ==
  LET own == {j \in Jobs : jst[j] # "none" /\ jkey[j] = k /\ jacct[j] = a}
      marked == {j \in own : jmark[j]}
  IN  IF marked # {} THEN marked
      ELSE {j \in own : jslot[j] = s /\ jst[j] # "CANCELLED"}

(* Slip: only the jobs that this request makes are listed.                    *)
FindJob_New(p) ==
  /\ Busy(p, "find") /\ left[p] # {}
  /\ IF JobsFor(key[p], First(left[p]), SlotOf(First(left[p]), ready[p])) = {}
     THEN StepTo(p, "make") /\ UNCHANGED left
     ELSE left' = [left EXCEPT ![p] = @ \ {First(@)}] /\ UNCHANGED step
  /\ UNCHANGED <<poolVars, jobs, answers, plans, key, ready, made, cur>>

FindJob(p) ==
  /\ Busy(p, "find") /\ left[p] # {}
  /\ LET a == First(left[p])
         found == JobsFor(key[p], a, SlotOf(a, ready[p]))
     IN  IF found = {} THEN StepTo(p, "make") /\ UNCHANGED <<made, left>>
         ELSE /\ made' = [made EXCEPT ![p] = @ \cup {Last(found)}]
              /\ left' = [left EXCEPT ![p] = @ \ {a}]
              /\ UNCHANGED step
  /\ UNCHANGED <<poolVars, jobs, answers, plans, key, ready, cur>>

MakeJob(p) ==
  /\ Busy(p, "make")
  /\ \E j \in Jobs :
       /\ jst[j] = "none" /\ \A i \in Jobs : i < j => jst[i] # "none"
       /\ jst' = [jst EXCEPT ![j] = "PENDING"]
       /\ jkey' = [jkey EXCEPT ![j] = key[p]]
       /\ jacct' = [jacct EXCEPT ![j] = First(left[p])]
       /\ jslot' = [jslot EXCEPT ![j] = SlotOf(First(left[p]), ready[p])]
       /\ cur' = [cur EXCEPT ![p] = j]
  /\ StepTo(p, "mark")
  /\ UNCHANGED <<poolVars, jmark, answers, plans, key, ready, left, made>>

(* schedule() refuses: the account of this slot goes without.                 *)
JobRefused(p) ==
  /\ Busy(p, "make")
  /\ left' = [left EXCEPT ![p] = @ \ {First(@)}]
  /\ StepTo(p, "find")
  /\ UNCHANGED <<poolVars, jobs, answers, plans, key, ready, made, cur>>

(* A job that was taken or cancelled in the meantime stays unmarked.          *)
MarkJob(p) ==
  /\ Busy(p, "mark")
  /\ jmark' = [jmark EXCEPT ![cur[p]] = @ \/ jst[cur[p]] = "PENDING"]
  /\ made' = [made EXCEPT ![p] = @ \cup {cur[p]}]
  /\ left' = [left EXCEPT ![p] = @ \ {First(@)}]
  /\ cur' = [cur EXCEPT ![p] = NoJob]
  /\ StepTo(p, "find")
  /\ UNCHANGED <<poolVars, jacct, jslot, jkey, jst, answers, plans, key, ready>>

Answer(p) ==
  /\ Busy(p, "find") /\ left[p] = {}
  /\ ledger' = [ledger EXCEPT ![key[p]] = "answered"]
  /\ listed' = [listed EXCEPT ![key[p]] = made[p]]
  /\ Reply(p)
  /\ UNCHANGED <<jobs, plans>>

(* An error of the database: what was committed stays.                        *)
RequestFails(p) ==
  /\ at[p] = "busy"
  /\ Reply(p)
  /\ UNCHANGED <<jobs, answers, plans>>

Bulk(p) ==
  \/ \E k \in Keys : BeginBulk(p, k)
  \/ Preview(p) \/ NoneReady(p) \/ Replay(p) \/ TakeKey(p) \/ FindJob(p) \/ MakeJob(p)
  \/ JobRefused(p) \/ MarkJob(p) \/ Answer(p) \/ RequestFails(p)

-----------------------------------------------------------------------------
(* The jobs: the scheduler, and the owner's cancel.                           *)

Take(p, j) ==
  /\ BeginDm(p, jacct[j])
  /\ jst' = [jst EXCEPT ![j] = "RUNNING"] /\ jmark' = [jmark EXCEPT ![j] = FALSE]
  /\ cur' = [cur EXCEPT ![p] = j]
  /\ UNCHANGED <<jacct, jslot, jkey, answers, plans, step, key, ready, left, made>>

(* Slip: a job of a loop that died is never taken up again.                   *)
ClaimJob_Pending(p, j) == jst[j] = "PENDING" /\ Take(p, j)

(* A job that is due, or one of a loop that died.  Claims are not bounded.    *)
ClaimJob(p, j) ==
  /\ jst[j] \in {"PENDING", "RUNNING"} /\ \A q \in Loops : cur[q] # j
  /\ Take(p, j)

Settle(p, st) ==
  /\ jst' = [jst EXCEPT ![cur[p]] = st]
  /\ cur' = [cur EXCEPT ![p] = NoJob]
  /\ UNCHANGED <<jacct, jslot, jkey, jmark, answers, plans, step, key, ready, left, made>>

(* The chat is previewed again, then the message is sent.                     *)
SendDm(p) ==
  /\ kind[p] = "dm" /\ Read(p)
  /\ \E st \in {"SENT", "FAILED", "UNCERTAIN"} :
       /\ member[acct[p]] = "in" \/ st = "FAILED"
       /\ Settle(p, st)

(* Without a session the job fails: the preview is "temporarily unavailable". *)
NoSession(p) ==
  /\ LockTimesOut(p) \/ ConnectFails(p)
  /\ IF kind[p] = "dm" THEN Settle(p, "FAILED") ELSE UNCHANGED bulkVars

CancelJob(j) ==
  /\ jst[j] = "PENDING"
  /\ jst' = [jst EXCEPT ![j] = "CANCELLED"]
  /\ UNCHANGED <<poolVars, jacct, jslot, jkey, jmark, answers, plans, locals>>

ProcessDies(p) ==
  /\ Die(p) /\ Forget(p)
  /\ UNCHANGED <<jobs, answers, plans>>

-----------------------------------------------------------------------------
(* Steps of the sessions that a job or a request takes no note of.            *)
Other(p) ==
  /\ \/ \E k \in KindsOf(p) \ {"bulk"}, a \in Accounts : Begin(p, k, a)
     \/ UsePooled(p) \/ TakeLock(p) \/ Connects(p)
     \/ Reconnects(p) \/ TakesOut(p) \/ Replaces(p) \/ ReplaceCancelled(p) \/ ReconnectFails(p)
     \/ Drop(p) \/ DropFails(p)
     \/ Operation(p)
     \/ kind[p] = "read" /\ Read(p)
  /\ UNCHANGED bulkVars

Next ==
  \/ \E p \in Procs : Bulk(p) \/ Other(p) \/ SendDm(p) \/ NoSession(p) \/ ProcessDies(p)
  \/ \E p \in Procs, j \in Jobs : ClaimJob(p, j)
  \/ \E j \in Jobs : CancelJob(j)
  \/ \E a \in Accounts : Decide(a) /\ UNCHANGED bulkVars

Spec == Init /\ [][Next]_vars

(* systemd restarts a loop that died, its calls return or give up, and an     *)
(* idle loop claims what is due.                                              *)
LoopStep(p) ==
  \/ (at[p] # "idle" /\ (Other(p) \/ SendDm(p) \/ NoSession(p)))
  \/ \E j \in Jobs : ClaimJob(p, j)

FairSpec == Spec /\ \A p \in Loops : WF_vars(LoopStep(p))

-----------------------------------------------------------------------------
(* Two requests of a key gave an account different slots, because different   *)
(* accounts were ready.                                                       *)
Shifted(k) == \E R, S \in plans[k], a \in Accounts :
                a \in R \cap S /\ SlotOf(a, R) # SlotOf(a, S)

Live(k) == {j \in Jobs : jkey[j] = k /\ jst[j] \notin {"none", "CANCELLED"}}

(* Whatever requests of a batch failed, died between a job and its marker or  *)
(* its answer, and were sent again while the scheduler worked on the jobs and *)
(* the owner cancelled some: an account has one job in the batch that is not  *)
(* cancelled.  Where readiness shifted the slots it may have more.            *)
OnePerAccount ==
  \A k \in Keys : ~Shifted(k) =>
    \A i, j \in Live(k) : jacct[i] = jacct[j] => i = j

(* A recorded answer, which all later requests of the key get, names every    *)
(* job there is in the batch, those of requests that were lost included: the  *)
(* owner can cancel them.                                                     *)
AnswerListsJobs ==
  \A k \in Keys : ledger[k] = "answered" /\ Cardinality(plans[k]) = 1 =>
    Live(k) \subseteq listed[k]

(* A job that was made is sent, cancelled, or given up, whatever processes    *)
(* die and whoever holds the session of its account.                          *)
JobSettles ==
  \A j \in Jobs : jst[j] \in {"PENDING", "RUNNING"} ~>
                  jst[j] \in {"SENT", "FAILED", "UNCERTAIN", "CANCELLED"}
=============================================================================
