------------------------ MODULE SchedulerJobs_proofs ------------------------
(* Theorems about SchedulerJobs, for every value of its constants.           *)
EXTENDS SchedulerJobs, TLAPS, FiniteSetTheorems

Resting == {"idle", "claim", "next"}
WithRow == {"rpc", "accepted", "finsent", "finfail", "markunc", "release"}

(* What an executor's label says of its locals; TypeOK is not inductive      *)
(* without it (the marker a gate reads, the owner a claim writes).           *)
LocalsOK ==
  \A p \in Procs : /\ pc[p] \notin Resting => cur[p] \in Jobs
                   /\ pc[p] = "claim" => p \in Workers
                   /\ pc[p] \in WithRow => myRow[p] \in Rows

TypeInv == TypeOK /\ LocalsOK

(* Instants: those to come up to n, and the order of those that are past.    *)
LEMMA InstantsTyped ==
  ASSUME NEW n \in Nat
  PROVE  /\ 0..n \subseteq UpTo(n) /\ UpTo(n) \subseteq Int
         /\ \A x \in UpTo(n) : x =< n
<1>1. Cardinality(Jobs) \in Nat
  BY ConstantsAssumption, FS_CardinalityType
<1> QED BY <1>1 DEF UpTo

(* What may be claimed waits, or is under a lease that has run out.          *)
LEMMA ClaimableIsFree ==
  ASSUME TypeOK, NEW j \in Claimable
  PROVE  /\ j \in Jobs /\ status[j] \in {"PENDING", "RUNNING"}
         /\ status[j] = "RUNNING" => ~(lease[j] > 0)
<1>1. j \in DueJobs \/ j \in StaleJobs
  BY DEF Claimable, Earliest
<1>2. j \in Jobs
  BY <1>1 DEF DueJobs, StaleJobs
<1>3. lease[j] \in UpTo(LeaseTicks)
  BY <1>2 DEF TypeOK
<1>4. lease[j] \in Int
  BY <1>3, ConstantsAssumption, InstantsTyped
<1> QED BY <1>1, <1>2, <1>4 DEF DueJobs, StaleJobs

(* A tick leaves instants what they are, and takes one from those to come.   *)
LEMMA ElapseTyped ==
  ASSUME NEW n \in Nat, NEW f \in [Jobs -> UpTo(n)], NEW S \in SUBSET Jobs, NEW j \in S
  PROVE  /\ Elapse(f, S)[j] \in UpTo(n)
         /\ f[j] > 0 => Elapse(f, S)[j] = f[j] - 1
<1>1. f[j] \in UpTo(n) /\ f[j] \in Int /\ f[j] =< n
  BY InstantsTyped
<1>2. CASE f[j] > 0
  <2>1. f[j] - 1 \in 0..n
    BY <1>1, <1>2
  <2> QED BY <1>2, <2>1, InstantsTyped DEF Elapse
<1>3. CASE ~(f[j] > 0)
  <2> DEFINE past == {i \in S : f[i] \in f[j]..0}
             ranks == {f[k] : k \in past}
             g == [k \in past |-> f[k]]
  <2>1. IsFiniteSet(past) /\ Cardinality(past) =< Cardinality(Jobs)
    BY ConstantsAssumption, FS_Subset, past \in SUBSET Jobs
  <2>2. g \in Surjection(past, ranks)
    BY DEF Surjection
  <2>3. IsFiniteSet(ranks) /\ Cardinality(ranks) =< Cardinality(past)
    BY <2>1, <2>2, FS_Surjection
  <2>4. /\ Cardinality(ranks) \in Nat /\ Cardinality(past) \in Nat
        /\ Cardinality(Jobs) \in Nat
    BY <2>1, <2>3, ConstantsAssumption, FS_CardinalityType
  <2>5. Elapse(f, S)[j] = -Cardinality(ranks)
    BY <1>3 DEF Elapse
  <2> QED BY <1>3, <2>1, <2>3, <2>4, <2>5 DEF UpTo
<1> QED BY <1>2, <1>3

LEMMA TypeInit == ASSUME Init PROVE TypeInv
<1> USE DEF Init
<1>1. TypeOK
  <2> USE ConstantsAssumption
  <2>1. /\ status \in [Jobs -> JobStatus]
        /\ wait \in [Jobs -> UpTo(MaxWait)]
        /\ lease \in [Jobs -> UpTo(LeaseTicks)]
        /\ owner \in [Jobs -> Workers \cup {NoOwner}]
        /\ marker \in [Jobs -> AllMarkers]
    BY InstantsTyped DEF JobStatus
  <2>2. /\ rowStatus \in [Rows -> RowStatus]
        /\ rowJob \in [Rows -> Jobs \cup {NoJob}]
        /\ posts \in [Rows -> Nat]
        /\ cool \in [Accounts -> 0..IntervalTicks]
        /\ lock \in [Accounts -> Procs \cup {NoOwner}]
    BY DEF RowStatus
  <2>3. /\ pc \in [Procs -> Labels]
        /\ batch \in [Procs -> SUBSET Jobs]
        /\ cur \in [Procs -> Jobs \cup {NoJob}]
        /\ myRow \in [Procs -> Rows \cup {0}]
        /\ attempt \in [Procs -> 1..2]
        /\ mode \in [Procs -> AllMarkers]
    BY DEF Labels, AllMarkers
  <2>4. cancelling \in SUBSET Jobs /\ crashes \in 0..MaxCrashes
    BY SMT
  <2> QED BY <2>1, <2>2, <2>3, <2>4 DEF TypeOK
<1>2. LocalsOK
  BY DEF LocalsOK, Resting, WithRow
<1> QED BY <1>1, <1>2 DEF TypeInv

LEMMA TypeLoop ==
  ASSUME TypeInv, NEW p \in Procs, Loop(p) PROVE TypeInv'
<1> USE ConstantsAssumption
    DEF TypeInv, TypeOK, LocalsOK, JobStatus, RowStatus, Labels, Resting, WithRow,
        AllMarkers, Procs, jobVars, rowVars, procVars, envVars, Step, NewCall
<1>1. CASE StartLoop(p)
  BY <1>1 DEF StartLoop
<1>2. CASE EndClaims(p)
  BY <1>2 DEF EndClaims
<1>3. CASE Sleep(p)
  BY <1>3 DEF Sleep
<1>4. CASE ScriptExit(p)
  BY <1>4 DEF ScriptExit, Free
<1>5. ASSUME NEW j \in Jobs, ClaimDueJob(p, j) PROVE TypeInv'
  <2>1. LeaseTicks \in UpTo(LeaseTicks)
    BY InstantsTyped
  <2> QED BY <1>5, <2>1 DEF ClaimDueJob
<1>6. ASSUME NEW j \in Jobs, NextJob(p, j) PROVE TypeInv'
  BY <1>6 DEF NextJob
<1> QED BY <1>1, <1>2, <1>3, <1>4, <1>5, <1>6 DEF Loop
JobTypes ==
  /\ status \in [Jobs -> JobStatus]
  /\ wait \in [Jobs -> UpTo(MaxWait)]
  /\ lease \in [Jobs -> UpTo(LeaseTicks)]
  /\ owner \in [Jobs -> Workers \cup {NoOwner}]
  /\ marker \in [Jobs -> AllMarkers]

LEMMA SettleTyped ==
  ASSUME JobTypes, NEW j, NEW st \in JobStatus, Settle(j, st) PROVE JobTypes'
<1> USE DEF JobTypes, Settle
<1>1. status' \in [Jobs -> JobStatus] /\ wait' \in [Jobs -> UpTo(MaxWait)]
  OBVIOUS
<1>2. lease' \in [Jobs -> UpTo(LeaseTicks)]
  <2>1. 0 \in UpTo(LeaseTicks)
    BY ConstantsAssumption, InstantsTyped
  <2> QED BY <2>1
<1>3. owner' \in [Jobs -> Workers \cup {NoOwner}] /\ marker' \in [Jobs -> AllMarkers]
  BY DEF AllMarkers
<1> QED BY <1>1, <1>2, <1>3

LEMMA DeferTyped ==
  ASSUME JobTypes, NEW j, NEW w \in Nat, Defer(j, w) PROVE JobTypes'
<1>1. AtMost(w) \in 0..MaxWait
  BY ConstantsAssumption DEF AtMost
<1> USE DEF JobTypes, Defer
<1>2. status' \in [Jobs -> JobStatus] /\ wait' \in [Jobs -> UpTo(MaxWait)]
  BY <1>1, ConstantsAssumption, InstantsTyped DEF JobStatus
<1>3. lease' \in [Jobs -> UpTo(LeaseTicks)]
  <2>1. 0 \in UpTo(LeaseTicks)
    BY ConstantsAssumption, InstantsTyped
  <2> QED BY <2>1
<1>4. owner' \in [Jobs -> Workers \cup {NoOwner}] /\ marker' \in [Jobs -> AllMarkers]
  BY DEF AllMarkers
<1> QED BY <1>2, <1>3, <1>4

(* The lemma's USE is what every action needs: the types, the labels and the  *)
(* groups of variables an action leaves alone.                               *)
LEMMA TypeExecute ==
  ASSUME TypeInv, NEW p \in Procs, Execute(p) PROVE TypeInv'
<1> USE ConstantsAssumption
    DEF TypeInv, TypeOK, LocalsOK, JobStatus, RowStatus, Labels, Resting, WithRow,
        AllMarkers, Procs, jobVars, rowVars, procVars, envVars, Step
<1>1. CASE CheckRunnable(p)
  BY <1>1 DEF CheckRunnable, Runnable
<1>2. CASE GateFails(p)
  <2>1. JobTypes'
    BY <1>2, SettleTyped DEF GateFails, JobTypes
  <2> QED BY <1>2, <2>1 DEF GateFails, JobTypes
<1>3. CASE GateSkips(p)
  <2>1. JobTypes'
    BY <1>3, SettleTyped DEF GateSkips, JobTypes
  <2> QED BY <1>3, <2>1 DEF GateSkips, JobTypes
<1>4. CASE DeferTempLock(p)
  <2>1. cur[p] \in Jobs
    BY <1>4 DEF DeferTempLock
  <2>2. wait[cur[p]] \in Int
    BY <2>1, InstantsTyped
  <2>3. Later(wait[cur[p]], 0) + DeferTicks \in Nat
    BY <2>2 DEF Later
  <2>4. JobTypes'
    BY <1>4, <2>3, DeferTyped DEF DeferTempLock, JobTypes
  <2> QED BY <1>4, <2>4 DEF DeferTempLock, JobTypes
<1>5. CASE DeferPacing(p)
  <2>1. PICK d \in PacingDelays(p) \ {0} :
          Defer(cur[p], Later(wait[cur[p]], d))
    BY <1>5 DEF DeferPacing
  <2>2. cur[p] \in Jobs
    BY <1>5 DEF DeferPacing
  <2>3. d \in Nat
    BY <2>1, <2>2 DEF PacingDelays, Acct, Later
  <2>4. wait[cur[p]] \in Int
    BY <2>2, InstantsTyped
  <2>5. Later(wait[cur[p]], d) \in Nat
    BY <2>3, <2>4 DEF Later
  <2>6. JobTypes'
    BY <2>1, <2>5, DeferTyped DEF JobTypes
  <2> QED BY <1>5, <2>6 DEF DeferPacing, JobTypes
<1>6. CASE GateOpens(p)
  BY <1>6 DEF GateOpens
<1>7. CASE Reconcile(p)
  <2>1. JobTypes'
    BY <1>7, SettleTyped DEF Reconcile, JobTypes
  <2> QED BY <1>7, <2>1 DEF Reconcile, JobTypes
<1>8. CASE Preflight(p)
  BY <1>8 DEF Preflight, Verdict
<1>9. CASE UncertainBlock(p)
  <2>1. JobTypes'
    BY <1>9, SettleTyped DEF UncertainBlock, JobTypes
  <2> QED BY <1>9, <2>1 DEF UncertainBlock, JobTypes
<1>10. CASE AlreadySending(p)
  BY <1>10 DEF AlreadySending
<1>11. CASE GuardDenies(p)
  <2>1. JobTypes'
    BY <1>11, SettleTyped DEF GuardDenies, JobTypes
  <2> QED BY <1>11, <2>1 DEF GuardDenies, JobTypes
<1>12. CASE GuardAllows(p)
  BY <1>12 DEF GuardAllows
<1>13. CASE Connect(p)
  BY <1>13 DEF Connect
<1>14. CASE ConnectFails(p)
  <2>1. JobTypes'
    BY <1>14, SettleTyped DEF ConnectFails, JobTypes
  <2> QED BY <1>14, <2>1 DEF ConnectFails, JobTypes
<1>15. CASE ResolveOk(p)
  BY <1>15 DEF ResolveOk
<1>16. CASE ResolveFails(p)
  <2>1. JobTypes'
    BY <1>16, SettleTyped DEF ResolveFails, JobTypes
  <2> QED BY <1>16, <2>1 DEF ResolveFails, JobTypes
<1>17. CASE TelegramAccepts(p)
  BY <1>17 DEF TelegramAccepts
<1>18. CASE Reply(p)
  BY <1>18 DEF Reply
<1>19. CASE AmbiguousRpc(p)
  BY <1>19 DEF AmbiguousRpc
<1>20. CASE RetryablePost(p)
  BY <1>20 DEF RetryablePost
<1>21. CASE DefiniteRefusal(p)
  BY <1>21 DEF DefiniteRefusal
<1>22. CASE FinalizeSent(p)
  <2>1. JobTypes'
    BY <1>22, SettleTyped DEF FinalizeSent, JobTypes
  <2>2. cool' \in [Accounts -> 0..IntervalTicks]
    <3>1. IntervalTicks \in 0..IntervalTicks
      BY ConstantsAssumption
    <3> QED BY <1>22, <3>1 DEF FinalizeSent
  <2>3. rowStatus' \in [Rows -> RowStatus]
    BY <1>22 DEF FinalizeSent
  <2>4. LocalsOK' /\ pc' \in [Procs -> Labels]
    BY <1>22 DEF FinalizeSent
  <2> QED BY <1>22, <2>1, <2>2, <2>3, <2>4 DEF FinalizeSent, JobTypes
<1>23. CASE FinalizeFailed(p)
  <2>1. JobTypes'
    BY <1>23, SettleTyped DEF FinalizeFailed, JobTypes
  <2> QED BY <1>23, <2>1 DEF FinalizeFailed, JobTypes
<1>24. CASE MarkUncertain(p)
  BY <1>24 DEF MarkUncertain
<1>25. CASE Release(p)
  BY <1>25 DEF Release
<1>26. ASSUME NEW r \in Rows, CreateSending(p, r) PROVE TypeInv'
  BY <1>26 DEF CreateSending
<1> QED
  BY <1>1, <1>2, <1>3, <1>4, <1>5, <1>6, <1>7, <1>8, <1>9, <1>10, <1>11, <1>12, <1>13, <1>14, <1>15, <1>16, <1>17, <1>18, <1>19, <1>20, <1>21, <1>22, <1>23, <1>24, <1>25, <1>26 DEF Execute

LEMMA TypeEnvironment ==
  ASSUME TypeInv,
         \/ \E p \in Procs : DbError(p) \/ ClaimFails(p) \/ Crash(p)
         \/ \E p \in Procs, j \in Jobs : StartScript(p, j)
         \/ \E j \in Jobs : CancelRead(j) \/ CancelWrite(j)
         \/ Tick
  PROVE  TypeInv'
<1> USE ConstantsAssumption
    DEF TypeInv, TypeOK, LocalsOK, JobStatus, RowStatus, Labels, Resting, WithRow,
        AllMarkers, Procs, jobVars, rowVars, procVars, envVars, Step, NewCall
<1>1. ASSUME NEW p \in Procs, DbError(p) \/ ClaimFails(p) PROVE TypeInv'
  BY <1>1 DEF DbError, ClaimFails
<1>2. ASSUME NEW p \in Procs, Crash(p) PROVE TypeInv'
  BY <1>2 DEF Crash, Free
<1>3. ASSUME NEW p \in Procs, NEW j \in Jobs, StartScript(p, j) PROVE TypeInv'
  BY <1>3 DEF StartScript
<1>4. ASSUME NEW j \in Jobs, CancelRead(j) PROVE TypeInv'
  BY <1>4 DEF CancelRead
<1>5. ASSUME NEW j \in Jobs, CancelWrite(j) PROVE TypeInv'
  BY <1>5 DEF CancelWrite
<1>6. CASE Tick
  <2>1. wait' \in [Jobs -> UpTo(MaxWait)]
    <3> DEFINE pending == {j \in Jobs : status[j] = "PENDING"}
    <3>1. \A j \in Jobs : Later(wait[j] - 1, 0) \in 0..MaxWait
      BY InstantsTyped DEF Later
    <3>2. \A j \in Jobs : Later(wait[j] - 1, 0) \in UpTo(MaxWait)
      BY <3>1, InstantsTyped
    <3>3. \A j \in pending : Elapse(wait, pending)[j] \in UpTo(MaxWait)
      BY ElapseTyped
    <3> HIDE DEF pending
    <3>4. wait' = [j \in Jobs |-> IF j \in pending THEN Elapse(wait, pending)[j]
                                  ELSE Later(wait[j] - 1, 0)]
      BY <1>6 DEF Tick, pending
    <3> QED BY <3>2, <3>3, <3>4
  <2>2. lease' \in [Jobs -> UpTo(LeaseTicks)]
    <3> DEFINE leased == {j \in Jobs : owner[j] # NoOwner}
    <3>1. \A j \in leased : Elapse(lease, leased)[j] \in UpTo(LeaseTicks)
      BY ElapseTyped
    <3> HIDE DEF leased
    <3>2. lease' = [j \in Jobs |-> IF j \in leased THEN Elapse(lease, leased)[j] ELSE lease[j]]
      BY <1>6 DEF Tick, leased
    <3> QED BY <3>1, <3>2
  <2>3. cool' \in [Accounts -> 0..IntervalTicks]
    BY <1>6 DEF Tick
  <2> QED BY <1>6, <2>1, <2>2, <2>3 DEF Tick
<1> QED BY <1>1, <1>2, <1>3, <1>4, <1>5, <1>6

LEMMA TypeStep == ASSUME TypeInv, [Next]_vars PROVE TypeInv'
<1>1. CASE Next
  BY <1>1, TypeLoop, TypeExecute, TypeEnvironment DEF Next
<1>2. CASE UNCHANGED vars
  BY <1>2 DEF TypeInv, TypeOK, LocalsOK, vars
<1> QED BY <1>1, <1>2

(* Every variable keeps its type, and an executor past the status check has  *)
(* a job, past the creation of its delivery row a row.                       *)
THEOREM TypeCorrect == Spec => [](TypeOK /\ LocalsOK)
<1>1. Spec => []TypeInv
  BY TypeInit, TypeStep, PTL DEF Spec
<1> QED BY <1>1, PTL DEF TypeInv

-----------------------------------------------------------------------------
(* The session flock, with no assumption on leases, crashes or scripts.      *)

SessionInv == \A p \in Procs : Sending(p) => lock[Acct(p)] = p

(* One account's Telegram session is driven by one process at a time,        *)
(* whatever leases, crashes, cancels and scripts do.                         *)
THEOREM SessionIsExclusive == Spec => []SessionExclusive
<1>1. Init => SessionInv
  BY DEF Init, SessionInv, Sending
<1>2. TypeInv /\ SessionInv /\ [Next]_vars => SessionInv'
  <2> SUFFICES ASSUME TypeInv, SessionInv, [Next]_vars PROVE SessionInv'
    OBVIOUS
  <2> USE ConstantsAssumption
      DEF TypeInv, TypeOK, LocalsOK, SessionInv, Sending, Acct, Resting, Labels,
          jobVars, rowVars, procVars, envVars, Step, NewCall
  <2>1. ASSUME NEW p \in Procs, Loop(p) PROVE SessionInv'
    BY <2>1 DEF Loop, StartLoop, EndClaims, Sleep, ScriptExit, ClaimDueJob, NextJob, Free
  <2>2. ASSUME NEW p \in Procs, Connect(p) \/ ConnectFails(p) \/ Release(p)
        PROVE  SessionInv'
    BY <2>2 DEF Connect, ConnectFails, Release
  <2>3. ASSUME NEW p \in Procs, UNCHANGED <<lock, cur>>,
               pc' = [pc EXCEPT ![p] = pc'[p]], Sending(p)' => Sending(p)
        PROVE  SessionInv'
    BY <2>3
  <2>4. ASSUME NEW p \in Procs, Execute(p) PROVE SessionInv'
    <3>1. CASE \/ CheckRunnable(p) \/ GateFails(p) \/ GateSkips(p) \/ DeferTempLock(p)
              \/ DeferPacing(p) \/ GateOpens(p) \/ Reconcile(p) \/ Preflight(p)
              \/ UncertainBlock(p) \/ AlreadySending(p) \/ GuardDenies(p) \/ GuardAllows(p)
      BY <2>3, <3>1
      DEF CheckRunnable, GateFails, GateSkips, DeferTempLock, DeferPacing, GateOpens,
          Reconcile, Preflight, Verdict, UncertainBlock, AlreadySending, GuardDenies,
          GuardAllows
    <3>2. CASE \/ ResolveOk(p) \/ ResolveFails(p) \/ (\E r \in Rows : CreateSending(p, r))
              \/ TelegramAccepts(p) \/ Reply(p) \/ AmbiguousRpc(p) \/ RetryablePost(p)
              \/ DefiniteRefusal(p) \/ FinalizeSent(p) \/ FinalizeFailed(p) \/ MarkUncertain(p)
      BY <2>3, <3>2
      DEF ResolveOk, ResolveFails, CreateSending, TelegramAccepts, Reply, AmbiguousRpc,
          RetryablePost, DefiniteRefusal, FinalizeSent, FinalizeFailed, MarkUncertain
    <3> QED BY <2>2, <2>4, <3>1, <3>2 DEF Execute
  <2>5. ASSUME NEW p \in Procs, DbError(p) \/ ClaimFails(p) \/ Crash(p) PROVE SessionInv'
    BY <2>5 DEF DbError, ClaimFails, Crash, Free
  <2>6. ASSUME NEW p \in Procs, NEW j \in Jobs, StartScript(p, j) PROVE SessionInv'
    BY <2>6 DEF StartScript
  <2>7. CASE (\E j \in Jobs : CancelRead(j) \/ CancelWrite(j)) \/ Tick \/ UNCHANGED vars
    BY <2>7 DEF CancelRead, CancelWrite, Tick, vars
  <2> QED BY <2>1, <2>4, <2>5, <2>6, <2>7 DEF Next
<1>3. SessionInv => SessionExclusive
  BY DEF SessionInv, SessionExclusive
<1> QED
  BY <1>1, <1>2, <1>3, TypeInit, TypeStep, PTL DEF Spec

-----------------------------------------------------------------------------
(* SENT means posted, again with no assumption on the environment.           *)

RowsInv ==
  /\ \A r \in Rows : rowStatus[r] = "NONE" => posts[r] = 0
  /\ \A r \in Rows : rowStatus[r] = "SENT" => posts[r] > 0
  /\ \A p \in Procs : pc[p] \in WithRow =>
       rowJob[myRow[p]] = cur[p] /\ rowStatus[myRow[p]] # "NONE"
  /\ \A p \in Procs : pc[p] \in {"accepted", "finsent"} => posts[myRow[p]] > 0

SentInv == RowsInv /\ SentWasPosted

(* What RowsInv needs of a step that touches no row: it may only move an     *)
(* executor within the labels that say as much of its row.                   *)
LEMMA RowsUntouched ==
  ASSUME TypeInv, RowsInv, NEW p \in Procs,
         UNCHANGED <<rowStatus, rowJob, posts, cur, myRow>>,
         pc' = [pc EXCEPT ![p] = pc'[p]],
         pc'[p] \in WithRow => pc[p] \in WithRow,
         pc'[p] \in {"accepted", "finsent"} => pc[p] \in {"accepted", "finsent"}
  PROVE  RowsInv'
  BY DEF TypeInv, TypeOK, RowsInv

LEMMA SentUntouched ==
  ASSUME SentWasPosted, UNCHANGED <<rowJob, posts>>,
         \A j \in Jobs : status'[j] = "SENT" => status[j] = "SENT"
  PROVE  SentWasPosted'
  BY DEF SentWasPosted, PostedRows

LEMMA SentExecute ==
  ASSUME TypeInv, SentInv, NEW p \in Procs, Execute(p) PROVE SentInv'
<1> USE DEF TypeInv, TypeOK, LocalsOK, SentInv, Resting, WithRow, Labels,
        jobVars, rowVars, procVars, envVars, Step
<1>1. CASE \/ CheckRunnable(p) \/ GateFails(p) \/ GateSkips(p) \/ DeferTempLock(p)
          \/ DeferPacing(p) \/ GateOpens(p) \/ UncertainBlock(p) \/ AlreadySending(p)
          \/ GuardDenies(p) \/ GuardAllows(p) \/ Connect(p) \/ ConnectFails(p)
          \/ ResolveOk(p) \/ ResolveFails(p)
  <2> USE DEF CheckRunnable, GateFails, GateSkips, DeferTempLock, DeferPacing, GateOpens,
          UncertainBlock, AlreadySending, GuardDenies, GuardAllows, Connect, ConnectFails,
          ResolveOk, ResolveFails, Settle, Defer
  <2>1. RowsInv'
    BY <1>1, RowsUntouched
  <2>2. SentWasPosted'
    BY <1>1, SentUntouched
  <2> QED BY <2>1, <2>2
<1>2. CASE Reconcile(p)
  <2>1. RowsInv'
    BY <1>2, RowsUntouched DEF Reconcile
  <2>2. \A j \in Jobs : status'[j] = "SENT" => status[j] = "SENT" \/ RowsOf(j, "SENT") # {}
    BY <1>2 DEF Reconcile, Settle
  <2>3. SentWasPosted'
    BY <1>2, <2>2 DEF Reconcile, SentWasPosted, PostedRows, RowsOf, RowsInv
  <2> QED BY <2>1, <2>3
<1>3. CASE Preflight(p)
  <2>1. RowsInv'
    BY <1>3 DEF Preflight, Verdict, RowsInv, Cleared, RowsOf
  <2>2. SentWasPosted'
    BY <1>3, SentUntouched DEF Preflight
  <2> QED BY <2>1, <2>2
<1>4. ASSUME NEW r \in Rows, CreateSending(p, r) PROVE SentInv'
  <2>1. RowsInv'
    BY <1>4 DEF CreateSending, RowsInv
  <2>2. SentWasPosted'
    BY <1>4 DEF CreateSending, SentWasPosted, PostedRows, RowsInv
  <2> QED BY <2>1, <2>2
<1>5. CASE TelegramAccepts(p)
  <2>1. RowsInv'
    BY <1>5 DEF TelegramAccepts, RowsInv
  <2>2. SentWasPosted'
    BY <1>5 DEF TelegramAccepts, SentWasPosted, PostedRows
  <2> QED BY <2>1, <2>2
<1>6. CASE \/ Reply(p) \/ AmbiguousRpc(p) \/ RetryablePost(p) \/ DefiniteRefusal(p) \/ Release(p)
  <2> USE DEF Reply, AmbiguousRpc, RetryablePost, DefiniteRefusal, Release
  <2>1. RowsInv'
    BY <1>6, RowsUntouched
  <2>2. SentWasPosted'
    BY <1>6, SentUntouched
  <2> QED BY <2>1, <2>2
<1>7. CASE FinalizeSent(p)
  <2>1. RowsInv'
    BY <1>7 DEF FinalizeSent, RowsInv
  <2>2. \A j \in Jobs : status'[j] = "SENT" => status[j] = "SENT" \/ j = cur[p]
    BY <1>7 DEF FinalizeSent, Settle
  <2>3. myRow[p] \in PostedRows(cur[p])
    BY <1>7 DEF FinalizeSent, RowsInv, PostedRows
  <2>4. \A j \in Jobs : PostedRows(j)' = PostedRows(j)
    BY <1>7 DEF FinalizeSent, PostedRows
  <2>5. SentWasPosted'
    BY <2>2, <2>3, <2>4 DEF SentWasPosted
  <2> QED BY <2>1, <2>5
<1>8. CASE FinalizeFailed(p) \/ MarkUncertain(p)
  <2> USE DEF FinalizeFailed, MarkUncertain, Settle
  <2>1. RowsInv'
    BY <1>8 DEF RowsInv
  <2>2. SentWasPosted'
    BY <1>8, SentUntouched
  <2> QED BY <2>1, <2>2
<1> QED BY <1>1, <1>2, <1>3, <1>4, <1>5, <1>6, <1>7, <1>8 DEF Execute

LEMMA SentStep ==
  ASSUME TypeInv, SentInv, [Next]_vars PROVE SentInv'
<1> USE DEF TypeInv, TypeOK, SentInv, WithRow, Labels, jobVars, rowVars, procVars, envVars,
        Step, NewCall
<1>1. ASSUME NEW p \in Procs, Loop(p) PROVE SentInv'
  <2> USE DEF Loop, StartLoop, EndClaims, Sleep, ScriptExit, ClaimDueJob, NextJob
  <2>1. RowsInv'
    BY <1>1 DEF RowsInv
  <2>2. SentWasPosted'
    BY <1>1, SentUntouched
  <2> QED BY <2>1, <2>2
<1>2. ASSUME NEW p \in Procs, DbError(p) \/ ClaimFails(p) \/ Crash(p) PROVE SentInv'
  <2>1. RowsInv'
    BY <1>2 DEF DbError, ClaimFails, Crash, RowsInv
  <2>2. SentWasPosted'
    BY <1>2, SentUntouched DEF DbError, ClaimFails, Crash
  <2> QED BY <2>1, <2>2
<1>3. ASSUME NEW p \in Procs, NEW j \in Jobs, StartScript(p, j) PROVE SentInv'
  <2>1. RowsInv'
    BY <1>3 DEF StartScript, RowsInv
  <2>2. SentWasPosted'
    BY <1>3, SentUntouched DEF StartScript
  <2> QED BY <2>1, <2>2
<1>4. CASE (\E j \in Jobs : CancelRead(j) \/ CancelWrite(j)) \/ Tick \/ UNCHANGED vars
  <2> USE DEF CancelRead, CancelWrite, Tick, vars
  <2>1. RowsInv'
    BY <1>4 DEF RowsInv
  <2>2. SentWasPosted'
    BY <1>4, SentUntouched
  <2> QED BY <2>1, <2>2
<1> QED BY <1>1, <1>2, <1>3, <1>4, SentExecute DEF Next

(* A job is shown SENT only if Telegram accepted a message recorded under    *)
(* one of its delivery rows, whatever leases, crashes and cancels do.        *)
THEOREM SentOnlyIfPosted == Spec => []SentWasPosted
<1>1. Init => SentInv
  BY DEF Init, SentInv, RowsInv, SentWasPosted, WithRow
<1>2. TypeInv /\ SentInv /\ [Next]_vars => SentInv'
  BY SentStep
<1> QED
  BY <1>1, <1>2, TypeInit, TypeStep, PTL DEF Spec, SentInv

-----------------------------------------------------------------------------
(* The rows executors hold, with no assumption on the environment: each has   *)
(* its own, and an uncertain one is nobody's any more.                        *)

Holding == {"rpc", "accepted", "finsent", "finfail", "markunc"}

HeldRows ==
  \A p \in Procs : pc[p] \in Holding =>
    /\ rowStatus[myRow[p]] \in {"SENDING", "FAILED"}
    /\ \A q \in Procs : pc[q] \in Holding /\ myRow[q] = myRow[p] => q = p

(* A step that does not touch the rows may let go of one.                     *)
LEMMA HeldFrame ==
  ASSUME TypeInv, HeldRows, NEW p \in Procs, UNCHANGED rowStatus,
         pc' = [pc EXCEPT ![p] = pc'[p]],
         \A q \in Procs \ {p} : myRow'[q] = myRow[q],
         pc'[p] \in Holding => pc[p] \in Holding /\ myRow'[p] = myRow[p]
  PROVE  HeldRows'
BY DEF TypeInv, TypeOK, HeldRows

LEMMA HeldExecute ==
  ASSUME TypeInv, HeldRows, NEW p \in Procs, Execute(p) PROVE HeldRows'
<1> USE DEF TypeInv, TypeOK, LocalsOK, Resting, WithRow, Holding, Labels,
        jobVars, rowVars, procVars, envVars, Step
<1>1. CASE \/ CheckRunnable(p) \/ GateFails(p) \/ GateSkips(p) \/ DeferTempLock(p)
          \/ DeferPacing(p) \/ GateOpens(p) \/ Reconcile(p) \/ UncertainBlock(p)
          \/ AlreadySending(p) \/ GuardDenies(p) \/ GuardAllows(p) \/ Connect(p)
          \/ ConnectFails(p) \/ ResolveOk(p) \/ ResolveFails(p)
  BY <1>1, HeldFrame
  DEF CheckRunnable, GateFails, GateSkips, DeferTempLock, DeferPacing, GateOpens, Reconcile,
      UncertainBlock, AlreadySending, GuardDenies, GuardAllows, Connect, ConnectFails,
      ResolveOk, ResolveFails
<1>2. CASE \/ TelegramAccepts(p) \/ Reply(p) \/ AmbiguousRpc(p) \/ RetryablePost(p)
          \/ DefiniteRefusal(p) \/ Release(p)
  BY <1>2, HeldFrame
  DEF TelegramAccepts, Reply, AmbiguousRpc, RetryablePost, DefiniteRefusal, Release
<1>3. CASE Preflight(p)
  <2>1. \A r \in Rows : rowStatus'[r] = rowStatus[r] \/ rowStatus'[r] = "FAILED"
    BY <1>3 DEF Preflight
  <2>2. pc' = [pc EXCEPT ![p] = pc'[p]] /\ pc'[p] \notin Holding /\ UNCHANGED myRow
    BY <1>3 DEF Preflight, Verdict
  <2> QED BY <2>1, <2>2 DEF HeldRows
<1>4. ASSUME NEW r \in Rows, CreateSending(p, r) PROVE HeldRows'
  BY <1>4 DEF CreateSending, HeldRows
<1>5. CASE FinalizeSent(p) \/ FinalizeFailed(p) \/ MarkUncertain(p)
  BY <1>5 DEF FinalizeSent, FinalizeFailed, MarkUncertain, HeldRows
<1> QED BY <1>1, <1>2, <1>3, <1>4, <1>5 DEF Execute

LEMMA HeldStep == ASSUME TypeInv, HeldRows, [Next]_vars PROVE HeldRows'
<1> USE DEF TypeInv, TypeOK, Holding, Labels, jobVars, rowVars, procVars, envVars, Step, NewCall
<1>1. ASSUME NEW p \in Procs, Loop(p) PROVE HeldRows'
  BY <1>1, HeldFrame
  DEF Loop, StartLoop, EndClaims, Sleep, ScriptExit, ClaimDueJob, NextJob
<1>2. ASSUME NEW p \in Procs, DbError(p) \/ ClaimFails(p) \/ Crash(p) PROVE HeldRows'
  BY <1>2, HeldFrame DEF DbError, ClaimFails, Crash
<1>3. ASSUME NEW p \in Procs, NEW j \in Jobs, StartScript(p, j) PROVE HeldRows'
  BY <1>3, HeldFrame DEF StartScript
<1>4. CASE (\E j \in Jobs : CancelRead(j) \/ CancelWrite(j)) \/ Tick \/ UNCHANGED vars
  BY <1>4 DEF CancelRead, CancelWrite, Tick, vars, HeldRows
<1> QED BY <1>1, <1>2, <1>3, <1>4, HeldExecute DEF Next

(* Whatever leases, crashes, cancels and scripts do, no step of the program   *)
(* changes a row that was recorded UNCERTAIN: it is left for an operator.     *)
THEOREM UncertainStays == Spec => UncertainIsSticky
<1>1. Init => HeldRows
  BY DEF Init, HeldRows, Holding
<1>2. TypeInv /\ HeldRows /\ [Next]_vars => HeldRows'
  BY HeldStep
<1>3. TypeInv /\ HeldRows /\ [Next]_vars
        => [\A r \in Rows : rowStatus[r] = "UNCERTAIN" => rowStatus'[r] = "UNCERTAIN"]_vars
  <2> SUFFICES ASSUME TypeInv, HeldRows, Next, NEW r \in Rows, rowStatus[r] = "UNCERTAIN"
               PROVE  rowStatus'[r] = "UNCERTAIN"
    OBVIOUS
  <2> USE DEF TypeInv, TypeOK, jobVars, rowVars, procVars, envVars, Step
  <2>1. ASSUME NEW p \in Procs, Execute(p) PROVE rowStatus'[r] = "UNCERTAIN"
    <3>1. CASE Preflight(p)
      BY <3>1 DEF Preflight, Cleared, RowsOf
    <3>2. ASSUME NEW s \in Rows, CreateSending(p, s) PROVE rowStatus'[r] = "UNCERTAIN"
      BY <3>2 DEF CreateSending
    <3>3. CASE FinalizeSent(p) \/ FinalizeFailed(p) \/ MarkUncertain(p)
      BY <3>3 DEF FinalizeSent, FinalizeFailed, MarkUncertain, HeldRows, Holding
    <3>4. CASE UNCHANGED rowStatus
      BY <3>4
    <3> QED BY <2>1, <3>1, <3>2, <3>3, <3>4
      DEF Execute, CheckRunnable, GateFails, GateSkips, DeferTempLock, DeferPacing,
          GateOpens, Reconcile, UncertainBlock, AlreadySending, GuardDenies,
          GuardAllows, Connect, ConnectFails, ResolveOk, ResolveFails, TelegramAccepts,
          Reply, AmbiguousRpc, RetryablePost, DefiniteRefusal, Release
  <2>2. ASSUME NEW p \in Procs, Loop(p) \/ DbError(p) \/ ClaimFails(p) \/ Crash(p)
        PROVE  UNCHANGED rowStatus
    BY <2>2 DEF Loop, StartLoop, EndClaims, Sleep, ScriptExit, ClaimDueJob, NextJob,
                DbError, ClaimFails, Crash
  <2> QED BY <2>1, <2>2 DEF Next, StartScript, CancelRead, CancelWrite, Tick
<1> QED BY <1>1, <1>2, <1>3, TypeInit, TypeStep, PTL DEF Spec, UncertainIsSticky

-----------------------------------------------------------------------------
(* At most one post, under the protection the deployment gives: one kind of  *)
(* executor (no run_job_now process), leases that outlive the work they      *)
(* cover, and no operator cancel.  Crashes and database errors stay allowed. *)

Protected == Scripts = {} /\ "late" \notin Env /\ "cancel" \notin Env

(* The job is RUNNING under a lease of p that has not run out.               *)
Owned(p, j) == status[j] = "RUNNING" /\ owner[j] = p /\ lease[j] > 0

(* An executor owns what is in its batch and what it works on, until the     *)
(* outcome is written; then the job is finished or still under its lease.    *)
OwnInv ==
  /\ cancelling = {}
  /\ \A p \in Procs :
       /\ \A j \in batch[p] : Owned(p, j)
       /\ pc[p] \notin Resting => cur[p] \notin batch[p]
       /\ pc[p] \notin Resting \cup {"release"} => Owned(p, cur[p])
       /\ pc[p] = "release" => Owned(p, cur[p]) \/ status[cur[p]] \in {"SENT", "FAILED"}

Live(r) == rowStatus[r] \in {"SENDING", "UNCERTAIN", "SENT"}
Cleaned == {"guard", "connect", "resolve", "create"}

(* A job has at most one live row; every post is under a live row, and an    *)
(* executor past preflight found none.                                       *)
LiveInv ==
  /\ \A r, s \in Rows : Live(r) /\ Live(s) /\ rowJob[r] = rowJob[s] => r = s
  /\ \A r \in Rows : posts[r] =< 1
  /\ \A r \in Rows : posts[r] > 0 => Live(r)
  /\ \A p \in Procs :
       /\ pc[p] = "preflight" => RowsOf(cur[p], "SENT") = {}
       /\ pc[p] \in Cleaned => \A r \in Rows : rowJob[r] = cur[p] => ~Live(r)
       /\ pc[p] \in WithRow \ {"release"} =>
            rowJob[myRow[p]] = cur[p] /\ rowStatus[myRow[p]] = "SENDING"
       /\ pc[p] \in {"rpc", "finfail"} => posts[myRow[p]] = 0

LEMMA OwnInit == ASSUME Init PROVE OwnInv
  BY DEF Init, OwnInv, Resting

LEMMA OwnLoop ==
  ASSUME TypeInv, OwnInv, NEW p \in Procs, Loop(p) PROVE OwnInv'
<1> USE ConstantsAssumption
    DEF TypeInv, TypeOK, LocalsOK, OwnInv, Owned, Resting, Labels, Procs,
        jobVars, rowVars, procVars, envVars, Step, NewCall
<1>1. CASE StartLoop(p)
  BY <1>1 DEF StartLoop
<1>2. CASE EndClaims(p)
  BY <1>2 DEF EndClaims
<1>3. CASE Sleep(p)
  BY <1>3 DEF Sleep
<1>4. CASE ScriptExit(p)
  BY <1>4 DEF ScriptExit
<1>5. ASSUME NEW j \in Jobs, ClaimDueJob(p, j) PROVE OwnInv'
  <2> USE DEF ClaimDueJob
  <2>1. \A q \in Procs : ~Owned(q, j)
    BY <1>5, ClaimableIsFree
  <2>2. status[j] \in {"PENDING", "RUNNING"}
    BY <1>5, ClaimableIsFree
  <2>3. Owned(p, j)'
    BY <1>5
  <2>4. \A q \in Procs, k \in Jobs : Owned(q, k) => k # j /\ Owned(q, k)'
    BY <1>5, <2>1
  <2>5. \A k \in Jobs : k # j => status'[k] = status[k]
    BY <1>5
  <2> HIDE DEF Owned, TypeOK
  <2>6. \A q \in Procs : batch'[q] \subseteq batch[q] \cup {j} /\ (q # p => batch'[q] = batch[q])
    BY <1>5 DEF TypeOK
  <2>7. \A q \in Procs : batch[q] \in SUBSET Jobs /\ (pc[q] \notin Resting => cur[q] \in Jobs)
    BY DEF TypeOK
  <2> QED BY <1>5, <2>1, <2>2, <2>3, <2>4, <2>5, <2>6, <2>7
<1>6. ASSUME NEW j \in Jobs, NextJob(p, j) PROVE OwnInv'
  BY <1>6 DEF NextJob
<1> QED BY <1>1, <1>2, <1>3, <1>4, <1>5, <1>6 DEF Loop

(* A step of p that changes no job but its own, and that one only as it lets *)
(* go of it, or writes its outcome.                                          *)
LEMMA OwnFrame ==
  ASSUME TypeInv, OwnInv, NEW p \in Procs,
         pc[p] \notin Resting \cup {"release"},
         UNCHANGED <<batch, cur, cancelling>>,
         pc' = [pc EXCEPT ![p] = pc'[p]],
         \A k \in Jobs \ {cur[p]} :
           status'[k] = status[k] /\ owner'[k] = owner[k] /\ lease'[k] = lease[k],
         \/ UNCHANGED <<status, owner, lease>>
         \/ pc'[p] = "next"
         \/ pc'[p] = "release" /\ status'[cur[p]] \in {"SENT", "FAILED"}
  PROVE  OwnInv'
<1> USE DEF TypeInv, TypeOK, LocalsOK, OwnInv, Owned, Resting
<1>1. Owned(p, cur[p]) /\ cur[p] \in Jobs /\ cur[p] \notin batch[p]
  OBVIOUS
<1>2. ASSUME NEW q \in Procs, NEW k \in Jobs \ {cur[p]}, Owned(q, k) PROVE Owned(q, k)'
  BY <1>2
<1>3. ASSUME NEW q \in Procs \ {p}, Owned(q, cur[p]) PROVE FALSE
  BY <1>1, <1>3
<1>4. ASSUME NEW q \in Procs \ {p}, NEW k \in Jobs, Owned(q, k) PROVE Owned(q, k)'
  BY <1>2, <1>3, <1>4
<1> QED
  <2>1. \A q \in Procs : \A j \in batch'[q] : Owned(q, j)'
    BY <1>1, <1>2, <1>4
  <2>2. \A q \in Procs : pc'[q] \notin Resting => cur'[q] \notin batch'[q]
    BY <1>1
  <2>3. ASSUME NEW q \in Procs \ {p}
        PROVE  /\ pc'[q] \notin Resting \cup {"release"} => Owned(q, cur[q])'
               /\ pc'[q] = "release" => Owned(q, cur[q])' \/ status'[cur[q]] \in {"SENT", "FAILED"}
    <3>1. pc'[q] = pc[q] /\ cur'[q] = cur[q]
      OBVIOUS
    <3>2. ASSUME pc[q] \notin Resting, Owned(q, cur[q]) PROVE Owned(q, cur[q])'
      BY <1>4, <3>2
    <3>3. ASSUME pc[q] = "release", status[cur[q]] \in {"SENT", "FAILED"}
          PROVE  status'[cur[q]] \in {"SENT", "FAILED"}
      <4>1. cur[q] \in Jobs \ {cur[p]}
        BY <1>1, <3>3
      <4> QED BY <3>3, <4>1
    <3>4. pc[q] \notin Resting \cup {"release"} => Owned(q, cur[q])'
      BY <3>2
    <3>5. pc[q] = "release" => Owned(q, cur[q])' \/ status'[cur[q]] \in {"SENT", "FAILED"}
      BY <3>2, <3>3
    <3> HIDE DEF Owned, OwnInv
    <3> QED BY <3>1, <3>4, <3>5
  <2>4. /\ pc'[p] \notin Resting \cup {"release"} => Owned(p, cur[p])'
        /\ pc'[p] = "release" => Owned(p, cur[p])' \/ status'[cur[p]] \in {"SENT", "FAILED"}
    BY <1>1
  <2> QED BY <2>1, <2>2, <2>3, <2>4

LEMMA OwnExecute ==
  ASSUME TypeInv, OwnInv, NEW p \in Procs, Execute(p) PROVE OwnInv'
<1> USE DEF TypeInv, TypeOK, LocalsOK, Resting, Labels,
        jobVars, rowVars, procVars, envVars, Step
<1>1. CASE \/ CheckRunnable(p) \/ GateFails(p) \/ GateSkips(p) \/ DeferTempLock(p)
          \/ DeferPacing(p) \/ GateOpens(p) \/ Reconcile(p) \/ UncertainBlock(p)
          \/ AlreadySending(p) \/ GuardDenies(p) \/ GuardAllows(p)
  BY <1>1, OwnFrame
  DEF CheckRunnable, GateFails, GateSkips, DeferTempLock, DeferPacing, GateOpens, Reconcile,
      UncertainBlock, AlreadySending, GuardDenies, GuardAllows, Settle, Defer
<1>2. CASE Preflight(p) \/ Connect(p) \/ ConnectFails(p) \/ ResolveOk(p) \/ ResolveFails(p)
  BY <1>2, OwnFrame DEF Preflight, Connect, ConnectFails, ResolveOk, ResolveFails, Settle
<1>3. CASE \/ (\E r \in Rows : CreateSending(p, r)) \/ TelegramAccepts(p) \/ Reply(p)
          \/ AmbiguousRpc(p) \/ RetryablePost(p) \/ DefiniteRefusal(p)
          \/ FinalizeSent(p) \/ FinalizeFailed(p) \/ MarkUncertain(p)
  BY <1>3, OwnFrame
  DEF CreateSending, TelegramAccepts, Reply, AmbiguousRpc, RetryablePost, DefiniteRefusal,
      FinalizeSent, FinalizeFailed, MarkUncertain, Settle
<1>4. CASE Release(p)
  BY <1>4 DEF Release, OwnInv, Owned
<1> QED BY <1>1, <1>2, <1>3, <1>4 DEF Execute

(* A tick of a lease that has not run out.                                   *)
LEMMA LeaseElapses ==
  ASSUME TypeOK, Tick, NEW j \in Jobs, owner[j] # NoOwner, lease[j] > 0
  PROVE  lease'[j] = lease[j] - 1
<1> DEFINE leased == {i \in Jobs : owner[i] # NoOwner}
<1>1. lease \in [Jobs -> UpTo(LeaseTicks)]
  BY DEF TypeOK
<1>2. Elapse(lease, leased)[j] = lease[j] - 1
  BY <1>1, ConstantsAssumption, ElapseTyped
<1> HIDE DEF leased
<1>3. lease' = [i \in Jobs |-> IF i \in leased THEN Elapse(lease, leased)[i] ELSE lease[i]]
  BY DEF Tick, leased
<1>4. j \in leased
  BY DEF leased
<1> QED BY <1>2, <1>3, <1>4

(* The environment without late leases, cancels and scripts.                 *)
LEMMA OwnEnvironment ==
  ASSUME Protected, TypeInv, OwnInv,
         \/ \E p \in Procs : DbError(p) \/ ClaimFails(p) \/ Crash(p)
         \/ \E p \in Procs, j \in Jobs : StartScript(p, j)
         \/ \E j \in Jobs : CancelRead(j) \/ CancelWrite(j)
         \/ Tick
         \/ UNCHANGED vars
  PROVE  OwnInv'
<1> USE ConstantsAssumption
    DEF TypeInv, TypeOK, LocalsOK, OwnInv, Owned, Resting, Procs,
        jobVars, rowVars, procVars, envVars, Step, NewCall
<1>1. ASSUME NEW p \in Procs, DbError(p) \/ ClaimFails(p) PROVE OwnInv'
  BY <1>1 DEF DbError, ClaimFails
<1>2. ASSUME NEW p \in Procs, Crash(p) PROVE OwnInv'
  BY <1>2 DEF Crash
<1>3. ASSUME NEW p \in Procs, NEW j \in Jobs, StartScript(p, j) PROVE OwnInv'
  BY <1>3 DEF StartScript, Protected
<1>4. ASSUME NEW j \in Jobs, CancelRead(j) \/ CancelWrite(j) PROVE OwnInv'
  BY <1>4 DEF CancelRead, CancelWrite, Protected
<1>5. CASE Tick
  <2>1. ASSUME NEW p \in Procs, NEW j \in Jobs, Owned(p, j), j \in Working(p) PROVE Owned(p, j)'
    <3>1. lease[j] > 1 /\ lease[j] \in Int
      BY <1>5, <2>1, InstantsTyped DEF Tick, Protected
    <3>2. lease'[j] = lease[j] - 1
      BY <1>5, <2>1, <3>1, LeaseElapses
    <3> QED BY <1>5, <2>1, <3>1, <3>2 DEF Tick
  <2>2. \A p \in Procs, j \in Jobs : Owned(p, j) /\ j \in Working(p) => Owned(p, j)'
    BY <2>1
  <2>3. \A p \in Procs : /\ \A j \in batch[p] : j \in Working(p)
                         /\ pc[p] \notin Resting => cur[p] \in Working(p)
    BY DEF Working
  <2>4. UNCHANGED <<status, pc, batch, cur, cancelling>>
    BY <1>5 DEF Tick
  <2>5. ASSUME NEW p \in Procs
        PROVE  /\ \A j \in batch[p] : Owned(p, j)'
               /\ pc[p] \notin Resting /\ Owned(p, cur[p]) => Owned(p, cur[p])'
    <3>1. ASSUME NEW j \in batch[p] PROVE Owned(p, j)'
      <4>1. j \in Jobs /\ Owned(p, j) /\ j \in Working(p)
        BY <2>3
      <4> QED BY <2>1, <4>1
    <3>2. ASSUME pc[p] \notin Resting, Owned(p, cur[p]) PROVE Owned(p, cur[p])'
      <4>1. PICK k \in Jobs : k = cur[p]
        BY <3>2
      <4>2. Owned(p, k) /\ k \in Working(p)
        BY <2>3, <3>2, <4>1
      <4>3. Owned(p, k)'
        BY <2>1, <4>2
      <4> QED BY <2>4, <4>1, <4>3
    <3> HIDE DEF Owned, OwnInv
    <3> QED BY <3>1, <3>2
  <2> QED BY <2>4, <2>5
<1>6. CASE UNCHANGED vars
  BY <1>6 DEF vars
<1> QED BY <1>1, <1>2, <1>3, <1>4, <1>5, <1>6

LEMMA OwnStep == ASSUME Protected, TypeInv, OwnInv, [Next]_vars PROVE OwnInv'
<1>1. CASE \E p \in Procs : Loop(p) \/ Execute(p)
  BY <1>1, OwnLoop, OwnExecute
<1> QED BY <1>1, OwnEnvironment DEF Next

-----------------------------------------------------------------------------
(* One executor for a job, and one live row.                                 *)

LEMMA OneOwner ==
  ASSUME TypeInv, OwnInv, NEW p \in Procs, NEW q \in Procs,
         pc[p] \notin Resting \cup {"release"}, pc[q] \notin Resting \cup {"release"},
         cur[p] = cur[q]
  PROVE  p = q
  BY DEF OwnInv, Owned

(* Reads of a job no other executor has in hand see what p's steps left.     *)
LEMMA LiveFrame ==
  ASSUME TypeInv, LiveInv, NEW p \in Procs,
         UNCHANGED <<rowStatus, rowJob, posts>>,
         pc' = [pc EXCEPT ![p] = pc'[p]],
         cur' = [cur EXCEPT ![p] = cur'[p]],
         myRow' = [myRow EXCEPT ![p] = myRow'[p]],
         \/ pc'[p] \notin Cleaned \cup WithRow \cup {"preflight"}
         \/ pc'[p] = "release"
         \/ UNCHANGED <<cur, myRow>> /\ pc'[p] \in Cleaned /\ pc[p] \in Cleaned
         \/ UNCHANGED <<cur, myRow>> /\ pc'[p] \in WithRow /\ pc[p] \in WithRow \ {"release"}
              /\ (pc'[p] \in {"rpc", "finfail"} => pc[p] \in {"rpc", "finfail"})
  PROVE  LiveInv'
<1> USE DEF TypeInv, TypeOK
<1>1. ASSUME NEW q \in Procs \ {p}
      PROVE  pc'[q] = pc[q] /\ cur'[q] = cur[q] /\ myRow'[q] = myRow[q]
  OBVIOUS
<1>2. \A j : RowsOf(j, "SENT")' = RowsOf(j, "SENT")
  BY DEF RowsOf
<1>3. \A r \in Rows : Live(r)' = Live(r)
  BY DEF Live
<1> QED BY <1>1, <1>2, <1>3 DEF LiveInv, Cleaned, WithRow, RowsOf

(* Under an owned lease preflight clears nothing: it only looks.             *)
LEMMA PreflightLooks ==
  ASSUME TypeInv, OwnInv, LiveInv, NEW p \in Procs, Preflight(p)
  PROVE  /\ Cleared(cur[p]) = {}
         /\ Verdict(cur[p]) = "guard" => \A r \in Rows : rowJob[r] = cur[p] => ~Live(r)
<1> DEFINE j == cur[p]
<1>1. pc[p] = "preflight" /\ j \in Jobs /\ Owned(p, j)
  BY DEF Preflight, Step, TypeInv, LocalsOK, Resting, OwnInv
<1>2. LeaseValid(j)
  BY <1>1, ConstantsAssumption DEF LeaseValid, Owned
<1>3. RowsOf(j, "SENT") = {}
  BY <1>1 DEF LiveInv
<1>4. \A r, s \in RowsOf(j, "SENDING") : r = s
  BY DEF LiveInv, Live, RowsOf
<1>5. RowsOf(j, "SENDING") \subseteq Int
  BY DEF RowsOf, Rows
<1>6. CASE RowsOf(j, "UNCERTAIN") # {}
  BY <1>6 DEF Cleared, Verdict
<1>7. CASE RowsOf(j, "UNCERTAIN") = {} /\ RowsOf(j, "SENDING") # {}
  <2>1. Verdict(j) = "already"
    BY <1>2, <1>7 DEF Verdict
  <2> HIDE DEF j
  <2>2. Cleared(j) = RowsOf(j, "SENDING")
                       \ {r \in RowsOf(j, "SENDING") : \A s \in RowsOf(j, "SENDING") : s =< r}
    BY <2>1 DEF Cleared
  <2>3. \A r \in RowsOf(j, "SENDING") : \A s \in RowsOf(j, "SENDING") : s =< r
    BY <1>4, <1>5
  <2>4. Cleared(j) = {}
    BY <2>2, <2>3
  <2> QED BY <2>1, <2>4 DEF j
<1>8. CASE RowsOf(j, "UNCERTAIN") = {} /\ RowsOf(j, "SENDING") = {}
  <2>1. Verdict(j) = "guard"
    BY <1>8 DEF Verdict
  <2>2. Cleared(j) = {}
    BY <1>8, <2>1 DEF Cleared
  <2>3. \A r \in Rows : rowJob[r] = j => ~Live(r)
    BY <1>3, <1>8 DEF RowsOf, Live
  <2> QED BY <2>2, <2>3
<1> QED BY <1>6, <1>7, <1>8

LEMMA LiveExecute ==
  ASSUME TypeInv, OwnInv, RowsInv, LiveInv, NEW p \in Procs, Execute(p) PROVE LiveInv'
<1> USE DEF TypeInv, TypeOK, LocalsOK, Resting, WithRow, Cleaned, Labels,
        jobVars, rowVars, procVars, envVars, Step
<1>1. CASE \/ CheckRunnable(p) \/ GateFails(p) \/ GateSkips(p) \/ DeferTempLock(p)
          \/ DeferPacing(p) \/ GateOpens(p) \/ UncertainBlock(p) \/ AlreadySending(p)
  BY <1>1, LiveFrame
  DEF CheckRunnable, GateFails, GateSkips, DeferTempLock, DeferPacing, GateOpens,
      UncertainBlock, AlreadySending
<1>2. CASE \/ GuardDenies(p) \/ GuardAllows(p) \/ Connect(p) \/ ConnectFails(p)
          \/ ResolveOk(p) \/ ResolveFails(p)
  BY <1>2, LiveFrame
  DEF GuardDenies, GuardAllows, Connect, ConnectFails, ResolveOk, ResolveFails
<1>3. CASE \/ Reply(p) \/ AmbiguousRpc(p) \/ RetryablePost(p) \/ DefiniteRefusal(p) \/ Release(p)
  BY <1>3, LiveFrame DEF Reply, AmbiguousRpc, RetryablePost, DefiniteRefusal, Release
<1>4. CASE Reconcile(p)
  BY <1>4 DEF Reconcile, LiveInv, Live, RowsOf
<1>5. CASE Preflight(p)
  <2>1. rowStatus' = rowStatus
    BY <1>5, PreflightLooks DEF Preflight
  <2>2. Verdict(cur[p]) = "guard" => \A r \in Rows : rowJob[r] = cur[p] => ~Live(r)
    BY <1>5, PreflightLooks
  <2>3. pc'[p] = Verdict(cur[p]) /\ Verdict(cur[p]) \in {"blocked", "already", "guard"}
    BY <1>5 DEF Preflight, Verdict
  <2>4. pc' = [pc EXCEPT ![p] = Verdict(cur[p])] /\ UNCHANGED <<rowJob, posts, cur, myRow>>
    BY <1>5 DEF Preflight
  <2> QED BY <2>1, <2>2, <2>3, <2>4 DEF LiveInv, Live, RowsOf
<1>6. ASSUME NEW r \in Rows, CreateSending(p, r) PROVE LiveInv'
  <2> USE <1>6 DEF CreateSending
  <2>1. \A s \in Rows : rowJob[s] = cur[p] => ~Live(s)
    BY DEF LiveInv
  <2>2. posts[r] = 0 /\ ~Live(r) /\ cur[p] \in Jobs
    BY DEF RowsInv, Live
  <2>3. \A s \in Rows : Live(s)' <=> Live(s) \/ s = r
    BY DEF Live
  <2>4. \A q \in Procs \ {p} : pc[q] \in Cleaned \cup {"preflight"} => cur[q] # cur[p]
    BY OneOwner
  <2>5. \A q \in Procs \ {p} : pc[q] \in WithRow \ {"release"} => myRow[q] # r
    BY DEF LiveInv
  <2>6. /\ \A s, t \in Rows : Live(s)' /\ Live(t)' /\ rowJob'[s] = rowJob'[t] => s = t
        /\ \A s \in Rows : posts'[s] =< 1
        /\ \A s \in Rows : posts'[s] > 0 => Live(s)'
    BY <2>1, <2>2, <2>3 DEF LiveInv
  <2>7. \A q \in Procs : pc'[q] = "preflight" => RowsOf(cur[q], "SENT")' = {}
    BY <2>2, <2>4 DEF LiveInv, RowsOf
  <2>8. \A q \in Procs : pc'[q] \in Cleaned => \A s \in Rows : rowJob'[s] = cur'[q] => ~Live(s)'
    BY <2>2, <2>3, <2>4 DEF LiveInv
  <2>9. \A q \in Procs :
          /\ pc'[q] \in WithRow \ {"release"} =>
               rowJob'[myRow'[q]] = cur'[q] /\ rowStatus'[myRow'[q]] = "SENDING"
          /\ pc'[q] \in {"rpc", "finfail"} => posts'[myRow'[q]] = 0
    BY <2>2, <2>5 DEF LiveInv
  <2> QED BY <2>6, <2>7, <2>8, <2>9 DEF LiveInv
<1>7. CASE TelegramAccepts(p)
  <2> USE <1>7 DEF TelegramAccepts
  <2>1. \A q \in Procs \ {p} : pc[q] \in WithRow \ {"release"} => myRow[q] # myRow[p]
    BY OneOwner DEF LiveInv
  <2>2. \A s \in Rows : Live(s)' = Live(s)
    BY DEF Live
  <2>3. \A j : RowsOf(j, "SENT")' = RowsOf(j, "SENT")
    BY DEF RowsOf
  <2>4. Live(myRow[p]) /\ posts[myRow[p]] = 0
    BY DEF LiveInv, Live
  <2> QED BY <2>1, <2>2, <2>3, <2>4 DEF LiveInv, RowsOf
<1>8. CASE FinalizeSent(p) \/ FinalizeFailed(p) \/ MarkUncertain(p)
  <2> USE <1>8 DEF FinalizeSent, FinalizeFailed, MarkUncertain
  <2>1. \A q \in Procs \ {p} : pc[q] \notin Resting \cup {"release"} => cur[q] # cur[p]
    BY OneOwner
  <2>2. rowJob[myRow[p]] = cur[p] /\ rowStatus[myRow[p]] = "SENDING"
    BY DEF LiveInv
  <2>3. \A s \in Rows : Live(s)' => Live(s)
    BY <2>2 DEF Live
  <2>4. \A s \in Rows : Live(s) /\ posts[s] > 0 => Live(s)'
    BY DEF LiveInv, Live
  <2>5. \A s \in Rows : s # myRow[p] => rowStatus'[s] = rowStatus[s]
    OBVIOUS
  <2>6. UNCHANGED <<posts, rowJob, cur, myRow>> /\ pc' = [pc EXCEPT ![p] = "release"]
    OBVIOUS
  <2>7. /\ \A s, t \in Rows : Live(s)' /\ Live(t)' /\ rowJob'[s] = rowJob'[t] => s = t
        /\ \A s \in Rows : posts'[s] =< 1
        /\ \A s \in Rows : posts'[s] > 0 => Live(s)'
    BY <2>3, <2>4, <2>6 DEF LiveInv
  <2>8. \A q \in Procs : pc'[q] = "preflight" => RowsOf(cur[q], "SENT")' = {}
    BY <2>1, <2>2, <2>5, <2>6 DEF LiveInv, RowsOf
  <2>9. \A q \in Procs : pc'[q] \in Cleaned => \A s \in Rows : rowJob'[s] = cur'[q] => ~Live(s)'
    BY <2>3, <2>6 DEF LiveInv
  <2>10. \A q \in Procs :
          /\ pc'[q] \in WithRow \ {"release"} =>
               rowJob'[myRow'[q]] = cur'[q] /\ rowStatus'[myRow'[q]] = "SENDING"
          /\ pc'[q] \in {"rpc", "finfail"} => posts'[myRow'[q]] = 0
    BY <2>1, <2>2, <2>5, <2>6 DEF LiveInv
  <2> QED BY <2>7, <2>8, <2>9, <2>10 DEF LiveInv
<1> QED BY <1>1, <1>2, <1>3, <1>4, <1>5, <1>6, <1>7, <1>8 DEF Execute

LEMMA LiveStep ==
  ASSUME TypeInv, OwnInv, RowsInv, LiveInv, [Next]_vars PROVE LiveInv'
<1> USE DEF TypeInv, TypeOK, Resting, WithRow, Cleaned, Labels,
        jobVars, rowVars, procVars, envVars, Step, NewCall
<1>1. ASSUME NEW p \in Procs, Loop(p) PROVE LiveInv'
  BY <1>1, LiveFrame DEF Loop, StartLoop, EndClaims, Sleep, ScriptExit, ClaimDueJob, NextJob
<1>2. ASSUME NEW p \in Procs, DbError(p) \/ ClaimFails(p) PROVE LiveInv'
  BY <1>2, LiveFrame DEF DbError, ClaimFails
<1>3. ASSUME NEW p \in Procs, Crash(p) PROVE LiveInv'
  BY <1>3, LiveFrame DEF Crash
<1>4. ASSUME NEW p \in Procs, NEW j \in Jobs, StartScript(p, j) PROVE LiveInv'
  BY <1>4, LiveFrame DEF StartScript
<1>5. CASE (\E j \in Jobs : CancelRead(j) \/ CancelWrite(j)) \/ Tick \/ UNCHANGED vars
  BY <1>5 DEF CancelRead, CancelWrite, Tick, vars, LiveInv, Live, RowsOf
<1> QED BY <1>1, <1>2, <1>3, <1>4, <1>5, LiveExecute DEF Next

LEMMA ProtectedInvariants ==
  ASSUME Protected PROVE Spec => [](TypeInv /\ SentInv /\ OwnInv /\ LiveInv)
<1>1. Init => SentInv /\ LiveInv
  BY DEF Init, SentInv, RowsInv, SentWasPosted, WithRow, LiveInv, Live, Cleaned
<1>2. TypeInv /\ SentInv /\ OwnInv /\ LiveInv /\ [Next]_vars
        => (TypeInv /\ SentInv /\ OwnInv /\ LiveInv)'
  BY TypeStep, SentStep, OwnStep, LiveStep DEF SentInv
<1>3. Init => TypeInv /\ OwnInv
  BY TypeInit, OwnInit
<1> QED BY <1>1, <1>2, <1>3, PTL DEF Spec

(* With one kind of executor and leases that outlive the work they cover,    *)
(* Telegram accepts a job's message at most once, whatever crashes and       *)
(* database errors happen, for any number of workers, jobs and rows.         *)
THEOREM AtMostOnce == ASSUME Protected PROVE Spec => []AtMostOnePost
<1>1. TypeInv /\ LiveInv => AtMostOnePost
  BY DEF TypeInv, TypeOK, LiveInv, Live, AtMostOnePost, PostedRows
<1> QED BY <1>1, ProtectedInvariants, PTL

(* Under the same protection a message that Telegram accepted is never        *)
(* recorded as failed: its row is SENT, or says that an operator must look    *)
(* (SENDING, UNCERTAIN).                                                      *)
THEOREM EvidenceIsKept == ASSUME Protected PROVE Spec => []EvidenceKept
<1>1. LiveInv => EvidenceKept
  BY DEF LiveInv, Live, EvidenceKept
<1> QED BY <1>1, ProtectedInvariants, PTL

(* Under the same protection the lease does what a lock would: no two        *)
(* workers have a job in hand, one of them having just finished it included. *)
THEOREM OneExecutorEach == ASSUME Protected PROVE Spec => []OneExecutor
<1>1. Init => OneExecutor
  BY DEF Init, OneExecutor, Working
<1>2. TypeInv /\ OwnInv /\ OneExecutor /\ [Next]_vars => OneExecutor'
  <2> SUFFICES ASSUME TypeInv, OwnInv, OneExecutor, [Next]_vars PROVE OneExecutor'
    OBVIOUS
  <2> USE DEF TypeInv, TypeOK, LocalsOK, Resting, Labels,
          jobVars, rowVars, procVars, envVars, Step, NewCall
  <2>1. ASSUME \A p \in Procs : Working(p)' \subseteq Working(p) PROVE OneExecutor'
    BY <2>1 DEF OneExecutor
  <2>2. ASSUME NEW p \in Procs, NEW j \in Jobs, ClaimDueJob(p, j) PROVE OneExecutor'
    <3>1. ASSUME NEW q \in Procs PROVE j \notin Working(q)
      BY <2>2, ClaimableIsFree DEF ClaimDueJob, Working, OwnInv, Owned
    <3>2. \A q \in Procs : Working(q)' \subseteq Working(q) \cup {j}
                          /\ (q # p => Working(q)' = Working(q))
      BY <2>2 DEF ClaimDueJob, Working
    <3> QED BY <3>1, <3>2 DEF OneExecutor
  <2>3. ASSUME NEW p \in Procs, Loop(p), \A j \in Jobs : ~ClaimDueJob(p, j) PROVE OneExecutor'
    BY <2>1, <2>3 DEF Loop, StartLoop, EndClaims, Sleep, ScriptExit, NextJob, Working
  <2>4. ASSUME NEW p \in Procs, Execute(p) PROVE OneExecutor'
    <3>1. /\ UNCHANGED <<batch, cur>>
          /\ pc' = [pc EXCEPT ![p] = pc'[p]]
          /\ pc[p] \notin Resting
      BY <2>4
      DEF Execute, CheckRunnable, GateFails, GateSkips, DeferTempLock, DeferPacing,
          GateOpens, Reconcile, Preflight, UncertainBlock, AlreadySending, GuardDenies,
          GuardAllows, Connect, ConnectFails, ResolveOk, ResolveFails, CreateSending,
          TelegramAccepts, Reply, AmbiguousRpc, RetryablePost, DefiniteRefusal,
          FinalizeSent, FinalizeFailed, MarkUncertain, Release
    <3> QED BY <2>1, <3>1 DEF Working
  <2>5. ASSUME NEW p \in Procs, DbError(p) \/ ClaimFails(p) \/ Crash(p) PROVE OneExecutor'
    BY <2>1, <2>5 DEF DbError, ClaimFails, Crash, Working
  <2>6. ASSUME NEW p \in Procs, NEW j \in Jobs, StartScript(p, j) PROVE OneExecutor'
    BY <2>6 DEF StartScript, Protected
  <2>7. CASE (\E j \in Jobs : CancelRead(j) \/ CancelWrite(j)) \/ Tick \/ UNCHANGED vars
    BY <2>1, <2>7 DEF CancelRead, CancelWrite, Tick, vars, Working
  <2> QED BY <2>2, <2>3, <2>4, <2>5, <2>6, <2>7 DEF Next, Loop
<1> QED BY <1>1, <1>2, ProtectedInvariants, PTL DEF Spec

(* Under the same protection a job that was sent, failed or skipped keeps    *)
(* that outcome.                                                             *)
THEOREM OutcomesStay == ASSUME Protected PROVE Spec => FinishedStaysFinished
<1>1. TypeInv /\ OwnInv /\ [Next]_vars
        => [\A j \in Jobs : status[j] \in {"SENT", "FAILED", "SKIPPED"}
                           => status'[j] = status[j]]_vars
  <2> SUFFICES ASSUME TypeInv, OwnInv, Next, NEW j \in Jobs,
                      status[j] \in {"SENT", "FAILED", "SKIPPED"}
               PROVE  status'[j] = status[j]
    OBVIOUS
  <2> USE DEF TypeInv, TypeOK, Resting, Labels, jobVars, rowVars, procVars, envVars, Step, NewCall
  <2>1. ASSUME NEW p \in Procs, Loop(p) PROVE status'[j] = status[j]
    BY <2>1 DEF Loop, StartLoop, EndClaims, Sleep, ScriptExit, ClaimDueJob, NextJob,
                Claimable, Earliest, DueJobs, StaleJobs
  <2>2. ASSUME NEW p \in Procs, Execute(p) PROVE status'[j] = status[j]
    <3>1. UNCHANGED status \/ (pc[p] \notin Resting \cup {"release"} /\ j # cur[p]
                                => status'[j] = status[j])
      BY <2>2
      DEF Execute, CheckRunnable, GateFails, GateSkips, DeferTempLock, DeferPacing,
          GateOpens, Reconcile, Preflight, UncertainBlock, AlreadySending, GuardDenies,
          GuardAllows, Connect, ConnectFails, ResolveOk, ResolveFails, CreateSending,
          TelegramAccepts, Reply, AmbiguousRpc, RetryablePost, DefiniteRefusal,
          FinalizeSent, FinalizeFailed, MarkUncertain, Release, Settle, Defer
    <3>2. pc[p] \notin Resting /\ (pc[p] = "release" => UNCHANGED status)
      BY <2>2
      DEF Execute, CheckRunnable, GateFails, GateSkips, DeferTempLock, DeferPacing,
          GateOpens, Reconcile, Preflight, UncertainBlock, AlreadySending, GuardDenies,
          GuardAllows, Connect, ConnectFails, ResolveOk, ResolveFails, CreateSending,
          TelegramAccepts, Reply, AmbiguousRpc, RetryablePost, DefiniteRefusal,
          FinalizeSent, FinalizeFailed, MarkUncertain, Release
    <3> QED BY <3>1, <3>2 DEF OwnInv, Owned
  <2>3. ASSUME NEW p \in Procs, DbError(p) \/ ClaimFails(p) \/ Crash(p) PROVE status'[j] = status[j]
    BY <2>3 DEF DbError, ClaimFails, Crash
  <2>4. ASSUME NEW p \in Procs, NEW k \in Jobs, StartScript(p, k) PROVE status'[j] = status[j]
    BY <2>4 DEF StartScript
  <2>5. CASE (\E k \in Jobs : CancelRead(k) \/ CancelWrite(k)) \/ Tick
    BY <2>5 DEF CancelRead, CancelWrite, Tick, OwnInv
  <2> QED BY <2>1, <2>2, <2>3, <2>4, <2>5 DEF Next
<1> QED BY <1>1, ProtectedInvariants, PTL DEF Spec, FinishedStaysFinished
=============================================================================
