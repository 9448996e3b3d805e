----------------------- MODULE TelegramGateway_proofs -----------------------
(* What the gateway queue guarantees for any number of jobs, accounts,       *)
(* attempts and faults.                                                      *)
EXTENDS TelegramGateway, TLAPS

-----------------------------------------------------------------------------
(* The inductive invariant.                                                  *)

(* The job in hand and the rest of the batch are running, and nothing else   *)
(* is in the hands of the worker.                                            *)
InHand ==
  /\ phase \in {"start", "idle"} => batch = {}
  /\ phase \notin {"start", "idle", "next"} =>
       cur \in Jobs /\ cur \notin batch /\ status[cur] = "running"
  /\ \A j \in batch : status[j] = "running"

(* Only a failed job has used all its attempts.                              *)
AttemptsLeft == \A j \in Jobs : status[j] # "failed" => attempts[j] < MaxAttempts

(* An acceptance is paid for by an attempt or a fault, except the one of a   *)
(* done job and the one that is about to be recorded.                        *)
AfterCall == {"accepted", "found", "succeeded", "transient", "refused", "exception"}
Unpaid(j) == status[j] = "done" \/ (cur = j /\ phase \in AfterCall)

Paid ==
  \A j \in Jobs : /\ accepted[j] =< attempts[j] + faults + 1
                  /\ ~Unpaid(j) => accepted[j] =< attempts[j] + faults

(* What the worker is about to record as done was delivered, and only sends  *)
(* are looked up and sent.                                                   *)
Evidence ==
  /\ phase \in {"accepted", "found", "succeeded"} /\ Sends(cur) => Delivered(cur)
  /\ phase = "fetch" => ~Sends(cur)
  /\ phase \in {"lookup", "send"} => Sends(cur)

(* A certified job gets as far as the send only if it was not delivered.     *)
LookedUp == phase = "send" /\ Certain(cur) => ~Delivered(cur)

GwInv ==
  /\ TypeOK /\ InHand
  /\ AttemptsLeft /\ Paid
  /\ OneRunningPerAccount
  /\ DoneWasDelivered /\ Evidence
  /\ CertifiedOnce /\ LookedUp

LEMMA GwInvInit == Init => GwInv
BY GatewayAssumption
DEF Init, GwInv, TypeOK, InHand, AttemptsLeft, Paid, OneRunningPerAccount, DoneWasDelivered,
    Evidence, CertifiedOnce, LookedUp, JobStatus, Phases, AfterCall

-----------------------------------------------------------------------------
(* The steps.                                                                *)

(* Steps that leave the table alone, and Telegram too.                       *)
LEMMA QuietSteps ==
  ASSUME GwInv,
         \/ Allowed \/ GuardAllows \/ LookupFinds \/ LookupMisses \/ Reply \/ FetchSucceeds
         \/ CallFails \/ EndBatch \/ \E j \in Jobs : NextJob(j)
  PROVE  GwInv'
<1> USE GatewayAssumption
<1>1. /\ status' = status /\ attempts' = attempts /\ due' = due /\ stale' = stale
      /\ accepted' = accepted /\ faults' = faults
  BY DEF Allowed, GuardAllows, LookupFinds, LookupMisses, Reply, FetchSucceeds, CallFails,
         EndBatch, NextJob, table, telegram
<1>2. TypeOK'
  BY <1>1 DEF GwInv, TypeOK, InHand, Phases, Step, Allowed, GuardAllows, LookupFinds,
              LookupMisses, Reply, FetchSucceeds, CallFails, EndBatch, NextJob, telegram
<1>3. InHand'
  BY <1>1 DEF GwInv, TypeOK, InHand, Step, Allowed, GuardAllows, LookupFinds,
              LookupMisses, Reply, FetchSucceeds, CallFails, EndBatch, NextJob
<1>4. AttemptsLeft' /\ OneRunningPerAccount'
  BY <1>1 DEF GwInv, AttemptsLeft, OneRunningPerAccount
<1>5. \A j \in Jobs : Unpaid(j) => Unpaid(j)'
  BY <1>1 DEF GwInv, Unpaid, AfterCall, Step, InHand, Allowed, GuardAllows, LookupFinds,
              LookupMisses, Reply, FetchSucceeds, CallFails, EndBatch, NextJob
<1>6. Paid'
  BY <1>1, <1>5 DEF GwInv, Paid
<1>7. \A j : Delivered(j)' <=> Delivered(j)
  BY <1>1 DEF Delivered
<1>8. DoneWasDelivered' /\ CertifiedOnce'
  BY <1>1, <1>7 DEF GwInv, DoneWasDelivered, CertifiedOnce
<1>9. Evidence'
  <2>1. CASE LookupFinds
    BY <1>1, <2>1 DEF LookupFinds, Step, Evidence, Delivered
  <2>2. CASE Reply
    BY <1>1, <2>2 DEF Reply, Step, GwInv, Evidence, Sends, Delivered
  <2>3. CASE FetchSucceeds
    BY <1>1, <2>3 DEF FetchSucceeds, Step, GwInv, Evidence, Sends
  <2>5. phase' = "fetch" => ~Sends(cur')
    <3>1. phase' = "fetch" => GuardAllows
      BY DEF Step, Allowed, LookupFinds, LookupMisses, Reply, FetchSucceeds, CallFails,
             EndBatch, NextJob
    <3>2. GuardAllows => cur \in Jobs /\ cur' = cur
      BY DEF GuardAllows, Step, GwInv, InHand
    <3> QED BY <3>1, <3>2 DEF GuardAllows, Step, Sends
  <2>6. phase' \in {"lookup", "send"} => Sends(cur')
    <3>1. phase' \in {"lookup", "send"} => GuardAllows \/ LookupMisses
      BY DEF Step, Allowed, LookupFinds, Reply, FetchSucceeds, CallFails, EndBatch, NextJob
    <3>2. GuardAllows => cur' = cur
      BY DEF GuardAllows
    <3>3. LookupMisses => cur' = cur /\ Sends(cur)
      BY DEF LookupMisses, Step, GwInv, Evidence
    <3>4. GuardAllows /\ phase' \in {"lookup", "send"} => KindOf[cur] # "fetch"
      BY DEF GuardAllows, Step
    <3> QED BY <3>1, <3>2, <3>3, <3>4 DEF Sends
  <2>4. phase' \in {"accepted", "found", "succeeded"} => LookupFinds \/ Reply \/ FetchSucceeds
    BY DEF Step, Allowed, GuardAllows, LookupMisses, CallFails, EndBatch, NextJob
  <2> QED BY <2>1, <2>2, <2>3, <2>4, <2>5, <2>6 DEF Evidence, Sends
<1>10. LookedUp'
  BY <1>7 DEF GwInv, LookedUp, Certain, Step, Allowed, GuardAllows, LookupFinds,
              LookupMisses, Reply, FetchSucceeds, CallFails, EndBatch, NextJob
<1> QED BY <1>2, <1>3, <1>4, <1>6, <1>8, <1>9, <1>10 DEF GwInv

LEMMA AcceptStep == GwInv /\ TelegramAccepts => GwInv'
<1> SUFFICES ASSUME GwInv, TelegramAccepts PROVE GwInv'
  OBVIOUS
<1> USE GatewayAssumption
<1>1. /\ status' = status /\ attempts' = attempts /\ due' = due /\ stale' = stale
      /\ batch' = batch /\ cur' = cur /\ faults' = faults /\ confirmed' = confirmed
      /\ phase = "send" /\ phase' = "accepted"
      /\ cur \in Jobs /\ status[cur] = "running"
      /\ accepted' = [accepted EXCEPT ![cur] = @ + 1]
  BY DEF TelegramAccepts, Step, table, GwInv, InHand
<1>2. accepted \in [Jobs -> Nat]
  BY DEF GwInv, TypeOK
<1>3. TypeOK' /\ InHand' /\ AttemptsLeft' /\ OneRunningPerAccount'
  BY <1>1, <1>2 DEF GwInv, TypeOK, InHand, AttemptsLeft, OneRunningPerAccount, Phases
<1>4. Paid'
  <2> SUFFICES ASSUME NEW j \in Jobs
               PROVE  /\ accepted'[j] =< attempts[j] + faults + 1
                      /\ ~Unpaid(j)' => accepted'[j] =< attempts[j] + faults
    BY <1>1 DEF Paid
  <2>1. CASE j = cur
    <3>1. ~Unpaid(cur) /\ Unpaid(cur)'
      BY <1>1 DEF Unpaid, AfterCall
    <3>2. accepted[cur] =< attempts[cur] + faults
      BY <1>1, <3>1 DEF GwInv, Paid
    <3> QED BY <1>1, <1>2, <2>1, <3>1, <3>2 DEF GwInv, TypeOK
  <2>2. CASE j # cur
    BY <1>1, <1>2, <2>2 DEF GwInv, Paid, Unpaid
  <2> QED BY <2>1, <2>2
<1>5. \A j : Delivered(j) => Delivered(j)'
  BY <1>1, <1>2 DEF Delivered
<1>6. Delivered(cur)
        \/ (accepted'[cur] = 1 /\ \A i \in Jobs : i # cur /\ MessageOf[i] = MessageOf[cur]
                                                   => accepted'[i] = 0)
  BY <1>1, <1>2 DEF Delivered
<1>7. DoneWasDelivered'
  BY <1>1, <1>5 DEF GwInv, DoneWasDelivered
<1>8. Evidence'
  BY <1>1, <1>2 DEF Evidence, Delivered
<1>9. CertifiedOnce'
  <2>1. CASE Certain(cur)
    <3>1. accepted'[cur] = 1
          /\ \A i \in Jobs : i # cur /\ MessageOf[i] = MessageOf[cur] => accepted'[i] = 0
      BY <1>1, <1>6, <2>1 DEF GwInv, LookedUp
    <3>2. \A i \in Jobs : i # cur => accepted'[i] = accepted[i]
      BY <1>1, <1>2
    <3>3. \A j \in Jobs : Certain(j) => accepted'[j] =< 1
      BY <3>1, <3>2 DEF GwInv, CertifiedOnce
    <3>4. ASSUME NEW i \in Jobs, NEW j \in Jobs, Certain(i), Certain(j), i # j,
                 MessageOf[i] = MessageOf[j]
          PROVE  accepted'[i] = 0 \/ accepted'[j] = 0
      BY <3>1, <3>2, <3>4 DEF GwInv, CertifiedOnce
    <3> QED BY <3>3, <3>4 DEF CertifiedOnce, Certain
  <2>2. CASE ~Certain(cur)
    <3>1. \A j \in Jobs : Certain(j) => accepted'[j] = accepted[j]
      BY <1>1, <1>2, <2>2
    <3> QED BY <3>1 DEF GwInv, CertifiedOnce, Certain
  <2> QED BY <2>1, <2>2
<1>10. LookedUp'
  BY <1>1 DEF LookedUp
<1> QED BY <1>3, <1>4, <1>7, <1>8, <1>9, <1>10 DEF GwInv

(* Steps that write the row of the job in hand and leave it.                 *)
LEMMA RecordSteps ==
  ASSUME GwInv,
         \/ NotAllowed \/ GuardDenies \/ LookupAmbiguous
         \/ RecordDone \/ RecordTransient \/ RecordRefused \/ RecordException
  PROVE  GwInv'
<1> USE GatewayAssumption
<1>1. /\ phase \notin {"start", "idle", "next"} /\ phase' = "next"
      /\ batch' = batch /\ cur' = cur /\ accepted' = accepted /\ confirmed' = confirmed
      /\ faults' = faults /\ stale' = stale
  BY DEF NotAllowed, GuardDenies, LookupAmbiguous, RecordDone, RecordTransient,
         RecordRefused, RecordException, MarkDone, MarkRejected, MarkRetry, MarkFailed,
         Step, telegram
<1>2. cur \in Jobs /\ cur \notin batch /\ status[cur] = "running"
  BY <1>1 DEF GwInv, InHand
<1>3. attempts[cur] < MaxAttempts /\ TypeOK
  BY <1>2 DEF GwInv, AttemptsLeft
<1>a. MarkDone \/ MarkRejected \/ MarkRetry \/ MarkFailed
  BY DEF NotAllowed, GuardDenies, LookupAmbiguous, RecordDone, RecordTransient,
         RecordRefused, RecordException
<1>4. /\ \A j \in Jobs : j # cur => status'[j] = status[j] /\ attempts'[j] = attempts[j]
      /\ status' \in [Jobs -> JobStatus] /\ status'[cur] # "running"
      /\ due' \in [Jobs -> BOOLEAN]
      /\ attempts' \in [Jobs -> 0..MaxAttempts]
      /\ status'[cur] # "failed" => attempts'[cur] < MaxAttempts
  <2>1. CASE MarkDone
    BY <1>2, <1>3, <2>1 DEF TypeOK, JobStatus, MarkDone
  <2>2. CASE MarkRejected
    BY <1>2, <1>3, <2>2 DEF TypeOK, JobStatus, MarkRejected
  <2>3. CASE MarkRetry
    <3>1. /\ attempts' = [attempts EXCEPT ![cur] = attempts[cur] + 1]
          /\ attempts \in [Jobs -> 0..MaxAttempts] /\ due \in [Jobs -> BOOLEAN]
          /\ status \in [Jobs -> JobStatus] /\ attempts[cur] \in 0..MaxAttempts
      BY <1>2, <1>3, <2>3 DEF TypeOK, MarkRetry
    <3>2. attempts' \in [Jobs -> 0..MaxAttempts] /\ attempts'[cur] = attempts[cur] + 1
      BY <1>2, <1>3, <3>1
    <3>3. CASE attempts[cur] + 1 < MaxAttempts
      BY <1>2, <2>3, <3>1, <3>2, <3>3 DEF JobStatus, MarkRetry
    <3>4. CASE ~(attempts[cur] + 1 < MaxAttempts)
      BY <1>2, <2>3, <3>1, <3>2, <3>4 DEF JobStatus, MarkRetry
    <3> QED BY <3>3, <3>4
  <2>4. CASE MarkFailed
    BY <1>2, <1>3, <2>4 DEF TypeOK, JobStatus, MarkFailed
  <2> QED BY <1>a, <2>1, <2>2, <2>3, <2>4
<1>5. \/ phase \in {"allow", "guard", "lookup"} /\ attempts'[cur] = attempts[cur]
         /\ status'[cur] = "failed"
      \/ phase \in {"found", "succeeded"} /\ attempts'[cur] = attempts[cur]
         /\ status'[cur] = "done"
      \/ attempts'[cur] = attempts[cur] + 1 /\ status'[cur] \in {"retry", "failed"}
  BY <1>2, <1>3
  DEF TypeOK, NotAllowed, GuardDenies, LookupAmbiguous, RecordDone,
      RecordTransient, RecordRefused, RecordException, MarkDone, MarkRejected, MarkRetry,
      MarkFailed, Step
<1>6. TypeOK' /\ InHand'
  BY <1>1, <1>2, <1>3, <1>4 DEF GwInv, TypeOK, InHand, Phases
<1>7. AttemptsLeft' /\ OneRunningPerAccount'
  BY <1>2, <1>4 DEF GwInv, AttemptsLeft, OneRunningPerAccount
<1>8. Paid'
  <2> SUFFICES ASSUME NEW j \in Jobs
               PROVE  /\ accepted[j] =< attempts'[j] + faults + 1
                      /\ ~Unpaid(j)' => accepted[j] =< attempts'[j] + faults
    BY <1>1 DEF Paid
  <2>0. /\ attempts[j] \in Nat /\ attempts'[j] \in Nat /\ accepted[j] \in Nat /\ faults \in Nat
        /\ accepted[j] =< attempts[j] + faults + 1
        /\ ~Unpaid(j) => accepted[j] =< attempts[j] + faults
    BY <1>3, <1>4 DEF TypeOK, GwInv, Paid
  <2>1. CASE j = cur
    <3>1. phase \in {"allow", "guard", "lookup"} => ~Unpaid(j)
      BY <1>2, <2>1 DEF Unpaid, AfterCall
    <3>2. status'[j] = "done" => Unpaid(j)'
      BY DEF Unpaid
    <3> QED BY <1>5, <2>0, <2>1, <3>1, <3>2
  <2>2. CASE j # cur
    <3>1. Unpaid(j)' <=> Unpaid(j)
      BY <1>1, <1>4, <2>2 DEF Unpaid
    <3> QED BY <1>4, <2>0, <2>2, <3>1
  <2> QED BY <2>1, <2>2
<1>9. \A j : Delivered(j)' <=> Delivered(j)
  BY <1>1 DEF Delivered
<1>10. DoneWasDelivered'
  BY <1>1, <1>4, <1>5, <1>9 DEF GwInv, DoneWasDelivered, Evidence, Sends
<1>11. CertifiedOnce' /\ Evidence' /\ LookedUp'
  BY <1>1 DEF GwInv, CertifiedOnce, Evidence, LookedUp
<1> QED BY <1>6, <1>7, <1>8, <1>10, <1>11 DEF GwInv

(* Crashes, failpoints and database errors leave the table as it is; each    *)
(* that loses an outcome counts as a fault.                                  *)
LEMMA FaultSteps ==
  ASSUME GwInv, DbError \/ Failpoint \/ Crash
  PROVE  GwInv'
<1> USE GatewayAssumption
<1>1. /\ status' = status /\ attempts' = attempts /\ due' = due /\ stale' = stale
      /\ accepted' = accepted /\ confirmed' = confirmed
      /\ faults < MaxFaults /\ faults' = faults + 1
      /\ \/ batch' = {} /\ cur' = NoJob /\ phase' = "start"
         \/ batch' = batch /\ cur' = cur /\ phase = "start" /\ phase' = "idle"
         \/ batch' = batch /\ cur' = cur /\ phase = "allow" /\ phase' = "guard"
         \/ batch' = batch /\ cur' = cur /\ phase' \in {"next", "exception"}
            /\ phase \in {"lookup", "send"} \cup AfterCall
  BY DEF DbError, Failpoint, Crash, Fault, Step, table, telegram, AfterCall
<1>2. TypeOK' /\ InHand'
  BY <1>1 DEF GwInv, TypeOK, InHand, Phases, AfterCall
<1>3. AttemptsLeft' /\ OneRunningPerAccount' /\ CertifiedOnce'
  BY <1>1 DEF GwInv, AttemptsLeft, OneRunningPerAccount, CertifiedOnce
<1>4. Paid'
  BY <1>1 DEF GwInv, TypeOK, Paid, Unpaid
<1>5. \A j : Delivered(j)' <=> Delivered(j)
  BY <1>1 DEF Delivered
<1>6. DoneWasDelivered' /\ Evidence' /\ LookedUp'
  BY <1>1, <1>5 DEF GwInv, DoneWasDelivered, Evidence, LookedUp
<1> QED BY <1>2, <1>3, <1>4, <1>6 DEF GwInv

(* Steps on the table between two batches, or by the clock.                  *)
LEMMA TableSteps ==
  ASSUME GwInv,
         \/ RecoverStale
         \/ \E j \in Jobs : Enqueue(j) \/ BecomesDue(j) \/ BecomesStale(j)
  PROVE  GwInv'
<1> USE GatewayAssumption
<1>1. /\ attempts' = attempts /\ accepted' = accepted /\ confirmed' = confirmed
      /\ faults' = faults /\ batch' = batch /\ cur' = cur
      /\ phase' = phase \/ (phase \in {"start", "idle"} /\ phase' = "idle")
      /\ \A j \in Jobs :
           \/ status'[j] = status[j]
           \/ status[j] = "none" /\ status'[j] = "pending"
           \/ status[j] = "running" /\ status'[j] = "retry" /\ phase \in {"start", "idle"}
  BY DEF GwInv, TypeOK, RecoverStale, Enqueue, BecomesDue, BecomesStale, Step, table, telegram
<1>2. /\ status' \in [Jobs -> JobStatus]
      /\ due' \in [Jobs -> BOOLEAN] /\ stale' \in [Jobs -> BOOLEAN]
  <2> USE DEF GwInv, TypeOK, JobStatus
  <2>1. CASE RecoverStale
    BY <2>1 DEF RecoverStale
  <2>2. ASSUME NEW j \in Jobs, Enqueue(j)
        PROVE  status' \in [Jobs -> JobStatus] /\ due' = due /\ stale' = stale
    BY <2>2 DEF Enqueue
  <2>3. ASSUME NEW j \in Jobs, BecomesDue(j)
        PROVE  due' \in [Jobs -> BOOLEAN] /\ status' = status /\ stale' = stale
    BY <2>3 DEF BecomesDue
  <2>4. ASSUME NEW j \in Jobs, BecomesStale(j)
        PROVE  stale' \in [Jobs -> BOOLEAN] /\ status' = status /\ due' = due
    BY <2>4 DEF BecomesStale
  <2>5. CASE RecoverStale
    BY <2>1, <2>5
  <2>6. CASE \E j \in Jobs : Enqueue(j) \/ BecomesDue(j) \/ BecomesStale(j)
    <3> PICK j \in Jobs : Enqueue(j) \/ BecomesDue(j) \/ BecomesStale(j)
      BY <2>6
    <3>1. CASE Enqueue(j) BY <2>2, <3>1
    <3>2. CASE BecomesDue(j) BY <2>3, <3>2
    <3>3. CASE BecomesStale(j) BY <2>4, <3>3
    <3> QED BY <3>1, <3>2, <3>3
  <2> QED BY <2>5, <2>6
<1>3. TypeOK' /\ InHand'
  BY <1>1, <1>2 DEF GwInv, TypeOK, InHand, Phases
<1>4. AttemptsLeft' /\ OneRunningPerAccount'
  BY <1>1 DEF GwInv, AttemptsLeft, OneRunningPerAccount
<1>5. Paid'
  BY <1>1 DEF GwInv, TypeOK, Paid, Unpaid, AfterCall
<1>6. \A j : Delivered(j)' <=> Delivered(j)
  BY <1>1 DEF Delivered
<1>7. DoneWasDelivered' /\ CertifiedOnce' /\ Evidence' /\ LookedUp'
  BY <1>1, <1>6 DEF GwInv, DoneWasDelivered, CertifiedOnce, Evidence, LookedUp
<1> QED BY <1>3, <1>4, <1>5, <1>7 DEF GwInv

LEMMA ClaimStep == GwInv /\ ClaimNextJobs => GwInv'
<1> SUFFICES ASSUME GwInv, ClaimNextJobs PROVE GwInv'
  OBVIOUS
<1> USE GatewayAssumption
<1>1. PICK b \in Batches :
        /\ phase = "idle" /\ phase' = "next" /\ batch' = b /\ cur' = cur
        /\ status' = [j \in Jobs |-> IF j \in b THEN "running" ELSE status[j]]
        /\ stale' = [j \in Jobs |-> j \notin b /\ stale[j]]
        /\ attempts' = attempts /\ due' = due /\ accepted' = accepted
        /\ confirmed' = confirmed /\ faults' = faults
  BY DEF ClaimNextJobs, Step, telegram
<1>2. /\ b \subseteq Ready
      /\ \A j \in b, i \in Jobs : status[i] = "running" => AccountOf[i] # AccountOf[j]
      /\ \A i, j \in b : AccountOf[i] = AccountOf[j] => i = j
  BY <1>1 DEF Batches, Busy
<1>3. b \subseteq Jobs /\ \A j \in b : status[j] \in {"pending", "retry"}
  BY <1>2 DEF Ready
<1>4. TypeOK' /\ InHand'
  BY <1>1, <1>3 DEF GwInv, TypeOK, InHand, Phases, JobStatus
<1>5. AttemptsLeft'
  BY <1>1, <1>3 DEF GwInv, AttemptsLeft
<1>6. OneRunningPerAccount'
  BY <1>1, <1>2, <1>3 DEF GwInv, OneRunningPerAccount
<1>7. Paid'
  BY <1>1, <1>3 DEF GwInv, TypeOK, Paid, Unpaid, AfterCall
<1>8. \A j : Delivered(j)' <=> Delivered(j)
  BY <1>1 DEF Delivered
<1>9. DoneWasDelivered' /\ CertifiedOnce' /\ Evidence' /\ LookedUp'
  BY <1>1, <1>3, <1>8 DEF GwInv, DoneWasDelivered, CertifiedOnce, Evidence, LookedUp
<1> QED BY <1>4, <1>5, <1>6, <1>7, <1>9 DEF GwInv

LEMMA GwStep == GwInv /\ [Next]_vars => GwInv'
<1> SUFFICES ASSUME GwInv, [Next]_vars PROVE GwInv'
  OBVIOUS
<1>1. CASE UNCHANGED vars
  BY <1>1
  DEF vars, table, telegram, GwInv, TypeOK, InHand, AttemptsLeft, Paid, Unpaid,
      OneRunningPerAccount, DoneWasDelivered, Evidence, Delivered, CertifiedOnce, LookedUp
<1>2. CASE Next
  BY <1>2, QuietSteps, AcceptStep, RecordSteps, FaultSteps, TableSteps, ClaimStep
  DEF Next, Work, Process
<1> QED BY <1>1, <1>2

LEMMA GwInvariant == Spec => []GwInv
BY GwInvInit, GwStep, PTL DEF Spec

-----------------------------------------------------------------------------
(* The queue and the worker's locals keep to their ranges.                   *)
THEOREM GatewayTypeCorrect == Spec => []TypeOK
<1> GwInv => TypeOK BY DEF GwInv
<1> QED BY GwInvariant, PTL

(* claim_next_jobs and the recovery never leave an account with two running  *)
(* jobs.                                                                     *)
THEOREM AccountsAreSerial == Spec => []OneRunningPerAccount
<1> GwInv => OneRunningPerAccount BY DEF GwInv
<1> QED BY GwInvariant, PTL

(* A send job is done only if Telegram has its message.                      *)
THEOREM DoneMeansDelivered == Spec => []DoneWasDelivered
<1> GwInv => DoneWasDelivered BY DEF GwInv
<1> QED BY GwInvariant, PTL

(* Certified sends go out once wherever the chat history can be read,        *)
(* whatever retries and faults there are.                                    *)
THEOREM CertifiedSendsAreSingle == Spec => []CertifiedOnce
<1> GwInv => CertifiedOnce BY DEF GwInv
<1> QED BY GwInvariant, PTL

(* Repeated sends are bounded by the attempts and the faults.                *)
THEOREM RepeatsAreBounded == Spec => []SendsAreBounded
<1>1. ASSUME GwInv, NEW j \in Jobs PROVE accepted[j] =< MaxAttempts + faults
  <2>1. /\ accepted[j] \in Nat /\ attempts[j] \in 0..MaxAttempts /\ faults \in Nat
        /\ MaxAttempts \in Nat
        /\ accepted[j] =< attempts[j] + faults + 1
        /\ ~Unpaid(j) => accepted[j] =< attempts[j] + faults
    BY <1>1, GatewayAssumption DEF GwInv, TypeOK, Paid
  <2>2. Unpaid(j) => status[j] # "failed"
    BY <1>1 DEF GwInv, InHand, Unpaid, AfterCall
  <2>3. Unpaid(j) => attempts[j] < MaxAttempts
    BY <1>1, <2>2 DEF GwInv, AttemptsLeft
  <2> QED BY <2>1, <2>3
<1>2. GwInv => SendsAreBounded
  BY <1>1 DEF SendsAreBounded
<1> QED BY <1>2, GwInvariant, PTL

(* done and failed are final: only a running or waiting job is written.      *)
THEOREM GatewayOutcomesStay == Spec => OutcomeIsFinal
<1>1. ASSUME GwInv, [Next]_vars, NEW j \in Jobs, status[j] \in {"done", "failed"}
      PROVE  status'[j] = status[j]
  <2>1. status \in [Jobs -> JobStatus]
    BY <1>1 DEF GwInv, TypeOK
  <2>2. CASE Process
    <3>1. phase \notin {"start", "idle", "next"}
      BY <2>2
      DEF Process, NotAllowed, Allowed, GuardDenies, GuardAllows, LookupFinds, LookupMisses,
          LookupAmbiguous, TelegramAccepts, Reply, FetchSucceeds, CallFails, RecordDone,
          RecordTransient, RecordRefused, RecordException, Step
    <3>2. cur \in Jobs /\ j # cur
      BY <1>1, <3>1 DEF GwInv, InHand
    <3> QED
      BY <2>1, <2>2, <3>2
      DEF Process, NotAllowed, Allowed, GuardDenies, GuardAllows, LookupFinds, LookupMisses,
          LookupAmbiguous, TelegramAccepts, Reply, FetchSucceeds, CallFails, RecordDone,
          RecordTransient, RecordRefused, RecordException, MarkDone, MarkRejected, MarkRetry,
          MarkFailed, table
  <2>3. CASE ClaimNextJobs
    BY <1>1, <2>1, <2>3 DEF ClaimNextJobs, Batches, Ready
  <2>4. CASE RecoverStale \/ \E i \in Jobs : Enqueue(i) \/ BecomesDue(i) \/ BecomesStale(i)
    BY <1>1, <2>1, <2>4 DEF RecoverStale, Enqueue, BecomesDue, BecomesStale
  <2>5. CASE EndBatch \/ DbError \/ Failpoint \/ Crash \/ \E i \in Jobs : NextJob(i)
    BY <2>5 DEF EndBatch, DbError, Failpoint, Crash, NextJob, table
  <2>6. CASE UNCHANGED vars
    BY <2>6 DEF vars, table
  <2> QED BY <1>1, <2>2, <2>3, <2>4, <2>5, <2>6 DEF Next, Work
<1>2. GwInv /\ [Next]_vars
        => [\A j \in Jobs : status[j] \in {"done", "failed"} => status'[j] = status[j]]_vars
  BY <1>1
<1> QED BY <1>2, GwInvariant, PTL DEF Spec, OutcomeIsFinal

(* A step on the row of the job in hand is a step of the queue on that job.  *)
LEMMA RowSteps ==
  ASSUME GwInv,
         \/ NotAllowed \/ GuardDenies \/ LookupAmbiguous
         \/ RecordDone \/ RecordTransient \/ RecordRefused \/ RecordException
  PROVE  Queue!Next
<1>1. phase \notin {"start", "idle", "next"} /\ accepted' = accepted
  BY DEF NotAllowed, GuardDenies, LookupAmbiguous, RecordDone, RecordTransient,
         RecordRefused, RecordException, Step, telegram
<1>2. cur \in Jobs /\ status[cur] = "running" /\ status \in [Jobs -> JobStatus]
  BY <1>1 DEF GwInv, InHand, TypeOK
<1>3. CASE RecordDone
  <2>1. status' = [status EXCEPT ![cur] = "done"] /\ phase \in {"succeeded", "found"}
    BY <1>3 DEF RecordDone, MarkDone, Step
  <2>2. cur \notin {j \in Jobs : ~Sends(j)} => Queue!Delivered(cur)
    BY <1>2, <2>1 DEF GwInv, Evidence, Delivered, Queue!Delivered
  <2>3. Queue!Finish(cur)
    BY <1>1, <1>2, <2>1, <2>2 DEF Queue!Finish
  <2> QED BY <1>2, <2>3 DEF Queue!Next
<1>4. CASE status' = [status EXCEPT ![cur] = "failed"]
  <2>1. Queue!Fail(cur)
    BY <1>1, <1>2, <1>4 DEF Queue!Fail
  <2> QED BY <1>2, <2>1 DEF Queue!Next
<1>5. CASE status' = [status EXCEPT ![cur] = "retry"]
  <2>1. status' = [j \in Jobs |-> IF j \in {cur} THEN "retry" ELSE status[j]]
    BY <1>2, <1>5
  <2>2. Queue!PutBack({cur})
    BY <1>1, <1>2, <2>1 DEF Queue!PutBack
  <2> QED BY <1>2, <2>2 DEF Queue!Next
<1>6. \/ RecordDone
      \/ status' = [status EXCEPT ![cur] = "failed"]
      \/ status' = [status EXCEPT ![cur] = "retry"]
  BY DEF NotAllowed, GuardDenies, LookupAmbiguous, RecordTransient, RecordRefused,
         RecordException, MarkRejected, MarkRetry, MarkFailed
<1> QED BY <1>3, <1>4, <1>5, <1>6

(* The gateway implements the queue its clients rely on: batches, retries,   *)
(* recoveries, look-ups and faults are takings-up, puttings-back and         *)
(* outcomes, and done is said of delivered messages only.                    *)
THEOREM ImplementsQueue == Spec => KeepsQueue
<1>1. Init => Queue!Init
  BY DEF Init, Queue!Init
<1>2. ASSUME GwInv, [Next]_vars PROVE [Queue!Next]_(Queue!queue)
  <2>1. CASE status' = status /\ accepted' = accepted
    BY <2>1 DEF Queue!queue
  <2>2. CASE RecoverStale
    <3> DEFINE stuck == {j \in Jobs : status[j] = "running" /\ stale[j]}
    <3>1. Queue!PutBack(stuck)
      BY <2>2 DEF RecoverStale, Queue!PutBack, telegram
    <3> QED BY <3>1 DEF Queue!Next
  <2>3. CASE ClaimNextJobs
    <3>1. PICK b \in Batches :
            /\ status' = [j \in Jobs |-> IF j \in b THEN "running" ELSE status[j]]
            /\ accepted' = accepted
      BY <2>3 DEF ClaimNextJobs, telegram
    <3>2. b \in SUBSET Jobs /\ Queue!TakeUp(b)
      BY <3>1 DEF Batches, Ready, Queue!TakeUp
    <3> QED BY <3>2 DEF Queue!Next
  <2>4. CASE TelegramAccepts
    <3>1. cur \in Jobs /\ status[cur] = "running" /\ Sends(cur)
      BY <1>2, <2>4 DEF TelegramAccepts, Step, GwInv, InHand, Evidence
    <3>2. Queue!Accept(cur)
      BY <2>4, <3>1 DEF TelegramAccepts, table, Queue!Accept
    <3> QED BY <3>1, <3>2 DEF Queue!Next
  <2>5. ASSUME NEW j \in Jobs, Enqueue(j) PROVE Queue!Next
    <3>1. Queue!Enqueue(j)
      BY <2>5 DEF Enqueue, Queue!Enqueue, telegram
    <3> QED BY <3>1 DEF Queue!Next
  <2>6. CASE Allowed \/ GuardAllows \/ LookupFinds \/ LookupMisses \/ Reply \/ FetchSucceeds
             \/ CallFails \/ EndBatch \/ DbError \/ Failpoint \/ Crash
             \/ \E j \in Jobs : NextJob(j) \/ BecomesDue(j) \/ BecomesStale(j)
    <3> status' = status /\ accepted' = accepted
      BY <2>6 DEF Allowed, GuardAllows, LookupFinds, LookupMisses, Reply, FetchSucceeds,
                  CallFails, EndBatch, DbError, Failpoint, Crash, NextJob, BecomesDue,
                  BecomesStale, table, telegram
    <3> QED BY <2>1
  <2>7. CASE UNCHANGED vars
    BY <2>1, <2>7 DEF vars, table, telegram
  <2> QED BY <1>2, <2>2, <2>3, <2>4, <2>5, <2>6, <2>7, RowSteps DEF Next, Work, Process
<1> QED BY <1>1, <1>2, GwInvariant, PTL DEF Spec, KeepsQueue, Queue!Spec

=============================================================================
