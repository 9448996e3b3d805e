------------------------ MODULE ScheduledDms_proofs ------------------------
(* Theorems about OwnerDm, and after them about ScheduledDms, which extends  *)
(* it: for every value of the constants, with any number of callers, loops,  *)
(* scripts and owners, and leases that may be past at any moment.                *)
EXTENDS ScheduledDms, TLAPS

-----------------------------------------------------------------------------
(* OwnerDm.                                                                  *)

Processing == {"rpc", "accepted", "failing", "confirming", "doubt"}
Sure == {"accepted", "confirming", "doubt"}

KeyHeld == \A c \in Callers : pc[c] # "idle" => key[c] \in Keys

(* A call that has claimed its key is the only one, and the key is SENDING.  *)
OneProcessing ==
  /\ \A c \in Callers : pc[c] \in Processing => intent[key[c]] = "SENDING"
  /\ \A c, d \in Callers :
       pc[c] \in Processing /\ pc[d] \in Processing /\ key[c] = key[d] => c = d

(* What the program knows of Telegram's side at each point and status.       *)
Knowledge ==
  /\ \A k \in Keys : /\ accepted[k] \in {0, 1}
                     /\ intent[k] = "NONE" => accepted[k] = 0
                     /\ intent[k] \in {"SENT", "UNCERTAIN"} => accepted[k] = 1
  /\ \A c \in Callers : /\ pc[c] = "rpc" => accepted[key[c]] = 0
                        /\ pc[c] \in Sure => accepted[key[c]] = 1

DmInv == TypeOK /\ KeyHeld /\ OneProcessing /\ Knowledge /\ AnswersAreHonest

LEMMA DmInit == ASSUME Init PROVE DmInv
<1> USE OwnerDmAssumption DEF Init
<1>1. TypeOK
  BY DEF TypeOK, IntentStatus, Points
<1>2. KeyHeld /\ OneProcessing /\ Knowledge /\ AnswersAreHonest
  BY DEF KeyHeld, OneProcessing, Knowledge, AnswersAreHonest, Processing, Sure
<1> QED BY <1>1, <1>2 DEF DmInv

LEMMA DmCall ==
  ASSUME DmInv, NEW c \in Callers, NEW k \in Keys, Call(c, k) PROVE DmInv'
<1> USE OwnerDmAssumption DEF DmInv, TypeOK, KeyHeld, Call, Step
<1>1. TypeOK' /\ KeyHeld'
  BY DEF IntentStatus, Points
<1>2. OneProcessing'
  BY DEF OneProcessing, Processing
<1>3. Knowledge' /\ AnswersAreHonest'
  BY DEF Knowledge, AnswersAreHonest, Sure
<1> QED BY <1>1, <1>2, <1>3

(* The steps that touch neither an intent nor Telegram.                      *)
LEMMA DmQuiet ==
  ASSUME DmInv, NEW c \in Callers, NEW to \in Points,
         UNCHANGED <<intent, accepted, key>>, cool' = cool, crashes' = crashes,
         pc' = [pc EXCEPT ![c] = to], pc[c] # "idle", 
         to \in Processing => pc[c] \in Processing /\ to # "rpc",
         to \in Sure => pc[c] \in Sure,
         \/ result' = result /\ to # "done"
         \/ \E st \in IntentStatus :
              /\ result' = [result EXCEPT ![c] = st]
              /\ st \in {"SENT", "UNCERTAIN"} => accepted[key[c]] = 1
  PROVE DmInv'
<1> USE OwnerDmAssumption DEF DmInv, TypeOK, KeyHeld
<1>1. TypeOK' /\ KeyHeld'
  BY DEF IntentStatus, Points
<1>2. OneProcessing'
  BY DEF OneProcessing, Processing
<1>3. Knowledge'
  BY DEF Knowledge, Processing, Sure
<1>4. AnswersAreHonest'
  BY DEF AnswersAreHonest
<1> QED BY <1>1, <1>2, <1>3, <1>4

LEMMA DmSend == ASSUME DmInv, NEW c \in Callers, Send(c) PROVE DmInv'
<1> USE OwnerDmAssumption DEF Step
<1>t. TypeOK /\ KeyHeld /\ OneProcessing /\ Knowledge /\ AnswersAreHonest
  BY DEF DmInv
<1>p. pc[c] # "idle" => key[c] \in Keys /\ intent[key[c]] \in IntentStatus
  BY <1>t DEF KeyHeld, TypeOK
<1>1. CASE Lookup(c)
  <2>1. intent[key[c]] \in {"SENT", "UNCERTAIN"} => accepted[key[c]] = 1
    BY <1>1, <1>p, <1>t DEF Lookup, Knowledge
  <2> QED BY <1>1, <1>p, <2>1, DmQuiet DEF Lookup, Answer, Points, Processing, Sure, IntentStatus
<1>2. CASE Refuse(c)
  BY <1>2, DmQuiet DEF Refuse, Answer, Points, Processing, Sure, IntentStatus
<1>3. CASE RateLimited(c)
  BY <1>3, DmQuiet DEF RateLimited, Answer, Points, Processing, Sure, IntentStatus
<1>4. CASE Pass(c)
  BY <1>4, DmQuiet DEF Pass, rest, Points, Processing, Sure, IntentStatus
<1>5. CASE Insert(c)
  <2>1. CASE intent[key[c]] = "NONE"
    <3> key[c] \in Keys /\ pc' = [pc EXCEPT ![c] = "rpc"]
        /\ intent' = [intent EXCEPT ![key[c]] = "SENDING"]
        /\ UNCHANGED <<accepted, cool, key, result, crashes>>
      BY <1>5, <1>p, <2>1 DEF Insert, Record
    <3>1. TypeOK' /\ KeyHeld'
      BY <1>t DEF TypeOK, KeyHeld, IntentStatus, Points
    <3>2. OneProcessing'
      BY <1>t, <2>1 DEF TypeOK, OneProcessing, Processing
    <3>3. Knowledge'
      BY <1>t, <2>1 DEF TypeOK, Knowledge, Sure
    <3>4. AnswersAreHonest'
      BY <1>t DEF TypeOK, AnswersAreHonest
    <3> QED BY <3>1, <3>2, <3>3, <3>4 DEF DmInv
  <2>2. CASE intent[key[c]] # "NONE"
    <3>1. intent[key[c]] \in {"SENT", "UNCERTAIN"} => accepted[key[c]] = 1
      BY <1>5, <1>p, <1>t DEF Insert, Knowledge
    <3> QED BY <1>5, <1>p, <2>2, <3>1, DmQuiet
            DEF Insert, Answer, Points, Processing, Sure, IntentStatus
  <2> QED BY <2>1, <2>2
<1>6. CASE TelegramAccepts(c)
  <2> key[c] \in Keys /\ pc[c] = "rpc" /\ pc' = [pc EXCEPT ![c] = "accepted"]
      /\ accepted' = [accepted EXCEPT ![key[c]] = 1]
      /\ UNCHANGED <<intent, cool, key, result, crashes>>
    <3>1. pc[c] = "rpc" /\ key[c] \in Keys /\ accepted[key[c]] = 0
      BY <1>6, <1>p, <1>t DEF TelegramAccepts, Knowledge
    <3> QED BY <1>6, <3>1 DEF TelegramAccepts
  <2>1. TypeOK' /\ KeyHeld'
    BY <1>t DEF TypeOK, KeyHeld, IntentStatus, Points
  <2>2. OneProcessing'
    BY <1>t DEF TypeOK, OneProcessing, Processing
  <2>3. Knowledge'
    BY <1>t DEF TypeOK, KeyHeld, Knowledge, OneProcessing, Processing, Sure
  <2>4. AnswersAreHonest'
    BY <1>t DEF TypeOK, AnswersAreHonest
  <2> QED BY <2>1, <2>2, <2>3, <2>4 DEF DmInv
<1>7. CASE Reply(c)
  BY <1>7, DmQuiet DEF Reply, rest, Points, Processing, Sure, IntentStatus
<1>8. CASE SendFails(c)
  BY <1>8, DmQuiet DEF SendFails, rest, Points, Processing, Sure, IntentStatus
<1>9. ASSUME NEW st \in {"SENT", "FAILED", "UNCERTAIN"},
             pc[c] \in Processing, st # "FAILED" => pc[c] \in Sure,
             pc' = [pc EXCEPT ![c] = "done"],
             Record(c, st), Answer(c, st),
             cool' \in [Accounts -> 0..IntervalTicks],
             UNCHANGED <<accepted, key, crashes>>
      PROVE DmInv'
  <2> key[c] \in Keys /\ intent' = [intent EXCEPT ![key[c]] = st]
      /\ result' = [result EXCEPT ![c] = st]
    BY <1>9, <1>p DEF Processing, Record, Answer
  <2>1. TypeOK' /\ KeyHeld'
    BY <1>t, <1>9 DEF TypeOK, KeyHeld, IntentStatus, Points
  <2>2. OneProcessing'
    BY <1>t, <1>9 DEF TypeOK, OneProcessing, Processing
  <2>3. Knowledge'
    BY <1>t, <1>9 DEF TypeOK, Knowledge, Processing, Sure
  <2>4. AnswersAreHonest'
    BY <1>t, <1>9 DEF TypeOK, AnswersAreHonest, Knowledge
  <2> QED BY <2>1, <2>2, <2>3, <2>4 DEF DmInv
<1>10. CASE RecordFailed(c)
  BY <1>10, <1>9, <1>t DEF RecordFailed, Processing, TypeOK
<1>11. CASE RecordSent(c)
  <2>1. cool' \in [Accounts -> 0..IntervalTicks]
    BY <1>11, <1>t, <1>p DEF RecordSent, TypeOK
  <2> QED BY <1>11, <1>9, <2>1 DEF RecordSent, Processing, Sure
<1>12. CASE RecordUncertain(c)
  BY <1>12, <1>9, <1>t DEF RecordUncertain, Processing, Sure, TypeOK
<1>13. CASE DbError(c)
  <2>1. pc[c] = "doubt" => accepted[key[c]] = 1
    BY <1>t DEF Knowledge, Sure
  <2> QED BY <1>13, <2>1, DmQuiet DEF DbError, Answer, Points, Processing, Sure, IntentStatus
<1> QED BY <1>1, <1>2, <1>3, <1>4, <1>5, <1>6, <1>7, <1>8, <1>10, <1>11, <1>12, <1>13
        DEF Send

LEMMA DmForget ==
  ASSUME DmInv, NEW c \in Callers, Return(c) \/ Crash(c) PROVE DmInv'
<1> USE OwnerDmAssumption DEF DmInv, TypeOK, KeyHeld
<1>0. /\ pc' = [pc EXCEPT ![c] = "idle"] /\ crashes' \in 0..MaxCrashes
      /\ key' = [key EXCEPT ![c] = NoKey] /\ result' = [result EXCEPT ![c] = "NONE"]
      /\ UNCHANGED <<intent, accepted, cool>>
  BY DEF Return, Crash, Forget, Step, Answer
<1>1. TypeOK' /\ KeyHeld'
  BY <1>0 DEF IntentStatus, Points
<1>2. OneProcessing'
  BY <1>0 DEF OneProcessing, Processing
<1>3. Knowledge' /\ AnswersAreHonest'
  BY <1>0 DEF Knowledge, AnswersAreHonest, Sure
<1> QED BY <1>1, <1>2, <1>3

LEMMA DmTick == ASSUME DmInv, Tick PROVE DmInv'
<1> USE OwnerDmAssumption DEF DmInv, TypeOK, KeyHeld, Tick
<1>1. TypeOK' /\ KeyHeld'
  OBVIOUS
<1>2. OneProcessing' /\ Knowledge' /\ AnswersAreHonest'
  BY DEF OneProcessing, Knowledge, AnswersAreHonest
<1> QED BY <1>1, <1>2

LEMMA DmStep == DmInv /\ [Next]_dmVars => DmInv'
<1> SUFFICES ASSUME DmInv, [Next]_dmVars PROVE DmInv'
  OBVIOUS
<1>1. CASE UNCHANGED dmVars
  BY <1>1 DEF DmInv, TypeOK, KeyHeld, OneProcessing, Knowledge, AnswersAreHonest, dmVars
<1>2. CASE Next
  BY <1>2, DmCall, DmSend, DmForget, DmTick DEF Next
<1> QED BY <1>1, <1>2

LEMMA DmInvariant == Spec => []DmInv
BY DmInit, DmStep, PTL DEF Spec

(* Every status, answer, point and counter stays in its range.               *)
THEOREM DmTypeCorrect == Spec => []TypeOK
<1> DmInv => TypeOK BY DEF DmInv
<1> QED BY DmInvariant, PTL

(* However many requests and loops use a key, and whatever crashes and       *)
(* database errors happen, Telegram accepts its message at most once.        *)
THEOREM KeyIsAcceptedOnce == Spec => []AcceptedAtMostOnce
<1>1. ASSUME DmInv, NEW k \in Keys PROVE accepted[k] =< 1
  <2>1. accepted[k] = 0 \/ accepted[k] = 1
    BY <1>1 DEF DmInv, Knowledge
  <2> QED BY <2>1
<1>2. DmInv => AcceptedAtMostOnce
  BY <1>1 DEF AcceptedAtMostOnce
<1> QED BY <1>2, DmInvariant, PTL

(* An answer of SENT or UNCERTAIN is about an accepted message.              *)
THEOREM AnswersHonest == Spec => []AnswersAreHonest
<1> DmInv => AnswersAreHonest BY DEF DmInv
<1> QED BY DmInvariant, PTL

-----------------------------------------------------------------------------
(* The intents implement OneShotSend.                                        *)

Outcomes == [k \in Keys |-> IF intent[k] = "NONE" THEN "unused"
                           ELSE IF intent[k] = "SENDING" THEN "open" ELSE intent[k]]

LEMMA OutcomesChange ==
  ASSUME TypeOK, NEW k \in Keys, NEW st \in IntentStatus \ {"NONE"},
         intent' = [intent EXCEPT ![k] = st]
  PROVE  Outcomes' = [Outcomes EXCEPT ![k] = IF st = "SENDING" THEN "open" ELSE st]
BY DEF TypeOK, Outcomes, IntentStatus

LEMMA PromiseStep ==
  ASSUME DmInv, NEW c \in Callers, Send(c) PROVE [Promise!Next]_(Promise!promise)
<1> USE DEF Promise!Next, Promise!promise, Step
<1>t. TypeOK /\ KeyHeld /\ OneProcessing /\ Knowledge
  BY DEF DmInv
<1>p. pc[c] # "idle" => key[c] \in Keys
  BY <1>t DEF KeyHeld
<1>1. CASE UNCHANGED <<intent, accepted>>
  BY <1>1
<1>2. CASE Insert(c) /\ intent[key[c]] = "NONE"
  <2>1. key[c] \in Keys /\ accepted' = accepted /\ Outcomes[key[c]] = "unused"
    BY <1>2, <1>p DEF Insert, Outcomes
  <2>2. Outcomes' = [Outcomes EXCEPT ![key[c]] = "open"]
    BY <1>2, <1>t, <2>1, OutcomesChange DEF Insert, Record, IntentStatus
  <2>3. Promise!Next
    BY <2>1, <2>2 DEF Promise!Open, Outcomes
  <2> QED BY <2>3
<1>3. CASE TelegramAccepts(c)
  <2>1. /\ key[c] \in Keys /\ intent' = intent
        /\ intent[key[c]] = "SENDING" /\ accepted[key[c]] = 0
    BY <1>3, <1>p, <1>t DEF TelegramAccepts, OneProcessing, Knowledge, Processing
  <2>2. accepted' = [accepted EXCEPT ![key[c]] = 1]
    BY <1>3, <2>1 DEF TelegramAccepts
  <2>3. Promise!Accept(key[c])
    BY <2>1, <2>2 DEF Promise!Accept
  <2>4. key[c] \in Keys
    BY <2>1
  <2>5. Promise!Next
    BY <2>3, <2>4, Zenon
  <2> QED BY <2>5
<1>4. ASSUME NEW st \in {"SENT", "FAILED", "UNCERTAIN"},
             pc[c] \in Processing, st # "FAILED" => pc[c] \in Sure,
             Record(c, st), accepted' = accepted
      PROVE [Promise!Next]_(Promise!promise)
  <2>1. /\ key[c] \in Keys /\ Outcomes[key[c]] = "open"
        /\ st # "FAILED" => accepted[key[c]] = 1
    BY <1>4, <1>p, <1>t DEF OneProcessing, Knowledge, Processing, Outcomes
  <2>2. Outcomes' = [Outcomes EXCEPT ![key[c]] = st]
    BY <1>4, <1>t, <2>1, OutcomesChange DEF Record, IntentStatus
  <2>3. Promise!Close(key[c], st)
    BY <1>4, <2>1, <2>2 DEF Promise!Close, Outcomes
  <2>4. key[c] \in Keys
    BY <2>1
  <2>5. Promise!Next
    BY <2>3, <2>4, Zenon
  <2> QED BY <2>5
<1>5. CASE RecordFailed(c)
  BY <1>5, <1>4 DEF RecordFailed, Processing
<1>6. CASE RecordSent(c)
  BY <1>6, <1>4 DEF RecordSent, Processing, Sure
<1>7. CASE RecordUncertain(c)
  BY <1>7, <1>4 DEF RecordUncertain, Processing, Sure
<1>8. CASE \/ Lookup(c) \/ Refuse(c) \/ RateLimited(c) \/ Pass(c)
           \/ Insert(c) /\ intent[key[c]] # "NONE"
           \/ Reply(c) \/ SendFails(c) \/ DbError(c)
  BY <1>8, <1>1 DEF Lookup, Refuse, RateLimited, Pass, Insert, Reply, SendFails,
                    DbError, rest
<1> QED BY <1>2, <1>3, <1>5, <1>6, <1>7, <1>8 DEF Send

(* Open, accept at most once, close for good: send_now keeps the promise of  *)
(* an idempotency key under any interleaving, crash and database error.      *)
THEOREM IntentsKeepPromise == Spec => KeepsPromise
<1>1. Init => Promise!Init
  BY DEF Init, Promise!Init
<1>2. DmInv /\ [Next]_dmVars => [Promise!Next]_(Promise!promise)
  <2> SUFFICES ASSUME DmInv, [Next]_dmVars PROVE [Promise!Next]_(Promise!promise)
    OBVIOUS
  <2>1. CASE UNCHANGED <<intent, accepted>>
    BY <2>1 DEF Promise!promise
  <2>2. CASE \E c \in Callers : Send(c)
    BY <2>2, PromiseStep
  <2> QED BY <2>1, <2>2 DEF Next, Call, Return, Crash, Forget, Tick, dmVars
<1> QED BY <1>1, <1>2, DmInvariant, PTL DEF Spec, KeepsPromise, Promise!Spec

-----------------------------------------------------------------------------
(* ScheduledDms.                                                             *)

(* Taken up, and not behind a cancel that stands.                            *)
Begun(j) == jobStatus[j] \notin {"NONE", "PENDING"} /\ j \notin cancelled
Committed == {"probe", "call", "sending"}

(* Whose call is whose: an executor's call is the one of its job, the owners *)
(* use keys of their own.                                                    *)
CallsMatch ==
  /\ \A e \in Executors :
       /\ phase[e] \in Committed \cup {"check", "late", "fresh", "taken"} => job[e] \in Jobs
       /\ phase[e] # "sending" => pc[e] = "idle"
       /\ phase[e] = "sending" => pc[e] # "idle" /\ key[e] = job[e]
  /\ \A c \in Owners : pc[c] # "idle" => key[c] \notin Jobs

(* A job is begun before its intent is, and is never pending again; a job    *)
(* whose cancel stands is never begun.                                       *)
BegunFirst ==
  /\ \A e \in Executors : phase[e] \in Committed \cup {"taken"} => Begun(job[e])
  /\ \A j \in Jobs : intent[j] # "NONE" => Begun(j)
  /\ \A j \in cancelled : jobStatus[j] \in {"CANCELLED", "FAILED"}

JobInv == DmInv /\ JobTypeOK /\ CallsMatch /\ BegunFirst /\ OutcomeWasAccepted

-----------------------------------------------------------------------------
(* Every step of the composition is a step of OwnerDm or leaves it alone.    *)

LEMMA StepOfOwnerDm == JobInv /\ [JobNext]_allVars => [Next]_dmVars
<1> SUFFICES ASSUME JobInv, JobNext PROVE [Next]_dmVars
  BY DEF allVars, dmVars
<1> USE ScheduledDmsAssumption DEF Executors, Owners
<1>1. ASSUME NEW e \in Executors, Execute(e) PROVE [Next]_dmVars
  <2>1. CASE CallSend(e)
    <3>1. job[e] \in Keys /\ e \in Callers
      BY <2>1 DEF JobInv, CallsMatch, CallSend, Turn, Committed
    <3> QED BY <2>1, <3>1 DEF CallSend, Next
  <2>2. CASE Sending(e)
    BY <2>2 DEF Sending, Next
  <2>3. CASE Finish(e) \/ Abandon(e)
    BY <2>3 DEF Finish, Abandon, Next
  <2>4. CASE \/ Check(e) \/ Overdue(e) \/ Unfit(e) \/ Proceed(e)
             \/ ProbePasses(e) \/ ProbeFails(e) \/ ExecDbError(e)
    BY <2>4 DEF Check, Found, Runnable, Overdue, Unfit, Proceed, ProbePasses, ProbeFails, ExecDbError
  <2> QED BY <1>1, <2>1, <2>2, <2>3, <2>4 DEF Execute
<1>2. ASSUME NEW e \in Executors,
             \/ Loop(e) \/ ExecCrash(e) \/ \E j \in Jobs : RunJobNow(e, j)
      PROVE [Next]_dmVars
  BY <1>2 DEF Loop, EndClaims, Sleep, ClaimDueJob, NextJob, RunJobNow,
              ExecCrash, Next
<1>3. ASSUME NEW c \in Callers, SendNow(c) PROVE [Next]_dmVars
  BY <1>3 DEF SendNow, Next
<1>4. ASSUME NEW j \in Jobs,
             \/ Schedule(j) \/ TimePasses(j)
             \/ Cancel(j) \/ CancelRead(j) \/ CancelWrite(j)
      PROVE [Next]_dmVars
  BY <1>4 DEF Schedule, TimePasses, Cancel, CancelRead, CancelWrite
<1>5. CASE IntervalTick
  BY <1>5 DEF IntervalTick, Next
<1> QED BY <1>1, <1>2, <1>3, <1>4, <1>5 DEF JobNext

(* What a step of a call does to the call itself and to the intents.         *)
LEMMA SendFrame ==
  ASSUME DmInv, NEW c \in Callers, Send(c)
  PROVE  /\ pc[c] # "idle" /\ pc'[c] # "idle" /\ key' = key
         /\ \A d \in Callers \ {c} : pc'[d] = pc[d]
         /\ \A k \in Keys : k # key[c] => intent'[k] = intent[k]
BY DEF DmInv, TypeOK, KeyHeld, Send, Lookup, Refuse, RateLimited, Pass, Insert,
       TelegramAccepts, Reply, SendFails, RecordFailed, RecordSent, RecordUncertain,
       DbError, Step, Answer, Record, rest, Points

(* Telegram never takes an acceptance back.                                  *)
LEMMA AcceptedStays ==
  ASSUME JobInv, DmInv', [Next]_dmVars, NEW k \in Keys, accepted[k] = 1
  PROVE  accepted'[k] = 1
<1>1. accepted'[k] \in {0, 1} /\ accepted \in [Keys -> Nat]
  BY DEF JobInv, DmInv, Knowledge, TypeOK
<1>2. accepted' = accepted \/ \E c \in Callers : TelegramAccepts(c)
  BY DEF Next, Call, Send, Lookup, Refuse, RateLimited, Pass, Insert, Reply, SendFails,
         RecordFailed, RecordSent, RecordUncertain, DbError, Return, Crash, Forget,
         Tick, dmVars, rest
<1>3. ASSUME NEW c \in Callers, TelegramAccepts(c) PROVE accepted'[k] >= 1
  BY <1>1, <1>3 DEF TelegramAccepts
<1>4. accepted'[k] # 0
  BY <1>1, <1>2, <1>3
<1> QED BY <1>1, <1>4

-----------------------------------------------------------------------------
LEMMA JobInvInit == ASSUME JobInit PROVE JobInv
<1> USE ScheduledDmsAssumption DEF JobInit, Begun
<1>1. DmInv
  BY DmInit
<1>2. JobTypeOK
  BY DEF JobTypeOK, DmJobStatus, Phases
<1>3. CallsMatch /\ BegunFirst /\ OutcomeWasAccepted
  BY DEF Init, CallsMatch, BegunFirst, OutcomeWasAccepted, Committed, Owners, Executors
<1> QED BY <1>1, <1>2, <1>3 DEF JobInv

LEMMA TableSteps ==
  ASSUME JobInv, DmInv', NEW j \in Jobs,
         \/ Schedule(j) \/ TimePasses(j)
             \/ Cancel(j) \/ CancelRead(j) \/ CancelWrite(j)
  PROVE  JobInv'
<1> USE ScheduledDmsAssumption
    DEF cancelVars, Begun, Schedule, TimePasses, Cancel, CancelRead, CancelWrite, Settle, dmVars, execVars
<1>1. JobTypeOK'
  BY DEF JobInv, JobTypeOK, DmJobStatus
<1>2. CallsMatch'
  BY DEF JobInv, CallsMatch
<1>3. BegunFirst'
  BY DEF JobInv, JobTypeOK, CallsMatch, BegunFirst, Begun, Committed
<1>4. OutcomeWasAccepted'
  BY DEF JobInv, JobTypeOK, OutcomeWasAccepted
<1> QED BY <1>1, <1>2, <1>3, <1>4 DEF JobInv

LEMMA LoopSteps ==
  ASSUME JobInv, DmInv', NEW e \in Executors,
         Loop(e) \/ \E j \in Jobs : RunJobNow(e, j)
  PROVE  JobInv'
<1> USE ScheduledDmsAssumption DEF cancelVars, Begun, Turn
<1>0. dmVars' = dmVars
  BY DEF Loop, EndClaims, Sleep, ClaimDueJob, NextJob, RunJobNow
<1>1. JobTypeOK'
  BY DEF JobInv, JobTypeOK, Phases, DmJobStatus, Loop, EndClaims, Sleep,
         ClaimDueJob, NextJob, RunJobNow, tableVars
<1>2. CallsMatch'
  BY <1>0 DEF JobInv, JobTypeOK, CallsMatch, Committed, Loop, EndClaims,
              Sleep, ClaimDueJob, NextJob, RunJobNow, dmVars
<1>3. BegunFirst'
  <2>1. CASE \E j \in Jobs : ClaimDueJob(e, j)
    BY <1>0, <2>1
    DEF JobInv, JobTypeOK, CallsMatch, BegunFirst, Committed, ClaimDueJob, Claimable,
        DueJobs, StaleJobs, dmVars
  <2>2. CASE EndClaims(e) \/ Sleep(e) \/ \E j \in Jobs : NextJob(e, j) \/ RunJobNow(e, j)
    BY <1>0, <2>2
    DEF JobInv, JobTypeOK, CallsMatch, BegunFirst, Committed, EndClaims, Sleep,
        NextJob, RunJobNow, dmVars, tableVars
  <2> QED BY <2>1, <2>2 DEF Loop
<1>4. OutcomeWasAccepted'
  BY <1>0 DEF JobInv, JobTypeOK, OutcomeWasAccepted, Loop, EndClaims, Sleep,
              ClaimDueJob, NextJob, RunJobNow, dmVars, tableVars
<1> QED BY <1>1, <1>2, <1>3, <1>4 DEF JobInv

(* The steps of an executor on the job at hand, outside the call.            *)
LEMMA CheckSteps ==
  ASSUME JobInv, DmInv', NEW e \in Executors,
         \/ Check(e) \/ Overdue(e) \/ Unfit(e) \/ Proceed(e)
         \/ ProbePasses(e) \/ ProbeFails(e) \/ ExecDbError(e)
  PROVE  JobInv'
<1> USE ScheduledDmsAssumption
    DEF cancelVars, Begun, Turn, Settle, Check, Found, Runnable, Overdue, Unfit, Proceed, ProbePasses, ProbeFails,
        ExecDbError, dmVars, tableVars
<1>1. JobTypeOK'
  BY DEF JobInv, JobTypeOK, CallsMatch, Committed, Phases, DmJobStatus
<1>2. CallsMatch'
  BY DEF JobInv, JobTypeOK, CallsMatch, Committed
<1>3. BegunFirst'
  BY DEF JobInv, JobTypeOK, CallsMatch, BegunFirst, Begun, Committed
<1>4. OutcomeWasAccepted'
  BY DEF JobInv, JobTypeOK, CallsMatch, OutcomeWasAccepted, Committed
<1> QED BY <1>1, <1>2, <1>3, <1>4 DEF JobInv

LEMMA CallSteps ==
  ASSUME JobInv, DmInv', NEW e \in Executors,
         CallSend(e) \/ Finish(e) \/ Abandon(e) \/ ExecCrash(e)
  PROVE  JobInv'
<1> USE ScheduledDmsAssumption DEF cancelVars, Begun, Turn, tableVars
<1>0. /\ e \in Callers /\ e \notin Owners /\ job[e] \in Jobs \cup {NoJob}
      /\ pc \in [Callers -> Points] /\ key \in [Callers -> Keys \cup {NoKey}]
      /\ intent' = intent /\ accepted' = accepted
      /\ \A d \in Callers \ {e} : pc'[d] = pc[d] /\ key'[d] = key[d]
  BY DEF JobInv, JobTypeOK, DmInv, TypeOK, CallSend, Finish, Abandon, ExecCrash, Call,
         Return, Crash, Forget, Step, Owners, Executors
<1>1. CASE CallSend(e)
  <2>0. /\ phase' = [phase EXCEPT ![e] = "sending"] /\ phase[e] = "call"
        /\ pc'[e] = "lookup" /\ key'[e] = job[e] /\ job[e] \in Jobs
        /\ UNCHANGED <<jobStatus, overdue, leased, cancelVars, batch, job>>
    BY <1>1, <1>0 DEF CallSend, Call, Step, JobInv, CallsMatch, Committed
  <2>1. JobTypeOK'
    BY <2>0 DEF JobInv, JobTypeOK, Phases
  <2>2. CallsMatch'
    BY <1>0, <2>0 DEF JobInv, JobTypeOK, CallsMatch, Owners, Executors, Committed
  <2>3. BegunFirst' /\ OutcomeWasAccepted'
    BY <1>0, <2>0 DEF JobInv, JobTypeOK, BegunFirst, OutcomeWasAccepted, Committed
  <2> QED BY <2>1, <2>2, <2>3 DEF JobInv
<1>2. ASSUME pc'[e] = "idle",
             \E to \in {"idle", "next"} : phase' = [phase EXCEPT ![e] = to],
             batch' \in [Executors -> SUBSET Jobs],
             job' \in [Executors -> Jobs \cup {NoJob}],
             \A d \in Executors \ {e} : job'[d] = job[d],
             \/ UNCHANGED <<jobStatus, overdue, leased, cancelVars>>
             \/ /\ phase[e] = "sending"
                /\ \E st \in {"SENT", "FAILED", "UNCERTAIN"} :
                     Settle(job[e], st) /\ (st # "FAILED" => accepted[job[e]] = 1)
      PROVE JobInv'
  <2>0. phase[e] = "sending" => job[e] \in Jobs
    BY DEF JobInv, CallsMatch, Committed
  <2>1. PICK to \in {"idle", "next"} : phase' = [phase EXCEPT ![e] = to]
    BY <1>2
  <2>2. CallsMatch'
    BY <1>0, <1>2, <2>1 DEF JobInv, JobTypeOK, CallsMatch, Owners, Executors, Committed
  <2>3. CASE UNCHANGED <<jobStatus, overdue, leased, cancelVars>>
    <3>1. JobTypeOK'
      BY <1>2, <2>1, <2>3 DEF JobInv, JobTypeOK, Phases
    <3>2. BegunFirst' /\ OutcomeWasAccepted'
      BY <1>0, <1>2, <2>1, <2>3
      DEF JobInv, JobTypeOK, BegunFirst, Committed, OutcomeWasAccepted
    <3> QED BY <2>2, <3>1, <3>2 DEF JobInv
  <2>4. CASE \E st \in {"SENT", "FAILED", "UNCERTAIN"} :
               /\ phase[e] = "sending" /\ Settle(job[e], st)
               /\ st # "FAILED" => accepted[job[e]] = 1
    <3> PICK st \in {"SENT", "FAILED", "UNCERTAIN"} :
          /\ phase[e] = "sending" /\ Settle(job[e], st)
          /\ st # "FAILED" => accepted[job[e]] = 1
      BY <2>4
    <3> USE <2>0 DEF Settle
    <3>1. JobTypeOK'
      BY <1>2, <2>1 DEF JobInv, JobTypeOK, Phases, DmJobStatus
    <3>2. BegunFirst'
      BY <1>0, <1>2, <2>1 DEF JobInv, JobTypeOK, BegunFirst, Begun, Committed
    <3>3. OutcomeWasAccepted'
      BY <1>0 DEF JobInv, JobTypeOK, OutcomeWasAccepted
    <3> QED BY <2>2, <3>1, <3>2, <3>3 DEF JobInv
  <2> QED BY <1>2, <2>3, <2>4
<1>3. CASE Finish(e)
  <2>1. /\ phase[e] = "sending" /\ key[e] = job[e] /\ pc[e] = "done"
        /\ result[e] \in {"SENT", "UNCERTAIN"} => accepted[key[e]] = 1
    BY <1>0, <1>3 DEF Finish, JobInv, CallsMatch, DmInv, AnswersAreHonest
  <2>2. /\ Settle(job[e], Outcome(e)) /\ Outcome(e) \in {"SENT", "FAILED", "UNCERTAIN"}
        /\ Outcome(e) # "FAILED" => accepted[job[e]] = 1
    BY <1>3, <2>1 DEF Finish, Outcome
  <2>3. /\ pc'[e] = "idle" /\ phase' = [phase EXCEPT ![e] = "next"]
        /\ batch' = batch /\ job' = job
        /\ batch \in [Executors -> SUBSET Jobs] /\ job \in [Executors -> Jobs \cup {NoJob}]
    BY <1>0, <1>3 DEF Finish, Return, Step, JobInv, JobTypeOK
  <2>4. \E st \in {"SENT", "FAILED", "UNCERTAIN"} :
          Settle(job[e], st) /\ (st # "FAILED" => accepted[job[e]] = 1)
    BY <2>2
  <2>5. \E to \in {"idle", "next"} : phase' = [phase EXCEPT ![e] = to]
    BY <2>3
  <2> QED BY <1>2, <2>1, <2>3, <2>4, <2>5
<1>4. CASE Abandon(e)
  BY <1>0, <1>2, <1>4 DEF Abandon, Return, Step, JobInv, JobTypeOK
<1>5. CASE ExecCrash(e)
  BY <1>0, <1>2, <1>5 DEF ExecCrash, Crash, JobInv, JobTypeOK
<1> QED BY <1>1, <1>3, <1>4, <1>5

LEMMA SendingSteps ==
  ASSUME JobInv, DmInv', [Next]_dmVars, NEW c \in Callers,
         UNCHANGED <<jobStatus, overdue, leased, cancelVars, phase, batch, job>>,
         \/ c \in Executors /\ phase[c] = "sending" /\ Send(c)
         \/ c \in Owners /\ (Send(c) \/ Return(c) \/ Crash(c) \/ \E k \in Keys \ Jobs : Call(c, k))
  PROVE  JobInv'
<1> USE ScheduledDmsAssumption DEF cancelVars, Begun
<1>0. DmInv
  BY DEF JobInv
<1>1. JobTypeOK'
  BY DEF JobInv, JobTypeOK
<1>2. OutcomeWasAccepted'
  BY AcceptedStays DEF JobInv, OutcomeWasAccepted
<1>3. CASE Send(c)
  <2>1. /\ pc[c] # "idle" /\ pc'[c] # "idle" /\ key' = key
        /\ \A d \in Callers \ {c} : pc'[d] = pc[d]
        /\ \A k \in Keys : k # key[c] => intent'[k] = intent[k]
    BY <1>0, <1>3, SendFrame
  <2>2. CallsMatch'
    BY <2>1 DEF JobInv, CallsMatch, Owners, Executors
  <2>3. key[c] \in Jobs => Begun(key[c])
    BY <2>1 DEF JobInv, CallsMatch, BegunFirst, Committed
  <2>4. BegunFirst'
    BY <2>1, <2>3 DEF JobInv, BegunFirst
  <2> QED BY <1>1, <1>2, <2>2, <2>4 DEF JobInv
<1>4. CASE c \in Owners /\ ~Send(c)
  <2>1. /\ intent' = intent /\ pc \in [Callers -> Points]
        /\ key \in [Callers -> Keys \cup {NoKey}]
        /\ \A d \in Callers \ {c} : pc'[d] = pc[d] /\ key'[d] = key[d]
        /\ pc'[c] # "idle" => key'[c] \notin Jobs
    BY <1>0, <1>4 DEF DmInv, TypeOK, Call, Return, Crash, Forget, Step, Owners
  <2>2. CallsMatch'
    BY <1>4, <2>1 DEF JobInv, CallsMatch, Owners, Executors
  <2>3. BegunFirst'
    BY <2>1 DEF JobInv, BegunFirst
  <2> QED BY <1>1, <1>2, <2>2, <2>3 DEF JobInv
<1> QED BY <1>3, <1>4

LEMMA JobStep == JobInv /\ [JobNext]_allVars => JobInv'
<1> SUFFICES ASSUME JobInv, [JobNext]_allVars PROVE JobInv'
  OBVIOUS
<1> USE ScheduledDmsAssumption DEF Executors, cancelVars, Begun
<1>1. [Next]_dmVars
  BY StepOfOwnerDm
<1>2. DmInv'
  BY <1>1, DmStep DEF JobInv
<1>3. CASE UNCHANGED allVars
  BY <1>2, <1>3
  DEF allVars, dmVars, tableVars, execVars, JobInv, JobTypeOK, CallsMatch, BegunFirst,
      OutcomeWasAccepted
<1>4. ASSUME NEW e \in Executors, Execute(e) PROVE JobInv'
  <2>1. CASE Sending(e)
    <3>1. phase[e] = "sending" /\ Send(e) /\ e \in Callers
          /\ UNCHANGED <<jobStatus, overdue, leased, cancelVars, phase, batch, job>>
      BY <2>1 DEF Sending, tableVars, execVars
    <3> QED BY <1>1, <1>2, <3>1, SendingSteps
  <2>2. CASE CallSend(e) \/ Finish(e) \/ Abandon(e)
    BY <1>2, <2>2, CallSteps
  <2>3. CASE \/ Check(e) \/ Overdue(e) \/ Unfit(e) \/ Proceed(e)
             \/ ProbePasses(e) \/ ProbeFails(e) \/ ExecDbError(e)
    BY <1>2, <2>3, CheckSteps
  <2> QED BY <1>4, <2>1, <2>2, <2>3 DEF Execute
<1>5. ASSUME NEW e \in Executors,
             \/ Loop(e) \/ ExecCrash(e) \/ \E j \in Jobs : RunJobNow(e, j)
      PROVE JobInv'
  BY <1>2, <1>5, LoopSteps, CallSteps
<1>6. ASSUME NEW c \in Callers, SendNow(c) PROVE JobInv'
  <2>1. /\ c \in Owners /\ (Send(c) \/ Return(c) \/ Crash(c) \/ \E k \in Keys \ Jobs : Call(c, k))
        /\ UNCHANGED <<jobStatus, overdue, leased, cancelVars, phase, batch, job>>
    BY <1>6 DEF SendNow, tableVars, execVars
  <2> QED BY <1>1, <1>2, <2>1, SendingSteps
<1>7. ASSUME NEW j \in Jobs,
             \/ Schedule(j) \/ TimePasses(j)
             \/ Cancel(j) \/ CancelRead(j) \/ CancelWrite(j)
      PROVE JobInv'
  BY <1>2, <1>7, TableSteps
<1>8. CASE IntervalTick
  BY <1>2, <1>8
  DEF IntervalTick, Tick, tableVars, execVars, JobInv, JobTypeOK, CallsMatch, BegunFirst,
      OutcomeWasAccepted
<1> QED BY <1>3, <1>4, <1>5, <1>6, <1>7, <1>8 DEF JobNext

LEMMA JobInvariant == JobSpec => []JobInv
BY JobInvInit, JobStep, PTL DEF JobSpec

-----------------------------------------------------------------------------
(* The jobs table and the executors' locals keep to their ranges.            *)
THEOREM JobTypeCorrect == JobSpec => []JobTypeOK
<1> JobInv => JobTypeOK BY DEF JobInv
<1> QED BY JobInvariant, PTL

(* The loops and scripts use send_now as any caller may: all that is proved  *)
(* of OwnerDm holds of the composition.                                      *)
THEOREM ExecutorsUseIntents == JobSpec => ImplementsOwnerDm
<1>1. JobInit => Init
  BY DEF JobInit
<1> QED BY <1>1, JobInvariant, StepOfOwnerDm, PTL DEF JobSpec, ImplementsOwnerDm, Spec

(* Telegram accepts a scheduled message at most once, even if two loops and  *)
(* a script run its job at once, its lease runs out, or they crash.          *)
THEOREM JobIsAcceptedOnce == JobSpec => []AcceptedAtMostOnce
BY ExecutorsUseIntents, KeyIsAcceptedOnce, PTL DEF ImplementsOwnerDm

(* A job that says SENT or UNCERTAIN was accepted.                           *)
THEOREM OutcomesAccepted == JobSpec => []OutcomeWasAccepted
<1> JobInv => OutcomeWasAccepted BY DEF JobInv
<1> QED BY JobInvariant, PTL

(* Nothing was, or will be, sent for a job whose cancel stands: the service's *)
(* cancel, and the operator's where its write found the job PENDING and no    *)
(* executor that had read PENDING wrote RUNNING over it.                      *)
THEOREM CancelMeansUnsent == JobSpec => []CancelledIsNotSent
<1>1. JobInv => CancelledIsNotSent
  BY ScheduledDmsAssumption
  DEF JobInv, JobTypeOK, BegunFirst, Begun, DmInv, Knowledge, CancelledIsNotSent
<1> QED BY <1>1, JobInvariant, PTL
=============================================================================
