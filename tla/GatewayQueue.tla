---------------------------- MODULE GatewayQueue ----------------------------
(* What the telegram_gateway_jobs queue promises those who enqueue and wait:  *)
(* a job is taken up, put back and taken up again until it is done or has     *)
(* failed, for good; Telegram is only called for a running job, maybe more    *)
(* than once, and a send is done only if its message was delivered.           *)
EXTENDS Naturals

CONSTANTS Jobs, MessageOf, Fetches
VARIABLES status, accepted
queue == <<status, accepted>>

Init ==
  /\ status = [j \in Jobs |-> "none"]
  /\ accepted = [j \in Jobs |-> 0]

Delivered(j) == \E i \in Jobs : MessageOf[i] = MessageOf[j] /\ accepted[i] > 0

Enqueue(j) ==
  /\ status[j] = "none"
  /\ status' = [status EXCEPT ![j] = "pending"]
  /\ UNCHANGED accepted

(* A batch is claimed, or the jobs that were left running are put back.       *)
TakeUp(J) ==
  /\ \A j \in J : status[j] \in {"pending", "retry"}
  /\ status' = [j \in Jobs |-> IF j \in J THEN "running" ELSE status[j]]
  /\ UNCHANGED accepted

PutBack(J) ==
  /\ \A j \in J : status[j] = "running"
  /\ status' = [j \in Jobs |-> IF j \in J THEN "retry" ELSE status[j]]
  /\ UNCHANGED accepted

Accept(j) ==
  /\ status[j] = "running" /\ j \notin Fetches
  /\ accepted' = [accepted EXCEPT ![j] = @ + 1]
  /\ UNCHANGED status

Finish(j) ==
  /\ status[j] = "running"
  /\ j \notin Fetches => Delivered(j)
  /\ status' = [status EXCEPT ![j] = "done"]
  /\ UNCHANGED accepted

(* Whatever Telegram made of it.                                              *)
Fail(j) ==
  /\ status[j] = "running"
  /\ status' = [status EXCEPT ![j] = "failed"]
  /\ UNCHANGED accepted

Next ==
  \/ \E J \in SUBSET Jobs : TakeUp(J) \/ PutBack(J)
  \/ \E j \in Jobs : Enqueue(j) \/ Accept(j) \/ Finish(j) \/ Fail(j)

Spec == Init /\ [][Next]_queue
=============================================================================
