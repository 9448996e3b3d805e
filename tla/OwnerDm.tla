------------------------------ MODULE OwnerDm ------------------------------
(* The owner's direct messages: OwnerDirectMessageService.send_now and the   *)
(* owner_dm_intents table, called concurrently by web requests and by the    *)
(* scheduler, each call under an idempotency key.                            *)
(*                                                                           *)
(* One action per database transaction or per answer of Telegram.  The       *)
(* insert of an intent is one transaction: the row is never seen CREATED.    *)
EXTENDS Integers

CONSTANTS
  Keys,          \* idempotency keys
  Accounts,      \* Telegram accounts
  AccountOf,     \* the account the message of a key goes out from
  Callers,       \* processes and requests that call send_now
  Env,           \* what the environment may do, see EnvEvents
  IntervalTicks, \* DM_MIN_ACCOUNT_INTERVAL_SEC
  MaxCrashes     \* bound: process crashes

EnvEvents == {"crash", "db_error"}

ASSUME OwnerDmAssumption ==
  /\ AccountOf \in [Keys -> Accounts]
  /\ Env \subseteq EnvEvents
  /\ IntervalTicks \in Nat /\ MaxCrashes \in Nat

VARIABLES
  intent,    \* owner_dm_intents.status by key
  accepted,  \* times Telegram accepted the message of a key
  cool,      \* ticks left of an account's interval after its last SENT
  pc, key,   \* where each call is, and its key
  result,    \* the status it answers
  crashes

NoKey == "no key"
dmVars == <<intent, accepted, cool, pc, key, result, crashes>>
rest == <<intent, accepted, cool, key, result, crashes>>

IntentStatus == {"NONE", "SENDING", "SENT", "FAILED", "UNCERTAIN"}
Points == {"idle", "lookup", "gate", "insert", "rpc", "accepted", "failing",
           "confirming", "doubt", "done", "raised"}

TypeOK ==
  /\ intent \in [Keys -> IntentStatus]
  /\ accepted \in [Keys -> Nat]
  /\ cool \in [Accounts -> 0..IntervalTicks]
  /\ pc \in [Callers -> Points]
  /\ key \in [Callers -> Keys \cup {NoKey}]
  /\ result \in [Callers -> IntentStatus]
  /\ crashes \in 0..MaxCrashes

Init ==
  /\ intent = [k \in Keys |-> "NONE"]
  /\ accepted = [k \in Keys |-> 0]
  /\ cool = [a \in Accounts |-> 0]
  /\ pc = [c \in Callers |-> "idle"]
  /\ key = [c \in Callers |-> NoKey]
  /\ result = [c \in Callers |-> "NONE"]
  /\ crashes = 0

Step(c, from, to) == pc[c] = from /\ pc' = [pc EXCEPT ![c] = to]
Answer(c, st) == result' = [result EXCEPT ![c] = st]
Record(c, st) == intent' = [intent EXCEPT ![key[c]] = st]

-----------------------------------------------------------------------------
(* Slips: the way a definition below might be got wrong.  No behaviour of    *)
(* Spec uses them; each run's properties are known to notice them.           *)

(* Slip: the insert does not heed the unique constraint.                     *)
Insert_NotUnique(c) ==
  /\ Step(c, "insert", "rpc")
  /\ Record(c, "SENDING")
  /\ UNCHANGED <<accepted, cool, key, result, crashes>>

(* Slip: a claim on an intent that failed before.                            *)
Insert_RetryFailed(c) ==
  /\ pc[c] = "insert"
  /\ IF intent[key[c]] \in {"NONE", "FAILED"}
       THEN Step(c, "insert", "rpc") /\ Record(c, "SENDING") /\ UNCHANGED result
       ELSE Step(c, "insert", "done") /\ Answer(c, intent[key[c]]) /\ UNCHANGED intent
  /\ UNCHANGED <<accepted, cool, key, crashes>>

-----------------------------------------------------------------------------
(* send_now.                                                                 *)

Call(c, k) ==
  /\ Step(c, "idle", "lookup")
  /\ key' = [key EXCEPT ![c] = k]
  /\ UNCHANGED <<intent, accepted, cool, result, crashes>>

(* The replay comes first: an existing key is answered from its intent.      *)
Lookup(c) ==
  /\ Step(c, "lookup", IF intent[key[c]] = "NONE" THEN "gate" ELSE "done")
  /\ Answer(c, intent[key[c]])
  /\ UNCHANGED <<intent, accepted, cool, key, crashes>>

(* Sensitive peer, bad message or peer, ineligible account, execution guard: *)
(* answered FAILED (DENIED by the guard) without an intent.                  *)
Refuse(c) ==
  /\ Step(c, "gate", "done")
  /\ Answer(c, "FAILED")
  /\ UNCHANGED <<intent, accepted, cool, key, crashes>>

(* evaluate_owner_dm_rate_policy: only SENT intents count.                   *)
RateLimited(c) ==
  /\ Step(c, "gate", "done")
  /\ cool[AccountOf[key[c]]] > 0
  /\ Answer(c, "FAILED")
  /\ UNCHANGED <<intent, accepted, cool, key, crashes>>

Pass(c) ==
  /\ Step(c, "gate", "insert")
  /\ cool[AccountOf[key[c]]] = 0
  /\ UNCHANGED rest

(* claim_or_get_intent and the commit after it: the unique key lets one      *)
(* insert through, and that one claims SENDING; any other is a replay.       *)
Insert(c) ==
  /\ pc[c] = "insert"
  /\ IF intent[key[c]] = "NONE"
       THEN Step(c, "insert", "rpc") /\ Record(c, "SENDING") /\ UNCHANGED result
       ELSE Step(c, "insert", "done") /\ Answer(c, intent[key[c]]) /\ UNCHANGED intent
  /\ UNCHANGED <<accepted, cool, key, crashes>>

TelegramAccepts(c) ==
  /\ Step(c, "rpc", "accepted")
  /\ accepted' = [accepted EXCEPT ![key[c]] = @ + 1]
  /\ UNCHANGED <<intent, cool, key, result, crashes>>

Reply(c) ==
  /\ Step(c, "accepted", "confirming")
  /\ UNCHANGED rest

(* transport.send_message_async: no account, no connection, no peer, an      *)
(* RPC error or a timeout all come back as a failure, whether or not the     *)
(* message was accepted.                                                     *)
SendFails(c) ==
  /\ Step(c, "rpc", "failing") \/ Step(c, "accepted", "failing")
  /\ UNCHANGED rest

RecordFailed(c) ==
  /\ Step(c, "failing", "done")
  /\ Record(c, "FAILED") /\ Answer(c, "FAILED")
  /\ UNCHANGED <<accepted, cool, key, crashes>>

RecordSent(c) ==
  /\ Step(c, "confirming", "done")
  /\ Record(c, "SENT") /\ Answer(c, "SENT")
  /\ cool' = [cool EXCEPT ![AccountOf[key[c]]] = IntervalTicks]
  /\ UNCHANGED <<accepted, key, crashes>>

RecordUncertain(c) ==
  /\ Step(c, "doubt", "done")
  /\ Record(c, "UNCERTAIN") /\ Answer(c, "UNCERTAIN")
  /\ UNCHANGED <<accepted, cool, key, crashes>>

(* A transaction raises.  After a confirmed send it is caught, twice: first  *)
(* UNCERTAIN is tried, then the answer alone says UNCERTAIN.                 *)
DbError(c) ==
  /\ "db_error" \in Env
  /\ \/ \E p \in {"lookup", "gate", "insert", "failing"} :
          Step(c, p, "raised") /\ UNCHANGED result
     \/ Step(c, "confirming", "doubt") /\ UNCHANGED result
     \/ Step(c, "doubt", "done") /\ Answer(c, "UNCERTAIN")
  /\ UNCHANGED <<intent, accepted, cool, key, crashes>>

Send(c) ==
  \/ Lookup(c) \/ Refuse(c) \/ RateLimited(c) \/ Pass(c) \/ Insert(c)
  \/ TelegramAccepts(c) \/ Reply(c) \/ SendFails(c)
  \/ RecordFailed(c) \/ RecordSent(c) \/ RecordUncertain(c) \/ DbError(c)

Forget(c) ==
  /\ key' = [key EXCEPT ![c] = NoKey]
  /\ Answer(c, "NONE")
  /\ UNCHANGED <<intent, accepted, cool>>

(* The caller has its answer, or the exception.                              *)
Return(c) ==
  /\ Step(c, "done", "idle") \/ Step(c, "raised", "idle")
  /\ Forget(c)
  /\ UNCHANGED crashes

Crash(c) ==
  /\ "crash" \in Env /\ crashes < MaxCrashes
  /\ pc' = [pc EXCEPT ![c] = "idle"]
  /\ crashes' = crashes + 1
  /\ Forget(c)

Tick ==
  /\ cool' = [a \in Accounts |-> IF cool[a] > 0 THEN cool[a] - 1 ELSE 0]
  /\ UNCHANGED <<intent, accepted, pc, key, result, crashes>>

Next ==
  \/ \E c \in Callers : \/ \E k \in Keys : Call(c, k)
                        \/ Send(c) \/ Return(c) \/ Crash(c)
  \/ Tick

Spec == Init /\ [][Next]_dmVars

-----------------------------------------------------------------------------
(* Properties.                                                               *)

(* Telegram accepts the message of a key at most once, however many callers  *)
(* use the key, whatever crashes and database errors happen.                 *)
AcceptedAtMostOnce == \A k \in Keys : accepted[k] =< 1

(* Whoever is told SENT or UNCERTAIN is told so of an accepted message.      *)
AnswersAreHonest ==
  \A c \in Callers : pc[c] = "done" /\ result[c] \in {"SENT", "UNCERTAIN"}
                       => accepted[key[c]] = 1

(* The intents implement the promise of an idempotency key.                  *)
Promise == INSTANCE OneShotSend WITH
  outcome <- [k \in Keys |-> IF intent[k] = "NONE" THEN "unused"
                            ELSE IF intent[k] = "SENDING" THEN "open" ELSE intent[k]]

KeepsPromise == Promise!Spec

=============================================================================
