---------------------------- MODULE OneShotSend ----------------------------
(* What an idempotency key of the owner's direct messages promises: one      *)
(* attempt, accepted by Telegram at most once, closed with one outcome that  *)
(* never changes.  SENT and UNCERTAIN are only said of an accepted message;  *)
(* FAILED promises nothing about Telegram.                                   *)
EXTENDS Naturals

CONSTANT Keys
VARIABLES outcome, accepted
promise == <<outcome, accepted>>

Init ==
  /\ outcome = [k \in Keys |-> "unused"]
  /\ accepted = [k \in Keys |-> 0]

Open(k) ==
  /\ outcome[k] = "unused"
  /\ outcome' = [outcome EXCEPT ![k] = "open"]
  /\ UNCHANGED accepted

Accept(k) ==
  /\ outcome[k] = "open" /\ accepted[k] = 0
  /\ accepted' = [accepted EXCEPT ![k] = 1]
  /\ UNCHANGED outcome

Close(k, o) ==
  /\ outcome[k] = "open"
  /\ o \in {"SENT", "UNCERTAIN"} => accepted[k] = 1
  /\ outcome' = [outcome EXCEPT ![k] = o]
  /\ UNCHANGED accepted

Next == \E k \in Keys : \/ Open(k) \/ Accept(k)
                        \/ \E o \in {"SENT", "FAILED", "UNCERTAIN"} : Close(k, o)

Spec == Init /\ [][Next]_promise
=============================================================================
