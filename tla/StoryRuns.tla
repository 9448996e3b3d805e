----------------------------- MODULE StoryRuns -----------------------------
(* A controlled live Story run: a web request that passes the gates, inserts  *)
(* a run, publishes one Story from each account it names, one account after   *)
(* the other, and writes what became of each at the end.  Around it the       *)
(* session locks, which other processes take too, Telegram, the other         *)
(* requests, the operator's cancel, crashes and midnight.                     *)
(*                                                                            *)
(* The switches, the allowlist and the mode are environment variables: they   *)
(* are on for the life of a process.  An authorisation is issued and used by  *)
(* one request; what can go wrong with it is that it has expired.             *)
EXTENDS Naturals, FiniteSets, Sequences

CONSTANTS
  Requests,  \* web requests; a run has the name of its request
  Accounts,
  Wants,     \* the accounts a request names, in its order, each once
  DailyCap,  \* max_stories_per_account_per_day
  MaxDay,    \* bound: midnights
  MaxStale,  \* bound: runs that are left alone for an hour
  Clinging,  \* accounts whose clients may stay connected when the disconnect raises
  Shared,    \* accounts whose sessions other processes use
  Nobody, Other   \* who holds a session lock, if not a request

NoAccount == "no account"

(* execute_controlled_live_run drops the repetitions of a request.            *)
ASSUME StoryAssumption ==
  /\ Shared \subseteq Accounts
  /\ IsFiniteSet(Requests) /\ NoAccount \notin Accounts
  /\ Wants \in [Requests -> Seq(Accounts) \ {<<>>}]
  /\ \A r \in Requests : \A i, j \in DOMAIN Wants[r] : Wants[r][i] = Wants[r][j] => i = j
  /\ DailyCap \in Nat \ {0} /\ MaxDay \in Nat
  /\ MaxStale \in Nat /\ Clinging \subseteq Accounts
  /\ Nobody # Other /\ {Nobody, Other} \cap Requests = {}

VARIABLES
  pc, todo, cur,   \* of a request: its place, the accounts to go, the one in hand
  result,     \* what it knows of each account
  rstat, steps, stale,   \* of a run: status, StoryRunStep rows, idle for an hour
  holder,     \* of the lock of a session
  online,     \* sessions that are connected: <<request, account>>
  adrift,     \* those of them whose disconnect raised
  flight, accepted,   \* SendStoryRequests under way, and taken by Telegram
  rows,       \* Story rows: <<request, account, day>>
  count, countDay,   \* of an account: stories_today, and of which day
  day,
  overlapped, \* history: runs that began beside one with a common account ahead
  unwritten   \* history: <<request, account>> whose answer was not recorded

runs == <<rstat, steps, stale>>
request == <<pc, todo, cur, result>>
telegram == <<online, adrift, flight, accepted>>
account == <<rows, count, countDay>>
history == <<overlapped, unwritten>>
vars == <<request, runs, holder, telegram, account, day, history>>

Places == {"idle", "gated", "next", "open", "upload", "send", "close", "unlock", "done"}
Outcomes == {"ok", "failed", "ambiguous_no_retry"}
Statuses == {"completed", "failed", "completed_with_errors", "ambiguous_no_retry", "cancelled"}

TypeOK ==
  /\ pc \in [Requests -> Places]
  /\ todo \in [Requests -> Seq(Accounts)]
  /\ cur \in [Requests -> Accounts \cup {NoAccount}]
  /\ result \in [Requests -> [Accounts -> Outcomes \cup {"none"}]]
  /\ rstat \in [Requests -> Statuses \cup {"none", "running"}]
  /\ steps \in [Requests -> [Accounts -> Outcomes \cup {"none"}]]
  /\ stale \in SUBSET Requests
  /\ holder \in [Accounts -> Requests \cup {Nobody, Other}]
  /\ online \in SUBSET (Requests \X Accounts)
  /\ adrift \in SUBSET (Requests \X Accounts)
  /\ flight \in SUBSET (Requests \X Accounts)
  /\ accepted \in SUBSET (Requests \X Accounts)
  /\ rows \in SUBSET (Requests \X Accounts \X (0..MaxDay))
  /\ count \in [Accounts -> Nat] /\ countDay \in [Accounts -> 0..MaxDay]
  /\ day \in 0..MaxDay
  /\ overlapped \in SUBSET Requests
  /\ unwritten \in SUBSET (Requests \X Accounts)

NoResult == [a \in Accounts |-> "none"]

Init ==
  /\ pc = [r \in Requests |-> "idle"]
  /\ todo = [r \in Requests |-> <<>>]
  /\ cur = [r \in Requests |-> NoAccount]
  /\ result = [r \in Requests |-> NoResult]
  /\ rstat = [r \in Requests |-> "none"]
  /\ steps = [r \in Requests |-> NoResult]
  /\ stale = {}
  /\ holder = [a \in Accounts |-> Nobody]
  /\ online = {} /\ adrift = {} /\ flight = {} /\ accepted = {}
  /\ rows = {}
  /\ count = [a \in Accounts |-> 0] /\ countDay = [a \in Accounts |-> 0]
  /\ day = 0
  /\ overlapped = {} /\ unwritten = {}

-----------------------------------------------------------------------------
Goto(r, p) == pc' = [pc EXCEPT ![r] = p]
Note(r, o) == result' = [result EXCEPT ![r][cur[r]] = o]
Named(r) == {Wants[r][i] : i \in DOMAIN Wants[r]}
Ahead(r) == {cur[r]} \cup {todo[r][i] : i \in DOMAIN todo[r]}
Active == {r \in Requests : pc[r] \notin {"idle", "done"}}

(* ensure_stories_today_current: a count of another day is none.              *)
Effective(a) == IF countDay[a] = day THEN count[a] ELSE 0

(* classify_story_run.                                                        *)
StaleRunning == \E r \in stale : rstat[r] = "running"

(* Slip: an account that has reached the cap passes.                          *)
StoryReady_AtCap(a) == Effective(a) =< DailyCap

(* evaluate_account_story_runtime.  An account that is blocked for another    *)
(* reason, the cooldown among them, is one no request names then.             *)
StoryReady(a) == Effective(a) < DailyCap

(* evaluate_controlled_live_run_gates, the switches being on.                 *)
GatesOpen(r) == ~StaleRunning /\ \A a \in Named(r) : StoryReady(a)

-----------------------------------------------------------------------------
(* The request.                                                               *)

(* build_story_rotation_precheck and the gates, in one transaction, which     *)
(* also keeps the counters it has rolled over.                                *)
PassGates(r) ==
  /\ pc[r] = "idle" /\ GatesOpen(r)
  /\ Goto(r, "gated")
  /\ todo' = [todo EXCEPT ![r] = Wants[r]]
  /\ count' = [a \in Accounts |-> IF a \in Named(r) THEN Effective(a) ELSE count[a]]
  /\ countDay' = [a \in Accounts |-> IF a \in Named(r) THEN day ELSE countDay[a]]
  /\ overlapped' = IF \E q \in Active : Ahead(q) \cap Named(r) # {}
                   THEN overlapped \cup {r} ELSE overlapped
  /\ UNCHANGED <<cur, result, runs, holder, telegram, rows, day, unwritten>>

StartRun(r) ==
  /\ pc[r] = "gated"
  /\ Goto(r, "next")
  /\ rstat' = [rstat EXCEPT ![r] = "running"]
  /\ UNCHANGED <<todo, cur, result, steps, stale, holder, telegram, account, day, history>>

Take(r, a) ==
  /\ pc[r] = "next" /\ todo[r] # <<>> /\ a = Head(todo[r])
  /\ todo' = [todo EXCEPT ![r] = Tail(@)]

(* open_controlled_story_client: the lock first.                              *)
LockSession(r, a) ==
  /\ Take(r, a)
  /\ holder[a] = Nobody
  /\ cur' = [cur EXCEPT ![r] = a]
  /\ holder' = [holder EXCEPT ![a] = r]
  /\ Goto(r, "open")
  /\ UNCHANGED <<result, runs, telegram, account, day, history>>

(* Slip: the wait for the lock has no limit, only the guard says no.          *)
CannotOpen_Waits(r, a) ==
  /\ Take(r, a)
  /\ holder[a] = Nobody
  /\ result' = [result EXCEPT ![r][a] = "failed"]
  /\ UNCHANGED <<pc, cur, runs, holder, telegram, account, day, history>>

(* Thirty seconds without the lock, or the execution guard says no.           *)
CannotOpen(r, a) ==
  /\ Take(r, a)
  /\ result' = [result EXCEPT ![r][a] = "failed"]
  /\ UNCHANGED <<pc, cur, runs, holder, telegram, account, day, history>>

(* Connected and authorised by Telegram, and an authorisation is issued.      *)
Connect(r) ==
  /\ pc[r] = "open"
  /\ Goto(r, "upload")
  /\ online' = online \cup {<<r, cur[r]>>}
  /\ UNCHANGED <<todo, cur, result, runs, holder, adrift, flight, accepted, account, day, history>>

(* The disconnect raises: the error is caught and the client stays connected. *)
StaysConnected(r) ==
  /\ cur[r] \in Clinging
  /\ online' = online \cup {<<r, cur[r]>>}
  /\ adrift' = adrift \cup {<<r, cur[r]>>}

(* No account, no session, no connection, not authorised or an error after    *)
(* the connection, and the client is disconnected then or not.                *)
ConnectFails(r) ==
  /\ pc[r] = "open"
  /\ Goto(r, "unlock")
  /\ Note(r, "failed")
  /\ UNCHANGED <<online, adrift>> \/ StaysConnected(r)
  /\ UNCHANGED <<todo, cur, runs, holder, flight, accepted, account, day, history>>

(* No authorisation: publish_story is refused before it does anything.        *)
Denied(r) ==
  /\ pc[r] = "upload"
  /\ Goto(r, "close")
  /\ Note(r, "failed")
  /\ UNCHANGED <<todo, cur, runs, holder, telegram, account, day, history>>

(* The media, a mention, the upload, or the authorisation has expired by now. *)
NotSent(r) ==
  /\ pc[r] = "upload"
  /\ Goto(r, "close")
  /\ Note(r, "failed")
  /\ UNCHANGED <<todo, cur, runs, holder, telegram, account, day, history>>

(* invoke_send_story.                                                         *)
SendStory(r) ==
  /\ pc[r] = "upload"
  /\ Goto(r, "send")
  /\ flight' = flight \cup {<<r, cur[r]>>}
  /\ UNCHANGED <<todo, cur, result, runs, holder, online, adrift, accepted, account, day, history>>

(* An error, whatever Telegram has made of the request or will.               *)
SendRaises(r) ==
  /\ pc[r] = "send"
  /\ Goto(r, "close")
  /\ Note(r, "failed")
  /\ UNCHANGED <<todo, cur, runs, holder, telegram, account, day, history>>

(* Telegram answers; the row and the counter, in one transaction.             *)
Record(r) ==
  LET a == cur[r]
  IN  /\ pc[r] = "send" /\ <<r, cur[r]>> \in accepted
      /\ Goto(r, "close")
      /\ Note(r, "ok")
      /\ rows' = rows \cup {<<r, a, day>>}
      /\ count' = [count EXCEPT ![a] = Effective(a) + 1]
      /\ countDay' = [countDay EXCEPT ![a] = day]
      /\ UNCHANGED <<todo, cur, runs, holder, telegram, day, history>>

(* Slip: a transaction that fails makes a plain failure.                      *)
RecordFails_Plain(r) ==
  /\ pc[r] = "send" /\ <<r, cur[r]>> \in accepted
  /\ unwritten' = unwritten \cup {<<r, cur[r]>>}
  /\ Goto(r, "close")
  /\ Note(r, "failed")
  /\ UNCHANGED <<todo, cur, runs, holder, telegram, account, day, overlapped>>

(* The transaction fails after Telegram has accepted.                         *)
RecordFails(r) ==
  /\ pc[r] = "send" /\ <<r, cur[r]>> \in accepted
  /\ unwritten' = unwritten \cup {<<r, cur[r]>>}
  /\ Goto(r, "close")
  /\ Note(r, "ambiguous_no_retry")
  /\ UNCHANGED <<todo, cur, runs, holder, telegram, account, day, overlapped>>

(* Slip: the lock is released before the client is disconnected.              *)
CloseClient_Late(r) ==
  /\ pc[r] = "close"
  /\ Goto(r, "next")
  /\ holder' = [holder EXCEPT ![cur[r]] = Nobody]
  /\ UNCHANGED <<todo, cur, result, runs, telegram, account, day, history>>

(* Disconnect first, then release the lock, also of a client that stays.      *)
CloseClient(r) ==
  /\ pc[r] = "close"
  /\ Goto(r, "unlock")
  /\ \/ online' = online \ {<<r, cur[r]>>} /\ UNCHANGED adrift
     \/ StaysConnected(r)
  /\ UNCHANGED <<todo, cur, result, runs, holder, flight, accepted, account, day, history>>

UnlockSession(r) ==
  /\ pc[r] = "unlock"
  /\ Goto(r, "next")
  /\ cur' = [cur EXCEPT ![r] = NoAccount]
  /\ holder' = [holder EXCEPT ![cur[r]] = Nobody]
  /\ UNCHANGED <<todo, result, runs, telegram, account, day, history>>

Got(r, o) == \E a \in Accounts : result[r][a] = o

(* Slip: a status nobody knows.                                               *)
Verdict_Partial(r) == IF Got(r, "failed") /\ Got(r, "ok") THEN "partial" ELSE "completed"

Verdict(r) ==
  IF Got(r, "ambiguous_no_retry") THEN "ambiguous_no_retry"
  ELSE IF ~Got(r, "failed") THEN "completed"
  ELSE IF ~Got(r, "ok") THEN "failed" ELSE "completed_with_errors"

(* The event loop of the request ends, and with it what it has connected.     *)
Disconnected(r) ==
  /\ online' = {c \in online : c[1] # r}
  /\ adrift' = {c \in adrift : c[1] # r}

(* The steps and the status, whatever status the run has by now.              *)
Finalize(r) ==
  /\ pc[r] = "next" /\ todo[r] = <<>>
  /\ Goto(r, "done")
  /\ result' = [result EXCEPT ![r] = NoResult]
  /\ steps' = [steps EXCEPT ![r] = result[r]]
  /\ rstat' = [rstat EXCEPT ![r] = Verdict(r)]
  /\ stale' = stale \ {r}
  /\ Disconnected(r)
  /\ UNCHANGED <<todo, cur, holder, flight, accepted, account, day, history>>

(* The run stays "running".                                                   *)
FinalizeFails(r) ==
  /\ pc[r] = "next" /\ todo[r] = <<>>
  /\ Goto(r, "done")
  /\ result' = [result EXCEPT ![r] = NoResult]
  /\ Disconnected(r)
  /\ UNCHANGED <<todo, cur, runs, holder, flight, accepted, account, day, history>>

(* The process of the request dies: the system drops its locks and sockets.   *)
ProcessDies(r) ==
  /\ r \in Active
  /\ Goto(r, "done")
  /\ result' = [result EXCEPT ![r] = NoResult]
  /\ todo' = [todo EXCEPT ![r] = <<>>] /\ cur' = [cur EXCEPT ![r] = NoAccount]
  /\ holder' = [a \in Accounts |-> IF holder[a] = r THEN Nobody ELSE holder[a]]
  /\ Disconnected(r)
  /\ UNCHANGED <<runs, flight, accepted, account, day, history>>

-----------------------------------------------------------------------------
(* Around it.                                                                 *)

TelegramAccepts(r, a) ==
  /\ <<r, a>> \in flight
  /\ flight' = flight \ {<<r, a>>} /\ accepted' = accepted \cup {<<r, a>>}
  /\ UNCHANGED <<request, runs, holder, online, adrift, account, day, history>>

(* The scheduler, a readiness worker, the gateway, a script.                  *)
OtherLocks(a) ==
  /\ a \in Shared /\ holder[a] = Nobody
  /\ holder' = [holder EXCEPT ![a] = Other]
  /\ UNCHANGED <<request, runs, telegram, account, day, history>>

OtherUnlocks(a) ==
  /\ holder[a] = Other
  /\ holder' = [holder EXCEPT ![a] = Nobody]
  /\ UNCHANGED <<request, runs, telegram, account, day, history>>

(* An hour without a tick: only the end of a run counts as one.               *)
GrowsStale(r) ==
  /\ rstat[r] = "running" /\ Cardinality(stale) < MaxStale
  /\ r \notin stale
  /\ stale' = stale \cup {r}
  /\ UNCHANGED <<request, rstat, steps, holder, telegram, account, day, history>>

(* cancel_story_run: the request that runs it does not look.                  *)
CancelRun(r) ==
  /\ rstat[r] \notin {"none", "completed", "failed", "cancelled"}
  /\ rstat' = [rstat EXCEPT ![r] = "cancelled"] /\ stale' = stale \ {r}
  /\ UNCHANGED <<request, steps, holder, telegram, account, day, history>>

Midnight ==
  /\ day < MaxDay
  /\ day' = day + 1
  /\ UNCHANGED <<request, runs, holder, telegram, account, history>>

-----------------------------------------------------------------------------
Run(r) ==
  \/ StartRun(r) \/ Connect(r) \/ ConnectFails(r) \/ Denied(r) \/ NotSent(r) \/ SendStory(r)
  \/ SendRaises(r) \/ Record(r) \/ RecordFails(r)
  \/ CloseClient(r) \/ UnlockSession(r) \/ Finalize(r) \/ FinalizeFails(r)
  \/ \E a \in Accounts : LockSession(r, a) \/ CannotOpen(r, a)

Operate(r) ==
  CancelRun(r) \/ GrowsStale(r) \/ ProcessDies(r) \/ PassGates(r)

Outside(a) ==
  \/ OtherLocks(a) \/ OtherUnlocks(a)
  \/ \E r \in Requests : TelegramAccepts(r, a)

Next ==
  \/ \E r \in Requests : Run(r) \/ Operate(r)
  \/ \E a \in Accounts : Outside(a)
  \/ Midnight

Spec == Init /\ [][Next]_vars

(* A wait for a lock or for Telegram ends, the steps between take no wait.    *)
FairSpec == Spec /\ WF_vars(\E r \in Requests : Run(r))

-----------------------------------------------------------------------------
(* Properties.                                                                *)

(* A request that works with a session has connected it under its lock, and   *)
(* whoever is connected without the lock is a client whose disconnect raised, *)
(* which its request works with no more: open_controlled_story_client and     *)
(* ControlledStoryClientLease.close, beside crashes, errors and the other     *)
(* processes.                                                                 *)
SessionIsExclusive ==
  /\ \A r \in Requests : pc[r] \in {"upload", "send"} =>
       /\ holder[cur[r]] = r
       /\ <<r, cur[r]>> \in online \ adrift
  /\ \A c \in online : holder[c[2]] = c[1] \/ c \in adrift

(* What a run has written of an account is so: "ok" has a Story row, what is  *)
(* ambiguous is what Telegram accepted and the database did not take, and     *)
(* nothing like that hides behind a plain failure (publish_story, then        *)
(* _finalize_multi_run at the end of the run).                                *)
StepsAreHonest ==
  \A r \in Requests, a \in Accounts :
    LET recorded == \E d \in 0..day : <<r, a, d>> \in rows
    IN  /\ steps[r][a] = "ok" => recorded
        /\ steps[r][a] = "ambiguous_no_retry" => <<r, a>> \in unwritten \cap accepted
        /\ steps[r][a] = "failed" => ~recorded /\ <<r, a>> \notin unwritten

RowsToday(a) == Cardinality({s \in rows : s[2] = a /\ s[3] = day})

(* An account publishes at most its daily cap, but for runs that began while  *)
(* another with the account was under way: the gates read a count that the    *)
(* end of the other changes.                                                  *)
DailyCapHolds ==
  \A a \in Accounts : RowsToday(a) =< DailyCap + Cardinality({r \in overlapped : a \in Named(r)})

(* Again and again no request is under way: each comes to an end, whatever    *)
(* holds the locks, for a request runs once.                                  *)
RequestEnds == []<>(Active = {})

=============================================================================
