---------------------------- MODULE JobGeneration ----------------------------
(* Recurring posts: schedule rules, chat targets and bindings kept by the    *)
(* web process, the daily generator that turns them into scheduled_jobs, and *)
(* the loop that claims and executes those jobs.                             *)
(*                                                                           *)
(* Generator and executor run in one process, one after the other; the web   *)
(* process runs beside it.  Every transaction is one action, except that the *)
(* generator reads outside a transaction until its first INSERT takes        *)
(* SQLite's write lock, which it then holds to its commit.                   *)
(*                                                                           *)
(* The executor is reduced to what a job leaves behind; SchedulerJobs has    *)
(* its steps.  Each account has one rule and one profile.                    *)
(*                                                                           *)
(* Row ids are those of SQLite without AUTOINCREMENT: one more than the      *)
(* largest id in the table, so the id of a deleted row can come back.        *)
EXTENDS Integers, FiniteSets, FiniteSetsExt, Functions

CONSTANTS
  Accounts, Chats,
  Edited,       \* accounts with a rule at the start that the operator edits by hand,
                \* the others have what he applies to them in bulk
  StartTargets, \* chat_targets at the start
  MaxTargets,   \* bound: ids of chat_targets
  MaxRows,      \* bound: ids of scheduled_jobs
  MaxMade,      \* bound: jobs ever made
  MaxDay,       \* bound: days
  MaxEvents     \* bound: the operator's requests, crashes and database errors

ASSUME GenerationAssumption ==
  /\ Edited \subseteq Accounts
  /\ IsFiniteSet(Chats) /\ Cardinality(Chats) >= StartTargets
  /\ StartTargets \in 1..MaxTargets
  /\ MaxTargets \in Nat \ {0} /\ MaxRows \in Nat \ {0} /\ MaxMade \in Nat \ {0}
  /\ MaxDay \in Nat /\ MaxEvents \in Nat

VARIABLES
  chat,       \* chat_targets: the chat of each id in use
  bound,      \* account_target_bindings that can post
  mode, sel,  \* each account's rule: what it addresses
  page,       \* the targets as the operator's page shows them
  meant,      \* history: the chats the operator selected in each rule
  outdated,   \* history: rules saved from a page that showed a target that was gone
  jobs,       \* rows of scheduled_jobs, with their deliveries
  made,       \* history: jobs made so far
  today, evening,    \* the UTC date; is it tomorrow already at the owner's?
  lastGen,    \* LAST_GEN_DATE of the scheduler process
  generated,  \* history: days on which a generator cycle committed
  phase,      \* where the scheduler process is
  genDay, left, todo, pick,  \* the generator's locals
  fresh,      \* its uncommitted rows
  batch, cur, \* the executor: claimed ids; the row it loaded
  posts,      \* history: messages Telegram accepted
  cancelling, \* cancel requests that have read PENDING
  events

targets == <<chat, bound>>
rules == <<mode, sel, page, meant, outdated>>
clock == <<today, evening>>
generator == <<lastGen, generated, genDay, left, todo, pick, fresh>>
executor == <<batch, cur, posts>>
vars == <<targets, rules, jobs, made, clock, generator, phase, executor, cancelling, events>>

Modes == {"off", "ALL_BOUND", "ONLY_SELECTED"}
Present == {"PENDING", "SKIPPED", "SENT", "RUNNING"}
Never == -1
Days == 0..MaxDay

(* A row of scheduled_jobs.  Of run_at only this is kept: is it on the day   *)
(* the row was made for (birth)?  uid, orig, origin and moved are history:   *)
(* which row ever made this is, for which chat, who asked for it, and        *)
(* whether a merge of targets ever gave it another.                          *)
Rows == [id : 1..MaxRows, acct : Accounts, target : 1..MaxTargets,
         birth : Days, onDay : BOOLEAN,
         status : Present \cup {"FAILED", "CANCELLED"},
         delivery : {"none", "SENDING", "UNCERTAIN", "ended"},
         uid : 1..MaxMade, orig : Chats, origin : {"rule", "test"},
         moved : BOOLEAN]

TypeOK ==
  /\ DOMAIN chat \subseteq 1..MaxTargets /\ \A t \in DOMAIN chat : chat[t] \in Chats
  /\ bound \subseteq Accounts \X DOMAIN chat
  /\ mode \in [Accounts -> Modes]
  /\ sel \in [Accounts -> SUBSET (1..MaxTargets)] /\ meant \in [Accounts -> SUBSET Chats]
  /\ DOMAIN page \subseteq 1..MaxTargets /\ \A t \in DOMAIN page : page[t] \in Chats
  /\ outdated \subseteq Accounts
  /\ jobs \subseteq Rows /\ fresh \subseteq Rows /\ cur \subseteq Rows
  /\ made \in 0..MaxMade
  /\ \A r, s \in jobs \cup fresh : r.id = s.id => r = s
  /\ \A r \in jobs \cup fresh : r.target \in DOMAIN chat
  /\ today \in 0..MaxDay /\ evening \in BOOLEAN
  /\ lastGen \in {Never} \cup 0..MaxDay /\ generated \subseteq 0..MaxDay
  /\ genDay \in {Never} \cup 0..MaxDay
  /\ phase \in {"loop", "plan", "check", "insert", "claim", "run", "send", "posted"}
  /\ left \subseteq Accounts
  /\ todo \cup pick \subseteq Accounts \X (1..MaxTargets) \X Days
  /\ batch \cup cancelling \subseteq 1..MaxRows
  /\ events \in 0..MaxEvents

Init ==
  /\ chat = CHOOSE f \in [1..StartTargets -> Chats] : IsInjective(f)
  /\ bound = Edited \X (1..StartTargets)
  /\ mode = [a \in Accounts |-> IF a \in Edited THEN "ONLY_SELECTED" ELSE "off"]
  /\ sel = [a \in Accounts |-> IF a \in Edited THEN 1..StartTargets ELSE {}]
  /\ page = chat
  /\ meant = [a \in Accounts |-> IF a \in Edited THEN Range(chat) ELSE {}]
  /\ outdated = {}
  /\ jobs = {} /\ made = 0
  /\ today = 0 /\ evening = FALSE
  /\ lastGen = Never /\ generated = {}
  /\ phase = "loop" /\ genDay = Never /\ left = {} /\ todo = {} /\ pick = {} /\ fresh = {}
  /\ batch = {} /\ cur = {} /\ posts = {}
  /\ cancelling = {} /\ events = 0

-----------------------------------------------------------------------------
(* Helpers.                                                                  *)

(* The calendar day in the zone of the owner, who is ahead of UTC.           *)
LocalDay == IF evening THEN today + 1 ELSE today

NextId(ids) == IF ids = {} THEN 1 ELSE Max(ids) + 1
JobIds == {r.id : r \in jobs \cup fresh}

NewRow(a, t, d, on, from) ==
  [id |-> NextId(JobIds), acct |-> a, target |-> t, birth |-> d, onDay |-> on,
   status |-> "PENDING", delivery |-> "none",
   uid |-> made + 1, orig |-> chat[t], origin |-> from, moved |-> FALSE]

(* Bounded room for one more row, beside the one the generator is about to   *)
(* insert.                                                                   *)
Room == /\ made + Cardinality(pick) < MaxMade
        /\ NextId(JobIds) + Cardinality(pick) =< MaxRows

RowOf(i) == {r \in jobs : r.id = i}

Goto(from, to) == phase = from /\ phase' = to

Event == events < MaxEvents /\ events' = events + 1

(* A request to the web process: one at a time (one synchronous worker), and *)
(* not while the generator holds the write lock.                             *)
Request ==
  /\ fresh = {}
  /\ Event
  /\ UNCHANGED <<clock, generator, phase, executor>>

Select(a, m, ids, chats, old) ==
  /\ mode' = [mode EXCEPT ![a] = m]
  /\ sel' = [sel EXCEPT ![a] = ids]
  /\ meant' = [meant EXCEPT ![a] = chats]
  /\ outdated' = IF old THEN outdated \cup {a} ELSE outdated \ {a}
  /\ UNCHANGED page

-----------------------------------------------------------------------------
(* Slips: the way a definition below might be got wrong.  No behaviour of    *)
(* Spec uses them; each run's properties are known to notice them.           *)

(* Slip: a job that is being executed does not count as the day's job.       *)
JobExists_NotRunning(a, t, d) ==
  \E r \in jobs \cup fresh :
    /\ r.acct = a /\ r.target = t /\ r.birth = d /\ r.onDay
    /\ r.status \in Present \ {"RUNNING"}

(* Slip: LAST_GEN_DATE is set although the generator raised.                 *)
GenFails_Marked ==
  /\ phase \in {"plan", "check", "insert"} /\ phase' = "loop"
  /\ Event
  /\ fresh' = {} /\ pick' = {} /\ todo' = {} /\ left' = {} /\ genDay' = Never
  /\ lastGen' = genDay
  /\ UNCHANGED <<targets, rules, jobs, made, clock, generated, executor, cancelling>>

(* Slip: the rules keep the id of a deleted target.                          *)
DeleteTarget_KeepsRules(t) ==
  /\ Request
  /\ t \in DOMAIN chat
  /\ jobs' = {r \in jobs : r.target # t}
  /\ bound' = {b \in bound : b[2] # t}
  /\ chat' = Restrict(chat, DOMAIN chat \ {t})
  /\ UNCHANGED <<rules, made, cancelling>>

(* Slip: a status outside the enumeration.                                   *)
RunSkips_Denied(i) ==
  /\ Goto("run", "run")
  /\ i \in batch /\ batch' = batch \ {i}
  /\ jobs' = {IF r.id = i THEN [r EXCEPT !.status = "DENIED"] ELSE r : r \in jobs}
  /\ UNCHANGED <<targets, rules, made, clock, generator, cur, posts, cancelling, events>>

-----------------------------------------------------------------------------
(* The generator.                                                            *)

(* The top of the loop: once per UTC date and process.                       *)
LoopStart ==
  /\ Goto("loop", IF lastGen # today THEN "plan" ELSE "claim")
  /\ genDay' = IF lastGen # today THEN today ELSE Never
  /\ left' = IF lastGen # today THEN {a \in Accounts : mode[a] # "off"} ELSE {}
  /\ UNCHANGED <<targets, rules, jobs, made, clock, lastGen, generated, todo, pick, fresh,
                 executor, cancelling, events>>

(* _resolve_targets: the rows that exist of those selected or bound.         *)
ResolveTargets(a) ==
  CASE mode[a] = "ONLY_SELECTED" -> sel[a] \cap DOMAIN chat
    [] mode[a] = "ALL_BOUND" -> {t \in DOMAIN chat : <<a, t>> \in bound}
    [] OTHER -> {}

GenAccount(a) ==
  /\ Goto("plan", "check")
  /\ a \in left /\ left' = left \ {a}
  /\ todo' = {<<a, t, LocalDay>> : t \in ResolveTargets(a)}
  /\ UNCHANGED <<targets, rules, jobs, made, clock, lastGen, generated, genDay, pick, fresh,
                 executor, cancelling, events>>

GenNext ==
  /\ Goto("check", "plan")
  /\ todo = {}
  /\ UNCHANGED <<targets, rules, jobs, made, clock, generator, executor, cancelling, events>>

(* _job_exists: FAILED and CANCELLED jobs of the day do not count.  A job    *)
(* moved here from another day counts too: GenSkip.                          *)
JobExists(a, t, d) ==
  \E r \in jobs \cup fresh :
    r.acct = a /\ r.target = t /\ r.birth = d /\ r.onDay /\ r.status \in Present

(* evaluate_generation_eligibility, as far as this state tells: whatever     *)
(* else it asks may say no, see GenSkip.                                     *)
Eligible(a, t) == t \in DOMAIN chat /\ <<a, t>> \in bound

GenSkip(x) ==
  /\ Goto("check", "check")
  /\ x \in todo /\ todo' = todo \ {x}
  /\ UNCHANGED <<targets, rules, jobs, made, clock, lastGen, generated, genDay, left, pick,
                 fresh, executor, cancelling, events>>

GenPick(a, t, d) ==
  /\ Goto("check", "insert")
  /\ <<a, t, d>> \in todo /\ todo' = todo \ {<<a, t, d>>}
  /\ ~JobExists(a, t, d) /\ Eligible(a, t)
  /\ Room
  /\ pick' = {<<a, t, d>>}
  /\ UNCHANGED <<targets, rules, jobs, made, clock, lastGen, generated, genDay, left, fresh,
                 executor, cancelling, events>>

(* The INSERT; the jitter may carry run_at past midnight.                    *)
GenInsert(a, t, d, on) ==
  /\ Goto("insert", "check")
  /\ <<a, t, d>> \in pick /\ pick' = {}
  /\ t \in DOMAIN chat
  /\ fresh' = fresh \cup {NewRow(a, t, d, on, "rule")}
  /\ made' = made + 1
  /\ UNCHANGED <<targets, rules, jobs, clock, lastGen, generated, genDay, left, todo,
                 executor, cancelling, events>>

(* The foreign key refuses a target deleted since it was read, or the        *)
(* database fails: the whole cycle is rolled back, and the next round of the *)
(* loop tries again.                                                         *)
GenFails ==
  /\ phase \in {"plan", "check", "insert"} /\ phase' = "loop"
  /\ \/ \E x \in pick : x[2] \notin DOMAIN chat /\ UNCHANGED events
     \/ Event
  /\ fresh' = {} /\ pick' = {} /\ todo' = {} /\ left' = {} /\ genDay' = Never
  /\ UNCHANGED <<targets, rules, jobs, made, clock, lastGen, generated, executor, cancelling>>

(* The commit, then LAST_GEN_DATE.                                           *)
GenCommit ==
  /\ Goto("plan", "claim")
  /\ left = {}
  /\ jobs' = jobs \cup fresh /\ fresh' = {}
  /\ lastGen' = genDay /\ generated' = generated \cup {genDay} /\ genDay' = Never
  /\ UNCHANGED <<targets, rules, made, clock, left, todo, pick, executor, cancelling,
                 events>>

-----------------------------------------------------------------------------
(* The executor.                                                             *)

(* A due job, or one a crash left RUNNING whose lease is over; neither time  *)
(* is modelled, so the claims may end before them.                           *)
Claim(r) ==
  /\ Goto("claim", "claim")
  /\ r \in jobs /\ r.id \notin batch
  /\ r.status \in {"PENDING", "RUNNING"}
  /\ jobs' = {IF s = r THEN [s EXCEPT !.status = "RUNNING"] ELSE s : s \in jobs}
  /\ batch' = batch \cup {r.id}
  /\ UNCHANGED <<targets, rules, made, clock, generator, cur, posts, cancelling, events>>

ClaimsEnd ==
  /\ Goto("claim", "run")
  /\ UNCHANGED <<targets, rules, jobs, made, clock, generator, executor, cancelling, events>>

BatchEnds ==
  /\ Goto("run", "loop")
  /\ batch = {}
  /\ UNCHANGED <<targets, rules, jobs, made, clock, generator, executor, cancelling, events>>

(* execute_job up to the SENDING row is one step here: the row is gone or    *)
(* finished (nothing happens), or one of the endings before a send.          *)
Runnable(i) == {r \in RowOf(i) : r.status \in {"PENDING", "RUNNING"}}
Take(i) == i \in batch /\ batch' = batch \ {i}

RunGone(i) ==
  /\ Goto("run", "run") /\ Take(i)
  /\ Runnable(i) = {}
  /\ UNCHANGED <<targets, rules, jobs, made, clock, generator, cur, posts, cancelling, events>>

RunEnds(i, st, on) ==
  /\ Goto("run", "run") /\ Take(i)
  /\ Runnable(i) # {}
  /\ jobs' = {IF r.id = i THEN [r EXCEPT !.status = st, !.onDay = @ /\ on] ELSE r : r \in jobs}
  /\ UNCHANGED <<targets, rules, made, clock, generator, cur, posts, cancelling, events>>

RunSkips(i) == RunEnds(i, "SKIPPED", TRUE)
RunFails(i) == RunEnds(i, "FAILED", TRUE)
RunDefers(i, on) == RunEnds(i, "PENDING", on)

(* _preflight_delivery_intent says already_sending.                          *)
RunAlready(i) ==
  /\ Goto("run", "run") /\ Take(i)
  /\ \E r \in Runnable(i) : r.delivery = "SENDING"
  /\ UNCHANGED <<targets, rules, jobs, made, clock, generator, cur, posts, cancelling, events>>

(* The row and its binding are there, and no delivery of it is in doubt.     *)
CreateSending(i) ==
  /\ Goto("run", "send") /\ Take(i)
  /\ cur' = {r \in Runnable(i) : <<r.acct, r.target>> \in bound /\ r.delivery = "none"}
  /\ cur' # {}
  /\ jobs' = {IF r.id = i THEN [r EXCEPT !.delivery = "SENDING"] ELSE r : r \in jobs}
  /\ UNCHANGED <<targets, rules, made, clock, generator, posts, cancelling, events>>

Accept ==
  /\ Goto("send", "posted")
  /\ posts' = posts \cup {[uid |-> c.uid, acct |-> c.acct, orig |-> c.orig, birth |-> c.birth,
                           origin |-> c.origin] : c \in cur}
  /\ UNCHANGED <<targets, rules, jobs, made, clock, generator, batch, cur, cancelling, events>>

(* The endings after it update whatever row has the id now.                  *)
SendEnds(from, st, delivery) ==
  /\ Goto(from, "run")
  /\ jobs' = {IF \E c \in cur : c.id = r.id
                THEN [r EXCEPT !.status = IF st = "same" THEN @ ELSE st, !.delivery = delivery]
                ELSE r : r \in jobs}
  /\ cur' = {}
  /\ UNCHANGED <<targets, rules, made, clock, generator, batch, posts, cancelling, events>>

Refused == SendEnds("send", "FAILED", "ended")
FinalizeSent == SendEnds("posted", "SENT", "ended")

(* The answer is lost, accepted or not.                                      *)
Ambiguous == \E from \in {"send", "posted"} : SendEnds(from, "same", "UNCERTAIN")

Crash ==
  /\ Event
  /\ phase # "loop" /\ phase' = "loop"
  /\ lastGen' = Never /\ genDay' = Never
  /\ left' = {} /\ todo' = {} /\ pick' = {} /\ fresh' = {} /\ batch' = {} /\ cur' = {}
  /\ UNCHANGED <<targets, rules, jobs, made, clock, generated, posts, cancelling>>

-----------------------------------------------------------------------------
(* The web process.                                                          *)

(* A chat already known under its username is reused.                        *)
CreateTarget(c) ==
  /\ Request
  /\ c \notin Range(chat)
  /\ NextId(DOMAIN chat) =< MaxTargets
  /\ chat' = [t \in DOMAIN chat \cup {NextId(DOMAIN chat)} |->
                IF t \in DOMAIN chat THEN chat[t] ELSE c]
  /\ UNCHANGED <<bound, rules, jobs, made, cancelling>>

(* The manual cascade.                                                       *)
DeleteTarget(t) ==
  /\ Request
  /\ t \in DOMAIN chat
  /\ jobs' = {r \in jobs : r.target # t}
  /\ bound' = {b \in bound : b[2] # t}
  /\ sel' = [a \in Accounts |-> sel[a] \ {t}]
  /\ chat' = Restrict(chat, DOMAIN chat \ {t})
  /\ UNCHANGED <<mode, page, meant, outdated, made, cancelling>>

(* Two rows are found to be one chat: d becomes k.                           *)
Merge(k, d) ==
  LET moved(ids) == IF d \in ids THEN (ids \ {d}) \cup {k} ELSE ids IN
  /\ Request
  /\ k # d /\ {k, d} \subseteq DOMAIN chat
  /\ \A a \in Accounts : {<<a, k>>, <<a, d>>} \cap bound # {<<a, k>>, <<a, d>>}
  /\ bound' = {<<b[1], IF b[2] = d THEN k ELSE b[2]>> : b \in bound}
  /\ jobs' = {IF r.target = d THEN [r EXCEPT !.target = k, !.moved = TRUE] ELSE r : r \in jobs}
  /\ sel' = [a \in Accounts |-> moved(sel[a])]
  /\ meant' = [a \in Accounts |-> IF chat[d] \in meant[a] THEN meant[a] \cup {chat[k]}
                                  ELSE meant[a]]
  /\ chat' = Restrict(chat, DOMAIN chat \ {d})
  /\ UNCHANGED <<mode, page, outdated, made, cancelling>>

Bind(a, t) ==
  /\ Request
  /\ t \in DOMAIN chat /\ <<a, t>> \notin bound
  /\ bound' = bound \cup {<<a, t>>}
  /\ UNCHANGED <<chat, rules, jobs, made, cancelling>>

Unbind(a, t) ==
  /\ Request
  /\ <<a, t>> \in bound /\ bound' = bound \ {<<a, t>>}
  /\ UNCHANGED <<chat, rules, jobs, made, cancelling>>

(* The operator's page lists the targets.                                    *)
LoadPage ==
  /\ page # chat /\ page' = chat
  /\ UNCHANGED <<targets, mode, sel, meant, outdated, jobs, made, clock, generator, phase,
                 executor, cancelling, events>>

(* The ids as the page has them, whether there are such targets or not.      *)
SetRule(a, ids) ==
  /\ Request
  /\ Select(a, IF ids = {} THEN "ALL_BOUND" ELSE "ONLY_SELECTED", ids, {page[t] : t \in ids},
            \E t \in ids : t \notin DOMAIN chat \/ chat[t] # page[t])
  /\ UNCHANGED <<targets, jobs, made, cancelling>>

DeleteRule(a) ==
  /\ Request
  /\ mode[a] # "off"
  /\ Select(a, "off", {}, {}, FALSE)
  /\ UNCHANGED <<targets, jobs, made, cancelling>>

(* bulk_apply_schedule to one account.                                       *)
BulkApply(a, b) ==
  /\ Request
  /\ a # b
  /\ Select(b, mode[a], sel[a], meant[a], a \in outdated)
  /\ bound' = bound \cup {<<b, x[2]>> : x \in {y \in bound : y[1] = a}}
  /\ UNCHANGED <<chat, jobs, made, cancelling>>

(* run_job_now: a PENDING job, due at once.                                  *)
RunNow(a, t) ==
  /\ Request
  /\ <<a, t>> \in bound
  /\ Room
  /\ jobs' = jobs \cup {NewRow(a, t, LocalDay, TRUE, "test")}
  /\ made' = made + 1
  /\ UNCHANGED <<targets, rules, cancelling>>

(* operator_cancel_job: reads PENDING, then writes by id.                    *)
CancelRead(i) ==
  /\ Request
  /\ cancelling = {}
  /\ \E r \in RowOf(i) : r.status = "PENDING"
  /\ cancelling' = {i}
  /\ UNCHANGED <<targets, rules, jobs, made>>

CancelWrite(i) ==
  /\ i \in cancelling /\ cancelling' = cancelling \ {i}
  /\ fresh = {}
  /\ jobs' = {IF r.id = i THEN [r EXCEPT !.status = "CANCELLED"] ELSE r : r \in jobs}
  /\ UNCHANGED <<targets, rules, made, clock, generator, phase, executor, events>>

(* cleanup_orphan_scheduler_profile: the foreign key of a delivery refuses   *)
(* to let its job go.                                                        *)
Cleanup(a) ==
  /\ Request
  /\ \A b \in bound : b[1] # a
  /\ \A r \in jobs : r.acct = a => r.delivery = "none"
  /\ jobs' = {r \in jobs : r.acct # a}
  /\ Select(a, "off", {}, {}, FALSE)
  /\ UNCHANGED <<targets, made, cancelling>>

-----------------------------------------------------------------------------
(* The clock.                                                                *)

Evening ==
  /\ ~evening /\ evening' = TRUE
  /\ today < MaxDay
  /\ UNCHANGED <<targets, rules, jobs, made, today, generator, phase, executor, cancelling,
                 events>>

NextDay ==
  /\ evening /\ evening' = FALSE
  /\ today' = today + 1
  /\ UNCHANGED <<targets, rules, jobs, made, generator, phase, executor, cancelling, events>>

-----------------------------------------------------------------------------
Generate ==
  \/ LoopStart \/ GenNext \/ GenFails \/ GenCommit
  \/ \E a \in left : GenAccount(a)
  \/ \E x \in todo : GenSkip(x) \/ GenPick(x[1], x[2], x[3])
  \/ \E x \in pick, on \in BOOLEAN : GenInsert(x[1], x[2], x[3], on)

Execute ==
  \/ \E r \in jobs : Claim(r)
  \/ ClaimsEnd \/ BatchEnds
  \/ \E i \in batch :
       \/ RunGone(i) \/ RunSkips(i) \/ RunFails(i) \/ RunAlready(i) \/ CreateSending(i)
       \/ \E on \in BOOLEAN : RunDefers(i, on)
  \/ Accept \/ Refused \/ FinalizeSent \/ Ambiguous

Web ==
  \/ LoadPage
  \/ \E c \in Chats : CreateTarget(c)
  \/ \E t \in DOMAIN chat : DeleteTarget(t)
  \/ \E k, d \in DOMAIN chat : Merge(k, d)
  \/ \E a \in Edited, t \in DOMAIN chat : Bind(a, t) \/ Unbind(a, t) \/ RunNow(a, t)
  \/ \E a \in Edited, ids \in SUBSET DOMAIN page : SetRule(a, ids)
  \/ \E a \in Edited : DeleteRule(a) \/ Cleanup(a)
  \/ \E a \in Edited, b \in Accounts : BulkApply(a, b)
  \/ \E i \in 1..MaxRows : CancelRead(i)
  \/ \E i \in cancelling : CancelWrite(i)

Next == Generate \/ Execute \/ Web \/ Crash \/ Evening \/ NextDay

Spec == Init /\ [][Next]_vars

-----------------------------------------------------------------------------
(* Properties.                                                               *)

(* The day's record of a post: its row, on the day it was made for and with  *)
(* the target it was made for.                                               *)
OnRecord(p) ==
  \E r \in jobs : r.uid = p.uid /\ r.onDay /\ r.status \in Present /\ ~r.moved

(* However often the scheduler restarts and whatever the operator changes,   *)
(* the timezone of a profile aside, which is fixed here, the rules post to a *)
(* chat from an account a second time for the same day only when the record  *)
(* of the first post is lost: failed (as an uncertain one is), cancelled,    *)
(* deleted, moved to another day, or given to another target by a merge.     *)
LaterPostMeansLostRecord ==
  \A p, q \in posts :
    /\ p.origin = "rule" /\ q.origin = "rule"
    /\ p.acct = q.acct /\ p.orig = q.orig /\ p.birth = q.birth
    /\ p.uid < q.uid
    => ~OnRecord(p)

(* The ids of targets come back, but the ids kept as JSON in a rule never    *)
(* name a chat the operator did not select there, through whatever deletions *)
(* and merges, unless the page he saved it from showed a target that was     *)
(* gone by then: what is posted is not checked (scheduler_routes.py:1641).   *)
RulesNameMeantChats ==
  \A a \in Accounts \ outdated : \A t \in sel[a] : t \in DOMAIN chat /\ chat[t] \in meant[a]

(* A day is ticked off only when its jobs are committed: a cycle that fails  *)
(* is repeated by the next round of the loop.                                *)
MarkedDayIsGenerated == lastGen # Never => lastGen \in generated
=============================================================================
