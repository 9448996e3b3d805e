----------------------------- MODULE SessionPools -----------------------------
(* The Telegram sessions of the accounts, and who holds them.  Every process  *)
(* has a pool of connected clients, ClientManager, and a session is guarded   *)
(* by a lock on a file.  add_account takes a client out of the pool or locks  *)
(* and connects one; some operations remove it from the pool when they are    *)
(* done and some leave it there.  A membership probe connects the account a   *)
(* second time, which replaces the client of the pool.                        *)
(*                                                                            *)
(* A process works on one operation at a time: the web worker is synchronous, *)
(* the scheduler and the gateway take one job after the other.  All is about  *)
(* one chat, and about accounts that pass the gates of an operation: one that *)
(* is denied leaves everything as it is.                                      *)
EXTENDS Integers, FiniteSets

CONSTANTS
  Webs, Loops, Gateways,  \* processes: web workers, scheduler loops, gateways
  Accounts,      \* numbers, in the order in which batches name them
  FileAccounts,  \* accounts with a session file, the others have a string
  MaxOps,        \* bound: operations begun
  MaxDeaths,     \* bound: processes that die
  MaxMoves       \* bound: decisions of the chat's admins

Procs == Webs \cup Loops \cup Gateways
Nobody == "nobody"
NoAccount == 0

ASSUME PoolsAssumption ==
  /\ Accounts \subseteq Nat \ {NoAccount} /\ FileAccounts \subseteq Accounts
  /\ Nobody \notin Procs
  /\ MaxOps \in Nat /\ MaxDeaths \in Nat /\ MaxMoves \in Nat

VARIABLES
  lock,     \* who holds the lock of an account's session
  pool,     \* clients in the pool of a process: with the lock, or bare
  old,      \* of a process: the client it is replacing
  lost,     \* of a process: accounts whose lock is held by a client it lost
  kind, acct, at,   \* of a process: its operation, the account, how far it is
  member,   \* of an account in the chat
  begun, deaths, moves   \* counters for the bounds

ops == <<kind, acct, at>>
bounds == <<begun, deaths, moves>>
sessions == <<lock, pool, old, lost>>
poolVars == <<sessions, ops, member, bounds>>

Clients == {"none", "locked", "bare"}
WebKinds == {"read", "join", "joinAll", "leave", "list", "target", "check",
             "probe", "bulk"}
LoopKinds == {"post"}
KindsOf(p) == {k \in WebKinds : p \in Webs} \cup {k \in LoopKinds : p \in Loops}
              \cup {k \in {"send"} : p \in Gateways}
Kinds == WebKinds \cup LoopKinds \cup {"dm", "send", "none"}
Batches == {"joinAll", "bulk"}

Places == {"idle", "lock", "connect", "use", "relock", "reconnect",
           "replace", "probed", "drop", "busy"}

PoolTypeOK ==
  /\ lock \in [Accounts -> Procs \cup {Nobody}]
  /\ pool \in [Procs -> [Accounts -> Clients]]
  /\ old \in [Procs -> Clients] /\ lost \in [Procs -> SUBSET Accounts]
  /\ kind \in [Procs -> Kinds]
  /\ acct \in [Procs -> Accounts \cup {NoAccount}]
  /\ at \in [Procs -> Places]
  /\ \A p \in Procs : at[p] \notin {"idle", "busy"} => acct[p] \in Accounts
  /\ member \in [Accounts -> {"out", "asked", "in"}]
  /\ begun \in 0..MaxOps /\ deaths \in 0..MaxDeaths /\ moves \in 0..MaxMoves

PoolInit ==
  /\ lock = [a \in Accounts |-> Nobody]
  /\ pool = [p \in Procs |-> [a \in Accounts |-> "none"]]
  /\ old = [p \in Procs |-> "none"] /\ lost = [p \in Procs |-> {}]
  /\ kind = [p \in Procs |-> "none"]
  /\ acct = [p \in Procs |-> NoAccount]
  /\ at = [p \in Procs |-> "idle"]
  /\ member \in [Accounts -> {"out", "in"}]
  /\ begun = 0 /\ deaths = 0 /\ moves = 0

-----------------------------------------------------------------------------
(* Operations begin and end.                                                  *)

Goto(p, place) ==
  /\ at' = [at EXCEPT ![p] = place]
  /\ UNCHANGED <<kind, acct>>

End(p) ==
  /\ at' = [at EXCEPT ![p] = "idle"]
  /\ kind' = [kind EXCEPT ![p] = "none"]
  /\ acct' = [acct EXCEPT ![p] = NoAccount]

Start(p, k, a, place) ==
  /\ at[p] = "idle"
  /\ kind' = [kind EXCEPT ![p] = k]
  /\ acct' = [acct EXCEPT ![p] = a]
  /\ at' = [at EXCEPT ![p] = place]
  /\ UNCHANGED <<sessions, member, deaths, moves>>

(* connect_account takes the lock of a session file, none for a string.       *)
Again(a) == IF a \in FileAccounts THEN "relock" ELSE "reconnect"

(* The list of the chats of an account calls a method ClientManager does not  *)
(* have: nothing is connected, but the account is dropped all the same.  The  *)
(* probe of one binding connects whether the pool has a client or not.        *)
FirstPlace(k, a) ==
  CASE k = "list" -> "drop"
    [] k = "probe" -> Again(a)
    [] OTHER -> "lock"

Begin(p, k, a) ==
  /\ begun < MaxOps /\ k \in KindsOf(p)
  /\ Start(p, k, a, FirstPlace(k, a))
  /\ begun' = begun + 1

(* A direct message that is due.                                              *)
BeginDm(p, a) ==
  /\ p \in Loops
  /\ Start(p, "dm", a, "lock")
  /\ UNCHANGED begun

(* A batch goes on to a later account, those that are not eligible skipped;   *)
(* after the last one a bulk request has its plan to make.                    *)
NextOfBatch(p) ==
  \/ \E a \in Accounts : /\ a > acct[p]
                         /\ acct' = [acct EXCEPT ![p] = a]
                         /\ at' = [at EXCEPT ![p] = "lock"]
                         /\ UNCHANGED kind
  \/ IF kind[p] = "bulk" THEN Goto(p, "busy") ELSE End(p)

Done(p) == IF kind[p] \in Batches THEN NextOfBatch(p) ELSE End(p)

(* A membership check probes one target after the other and then drops the    *)
(* account; the refresh of a binding is one probe.                            *)
NextTarget(p) ==
  IF kind[p] = "check" THEN Goto(p, Again(acct[p])) \/ Goto(p, "drop") ELSE End(p)

(* join_bulk takes a preview that failed for "temporarily unavailable" and    *)
(* tries to join, which adds the account again.                               *)
Failed(p) == Done(p) \/ (kind[p] = "joinAll" /\ Goto(p, "lock"))

-----------------------------------------------------------------------------
(* add_account and connect_account.                                           *)

UsePooled(p) ==
  /\ at[p] = "lock" /\ pool[p][acct[p]] # "none"
  /\ Goto(p, "use")
  /\ UNCHANGED <<sessions, member, bounds>>

WantsLock(p) == at[p] = "relock" \/ (at[p] = "lock" /\ pool[p][acct[p]] = "none")

TakeLock(p) ==
  /\ WantsLock(p) /\ lock[acct[p]] = Nobody
  /\ lock' = [lock EXCEPT ![acct[p]] = p]
  /\ Goto(p, IF at[p] = "lock" THEN "connect" ELSE "reconnect")
  /\ UNCHANGED <<pool, old, lost, member, bounds>>

LockTimesOut(p) ==
  /\ WantsLock(p) /\ lock[acct[p]] # Nobody
  /\ IF at[p] = "lock" THEN Failed(p) ELSE NextTarget(p)
  /\ UNCHANGED <<sessions, member, bounds>>

Connects(p) ==
  /\ at[p] = "connect"
  /\ pool' = [pool EXCEPT ![p][acct[p]] = "locked"]
  /\ Goto(p, "use")
  /\ UNCHANGED <<lock, old, lost, member, bounds>>

Unlocked(p) == [lock EXCEPT ![acct[p]] = IF @ = p THEN Nobody ELSE @]

(* Slip: a connect that fails or is cancelled leaves its orphan alone.        *)
ConnectFails_Orphan(p) ==
  /\ at[p] = "connect"
  /\ Failed(p)
  /\ UNCHANGED <<sessions, member, bounds>>

(* Telegram refuses, or the web request gives up and cancels the coroutine.   *)
ConnectFails(p) ==
  /\ at[p] = "connect"
  /\ lock' = Unlocked(p)
  /\ Failed(p)
  /\ UNCHANGED <<pool, old, lost, member, bounds>>

(* connect_account puts a client with the lock of its file into the pool, or  *)
(* one of a session string, which has none.                                   *)
NewClient(p) == IF acct[p] \in FileAccounts THEN "locked" ELSE "bare"

Reconnects(p) ==
  /\ at[p] = "reconnect" /\ pool[p][acct[p]] = "none"
  /\ pool' = [pool EXCEPT ![p][acct[p]] = NewClient(p)]
  /\ Goto(p, "probed")
  /\ UNCHANGED <<lock, old, lost, member, bounds>>

(* A client in the pool is taken out first, and its disconnect awaited.       *)
TakesOut(p) ==
  /\ at[p] = "reconnect" /\ pool[p][acct[p]] # "none"
  /\ old' = [old EXCEPT ![p] = pool[p][acct[p]]]
  /\ pool' = [pool EXCEPT ![p][acct[p]] = "none"]
  /\ Goto(p, "replace")
  /\ UNCHANGED <<lock, lost, member, bounds>>

(* It is disconnected or raised: its lock is released, the new client put in. *)
Replaces(p) ==
  /\ at[p] = "replace"
  /\ lock' = IF old[p] = "locked" THEN Unlocked(p) ELSE lock
  /\ old' = [old EXCEPT ![p] = "none"]
  /\ pool' = [pool EXCEPT ![p][acct[p]] = NewClient(p)]
  /\ Goto(p, "probed")
  /\ UNCHANGED <<lost, member, bounds>>

(* The time of the target is up first: the cancelled coroutine forgets both   *)
(* clients, and the lock of the old one stays held.                           *)
ReplaceCancelled(p) ==
  /\ at[p] = "replace"
  /\ lost' = IF old[p] = "locked" THEN [lost EXCEPT ![p] = @ \cup {acct[p]}] ELSE lost
  /\ old' = [old EXCEPT ![p] = "none"]
  /\ NextTarget(p)
  /\ UNCHANGED <<lock, pool, member, bounds>>

ReconnectFails(p) ==
  /\ at[p] = "reconnect"
  /\ lock' = IF acct[p] \in FileAccounts THEN Unlocked(p) ELSE lock
  /\ NextTarget(p)
  /\ UNCHANGED <<pool, old, lost, member, bounds>>

(* remove_account, after a probe or at the end of an operation.               *)
AfterDrop(p) == IF at[p] = "probed" THEN NextTarget(p) ELSE End(p)

Drop(p) ==
  /\ at[p] \in {"probed", "drop"}
  /\ pool' = [pool EXCEPT ![p][acct[p]] = "none"]
  /\ lock' = IF pool[p][acct[p]] = "locked" THEN Unlocked(p) ELSE lock
  /\ AfterDrop(p)
  /\ UNCHANGED <<old, lost, member, bounds>>

(* Slip: the lock is freed although the client stays.                         *)
DropFails_Unlocked(p) ==
  /\ at[p] \in {"probed", "drop"} /\ pool[p][acct[p]] # "none"
  /\ lock' = Unlocked(p)
  /\ AfterDrop(p)
  /\ UNCHANGED <<pool, old, lost, member, bounds>>

(* The disconnect raises, or is cancelled, before the lock is released and    *)
(* the client removed, and the caller only logs it.                           *)
DropFails(p) ==
  /\ at[p] \in {"probed", "drop"} /\ pool[p][acct[p]] # "none"
  /\ AfterDrop(p)
  /\ UNCHANGED <<sessions, member, bounds>>

-----------------------------------------------------------------------------
(* What the operations do with a client.                                      *)

Joined(p, m) == member' = [member EXCEPT ![acct[p]] = m]

(* Dialogs, messages, previews, a direct message: the client is kept.         *)
Read(p) ==
  /\ at[p] = "use" /\ kind[p] \in {"read", "dm", "bulk"}
  /\ Done(p)
  /\ UNCHANGED <<sessions, member, bounds>>

(* A join: a member already, admitted at once, asked to wait, or refused.     *)
Joins(p) ==
  \/ UNCHANGED member
  \/ member[acct[p]] = "out" /\ \E m \in {"in", "asked"} : Joined(p, m)

Join(p) ==
  /\ at[p] = "use" /\ kind[p] = "join"
  /\ Joins(p) /\ Done(p)
  /\ UNCHANGED <<sessions, bounds>>

(* A rate limit ends the batch.                                               *)
JoinNext(p) ==
  /\ at[p] = "use" /\ kind[p] = "joinAll"
  /\ Joins(p) /\ (Done(p) \/ End(p))
  /\ UNCHANGED <<sessions, bounds>>

Leave(p) ==
  /\ at[p] = "use" /\ kind[p] = "leave"
  /\ UNCHANGED member \/ (member[acct[p]] = "in" /\ Joined(p, "out"))
  /\ Done(p)
  /\ UNCHANGED <<sessions, bounds>>

(* The targets of an account are joined one after the other, then dropped.    *)
JoinTarget(p) ==
  /\ at[p] = "use" /\ kind[p] = "target"
  /\ Joins(p) /\ Goto(p, "drop")
  /\ UNCHANGED <<sessions, bounds>>

(* A message of the gateway.                                                  *)
Send(p) ==
  /\ at[p] = "use" /\ kind[p] = "send"
  /\ Goto(p, "drop")
  /\ UNCHANGED <<sessions, member, bounds>>

(* A post: where the chat cannot be resolved the client is forgotten.         *)
Post(p) ==
  /\ at[p] = "use" /\ kind[p] = "post"
  /\ Goto(p, "drop") \/ End(p)
  /\ UNCHANGED <<sessions, member, bounds>>

(* The answers may all be cached; else every target connects the account.     *)
Check(p) ==
  /\ at[p] = "use" /\ kind[p] = "check"
  /\ NextTarget(p)
  /\ UNCHANGED <<sessions, member, bounds>>

-----------------------------------------------------------------------------
(* A process that dies loses its clients and its locks.                       *)
Die(p) ==
  /\ deaths < MaxDeaths
  /\ deaths' = deaths + 1
  /\ lock' = [a \in Accounts |-> IF lock[a] = p THEN Nobody ELSE lock[a]]
  /\ pool' = [pool EXCEPT ![p] = [a \in Accounts |-> "none"]]
  /\ old' = [old EXCEPT ![p] = "none"] /\ lost' = [lost EXCEPT ![p] = {}]
  /\ End(p)
  /\ UNCHANGED <<member, begun, moves>>

(* The admins of the chat.                                                    *)
Decide(a) ==
  /\ moves < MaxMoves
  /\ moves' = moves + 1
  /\ \/ member[a] = "asked" /\ member' = [member EXCEPT ![a] = "in"]
     \/ member[a] # "out" /\ member' = [member EXCEPT ![a] = "out"]
  /\ UNCHANGED <<sessions, ops, begun, deaths>>

Session(p) ==
  \/ UsePooled(p) \/ TakeLock(p) \/ LockTimesOut(p) \/ Connects(p) \/ ConnectFails(p)
  \/ Reconnects(p) \/ TakesOut(p) \/ Replaces(p) \/ ReplaceCancelled(p) \/ ReconnectFails(p)
  \/ Drop(p) \/ DropFails(p)

Operation(p) ==
  Join(p) \/ JoinNext(p) \/ Leave(p) \/ JoinTarget(p) \/ Send(p) \/ Post(p) \/ Check(p)

(* A bulk request has made its plan, and what follows needs no client.        *)
Plan(p) ==
  /\ at[p] = "busy" /\ End(p)
  /\ UNCHANGED <<sessions, member, bounds>>

PoolNext ==
  \/ \E p \in Procs, a \in Accounts : BeginDm(p, a) \/ \E k \in KindsOf(p) : Begin(p, k, a)
  \/ \E p \in Procs : Session(p) \/ Operation(p) \/ Read(p) \/ Plan(p) \/ Die(p)
  \/ \E a \in Accounts : Decide(a)

PoolSpec == PoolInit /\ [][PoolNext]_poolVars

-----------------------------------------------------------------------------
(* Who may have a connection open on the session of an account.               *)
Drives(p, a) ==
  \/ pool[p][a] # "none" \/ a \in lost[p]
  \/ acct[p] = a /\ at[p] \in {"connect", "reconnect", "replace"}

(* A session file is open in one process at a time, whatever is left in       *)
(* pools, replaced or lost by a membership check, or killed                   *)
(* (session_lock.py).                                                         *)
SessionIsOneProcess ==
  \A a \in FileAccounts, p, q \in Procs : Drives(p, a) /\ Drives(q, a) => p = q

(* The client that a process has the lock of an account for.                  *)
LockedClient(p, a) ==
  \/ pool[p][a] = "locked"
  \/ acct[p] = a /\ \/ at[p] = "connect"
                    \/ at[p] = "reconnect" /\ a \in FileAccounts
                    \/ at[p] = "replace" /\ old[p] = "locked"

(* No lock is leaked, as add_account promises for failures and cancellations: *)
(* a lock that is held is that of a client in its holder's pool, or of the    *)
(* client the holder is connecting or replacing.  connect_account has one     *)
(* leak: the lock of a client it took out of the pool and was cancelled over  *)
(* (manager.py:757); a session file's is never lost even so.                  *)
LocksAreAccounted ==
  \A a \in Accounts : lock[a] # Nobody =>
    \/ LockedClient(lock[a], a)
    \/ a \in lost[lock[a]] \ FileAccounts
=============================================================================
