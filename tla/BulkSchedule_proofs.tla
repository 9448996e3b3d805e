------------------------- MODULE BulkSchedule_proofs -------------------------
(* Proofs about BulkSchedule and the sessions it works over.  What is proved  *)
(* about the sessions is proved of SessionPools, whose behaviours those of    *)
(* BulkSchedule are.                                                          *)
EXTENDS BulkSchedule, FiniteSetTheorems, WellFoundedInduction, TLAPS

(* The lock of a session and the clients in the pools: a client that took the *)
(* lock has it until it is dropped, a file session has no client without, and *)
(* only a client of a session string is ever replaced or lost.                *)
ClientHoldsLock ==
  \A p \in Procs, a \in Accounts : pool[p][a] = "locked" => lock[a] = p
FilesAreLocked ==
  \A p \in Procs, a \in FileAccounts : pool[p][a] # "bare"
ConnectingHoldsLock ==
  \A p \in Procs : at[p] = "connect" => lock[acct[p]] = p /\ pool[p][acct[p]] = "none"
RelocksFiles ==
  \A p \in Procs : at[p] = "relock" => acct[p] \in FileAccounts
ReconnectingFile ==
  \A p \in Procs : at[p] = "reconnect" /\ acct[p] \in FileAccounts =>
    lock[acct[p]] = p /\ pool[p][acct[p]] = "none"
Replacing ==
  \A p \in Procs : at[p] = "replace" =>
    /\ acct[p] \notin FileAccounts
    /\ pool[p][acct[p]] = "none"
    /\ old[p] = "locked" => lock[acct[p]] = p
StringsAreLost == \A p \in Procs : lost[p] \cap FileAccounts = {}

LockInv ==
  /\ ClientHoldsLock /\ FilesAreLocked /\ ConnectingHoldsLock /\ RelocksFiles
  /\ ReconnectingFile /\ Replacing /\ StringsAreLost /\ LocksAreAccounted

PoolInv == PoolTypeOK /\ LockInv

-----------------------------------------------------------------------------
(* A step of a process at its place, with the account it works for.           *)
LEMMA Working ==
  ASSUME PoolTypeOK, NEW p \in Procs, at[p] \notin {"idle", "busy"}
  PROVE  acct[p] \in Accounts
BY DEF PoolTypeOK

LEMMA PoolInitially == PoolInit => PoolInv
<1> SUFFICES ASSUME PoolInit PROVE PoolInv
  OBVIOUS
<1>1. PoolTypeOK
  BY PoolsAssumption DEF PoolInit, PoolTypeOK, Clients, Kinds, Places
<1>2. LockInv
  BY PoolsAssumption
     DEF PoolInit, LockInv, ClientHoldsLock, FilesAreLocked, ConnectingHoldsLock,
         RelocksFiles, ReconnectingFile, Replacing, StringsAreLost, LocksAreAccounted
<1> QED BY <1>1, <1>2 DEF PoolInv

-----------------------------------------------------------------------------
(* Types.                                                                     *)

OpsTyped ==
  /\ kind \in [Procs -> Kinds]
  /\ acct \in [Procs -> Accounts \cup {NoAccount}]
  /\ at \in [Procs -> Places]
  /\ \A p \in Procs : at[p] \notin {"idle", "busy"} => acct[p] \in Accounts

LEMMA EndIsTyped ==
  ASSUME OpsTyped, NEW p \in Procs, End(p)
  PROVE  OpsTyped'
BY DEF OpsTyped, End, Kinds, Places

LEMMA GotoIsTyped ==
  ASSUME OpsTyped, NEW p \in Procs, acct[p] \in Accounts, NEW place \in Places, Goto(p, place)
  PROVE  OpsTyped'
BY DEF OpsTyped, Goto

LEMMA StartIsTyped ==
  ASSUME OpsTyped, NEW p \in Procs, NEW k \in Kinds, NEW a \in Accounts,
         NEW place \in Places, Start(p, k, a, place)
  PROVE  OpsTyped'
BY DEF OpsTyped, Start

LEMMA DoneIsTyped ==
  ASSUME OpsTyped, NEW p \in Procs, acct[p] \in Accounts, Done(p) \/ Failed(p)
  PROVE  OpsTyped'
<1>1. "busy" \in Places /\ "lock" \in Places
  BY DEF Places
<1>2. CASE NextOfBatch(p)
  <2>1. CASE \E a \in Accounts : /\ a > acct[p]
                               /\ acct' = [acct EXCEPT ![p] = a]
                               /\ at' = [at EXCEPT ![p] = "lock"]
                               /\ UNCHANGED kind
    BY <1>1, <2>1 DEF OpsTyped
  <2>2. CASE Goto(p, "busy")
    BY <1>1, <2>2, GotoIsTyped
  <2>3. CASE End(p)
    BY <2>3, EndIsTyped
  <2> QED BY <1>2, <2>1, <2>2, <2>3 DEF NextOfBatch
<1>3. CASE End(p)
  BY <1>3, EndIsTyped
<1>4. CASE Goto(p, "lock")
  BY <1>1, <1>4, GotoIsTyped
<1> QED BY <1>2, <1>3, <1>4 DEF Done, Failed

LEMMA NextIsTyped ==
  ASSUME OpsTyped, NEW p \in Procs, acct[p] \in Accounts, NextTarget(p) \/ AfterDrop(p)
  PROVE  OpsTyped'
<1>1. Again(acct[p]) \in Places /\ "drop" \in Places
  BY DEF Again, Places
<1> QED BY <1>1, GotoIsTyped, EndIsTyped DEF NextTarget, AfterDrop

SessionsTyped ==
  /\ lock \in [Accounts -> Procs \cup {Nobody}]
  /\ pool \in [Procs -> [Accounts -> Clients]]
  /\ old \in [Procs -> Clients] /\ lost \in [Procs -> SUBSET Accounts]
MemberTyped == member \in [Accounts -> {"out", "asked", "in"}]
BoundsTyped == begun \in 0..MaxOps /\ deaths \in 0..MaxDeaths /\ moves \in 0..MaxMoves

LEMMA TypesSplit == PoolTypeOK <=> SessionsTyped /\ OpsTyped /\ MemberTyped /\ BoundsTyped
BY DEF PoolTypeOK, SessionsTyped, OpsTyped, MemberTyped, BoundsTyped

LEMMA SessionIsTyped ==
  ASSUME PoolTypeOK, NEW p \in Procs, Session(p)
  PROVE  PoolTypeOK'
<1>1. SessionsTyped /\ OpsTyped /\ MemberTyped /\ BoundsTyped
  BY TypesSplit
<1>2. MemberTyped' /\ BoundsTyped'
  BY <1>1 DEF MemberTyped, BoundsTyped, Session, UsePooled, TakeLock, LockTimesOut, Connects,
       ConnectFails, Reconnects, TakesOut, Replaces, ReplaceCancelled, ReconnectFails, Drop,
       DropFails, bounds
<1>3. acct[p] \in Accounts
  BY <1>1 DEF OpsTyped, Session, UsePooled, TakeLock, LockTimesOut, Connects, ConnectFails,
       Reconnects, TakesOut, Replaces, ReplaceCancelled, ReconnectFails, Drop, DropFails, WantsLock
<1>4. SessionsTyped'
  <2>1. CASE lock' \in [Accounts -> Procs \cup {Nobody}] /\ UNCHANGED <<pool, old, lost>>
    BY <1>1, <2>1 DEF SessionsTyped
  <2>2. CASE UsePooled(p) \/ LockTimesOut(p) \/ DropFails(p)
    BY <1>1, <2>2 DEF SessionsTyped, UsePooled, LockTimesOut, DropFails, sessions
  <2>3. CASE TakeLock(p)
    BY <1>1, <1>3, <2>1, <2>3 DEF SessionsTyped, TakeLock
  <2>4. CASE ConnectFails(p) \/ ReconnectFails(p)
    BY <1>1, <1>3, <2>1, <2>4 DEF SessionsTyped, ConnectFails, ReconnectFails, Unlocked
  <2>5. CASE Connects(p) \/ Reconnects(p)
    BY <1>1, <1>3, <2>5 DEF SessionsTyped, Connects, Reconnects, NewClient, Clients
  <2>6. CASE TakesOut(p)
    BY <1>1, <1>3, <2>6 DEF SessionsTyped, TakesOut, Clients
  <2>7. CASE Replaces(p)
    <3>1. lock' \in [Accounts -> Procs \cup {Nobody}] /\ lost' = lost
      BY <1>1, <1>3, <2>7 DEF SessionsTyped, Replaces, Unlocked
    <3>2. pool' \in [Procs -> [Accounts -> Clients]]
      BY <1>1, <1>3, <2>7 DEF SessionsTyped, Replaces, NewClient, Clients
    <3>3. old' \in [Procs -> Clients]
      BY <1>1, <2>7 DEF SessionsTyped, Replaces, Clients
    <3> QED BY <1>1, <3>1, <3>2, <3>3 DEF SessionsTyped
  <2>8. CASE ReplaceCancelled(p)
    <3>1. lost' \in [Procs -> SUBSET Accounts]
      BY <1>1, <1>3, <2>8 DEF SessionsTyped, ReplaceCancelled
    <3>2. old' \in [Procs -> Clients]
      BY <1>1, <2>8 DEF SessionsTyped, ReplaceCancelled, Clients
    <3> QED BY <1>1, <2>8, <3>1, <3>2 DEF SessionsTyped, ReplaceCancelled
  <2>9. CASE Drop(p)
    <3>1. lock' \in [Accounts -> Procs \cup {Nobody}]
      BY <1>1, <1>3, <2>9 DEF SessionsTyped, Drop, Unlocked
    <3>2. pool' \in [Procs -> [Accounts -> Clients]]
      BY <1>1, <1>3, <2>9 DEF SessionsTyped, Drop, Clients
    <3> QED BY <1>1, <2>9, <3>1, <3>2 DEF SessionsTyped, Drop
  <2> QED BY <2>2, <2>3, <2>4, <2>5, <2>6, <2>7, <2>8, <2>9 DEF Session
<1>5. \/ \E place \in Places : Goto(p, place)
      \/ End(p) \/ Done(p) \/ Failed(p) \/ NextTarget(p) \/ AfterDrop(p)
  BY DEF Session, UsePooled, TakeLock, LockTimesOut, Connects, ConnectFails, Reconnects,
       TakesOut, Replaces, ReplaceCancelled, ReconnectFails, Drop, DropFails, Places
<1>6. OpsTyped'
  BY <1>1, <1>3, <1>5, GotoIsTyped, EndIsTyped, DoneIsTyped, NextIsTyped
<1> QED BY <1>2, <1>4, <1>6 DEF PoolTypeOK, SessionsTyped, OpsTyped, MemberTyped, BoundsTyped

LEMMA OperationIsTyped ==
  ASSUME PoolTypeOK, NEW p \in Procs, Operation(p) \/ Read(p)
  PROVE  PoolTypeOK'
<1>1. SessionsTyped /\ OpsTyped /\ MemberTyped /\ BoundsTyped
  BY TypesSplit
<1>2. acct[p] \in Accounts
  BY <1>1 DEF OpsTyped, Operation, Read, Join, JoinNext, Leave, JoinTarget, Send, Post, Check
<1>3. SessionsTyped' /\ BoundsTyped'
  BY <1>1 DEF SessionsTyped, BoundsTyped, Operation, Read, Join, JoinNext, Leave, JoinTarget,
       Send, Post, Check, sessions, bounds
<1>4. MemberTyped'
  BY <1>1, <1>2 DEF MemberTyped, Operation, Read, Join, JoinNext, Leave, JoinTarget,
       Send, Post, Check, Joins, Joined
<1>5. \/ \E place \in Places : Goto(p, place)
      \/ End(p) \/ Done(p) \/ NextTarget(p)
  BY DEF Operation, Read, Join, JoinNext, Leave, JoinTarget, Send, Post, Check, Places
<1>6. OpsTyped'
  BY <1>1, <1>2, <1>5, GotoIsTyped, EndIsTyped, DoneIsTyped, NextIsTyped
<1> QED BY <1>3, <1>4, <1>6 DEF PoolTypeOK, SessionsTyped, OpsTyped, MemberTyped, BoundsTyped

LEMMA PoolTypeStep ==
  ASSUME PoolTypeOK, [PoolNext]_poolVars
  PROVE  PoolTypeOK'
<1> USE DEF SessionsTyped, OpsTyped, MemberTyped, BoundsTyped
<1>1. SessionsTyped /\ OpsTyped /\ MemberTyped /\ BoundsTyped
  BY TypesSplit
<1>2. CASE UNCHANGED poolVars
  BY <1>2 DEF PoolTypeOK, poolVars, sessions, ops, bounds
<1>3. ASSUME NEW p \in Procs, NEW a \in Accounts, NEW k \in Kinds, NEW place \in Places,
             Start(p, k, a, place), begun' \in 0..MaxOps
      PROVE  PoolTypeOK'
  <2>1. OpsTyped'
    BY <1>1, <1>3, StartIsTyped
  <2> QED BY <1>1, <1>3, <2>1 DEF PoolTypeOK, Start, sessions
<1>4. CASE \E p \in Procs, a \in Accounts : BeginDm(p, a)
  BY <1>1, <1>3, <1>4 DEF BeginDm, Kinds, Places
<1>5. CASE \E p \in Procs, a \in Accounts : \E k \in KindsOf(p) : Begin(p, k, a)
  <2> PICK p \in Procs, a \in Accounts : \E k \in KindsOf(p) : Begin(p, k, a)
    BY <1>5
  <2> PICK k \in KindsOf(p) : Begin(p, k, a)
    OBVIOUS
  <2>1. k \in Kinds /\ FirstPlace(k, a) \in Places
    BY DEF KindsOf, Kinds, Places, FirstPlace, Again
  <2>2. begun' \in 0..MaxOps
    BY <1>1, PoolsAssumption DEF Begin
  <2> QED BY <1>3, <2>1, <2>2 DEF Begin
<1>6. CASE \E p \in Procs : Session(p)
  BY <1>6, SessionIsTyped
<1>7. CASE \E p \in Procs : Operation(p) \/ Read(p)
  BY <1>7, OperationIsTyped
<1>8. CASE \E p \in Procs : Plan(p)
  <2> PICK p \in Procs : Plan(p)
    BY <1>8
  <2>1. OpsTyped'
    BY <1>1, EndIsTyped DEF Plan
  <2> QED BY <1>1, <2>1 DEF PoolTypeOK, Plan, sessions, bounds
<1>9. CASE \E p \in Procs : Die(p)
  <2> PICK p \in Procs : Die(p)
    BY <1>9
  <2>1. OpsTyped'
    BY <1>1, EndIsTyped DEF Die
  <2>2. SessionsTyped'
    BY <1>1 DEF Die, Clients
  <2>3. BoundsTyped'
    BY <1>1, PoolsAssumption DEF Die
  <2> QED BY <1>1, <2>1, <2>2, <2>3 DEF PoolTypeOK, Die
<1>10. CASE \E a \in Accounts : Decide(a)
  <2>1. BoundsTyped' /\ MemberTyped'
    BY <1>1, <1>10, PoolsAssumption DEF Decide
  <2> QED BY <1>1, <1>10, <2>1 DEF PoolTypeOK, Decide, sessions, ops
<1> QED BY <1>2, <1>4, <1>5, <1>6, <1>7, <1>8, <1>9, <1>10 DEF PoolNext
-----------------------------------------------------------------------------
(* Locks.                                                                     *)

(* A step of p moves p alone, and not to a place where p has a lock to hold.  *)
OthersStay(p) == \A q \in Procs \ {p} : at'[q] = at[q] /\ acct'[q] = acct[q]
Moves(p) ==
  /\ OthersStay(p)
  /\ at'[p] \notin {"connect", "replace"}
  /\ at'[p] = "relock" => acct'[p] \in FileAccounts
  /\ at'[p] = "reconnect" => acct'[p] \notin FileAccounts

(* What the others have is left to them.                                      *)
Apiece(p) ==
  \A q \in Procs \ {p} :
    /\ pool'[q] = pool[q] /\ old'[q] = old[q] /\ lost'[q] = lost[q]
    /\ \A a \in Accounts : lock'[a] = q <=> lock[a] = q

LEMMA GotoLeaves ==
  ASSUME PoolTypeOK, NEW p \in Procs, NEW place, Goto(p, place)
  PROVE  OthersStay(p) /\ at'[p] = place /\ acct'[p] = acct[p]
BY DEF PoolTypeOK, Goto, OthersStay

LEMMA Moving ==
  ASSUME PoolTypeOK, NEW p \in Procs,
         \/ End(p) \/ Done(p) \/ Failed(p) \/ NextTarget(p) \/ AfterDrop(p)
         \/ \E place \in {"use", "probed", "drop"} : Goto(p, place)
  PROVE  Moves(p)
<1>1. CASE End(p)
  BY <1>1 DEF PoolTypeOK, End, Moves, OthersStay
<1>2. ASSUME NEW place \in {"use", "probed", "drop", "lock", "busy"}, Goto(p, place)
      PROVE  Moves(p)
  BY <1>2, GotoLeaves DEF Moves
<1>3. CASE NextTarget(p)
  <2>1. CASE Goto(p, Again(acct[p]))
    BY <2>1, GotoLeaves DEF Moves, Again
  <2> QED BY <1>1, <1>2, <1>3, <2>1 DEF NextTarget
<1>4. CASE NextOfBatch(p)
  <2>1. CASE \E a \in Accounts : /\ a > acct[p]
                               /\ acct' = [acct EXCEPT ![p] = a]
                               /\ at' = [at EXCEPT ![p] = "lock"]
                               /\ UNCHANGED kind
    BY <2>1 DEF PoolTypeOK, Moves, OthersStay
  <2> QED BY <1>1, <1>2, <1>4, <2>1 DEF NextOfBatch
<1> QED BY <1>1, <1>2, <1>3, <1>4 DEF Done, Failed, AfterDrop

(* A connection that another process is making is left alone by p.            *)
LEMMA OthersConnect ==
  ASSUME PoolInv, NEW p \in Procs, Moves(p), Apiece(p)
  PROVE  ConnectingHoldsLock' /\ RelocksFiles' /\ ReconnectingFile' /\ Replacing'
<1> USE DEF PoolInv, LockInv, Moves, OthersStay
<1>1. ASSUME NEW q \in Procs \ {p}, at[q] \notin {"idle", "busy"}
      PROVE  /\ acct[q] \in Accounts /\ at'[q] = at[q] /\ acct'[q] = acct[q]
             /\ lock'[acct[q]] = q <=> lock[acct[q]] = q
             /\ pool'[q] = pool[q] /\ old'[q] = old[q]
  BY <1>1 DEF PoolTypeOK, Apiece
<1>2. ConnectingHoldsLock'
  BY <1>1 DEF ConnectingHoldsLock
<1>3. RelocksFiles'
  BY <1>1 DEF RelocksFiles
<1>4. ReconnectingFile'
  BY <1>1 DEF ReconnectingFile
<1>5. Replacing'
  <2> SUFFICES ASSUME NEW q \in Procs, at'[q] = "replace"
               PROVE  /\ acct'[q] \notin FileAccounts
                      /\ pool'[q][acct'[q]] = "none"
                      /\ old'[q] = "locked" => lock'[acct'[q]] = q
    BY DEF Replacing
  <2>1. q # p /\ at[q] = "replace"
    OBVIOUS
  <2> QED BY <1>1, <2>1 DEF Replacing
<1> QED BY <1>2, <1>3, <1>4, <1>5

(* The locks of the others are still theirs for the same reason.              *)
LEMMA Accounted ==
  ASSUME PoolInv, NEW p \in Procs, OthersStay(p), Apiece(p),
         \A a \in Accounts : lock'[a] \in Procs \cup {Nobody},
         \A a \in Accounts : lock'[a] = p =>
           LockedClient(p, a)' \/ a \in lost'[p] \ FileAccounts
  PROVE  LocksAreAccounted'
<1> SUFFICES ASSUME NEW a \in Accounts, NEW q \in Procs \ {p}, lock'[a] = q
             PROVE  LockedClient(q, a)' \/ a \in lost'[q] \ FileAccounts
  BY DEF LocksAreAccounted, LockedClient
<1>1. /\ lock[a] = q /\ pool'[q] = pool[q] /\ old'[q] = old[q] /\ lost'[q] = lost[q]
      /\ at'[q] = at[q] /\ acct'[q] = acct[q]
  BY DEF Apiece, OthersStay
<1>2. LockedClient(q, a) \/ a \in lost[q] \ FileAccounts
  BY <1>1, PoolsAssumption DEF PoolInv, LockInv, LocksAreAccounted
<1> QED BY <1>1, <1>2 DEF LockedClient

(* What keeps the locks where the step frees none and connects nothing.       *)
LEMMA NoLockMoves ==
  ASSUME PoolInv, NEW p \in Procs, Moves(p), UNCHANGED sessions,
         at[p] \notin {"connect", "replace"},
         at[p] = "reconnect" => acct[p] \notin FileAccounts
  PROVE  LockInv'
<1> USE DEF PoolInv, LockInv
<1>1. /\ lock' = lock /\ pool' = pool /\ old' = old /\ lost' = lost
      /\ Apiece(p) /\ OthersStay(p)
  BY DEF sessions, Apiece, Moves
<1>2. ClientHoldsLock' /\ FilesAreLocked' /\ StringsAreLost'
  BY <1>1 DEF ClientHoldsLock, FilesAreLocked, StringsAreLost
<1>3. ConnectingHoldsLock' /\ RelocksFiles' /\ ReconnectingFile' /\ Replacing'
  BY <1>1, OthersConnect
<1>4. \A a \in Accounts : lock'[a] \in Procs \cup {Nobody}
  BY <1>1 DEF PoolTypeOK
<1>5. ASSUME NEW a \in Accounts, lock'[a] = p
      PROVE  LockedClient(p, a)' \/ a \in lost'[p] \ FileAccounts
  BY <1>1, <1>5, PoolsAssumption DEF LocksAreAccounted, LockedClient
<1>6. LocksAreAccounted'
  BY <1>1, <1>4, <1>5, Accounted
<1> QED BY <1>2, <1>3, <1>6

LEMMA PooledIsClient ==
  ASSUME PoolTypeOK, NEW p \in Procs, NEW a \in Accounts
  PROVE  pool[p][a] \in Clients
BY DEF PoolTypeOK

(* What a process gets that takes the lock of an account nobody has.          *)
LEMMA TakeKeepsLocks ==
  ASSUME PoolInv, NEW p \in Procs, TakeLock(p)
  PROVE  LockInv'
<1> USE DEF PoolInv, LockInv
<1> DEFINE a == acct[p]
<1>1. /\ a \in Accounts /\ at[p] \in {"lock", "relock"} /\ lock[a] = Nobody
      /\ lock' = [lock EXCEPT ![a] = p] /\ pool' = pool /\ old' = old /\ lost' = lost
  BY DEF TakeLock, WantsLock, PoolTypeOK
<1>2. /\ OthersStay(p) /\ acct'[p] = a
      /\ at'[p] = IF at[p] = "lock" THEN "connect" ELSE "reconnect"
  BY GotoLeaves DEF TakeLock
<1>3. lock'[a] = p /\ \A b \in Accounts \ {a} : lock'[b] = lock[b]
  BY <1>1 DEF PoolTypeOK
<1>4. pool[p][a] = "none"
  <2>1. CASE at[p] = "lock"
    BY <2>1 DEF TakeLock, WantsLock
  <2>2. CASE at[p] = "relock"
    <3>1. a \in FileAccounts
      BY <2>2 DEF RelocksFiles
    <3> QED BY <1>1, <3>1, PooledIsClient, PoolsAssumption
            DEF ClientHoldsLock, FilesAreLocked, Clients
  <2> QED BY <1>1, <2>1, <2>2
<1>5. ClientHoldsLock' /\ FilesAreLocked' /\ StringsAreLost'
  BY <1>1, <1>3, PoolsAssumption DEF ClientHoldsLock, FilesAreLocked, StringsAreLost
<1>6. ASSUME NEW q \in Procs \ {p}, at[q] \notin {"idle", "busy"}
      PROVE  /\ at'[q] = at[q] /\ acct'[q] = acct[q] /\ acct[q] \in Accounts
             /\ lock[acct[q]] = q => lock'[acct[q]] = q
  BY <1>1, <1>2, <1>3, <1>6, PoolsAssumption DEF OthersStay, PoolTypeOK
<1>7. ConnectingHoldsLock'
  BY <1>1, <1>2, <1>3, <1>4, <1>6 DEF ConnectingHoldsLock, OthersStay
<1>8. RelocksFiles'
  BY <1>2, <1>6 DEF RelocksFiles, OthersStay
<1>9. ReconnectingFile'
  BY <1>1, <1>2, <1>3, <1>4, <1>6 DEF ReconnectingFile, OthersStay
<1>10. Replacing'
  BY <1>1, <1>2, <1>6 DEF Replacing, OthersStay
<1>11. LocksAreAccounted'
  <2>1. Apiece(p) /\ \A b \in Accounts : lock'[b] \in Procs \cup {Nobody}
    BY <1>1, <1>3, PoolsAssumption DEF Apiece, PoolTypeOK
  <2>2. ASSUME NEW b \in Accounts, lock'[b] = p
        PROVE  LockedClient(p, b)' \/ b \in lost'[p] \ FileAccounts
    <3>1. CASE b = a
      BY <1>1, <1>2, <3>1 DEF LockedClient, RelocksFiles
    <3>2. CASE b # a
      BY <1>1, <1>3, <2>2, <3>2, PoolsAssumption DEF LocksAreAccounted, LockedClient
    <3> QED BY <3>1, <3>2
  <2> QED BY <1>2, <2>1, <2>2, Accounted
<1> QED BY <1>5, <1>7, <1>8, <1>9, <1>10, <1>11

(* A step of p over the one account it works for, which leaves it connecting  *)
(* nothing.                                                                   *)
Touches(p) ==
  /\ Moves(p) /\ acct[p] \in Accounts
  /\ \A b \in Accounts \ {acct[p]} : lock'[b] = lock[b] /\ pool'[p][b] = pool[p][b]
  /\ \A q \in Procs \ {p} : pool'[q] = pool[q] /\ old'[q] = old[q] /\ lost'[q] = lost[q]
  /\ lost[p] \subseteq lost'[p] /\ lost'[p] \subseteq lost[p] \cup ({acct[p]} \ FileAccounts)

LEMMA TouchKeepsLocks ==
  ASSUME PoolInv, NEW p \in Procs, Touches(p),
         lock'[acct[p]] \in {lock[acct[p]], Nobody},
         lock'[acct[p]] # lock[acct[p]] => lock[acct[p]] = p,
         pool'[p][acct[p]] = "locked" => lock'[acct[p]] = p,
         acct[p] \in FileAccounts => pool'[p][acct[p]] # "bare",
         lock'[acct[p]] = p => \/ pool'[p][acct[p]] = "locked"
                               \/ acct[p] \in lost'[p] \ FileAccounts
  PROVE  LockInv'
<1> USE DEF PoolInv, LockInv
<1> DEFINE a == acct[p]
<1>1. /\ Moves(p) /\ OthersStay(p) /\ a \in Accounts
      /\ \A b \in Accounts \ {a} : lock'[b] = lock[b] /\ pool'[p][b] = pool[p][b]
      /\ \A q \in Procs \ {p} : pool'[q] = pool[q] /\ old'[q] = old[q] /\ lost'[q] = lost[q]
      /\ lost[p] \subseteq lost'[p] /\ lost'[p] \subseteq lost[p] \cup ({a} \ FileAccounts)
  BY DEF Touches, Moves
<1>2. Apiece(p)
  <2> SUFFICES ASSUME NEW q \in Procs \ {p}, NEW b \in Accounts
               PROVE  lock'[b] = q <=> lock[b] = q
    BY <1>1 DEF Apiece
  <2> QED BY <1>1, PoolsAssumption
<1>3. ClientHoldsLock'
  <2> SUFFICES ASSUME NEW q \in Procs, NEW b \in Accounts, pool'[q][b] = "locked"
               PROVE  lock'[b] = q
    BY DEF ClientHoldsLock
  <2>1. CASE q = p
    BY <1>1, <2>1 DEF ClientHoldsLock
  <2>2. CASE q # p
    BY <1>1, <1>2, <2>2 DEF ClientHoldsLock, Apiece
  <2> QED BY <2>1, <2>2
<1>4. FilesAreLocked'
  BY <1>1, PoolsAssumption DEF FilesAreLocked
<1>5. StringsAreLost'
  BY <1>1 DEF StringsAreLost
<1>6. ConnectingHoldsLock' /\ RelocksFiles' /\ ReconnectingFile' /\ Replacing'
  BY <1>1, <1>2, OthersConnect
<1>7. \A b \in Accounts : lock'[b] \in Procs \cup {Nobody}
  BY <1>1 DEF PoolTypeOK
<1>8. ASSUME NEW b \in Accounts, lock'[b] = p
      PROVE  LockedClient(p, b)' \/ b \in lost'[p] \ FileAccounts
  <2>1. CASE b = a
    BY <1>8, <2>1 DEF LockedClient
  <2>2. CASE b # a
    BY <1>1, <1>8, <2>2, PoolsAssumption DEF LocksAreAccounted, LockedClient
  <2> QED BY <2>1, <2>2
<1>9. LocksAreAccounted'
  BY <1>1, <1>2, <1>7, <1>8, Accounted
<1> QED BY <1>3, <1>4, <1>5, <1>6, <1>9

LEMMA ConnectKeepsLocks ==
  ASSUME PoolInv, NEW p \in Procs, Connects(p)
  PROVE  LockInv'
<1> USE DEF PoolInv, LockInv
<1>1. acct[p] \in Accounts /\ lock[acct[p]] = p
  BY Working DEF Connects, ConnectingHoldsLock
<1>2. Moves(p)
  BY Moving DEF Connects
<1>3. /\ pool' = [pool EXCEPT ![p][acct[p]] = "locked"]
      /\ lock' = lock /\ old' = old /\ lost' = lost
  BY DEF Connects
<1>4. Touches(p) /\ pool'[p][acct[p]] = "locked"
  BY <1>1, <1>2, <1>3 DEF Touches, PoolTypeOK
<1> QED BY <1>1, <1>3, <1>4, TouchKeepsLocks

(* The lock of a connection that fails is released, and nothing is left.      *)
LEMMA ConnectFailsKeepsLocks ==
  ASSUME PoolInv, NEW p \in Procs,
         ConnectFails(p) \/ (ReconnectFails(p) /\ acct[p] \in FileAccounts)
  PROVE  LockInv'
<1> USE DEF PoolInv, LockInv
<1>1. acct[p] \in Accounts /\ lock[acct[p]] = p /\ pool[p][acct[p]] = "none"
  BY Working DEF ConnectFails, ReconnectFails, ConnectingHoldsLock, ReconnectingFile
<1>2. Moves(p)
  BY Moving DEF ConnectFails, ReconnectFails
<1>3. lock' = Unlocked(p) /\ pool' = pool /\ old' = old /\ lost' = lost
  BY DEF ConnectFails, ReconnectFails
<1>4. Touches(p) /\ lock'[acct[p]] = Nobody
  BY <1>1, <1>2, <1>3 DEF Touches, PoolTypeOK, Unlocked
<1> QED BY <1>1, <1>3, <1>4, PoolsAssumption, TouchKeepsLocks

LEMMA ReconnectKeepsLocks ==
  ASSUME PoolInv, NEW p \in Procs, Reconnects(p)
  PROVE  LockInv'
<1> USE DEF PoolInv, LockInv
<1>1. acct[p] \in Accounts
  BY Working DEF Reconnects
<1>2. Moves(p)
  BY Moving DEF Reconnects
<1>3. /\ pool' = [pool EXCEPT ![p][acct[p]] = NewClient(p)]
      /\ lock' = lock /\ old' = old /\ lost' = lost
      /\ at[p] = "reconnect" /\ pool[p][acct[p]] = "none"
  BY DEF Reconnects
<1>4. Touches(p) /\ pool'[p][acct[p]] = NewClient(p)
  BY <1>1, <1>2, <1>3 DEF Touches, PoolTypeOK
<1>5. acct[p] \in FileAccounts => lock[acct[p]] = p
  BY <1>3 DEF ReconnectingFile
<1>6. lock[acct[p]] = p /\ acct[p] \notin FileAccounts => acct[p] \in lost[p] \ FileAccounts
  BY <1>1, <1>3, PoolsAssumption DEF LocksAreAccounted, LockedClient
<1> QED BY <1>3, <1>4, <1>5, <1>6, TouchKeepsLocks DEF NewClient

(* Only a client without a lock of its own gets here: the lock of a session   *)
(* file is not to be had twice.                                               *)
LEMMA TakesOutKeepsLocks ==
  ASSUME PoolInv, NEW p \in Procs, TakesOut(p)
  PROVE  LockInv'
<1> USE DEF PoolInv, LockInv
<1> DEFINE a == acct[p]
<1>1. /\ a \in Accounts /\ at[p] = "reconnect" /\ pool[p][a] # "none"
      /\ old' = [old EXCEPT ![p] = pool[p][a]] /\ pool' = [pool EXCEPT ![p][a] = "none"]
      /\ lock' = lock /\ lost' = lost
  BY Working DEF TakesOut
<1>2. OthersStay(p) /\ at'[p] = "replace" /\ acct'[p] = a
  BY GotoLeaves DEF TakesOut
<1>3. a \notin FileAccounts
  BY <1>1 DEF ReconnectingFile
<1>4. /\ old'[p] = pool[p][a] /\ pool'[p][a] = "none"
      /\ \A b \in Accounts \ {a} : pool'[p][b] = pool[p][b]
      /\ \A q \in Procs \ {p} : pool'[q] = pool[q] /\ old'[q] = old[q]
  BY <1>1 DEF PoolTypeOK
<1>5. ClientHoldsLock' /\ FilesAreLocked' /\ StringsAreLost'
  <2>1. \A q \in Procs, b \in Accounts : pool'[q][b] \in {pool[q][b], "none"}
    BY <1>4
  <2> QED BY <1>1, <2>1, PoolsAssumption DEF ClientHoldsLock, FilesAreLocked, StringsAreLost
<1>6. ASSUME NEW q \in Procs \ {p}
      PROVE  /\ at'[q] = at[q] /\ acct'[q] = acct[q]
             /\ pool'[q] = pool[q] /\ old'[q] = old[q]
  BY <1>2, <1>4 DEF OthersStay
<1>7. ConnectingHoldsLock' /\ RelocksFiles' /\ ReconnectingFile'
  BY <1>1, <1>2, <1>6 DEF ConnectingHoldsLock, RelocksFiles, ReconnectingFile
<1>8. Replacing'
  BY <1>1, <1>2, <1>3, <1>4, <1>6 DEF Replacing, ClientHoldsLock
<1>9. LocksAreAccounted'
  <2>1. Apiece(p) /\ \A b \in Accounts : lock'[b] \in Procs \cup {Nobody}
    BY <1>1, <1>4 DEF Apiece, PoolTypeOK
  <2>2. ASSUME NEW b \in Accounts, lock'[b] = p
        PROVE  LockedClient(p, b)' \/ b \in lost'[p] \ FileAccounts
    <3>1. LockedClient(p, b) \/ b \in lost[p] \ FileAccounts
      BY <1>1, <2>2, PoolsAssumption DEF LocksAreAccounted
    <3> QED BY <1>1, <1>2, <1>3, <1>4, <3>1 DEF LockedClient
  <2> QED BY <1>2, <2>1, <2>2, Accounted
<1> QED BY <1>5, <1>7, <1>8, <1>9

LEMMA ReplaceKeepsLocks ==
  ASSUME PoolInv, NEW p \in Procs, Replaces(p) \/ ReplaceCancelled(p)
  PROVE  LockInv'
<1> USE DEF PoolInv, LockInv
<1> DEFINE a == acct[p]
<1>1. /\ a \in Accounts /\ a \notin FileAccounts /\ pool[p][a] = "none"
      /\ old[p] = "locked" => lock[a] = p
  BY Working DEF Replaces, ReplaceCancelled, Replacing
<1>2. Moves(p)
  BY Moving DEF Replaces, ReplaceCancelled
<1>3. lock[a] = p => old[p] = "locked" \/ a \in lost[p] \ FileAccounts
  BY <1>1, PoolsAssumption DEF LocksAreAccounted, LockedClient, Replaces, ReplaceCancelled
<1>4. CASE Replaces(p)
  <2>1. /\ pool' = [pool EXCEPT ![p][a] = "bare"] /\ lost' = lost
        /\ lock' = IF old[p] = "locked" THEN Unlocked(p) ELSE lock
        /\ old' = [old EXCEPT ![p] = "none"]
    BY <1>1, <1>4 DEF Replaces, NewClient
  <2>2. Touches(p) /\ pool'[p][a] = "bare"
    BY <1>1, <1>2, <2>1 DEF Touches, PoolTypeOK, Unlocked
  <2>3. old[p] = "locked" => lock'[a] = Nobody
    BY <1>1, <2>1 DEF Unlocked, PoolTypeOK
  <2> QED BY <1>1, <1>3, <2>1, <2>2, <2>3, PoolsAssumption, TouchKeepsLocks
<1>5. CASE ReplaceCancelled(p)
  <2>1. /\ lost' = IF old[p] = "locked" THEN [lost EXCEPT ![p] = @ \cup {a}] ELSE lost
        /\ old' = [old EXCEPT ![p] = "none"] /\ lock' = lock /\ pool' = pool
    BY <1>5 DEF ReplaceCancelled
  <2>2. Touches(p) /\ (old[p] = "locked" => a \in lost'[p])
    BY <1>1, <1>2, <2>1 DEF Touches, PoolTypeOK
  <2>3. lost[p] \subseteq lost'[p]
    BY <2>2 DEF Touches
  <2> QED BY <1>1, <1>3, <2>1, <2>2, <2>3, TouchKeepsLocks
<1> QED BY <1>4, <1>5

LEMMA DropKeepsLocks ==
  ASSUME PoolInv, NEW p \in Procs, Drop(p)
  PROVE  LockInv'
<1> USE DEF PoolInv, LockInv
<1> DEFINE a == acct[p]
<1>1. /\ a \in Accounts /\ at[p] \in {"probed", "drop"}
      /\ pool' = [pool EXCEPT ![p][a] = "none"] /\ old' = old /\ lost' = lost
      /\ lock' = IF pool[p][a] = "locked" THEN Unlocked(p) ELSE lock
  BY Working DEF Drop
<1>2. Moves(p)
  BY Moving DEF Drop
<1>3. Touches(p) /\ pool'[p][a] = "none"
  BY <1>1, <1>2 DEF Touches, PoolTypeOK, Unlocked
<1>4. pool[p][a] = "locked" => lock[a] = p /\ lock'[a] = Nobody
  BY <1>1 DEF ClientHoldsLock, Unlocked, PoolTypeOK
<1>5. lock[a] = p => pool[p][a] = "locked" \/ a \in lost[p] \ FileAccounts
  BY <1>1, PoolsAssumption DEF LocksAreAccounted, LockedClient
<1> QED BY <1>1, <1>3, <1>4, <1>5, PoolsAssumption, TouchKeepsLocks

LEMMA OperationKeepsLocks ==
  ASSUME PoolInv, NEW p \in Procs, Operation(p) \/ Read(p) \/ Plan(p)
  PROVE  LockInv'
<1>1. UNCHANGED sessions /\ at[p] \in {"use", "busy"}
  BY DEF Operation, Join, JoinNext, Leave, JoinTarget, Send, Post, Check, Read, Plan
<1>2. Goto(p, "drop") \/ End(p) \/ Done(p) \/ NextTarget(p)
  BY DEF Operation, Join, JoinNext, Leave, JoinTarget, Send, Post, Check, Read, Plan
<1>3. Moves(p)
  BY <1>2, Moving DEF PoolInv
<1> QED BY <1>1, <1>3, NoLockMoves

LEMMA SessionKeepsLocks ==
  ASSUME PoolInv, NEW p \in Procs, Session(p)
  PROVE  LockInv'
<1>1. CASE UsePooled(p) \/ LockTimesOut(p) \/ DropFails(p)
  <2>1. UNCHANGED sessions /\ at[p] \in {"lock", "relock", "probed", "drop"}
    BY <1>1 DEF UsePooled, LockTimesOut, WantsLock, DropFails
  <2>2. Moves(p)
    BY <1>1, Moving DEF UsePooled, LockTimesOut, DropFails, PoolInv
  <2> QED BY <2>1, <2>2, NoLockMoves
<1>2. CASE ReconnectFails(p) /\ acct[p] \notin FileAccounts
  <2>1. UNCHANGED sessions /\ at[p] = "reconnect"
    BY <1>2 DEF ReconnectFails, sessions
  <2>2. Moves(p)
    BY <1>2, Moving DEF ReconnectFails, PoolInv
  <2> QED BY <1>2, <2>1, <2>2, NoLockMoves
<1> QED BY <1>1, <1>2, TakeKeepsLocks, ConnectKeepsLocks, ConnectFailsKeepsLocks,
           ReconnectKeepsLocks, TakesOutKeepsLocks, ReplaceKeepsLocks, DropKeepsLocks
        DEF Session

LEMMA StartKeepsLocks ==
  ASSUME PoolInv, NEW p \in Procs, NEW k, NEW a, NEW place \in {"lock", "drop", Again(a)},
         Start(p, k, a, place)
  PROVE  LockInv'
<1>1. Moves(p)
  BY DEF Start, Moves, OthersStay, Again, PoolInv, PoolTypeOK
<1>2. UNCHANGED sessions /\ at[p] = "idle"
  BY DEF Start
<1> QED BY <1>1, <1>2, NoLockMoves

(* What died holds nothing, and what others hold is theirs as before.         *)
LEMMA DieKeepsLocks ==
  ASSUME PoolInv, NEW p \in Procs, Die(p)
  PROVE  LockInv'
<1> USE DEF PoolInv, LockInv
<1>1. Moves(p) /\ OthersStay(p)
  BY Moving DEF Die, Moves
<1>2. /\ \A q \in Procs \ {p} : pool'[q] = pool[q] /\ old'[q] = old[q] /\ lost'[q] = lost[q]
      /\ \A a \in Accounts : pool'[p][a] = "none"
      /\ lost'[p] = {}
  BY DEF Die, PoolTypeOK
<1>3. \A a \in Accounts : lock'[a] = IF lock[a] = p THEN Nobody ELSE lock[a]
  BY DEF Die
<1>4. Apiece(p) /\ \A a \in Accounts : lock'[a] \in (Procs \ {p}) \cup {Nobody}
  BY <1>2, <1>3, PoolsAssumption DEF Apiece, PoolTypeOK
<1>5. ClientHoldsLock'
  BY <1>2, <1>3 DEF ClientHoldsLock
<1>6. FilesAreLocked' /\ StringsAreLost'
  BY <1>2, PoolsAssumption DEF FilesAreLocked, StringsAreLost
<1>7. ConnectingHoldsLock' /\ RelocksFiles' /\ ReconnectingFile' /\ Replacing'
  BY <1>1, <1>4, OthersConnect
<1>8. LocksAreAccounted'
  BY <1>1, <1>4, Accounted, PoolsAssumption
<1> QED BY <1>5, <1>6, <1>7, <1>8

LEMMA LockStep ==
  ASSUME PoolInv, [PoolNext]_poolVars
  PROVE  LockInv'
<1>1. CASE UNCHANGED <<sessions, ops>>
  BY <1>1 DEF PoolInv, LockInv, ClientHoldsLock, FilesAreLocked, ConnectingHoldsLock,
       RelocksFiles, ReconnectingFile, Replacing, StringsAreLost, LocksAreAccounted,
       LockedClient, sessions, ops
<1>2. CASE \E p \in Procs, a \in Accounts :
             BeginDm(p, a) \/ \E k \in KindsOf(p) : Begin(p, k, a)
  BY <1>2, StartKeepsLocks DEF BeginDm, Begin, FirstPlace
<1>3. CASE \E p \in Procs : Session(p) \/ Operation(p) \/ Read(p) \/ Plan(p) \/ Die(p)
  BY <1>3, SessionKeepsLocks, OperationKeepsLocks, DieKeepsLocks
<1> QED BY <1>1, <1>2, <1>3 DEF PoolNext, Decide, poolVars

-----------------------------------------------------------------------------
LEMMA PoolInductive == PoolSpec => []PoolInv
<1>1. PoolInv /\ [PoolNext]_poolVars => PoolInv'
  BY PoolTypeStep, LockStep DEF PoolInv
<1> QED BY <1>1, PoolInitially, PTL DEF PoolSpec

-----------------------------------------------------------------------------
(* The steps of BulkSchedule are steps of the sessions.  A job is taken for   *)
(* an account, because jobs are made for the first of those that are left.    *)

LEMMA FirstIsLeast ==
  ASSUME NEW S \in SUBSET Nat, S # {}
  PROVE  First(S) \in S /\ \A y \in S : First(S) <= y
<1> DEFINE R == {ss \in Nat \X Nat : ss[1] < ss[2]}
<1>1. IsWellFoundedOn(R, Nat)
  BY NatLessThanWellFounded DEF OpToRel
<1>2. \A x, y \in Nat : y < x => <<y, x>> \in R
  OBVIOUS
<1> HIDE DEF R
<1>3. PICK x \in S : \A y \in S : <<y, x>> \notin R
  BY <1>1, WFMin
<1>4. \A y \in S : x <= y
  <2> SUFFICES ASSUME NEW y \in S PROVE x <= y
    OBVIOUS
  <2>1. x \in Nat /\ y \in Nat
    OBVIOUS
  <2>2. ~ (y < x)
    BY <1>2, <1>3, <2>1, Zenon
  <2> QED BY <2>1, <2>2
<1> QED BY <1>4 DEF First

LEMMA FirstIsMember ==
  ASSUME NEW S \in SUBSET Nat, S # {}
  PROVE  First(S) \in S
BY FirstIsLeast

LEMMA LastIsMember ==
  ASSUME NEW S \in SUBSET Jobs, S # {}
  PROVE  Last(S) \in S
<1> DEFINE T == {MaxJobs - x : x \in S}
<1>1. S \subseteq Nat /\ T \in SUBSET Nat /\ T # {}
  BY BulkAssumption DEF Jobs
<1>2. First(T) \in T /\ \A y \in T : First(T) <= y
  BY <1>1, FirstIsLeast
<1>3. PICK x \in S : First(T) = MaxJobs - x
  BY <1>2
<1>4. \A y \in S : x >= y
  <2> SUFFICES ASSUME NEW y \in S PROVE x >= y
    OBVIOUS
  <2>1. MaxJobs - x <= MaxJobs - y
    BY <1>2, <1>3
  <2> QED BY <1>1, <2>1, BulkAssumption
<1> QED BY <1>4 DEF Last

JobsTyped ==
  /\ jacct \in [Jobs -> Accounts \cup {NoAccount}]
  /\ jst \in [Jobs -> Status]
  /\ \A j \in Jobs : jst[j] # "none" => jacct[j] \in Accounts

LocalsTyped ==
  /\ ready \in [Procs -> SUBSET Accounts] /\ left \in [Procs -> SUBSET Accounts]
  /\ cur \in [Procs -> Jobs \cup {NoJob}]
  /\ step \in [Procs -> {"plan", "find", "make", "mark"}]
  /\ \A p \in Procs : step[p] = "make" => left[p] # {}

CurIsAJob == \A p \in Procs : cur[p] \in Jobs => jst[cur[p]] # "none"

BulkInv == JobsTyped /\ LocalsTyped /\ CurIsAJob

LEMMA BulkInitially == Init => BulkInv
BY DEF Init, BulkInv, JobsTyped, LocalsTyped, CurIsAJob, Jobs, NoJob, Status

LEMMA ForgetKeeps ==
  ASSUME BulkInv, NEW p \in Procs, Forget(p), UNCHANGED jobs
  PROVE  BulkInv'
<1>1. LocalsTyped'
  BY DEF BulkInv, LocalsTyped, Forget
<1>2. JobsTyped' /\ CurIsAJob'
  BY DEF BulkInv, JobsTyped, LocalsTyped, CurIsAJob, Forget, jobs, Jobs, NoJob
<1> QED BY <1>1, <1>2 DEF BulkInv

LEMMA BulkKeeps ==
  ASSUME BulkInv, PoolTypeOK, NEW p \in Procs, Bulk(p)
  PROVE  BulkInv'
<1> USE DEF BulkInv
<1>1. CASE \E k \in Keys : BeginBulk(p, k)
  BY <1>1 DEF BeginBulk, JobsTyped, LocalsTyped, CurIsAJob, jobs
<1>2. CASE Preview(p)
  <2>1. acct[p] \in Accounts
    BY <1>2 DEF Preview, Read, PoolTypeOK
  <2> QED BY <1>2, <2>1 DEF Preview, JobsTyped, LocalsTyped, CurIsAJob, jobs
<1>3. CASE NoneReady(p) \/ Replay(p) \/ Answer(p) \/ RequestFails(p)
  BY <1>3, ForgetKeeps DEF NoneReady, Replay, Answer, RequestFails, Reply
<1>4. CASE TakeKey(p)
  BY <1>4 DEF TakeKey, StepTo, JobsTyped, LocalsTyped, CurIsAJob, jobs
<1>5. CASE FindJob(p)
  <2>1. JobsTyped' /\ CurIsAJob'
    BY <1>5 DEF FindJob, JobsTyped, CurIsAJob, jobs
  <2>2. LocalsTyped'
    BY <1>5 DEF FindJob, Busy, StepTo, LocalsTyped
  <2> QED BY <2>1, <2>2
<1>6. CASE MakeJob(p)
  <2>1. left[p] # {} /\ left[p] \in SUBSET Nat /\ left[p] \subseteq Accounts
    BY <1>6, PoolsAssumption DEF MakeJob, Busy, LocalsTyped
  <2>2. First(left[p]) \in Accounts
    BY <2>1, FirstIsMember
  <2>3. PICK j \in Jobs : /\ jst' = [jst EXCEPT ![j] = "PENDING"]
                          /\ jacct' = [jacct EXCEPT ![j] = First(left[p])]
                          /\ cur' = [cur EXCEPT ![p] = j]
    BY <1>6 DEF MakeJob
  <2>4. JobsTyped'
    BY <2>2, <2>3 DEF JobsTyped, Status
  <2>5. LocalsTyped'
    BY <1>6, <2>3 DEF MakeJob, StepTo, LocalsTyped
  <2>6. CurIsAJob'
    BY <2>3 DEF CurIsAJob, JobsTyped, LocalsTyped
  <2> QED BY <2>4, <2>5, <2>6
<1>7. CASE JobRefused(p)
  BY <1>7 DEF JobRefused, StepTo, JobsTyped, LocalsTyped, CurIsAJob, jobs
<1>8. CASE MarkJob(p)
  <2>1. JobsTyped'
    BY <1>8 DEF MarkJob, JobsTyped
  <2>2. LocalsTyped' /\ CurIsAJob'
    BY <1>8 DEF MarkJob, StepTo, LocalsTyped, CurIsAJob, Jobs, NoJob
  <2> QED BY <2>1, <2>2
<1> QED BY <1>1, <1>2, <1>3, <1>4, <1>5, <1>6, <1>7, <1>8 DEF Bulk

LEMMA SettleKeeps ==
  ASSUME BulkInv, NEW p \in Procs, NEW st \in Status \ {"none"}, Settle(p, st)
  PROVE  BulkInv'
<1>1. JobsTyped'
  BY DEF Settle, BulkInv, JobsTyped, LocalsTyped, CurIsAJob
<1>2. LocalsTyped' /\ CurIsAJob'
  BY DEF Settle, BulkInv, JobsTyped, LocalsTyped, CurIsAJob, Jobs, NoJob
<1> QED BY <1>1, <1>2 DEF BulkInv

LEMMA BulkStep ==
  ASSUME BulkInv, PoolTypeOK, [Next]_vars
  PROVE  BulkInv'
<1>1. CASE UNCHANGED bulkVars
  BY <1>1 DEF BulkInv, JobsTyped, LocalsTyped, CurIsAJob, bulkVars, jobs, locals
<1>2. CASE \E p \in Procs : Bulk(p)
  BY <1>2, BulkKeeps
<1>3. CASE \E p \in Procs : SendDm(p) \/ NoSession(p)
  BY <1>1, <1>3, SettleKeeps DEF SendDm, NoSession, Status
<1>4. CASE \E p \in Procs : ProcessDies(p)
  BY <1>4, ForgetKeeps DEF ProcessDies
<1>5. CASE \E p \in Procs, j \in Jobs : ClaimJob(p, j)
  <2> PICK p \in Procs, j \in Jobs : ClaimJob(p, j)
    BY <1>5
  <2>1. JobsTyped'
    BY DEF ClaimJob, Take, BulkInv, JobsTyped, Status
  <2>2. LocalsTyped' /\ CurIsAJob'
    BY DEF ClaimJob, Take, BulkInv, JobsTyped, LocalsTyped, CurIsAJob
  <2> QED BY <2>1, <2>2 DEF BulkInv
<1>6. CASE \E j \in Jobs : CancelJob(j)
  BY <1>6 DEF CancelJob, BulkInv, JobsTyped, LocalsTyped, CurIsAJob, Status, locals
<1> QED BY <1>1, <1>2, <1>3, <1>4, <1>5, <1>6 DEF Next, Other, vars

LEMMA StepsAreOfPools ==
  ASSUME BulkInv, PoolTypeOK, [Next]_vars
  PROVE  [PoolNext]_poolVars
<1>1. CASE UNCHANGED vars
  BY <1>1 DEF vars
<1>2. ASSUME NEW p \in Procs, Bulk(p)
      PROVE  PoolNext \/ UNCHANGED poolVars
  BY <1>2 DEF Bulk, BeginBulk, Begin, Preview, NoneReady, Replay, TakeKey, FindJob, MakeJob,
       JobRefused, MarkJob, Answer, RequestFails, Reply, PoolNext
<1>3. ASSUME NEW p \in Procs, Other(p) \/ SendDm(p) \/ NoSession(p) \/ ProcessDies(p)
      PROVE  PoolNext
  BY <1>3 DEF Other, SendDm, NoSession, ProcessDies, PoolNext, Session
<1>4. ASSUME NEW p \in Procs, NEW j \in Jobs, ClaimJob(p, j)
      PROVE  PoolNext
  <2>1. jacct[j] \in Accounts
    BY <1>4 DEF ClaimJob, BulkInv, JobsTyped
  <2> QED BY <1>4, <2>1 DEF ClaimJob, Take, PoolNext
<1> QED BY <1>1, <1>2, <1>3, <1>4 DEF Next, CancelJob, PoolNext

LEMMA BulkInductive == Spec => [](PoolInv /\ BulkInv)
<1>1. Init => PoolInv /\ BulkInv
  BY PoolInitially, BulkInitially DEF Init
<1>2. PoolInv /\ BulkInv /\ [Next]_vars => (PoolInv /\ BulkInv)'
  BY StepsAreOfPools, BulkStep, PoolTypeStep, LockStep DEF PoolInv
<1> QED BY <1>1, <1>2, PTL DEF Spec

(* Whatever bulk requests, jobs and cancels do, the sessions are used as      *)
(* SessionPools says: each step is one of its steps or leaves them alone.     *)
THEOREM BulkUsesSessions == Spec => PoolSpec
<1>1. Init => PoolInit
  BY DEF Init
<1>2. PoolInv /\ BulkInv /\ [Next]_vars => [PoolNext]_poolVars
  BY StepsAreOfPools DEF PoolInv
<1> QED BY <1>1, <1>2, BulkInductive, PTL DEF Spec, PoolSpec

(* The variables of the sessions have their types (ClientManager, the locks). *)
THEOREM SessionsTypeCorrect == PoolSpec => []PoolTypeOK
<1>1. PoolInv => PoolTypeOK
  BY DEF PoolInv
<1> QED BY <1>1, PoolInductive, PTL

(* No lock of a session is leaked by add_account and remove_account: they     *)
(* leave none held but for a client of the holder's pool or one it is         *)
(* connecting or replacing.  connect_account leaks the lock of a client it is *)
(* cancelled over while it replaces it, but never that of a session file.     *)
THEOREM LocksNotLeaked == Spec => []LocksAreAccounted
<1>1. PoolInv => LocksAreAccounted
  BY DEF PoolInv, LockInv
<1> QED BY <1>1, BulkInductive, PTL

LEMMA DriverHasLock ==
  ASSUME PoolInv, NEW a \in FileAccounts, NEW p \in Procs, Drives(p, a)
  PROVE  lock[a] = p
<1> USE DEF PoolInv, LockInv
<1>1. a \in Accounts
  BY PoolsAssumption
<1>2. CASE pool[p][a] # "none"
  <2>1. pool[p][a] = "locked"
    BY <1>1, <1>2, PooledIsClient DEF FilesAreLocked, Clients
  <2> QED BY <1>1, <2>1 DEF ClientHoldsLock
<1>3. CASE acct[p] = a /\ at[p] \in {"connect", "reconnect", "replace"}
  BY <1>3 DEF ConnectingHoldsLock, ReconnectingFile, Replacing
<1>4. a \notin lost[p]
  BY DEF StringsAreLost
<1> QED BY <1>2, <1>3, <1>4 DEF Drives

(* A session file is open in one process at a time (session_lock.py), for     *)
(* any processes, accounts and operations of ClientManager: whoever has a     *)
(* client of it, or is connecting one, holds its lock.                        *)
THEOREM OneProcessEach == Spec => []SessionIsOneProcess
<1>1. PoolInv => SessionIsOneProcess
  BY DriverHasLock DEF SessionIsOneProcess
<1> QED BY <1>1, BulkInductive, PTL

-----------------------------------------------------------------------------
(* Where a process is, as its operation says: only a bulk request of a web    *)
(* process gets to its plan, and a loop with a message to send has a job that *)
(* runs, one that no other loop has.                                          *)

Errands ==
  \A p \in Procs :
    /\ kind[p] = "bulk" => p \in Webs /\ key[p] \in Keys
    /\ at[p] = "busy" => kind[p] = "bulk"
    /\ step[p] # "plan" => at[p] = "busy"
    /\ step[p] = "mark" => cur[p] \in Jobs
    /\ kind[p] = "dm" => /\ p \in Loops /\ at[p] \in {"lock", "connect", "use"}
                         /\ cur[p] \in Jobs /\ jst[cur[p]] = "RUNNING"

Apart ==
  \A p, q \in Procs : kind[p] = "dm" /\ kind[q] = "dm" /\ cur[p] = cur[q] => p = q

(* What the operations of a process leave of the others.                      *)
Stays(p) == \A q \in Procs \ {p} : kind'[q] = kind[q] /\ at'[q] = at[q]

Onward(p) ==
  \/ kind'[p] = kind[p] /\ kind[p] \in Batches /\ at'[p] = "lock"
  \/ kind'[p] = kind[p] /\ kind[p] = "bulk" /\ at'[p] = "busy"
  \/ kind'[p] = "none" /\ at'[p] = "idle"

LEMMA DoneGoesOn ==
  ASSUME PoolTypeOK, NEW p \in Procs, Done(p) \/ Failed(p)
  PROVE  Stays(p) /\ Onward(p)
<1> USE DEF PoolTypeOK, Stays, Onward, Batches
<1>1. CASE End(p)
  BY <1>1 DEF End
<1>2. ASSUME NEW place, Goto(p, place)
      PROVE  Stays(p) /\ kind' = kind /\ at'[p] = place
  BY <1>2 DEF Goto
<1>3. CASE NextOfBatch(p) /\ kind[p] \in Batches
  BY <1>1, <1>2, <1>3 DEF NextOfBatch
<1> QED BY <1>1, <1>2, <1>3 DEF Done, Failed

LEMMA NextGoesOn ==
  ASSUME PoolTypeOK, NEW p \in Procs, NextTarget(p) \/ AfterDrop(p)
  PROVE  /\ Stays(p)
         /\ \/ kind'[p] = kind[p] /\ at'[p] \in {"relock", "reconnect", "drop"}
            \/ kind'[p] = "none" /\ at'[p] = "idle"
BY DEF PoolTypeOK, Stays, NextTarget, AfterDrop, Goto, End, Again

(* Steps that a job or a request takes no note of.                            *)
LEMMA OtherMoves ==
  ASSUME PoolTypeOK, NEW p \in Procs, Other(p)
  PROVE  /\ Stays(p) /\ at[p] # "busy"
         /\ \/ at[p] = "idle" /\ kind'[p] \notin {"bulk", "dm"} /\ at'[p] # "busy"
            \/ /\ at[p] # "idle" /\ kind'[p] = kind[p] /\ at'[p] # "busy"
               /\ kind[p] = "dm" /\ at[p] \in {"lock", "connect", "use"}
                    => at'[p] \in {"connect", "use"}
            \/ /\ kind'[p] = "none" /\ at'[p] = "idle"
               /\ ~(kind[p] = "dm" /\ at[p] \in {"lock", "connect", "use"})
<1> USE DEF PoolTypeOK, Stays
<1>1. CASE \E k \in KindsOf(p) \ {"bulk"}, a \in Accounts : Begin(p, k, a)
  BY <1>1 DEF Begin, Start, FirstPlace, Again, KindsOf, WebKinds, LoopKinds
<1>2. CASE UsePooled(p) \/ TakeLock(p) \/ Connects(p) \/ Reconnects(p) \/ TakesOut(p)
           \/ Replaces(p)
  BY <1>2 DEF UsePooled, TakeLock, WantsLock, Connects, Reconnects, TakesOut, Replaces, Goto
<1>3. CASE ReplaceCancelled(p) \/ ReconnectFails(p) \/ Drop(p) \/ DropFails(p)
  <2>1. NextTarget(p) \/ AfterDrop(p)
    BY <1>3 DEF ReplaceCancelled, ReconnectFails, Drop, DropFails
  <2>2. at[p] \in {"replace", "reconnect", "probed", "drop"}
    BY <1>3 DEF ReplaceCancelled, ReconnectFails, Drop, DropFails
  <2> QED BY <2>1, <2>2, NextGoesOn
<1>4. CASE Operation(p)
  <2>1. CASE Join(p) \/ JoinNext(p) \/ Leave(p)
    <3>1. Done(p) \/ End(p)
      BY <2>1 DEF Join, JoinNext, Leave
    <3>2. at[p] = "use" /\ kind[p] \in {"join", "joinAll", "leave"}
      BY <2>1 DEF Join, JoinNext, Leave
    <3>3. CASE End(p)
      BY <3>2, <3>3 DEF End
    <3> QED BY <3>1, <3>2, <3>3, DoneGoesOn DEF Onward
  <2>2. CASE JoinTarget(p) \/ Send(p) \/ Post(p)
    BY <2>2 DEF JoinTarget, Send, Post, Goto, End
  <2>3. CASE Check(p)
    BY <2>3, NextGoesOn DEF Check
  <2> QED BY <1>4, <2>1, <2>2, <2>3 DEF Operation
<1>5. CASE kind[p] = "read" /\ Read(p)
  BY <1>5 DEF Read, Done, Batches, End
<1> QED BY <1>1, <1>2, <1>3, <1>4, <1>5 DEF Other

(* The types of what a request and its answer keep.                           *)
BatchTyped ==
  /\ jslot \in [Jobs -> Nat] /\ jkey \in [Jobs -> Keys \cup {NoKey}]
  /\ jmark \in [Jobs -> BOOLEAN]
  /\ \A j \in Jobs : jst[j] # "none" => jkey[j] \in Keys
AnswersTyped ==
  /\ ledger \in [Keys -> {"none", "pending", "answered"}]
  /\ listed \in [Keys -> SUBSET Jobs]
  /\ plans \in [Keys -> SUBSET SUBSET Accounts]
  /\ \A k \in Keys : IsFiniteSet(plans[k])
RequestsTyped ==
  /\ key \in [Procs -> Keys \cup {NoKey}] /\ made \in [Procs -> SUBSET Jobs]
  /\ \A p \in Procs : left[p] \subseteq ready[p]

Typed == BulkInv /\ PoolTypeOK /\ BatchTyped /\ AnswersTyped /\ RequestsTyped

(* What Errands needs of a step of p: the others keep their operation, their  *)
(* locals and the state of the job they send.                                 *)
LEMMA ErrandsFrame ==
  ASSUME Errands, NEW p \in Procs, Stays(p),
         \A q \in Procs \ {p} : step'[q] = step[q] /\ key'[q] = key[q] /\ cur'[q] = cur[q],
         \A q \in Procs \ {p} : kind[q] = "dm" => jst'[cur[q]] = jst[cur[q]],
         kind'[p] = "bulk" => p \in Webs /\ key'[p] \in Keys,
         at'[p] = "busy" => kind'[p] = "bulk",
         step'[p] # "plan" => at'[p] = "busy",
         step'[p] = "mark" => cur'[p] \in Jobs,
         kind'[p] = "dm" => /\ p \in Loops /\ at'[p] \in {"lock", "connect", "use"}
                            /\ cur'[p] \in Jobs /\ jst'[cur'[p]] = "RUNNING"
  PROVE  Errands'
BY DEF Errands, Stays

LEMMA ForgetClears ==
  ASSUME Typed, NEW p \in Procs, Forget(p)
  PROVE  /\ \A q \in Procs \ {p} : /\ step'[q] = step[q] /\ key'[q] = key[q]
                                   /\ ready'[q] = ready[q] /\ left'[q] = left[q]
                                   /\ made'[q] = made[q] /\ cur'[q] = cur[q]
         /\ step'[p] = "plan"
BY DEF Typed, BulkInv, LocalsTyped, RequestsTyped, Forget

LEMMA EndClears ==
  ASSUME PoolTypeOK, NEW p \in Procs, End(p)
  PROVE  Stays(p) /\ kind'[p] = "none" /\ at'[p] = "idle"
BY DEF PoolTypeOK, Stays, End

LEMMA ErrandsBulk ==
  ASSUME Typed, Errands, NEW p \in Procs, Bulk(p)
  PROVE  Errands'
<1> USE DEF Typed, BulkInv, LocalsTyped, RequestsTyped
<1>1. CASE \E k \in Keys : BeginBulk(p, k)
  <2> PICK k \in Keys : BeginBulk(p, k)
    BY <1>1
  <2>1. /\ Stays(p) /\ at[p] = "idle" /\ kind'[p] = "bulk" /\ at'[p] = "lock" /\ p \in Webs
        /\ key' = [key EXCEPT ![p] = k] /\ UNCHANGED <<step, cur, jst>>
    BY DEF BeginBulk, Begin, Start, FirstPlace, KindsOf, LoopKinds, PoolTypeOK, Stays, jobs
  <2> HIDE DEF PoolTypeOK, BulkInv
  <2> QED BY <2>1, ErrandsFrame DEF Errands
<1>2. CASE Preview(p)
  <2>1. Stays(p) /\ kind[p] = "bulk" /\ Onward(p) /\ UNCHANGED <<step, cur, jst, key>>
    BY <1>2, DoneGoesOn DEF Preview, Read, jobs
  <2>2. at[p] = "use"
    BY <1>2 DEF Preview, Read
  <2> QED BY <2>1, <2>2, ErrandsFrame DEF Errands, Onward, Batches
<1>3. CASE NoneReady(p) \/ Replay(p) \/ Answer(p) \/ RequestFails(p)
  <2>1. End(p) /\ Forget(p) /\ UNCHANGED jst
    BY <1>3 DEF NoneReady, Replay, Answer, RequestFails, Reply, Plan, jobs
  <2> QED BY <2>1, EndClears, ForgetClears, ErrandsFrame DEF Typed
<1>4. CASE TakeKey(p)
  BY <1>4, ErrandsFrame
     DEF TakeKey, Busy, StepTo, Errands, Stays, poolVars, ops, jobs
<1>5. CASE FindJob(p) \/ JobRefused(p)
  BY <1>5, ErrandsFrame
     DEF FindJob, JobRefused, Busy, StepTo, Errands, Stays, poolVars, ops, jobs
<1>6. CASE MarkJob(p)
  BY <1>6, ErrandsFrame
     DEF MarkJob, Busy, StepTo, Errands, Stays, poolVars, ops, jobs
<1>7. CASE MakeJob(p)
  <2>1. PICK j \in Jobs : /\ jst[j] = "none" /\ jst' = [jst EXCEPT ![j] = "PENDING"]
                          /\ cur' = [cur EXCEPT ![p] = j]
    BY <1>7 DEF MakeJob
  <2>2. \A q \in Procs \ {p} : kind[q] = "dm" => jst'[cur[q]] = jst[cur[q]]
    BY <2>1 DEF Errands
  <2> QED BY <1>7, <2>1, <2>2, ErrandsFrame
     DEF MakeJob, Busy, StepTo, Errands, Stays, poolVars, ops, jobs
<1> QED BY <1>1, <1>2, <1>3, <1>4, <1>5, <1>6, <1>7 DEF Bulk

LEMMA ErrandsStep ==
  ASSUME Typed, Errands, Apart, [Next]_vars
  PROVE  Errands'
<1> USE DEF Typed, BulkInv, LocalsTyped, RequestsTyped
<1>1. CASE UNCHANGED <<ops, bulkVars>>
  BY <1>1 DEF Errands, ops, bulkVars, jobs, locals
<1>2. CASE \E p \in Procs : Bulk(p)
  BY <1>2, ErrandsBulk
<1>3. ASSUME NEW p \in Procs, Other(p) PROVE Errands'
  <2>1. UNCHANGED <<step, key, cur, jst>>
    BY <1>3 DEF Other, bulkVars, jobs, locals
  <2>2. Stays(p) /\ (step[p] # "plan" => at[p] = "busy")
    BY <1>3, OtherMoves DEF Errands
  <2> QED BY <1>3, <2>1, <2>2, OtherMoves, ErrandsFrame DEF Errands
<1>4. ASSUME NEW p \in Procs, kind[p] = "dm", Done(p) \/ Failed(p),
             \E st \in Status : Settle(p, st)
      PROVE  Errands'
  <2>1. Stays(p) /\ Onward(p)
    BY <1>4, DoneGoesOn
  <2>2. /\ \A q \in Procs \ {p} : cur'[q] = cur[q]
        /\ UNCHANGED <<step, key>>
        /\ \A j \in Jobs : j # cur[p] => jst'[j] = jst[j]
    BY <1>4 DEF Settle, JobsTyped
  <2>3. \A q \in Procs \ {p} : kind[q] = "dm" => cur[q] \in Jobs /\ cur[q] # cur[p]
    BY <1>4 DEF Apart, Errands
  <2>4. step[p] = "plan"
    BY <1>4 DEF Errands
  <2> QED BY <1>4, <2>1, <2>2, <2>3, <2>4, ErrandsFrame DEF Onward, Batches
<1>5. ASSUME NEW p \in Procs, SendDm(p) PROVE Errands'
  BY <1>4, <1>5 DEF SendDm, Read, Status
<1>6. ASSUME NEW p \in Procs, NoSession(p) PROVE Errands'
  <2>1. CASE kind[p] = "dm"
    <3>1. Failed(p)
      BY <1>6, <2>1 DEF NoSession, LockTimesOut, WantsLock, ConnectFails, Errands
    <3> QED BY <1>4, <1>6, <2>1, <3>1 DEF NoSession, Status
  <2>2. CASE kind[p] # "dm"
    <3>1. UNCHANGED <<step, key, cur, jst>>
      BY <1>6, <2>2 DEF NoSession, bulkVars, jobs, locals
    <3>2. at[p] \notin {"busy", "idle"}
      BY <1>6 DEF NoSession, LockTimesOut, WantsLock, ConnectFails
    <3>3. Failed(p) \/ NextTarget(p)
      BY <1>6 DEF NoSession, LockTimesOut, ConnectFails
    <3>4. CASE Failed(p)
      BY <2>2, <3>1, <3>2, <3>4, DoneGoesOn, ErrandsFrame DEF Errands, Onward
    <3>5. CASE NextTarget(p)
      BY <2>2, <3>1, <3>2, <3>5, NextGoesOn, ErrandsFrame DEF Errands
    <3> QED BY <3>3, <3>4, <3>5
  <2> QED BY <2>1, <2>2
<1>7. ASSUME NEW p \in Procs, ProcessDies(p) PROVE Errands'
  <2>1. End(p) /\ Forget(p) /\ UNCHANGED jst
    BY <1>7 DEF ProcessDies, Die, jobs
  <2> QED BY <2>1, EndClears, ForgetClears, ErrandsFrame DEF Typed
<1>8. ASSUME NEW p \in Procs, NEW j \in Jobs, ClaimJob(p, j) PROVE Errands'
  <2>1. /\ Stays(p) /\ p \in Loops /\ at[p] = "idle" /\ kind'[p] = "dm" /\ at'[p] = "lock"
        /\ cur' = [cur EXCEPT ![p] = j] /\ UNCHANGED <<step, key>>
        /\ jst' = [jst EXCEPT ![j] = "RUNNING"]
    BY <1>8 DEF ClaimJob, Take, BeginDm, Start, Stays, PoolTypeOK
  <2>2. \A q \in Procs : kind[q] = "dm" => cur[q] # j
    BY <1>8 DEF ClaimJob, Errands
  <2>3. \A q \in Procs \ {p} : kind[q] = "dm" => jst'[cur[q]] = jst[cur[q]]
    BY <2>1, <2>2 DEF JobsTyped, Errands
  <2>4. step[p] = "plan"
    BY <2>1 DEF Errands
  <2>5. jst'[j] = "RUNNING" /\ cur'[p] = j
    BY <2>1 DEF JobsTyped
  <2> QED BY <2>1, <2>3, <2>4, <2>5, ErrandsFrame
<1>9. CASE \E j \in Jobs : CancelJob(j)
  <2> PICK j \in Jobs : CancelJob(j)
    BY <1>9
  <2>1. UNCHANGED <<kind, at, step, key, cur>> /\ \A i \in Jobs : jst[i] = "RUNNING" => jst'[i] = "RUNNING"
    BY DEF CancelJob, poolVars, ops, locals, JobsTyped
  <2> QED BY <2>1 DEF Errands
<1> QED BY <1>1, <1>2, <1>3, <1>5, <1>6, <1>7, <1>8, <1>9
        DEF Next, Decide, vars, poolVars

LEMMA ApartStep ==
  ASSUME Typed, Errands, Apart, [Next]_vars
  PROVE  Apart'
<1> USE DEF Typed, BulkInv, LocalsTyped, RequestsTyped
<1>1. ASSUME NEW p \in Procs, Stays(p), \A q \in Procs \ {p} : cur'[q] = cur[q],
             kind'[p] = "dm" => kind[p] = "dm" /\ cur'[p] = cur[p]
      PROVE  Apart'
  BY <1>1 DEF Apart, Stays
<1>2. CASE UNCHANGED <<ops, cur>>
  BY <1>2 DEF Apart, ops
<1>3. ASSUME NEW p \in Procs, Bulk(p) PROVE Apart'
  <2>1. CASE \E k \in Keys : BeginBulk(p, k)
    BY <1>1, <2>1 DEF BeginBulk, Begin, Start, Stays, PoolTypeOK
  <2>2. CASE Preview(p)
    BY <1>1, <2>2, DoneGoesOn DEF Preview, Read, Onward
  <2>3. CASE NoneReady(p) \/ Replay(p) \/ Answer(p) \/ RequestFails(p)
    <3>1. End(p) /\ Forget(p)
      BY <2>3 DEF NoneReady, Replay, Answer, RequestFails, Reply, Plan
    <3> QED BY <1>1, <3>1, EndClears, ForgetClears
  <2>4. CASE TakeKey(p) \/ FindJob(p) \/ MakeJob(p) \/ JobRefused(p) \/ MarkJob(p)
    <3>1. kind[p] = "bulk" /\ UNCHANGED ops /\ \A q \in Procs \ {p} : cur'[q] = cur[q]
      BY <2>4 DEF TakeKey, FindJob, MakeJob, JobRefused, MarkJob, Busy, Errands, poolVars
    <3> QED BY <1>1, <3>1 DEF Stays, ops
  <2> QED BY <1>3, <2>1, <2>2, <2>3, <2>4 DEF Bulk
<1>4. ASSUME NEW p \in Procs, Other(p) PROVE Apart'
  <2>1. UNCHANGED cur
    BY <1>4 DEF Other, bulkVars, locals
  <2> QED BY <1>1, <1>4, <2>1, OtherMoves
<1>5. ASSUME NEW p \in Procs, SendDm(p) \/ NoSession(p) PROVE Apart'
  <2>1. Done(p) \/ Failed(p) \/ NextTarget(p)
    BY <1>5 DEF SendDm, Read, NoSession, LockTimesOut, ConnectFails
  <2>2. \A q \in Procs \ {p} : cur'[q] = cur[q]
    BY <1>5 DEF SendDm, NoSession, Settle, bulkVars, locals
  <2>3. Stays(p) /\ (kind'[p] = "dm" => kind[p] = "dm")
    <3>1. CASE NextTarget(p)
      BY <3>1, NextGoesOn
    <3> QED BY <2>1, <3>1, DoneGoesOn DEF Onward
  <2>4. ASSUME kind[p] = "dm" PROVE kind'[p] # "dm"
    <3>1. Done(p) \/ Failed(p)
      BY <1>5, <2>4 DEF SendDm, Read, NoSession, LockTimesOut, WantsLock, ConnectFails, Errands
    <3> QED BY <2>4, <3>1, DoneGoesOn DEF Onward, Batches
  <2> QED BY <1>1, <2>2, <2>3, <2>4
<1>6. ASSUME NEW p \in Procs, ProcessDies(p) PROVE Apart'
  <2>1. End(p) /\ Forget(p)
    BY <1>6 DEF ProcessDies, Die
  <2> QED BY <1>1, <2>1, EndClears, ForgetClears
<1>7. ASSUME NEW p \in Procs, NEW j \in Jobs, ClaimJob(p, j) PROVE Apart'
  <2>1. Stays(p) /\ cur' = [cur EXCEPT ![p] = j]
    BY <1>7 DEF ClaimJob, Take, BeginDm, Start, Stays, PoolTypeOK
  <2>2. \A q \in Procs : kind[q] = "dm" => cur[q] # j
    BY <1>7 DEF ClaimJob, Errands
  <2> QED BY <2>1, <2>2 DEF Apart, Stays
<1> QED BY <1>2, <1>3, <1>4, <1>5, <1>6, <1>7
        DEF Next, CancelJob, Decide, vars, bulkVars, locals, poolVars

-----------------------------------------------------------------------------
(* A slot is a number: those of an account that come before it are finite.    *)
LEMMA SlotIsNat ==
  ASSUME NEW a \in Nat, NEW R \in SUBSET Nat
  PROVE  SlotOf(a, R) \in Nat
<1> DEFINE S == {b \in R : b < a}
<1>1. S \in SUBSET Nat
  OBVIOUS
<1>3. \A b \in S : b <= a
  <2> SUFFICES ASSUME NEW b \in R, b < a PROVE b <= a
    OBVIOUS
  <2> QED OBVIOUS
<1>2. IsFiniteSet(S)
  BY <1>1, <1>3, FS_BoundedSetOfNaturals, Zenon
<1> QED BY <1>2, FS_CardinalityType DEF SlotOf

LEMMA BatchTypedStep ==
  ASSUME Typed, Errands, [Next]_vars
  PROVE  BatchTyped'
<1> USE DEF Typed, BulkInv, LocalsTyped, JobsTyped, RequestsTyped, BatchTyped
<1>1. CASE UNCHANGED jobs
  BY <1>1 DEF jobs
<1>2. ASSUME NEW p \in Procs, MakeJob(p) PROVE BatchTyped'
  <2>1. PICK j \in Jobs :
          /\ jst' = [jst EXCEPT ![j] = "PENDING"] /\ jkey' = [jkey EXCEPT ![j] = key[p]]
          /\ jslot' = [jslot EXCEPT ![j] = SlotOf(First(left[p]), ready[p])]
          /\ UNCHANGED jmark
    BY <1>2 DEF MakeJob
  <2>2. key[p] \in Keys /\ left[p] # {}
    BY <1>2 DEF MakeJob, Busy, Errands
  <2>3. left[p] \in SUBSET Nat /\ ready[p] \in SUBSET Nat
    BY PoolsAssumption
  <2>4. SlotOf(First(left[p]), ready[p]) \in Nat
    BY <2>2, <2>3, FirstIsMember, SlotIsNat
  <2>5. jslot' \in [Jobs -> Nat] /\ jkey' \in [Jobs -> Keys \cup {NoKey}] /\ jmark' \in [Jobs -> BOOLEAN]
    BY <2>1, <2>2, <2>4
  <2>6. \A i \in Jobs : jst'[i] # "none" => jkey'[i] \in Keys
    BY <2>1, <2>2
  <2> QED BY <2>5, <2>6
<1>3. ASSUME NEW p \in Procs, MarkJob(p) PROVE BatchTyped'
  <2>1. UNCHANGED <<jst, jkey, jslot>>
    BY <1>3 DEF MarkJob
  <2>2. jmark' \in [Jobs -> BOOLEAN]
    <3>1. (jmark[cur[p]] \/ jst[cur[p]] = "PENDING") \in BOOLEAN
      BY Zenon
    <3>2. jmark' = [jmark EXCEPT ![cur[p]] = jmark[cur[p]] \/ jst[cur[p]] = "PENDING"]
      BY <1>3 DEF MarkJob
    <3> QED BY <3>1, <3>2, Zenon
  <2> QED BY <2>1, <2>2
<1>4. ASSUME NEW p \in Procs, NEW j \in Jobs, ClaimJob(p, j) PROVE BatchTyped'
  BY <1>4 DEF ClaimJob, Take
<1>5. ASSUME NEW p \in Procs, NEW st \in Status, Settle(p, st) PROVE BatchTyped'
  <2>1. UNCHANGED <<jkey, jslot, jmark>> /\ jst' = [jst EXCEPT ![cur[p]] = st]
    BY <1>5 DEF Settle
  <2>2. \A i \in Jobs : jst'[i] # "none" => jst[i] # "none"
    BY <2>1 DEF CurIsAJob
  <2> QED BY <2>1, <2>2
<1>6. CASE \E j \in Jobs : CancelJob(j)
  BY <1>6 DEF CancelJob
<1>7. ASSUME NEW p \in Procs, Bulk(p), ~MakeJob(p), ~MarkJob(p) PROVE UNCHANGED jobs
  BY <1>7 DEF Bulk, BeginBulk, Preview, NoneReady, Replay, TakeKey, FindJob, JobRefused,
              Answer, RequestFails
<1>8. ASSUME NEW p \in Procs, Other(p) \/ SendDm(p) \/ NoSession(p) \/ ProcessDies(p)
      PROVE  UNCHANGED jobs \/ \E st \in Status : Settle(p, st)
  BY <1>8 DEF Other, SendDm, NoSession, ProcessDies, bulkVars, Status
<1> QED BY <1>1, <1>2, <1>3, <1>4, <1>5, <1>6, <1>7, <1>8 DEF Next, vars, bulkVars

LEMMA AnswersTypedStep ==
  ASSUME Typed, Errands, [Next]_vars
  PROVE  AnswersTyped'
<1> USE DEF Typed, BulkInv, LocalsTyped, RequestsTyped, AnswersTyped
<1>1. CASE UNCHANGED <<answers, plans>>
  BY <1>1 DEF answers
<1>2. ASSUME NEW p \in Procs, TakeKey(p) PROVE AnswersTyped'
  <2>1. /\ ledger' = [ledger EXCEPT ![key[p]] = "pending"] /\ UNCHANGED listed
        /\ plans' = [plans EXCEPT ![key[p]] = plans[key[p]] \cup {ready[p]}]
    BY <1>2 DEF TakeKey
  <2>2. key[p] \in Keys
    BY <1>2 DEF TakeKey, Busy, Errands
  <2>3. IsFiniteSet(plans[key[p]] \cup {ready[p]})
    BY <2>2, FS_AddElement
  <2>4. ledger' \in [Keys -> {"none", "pending", "answered"}] /\ listed' \in [Keys -> SUBSET Jobs]
    BY <2>1
  <2>5. plans[key[p]] \cup {ready[p]} \in SUBSET SUBSET Accounts
    BY <2>2
  <2>6. plans' \in [Keys -> SUBSET SUBSET Accounts]
    BY <2>1, <2>5
  <2>7. \A k \in Keys : IsFiniteSet(plans'[k])
    BY <2>1, <2>3
  <2> QED BY <2>4, <2>6, <2>7
<1>3. ASSUME NEW p \in Procs, Answer(p) PROVE AnswersTyped'
  BY <1>3 DEF Answer
<1>4. ASSUME NEW p \in Procs, Bulk(p), ~TakeKey(p), ~Answer(p) PROVE UNCHANGED <<answers, plans>>
  BY <1>4 DEF Bulk, BeginBulk, Preview, NoneReady, Replay, MakeJob, MarkJob, FindJob,
              JobRefused, RequestFails, answers
<1>5. ASSUME NEW p \in Procs, Other(p) \/ SendDm(p) \/ NoSession(p) \/ ProcessDies(p)
      PROVE  UNCHANGED <<answers, plans>>
  BY <1>5 DEF Other, SendDm, NoSession, ProcessDies, Settle, bulkVars
<1>6. CASE (\E p \in Procs, j \in Jobs : ClaimJob(p, j)) \/ (\E j \in Jobs : CancelJob(j))
  BY <1>1, <1>6 DEF ClaimJob, Take, CancelJob
<1> QED BY <1>1, <1>2, <1>3, <1>4, <1>5, <1>6 DEF Next, vars, bulkVars

LEMMA RequestsTypedStep ==
  ASSUME Typed, Errands, [Next]_vars
  PROVE  RequestsTyped'
<1> USE DEF Typed, BulkInv, LocalsTyped, RequestsTyped
<1>1. CASE UNCHANGED <<key, made, left, ready>>
  BY <1>1
<1>2. ASSUME NEW p \in Procs, Forget(p) PROVE RequestsTyped'
  BY <1>2 DEF Forget
<1>3. ASSUME NEW p \in Procs, Bulk(p) PROVE RequestsTyped'
  <2>1. CASE \E k \in Keys : BeginBulk(p, k)
    BY <2>1 DEF BeginBulk
  <2>2. CASE Preview(p) \/ TakeKey(p) \/ JobRefused(p) \/ MakeJob(p)
    BY <2>2 DEF Preview, TakeKey, JobRefused, MakeJob
  <2>3. CASE FindJob(p)
    <3> DEFINE a == First(left[p])
               found == JobsFor(key[p], a, SlotOf(a, ready[p]))
    <3>1. CASE found = {}
      BY <2>3, <3>1 DEF FindJob
    <3>2. CASE found # {}
      <4>1. /\ made' = [made EXCEPT ![p] = @ \cup {Last(found)}]
            /\ left' = [left EXCEPT ![p] = @ \ {a}] /\ UNCHANGED <<key, ready>>
        BY <2>3, <3>2 DEF FindJob
      <4>2. Last(found) \in Jobs
        <5>1. found \in SUBSET Jobs
          BY DEF JobsFor
        <5> HIDE DEF found
        <5> QED BY <3>2, <5>1, LastIsMember
      <4> QED BY <4>1, <4>2
    <3> QED BY <3>1, <3>2
  <2>4. CASE MarkJob(p)
    <3>1. cur[p] \in Jobs
      BY <2>4 DEF MarkJob, Busy, Errands
    <3> QED BY <2>4, <3>1 DEF MarkJob
  <2>5. CASE NoneReady(p) \/ Replay(p) \/ Answer(p) \/ RequestFails(p)
    BY <1>2, <2>5 DEF NoneReady, Replay, Answer, RequestFails, Reply
  <2> QED BY <1>3, <2>1, <2>2, <2>3, <2>4, <2>5 DEF Bulk
<1>4. ASSUME NEW p \in Procs, Other(p) \/ SendDm(p) \/ NoSession(p) \/ ProcessDies(p)
      PROVE  RequestsTyped'
  BY <1>1, <1>2, <1>4 DEF Other, SendDm, NoSession, ProcessDies, Settle, bulkVars, locals
<1>5. CASE (\E p \in Procs, j \in Jobs : ClaimJob(p, j)) \/ (\E j \in Jobs : CancelJob(j))
  BY <1>1, <1>5 DEF ClaimJob, Take, CancelJob, locals
<1> QED BY <1>1, <1>3, <1>4, <1>5 DEF Next, vars, bulkVars, locals

-----------------------------------------------------------------------------
(* The jobs of a batch.  The web service has one synchronous worker (gunicorn *)
(* -w 1, deploy/autostory-web.service): bulk requests do not overlap.         *)

OneWeb == \A p, q \in Webs : p = q

(* Jobs a request would find if it knew all slots: marked ones, whatever      *)
(* became of them, and those that are not cancelled.                          *)
Kept(k, a) ==
  {j \in Jobs : /\ jst[j] # "none" /\ jkey[j] = k /\ jacct[j] = a
                /\ jmark[j] \/ jst[j] # "CANCELLED"}

(* A job has the slot of its account in one of the plans of its batch.        *)
SlotIsPlanned ==
  \A j \in Jobs : jst[j] # "none" =>
    \E R \in plans[jkey[j]] : jacct[j] \in R /\ jslot[j] = SlotOf(jacct[j], R)

(* As long as the slots of a batch did not shift, an account has one such     *)
(* job, none when a job is about to be made for it, and only the new one      *)
(* before that is marked.                                                     *)
KeptIsOne ==
  \A k \in Keys : ~Shifted(k) => \A a \in Accounts : \A i, j \in Kept(k, a) : i = j
NoneWhenMaking ==
  \A p \in Procs : step[p] = "make" /\ ~Shifted(key[p]) => Kept(key[p], First(left[p])) = {}
OnlyNewInMarking ==
  \A p \in Procs : step[p] = "mark" =>
    /\ left[p] # {}
    /\ ~Shifted(key[p]) => Kept(key[p], First(left[p])) \subseteq {cur[p]}

(* A request that works on its plan holds the key, and its plan is recorded.  *)
PlanIsKnown ==
  \A p \in Procs : step[p] # "plan" => ledger[key[p]] = "pending" /\ ready[p] \in plans[key[p]]

(* Where there has been one plan, a live job is of an account that the        *)
(* request has still to look at, or the request has it in its answer, and the *)
(* answer that was recorded has them all.                                     *)
MadeOrLeft ==
  \A p \in Procs : step[p] # "plan" /\ plans[key[p]] = {ready[p]} =>
    \A j \in Live(key[p]) : jacct[j] \in left[p] \/ j \in made[p]
AnswerIsWhole ==
  \A k \in Keys : ledger[k] = "answered" /\ (\E R : plans[k] = {R}) => Live(k) \subseteq listed[k]

BatchInv ==
  /\ SlotIsPlanned /\ KeptIsOne /\ NoneWhenMaking /\ OnlyNewInMarking
  /\ PlanIsKnown /\ MadeOrLeft /\ AnswerIsWhole

-----------------------------------------------------------------------------
LEMMA OnePlanIsNotShifted ==
  ASSUME NEW k, NEW R, plans[k] = {R}
  PROVE  ~Shifted(k)
BY DEF Shifted

LEMMA LiveIsKept ==
  ASSUME NEW k, NEW j \in Live(k)
  PROVE  j \in Kept(k, jacct[j])
BY DEF Live, Kept

(* What a request finds for an account is kept, and it finds all there is     *)
(* unless slots have shifted.                                                 *)
LEMMA FoundIsKept ==
  ASSUME NEW k, NEW a, NEW s
  PROVE  JobsFor(k, a, s) \subseteq Kept(k, a)
BY DEF JobsFor, Kept

LEMMA KeptIsFound ==
  ASSUME SlotIsPlanned, NEW k \in Keys, ~Shifted(k), NEW R \in plans[k], NEW a \in Accounts,
         a \in R, JobsFor(k, a, SlotOf(a, R)) = {}
  PROVE  Kept(k, a) = {}
<1> SUFFICES ASSUME NEW j \in Kept(k, a) PROVE FALSE
  OBVIOUS
<1> DEFINE own == {i \in Jobs : jst[i] # "none" /\ jkey[i] = k /\ jacct[i] = a}
           marked == {i \in own : jmark[i]}
<1>1. marked = {} /\ {i \in own : jslot[i] = SlotOf(a, R) /\ jst[i] # "CANCELLED"} = {}
  BY DEF JobsFor
<1>2. j \in own /\ (jmark[j] \/ jst[j] # "CANCELLED")
  BY DEF Kept
<1>3. PICK S \in plans[k] : a \in S /\ jslot[j] = SlotOf(a, S)
  BY <1>2 DEF SlotIsPlanned
<1>4. SlotOf(a, S) = SlotOf(a, R)
  BY <1>3 DEF Shifted
<1> QED BY <1>1, <1>2, <1>3, <1>4

(* A step that makes no job, cancels none for good and marks no cancelled one *)
(* adds nothing to what is kept or live.                                      *)
NothingMade ==
  /\ UNCHANGED <<jacct, jslot, jkey, plans>>
  /\ \A j \in Jobs : /\ jst[j] = "none" <=> jst'[j] = "none"
                     /\ jst[j] = "CANCELLED" => jst'[j] = "CANCELLED"
                     /\ jmark'[j] /\ ~jmark[j] => jst[j] # "CANCELLED"

LEMMA NothingAdded ==
  ASSUME NothingMade
  PROVE  /\ \A k, a : Kept(k, a)' \subseteq Kept(k, a)
         /\ \A k : Live(k)' \subseteq Live(k) /\ Shifted(k)' = Shifted(k)
<1>1. \A k, a : Kept(k, a)' \subseteq Kept(k, a)
  BY DEF NothingMade, Kept
<1>2. \A k : Live(k)' \subseteq Live(k)
  BY DEF NothingMade, Live
<1>3. \A k : Shifted(k)' = Shifted(k)
  BY DEF NothingMade, Shifted
<1> QED BY <1>1, <1>2, <1>3

(* Steps in which no request moves on with its plan.                          *)
LEMMA BatchQuiet ==
  ASSUME Typed, BatchInv, NothingMade, UNCHANGED answers,
         \A q \in Procs : \/ step'[q] = "plan"
                          \/ /\ step'[q] = step[q] /\ key'[q] = key[q] /\ cur'[q] = cur[q]
                             /\ ready'[q] = ready[q] /\ left'[q] = left[q] /\ made'[q] = made[q]
  PROVE  BatchInv'
<1> USE NothingAdded DEF BatchInv
<1>1. SlotIsPlanned'
  BY DEF SlotIsPlanned, NothingMade
<1>2. KeptIsOne'
  BY DEF KeptIsOne
<1>3. NoneWhenMaking'
  BY DEF NoneWhenMaking
<1>4. OnlyNewInMarking'
  BY DEF OnlyNewInMarking
<1>5. PlanIsKnown'
  BY DEF PlanIsKnown, NothingMade, answers
<1>6. MadeOrLeft'
  BY DEF MadeOrLeft, NothingMade, Live
<1>7. AnswerIsWhole'
  BY DEF AnswerIsWhole, NothingMade, answers
<1> QED BY <1>1, <1>2, <1>3, <1>4, <1>5, <1>6, <1>7

(* While one web process works on a plan, or is about to, no other does.      *)
LEMMA Alone ==
  ASSUME OneWeb, Errands, NEW p \in Procs, at[p] = "busy", NEW q \in Procs, q # p
  PROVE  step[q] = "plan"
BY DEF OneWeb, Errands

(* A step of the one request that works on its plan.                          *)
LEMMA RequestMoves ==
  ASSUME OneWeb, Typed, Errands, BatchInv, NEW p \in Procs, at[p] = "busy",
         \A q \in Procs \ {p} : step'[q] = step[q],
         SlotIsPlanned', KeptIsOne', AnswerIsWhole',
         step'[p] = "make" /\ ~Shifted(key[p])' => Kept(key[p], First(left[p]))' = {},
         step'[p] = "mark" => /\ left'[p] # {}
                              /\ ~Shifted(key[p])' => Kept(key[p], First(left[p]))' \subseteq {cur'[p]},
         step'[p] # "plan" => ledger'[key'[p]] = "pending" /\ ready'[p] \in plans'[key'[p]],
         step'[p] # "plan" /\ plans'[key'[p]] = {ready'[p]} =>
           \A j \in Live(key[p])' : jacct'[j] \in left'[p] \/ j \in made'[p]
  PROVE  BatchInv'
<1>1. \A q \in Procs : step'[q] # "plan" => q = p
  BY Alone
<1>2. NoneWhenMaking'
  BY <1>1 DEF NoneWhenMaking
<1>3. OnlyNewInMarking'
  BY <1>1 DEF OnlyNewInMarking
<1>4. PlanIsKnown'
  BY <1>1 DEF PlanIsKnown
<1>5. MadeOrLeft'
  BY <1>1 DEF MadeOrLeft
<1> QED BY <1>2, <1>3, <1>4, <1>5 DEF BatchInv

-----------------------------------------------------------------------------
(* The steps of a request with its plan.                                      *)

LEMMA TakeKeyKeepsBatch ==
  ASSUME OneWeb, Typed, Errands, BatchInv, NEW p \in Procs, TakeKey(p)
  PROVE  BatchInv'
<1> DEFINE k == key[p]
<1>1. /\ at[p] = "busy" /\ k \in Keys
      /\ UNCHANGED <<jobs, listed, key, ready>>
      /\ \A q \in Procs \ {p} : step'[q] = step[q]
      /\ step'[p] = "find" /\ left'[p] = ready[p] /\ ledger'[k] = "pending"
  BY DEF TakeKey, Busy, StepTo, Errands, Typed, BulkInv, LocalsTyped, AnswersTyped
<1>2. /\ plans'[k] = plans[k] \cup {ready[p]}
      /\ \A i \in Keys : i # k => plans'[i] = plans[i] /\ ledger'[i] = ledger[i]
  BY <1>1 DEF TakeKey, Typed, AnswersTyped
<1>3. \A i \in Keys : plans[i] \subseteq plans'[i]
  BY <1>2
<1>4. \A i \in Keys : Shifted(i) => Shifted(i)'
  BY <1>3 DEF Shifted
<1>5. \A i, a : Kept(i, a)' = Kept(i, a) /\ Live(i)' = Live(i)
  BY <1>1 DEF Kept, Live, jobs
<1>6. SlotIsPlanned'
  <2>1. \A j \in Jobs : jst[j] # "none" => jkey[j] \in Keys
    BY DEF Typed, BatchTyped
  <2> QED BY <1>1, <1>3, <2>1 DEF SlotIsPlanned, BatchInv, jobs
<1>7. KeptIsOne'
  BY <1>4, <1>5 DEF KeptIsOne, BatchInv
<1>8. AnswerIsWhole'
  BY <1>1, <1>2, <1>5 DEF AnswerIsWhole, BatchInv
<1>9. ready[p] \in plans'[k]
  BY <1>2
<1>10. ASSUME plans'[k] = {ready[p]}, NEW j \in Live(k)' PROVE jacct'[j] \in ready[p]
  <2>1. jst'[j] # "none" /\ jkey'[j] = k /\ j \in Jobs
    BY <1>10, <1>1 DEF Live
  <2>2. PICK R \in plans'[k] : jacct'[j] \in R
    BY <1>6, <2>1 DEF SlotIsPlanned
  <2> QED BY <1>10, <2>2
<1> HIDE DEF BatchInv, Typed
<1> QED BY <1>1, <1>6, <1>7, <1>8, <1>9, <1>10, RequestMoves

(* What the steps after that have in common.                                  *)
LEMMA WithPlan ==
  ASSUME Typed, Errands, BatchInv, NEW p \in Procs, step[p] # "plan", left[p] # {}
  PROVE  /\ at[p] = "busy" /\ key[p] \in Keys
         /\ First(left[p]) \in left[p] /\ First(left[p]) \in ready[p] /\ First(left[p]) \in Accounts
         /\ ready[p] \in plans[key[p]] /\ ledger[key[p]] = "pending"
<1>1. at[p] = "busy" /\ key[p] \in Keys
  BY DEF Errands
<1>2. left[p] \in SUBSET Nat /\ left[p] \subseteq ready[p] /\ ready[p] \subseteq Accounts
  BY PoolsAssumption DEF Typed, BulkInv, LocalsTyped, RequestsTyped
<1>3. First(left[p]) \in left[p]
  BY <1>2, FirstIsMember
<1> QED BY <1>1, <1>2, <1>3 DEF BatchInv, PlanIsKnown

LEMMA FindKeepsBatch ==
  ASSUME OneWeb, Typed, Errands, BatchInv, NEW p \in Procs, FindJob(p)
  PROVE  BatchInv'
<1> DEFINE k == key[p]
           a == First(left[p])
           found == JobsFor(k, a, SlotOf(a, ready[p]))
<1>1. /\ step[p] = "find" /\ left[p] # {}
      /\ UNCHANGED <<jobs, answers, plans, key, ready>>
      /\ \A q \in Procs \ {p} : step'[q] = step[q]
      /\ step'[p] = IF found = {} THEN "make" ELSE "find"
  BY DEF FindJob, Busy, StepTo, Typed, BulkInv, LocalsTyped
<1>2. /\ at[p] = "busy" /\ k \in Keys /\ a \in left[p] /\ a \in ready[p] /\ a \in Accounts
      /\ ready[p] \in plans[k] /\ ledger[k] = "pending"
  BY <1>1, WithPlan
<1>3. NothingMade
  BY <1>1 DEF NothingMade, jobs
<1>4. /\ \A i, b : Kept(i, b)' = Kept(i, b) /\ Live(i)' = Live(i) /\ Shifted(i)' = Shifted(i)
  BY <1>1 DEF Kept, Live, Shifted, jobs
<1>5. SlotIsPlanned' /\ KeptIsOne' /\ AnswerIsWhole'
  BY <1>1, <1>4 DEF BatchInv, SlotIsPlanned, KeptIsOne, AnswerIsWhole, jobs, answers
<1>6. found \subseteq Kept(k, a)
  BY FoundIsKept
<1>7. CASE found = {}
  <2>1. left' = left /\ made' = made
    BY <1>7 DEF FindJob
  <2>2. ~Shifted(k) => Kept(k, a) = {}
    BY <1>2, <1>7, KeptIsFound DEF BatchInv
  <2>3. plans[k] = {ready[p]} => \A j \in Live(k) : jacct[j] \in left[p] \/ j \in made[p]
    BY <1>1 DEF BatchInv, MadeOrLeft
  <2>4. step'[p] = "make" /\ jacct' = jacct
    BY <1>1, <1>7 DEF jobs
  <2> HIDE DEF BatchInv, Typed, found
  <2> QED BY <1>1, <1>2, <1>4, <1>5, <2>1, <2>2, <2>3, <2>4, RequestMoves DEF answers
<1>8. CASE found # {}
  <2>1. made'[p] = made[p] \cup {Last(found)} /\ left'[p] = left[p] \ {a}
    BY <1>8 DEF FindJob, Typed, BulkInv, LocalsTyped, RequestsTyped
  <2>2. ASSUME plans[k] = {ready[p]}, NEW j \in Live(k)
        PROVE  jacct[j] \in left'[p] \/ j \in made'[p]
    <3>1. jacct[j] \in left[p] \/ j \in made[p]
      BY <1>1, <2>2 DEF BatchInv, MadeOrLeft
    <3>2. CASE jacct[j] = a
      <4>1. j \in Kept(k, a)
        BY <2>2, <3>2, LiveIsKept
      <4>2. ~Shifted(k)
        BY <2>2, OnePlanIsNotShifted
      <4>3. Last(found) \in found
        <5>1. found \in SUBSET Jobs
          BY <1>6 DEF Kept
        <5> HIDE DEF found
        <5> QED BY <1>8, <5>1, LastIsMember
      <4>4. Last(found) = j
        <5> HIDE DEF found
        <5> QED BY <1>2, <1>6, <4>1, <4>2, <4>3 DEF BatchInv, KeptIsOne
      <4> QED BY <2>1, <4>4
    <3> QED BY <2>1, <3>1, <3>2
  <2>3. step'[p] = "find" /\ jacct' = jacct
    BY <1>1, <1>8 DEF jobs
  <2> HIDE DEF BatchInv, Typed, found
  <2> QED BY <1>1, <1>2, <1>4, <1>5, <2>2, <2>3, RequestMoves DEF answers
<1> QED BY <1>7, <1>8

LEMMA RefusalKeepsBatch ==
  ASSUME OneWeb, Typed, Errands, BatchInv, NEW p \in Procs, JobRefused(p)
  PROVE  BatchInv'
<1> DEFINE k == key[p]
           a == First(left[p])
<1>1. /\ step[p] = "make" /\ left[p] # {}
      /\ UNCHANGED <<jobs, answers, plans, key, ready, made>>
      /\ \A q \in Procs \ {p} : step'[q] = step[q]
      /\ step'[p] = "find" /\ left'[p] = left[p] \ {a}
  BY DEF JobRefused, Busy, StepTo, Typed, BulkInv, LocalsTyped
<1>2. /\ at[p] = "busy" /\ k \in Keys /\ ready[p] \in plans[k] /\ ledger[k] = "pending"
  BY <1>1, WithPlan
<1>3. \A i, b : Kept(i, b)' = Kept(i, b) /\ Live(i)' = Live(i) /\ Shifted(i)' = Shifted(i)
  BY <1>1 DEF Kept, Live, Shifted, jobs
<1>4. SlotIsPlanned' /\ KeptIsOne' /\ AnswerIsWhole'
  BY <1>1, <1>3 DEF BatchInv, SlotIsPlanned, KeptIsOne, AnswerIsWhole, jobs, answers
<1>5. ASSUME plans[k] = {ready[p]}, NEW j \in Live(k)
      PROVE  jacct[j] \in left'[p] \/ j \in made[p]
  <2>1. jacct[j] \in left[p] \/ j \in made[p]
    BY <1>1, <1>5 DEF BatchInv, MadeOrLeft
  <2>2. jacct[j] # a
    BY <1>1, <1>5, LiveIsKept, OnePlanIsNotShifted DEF BatchInv, NoneWhenMaking
  <2> QED BY <1>1, <2>1, <2>2
<1>6. jacct' = jacct
  BY <1>1 DEF jobs
<1> HIDE DEF BatchInv, Typed
<1> QED BY <1>1, <1>2, <1>3, <1>4, <1>5, <1>6, RequestMoves DEF answers

LEMMA MarkKeepsBatch ==
  ASSUME OneWeb, Typed, Errands, BatchInv, NEW p \in Procs, MarkJob(p)
  PROVE  BatchInv'
<1> DEFINE k == key[p]
           a == First(left[p])
<1>1. /\ step[p] = "mark" /\ left[p] # {}
      /\ UNCHANGED <<jacct, jslot, jkey, jst, answers, plans, key, ready>>
      /\ \A q \in Procs \ {p} : step'[q] = step[q]
      /\ step'[p] = "find" /\ left'[p] = left[p] \ {a} /\ made'[p] = made[p] \cup {cur[p]}
  BY DEF MarkJob, Busy, StepTo, Typed, BulkInv, LocalsTyped, RequestsTyped, BatchInv,
         OnlyNewInMarking
<1>2. /\ at[p] = "busy" /\ k \in Keys /\ ready[p] \in plans[k] /\ ledger[k] = "pending"
  BY <1>1, WithPlan
<1>3. NothingMade
  <2>1. \A j \in Jobs : jmark'[j] /\ ~jmark[j] => jst[j] = "PENDING"
    BY Zenon DEF MarkJob, Typed, BatchTyped
  <2> QED BY <1>1, <2>1 DEF NothingMade
<1>4. SlotIsPlanned' /\ KeptIsOne' /\ AnswerIsWhole'
  BY <1>1, <1>3, NothingAdded DEF BatchInv, SlotIsPlanned, KeptIsOne, AnswerIsWhole, answers
<1>5. ASSUME plans[k] = {ready[p]}, NEW j \in Live(k)
      PROVE  jacct[j] \in left'[p] \/ j \in made'[p]
  <2>1. jacct[j] \in left[p] \/ j \in made[p]
    BY <1>1, <1>5 DEF BatchInv, MadeOrLeft
  <2>2. j \in Kept(k, jacct[j]) /\ ~Shifted(k)
    BY <1>5, LiveIsKept, OnePlanIsNotShifted
  <2>3. Kept(k, a) \subseteq {cur[p]}
    BY <1>1, <2>2 DEF BatchInv, OnlyNewInMarking
  <2>4. jacct[j] = a => j = cur[p]
    BY <2>2, <2>3
  <2> QED BY <1>1, <2>1, <2>4
<1>6. Live(k)' \subseteq Live(k)
  <2>1. k' = k
    BY <1>1
  <2> QED BY <1>3, <2>1, NothingAdded
<1> HIDE DEF BatchInv, Typed
<1> QED BY <1>1, <1>2, <1>4, <1>5, <1>6, RequestMoves DEF answers

LEMMA MakeKeepsBatch ==
  ASSUME OneWeb, Typed, Errands, BatchInv, NEW p \in Procs, MakeJob(p)
  PROVE  BatchInv'
<1> DEFINE k == key[p]
           a == First(left[p])
<1>1. /\ step[p] = "make" /\ left[p] # {}
      /\ UNCHANGED <<jmark, answers, plans, key, ready, left, made>>
      /\ \A q \in Procs \ {p} : step'[q] = step[q]
      /\ step'[p] = "mark"
  BY DEF MakeJob, Busy, StepTo, Typed, BulkInv, LocalsTyped
<1>2. /\ at[p] = "busy" /\ k \in Keys /\ a \in left[p] /\ a \in ready[p] /\ a \in Accounts
      /\ ready[p] \in plans[k] /\ ledger[k] = "pending"
  BY <1>1, WithPlan
<1>3. PICK j \in Jobs :
        /\ jst[j] = "none"
        /\ jst' = [jst EXCEPT ![j] = "PENDING"] /\ jkey' = [jkey EXCEPT ![j] = k]
        /\ jacct' = [jacct EXCEPT ![j] = a]
        /\ jslot' = [jslot EXCEPT ![j] = SlotOf(a, ready[p])]
        /\ cur' = [cur EXCEPT ![p] = j]
  BY DEF MakeJob
<1>15. k' = k /\ a' = a
  BY <1>1
<1> HIDE DEF a
<1>4. /\ \A i \in Jobs \ {j} : /\ jst'[i] = jst[i] /\ jkey'[i] = jkey[i]
                               /\ jacct'[i] = jacct[i] /\ jslot'[i] = jslot[i]
      /\ jst'[j] = "PENDING" /\ jkey'[j] = k /\ jacct'[j] = a /\ jslot'[j] = SlotOf(a, ready[p])
      /\ cur'[p] = j
  BY <1>3 DEF Typed, BulkInv, JobsTyped, LocalsTyped, BatchTyped
<1>5. \A i, b : /\ Kept(i, b)' \subseteq Kept(i, b) \cup {j}
                /\ i # k \/ b # a => Kept(i, b)' = Kept(i, b)
  BY <1>1, <1>3, <1>4 DEF Kept
<1>6. \A i : /\ Live(i)' \subseteq Live(i) \cup {j}
             /\ i # k => Live(i)' = Live(i)
  BY <1>3, <1>4 DEF Live
<1>7. \A i : Shifted(i)' = Shifted(i)
  BY <1>1 DEF Shifted
<1>8. ~Shifted(k) => Kept(k, a) = {}
  BY <1>1 DEF BatchInv, NoneWhenMaking, a
<1>9. SlotIsPlanned'
  <2> SUFFICES ASSUME NEW i \in Jobs, jst'[i] # "none"
               PROVE  \E R \in plans[jkey'[i]] : jacct'[i] \in R /\ jslot'[i] = SlotOf(jacct'[i], R)
    BY <1>1 DEF SlotIsPlanned
  <2>1. CASE i = j
    BY <1>2, <1>4, <2>1
  <2>2. CASE i # j
    BY <1>4, <2>2 DEF BatchInv, SlotIsPlanned
  <2> QED BY <2>1, <2>2
<1>10. KeptIsOne'
  <2> SUFFICES ASSUME NEW i \in Keys, ~Shifted(i), NEW b \in Accounts,
                      NEW x \in Kept(i, b)', NEW y \in Kept(i, b)'
               PROVE  x = y
    BY <1>7 DEF KeptIsOne
  <2>1. CASE i = k /\ b = a
    BY <1>5, <1>8, <2>1
  <2>2. CASE i # k \/ b # a
    BY <1>5, <2>2 DEF BatchInv, KeptIsOne
  <2> QED BY <2>1, <2>2
<1>11. AnswerIsWhole'
  BY <1>1, <1>2, <1>6 DEF BatchInv, AnswerIsWhole, answers
<1>12. ~Shifted(k) => Kept(k, a)' \subseteq {j}
  BY <1>5, <1>8, <1>15
<1>13. ASSUME plans[k] = {ready[p]}, NEW i \in Live(k)'
       PROVE  jacct'[i] \in left[p] \/ i \in made[p]
  <2>1. CASE i = j
    BY <1>2, <1>4, <2>1
  <2>2. CASE i # j
    <3>1. i \in Live(k) /\ i \in Jobs
      BY <1>6, <1>13, <1>15, <2>2 DEF Live
    <3> QED BY <1>1, <1>4, <1>13, <2>2, <3>1 DEF BatchInv, MadeOrLeft
  <2> QED BY <2>1, <2>2
<1>14. Kept(k, First(left[p]))' = Kept(k, a)'
  BY DEF a
<1> HIDE DEF BatchInv, Typed
<1> QED BY <1>1, <1>2, <1>4, <1>7, <1>9, <1>10, <1>11, <1>12, <1>13, <1>14, RequestMoves DEF answers

LEMMA AnswerKeepsBatch ==
  ASSUME OneWeb, Typed, Errands, BatchInv, NEW p \in Procs, Answer(p)
  PROVE  BatchInv'
<1> DEFINE k == key[p]
<1>1. /\ at[p] = "busy" /\ step[p] = "find" /\ left[p] = {} /\ UNCHANGED <<jobs, plans>>
      /\ Forget(p) /\ k \in Keys
  BY DEF Answer, Busy, Reply, Errands
<1>2. /\ listed'[k] = made[p]
      /\ \A i \in Keys : i # k => ledger'[i] = ledger[i] /\ listed'[i] = listed[i]
  BY <1>1 DEF Answer, Typed, AnswersTyped
<1>3. \A i, b : Kept(i, b)' = Kept(i, b) /\ Live(i)' = Live(i) /\ Shifted(i)' = Shifted(i)
  BY <1>1 DEF Kept, Live, Shifted, jobs
<1>4. SlotIsPlanned' /\ KeptIsOne'
  BY <1>1, <1>3 DEF BatchInv, SlotIsPlanned, KeptIsOne, jobs
<1>5. AnswerIsWhole'
  <2> SUFFICES ASSUME NEW i \in Keys, ledger'[i] = "answered", NEW R, plans[i] = {R}
               PROVE  Live(i) \subseteq listed'[i]
    BY <1>1, <1>3 DEF AnswerIsWhole
  <2>1. CASE i = k
    <3>1. ready[p] = R
      BY <1>1, <2>1 DEF BatchInv, PlanIsKnown
    <3> QED BY <1>1, <1>2, <2>1, <3>1 DEF BatchInv, MadeOrLeft
  <2>2. CASE i # k
    BY <1>2, <2>2 DEF BatchInv, AnswerIsWhole
  <2> QED BY <2>1, <2>2
<1>6. \A q \in Procs \ {p} : step'[q] = step[q]
  BY <1>1, ForgetClears
<1>7. step'[p] = "plan"
  BY <1>1, ForgetClears
<1> HIDE DEF BatchInv, Typed
<1> QED BY <1>1, <1>4, <1>5, <1>6, <1>7, RequestMoves

-----------------------------------------------------------------------------
LEMMA BatchStep ==
  ASSUME OneWeb, Typed, Errands, BatchInv, [Next]_vars
  PROVE  BatchInv'
<1> DEFINE SameRequest(q) ==
             /\ step'[q] = step[q] /\ key'[q] = key[q] /\ cur'[q] = cur[q]
             /\ ready'[q] = ready[q] /\ left'[q] = left[q] /\ made'[q] = made[q]
<1>1. ASSUME UNCHANGED <<jobs, plans>> PROVE NothingMade
  BY <1>1 DEF NothingMade, jobs
<1>2. CASE UNCHANGED bulkVars
  BY <1>1, <1>2, BatchQuiet DEF bulkVars, locals
<1>3. ASSUME NEW p \in Procs, Bulk(p) PROVE BatchInv'
  <2>1. CASE (\E k \in Keys : BeginBulk(p, k)) \/ Preview(p)
    <3>1. UNCHANGED <<jobs, plans, answers, step>> /\ at[p] # "busy"
      BY <2>1 DEF BeginBulk, Preview, Begin, Start, Read
    <3>2. step'[p] = "plan"
      BY <3>1 DEF Errands
    <3>3. \A q \in Procs \ {p} : SameRequest(q)
      BY <2>1 DEF BeginBulk, Preview, Typed, BulkInv, LocalsTyped, RequestsTyped
    <3> QED BY <1>1, <3>1, <3>2, <3>3, BatchQuiet
  <2>2. CASE NoneReady(p) \/ Replay(p) \/ RequestFails(p)
    <3>1. UNCHANGED <<jobs, plans, answers>> /\ Forget(p)
      BY <2>2 DEF NoneReady, Replay, RequestFails, Reply
    <3>2. step'[p] = "plan" /\ \A q \in Procs \ {p} : SameRequest(q)
      BY <3>1, ForgetClears
    <3> QED BY <1>1, <3>1, <3>2, BatchQuiet
  <2> QED BY <1>3, <2>1, <2>2, TakeKeyKeepsBatch, FindKeepsBatch, RefusalKeepsBatch,
             MarkKeepsBatch, MakeKeepsBatch, AnswerKeepsBatch DEF Bulk
<1>4. ASSUME NEW p \in Procs, kind[p] = "dm", NEW st \in Status \ {"none"}, Settle(p, st)
      PROVE  BatchInv'
  <2>1. step[p] = "plan" /\ cur[p] \in Jobs /\ jst[cur[p]] = "RUNNING"
    BY <1>4 DEF Errands
  <2>2. NothingMade
    BY <1>4, <2>1 DEF NothingMade, Settle, Typed, BulkInv, JobsTyped
  <2>3. step'[p] = "plan" /\ \A q \in Procs \ {p} : SameRequest(q)
    BY <1>4, <2>1 DEF Settle, Typed, BulkInv, LocalsTyped
  <2>4. UNCHANGED answers
    BY <1>4 DEF Settle
  <2> QED BY <2>2, <2>3, <2>4, BatchQuiet
<1>5. ASSUME NEW p \in Procs, SendDm(p) \/ NoSession(p) PROVE BatchInv'
  BY <1>2, <1>4, <1>5 DEF SendDm, NoSession, Status
<1>6. ASSUME NEW p \in Procs, ProcessDies(p) PROVE BatchInv'
  <2>1. UNCHANGED <<jobs, plans, answers>> /\ Forget(p)
    BY <1>6 DEF ProcessDies
  <2>2. step'[p] = "plan" /\ \A q \in Procs \ {p} : SameRequest(q)
    BY <2>1, ForgetClears
  <2> QED BY <1>1, <2>1, <2>2, BatchQuiet
<1>7. ASSUME NEW p \in Procs, NEW j \in Jobs, ClaimJob(p, j) PROVE BatchInv'
  <2>1. at[p] = "idle" /\ jst[j] \in {"PENDING", "RUNNING"}
        /\ jst' = [jst EXCEPT ![j] = "RUNNING"] /\ jmark' = [jmark EXCEPT ![j] = FALSE]
        /\ UNCHANGED <<jacct, jslot, jkey, plans, answers, step>>
    BY <1>7 DEF ClaimJob, Take, BeginDm, Start
  <2>2. NothingMade
    BY <2>1 DEF NothingMade, Typed, BulkInv, JobsTyped, BatchTyped
  <2>3. step'[p] = "plan"
    BY <2>1 DEF Errands
  <2>4. \A q \in Procs \ {p} : SameRequest(q)
    BY <1>7 DEF ClaimJob, Take, Typed, BulkInv, LocalsTyped
  <2> QED BY <2>1, <2>2, <2>3, <2>4, BatchQuiet
<1>8. CASE \E j \in Jobs : CancelJob(j)
  <2> PICK j \in Jobs : CancelJob(j)
    BY <1>8
  <2>1. NothingMade
    BY DEF CancelJob, NothingMade, Typed, BulkInv, JobsTyped
  <2>2. UNCHANGED answers /\ \A q \in Procs : SameRequest(q)
    BY DEF CancelJob, locals
  <2> QED BY <2>1, <2>2, BatchQuiet
<1> QED BY <1>2, <1>3, <1>5, <1>6, <1>7, <1>8 DEF Next, Other, vars

LEMMA RequestsInitially == Init => BatchTyped /\ AnswersTyped /\ RequestsTyped /\ Errands /\ Apart
<1> SUFFICES ASSUME Init PROVE BatchTyped /\ AnswersTyped /\ RequestsTyped /\ Errands /\ Apart
  OBVIOUS
<1>1. BatchTyped
  BY DEF Init, BatchTyped
<1>2. AnswersTyped
  BY FS_EmptySet DEF Init, AnswersTyped
<1>3. RequestsTyped /\ Errands /\ Apart
  BY DEF Init, PoolInit, RequestsTyped, Errands, Apart
<1> QED BY <1>1, <1>2, <1>3

LEMMA RequestsInductive == Spec => [](Typed /\ Errands /\ Apart)
<1>1. Init => Typed /\ Errands /\ Apart
  BY RequestsInitially, PoolInitially, BulkInitially DEF Init, Typed, PoolInv
<1>2. Typed /\ Errands /\ Apart /\ [Next]_vars => (Typed /\ Errands /\ Apart)'
  <2> SUFFICES ASSUME Typed, Errands, Apart, [Next]_vars PROVE (Typed /\ Errands /\ Apart)'
    OBVIOUS
  <2>1. BulkInv' /\ PoolTypeOK'
    BY StepsAreOfPools, BulkStep, PoolTypeStep DEF Typed
  <2>2. BatchTyped' /\ AnswersTyped' /\ RequestsTyped'
    BY BatchTypedStep, AnswersTypedStep, RequestsTypedStep
  <2> QED BY <2>1, <2>2, ErrandsStep, ApartStep DEF Typed
<1> QED BY <1>1, <1>2, PTL DEF Spec

(* The variables of jobs, requests and answers have their types, and with a   *)
(* job come an account and the key of its batch (multi_account_schedule.py).  *)
THEOREM BulkTypeCorrect == Spec => []TypeOK
<1>1. Typed => TypeOK
  <2> SUFFICES ASSUME Typed PROVE TypeOK
    OBVIOUS
  <2> USE DEF Typed, BulkInv, JobsTyped, LocalsTyped, BatchTyped, AnswersTyped, RequestsTyped
  <2>1. \A j \in Jobs : jst[j] # "none" => jacct[j] # NoAccount /\ jkey[j] # NoKey
    <3> SUFFICES ASSUME NEW j \in Jobs, jst[j] # "none"
                 PROVE  jacct[j] # NoAccount /\ jkey[j] # NoKey
      OBVIOUS
    <3>1. jacct[j] \in Accounts /\ jkey[j] \in Keys
      OBVIOUS
    <3>2. NoAccount \notin Accounts /\ NoKey \notin Keys
      BY PoolsAssumption, BulkAssumption, Zenon
    <3> QED BY <3>1, <3>2, Zenon
  <2>2. \A p \in Procs : left[p] \subseteq ready[p]
    OBVIOUS
  <2>3. PoolTypeOK
    OBVIOUS
  <2>4. /\ jacct \in [Jobs -> Accounts \cup {NoAccount}] /\ jst \in [Jobs -> Status]
        /\ jslot \in [Jobs -> Nat] /\ jkey \in [Jobs -> Keys \cup {NoKey}]
        /\ jmark \in [Jobs -> BOOLEAN]
    OBVIOUS
  <2>5. /\ ledger \in [Keys -> {"none", "pending", "answered"}]
        /\ listed \in [Keys -> SUBSET Jobs] /\ plans \in [Keys -> SUBSET SUBSET Accounts]
        /\ key \in [Procs -> Keys \cup {NoKey}] /\ made \in [Procs -> SUBSET Jobs]
    OBVIOUS
  <2>6. /\ ready \in [Procs -> SUBSET Accounts] /\ left \in [Procs -> SUBSET Accounts]
        /\ cur \in [Procs -> Jobs \cup {NoJob}]
        /\ step \in [Procs -> {"plan", "find", "make", "mark"}]
    OBVIOUS
  <2> QED BY <2>1, <2>2, <2>3, <2>4, <2>5, <2>6, Zenon DEF TypeOK
<1> QED BY <1>1, RequestsInductive, PTL

LEMMA BatchInductive ==
  ASSUME OneWeb PROVE Spec => [](Typed /\ BatchInv)
<1>1. Init => BatchInv
  <2> SUFFICES ASSUME Init PROVE BatchInv
    OBVIOUS
  <2>1. /\ \A j \in Jobs : jst[j] = "none"
        /\ \A p \in Procs : step[p] = "plan"
        /\ \A k \in Keys : ledger[k] = "none"
    BY DEF Init
  <2> QED BY <2>1 DEF BatchInv, SlotIsPlanned, KeptIsOne, Kept, NoneWhenMaking, OnlyNewInMarking,
             PlanIsKnown, MadeOrLeft, AnswerIsWhole
<1>2. Typed /\ Errands /\ BatchInv /\ [Next]_vars => BatchInv'
  BY BatchStep
<1> QED BY <1>1, <1>2, RequestsInductive, PTL DEF Spec

(* However often the request of a batch fails, dies or is sent again, and     *)
(* whatever the scheduler and the owner do with its jobs meanwhile, an        *)
(* account has one job in it that is not cancelled, unless the slots shifted  *)
(* (_find_bulk_job_for_account): with the one web worker the service has, for *)
(* any accounts, batches, loops and gateways.                                 *)
THEOREM OneJobPerAccount == ASSUME OneWeb PROVE Spec => []OnePerAccount
<1>1. Typed /\ BatchInv => OnePerAccount
  <2> SUFFICES ASSUME Typed, BatchInv, NEW k \in Keys, ~Shifted(k),
                      NEW i \in Live(k), NEW j \in Live(k), jacct[i] = jacct[j]
               PROVE  i = j
    BY DEF OnePerAccount
  <2>1. i \in Kept(k, jacct[i]) /\ j \in Kept(k, jacct[i])
    BY LiveIsKept
  <2>2. jacct[i] \in Accounts
    BY DEF Typed, BulkInv, JobsTyped, Live
  <2> QED BY <2>1, <2>2 DEF BatchInv, KeptIsOne
<1> QED BY <1>1, BatchInductive, PTL

(* The answer recorded for a batch that was planned once names every job of   *)
(* it that is not cancelled, those that lost requests made included, with the *)
(* one web worker the service has.                                            *)
THEOREM AnswersAreWhole == ASSUME OneWeb PROVE Spec => []AnswerListsJobs
<1>1. Typed /\ BatchInv => AnswerListsJobs
  <2> SUFFICES ASSUME Typed, BatchInv, NEW k \in Keys, ledger[k] = "answered",
                      Cardinality(plans[k]) = 1
               PROVE  Live(k) \subseteq listed[k]
    BY DEF AnswerListsJobs
  <2>1. \E R : plans[k] = {R}
    BY FS_Singleton DEF Typed, AnswersTyped
  <2> QED BY <2>1 DEF BatchInv, AnswerIsWhole
<1> QED BY <1>1, BatchInductive, PTL

=============================================================================
