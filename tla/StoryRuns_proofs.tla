-------------------------- MODULE StoryRuns_proofs --------------------------
(* Theorems about StoryRuns, for any requests and accounts, any cap, any      *)
(* number of midnights and whatever the requests name.                        *)
EXTENDS StoryRuns, FiniteSetTheorems, TLAPS

Holding == {"open", "upload", "send", "close", "unlock"}

-----------------------------------------------------------------------------
(* Types.  A request that holds a lock has an account in hand: TypeOK alone   *)
(* is not inductive, for a request without one would lock and post nothing.   *)
InHand == \A r \in Requests : pc[r] \in Holding => cur[r] \in Accounts
Typed == TypeOK /\ InHand

LEMMA RestOfList ==
  ASSUME NEW S, NEW s \in Seq(S), s # <<>>
  PROVE  /\ 1 \in DOMAIN s /\ Head(s) = s[1] /\ Head(s) \in S
         /\ Tail(s) \in Seq(S)
         /\ \A i \in DOMAIN Tail(s) : i + 1 \in DOMAIN s /\ i \in Nat /\ Tail(s)[i] = s[i + 1]
OBVIOUS

LEMMA WantsTyped ==
  ASSUME NEW r \in Requests
  PROVE  Wants[r] \in Seq(Accounts)
BY StoryAssumption

LEMMA EffectiveTyped ==
  ASSUME TypeOK, NEW a \in Accounts
  PROVE  Effective(a) \in Nat
BY DEF TypeOK, Effective

LEMMA RunTyped ==
  ASSUME Typed, NEW r \in Requests, Run(r)
  PROVE  Typed'
<1> USE DEF Typed, TypeOK, InHand, Holding, Places, Goto
<1>1. CASE StartRun(r)
  BY <1>1 DEF StartRun, telegram, account, history
<1>2. CASE Connect(r)
  <2>1. <<r, cur[r]>> \in Requests \X Accounts
    BY <1>2 DEF Connect
  <2> QED BY <1>2, <2>1 DEF Connect, runs, account, history
<1>3. ASSUME NEW o \in Outcomes, NEW p \in {"close", "unlock"},
             pc[r] \in Holding, Goto(r, p), Note(r, o),
             UNCHANGED <<todo, cur, rstat, steps, stale, holder, flight, accepted, day,
                         overlapped>>,
             UNCHANGED <<online, adrift>> \/ StaysConnected(r),
             \/ UNCHANGED <<rows, count, countDay, unwritten>>
             \/ unwritten' = unwritten \cup {<<r, cur[r]>>} /\ UNCHANGED <<rows, count, countDay>>
             \/ /\ rows' = rows \cup {<<r, cur[r], day>>}
                /\ count' = [count EXCEPT ![cur[r]] = Effective(cur[r]) + 1]
                /\ countDay' = [countDay EXCEPT ![cur[r]] = day]
                /\ UNCHANGED unwritten
      PROVE  Typed'
  <2>1. cur[r] \in Accounts /\ Effective(cur[r]) + 1 \in Nat
    <3>1. cur[r] \in Accounts
      BY <1>3
    <3>2. Effective(cur[r]) \in Nat
      BY <3>1 DEF Effective
    <3> QED BY <3>1, <3>2
  <2>2. result' \in [Requests -> [Accounts -> Outcomes \cup {"none"}]]
    BY <1>3, <2>1 DEF Note
  <2>3. /\ rows' \in SUBSET (Requests \X Accounts \X (0..MaxDay))
        /\ unwritten' \in SUBSET (Requests \X Accounts)
    BY <1>3, <2>1
  <2>4. count' \in [Accounts -> Nat] /\ countDay' \in [Accounts -> 0..MaxDay]
    BY <1>3, <2>1
  <2>5. pc' \in [Requests -> Places] /\ \A q \in Requests : pc'[q] \in Holding => pc[q] \in Holding
    BY <1>3
  <2>6. /\ online' \in SUBSET (Requests \X Accounts)
        /\ adrift' \in SUBSET (Requests \X Accounts)
    BY <1>3, <2>1 DEF StaysConnected
  <2> QED BY <1>3, <2>2, <2>3, <2>4, <2>5, <2>6
<1>4. CASE ConnectFails(r) \/ Denied(r) \/ NotSent(r) \/ SendRaises(r) \/ Record(r) \/ RecordFails(r)
  BY <1>3, <1>4
     DEF ConnectFails, Denied, NotSent, SendRaises, Record, RecordFails, Outcomes, runs,
         telegram, account, history
<1>5. CASE SendStory(r)
  <2>1. <<r, cur[r]>> \in Requests \X Accounts
    BY <1>5 DEF SendStory
  <2> QED BY <1>5, <2>1 DEF SendStory, runs, account, history
<1>6. CASE CloseClient(r)
  <2>1. <<r, cur[r]>> \in Requests \X Accounts
    BY <1>6 DEF CloseClient
  <2> QED BY <1>6, <2>1 DEF CloseClient, StaysConnected, runs, account, history
<1>7. CASE UnlockSession(r)
  BY <1>7 DEF UnlockSession, runs, telegram, account, history
<1>8. CASE Finalize(r) \/ FinalizeFails(r)
  <2>1. NoResult \in [Accounts -> Outcomes \cup {"none"}]
    BY DEF NoResult
  <2>2. Verdict(r) \in Statuses
    BY DEF Verdict, Statuses
  <2>3. /\ pc' = [pc EXCEPT ![r] = "done"] /\ result' = [result EXCEPT ![r] = NoResult]
        /\ UNCHANGED <<todo, cur, holder, flight, accepted, account, day, history>>
        /\ Disconnected(r)
        /\ \/ UNCHANGED <<rstat, steps, stale>>
           \/ /\ steps' = [steps EXCEPT ![r] = result[r]]
              /\ rstat' = [rstat EXCEPT ![r] = Verdict(r)]
              /\ stale' = stale \ {r}
    BY <1>8, Zenon DEF Finalize, FinalizeFails, runs
  <2>4. pc' \in [Requests -> Places] /\ result' \in [Requests -> [Accounts -> Outcomes \cup {"none"}]]
    BY <2>1, <2>3
  <2>5. steps' \in [Requests -> [Accounts -> Outcomes \cup {"none"}]]
    BY <2>3
  <2>6. stale' \in SUBSET Requests
    BY <2>3
  <2>7. rstat' \in [Requests -> Statuses \cup {"none", "running"}]
    BY <2>2, <2>3
  <2>8. InHand'
    BY <2>3
  <2> QED BY <2>3, <2>4, <2>5, <2>6, <2>7, <2>8 DEF Disconnected, account, history
<1>9. ASSUME NEW a \in Accounts, LockSession(r, a) \/ CannotOpen(r, a)
      PROVE  Typed'
  <2>1. Tail(todo[r]) \in Seq(Accounts)
    BY <1>9, RestOfList DEF LockSession, CannotOpen, Take
  <2>2. CASE LockSession(r, a)
    BY <2>1, <2>2 DEF LockSession, Take, runs, telegram, account, history
  <2>3. CASE CannotOpen(r, a)
    BY <2>1, <2>3 DEF CannotOpen, Take, Outcomes, runs, telegram, account, history
  <2> QED BY <1>9, <2>2, <2>3
<1> QED
  BY <1>1, <1>2, <1>4, <1>5, <1>6, <1>7, <1>8, <1>9 DEF Run

LEMMA OperateTyped ==
  ASSUME Typed, NEW r \in Requests, Operate(r)
  PROVE  Typed'
<1> USE DEF Typed, TypeOK, InHand, Holding, Places, Goto
<1>1. CASE PassGates(r)
  <2>1. count' \in [Accounts -> Nat] /\ countDay' \in [Accounts -> 0..MaxDay]
    BY <1>1, EffectiveTyped DEF PassGates
  <2>2. todo' \in [Requests -> Seq(Accounts)]
    BY <1>1, WantsTyped DEF PassGates
  <2> QED BY <1>1, <2>1, <2>2 DEF PassGates, runs, telegram
<1>2. CASE ProcessDies(r)
  <2>1. NoResult \in [Accounts -> Outcomes \cup {"none"}]
    BY DEF NoResult
  <2>2. online' \in SUBSET (Requests \X Accounts) /\ adrift' \in SUBSET (Requests \X Accounts)
    BY <1>2 DEF ProcessDies, Disconnected
  <2>3. holder' \in [Accounts -> Requests \cup {Nobody, Other}]
    BY <1>2 DEF ProcessDies
  <2>4. /\ pc' \in [Requests -> Places] /\ todo' \in [Requests -> Seq(Accounts)]
        /\ cur' \in [Requests -> Accounts \cup {NoAccount}]
        /\ result' \in [Requests -> [Accounts -> Outcomes \cup {"none"}]]
        /\ InHand'
    BY <1>2, <2>1 DEF ProcessDies
  <2> QED BY <1>2, <2>2, <2>3, <2>4 DEF ProcessDies, runs, account, history
<1>3. CASE GrowsStale(r) \/ CancelRun(r)
  BY <1>3 DEF GrowsStale, CancelRun, Statuses, request, telegram, account, history
<1> QED BY <1>1, <1>2, <1>3 DEF Operate

LEMMA TypesHold == Spec => []Typed
<1>1. Init => Typed
  BY StoryAssumption DEF Init, Typed, TypeOK, InHand, Holding, Places, NoResult
<1>2. Typed /\ [Next]_vars => Typed'
  <2> SUFFICES ASSUME Typed, [Next]_vars PROVE Typed'
    OBVIOUS
  <2>1. ASSUME NEW a \in Accounts, Outside(a)
        PROVE  Typed'
    BY <2>1 DEF Outside, OtherLocks, OtherUnlocks, TelegramAccepts, Typed, TypeOK, InHand,
                request, runs, telegram, account, history
  <2>2. CASE Midnight
    <3>1. day' \in 0..MaxDay /\ 0..MaxDay = 0..MaxDay'
      BY <2>2, StoryAssumption DEF Midnight, Typed, TypeOK
    <3> QED
      BY <2>2, <3>1 DEF Midnight, Typed, TypeOK, InHand, request, runs, telegram, account, history
  <2>3. CASE UNCHANGED vars
    BY <2>3 DEF vars, Typed, TypeOK, InHand, request, runs, telegram, account, history
  <2> QED BY <2>1, <2>2, <2>3, RunTyped, OperateTyped DEF Next
<1> QED BY <1>1, <1>2, PTL DEF Spec

(* Every state has the types of TypeOK, whatever the requests, the other      *)
(* processes, Telegram and the operator do.                                   *)
THEOREM StoryTypesCorrect == Spec => []TypeOK
BY TypesHold, PTL DEF Typed

-----------------------------------------------------------------------------
(* Lists.  What a request has still to do it named, once each, and what it    *)
(* has in hand is not among it.                                               *)
Listed(r) ==
  /\ \A i \in DOMAIN todo[r] : todo[r][i] \in Named(r)
  /\ \A i, j \in DOMAIN todo[r] : todo[r][i] = todo[r][j] => i = j
  /\ pc[r] \in Holding => cur[r] \in Named(r) /\ \A i \in DOMAIN todo[r] : todo[r][i] # cur[r]
Lists == \A r \in Requests : Listed(r)

LEMMA ListsKept ==
  ASSUME Typed, Lists, [Next]_vars
  PROVE  Lists'
<1> SUFFICES ASSUME NEW r \in Requests PROVE Listed(r)'
  BY DEF Lists
<1> USE DEF Goto
<1>0. /\ pc \in [Requests -> Places] /\ cur \in [Requests -> Accounts \cup {NoAccount}]
      /\ todo \in [Requests -> Seq(Accounts)]
      /\ Listed(r)
  BY DEF Typed, TypeOK, Lists
<1>1. ASSUME todo'[r] = todo[r], pc'[r] \in Holding => pc[r] \in Holding /\ cur'[r] = cur[r]
      PROVE  Listed(r)'
  BY <1>0, <1>1 DEF Listed, Named
<1>2. ASSUME NEW q \in Requests, Run(q) \/ Operate(q), q # r
      PROVE  Listed(r)'
  BY <1>0, <1>1, <1>2
     DEF Run, Operate, StartRun, Connect, ConnectFails, Denied, NotSent, SendStory, SendRaises,
         Record, RecordFails, CloseClient, UnlockSession, Finalize, FinalizeFails, LockSession,
         CannotOpen, Take, CancelRun, GrowsStale, ProcessDies, PassGates, request
<1>3. CASE StartRun(r) \/ Connect(r) \/ ConnectFails(r) \/ Denied(r) \/ NotSent(r)
           \/ SendStory(r) \/ SendRaises(r) \/ Record(r) \/ RecordFails(r) \/ CloseClient(r)
           \/ UnlockSession(r) \/ Finalize(r) \/ FinalizeFails(r)
  BY <1>0, <1>1, <1>3
     DEF StartRun, Connect, ConnectFails, Denied, NotSent, SendStory, SendRaises,
         Record, RecordFails, CloseClient, UnlockSession, Finalize, FinalizeFails, Holding
<1>4. ASSUME NEW a \in Accounts, LockSession(r, a) \/ CannotOpen(r, a)
      PROVE  Listed(r)'
  <2>1. /\ todo[r] \in Seq(Accounts) /\ todo[r] # <<>> /\ a = Head(todo[r])
        /\ todo'[r] = Tail(todo[r])
        /\ pc[r] = "next" /\ (pc'[r] \in Holding => cur'[r] = a)
    BY <1>0, <1>4 DEF LockSession, CannotOpen, Take, Holding
  <2> DEFINE rest == Tail(todo[r])
  <2>2. /\ 1 \in DOMAIN todo[r] /\ a = todo[r][1]
        /\ \A i \in DOMAIN rest :
             i + 1 \in DOMAIN todo[r] /\ i \in Nat /\ rest[i] = todo[r][i + 1] /\ i + 1 # 1
    BY <2>1, RestOfList
  <2>3. a \in Named(r) /\ \A i \in DOMAIN rest : rest[i] \in Named(r) /\ rest[i] # a
    BY <1>0, <2>2 DEF Listed
  <2>4. ASSUME NEW i \in DOMAIN rest, NEW j \in DOMAIN rest, rest[i] = rest[j]
        PROVE  i = j
    <3>1. i + 1 = j + 1
      BY <1>0, <2>2, <2>4 DEF Listed
    <3> QED BY <2>2, <3>1
  <2> HIDE DEF rest
  <2>5. todo'[r] = rest
    BY <2>1 DEF rest
  <2> QED BY <2>1, <2>3, <2>4, <2>5 DEF Listed, Named
<1>5. CASE PassGates(r)
  <2>1. todo'[r] = Wants[r] /\ pc'[r] \notin Holding
    BY <1>0, <1>5 DEF PassGates, Holding
  <2> QED BY <2>1, StoryAssumption DEF Listed, Named
<1>6. CASE ProcessDies(r)
  <2>1. todo'[r] = <<>> /\ pc'[r] \notin Holding
    BY <1>0, <1>6 DEF ProcessDies, Holding
  <2> QED BY <2>1 DEF Listed
<1>7. CASE UNCHANGED request
  BY <1>1, <1>7 DEF request
<1> QED
  BY <1>2, <1>3, <1>4, <1>5, <1>6, <1>7
     DEF Next, Run, Operate, Outside, CancelRun, GrowsStale, OtherLocks, OtherUnlocks,
         TelegramAccepts, Midnight, vars

-----------------------------------------------------------------------------
(* Sessions.  A request holds the lock from open to unlock; a session it has  *)
(* connected is that of the account in hand, from the connection to the       *)
(* disconnect, or adrift; and to one adrift it does not come back, since an   *)
(* account is once in its list.                                               *)
Working == {"upload", "send", "close"}
Locked == \A r \in Requests : pc[r] \in Holding => holder[cur[r]] = r
Connected ==
  \A r \in Requests : pc[r] \in Working => <<r, cur[r]>> \in online \ adrift
InPlace ==
  \A r \in Requests, a \in Accounts :
    <<r, a>> \in online =>
      \/ pc[r] \in Working /\ cur[r] = a
      \/ <<r, a>> \in adrift
Given(r, a) ==
  /\ \A i \in DOMAIN todo[r] : todo[r][i] # a
  /\ pc[r] \in Holding /\ cur[r] = a => pc[r] = "unlock"
GivenUp ==
  \A r \in Requests, a \in Accounts :
    <<r, a>> \in adrift => pc[r] # "idle" /\ Given(r, a)
Sessions == Locked /\ Connected /\ InPlace /\ GivenUp

LEMMA RunKeepsSessions ==
  ASSUME Typed, Lists, Sessions, NEW r \in Requests, Run(r)
  PROVE  Sessions'
<1> USE DEF Typed, InHand, Sessions, Locked, Connected, InPlace, GivenUp, Given, Holding, Working,
            Goto
<1>0. /\ pc \in [Requests -> Places] /\ cur \in [Requests -> Accounts \cup {NoAccount}]
      /\ todo \in [Requests -> Seq(Accounts)]
      /\ holder \in [Accounts -> Requests \cup {Nobody, Other}]
      /\ online \in SUBSET (Requests \X Accounts)
      /\ adrift \in SUBSET (Requests \X Accounts)
  BY DEF TypeOK
(* To a place without a lock from one without.                                *)
<1>1. ASSUME pc[r] \in {"gated", "next"}, pc'[r] \in {"next", "done"},
             \A q \in Requests \ {r} : pc'[q] = pc[q], UNCHANGED <<cur, holder>>,
             \A q \in Requests \ {r} : todo'[q] = todo[q],
             UNCHANGED <<online, adrift>> \/ Disconnected(r),
             \A a \in Accounts : (\A i \in DOMAIN todo[r] : todo[r][i] # a)
                                 => \A i \in DOMAIN todo'[r] : todo'[r][i] # a
      PROVE  Sessions'
  <2>1. Locked'
    BY <1>0, <1>1
  <2>2. Connected'
    BY <1>0, <1>1 DEF Disconnected
  <2>3. InPlace'
    BY <1>0, <1>1 DEF Disconnected
  <2>4. GivenUp'
    BY <1>0, <1>1 DEF Disconnected
  <2> QED BY <2>1, <2>2, <2>3, <2>4
(* On with the account in hand.                                               *)
<1>2. ASSUME NEW p \in Working, pc[r] \in Working, Goto(r, p),
             UNCHANGED <<todo, cur, holder, online, adrift>>
      PROVE  Sessions'
  BY <1>0, <1>2
<1>3. CASE StartRun(r) \/ Finalize(r) \/ FinalizeFails(r)
  BY <1>0, <1>1, <1>3 DEF StartRun, Finalize, FinalizeFails, telegram
<1>4. CASE \/ Denied(r) \/ NotSent(r) \/ SendStory(r) \/ SendRaises(r)
           \/ Record(r) \/ RecordFails(r)
  BY <1>0, <1>2, <1>4 DEF Denied, NotSent, SendStory, SendRaises, Record, RecordFails, telegram
<1>5. CASE Connect(r)
  <2>1. <<r, cur[r]>> \notin adrift
    BY <1>0, <1>5 DEF Connect
  <2> QED BY <1>0, <1>5, <2>1 DEF Connect
<1>6. CASE ConnectFails(r) \/ CloseClient(r)
  <2>1. /\ pc[r] \in {"open", "close"} /\ pc' = [pc EXCEPT ![r] = "unlock"]
        /\ UNCHANGED <<todo, cur, holder>> /\ cur[r] \in Accounts
        /\ \A i \in DOMAIN todo[r] : todo[r][i] # cur[r]
    BY <1>0, <1>6 DEF ConnectFails, CloseClient, Lists, Listed
  <2>2. /\ \A c \in Requests \X Accounts : c # <<r, cur[r]>> =>
             (c \in online' <=> c \in online) /\ (c \in adrift' <=> c \in adrift)
        /\ <<r, cur[r]>> \in online' => <<r, cur[r]>> \in adrift'
    <3>1. CASE ConnectFails(r)
      BY <1>0, <2>1, <3>1 DEF ConnectFails, StaysConnected
    <3>2. CASE CloseClient(r)
      BY <1>0, <2>1, <3>2 DEF CloseClient, StaysConnected
    <3> QED BY <1>6, <3>1, <3>2
  <2>3. Locked'
    BY <1>0, <2>1
  <2>4. Connected'
    BY <1>0, <2>1, <2>2
  <2>5. InPlace'
    BY <1>0, <2>1, <2>2
  <2>6. GivenUp'
    BY <1>0, <2>1, <2>2
  <2> QED BY <2>3, <2>4, <2>5, <2>6
<1>7. CASE UnlockSession(r)
  BY <1>0, <1>7 DEF UnlockSession, telegram
<1>8. ASSUME NEW a \in Accounts, LockSession(r, a) \/ CannotOpen(r, a)
      PROVE  Sessions'
  <2>1. /\ pc[r] = "next" /\ todo[r] # <<>> /\ a = Head(todo[r]) /\ todo[r] \in Seq(Accounts)
        /\ todo' = [todo EXCEPT ![r] = Tail(@)]
        /\ UNCHANGED <<online, adrift>>
    BY <1>0, <1>8 DEF LockSession, CannotOpen, Take, telegram
  <2>2. /\ 1 \in DOMAIN todo[r] /\ a = todo[r][1] /\ todo'[r] = Tail(todo[r])
        /\ \A i \in DOMAIN Tail(todo[r]) :
             i + 1 \in DOMAIN todo[r] /\ Tail(todo[r])[i] = todo[r][i + 1]
    BY <1>0, <2>1, RestOfList
  <2>3. \A b \in Accounts : (\A i \in DOMAIN todo[r] : todo[r][i] # b)
                            => b # a /\ \A i \in DOMAIN todo'[r] : todo'[r][i] # b
    BY <2>2
  <2> HIDE DEF Take
  <2>4. CASE CannotOpen(r, a)
    <3>1. pc' = pc /\ UNCHANGED <<cur, holder>>
      BY <2>4 DEF CannotOpen
    <3>2. \A q \in Requests \ {r} : todo'[q] = todo[q]
      BY <1>0, <2>1
    <3> QED BY <1>1, <2>1, <2>3, <3>1, <3>2
  <2>5. CASE LockSession(r, a)
    <3>1. /\ holder[a] = Nobody /\ holder' = [holder EXCEPT ![a] = r]
          /\ cur' = [cur EXCEPT ![r] = a] /\ pc' = [pc EXCEPT ![r] = "open"]
      BY <2>5 DEF LockSession
    <3>2. ASSUME NEW q \in Requests, pc[q] \in Holding
          PROVE  cur[q] # a
      BY <1>0, <3>1, <3>2, StoryAssumption
    <3>3. Locked'
      BY <1>0, <3>1, <3>2
    <3>4. Connected' /\ InPlace'
      BY <1>0, <2>1, <3>1
    <3>5. GivenUp'
      BY <1>0, <2>1, <2>3, <3>1
    <3> QED BY <3>3, <3>4, <3>5
  <2> QED BY <1>8, <2>4, <2>5
<1> QED BY <1>3, <1>4, <1>5, <1>6, <1>7, <1>8 DEF Run

LEMMA SessionsKept ==
  ASSUME Typed, Lists, Sessions, [Next]_vars
  PROVE  Sessions'
<1> USE DEF Typed, InHand, Sessions, Locked, Connected, InPlace, GivenUp, Given, Holding, Working,
            Goto
<1>0. /\ pc \in [Requests -> Places] /\ cur \in [Requests -> Accounts \cup {NoAccount}]
      /\ todo \in [Requests -> Seq(Accounts)]
      /\ holder \in [Accounts -> Requests \cup {Nobody, Other}]
      /\ online \in SUBSET (Requests \X Accounts)
      /\ adrift \in SUBSET (Requests \X Accounts)
  BY DEF TypeOK
<1>1. ASSUME NEW r \in Requests, Operate(r)
      PROVE  Sessions'
  <2>1. CASE PassGates(r)
    BY <1>0, <2>1 DEF PassGates, telegram
  <2>2. CASE ProcessDies(r)
    <3>1. \A q \in Requests \ {r} : pc'[q] = pc[q] /\ cur'[q] = cur[q] /\ todo'[q] = todo[q]
      BY <1>0, <2>2 DEF ProcessDies
    <3>2. pc'[r] = "done"
      BY <1>0, <2>2 DEF ProcessDies
    <3>3. \A a \in Accounts : holder[a] # r => holder'[a] = holder[a]
      BY <2>2 DEF ProcessDies
    <3>4. \A q \in Requests, a \in Accounts :
            /\ <<q, a>> \in online' <=> <<q, a>> \in online /\ q # r
            /\ <<q, a>> \in adrift' <=> <<q, a>> \in adrift /\ q # r
      BY <1>0, <2>2 DEF ProcessDies, Disconnected
    <3>5. Locked'
      BY <1>0, <3>1, <3>2, <3>3
    <3>6. Connected' /\ InPlace'
      BY <1>0, <3>1, <3>2, <3>4
    <3>7. GivenUp'
      BY <1>0, <3>1, <3>2, <3>4
    <3> QED BY <3>5, <3>6, <3>7
  <2>3. CASE UNCHANGED <<pc, todo, cur, holder, online, adrift>>
    BY <1>0, <2>3
  <2> QED
    BY <1>1, <2>1, <2>2, <2>3 DEF Operate, CancelRun, GrowsStale, request, telegram
<1>2. ASSUME NEW a \in Accounts, OtherLocks(a) \/ OtherUnlocks(a)
      PROVE  Sessions'
  BY <1>0, <1>2, StoryAssumption DEF OtherLocks, OtherUnlocks, request, telegram
<1>3. CASE UNCHANGED <<pc, todo, cur, holder, online, adrift>>
  BY <1>0, <1>3
<1> QED
  BY <1>1, <1>2, <1>3, RunKeepsSessions
     DEF Next, Outside, TelegramAccepts, Midnight, vars, request, telegram

(* A request works with a session under its lock only, so no two requests     *)
(* work with the session of an account at the same time; a client that is     *)
(* connected without the lock is one whose disconnect raised, and no request  *)
(* works with it.  For any requests, accounts, deaths and other processes.    *)
THEOREM SessionsAreExclusive == Spec => []SessionIsExclusive
<1>1. Init => Sessions /\ Lists
  BY DEF Init, Sessions, Locked, Connected, InPlace, GivenUp, Lists, Listed, Holding, Working
<1>2. Typed /\ Sessions => SessionIsExclusive
  <2> SUFFICES ASSUME Typed, Sessions PROVE SessionIsExclusive
    OBVIOUS
  <2>1. ASSUME NEW r \in Requests, pc[r] \in {"upload", "send"}
        PROVE  holder[cur[r]] = r /\ <<r, cur[r]>> \in online \ adrift
    BY <2>1 DEF Sessions, Locked, Connected, Holding, Working
  <2>2. ASSUME NEW c \in online
        PROVE  holder[c[2]] = c[1] \/ c \in adrift
    <3>1. PICK r \in Requests, a \in Accounts : c = <<r, a>>
      BY DEF Typed, TypeOK
    <3> QED BY <3>1 DEF Sessions, Locked, InPlace, Holding, Working
  <2> QED BY <2>1, <2>2 DEF SessionIsExclusive
<1> QED BY <1>1, <1>2, TypesHold, ListsKept, SessionsKept, PTL DEF Spec

-----------------------------------------------------------------------------
(* Outcomes.  What a request knows of an account, and what its run says, is   *)
(* so; of what it has still to send nothing is recorded; and the run says     *)
(* nothing before the end.                                                    *)
Recorded(r, a) == \E d \in 0..MaxDay : <<r, a, d>> \in rows
Untouched(r, a) == ~Recorded(r, a) /\ <<r, a>> \notin unwritten
Honest(r, a, o) ==
  /\ o = "ok" => Recorded(r, a)
  /\ o = "ambiguous_no_retry" => <<r, a>> \in unwritten \cap accepted
  /\ o = "failed" => Untouched(r, a)
ToSend(r, a) ==
  \/ pc[r] = "idle"
  \/ \E i \in DOMAIN todo[r] : todo[r][i] = a
  \/ pc[r] \in {"open", "upload", "send"} /\ cur[r] = a
HonestOf(r, a) ==
  /\ ToSend(r, a) => Untouched(r, a)
  /\ Honest(r, a, result[r][a]) /\ Honest(r, a, steps[r][a])
  /\ pc[r] # "done" => steps[r][a] = "none"
Honesty == \A r \in Requests, a \in Accounts : HonestOf(r, a)
(* A row is of an account its request named and of a day that has come.       *)
Past ==
  \A r \in Requests, a \in Accounts, d \in 0..MaxDay :
    <<r, a, d>> \in rows => a \in Named(r) /\ d =< day

(* What a step writes about: only the account in hand of the request that     *)
(* waits for Telegram.                                                        *)
LEMMA WritesOfStep ==
  ASSUME Typed, [Next]_vars, NEW r \in Requests, NEW a \in Accounts,
         ~(Record(r) /\ cur[r] = a), ~(RecordFails(r) /\ cur[r] = a)
  PROVE  /\ \A d : <<r, a, d>> \in rows' <=> <<r, a, d>> \in rows
         /\ <<r, a>> \in unwritten' <=> <<r, a>> \in unwritten
<1>1. CASE UNCHANGED <<rows, unwritten>>
  BY <1>1
<1>2. ASSUME NEW q \in Requests, Record(q) \/ RecordFails(q)
      PROVE  /\ \A d : <<r, a, d>> \in rows' <=> <<r, a, d>> \in rows
             /\ <<r, a>> \in unwritten' <=> <<r, a>> \in unwritten
  <2>1. ~(q = r /\ cur[q] = a)
    BY <1>2
  <2> QED BY <1>2, <2>1 DEF Record, RecordFails, history, account
<1> QED
  BY <1>1, <1>2
     DEF Next, Run, Operate, StartRun, Connect, ConnectFails, Denied, NotSent, SendStory,
         SendRaises, CloseClient, UnlockSession, Finalize, FinalizeFails, LockSession,
         CannotOpen, CancelRun, GrowsStale, ProcessDies, PassGates, Outside, OtherLocks,
         OtherUnlocks, TelegramAccepts, Midnight, vars, account, history

LEMMA AcceptedStays ==
  ASSUME [Next]_vars
  PROVE  accepted \subseteq accepted'
BY DEF Next, Run, Operate, StartRun, Connect, ConnectFails, Denied, NotSent, SendStory,
       SendRaises, Record, RecordFails, CloseClient, UnlockSession, Finalize, FinalizeFails,
       LockSession, CannotOpen, CancelRun, GrowsStale, ProcessDies, PassGates, Outside,
       OtherLocks, OtherUnlocks, TelegramAccepts, Midnight, vars, telegram

(* What a step finds out, but for an answer of Telegram: the same, nothing    *)
(* any more, or a failure of what was to be sent.                             *)
LEMMA NewsOfStep ==
  ASSUME Typed, Lists, [Next]_vars, NEW r \in Requests, NEW a \in Accounts,
         ~(Record(r) /\ cur[r] = a), ~(RecordFails(r) /\ cur[r] = a)
  PROVE  /\ ToSend(r, a)' => ToSend(r, a)
         /\ \/ result'[r][a] \in {result[r][a], "none"}
            \/ result'[r][a] = "failed" /\ ToSend(r, a)
         /\ \/ steps'[r][a] = steps[r][a]
            \/ pc'[r] = "done" /\ steps'[r][a] = result[r][a]
         /\ pc'[r] # "done" => pc[r] # "done"
<1> DEFINE P == /\ ToSend(r, a)' => ToSend(r, a)
                /\ \/ result'[r][a] \in {result[r][a], "none"}
                   \/ result'[r][a] = "failed" /\ ToSend(r, a)
                /\ \/ steps'[r][a] = steps[r][a]
                   \/ pc'[r] = "done" /\ steps'[r][a] = result[r][a]
                /\ pc'[r] # "done" => pc[r] # "done"
<1> USE DEF Goto, Note
<1>0. /\ pc \in [Requests -> Places] /\ cur \in [Requests -> Accounts \cup {NoAccount}]
      /\ todo \in [Requests -> Seq(Accounts)]
      /\ result \in [Requests -> [Accounts -> Outcomes \cup {"none"}]]
      /\ steps \in [Requests -> [Accounts -> Outcomes \cup {"none"}]]
      /\ Listed(r) /\ (pc[r] \in Holding => cur[r] \in Accounts)
  BY DEF Typed, TypeOK, Lists, InHand
<1>1. ASSUME todo'[r] = todo[r], cur'[r] = cur[r],
             result'[r][a] = result[r][a] \/ result'[r][a] = "none"
               \/ (result'[r][a] = "failed" /\ cur[r] = a /\ pc[r] \in {"open", "upload", "send"}),
             steps'[r] = steps[r],
             \/ pc'[r] = pc[r]
             \/ pc'[r] \in {"next", "close", "unlock", "done"} /\ pc[r] # "done"
             \/ pc[r] = "open" /\ pc'[r] = "upload"
             \/ pc[r] = "upload" /\ pc'[r] = "send"
      PROVE  P
  BY <1>1 DEF ToSend
<1>2. ASSUME NEW q \in Requests, Run(q) \/ Operate(q), q # r
      PROVE  P
  <2>1. pc'[r] = pc[r]
    BY <1>0, <1>2
       DEF Run, Operate, StartRun, Connect, ConnectFails, Denied, NotSent, SendStory, SendRaises,
           Record, RecordFails, CloseClient, UnlockSession, Finalize, FinalizeFails, LockSession,
           CannotOpen, CancelRun, GrowsStale, ProcessDies, PassGates, request
  <2>2. todo'[r] = todo[r] /\ cur'[r] = cur[r]
    BY <1>0, <1>2
       DEF Run, Operate, StartRun, Connect, ConnectFails, Denied, NotSent, SendStory, SendRaises,
           Record, RecordFails, CloseClient, UnlockSession, Finalize, FinalizeFails, LockSession,
           CannotOpen, Take, CancelRun, GrowsStale, ProcessDies, PassGates, request
  <2>3. result'[r] = result[r] /\ steps'[r] = steps[r]
    BY <1>0, <1>2
       DEF Run, Operate, StartRun, Connect, ConnectFails, Denied, NotSent, SendStory, SendRaises,
           Record, RecordFails, CloseClient, UnlockSession, Finalize, FinalizeFails, LockSession,
           CannotOpen, CancelRun, GrowsStale, ProcessDies, PassGates, request, runs
  <2> QED BY <1>1, <2>1, <2>2, <2>3
<1>3. CASE StartRun(r) \/ Connect(r) \/ SendStory(r) \/ CloseClient(r)
  <2>1. UNCHANGED <<todo, cur, result, steps>>
    BY <1>3 DEF StartRun, Connect, SendStory, CloseClient, runs
  <2>2. \/ pc'[r] \in {"next", "close", "unlock", "done"} /\ pc[r] # "done"
        \/ pc[r] = "open" /\ pc'[r] = "upload"
        \/ pc[r] = "upload" /\ pc'[r] = "send"
    BY <1>0, <1>3 DEF StartRun, Connect, SendStory, CloseClient
  <2> QED BY <1>1, <2>1, <2>2
<1>4. CASE ConnectFails(r) \/ Denied(r) \/ NotSent(r) \/ SendRaises(r)
  BY <1>0, <1>1, <1>4 DEF ConnectFails, Denied, NotSent, SendRaises, runs, Holding
<1>5. CASE Record(r) \/ RecordFails(r)
  BY <1>0, <1>1, <1>5 DEF Record, RecordFails, runs, Holding
<1>6. CASE UnlockSession(r)
  BY <1>0, <1>6 DEF UnlockSession, runs, ToSend
<1>7. CASE Finalize(r) \/ FinalizeFails(r)
  BY <1>0, <1>7 DEF Finalize, FinalizeFails, runs, ToSend, NoResult
<1>8. ASSUME NEW b \in Accounts, LockSession(r, b) \/ CannotOpen(r, b)
      PROVE  P
  <2>1. /\ todo[r] \in Seq(Accounts) /\ todo[r] # <<>> /\ b = Head(todo[r])
        /\ todo'[r] = Tail(todo[r]) /\ pc[r] = "next" /\ steps' = steps
        /\ \/ pc'[r] = "open" /\ cur'[r] = b /\ result' = result
           \/ pc'[r] = "next" /\ result' = [result EXCEPT ![r][b] = "failed"]
    BY <1>0, <1>8 DEF LockSession, CannotOpen, Take, runs
  <2> DEFINE rest == Tail(todo[r])
  <2>2. /\ 1 \in DOMAIN todo[r] /\ b = todo[r][1]
        /\ \A i \in DOMAIN rest : i + 1 \in DOMAIN todo[r] /\ rest[i] = todo[r][i + 1]
    BY <2>1, RestOfList
  <2> HIDE DEF rest
  <2>3. todo'[r] = rest
    BY <2>1 DEF rest
  <2>4. ToSend(r, b) /\ (ToSend(r, a)' => ToSend(r, a))
    BY <2>1, <2>2, <2>3 DEF ToSend
  <2>5. result'[r][a] = result[r][a] \/ (result'[r][a] = "failed" /\ a = b)
    BY <1>0, <2>1
  <2> QED BY <2>1, <2>4, <2>5
<1>9. CASE PassGates(r)
  BY <1>0, <1>9 DEF PassGates, runs, ToSend
<1>10. CASE ProcessDies(r)
  <2>1. todo'[r] = <<>> /\ pc'[r] = "done" /\ pc[r] # "done"
    BY <1>0, <1>10 DEF ProcessDies, Active
  <2>2. result'[r][a] = "none" /\ steps' = steps
    BY <1>0, <1>10 DEF ProcessDies, NoResult, runs
  <2> QED BY <2>1, <2>2 DEF ToSend
<1>11. CASE UNCHANGED <<request, steps>>
  BY <1>11 DEF request, ToSend
<1> QED
  BY <1>2, <1>3, <1>4, <1>5, <1>6, <1>7, <1>8, <1>9, <1>10, <1>11
     DEF Next, Run, Operate, Outside, CancelRun, GrowsStale, OtherLocks, OtherUnlocks,
         TelegramAccepts, Midnight, vars, runs

LEMMA HonestyKept ==
  ASSUME Typed, Lists, Honesty, [Next]_vars
  PROVE  Honesty'
<1> SUFFICES ASSUME NEW r \in Requests, NEW a \in Accounts
             PROVE  HonestOf(r, a)'
  BY DEF Honesty
<1>0. /\ pc \in [Requests -> Places] /\ result \in [Requests -> [Accounts -> Outcomes \cup {"none"}]]
      /\ day \in 0..MaxDay /\ Listed(r) /\ HonestOf(r, a)
  BY DEF Typed, TypeOK, Lists, Honesty
<1>1. accepted \subseteq accepted'
  BY AcceptedStays
<1>2. CASE ~(Record(r) /\ cur[r] = a) /\ ~(RecordFails(r) /\ cur[r] = a)
  <2>1. Recorded(r, a)' <=> Recorded(r, a)
    BY <1>2, WritesOfStep DEF Recorded
  <2>2. Untouched(r, a)' <=> Untouched(r, a)
    BY <1>2, <2>1, WritesOfStep DEF Untouched
  <2>3. <<r, a>> \in unwritten' <=> <<r, a>> \in unwritten
    BY <1>2, WritesOfStep
  <2>4. Honest(r, a, "none") /\ (ToSend(r, a) => Honest(r, a, "failed"))
    BY <1>0 DEF Honest, HonestOf
  <2>5. Honest(r, a, result'[r][a]) /\ Honest(r, a, steps'[r][a])
    BY <1>0, <1>2, <2>4, NewsOfStep DEF HonestOf
  <2>6. Honest(r, a, result[r][a])' /\ Honest(r, a, steps[r][a])'
    BY <1>1, <2>1, <2>2, <2>3, <2>5 DEF Honest
  <2>7. /\ ToSend(r, a)' => Untouched(r, a)'
        /\ pc'[r] # "done" => steps'[r][a] = "none"
    BY <1>0, <1>2, <2>2, NewsOfStep DEF HonestOf
  <2> QED BY <2>6, <2>7 DEF HonestOf
<1>3. ASSUME Record(r) \/ RecordFails(r), cur[r] = a
      PROVE  HonestOf(r, a)'
  <2>1. pc'[r] = "close" /\ pc[r] = "send" /\ UNCHANGED <<todo, cur, steps>>
    BY <1>0, <1>3 DEF Record, RecordFails, Goto, runs
  <2>2. ~ToSend(r, a)'
    BY <1>0, <1>3, <2>1 DEF ToSend, Listed, Holding
  <2>3. steps'[r][a] = "none"
    BY <1>0, <2>1 DEF HonestOf
  <2>4. CASE Record(r)
    <3>1. result'[r][a] = "ok"
      BY <1>0, <1>3, <2>4 DEF Record, Note
    <3>2. Recorded(r, a)'
      BY <1>0, <1>3, <2>4 DEF Record, Recorded
    <3> QED BY <2>1, <2>2, <2>3, <3>1, <3>2 DEF HonestOf, Honest
  <2>5. CASE RecordFails(r)
    <3>1. result'[r][a] = "ambiguous_no_retry"
      BY <1>0, <1>3, <2>5 DEF RecordFails, Note
    <3>2. <<r, a>> \in unwritten' \cap accepted'
      BY <1>1, <1>3, <2>5 DEF RecordFails
    <3> QED BY <2>1, <2>2, <2>3, <3>1, <3>2 DEF HonestOf, Honest
  <2> QED BY <1>3, <2>4, <2>5
<1> QED BY <1>2, <1>3

LEMMA PastKept ==
  ASSUME Typed, Lists, Past, [Next]_vars
  PROVE  Past'
<1> SUFFICES ASSUME NEW r \in Requests, NEW a \in Accounts, NEW d \in 0..MaxDay,
                    <<r, a, d>> \in rows'
             PROVE  a \in Named(r) /\ d =< day'
  BY DEF Past, Named
<1>1. day \in 0..MaxDay /\ MaxDay \in Nat /\ (day' = day \/ day' = day + 1)
  BY StoryAssumption
     DEF Typed, TypeOK, Next, Run, Operate, StartRun, Connect, ConnectFails, Denied, NotSent,
         SendStory, SendRaises, Record, RecordFails, CloseClient, UnlockSession, Finalize,
         FinalizeFails, LockSession, CannotOpen, CancelRun, GrowsStale, ProcessDies, PassGates,
         Outside, OtherLocks, OtherUnlocks, TelegramAccepts, Midnight, vars
<1>2. CASE <<r, a, d>> \in rows
  BY <1>1, <1>2 DEF Past
<1>3. CASE <<r, a, d>> \notin rows
  <2>1. Record(r) /\ cur[r] = a
    BY <1>3, WritesOfStep DEF RecordFails, account
  <2>2. d = day
    BY <1>3, <2>1 DEF Record
  <2>3. a \in Named(r)
    BY <2>1 DEF Record, Lists, Listed, Holding
  <2> QED BY <1>1, <2>2, <2>3
<1> QED BY <1>2, <1>3

(* The lists, the outcomes and the days, together.                            *)
Bookkeeping == Typed /\ Lists /\ Honesty /\ Past

LEMMA BookkeepingHolds == Spec => []Bookkeeping
<1>1. Init => Lists /\ Honesty /\ Past
  BY DEF Init, Lists, Listed, Holding, Honesty, HonestOf, Honest, ToSend, Untouched, Recorded,
         Past, NoResult
<1>2. Typed /\ Lists /\ Honesty /\ Past /\ [Next]_vars => (Lists /\ Honesty /\ Past)'
  BY ListsKept, HonestyKept, PastKept
<1> QED BY <1>1, <1>2, TypesHold, PTL DEF Spec, Bookkeeping

(* What a run has written of an account is so: "ok" has a Story row, an       *)
(* ambiguous answer is one Telegram accepted and the database did not take,   *)
(* and neither hides behind a plain failure, although the steps are written   *)
(* only at the end of the run.                                                *)
THEOREM RunsAreHonest == Spec => []StepsAreHonest
<1>1. ASSUME Bookkeeping, NEW r \in Requests, NEW a \in Accounts
      PROVE  Recorded(r, a) <=> \E d \in 0..day : <<r, a, d>> \in rows
  BY <1>1, StoryAssumption DEF Bookkeeping, Typed, TypeOK, Past, Recorded
<1>2. Bookkeeping => StepsAreHonest
  <2> SUFFICES ASSUME Bookkeeping, NEW r \in Requests, NEW a \in Accounts
               PROVE  LET recorded == \E d \in 0..day : <<r, a, d>> \in rows
                      IN  /\ steps[r][a] = "ok" => recorded
                          /\ steps[r][a] = "ambiguous_no_retry" => <<r, a>> \in unwritten \cap accepted
                          /\ steps[r][a] = "failed" => ~recorded /\ <<r, a>> \notin unwritten
    BY DEF StepsAreHonest
  <2>1. Honest(r, a, steps[r][a])
    BY DEF Bookkeeping, Honesty, HonestOf
  <2> QED BY <1>1, <2>1 DEF Honest, Untouched
<1> QED BY <1>2, BookkeepingHolds, PTL

-----------------------------------------------------------------------------
(* The daily cap.  Those who have published for an account today, those who   *)
(* may still, and what the counter says.  The gates compare the counter with  *)
(* the cap, so it is the slots that keep the bound: a request that began      *)
(* beside another with the account is not among them.                         *)
Posted(a) == {r \in Requests : <<r, a, day>> \in rows}
Slots(a) ==
  {r \in Requests : r \notin overlapped /\ (r \in Posted(a) \/ (r \in Active /\ a \in Ahead(r)))}
Counted == \A a \in Accounts : Cardinality(Posted(a)) =< Effective(a)
Capped == \A a \in Accounts : Cardinality(Slots(a)) =< DailyCap
(* A request that has not begun has nothing in hand.                          *)
EmptyHanded == \A r \in Requests : pc[r] = "idle" => cur[r] = NoAccount

LEMMA RequestsCounted ==
  ASSUME NEW S \in SUBSET Requests
  PROVE  IsFiniteSet(S) /\ Cardinality(S) \in Nat
BY StoryAssumption, FS_Subset, FS_CardinalityType

LEMMA SmallerCount ==
  ASSUME NEW S \in SUBSET Requests, NEW T \in SUBSET S
  PROVE  Cardinality(T) =< Cardinality(S)
BY RequestsCounted, FS_Subset

LEMMA OneMore ==
  ASSUME NEW S \in SUBSET Requests, NEW r \in Requests
  PROVE  Cardinality(S \cup {r}) =< Cardinality(S) + 1
<1>1. IsFiniteSet(S) /\ Cardinality(S) \in Nat
  BY RequestsCounted
<1>2. Cardinality(S \cup {r}) = IF r \in S THEN Cardinality(S) ELSE Cardinality(S) + 1
  BY <1>1, FS_AddElement
<1> QED BY <1>1, <1>2

LEMMA DayOfStep ==
  ASSUME Typed, [Next]_vars
  PROVE  \/ day' = day
         \/ day' = day + 1 /\ UNCHANGED <<request, rows, count, countDay, overlapped>>
BY DEF Next, Run, Operate, StartRun, Connect, ConnectFails, Denied, NotSent, SendStory,
       SendRaises, Record, RecordFails, CloseClient, UnlockSession, Finalize, FinalizeFails,
       LockSession, CannotOpen, CancelRun, GrowsStale, ProcessDies, PassGates, Outside,
       OtherLocks, OtherUnlocks, TelegramAccepts, Midnight, vars, account, history

(* Nobody has published for an account on a day that has not come.            *)
LEMMA NewDayIsEmpty ==
  ASSUME Typed, Typed', Past, day' = day + 1, rows' = rows, NEW a \in Accounts
  PROVE  Posted(a)' = {}
<1>1. day \in Nat /\ day' \in 0..MaxDay /\ ~(day' =< day)
  BY StoryAssumption DEF Typed, TypeOK
<1> QED BY <1>1 DEF Posted, Past

LEMMA PostedOfStep ==
  ASSUME Typed, [Next]_vars, day' = day, NEW a \in Accounts, NEW r \in Requests, r \in Posted(a)'
  PROVE  r \in Posted(a) \/ (Record(r) /\ cur[r] = a)
BY WritesOfStep DEF Posted, RecordFails, account

LEMMA EffectiveOfStep ==
  ASSUME Typed, [Next]_vars, day' = day, NEW a \in Accounts,
         \A r \in Requests : ~(Record(r) /\ cur[r] = a)
  PROVE  Effective(a)' = Effective(a)
<1>0. count \in [Accounts -> Nat] /\ countDay \in [Accounts -> 0..MaxDay]
  BY DEF Typed, TypeOK
<1>1. CASE UNCHANGED <<count, countDay>>
  BY <1>1 DEF Effective
<1>2. ASSUME NEW r \in Requests, PassGates(r)
      PROVE  Effective(a)' = Effective(a)
  <2>1. /\ count'[a] = IF a \in Named(r) THEN Effective(a) ELSE count[a]
        /\ countDay'[a] = IF a \in Named(r) THEN day ELSE countDay[a]
    BY <1>2 DEF PassGates
  <2>2. CASE a \in Named(r)
    <3>1. count'[a] = Effective(a) /\ countDay'[a] = day
      BY <2>1, <2>2
    <3> QED BY <3>1 DEF Effective
  <2>3. CASE a \notin Named(r)
    <3>1. count'[a] = count[a] /\ countDay'[a] = countDay[a]
      BY <2>1, <2>3
    <3> QED BY <3>1 DEF Effective
  <2> QED BY <2>2, <2>3
<1>3. ASSUME NEW r \in Requests, Record(r)
      PROVE  Effective(a)' = Effective(a)
  <2>1. count'[a] = count[a] /\ countDay'[a] = countDay[a]
    BY <1>0, <1>3 DEF Record
  <2> QED BY <2>1 DEF Effective
<1> QED
  BY <1>1, <1>2, <1>3
     DEF Next, Run, Operate, StartRun, Connect, ConnectFails, Denied, NotSent, SendStory,
         SendRaises, RecordFails, CloseClient, UnlockSession, Finalize, FinalizeFails,
         LockSession, CannotOpen, CancelRun, GrowsStale, ProcessDies, Outside, OtherLocks,
         OtherUnlocks, TelegramAccepts, Midnight, vars, account

LEMMA CountedKept ==
  ASSUME Typed, Typed', Past, Counted, [Next]_vars
  PROVE  Counted'
<1> SUFFICES ASSUME NEW a \in Accounts
             PROVE  Cardinality(Posted(a)') =< Effective(a)'
  BY DEF Counted
<1>0. Effective(a) \in Nat /\ Effective(a)' \in Nat
  BY EffectiveTyped DEF Typed, TypeOK, Effective
<1>1. Posted(a) \in SUBSET Requests /\ Posted(a)' \in SUBSET Requests
  BY DEF Posted
<1>2. Cardinality(Posted(a)) =< Effective(a) /\ Cardinality(Posted(a)) \in Nat
  BY <1>1, RequestsCounted DEF Counted
<1>3. CASE day' = day /\ \A r \in Requests : ~(Record(r) /\ cur[r] = a)
  <2>1. Posted(a)' \subseteq Posted(a)
    BY <1>1, <1>3, PostedOfStep
  <2>2. Effective(a)' = Effective(a)
    BY <1>3, EffectiveOfStep
  <2>3. Cardinality(Posted(a)') =< Cardinality(Posted(a)) /\ Cardinality(Posted(a)') \in Nat
    BY <1>1, <2>1, SmallerCount, RequestsCounted
  <2> QED BY <1>0, <1>2, <2>2, <2>3
<1>4. ASSUME NEW r \in Requests, Record(r), cur[r] = a
      PROVE  Cardinality(Posted(a)') =< Effective(a)'
  <2>1. Posted(a)' \subseteq Posted(a) \cup {r}
    BY <1>1, <1>4 DEF Record, Posted
  <2>2. Effective(a)' = Effective(a) + 1
    BY <1>4 DEF Record, Effective, Typed, TypeOK
  <2>3. Cardinality(Posted(a) \cup {r}) =< Cardinality(Posted(a)) + 1
    BY <1>1, OneMore
  <2>4. Posted(a) \cup {r} \in SUBSET Requests
    BY <1>1
  <2>5. /\ Cardinality(Posted(a)') =< Cardinality(Posted(a) \cup {r})
        /\ Cardinality(Posted(a)') \in Nat /\ Cardinality(Posted(a) \cup {r}) \in Nat
    BY <1>1, <2>1, <2>4, SmallerCount, RequestsCounted
  <2> QED BY <1>0, <1>2, <2>2, <2>3, <2>5
<1>5. CASE day' = day + 1 /\ UNCHANGED <<request, rows, count, countDay, overlapped>>
  <2>1. Posted(a)' = {}
    BY <1>5, NewDayIsEmpty
  <2> QED BY <1>0, <2>1, FS_EmptySet
<1> QED BY <1>3, <1>4, <1>5, DayOfStep

(* Only a request that passes the gates has an account ahead it had not.      *)
LEMMA AheadOfStep ==
  ASSUME Typed, [Next]_vars, NEW r \in Requests, NEW a \in Accounts, ~PassGates(r),
         r \in Active', a \in Ahead(r)'
  PROVE  r \in Active /\ a \in Ahead(r)
<1> DEFINE P == r \in Active /\ a \in Ahead(r)
<1> USE DEF Goto
<1>0. /\ pc \in [Requests -> Places] /\ cur \in [Requests -> Accounts \cup {NoAccount}]
      /\ todo \in [Requests -> Seq(Accounts)] /\ a # NoAccount
  BY StoryAssumption DEF Typed, TypeOK
<1>1. ASSUME todo'[r] = todo[r], cur'[r] \in {cur[r], NoAccount},
             pc'[r] = pc[r] \/ pc[r] \notin {"idle", "done"}
      PROVE  P
  BY <1>0, <1>1 DEF Active, Ahead
<1>2. ASSUME NEW q \in Requests, Run(q) \/ Operate(q), q # r
      PROVE  P
  <2>1. pc'[r] = pc[r]
    BY <1>0, <1>2
       DEF Run, Operate, StartRun, Connect, ConnectFails, Denied, NotSent, SendStory, SendRaises,
           Record, RecordFails, CloseClient, UnlockSession, Finalize, FinalizeFails, LockSession,
           CannotOpen, CancelRun, GrowsStale, ProcessDies, PassGates, request
  <2>2. todo'[r] = todo[r] /\ cur'[r] = cur[r]
    BY <1>0, <1>2
       DEF Run, Operate, StartRun, Connect, ConnectFails, Denied, NotSent, SendStory, SendRaises,
           Record, RecordFails, CloseClient, UnlockSession, Finalize, FinalizeFails, LockSession,
           CannotOpen, Take, CancelRun, GrowsStale, ProcessDies, PassGates, request
  <2> QED BY <1>1, <2>1, <2>2
<1>3. CASE StartRun(r) \/ Connect(r) \/ ConnectFails(r) \/ Denied(r) \/ NotSent(r)
           \/ SendStory(r) \/ SendRaises(r) \/ Record(r) \/ RecordFails(r) \/ CloseClient(r)
           \/ Finalize(r) \/ FinalizeFails(r)
  BY <1>0, <1>1, <1>3
     DEF StartRun, Connect, ConnectFails, Denied, NotSent, SendStory, SendRaises, Record,
         RecordFails, CloseClient, Finalize, FinalizeFails
<1>4. CASE UnlockSession(r)
  <2>1. todo'[r] = todo[r] /\ cur'[r] = NoAccount /\ pc[r] = "unlock"
    BY <1>0, <1>4 DEF UnlockSession
  <2> QED BY <1>1, <2>1
<1>5. ASSUME NEW b \in Accounts, LockSession(r, b) \/ CannotOpen(r, b)
      PROVE  P
  <2>1. /\ todo[r] \in Seq(Accounts) /\ todo[r] # <<>> /\ todo'[r] = Tail(todo[r])
        /\ pc[r] = "next" /\ cur'[r] \in {cur[r], Head(todo[r])}
    BY <1>0, <1>5 DEF LockSession, CannotOpen, Take
  <2> DEFINE rest == Tail(todo[r])
  <2>2. /\ 1 \in DOMAIN todo[r] /\ Head(todo[r]) = todo[r][1]
        /\ \A i \in DOMAIN rest : i + 1 \in DOMAIN todo[r] /\ rest[i] = todo[r][i + 1]
    BY <2>1, RestOfList
  <2> HIDE DEF rest
  <2>3. todo'[r] = rest
    BY <2>1 DEF rest
  <2> QED BY <2>1, <2>2, <2>3 DEF Active, Ahead
<1>6. CASE ProcessDies(r)
  BY <1>0, <1>6 DEF ProcessDies, Active
<1>7. CASE UNCHANGED request
  BY <1>1, <1>7 DEF request
<1> QED
  BY <1>2, <1>3, <1>4, <1>5, <1>6, <1>7
     DEF Next, Run, Operate, Outside, CancelRun, GrowsStale, OtherLocks, OtherUnlocks,
         TelegramAccepts, Midnight, vars

LEMMA OverlapOfStep ==
  ASSUME [Next]_vars
  PROVE  overlapped \subseteq overlapped'
BY DEF Next, Run, Operate, StartRun, Connect, ConnectFails, Denied, NotSent, SendStory,
       SendRaises, Record, RecordFails, CloseClient, UnlockSession, Finalize, FinalizeFails,
       LockSession, CannotOpen, CancelRun, GrowsStale, ProcessDies, PassGates, Outside,
       OtherLocks, OtherUnlocks, TelegramAccepts, Midnight, vars, history

(* A slot that opens is that of a request that passes the gates.              *)
LEMMA SlotsOfStep ==
  ASSUME Typed, Typed', Past, [Next]_vars, NEW a \in Accounts, NEW r \in Requests,
         r \in Slots(a)', ~PassGates(r)
  PROVE  r \in Slots(a)
<1>1. r \notin overlapped
  BY OverlapOfStep DEF Slots
<1>2. CASE r \in Active' /\ a \in Ahead(r)'
  BY <1>1, <1>2, AheadOfStep DEF Slots
<1>3. CASE r \in Posted(a)'
  <2>1. day' = day
    BY <1>3, DayOfStep, NewDayIsEmpty
  <2>2. CASE Record(r) /\ cur[r] = a
    BY <1>1, <2>2 DEF Slots, Active, Ahead, Record
  <2> QED BY <1>1, <1>3, <2>1, <2>2, PostedOfStep DEF Slots
<1> QED BY <1>2, <1>3 DEF Slots

LEMMA EmptyHandedKept ==
  ASSUME Typed, EmptyHanded, [Next]_vars
  PROVE  EmptyHanded'
<1> SUFFICES ASSUME NEW r \in Requests, pc'[r] = "idle" PROVE cur'[r] = NoAccount
  BY DEF EmptyHanded
<1>0. pc \in [Requests -> Places] /\ cur \in [Requests -> Accounts \cup {NoAccount}]
  BY DEF Typed, TypeOK
<1>1. ASSUME NEW q \in Requests, Run(q)
      PROVE  pc[r] = "idle" /\ cur'[r] = cur[r]
  BY <1>0, <1>1
     DEF Run, StartRun, Connect, ConnectFails, Denied, NotSent, SendStory, SendRaises, Record,
         RecordFails, CloseClient, UnlockSession, Finalize, FinalizeFails, LockSession, CannotOpen,
         Goto
<1>2. ASSUME NEW q \in Requests, Operate(q)
      PROVE  pc[r] = "idle" /\ cur'[r] = cur[r]
  BY <1>0, <1>2 DEF Operate, CancelRun, GrowsStale, ProcessDies, PassGates, Goto, request
<1>3. pc[r] = "idle" /\ cur'[r] = cur[r]
  BY <1>0, <1>1, <1>2
     DEF Next, Outside, OtherLocks, OtherUnlocks, TelegramAccepts, Midnight, vars, request
<1> QED BY <1>3 DEF EmptyHanded

LEMMA CappedKept ==
  ASSUME Typed, Typed', Past, EmptyHanded, Counted, Capped, [Next]_vars
  PROVE  Capped'
<1> SUFFICES ASSUME NEW a \in Accounts
             PROVE  Cardinality(Slots(a)') =< DailyCap
  BY DEF Capped
<1>0. DailyCap \in Nat /\ Effective(a) \in Nat
  BY StoryAssumption, EffectiveTyped DEF Typed
<1>1. /\ Slots(a) \in SUBSET Requests /\ Slots(a)' \in SUBSET Requests
      /\ Posted(a) \in SUBSET Requests
  BY DEF Slots, Posted
<1>2. /\ Cardinality(Slots(a)) \in Nat /\ Cardinality(Slots(a)') \in Nat
      /\ Cardinality(Posted(a)) \in Nat /\ Cardinality(Posted(a)) =< Effective(a)
      /\ Cardinality(Slots(a)) =< DailyCap
  BY <1>1, RequestsCounted DEF Capped, Counted
<1>3. CASE Slots(a)' \subseteq Slots(a)
  <2>1. Cardinality(Slots(a)') =< Cardinality(Slots(a))
    BY <1>1, <1>3, SmallerCount
  <2> QED BY <1>0, <1>2, <2>1
<1>4. ASSUME NEW r \in Requests, PassGates(r), r \in Slots(a)'
      PROVE  Cardinality(Slots(a)') =< DailyCap
  <2>1. /\ pc[r] = "idle" /\ day' = day /\ rows' = rows /\ pc' = [pc EXCEPT ![r] = "gated"]
        /\ cur' = cur /\ todo' = [todo EXCEPT ![r] = Wants[r]]
    BY <1>4 DEF PassGates, Goto
  <2>2. r \notin overlapped' /\ (r \in Posted(a) \/ a \in Ahead(r)')
    BY <1>4, <2>1 DEF Slots, Posted
  <2>3. CASE a \notin Named(r)
    <3>1. a \notin Ahead(r)'
      BY <2>1, <2>3, StoryAssumption DEF EmptyHanded, Ahead, Named, Typed, TypeOK
    <3>2. Slots(a)' \subseteq Slots(a)
      <4>1. ASSUME NEW q \in Slots(a)'
            PROVE  q \in Slots(a)
        <5>1. q \in Requests
          BY DEF Slots
        <5>2. CASE q = r
          BY <2>2, <3>1, <5>2, OverlapOfStep DEF Slots
        <5>3. CASE q # r
          <6>1. ~PassGates(q)
            BY <2>1, <5>1, <5>3 DEF PassGates, Goto, Typed, TypeOK
          <6> QED BY <5>1, <6>1, SlotsOfStep
        <5> QED BY <5>2, <5>3
      <4> QED BY <4>1
    <3> QED BY <1>3, <3>2
  <2>4. CASE a \in Named(r)
    <3>1. \A q \in Active : a \notin Ahead(q)
      BY <1>4, <2>2, <2>4 DEF PassGates
    <3>2. Slots(a)' \subseteq Posted(a) \cup {r}
      <4>1. ASSUME NEW q \in Slots(a)', q # r
            PROVE  q \in Posted(a)
        <5>1. q \in Requests
          BY DEF Slots
        <5>2. ~PassGates(q)
          BY <2>1, <4>1, <5>1 DEF PassGates, Goto, Typed, TypeOK
        <5>3. q \in Slots(a)
          BY <5>1, <5>2, SlotsOfStep
        <5> QED BY <3>1, <5>3 DEF Slots
      <4> QED BY <4>1
    <3>3. Effective(a) < DailyCap
      BY <1>4, <2>4 DEF PassGates, GatesOpen, StoryReady
    <3>4. Posted(a) \cup {r} \in SUBSET Requests
      BY <1>1
    <3>5. /\ Cardinality(Posted(a) \cup {r}) =< Cardinality(Posted(a)) + 1
          /\ Cardinality(Posted(a) \cup {r}) \in Nat
          /\ Cardinality(Slots(a)') =< Cardinality(Posted(a) \cup {r})
      BY <1>1, <3>2, <3>4, OneMore, SmallerCount, RequestsCounted
    <3> QED BY <1>0, <1>2, <3>3, <3>5
  <2> QED BY <2>3, <2>4
<1>5. (\A r \in Requests : ~(PassGates(r) /\ r \in Slots(a)')) => Slots(a)' \subseteq Slots(a)
  BY <1>1, SlotsOfStep
<1> QED BY <1>3, <1>4, <1>5

(* An account publishes at most its daily cap, but for the requests that      *)
(* began beside another with the account: what the gates read of the counter  *)
(* is a bound for them all, whatever fails, is cancelled or dies between.     *)
THEOREM DailyCapIsKept == Spec => []DailyCapHolds
<1> DEFINE Caps == EmptyHanded /\ Counted /\ Capped
<1>1. Init => Caps
  <2> SUFFICES ASSUME Init PROVE Caps
    OBVIOUS
  <2>1. EmptyHanded
    BY DEF Init, EmptyHanded
  <2>2. \A a \in Accounts : Posted(a) = {} /\ Slots(a) = {} /\ Effective(a) \in Nat
    BY DEF Init, Posted, Slots, Active, Effective
  <2>3. Cardinality({}) = 0 /\ DailyCap \in Nat
    BY FS_EmptySet, StoryAssumption
  <2>4. ASSUME NEW a \in Accounts
        PROVE  Cardinality(Posted(a)) =< Effective(a) /\ Cardinality(Slots(a)) =< DailyCap
    <3>1. Posted(a) = {} /\ Slots(a) = {} /\ Effective(a) \in Nat
      BY <2>2
    <3>2. Cardinality(Posted(a)) = 0 /\ Cardinality(Slots(a)) = 0
      BY <2>3, <3>1
    <3> QED BY <2>3, <3>1, <3>2
  <2> QED BY <2>1, <2>4 DEF Counted, Capped
<1>2. Bookkeeping /\ Bookkeeping' /\ Caps /\ [Next]_vars => Caps'
  BY EmptyHandedKept, CountedKept, CappedKept DEF Bookkeeping
<1>3. Bookkeeping /\ Caps => DailyCapHolds
  <2> SUFFICES ASSUME Bookkeeping, Caps, NEW a \in Accounts
               PROVE  RowsToday(a) =< DailyCap + Cardinality({r \in overlapped : a \in Named(r)})
    BY DEF DailyCapHolds
  <2> DEFINE today == {s \in rows : s[2] = a /\ s[3] = day}
             beside == {r \in overlapped : a \in Named(r)}
             f == [r \in Posted(a) |-> <<r, a, day>>]
  <2>1. Posted(a) \in SUBSET Requests /\ Slots(a) \in SUBSET Requests /\ beside \in SUBSET Requests
    BY DEF Posted, Slots, Bookkeeping, Typed, TypeOK
  <2>2. /\ IsFiniteSet(today) /\ Cardinality(today) \in Nat
        /\ Cardinality(today) =< Cardinality(Posted(a))
    <3>1. f \in [Posted(a) -> today]
      BY DEF Posted
    <3>2. ASSUME NEW s \in today
          PROVE  \E r \in Posted(a) : f[r] = s
      <4>1. PICK r \in Requests, b \in Accounts, d \in 0..MaxDay : s = <<r, b, d>>
        BY DEF Bookkeeping, Typed, TypeOK
      <4> QED BY <4>1 DEF Posted
    <3>3. f \in Surjection(Posted(a), today)
      BY <3>1, <3>2 DEF Surjection
    <3>4. IsFiniteSet(Posted(a))
      BY <2>1, RequestsCounted
    <3> HIDE DEF f, today
    <3>5. IsFiniteSet(today) /\ Cardinality(today) =< Cardinality(Posted(a))
      BY <3>3, <3>4, FS_Surjection
    <3> QED BY <3>5, FS_CardinalityType
  <2>3. Posted(a) \subseteq Slots(a) \cup beside
    BY DEF Posted, Slots, Bookkeeping, Past, Typed, TypeOK
  <2>4. Cardinality(Slots(a) \cup beside) =< Cardinality(Slots(a)) + Cardinality(beside)
    <3>1. Slots(a) \cap beside \in SUBSET Requests
      BY <2>1
    <3> HIDE DEF beside
    <3>2. /\ IsFiniteSet(Slots(a)) /\ IsFiniteSet(beside)
          /\ Cardinality(Slots(a)) \in Nat /\ Cardinality(beside) \in Nat
          /\ Cardinality(Slots(a) \cap beside) \in Nat
      BY <2>1, <3>1, RequestsCounted
    <3>3. Cardinality(Slots(a) \cup beside)
            = Cardinality(Slots(a)) + Cardinality(beside) - Cardinality(Slots(a) \cap beside)
      BY <3>2, FS_Union
    <3> QED BY <3>2, <3>3
  <2>5. Slots(a) \cup beside \in SUBSET Requests
    BY <2>1
  <2>6. Cardinality(Posted(a)) =< Cardinality(Slots(a) \cup beside)
    BY <2>3, <2>5, SmallerCount
  <2> HIDE DEF today, beside, f
  <2>7. Cardinality(Slots(a)) =< DailyCap /\ DailyCap \in Nat
    BY StoryAssumption DEF Capped
  <2>8. /\ Cardinality(Posted(a)) \in Nat /\ Cardinality(Slots(a)) \in Nat
        /\ Cardinality(beside) \in Nat /\ Cardinality(Slots(a) \cup beside) \in Nat
    BY <2>1, <2>5, RequestsCounted
  <2>9. Cardinality(today) =< DailyCap + Cardinality(beside)
    BY <2>2, <2>4, <2>6, <2>7, <2>8
  <2> QED BY <2>9 DEF RowsToday, today, beside
<1> QED BY <1>1, <1>2, <1>3, BookkeepingHolds, PTL DEF Spec
=============================================================================
