------------------------ MODULE JobGeneration_proofs ------------------------
(* Theorems about JobGeneration, for every value of its constants: any       *)
(* number of accounts, chats, rows, days, operator's requests and faults.    *)
EXTENDS JobGeneration, FiniteSetTheorems, TLAPS

Picks == Accounts \X (1..MaxTargets) \X Days
Tags == [uid : 1..MaxMade, acct : Accounts, orig : Chats, birth : Days,
         origin : {"rule", "test"}]

-----------------------------------------------------------------------------
(* The invariant, in parts.                                                  *)

ChatTyped ==
  /\ DOMAIN chat \subseteq 1..MaxTargets
  /\ \A t \in DOMAIN chat : chat[t] \in Chats
  /\ \A s, t \in DOMAIN chat : chat[s] = chat[t] => s = t
  /\ bound \subseteq Accounts \X DOMAIN chat

RulesTyped ==
  /\ mode \in [Accounts -> Modes]
  /\ sel \in [Accounts -> SUBSET (1..MaxTargets)]
  /\ meant \in [Accounts -> SUBSET Chats]
  /\ DOMAIN page \subseteq 1..MaxTargets /\ \A t \in DOMAIN page : page[t] \in Chats
  /\ outdated \subseteq Accounts

RowsTyped ==
  /\ jobs \subseteq Rows /\ fresh \subseteq Rows
  /\ \A r, s \in jobs \cup fresh : r.id = s.id => r = s
  /\ \A r \in jobs \cup fresh : r.target \in DOMAIN chat

(* The executor's row and what has been posted.                              *)
HandTyped ==
  /\ cur \subseteq Rows /\ posts \subseteq Tags
  /\ batch \subseteq 1..MaxRows /\ cancelling \subseteq 1..MaxRows
  /\ phase \notin {"send", "posted"} => cur = {}

ClockTyped ==
  /\ made \in 0..MaxMade /\ events \in 0..MaxEvents
  /\ today \in 0..MaxDay /\ evening \in BOOLEAN
  /\ evening => today < MaxDay

PassTyped ==
  /\ phase \in {"loop", "plan", "check", "insert", "claim", "run", "send", "posted"}
  /\ lastGen \in {Never} \cup 0..MaxDay /\ generated \subseteq 0..MaxDay
  /\ genDay \in {Never} \cup 0..MaxDay
  /\ left \subseteq Accounts
  /\ todo \subseteq Picks /\ pick \subseteq Picks

(* Where the generator is: outside a pass it has no rows and no day, and     *)
(* before an insert there is one pick, and room for its row.                 *)
InPass ==
  /\ phase \in {"plan", "check", "insert"} => genDay \in 0..MaxDay
  /\ phase \notin {"plan", "check", "insert"} => fresh = {}
  /\ phase # "insert" => pick = {}
  /\ phase = "insert" =>
       /\ \E x \in Picks : pick = {x}
       /\ made < MaxMade /\ \A r \in jobs \cup fresh : r.id < MaxRows

Typed ==
  /\ ChatTyped /\ RulesTyped /\ RowsTyped /\ HandTyped /\ ClockTyped /\ PassTyped
  /\ InPass

-----------------------------------------------------------------------------
(* Lemmas about the operators.                                               *)

LEMMA LeastExists ==
  ASSUME NEW S \in SUBSET Nat, S # {}
  PROVE  \E x \in S : \A y \in S : x =< y
<1> DEFINE R == {ss \in Nat \X Nat : ss[1] < ss[2]}
<1>1. IsWellFoundedOn(R, Nat)
  BY NatLessThanWellFounded DEF OpToRel
<1>2. \A x, y \in Nat : y < x => <<y, x>> \in R
  OBVIOUS
<1> HIDE DEF R
<1>3. PICK x \in S : \A y \in S : <<y, x>> \notin R
  BY <1>1, WFMin
<1>4. \A y \in S : x =< y
  <2> SUFFICES ASSUME NEW y \in S PROVE x =< y
    OBVIOUS
  <2>1. x \in Nat /\ y \in Nat
    OBVIOUS
  <2>2. ~ (y < x)
    BY <1>2, <1>3, <2>1, Zenon
  <2> QED BY <2>1, <2>2
<1> QED BY <1>4

LEMMA MaxIsMember ==
  ASSUME NEW N \in Nat, NEW S \in SUBSET (1..N), S # {}
  PROVE  Max(S) \in S /\ \A y \in S : Max(S) >= y
<1> DEFINE T == {N - x : x \in S}
<1>1. T \in SUBSET Nat /\ T # {}
  <2>1. \A x \in S : N - x \in Nat
    OBVIOUS
  <2>2. PICK x \in S : TRUE
    OBVIOUS
  <2> QED BY <2>1, <2>2
<1> HIDE DEF T
<1>2. PICK t \in T : \A u \in T : t =< u
  BY <1>1, LeastExists
<1> USE DEF T
<1>3. PICK x \in S : t = N - x
  BY <1>2
<1>4. \A y \in S : x >= y
  <2> SUFFICES ASSUME NEW y \in S PROVE x >= y
    OBVIOUS
  <2>1. N - x =< N - y
    BY <1>2, <1>3
  <2> QED BY <2>1
<1> QED BY <1>4 DEF Max

(* The next id is larger than every id there is, by one at most.             *)
LEMMA NextIdIsNew ==
  ASSUME NEW N \in Nat, NEW S \in SUBSET (1..N)
  PROVE  /\ NextId(S) \in 1..(N + 1)
         /\ \A y \in S : y < NextId(S)
         /\ \A m \in Nat : m >= 1 /\ (\A y \in S : y < m) => NextId(S) =< m
<1>1. CASE S = {}
  BY <1>1 DEF NextId
<1>2. CASE S # {}
  <2>1. Max(S) \in S /\ \A y \in S : Max(S) >= y
    BY <1>2, MaxIsMember
  <2>2. NextId(S) = Max(S) + 1
    BY <1>2 DEF NextId
  <2>3. Max(S) \in 1..N
    BY <2>1
  <2> QED BY <2>1, <2>2, <2>3
<1> QED BY <1>1, <1>2

LEMMA Sizes == Cardinality({}) = 0 /\ \A x : Cardinality({x}) = 1
BY FS_EmptySet, FS_Singleton

(* There are enough chats for the targets at the start.                      *)
LEMMA StartIsInjective ==
  ASSUME Init
  PROVE  chat \in [1..StartTargets -> Chats] /\ IsInjective(chat)
<1> DEFINE n == Cardinality(Chats)
<1>1. n \in Nat /\ ExistsBijection(1..n, Chats) /\ n >= StartTargets
  BY FS_CardinalityType, GenerationAssumption
<1>2. PICK g \in [1..n -> Chats] : IsInjective(g)
  BY <1>1, Zenon DEF ExistsBijection, Bijection, Injection
<1> DEFINE f == [t \in 1..StartTargets |-> g[t]]
<1>3. f \in [1..StartTargets -> Chats] /\ IsInjective(f)
  BY <1>1, <1>2, GenerationAssumption DEF IsInjective
<1> HIDE DEF f
<1>4. chat = CHOOSE h \in [1..StartTargets -> Chats] : IsInjective(h)
  BY DEF Init
<1> QED BY <1>3, <1>4

-----------------------------------------------------------------------------
(* The initial states, and what the parts amount to.                         *)

LEMMA TypedInitially == Init => Typed
<1> SUFFICES ASSUME Init PROVE Typed
  OBVIOUS
<1> USE GenerationAssumption
<1>1. chat \in [1..StartTargets -> Chats] /\ IsInjective(chat)
  BY StartIsInjective
<1>2. 1..StartTargets \subseteq 1..MaxTargets
  OBVIOUS
<1>3. ChatTyped
  BY <1>1, <1>2 DEF ChatTyped, Init, IsInjective
<1>4. RulesTyped
  <2>1. Range(chat) \subseteq Chats
    BY <1>1 DEF Range
  <2>2. page = chat /\ outdated = {}
    BY DEF Init
  <2>3. DOMAIN page \subseteq 1..MaxTargets /\ \A t \in DOMAIN page : page[t] \in Chats
    BY <1>1, <1>2, <2>2
  <2> QED BY <1>2, <2>1, <2>2, <2>3 DEF RulesTyped, Init, Modes
<1>5. RowsTyped /\ HandTyped
  BY DEF RowsTyped, HandTyped, Init
<1>7. ClockTyped
  <2>1. made = 0 /\ events = 0 /\ today = 0 /\ ~evening /\ evening \in BOOLEAN
    BY Zenon DEF Init
  <2> QED BY <2>1 DEF ClockTyped
<1>6. PassTyped /\ InPass
  BY DEF PassTyped, InPass, Init, Never
<1> QED BY <1>3, <1>4, <1>5, <1>6, <1>7 DEF Typed

LEMMA TypedMeansTypeOK == Typed => TypeOK
<1> SUFFICES ASSUME Typed PROVE TypeOK
  OBVIOUS
<1>1. /\ todo \cup pick \subseteq Accounts \X (1..MaxTargets) \X Days
      /\ batch \cup cancelling \subseteq 1..MaxRows
  BY DEF Typed, PassTyped, HandTyped, Picks
<1> QED BY <1>1, Zenon DEF Typed, ChatTyped, RulesTyped, RowsTyped, HandTyped, ClockTyped,
             PassTyped, TypeOK

-----------------------------------------------------------------------------
(* The steps that leave the tables alone, or only drop what is uncommitted.  *)

LEMMA TablesFrame ==
  ASSUME Typed, UNCHANGED <<chat, bound, rules, jobs>>, fresh' \in {fresh, {}}
  PROVE  ChatTyped' /\ RulesTyped' /\ RowsTyped'
<1>1. ChatTyped' /\ RulesTyped'
  BY DEF Typed, ChatTyped, RulesTyped, rules
<1>2. RowsTyped'
  BY DEF Typed, RowsTyped
<1> QED BY <1>1, <1>2

LEMMA LocalDayTyped == ASSUME Typed PROVE LocalDay \in Days
BY GenerationAssumption DEF Typed, ClockTyped, LocalDay, Days

LEMMA PassSteps ==
  ASSUME Typed,
         \/ LoopStart \/ GenNext \/ GenFails
         \/ \E a \in left : GenAccount(a)
         \/ \E x \in todo : GenSkip(x)
  PROVE  Typed'
<1> USE DEF Goto, targets, rules, clock, generator, executor
<1>1. UNCHANGED <<chat, bound, rules, jobs>> /\ fresh' \in {fresh, {}}
  BY DEF LoopStart, GenNext, GenFails, GenAccount, GenSkip
<1>2. ChatTyped' /\ RulesTyped' /\ RowsTyped'
  BY <1>1, TablesFrame
<1>3. HandTyped'
  BY DEF LoopStart, GenNext, GenFails, GenAccount, GenSkip, Typed, HandTyped
<1>4. ClockTyped'
  BY GenerationAssumption
     DEF LoopStart, GenNext, GenFails, GenAccount, GenSkip, Event, Typed, ClockTyped
<1>5. PassTyped'
  <2>1. CASE LoopStart
    BY <2>1 DEF LoopStart, Typed, PassTyped, ClockTyped
  <2>2. CASE GenNext
    BY <2>2 DEF GenNext, Typed, PassTyped
  <2>3. CASE GenFails
    BY <2>3 DEF GenFails, Typed, PassTyped
  <2>4. ASSUME NEW a \in left, GenAccount(a) PROVE PassTyped'
    <3>1. a \in Accounts /\ ResolveTargets(a) \subseteq 1..MaxTargets
      BY DEF Typed, PassTyped, ChatTyped, ResolveTargets
    <3>2. LocalDay \in Days
      BY LocalDayTyped
    <3>3. todo' \subseteq Picks
      BY <2>4, <3>1, <3>2 DEF GenAccount, Picks
    <3> QED BY <2>4, <3>3 DEF GenAccount, Typed, PassTyped
  <2>5. ASSUME NEW x \in todo, GenSkip(x) PROVE PassTyped'
    BY <2>5 DEF GenSkip, Typed, PassTyped
  <2> QED BY <2>1, <2>2, <2>3, <2>4, <2>5
<1>6. InPass'
  BY DEF LoopStart, GenNext, GenFails, GenAccount, GenSkip, Typed, InPass, ClockTyped
<1> QED BY <1>2, <1>3, <1>4, <1>5, <1>6 DEF Typed

LEMMA RestSteps ==
  ASSUME Typed,
         \/ ClaimsEnd \/ BatchEnds \/ Crash \/ Evening \/ NextDay
         \/ \E i \in batch : RunGone(i) \/ RunAlready(i)
         \/ \E i \in 1..MaxRows : CancelRead(i)
  PROVE  Typed'
<1> USE DEF Goto, targets, rules, clock, generator, executor
<1>1. UNCHANGED <<chat, bound, rules, jobs>> /\ fresh' \in {fresh, {}}
  BY DEF ClaimsEnd, BatchEnds, Crash, Evening, NextDay, RunGone, RunAlready, CancelRead, Request
<1>2. ChatTyped' /\ RulesTyped' /\ RowsTyped'
  BY <1>1, TablesFrame
<1>3. HandTyped'
  BY DEF ClaimsEnd, BatchEnds, Crash, Evening, NextDay, RunGone, RunAlready, Take, CancelRead,
         Request, Typed, HandTyped
<1>4. ClockTyped'
  <2>1. CASE Evening
    BY <2>1, GenerationAssumption DEF Evening, Typed, ClockTyped
  <2>2. CASE NextDay
    <3>1. ~evening' /\ evening' \in BOOLEAN
      BY <2>2, Zenon DEF NextDay
    <3>2. today' \in 0..MaxDay /\ UNCHANGED <<made, events>>
      BY <2>2, GenerationAssumption DEF NextDay, Typed, ClockTyped
    <3> QED BY <3>1, <3>2 DEF Typed, ClockTyped
  <2>3. CASE ~Evening /\ ~NextDay
    <3>1. UNCHANGED <<made, today, evening>> /\ (UNCHANGED events \/ Event)
      BY <2>3, Zenon DEF ClaimsEnd, BatchEnds, Crash, RunGone, RunAlready, CancelRead, Request
    <3> QED BY <3>1, GenerationAssumption DEF Event, Typed, ClockTyped
  <2> QED BY <2>1, <2>2, <2>3
<1>5. PassTyped'
  BY DEF ClaimsEnd, BatchEnds, Crash, Evening, NextDay, RunGone, RunAlready, CancelRead,
         Request, Typed, PassTyped
<1>6. InPass'
  BY DEF ClaimsEnd, BatchEnds, Crash, Evening, NextDay, RunGone, RunAlready, CancelRead,
         Request, Typed, InPass
<1> QED BY <1>2, <1>3, <1>4, <1>5, <1>6 DEF Typed

-----------------------------------------------------------------------------
(* The steps that edit rows in place.                                        *)

(* An edit keeps the rows typed if it keeps each of them typed, with its id  *)
(* and target.                                                               *)
LEMMA RowsUpdated ==
  ASSUME RowsTyped, NEW f, jobs' = {f[r] : r \in jobs}, fresh = {}, fresh' = {},
         UNCHANGED chat,
         \A r \in jobs : f[r] \in Rows /\ f[r].id = r.id /\ f[r].target = r.target
  PROVE  RowsTyped'
<1>1. jobs' \subseteq Rows
  OBVIOUS
<1>2. ASSUME NEW p \in jobs', NEW q \in jobs', p.id = q.id PROVE p = q
  <2>1. PICK r \in jobs : p = f[r]
    OBVIOUS
  <2>2. PICK s \in jobs : q = f[s]
    OBVIOUS
  <2>3. r.id = s.id
    BY <1>2, <2>1, <2>2
  <2>4. r = s
    BY <2>3 DEF RowsTyped
  <2> QED BY <2>1, <2>2, <2>4
<1>3. \A q \in jobs' : q.target \in DOMAIN chat'
  BY DEF RowsTyped
<1> QED BY <1>1, <1>2, <1>3, Zenon DEF RowsTyped

Statuses == Present \cup {"FAILED", "CANCELLED"}
Deliveries == {"none", "SENDING", "UNCERTAIN", "ended"}

(* q is what an edit made of r.                                              *)
EditOf(q, r) ==
  /\ q \in Rows
  /\ q.id = r.id /\ q.target = r.target /\ q.acct = r.acct /\ q.birth = r.birth
  /\ q.uid = r.uid /\ q.orig = r.orig /\ q.origin = r.origin
  /\ q.moved = r.moved /\ (q.onDay => r.onDay)

Editing(f) == jobs' = {f[r] : r \in jobs} /\ \A r \in jobs : EditOf(f[r], r)

LEMMA RowFields ==
  ASSUME NEW r \in Rows
  PROVE  r.status \in Statuses /\ r.delivery \in Deliveries /\ r.onDay \in BOOLEAN
BY DEF Rows, Statuses, Deliveries

(* Claims, endings before a send, a SENDING row, a cancel: no row gets a     *)
(* status that counts unless it had one.                                     *)
LEMMA EditsKeepStatus ==
  ASSUME Typed,
         \/ \E r \in jobs : Claim(r)
         \/ \E i \in batch :
              \/ RunSkips(i) \/ RunFails(i) \/ CreateSending(i)
              \/ \E on \in BOOLEAN : RunDefers(i, on)
         \/ \E i \in cancelling : CancelWrite(i)
  PROVE  \E f : Editing(f) /\ \A r \in jobs : f[r].status \in Present => r.status \in Present
<1> USE DEF Editing, EditOf
<1>0. jobs \subseteq Rows
  BY DEF Typed, RowsTyped
<1>1. ASSUME NEW s \in jobs, Claim(s)
      PROVE  \E f : Editing(f) /\ \A r \in jobs : f[r].status \in Present => r.status \in Present
  <2> DEFINE f == [r \in jobs |-> IF r = s THEN [r EXCEPT !.status = "RUNNING"] ELSE r]
  <2>1. jobs' = {f[r] : r \in jobs} /\ s.status \in Present
    BY <1>1 DEF Claim, Present
  <2>2. ASSUME NEW r \in jobs
        PROVE  EditOf(f[r], r) /\ (f[r].status \in Present => r.status \in Present)
    <3>1. r \in Rows
      BY <1>0
    <3>2. CASE r = s
      <4>1. f[r] = [r EXCEPT !.status = "RUNNING"]
        BY <3>2
      <4> QED BY <2>1, <3>1, <3>2, <4>1 DEF Rows, Present
    <3>3. CASE r # s
      BY <3>1, <3>3
    <3> QED BY <3>2, <3>3
  <2> HIDE DEF f
  <2> QED BY <2>1, <2>2
<1>2. ASSUME NEW i \in batch, NEW st \in {"SKIPPED", "FAILED", "PENDING"}, NEW on \in BOOLEAN,
             RunEnds(i, st, on)
      PROVE  \E f : Editing(f) /\ \A r \in jobs : f[r].status \in Present => r.status \in Present
  <2> DEFINE f == [r \in jobs |-> IF r.id = i THEN [r EXCEPT !.status = st, !.onDay = @ /\ on]
                                  ELSE r]
  <2>1. jobs' = {f[r] : r \in jobs}
    BY <1>2 DEF RunEnds
  <2>2. ASSUME NEW r \in jobs, r.id = i PROVE r.status \in Present
    BY <1>2, <2>2 DEF RunEnds, Runnable, RowOf, Typed, RowsTyped, Present
  <2>3. ASSUME NEW r \in jobs
        PROVE  EditOf(f[r], r) /\ (f[r].status \in Present => r.status \in Present)
    <3>1. r \in Rows
      BY <1>0
    <3>2. CASE r.id = i
      <4> DEFINE on2 == r.onDay /\ on
      <4>1. on2 \in BOOLEAN /\ (on2 => r.onDay)
        BY Zenon
      <4>2. f[r] = [r EXCEPT !.status = st, !.onDay = on2]
        BY <3>2
      <4> HIDE DEF on2
      <4>3. f[r] \in Rows
        BY <3>1, <4>1, <4>2 DEF Rows, Present
      <4>4. f[r].onDay = on2
        BY <3>1, <4>2 DEF Rows
      <4> QED BY <2>2, <3>1, <3>2, <4>1, <4>2, <4>3, <4>4 DEF Rows
    <3>3. CASE r.id # i
      BY <3>1, <3>3
    <3> QED BY <3>2, <3>3
  <2> HIDE DEF f
  <2> QED BY <2>1, <2>3
<1>3. ASSUME NEW i \in batch, CreateSending(i)
      PROVE  \E f : Editing(f) /\ \A r \in jobs : f[r].status \in Present => r.status \in Present
  <2> DEFINE f == [r \in jobs |-> IF r.id = i THEN [r EXCEPT !.delivery = "SENDING"] ELSE r]
  <2>1. jobs' = {f[r] : r \in jobs}
    BY <1>3 DEF CreateSending
  <2>2. ASSUME NEW r \in jobs
        PROVE  EditOf(f[r], r) /\ (f[r].status \in Present => r.status \in Present)
    BY <1>0 DEF Rows
  <2> HIDE DEF f
  <2> QED BY <2>1, <2>2
<1>4. ASSUME NEW i \in cancelling, CancelWrite(i)
      PROVE  \E f : Editing(f) /\ \A r \in jobs : f[r].status \in Present => r.status \in Present
  <2> DEFINE f == [r \in jobs |-> IF r.id = i THEN [r EXCEPT !.status = "CANCELLED"] ELSE r]
  <2>1. jobs' = {f[r] : r \in jobs}
    BY <1>4 DEF CancelWrite
  <2>2. ASSUME NEW r \in jobs
        PROVE  EditOf(f[r], r) /\ (f[r].status \in Present => r.status \in Present)
    BY <1>0 DEF Rows, Present
  <2> HIDE DEF f
  <2> QED BY <2>1, <2>2
<1> HIDE DEF Editing, EditOf
<1> QED BY <1>1, <1>2, <1>3, <1>4 DEF RunSkips, RunFails, RunDefers

(* The endings of a send overwrite the row that has the id of the            *)
(* executor's, and no other.                                                 *)
LEMMA EndingsEdit ==
  ASSUME Typed, NEW from, NEW st \in Statuses \cup {"same"}, NEW d \in Deliveries,
         SendEnds(from, st, d)
  PROVE  \E f : Editing(f) /\ \A r \in jobs : f[r] # r => \E c \in cur : c.id = r.id
<1> USE DEF Editing, EditOf
<1> DEFINE f == [r \in jobs |->
     IF \E c \in cur : c.id = r.id
       THEN [r EXCEPT !.status = IF st = "same" THEN @ ELSE st, !.delivery = d] ELSE r]
<1>1. jobs' = {f[r] : r \in jobs}
  BY DEF SendEnds
<1>2. ASSUME NEW r \in jobs
      PROVE  EditOf(f[r], r) /\ (f[r] # r => \E c \in cur : c.id = r.id)
  <2>1. r \in Rows
    BY DEF Typed, RowsTyped
  <2>2. CASE \E c \in cur : c.id = r.id
    <3> DEFINE st2 == IF st = "same" THEN r.status ELSE st
    <3>1. st2 \in Statuses
      BY <2>1, RowFields
    <3>2. f[r] = [r EXCEPT !.status = st2, !.delivery = d]
      BY <2>2
    <3> HIDE DEF st2, f
    <3> QED BY <2>1, <2>2, <3>1, <3>2 DEF Rows, Statuses, Deliveries
  <2>3. CASE ~ \E c \in cur : c.id = r.id
    <3>1. f[r] = r
      BY <2>3
    <3> QED BY <2>1, <3>1
  <2> QED BY <2>2, <2>3
<1> HIDE DEF f
<1> QED BY <1>1, <1>2

LEMMA EditSteps ==
  ASSUME Typed,
         \/ \E r \in jobs : Claim(r)
         \/ \E i \in batch :
              \/ RunSkips(i) \/ RunFails(i) \/ CreateSending(i)
              \/ \E on \in BOOLEAN : RunDefers(i, on)
         \/ \E i \in cancelling : CancelWrite(i)
         \/ Refused \/ FinalizeSent \/ Ambiguous
  PROVE  Typed' /\ fresh = {} /\ fresh' = {} /\ \E f : Editing(f)
<1> USE DEF Goto, targets, rules, clock, generator, executor, RunSkips, RunFails, RunDefers,
            RunEnds, Refused, FinalizeSent, Ambiguous
<1>1. PICK f : Editing(f)
  <2>1. CASE Refused \/ FinalizeSent \/ Ambiguous
    <3>1. \E from, st : st \in Statuses \cup {"same"} /\ \E d \in Deliveries : SendEnds(from, st, d)
      BY <2>1 DEF Statuses, Deliveries, Present
    <3> QED BY <3>1, EndingsEdit
  <2>2. CASE ~(Refused \/ FinalizeSent \/ Ambiguous)
    <3>1. \E g : Editing(g) /\ \A r \in jobs : g[r].status \in Present => r.status \in Present
      BY <2>2, EditsKeepStatus, Zenon
    <3> QED BY <3>1
  <2> QED BY <2>1, <2>2
<1>2. /\ UNCHANGED <<chat, bound, rules, made, fresh, posts, today, evening, events>>
      /\ UNCHANGED <<lastGen, generated, genDay, left, todo, pick>>
  BY Zenon DEF Claim, CreateSending, SendEnds, CancelWrite
<1>3. fresh = {} /\ fresh' = {}
  BY <1>2 DEF Claim, CreateSending, SendEnds, CancelWrite, Typed, InPass
<1>4. ChatTyped' /\ RulesTyped' /\ ClockTyped'
  BY <1>2 DEF Typed, ChatTyped, RulesTyped, ClockTyped
<1>5. RowsTyped'
  <2>1. jobs' = {f[r] : r \in jobs}
    BY <1>1 DEF Editing
  <2>2. \A r \in jobs : f[r] \in Rows /\ f[r].id = r.id /\ f[r].target = r.target
    BY <1>1 DEF Editing, EditOf
  <2> QED BY <1>2, <1>3, <2>1, <2>2, RowsUpdated DEF Typed
<1>6. HandTyped'
  <2>1. ASSUME NEW i \in batch, CreateSending(i) PROVE HandTyped'
    <3>1. cur' \subseteq jobs
      BY <2>1 DEF CreateSending, Runnable, RowOf
    <3> QED BY <2>1, <3>1 DEF CreateSending, Take, Typed, HandTyped, RowsTyped
  <2>2. ASSUME NEW r \in jobs, Claim(r) PROVE HandTyped'
    <3>1. r.id \in 1..MaxRows
      BY DEF Typed, RowsTyped, Rows
    <3> QED BY <2>2, <3>1 DEF Claim, Typed, HandTyped
  <2>3. CASE ~(\E i \in batch : CreateSending(i)) /\ ~(\E r \in jobs : Claim(r))
    BY <2>3 DEF SendEnds, CancelWrite, Take, Typed, HandTyped
  <2> QED BY <2>1, <2>2, <2>3
<1>7. PassTyped'
  BY <1>2 DEF Claim, CreateSending, SendEnds, CancelWrite, Typed, PassTyped
<1>8. InPass'
  <2>1. \A q \in jobs' : \E r \in jobs : q.id = r.id
    BY <1>1 DEF Editing, EditOf
  <2>2. phase' # phase => phase' \notin {"plan", "check", "insert"}
    BY DEF Claim, CreateSending, SendEnds, CancelWrite
  <2>3. phase' = "insert" =>
          /\ \E x \in Picks : pick' = {x}
          /\ made' < MaxMade /\ \A q \in jobs' \cup fresh' : q.id < MaxRows
    BY <1>2, <1>3, <2>1, <2>2 DEF Typed, InPass
  <2>4. /\ phase' \in {"plan", "check", "insert"} => genDay' \in 0..MaxDay
        /\ phase' # "insert" => pick' = {}
    <3>1. phase \notin {"insert"} => pick = {}
      BY DEF Typed, InPass
    <3>2. phase' # "insert" => phase # "insert"
      BY DEF Claim, CreateSending, SendEnds, CancelWrite
    <3> QED BY <1>2, <2>2, <3>1, <3>2 DEF Typed, InPass
  <2> QED BY <1>3, <2>3, <2>4 DEF InPass
<1> QED BY <1>1, <1>3, <1>4, <1>5, <1>6, <1>7, <1>8 DEF Typed

-----------------------------------------------------------------------------
(* New rows.                                                                 *)

(* A row that may be added: its id is new, and what it says is typed.        *)
LEMMA RowIsNew ==
  ASSUME Typed, NEW a \in Accounts, NEW t \in DOMAIN chat, NEW d \in Days, NEW on \in BOOLEAN,
         NEW from \in {"rule", "test"}, made < MaxMade, \A r \in jobs \cup fresh : r.id < MaxRows
  PROVE  /\ NewRow(a, t, d, on, from) \in Rows
         /\ NewRow(a, t, d, on, from).target = t
         /\ \A r \in jobs \cup fresh : r.id < NewRow(a, t, d, on, from).id
<1> USE GenerationAssumption
<1>1. JobIds \in SUBSET (1..MaxRows) /\ \A y \in JobIds : y < MaxRows
  BY DEF JobIds, Typed, RowsTyped, Rows
<1>2. /\ NextId(JobIds) \in 1..(MaxRows + 1)
      /\ \A y \in JobIds : y < NextId(JobIds)
      /\ \A m \in Nat : m >= 1 /\ (\A y \in JobIds : y < m) => NextId(JobIds) =< m
  BY <1>1, NextIdIsNew
<1>3. NextId(JobIds) \in 1..MaxRows
  BY <1>1, <1>2
<1>4. made + 1 \in 1..MaxMade /\ chat[t] \in Chats /\ t \in 1..MaxTargets
  BY DEF Typed, ClockTyped, ChatTyped
<1>5. NewRow(a, t, d, on, from) \in Rows
  BY <1>3, <1>4 DEF NewRow, Rows, Present
<1>6. \A r \in jobs \cup fresh : r.id \in JobIds
  BY DEF JobIds
<1> QED BY <1>2, <1>5, <1>6 DEF NewRow

LEMMA RoomForOne ==
  ASSUME Typed, Room
  PROVE  /\ made + Cardinality(pick) < MaxMade
         /\ \A r \in jobs \cup fresh : r.id + Cardinality(pick) < MaxRows
         /\ Cardinality(pick) \in Nat
<1> USE GenerationAssumption
<1>1. Cardinality(pick) \in Nat
  <2>1. pick = {} \/ \E x \in Picks : pick = {x}
    BY DEF Typed, InPass
  <2>2. ASSUME NEW x \in Picks, pick = {x} PROVE Cardinality(pick) \in Nat
    <3>1. Cardinality({x}) = 1
      BY Sizes, Zenon
    <3> QED BY <2>2, <3>1
  <2>3. ASSUME pick = {} PROVE Cardinality(pick) \in Nat
    BY <2>3, Sizes
  <2> QED BY <2>1, <2>2, <2>3
<1>2. JobIds \in SUBSET (1..MaxRows)
  BY DEF JobIds, Typed, RowsTyped, Rows
<1>3. NextId(JobIds) \in 1..(MaxRows + 1) /\ \A y \in JobIds : y < NextId(JobIds)
  BY <1>2, NextIdIsNew
<1>4. \A y \in JobIds : y + Cardinality(pick) < MaxRows
  BY <1>1, <1>2, <1>3 DEF Room
<1>5. \A r \in jobs \cup fresh : r.id \in JobIds
  BY DEF JobIds
<1> QED BY <1>1, <1>4, <1>5 DEF Room

LEMMA PickStep ==
  ASSUME Typed, NEW x \in todo, GenPick(x[1], x[2], x[3])
  PROVE  Typed' /\ x \in Picks /\ pick' = {x}
<1> USE DEF Goto, targets, rules, clock, generator, executor, GenPick
<1>1. x \in Picks /\ x = <<x[1], x[2], x[3]>>
  BY DEF Typed, PassTyped, Picks
<1>2. pick' = {x} /\ pick = {}
  BY <1>1 DEF Typed, InPass
<1>3. Cardinality(pick) = 0
  BY <1>2, Sizes
<1>4. made < MaxMade /\ \A r \in jobs \cup fresh : r.id < MaxRows
  BY <1>3, RoomForOne, GenerationAssumption DEF Typed, ClockTyped, RowsTyped, Rows
<1>5. ChatTyped' /\ RulesTyped' /\ RowsTyped'
  BY TablesFrame
<1>6. HandTyped' /\ ClockTyped'
  BY DEF Typed, HandTyped, ClockTyped
<1>7. PassTyped'
  BY <1>1, <1>2 DEF Typed, PassTyped
<1>8. InPass'
  BY <1>1, <1>2, <1>4 DEF Typed, InPass
<1> QED BY <1>1, <1>2, <1>5, <1>6, <1>7, <1>8 DEF Typed

LEMMA InsertStep ==
  ASSUME Typed, NEW x \in pick, NEW on \in BOOLEAN, GenInsert(x[1], x[2], x[3], on)
  PROVE  Typed' /\ x[2] \in DOMAIN chat /\ fresh' = fresh \cup {NewRow(x[1], x[2], x[3], on, "rule")}
<1> USE DEF Goto, targets, rules, clock, generator, executor, GenInsert
<1> DEFINE n == NewRow(x[1], x[2], x[3], on, "rule")
<1>1. x \in Picks /\ x[1] \in Accounts /\ x[2] \in DOMAIN chat /\ x[3] \in Days
  BY DEF Typed, PassTyped, Picks
<1>2. made < MaxMade /\ \A r \in jobs \cup fresh : r.id < MaxRows
  BY DEF Typed, InPass
<1>3. n \in Rows /\ n.target = x[2] /\ \A r \in jobs \cup fresh : r.id < n.id
  BY <1>1, <1>2, RowIsNew
<1>4. fresh' = fresh \cup {n} /\ UNCHANGED <<jobs, chat, bound, rules>>
  OBVIOUS
<1> HIDE DEF n
<1>5. ChatTyped' /\ RulesTyped'
  BY <1>4 DEF Typed, ChatTyped, RulesTyped
<1>6. RowsTyped'
  <2>1. \A r \in jobs \cup fresh : r.id # n.id
    BY <1>3 DEF Typed, RowsTyped, Rows
  <2>2. \A r, s \in jobs' \cup fresh' : r.id = s.id => r = s
    BY <1>4, <2>1 DEF Typed, RowsTyped
  <2>3. \A r \in jobs' \cup fresh' : r.target \in DOMAIN chat'
    BY <1>1, <1>3, <1>4 DEF Typed, RowsTyped
  <2> QED BY <1>3, <1>4, <2>2, <2>3 DEF Typed, RowsTyped
<1>7. HandTyped'
  BY DEF Typed, HandTyped
<1>8. ClockTyped'
  BY <1>2, GenerationAssumption DEF Typed, ClockTyped
<1>9. PassTyped'
  BY DEF Typed, PassTyped
<1>10. InPass'
  <2>1. pick' = {}
    BY DEF Typed, InPass
  <2> QED BY <2>1 DEF Typed, InPass
<1> QED BY <1>1, <1>4, <1>5, <1>6, <1>7, <1>8, <1>9, <1>10 DEF Typed, n

LEMMA CommitStep ==
  ASSUME Typed, GenCommit
  PROVE  Typed'
<1> USE DEF Goto, targets, rules, clock, executor, GenCommit
<1>1. ChatTyped' /\ RulesTyped' /\ HandTyped' /\ ClockTyped'
  BY DEF Typed, ChatTyped, RulesTyped, HandTyped, ClockTyped
<1>2. RowsTyped'
  BY DEF Typed, RowsTyped
<1>3. PassTyped'
  BY DEF Typed, PassTyped, InPass
<1>4. InPass'
  BY DEF Typed, InPass
<1> QED BY <1>1, <1>2, <1>3, <1>4 DEF Typed

LEMMA AcceptStep ==
  ASSUME Typed, Accept
  PROVE  Typed'
<1> USE DEF Goto, targets, rules, clock, generator, Accept
<1>1. ChatTyped' /\ RulesTyped' /\ RowsTyped'
  BY TablesFrame
<1>2. posts' \subseteq Tags
  BY DEF Typed, HandTyped, Rows, Tags
<1>3. HandTyped' /\ ClockTyped'
  BY <1>2 DEF Typed, HandTyped, ClockTyped
<1>4. PassTyped' /\ InPass'
  BY DEF Typed, PassTyped, InPass
<1> QED BY <1>1, <1>3, <1>4 DEF Typed

LEMMA RunNowStep ==
  ASSUME Typed, NEW a \in Edited, NEW t \in DOMAIN chat, RunNow(a, t)
  PROVE  Typed' /\ jobs' = jobs \cup {NewRow(a, t, LocalDay, TRUE, "test")}
<1> USE DEF Goto, targets, rules, clock, generator, executor, RunNow, Request
<1> DEFINE n == NewRow(a, t, LocalDay, TRUE, "test")
<1>1. made + Cardinality(pick) < MaxMade /\ Cardinality(pick) \in Nat
      /\ \A r \in jobs \cup fresh : r.id + Cardinality(pick) < MaxRows
  BY RoomForOne
<1>2. a \in Accounts /\ LocalDay \in Days
  BY LocalDayTyped, GenerationAssumption
<1>3. made < MaxMade /\ \A r \in jobs \cup fresh : r.id < MaxRows
  <2>1. made \in Nat /\ \A r \in jobs \cup fresh : r.id \in Nat
    BY GenerationAssumption DEF Typed, ClockTyped, RowsTyped, Rows
  <2> QED BY <1>1, <2>1, GenerationAssumption
<1>4. n \in Rows /\ n.target = t /\ \A r \in jobs \cup fresh : r.id < n.id
  BY <1>2, <1>3, RowIsNew
<1>5. n.id + Cardinality(pick) =< MaxRows
  <2>1. n.id = NextId(JobIds)
    BY DEF NewRow
  <2> QED BY <2>1 DEF Room
<1>6. jobs' = jobs \cup {n} /\ fresh = {} /\ UNCHANGED <<fresh, chat, bound, rules>>
  OBVIOUS
<1> HIDE DEF n
<1>7. ChatTyped' /\ RulesTyped'
  BY <1>6 DEF Typed, ChatTyped, RulesTyped
<1>8. RowsTyped'
  <2>1. \A r \in jobs : r.id # n.id
    BY <1>4 DEF Typed, RowsTyped, Rows
  <2>2. \A r, s \in jobs' \cup fresh' : r.id = s.id => r = s
    BY <1>6, <2>1 DEF Typed, RowsTyped
  <2>3. \A r \in jobs' \cup fresh' : r.target \in DOMAIN chat'
    BY <1>4, <1>6 DEF Typed, RowsTyped
  <2> QED BY <1>4, <1>6, <2>2, <2>3 DEF Typed, RowsTyped
<1>9. HandTyped'
  BY DEF Typed, HandTyped
<1>10. ClockTyped'
  BY <1>3, GenerationAssumption DEF Event, Typed, ClockTyped
<1>11. PassTyped'
  BY DEF Typed, PassTyped
<1>12. InPass'
  <2>1. phase' = "insert" => made' < MaxMade /\ \A r \in jobs' \cup fresh' : r.id < MaxRows
    <3>1. SUFFICES ASSUME phase = "insert" PROVE made + 1 < MaxMade /\ n.id < MaxRows
      BY <1>3, <1>6
    <3>2. PICK x \in Picks : pick = {x}
      BY <3>1 DEF Typed, InPass
    <3>3. Cardinality({x}) = 1
      BY Sizes, Zenon
    <3>4. made \in Nat /\ n.id \in Nat
      BY <1>4, GenerationAssumption DEF Typed, ClockTyped, Rows
    <3>5. Cardinality(pick) = 1
      BY <3>2, <3>3
    <3> QED BY <1>1, <1>5, <3>4, <3>5, GenerationAssumption
  <2> QED BY <2>1 DEF Typed, InPass
<1> QED BY <1>6, <1>7, <1>8, <1>9, <1>10, <1>11, <1>12 DEF Typed, n

-----------------------------------------------------------------------------
(* The other requests to the web process.                                    *)

LEMMA RequestFrame ==
  ASSUME Typed, Request, UNCHANGED <<made, cancelling>>,
         \A q \in jobs' : \E r \in jobs : q.id = r.id
  PROVE  HandTyped' /\ ClockTyped' /\ PassTyped' /\ InPass' /\ fresh = {} /\ fresh' = {}
<1> USE DEF Request, clock, generator, executor
<1>1. HandTyped' /\ PassTyped'
  BY DEF Typed, HandTyped, PassTyped
<1>2. ClockTyped'
  BY GenerationAssumption DEF Event, Typed, ClockTyped
<1>3. InPass' /\ fresh = {} /\ fresh' = {}
  BY DEF Typed, InPass
<1> QED BY <1>1, <1>2, <1>3

LEMMA CreateTargetStep ==
  ASSUME Typed, NEW c \in Chats, CreateTarget(c)
  PROVE  /\ Typed'
         /\ \E n \in (1..MaxTargets) \ DOMAIN chat :
              /\ DOMAIN chat' = DOMAIN chat \cup {n}
              /\ \A t \in DOMAIN chat : chat'[t] = chat[t]
<1> USE GenerationAssumption DEF CreateTarget, rules
<1> DEFINE n == NextId(DOMAIN chat)
<1>1. n \in 1..(MaxTargets + 1) /\ \A t \in DOMAIN chat : t < n
  BY NextIdIsNew DEF Typed, ChatTyped
<1>2. n \in 1..MaxTargets /\ n \notin DOMAIN chat
  BY <1>1 DEF Typed, ChatTyped
<1>3. /\ DOMAIN chat' = DOMAIN chat \cup {n} /\ chat'[n] = c
      /\ \A t \in DOMAIN chat : chat'[t] = chat[t]
  BY <1>2
<1> HIDE DEF n
<1>4. \A t \in DOMAIN chat : chat[t] # c
  BY DEF Range
<1>5. ChatTyped'
  BY <1>2, <1>3, <1>4 DEF Typed, ChatTyped
<1>6. RulesTyped' /\ RowsTyped'
  <2>1. UNCHANGED <<rules, jobs, fresh>>
    BY DEF Request, generator
  <2> QED BY <1>3, <2>1 DEF Typed, RulesTyped, RowsTyped
<1>7. HandTyped' /\ ClockTyped' /\ PassTyped' /\ InPass'
  BY RequestFrame
<1> QED BY <1>2, <1>3, <1>5, <1>6, <1>7 DEF Typed

LEMMA DeleteTargetStep ==
  ASSUME Typed, NEW t \in DOMAIN chat, DeleteTarget(t)
  PROVE  /\ Typed'
         /\ DOMAIN chat' = DOMAIN chat \ {t}
         /\ \A s \in DOMAIN chat' : chat'[s] = chat[s]
<1> USE DEF DeleteTarget, rules
<1>1. DOMAIN chat' = DOMAIN chat \ {t} /\ \A s \in DOMAIN chat' : chat'[s] = chat[s]
  BY DEF Restrict
<1>2. bound' = {b \in bound : b[2] # t} /\ jobs' = {r \in jobs : r.target # t}
  OBVIOUS
<1>3. ChatTyped'
  BY <1>1, <1>2 DEF Typed, ChatTyped
<1>4. RulesTyped'
  BY DEF Typed, RulesTyped
<1>5. HandTyped' /\ ClockTyped' /\ PassTyped' /\ InPass' /\ fresh = {} /\ fresh' = {}
  BY <1>2, RequestFrame
<1>6. RowsTyped'
  BY <1>1, <1>2, <1>5 DEF Typed, RowsTyped
<1> QED BY <1>1, <1>3, <1>4, <1>5, <1>6 DEF Typed

(* What a merge makes of the row of a job.                                   *)
Merged(r, k, d) == IF r.target = d THEN [r EXCEPT !.target = k, !.moved = TRUE] ELSE r

LEMMA MergeStep ==
  ASSUME Typed, NEW k \in DOMAIN chat, NEW d \in DOMAIN chat, Merge(k, d)
  PROVE  /\ Typed' /\ k # d
         /\ jobs' = {Merged(r, k, d) : r \in jobs}
         /\ DOMAIN chat' = DOMAIN chat \ {d}
         /\ \A s \in DOMAIN chat' : chat'[s] = chat[s]
<1>1. DOMAIN chat' = DOMAIN chat \ {d} /\ \A s \in DOMAIN chat' : chat'[s] = chat[s]
  BY DEF Merge, Restrict
<1>2. /\ bound' = {<<b[1], IF b[2] = d THEN k ELSE b[2]>> : b \in bound}
      /\ jobs' = {Merged(r, k, d) : r \in jobs} /\ k # d /\ UNCHANGED <<made, cancelling, mode, page, outdated>>
  BY DEF Merge, Merged
<1>3. ChatTyped'
  <2>1. bound' \subseteq Accounts \X DOMAIN chat'
    BY <1>1, <1>2 DEF Typed, ChatTyped
  <2> QED BY <1>1, <2>1 DEF Typed, ChatTyped
<1>4. RulesTyped'
  <2>1. /\ sel' = [a \in Accounts |-> IF d \in sel[a] THEN (sel[a] \ {d}) \cup {k} ELSE sel[a]]
        /\ meant' = [a \in Accounts |-> IF chat[d] \in meant[a] THEN meant[a] \cup {chat[k]}
                                        ELSE meant[a]]
    BY DEF Merge
  <2>2. k \in 1..MaxTargets /\ chat[k] \in Chats
    BY DEF Typed, ChatTyped
  <2>3. sel' \in [Accounts -> SUBSET (1..MaxTargets)]
    BY <2>1, <2>2 DEF Typed, RulesTyped
  <2>4. meant' \in [Accounts -> SUBSET Chats]
    BY <2>1, <2>2 DEF Typed, RulesTyped
  <2> QED BY <1>2, <2>3, <2>4 DEF Typed, RulesTyped
<1>5. ASSUME NEW r \in jobs
      PROVE  Merged(r, k, d) \in Rows /\ Merged(r, k, d).id = r.id
             /\ Merged(r, k, d).target \in DOMAIN chat \ {d}
  <2>1. r \in Rows /\ r.target \in DOMAIN chat /\ k \in 1..MaxTargets
    BY DEF Typed, RowsTyped, ChatTyped
  <2> QED BY <1>2, <2>1 DEF Merged, Rows
<1>6. HandTyped' /\ ClockTyped' /\ PassTyped' /\ InPass' /\ fresh = {} /\ fresh' = {}
  <2>1. \A q \in jobs' : \E r \in jobs : q.id = r.id
    BY <1>2, <1>5
  <2> QED BY <1>2, <2>1, RequestFrame DEF Merge
<1>7. RowsTyped'
  <2>1. ASSUME NEW p \in jobs', NEW q \in jobs', p.id = q.id PROVE p = q
    <3>1. PICK r \in jobs : p = Merged(r, k, d)
      BY <1>2
    <3>2. PICK s \in jobs : q = Merged(s, k, d)
      BY <1>2
    <3>3. r = s
      BY <1>5, <2>1, <3>1, <3>2 DEF Typed, RowsTyped
    <3> QED BY <3>1, <3>2, <3>3
  <2>2. \A q \in jobs' : q \in Rows /\ q.target \in DOMAIN chat'
    BY <1>1, <1>2, <1>5
  <2> QED BY <1>6, <2>1, <2>2, Zenon DEF RowsTyped
<1> QED BY <1>1, <1>2, <1>3, <1>4, <1>6, <1>7 DEF Typed

LEMMA RuleStepsBound ==
  ASSUME Typed,
         \/ \E a \in Edited, t \in DOMAIN chat : Bind(a, t) \/ Unbind(a, t)
         \/ \E a \in Edited, ids \in SUBSET DOMAIN page : SetRule(a, ids)
         \/ \E a \in Edited : DeleteRule(a) \/ Cleanup(a)
         \/ \E a \in Edited, b \in Accounts : BulkApply(a, b)
  PROVE  bound' \subseteq Accounts \X DOMAIN chat
<1>1. bound \subseteq Accounts \X DOMAIN chat
  BY DEF Typed, ChatTyped
<1>2. ASSUME NEW a \in Edited, NEW b \in Accounts, BulkApply(a, b)
      PROVE  bound' \subseteq Accounts \X DOMAIN chat
  <2>1. bound' = bound \cup {<<b, x[2]>> : x \in {y \in bound : y[1] = a}}
    BY <1>2 DEF BulkApply
  <2> QED BY <1>1, <2>1
<1>3. ASSUME NEW a \in Edited, NEW t \in DOMAIN chat, Bind(a, t) \/ Unbind(a, t)
      PROVE  bound' \subseteq Accounts \X DOMAIN chat
  <2>1. a \in Accounts /\ bound' \subseteq bound \cup {<<a, t>>}
    BY <1>3, GenerationAssumption DEF Bind, Unbind
  <2> QED BY <1>1, <2>1
<1>4. ASSUME NEW a \in Edited,
             \/ \E ids \in SUBSET DOMAIN page : SetRule(a, ids)
             \/ DeleteRule(a) \/ Cleanup(a)
      PROVE  bound' = bound
  BY <1>4 DEF SetRule, DeleteRule, Cleanup, targets
<1> QED BY <1>1, <1>2, <1>3, <1>4

LEMMA RuleSteps ==
  ASSUME Typed,
         \/ \E a \in Edited, t \in DOMAIN chat : Bind(a, t) \/ Unbind(a, t)
         \/ \E a \in Edited, ids \in SUBSET DOMAIN page : SetRule(a, ids)
         \/ \E a \in Edited : DeleteRule(a) \/ Cleanup(a)
         \/ \E a \in Edited, b \in Accounts : BulkApply(a, b)
  PROVE  Typed' /\ chat' = chat /\ jobs' \subseteq jobs
<1> USE GenerationAssumption
    DEF Bind, Unbind, SetRule, DeleteRule, Cleanup, BulkApply, Select, targets, rules
<1>1. chat' = chat /\ jobs' \subseteq jobs /\ UNCHANGED <<made, cancelling>> /\ Request
  OBVIOUS
<1>2. HandTyped' /\ ClockTyped' /\ PassTyped' /\ InPass' /\ fresh = {} /\ fresh' = {}
  BY <1>1, RequestFrame
<1>3. RowsTyped'
  BY <1>1, <1>2 DEF Typed, RowsTyped
<1>4. ChatTyped'
  <2>1. bound' \subseteq Accounts \X DOMAIN chat
    BY RuleStepsBound
  <2> QED BY <1>1, <2>1 DEF Typed, ChatTyped
<1>5. RulesTyped'
  <2>1. ASSUME NEW a \in Edited, NEW ids \in SUBSET DOMAIN page, SetRule(a, ids)
        PROVE  RulesTyped'
    <3>1. ids \subseteq 1..MaxTargets /\ {page[t] : t \in ids} \subseteq Chats
      BY DEF Typed, RulesTyped
    <3> QED BY <2>1, <3>1 DEF Typed, RulesTyped, Modes
  <2>2. ASSUME NEW a \in Edited, NEW b \in Accounts, BulkApply(a, b) PROVE RulesTyped'
    BY <2>2 DEF Typed, RulesTyped
  <2>3. ASSUME NEW a \in Edited, DeleteRule(a) \/ Cleanup(a) PROVE RulesTyped'
    BY <2>3 DEF Typed, RulesTyped, Modes
  <2>4. ASSUME NEW a \in Edited, NEW t \in DOMAIN chat, Bind(a, t) \/ Unbind(a, t)
        PROVE  RulesTyped'
    BY <2>4 DEF Typed, RulesTyped
  <2> QED BY <2>1, <2>2, <2>3, <2>4
<1> QED BY <1>1, <1>2, <1>3, <1>4, <1>5 DEF Typed

LEMMA PageStep ==
  ASSUME Typed, LoadPage
  PROVE  Typed'
<1> USE DEF LoadPage, targets, clock, generator, executor
<1>1. RulesTyped'
  BY DEF Typed, ChatTyped, RulesTyped
<1>2. ChatTyped' /\ RowsTyped'
  BY DEF Typed, ChatTyped, RowsTyped
<1>3. HandTyped' /\ ClockTyped' /\ PassTyped' /\ InPass'
  BY DEF Typed, HandTyped, ClockTyped, PassTyped, InPass
<1> QED BY <1>1, <1>2, <1>3 DEF Typed

LEMMA TypedStep == Typed /\ [Next]_vars => Typed'
<1> SUFFICES ASSUME Typed, [Next]_vars PROVE Typed'
  OBVIOUS
<1>1. CASE Generate
  BY <1>1, PassSteps, PickStep, InsertStep, CommitStep DEF Generate
<1>2. CASE Execute
  BY <1>2, RestSteps, EditSteps, AcceptStep DEF Execute
<1>3. CASE Web
  BY <1>3, CreateTargetStep, DeleteTargetStep, MergeStep, RuleSteps, RunNowStep, PageStep, RestSteps,
     EditSteps DEF Web
<1>4. CASE Crash \/ Evening \/ NextDay
  BY <1>4, RestSteps
<1>5. CASE UNCHANGED vars
  <2>1. UNCHANGED <<chat, bound, rules, jobs, made, today, evening>>
        /\ UNCHANGED <<lastGen, generated, genDay, left, todo, pick, fresh, phase>>
        /\ UNCHANGED <<batch, cur, posts, cancelling, events>>
    BY <1>5 DEF vars, targets, rules, clock, generator, executor
  <2>2. ChatTyped' /\ RulesTyped' /\ RowsTyped'
    BY <2>1, TablesFrame
  <2>3. HandTyped' /\ ClockTyped' /\ PassTyped' /\ InPass'
    BY <2>1 DEF Typed, HandTyped, ClockTyped, PassTyped, InPass
  <2> QED BY <2>2, <2>3 DEF Typed
<1> QED BY <1>1, <1>2, <1>3, <1>4, <1>5 DEF Next

LEMMA TypedAlways == Spec => []Typed
BY TypedInitially, TypedStep, PTL DEF Spec

(* The type invariant: every row the generator, the executor and the web     *)
(* process leave behind is a proper one, ids are unique, and a job's target  *)
(* exists.                                                                   *)
THEOREM GenerationTypeCorrect == Spec => []TypeOK
BY TypedAlways, TypedMeansTypeOK, PTL

(* A day is marked as generated only once its jobs are committed, whatever   *)
(* the generator trips over and whenever the process dies.                   *)
THEOREM MarkedDaysAreGenerated == Spec => []MarkedDayIsGenerated
<1>1. Init => MarkedDayIsGenerated
  BY DEF Init, MarkedDayIsGenerated
<1>2. MarkedDayIsGenerated /\ [Next]_vars => MarkedDayIsGenerated'
  <2> SUFFICES ASSUME MarkedDayIsGenerated, [Next]_vars PROVE MarkedDayIsGenerated'
    OBVIOUS
  <2> USE DEF MarkedDayIsGenerated
  <2>1. CASE UNCHANGED <<lastGen, generated>>
    BY <2>1
  <2>2. CASE GenCommit
    BY <2>2 DEF GenCommit
  <2>3. CASE Crash
    BY <2>3 DEF Crash
  <2>4. UNCHANGED <<lastGen, generated>> \/ GenCommit \/ Crash
    <3> USE DEF generator
    <3>1. ASSUME Generate PROVE UNCHANGED <<lastGen, generated>> \/ GenCommit
      BY <3>1, Zenon DEF Generate, LoopStart, GenNext, GenFails, GenAccount, GenSkip, GenPick,
         GenInsert
    <3>2. ASSUME Execute PROVE UNCHANGED <<lastGen, generated>>
      BY <3>2, Zenon DEF Execute, Claim, ClaimsEnd, BatchEnds, RunGone, RunSkips, RunFails,
         RunDefers, RunEnds, RunAlready, CreateSending, Accept, Refused, FinalizeSent, Ambiguous,
         SendEnds
    <3>3. ASSUME Web PROVE UNCHANGED <<lastGen, generated>>
      BY <3>3, Zenon DEF Web, LoadPage, CreateTarget, DeleteTarget, Merge, Bind, Unbind, RunNow, SetRule,
         DeleteRule, Cleanup, BulkApply, CancelRead, CancelWrite, Request
    <3>4. ASSUME Evening \/ NextDay \/ UNCHANGED vars PROVE UNCHANGED <<lastGen, generated>>
      BY <3>4, Zenon DEF Evening, NextDay, vars
    <3> QED BY <3>1, <3>2, <3>3, <3>4 DEF Next
  <2> QED BY <2>1, <2>2, <2>3, <2>4
<1> QED BY <1>1, <1>2, PTL DEF Spec

LEMMA RulesStep ==
  ASSUME Typed, RulesNameMeantChats, [Next]_vars
  PROVE  RulesNameMeantChats'
<1> USE DEF RulesNameMeantChats
<1>1. CASE UNCHANGED <<chat, sel, meant, outdated>>
  BY <1>1
<1>2. ASSUME NEW c \in Chats, CreateTarget(c) PROVE RulesNameMeantChats'
  <2>1. UNCHANGED <<sel, meant, outdated>>
    BY <1>2 DEF CreateTarget, rules
  <2>2. PICK n \in (1..MaxTargets) \ DOMAIN chat :
          /\ DOMAIN chat' = DOMAIN chat \cup {n}
          /\ \A t \in DOMAIN chat : chat'[t] = chat[t]
    BY <1>2, CreateTargetStep
  <2> QED BY <2>1, <2>2
<1>3. ASSUME NEW t \in DOMAIN chat, DeleteTarget(t) PROVE RulesNameMeantChats'
  <2>1. DOMAIN chat' = DOMAIN chat \ {t} /\ \A s \in DOMAIN chat' : chat'[s] = chat[s]
    BY <1>3, DeleteTargetStep
  <2>2. sel' = [a \in Accounts |-> sel[a] \ {t}] /\ UNCHANGED <<meant, outdated>>
    BY <1>3 DEF DeleteTarget
  <2> QED BY <2>1, <2>2
<1>4. ASSUME NEW k \in DOMAIN chat, NEW d \in DOMAIN chat, Merge(k, d)
      PROVE  RulesNameMeantChats'
  <2>1. /\ k # d /\ DOMAIN chat' = DOMAIN chat \ {d}
        /\ \A s \in DOMAIN chat' : chat'[s] = chat[s]
    BY <1>4, MergeStep
  <2>2. /\ sel' = [a \in Accounts |-> IF d \in sel[a] THEN (sel[a] \ {d}) \cup {k} ELSE sel[a]]
        /\ meant' = [a \in Accounts |-> IF chat[d] \in meant[a] THEN meant[a] \cup {chat[k]}
                                        ELSE meant[a]]
        /\ outdated' = outdated
    BY <1>4 DEF Merge
  <2> SUFFICES ASSUME NEW a \in Accounts \ outdated, NEW t \in sel'[a]
               PROVE  t \in DOMAIN chat' /\ chat'[t] \in meant'[a]
    BY <2>2
  <2>3. CASE d \in sel[a]
    <3>1. meant'[a] = meant[a] \cup {chat[k]} /\ sel'[a] = (sel[a] \ {d}) \cup {k}
      BY <2>2, <2>3
    <3> QED BY <2>1, <3>1
  <2>4. CASE d \notin sel[a]
    <3>1. meant[a] \subseteq meant'[a] /\ sel'[a] = sel[a]
      BY <2>2, <2>4
    <3> QED BY <2>1, <2>4, <3>1
  <2> QED BY <2>3, <2>4
<1>5. ASSUME NEW a \in Edited, NEW ids \in SUBSET DOMAIN page, SetRule(a, ids)
      PROVE  RulesNameMeantChats'
  <2>1. /\ chat' = chat /\ sel' = [sel EXCEPT ![a] = ids]
        /\ meant' = [meant EXCEPT ![a] = {page[t] : t \in ids}]
    BY <1>5 DEF SetRule, Select, targets
  <2>2. outdated' = IF \E t \in ids : t \notin DOMAIN chat \/ chat[t] # page[t]
                      THEN outdated \cup {a} ELSE outdated \ {a}
    BY <1>5 DEF SetRule, Select
  <2>3. ASSUME NEW b \in Accounts \ outdated', NEW t \in sel'[b]
        PROVE  t \in DOMAIN chat' /\ chat'[t] \in meant'[b]
    <3>1. CASE b = a
      <4>1. sel'[a] = ids /\ meant'[a] = {page[u] : u \in ids}
        BY <2>1, <3>1 DEF Typed, RulesTyped
      <4>2. t \in DOMAIN chat /\ chat[t] = page[t]
        BY <2>2, <2>3, <3>1, <4>1
      <4> QED BY <2>1, <2>3, <3>1, <4>1, <4>2
    <3>2. CASE b # a
      <4>1. sel'[b] = sel[b] /\ meant'[b] = meant[b] /\ b \in Accounts \ outdated
        BY <2>1, <2>2, <2>3, <3>2 DEF Typed, RulesTyped
      <4> QED BY <2>1, <2>3, <4>1
    <3> QED BY <3>1, <3>2
  <2> QED BY <2>3
<1>6. ASSUME NEW a \in Edited, DeleteRule(a) \/ Cleanup(a) PROVE RulesNameMeantChats'
  <2>1. /\ chat' = chat /\ sel' = [sel EXCEPT ![a] = {}] /\ meant' = [meant EXCEPT ![a] = {}]
        /\ outdated' = outdated \ {a}
    BY <1>6 DEF DeleteRule, Cleanup, Select, targets
  <2> QED BY <2>1 DEF Typed, RulesTyped
<1>7. ASSUME NEW a \in Edited, NEW b \in Accounts, BulkApply(a, b) PROVE RulesNameMeantChats'
  <2>1. /\ chat' = chat /\ sel' = [sel EXCEPT ![b] = sel[a]]
        /\ meant' = [meant EXCEPT ![b] = meant[a]] /\ a \in Accounts
        /\ outdated' = IF a \in outdated THEN outdated \cup {b} ELSE outdated \ {b}
    BY <1>7, GenerationAssumption DEF BulkApply, Select
  <2> QED BY <2>1 DEF Typed, RulesTyped
<1>8. CASE Web
  <2>1. ASSUME \/ \E a \in Edited, t \in DOMAIN chat : Bind(a, t) \/ Unbind(a, t) \/ RunNow(a, t)
               \/ LoadPage
               \/ \E i \in 1..MaxRows : CancelRead(i)
               \/ \E i \in cancelling : CancelWrite(i)
        PROVE  UNCHANGED <<chat, sel, meant, outdated>>
    BY <2>1 DEF Bind, Unbind, RunNow, LoadPage, CancelRead, CancelWrite, targets, rules
  <2> QED BY <1>1, <1>2, <1>3, <1>4, <1>5, <1>6, <1>7, <1>8, <2>1 DEF Web
<1>9. CASE Generate \/ Execute \/ Crash \/ Evening \/ NextDay \/ UNCHANGED vars
  <2> USE DEF targets, rules
  <2>1. ASSUME Generate PROVE UNCHANGED <<chat, sel, meant, outdated>>
    BY <2>1 DEF Generate, LoopStart, GenNext, GenFails, GenAccount, GenSkip, GenPick,
       GenInsert, GenCommit
  <2>2. ASSUME Execute PROVE UNCHANGED <<chat, sel, meant, outdated>>
    BY <2>2 DEF Execute, Claim, ClaimsEnd, BatchEnds, RunGone, RunSkips, RunFails,
       RunDefers, RunEnds, RunAlready, CreateSending, Accept, Refused, FinalizeSent, Ambiguous,
       SendEnds
  <2>3. ASSUME Crash \/ Evening \/ NextDay \/ UNCHANGED vars PROVE UNCHANGED <<chat, sel, meant, outdated>>
    BY <2>3 DEF Crash, Evening, NextDay, vars
  <2> QED BY <1>1, <1>9, <2>1, <2>2, <2>3
<1> QED BY <1>8, <1>9 DEF Next

(* The ids of deleted targets are given out again, and rules keep ids as     *)
(* JSON without a foreign key; still no rule ever addresses a chat that the  *)
(* operator did not select in it, unless he saved it from a page that showed *)
(* a target that was gone.                                                   *)
THEOREM RulesAreMeant == Spec => []RulesNameMeantChats
<1>1. Init => RulesNameMeantChats
  <2> SUFFICES ASSUME Init PROVE RulesNameMeantChats
    OBVIOUS
  <2>1. chat \in [1..StartTargets -> Chats]
    BY StartIsInjective
  <2>2. \A t \in 1..StartTargets : t \in DOMAIN chat /\ chat[t] \in Range(chat)
    BY <2>1 DEF Range
  <2>3. ASSUME NEW a \in Accounts, NEW t \in sel[a]
        PROVE  t \in 1..StartTargets /\ meant[a] = Range(chat)
    BY <2>3 DEF Init
  <2> QED BY <2>2, <2>3 DEF RulesNameMeantChats
<1>2. Typed /\ RulesNameMeantChats /\ [Next]_vars => RulesNameMeantChats'
  BY RulesStep
<1> QED BY <1>1, <1>2, TypedAlways, PTL DEF Spec

-----------------------------------------------------------------------------
(* Who made a row, and for what: it never changes.  The tags there are are   *)
(* those of the rows, of the executor's row and of the posts.                *)
Tag(r) == [uid |-> r.uid, acct |-> r.acct, orig |-> r.orig, birth |-> r.birth,
           origin |-> r.origin]
Known == {Tag(r) : r \in jobs \cup fresh \cup cur} \cup posts

(* s is a later one for the same post of a rule.                             *)
Later(r, s) ==
  /\ r.origin = "rule" /\ s.origin = "rule"
  /\ r.acct = s.acct /\ r.orig = s.orig /\ r.birth = s.birth
  /\ r.uid < s.uid

AtHome(r) == r.onDay /\ ~r.moved
Records(r) == AtHome(r) /\ r.status \in Present

TagsAreOne ==
  /\ \A x \in Known : x.uid =< made
  /\ \A x, y \in Known : x.uid = y.uid => x = y

HomeIsOrig == \A r \in jobs \cup fresh : ~r.moved => chat[r.target] = r.orig

(* No row that is on record has a later one.  The two clauses after it are   *)
(* the same for the row the generator is about to insert, and for a row      *)
(* whose status the executor is about to overwrite.                          *)
NothingLater ==
  \A r \in jobs \cup fresh : Records(r) => \A s \in Known : ~Later(r, s)
PickIsNew ==
  \A x \in pick : \A r \in jobs \cup fresh :
    r.origin = "rule" /\ r.acct = x[1] /\ r.target = x[2] /\ r.birth = x[3] => ~Records(r)
HandIsLast ==
  \A c \in cur : \A r \in jobs :
    c.id = r.id /\ AtHome(r) => \A s \in Known : ~Later(r, s)

RecordInv == TagsAreOne /\ HomeIsOrig /\ NothingLater /\ PickIsNew /\ HandIsLast

LEMMA RecordInitially == Init => RecordInv
BY DEF Init, RecordInv, TagsAreOne, HomeIsOrig, NothingLater, PickIsNew, HandIsLast, Known

(* Rows, picks and the executor's row may go, and targets nobody uses come.  *)
LEMMA FewerRecords ==
  ASSUME RecordInv, jobs' \subseteq jobs, fresh' \subseteq fresh, cur' \subseteq cur,
         pick' \subseteq pick, posts' = posts, made' = made,
         \A r \in jobs' \cup fresh' : chat'[r.target] = chat[r.target]
  PROVE  RecordInv'
<1>1. Known' \subseteq Known
  BY DEF Known
<1>2. TagsAreOne'
  BY <1>1 DEF RecordInv, TagsAreOne
<1>3. HomeIsOrig'
  BY DEF RecordInv, HomeIsOrig
<1>4. NothingLater' /\ PickIsNew' /\ HandIsLast'
  BY <1>1 DEF RecordInv, NothingLater, PickIsNew, HandIsLast
<1> QED BY <1>2, <1>3, <1>4 DEF RecordInv

LEMMA TagsKept ==
  ASSUME NEW f, Editing(f), fresh' = fresh, cur' \subseteq cur \cup jobs, posts' = posts
  PROVE  /\ Known' \subseteq Known
         /\ \A r \in jobs : Tag(f[r]) = Tag(r)
<1>1. \A r \in jobs : Tag(f[r]) = Tag(r)
  BY DEF Editing, EditOf, Tag
<1>2. ASSUME NEW q \in jobs' PROVE Tag(q) \in Known
  <2>1. PICK r \in jobs : q = f[r]
    BY DEF Editing
  <2> QED BY <1>1, <2>1 DEF Known
<1>3. ASSUME NEW q \in fresh' \cup cur' PROVE Tag(q) \in Known
  BY DEF Known
<1> QED BY <1>1, <1>2, <1>3 DEF Known

LEMMA EditRecords ==
  ASSUME Typed, RecordInv,
         \/ \E r \in jobs : Claim(r)
         \/ \E i \in batch :
              \/ RunSkips(i) \/ RunFails(i) \/ CreateSending(i)
              \/ \E on \in BOOLEAN : RunDefers(i, on)
         \/ \E i \in cancelling : CancelWrite(i)
  PROVE  RecordInv'
<1>1. PICK f : Editing(f) /\ \A r \in jobs : f[r].status \in Present => r.status \in Present
  BY EditsKeepStatus
<1>2. UNCHANGED <<chat, made, fresh, posts, pick>>
  BY Zenon DEF Claim, CreateSending, RunSkips, RunFails, RunDefers, RunEnds, CancelWrite,
     targets, generator, executor
<1>3. cur' \subseteq cur \cup jobs
  BY Zenon DEF Claim, CreateSending, RunSkips, RunFails, RunDefers, RunEnds, CancelWrite,
     executor, Runnable, RowOf
<1>4. Known' \subseteq Known /\ \A r \in jobs : Tag(f[r]) = Tag(r)
  BY <1>1, <1>2, <1>3, TagsKept
<1>5. \A q \in jobs' : \E r \in jobs : q = f[r] /\ EditOf(q, r)
  BY <1>1 DEF Editing
<1>6. ASSUME NEW q \in jobs' \cup fresh'
      PROVE  \E r \in jobs \cup fresh :
               /\ q.id = r.id /\ q.uid = r.uid /\ q.acct = r.acct /\ q.orig = r.orig
               /\ q.birth = r.birth /\ q.origin = r.origin /\ q.target = r.target
               /\ q.moved = r.moved /\ (AtHome(q) => AtHome(r)) /\ (Records(q) => Records(r))
  <2>1. CASE q \in fresh'
    BY <1>2, <2>1
  <2>2. CASE q \in jobs'
    <3>1. PICK r \in jobs : q = f[r] /\ EditOf(q, r)
      BY <1>5, <2>2
    <3>2. q.status \in Present => r.status \in Present
      BY <1>1, <3>1
    <3> QED BY <3>1, <3>2 DEF EditOf, AtHome, Records
  <2> QED BY <2>1, <2>2
<1>7. TagsAreOne'
  BY <1>2, <1>4 DEF RecordInv, TagsAreOne
<1>8. HomeIsOrig'
  BY <1>2, <1>6 DEF RecordInv, HomeIsOrig
<1>9. NothingLater'
  BY <1>4, <1>6 DEF RecordInv, NothingLater, Later
<1>10. PickIsNew'
  BY <1>2, <1>6 DEF RecordInv, PickIsNew
<1>11. HandIsLast'
  <2> SUFFICES ASSUME NEW c \in cur', NEW q \in jobs', c.id = q.id, AtHome(q), NEW s \in Known'
               PROVE  ~Later(q, s)
    BY DEF HandIsLast
  <2>1. PICK r \in jobs : q = f[r] /\ EditOf(q, r)
    BY <1>5
  <2>2. AtHome(r) /\ c.id = r.id /\ s \in Known /\ (Later(q, s) => Later(r, s))
    BY <1>4, <2>1 DEF EditOf, AtHome, Later
  <2>3. CASE c \in cur
    BY <2>2, <2>3 DEF RecordInv, HandIsLast
  <2>4. CASE c \notin cur
    <3>1. PICK i \in batch : CreateSending(i)
      BY <2>4, Zenon DEF Claim, RunSkips, RunFails, RunDefers, RunEnds, CancelWrite, executor
    <3>2. c \in jobs /\ c.status \in Present
      BY <3>1 DEF CreateSending, Runnable, RowOf, Present
    <3>3. r = c
      BY <2>2, <3>2 DEF Typed, RowsTyped
    <3> QED BY <2>2, <3>2, <3>3 DEF RecordInv, NothingLater, Records
  <2> QED BY <2>3, <2>4
<1> QED BY <1>7, <1>8, <1>9, <1>10, <1>11 DEF RecordInv

LEMMA EndingRecords ==
  ASSUME Typed, RecordInv, Refused \/ FinalizeSent \/ Ambiguous
  PROVE  RecordInv'
<1>1. PICK from, st, d : /\ st \in Statuses \cup {"same"} /\ d \in Deliveries
                         /\ SendEnds(from, st, d)
  BY DEF Refused, FinalizeSent, Ambiguous, Statuses, Deliveries, Present
<1>2. PICK f : Editing(f) /\ \A r \in jobs : f[r] # r => \E c \in cur : c.id = r.id
  BY <1>1, EndingsEdit
<1>3. UNCHANGED <<chat, made, fresh, posts, pick>> /\ cur' = {}
  BY <1>1 DEF SendEnds, targets, generator
<1>4. Known' \subseteq Known /\ \A r \in jobs : Tag(f[r]) = Tag(r)
  BY <1>2, <1>3, TagsKept
<1>5. \A q \in jobs' : \E r \in jobs : q = f[r] /\ EditOf(q, r)
  BY <1>2 DEF Editing
<1>6. TagsAreOne'
  BY <1>3, <1>4 DEF RecordInv, TagsAreOne
<1>7. HomeIsOrig'
  BY <1>3, <1>5 DEF RecordInv, HomeIsOrig, EditOf
<1>8. NothingLater'
  <2> SUFFICES ASSUME NEW q \in jobs' \cup fresh', Records(q), NEW s \in Known'
               PROVE  ~Later(q, s)
    BY DEF NothingLater
  <2>1. CASE q \in jobs \cup fresh
    BY <1>4, <2>1 DEF RecordInv, NothingLater
  <2>2. CASE q \notin jobs \cup fresh
    <3>1. PICK r \in jobs : q = f[r] /\ EditOf(q, r)
      BY <1>3, <1>5, <2>2
    <3>2. PICK c \in cur : c.id = r.id
      BY <1>2, <2>2, <3>1
    <3>3. AtHome(r) /\ s \in Known /\ (Later(q, s) => Later(r, s))
      BY <1>4, <3>1 DEF EditOf, AtHome, Records, Later
    <3> QED BY <3>2, <3>3 DEF RecordInv, HandIsLast
  <2> QED BY <2>1, <2>2
<1>9. PickIsNew' /\ HandIsLast'
  <2>1. pick = {}
    BY <1>1 DEF Refused, FinalizeSent, Ambiguous, SendEnds, Goto, Typed, InPass
  <2> QED BY <1>3, <2>1 DEF PickIsNew, HandIsLast
<1> QED BY <1>6, <1>7, <1>8, <1>9 DEF RecordInv

LEMMA AcceptRecords == ASSUME Typed, RecordInv, Accept PROVE RecordInv'
<1>1. UNCHANGED <<chat, made, jobs, fresh, cur, pick>>
  BY DEF Accept, targets, generator
<1>2. Known' \subseteq Known
  <2>1. posts' = posts \cup {Tag(c) : c \in cur}
    BY DEF Accept, Tag
  <2> QED BY <1>1, <2>1 DEF Known
<1> QED BY <1>1, <1>2 DEF RecordInv, TagsAreOne, HomeIsOrig, NothingLater, PickIsNew, HandIsLast

(* A merged row is not on record any more; the others are as they were.      *)
LEMMA MergeRecords ==
  ASSUME Typed, RecordInv, NEW k \in DOMAIN chat, NEW d \in DOMAIN chat, Merge(k, d)
  PROVE  RecordInv'
<1>1. /\ k # d /\ jobs' = {Merged(r, k, d) : r \in jobs}
      /\ DOMAIN chat' = DOMAIN chat \ {d}
      /\ \A s \in DOMAIN chat' : chat'[s] = chat[s]
  BY MergeStep
<1>2. UNCHANGED <<made, fresh, cur, posts, pick>> /\ fresh = {}
  BY DEF Merge, Request, generator, executor
<1>3. ASSUME NEW q \in jobs'
      PROVE  \E r \in jobs : Tag(q) = Tag(r) /\ (~q.moved => q = r /\ q.target # d)
  <2>1. PICK r \in jobs : q = Merged(r, k, d)
    BY <1>1
  <2>2. r \in Rows
    BY DEF Typed, RowsTyped
  <2>3. CASE r.target = d
    <3>1. q = [r EXCEPT !.target = k, !.moved = TRUE]
      BY <2>1, <2>3 DEF Merged
    <3>2. q.moved
      BY <2>2, <3>1 DEF Rows
    <3>3. Tag(q) = Tag(r)
      BY <2>2, <3>1 DEF Rows, Tag
    <3> QED BY <3>2, <3>3
  <2>4. CASE r.target # d
    BY <2>1, <2>4 DEF Merged
  <2> QED BY <2>3, <2>4
<1>4. Known' \subseteq Known
  <2>1. \A q \in jobs' \cup fresh' \cup cur' : Tag(q) \in Known
    BY <1>2, <1>3 DEF Known
  <2> QED BY <1>2, <2>1 DEF Known
<1>5. TagsAreOne'
  BY <1>2, <1>4 DEF RecordInv, TagsAreOne
<1>6. ASSUME NEW q \in jobs' \cup fresh', ~q.moved
      PROVE  q \in jobs /\ q.target # d
  BY <1>2, <1>3, <1>6
<1>7. HomeIsOrig'
  <2> SUFFICES ASSUME NEW q \in jobs' \cup fresh', ~q.moved PROVE chat'[q.target] = q.orig
    BY DEF HomeIsOrig
  <2>1. q \in jobs /\ q.target \in DOMAIN chat'
    BY <1>1, <1>6 DEF Typed, RowsTyped
  <2> QED BY <1>1, <2>1 DEF RecordInv, HomeIsOrig
<1>8. NothingLater' /\ PickIsNew' /\ HandIsLast'
  BY <1>2, <1>4, <1>6 DEF RecordInv, NothingLater, PickIsNew, HandIsLast, Records, AtHome
<1> QED BY <1>5, <1>7, <1>8 DEF RecordInv

LEMMA PickRecords ==
  ASSUME Typed, RecordInv, NEW x \in todo, GenPick(x[1], x[2], x[3])
  PROVE  RecordInv'
<1>1. UNCHANGED <<chat, made, jobs, fresh, cur, posts>> /\ pick' = {x}
  BY PickStep DEF GenPick, targets, executor
<1>2. \A r \in jobs \cup fresh :
        r.acct = x[1] /\ r.target = x[2] /\ r.birth = x[3] => ~Records(r)
  BY DEF GenPick, JobExists, Records, AtHome
<1>3. PickIsNew'
  BY <1>1, <1>2 DEF PickIsNew
<1>4. Known' = Known
  BY <1>1 DEF Known
<1>5. TagsAreOne' /\ HomeIsOrig' /\ NothingLater' /\ HandIsLast'
  BY <1>1, <1>4 DEF RecordInv, TagsAreOne, HomeIsOrig, NothingLater, HandIsLast
<1> QED BY <1>3, <1>5 DEF RecordInv

(* A row added under the next number is later than no other, and if it is of *)
(* a rule, it is so only where nothing is on record.                         *)
LEMMA NewRecord ==
  ASSUME Typed, RecordInv, NEW n, n.uid = made + 1, made' = made + 1,
         jobs' \cup fresh' = jobs \cup fresh \cup {n},
         jobs' \subseteq jobs \cup {n}, n.origin = "rule" => n \notin jobs' /\ cur = {},
         UNCHANGED <<chat, cur, posts>>, pick' \subseteq pick,
         chat[n.target] = n.orig,
         \A r \in jobs \cup fresh : Records(r) => ~Later(r, n),
         n.origin = "rule" => pick' = {}
  PROVE  RecordInv'
<1>1. Known' = Known \cup {Tag(n)}
  BY DEF Known
<1>2. \A x \in Known : x.uid \in Nat /\ x.uid =< made
  <2>1. \A x \in Known : x.uid \in Nat
    BY GenerationAssumption DEF Known, Tag, Typed, RowsTyped, HandTyped, Rows, Tags
  <2> QED BY <2>1 DEF RecordInv, TagsAreOne
<1>3. made \in Nat /\ Tag(n).uid = made + 1
  BY GenerationAssumption DEF Typed, ClockTyped, Tag
<1>4. TagsAreOne'
  <2>1. \A x \in Known' : x.uid =< made'
    BY <1>1, <1>2, <1>3
  <2>2. \A x, y \in Known' : x.uid = y.uid => x = y
    BY <1>1, <1>2, <1>3 DEF RecordInv, TagsAreOne
  <2> QED BY <2>1, <2>2 DEF TagsAreOne
<1>5. HomeIsOrig'
  BY DEF RecordInv, HomeIsOrig
<1>6. \A s \in Known' : ~Later(n, s)
  BY <1>1, <1>2, <1>3 DEF Later
<1>7. \A r : Later(r, Tag(n)) => Later(r, n)
  BY DEF Later, Tag
<1>8. NothingLater'
  <2> SUFFICES ASSUME NEW r \in jobs' \cup fresh', Records(r), NEW s \in Known'
               PROVE  ~Later(r, s)
    BY DEF NothingLater
  <2>1. CASE r = n
    BY <1>6, <2>1
  <2>2. CASE r \in jobs \cup fresh
    <3>1. s \in Known \/ s = Tag(n)
      BY <1>1
    <3> QED BY <1>7, <2>2, <3>1 DEF RecordInv, NothingLater
  <2> QED BY <2>1, <2>2
<1>9. PickIsNew'
  BY DEF RecordInv, PickIsNew
<1>10. HandIsLast'
  <2> SUFFICES ASSUME NEW c \in cur, NEW r \in jobs', c.id = r.id, AtHome(r), NEW s \in Known'
               PROVE  ~Later(r, s)
    BY DEF HandIsLast
  <2>1. n.origin # "rule"
    OBVIOUS
  <2>2. ~Later(r, Tag(n))
    BY <1>7, <2>1 DEF Later
  <2>3. CASE r = n
    BY <1>6, <2>3
  <2>4. CASE r \in jobs
    BY <1>1, <2>2, <2>4 DEF RecordInv, HandIsLast
  <2> QED BY <2>3, <2>4
<1> QED BY <1>4, <1>5, <1>8, <1>9, <1>10 DEF RecordInv

LEMMA InsertRecords ==
  ASSUME Typed, RecordInv, NEW x \in pick, NEW on \in BOOLEAN, GenInsert(x[1], x[2], x[3], on)
  PROVE  RecordInv'
<1> DEFINE n == NewRow(x[1], x[2], x[3], on, "rule")
<1>1. /\ x[2] \in DOMAIN chat /\ fresh' = fresh \cup {n}
      /\ made' = made + 1 /\ UNCHANGED <<chat, jobs, cur, posts>>
  BY InsertStep DEF GenInsert, targets, executor
<1>2. /\ n.uid = made + 1 /\ n.origin = "rule" /\ n.acct = x[1] /\ n.birth = x[3]
      /\ n.target = x[2] /\ n.orig = chat[x[2]] /\ n.id = NextId(JobIds)
  BY DEF NewRow
<1>3. cur = {} /\ pick' = {}
  BY DEF GenInsert, Goto, Typed, HandTyped, InPass
<1>4. n \notin jobs
  <2>1. \A r \in jobs \cup fresh : r.id < n.id
    <3>1. JobIds \in SUBSET (1..MaxRows) /\ \A r \in jobs \cup fresh : r.id \in JobIds
      BY DEF JobIds, Typed, RowsTyped, Rows
    <3> QED BY <1>2, <3>1, NextIdIsNew, GenerationAssumption
  <2>2. \A r \in jobs : r.id \in Nat
    BY GenerationAssumption DEF Typed, RowsTyped, Rows
  <2> HIDE DEF n
  <2>3. ASSUME n \in jobs PROVE FALSE
    <3>1. n.id < n.id /\ n.id \in Nat
      BY <2>1, <2>2, <2>3
    <3> QED BY <3>1
  <2> QED BY <2>3
<1> HIDE DEF n
<1>5. ASSUME NEW r \in jobs \cup fresh, Records(r) PROVE ~Later(r, n)
  <2> SUFFICES ASSUME Later(r, n) PROVE FALSE
    OBVIOUS
  <2>1. /\ r.origin = "rule" /\ r.acct = x[1] /\ r.birth = x[3] /\ r.orig = chat[x[2]]
    BY <1>2 DEF Later
  <2>2. chat[r.target] = r.orig /\ r.target \in DOMAIN chat
    BY <1>5 DEF RecordInv, HomeIsOrig, Records, AtHome, Typed, RowsTyped
  <2>3. r.target = x[2]
    BY <1>1, <2>1, <2>2 DEF Typed, ChatTyped
  <2> QED BY <1>5, <2>1, <2>3 DEF RecordInv, PickIsNew
<1> QED BY <1>1, <1>2, <1>3, <1>4, <1>5, NewRecord

LEMMA RunNowRecords ==
  ASSUME Typed, RecordInv, NEW a \in Edited, NEW t \in DOMAIN chat, RunNow(a, t)
  PROVE  RecordInv'
<1> DEFINE n == NewRow(a, t, LocalDay, TRUE, "test")
<1>1. /\ jobs' = jobs \cup {n} /\ made' = made + 1
      /\ UNCHANGED <<chat, fresh, cur, posts, pick>>
  BY RunNowStep DEF RunNow, Request, targets, generator, executor
<1>2. n.uid = made + 1 /\ n.origin = "test" /\ n.target = t /\ n.orig = chat[t]
  BY DEF NewRow
<1> HIDE DEF n
<1>3. \A r : ~Later(r, n)
  BY <1>2 DEF Later
<1> QED BY <1>1, <1>2, <1>3, NewRecord

LEMMA CommitRecords == ASSUME Typed, RecordInv, GenCommit PROVE RecordInv'
<1>1. /\ jobs' = jobs \cup fresh /\ fresh' = {} /\ UNCHANGED <<chat, made, cur, posts, pick>>
      /\ cur = {}
  BY DEF GenCommit, Goto, targets, executor, Typed, HandTyped
<1>2. Known' = Known
  BY <1>1 DEF Known
<1> QED BY <1>1, <1>2 DEF RecordInv, TagsAreOne, HomeIsOrig, NothingLater, PickIsNew, HandIsLast

LEMMA RecordStep == Typed /\ RecordInv /\ [Next]_vars => RecordInv'
<1> SUFFICES ASSUME Typed, RecordInv, [Next]_vars PROVE RecordInv'
  OBVIOUS
<1>1. ASSUME UNCHANGED <<chat, jobs, posts, made>>, fresh' \in {fresh, {}}, cur' \in {cur, {}},
             pick' \in {pick, {}}
      PROVE  RecordInv'
  BY <1>1, FewerRecords
<1>2. CASE Generate
  <2> USE DEF targets, executor
  <2>1. ASSUME LoopStart \/ GenNext \/ GenFails \/ (\E a \in left : GenAccount(a))
               \/ \E x \in todo : GenSkip(x)
        PROVE  RecordInv'
    BY <1>1, <2>1 DEF LoopStart, GenNext, GenFails, GenAccount, GenSkip, generator
  <2> QED BY <1>2, <2>1, PickRecords, InsertRecords, CommitRecords DEF Generate
<1>3. CASE Execute
  <2>1. ASSUME ClaimsEnd \/ BatchEnds \/ \E i \in batch : RunGone(i) \/ RunAlready(i)
        PROVE  RecordInv'
    BY <1>1, <2>1 DEF ClaimsEnd, BatchEnds, RunGone, RunAlready, targets, generator, executor
  <2> QED BY <1>3, <2>1, EditRecords, EndingRecords, AcceptRecords DEF Execute
<1>4. CASE Web
  <2>1. ASSUME NEW i \in 1..MaxRows, CancelRead(i) PROVE RecordInv'
    BY <1>1, <2>1 DEF CancelRead, Request, targets, generator, executor
  <2>2. ASSUME NEW c \in Chats, CreateTarget(c) PROVE RecordInv'
    <3>1. \A t \in DOMAIN chat : chat'[t] = chat[t]
      BY <2>2, CreateTargetStep
    <3>2. UNCHANGED <<jobs, fresh, cur, pick, posts, made>>
      BY <2>2 DEF CreateTarget, Request, generator, executor
    <3> QED BY <3>1, <3>2, FewerRecords DEF Typed, RowsTyped
  <2>3. ASSUME NEW t \in DOMAIN chat, DeleteTarget(t) PROVE RecordInv'
    <3>1. \A s \in DOMAIN chat \ {t} : chat'[s] = chat[s]
      BY <2>3, DeleteTargetStep
    <3>2. /\ UNCHANGED <<cur, pick, posts, made, fresh>> /\ fresh = {}
          /\ jobs' = {r \in jobs : r.target # t}
      BY <2>3 DEF DeleteTarget, Request, generator, executor
    <3> QED BY <3>1, <3>2, FewerRecords DEF Typed, RowsTyped
  <2>4. ASSUME \/ \E a \in Edited, t \in DOMAIN chat : Bind(a, t) \/ Unbind(a, t)
               \/ \E a \in Edited, ids \in SUBSET DOMAIN page : SetRule(a, ids)
               \/ \E a \in Edited : DeleteRule(a) \/ Cleanup(a)
               \/ \E a \in Edited, b \in Accounts : BulkApply(a, b)
        PROVE  RecordInv'
    <3>1. chat' = chat /\ jobs' \subseteq jobs
      BY <2>4, RuleSteps
    <3>2. UNCHANGED <<cur, pick, posts, made, fresh>>
      BY <2>4 DEF Bind, Unbind, SetRule, DeleteRule, Cleanup, BulkApply, Request, generator,
         executor
    <3> QED BY <3>1, <3>2, FewerRecords
  <2>5. ASSUME LoadPage PROVE RecordInv'
    BY <1>1, <2>5 DEF LoadPage, targets, generator, executor
  <2> QED BY <1>4, <2>1, <2>2, <2>3, <2>4, <2>5, MergeRecords, RunNowRecords, EditRecords DEF Web
<1>5. CASE Crash \/ Evening \/ NextDay \/ UNCHANGED vars
  BY <1>1, <1>5 DEF Crash, Evening, NextDay, vars, targets, generator, executor
<1> QED BY <1>2, <1>3, <1>4, <1>5 DEF Next

(* Whatever restarts, edits, merges, deletions, cancels, lost answers and    *)
(* reused ids there are: the rules post to a chat from an account a second   *)
(* time for the same day only if the record of the first post is lost.       *)
THEOREM LaterPostsNeedALostRecord == Spec => []LaterPostMeansLostRecord
<1>1. Typed /\ RecordInv => LaterPostMeansLostRecord
  <2> SUFFICES ASSUME Typed, RecordInv, NEW p \in posts, NEW q \in posts,
                      p.origin = "rule", q.origin = "rule", p.acct = q.acct, p.orig = q.orig,
                      p.birth = q.birth, p.uid < q.uid, OnRecord(p)
               PROVE  FALSE
    BY DEF LaterPostMeansLostRecord
  <2>1. PICK r \in jobs : r.uid = p.uid /\ Records(r)
    BY DEF OnRecord, Records, AtHome
  <2>2. Tag(r) \in Known /\ p \in Known /\ q \in Known
    BY DEF Known
  <2>3. Tag(r) = p
    BY <2>1, <2>2 DEF RecordInv, TagsAreOne, Tag
  <2>4. Later(r, q)
    BY <2>3 DEF Later, Tag
  <2> QED BY <2>1, <2>2, <2>4 DEF RecordInv, NothingLater
<1> QED BY <1>1, RecordInitially, RecordStep, TypedInitially, TypedStep, PTL DEF Spec
=============================================================================
