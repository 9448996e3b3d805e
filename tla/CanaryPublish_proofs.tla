------------------------ MODULE CanaryPublish_proofs ------------------------
(* Theorems about CanaryPublish, for any number of workers, authorisations,   *)
(* keys and Pages, and any number of faults.                                  *)
EXTENDS CanaryPublish, FiniteSetTheorems, NaturalsInduction, WellFoundedInduction, TLAPS

Writing == {"callback", "consumed", "answered"}

-----------------------------------------------------------------------------
(* Types.  What a worker holds at each place.                                 *)

LEMMA PlaceFields ==
  ASSUME NEW p \in Places
  PROVE  /\ p.at \in {"idle", "approved", "loaded", "consumed", "answered", "callback", "read"}
         /\ p.at = "approved" => p.dry \in DryRuns /\ p.key \in Keys
         /\ p.at \in {"loaded", "consumed", "answered"} => p.auth \in Auths
         /\ p.at = "answered" => p.res \in Results /\ p.posted \in BOOLEAN
         /\ p.at = "callback" => p.flow \in 1..MaxStates
         /\ p.at = "read" => p.seen \in Connections
         /\ p.at = "loaded" => [p EXCEPT !.at = "consumed"] \in Places
         /\ p.at = "loaded" => [p EXCEPT !.at = "consumed"] = [at |-> "consumed", auth |-> p.auth]
BY DEF Places, Idle

LEMMA PlacesThere ==
  /\ Idle \in Places
  /\ \A d \in DryRuns, k \in Keys : [at |-> "approved", dry |-> d, key |-> k] \in Places
  /\ \A a \in Auths : [at |-> "loaded", auth |-> a] \in Places
  /\ \A a \in Auths, r \in Results, b \in BOOLEAN :
       [at |-> "answered", auth |-> a, res |-> r, posted |-> b] \in Places
  /\ \A f \in 1..MaxStates : [at |-> "callback", flow |-> f] \in Places
  /\ \A c \in Connections : [at |-> "read", seen |-> c] \in Places
BY DEF Places

(* TypeOK in parts, and web as the function it is.                            *)
ConnTyped == conn \in Connections /\ flows \in [1..MaxStates -> {"none", "open", "used"}]
RowsTyped ==
  /\ drys \in SUBSET DryRuns
  /\ auths \in [Auths -> Minted \cup {NoAuth}]
  /\ receipts \in [Keys -> Results \cup {"none"}]
WebTyped ==
  /\ web \in [Workers -> Places]
  /\ writer \in Workers \cup {Nobody}
  /\ \A w \in Workers : writer = w <=> web[w].at \in Writing
PostsTyped ==
  /\ posts \in [Auths -> Nat] /\ lost \in [Auths -> Nat]
  /\ faults \in 0..MaxFaults
  /\ torn \in BOOLEAN
(* An authorisation that a request has loaded was minted: TypeOK alone is not *)
(* inductive, for a use of one that was not would make a row of no type.      *)
HoldsAuth ==
  \A w \in Workers :
    web[w].at \in {"loaded", "consumed", "answered"} => auths[web[w].auth] \in Minted

Typed == ConnTyped /\ RowsTyped /\ WebTyped /\ PostsTyped /\ HoldsAuth

LEMMA TypedTypeOK == Typed => TypeOK
BY DEF Typed, TypeOK, ConnTyped, RowsTyped, WebTyped, PostsTyped, Writing

(* A worker that goes from one place to another, and the write lock with it.  *)
LEMMA WebMoves ==
  ASSUME WebTyped, NEW w \in Workers, NEW place \in Places, Goto(w, place),
         \/ writer' = writer /\ (place.at \in Writing <=> web[w].at \in Writing)
         \/ writer = Nobody /\ writer' = w /\ place.at \in Writing
         \/ writer = w /\ writer' = Nobody /\ place.at \notin Writing
  PROVE  WebTyped'
<1>1. web' = [web EXCEPT ![w] = place] /\ web'[w] = place
  BY DEF WebTyped, Goto
<1>2. web' \in [Workers -> Places]
  BY <1>1 DEF WebTyped
<1>3. writer' \in Workers \cup {Nobody}
  BY DEF WebTyped
<1>4. ASSUME NEW v \in Workers
      PROVE  writer' = v <=> web'[v].at \in Writing
  <2>1. CASE v = w
    BY <1>1, <2>1, CanaryAssumption DEF WebTyped
  <2>2. CASE v # w
    <3>1. web'[v] = web[v]
      BY <1>1, <2>2 DEF WebTyped
    <3>2. writer' = v <=> writer = v
      BY <2>2, CanaryAssumption DEF WebTyped
    <3> QED BY <3>1, <3>2 DEF WebTyped
  <2> QED BY <2>1, <2>2
<1> QED BY <1>2, <1>3, <1>4 DEF WebTyped

(* The requests that write the row they have read.                            *)
Writes(w) ==
  \/ \E p \in Pages : SelectPage(w, p)
  \/ Healthy(w) \/ Unhealthy(w) \/ Disconnect(w)

LEMMA WrittenRow ==
  ASSUME web \in [Workers -> Places], NEW w \in Workers, Writes(w)
  PROVE  \E row \in Connections, differs \in MayDiffer : Write(w, row, differs)
<1>1. web[w].at = "read" /\ web[w].seen \in Connections
  BY PlaceFields DEF Writes, SelectPage, Healthy, Unhealthy, Disconnect, Write, At
<1>2. ASSUME NEW p \in Pages, SelectPage(w, p)
      PROVE  \E row \in Connections, differs \in MayDiffer : Write(w, row, differs)
  <2>1. [web[w].seen EXCEPT !.sel = p, !.status = "connected"] \in Connections
    BY <1>1 DEF Connections, Statuses
  <2> QED BY <1>2, <2>1 DEF SelectPage
<1>3. CASE Healthy(w)
  <2> DEFINE status == IF web[w].seen.status \in {"connected", "pending"}
                       THEN web[w].seen.status ELSE "connected"
  <2>1. [web[w].seen EXCEPT !.status = status] \in Connections
    BY <1>1 DEF Connections, Statuses
  <2> QED BY <1>3, <2>1 DEF Healthy, MayDiffer
<1>4. CASE Unhealthy(w)
  <2>1. [web[w].seen EXCEPT !.status = "degraded"] \in Connections
    BY <1>1 DEF Connections, Statuses
  <2> QED BY <1>4, <2>1 DEF Unhealthy
<1>5. CASE Disconnect(w)
  <2>1. [status |-> "disconnected", sel |-> NoPage, creds |-> NoCredentials, dests |-> {}]
          \in Connections
    BY DEF Connections, Statuses, NoCredentials
  <2> QED BY <1>5, <2>1 DEF Disconnect, MayDiffer
<1> QED BY <1>2, <1>3, <1>4, <1>5 DEF Writes

LEMMA ConnIsTyped ==
  ASSUME Typed, NEW w \in Workers, Request(w)
  PROVE  ConnTyped'
<1> USE DEF Typed, ConnTyped
<1>1. web[w] \in Places
  BY DEF WebTyped
<1>2. CASE \E f \in 1..MaxStates : StartOAuth(w, f)
  BY <1>2 DEF StartOAuth
<1>3. ASSUME CommitFlow(w)
      PROVE  flows' \in [1..MaxStates -> {"none", "open", "used"}]
  BY <1>3, <1>1, PlaceFields DEF CommitFlow, At
<1>4. CASE RejectCallback(w)
  BY <1>3, <1>4 DEF RejectCallback
<1>5. ASSUME NEW found \in (SUBSET Pages) \ {{}}, NEW tokens \in SUBSET found,
             AcceptCallback(w, found, tokens)
      PROVE  ConnTyped'
  <2>1. (CHOOSE p \in found : TRUE) \in Pages
    BY <1>5
  <2>2. tokens \cup {User} \in SUBSET (Pages \cup {User}) /\ found \in SUBSET Pages
    BY <1>5
  <2>3. conn.sel \in Pages \cup {NoPage}
    BY DEF Connections
  <2>4. conn' \in Connections
    BY <1>5, <2>1, <2>2, <2>3 DEF AcceptCallback, Connections, Statuses
  <2> QED BY <1>3, <1>5, <2>4 DEF AcceptCallback
<1>6. ASSUME NEW row \in Connections, NEW differs, Write(w, row, differs)
      PROVE  ConnTyped'
  <2>1. /\ conn.status \in Statuses /\ row.status \in Statuses
        /\ conn.sel \in Pages \cup {NoPage} /\ row.sel \in Pages \cup {NoPage}
        /\ conn.creds \in SUBSET (Pages \cup {User}) /\ row.creds \in SUBSET (Pages \cup {User})
        /\ conn.dests \in SUBSET Pages /\ row.dests \in SUBSET Pages
        /\ DOMAIN conn = {"status", "sel", "creds", "dests"}
    BY DEF Connections
  <2>2. conn' \in Connections
    BY <1>6, <2>1 DEF Write, Connections
  <2> QED BY <1>6, <2>2 DEF Write
<1>7. CASE Writes(w)
  BY <1>1, <1>6, <1>7, WrittenRow DEF WebTyped
<1>10. CASE UNCHANGED meta
  BY <1>10 DEF meta
<1>11. CASE \E f \in 1..MaxStates : BeginCallback(w, f)
  BY <1>10, <1>11 DEF BeginCallback
<1> QED
  BY <1>2, <1>4, <1>5, <1>7, <1>10, <1>11
     DEF Request, Writes, ReadConnection, LeaveConnection, Prepare, Preflight, Mint, LoadOverdue,
         Load, Consume, Post, Record, RecordFails, Fault, meta

LEMMA RowsAreTyped ==
  ASSUME Typed, NEW w \in Workers, Request(w)
  PROVE  RowsTyped'
<1> USE DEF Typed, RowsTyped
<1>1. web[w] \in Places
  BY DEF WebTyped
<1>2. CASE \E d \in DryRuns : Prepare(w, d)
  BY <1>2 DEF Prepare
<1>3. CASE Mint(w)
  <2>1. web[w].key \in Keys /\ web[w].dry \in DryRuns
    BY <1>1, <1>3, PlaceFields DEF Mint, At
  <2>2. [status |-> "ACTIVE", dry |-> web[w].dry, key |-> web[w].key] \in Minted
    BY <2>1 DEF Minted
  <2> QED BY <1>3, <2>2 DEF Mint
<1>4. CASE \E a \in Auths : LoadOverdue(w, a)
  <2>1. \A m \in Minted \cup {NoAuth} :
          m.status # "none" => [m EXCEPT !.status = "EXPIRED"] \in Minted
    BY DEF Minted, NoAuth
  <2> QED BY <1>4, <2>1 DEF LoadOverdue
<1>5. CASE Record(w)
  <2>1. /\ web[w].auth \in Auths /\ web[w].res \in Results
    BY <1>1, <1>5, PlaceFields DEF Record, At
  <2>2. receipts' \in [Keys -> Results \cup {"none"}]
    BY <1>5, <2>1 DEF Record
  <2>3. [auths[web[w].auth] EXCEPT !.status = "USED"] \in Minted
    BY <1>5, <2>1 DEF Record, At, HoldsAuth, Minted
  <2>4. drys' = drys /\ auths' \in [Auths -> Minted \cup {NoAuth}]
    BY <1>5, <2>1, <2>3 DEF Record
  <2> QED BY <2>2, <2>4
<1>6. CASE UNCHANGED canary
  BY <1>6 DEF canary
<1> QED
  BY <1>2, <1>3, <1>4, <1>5, <1>6
     DEF Request, StartOAuth, BeginCallback, RejectCallback, AcceptCallback, CommitFlow,
         SelectPage, Healthy, Unhealthy, ReadConnection, LeaveConnection, Write, Disconnect,
         Preflight, Load, Consume, Post, RecordFails, Fault, canary

LEMMA FreeHasLeast ==
  ASSUME NEW S \in SUBSET Nat, S # {}
  PROVE  \E b \in S : \A c \in S : b =< c
<1> DEFINE R == {ss \in Nat \X Nat : ss[1] < ss[2]}
<1>1. IsWellFoundedOn(R, Nat)
  BY NatLessThanWellFounded DEF OpToRel
<1>2. \A x, y \in Nat : y < x => <<y, x>> \in R
  OBVIOUS
<1> HIDE DEF R
<1>3. PICK b \in S : \A c \in S : <<c, b>> \notin R
  BY <1>1, WFMin
<1>4. ASSUME NEW c \in S
      PROVE  b =< c
  <2>1. b \in Nat /\ c \in Nat
    OBVIOUS
  <2>2. ~(c < b)
    BY <1>2, <1>3, <2>1, Zenon
  <2> QED BY <2>1, <2>2
<1> QED BY <1>4

(* What is minted stays so, whatever becomes of its status.                   *)
LEMMA MintedStays ==
  ASSUME Typed, Next, NEW a \in Auths, auths[a] # NoAuth
  PROVE  auths'[a] \in Minted /\ auths'[a].key = auths[a].key
<1> USE DEF Typed, RowsTyped
<1>1. auths[a] \in Minted
  OBVIOUS
<1>2. auths[a].status \in {"ACTIVE", "USED", "EXPIRED", "OVERDUE"}
  BY <1>1 DEF Minted
<1>3. ASSUME NEW s \in {"ACTIVE", "USED", "EXPIRED", "OVERDUE"}, NEW b \in Auths,
             auths' = [auths EXCEPT ![b].status = s]
      PROVE  auths'[a] \in Minted /\ auths'[a].key = auths[a].key
  BY <1>1, <1>3 DEF Minted
<1>4. ASSUME NEW w \in Workers, Mint(w)
      PROVE  auths'[a] = auths[a]
  <2> DEFINE free == {b \in Auths : auths[b] = NoAuth}
             least == CHOOSE b \in free : \A c \in free : b =< c
  <2>1. CASE UNCHANGED auths
    BY <2>1
  <2>2. ASSUME free # {}, auths' = [auths EXCEPT ![least] =
                 [status |-> "ACTIVE", dry |-> web[w].dry, key |-> web[w].key]]
        PROVE  auths'[a] = auths[a]
    <3>1. \E b \in free : \A c \in free : b =< c
      <4>1. free \subseteq Nat
        BY CanaryAssumption DEF Auths
      <4> QED BY <2>2, <4>1, FreeHasLeast
    <3>2. least \in free
      BY <3>1
    <3> QED BY <2>2, <3>2
  <2> QED BY <1>4, <2>1, <2>2 DEF Mint
<1>5. ASSUME NEW w \in Workers, Request(w)
      PROVE  auths'[a] \in Minted /\ auths'[a].key = auths[a].key
  <2>1. CASE Mint(w)
    BY <1>1, <1>4, <2>1
  <2>2. CASE Record(w)
    <3>1. web[w].auth \in Auths
      BY <2>2, PlaceFields DEF Record, At, WebTyped
    <3> QED BY <1>3, <2>2, <3>1 DEF Record
  <2>3. CASE \E b \in Auths : LoadOverdue(w, b)
    BY <1>3, <2>3 DEF LoadOverdue
  <2>4. CASE UNCHANGED auths
    BY <1>1, <2>4
  <2> QED
    BY <1>5, <2>1, <2>2, <2>3, <2>4
       DEF Request, StartOAuth, BeginCallback, RejectCallback, AcceptCallback, CommitFlow,
           SelectPage, Healthy, Unhealthy, ReadConnection, LeaveConnection, Write,
           Disconnect, Prepare, Preflight, Load, Consume, Post, RecordFails, Fault, canary
<1>6. CASE \E b \in Auths : Overdue(b)
  BY <1>3, <1>6 DEF Overdue
<1> QED BY <1>5, <1>6 DEF Next

LEMMA WebIsTyped ==
  ASSUME Typed, NEW w \in Workers, Request(w)
  PROVE  WebTyped'
<1> USE DEF Typed, At
<1>1. web[w] \in Places /\ web[w].at \in
        {"idle", "approved", "loaded", "consumed", "answered", "callback", "read"}
  BY PlaceFields DEF WebTyped
<1>2. Idle \in Places /\ Idle.at \notin Writing
  BY PlacesThere DEF Idle, Writing
<1>3. writer = w <=> web[w].at \in Writing
  BY DEF WebTyped
<1>4. CASE UNCHANGED <<web, writer>>
  BY <1>4 DEF WebTyped
<1>5. ASSUME NEW f \in 1..MaxStates, BeginCallback(w, f)
      PROVE  WebTyped'
  <2>1. [at |-> "callback", flow |-> f] \in Places
    BY PlacesThere
  <2> QED BY <1>5, <2>1, WebMoves DEF BeginCallback, Unlocked, Writing
<1>6. CASE CommitFlow(w) \/ Record(w) \/ RecordFails(w)
  BY <1>2, <1>3, <1>6, WebMoves DEF CommitFlow, Record, RecordFails, Writing
<1>7. CASE ReadConnection(w)
  <2>1. [at |-> "read", seen |-> conn] \in Places
    BY PlacesThere DEF ConnTyped
  <2> QED BY <1>7, <2>1, WebMoves DEF ReadConnection, Writing
<1>8. CASE Mint(w) \/ LeaveConnection(w)
  BY <1>2, <1>8, WebMoves DEF Mint, LeaveConnection, Writing
<1>14. CASE Writes(w)
  <2>1. PICK row \in Connections, differs \in MayDiffer : Write(w, row, differs)
    BY <1>14, WrittenRow DEF WebTyped
  <2> QED BY <1>2, <2>1, WebMoves DEF Write, Writing
<1>9. ASSUME NEW d \in DryRuns, NEW k \in Keys, Preflight(w, d, k)
      PROVE  WebTyped'
  <2>1. [at |-> "approved", dry |-> d, key |-> k] \in Places
    BY PlacesThere
  <2> QED BY <1>9, <2>1, WebMoves DEF Preflight, Writing
<1>10. ASSUME NEW a \in Auths, Load(w, a)
       PROVE  WebTyped'
  <2>1. [at |-> "loaded", auth |-> a] \in Places
    BY PlacesThere
  <2> QED BY <1>10, <2>1, WebMoves DEF Load, Writing
<1>11. CASE Consume(w)
  <2> DEFINE place == [web[w] EXCEPT !.at = "consumed"]
  <2>1. place \in Places /\ place.at = "consumed"
    BY <1>1, <1>11, PlaceFields DEF Consume
  <2> QED BY <1>11, <2>1, WebMoves DEF Consume, Unlocked, Writing
<1>12. ASSUME NEW posted \in BOOLEAN, NEW res \in Results, Post(w, posted, res)
       PROVE  WebTyped'
  <2> DEFINE place == [at |-> "answered", auth |-> web[w].auth, res |-> res, posted |-> posted]
  <2>1. web[w].auth \in Auths
    BY <1>1, <1>12, PlaceFields DEF Post
  <2>2. place \in Places
    BY <2>1, PlacesThere
  <2> QED BY <1>12, <2>2, WebMoves DEF Post, Writing
<1>13. CASE Fault(w)
  BY <1>2, <1>3, <1>13, WebMoves DEF Fault, Writing
<1> QED
  BY <1>4, <1>5, <1>6, <1>7, <1>8, <1>9, <1>10, <1>11, <1>12, <1>13, <1>14
     DEF Request, Writes, StartOAuth, RejectCallback, AcceptCallback, Prepare, LoadOverdue,
         Quick

LEMMA PostsAreTyped ==
  ASSUME Typed, NEW w \in Workers, Request(w)
  PROVE  PostsTyped'
<1> USE DEF Typed, PostsTyped, At
<1>1. web[w].at \in {"consumed", "answered"} => web[w].auth \in Auths
  BY PlaceFields DEF WebTyped
<1>2. LosePost(w) => lost' \in [Auths -> Nat]
  BY <1>1 DEF LosePost
<1>3. CASE \E posted \in BOOLEAN, res \in Results : Post(w, posted, res)
  BY <1>1, <1>3 DEF Post, history
<1>4. CASE RecordFails(w)
  BY <1>2, <1>4 DEF RecordFails
<1>5. CASE Fault(w)
  BY <1>2, <1>5, CanaryAssumption DEF Fault
<1>6. CASE Writes(w)
  BY <1>6 DEF Writes, SelectPage, Healthy, Unhealthy, Disconnect, Write
<1>7. CASE UNCHANGED <<posts, history>>
  BY <1>7 DEF history
<1> QED
  BY <1>3, <1>4, <1>5, <1>6, <1>7
     DEF Request, Writes, StartOAuth, BeginCallback, RejectCallback, AcceptCallback, CommitFlow,
         ReadConnection, LeaveConnection, Prepare, Preflight, Mint, LoadOverdue, Load, Consume,
         Record, Quick

(* Whose authorisation a worker holds after a step, it held before, or it was *)
(* loaded while it was active.                                                *)
LEMMA AuthIsHeld ==
  ASSUME Typed, Next, WebTyped'
  PROVE  HoldsAuth'
<1> SUFFICES ASSUME NEW v \in Workers, web'[v].at \in {"loaded", "consumed", "answered"}
             PROVE  auths'[web'[v].auth] \in Minted
  BY DEF HoldsAuth
<1> USE DEF Typed
<1>1. web'[v].auth \in Auths
  BY PlaceFields DEF WebTyped
<1>2. auths[web'[v].auth] \in Minted
  <2>1. web[v].at \in {"loaded", "consumed", "answered"} => auths[web[v].auth] \in Minted
    BY DEF HoldsAuth
  <2>2. CASE web'[v] = web[v]
    BY <2>1, <2>2
  <2>3. ASSUME NEW w \in Workers, Request(w), web'[v] # web[v]
        PROVE  auths[web'[v].auth] \in Minted
    <3>1. ASSUME NEW place, Goto(w, place)
          PROVE  v = w /\ web'[v] = place
      BY <2>3, <3>1 DEF Goto, WebTyped
    <3>2. CASE Goto(w, Idle)
      BY <3>1, <3>2 DEF Idle
    <3>3. ASSUME NEW a \in Auths, Load(w, a)
          PROVE  auths[web'[v].auth] \in Minted
      <4>1. web'[v] = [at |-> "loaded", auth |-> a]
        BY <3>1, <3>3 DEF Load
      <4>2. auths[a] # NoAuth /\ auths[a] \in Minted \cup {NoAuth}
        BY <3>3 DEF Load, NoAuth, RowsTyped
      <4> QED BY <4>1, <4>2
    <3>4. CASE Consume(w)
      <4>1. v = w /\ web'[v] = [web[v] EXCEPT !.at = "consumed"]
        BY <3>1, <3>4 DEF Consume
      <4>2. web'[v].auth = web[v].auth
        BY <3>4, <4>1, PlaceFields DEF Consume, At, WebTyped
      <4> QED BY <2>1, <3>4, <4>1, <4>2 DEF Consume, At
    <3>5. ASSUME NEW posted \in BOOLEAN, NEW res \in Results, Post(w, posted, res)
          PROVE  auths[web'[v].auth] \in Minted
      <4>1. v = w /\ web'[v].auth = web[v].auth
        BY <3>1, <3>5 DEF Post
      <4> QED BY <2>1, <3>5, <4>1 DEF Post, At
    <3>6. ASSUME NEW f \in 1..MaxStates, BeginCallback(w, f)
          PROVE  FALSE
      BY <3>1, <3>6 DEF BeginCallback
    <3>8. ASSUME ReadConnection(w)
          PROVE  FALSE
      BY <3>1, <3>8 DEF ReadConnection
    <3>9. ASSUME NEW d \in DryRuns, NEW k \in Keys, Preflight(w, d, k)
          PROVE  FALSE
      BY <3>1, <3>9 DEF Preflight
    <3>7. CASE UNCHANGED web
      BY <2>3, <3>7
    <3> QED
      BY <2>3, <3>2, <3>3, <3>4, <3>5, <3>6, <3>7, <3>8, <3>9
         DEF Request, StartOAuth, RejectCallback, AcceptCallback, CommitFlow, SelectPage,
             Healthy, Unhealthy, Disconnect, Write, LeaveConnection, Prepare, Mint,
             LoadOverdue, Record, RecordFails, Fault, Quick
  <2>4. CASE \E a \in Auths : Overdue(a)
    BY <2>2, <2>4 DEF Overdue
  <2> QED BY <2>2, <2>3, <2>4 DEF Next
<1> QED BY <1>1, <1>2, MintedStays DEF Minted, NoAuth

LEMMA TypedInitially == Init => Typed
<1> SUFFICES ASSUME Init PROVE Typed
  OBVIOUS
<1>1. ConnTyped
  BY DEF Init, ConnTyped, Connections, Statuses, NoCredentials
<1>2. RowsTyped
  BY DEF Init, RowsTyped
<1>3. WebTyped /\ HoldsAuth
  <2>1. \A w \in Workers : web[w] = Idle /\ Idle.at = "idle"
    BY DEF Init, Idle
  <2>2. web \in [Workers -> Places]
    BY PlacesThere DEF Init
  <2>3. writer = Nobody /\ \A w \in Workers : writer # w
    BY CanaryAssumption DEF Init
  <2>4. \A w \in Workers : web[w].at = "idle"
    BY <2>1
  <2>5. WebTyped
    BY <2>2, <2>3, <2>4 DEF WebTyped, Writing
  <2> QED BY <2>4, <2>5 DEF HoldsAuth
<1>4. PostsTyped
  <2>1. /\ posts = [a \in Auths |-> 0] /\ lost = [a \in Auths |-> 0]
        /\ faults = 0
    BY DEF Init
  <2>2. torn \in BOOLEAN
    BY Zenon DEF Init
  <2> QED BY <2>1, <2>2, CanaryAssumption DEF PostsTyped
<1> QED BY <1>1, <1>2, <1>3, <1>4 DEF Typed

LEMMA TypedStep == Typed /\ [Next]_vars => Typed'
<1> SUFFICES ASSUME Typed, [Next]_vars PROVE Typed'
  OBVIOUS
<1>1. ASSUME NEW w \in Workers, Request(w)
      PROVE  Typed'
  <2>1. ConnTyped' /\ RowsTyped' /\ WebTyped' /\ PostsTyped'
    BY <1>1, ConnIsTyped, RowsAreTyped, WebIsTyped, PostsAreTyped
  <2>2. HoldsAuth'
    BY <1>1, <2>1, AuthIsHeld DEF Next
  <2> QED BY <2>1, <2>2 DEF Typed
<1>2. ASSUME NEW a \in Auths, Overdue(a)
      PROVE  Typed'
  <2>1. ConnTyped' /\ WebTyped' /\ PostsTyped'
    BY <1>2 DEF Typed, ConnTyped, WebTyped, PostsTyped, Overdue, meta, history
  <2>2. auths[a] \in Minted
    BY <1>2 DEF Typed, RowsTyped, Overdue, NoAuth
  <2>3. [auths[a] EXCEPT !.status = "OVERDUE"] \in Minted
    BY <2>2 DEF Minted
  <2>4. RowsTyped'
    BY <1>2, <2>3 DEF Typed, RowsTyped, Overdue
  <2>5. HoldsAuth'
    BY <1>2, <2>1, AuthIsHeld DEF Next
  <2> QED BY <2>1, <2>4, <2>5 DEF Typed
<1>3. CASE UNCHANGED vars
  <2>1. ConnTyped' /\ RowsTyped' /\ WebTyped' /\ PostsTyped' /\ HoldsAuth'
    BY <1>3 DEF vars, meta, canary, history, Typed, ConnTyped, RowsTyped, WebTyped, PostsTyped,
         HoldsAuth
  <2> QED BY <2>1 DEF Typed
<1> QED BY <1>1, <1>2, <1>3 DEF Next

(* Every variable has its type, and the write lock of the database is held by *)
(* the one worker that is in a transaction which has written.                 *)
THEOREM CanaryTypeCorrect == Spec => []TypeOK
<1>1. Spec => []Typed
  BY TypedInitially, TypedStep, PTL DEF Spec
<1> QED BY <1>1, TypedTypeOK, PTL

-----------------------------------------------------------------------------
(* The credentials.  As long as nobody has written after the tokens it had    *)
(* read were removed, a row has tokens when it has destinations, and when its *)
(* status is any but that of a new or of a disconnected one: the row there    *)
(* is, and those that requests have read.                                     *)

Whole(c) ==
  /\ c.creds = NoCredentials <=> c.dests = {}
  /\ c.creds = NoCredentials <=> c.status \in {"none", "disconnected"}
WholeSeen(w) ==
  web[w].at = "read" => Whole(web[w].seen) /\ web[w].seen.status # "none"
CredInv == ~torn => Whole(conn) /\ \A w \in Workers : WholeSeen(w)

LEMMA SeenKept ==
  ASSUME Typed, CredInv, ~torn, Next, NEW v \in Workers
  PROVE  WholeSeen(v)'
<1>1. CASE web'[v] = web[v]
  BY <1>1 DEF CredInv, WholeSeen, Whole
<1>2. ASSUME NEW w \in Workers, Request(w), web'[v] # web[v]
      PROVE  WholeSeen(v)'
  <2>1. ASSUME NEW place, Goto(w, place)
        PROVE  v = w /\ web'[v] = place
    BY <1>2, <2>1 DEF Goto, Typed, WebTyped
  <2>2. CASE ReadConnection(w)
    <3>1. web'[v] = [at |-> "read", seen |-> conn] /\ Whole(conn) /\ conn.status # "none"
      BY <2>1, <2>2 DEF ReadConnection, Connected, CredInv
    <3> QED BY <3>1 DEF WholeSeen, Whole
  <2>3. CASE web'[v].at # "read"
    BY <2>3 DEF WholeSeen
  <2>4. CASE Goto(w, Idle)
    BY <2>1, <2>3, <2>4 DEF Idle
  <2>5. ASSUME NEW f \in 1..MaxStates, BeginCallback(w, f)
        PROVE  WholeSeen(v)'
    BY <2>1, <2>3, <2>5 DEF BeginCallback
  <2>6. ASSUME NEW d \in DryRuns, NEW k \in Keys, Preflight(w, d, k)
        PROVE  WholeSeen(v)'
    BY <2>1, <2>3, <2>6 DEF Preflight
  <2>7. ASSUME NEW a \in Auths, Load(w, a)
        PROVE  WholeSeen(v)'
    BY <2>1, <2>3, <2>7 DEF Load
  <2>8. CASE Consume(w)
    <3>1. [web[w] EXCEPT !.at = "consumed"] = [at |-> "consumed", auth |-> web[w].auth]
      BY <2>8, PlaceFields DEF Consume, At, Typed, WebTyped
    <3>2. web'[v] = [at |-> "consumed", auth |-> web[w].auth]
      BY <2>1, <2>8, <3>1 DEF Consume
    <3> QED BY <2>3, <3>2
  <2>9. ASSUME NEW posted \in BOOLEAN, NEW res \in Results, Post(w, posted, res)
        PROVE  WholeSeen(v)'
    BY <2>1, <2>3, <2>9 DEF Post
  <2>10. CASE UNCHANGED web
    BY <1>2, <2>10
  <2> QED
    BY <1>2, <2>2, <2>4, <2>5, <2>6, <2>7, <2>8, <2>9, <2>10
       DEF Request, StartOAuth, RejectCallback, AcceptCallback, CommitFlow, SelectPage,
           Healthy, Unhealthy, Disconnect, Write, LeaveConnection, Prepare, Mint,
           LoadOverdue, Record, RecordFails, Fault, Quick
<1> QED BY <1>1, <1>2 DEF Next, Overdue

LEMMA LikeWhole ==
  ASSUME NEW c, NEW d, Whole(d), c.creds = d.creds, c.dests = d.dests, c.status = d.status
  PROVE  Whole(c)
BY Zenon DEF Whole

(* What a request makes of a whole row when it writes what it has read.       *)
LEMMA WrittenIsWhole ==
  ASSUME Typed, CredInv, ~torn', NEW w \in Workers, Writes(w)
  PROVE  ~torn /\ Whole(conn')
<1>1. /\ web[w].at = "read" /\ web[w].seen \in Connections /\ conn \in Connections
  BY PlaceFields
     DEF Writes, SelectPage, Healthy, Unhealthy, Disconnect, Write, At, Typed, WebTyped,
         ConnTyped
<1>2. ~torn
  BY DEF Writes, SelectPage, Healthy, Unhealthy, Disconnect
<1>3. Whole(conn) /\ Whole(web[w].seen) /\ web[w].seen.status # "none"
  BY <1>1, <1>2 DEF CredInv, WholeSeen
<1>4. DOMAIN conn = {"status", "sel", "creds", "dests"}
  BY <1>1 DEF Connections
(* One that had tokens when it was read and has some still.                   *)
<1>5. ASSUME NEW row \in Connections, NEW differs \in MayDiffer, Write(w, row, differs),
             row.creds = web[w].seen.creds, row.dests = web[w].seen.dests,
             row.status \notin {"none", "disconnected"}, web[w].seen.creds # NoCredentials,
             ~Overtaken(w)
      PROVE  Whole(conn')
  <2>1. conn'.creds = conn.creds /\ conn'.dests = conn.dests
    BY <1>4, <1>5 DEF Write, MayDiffer
  <2>2. conn.creds # NoCredentials
    BY <1>5 DEF Overtaken
  <2>3. conn'.status \in {conn.status, row.status}
    BY <1>4, <1>5 DEF Write
  <2> QED BY <1>3, <1>5, <2>1, <2>2, <2>3 DEF Whole
<1>6. ASSUME NEW p \in Pages, SelectPage(w, p)
      PROVE  Whole(conn')
  <2> DEFINE row == [web[w].seen EXCEPT !.sel = p, !.status = "connected"]
  <2>1. /\ row \in Connections /\ row.creds = web[w].seen.creds
        /\ row.dests = web[w].seen.dests /\ row.status = "connected"
    BY <1>1 DEF Connections, Statuses
  <2>2. web[w].seen.creds # NoCredentials
    BY <1>3, <1>6 DEF SelectPage, Whole
  <2>3. PICK differs \in MayDiffer : Write(w, row, differs)
    BY <1>6 DEF SelectPage
  <2>4. ~Overtaken(w)
    BY <1>6 DEF SelectPage
  <2> HIDE DEF row
  <2> QED BY <1>5, <2>1, <2>2, <2>3, <2>4
<1>7. CASE Healthy(w)
  <2> DEFINE status == IF web[w].seen.status \in {"connected", "pending"}
                       THEN web[w].seen.status ELSE "connected"
             row == [web[w].seen EXCEPT !.status = status]
  <2>1. status \in {"connected", "pending"}
    OBVIOUS
  <2> HIDE DEF status
  <2>2. /\ row \in Connections /\ row.creds = web[w].seen.creds
        /\ row.dests = web[w].seen.dests /\ row.status = status
    BY <1>1, <2>1 DEF Connections, Statuses
  <2>3. Write(w, row, {}) /\ web[w].seen.creds # NoCredentials /\ ~Overtaken(w)
    BY <1>7 DEF Healthy, status
  <2> HIDE DEF row
  <2> QED BY <1>2, <1>5, <2>1, <2>2, <2>3 DEF MayDiffer
<1>8. CASE Unhealthy(w)
  <2> DEFINE row == [web[w].seen EXCEPT !.status = "degraded"]
  <2>1. /\ row \in Connections /\ row.creds = web[w].seen.creds
        /\ row.dests = web[w].seen.dests /\ row.status = "degraded"
    BY <1>1 DEF Connections, Statuses
  <2>2. PICK differs \in MayDiffer : Write(w, row, differs)
    BY <1>8 DEF Unhealthy
  <2>3. web[w].seen.creds # NoCredentials /\ ~Overtaken(w)
    BY <1>8 DEF Unhealthy
  <2> HIDE DEF row
  <2> QED BY <1>2, <1>5, <2>1, <2>2, <2>3
<1>9. CASE Disconnect(w)
  <2> DEFINE row == [status |-> "disconnected", sel |-> NoPage, creds |-> NoCredentials,
                     dests |-> {}]
  <2>1. row.creds = NoCredentials /\ row.dests = {} /\ row.status = "disconnected"
    OBVIOUS
  <2>2. Write(w, row, {})
    BY <1>9 DEF Disconnect
  <2> HIDE DEF row
  <2>3. CASE web[w].seen.creds = NoCredentials
    <3>1. web[w].seen.dests = {} /\ web[w].seen.status = "disconnected"
      BY <1>3, <2>3 DEF Whole
    <3>2. /\ row.creds = web[w].seen.creds /\ row.dests = web[w].seen.dests
          /\ row.status = web[w].seen.status
      BY <2>1, <2>3, <3>1
    <3>3. /\ conn'.creds = conn.creds /\ conn'.dests = conn.dests /\ conn'.status = conn.status
      BY <1>4, <2>2, <3>2 DEF Write
    <3> QED BY <1>2, <1>3, <3>3, LikeWhole, Zenon
  <2>4. CASE web[w].seen.creds # NoCredentials
    <3>1. web[w].seen.dests # {} /\ web[w].seen.status # "disconnected"
      BY <1>3, <2>4 DEF Whole
    <3>2. /\ row.creds # web[w].seen.creds /\ row.dests # web[w].seen.dests
          /\ row.status # web[w].seen.status
      BY <2>1, <2>4, <3>1
    <3>3. conn'.creds = row.creds /\ conn'.dests = row.dests /\ conn'.status = row.status
      BY <1>4, <2>2, <3>2 DEF Write
    <3> QED BY <1>2, <2>1, <3>3 DEF Whole
  <2> QED BY <2>3, <2>4
<1> QED BY <1>2, <1>6, <1>7, <1>8, <1>9 DEF Writes

LEMMA CredStep == Typed /\ CredInv /\ [Next]_vars => CredInv'
<1> SUFFICES ASSUME Typed, CredInv, [Next]_vars, ~torn' PROVE CredInv'
  BY DEF CredInv
<1>1. ASSUME NEW w \in Workers, Request(w)
      PROVE  ~torn /\ Whole(conn')
  <2>1. CASE UNCHANGED <<conn, torn>>
    BY <2>1 DEF CredInv, Whole
  <2>2. ASSUME NEW found \in (SUBSET Pages) \ {{}}, NEW tokens \in SUBSET found,
               AcceptCallback(w, found, tokens)
        PROVE  ~torn /\ Whole(conn')
    <3>1. /\ conn'.creds # NoCredentials /\ conn'.dests # {}
          /\ conn'.status \in {"connected", "pending"}
      BY <2>2 DEF AcceptCallback, NoCredentials
    <3> QED BY <2>2, <3>1 DEF AcceptCallback, CommitFlow, history, Whole
  <2>3. CASE Writes(w)
    BY <2>3, WrittenIsWhole
  <2> QED
    BY <1>1, <2>1, <2>2, <2>3
       DEF Request, Writes, StartOAuth, BeginCallback, RejectCallback, ReadConnection,
           LeaveConnection, Prepare, Preflight, Mint, LoadOverdue, Load, Consume, Post, Record,
           RecordFails, Fault, CommitFlow, Quick, meta, history
<1>2. CASE \E a \in Auths : Overdue(a)
  BY <1>2 DEF Overdue, meta, history, CredInv, WholeSeen, Whole
<1>3. CASE UNCHANGED vars
  BY <1>3 DEF vars, meta, history, CredInv, WholeSeen, Whole
<1>4. ASSUME NEW w \in Workers, Request(w)
      PROVE  CredInv'
  BY <1>1, <1>4, SeenKept DEF Next, CredInv
<1> QED BY <1>2, <1>3, <1>4 DEF Next

(* A connection that calls itself connected has credentials, unless a request *)
(* wrote after a disconnect had removed the tokens it had read: for any       *)
(* number of workers, each of which writes what it read before                *)
(* (meta_connection.py:594-760).                                              *)
THEOREM ConnectedMeansCredentials == Spec => []ConnectedHasCredentials
<1>1. Init => CredInv
  BY DEF Init, CredInv, WholeSeen, Whole, Idle, NoCredentials
<1>2. CredInv => ConnectedHasCredentials
  BY DEF CredInv, Whole, ConnectedHasCredentials
<1> QED BY <1>1, <1>2, TypedInitially, TypedStep, CredStep, PTL DEF Spec

-----------------------------------------------------------------------------
(* The posts.  Only a worker in the one transaction that has written can hold *)
(* an answer that is not recorded, so at most one post of an authorisation is *)
(* in hand.                                                                   *)

Holds(w, a) == web[w].at = "answered" /\ web[w].auth = a /\ web[w].posted
InHand(a) == IF \E w \in Workers : Holds(w, a) THEN 1 ELSE 0
OnReceipt(a) == IF auths[a] # NoAuth /\ receipts[auths[a].key] # "none" THEN 1 ELSE 0
PostInv == \A a \in Auths : posts[a] =< lost[a] + InHand(a) + OnReceipt(a)

LEMMA ReceiptsStay ==
  ASSUME Typed, Next, Typed', NEW a \in Auths
  PROVE  OnReceipt(a) =< OnReceipt(a)' /\ OnReceipt(a) \in {0, 1} /\ OnReceipt(a)' \in {0, 1}
<1>1. CASE auths[a] # NoAuth /\ receipts[auths[a].key] # "none"
  <2>1. auths'[a] # NoAuth /\ auths'[a].key = auths[a].key
    BY <1>1, MintedStays DEF Minted, NoAuth
  <2>2. auths[a].key \in Keys
    BY <1>1 DEF Typed, RowsTyped, Minted
  <2>3. ASSUME NEW w \in Workers, Record(w)
        PROVE  receipts'[auths[a].key] # "none"
    <3>1. web[w].res \in Results
      BY <2>3, PlaceFields DEF Record, At, Typed, WebTyped
    <3> QED BY <1>1, <2>2, <2>3, <3>1 DEF Record, Results, Typed, RowsTyped
  <2>4. CASE UNCHANGED receipts
    BY <1>1, <2>1, <2>4 DEF OnReceipt
  <2>5. UNCHANGED receipts \/ \E w \in Workers : Record(w)
    BY DEF Next, Overdue, Request, StartOAuth, BeginCallback, RejectCallback, AcceptCallback,
       CommitFlow, SelectPage, Healthy, Unhealthy, ReadConnection, LeaveConnection, Write,
       Disconnect, Prepare, Preflight, Mint, LoadOverdue, Load, Consume, Post, RecordFails, Fault,
       canary
  <2> QED BY <1>1, <2>1, <2>3, <2>4, <2>5 DEF OnReceipt
<1>2. CASE ~(auths[a] # NoAuth /\ receipts[auths[a].key] # "none")
  BY <1>2 DEF OnReceipt
<1> QED BY <1>1, <1>2

LEMMA OneAnswer ==
  ASSUME Typed, NEW v \in Workers, NEW w \in Workers,
         web[v].at \in {"consumed", "answered"}, web[w].at \in {"consumed", "answered"}
  PROVE  v = w
BY DEF Typed, WebTyped, Writing

(* Nobody records, loses or makes a post: what is in hand stays so.           *)
LEMMA PostsKept ==
  ASSUME Typed, PostInv, Next, Typed', UNCHANGED <<posts, lost>>,
         \A v \in Workers : web[v].at = "answered" => web'[v] = web[v]
  PROVE  PostInv'
<1> SUFFICES ASSUME NEW a \in Auths PROVE posts'[a] =< lost'[a] + InHand(a)' + OnReceipt(a)'
  BY DEF PostInv
<1>1. InHand(a) =< InHand(a)' /\ InHand(a) \in {0, 1} /\ InHand(a)' \in {0, 1}
  BY DEF InHand, Holds
<1>2. posts[a] \in Nat /\ lost[a] \in Nat
  BY DEF Typed, PostsTyped
<1> QED BY <1>1, <1>2, ReceiptsStay DEF PostInv

LEMMA PostStep == Typed /\ PostInv /\ [Next]_vars => PostInv'
<1> SUFFICES ASSUME Typed, PostInv, [Next]_vars PROVE PostInv'
  OBVIOUS
<1>0. Typed'
  BY TypedStep
<1>1. CASE UNCHANGED vars
  BY <1>1 DEF vars, canary, history, PostInv, InHand, Holds, OnReceipt
<1>2. CASE \E a \in Auths : Overdue(a)
  BY <1>0, <1>2, PostsKept DEF Next, Overdue, history
<1>3. ASSUME NEW w \in Workers, Request(w)
      PROVE  PostInv'
  <2> USE DEF At
  <2>1. Next
    BY <1>3 DEF Next
  <2>2. \A v \in Workers : v # w => web'[v] = web[v]
    BY <1>3 DEF Request, StartOAuth, BeginCallback, RejectCallback, AcceptCallback, CommitFlow,
       SelectPage, Healthy, Unhealthy, ReadConnection, LeaveConnection, Write, Disconnect,
       Prepare, Preflight, Mint, LoadOverdue, Load, Consume, Post, Record, RecordFails, Fault,
       Quick, Goto, Typed, WebTyped
  <2>3. ASSUME NEW posted \in BOOLEAN, NEW res \in Results, Post(w, posted, res)
        PROVE  PostInv'
    <3> SUFFICES ASSUME NEW a \in Auths
                 PROVE  posts'[a] =< lost'[a] + InHand(a)' + OnReceipt(a)'
      BY DEF PostInv
    <3>1. InHand(a) = 0
      <4>1. \A v \in Workers : web[v].at # "answered"
        BY <2>3, OneAnswer DEF Post
      <4> QED BY <4>1 DEF InHand, Holds
    <3>2. posts'[a] =< posts[a] + InHand(a)' /\ InHand(a)' \in {0, 1} /\ lost' = lost
      <4>1. web'[w] = [at |-> "answered", auth |-> web[w].auth, res |-> res, posted |-> posted]
        BY <2>3 DEF Post, Goto, Typed, WebTyped
      <4>2. CASE posted /\ a = web[w].auth
        <5>1. Holds(w, a)'
          BY <4>1, <4>2 DEF Holds
        <5>2. InHand(a)' = 1
          BY <5>1 DEF InHand
        <5> QED BY <2>3, <4>2, <5>2 DEF Post, history, Typed, PostsTyped
      <4>3. CASE ~(posted /\ a = web[w].auth)
        <5>1. posts'[a] = posts[a] /\ lost' = lost
          BY <2>3, <4>3 DEF Post, history, Typed, PostsTyped
        <5>2. InHand(a)' \in {0, 1}
          BY DEF InHand
        <5>3. posts[a] \in Nat
          BY DEF Typed, PostsTyped
        <5> QED BY <5>1, <5>2, <5>3
      <4> QED BY <4>2, <4>3
    <3>3. /\ posts[a] \in Nat /\ posts'[a] \in Nat /\ lost[a] \in Nat
          /\ posts[a] =< lost[a] + InHand(a) + OnReceipt(a)
      BY <1>0 DEF Typed, PostsTyped, PostInv
    <3> QED BY <1>0, <2>1, <3>1, <3>2, <3>3, ReceiptsStay
  <2>4. CASE Record(w)
    <3> SUFFICES ASSUME NEW a \in Auths
                 PROVE  posts'[a] =< lost'[a] + InHand(a)' + OnReceipt(a)'
      BY DEF PostInv
    <3>1. posts' = posts /\ lost' = lost
      BY <2>4 DEF Record, history
    <3>2. InHand(a) + OnReceipt(a) =< InHand(a)' + OnReceipt(a)'
      <4>1. CASE Holds(w, a)
        <5>1. OnReceipt(a) = 0
          BY <2>4, <4>1 DEF Record, OnReceipt, Holds
        <5>2. auths[a] \in Minted
          BY <2>4, <4>1 DEF Record, Holds, Typed, HoldsAuth
        <5>3. auths'[a] # NoAuth /\ auths'[a].key = auths[a].key
          BY <2>1, <5>2, MintedStays DEF Minted, NoAuth
        <5>4. web[w].res \in Results /\ auths[a].key \in Keys
          BY <2>4, <5>2, PlaceFields DEF Record, Typed, WebTyped, Minted
        <5>5. receipts'[auths[a].key] = web[w].res
          BY <2>4, <4>1, <5>4 DEF Record, Holds, Typed, RowsTyped
        <5>6. OnReceipt(a)' = 1
          BY <5>3, <5>4, <5>5 DEF OnReceipt, Results
        <5> QED BY <5>1, <5>6 DEF InHand
      <4>2. CASE ~Holds(w, a)
        <5>1. InHand(a) = 0
          BY <2>4, <4>2, OneAnswer DEF InHand, Holds, Record
        <5>2. InHand(a)' \in {0, 1}
          BY DEF InHand
        <5> QED BY <1>0, <2>1, <5>1, <5>2, ReceiptsStay
      <4> QED BY <4>1, <4>2
    <3>3. /\ posts[a] \in Nat /\ lost[a] \in Nat
          /\ posts[a] =< lost[a] + InHand(a) + OnReceipt(a)
      BY DEF Typed, PostsTyped, PostInv
    <3>4. /\ InHand(a) \in {0, 1} /\ InHand(a)' \in {0, 1}
          /\ OnReceipt(a) \in {0, 1} /\ OnReceipt(a)' \in {0, 1}
      BY DEF InHand, OnReceipt
    <3> QED BY <3>1, <3>2, <3>3, <3>4
  <2>5. CASE web[w].at = "answered" /\ (RecordFails(w) \/ Fault(w))
    <3> SUFFICES ASSUME NEW a \in Auths
                 PROVE  posts'[a] =< lost'[a] + InHand(a)' + OnReceipt(a)'
      BY DEF PostInv
    <3>1. posts' = posts /\ LosePost(w)
      BY <2>5 DEF RecordFails, Fault
    <3>2. lost[a] + InHand(a) =< lost'[a] + InHand(a)' /\ lost'[a] \in Nat
      <4>1. lost[a] \in Nat /\ InHand(a)' \in {0, 1} /\ lost'[a] \in Nat
        BY <1>0 DEF Typed, PostsTyped, InHand
      <4>2. CASE Holds(w, a)
        <5>1. lost'[a] = lost[a] + 1
          BY <2>5, <3>1, <4>2 DEF LosePost, Holds, Typed, PostsTyped
        <5>2. InHand(a) \in {0, 1}
          BY DEF InHand
        <5> QED BY <4>1, <5>1, <5>2
      <4>3. CASE ~Holds(w, a)
        <5>1. InHand(a) = 0
          BY <2>5, <4>3, OneAnswer DEF InHand, Holds
        <5>2. lost'[a] >= lost[a]
          BY <3>1, <4>1 DEF LosePost, Typed, PostsTyped
        <5> QED BY <4>1, <5>1, <5>2
      <4> QED BY <4>2, <4>3
    <3>3. /\ posts[a] \in Nat /\ lost[a] \in Nat
          /\ posts[a] =< lost[a] + InHand(a) + OnReceipt(a)
      BY DEF Typed, PostsTyped, PostInv
    <3>4. InHand(a) \in {0, 1} /\ InHand(a)' \in {0, 1}
      BY DEF InHand
    <3> QED BY <1>0, <2>1, <3>1, <3>2, <3>3, <3>4, ReceiptsStay
  <2>6. CASE web[w].at # "answered" /\ UNCHANGED <<posts, lost>>
    BY <1>0, <2>1, <2>2, <2>6, PostsKept
  <2>7. CASE UNCHANGED <<web, posts, lost>>
    BY <1>0, <2>1, <2>7, PostsKept
  <2> QED
    BY <1>3, <2>3, <2>4, <2>5, <2>6, <2>7
       DEF Request, StartOAuth, BeginCallback, RejectCallback, AcceptCallback, CommitFlow,
           SelectPage, Healthy, Unhealthy, ReadConnection, LeaveConnection, Write,
           Disconnect, Prepare, Preflight, Mint, LoadOverdue, Load, Consume, RecordFails, Fault,
           Quick, LosePost, history
<1> QED BY <1>1, <1>2, <1>3 DEF Next

LEMMA InHandIsCounted ==
  ASSUME Typed, PostInv
  PROVE  EveryPostAccounted
<1> SUFFICES ASSUME NEW a \in Auths
             PROVE  posts[a] =< lost[a]
                      + Cardinality({w \in Workers : At(w, "answered") /\ web[w].auth = a})
                      + (IF auths[a] # NoAuth /\ receipts[auths[a].key] # "none" THEN 1 ELSE 0)
  BY DEF EveryPostAccounted
<1> DEFINE W == {w \in Workers : At(w, "answered") /\ web[w].auth = a}
<1>1. IsFiniteSet(W) /\ Cardinality(W) \in Nat
  BY CanaryAssumption, FS_Subset, FS_CardinalityType
<1>2. InHand(a) =< Cardinality(W)
  <2>1. (\E w \in Workers : Holds(w, a)) => W # {}
    BY DEF Holds, At
  <2>2. W # {} => Cardinality(W) # 0
    BY <1>1, FS_EmptySet
  <2> QED BY <1>1, <2>1, <2>2 DEF InHand
<1>3. posts[a] =< lost[a] + InHand(a) + OnReceipt(a) /\ posts[a] \in Nat /\ lost[a] \in Nat
  BY DEF Typed, PostsTyped, PostInv
<1>4. InHand(a) \in {0, 1} /\ OnReceipt(a) \in {0, 1}
  BY DEF InHand, OnReceipt
<1> HIDE DEF W
<1>5. posts[a] =< lost[a] + Cardinality(W) + OnReceipt(a)
  BY <1>1, <1>2, <1>3, <1>4
<1> QED BY <1>5 DEF W, OnReceipt

(* However many workers present however many authorisations, and whatever is  *)
(* rolled back: every post Facebook has made is on a receipt, in the hands of *)
(* the request that made it, or of a request that was rolled back.            *)
THEOREM PostsAreAccounted == Spec => []EveryPostAccounted
<1>1. Init => PostInv
  <2> SUFFICES ASSUME Init, NEW a \in Auths
               PROVE  posts[a] =< lost[a] + InHand(a) + OnReceipt(a)
    BY DEF PostInv
  <2>1. posts[a] = 0 /\ lost[a] = 0
    BY DEF Init
  <2>2. InHand(a) \in {0, 1} /\ OnReceipt(a) \in {0, 1}
    BY DEF InHand, OnReceipt
  <2> QED BY <2>1, <2>2
<1> QED BY <1>1, TypedInitially, TypedStep, PostStep, InHandIsCounted, PTL DEF Spec
=============================================================================
