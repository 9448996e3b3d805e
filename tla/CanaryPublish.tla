--------------------------- MODULE CanaryPublish ---------------------------
(* The Facebook canary and the Meta connection it posts through: a dry run is *)
(* prepared, an authorisation minted for it under an idempotency key, and the *)
(* one post made by whoever presents the authorisation.  Each request is one  *)
(* database transaction of one web worker; the calls to Meta are made inside  *)
(* it.                                                                        *)
(*                                                                            *)
(* The first flush of a transaction takes SQLite's write lock, which is kept  *)
(* to the commit.  A rollback, by an error or by the death of the worker,     *)
(* undoes the rows and not the post.  The gates are environment variables of  *)
(* the worker, raised from Consume to the answer of Meta; a worker has one    *)
(* request at a time, so they are part of its place.                          *)
EXTENDS Naturals, FiniteSets

CONSTANTS
  Workers,   \* web worker processes
  Keys,      \* idempotency keys
  DryRuns,   \* SocialPublishDryRun rows, from the start or prepared
  Pages, Canary,   \* Facebook Pages; the one a canary may post to
  MaxAuths,  \* bound: authorisations minted
  MaxStates, \* bound: OAuth flows started
  MaxFaults  \* bound: requests that are rolled back by a fault

NoPage == "no page"
User == "user"
NoCredentials == {}
Nobody == "nobody"

ASSUME CanaryAssumption ==
  /\ Canary \in Pages
  /\ IsFiniteSet(Workers) /\ Nobody \notin Workers
  /\ MaxAuths \in Nat /\ MaxStates \in Nat /\ MaxFaults \in Nat

VARIABLES
  conn,      \* the SocialConnection row of the workspace
  flows,     \* SocialOAuthState rows: "open" or "used"
  drys,      \* the dry runs that exist
  auths,     \* SocialPublishCanaryAuthorization rows
  receipts,  \* by key: SocialPublishReceipt and SocialIdempotencyRecord
  web,       \* of a worker: the request it is in, and what that has read
  writer,    \* who holds the write lock of the database
  posts,     \* by authorisation: the posts Facebook has made
  faults,
  lost,      \* history, by authorisation: requests rolled back after a post
  torn       \* history: a request wrote after the tokens it had read were removed

meta == <<conn, flows>>
canary == <<drys, auths, receipts>>
history == <<faults, lost, torn>>
vars == <<meta, canary, web, writer, posts, history>>

(* "connected" is with and without Instagram, "degraded" expired and revoked  *)
(* as well.  The health of a row is only shown.                               *)
Statuses == {"none", "pending", "connected", "degraded", "disconnected"}
Connections ==
  [status : Statuses, sel : Pages \cup {NoPage},
   creds : SUBSET (Pages \cup {User}),   \* the tokens there are
   dests : SUBSET Pages]
Auths == 1..MaxAuths
NoAuth == [status |-> "none", dry |-> "none", key |-> "none"]
Minted == [status : {"ACTIVE", "USED", "EXPIRED", "OVERDUE"}, dry : DryRuns, key : Keys]
Results == {"SUCCEEDED", "FAILED"}
Idle == [at |-> "idle"]
Places ==
  {Idle}
    \cup [at : {"approved"}, dry : DryRuns, key : Keys]
    \cup [at : {"loaded", "consumed"}, auth : Auths]
    \cup [at : {"answered"}, auth : Auths, res : Results, posted : BOOLEAN]
    \cup [at : {"callback"}, flow : 1..MaxStates]
    \cup [at : {"read"}, seen : Connections]

TypeOK ==
  /\ conn \in Connections
  /\ flows \in [1..MaxStates -> {"none", "open", "used"}]
  /\ drys \in SUBSET DryRuns
  /\ auths \in [Auths -> Minted \cup {NoAuth}]
  /\ receipts \in [Keys -> Results \cup {"none"}]
  /\ \A w \in Workers : web[w] \in Places
  /\ writer \in Workers \cup {Nobody}
  /\ \A w \in Workers : writer = w <=> web[w].at \in {"callback", "consumed", "answered"}
  /\ posts \in [Auths -> Nat] /\ lost \in [Auths -> Nat]
  /\ faults \in 0..MaxFaults
  /\ torn \in BOOLEAN

Init ==
  /\ conn = [status |-> "none", sel |-> NoPage, creds |-> NoCredentials, dests |-> {}]
  /\ flows = [f \in 1..MaxStates |-> "none"]
  /\ drys = {}
  /\ auths = [a \in Auths |-> NoAuth]
  /\ receipts = [k \in Keys |-> "none"]
  /\ web = [w \in Workers |-> Idle]
  /\ writer = Nobody
  /\ posts = [a \in Auths |-> 0]
  /\ faults = 0 /\ lost = [a \in Auths |-> 0] /\ torn = FALSE

-----------------------------------------------------------------------------
At(w, p) == web[w].at = p
Goto(w, place) == web' = [web EXCEPT ![w] = place]
Unlocked == writer = Nobody

(* A request that only writes rows: it commits in one step.                   *)
Quick(w) == At(w, "idle") /\ Unlocked /\ UNCHANGED <<web, writer, posts, history>>

Connected == conn.status # "none"
CanPost == conn.sel = Canary /\ Canary \in conn.creds

-----------------------------------------------------------------------------
(* The connection.                                                            *)

StartOAuth(w, f) ==
  /\ Quick(w)
  /\ flows[f] = "none" /\ \A g \in 1..(f - 1) : flows[g] # "none"
  /\ flows' = [flows EXCEPT ![f] = "open"]
  /\ UNCHANGED <<conn, canary>>

(* _consume_state: the state is used, and its flush takes the write lock.     *)
BeginCallback(w, f) ==
  /\ At(w, "idle") /\ Unlocked
  /\ flows[f] = "open"
  /\ Goto(w, [at |-> "callback", flow |-> f])
  /\ writer' = w
  /\ UNCHANGED <<meta, canary, posts, history>>

CommitFlow(w) ==
  /\ At(w, "callback")
  /\ flows' = [flows EXCEPT ![web[w].flow] = "used"]
  /\ Goto(w, Idle)
  /\ writer' = Nobody
  /\ UNCHANGED <<canary, posts, history>>

(* Meta denies, or one of the calls fails: the credentials stay.              *)
RejectCallback(w) == CommitFlow(w) /\ UNCHANGED conn

(* The tokens are replaced.  The selection follows when there is one Page,    *)
(* stays when the Page is among the new ones, and stays when it is not.       *)
AcceptCallback(w, found, tokens) ==
  /\ CommitFlow(w)
  /\ LET one == Cardinality(found) = 1
         sel == IF one THEN CHOOSE p \in found : TRUE ELSE conn.sel
     IN  conn' = [status |-> IF one \/ sel \in found THEN "connected" ELSE "pending",
                  sel |-> sel, creds |-> tokens \cup {User}, dests |-> found]

(* A health check, the choice of a Page and a disconnect read the row without *)
(* a lock and write it later, the health check after it has asked Meta.       *)
ReadConnection(w) ==
  /\ At(w, "idle")
  /\ Connected
  /\ Goto(w, [at |-> "read", seen |-> conn])
  /\ UNCHANGED <<meta, canary, writer, posts, history>>

(* Only what differs from what was read is written.                           *)
Write(w, row, differs) ==
  LET written == {f \in DOMAIN conn : row[f] # web[w].seen[f]} \cup differs
  IN  /\ At(w, "read") /\ Unlocked
      /\ conn' = [f \in DOMAIN conn |-> IF f \in written THEN row[f] ELSE conn[f]]
      /\ Goto(w, Idle)
      /\ UNCHANGED <<flows, canary, writer, posts, faults, lost>>

(* What was read had tokens, and there are none any more.                     *)
Overtaken(w) == web[w].seen.creds # NoCredentials /\ conn.creds = NoCredentials

(* The status of the code may differ where that of the model does not.        *)
MayDiffer == {{}, {"status"}}

SelectPage(w, p) ==
  /\ At(w, "read") /\ p \in web[w].seen.dests
  /\ \E differs \in MayDiffer :
       Write(w, [web[w].seen EXCEPT !.sel = p, !.status = "connected"], differs)
  /\ torn' = (torn \/ Overtaken(w))

(* Slip: Meta is asked whether there are credentials or not.                  *)
Healthy_Any(w) ==
  LET seen == web[w].seen
      status == IF seen.status \in {"connected", "pending"} THEN seen.status ELSE "connected"
  IN  /\ At(w, "read")
      /\ Write(w, [seen EXCEPT !.status = status], {})
      /\ torn' = (torn \/ Overtaken(w))

(* meta_health_check: Meta says that all is well.                             *)
Healthy(w) ==
  LET seen == web[w].seen
      status == IF seen.status \in {"connected", "pending"} THEN seen.status ELSE "connected"
  IN  /\ At(w, "read") /\ seen.creds # NoCredentials
      /\ Write(w, [seen EXCEPT !.status = status], {})
      /\ torn' = (torn \/ Overtaken(w))

(* It says anything else.                                                     *)
Unhealthy(w) ==
  /\ At(w, "read") /\ web[w].seen.creds # NoCredentials
  /\ \E differs \in MayDiffer : Write(w, [web[w].seen EXCEPT !.status = "degraded"], differs)
  /\ torn' = (torn \/ Overtaken(w))

Disconnect(w) ==
  /\ Write(w, [status |-> "disconnected", sel |-> NoPage, creds |-> NoCredentials,
               dests |-> {}], {})
  /\ UNCHANGED torn

(* A Page that was not found, or no tokens, or none that are of use.          *)
LeaveConnection(w) ==
  /\ At(w, "read")
  /\ Goto(w, Idle)
  /\ UNCHANGED <<meta, canary, writer, posts, history>>

-----------------------------------------------------------------------------
(* The canary.                                                                *)

Prepare(w, d) ==
  /\ Quick(w)
  /\ drys' = drys \cup {d}
  /\ UNCHANGED <<meta, auths, receipts>>

(* preflight_facebook_canary with Meta saying yes.                            *)
Preflight(w, d, k) ==
  /\ At(w, "idle")
  /\ d \in drys /\ CanPost
  /\ Goto(w, [at |-> "approved", dry |-> d, key |-> k])
  /\ UNCHANGED <<meta, canary, writer, posts, history>>

Taken(k) == receipts[k] # "none" \/ \E a \in Auths : auths[a].key = k

(* approve_and_mint_canary: a key is of one authorisation.                    *)
Mint(w) ==
  /\ At(w, "approved") /\ Unlocked
  /\ Goto(w, Idle)
  /\ LET k == web[w].key
         free == {a \in Auths : auths[a] = NoAuth}
     IN  \/ /\ ~Taken(k) /\ free # {}
            /\ auths' = [auths EXCEPT ![CHOOSE a \in free : \A b \in free : a =< b] =
                           [status |-> "ACTIVE", dry |-> web[w].dry, key |-> k]]
         \/ Taken(k) /\ UNCHANGED auths
  /\ UNCHANGED <<meta, drys, receipts, writer, posts, history>>

(* Five minutes are over.                                                     *)
Overdue(a) ==
  /\ auths[a].status = "ACTIVE"
  /\ auths' = [auths EXCEPT ![a].status = "OVERDUE"]
  /\ UNCHANGED <<meta, drys, receipts, web, writer, posts, history>>

(* load_canary_authorization of one that is.                                  *)
LoadOverdue(w, a) ==
  /\ Quick(w)
  /\ auths[a].status = "OVERDUE" /\ receipts[auths[a].key] = "none"
  /\ auths' = [auths EXCEPT ![a].status = "EXPIRED"]
  /\ UNCHANGED <<meta, drys, receipts>>

(* The checks of execute_facebook_canary, on what is committed.  A request    *)
(* that names another key, dry run or Page than the authorisation is refused. *)
Load(w, a) ==
  /\ At(w, "idle")
  /\ auths[a].status = "ACTIVE" /\ receipts[auths[a].key] = "none"
  /\ CanPost
  /\ Goto(w, [at |-> "loaded", auth |-> a])
  /\ UNCHANGED <<meta, canary, writer, posts, history>>

(* consume_canary_authorization: the gates go up, the flush takes the lock,   *)
(* and what the authorisation has become since Load is not looked at.         *)
Consume(w) ==
  /\ At(w, "loaded") /\ Unlocked
  /\ Goto(w, [web[w] EXCEPT !.at = "consumed"])
  /\ writer' = w
  /\ UNCHANGED <<meta, canary, posts, history>>

(* publish_page_feed, and the gates go down.  An answer that is lost is a     *)
(* failure, whatever Facebook has done.                                       *)
Post(w, posted, res) ==
  LET a == web[w].auth
  IN  /\ At(w, "consumed")
      /\ res = "SUCCEEDED" => posted
      /\ posts' = [posts EXCEPT ![a] = IF posted THEN @ + 1 ELSE @]
      /\ Goto(w, [at |-> "answered", auth |-> a, res |-> res, posted |-> posted])
      /\ UNCHANGED <<meta, canary, writer, history>>

LosePost(w) ==
  lost' = IF At(w, "answered") /\ web[w].posted
          THEN [lost EXCEPT ![web[w].auth] = @ + 1] ELSE lost

(* Slip: only a success is recorded.                                          *)
Record_Success(w) ==
  LET a == web[w].auth
      k == auths[a].key
  IN  /\ At(w, "answered") /\ receipts[k] = "none"
      /\ auths' = [auths EXCEPT ![a].status = "USED"]
      /\ receipts' = IF web[w].res = "SUCCEEDED" THEN [receipts EXCEPT ![k] = web[w].res]
                     ELSE receipts
      /\ Goto(w, Idle)
      /\ writer' = Nobody
      /\ UNCHANGED <<meta, drys, posts, history>>

(* The receipt and the idempotency record, and the commit of all of it.       *)
Record(w) ==
  LET a == web[w].auth
      k == auths[a].key
  IN  /\ At(w, "answered") /\ receipts[k] = "none"
      /\ auths' = [auths EXCEPT ![a].status = "USED"]
      /\ receipts' = [receipts EXCEPT ![k] = web[w].res]
      /\ Goto(w, Idle)
      /\ writer' = Nobody
      /\ UNCHANGED <<meta, drys, posts, history>>

(* Slip: the error is caught and nothing rolled back.                         *)
RecordFails_Caught(w) ==
  /\ At(w, "answered") /\ receipts[auths[web[w].auth].key] # "none"
  /\ LosePost(w)
  /\ Goto(w, Idle)
  /\ UNCHANGED <<meta, canary, writer, posts, faults, torn>>

(* Another request has recorded the key: the insert fails, and all is undone. *)
RecordFails(w) ==
  /\ At(w, "answered") /\ receipts[auths[web[w].auth].key] # "none"
  /\ LosePost(w)
  /\ Goto(w, Idle)
  /\ writer' = Nobody
  /\ UNCHANGED <<meta, canary, posts, faults, torn>>

-----------------------------------------------------------------------------
(* An error, no lock within thirty seconds, or the death of the worker.       *)
Fault(w) ==
  /\ ~At(w, "idle") /\ faults < MaxFaults
  /\ faults' = faults + 1
  /\ LosePost(w)
  /\ Goto(w, Idle)
  /\ writer' = IF writer = w THEN Nobody ELSE writer
  /\ UNCHANGED <<meta, canary, posts, torn>>

Request(w) ==
  \/ \E f \in 1..MaxStates : StartOAuth(w, f) \/ BeginCallback(w, f)
  \/ RejectCallback(w)
  \/ \E found \in (SUBSET Pages) \ {{}} : \E tokens \in SUBSET found :
       AcceptCallback(w, found, tokens)
  \/ ReadConnection(w) \/ LeaveConnection(w)
  \/ \E p \in Pages : SelectPage(w, p)
  \/ Healthy(w) \/ Unhealthy(w) \/ Disconnect(w)
  \/ \E d \in DryRuns : Prepare(w, d) \/ \E k \in Keys : Preflight(w, d, k)
  \/ Mint(w)
  \/ \E a \in Auths : LoadOverdue(w, a) \/ Load(w, a)
  \/ Consume(w)
  \/ \E posted \in BOOLEAN, res \in Results : Post(w, posted, res)
  \/ Record(w) \/ RecordFails(w)
  \/ Fault(w)

Next == (\E w \in Workers : Request(w)) \/ \E a \in Auths : Overdue(a)

Spec == Init /\ [][Next]_vars

-----------------------------------------------------------------------------
(* Every post of an authorisation is the one its receipt tells of, one that a *)
(* request is about to record, or one whose request was rolled back: an       *)
(* answer that was lost and a second worker with the same secret included     *)
(* (publish_service.py:410-472).                                              *)
EveryPostAccounted ==
  \A a \in Auths :
    posts[a] =< lost[a]
                + Cardinality({w \in Workers : At(w, "answered") /\ web[w].auth = a})
                + (IF auths[a] # NoAuth /\ receipts[auths[a].key] # "none" THEN 1 ELSE 0)

(* A connection that calls itself connected has credentials, after whatever   *)
(* callbacks and whatever requests that write what they have read before,     *)
(* unless one wrote after a disconnect had removed the tokens it had read     *)
(* (meta_connection.py:594-760).                                              *)
ConnectedHasCredentials ==
  ~torn /\ conn.status \in {"connected", "pending"} => conn.creds # NoCredentials
=============================================================================
