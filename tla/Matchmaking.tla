----------------------------- MODULE Matchmaking -----------------------------
(***************************************************************************)
(* Travelers who look for company: server/src/routes/match.js, the worker  *)
(* server/src/workers/match_worker.js, the functions start_match,          *)
(* try_match, cancel_match and touch_match_request of the database, and    *)
(* the call that makes the thread of two travelers (services/imApi.js).    *)
(*                                                                         *)
(* start_match and try_match are transactions at READ COMMITTED.  They are *)
(* three steps here: the request is read (no lock), a partner is chosen    *)
(* (locked, rows that are locked are skipped), and both are marked, by id, *)
(* when the transaction commits.  What a transaction has written and not   *)
(* committed is in its local state: others see the old rows and wait when  *)
(* they want to write them.                                                *)
(***************************************************************************)
EXTENDS Naturals, FiniteSets

CONSTANTS MatchIds,      \* the requests that can be made (a bound)
          Owner,         \* the profile that makes each of them
          Compatible,    \* the pairs whose trips and preferences agree
          Clients,       \* requests the server works on at the same time
          Workers,       \* runs of the worker that can overlap
          NoThread,      \* thread_id is null
          ClientThread,  \* a thread that a client names
          MatchOps       \* what clients ask for (a bound)

Callers == Clients \union Workers

ASSUME MatchIdsAssumption == MatchIds # {}
ASSUME ClientsAssumption == Clients \intersect Workers = {}
ASSUME ThreadAssumption ==
  /\ NoThread # ClientThread
  /\ \A q, r \in MatchIds : {Owner[q], Owner[r]} \notin {NoThread, ClientThread}

VARIABLES
  status,    \* match_requests.status
  fresh,     \* whether expires_at >= now()
  sessions,  \* match_sessions: the requests <<a, b>> of each and its thread_id
  call       \* the local state of each client's request and of each worker

matchVars == <<status, fresh, sessions, call>>

MatchStatus == {"none", "waiting", "matched", "cancelled", "expired"}

Session == MatchIds \X MatchIds

Waiting(r) == status[r] = "waiting"

\* The conditions of try_match on its own request and on a partner.
CanBeTried(r) == Waiting(r) /\ fresh[r]

Fits(a, b) == {a, b} \in Compatible /\ Owner[a] # Owner[b]

(***************************************************************************)
(* The local state of a request or of a run of the worker.  In a           *)
(* transaction, "a" is the request it works for, "b" the one it chose and  *)
(* locked, "drop" the waiting requests of the same profile it cancels and  *)
(* "stale" those it marks expired.  After that, <<a, b>> is the session    *)
(* whose thread is made.                                                   *)
(***************************************************************************)
Call == [pc : {"idle", "choose", "leave", "pair", "ensure", "attach"},
         a : MatchIds, b : MatchIds, drop : SUBSET MatchIds, stale : SUBSET MatchIds]

SomeRequest == CHOOSE r \in MatchIds : TRUE

Local(pc, a, b, drop, stale) ==
  [pc |-> pc, a |-> a, b |-> b, drop |-> drop, stale |-> stale]

Idle == Local("idle", SomeRequest, SomeRequest, {}, {})

InTx(t) == call[t].pc \in {"choose", "leave", "pair"}

\* The rows a transaction has written or locked.
Holds(t) ==
  IF ~InTx(t) THEN {}
  ELSE call[t].drop \union call[t].stale
       \union (IF call[t].pc = "pair" THEN {call[t].b} ELSE {})

Locked(r) == \E t \in Callers : r \in Holds(t)

\* Expire stale waiting requests, the first statement of try_match.
Stale == {r \in MatchIds : Waiting(r) /\ ~fresh[r]}

\* Mutant of Written: a status that no reader knows.
Written_Ended(t) ==
  [r \in MatchIds |-> IF r \in call[t].drop THEN "cancelled"
                      ELSE IF r \in call[t].stale THEN "ended" ELSE status[r]]

\* The statuses a transaction has written to the rows it holds.
Written(t) ==
  [r \in MatchIds |-> IF r \in call[t].drop THEN "cancelled"
                      ELSE IF r \in call[t].stale THEN "expired" ELSE status[r]]

Become(t, local) == call' = [call EXCEPT ![t] = local]

(***************************************************************************)
(* start_match and try_match.                                              *)
(***************************************************************************)
\* Mutant of Superseded: start_match cancels nothing.
Superseded_None(p) == {}

\* The waiting requests start_match cancels before it inserts a new one.
Superseded(p) == {r \in MatchIds : Waiting(r) /\ Owner[r] = p}

\* match-start calls start_match.  It waits for the rows others hold, and for
\* another start_match of the same profile (the unique index on waiting
\* requests makes that one wait, or fail, in any case).  Its new request is
\* fresh and others do not see it yet.
StartMatch(c, r) ==
  LET drop == Superseded(Owner[r]) IN
  /\ call[c].pc = "idle" /\ "start" \in MatchOps
  /\ status[r] = "none"
  /\ \A t \in Clients : InTx(t) => Owner[call[t].a] # Owner[r]
  /\ \A q \in drop \union Stale : ~Locked(q)
  /\ Become(c, Local("choose", r, r, drop, Stale \ drop))
  /\ UNCHANGED <<status, fresh, sessions>>

\* try_match for a request that is there already.
TryMatch(w, r) == /\ call[w].pc = "idle"
                  /\ \A q \in Stale : ~Locked(q)
                  /\ Become(w, Local("choose", r, r, {}, Stale))
                  /\ UNCHANGED <<status, fresh, sessions>>

\* Mutant of WorkerTry: the comparison with expires_at the wrong way round.
WorkerTry_Stale(w, r) == Waiting(r) /\ ~fresh[r] /\ TryMatch(w, r)

\* runOnce lists the waiting requests, those that are locked left out, in a
\* transaction of its own, and then calls try_match for each of them.  By then
\* the list may be out of date: a request is only worked for when it is still
\* waiting and fresh ...
WorkerTry(w, r) == CanBeTried(r) /\ TryMatch(w, r)

\* ... and otherwise try_match only marks stale requests expired.
WorkerExpire(w) ==
  /\ call[w].pc = "idle"
  /\ \A q \in Stale : ~Locked(q)
  /\ status' = [q \in MatchIds |-> IF q \in Stale THEN "expired" ELSE status[q]]
  /\ UNCHANGED <<fresh, sessions, call>>

\* SELECT ... FOR UPDATE SKIP LOCKED.
Partners(a) == {b \in MatchIds : CanBeTried(b) /\ Fits(a, b) /\ ~Locked(b)}

Choose(t, b) ==
  /\ call[t].pc = "choose"
  /\ b \in Partners(call[t].a)
  /\ call' = [call EXCEPT ![t].pc = "pair", ![t].b = b]
  /\ UNCHANGED <<status, fresh, sessions>>

\* Nobody fits, or nobody that others can see yet.
ChooseNobody(t) ==
  /\ call[t].pc = "choose"
  /\ Partners(call[t].a) = {}
  /\ call' = [call EXCEPT ![t].pc = "leave"]
  /\ UNCHANGED <<status, fresh, sessions>>

\* The transaction commits what it has.
Leave(t) ==
  /\ call[t].pc = "leave"
  /\ status' = [Written(t) EXCEPT ![call[t].a] = IF @ = "none" THEN "waiting" ELSE @]
  /\ Become(t, Idle)
  /\ UNCHANGED <<fresh, sessions>>

\* Mutant of RoleTaken: no unique index on request_a_id.
RoleTaken_SecondOnly(a, b) == \E s \in DOMAIN sessions : s[2] = b

\* The unique indexes on request_a_id and on request_b_id.
RoleTaken(a, b) == \E s \in DOMAIN sessions : s[1] = a \/ s[2] = b

\* The transaction waits for the one that locked its own request.
WaitsFor(t, u) == call[t].pc = "pair" /\ t # u /\ call[t].a \in Holds(u)

\* The session is inserted, both requests are marked by id and the whole is
\* committed.  The caller goes on to make the thread; the worker does not
\* get that far, it looks the members up by a column profiles does not have.
Pair(t) ==
  LET a == call[t].a  b == call[t].b IN
  /\ call[t].pc = "pair"
  /\ \A u \in Callers : ~WaitsFor(t, u)
  /\ ~RoleTaken(a, b)
  /\ sessions' = [s \in DOMAIN sessions \union {<<a, b>>} |->
                    IF s \in DOMAIN sessions THEN sessions[s] ELSE NoThread]
  /\ status' = [Written(t) EXCEPT ![a] = "matched", ![b] = "matched"]
  /\ Become(t, IF t \in Workers THEN Idle ELSE Local("ensure", a, b, {}, {}))
  /\ UNCHANGED fresh

\* A unique index rejects the session and the transaction is rolled back.
PairFails(t) ==
  /\ call[t].pc = "pair"
  /\ \A u \in Callers : ~WaitsFor(t, u)
  /\ RoleTaken(call[t].a, call[t].b)
  /\ Become(t, Idle)
  /\ UNCHANGED <<status, fresh, sessions>>

\* Transactions that wait for one another in a circle: the database ends one.
DeadlockVictim(t) ==
  /\ \E ring \in SUBSET Callers :
       /\ t \in ring
       /\ \A u \in ring : (\E v \in ring : WaitsFor(u, v)) /\ (\E v \in ring : WaitsFor(v, u))
  /\ Become(t, Idle)
  /\ UNCHANGED <<status, fresh, sessions>>

(***************************************************************************)
(* Polls, heartbeats, cancellations and threads.                           *)
(***************************************************************************)
SessionsOf(r) == {s \in DOMAIN sessions : r \in {s[1], s[2]}}

\* match-heartbeat: touch_match_request waits for whoever holds the row and puts
\* its end off (its answer is a row of nulls when it found nothing, which is
\* taken for a success), then a session of the request is read; when there are
\* two of them either may be the one begun last.  The request goes on when the
\* session has no thread.
Heartbeat(c, r, s) ==
  /\ call[c].pc = "idle" /\ "poll" \in MatchOps
  /\ s \in SessionsOf(r)
  /\ ~Locked(r)
  /\ sessions[s] = NoThread
  /\ Become(c, Local("ensure", s[1], s[2], {}, {}))
  /\ UNCHANGED <<status, fresh, sessions>>

\* match-poll goes on in the same way, unless it finds another request of the
\* profile waiting or has read its own one cancelled or expired.
Poll(c, r, s) ==
  /\ \A q \in MatchIds : Waiting(q) /\ Owner[q] = Owner[r] => q = r
  /\ status[r] \in {"waiting", "matched"}
  /\ Heartbeat(c, r, s)

\* ensureMatchThread: the IM service makes the thread, or has it.
EnsureThread(c) ==
  /\ call[c].pc = "ensure"
  /\ call' = [call EXCEPT ![c].pc = "attach"]
  /\ UNCHANGED <<status, fresh, sessions>>

\* The IM service fails or does not answer within 8 seconds, or the server
\* ends: the session stays without a thread.
EnsureFails(c) ==
  /\ call[c].pc \in {"ensure", "attach"}
  /\ Become(c, Idle)
  /\ UNCHANGED <<status, fresh, sessions>>

\* Mutant of ThreadKey: the members are looked up by a column that is not there.
ThreadKey_Nobody(a, b) == {}

\* The thread is named by a hash of its two members in alphabetical order.
ThreadKey(a, b) == {Owner[a], Owner[b]}

\* UPDATE match_sessions SET thread_id WHERE id.
AttachThread(c) ==
  LET a == call[c].a  b == call[c].b IN
  /\ call[c].pc = "attach"
  /\ sessions' = [sessions EXCEPT ![<<a, b>>] = ThreadKey(a, b)]
  /\ Become(c, Idle)
  /\ UNCHANGED <<status, fresh>>

\* match-attach-conversation, by force or only when there is none.
AttachConversation(s, force) ==
  /\ "attach" \in MatchOps
  /\ force \/ sessions[s] = NoThread
  /\ sessions' = [sessions EXCEPT ![s] = ClientThread]
  /\ UNCHANGED <<status, fresh, call>>

\* Mutant of Cancel: cancel_match without a condition on the status.
Cancel_Any(r) ==
  /\ "cancel" \in MatchOps
  /\ status[r] # "none" /\ ~Locked(r)
  /\ status' = [status EXCEPT ![r] = "cancelled"]
  /\ UNCHANGED <<fresh, sessions, call>>

\* match-cancel, of one request or of the one the profile has.
Cancel(r) ==
  /\ "cancel" \in MatchOps
  /\ Waiting(r) /\ ~Locked(r)
  /\ status' = [status EXCEPT ![r] = "cancelled"]
  /\ UNCHANGED <<fresh, sessions, call>>

\* 60 seconds pass without a poll or a heartbeat.
GetStale(r) ==
  /\ Waiting(r) /\ fresh[r]
  /\ fresh' = [fresh EXCEPT ![r] = FALSE]
  /\ UNCHANGED <<status, sessions, call>>

(***************************************************************************)
(* The specification.                                                      *)
(***************************************************************************)
MatchInit ==
  /\ status = [r \in MatchIds |-> "none"]
  /\ fresh = [r \in MatchIds |-> TRUE]
  /\ sessions = [s \in {} |-> NoThread]
  /\ call = [t \in Callers |-> Idle]

Transaction(t) ==
  \/ \E b \in MatchIds : Choose(t, b)
  \/ ChooseNobody(t) \/ Leave(t) \/ Pair(t) \/ PairFails(t) \/ DeadlockVictim(t)

WorkerStep(w) == WorkerExpire(w) \/ (\E r \in MatchIds : WorkerTry(w, r)) \/ Transaction(w)

ClientStep(c) == Transaction(c) \/ EnsureThread(c) \/ EnsureFails(c) \/ AttachThread(c)

MatchNext ==
  \/ \E w \in Workers : WorkerStep(w)
  \/ \E c \in Clients :
       \/ ClientStep(c)
       \/ \E r \in MatchIds :
            \/ StartMatch(c, r)
            \/ \E s \in DOMAIN sessions : Heartbeat(c, r, s) \/ Poll(c, r, s)
  \/ \E s \in DOMAIN sessions, force \in BOOLEAN : AttachConversation(s, force)
  \/ \E r \in MatchIds : Cancel(r) \/ GetStale(r)

MatchSpec == MatchInit /\ [][MatchNext]_matchVars

\* setInterval starts the worker again and again and each run comes to all
\* requests that wait, up to its limit (50 of them); what was begun goes on.
MatchFairness ==
  /\ \A w \in Workers, r \in MatchIds : SF_matchVars(WorkerTry(w, r))
  /\ \A w \in Workers : WF_matchVars(Transaction(w))
  /\ \A c \in Clients : WF_matchVars(ClientStep(c))

MatchFairSpec == MatchSpec /\ MatchFairness

(***************************************************************************)
(* Properties.                                                             *)
(***************************************************************************)
\* Every variable has its type.
MatchTypeOK ==
  /\ status \in [MatchIds -> MatchStatus]
  /\ fresh \in [MatchIds -> BOOLEAN]
  /\ DOMAIN sessions \subseteq Session
  /\ call \in [Callers -> Call]

\* A request is matched exactly when it is in a session, although try_match
\* reads its own request without a lock and marks it by id: cancellations,
\* expiry and new requests of the profile that come in between do not leave a
\* session with a request that is not matched, nor the other way round.
MatchedIsSettled ==
  \A r \in MatchIds : status[r] = "matched" <=> SessionsOf(r) # {}

\* match_requests_one_waiting_per_profile: a profile has one request that
\* waits, whatever transactions are under way.
OneWaitingPerProfile ==
  \A q, r \in MatchIds : Waiting(q) /\ Waiting(r) /\ Owner[q] = Owner[r] => q = r

\* A request is in at most one session as its first and in at most one as its
\* second request: what the two indexes do guarantee.
RoleTakenOnce ==
  \A s, u \in DOMAIN sessions : s[1] = u[1] \/ s[2] = u[2] => s = u

\* Two travelers share one thread, whoever was matched with whom and in which
\* role, and share it with nobody else: imApi.js derives it from the members.
OneThreadPerPair ==
  \A s, u \in {s \in DOMAIN sessions : sessions[s] \notin {NoThread, ClientThread}} :
    sessions[s] = sessions[u] <=> {Owner[s[1]], Owner[s[2]]} = {Owner[u[1]], Owner[u[2]]}

\* The refinement mapping: what can be seen of the rows, when locks, copies and
\* transactions under way are forgotten.
Board == INSTANCE MatchBoard WITH
  posted <- {r \in MatchIds : status[r] # "none"},
  waiting <- {r \in MatchIds : Waiting(r)},
  matches <- sessions

\* Transactions of several statements, of which others see the rows half way
\* and wait or skip, do what MatchBoard does in one step: a request waits once,
\* alone of its profile, and who is taken as a partner was waiting until then.
KeepsBoard == Board!BoardSpec

\* Two requests that fit do not both wait for ever while they are kept fresh,
\* though workers, starts and deadlocks get into one another's way.
CompatibleAreMatched ==
  \A pair \in Compatible :
    []<>~(\E q, r \in pair : Fits(q, r) /\ CanBeTried(q) /\ CanBeTried(r))

\* db/migrations/0007_match_sessions_unique.sql:1: "Ensure each request only
\* appears in one session."
OneSessionPerRequest ==
  \A s, u \in DOMAIN sessions : {s[1], s[2]} \intersect {u[1], u[2]} # {} => s = u
=============================================================================
