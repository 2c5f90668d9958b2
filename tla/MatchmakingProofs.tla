--------------------------- MODULE MatchmakingProofs ---------------------------
(***************************************************************************)
(* Proofs about module Matchmaking: for any number of profiles, requests,  *)
(* workers and trips that fit, its safety properties hold.                 *)
(***************************************************************************)
EXTENDS Matchmaking, TLAPS

(***************************************************************************)
(* The invariant.  Behind the properties stands the discipline of the row  *)
(* locks, which try_match does not keep for its own request.               *)
(***************************************************************************)
\* The row a start_match has inserted cannot be seen yet, and it cancels all
\* others of its profile that wait.
Starters ==
  \A c \in Clients :
    InTx(c) => /\ status[call[c].a] = "none"
               /\ \A q \in MatchIds : Waiting(q) /\ Owner[q] = Owner[call[c].a] => q \in call[c].drop

\* Two start_match of one profile are not under way together.
OneStarter ==
  \A c, d \in Clients : c # d /\ InTx(c) /\ InTx(d) => Owner[call[c].a] # Owner[call[d].a]

\* A worker works for a request that exists.
WorkersRequest == \A w \in Workers : InTx(w) => status[call[w].a] # "none"

\* Rows that a transaction has written or locked wait, for all others, ...
HeldWaits == \A t \in Callers : \A q \in Holds(t) : Waiting(q)

\* ... and belong to one transaction.
Exclusive == \A t, u \in Callers : t # u => Holds(t) \intersect Holds(u) = {}

\* Whoever makes a thread makes it for a session.
Making ==
  \A t \in Callers :
    call[t].pc \in {"ensure", "attach"} => <<call[t].a, call[t].b>> \in DOMAIN sessions

\* A session has no thread, one a client named, or the one of its members.
Threads ==
  /\ sessions = [s \in DOMAIN sessions |-> sessions[s]]
  /\ \A s \in DOMAIN sessions : sessions[s] \in {NoThread, ClientThread, ThreadKey(s[1], s[2])}

Rows == MatchedIsSettled /\ OneWaitingPerProfile /\ RoleTakenOnce

MatchInv ==
  /\ MatchTypeOK /\ Starters /\ OneStarter /\ WorkersRequest /\ HeldWaits /\ Exclusive
  /\ Making /\ Threads /\ Rows

LEMMA IdleIsCall == Idle \in Call /\ Idle.pc = "idle"
  BY MatchIdsAssumption DEF Idle, Local, Call, SomeRequest

LEMMA InitHasInv == MatchInit => MatchInv
  <1> SUFFICES ASSUME MatchInit PROVE MatchInv
    OBVIOUS
  <1>1. \A t \in Callers : call[t] = Idle /\ ~InTx(t) /\ Holds(t) = {}
    BY IdleIsCall DEF MatchInit, InTx, Holds
  <1>2. DOMAIN sessions = {} /\ \A r \in MatchIds : status[r] = "none"
    BY DEF MatchInit
  <1>3. MatchTypeOK
    BY IdleIsCall, <1>2 DEF MatchInit, MatchTypeOK, MatchStatus
  <1>4. Starters /\ OneStarter /\ WorkersRequest
    BY <1>1 DEF Starters, OneStarter, WorkersRequest, Callers
  <1>5. HeldWaits /\ Exclusive
    BY <1>1 DEF HeldWaits, Exclusive
  <1>6. Making
    BY <1>1, IdleIsCall DEF Making
  <1>7. Threads
    BY DEF MatchInit, Threads
  <1>8. Rows
    BY <1>2 DEF Rows, MatchedIsSettled, OneWaitingPerProfile, RoleTakenOnce, Waiting, SessionsOf
  <1> QED
    BY <1>3, <1>4, <1>5, <1>6, <1>7, <1>8 DEF MatchInv

(***************************************************************************)
(* Steps that leave the rows alone.                                        *)
(***************************************************************************)
\* A call that is outside a transaction afterwards preserves the invariant.
LEMMA Outside ==
  ASSUME MatchInv, NEW t \in Callers, NEW r \in Call,
         call' = [call EXCEPT ![t] = r], r.pc \notin {"choose", "leave", "pair"},
         r.pc \in {"ensure", "attach"} => <<r.a, r.b>> \in DOMAIN sessions,
         UNCHANGED <<status, fresh, sessions>>
  PROVE  MatchInv'
  <1>0. call \in [Callers -> Call]
    BY DEF MatchInv, MatchTypeOK
  <1>1. /\ ~InTx(t)' /\ Holds(t)' = {}
        /\ \A u \in Callers \ {t} : call'[u] = call[u] /\ (InTx(u)' <=> InTx(u)) /\ Holds(u)' = Holds(u)
    BY <1>0 DEF InTx, Holds
  <1>2. MatchTypeOK'
    BY <1>0 DEF MatchInv, MatchTypeOK
  <1>3. Starters' /\ OneStarter' /\ WorkersRequest'
    BY <1>1 DEF MatchInv, Starters, OneStarter, WorkersRequest, Callers, Waiting
  <1>4. HeldWaits' /\ Exclusive'
    BY <1>1 DEF MatchInv, HeldWaits, Exclusive, Waiting
  <1>5. Making'
    BY <1>0 DEF MatchInv, Making
  <1>6. Threads' /\ Rows'
    BY DEF MatchInv, Threads, Rows, MatchedIsSettled, OneWaitingPerProfile, RoleTakenOnce, Waiting, SessionsOf
  <1> QED
    BY <1>2, <1>3, <1>4, <1>5, <1>6 DEF MatchInv

\* A transaction begins: it reads its request and locks the rows it writes.
LEMMA Begins ==
  ASSUME MatchInv, NEW t \in Callers, NEW r \in MatchIds, NEW drop \in SUBSET MatchIds,
         NEW stale \in SUBSET MatchIds,
         call[t].pc = "idle",
         call' = [call EXCEPT ![t] = Local("choose", r, r, drop, stale)],
         UNCHANGED <<status, fresh, sessions>>,
         \A q \in drop \union stale : Waiting(q) /\ ~Locked(q),
         t \in Clients => /\ status[r] = "none"
                          /\ \A q \in MatchIds : Waiting(q) /\ Owner[q] = Owner[r] => q \in drop
                          /\ \A c \in Clients : InTx(c) => Owner[call[c].a] # Owner[r],
         t \in Workers => status[r] # "none"
  PROVE  MatchInv'
  <1> DEFINE l == Local("choose", r, r, drop, stale)
  <1>0. call \in [Callers -> Call]
    BY DEF MatchInv, MatchTypeOK
  <1>1. l \in Call /\ l.pc = "choose" /\ l.a = r /\ l.drop = drop /\ l.stale = stale
    BY DEF Local, Call
  <1>2. call' = [call EXCEPT ![t] = l]
    OBVIOUS
  <1> HIDE DEF l
  <1>3. /\ call'[t] = l /\ InTx(t)' /\ Holds(t)' = drop \union stale
        /\ \A u \in Callers \ {t} : call'[u] = call[u] /\ (InTx(u)' <=> InTx(u)) /\ Holds(u)' = Holds(u)
    BY <1>0, <1>1, <1>2 DEF InTx, Holds
  <1>4. MatchTypeOK'
    BY <1>0, <1>1, <1>2 DEF MatchInv, MatchTypeOK
  <1>5. Starters' /\ OneStarter' /\ WorkersRequest'
    BY <1>1, <1>3 DEF MatchInv, Starters, OneStarter, WorkersRequest, Callers, Waiting
  <1>6. HeldWaits'
    BY <1>3 DEF MatchInv, HeldWaits, Waiting
  <1>7. Exclusive'
    BY <1>3 DEF MatchInv, Exclusive, Locked
  <1>8. Making'
    BY <1>1, <1>3 DEF MatchInv, Making
  <1>9. Threads' /\ Rows'
    BY DEF MatchInv, Threads, Rows, MatchedIsSettled, OneWaitingPerProfile, RoleTakenOnce, Waiting, SessionsOf
  <1> QED
    BY <1>4, <1>5, <1>6, <1>7, <1>8, <1>9 DEF MatchInv

\* A partner is chosen and locked, or nobody is.
LEMMA Chooses ==
  ASSUME MatchInv, NEW t \in Callers,
         (\E b \in MatchIds : Choose(t, b)) \/ ChooseNobody(t)
  PROVE  MatchInv'
  <1>0. call \in [Callers -> Call] /\ UNCHANGED <<status, fresh, sessions>> /\ call[t].pc = "choose"
    BY DEF MatchInv, MatchTypeOK, Choose, ChooseNobody
  <1>1. /\ call' \in [Callers -> Call]
        /\ call'[t].a = call[t].a /\ call'[t].drop = call[t].drop /\ call'[t].stale = call[t].stale
        /\ call'[t].pc \in {"pair", "leave"}
        /\ call'[t].pc = "pair" => Waiting(call'[t].b) /\ ~Locked(call'[t].b)
        /\ \A u \in Callers \ {t} : call'[u] = call[u]
    BY <1>0 DEF Choose, ChooseNobody, Call, Partners, CanBeTried
  <1>2. /\ InTx(t) /\ InTx(t)' /\ Holds(t) = call[t].drop \union call[t].stale
        /\ call'[t].pc = "leave" => Holds(t)' = Holds(t)
        /\ call'[t].pc = "pair" => Holds(t)' = Holds(t) \union {call'[t].b}
        /\ \A u \in Callers \ {t} : (InTx(u)' <=> InTx(u)) /\ Holds(u)' = Holds(u)
    BY <1>0, <1>1 DEF InTx, Holds
  <1>3. MatchTypeOK'
    BY <1>0, <1>1 DEF MatchInv, MatchTypeOK
  <1>4. Starters' /\ OneStarter' /\ WorkersRequest'
    BY <1>0, <1>1, <1>2 DEF MatchInv, Starters, OneStarter, WorkersRequest, Callers, Waiting
  <1>5. HeldWaits'
    BY <1>0, <1>1, <1>2 DEF MatchInv, HeldWaits, Waiting
  <1>6. Exclusive'
    <2>1. \A u \in Callers \ {t} : Holds(t)' \intersect Holds(u) = {}
      BY <1>1, <1>2 DEF MatchInv, Exclusive, Locked
    <2> QED
      BY <1>2, <2>1 DEF MatchInv, Exclusive
  <1>7. Making'
    BY <1>0, <1>1 DEF MatchInv, Making
  <1>8. Threads' /\ Rows'
    BY <1>0 DEF MatchInv, Threads, Rows, MatchedIsSettled, OneWaitingPerProfile, RoleTakenOnce, Waiting, SessionsOf
  <1> QED
    BY <1>3, <1>4, <1>5, <1>6, <1>7, <1>8 DEF MatchInv

(***************************************************************************)
(* Steps that write rows.                                                  *)
(***************************************************************************)
\* A row is written by somebody who holds no lock: it waited and nobody had it.
LEMMA Unlocks ==
  ASSUME MatchInv, NEW gone \in SUBSET MatchIds, NEW new \in {"cancelled", "expired"},
         \A q \in gone : Waiting(q) /\ ~Locked(q),
         status' = [q \in MatchIds |-> IF q \in gone THEN new ELSE status[q]],
         UNCHANGED <<fresh, sessions, call>>
  PROVE  MatchInv'
  <1>0. status \in [MatchIds -> MatchStatus] /\ call \in [Callers -> Call] /\ DOMAIN sessions \subseteq Session
    BY DEF MatchInv, MatchTypeOK
  <1>1. \A t \in Callers : (InTx(t)' <=> InTx(t)) /\ Holds(t)' = Holds(t)
    BY DEF InTx, Holds
  <1>2. \A q \in MatchIds :
          /\ Waiting(q)' <=> Waiting(q) /\ q \notin gone
          /\ status'[q] = "none" <=> status[q] = "none"
          /\ status'[q] = "matched" <=> status[q] = "matched"
    BY <1>0 DEF Waiting
  <1>3. MatchTypeOK'
    BY <1>0 DEF MatchInv, MatchTypeOK, MatchStatus
  <1>4. Starters' /\ OneStarter' /\ WorkersRequest'
    BY <1>0, <1>1, <1>2 DEF MatchInv, Starters, OneStarter, WorkersRequest, Callers, Call
  <1>5. HeldWaits'
    <2>1. \A t \in Callers : Holds(t) \subseteq MatchIds
      BY <1>0 DEF Holds, Call
    <2> QED
      BY <1>1, <1>2, <2>1 DEF MatchInv, HeldWaits, Locked
  <1>6. Exclusive' /\ Making' /\ Threads'
    BY <1>1 DEF MatchInv, Exclusive, Making, Threads
  <1>7. Rows'
    BY <1>2 DEF MatchInv, Rows, MatchedIsSettled, OneWaitingPerProfile, RoleTakenOnce, SessionsOf
  <1> QED
    BY <1>3, <1>4, <1>5, <1>6, <1>7 DEF MatchInv

\* What a transaction that ends did to the statuses.
LEMMA WrittenStatus ==
  ASSUME MatchInv, NEW t \in Callers, InTx(t), NEW q \in MatchIds
  PROVE  /\ Written(t) \in [MatchIds -> MatchStatus]
         /\ q \notin Holds(t) => Written(t)[q] = status[q]
         /\ q \in call[t].drop \union call[t].stale => Written(t)[q] \in {"cancelled", "expired"}
         /\ Written(t)[q] = "waiting" => status[q] = "waiting" /\ q \notin call[t].drop
         /\ Written(t)[q] = "none" <=> status[q] = "none"
         /\ Written(t)[q] = "matched" <=> status[q] = "matched"
  <1>1. status \in [MatchIds -> MatchStatus] /\ call \in [Callers -> Call]
    BY DEF MatchInv, MatchTypeOK
  <1>2. \A r \in call[t].drop \union call[t].stale : r \in Holds(t) /\ status[r] = "waiting"
    BY DEF Holds, MatchInv, HeldWaits, Waiting
  <1> QED
    BY <1>1, <1>2 DEF Written, MatchStatus

\* The transaction of start_match or of a worker ends without a partner.
LEMMA Leaves == ASSUME MatchInv, NEW t \in Callers, Leave(t) PROVE MatchInv'
  <1> DEFINE a == call[t].a
  <1>0. /\ status \in [MatchIds -> MatchStatus] /\ call \in [Callers -> Call] /\ a \in MatchIds
        /\ DOMAIN sessions \subseteq Session
    BY DEF MatchInv, MatchTypeOK, Call
  <1>1. /\ InTx(t) /\ call' = [call EXCEPT ![t] = Idle] /\ UNCHANGED <<fresh, sessions>>
        /\ status' = [Written(t) EXCEPT ![a] = IF @ = "none" THEN "waiting" ELSE @]
    BY DEF Leave, InTx, Become
  <1>2. /\ ~InTx(t)' /\ Holds(t)' = {}
        /\ \A u \in Callers \ {t} : call'[u] = call[u] /\ (InTx(u)' <=> InTx(u)) /\ Holds(u)' = Holds(u)
    BY <1>0, <1>1, IdleIsCall DEF InTx, Holds
  <1>3. \A q \in MatchIds :
          /\ q # a => status'[q] = Written(t)[q]
          /\ status[a] # "none" => status'[q] = Written(t)[q]
          /\ status[a] = "none" => status'[a] = "waiting"
          /\ status'[q] = "matched" <=> status[q] = "matched"
    BY <1>0, <1>1, WrittenStatus
  <1>4. status[a] = "none" => t \in Clients
    BY <1>1 DEF MatchInv, WorkersRequest, Callers
  <1>5. status' \in [MatchIds -> MatchStatus]
    BY <1>0, <1>1, WrittenStatus DEF MatchStatus
  <1>6. MatchTypeOK'
    BY <1>0, <1>1, <1>5, IdleIsCall DEF MatchInv, MatchTypeOK
  <1>7. Starters'
    <2> SUFFICES ASSUME NEW c \in Clients, InTx(c)'
                 PROVE  /\ status'[call[c].a] = "none"
                        /\ \A q \in MatchIds : status'[q] = "waiting" /\ Owner[q] = Owner[call[c].a]
                                                 => q \in call[c].drop
      BY <1>2 DEF Starters, Waiting, Callers
    <2>1. c # t /\ InTx(c) /\ call[c].a \in MatchIds /\ status[call[c].a] = "none"
      BY <1>0, <1>2 DEF MatchInv, Starters, Callers, Call
    <2>2. status[a] = "none" => Owner[a] # Owner[call[c].a]
      BY <1>1, <1>4, <2>1 DEF MatchInv, OneStarter
    <2>3. status'[call[c].a] = "none"
      BY <1>1, <1>3, <2>1, <2>2, WrittenStatus
    <2>4. ASSUME NEW q \in MatchIds, status'[q] = "waiting", Owner[q] = Owner[call[c].a]
          PROVE  status[q] = "waiting"
      BY <1>1, <1>3, <2>2, <2>4, WrittenStatus
    <2> QED
      BY <2>1, <2>3, <2>4 DEF MatchInv, Starters, Waiting
  <1>8. OneStarter'
    BY <1>2 DEF MatchInv, OneStarter, Callers
  <1>9. WorkersRequest'
    BY <1>0, <1>1, <1>2, <1>3, WrittenStatus DEF MatchInv, WorkersRequest, Callers, Call
  <1>10. HeldWaits'
    <2> SUFFICES ASSUME NEW u \in Callers \ {t}, NEW q \in Holds(u) PROVE status'[q] = "waiting"
      BY <1>2 DEF HeldWaits, Waiting
    <2>1. q \in MatchIds /\ status[q] = "waiting" /\ q \notin Holds(t)
      BY <1>0 DEF MatchInv, HeldWaits, Exclusive, Holds, Call, Waiting
    <2> QED
      BY <1>1, <1>3, <2>1, WrittenStatus
  <1>11. Exclusive' /\ Making' /\ Threads'
    BY <1>0, <1>1, <1>2, IdleIsCall DEF MatchInv, Exclusive, Making, Threads
  <1>12. MatchedIsSettled' /\ RoleTakenOnce'
    BY <1>1, <1>3 DEF MatchInv, Rows, MatchedIsSettled, RoleTakenOnce, SessionsOf
  <1>13. OneWaitingPerProfile'
    <2> SUFFICES ASSUME NEW q \in MatchIds, NEW r \in MatchIds, status'[q] = "waiting",
                        status'[r] = "waiting", Owner[q] = Owner[r]
                 PROVE  q = r
      BY DEF OneWaitingPerProfile, Waiting
    <2>1. ASSUME NEW p \in MatchIds, p # a, status'[p] = "waiting"
          PROVE  status[p] = "waiting" /\ p \notin call[t].drop
      BY <1>1, <1>3, <2>1, WrittenStatus
    <2>2. ASSUME status[a] = "none", NEW p \in MatchIds, p # a, status'[p] = "waiting" PROVE Owner[p] # Owner[a]
      BY <1>1, <1>4, <2>1, <2>2 DEF MatchInv, Starters, Waiting
    <2>3. status[a] # "none" /\ status'[a] = "waiting" => status[a] = "waiting"
      BY <1>0, <1>1, <1>3, WrittenStatus
    <2> QED
      BY <1>0, <2>1, <2>2, <2>3 DEF MatchInv, Rows, OneWaitingPerProfile, Waiting
  <1> QED
    BY <1>6, <1>7, <1>8, <1>9, <1>10, <1>11, <1>12, <1>13 DEF MatchInv, Rows

\* A pair is made.  Its first request is written by id: it may be one that was
\* cancelled or matched meanwhile, but nobody else holds it.
LEMMA Pairs == ASSUME MatchInv, NEW t \in Callers, Pair(t) PROVE MatchInv'
  <1> DEFINE a == call[t].a
             b == call[t].b
             s0 == <<a, b>>
             r0 == IF t \in Workers THEN Idle ELSE Local("ensure", a, b, {}, {})
  <1>0. /\ status \in [MatchIds -> MatchStatus] /\ call \in [Callers -> Call]
        /\ a \in MatchIds /\ b \in MatchIds /\ DOMAIN sessions \subseteq Session
    BY DEF MatchInv, MatchTypeOK, Call
  <1>1. /\ InTx(t) /\ call[t].pc = "pair" /\ UNCHANGED fresh
        /\ \A u \in Callers \ {t} : a \notin Holds(u)
        /\ \A s \in DOMAIN sessions : s[1] # a /\ s[2] # b
    BY DEF Pair, InTx, WaitsFor, RoleTaken
  <1>2. /\ status' = [Written(t) EXCEPT ![a] = "matched", ![b] = "matched"]
        /\ call' = [call EXCEPT ![t] = r0]
        /\ sessions' = [s \in DOMAIN sessions \union {s0} |->
                          IF s \in DOMAIN sessions THEN sessions[s] ELSE NoThread]
    BY DEF Pair, Become
  <1>3. r0 \in Call /\ ((r0.pc = "ensure" /\ <<r0.a, r0.b>> = s0) \/ r0.pc = "idle")
    <2>1. CASE t \in Workers
      <3>1. r0 = Idle
        BY <2>1
      <3> HIDE DEF r0
      <3> QED
        BY <3>1, IdleIsCall
    <2>2. CASE t \notin Workers
      <3>1. r0 = [pc |-> "ensure", a |-> a, b |-> b, drop |-> {}, stale |-> {}]
        BY <2>2 DEF Local
      <3> QED
        BY <1>0, <3>1 DEF Call
    <2> QED
      BY <2>1, <2>2
  <1>4. s0 \in Session /\ s0[1] = a /\ s0[2] = b
    BY <1>0 DEF Session
  <1>5. DOMAIN sessions' = DOMAIN sessions \union {s0}
    BY <1>2
  <1>6. b \in Holds(t) /\ status[b] = "waiting"
    BY <1>1 DEF Holds, MatchInv, HeldWaits, Waiting
  <1> HIDE DEF r0, s0, a, b
  <1>7. /\ ~InTx(t)' /\ Holds(t)' = {}
        /\ \A u \in Callers \ {t} : call'[u] = call[u] /\ (InTx(u)' <=> InTx(u)) /\ Holds(u)' = Holds(u)
    BY <1>0, <1>2, <1>3 DEF InTx, Holds
  <1>8. \A q \in MatchIds :
          /\ status'[q] = IF q \in {a, b} THEN "matched" ELSE Written(t)[q]
          /\ status'[q] = "matched" <=> q \in {a, b} \/ status[q] = "matched"
          /\ status'[q] = "waiting" => status[q] = "waiting"
          /\ status'[q] = "none" => status[q] = "none"
          /\ status[q] = "none" /\ q # a => status'[q] = "none"
    BY <1>0, <1>1, <1>2, <1>6, WrittenStatus
  <1>9. MatchTypeOK'
    <2>1. status' \in [MatchIds -> MatchStatus]
      BY <1>0, <1>1, <1>2, WrittenStatus DEF MatchStatus
    <2> QED
      BY <1>0, <1>1, <1>2, <1>3, <1>4, <1>5, <2>1 DEF MatchInv, MatchTypeOK
  <1>10. Starters'
    <2> SUFFICES ASSUME NEW c \in Clients, InTx(c)'
                 PROVE  /\ status'[call[c].a] = "none"
                        /\ \A q \in MatchIds : status'[q] = "waiting" /\ Owner[q] = Owner[call[c].a]
                                                 => q \in call[c].drop
      BY <1>7 DEF Starters, Waiting, Callers
    <2>1. /\ c # t /\ InTx(c) /\ call[c].a \in MatchIds /\ status[call[c].a] = "none"
          /\ \A q \in MatchIds : status[q] = "waiting" /\ Owner[q] = Owner[call[c].a] => q \in call[c].drop
      BY <1>0, <1>7 DEF MatchInv, Starters, Callers, Call, Waiting
    <2>2. call[c].a # a
      <3>1. CASE t \in Clients
        BY <1>1, <2>1, <3>1 DEF MatchInv, OneStarter, a
      <3>2. CASE t \in Workers
        BY <1>1, <2>1, <3>2 DEF MatchInv, WorkersRequest, a
      <3> QED
        BY <3>1, <3>2 DEF Callers
    <2> QED
      BY <1>8, <2>1, <2>2
  <1>11. OneStarter'
    BY <1>7 DEF MatchInv, OneStarter, Callers
  <1>12. WorkersRequest'
    BY <1>0, <1>7, <1>8 DEF MatchInv, WorkersRequest, Callers, Call
  <1>13. HeldWaits'
    <2> SUFFICES ASSUME NEW u \in Callers \ {t}, NEW q \in Holds(u) PROVE status'[q] = "waiting"
      BY <1>7 DEF HeldWaits, Waiting
    <2>1. q \in MatchIds /\ status[q] = "waiting" /\ q \notin Holds(t)
      BY <1>0 DEF MatchInv, HeldWaits, Exclusive, Holds, Call, Waiting
    <2>2. q # a /\ q # b
      BY <1>1, <1>6, <2>1
    <2> QED
      BY <1>1, <1>8, <2>1, <2>2, WrittenStatus
  <1>14. Exclusive'
    BY <1>7 DEF MatchInv, Exclusive
  <1>15. Making'
    BY <1>0, <1>2, <1>3, <1>5, <1>7 DEF MatchInv, Making
  <1>16. Threads'
    BY <1>2, <1>5 DEF MatchInv, Threads
  <1>17. MatchedIsSettled'
    <2> SUFFICES ASSUME NEW q \in MatchIds
                 PROVE  status'[q] = "matched" <=> \E s \in DOMAIN sessions' : q \in {s[1], s[2]}
      BY DEF MatchedIsSettled, SessionsOf
    <2>1. status[q] = "matched" <=> \E s \in DOMAIN sessions : q \in {s[1], s[2]}
      BY DEF MatchInv, Rows, MatchedIsSettled, SessionsOf
    <2> QED
      BY <1>4, <1>5, <1>8, <2>1
  <1>18. OneWaitingPerProfile'
    BY <1>8 DEF MatchInv, Rows, OneWaitingPerProfile, Waiting
  <1>19. RoleTakenOnce'
    BY <1>1, <1>4, <1>5 DEF MatchInv, Rows, RoleTakenOnce
  <1> QED
    BY <1>9, <1>10, <1>11, <1>12, <1>13, <1>14, <1>15, <1>16, <1>17, <1>18, <1>19 DEF MatchInv, Rows

\* The thread of a session is written, by whoever.
LEMMA Attaches ==
  ASSUME MatchInv, NEW s0 \in DOMAIN sessions, NEW thread \in {ClientThread, ThreadKey(s0[1], s0[2])},
         sessions' = [sessions EXCEPT ![s0] = thread],
         UNCHANGED <<status, fresh>>,
         \/ UNCHANGED call
         \/ \E t \in Callers : ~InTx(t) /\ call' = [call EXCEPT ![t] = Idle]
  PROVE  MatchInv'
  <1>0. call \in [Callers -> Call] /\ DOMAIN sessions' = DOMAIN sessions
    BY DEF MatchInv, MatchTypeOK, Threads
  <1>1. \A u \in Callers : (InTx(u)' <=> InTx(u)) /\ Holds(u)' = Holds(u)
    BY <1>0, IdleIsCall DEF InTx, Holds
  <1>2. \A u \in Callers : InTx(u) => call'[u] = call[u]
    BY <1>0
  <1>3. MatchTypeOK'
    BY <1>0, IdleIsCall DEF MatchInv, MatchTypeOK
  <1>4. Starters' /\ OneStarter' /\ WorkersRequest'
    BY <1>1, <1>2 DEF MatchInv, Starters, OneStarter, WorkersRequest, Callers, Waiting
  <1>5. HeldWaits' /\ Exclusive'
    BY <1>1 DEF MatchInv, HeldWaits, Exclusive, Waiting
  <1>6. Making'
    BY <1>0, IdleIsCall DEF MatchInv, Making
  <1>7. Threads'
    BY <1>0 DEF MatchInv, Threads, ThreadKey
  <1>8. Rows'
    BY <1>0 DEF MatchInv, Rows, MatchedIsSettled, OneWaitingPerProfile, RoleTakenOnce, Waiting, SessionsOf
  <1> QED
    BY <1>3, <1>4, <1>5, <1>6, <1>7, <1>8 DEF MatchInv

(***************************************************************************)
(* Every step.                                                             *)
(***************************************************************************)
LEMMA NextKeepsInv == MatchInv /\ [MatchNext]_matchVars => MatchInv'
  <1> SUFFICES ASSUME MatchInv, [MatchNext]_matchVars PROVE MatchInv'
    OBVIOUS
  <1>0. /\ status \in [MatchIds -> MatchStatus] /\ call \in [Callers -> Call]
        /\ DOMAIN sessions \subseteq Session
    BY DEF MatchInv, MatchTypeOK
  <1>1. ASSUME NEW t \in Callers, Transaction(t) PROVE MatchInv'
    <2>1. CASE (\E b \in MatchIds : Choose(t, b)) \/ ChooseNobody(t)
      BY <2>1, Chooses
    <2>2. CASE Leave(t)
      BY <2>2, Leaves
    <2>3. CASE Pair(t)
      BY <2>3, Pairs
    <2>4. CASE PairFails(t) \/ DeadlockVictim(t)
      BY <2>4, IdleIsCall, Outside DEF PairFails, DeadlockVictim, Become
    <2> QED
      BY <1>1, <2>1, <2>2, <2>3, <2>4 DEF Transaction
  <1>2. ASSUME NEW w \in Workers, WorkerExpire(w) PROVE MatchInv'
    <2>1. Stale \in SUBSET MatchIds /\ \A q \in Stale : Waiting(q) /\ ~Locked(q)
      BY <1>2 DEF Stale, WorkerExpire
    <2>2. status' = [q \in MatchIds |-> IF q \in Stale THEN "expired" ELSE status[q]]
      BY <1>2 DEF WorkerExpire
    <2>3. UNCHANGED <<fresh, sessions, call>>
      BY <1>2 DEF WorkerExpire
    <2> QED
      BY <2>1, <2>2, <2>3, Unlocks
  <1>3. ASSUME NEW w \in Workers, NEW r \in MatchIds, WorkerTry(w, r) PROVE MatchInv'
    <2>1. /\ call[w].pc = "idle" /\ Waiting(r) /\ UNCHANGED <<status, fresh, sessions>>
          /\ call' = [call EXCEPT ![w] = Local("choose", r, r, {}, Stale)]
          /\ \A q \in Stale : ~Locked(q)
      BY <1>3 DEF WorkerTry, TryMatch, CanBeTried, Become
    <2>2. /\ {} \in SUBSET MatchIds /\ Stale \in SUBSET MatchIds
          /\ \A q \in {} \union Stale : Waiting(q) /\ ~Locked(q)
      BY <2>1 DEF Stale
    <2>3. w \in Callers /\ w \notin Clients /\ status[r] # "none"
      BY <2>1, ClientsAssumption DEF Callers, Waiting
    <2> QED
      BY <2>1, <2>2, <2>3, Begins
  <1>4. ASSUME NEW c \in Clients, NEW r \in MatchIds, StartMatch(c, r) PROVE MatchInv'
    <2> DEFINE drop == Superseded(Owner[r])
               stale == Stale \ drop
    <2>1. /\ call[c].pc = "idle" /\ status[r] = "none" /\ UNCHANGED <<status, fresh, sessions>>
          /\ call' = [call EXCEPT ![c] = Local("choose", r, r, drop, stale)]
          /\ \A q \in drop \union stale : ~Locked(q)
          /\ \A d \in Clients : InTx(d) => Owner[call[d].a] # Owner[r]
      BY <1>4 DEF StartMatch, Become
    <2>2. /\ drop \in SUBSET MatchIds /\ stale \in SUBSET MatchIds
          /\ \A q \in drop \union stale : Waiting(q)
          /\ \A q \in MatchIds : Waiting(q) /\ Owner[q] = Owner[r] => q \in drop
      BY DEF Stale, Superseded
    <2>3. c \in Callers /\ c \notin Workers
      BY ClientsAssumption DEF Callers
    <2> HIDE DEF drop, stale
    <2> QED
      BY <2>1, <2>2, <2>3, Begins
  <1>5. ASSUME NEW c \in Clients, NEW r \in MatchIds, NEW s \in DOMAIN sessions,
               Heartbeat(c, r, s) PROVE MatchInv'
    <2> DEFINE l == Local("ensure", s[1], s[2], {}, {})
    <2>1. s \in MatchIds \X MatchIds /\ s = <<s[1], s[2]>>
      BY <1>0 DEF Session
    <2>2. l \in Call /\ l.pc = "ensure" /\ <<l.a, l.b>> = s
      BY <2>1 DEF Local, Call
    <2>3. call' = [call EXCEPT ![c] = l] /\ UNCHANGED <<status, fresh, sessions>>
      BY <1>5 DEF Heartbeat, Become
    <2> HIDE DEF l
    <2> QED
      BY <2>2, <2>3, Outside DEF Callers
  <1>6. ASSUME NEW c \in Clients, EnsureThread(c) PROVE MatchInv'
    <2> DEFINE l == [call[c] EXCEPT !.pc = "attach"]
    <2>1. c \in Callers /\ call[c] \in Call /\ call[c].pc = "ensure"
      BY <1>0, <1>6 DEF Callers, EnsureThread
    <2>2. l \in Call /\ l.pc = "attach" /\ l.a = call[c].a /\ l.b = call[c].b
      BY <2>1 DEF Call
    <2>3. call' = [call EXCEPT ![c] = l] /\ UNCHANGED <<status, fresh, sessions>>
      BY <1>6 DEF EnsureThread
    <2>4. <<call[c].a, call[c].b>> \in DOMAIN sessions
      BY <2>1 DEF MatchInv, Making
    <2> HIDE DEF l
    <2> QED
      BY <2>1, <2>2, <2>3, <2>4, Outside
  <1>7. ASSUME NEW c \in Clients, EnsureFails(c) PROVE MatchInv'
    BY <1>7, IdleIsCall, Outside DEF EnsureFails, Become, Callers
  <1>8. ASSUME NEW c \in Clients, AttachThread(c) PROVE MatchInv'
    <2> DEFINE s0 == <<call[c].a, call[c].b>>
    <2>1. c \in Callers /\ call[c].pc = "attach" /\ ~InTx(c)
      BY <1>8 DEF AttachThread, Callers, InTx
    <2>2. s0 \in DOMAIN sessions
      BY <2>1 DEF MatchInv, Making
    <2>3. /\ sessions' = [sessions EXCEPT ![s0] = ThreadKey(s0[1], s0[2])]
          /\ call' = [call EXCEPT ![c] = Idle] /\ UNCHANGED <<status, fresh>>
      BY <1>8 DEF AttachThread, Become
    <2> HIDE DEF s0
    <2> QED
      BY <2>1, <2>2, <2>3, Attaches
  <1>9. ASSUME NEW s \in DOMAIN sessions, NEW force \in BOOLEAN, AttachConversation(s, force) PROVE MatchInv'
    BY <1>9, Attaches DEF AttachConversation
  <1>10. ASSUME NEW r \in MatchIds, Cancel(r) PROVE MatchInv'
    <2>1. status' = [q \in MatchIds |-> IF q \in {r} THEN "cancelled" ELSE status[q]]
      BY <1>0, <1>10 DEF Cancel
    <2>2. {r} \in SUBSET MatchIds /\ (\A q \in {r} : Waiting(q) /\ ~Locked(q)) /\ UNCHANGED <<fresh, sessions, call>>
      BY <1>10 DEF Cancel
    <2> QED
      BY <2>1, <2>2, Unlocks
  <1>11. ASSUME NEW r \in MatchIds, GetStale(r) PROVE MatchInv'
    <2>1. UNCHANGED <<status, sessions, call>> /\ fresh' = [fresh EXCEPT ![r] = FALSE]
      BY <1>11 DEF GetStale
    <2>2. \A u \in Callers : (InTx(u)' <=> InTx(u)) /\ Holds(u)' = Holds(u)
      BY <2>1 DEF InTx, Holds
    <2> QED
      BY <2>1, <2>2 DEF MatchInv, MatchTypeOK, Starters, OneStarter, WorkersRequest, HeldWaits, Exclusive,
         Making, Threads, Rows, MatchedIsSettled, OneWaitingPerProfile, RoleTakenOnce, Waiting, SessionsOf, Callers
  <1>12. ASSUME UNCHANGED matchVars PROVE MatchInv'
    <2>1. UNCHANGED <<status, fresh, sessions, call>>
      BY <1>12 DEF matchVars
    <2>2. \A u \in Callers : (InTx(u)' <=> InTx(u)) /\ Holds(u)' = Holds(u)
      BY <2>1 DEF InTx, Holds
    <2> QED
      BY <2>1, <2>2 DEF MatchInv, MatchTypeOK, Starters, OneStarter, WorkersRequest, HeldWaits, Exclusive,
         Making, Threads, Rows, MatchedIsSettled, OneWaitingPerProfile, RoleTakenOnce, Waiting, SessionsOf, Callers
  <1>13. \A t \in Clients \union Workers : t \in Callers
    BY DEF Callers
  <1> QED
    BY <1>1, <1>2, <1>3, <1>4, <1>5, <1>6, <1>7, <1>8, <1>9, <1>10, <1>11, <1>12, <1>13
    DEF MatchNext, WorkerStep, ClientStep, Poll

LEMMA InvHolds == MatchSpec => []MatchInv
  BY InitHasInv, NextKeepsInv, PTL DEF MatchSpec

\* Every variable has its type, for any constants.
THEOREM MatchTypes == MatchSpec => []MatchTypeOK
  <1>1. MatchInv => MatchTypeOK
    BY DEF MatchInv
  <1> QED
    BY <1>1, InvHolds, PTL

\* A request is matched exactly when it is in a session.
THEOREM MatchedExactlyInSessions == MatchSpec => []MatchedIsSettled
  <1>1. MatchInv => MatchedIsSettled
    BY DEF MatchInv, Rows
  <1> QED
    BY <1>1, InvHolds, PTL

\* A profile has one request that waits.
THEOREM OneRequestWaits == MatchSpec => []OneWaitingPerProfile
  <1>1. MatchInv => OneWaitingPerProfile
    BY DEF MatchInv, Rows
  <1> QED
    BY <1>1, InvHolds, PTL

\* A request is the first of one session at most, and the second of one at most.
THEOREM RolesAreTakenOnce == MatchSpec => []RoleTakenOnce
  <1>1. MatchInv => RoleTakenOnce
    BY DEF MatchInv, Rows
  <1> QED
    BY <1>1, InvHolds, PTL

\* Two travelers share one thread and share it with nobody else.
THEOREM ThreadsArePairs == MatchSpec => []OneThreadPerPair
  <1>1. MatchInv => OneThreadPerPair
    BY DEF MatchInv, Threads, ThreadKey, OneThreadPerPair
  <1> QED
    BY <1>1, InvHolds, PTL

\* No session is undone or loses its thread, and no matched request becomes
\* anything else.
SettledForGood ==
  /\ DOMAIN sessions \subseteq DOMAIN sessions'
  /\ \A s \in DOMAIN sessions : sessions[s] # NoThread => sessions'[s] # NoThread
  /\ \A r \in MatchIds : status[r] = "matched" => status'[r] = "matched"

\* A match is final: cancellations, expiry, new requests of the profile and
\* transactions that read the request before it was matched (match_worker.js,
\* try_match) do not take it back, and the thread of a session is changed by an
\* attachment (routes/match.js) but never taken away.
THEOREM MatchesAreFinal == MatchSpec => [][SettledForGood]_matchVars
  <1>1. ASSUME MatchInv, MatchInv', MatchNext PROVE SettledForGood
    <2>1. ASSUME NEW a \in MatchIds, NEW b \in MatchIds
          PROVE  ThreadKey(a, b) # NoThread
      BY ThreadAssumption DEF ThreadKey
    <2>2. ASSUME NEW t \in Callers, Pair(t)
          PROVE  /\ DOMAIN sessions \subseteq DOMAIN sessions'
                 /\ \A s \in DOMAIN sessions : sessions'[s] = sessions[s]
      BY <2>2 DEF Pair
    <2>3. ASSUME NEW c \in Callers, AttachThread(c)
          PROVE  /\ DOMAIN sessions \subseteq DOMAIN sessions'
                 /\ \A s \in DOMAIN sessions : sessions[s] # NoThread => sessions'[s] # NoThread
      <3>1. call[c].a \in MatchIds /\ call[c].b \in MatchIds
        BY <1>1 DEF MatchInv, MatchTypeOK, Call
      <3>2. PICK s0, k : s0 = <<call[c].a, call[c].b>> /\ k = ThreadKey(call[c].a, call[c].b)
        OBVIOUS
      <3>3. sessions' = [sessions EXCEPT ![s0] = k] /\ k # NoThread
        BY <2>1, <2>3, <3>1, <3>2 DEF AttachThread
      <3> QED
        BY <3>3
    <2>4. ASSUME NEW s \in DOMAIN sessions, NEW force \in BOOLEAN, AttachConversation(s, force)
          PROVE  /\ DOMAIN sessions \subseteq DOMAIN sessions'
                 /\ \A u \in DOMAIN sessions : sessions[u] # NoThread => sessions'[u] # NoThread
      BY <2>4, ThreadAssumption DEF AttachConversation
    <2>5. \/ UNCHANGED sessions
          \/ \E t \in Callers : Pair(t) \/ AttachThread(t)
          \/ \E s \in DOMAIN sessions, force \in BOOLEAN : AttachConversation(s, force)
      BY <1>1 DEF MatchNext, WorkerStep, ClientStep, Transaction, Callers, StartMatch, Heartbeat, Poll,
                  Cancel, GetStale, WorkerExpire, WorkerTry, TryMatch, Choose, ChooseNobody, Leave,
                  PairFails, DeadlockVictim, EnsureThread, EnsureFails
    <2>6. /\ DOMAIN sessions \subseteq DOMAIN sessions'
          /\ \A s \in DOMAIN sessions : sessions[s] # NoThread => sessions'[s] # NoThread
      BY <2>2, <2>3, <2>4, <2>5
    <2>7. ASSUME NEW r \in MatchIds, status[r] = "matched"
          PROVE  status'[r] = "matched"
      <3>1. SessionsOf(r) # {}
        BY <1>1, <2>7 DEF MatchInv, Rows, MatchedIsSettled
      <3>2. SessionsOf(r)' # {}
        BY <2>6, <3>1 DEF SessionsOf
      <3> QED
        BY <1>1, <3>2 DEF MatchInv, Rows, MatchedIsSettled
    <2> QED
      BY <2>6, <2>7 DEF SettledForGood
  <1>2. MatchInv /\ MatchInv' /\ [MatchNext]_matchVars => [SettledForGood]_matchVars
    BY <1>1
  <1> QED
    BY <1>2, InvHolds, PTL DEF MatchSpec

(***************************************************************************)
(* The promise: what MatchBoard does in one step each.                     *)
(***************************************************************************)
Up == {r \in MatchIds : Waiting(r)}

Known == {r \in MatchIds : status[r] # "none"}

\* A partner stays one that fits: who made a request, and what it asks for, is
\* not changed.
PairsFit == \A t \in Callers : call[t].pc = "pair" => Fits(call[t].a, call[t].b)

LEMMA OthersFit ==
  ASSUME MatchInv, PairsFit, NEW t \in Callers, NEW r,
         call' = [call EXCEPT ![t] = r], r.pc # "pair"
  PROVE  PairsFit'
  BY DEF MatchInv, MatchTypeOK, PairsFit, Fits

LEMMA NextKeepsFit == MatchInv /\ PairsFit /\ [MatchNext]_matchVars => PairsFit'
  <1> SUFFICES ASSUME MatchInv, PairsFit, [MatchNext]_matchVars PROVE PairsFit'
    OBVIOUS
  <1>0. call \in [Callers -> Call]
    BY DEF MatchInv, MatchTypeOK
  <1>1. ASSUME NEW t \in Callers, NEW b \in MatchIds, Choose(t, b) PROVE PairsFit'
    BY <1>0, <1>1 DEF Choose, Partners, PairsFit, Fits, Call
  <1>2. ASSUME NEW t \in Callers, ChooseNobody(t) \/ EnsureThread(t) PROVE PairsFit'
    BY <1>0, <1>2 DEF ChooseNobody, EnsureThread, PairsFit, Fits, Call
  <1>3. ASSUME NEW t \in Callers, NEW l, Become(t, l), l.pc # "pair" PROVE PairsFit'
    BY <1>3, OthersFit DEF Become
  <1>4. \A p, a, b, d, s : Local(p, a, b, d, s).pc = p
    BY DEF Local
  <1>5. ASSUME NEW t \in Callers,
               Leave(t) \/ PairFails(t) \/ DeadlockVictim(t) \/ EnsureFails(t) \/ AttachThread(t)
        PROVE  PairsFit'
    BY <1>3, <1>5, IdleIsCall DEF Leave, PairFails, DeadlockVictim, EnsureFails, AttachThread
  <1>6. ASSUME NEW t \in Callers, Pair(t) PROVE PairsFit'
    <2>1. Become(t, IF t \in Workers THEN Idle ELSE Local("ensure", call[t].a, call[t].b, {}, {}))
      BY <1>6 DEF Pair
    <2> QED
      BY <1>3, <1>4, <2>1, IdleIsCall
  <1>7. ASSUME NEW t \in Callers, NEW r \in MatchIds,
               StartMatch(t, r) \/ TryMatch(t, r) \/ \E s \in DOMAIN sessions : Heartbeat(t, r, s)
        PROVE  PairsFit'
    BY <1>3, <1>4, <1>7 DEF StartMatch, TryMatch, Heartbeat
  <1>8. ASSUME UNCHANGED call PROVE PairsFit'
    BY <1>8 DEF PairsFit, Fits
  <1> QED
    BY <1>1, <1>2, <1>5, <1>6, <1>7, <1>8
    DEF MatchNext, WorkerStep, ClientStep, Transaction, Callers, Poll, WorkerTry, WorkerExpire,
        AttachConversation, Cancel, GetStale, matchVars

\* A transaction ends without a partner: a new request goes up, alone of its
\* profile, and otherwise requests only come down.
LEMMA LeavesBoard ==
  ASSUME MatchInv, NEW t \in Callers, Leave(t)
  PROVE  Board!TakeDown \/ \E r \in Known' : Board!Post(r)
  <1>a. PICK a : a = call[t].a
    OBVIOUS
  <1>0. /\ status \in [MatchIds -> MatchStatus] /\ a \in MatchIds
        /\ InTx(t) /\ UNCHANGED sessions
        /\ status' = [Written(t) EXCEPT ![a] = IF @ = "none" THEN "waiting" ELSE @]
    BY <1>a DEF MatchInv, MatchTypeOK, Call, Leave, InTx
  <1>1. \A q \in MatchIds :
          /\ q # a \/ status[a] # "none" => status'[q] = Written(t)[q]
          /\ status[a] = "none" => status'[a] = "waiting"
    BY <1>0, WrittenStatus
  <1>2. \A q \in MatchIds : q # a \/ status[a] # "none" =>
          /\ status'[q] = "waiting" => status[q] = "waiting" /\ q \notin call[t].drop
          /\ status'[q] = "none" <=> status[q] = "none"
    BY <1>0, <1>1, WrittenStatus
  <1>3. CASE status[a] # "none"
    <2>1. Up' \subseteq Up /\ Known' = Known
      BY <1>2, <1>3 DEF Up, Known, Waiting
    <2> QED
      BY <1>0, <2>1 DEF Board!TakeDown, Up, Known
  <1>4. CASE status[a] = "none"
    <2>1. t \in Clients
      BY <1>a, <1>0, <1>4 DEF MatchInv, WorkersRequest, Callers
    <2>2. \A q \in MatchIds : Waiting(q) /\ Owner[q] = Owner[a] => q \in call[t].drop
      BY <1>a, <1>0, <2>1 DEF MatchInv, Starters
    <2>3. a \notin Known /\ Known' = Known \union {a}
      BY <1>0, <1>1, <1>2, <1>4 DEF Known
    <2>4. a \in Up' /\ Up' \subseteq (Up \union {a}) \ {}
      BY <1>0, <1>1, <1>2, <1>4 DEF Up, Waiting
    <2>5. \A q \in Up' \ {a} : Owner[q] # Owner[a]
      BY <1>2, <2>2 DEF Up, Waiting
    <2>6. Board!Post(a)
      BY <1>0, <2>3, <2>4, <2>5 DEF Board!Post, Board!Shrinks, Board!AloneOf, Up, Known
    <2> QED
      BY <2>3, <2>6
  <1> QED
    BY <1>3, <1>4

\* A pair is made: the partner was up until now, for its row is locked, and the
\* first may have come down.
LEMMA PairsBoard ==
  ASSUME MatchInv, PairsFit, NEW t \in Callers, Pair(t)
  PROVE  \E r \in Known', b \in Up : Board!Match(r, b)
  <1>a. PICK a, b : a = call[t].a /\ b = call[t].b
    OBVIOUS
  <1>0. /\ status \in [MatchIds -> MatchStatus] /\ a \in MatchIds /\ b \in MatchIds
        /\ InTx(t) /\ call[t].pc = "pair"
        /\ status' = [Written(t) EXCEPT ![a] = "matched", ![b] = "matched"]
    BY <1>a DEF MatchInv, MatchTypeOK, Call, Pair, InTx
  <1>1. Board!Fits(a, b)
    BY <1>a, <1>0 DEF PairsFit, Fits, Board!Fits
  <1>2. \A m \in DOMAIN sessions : m[1] # a /\ m[2] # b
    BY <1>a DEF Pair, RoleTaken
  <1>3. sessions' = [m \in DOMAIN sessions \union {<<a, b>>} |->
                       IF m \in DOMAIN sessions THEN sessions[m] ELSE NoThread]
    BY <1>a DEF Pair
  <1>4. b \in Up
    BY <1>a, <1>0 DEF Holds, MatchInv, HeldWaits, Up
  <1>5. t \in Clients => /\ status[a] = "none"
                         /\ \A q \in MatchIds : Waiting(q) /\ Owner[q] = Owner[a] => q \in call[t].drop
    BY <1>a, <1>0 DEF MatchInv, Starters
  <1>6. t \in Workers => status[a] # "none"
    BY <1>a, <1>0 DEF MatchInv, WorkersRequest
  <1>7. \A q \in MatchIds :
          /\ q \in {a, b} => status'[q] = "matched"
          /\ q \notin {a, b} => status'[q] = Written(t)[q]
    BY <1>0, WrittenStatus
  <1>8. \A q \in MatchIds :
          /\ status'[q] = "waiting" => status[q] = "waiting" /\ q \notin {a, b} \union call[t].drop
          /\ q # a => (status'[q] = "none" <=> status[q] = "none")
    BY <1>0, <1>4, <1>7, WrittenStatus DEF Up, Waiting
  <1>9. Known' = Known \union {a}
    BY <1>0, <1>7, <1>8 DEF Known
  <1>10. Up' \subseteq (Up \union {}) \ {a, b}
    BY <1>8 DEF Up, Waiting
  <1>11. a \notin Known => \A q \in Up' \ {a} : Owner[q] # Owner[a]
    <2> SUFFICES ASSUME status[a] = "none", NEW q \in Up' PROVE Owner[q] # Owner[a]
      BY <1>0 DEF Known
    <2>1. q \in MatchIds /\ Waiting(q) /\ q \notin call[t].drop
      BY <1>8 DEF Up, Waiting
    <2> QED
      BY <1>5, <1>6, <2>1 DEF Callers
  <1>12. Board!Match(a, b)
    BY <1>1, <1>2, <1>3, <1>4, <1>9, <1>10, <1>11
    DEF Board!Match, Board!Shrinks, Board!AloneOf, Up, Known
  <1> QED
    BY <1>4, <1>9, <1>12

\* Requests that come down and are not of a transaction.
LEMMA ComesDown ==
  ASSUME MatchInv, NEW gone \in SUBSET Up, NEW new \in {"cancelled", "expired"},
         status' = [q \in MatchIds |-> IF q \in gone THEN new ELSE status[q]],
         UNCHANGED sessions
  PROVE  Board!TakeDown
  <1>1. Up' \subseteq Up /\ Known' = Known
    BY DEF Up, Known, Waiting
  <1> QED
    BY <1>1 DEF Board!TakeDown, Up, Known

\* A thread is attached to a match.
LEMMA AttachesBoard ==
  ASSUME MatchInv,
         \/ \E c \in Callers : AttachThread(c)
         \/ \E s \in DOMAIN sessions, force \in BOOLEAN : AttachConversation(s, force)
  PROVE  \E m \in DOMAIN sessions : Board!Attach(m)
  <1>1. ASSUME NEW c \in Callers, AttachThread(c) PROVE \E m \in DOMAIN sessions : Board!Attach(m)
    <2> DEFINE m == <<call[c].a, call[c].b>>
    <2>1. m \in DOMAIN sessions
      BY <1>1 DEF MatchInv, Making, AttachThread
    <2>2. /\ sessions' = [sessions EXCEPT ![m] = {Owner[m[1]], Owner[m[2]]}]
          /\ UNCHANGED status
      BY <1>1 DEF AttachThread, ThreadKey
    <2> HIDE DEF m
    <2>3. Board!Attach(m)
      BY <2>2 DEF Board!Attach, Waiting
    <2> QED
      BY <2>1, <2>3
  <1>2. ASSUME NEW s \in DOMAIN sessions, NEW force \in BOOLEAN, AttachConversation(s, force)
        PROVE  Board!Attach(s)
    BY <1>2 DEF AttachConversation, Board!Attach, Waiting
  <1> QED
    BY <1>1, <1>2

LEMMA NextKeepsBoard ==
  MatchInv /\ PairsFit /\ [MatchNext]_matchVars => [Board!BoardNext]_Board!boardVars
  <1> SUFFICES ASSUME MatchInv, PairsFit, [MatchNext]_matchVars
               PROVE  [Board!BoardNext]_Board!boardVars
    OBVIOUS
  <1>1. CASE UNCHANGED <<status, sessions>>
    BY <1>1 DEF Board!boardVars, Waiting
  <1>2. ASSUME NEW t \in Callers, Leave(t) PROVE Board!BoardNext
    BY <1>2, LeavesBoard DEF Board!BoardNext, Known
  <1>3. ASSUME NEW t \in Callers, Pair(t) PROVE Board!BoardNext
    BY <1>3, PairsBoard DEF Board!BoardNext, Known, Up
  <1>4. ASSUME NEW w \in Workers, WorkerExpire(w) PROVE Board!BoardNext
    <2>1. Stale \in SUBSET Up
      BY DEF Stale, Up
    <2>2. /\ status' = [q \in MatchIds |-> IF q \in Stale THEN "expired" ELSE status[q]]
          /\ UNCHANGED sessions
      BY <1>4 DEF WorkerExpire
    <2> QED
      BY <2>1, <2>2, ComesDown DEF Board!BoardNext
  <1>5. ASSUME NEW r \in MatchIds, Cancel(r) PROVE Board!BoardNext
    <2>1. {r} \in SUBSET Up
      BY <1>5 DEF Cancel, Up
    <2>2. /\ status' = [q \in MatchIds |-> IF q \in {r} THEN "cancelled" ELSE status[q]]
          /\ UNCHANGED sessions
      BY <1>5 DEF Cancel, MatchInv, MatchTypeOK
    <2> QED
      BY <2>1, <2>2, ComesDown DEF Board!BoardNext
  <1>6. ASSUME \/ \E c \in Callers : AttachThread(c)
               \/ \E s \in DOMAIN sessions, force \in BOOLEAN : AttachConversation(s, force)
        PROVE  Board!BoardNext
    BY <1>6, AttachesBoard DEF Board!BoardNext
  <1>7. \/ UNCHANGED <<status, sessions>>
        \/ \E t \in Callers : Leave(t) \/ Pair(t) \/ AttachThread(t)
        \/ \E w \in Workers : WorkerExpire(w)
        \/ \E r \in MatchIds : Cancel(r)
        \/ \E s \in DOMAIN sessions, force \in BOOLEAN : AttachConversation(s, force)
    BY DEF MatchNext, WorkerStep, ClientStep, Transaction, Callers, StartMatch, Heartbeat, Poll,
           GetStale, WorkerTry, TryMatch, Choose, ChooseNobody, PairFails, DeadlockVictim,
           EnsureThread, EnsureFails, matchVars
  <1> QED
    BY <1>1, <1>2, <1>3, <1>4, <1>5, <1>6, <1>7

\* Matchmaking implements MatchBoard: start_match and try_match, of several
\* statements of which others see the rows half way, and the worker, cancels and
\* attachments beside them do what one step of the board does.
THEOREM BoardKept == MatchSpec => KeepsBoard
  <1>1. MatchInit => PairsFit
    BY IdleIsCall DEF MatchInit, PairsFit
  <1>2. MatchInit => Board!BoardInit
    BY DEF MatchInit, Board!BoardInit, Waiting
  <1>3. MatchSpec => []PairsFit
    BY <1>1, InvHolds, NextKeepsFit, PTL DEF MatchSpec
  <1> QED
    BY <1>2, <1>3, InvHolds, NextKeepsBoard, PTL DEF MatchSpec, KeepsBoard, Board!BoardSpec
================================================================================
