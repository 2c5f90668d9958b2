---------------------------- MODULE MessagesProofs ----------------------------
(***************************************************************************)
(* Proofs about messages.  Of module Messages: any number of requests for  *)
(* any messages write one log (ThreadLog).  Of module Delivery: any number *)
(* of workers share the push jobs, each with one of them.                  *)
(***************************************************************************)
EXTENDS Messages, Delivery, TLAPS

\* The rows are numbered up to last, ...
Numbered == \A m \in Messages, n \in 1..MaxSeq : <<m, n>> \in posted => n <= last

\* ... one transaction at most has the row of the thread, and the number it took
\* is the next one, ...
OneHolder ==
  \A q \in Requests :
    request[q].at = "insert" =>
      /\ request[q].seq = last + 1
      /\ \A p \in Requests \ {q} : request[p].at # "insert"

\* ... and what a request will answer with was written.
AnswersArePosted ==
  \A q \in Requests :
    request[q].at = "answer" => <<request[q].m, request[q].seq>> \in posted

MsgInv == MsgTypeOK /\ Numbered /\ OneHolder /\ AnswersArePosted

LEMMA NoRequestIsRequest == NoRequest \in Request /\ NoRequest.at = "idle"
  BY MaxSeqAssumption, SomethingToSend DEF NoRequest, Request, SomeMessage

LEMMA MsgBegins == MsgInit => MsgInv
  <1> SUFFICES ASSUME MsgInit PROVE MsgInv
    OBVIOUS
  <1>1. \A q \in Requests : request[q] = NoRequest
    BY DEF MsgInit
  <1>2. MsgTypeOK
    BY NoRequestIsRequest, MaxSeqAssumption DEF MsgInit, MsgTypeOK
  <1>3. Numbered
    BY DEF MsgInit, Numbered
  <1>4. OneHolder /\ AnswersArePosted
    BY <1>1, NoRequestIsRequest DEF OneHolder, AnswersArePosted
  <1> QED
    BY <1>2, <1>3, <1>4 DEF MsgInv

\* What a request that changes nothing but its own state preserves: all, if it
\* does not come to have the row, nor to answer.
LEMMA QuietStep ==
  ASSUME MsgInv, NEW q \in Requests, NEW r \in Request,
         request' = [request EXCEPT ![q] = r], r.at \in {"idle", "allocate"},
         UNCHANGED <<last, posted, gone>>, answers' \subseteq Messages \X (0..MaxSeq)
  PROVE  MsgInv'
  <1>0. request \in [Requests -> Request]
    BY DEF MsgInv, MsgTypeOK
  <1>1. MsgTypeOK'
    BY <1>0 DEF MsgInv, MsgTypeOK
  <1>2. Numbered'
    BY DEF MsgInv, Numbered
  <1>3. OneHolder'
    BY <1>0 DEF MsgInv, OneHolder
  <1>4. AnswersArePosted'
    BY <1>0 DEF MsgInv, AnswersArePosted
  <1> QED
    BY <1>1, <1>2, <1>3, <1>4 DEF MsgInv

\* Every step preserves the invariant.
LEMMA MsgGoesOn == MsgInv /\ [MsgNext]_msgVars => MsgInv'
  <1> SUFFICES ASSUME MsgInv, [MsgNext]_msgVars PROVE MsgInv'
    OBVIOUS
  <1>0. /\ last \in 0..MaxSeq /\ last \in Nat /\ posted \subseteq Messages \X (1..MaxSeq)
        /\ request \in [Requests -> Request] /\ gone \subseteq posted
        /\ answers \subseteq Messages \X (0..MaxSeq)
    BY MaxSeqAssumption DEF MsgInv, MsgTypeOK
  <1>1. ASSUME NEW q \in Requests, NEW m \in Messages, Known(q, m) PROVE MsgInv'
    <2>1. PICK n \in RowsOf(m) : answers' = answers \union {<<m, n>>}
      BY <1>1 DEF Known
    <2>2. <<m, n>> \in Messages \X (0..MaxSeq)
      BY <1>0, <2>1, MaxSeqAssumption DEF RowsOf
    <2>3. UNCHANGED <<last, posted, gone, request>>
      BY <1>1 DEF Known
    <2> QED
      BY <1>0, <2>1, <2>2, <2>3 DEF MsgInv, MsgTypeOK, Numbered, OneHolder, AnswersArePosted
  <1>2. ASSUME NEW q \in Requests, NEW m \in Messages, Unknown(q, m) PROVE MsgInv'
    <2> DEFINE r == [at |-> "allocate", m |-> m, seq |-> 0]
    <2>1. r \in Request /\ r.at = "allocate"
      BY MaxSeqAssumption DEF Request
    <2>2. request' = [request EXCEPT ![q] = r] /\ UNCHANGED <<last, posted, gone, answers>>
      BY <1>2 DEF Unknown, Move
    <2> HIDE DEF r
    <2> QED
      BY <1>0, <2>1, <2>2, QuietStep
  <1>3. ASSUME NEW q \in Requests, Allocate(q) PROVE MsgInv'
    <2> DEFINE r == [at |-> "insert", m |-> request[q].m, seq |-> last + 1]
    <2>1. request[q] \in Request
      BY <1>0
    <2>2. r \in Request /\ r.at = "insert" /\ r.seq = last + 1
      BY <1>0, <1>3, <2>1, MaxSeqAssumption DEF Request, Allocate
    <2>3. /\ request' = [request EXCEPT ![q] = r] /\ UNCHANGED <<last, posted, gone, answers>>
          /\ \A p \in Requests : request[p].at # "insert"
      BY <1>3 DEF Allocate, Move, RowFree
    <2> HIDE DEF r
    <2>4. MsgTypeOK' /\ Numbered'
      BY <1>0, <2>2, <2>3 DEF MsgInv, MsgTypeOK, Numbered
    <2>5. OneHolder'
      BY <1>0, <2>2, <2>3 DEF OneHolder
    <2>6. AnswersArePosted'
      BY <1>0, <2>2, <2>3 DEF MsgInv, AnswersArePosted
    <2> QED
      BY <2>4, <2>5, <2>6 DEF MsgInv
  <1>4. ASSUME NEW q \in Requests, Insert(q) PROVE MsgInv'
    <2> DEFINE m == request[q].m
               n == request[q].seq
               r == [at |-> "answer", m |-> m, seq |-> n]
    <2>1. request[q] \in Request /\ request[q].at = "insert"
      BY <1>0, <1>4 DEF Insert
    <2>2. n = last + 1 /\ \A p \in Requests \ {q} : request[p].at # "insert"
      BY <2>1 DEF MsgInv, OneHolder
    <2>3. m \in Messages /\ n \in 1..MaxSeq /\ r \in Request
      BY <1>0, <2>1, <2>2 DEF Request
    <2>4. /\ last' = n /\ posted' = posted \union {<<m, n>>}
          /\ request' = [request EXCEPT ![q] = r] /\ UNCHANGED <<gone, answers>>
      BY <1>4 DEF Insert, Move
    <2>5. r.at = "answer" /\ r.m = m /\ r.seq = n
      OBVIOUS
    <2> HIDE DEF m, n, r
    <2>6. MsgTypeOK'
      BY <1>0, <2>3, <2>4, MaxSeqAssumption DEF MsgTypeOK
    <2>7. Numbered'
      BY <1>0, <2>2, <2>3, <2>4 DEF MsgInv, Numbered
    <2>8. OneHolder'
      BY <1>0, <2>2, <2>4, <2>5 DEF OneHolder
    <2>9. AnswersArePosted'
      BY <1>0, <2>4, <2>5 DEF MsgInv, AnswersArePosted
    <2> QED
      BY <2>6, <2>7, <2>8, <2>9 DEF MsgInv
  <1>5. ASSUME NEW q \in Requests, InsertAgain(q) \/ Answer(q) \/ RequestFails(q) PROVE MsgInv'
    <2>1. request[q] \in Request
      BY <1>0
    <2>2. {<<request[q].m, 0>>, <<request[q].m, request[q].seq>>} \subseteq Messages \X (0..MaxSeq)
      BY <2>1, MaxSeqAssumption DEF Request
    <2>3. /\ request' = [request EXCEPT ![q] = NoRequest] /\ UNCHANGED <<last, posted, gone>>
          /\ answers' \subseteq answers \union {<<request[q].m, 0>>, <<request[q].m, request[q].seq>>}
      BY <1>5 DEF InsertAgain, Answer, RequestFails, End
    <2> QED
      BY <1>0, <2>2, <2>3, NoRequestIsRequest, QuietStep
  <1>6. ASSUME NEW entry \in posted, Retention(entry) PROVE MsgInv'
    BY <1>0, <1>6 DEF Retention, MsgInv, MsgTypeOK, Numbered, OneHolder, AnswersArePosted
  <1>7. ASSUME UNCHANGED msgVars PROVE MsgInv'
    BY <1>7 DEF msgVars, MsgInv, MsgTypeOK, Numbered, OneHolder, AnswersArePosted
  <1> QED
    BY <1>1, <1>2, <1>3, <1>4, <1>5, <1>6, <1>7 DEF MsgNext

\* For any number of requests and messages: the invariant, and with it the types
\* of the variables, holds.
THEOREM RequestsKeepOrder == MsgSpec => []MsgInv
  BY MsgBegins, MsgGoesOn, PTL DEF MsgSpec

\* A step of a request is a step of the log, or none.
LEMMA StepRefines == MsgInv /\ [MsgNext]_msgVars => [Log!LogNext]_(Log!logVars)
  <1> SUFFICES ASSUME MsgInv, MsgNext PROVE Log!LogNext \/ UNCHANGED Log!logVars
    BY DEF msgVars, Log!logVars
  <1>0. /\ last \in Nat /\ last <= MaxSeq /\ posted \subseteq Messages \X (1..MaxSeq)
        /\ request \in [Requests -> Request]
    BY MaxSeqAssumption DEF MsgInv, MsgTypeOK
  <1>1. ASSUME NEW q \in Requests, NEW m \in Messages, Known(q, m) PROVE Log!LogNext
    <2>1. PICK n \in RowsOf(m) : answers' = answers \union {<<m, n>>}
      BY <1>1 DEF Known
    <2>2. n \in 0..last /\ <<m, n>> \in posted
      BY <1>0, <2>1 DEF RowsOf
    <2>3. Log!Tell(m, n)
      BY <1>1, <2>1, <2>2 DEF Known, Log!Tell
    <2> QED
      BY <2>2, <2>3 DEF Log!LogNext
  <1>2. ASSUME NEW q \in Requests,
               (\E m \in Messages : Unknown(q, m)) \/ Allocate(q) \/ RequestFails(q)
        PROVE  UNCHANGED Log!logVars
    BY <1>2 DEF Unknown, Allocate, RequestFails, Log!logVars
  <1>3. ASSUME NEW q \in Requests, Insert(q) PROVE Log!LogNext
    <2>1. request[q].m \in Messages
      BY <1>0 DEF Request
    <2>2. request[q].seq = last + 1
      BY <1>3 DEF MsgInv, OneHolder, Insert
    <2>3. Log!Post(request[q].m)
      BY <1>3, <2>2 DEF Insert, Log!Post, Log!Kept, RowsOf
    <2> QED
      BY <2>1, <2>3 DEF Log!LogNext
  <1>4. ASSUME NEW q \in Requests, InsertAgain(q) PROVE Log!LogNext
    <2>1. request[q].m \in Messages
      BY <1>0 DEF Request
    <2>2. Log!Tell(request[q].m, 0) /\ 0 \in 0..last
      BY <1>0, <1>4 DEF InsertAgain, Log!Tell
    <2> QED
      BY <2>1, <2>2 DEF Log!LogNext
  <1>5. ASSUME NEW q \in Requests, Answer(q) PROVE Log!LogNext
    <2>1. request[q].m \in Messages
      BY <1>0 DEF Request
    <2>2. <<request[q].m, request[q].seq>> \in posted
      BY <1>5 DEF MsgInv, AnswersArePosted, Answer
    <2>3. request[q].seq \in 0..last
      BY <1>0, <2>1, <2>2 DEF MsgInv, Numbered
    <2>4. Log!Tell(request[q].m, request[q].seq)
      BY <1>5, <2>2 DEF Answer, Log!Tell
    <2> QED
      BY <2>1, <2>3, <2>4 DEF Log!LogNext
  <1>6. ASSUME NEW entry \in posted, Retention(entry) PROVE Log!LogNext
    BY <1>6 DEF Retention, Log!Expire, Log!LogNext
  <1> QED
    BY <1>1, <1>2, <1>3, <1>4, <1>5, <1>6 DEF MsgNext

\* For any number of requests and messages, what im-api and im-worker do to a
\* thread implements the log the documentation promises.
THEOREM MessagesAreALog == MsgSpec => ImplementsThreadLog
  <1>1. MsgInit => Log!LogInit
    BY DEF MsgInit, Log!LogInit
  <1> QED
    BY <1>1, StepRefines, RequestsKeepOrder, PTL DEF MsgSpec, ImplementsThreadLog, Log!LogSpec

(***************************************************************************)
(* Push jobs (module Delivery).                                            *)
(***************************************************************************)
JobsInv == DeliveryTypeOK /\ OneWorkerPerJob

Job == [at : JobAt, attempt : 0..PushMaxRetries, early : BOOLEAN]

\* A job that no worker has, before and after, changes.
LEMMA FreeJob ==
  ASSUME JobsInv, NEW p \in Pushes, NEW j \in Job, job' = [job EXCEPT ![p] = j],
         job[p].at \notin {"worker", "between"}, j.at \notin {"worker", "between"},
         UNCHANGED <<present, conn, ticking, consumer>>
  PROVE  JobsInv'
  <1>1. job \in [Pushes -> Job]
    BY DEF JobsInv, DeliveryTypeOK, Job
  <1>2. DeliveryTypeOK'
    BY <1>1 DEF JobsInv, DeliveryTypeOK, Job
  <1>3. OneWorkerPerJob'
    BY <1>1 DEF JobsInv, OneWorkerPerJob
  <1> QED
    BY <1>2, <1>3 DEF JobsInv

\* The job a worker has changes, and stays with it.
LEMMA HeldJob ==
  ASSUME JobsInv, NEW p \in Pushes, NEW j \in Job, job' = [job EXCEPT ![p] = j],
         job[p].at \in {"worker", "between"}, j.at \in {"worker", "between"},
         UNCHANGED <<present, conn, ticking, consumer>>
  PROVE  JobsInv'
  <1>1. job \in [Pushes -> Job]
    BY DEF JobsInv, DeliveryTypeOK, Job
  <1>2. DeliveryTypeOK'
    BY <1>1 DEF JobsInv, DeliveryTypeOK, Job
  <1>3. OneWorkerPerJob'
    BY <1>1 DEF JobsInv, OneWorkerPerJob
  <1> QED
    BY <1>2, <1>3 DEF JobsInv

\* A worker takes a job.
LEMMA TakenJob ==
  ASSUME JobsInv, NEW p \in Pushes, NEW w \in Consumers, Take(w, p)
  PROVE  JobsInv'
  <1>1. job \in [Pushes -> Job] /\ consumer \in [Consumers -> Pushes \union {"none"}]
    BY DEF JobsInv, DeliveryTypeOK, Job
  <1>2. PICK j : j = [job[p] EXCEPT !.at = "worker"]
    OBVIOUS
  <1>3. j \in Job /\ j.at = "worker"
    BY <1>1, <1>2 DEF Job, JobAt
  <1>4. job' = [job EXCEPT ![p] = j] /\ consumer' = [consumer EXCEPT ![w] = p]
        /\ consumer[w] = "none" /\ job[p].at = "stream" /\ UNCHANGED <<present, conn, ticking>>
    BY <1>2 DEF Take, SetJob
  <1>5. DeliveryTypeOK'
    BY <1>1, <1>3, <1>4 DEF JobsInv, DeliveryTypeOK, Job
  <1>6. ASSUME NEW q \in Pushes
        PROVE  /\ \A u, v \in Consumers : consumer'[u] = q /\ consumer'[v] = q => u = v
               /\ (\E u \in Consumers : consumer'[u] = q) <=> job'[q].at \in {"worker", "between"}
    <2>1. /\ \A u, v \in Consumers : consumer[u] = q /\ consumer[v] = q => u = v
          /\ (\E u \in Consumers : consumer[u] = q) <=> job[q].at \in {"worker", "between"}
      BY DEF JobsInv, OneWorkerPerJob
    <2>2. CASE q = p
      <3>1. \A u \in Consumers : consumer[u] # p
        BY <1>4, <2>1, <2>2
      <3>2. \A u \in Consumers : consumer'[u] = p <=> u = w
        BY <1>1, <1>4, <3>1
      <3>3. job'[p].at = "worker"
        BY <1>1, <1>3, <1>4
      <3> QED
        BY <2>2, <3>2, <3>3
    <2>3. CASE q # p
      <3>1. \A u \in Consumers : consumer'[u] = q <=> consumer[u] = q
        BY <1>1, <1>4, <2>3, PushesAssumption
      <3>2. job'[q] = job[q]
        BY <1>1, <1>4, <2>3
      <3> QED
        BY <2>1, <3>1, <3>2
    <2> QED
      BY <2>2, <2>3
  <1> QED
    BY <1>5, <1>6 DEF JobsInv, OneWorkerPerJob

\* A worker puts a job down.
LEMMA PutDownJob ==
  ASSUME JobsInv, NEW p \in Pushes, NEW w \in Consumers, consumer[w] = p,
         NEW at \in JobAt \ {"worker", "between"}, PutDown(w, p, at)
  PROVE  JobsInv'
  <1>1. job \in [Pushes -> Job] /\ consumer \in [Consumers -> Pushes \union {"none"}]
    BY DEF JobsInv, DeliveryTypeOK, Job
  <1>2. PICK j : j = [job[p] EXCEPT !.at = at]
    OBVIOUS
  <1>3. j \in Job /\ j.at = at
    BY <1>1, <1>2 DEF Job
  <1>4. job' = [job EXCEPT ![p] = j] /\ consumer' = [consumer EXCEPT ![w] = "none"]
        /\ UNCHANGED <<present, conn, ticking>>
    BY <1>2 DEF PutDown, SetJob
  <1>5. DeliveryTypeOK'
    BY <1>1, <1>3, <1>4 DEF JobsInv, DeliveryTypeOK, Job
  <1>6. ASSUME NEW q \in Pushes
        PROVE  /\ \A u, v \in Consumers : consumer'[u] = q /\ consumer'[v] = q => u = v
               /\ (\E u \in Consumers : consumer'[u] = q) <=> job'[q].at \in {"worker", "between"}
    <2>1. /\ \A u, v \in Consumers : consumer[u] = q /\ consumer[v] = q => u = v
          /\ (\E u \in Consumers : consumer[u] = q) <=> job[q].at \in {"worker", "between"}
      BY DEF JobsInv, OneWorkerPerJob
    <2>2. CASE q = p
      <3>1. \A u \in Consumers : consumer'[u] # p
        BY <1>1, <1>4, <2>1, <2>2, PushesAssumption
      <3>2. job'[p].at = at
        BY <1>1, <1>3, <1>4
      <3> QED
        BY <2>2, <3>1, <3>2
    <2>3. CASE q # p
      <3>1. \A u \in Consumers : consumer'[u] = q <=> consumer[u] = q
        BY <1>1, <1>4, <2>3, PushesAssumption
      <3>2. job'[q] = job[q]
        BY <1>1, <1>4, <2>3
      <3> QED
        BY <2>1, <3>1, <3>2
    <2> QED
      BY <2>2, <2>3
  <1> QED
    BY <1>5, <1>6 DEF JobsInv, OneWorkerPerJob

LEMMA JobsInvStarts == DeliveryInit => JobsInv
  <1> SUFFICES ASSUME DeliveryInit PROVE JobsInv
    OBVIOUS
  <1>1. PICK j : j = [at |-> "none", attempt |-> 0, early |-> FALSE]
    OBVIOUS
  <1>2. j \in Job
    BY <1>1, RetriesAssumption DEF Job, JobAt
  <1>3. job = [p \in Pushes |-> j]
    BY <1>1 DEF DeliveryInit
  <1>4. job \in [Pushes -> Job]
    BY <1>2, <1>3
  <1>5. DeliveryTypeOK
    BY <1>4 DEF DeliveryInit, DeliveryTypeOK, Job
  <1>6. OneWorkerPerJob
    BY PushesAssumption DEF DeliveryInit, OneWorkerPerJob
  <1> QED
    BY <1>5, <1>6 DEF JobsInv

LEMMA JobsInvStays == JobsInv /\ [DeliveryNext]_deliveryVars => JobsInv'
  <1> SUFFICES ASSUME JobsInv, [DeliveryNext]_deliveryVars PROVE JobsInv'
    OBVIOUS
  <1>0. job \in [Pushes -> Job]
    BY DEF JobsInv, DeliveryTypeOK, Job
  <1>1. ASSUME /\ UNCHANGED <<job, consumer>>
               /\ present' \in BOOLEAN /\ ticking' \subseteq Conns
               /\ conn' \in [Conns -> {"new", "open", "closing", "closed"}]
        PROVE  JobsInv'
    BY <1>1 DEF JobsInv, DeliveryTypeOK, OneWorkerPerJob
  <1>2. ASSUME NEW c \in Conns,
               Authenticate(c) \/ TimerFires(c) \/ Refresh(c) \/ Close(c) \/ ClearPresence(c)
        PROVE  JobsInv'
    BY <1>1, <1>2 DEF Authenticate, TimerFires, Refresh, Refreshed, Close, ClearPresence, JobsInv,
                      DeliveryTypeOK
  <1>3. ASSUME PresenceExpires \/ GatewayEnds \/ UNCHANGED deliveryVars
        PROVE  JobsInv'
    BY <1>1, <1>3 DEF PresenceExpires, GatewayEnds, deliveryVars, JobsInv, DeliveryTypeOK
  <1>4. ASSUME NEW p \in Pushes, CheckPresence(p) \/ AddJob(p) \/ AddFails(p)
        PROVE  JobsInv'
    <2>1. PICK at : /\ at \in {"online", "adding", "stream", "lost"}
                    /\ SetJob(p, at) /\ job[p].at \in {"none", "adding"}
                    /\ UNCHANGED <<present, conn, ticking, consumer>>
      BY <1>4 DEF CheckPresence, AddJob, AddFails
    <2>2. PICK j : j = [job[p] EXCEPT !.at = at]
      OBVIOUS
    <2>3. j \in Job /\ j.at = at
      BY <1>0, <2>1, <2>2 DEF Job, JobAt
    <2> QED
      BY <2>1, <2>2, <2>3, FreeJob DEF SetJob
  <1>5. ASSUME NEW p \in Pushes, Ripens(p)
        PROVE  JobsInv'
    <2>1. PICK j : j = [job[p] EXCEPT !.early = FALSE]
      OBVIOUS
    <2>2. j \in Job /\ j.at = job[p].at
      BY <1>0, <2>1 DEF Job
    <2>3. job' = [job EXCEPT ![p] = j] /\ UNCHANGED <<present, conn, ticking, consumer>>
      BY <1>5, <2>1 DEF Ripens
    <2> QED
      BY <2>2, <2>3, FreeJob, HeldJob
  <1>6. ASSUME NEW p \in Pushes, NEW w \in Consumers, Acknowledge(w, p) \/ TooEarly(w, p)
        PROVE  JobsInv'
    <2>1. CASE Acknowledge(w, p)
      <3>1. PICK j : j = [at |-> "between", attempt |-> job[p].attempt + 1, early |-> TRUE]
        OBVIOUS
      <3>2. job[p].attempt \in Nat /\ job[p].attempt + 1 < PushMaxRetries
        BY <1>0, <2>1, RetriesAssumption DEF Acknowledge, NextAttempt, Job
      <3>3. j \in Job /\ j.at = "between"
        BY <3>1, <3>2, RetriesAssumption DEF Job, JobAt
      <3>4. /\ job' = [job EXCEPT ![p] = j] /\ job[p].at = "worker"
            /\ UNCHANGED <<present, conn, ticking, consumer>>
        BY <1>0, <2>1, <3>1 DEF Acknowledge, Has, NextAttempt
      <3> QED
        BY <3>3, <3>4, HeldJob
    <2>2. CASE TooEarly(w, p)
      <3>1. PICK j : j = [job[p] EXCEPT !.at = "between"]
        OBVIOUS
      <3>2. j \in Job /\ j.at = "between"
        BY <1>0, <3>1 DEF Job, JobAt
      <3>3. /\ job' = [job EXCEPT ![p] = j] /\ job[p].at = "worker"
            /\ UNCHANGED <<present, conn, ticking, consumer>>
        BY <2>2, <3>1 DEF TooEarly, SetJob
      <3> QED
        BY <3>2, <3>3, HeldJob
    <2> QED
      BY <1>6, <2>1, <2>2
  <1>7. ASSUME NEW p \in Pushes, NEW w \in Consumers,
               Done(w, p) \/ TokensFail(w, p) \/ GiveUp(w, p) \/ AddAgain(w, p) \/ WorkerEnds(w, p)
        PROVE  JobsInv'
    <2>1. PICK at \in {"no device", "sent", "stranded", "dead", "lost", "stream"} :
            consumer[w] = p /\ PutDown(w, p, at)
      BY <1>7 DEF Done, TokensFail, GiveUp, AddAgain, WorkerEnds, Has
    <2>2. at \in JobAt \ {"worker", "between"}
      BY DEF JobAt
    <2> QED
      BY <2>1, <2>2, PutDownJob
  <1>8. ASSUME NEW p \in Pushes, NEW w \in Consumers, Take(w, p) \/ WorkOn(w, p) \/ WorkerEnds(w, p)
        PROVE  JobsInv'
    BY <1>6, <1>7, <1>8, TakenJob DEF WorkOn
  <1> QED
    BY <1>2, <1>3, <1>4, <1>5, <1>8 DEF DeliveryNext

\* For any number of connections, messages and workers the presence and the jobs
\* keep their types; no job is tried more often than it may be.
THEOREM DeliveryTypes == DeliverySpec => []DeliveryTypeOK
  <1>1. JobsInv => DeliveryTypeOK
    BY DEF JobsInv
  <1> QED
    BY <1>1, JobsInvStarts, JobsInvStays, PTL DEF DeliverySpec

\* No two workers have the same job, and none has a job that is over.
THEOREM WorkersShareNoJob == DeliverySpec => []OneWorkerPerJob
  <1>1. JobsInv => OneWorkerPerJob
    BY DEF JobsInv
  <1> QED
    BY <1>1, JobsInvStarts, JobsInvStays, PTL DEF DeliverySpec

\* What is sent, given up, stranded or lost stays so: no worker has it any more.
THEOREM OverIsOver == DeliverySpec => JobsEndOnce
  <1>1. ASSUME JobsInv, [DeliveryNext]_deliveryVars
        PROVE  [\A p \in Pushes : job[p].at \in Over => job'[p].at = job[p].at]_deliveryVars
    <2> SUFFICES ASSUME DeliveryNext, NEW p \in Pushes, job[p].at \in Over
                 PROVE  job'[p].at = job[p].at
      BY <1>1
    <2>1. job \in [Pushes -> Job]
      BY <1>1 DEF JobsInv, DeliveryTypeOK, Job
    <2>2. job[p].at \notin {"none", "adding", "stream", "worker", "between"}
      BY DEF Over, Settled
    <2>3. \A w \in Consumers : consumer[w] # p
      BY <1>1, <2>2 DEF JobsInv, OneWorkerPerJob
    <2>4. ASSUME NEW q \in Pushes, CheckPresence(q) \/ AddJob(q) \/ AddFails(q)
          PROVE  job'[p] = job[p]
      BY <2>1, <2>2, <2>4 DEF CheckPresence, AddJob, AddFails, SetJob
    <2>5. ASSUME NEW q \in Pushes, Ripens(q)
          PROVE  job'[p].at = job[p].at
      BY <2>1, <2>5 DEF Ripens, Job
    <2>6. ASSUME NEW q \in Pushes, NEW w \in Consumers, Take(w, q)
          PROVE  job'[p] = job[p]
      BY <2>1, <2>2, <2>6 DEF Take, SetJob
    <2>7. ASSUME NEW q \in Pushes, NEW w \in Consumers, WorkOn(w, q) \/ WorkerEnds(w, q)
          PROVE  job'[p] = job[p]
      <3>1. q # p
        BY <2>3, <2>7 DEF WorkOn, Done, TokensFail, GiveUp, Acknowledge, TooEarly, AddAgain,
                          WorkerEnds, Has
      <3> QED
        BY <2>1, <2>7, <3>1 DEF WorkOn, Done, TokensFail, GiveUp, Acknowledge, TooEarly, AddAgain,
                                WorkerEnds, PutDown, SetJob
    <2>8. ASSUME UNCHANGED job
          PROVE  job'[p] = job[p]
      BY <2>8
    <2> QED
      BY <2>4, <2>5, <2>6, <2>7, <2>8 DEF DeliveryNext, Authenticate, TimerFires, Refresh, Close,
                                          ClearPresence, PresenceExpires, GatewayEnds
  <1> QED
    BY <1>1, JobsInvStarts, JobsInvStays, PTL DEF DeliverySpec, JobsEndOnce
===============================================================================
