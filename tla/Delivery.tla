------------------------------- MODULE Delivery -------------------------------
(***************************************************************************)
(* How one user hears of messages: the presence that im-gateway keeps for  *)
(* the user in Redis (handleWS and readLoop of im-gateway/main.go), the    *)
(* push jobs im-api makes for a user who is not present (enqueuePushJobs   *)
(* of im/im-api/main.go), and im-worker, which sends them                  *)
(* (im/im-worker/main.go).                                                 *)
(*                                                                         *)
(* Every access to Redis is a step of its own.  The stream hands an entry  *)
(* to one worker and keeps it as pending until it is acknowledged; workers *)
(* only ask for entries that nobody was given (">").                       *)
(***************************************************************************)
EXTENDS Naturals

CONSTANTS Conns,        \* connections the user can open (a bound)
          Pushes,       \* messages to the user (a bound)
          Consumers,    \* workers
          PushMaxRetries

ASSUME RetriesAssumption == PushMaxRetries \in Nat \ {0}

ASSUME PushesAssumption == "none" \notin Pushes

VARIABLES
  present,  \* whether the key of the user's presence exists
  conn,     \* the state of each connection
  ticking,  \* connections whose timer has gone off and not yet been served
  job,      \* the push job of each message: where it is, its attempt, and
            \* whether available_at_ms is still to come
  consumer  \* the job each worker has

deliveryVars == <<present, conn, ticking, job, consumer>>

(***************************************************************************)
(* Presence.                                                               *)
(***************************************************************************)
\* A connection authenticates: the key is set, for 75 seconds.
Authenticate(c) ==
  /\ conn[c] = "new"
  /\ conn' = [conn EXCEPT ![c] = "open"]
  /\ present' = TRUE
  /\ UNCHANGED <<ticking, job, consumer>>

\* Every 30 seconds the timer of the connection goes off, ...
TimerFires(c) ==
  /\ conn[c] = "open" /\ c \notin ticking
  /\ ticking' = ticking \union {c}
  /\ UNCHANGED <<present, conn, job, consumer>>

\* Mutant of Refreshed: a timer only prolongs a key that is there.
Refreshed_IfPresent == present

\* SET with a time to live makes the key, or makes it again.
Refreshed == TRUE

\* ... and its goroutine sets the key, though the connection may have ended.
Refresh(c) ==
  /\ c \in ticking
  /\ present' = Refreshed
  /\ ticking' = ticking \ {c}
  /\ UNCHANGED <<conn, job, consumer>>

\* The connection ends, by the client or as a slow consumer, ...
Close(c) ==
  /\ conn[c] = "open"
  /\ conn' = [conn EXCEPT ![c] = "closing"]
  /\ UNCHANGED <<present, ticking, job, consumer>>

\* ... and takes the key away, whether another one is open or not.
ClearPresence(c) ==
  /\ conn[c] = "closing"
  /\ conn' = [conn EXCEPT ![c] = "closed"]
  /\ present' = FALSE
  /\ UNCHANGED <<ticking, job, consumer>>

\* 75 seconds without a refresh.
PresenceExpires ==
  /\ present
  /\ present' = FALSE
  /\ UNCHANGED <<conn, ticking, job, consumer>>

\* The gateway ends: nothing is cleared.
GatewayEnds ==
  /\ conn' = [c \in Conns |-> IF conn[c] = "new" THEN "new" ELSE "closed"]
  /\ ticking' = {}
  /\ UNCHANGED <<present, job, consumer>>

(***************************************************************************)
(* Push jobs.  A job is nowhere yet, about to be added, in the stream, with*)
(* a worker, between two entries of the stream, or settled: the user was   *)
(* online or has no device, it was sent, or it was added to the dead       *)
(* letters.  It is stranded when it is pending with a worker that will not *)
(* look at it again, and lost when it is in no stream.                     *)
(***************************************************************************)
JobAt == {"none", "adding", "stream", "worker", "between", "online", "no device", "sent", "dead",
          "stranded", "lost"}

Settled == {"online", "no device", "sent", "dead"}

SetJob(p, at) == job' = [job EXCEPT ![p].at = at]

\* isUserOnline, after the message was committed ...
CheckPresence(p) ==
  /\ job[p].at = "none"
  /\ SetJob(p, IF present THEN "online" ELSE "adding")
  /\ UNCHANGED <<present, conn, ticking, consumer>>

\* ... and XADD.
AddJob(p) ==
  /\ job[p].at = "adding"
  /\ SetJob(p, "stream")
  /\ UNCHANGED <<present, conn, ticking, consumer>>

\* The service ends in between, or Redis fails: an error is logged.
AddFails(p) ==
  /\ job[p].at = "adding"
  /\ SetJob(p, "lost")
  /\ UNCHANGED <<present, conn, ticking, consumer>>

\* XREADGROUP ">".
Take(w, p) ==
  /\ consumer[w] = "none" /\ job[p].at = "stream"
  /\ SetJob(p, "worker")
  /\ consumer' = [consumer EXCEPT ![w] = p]
  /\ UNCHANGED <<present, conn, ticking>>

\* The worker is done with the entry, and the job is where it says.
PutDown(w, p, at) ==
  /\ SetJob(p, at)
  /\ consumer' = [consumer EXCEPT ![w] = "none"]
  /\ UNCHANGED <<present, conn, ticking>>

\* An entry that is worked on, now that its time has come.
Has(w, p) == consumer[w] = p /\ job[p].at = "worker" /\ ~job[p].early

\* No device, or everything sent: the entry is acknowledged.
Done(w, p) == Has(w, p) /\ (PutDown(w, p, "no device") \/ PutDown(w, p, "sent"))

\* The query for the devices fails: the entry stays pending.
TokensFail(w, p) == Has(w, p) /\ PutDown(w, p, "stranded")

\* Mutant of NextAttempt: the attempt is not counted.
NextAttempt_Same(attempt) == attempt

NextAttempt(attempt) == attempt + 1

\* retryOrDLQ, when some device was not reached: after the last attempt the job
\* is added to the dead letters, or fails to be, and is acknowledged, ...
GiveUp(w, p) ==
  /\ Has(w, p)
  /\ NextAttempt(job[p].attempt) >= PushMaxRetries
  /\ PutDown(w, p, "dead") \/ PutDown(w, p, "lost")

\* ... before that the entry is acknowledged, and the job is in no stream ...
Acknowledge(w, p) ==
  /\ Has(w, p)
  /\ NextAttempt(job[p].attempt) < PushMaxRetries
  /\ job' = [job EXCEPT ![p] = [at |-> "between", attempt |-> NextAttempt(@.attempt), early |-> TRUE]]
  /\ UNCHANGED <<present, conn, ticking, consumer>>

\* ... until it is added again with a time from which on it may be tried.  A
\* worker that gets it too early does the same and counts nothing.
TooEarly(w, p) ==
  /\ consumer[w] = p /\ job[p].at = "worker" /\ job[p].early
  /\ SetJob(p, "between")
  /\ UNCHANGED <<present, conn, ticking, consumer>>

AddAgain(w, p) ==
  /\ consumer[w] = p /\ job[p].at = "between"
  /\ PutDown(w, p, "stream")

\* The time of the next attempt comes, a minute later at most.
Ripens(p) ==
  /\ job[p].early
  /\ job' = [job EXCEPT ![p].early = FALSE]
  /\ UNCHANGED <<present, conn, ticking, consumer>>

\* A worker ends, and comes back under another name, or cannot add an entry
\* again: what it had is stranded, or lost.
WorkerEnds(w, p) ==
  /\ consumer[w] = p
  /\ PutDown(w, p, IF job[p].at = "between" THEN "lost" ELSE "stranded")

DeliveryInit ==
  /\ present = FALSE
  /\ conn = [c \in Conns |-> "new"] /\ ticking = {}
  /\ job = [p \in Pushes |-> [at |-> "none", attempt |-> 0, early |-> FALSE]]
  /\ consumer = [w \in Consumers |-> "none"]

WorkOn(w, p) ==
  \/ Done(w, p) \/ TokensFail(w, p) \/ GiveUp(w, p) \/ Acknowledge(w, p)
  \/ TooEarly(w, p) \/ AddAgain(w, p)

DeliveryNext ==
  \/ \E c \in Conns : Authenticate(c) \/ TimerFires(c) \/ Refresh(c) \/ Close(c) \/ ClearPresence(c)
  \/ PresenceExpires \/ GatewayEnds
  \/ \E p \in Pushes :
       \/ CheckPresence(p) \/ AddJob(p) \/ AddFails(p) \/ Ripens(p)
       \/ \E w \in Consumers : Take(w, p) \/ WorkOn(w, p) \/ WorkerEnds(w, p)

DeliverySpec == DeliveryInit /\ [][DeliveryNext]_deliveryVars

\* Timers go off and are served, a connection that ends is cleaned up after,
\* a key that nobody refreshes expires; the stream is read and each job it has
\* is come to, what a worker has it works on.
DeliveryFairness ==
  /\ \A c \in Conns : WF_deliveryVars(TimerFires(c) \/ Refresh(c)) /\ WF_deliveryVars(ClearPresence(c))
  /\ WF_deliveryVars((\A c \in Conns : conn[c] # "open") /\ PresenceExpires)
  /\ \A p \in Pushes : /\ WF_deliveryVars(AddJob(p)) /\ WF_deliveryVars(Ripens(p))
                       /\ SF_deliveryVars(\E w \in Consumers : Take(w, p))
                       /\ WF_deliveryVars(\E w \in Consumers : WorkOn(w, p))

(***************************************************************************)
(* Properties.                                                             *)
(***************************************************************************)
\* Every variable has its type.
DeliveryTypeOK ==
  /\ present \in BOOLEAN
  /\ conn \in [Conns -> {"new", "open", "closing", "closed"}]
  /\ ticking \subseteq Conns
  /\ job \in [Pushes -> [at : JobAt, attempt : 0..PushMaxRetries, early : BOOLEAN]]
  /\ consumer \in [Consumers -> Pushes \union {"none"}]

\* The job is over: nothing is done with it again.
Over == Settled \union {"stranded", "lost"}

\* A job is with one worker at most, although entries are acknowledged, added
\* again and taken by others, and with none before it was taken and once it is
\* over; and whatever is worked on, or waits to be added again, is with one.
OneWorkerPerJob ==
  \A p \in Pushes :
    /\ \A v, w \in Consumers : consumer[v] = p /\ consumer[w] = p => v = w
    /\ (\E w \in Consumers : consumer[w] = p) <=> job[p].at \in {"worker", "between"}

\* A job that is over is never taken up again, nor counted otherwise: not by a
\* worker that ends later, nor by another round of attempts.
JobsEndOnce ==
  [][\A p \in Pushes : job[p].at \in Over => job'[p].at = job[p].at]_deliveryVars

\* Presence tells in the end whether a connection is open, although the end of
\* any connection, or a late timer of it, overwrites what the others have set:
\* who stays connected is present again and again, and who does not, is not.
PresenceSettles ==
  /\ \A c \in Conns : <>[](conn[c] = "open") => []<>present
  /\ <>[](\A c \in Conns : conn[c] # "open") => <>[]~present

\* A push job does not circulate for ever: it is sent, settled otherwise or
\* given up after its attempts, unless it is stranded with a worker that ended
\* or could not read the devices, or lost between two entries.
PushesSettle ==
  \A p \in Pushes : job[p].at = "stream" ~> job[p].at \in Over
=============================================================================
