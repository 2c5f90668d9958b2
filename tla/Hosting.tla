------------------------------- MODULE Hosting -------------------------------
(***************************************************************************)
(* How a traveler becomes a host and what a host offers: one user's        *)
(* certification (server/src/routes/hostCertifications.js, reviewed there  *)
(* and in routes/adminHostCertifications.js), the cached test that the     *)
(* certification is approved (middlewares/requireApprovedHost.js) and the  *)
(* user's experiences (routes/experiences.js, routes/adminExperiences.js). *)
(*                                                                         *)
(* No handler opens a transaction.  Each reads a row, checks its copy and  *)
(* later writes the row by its id, and what it writes elsewhere (the badge *)
(* of the experiences, the cache) follows in further statements.  Audit    *)
(* rows repeat what the statement before them did and are left out; texts  *)
(* are, too: a text that checkText refuses ends the request.               *)
(***************************************************************************)
EXTENDS Naturals, FiniteSets

CONSTANTS Tasks,        \* requests the server works on at the same time
          ExperienceIds,\* the experiences the user can make (a bound)
          AutoApprove,  \* config.flags.hostCertAutoApprove
          HostOps       \* what users and admins ask for (a bound)

ASSUME AutoApproveAssumption == AutoApprove \in BOOLEAN

VARIABLES
  cert,     \* host_certifications: the status and the documents of the row
  cache,    \* requireApprovedHost's entry for the user, and whether it is unexpired
  exp,      \* experiences: status, host_cert_status, and whether the row was
            \* published by a submission (published_at) or touched by an admin
  task,     \* the local state of each request
  history   \* what has happened once: documents were validated, an approval

hostVars == <<cert, cache, exp, task, history>>

CertStatus == {"none", "draft", "submitted", "reviewing", "approved", "rejected"}

Docs == {"lacking", "complete"}

ExpStatus == {"draft", "published", "paused", "archived", "rejected"}

Badge == {"unset", "submitted", "reviewing", "approved", "rejected"}

Experience == [status : ExpStatus \union {"absent", "deleted"}, badge : Badge, released : BOOLEAN]

Listed(x) == exp[x].status \in ExpStatus

\* The statuses in which the user may write or submit the certification.
Editable == {"draft", "rejected"} \union (IF AutoApprove THEN {"submitted"} ELSE {})

\* Mutant of Reviewable: drafts can be decided, too.
Reviewable_Draft(decision) ==
  IF decision = "reviewing" THEN {"submitted"} ELSE {"draft", "submitted", "reviewing"}

\* The statuses in which each decision of a reviewer is allowed.
Reviewable(decision) ==
  IF decision = "reviewing" THEN {"submitted"} ELSE {"submitted", "reviewing"}

(***************************************************************************)
(* The local state of a request: the statement it is at, the experience it *)
(* is about, what it will write, and the documents or the badge of its     *)
(* copy.  A write of the status of an experience is named by its handler.  *)
(***************************************************************************)
Task == [pc : {"idle", "draft", "cert", "badge", "clear", "remember", "open", "write"},
         op : {"none", "publish", "pause", "resume", "archive", "delete", "duplicate", "moderate"},
         x : ExperienceIds \union {"none"}, status : CertStatus \union ExpStatus, docs : Docs, badge : Badge]

NoTask == [pc |-> "idle", op |-> "none", x |-> "none", status |-> "none",
           docs |-> "lacking", badge |-> "unset"]

MayBegin(t, op) == task[t].pc = "idle" /\ op \in HostOps

Proceed(t, pc, status) == task' = [task EXCEPT ![t] = [NoTask EXCEPT !.pc = pc, !.status = status]]

Finish(t) == task' = [task EXCEPT ![t] = NoTask]

(***************************************************************************)
(* The certification.                                                      *)
(***************************************************************************)
\* PUT draft reads the row; with no row it will insert one.
DraftRead(t, docs) ==
  /\ MayBegin(t, "draft")
  /\ cert.status \in Editable \union {"none"}
  /\ task' = [task EXCEPT ![t] = [NoTask EXCEPT !.pc = "draft", !.status = cert.status, !.docs = docs]]
  /\ UNCHANGED <<cert, cache, exp, history>>

\* The insert fails when another draft was first (user_id is unique); the
\* update does not look at the status again, and neither writes the badge.
DraftWrite(t) ==
  /\ task[t].pc = "draft"
  /\ IF task[t].status = "none" /\ cert.status # "none"
     THEN Finish(t) /\ UNCHANGED cert
     ELSE /\ cert' = [status |-> "draft", docs |-> task[t].docs]
          /\ Proceed(t, "clear", "none")
  /\ UNCHANGED <<cache, exp, history>>

\* Submission reads the row and validates the documents of its copy (what it
\* reads of media_assets does not change any more).
SubmitRead(t) ==
  /\ MayBegin(t, "submit")
  /\ cert.status \in Editable
  /\ cert.docs = "complete"
  /\ history' = history \union {"validated"}
  /\ Proceed(t, "cert", "submitted")
  /\ UNCHANGED <<cert, cache, exp>>

\* A reviewer reads the row; the two consoles have the same rules.
ReviewRead(t, decision) ==
  /\ MayBegin(t, "review")
  /\ cert.status \in Reviewable(decision)
  /\ Proceed(t, "cert", decision)
  /\ UNCHANGED <<cert, cache, exp, history>>

\* The status is written by id, ...
CertWrite(t) ==
  /\ task[t].pc = "cert"
  /\ cert' = [cert EXCEPT !.status = task[t].status]
  /\ history' = history \union (IF task[t].status = "approved" THEN {"approved"} ELSE {})
  /\ Proceed(t, "badge", task[t].status)
  /\ UNCHANGED <<cache, exp>>

\* ... then the badge of every experience; a submission goes on to approve
\* itself when the flag says so.
BadgeWrite(t) ==
  /\ task[t].pc = "badge"
  /\ exp' = [x \in ExperienceIds |->
               IF Listed(x) THEN [exp[x] EXCEPT !.badge = task[t].status] ELSE exp[x]]
  /\ IF AutoApprove /\ task[t].status = "submitted"
     THEN Proceed(t, "cert", "approved")
     ELSE Proceed(t, "clear", "none")
  /\ UNCHANGED <<cert, cache, history>>

\* Whoever has written the certification clears the cache at last.
ClearCache(t) ==
  /\ task[t].pc = "clear"
  /\ cache' = [status |-> "unknown", live |-> FALSE]
  /\ Finish(t)
  /\ UNCHANGED <<cert, exp, history>>

(***************************************************************************)
(* requireApprovedHost, before creation, update, duplication and           *)
(* submission of an experience.  Which of them it is matters behind it.    *)
(***************************************************************************)
\* Mutant of CacheHit: an entry is used whether it has expired or not.
CacheHit_Expired == cache.status # "unknown"

\* cached && cached.expiresAt > Date.now()
CacheHit == cache.live

\* Mutant of LetThrough: everybody who has applied.
LetThrough_Applied(status) == status \notin {"none", "draft", "unknown"}

LetThrough(status) == status = "approved"

GateHit(t) ==
  /\ MayBegin(t, "gate")
  /\ CacheHit /\ LetThrough(cache.status)
  /\ Proceed(t, "open", "none")
  /\ UNCHANGED <<cert, cache, exp, history>>

GateQuery(t) ==
  /\ MayBegin(t, "gate")
  /\ ~CacheHit
  /\ Proceed(t, "remember", cert.status)
  /\ UNCHANGED <<cert, cache, exp, history>>

\* The entry is stored when the query answers, whatever was cleared meanwhile.
GateRemember(t) ==
  /\ task[t].pc = "remember"
  /\ cache' = [status |-> task[t].status, live |-> TRUE]
  /\ IF LetThrough(task[t].status) THEN Proceed(t, "open", "none") ELSE Finish(t)
  /\ UNCHANGED <<cert, exp, history>>

\* 60 seconds after it was stored.
CacheExpires ==
  /\ cache.live
  /\ cache' = [cache EXCEPT !.live = FALSE]
  /\ UNCHANGED <<cert, exp, task, history>>

(***************************************************************************)
(* The experiences.  has_active_orders is not tested here: no code sets it *)
(* and its default is false.                                               *)
(***************************************************************************)
\* The statuses each handler accepts ...
AllowedIn ==
  [publish |-> {"draft", "rejected"}, pause |-> {"published"}, resume |-> {"paused"},
   archive |-> {"published", "paused"}, delete |-> {"draft", "rejected", "archived"},
   duplicate |-> ExpStatus]

\* ... and the one it writes.
Writes ==
  [publish |-> "published", pause |-> "paused", resume |-> "published", archive |-> "archived",
   delete |-> "none", duplicate |-> "none"]

\* Creation inserts a draft without a badge.
CreateExperience(t, y) ==
  /\ task[t].pc = "open" /\ "create" \in HostOps
  /\ exp[y].status = "absent"
  /\ exp' = [exp EXCEPT ![y].status = "draft"]
  /\ Finish(t)
  /\ UNCHANGED <<cert, cache, history>>

\* PUT reads and writes texts, and leaves the status alone, whatever it is.
UpdateExperience(t, x) ==
  /\ task[t].pc = "open" /\ "update" \in HostOps
  /\ Listed(x)
  /\ Finish(t)
  /\ UNCHANGED <<cert, cache, exp, history>>

WillWrite(t, op, x, status, badge) ==
  /\ task' = [task EXCEPT ![t] = [NoTask EXCEPT !.pc = "write", !.op = op, !.x = x,
                                              !.status = status, !.badge = badge]]
  /\ UNCHANGED <<cert, cache, exp, history>>

\* Submission and duplication, behind the gate, read the experience ...
ReadOpened(t, op, x) ==
  /\ task[t].pc = "open" /\ op \in {"publish", "duplicate"} \intersect HostOps
  /\ exp[x].status \in AllowedIn[op]
  /\ WillWrite(t, op, x, Writes[op], IF op = "duplicate" THEN exp[x].badge ELSE "unset")

\* ... and so do the handlers that anyone in the role of a host may call.
ReadUngated(t, op, x) ==
  /\ MayBegin(t, op) /\ op \in {"pause", "resume", "archive", "delete"}
  /\ exp[x].status \in AllowedIn[op]
  /\ WillWrite(t, op, x, Writes[op], "unset")

\* An admin may set any status.
ModerateRead(t, x, status) ==
  /\ MayBegin(t, "moderate")
  /\ Listed(x)
  /\ WillWrite(t, "moderate", x, status, "unset")

\* The update by id, which finds nothing when the row was deleted meanwhile.
StatusWrite(t) ==
  LET x == task[t].x  op == task[t].op IN
  /\ task[t].pc = "write" /\ op \notin {"delete", "duplicate"}
  /\ exp' = IF Listed(x)
            THEN [exp EXCEPT ![x].status = task[t].status,
                             ![x].released = @ \/ op \in {"publish", "moderate"}]
            ELSE exp
  /\ Finish(t)
  /\ UNCHANGED <<cert, cache, history>>

DeleteWrite(t) ==
  LET x == task[t].x IN
  /\ task[t].pc = "write" /\ task[t].op = "delete"
  /\ exp' = IF Listed(x) THEN [exp EXCEPT ![x].status = "deleted"] ELSE exp
  /\ Finish(t)
  /\ UNCHANGED <<cert, cache, history>>

\* Mutant of CopyOf: the copy is as public as the original.
CopyOf_AsPublic(t) ==
  [status |-> IF Listed(task[t].x) THEN exp[task[t].x].status ELSE "draft",
   badge |-> task[t].badge, released |-> FALSE]

\* A copy is a draft that was never published and keeps the badge it read.
CopyOf(t) == [status |-> "draft", badge |-> task[t].badge, released |-> FALSE]

DuplicateWrite(t, y) ==
  /\ task[t].pc = "write" /\ task[t].op = "duplicate"
  /\ exp[y].status = "absent"
  /\ exp' = [exp EXCEPT ![y] = CopyOf(t)]
  /\ Finish(t)
  /\ UNCHANGED <<cert, cache, history>>

(***************************************************************************)
(* Failures and the specification.                                         *)
(***************************************************************************)
\* A read finds a status the request is not allowed in, or a statement fails:
\* what is done stays done, and the cache is not cleared.
TaskFails(t) ==
  /\ task[t].pc # "idle"
  /\ Finish(t)
  /\ UNCHANGED <<cert, cache, exp, history>>

\* The server starts again and has forgotten its cache.
HostRestart ==
  /\ "restart" \in HostOps
  /\ task' = [t \in Tasks |-> NoTask]
  /\ cache' = [status |-> "unknown", live |-> FALSE]
  /\ UNCHANGED <<cert, exp, history>>

HostInit ==
  /\ cert = [status |-> "none", docs |-> "lacking"]
  /\ cache = [status |-> "unknown", live |-> FALSE]
  /\ exp = [x \in ExperienceIds |-> [status |-> "absent", badge |-> "unset", released |-> FALSE]]
  /\ task = [t \in Tasks |-> NoTask]
  /\ history = {}

HostArrive(t) ==
  \/ \E docs \in Docs : DraftRead(t, docs)
  \/ SubmitRead(t)
  \/ \E decision \in {"reviewing", "approved", "rejected"} : ReviewRead(t, decision)
  \/ GateHit(t) \/ GateQuery(t)
  \/ \E x \in ExperienceIds :
       \/ \E op \in {"pause", "resume", "archive", "delete"} : ReadUngated(t, op, x)
       \/ \E status \in ExpStatus : ModerateRead(t, x, status)

HostContinue(t) ==
  \/ DraftWrite(t) \/ CertWrite(t) \/ BadgeWrite(t) \/ ClearCache(t) \/ GateRemember(t)
  \/ \E x \in ExperienceIds :
       \/ CreateExperience(t, x) \/ UpdateExperience(t, x) \/ DuplicateWrite(t, x)
       \/ \E op \in {"publish", "duplicate"} : ReadOpened(t, op, x)
  \/ StatusWrite(t) \/ DeleteWrite(t)
  \/ TaskFails(t)

HostNext ==
  \/ \E t \in Tasks : HostArrive(t) \/ HostContinue(t)
  \/ CacheExpires
  \/ HostRestart

HostSpec == HostInit /\ [][HostNext]_hostVars

\* Statements answer or fail, and time passes.
HostFairness == WF_hostVars(CacheExpires) /\ \A t \in Tasks : WF_hostVars(HostContinue(t))

HostFairSpec == HostSpec /\ HostFairness

(***************************************************************************)
(* Properties.                                                             *)
(***************************************************************************)
\* Every variable has its type.
HostTypeOK ==
  /\ cert \in [status : CertStatus, docs : Docs]
  /\ cache \in [status : CertStatus \union {"unknown"}, live : BOOLEAN]
  /\ exp \in [ExperienceIds -> Experience]
  /\ task \in [Tasks -> Task]
  /\ history \subseteq {"validated", "approved"}

\* Nothing is decided, or shown to be decided, about a user whose documents
\* were never validated: reviewers decide on stale reads and write by id,
\* drafts come in between, but some submission had all documents in order.
ValidatedBeforeDecision ==
  \/ "validated" \in history
  \/ /\ cert.status \in {"none", "draft"}
     /\ cache.status \in {"unknown", "none", "draft"}
     /\ "approved" \notin history
     /\ \A x \in ExperienceIds : exp[x].badge = "unset"

\* A user who was never approved has no experience, is not let through to make
\* one and is nowhere remembered or shown as approved, whatever the cache and
\* the requests under way have read.
ApprovedBeforeHosting ==
  \/ "approved" \in history
  \/ /\ cache.status # "approved"
     /\ \A t \in Tasks : task[t].pc # "open"
     /\ \A x \in ExperienceIds : exp[x].status = "absent" /\ exp[x].badge # "approved"

\* An experience is public, or has been, only by a submission that passed the
\* gate and the check of its text, or by an admin: neither late writes of pause
\* and resume, nor copies, nor writes to rows that were deleted get it there.
PublicOnlyBySubmission ==
  \A x \in ExperienceIds :
    exp[x].status \in {"published", "paused", "archived"} => exp[x].released

\* A certification that stays as it is gets known: in the end requests are
\* decided by that status, or ask for it, although an older one can be stored
\* after the cache was cleared, and a request that fails does not clear it.
CacheCatchesUp ==
  <>[][FALSE]_cert => <>[](CacheHit => cache.status = cert.status)
=============================================================================
