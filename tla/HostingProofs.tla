----------------------------- MODULE HostingProofs -----------------------------
(***************************************************************************)
(* Proofs about module Hosting: for any number of requests and experiences *)
(* what stale reads, writes by id and the cache leave true of a user's     *)
(* certification and offers.                                               *)
(***************************************************************************)
EXTENDS Hosting, TLAPS

(***************************************************************************)
(* The invariant.  FitsIn says what the local state of a request can be,   *)
(* given the rows of the experiences and what has happened once.  Both     *)
(* only grow, so a request that does not move goes on fitting.             *)
(***************************************************************************)
Decision == {"submitted", "reviewing", "approved", "rejected"}

FitsIn(k, rows, past) ==
  /\ k.pc \in {"cert", "badge"} => k.status \in Decision
  /\ k.pc = "remember" => k.status \in CertStatus
  /\ k.pc = "write" =>
       /\ k.x \in ExperienceIds /\ rows[k.x].status # "absent"
       /\ k.op \notin {"delete", "duplicate"} => k.status \in ExpStatus
       /\ k.op \in {"pause", "resume", "archive"} => rows[k.x].released = TRUE
       /\ k.op \in {"pause", "resume", "archive", "publish", "moderate", "delete", "duplicate"}
  /\ "validated" \notin past =>
       /\ k.pc \notin {"cert", "badge"}
       /\ k.pc = "remember" => k.status \in {"none", "draft"}
  /\ "approved" \notin past =>
       /\ k.pc \notin {"open", "write"}
       /\ k.pc \in {"badge", "remember"} => k.status # "approved"

\* Before documents were validated.
Unvalidated ==
  "validated" \notin history =>
    /\ "approved" \notin history
    /\ cert.status \in {"none", "draft"}
    /\ cache.status \in {"unknown", "none", "draft"}

\* Before the first approval.
Unapproved ==
  "approved" \notin history =>
    /\ cert.status # "approved" /\ cache.status # "approved"
    /\ \A x \in ExperienceIds : exp[x].status = "absent" /\ exp[x].badge = "unset"

\* Public rows are released, and rows that are not there are not.
Released ==
  \A x \in ExperienceIds :
    /\ exp[x].status \in {"published", "paused", "archived"} => exp[x].released = TRUE
    /\ exp[x].status = "absent" => exp[x].released = FALSE

Fitting == \A t \in Tasks : FitsIn(task[t], exp, history)

HostInv == HostTypeOK /\ Unvalidated /\ Unapproved /\ Released /\ Fitting

\* The rows and the past only grow.
Grows ==
  /\ history \subseteq history'
  /\ \A x \in ExperienceIds : /\ exp[x].status # "absent" => exp'[x].status # "absent"
                              /\ exp[x].released = TRUE => exp'[x].released = TRUE

(***************************************************************************)
(* The local state of a request, field by field.                           *)
(***************************************************************************)
PC == {"idle", "draft", "cert", "badge", "clear", "remember", "open", "write"}

At(pc, status) == [NoTask EXCEPT !.pc = pc, !.status = status]

LEMMA TaskFields ==
  ASSUME NEW pc \in PC, NEW status \in CertStatus \union ExpStatus
  PROVE  /\ At(pc, status) \in Task
         /\ At(pc, status).pc = pc /\ At(pc, status).status = status
         /\ At(pc, status).x = "none" /\ At(pc, status).op = "none"
  <1>1. PICK k : k = At(pc, status)
    OBVIOUS
  <1>2. k = [NoTask EXCEPT !.pc = pc, !.status = status]
    BY <1>1 DEF At
  <1>3. k \in Task /\ k.pc = pc /\ k.status = status /\ k.x = "none" /\ k.op = "none"
    BY <1>2 DEF NoTask, Task, PC, CertStatus, ExpStatus, Docs, Badge
  <1> QED
    BY <1>1, <1>3

\* Proceeding is to be there.
LEMMA Proceeds ==
  ASSUME NEW t, NEW pc, NEW status, Proceed(t, pc, status)
  PROVE  task' = [task EXCEPT ![t] = At(pc, status)]
  BY DEF Proceed, At

LEMMA NoTaskFits == NoTask \in Task /\ NoTask.pc = "idle"
  BY DEF NoTask, Task, CertStatus, Docs, Badge

\* A request comes to a place, and the others stay where they are.
LEMMA TaskStep ==
  ASSUME HostInv, NEW t \in Tasks, NEW k \in Task, task' = [task EXCEPT ![t] = k],
         FitsIn(k, exp', history'), Grows
  PROVE  Fitting' /\ task' \in [Tasks -> Task]
  <1>1. task \in [Tasks -> Task]
    BY DEF HostInv, HostTypeOK
  <1>2. ASSUME NEW u \in Tasks, u # t PROVE FitsIn(task'[u], exp', history')
    <2>1. task'[u] = task[u] /\ FitsIn(task[u], exp, history)
      BY <1>1, <1>2 DEF HostInv, Fitting
    <2> QED
      BY <2>1 DEF FitsIn, Grows
  <1>3. task'[t] = k
    BY <1>1
  <1> QED
    BY <1>1, <1>2, <1>3 DEF Fitting

\* The rows, the certification and the cache stay as they are.
LEMMA RowsStay ==
  ASSUME HostInv, NEW t \in Tasks, NEW k \in Task, task' = [task EXCEPT ![t] = k],
         FitsIn(k, exp, history), UNCHANGED <<cert, cache, exp, history>>
  PROVE  HostInv'
  <1>1. Grows /\ FitsIn(k, exp', history')
    BY DEF Grows, FitsIn
  <1>2. Fitting' /\ task' \in [Tasks -> Task]
    BY <1>1, TaskStep
  <1> QED
    BY <1>2 DEF HostInv, HostTypeOK, Unvalidated, Unapproved, Released

LEMMA HostBegins == HostInit => HostInv
  <1> SUFFICES ASSUME HostInit PROVE HostInv
    OBVIOUS
  <1>1. HostTypeOK
    BY NoTaskFits DEF HostInit, HostTypeOK, CertStatus, Docs, Experience, Badge
  <1>2. Unvalidated /\ Unapproved /\ Released
    BY DEF HostInit, Unvalidated, Unapproved, Released
  <1>3. Fitting
    BY NoTaskFits DEF HostInit, Fitting, FitsIn
  <1> QED
    BY <1>1, <1>2, <1>3 DEF HostInv

(***************************************************************************)
(* The certification and the gate.                                         *)
(***************************************************************************)
\* A request goes on to another statement, and fits there.
LEMMA GoesOn ==
  ASSUME HostInv, NEW t \in Tasks, NEW pc \in PC, NEW status \in CertStatus \union ExpStatus,
         Proceed(t, pc, status), FitsIn(At(pc, status), exp', history'), Grows
  PROVE  Fitting' /\ task' \in [Tasks -> Task]
  <1>1. At(pc, status) \in Task
    BY TaskFields
  <1>2. task' = [task EXCEPT ![t] = At(pc, status)]
    BY Proceeds
  <1> QED
    BY <1>1, <1>2, TaskStep

LEMMA Finishes ==
  ASSUME HostInv, NEW t \in Tasks, Finish(t), Grows
  PROVE  Fitting' /\ task' \in [Tasks -> Task]
  <1>1. FitsIn(NoTask, exp', history')
    BY NoTaskFits DEF FitsIn
  <1> QED
    BY <1>1, NoTaskFits, TaskStep DEF Finish

LEMMA FinishesQuietly ==
  ASSUME HostInv, NEW t \in Tasks, Finish(t), UNCHANGED <<cert, cache, exp, history>>
  PROVE  HostInv'
  <1>1. FitsIn(NoTask, exp, history)
    BY NoTaskFits DEF FitsIn
  <1> QED
    BY <1>1, NoTaskFits, RowsStay DEF Finish

LEMMA ProceedsQuietly ==
  ASSUME HostInv, NEW t \in Tasks, NEW pc \in PC, NEW status \in CertStatus \union ExpStatus,
         Proceed(t, pc, status), FitsIn(At(pc, status), exp, history),
         UNCHANGED <<cert, cache, exp, history>>
  PROVE  HostInv'
  <1>1. At(pc, status) \in Task
    BY TaskFields
  <1>2. task' = [task EXCEPT ![t] = At(pc, status)]
    BY Proceeds
  <1> QED
    BY <1>1, <1>2, RowsStay

LEMMA DraftReads ==
  ASSUME HostInv, NEW t \in Tasks, NEW docs \in Docs, DraftRead(t, docs) PROVE HostInv'
  <1>1. PICK k : k = [NoTask EXCEPT !.pc = "draft", !.status = cert.status, !.docs = docs]
    OBVIOUS
  <1>2. k \in Task /\ k.pc = "draft"
    BY <1>1 DEF NoTask, Task, HostInv, HostTypeOK, CertStatus, Badge
  <1>3. task' = [task EXCEPT ![t] = k] /\ UNCHANGED <<cert, cache, exp, history>>
    BY <1>1 DEF DraftRead
  <1>4. FitsIn(k, exp, history)
    BY <1>2 DEF FitsIn
  <1> QED
    BY <1>2, <1>3, <1>4, RowsStay

LEMMA SubmitReads == ASSUME HostInv, NEW t \in Tasks, SubmitRead(t) PROVE HostInv'
  <1>1. "cert" \in PC /\ "submitted" \in CertStatus \union ExpStatus
    BY DEF PC, CertStatus
  <1>2. At("cert", "submitted").pc = "cert" /\ At("cert", "submitted").status = "submitted"
    BY <1>1, TaskFields
  <1>3. /\ Proceed(t, "cert", "submitted") /\ history' = history \union {"validated"}
        /\ UNCHANGED <<cert, cache, exp>>
    BY DEF SubmitRead
  <1>4. FitsIn(At("cert", "submitted"), exp', history') /\ Grows
    BY <1>2, <1>3 DEF FitsIn, Grows, Decision
  <1>5. Fitting' /\ task' \in [Tasks -> Task]
    BY <1>1, <1>3, <1>4, GoesOn
  <1> QED
    BY <1>3, <1>5 DEF HostInv, HostTypeOK, Unvalidated, Unapproved, Released

LEMMA DraftWrites == ASSUME HostInv, NEW t \in Tasks, DraftWrite(t) PROVE HostInv'
  <1>1. CASE Finish(t) /\ UNCHANGED cert
    BY <1>1, FinishesQuietly DEF DraftWrite
  <1>2. CASE cert' = [status |-> "draft", docs |-> task[t].docs] /\ Proceed(t, "clear", "none")
    <2>1. "clear" \in PC /\ "none" \in CertStatus \union ExpStatus
      BY DEF PC, CertStatus
    <2>2. At("clear", "none").pc = "clear"
      BY <2>1, TaskFields
    <2>3. UNCHANGED <<cache, exp, history>>
      BY DEF DraftWrite
    <2>4. FitsIn(At("clear", "none"), exp', history') /\ Grows
      BY <2>2, <2>3 DEF FitsIn, Grows
    <2>5. Fitting' /\ task' \in [Tasks -> Task]
      BY <1>2, <2>1, <2>4, GoesOn
    <2>6. cert' \in [status : CertStatus, docs : Docs] /\ cert'.status = "draft"
      BY <1>2 DEF HostInv, HostTypeOK, Task, CertStatus
    <2> QED
      BY <2>3, <2>5, <2>6 DEF HostInv, HostTypeOK, Unvalidated, Unapproved, Released
  <1> QED
    BY <1>1, <1>2 DEF DraftWrite

LEMMA ReviewReads ==
  ASSUME HostInv, NEW t \in Tasks, NEW decision \in {"reviewing", "approved", "rejected"},
         ReviewRead(t, decision)
  PROVE  HostInv'
  <1>1. "cert" \in PC /\ decision \in CertStatus \union ExpStatus
    BY DEF PC, CertStatus
  <1>2. At("cert", decision).pc = "cert" /\ At("cert", decision).status = decision
    BY <1>1, TaskFields
  <1>3. "validated" \in history
    BY DEF ReviewRead, Reviewable, HostInv, Unvalidated
  <1>4. FitsIn(At("cert", decision), exp, history)
    BY <1>2, <1>3 DEF FitsIn, Decision
  <1> QED
    BY <1>1, <1>4, ProceedsQuietly DEF ReviewRead

LEMMA CertWrites == ASSUME HostInv, NEW t \in Tasks, CertWrite(t) PROVE HostInv'
  <1>1. task[t] \in Task /\ task[t].status \in Decision /\ "validated" \in history
    BY DEF HostInv, HostTypeOK, Fitting, FitsIn, CertWrite
  <1> DEFINE status == task[t].status
  <1>2. "badge" \in PC /\ status \in CertStatus \union ExpStatus
    BY <1>1 DEF PC, CertStatus, Decision
  <1> HIDE DEF status
  <1>3. At("badge", status).pc = "badge" /\ At("badge", status).status = status
    BY <1>2, TaskFields
  <1>4. /\ Proceed(t, "badge", status) /\ UNCHANGED <<cache, exp>>
        /\ history' = history \union (IF status = "approved" THEN {"approved"} ELSE {})
        /\ cert' = [cert EXCEPT !.status = status]
        /\ status \in Decision
    BY <1>1 DEF CertWrite, status
  <1>5. FitsIn(At("badge", status), exp', history') /\ Grows
    BY <1>1, <1>3, <1>4 DEF FitsIn, Grows
  <1>6. Fitting' /\ task' \in [Tasks -> Task]
    BY <1>2, <1>4, <1>5, GoesOn
  <1>7. /\ cert' \in [status : CertStatus, docs : Docs] /\ cert'.status = status
        /\ "validated" \in history' /\ history' \subseteq {"validated", "approved"}
    BY <1>1, <1>4 DEF HostInv, HostTypeOK, CertStatus, Decision
  <1> QED
    BY <1>4, <1>6, <1>7 DEF HostInv, HostTypeOK, Unvalidated, Unapproved, Released

LEMMA BadgeWrites == ASSUME HostInv, NEW t \in Tasks, BadgeWrite(t) PROVE HostInv'
  <1>1. task[t] \in Task /\ task[t].status \in Decision /\ "validated" \in history
    BY DEF HostInv, HostTypeOK, Fitting, FitsIn, BadgeWrite
  <1>2. PICK pc \in {"cert", "clear"}, status \in {"approved", "none"} :
          Proceed(t, pc, status) /\ (pc = "cert" => status = "approved")
    BY DEF BadgeWrite
  <1>3. pc \in PC /\ status \in CertStatus \union ExpStatus
    BY DEF PC, CertStatus
  <1>4. At(pc, status).pc = pc /\ At(pc, status).status = status
    BY <1>3, TaskFields
  <1>5. UNCHANGED <<cert, cache, history>>
    BY DEF BadgeWrite
  <1>6. exp' = [x \in ExperienceIds |->
                  IF Listed(x) THEN [exp[x] EXCEPT !.badge = task[t].status] ELSE exp[x]]
    BY DEF BadgeWrite
  <1>7. \A x \in ExperienceIds :
          /\ exp'[x] \in Experience
          /\ exp'[x].status = exp[x].status /\ exp'[x].released = exp[x].released
          /\ exp[x].status = "absent" => exp'[x].badge = exp[x].badge
    BY <1>1, <1>6 DEF HostInv, HostTypeOK, Experience, Badge, Decision, Listed, ExpStatus
  <1>8. exp' \in [ExperienceIds -> Experience]
    BY <1>6, <1>7
  <1>9. FitsIn(At(pc, status), exp', history') /\ Grows
    BY <1>1, <1>2, <1>4, <1>5, <1>7 DEF FitsIn, Grows, Decision
  <1>10. Fitting' /\ task' \in [Tasks -> Task]
    BY <1>2, <1>3, <1>9, GoesOn
  <1> QED
    BY <1>1, <1>5, <1>7, <1>8, <1>10 DEF HostInv, HostTypeOK, Unvalidated, Unapproved, Released

LEMMA ClearsCache == ASSUME HostInv, NEW t \in Tasks, ClearCache(t) PROVE HostInv'
  <1>1. Grows /\ UNCHANGED <<cert, exp, history>> /\ cache' = [status |-> "unknown", live |-> FALSE]
    BY DEF ClearCache, Grows
  <1>2. Fitting' /\ task' \in [Tasks -> Task]
    BY <1>1, Finishes DEF ClearCache
  <1> QED
    BY <1>1, <1>2 DEF HostInv, HostTypeOK, Unvalidated, Unapproved, Released

LEMMA GateHits == ASSUME HostInv, NEW t \in Tasks, GateHit(t) PROVE HostInv'
  <1>1. "open" \in PC /\ "none" \in CertStatus \union ExpStatus
    BY DEF PC, CertStatus
  <1>2. At("open", "none").pc = "open"
    BY <1>1, TaskFields
  <1>3. "approved" \in history /\ "validated" \in history
    BY DEF GateHit, LetThrough, HostInv, Unapproved, Unvalidated
  <1>4. FitsIn(At("open", "none"), exp, history)
    BY <1>2, <1>3 DEF FitsIn
  <1> QED
    BY <1>1, <1>4, ProceedsQuietly DEF GateHit

LEMMA GateQueries == ASSUME HostInv, NEW t \in Tasks, GateQuery(t) PROVE HostInv'
  <1> DEFINE status == cert.status
  <1>1. "remember" \in PC /\ status \in CertStatus \union ExpStatus /\ status \in CertStatus
    BY DEF PC, HostInv, HostTypeOK
  <1>2. /\ "validated" \notin history => status \in {"none", "draft"}
        /\ "approved" \notin history => status # "approved"
    BY DEF HostInv, Unvalidated, Unapproved
  <1>3. Proceed(t, "remember", status) /\ UNCHANGED <<cert, cache, exp, history>>
    BY DEF GateQuery
  <1> HIDE DEF status
  <1>4. At("remember", status).pc = "remember" /\ At("remember", status).status = status
    BY <1>1, TaskFields
  <1>5. FitsIn(At("remember", status), exp, history)
    BY <1>1, <1>2, <1>4 DEF FitsIn
  <1> QED
    BY <1>1, <1>3, <1>5, ProceedsQuietly

LEMMA GateRemembers == ASSUME HostInv, NEW t \in Tasks, GateRemember(t) PROVE HostInv'
  <1>1. /\ task[t] \in Task /\ task[t].status \in CertStatus
        /\ "approved" \notin history => task[t].status # "approved"
        /\ "validated" \notin history => task[t].status \in {"none", "draft"}
    BY DEF HostInv, HostTypeOK, Fitting, FitsIn, GateRemember
  <1>2. Grows /\ UNCHANGED <<cert, exp, history>> /\ cache' = [status |-> task[t].status, live |-> TRUE]
    BY DEF GateRemember, Grows
  <1>3. Fitting' /\ task' \in [Tasks -> Task]
    <2>1. CASE LetThrough(task[t].status)
      <3>1. "open" \in PC /\ "none" \in CertStatus \union ExpStatus
        BY DEF PC, CertStatus
      <3>2. At("open", "none").pc = "open"
        BY <3>1, TaskFields
      <3>3. "approved" \in history /\ "validated" \in history
        BY <1>1, <2>1 DEF LetThrough
      <3>4. FitsIn(At("open", "none"), exp', history')
        BY <1>2, <3>2, <3>3 DEF FitsIn
      <3>5. Proceed(t, "open", "none")
        BY <2>1 DEF GateRemember
      <3> QED
        BY <1>2, <3>1, <3>4, <3>5, GoesOn
    <2>2. CASE ~LetThrough(task[t].status)
      BY <1>2, <2>2, Finishes DEF GateRemember
    <2> QED
      BY <2>1, <2>2
  <1> QED
    BY <1>1, <1>2, <1>3 DEF HostInv, HostTypeOK, Unvalidated, Unapproved, Released

(***************************************************************************)
(* The experiences.                                                        *)
(***************************************************************************)
\* A request that will write an experience: it is let through, the row is
\* there, and pausing, resuming or archiving it has found it released.
LEMMA WillWrites ==
  ASSUME HostInv, NEW t \in Tasks, NEW op, NEW x \in ExperienceIds, NEW status, NEW badge \in Badge,
         WillWrite(t, op, x, status, badge),
         status \in ExpStatus \union {"none"}, exp[x].status # "absent",
         op \in {"pause", "resume", "archive", "publish", "moderate", "delete", "duplicate"},
         op \notin {"delete", "duplicate"} => status \in ExpStatus,
         op \in {"pause", "resume", "archive"} => exp[x].released = TRUE
  PROVE  HostInv'
  <1>1. PICK k : k = [NoTask EXCEPT !.pc = "write", !.op = op, !.x = x,
                                    !.status = status, !.badge = badge]
    OBVIOUS
  <1>2. k \in Task /\ k.pc = "write" /\ k.op = op /\ k.x = x /\ k.status = status
    BY <1>1 DEF NoTask, Task, CertStatus, Docs
  <1>3. task' = [task EXCEPT ![t] = k] /\ UNCHANGED <<cert, cache, exp, history>>
    BY <1>1 DEF WillWrite
  <1>4. "approved" \in history /\ "validated" \in history
    BY DEF HostInv, Unapproved, Unvalidated
  <1>5. FitsIn(k, exp, history)
    BY <1>2, <1>4 DEF FitsIn
  <1> QED
    BY <1>2, <1>3, <1>5, RowsStay

LEMMA OpenedReads ==
  ASSUME HostInv, NEW t \in Tasks, NEW op \in {"publish", "duplicate"}, NEW x \in ExperienceIds,
         ReadOpened(t, op, x)
  PROVE  HostInv'
  <1> DEFINE badge == IF op = "duplicate" THEN exp[x].badge ELSE "unset"
  <1>1. badge \in Badge
    BY DEF HostInv, HostTypeOK, Experience, Badge
  <1>2. /\ exp[x].status # "absent"
        /\ Writes[op] \in ExpStatus \union {"none"}
        /\ op # "duplicate" => Writes[op] \in ExpStatus
    BY DEF ReadOpened, AllowedIn, Writes, ExpStatus
  <1>3. WillWrite(t, op, x, Writes[op], badge)
    BY DEF ReadOpened
  <1> HIDE DEF badge
  <1> QED
    BY <1>1, <1>2, <1>3, WillWrites

LEMMA UngatedReads ==
  ASSUME HostInv, NEW t \in Tasks, NEW op \in {"pause", "resume", "archive", "delete"},
         NEW x \in ExperienceIds, ReadUngated(t, op, x)
  PROVE  HostInv'
  <1>1. /\ "unset" \in Badge /\ exp[x].status # "absent"
        /\ Writes[op] \in ExpStatus \union {"none"}
        /\ op # "delete" => Writes[op] \in ExpStatus
    BY DEF Badge, ReadUngated, AllowedIn, Writes, ExpStatus
  <1>2. op # "delete" => exp[x].released = TRUE
    BY DEF HostInv, Released, ReadUngated, AllowedIn
  <1>3. WillWrite(t, op, x, Writes[op], "unset")
    BY DEF ReadUngated
  <1> QED
    BY <1>1, <1>2, <1>3, WillWrites

LEMMA ModerateReads ==
  ASSUME HostInv, NEW t \in Tasks, NEW x \in ExperienceIds, NEW status \in ExpStatus,
         ModerateRead(t, x, status)
  PROVE  HostInv'
  <1>1. "unset" \in Badge /\ exp[x].status # "absent" /\ WillWrite(t, "moderate", x, status, "unset")
    BY DEF Badge, ModerateRead, Listed, ExpStatus
  <1> QED
    BY <1>1, WillWrites

\* A row is written, by a request that had the right to: it keeps its place
\* among the rows, and stays or becomes released when it is public.
LEMMA RowWritten ==
  ASSUME HostInv, NEW t \in Tasks, Finish(t), UNCHANGED <<cert, cache, history>>,
         NEW y \in ExperienceIds, NEW row \in Experience, exp' = [exp EXCEPT ![y] = row],
         "approved" \in history, row.status # "absent",
         exp[y].released = TRUE => row.released = TRUE,
         row.status \in {"published", "paused", "archived"} => row.released = TRUE
  PROVE  HostInv'
  <1>1. /\ exp' \in [ExperienceIds -> Experience]
        /\ \A x \in ExperienceIds : exp'[x] = IF x = y THEN row ELSE exp[x]
    BY DEF HostInv, HostTypeOK
  <1>2. Grows
    BY <1>1 DEF Grows
  <1>3. Fitting' /\ task' \in [Tasks -> Task]
    BY <1>2, Finishes
  <1>4. Released'
    BY <1>1 DEF Released, HostInv
  <1>5. Unvalidated' /\ Unapproved'
    BY DEF HostInv, Unvalidated, Unapproved
  <1> QED
    BY <1>1, <1>3, <1>4, <1>5 DEF HostInv, HostTypeOK

LEMMA Creates ==
  ASSUME HostInv, NEW t \in Tasks, NEW y \in ExperienceIds, CreateExperience(t, y) PROVE HostInv'
  <1>1. "approved" \in history
    BY DEF CreateExperience, HostInv, Fitting, FitsIn
  <1>2. PICK row : row = [exp[y] EXCEPT !.status = "draft"]
    OBVIOUS
  <1>3. row \in Experience /\ row.status = "draft" /\ row.released = exp[y].released
    BY <1>2 DEF HostInv, HostTypeOK, Experience, ExpStatus
  <1>4. exp' = [exp EXCEPT ![y] = row] /\ Finish(t) /\ UNCHANGED <<cert, cache, history>>
    BY <1>2 DEF CreateExperience, HostInv, HostTypeOK
  <1> QED
    BY <1>1, <1>3, <1>4, RowWritten

LEMMA StatusWrites == ASSUME HostInv, NEW t \in Tasks, StatusWrite(t) PROVE HostInv'
  <1> DEFINE x == task[t].x  op == task[t].op  status == task[t].status
  <1>1. /\ "approved" \in history /\ x \in ExperienceIds /\ status \in ExpStatus
        /\ op \in {"pause", "resume", "archive"} => exp[x].released = TRUE
        /\ op \in {"pause", "resume", "archive", "publish", "moderate"}
        /\ Finish(t) /\ UNCHANGED <<cert, cache, history>>
        /\ exp' = IF Listed(x)
                  THEN [exp EXCEPT ![x].status = status,
                                   ![x].released = @ \/ op \in {"publish", "moderate"}]
                  ELSE exp
    BY DEF StatusWrite, HostInv, Fitting, FitsIn
  <1> HIDE DEF x, op, status
  <1>2. CASE Listed(x)
    <2>1. exp[x].released \in BOOLEAN /\ exp[x] \in Experience /\ exp \in [ExperienceIds -> Experience]
      BY <1>1 DEF HostInv, HostTypeOK, Experience
    <2>2. PICK released \in BOOLEAN : released = (exp[x].released \/ op \in {"publish", "moderate"})
      BY Zenon
    <2>3. released = TRUE
      BY <1>1, <2>1, <2>2
    <2>4. exp' = [exp EXCEPT ![x].status = status, ![x].released = released]
      BY <1>1, <1>2, <2>1, <2>2
    <2>5. PICK row : row = [exp[x] EXCEPT !.status = status, !.released = released]
      OBVIOUS
    <2>6. row \in Experience /\ row.status = status /\ row.released = released
      BY <1>1, <2>1, <2>5 DEF Experience
    <2>7. exp' = [exp EXCEPT ![x] = row]
      BY <2>1, <2>4, <2>5
    <2>8. status # "absent"
      BY <1>1 DEF ExpStatus
    <2> QED
      BY <1>1, <2>3, <2>6, <2>7, <2>8, RowWritten
  <1>3. CASE ~Listed(x)
    BY <1>1, <1>3, FinishesQuietly
  <1> QED
    BY <1>2, <1>3

LEMMA DeleteWrites == ASSUME HostInv, NEW t \in Tasks, DeleteWrite(t) PROVE HostInv'
  <1> DEFINE x == task[t].x
  <1>1. /\ "approved" \in history /\ x \in ExperienceIds
        /\ Finish(t) /\ UNCHANGED <<cert, cache, history>>
        /\ exp' = IF Listed(x) THEN [exp EXCEPT ![x].status = "deleted"] ELSE exp
    BY DEF DeleteWrite, HostInv, Fitting, FitsIn
  <1> HIDE DEF x
  <1>2. CASE Listed(x)
    <2>1. PICK row : row = [exp[x] EXCEPT !.status = "deleted"]
      OBVIOUS
    <2>2. row \in Experience /\ row.status = "deleted" /\ row.released = exp[x].released
      BY <1>1, <2>1 DEF HostInv, HostTypeOK, Experience
    <2>3. exp' = [exp EXCEPT ![x] = row]
      BY <1>1, <1>2, <2>1 DEF HostInv, HostTypeOK
    <2> QED
      BY <1>1, <2>2, <2>3, RowWritten
  <1>3. CASE ~Listed(x)
    BY <1>1, <1>3, FinishesQuietly
  <1> QED
    BY <1>2, <1>3

LEMMA DuplicateWrites ==
  ASSUME HostInv, NEW t \in Tasks, NEW y \in ExperienceIds, DuplicateWrite(t, y) PROVE HostInv'
  <1>1. "approved" \in history /\ task[t] \in Task /\ exp[y].released = FALSE
    BY DEF DuplicateWrite, HostInv, HostTypeOK, Fitting, FitsIn, Released
  <1>2. PICK row : row = CopyOf(t)
    OBVIOUS
  <1>3. row \in Experience /\ row.status = "draft"
    BY <1>1, <1>2 DEF CopyOf, Task, Experience, ExpStatus
  <1>4. exp' = [exp EXCEPT ![y] = row] /\ Finish(t) /\ UNCHANGED <<cert, cache, history>>
    BY <1>2 DEF DuplicateWrite
  <1> QED
    BY <1>1, <1>3, <1>4, RowWritten

(***************************************************************************)
(* Failures and time, and the invariant.                                   *)
(***************************************************************************)
LEMMA Expires == ASSUME HostInv, CacheExpires PROVE HostInv'
  <1>1. /\ cache' = [cache EXCEPT !.live = FALSE] /\ UNCHANGED <<cert, exp, task, history>>
        /\ cache \in [status : CertStatus \union {"unknown"}, live : BOOLEAN]
    BY DEF CacheExpires, HostInv, HostTypeOK
  <1>2. cache' \in [status : CertStatus \union {"unknown"}, live : BOOLEAN] /\ cache'.status = cache.status
    BY <1>1
  <1> QED
    BY <1>1, <1>2 DEF HostInv, HostTypeOK, Unvalidated, Unapproved, Released, Fitting, FitsIn

LEMMA Restarts == ASSUME HostInv, HostRestart PROVE HostInv'
  <1>1. Fitting' /\ task' \in [Tasks -> Task]
    BY NoTaskFits DEF HostRestart, Fitting, FitsIn
  <1>2. cache' = [status |-> "unknown", live |-> FALSE] /\ UNCHANGED <<cert, exp, history>>
    BY DEF HostRestart
  <1> QED
    BY <1>1, <1>2 DEF HostInv, HostTypeOK, Unvalidated, Unapproved, Released

LEMMA NothingMoves == HostInv /\ UNCHANGED hostVars => HostInv'
  BY DEF HostInv, HostTypeOK, Unvalidated, Unapproved, Released, Fitting, FitsIn, hostVars, Listed

LEMMA ArrivalKeepsInv == ASSUME HostInv, NEW t \in Tasks, HostArrive(t) PROVE HostInv'
  BY DraftReads, SubmitReads, ReviewReads, GateHits, GateQueries, UngatedReads, ModerateReads
  DEF HostArrive

LEMMA WorkKeepsInv == ASSUME HostInv, NEW t \in Tasks, HostContinue(t) PROVE HostInv'
  <1>1. ASSUME NEW x \in ExperienceIds, UpdateExperience(t, x) PROVE HostInv'
    BY <1>1, FinishesQuietly DEF UpdateExperience
  <1>2. ASSUME TaskFails(t) PROVE HostInv'
    BY <1>2, FinishesQuietly DEF TaskFails
  <1> QED
    BY <1>1, <1>2, DraftWrites, CertWrites, BadgeWrites, ClearsCache, GateRemembers, Creates,
       OpenedReads, StatusWrites, DeleteWrites, DuplicateWrites
    DEF HostContinue

LEMMA HostGoesOn == HostInv /\ [HostNext]_hostVars => HostInv'
  BY ArrivalKeepsInv, WorkKeepsInv, Expires, Restarts, NothingMoves DEF HostNext

LEMMA HostAlways == HostSpec => []HostInv
  BY HostBegins, HostGoesOn, PTL DEF HostSpec

(***************************************************************************)
(* The theorems.                                                           *)
(***************************************************************************)
\* Every variable keeps its type, for any number of requests and experiences.
THEOREM HostTypes == HostSpec => []HostTypeOK
  <1>1. HostInv => HostTypeOK
    BY DEF HostInv
  <1> QED
    BY <1>1, HostAlways, PTL

\* Nothing is decided about documents that were never validated, although a
\* reviewer writes by id what was decided on an older read.
THEOREM DecisionsFollowValidation == HostSpec => []ValidatedBeforeDecision
  <1>1. HostInv => ValidatedBeforeDecision
    BY DEF HostInv, Unvalidated, Unapproved, ValidatedBeforeDecision
  <1> QED
    BY <1>1, HostAlways, PTL

\* Nobody hosts, is let through the gate or is remembered as approved who was
\* never approved, although the gate stores answers of queries made earlier.
THEOREM HostsWereApproved == HostSpec => []ApprovedBeforeHosting
  <1>1. HostInv => ApprovedBeforeHosting
    BY DEF HostInv, Unapproved, Fitting, FitsIn, ApprovedBeforeHosting
  <1> QED
    BY <1>1, HostAlways, PTL

\* What is public was submitted or moderated, although pause, resume and
\* archive write by id the status they decided on before.
THEOREM PublicWasReleased == HostSpec => []PublicOnlyBySubmission
  <1>1. HostInv => PublicOnlyBySubmission
    BY DEF HostInv, Released, PublicOnlyBySubmission
  <1> QED
    BY <1>1, HostAlways, PTL
================================================================================
