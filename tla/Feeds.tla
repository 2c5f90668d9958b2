-------------------------------- MODULE Feeds --------------------------------
(***************************************************************************)
(* Reading a list page by page, as the plaza's posts and comments          *)
(* (server/src/routes/discoverPlaza.js) and the reviews of an experience   *)
(* (routes/experiences.js) are read.                                       *)
(*                                                                         *)
(* A row has the time its transaction began, in microseconds, and appears  *)
(* when the transaction commits.  A page holds the next rows in the order  *)
(* of <<created_at, id>>, posts and reviews downwards, comments upwards.   *)
(* The cursor of the next page is made from the last row of this one, and  *)
(* its time has gone through a JavaScript Date: it is cut to milliseconds. *)
(***************************************************************************)
EXTENDS Naturals, FiniteSets

CONSTANTS RowIds,      \* the rows that can be written, numbers (a bound)
          PageSize,    \* the limit of the request
          Millisecond, \* microseconds in a millisecond
          MaxTime      \* a bound on the clock

ASSUME FeedAssumption ==
  /\ RowIds \subseteq Nat /\ IsFiniteSet(RowIds)
  /\ PageSize \in Nat \ {0} /\ Millisecond \in Nat \ {0} /\ MaxTime \in Nat

VARIABLES
  feed,     \* "down" or "up"
  now,      \* the clock of the database
  rows,     \* created_at, and whether the row is to come, written, shown or gone
  reader    \* the pages read so far

feedVars == <<feed, now, rows, reader>>

Row == [created : 0..MaxTime, is : {"to come", "written", "shown", "gone"}]

(***************************************************************************)
(* The reader: where the next page begins (nothing yet, or a time and an   *)
(* id), what was there when it began, what it has read once and more than  *)
(* once, the rows at which its pages ended, and whether it was told that   *)
(* there is no more.                                                       *)
(***************************************************************************)
Reader == [begun : BOOLEAN, time : 0..MaxTime, id : RowIds \union {0}, had : SUBSET RowIds,
           seen : SUBSET RowIds, again : SUBSET RowIds, ends : SUBSET RowIds, done : BOOLEAN]

Shown == {r \in RowIds : rows[r].is = "shown"}

\* The order of the database on two pairs of a time and an id.
Below(s, q, t, r) == s < t \/ (s = t /\ q < r)

Before(q, r) ==
  IF feed = "up" THEN Below(rows[q].created, q, rows[r].created, r)
                 ELSE Below(rows[r].created, r, rows[q].created, q)

\* Mutant of Follows: downwards, (created_at, id) <= the cursor.
Follows_OrEqual(r) ==
  \/ ~reader.begun
  \/ IF feed = "up" THEN Below(reader.time, reader.id, rows[r].created, r)
                    ELSE ~Below(reader.time, reader.id, rows[r].created, r)

\* The where clause of a page.
Follows(r) ==
  \/ ~reader.begun
  \/ IF feed = "up" THEN Below(reader.time, reader.id, rows[r].created, r)
                    ELSE Below(rows[r].created, r, reader.time, reader.id)

Rest == {r \in Shown : Follows(r)}

\* order by ... limit
Page == {r \in Rest : Cardinality({q \in Rest : Before(q, r)}) < PageSize}

\* Mutant of PageEnd: the first row of the page.
PageEnd_First == CHOOSE r \in Page : \A q \in Page : q = r \/ Before(r, q)

PageEnd == CHOOSE r \in Page : \A q \in Page : q = r \/ Before(q, r)

\* toISOString, and back.
InMilliseconds(time) == time - (time % Millisecond)

\* Mutant of HasMore: one row too many is asked for.
HasMore_TwoMore == Cardinality(Rest) > PageSize + 1

\* limit + 1 rows are asked for.
HasMore == Cardinality(Rest) > PageSize

ReadPage ==
  /\ ~reader.done
  /\ reader' =
       [begun |-> TRUE,
        time |-> IF Page = {} THEN reader.time ELSE InMilliseconds(rows[PageEnd].created),
        id |-> IF Page = {} THEN reader.id ELSE PageEnd,
        had |-> IF reader.begun THEN reader.had ELSE Shown,
        seen |-> reader.seen \union Page,
        again |-> reader.again \union (reader.seen \intersect Page),
        ends |-> reader.ends \union (IF Page = {} THEN {} ELSE {PageEnd}),
        done |-> ~HasMore]
  /\ UNCHANGED <<feed, now, rows>>

\* A post, a comment or a review is written in a transaction that began now,
WriteRow(r) ==
  /\ rows[r].is = "to come"
  /\ rows' = [rows EXCEPT ![r] = [created |-> now, is |-> "written"]]
  /\ UNCHANGED <<feed, now, reader>>

\* appears when it commits,
ShowRow(r) ==
  /\ rows[r].is = "written"
  /\ rows' = [rows EXCEPT ![r].is = "shown"]
  /\ UNCHANGED <<feed, now, reader>>

\* and may be hidden or deleted.
HideRow(r) ==
  /\ rows[r].is = "shown"
  /\ rows' = [rows EXCEPT ![r].is = "gone"]
  /\ UNCHANGED <<feed, now, reader>>

TimePasses ==
  /\ now < MaxTime
  /\ now' = now + 1
  /\ UNCHANGED <<feed, rows, reader>>

FeedInit ==
  /\ feed \in {"up", "down"}
  /\ now = 0
  /\ rows = [r \in RowIds |-> [created |-> 0, is |-> "to come"]]
  /\ reader = [begun |-> FALSE, time |-> 0, id |-> 0, had |-> {}, seen |-> {}, again |-> {},
               ends |-> {}, done |-> FALSE]

FeedNext ==
  \/ ReadPage \/ TimePasses
  \/ \E r \in RowIds : WriteRow(r) \/ ShowRow(r) \/ HideRow(r)

FeedSpec == FeedInit /\ [][FeedNext]_feedVars

\* A reader who has begun asks for the next page as long as there is one.
FeedFairness == WF_feedVars(reader.begun /\ ReadPage)

FeedFairSpec == FeedSpec /\ FeedFairness

(***************************************************************************)
(* Properties.                                                             *)
(***************************************************************************)
\* Every variable has its type.
FeedTypeOK ==
  /\ feed \in {"up", "down"}
  /\ now \in 0..MaxTime
  /\ rows \in [RowIds -> Row]
  /\ reader \in Reader

SameMillisecond(q, r) == InMilliseconds(rows[q].created) = InMilliseconds(rows[r].created)

\* A reader who is done has seen every row that was there from its first page
\* on, whatever was written, shown late or hidden meanwhile; only downwards, a
\* row of the millisecond in which some page ended can be missing.
NothingIsLost ==
  reader.done =>
    \A r \in (reader.had \intersect Shown) \ reader.seen :
      feed = "down" /\ \E e \in reader.ends : SameMillisecond(r, e)

\* No row is read twice; only upwards, a row of the millisecond in which some
\* page ended, that last row itself among them, can come again.
NothingComesAgain ==
  \A r \in reader.again : feed = "up" /\ \E e \in reader.ends : SameMillisecond(r, e)

\* When no millisecond holds as many rows as a page, the pages come to an end:
\* the rows that come again upwards leave room for one that is new.
ReadingEnds ==
  [](\A r \in RowIds : Cardinality({q \in Shown : SameMillisecond(q, r)}) < PageSize) =>
    (reader.begun ~> reader.done)
=============================================================================
