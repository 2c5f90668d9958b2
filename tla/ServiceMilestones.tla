------------------------- MODULE ServiceMilestones -------------------------
(***************************************************************************)
(* What the order service promises a traveler and a host, whatever order   *)
(* the statements of concurrent requests reach the database in: a service  *)
(* passes its milestones one after the other and never loses one, a party  *)
(* reviews it at most once and only after its end, and nobody sees a       *)
(* review before both parties have written theirs or the reveal date has   *)
(* passed.                                                                 *)
(***************************************************************************)

CONSTANT Bookings

VARIABLES reached,      \* the milestones each booking has passed
          reviewed,     \* the parties that reviewed it
          revealed,     \* whether its reveal date has passed
          shown         \* the parties whose review has been shown to a client

vars == <<reached, reviewed, revealed, shown>>

Party == {"TRAVELER", "HOST"}

Milestone == {"paid", "confirmed", "started", "completed"}

\* Whether a booking that has passed the milestones "passed" may pass m.
MayPass(m, passed) ==
  /\ m = "confirmed" => "paid" \in passed
  /\ m = "started" => "confirmed" \in passed
  /\ m = "completed" => "started" \in passed

Init ==
  /\ reached = [b \in Bookings |-> {}]
  /\ reviewed = [b \in Bookings |-> {}]
  /\ revealed = [b \in Bookings |-> FALSE]
  /\ shown = [b \in Bookings |-> {}]

Pass(b, m) ==
  /\ MayPass(m, reached[b])
  /\ reached' = [reached EXCEPT ![b] = @ \union {m}]
  /\ UNCHANGED <<reviewed, revealed, shown>>

Review(b, p) ==
  /\ "completed" \in reached[b]
  /\ p \notin reviewed[b]
  /\ reviewed' = [reviewed EXCEPT ![b] = @ \union {p}]
  /\ UNCHANGED <<reached, revealed, shown>>

RevealDatePasses(b) ==
  /\ "completed" \in reached[b]
  /\ revealed' = [revealed EXCEPT ![b] = TRUE]
  /\ UNCHANGED <<reached, reviewed, shown>>

Show(b) ==
  /\ reviewed[b] = Party \/ revealed[b]
  /\ shown' = [shown EXCEPT ![b] = @ \union reviewed[b]]
  /\ UNCHANGED <<reached, reviewed, revealed>>

Next ==
  \E b \in Bookings :
    \/ \E m \in Milestone : Pass(b, m)
    \/ \E p \in Party : Review(b, p)
    \/ RevealDatePasses(b)
    \/ Show(b)

Spec == Init /\ [][Next]_vars
=============================================================================
