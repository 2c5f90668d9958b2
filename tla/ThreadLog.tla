------------------------------ MODULE ThreadLog ------------------------------
(***************************************************************************)
(* What the message service promises about one thread                      *)
(* (docs/IM_MESSAGE_SEMANTICS.md, "Ordering" and "Idempotency"): messages  *)
(* get the numbers 1, 2, 3, ... in the order in which readers can see      *)
(* them, a message that is there is not written again, and an answer tells *)
(* the number of the message.                                              *)
(***************************************************************************)
EXTENDS Naturals

CONSTANTS Messages  \* what clients send, told apart by their client_msg_id

VARIABLES
  last,    \* the number of the last message
  posted,  \* the messages ever written, each with its number
  gone,    \* those of them that were too old to be kept
  answers  \* what clients were told, a message and a number each

logVars == <<last, posted, gone, answers>>

Kept(m) == \E n \in 1..last : <<m, n>> \in posted \ gone

LogInit == last = 0 /\ posted = {} /\ gone = {} /\ answers = {}

\* A message is written behind all the others.
Post(m) ==
  /\ ~Kept(m)
  /\ last' = last + 1
  /\ posted' = posted \union {<<m, last'>>}
  /\ UNCHANGED <<gone, answers>>

Expire(entry) ==
  /\ entry \in posted
  /\ gone' = gone \union {entry}
  /\ UNCHANGED <<last, posted, answers>>

\* A client hears the number of its message, or zero, from a repetition that
\* lost the race with the message itself.
Tell(m, n) ==
  /\ n = 0 \/ <<m, n>> \in posted
  /\ answers' = answers \union {<<m, n>>}
  /\ UNCHANGED <<last, posted, gone>>

LogNext ==
  \/ \E m \in Messages : Post(m) \/ \E n \in 0..last : Tell(m, n)
  \/ \E entry \in posted : Expire(entry)

LogSpec == LogInit /\ [][LogNext]_logVars
=============================================================================
