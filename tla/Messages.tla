------------------------------ MODULE Messages ------------------------------
(***************************************************************************)
(* How im-api writes the messages of one thread                            *)
(* (handleCreateMessage of im/im-api/main.go) and im-worker deletes old    *)
(* ones (runRetention of im/im-worker/main.go).                            *)
(*                                                                         *)
(* A request is a transaction at READ COMMITTED.  It looks for the message *)
(* by its client_msg_id, takes the next number by an update that locks the *)
(* row of the thread until the transaction ends, inserts the message and   *)
(* commits.  The status of the thread is read twice on the way; no code    *)
(* sets it to anything but "active", its default, and it is left out.      *)
(***************************************************************************)
EXTENDS Naturals

CONSTANTS Messages,  \* what clients send, told apart by their client_msg_id
          Requests,  \* requests im-api works on at the same time
          MaxSeq     \* a bound on the numbers

ASSUME MaxSeqAssumption == MaxSeq \in Nat

ASSUME SomethingToSend == Messages # {}

VARIABLES
  last,     \* chat_threads.last_seq, as committed
  posted,   \* the rows of chat_messages ever committed, each with its seq
  gone,     \* those of them that were deleted
  answers,  \* what clients were told: a message and the seq in it
  request   \* the local state of each request

msgVars == <<last, posted, gone, answers, request>>

\* What a request is at, the message it carries and the number it has taken.
Request == [at : {"idle", "allocate", "insert", "answer"}, m : Messages, seq : 0..MaxSeq]

SomeMessage == CHOOSE m \in Messages : TRUE

NoRequest == [at |-> "idle", m |-> SomeMessage, seq |-> 0]

Move(q, at, m, seq) == request' = [request EXCEPT ![q] = [at |-> at, m |-> m, seq |-> seq]]

End(q) == request' = [request EXCEPT ![q] = NoRequest]

\* The rows of a message that others can see.
RowsOf(m) == {n \in 1..last : <<m, n>> \in posted \ gone}

\* SELECT ... WHERE sender_id AND client_msg_id: a message that is there is
\* answered at once.
Known(q, m) ==
  /\ request[q].at = "idle"
  /\ \E n \in RowsOf(m) : answers' = answers \union {<<m, n>>}
  /\ UNCHANGED <<last, posted, gone, request>>

Unknown(q, m) ==
  /\ request[q].at = "idle"
  /\ RowsOf(m) = {}
  /\ Move(q, "allocate", m, 0)
  /\ UNCHANGED <<last, posted, gone, answers>>

\* Mutant of RowFree: the number is taken without a lock on the thread.
RowFree_Unlocked == TRUE

\* Nobody holds the row of the thread.
RowFree == \A q \in Requests : request[q].at # "insert"

\* UPDATE chat_threads SET last_seq = last_seq + 1 ... RETURNING last_seq waits
\* for whoever has the row; others see the number when the transaction commits.
Allocate(q) ==
  /\ request[q].at = "allocate"
  /\ RowFree /\ last < MaxSeq
  /\ Move(q, "insert", request[q].m, last + 1)
  /\ UNCHANGED <<last, posted, gone, answers>>

\* INSERT and COMMIT.
Insert(q) ==
  LET m == request[q].m  n == request[q].seq IN
  /\ request[q].at = "insert"
  /\ RowsOf(m) = {}
  /\ last' = n /\ posted' = posted \union {<<m, n>>}
  /\ Move(q, "answer", m, n)
  /\ UNCHANGED <<gone, answers>>

\* The unique index on (sender_id, client_msg_id) rejects the row.  The handler
\* reads the other one in the transaction that has failed, so that it gets
\* nothing, commits, which rolls back, and answers with what it has: zeros.
InsertAgain(q) ==
  LET m == request[q].m IN
  /\ request[q].at = "insert"
  /\ RowsOf(m) # {}
  /\ answers' = answers \union {<<m, 0>>}
  /\ End(q)
  /\ UNCHANGED <<last, posted, gone>>

\* The answer goes out when the push jobs of the message were handed over.
Answer(q) ==
  /\ request[q].at = "answer"
  /\ answers' = answers \union {<<request[q].m, request[q].seq>>}
  /\ End(q)
  /\ UNCHANGED <<last, posted, gone>>

\* A statement fails, the client is gone or the service ends: a transaction
\* that is under way is rolled back, and an answer is lost.
RequestFails(q) ==
  /\ request[q].at # "idle"
  /\ End(q)
  /\ UNCHANGED <<last, posted, gone, answers>>

\* A message is older than its thread keeps messages.
Retention(entry) ==
  /\ entry \in posted \ gone
  /\ gone' = gone \union {entry}
  /\ UNCHANGED <<last, posted, answers, request>>

MsgInit ==
  /\ last = 0 /\ posted = {} /\ gone = {} /\ answers = {}
  /\ request = [q \in Requests |-> NoRequest]

MsgNext ==
  \/ \E q \in Requests :
       \/ \E m \in Messages : Known(q, m) \/ Unknown(q, m)
       \/ Allocate(q) \/ Insert(q) \/ InsertAgain(q) \/ Answer(q) \/ RequestFails(q)
  \/ \E entry \in posted : Retention(entry)

MsgSpec == MsgInit /\ [][MsgNext]_msgVars

(***************************************************************************)
(* Properties.                                                             *)
(***************************************************************************)
\* Every variable has its type.
MsgTypeOK ==
  /\ last \in 0..MaxSeq
  /\ posted \subseteq Messages \X (1..MaxSeq)
  /\ gone \subseteq posted
  /\ answers \subseteq Messages \X (0..MaxSeq)
  /\ request \in [Requests -> Request]

Log == INSTANCE ThreadLog

\* The requests that race for a thread, fail and are repeated write one log:
\* the numbers are taken in the order in which the messages become visible,
\* without a gap and each once, so that a reader who has come to a number does
\* not miss a message with a smaller one, and every answer but the one of a
\* lost race (a zero) is the number of the message.
ImplementsThreadLog == Log!LogSpec
=============================================================================
