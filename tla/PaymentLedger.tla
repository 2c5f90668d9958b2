---------------------------- MODULE PaymentLedger ----------------------------
(***************************************************************************)
(* What the payment service promises about the money of one order,         *)
(* whatever order the statements of requests, webhooks and jobs reach the  *)
(* database in (docs/payments_v2.md: "Payment/Refund final state is        *)
(* updated only via webhook or reconciliation"; with the mock provider the *)
(* confirmation itself may be the event).  Every entry has a reason: it    *)
(* follows from an event that was heard, an event is heard from the        *)
(* provider, from a confirmation or from the books themselves, and what    *)
(* the order shows follows from the entries or from the order service.     *)
(***************************************************************************)
EXTENDS Naturals, Sequences

VARIABLES
  told,      \* what the provider has said in webhooks
  heard,     \* the events the service has stored
  booked,    \* the payments in the books: an intent and a transaction each
  won,       \* the intents that are shown as succeeded
  answered,  \* the provider's id of each refund that succeeded, else 0
  pay,       \* the payment status of the order
  byHand,    \* the order was marked as paid by hand
  withdrawn  \* somebody withdrew from the order

ledgerVars == <<told, heard, booked, won, answered, pay, byHand, withdrawn>>

Evidence == booked # <<>> \/ byHand

LedgerInit ==
  /\ told = {} /\ heard = {} /\ booked = <<>> /\ won = {}
  /\ answered = [r \in {} |-> 0]
  /\ pay = "UNPAID" /\ byHand = FALSE /\ withdrawn = FALSE

(***************************************************************************)
(* Events.                                                                 *)
(***************************************************************************)
\* The provider announces something; a transaction belongs to one intent.
Tell(e) ==
  /\ \A f \in told :
       e.type = "paid" /\ f.type = "paid" /\ e.txn = f.txn => e.about = f.about
  /\ told' = told \union {e}
  /\ UNCHANGED <<heard, booked, won, answered, pay, byHand, withdrawn>>

\* A webhook was sent by the provider, reconciliation repeats a row of the
\* books, and a confirmation never speaks of refunds.
Credible(e) ==
  \/ e.src = "hook" /\ e \in told
  \/ /\ e.src = "reconcile" /\ e.type = "paid"
     /\ e.n \in DOMAIN booked /\ booked[e.n] = [intent |-> e.about, txn |-> e.txn]
  \/ e.src = "sync" /\ e.type \in {"paid", "declined"}

Hear(e) ==
  /\ Credible(e)
  /\ heard' = heard \union {e}
  /\ UNCHANGED <<told, booked, won, answered, pay, byHand, withdrawn>>

(***************************************************************************)
(* Payments.                                                               *)
(***************************************************************************)
Booked(txn) == txn # 0 /\ \E p \in DOMAIN booked : booked[p].txn = txn

\* A payment that was heard of enters the books, unless its transaction is in
\* them, and in the same step its intent has succeeded and the order is paid.
Enter(e) ==
  /\ e \in heard /\ e.type = "paid"
  /\ booked' = IF Booked(e.txn) THEN booked
               ELSE Append(booked, [intent |-> e.about, txn |-> e.txn])
  /\ won' = won \union {e.about}
  /\ pay' = "PAID"
  /\ UNCHANGED <<told, heard, answered, byHand, withdrawn>>

\* The intent alone is shown as succeeded by a confirmation, when a payment of
\* it was heard of ...
Accept(i) ==
  /\ \E e \in heard : e.type = "paid" /\ e.about = i
  /\ won' = won \union {i}
  /\ UNCHANGED <<told, heard, booked, answered, pay, byHand, withdrawn>>

\* ... and may be shown as something else at any time, which no other row follows.
Obscure(i) ==
  /\ won' = won \ {i}
  /\ UNCHANGED <<told, heard, booked, answered, pay, byHand, withdrawn>>

(***************************************************************************)
(* Refunds.                                                                *)
(***************************************************************************)
AskBack(r) ==
  /\ booked # <<>> /\ r \notin DOMAIN answered
  /\ answered' = [x \in DOMAIN answered \union {r} |-> IF x = r THEN 0 ELSE answered[x]]
  /\ UNCHANGED <<told, heard, booked, won, pay, byHand, withdrawn>>

Refunding ==
  /\ DOMAIN answered # {}
  /\ pay' = "REFUNDING"
  /\ UNCHANGED <<told, heard, booked, won, answered, byHand, withdrawn>>

\* A refund succeeds when the provider said so, with an id no other has.
Return(e, r) ==
  /\ e \in heard /\ e.type = "refunded"
  /\ r \in DOMAIN answered /\ \A x \in DOMAIN answered \ {r} : answered[x] # e.about
  /\ answered' = [answered EXCEPT ![r] = e.about]
  /\ pay' = "REFUNDED"
  /\ UNCHANGED <<told, heard, booked, won, byHand, withdrawn>>

\* A retry or a late failure takes the answer off a row.
Reopen(r) ==
  /\ answered' = [answered EXCEPT ![r] = 0]
  /\ UNCHANGED <<told, heard, booked, won, pay, byHand, withdrawn>>

(***************************************************************************)
(* The order service.                                                      *)
(***************************************************************************)
MarkPaid ==
  /\ byHand' = TRUE /\ pay' = "PAID"
  /\ UNCHANGED <<told, heard, booked, won, answered, withdrawn>>

\* Who withdraws writes back what was read, or that it is refunded.
Withdraw ==
  /\ withdrawn' = TRUE
  /\ pay' \in {"UNPAID", "REFUNDING", "REFUNDED"}
  /\ pay' # "UNPAID" => Evidence
  /\ UNCHANGED <<told, heard, booked, won, answered, byHand>>

LedgerNext ==
  \/ \E e \in told' : Tell(e)
  \/ \E e \in heard' : Hear(e) \/ Enter(e) \/ \E r \in DOMAIN answered : Return(e, r)
  \/ \E i \in won' : Accept(i)
  \/ \E i \in won : Obscure(i)
  \/ \E r \in DOMAIN answered' : AskBack(r) \/ Reopen(r)
  \/ Refunding \/ MarkPaid \/ Withdraw

LedgerSpec == LedgerInit /\ [][LedgerNext]_ledgerVars
=============================================================================
