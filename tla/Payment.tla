------------------------------ MODULE Payment ------------------------------
(***************************************************************************)
(* Stripe's payments of one invoice (backend/server.py): an admin creates  *)
(* the payment intent and writes what Stripe answered to the invoice;      *)
(* Stripe delivers signed events, each any number of times, and a delivery *)
(* claims the event's row for a lease of five minutes, applies it to the   *)
(* invoice, closes the row if it still holds it, and records what          *)
(* happened.  A delivery may raise or die anywhere; a lease runs out by an *)
(* action.                                                                 *)
(*                                                                         *)
(* Stripe is external: it knows one intent (the idempotency key is fixed   *)
(* per invoice), whether it was charged, and answers a creation with the   *)
(* intent or an error.                                                     *)
(***************************************************************************)
EXTENDS Naturals, FiniteSets

CONSTANTS
  PayEvents,      \* Stripe's events about the intent
  Deliveries,     \* webhook requests in hand at once
  Payers,         \* admins creating the intent
  MaxClaims       \* bound on the claims

ASSUME PaymentAssumption == MaxClaims \in Nat

VARIABLES
  invoice,    \* payment intent bound, payment_status, and whether status is paid
  charged,    \* Stripe: the intent succeeded
  kind,       \* what each event reports
  stripeRow,  \* stripe_webhook_events: status, claim_token, and whether the lease is live
  webhook,    \* where each request is, its event, and whether it changed the invoice
  payer,      \* where each creation is, and what it read or was answered
  claims,     \* history: how many claims there were
  recorded    \* history: how often each event's invoice event was recorded

payVars == <<invoice, charged, kind, stripeRow, webhook, payer, claims, recorded>>

PayKinds == {"paid", "failed", "canceled"}
NoWebhook == [at |-> "idle"]
NoPayer == [at |-> "idle"]
WebhookType ==
  {NoWebhook} \cup [at : {"read", "write", "complete", "record", "raise"}, of : PayEvents, handled : BOOLEAN]

PaymentTypeOK ==
  /\ invoice \in [bound : BOOLEAN, pay : {"none", "open"} \cup PayKinds, paid : BOOLEAN]
  /\ charged \in BOOLEAN
  /\ kind \in [PayEvents -> PayKinds]
  /\ stripeRow \in [PayEvents -> [status : {"none", "processing", "failed", "completed"},
                                  token : Deliveries \cup {"none"}, live : BOOLEAN]]
  /\ webhook \in [Deliveries -> WebhookType]
  /\ payer \in [Payers -> {NoPayer} \cup [at : {"call"}, paid : BOOLEAN]
                          \cup [at : {"write"}, paid : BOOLEAN, said : {"open", "paid", "failed"}]]
  /\ claims \in 0..MaxClaims /\ recorded \in [PayEvents -> Nat]

PaymentInit ==
  /\ invoice = [bound |-> FALSE, pay |-> "none", paid |-> FALSE]
  /\ charged = FALSE
  /\ kind \in [PayEvents -> PayKinds]
  /\ stripeRow = [e \in PayEvents |-> [status |-> "none", token |-> "none", live |-> FALSE]]
  /\ webhook = [d \in Deliveries |-> NoWebhook] /\ payer = [p \in Payers |-> NoPayer]
  /\ claims = 0 /\ recorded = [e \in PayEvents |-> 0]

-----------------------------------------------------------------------------
(* create_stripe_payment_intent() *)
ReadInvoice(p) ==
  /\ payer[p] = NoPayer
  /\ payer' = [payer EXCEPT ![p] = [at |-> "call", paid |-> invoice.paid]]
  /\ UNCHANGED <<invoice, charged, kind, stripeRow, webhook, claims, recorded>>

CreateIntent(p) ==
  /\ payer[p].at = "call"
  /\ \E said \in {"open", "paid", "failed"} :
       /\ payer' = [payer EXCEPT ![p] = [at |-> "write", paid |-> @.paid, said |-> said]]
       /\ charged' = (charged \/ said = "paid")
  /\ UNCHANGED <<invoice, kind, stripeRow, webhook, claims, recorded>>

(* What was read before the call is written back with the answer. *)
WriteAnswer(p) ==
  /\ payer[p].at = "write"
  /\ invoice' = IF payer[p].said = "failed" THEN [invoice EXCEPT !.pay = "failed"]
                ELSE [bound |-> TRUE, pay |-> payer[p].said, paid |-> payer[p].paid \/ payer[p].said = "paid"]
  /\ payer' = [payer EXCEPT ![p] = NoPayer]
  /\ UNCHANGED <<charged, kind, stripeRow, webhook, claims, recorded>>

(* External: the customer pays. *)
Charge == /\ charged' = TRUE
          /\ UNCHANGED <<invoice, kind, stripeRow, webhook, payer, claims, recorded>>

-----------------------------------------------------------------------------
Webhook(d, pc) == webhook[d].at = pc
WebhookGoes(d, pc) == webhook' = [webhook EXCEPT ![d].at = pc]
HoldsClaimAny(d) == TRUE  \* mutant
HoldsClaim(d) == stripeRow[webhook[d].of].token = d

(* stripe_webhook(): one upsert, of an event not seen, failed, or held past *)
(* its lease.  Any other is a duplicate, or asked for again.                *)
Claimable(e) ==
  \/ stripeRow[e].status \in {"none", "failed"}
  \/ stripeRow[e].status = "processing" /\ ~stripeRow[e].live

ClaimEvent(d, e) ==
  /\ webhook[d] = NoWebhook /\ claims < MaxClaims
  /\ kind[e] = "paid" => charged
  /\ Claimable(e)
  /\ stripeRow' = [stripeRow EXCEPT ![e] = [status |-> "processing", token |-> d, live |-> TRUE]]
  /\ webhook' = [webhook EXCEPT ![d] = [at |-> "read", of |-> e, handled |-> FALSE]]
  /\ claims' = claims + 1
  /\ UNCHANGED <<invoice, charged, kind, payer, recorded>>

(* The intent may not be bound yet; the amount or the currency may differ.  *)
ReadBound(d) ==
  /\ Webhook(d, "read")
  /\ \/ ~invoice.bound /\ WebhookGoes(d, "raise")
     \/ invoice.bound /\ (WebhookGoes(d, "write") \/ WebhookGoes(d, "complete"))
  /\ UNCHANGED <<invoice, charged, kind, stripeRow, payer, claims, recorded>>

(* The filter of the write: nothing but a payment may follow a payment. *)
Filter(d) == kind[webhook[d].of] = "paid" \/ (invoice.pay # "paid" /\ ~invoice.paid)

ApplyEvent(d) ==
  /\ Webhook(d, "write")
  /\ LET k == kind[webhook[d].of] IN
       invoice' = IF Filter(d) THEN [invoice EXCEPT !.pay = k, !.paid = @ \/ k = "paid"] ELSE invoice
  /\ webhook' = [webhook EXCEPT ![d].at = "complete", ![d].handled = Filter(d)]
  /\ UNCHANGED <<charged, kind, stripeRow, payer, claims, recorded>>

CompleteEvent(d) ==
  /\ Webhook(d, "complete")
  /\ IF HoldsClaim(d)
     THEN /\ stripeRow' = [stripeRow EXCEPT ![webhook[d].of] = [@ EXCEPT !.status = "completed", !.live = FALSE]]
          /\ webhook' = [webhook EXCEPT ![d] = IF @.handled THEN [@ EXCEPT !.at = "record"] ELSE NoWebhook]
     ELSE WebhookGoes(d, "raise") /\ UNCHANGED stripeRow
  /\ UNCHANGED <<invoice, charged, kind, payer, claims, recorded>>

RecordPayment(d) ==
  /\ Webhook(d, "record")
  /\ recorded' = [recorded EXCEPT ![webhook[d].of] = @ + 1]
  /\ webhook' = [webhook EXCEPT ![d] = NoWebhook]
  /\ UNCHANGED <<invoice, charged, kind, stripeRow, payer, claims>>

(* Whatever raised, the row goes back to failed if it is still held. *)
RaiseEvent(d) ==
  /\ Webhook(d, "raise")
  /\ stripeRow' = IF stripeRow[webhook[d].of].token # d THEN stripeRow
                  ELSE [stripeRow EXCEPT ![webhook[d].of].status = "failed", ![webhook[d].of].live = FALSE]
  /\ webhook' = [webhook EXCEPT ![d] = NoWebhook]
  /\ UNCHANGED <<invoice, charged, kind, payer, claims, recorded>>

WebhookRaises(d) ==
  /\ webhook[d].at \in {"read", "write", "complete"} /\ WebhookGoes(d, "raise")
  /\ UNCHANGED <<invoice, charged, kind, stripeRow, payer, claims, recorded>>

WebhookDies(d) ==
  /\ webhook[d] # NoWebhook /\ webhook' = [webhook EXCEPT ![d] = NoWebhook]
  /\ UNCHANGED <<invoice, charged, kind, stripeRow, payer, claims, recorded>>

LeaseOver(e) ==
  /\ stripeRow[e].live /\ stripeRow' = [stripeRow EXCEPT ![e].live = FALSE]
  /\ UNCHANGED <<invoice, charged, kind, webhook, payer, claims, recorded>>

PaymentNext ==
  \/ Charge
  \/ \E p \in Payers : ReadInvoice(p) \/ CreateIntent(p) \/ WriteAnswer(p)
  \/ \E e \in PayEvents : LeaseOver(e) \/ \E d \in Deliveries : ClaimEvent(d, e)
  \/ \E d \in Deliveries :
       \/ ReadBound(d) \/ ApplyEvent(d) \/ CompleteEvent(d) \/ RecordPayment(d)
       \/ RaiseEvent(d) \/ WebhookRaises(d) \/ WebhookDies(d)

PaymentSpec == PaymentInit /\ [][PaymentNext]_payVars

-----------------------------------------------------------------------------
(* However often an event is delivered, and however many deliveries of it   *)
(* outlive their lease, what happened to the invoice is recorded once; and  *)
(* no event, in any order, takes back a payment: only an admin's creation,  *)
(* which writes what it read before it called Stripe, does.                 *)
RecordedOnce == \A e \in PayEvents : recorded[e] <= 1
EventsNeverDowngrade ==
  [][(invoice.paid \/ invoice.pay = "paid") /\ payer' = payer
       => /\ invoice.pay = "paid" => invoice'.pay = "paid"
          /\ invoice.paid => invoice'.paid]_payVars
PaymentsHold == [](PaymentTypeOK /\ RecordedOnce) /\ EventsNeverDowngrade
=============================================================================
