----------------------------- MODULE Procurement ------------------------------
(***************************************************************************)
(* Purchase requests and what becomes of them: drafted, submitted to the   *)
(* approval engine, turned into a purchase by the last approval; its goods *)
(* delivered in parts, each delivery reviewed and what is accepted put     *)
(* into the store; its price paid in parts.                                *)
(*                                                                         *)
(* One line per request, and item ItemOf[p] to hold its product.  A call   *)
(* that receives or reviews may name that line, or a receipt's, twice.     *)
(* Prices are left out, but for the request's total, which an edit may     *)
(* change.                                                                 *)
(***************************************************************************)
EXTENDS Inventory, Sums

CONSTANTS
    Ordered,        \* Ordered[p]: quantity of request p's line
    Totals,         \* totals that a draft may have
    ItemOf,         \* ItemOf[p]: the inventory item of p's product and branch
    AtHand,         \* requests that were approved and bought at the start
    MaxReceipts     \* bound: receipt lines of a purchase

PurchaseRequests == DOMAIN Ordered

ASSUME ProcurementAssumption ==
    /\ Ordered \in [PurchaseRequests -> Nat] /\ ItemOf \in [PurchaseRequests -> Items]
    /\ Totals \subseteq Nat /\ AtHand \subseteq PurchaseRequests
    /\ PurchaseRequests \subseteq Requests \ (Adjustments \cup StockTransfers)

VARIABLES
    order,      \* order[p]: the purchase_requests row
    purchase,   \* purchase[p]: the purchases row made of it
    receipts,   \* receipts[p]: its goods receipt lines
    stored,     \* stored[p]: the sum of the stock movements made for its receipts
    payments,   \* payments[p]: the sum of its purchase payments (and of their entries)
    repeated    \* history: purchases of which one call named a line twice, and in what

deliveries == <<receipts, stored, repeated>>
procurement == <<order, purchase, deliveries, payments>>

\* submitted (history): the total when it was submitted.
OrderRows == [status : {"none", "DRAFT", "PENDING", "UNDER_REVIEW", "APPROVED", "REJECTED",
                        "deleted"}, total : Nat, submitted : Nat]
PurchaseRows == [made : BOOLEAN, total : Nat, paid : Nat,
                 delivery : {"PENDING", "PARTIALLY_RECEIVED", "FULLY_RECEIVED"},
                 acceptance : {"PENDING", "RECEIVED", "FULLY_ACCEPTED"}]
ReceiptLines == [delivered : Nat, damaged : Nat, reviewed : BOOLEAN, accepted : Nat]

ProcurementTypeOK ==
    /\ order \in [PurchaseRequests -> OrderRows]
    /\ purchase \in [PurchaseRequests -> PurchaseRows]
    /\ \A p \in PurchaseRequests : \A l \in DOMAIN receipts[p] : receipts[p][l] \in ReceiptLines
    /\ payments \in [PurchaseRequests -> Nat] /\ stored \in [PurchaseRequests -> Nat]
    /\ repeated \subseteq PurchaseRequests \X {"delivery", "review"}

NewOrder == [status |-> "none", total |-> 0, submitted |-> 0]
NoPurchase == [made |-> FALSE, total |-> 0, paid |-> 0, delivery |-> "PENDING",
               acceptance |-> "PENDING"]

ProcurementInit ==
    /\ order = [p \in PurchaseRequests |->
          IF p \in AtHand THEN [status |-> "APPROVED", total |-> 2, submitted |-> 2] ELSE NewOrder]
    /\ purchase = [p \in PurchaseRequests |->
          IF p \in AtHand THEN [NoPurchase EXCEPT !.made = TRUE, !.total = 2] ELSE NoPurchase]
    /\ receipts = [p \in PurchaseRequests |-> << >>] /\ stored = [p \in PurchaseRequests |-> 0] /\ repeated = {}
    /\ payments = [p \in PurchaseRequests |-> 0]

Delivered(lines) == SumOver(DOMAIN lines, [l \in DOMAIN lines |-> lines[l].delivered])
Accepted(lines)  == SumOver(DOMAIN lines, [l \in DOMAIN lines |-> lines[l].accepted])

-----------------------------------------------------------------------------
(* The request: draft, edit, delete, submit.                               *)

\* create, or createFromAlerts with what its low-stock alerts suggest.
DraftOrder(c, p, total) ==
    /\ order[p].status = "none" /\ Once(c, "order")
    /\ order' = [order EXCEPT ![p] = [status |-> "DRAFT", total |-> total, submitted |-> 0]]
    /\ UNCHANGED <<approval, inventory, purchase, deliveries, payments>>

EditOrder(c, p, total) ==
    /\ order[p].status = "DRAFT" /\ order[p].total # total
    /\ Begin(c, "order", "edit_order", p, total)
    /\ UNCHANGED <<approval, inventory, procurement>>

WriteEdited(c) ==
    /\ At(c, "edit_order") /\ Return(c)
    /\ order' = IF order[calls[c].on].status = "deleted" THEN order
                ELSE [order EXCEPT ![calls[c].on].total = calls[c].saw]
    /\ UNCHANGED <<approval, inventory, purchase, deliveries, payments>>

RemoveOrder(c, p) ==
    /\ order[p].status \in {"DRAFT", "REJECTED"}
    /\ Begin(c, "order", "remove_order", p, 0)
    /\ UNCHANGED <<approval, inventory, procurement>>

\* The foreign key of its purchase refuses.
WriteRemoved(c) ==
    /\ At(c, "remove_order") /\ Return(c)
    /\ order' = IF purchase[calls[c].on].made THEN order
                ELSE [order EXCEPT ![calls[c].on].status = "deleted"]
    /\ UNCHANGED <<approval, inventory, purchase, deliveries, payments>>

\* A draft is submitted by one handler at a time here.
SubmitOrder(c, p) ==
    /\ order[p].status = "DRAFT"
    /\ \A d \in Callers : ~(At(d, "submit_order") /\ calls[d].on = p)
    /\ Begin(c, "order", "submit_order", p, 0)
    /\ UNCHANGED <<approval, inventory, procurement>>

\* The approval request is made, and the draft gets its id and its status.
WriteSubmitted(c) ==
    LET p == calls[c].on IN
    /\ At(c, "submit_order") /\ Return(c)
    /\ IF order[p].status = "deleted"
       THEN UNCHANGED <<order, approval>>
       ELSE /\ order' = [order EXCEPT ![p].status = "PENDING", ![p].submitted = order[p].total]
            /\ Submit(p)
    /\ UNCHANGED <<inventory, purchase, deliveries, payments>>

-----------------------------------------------------------------------------
(* Its approval, and the purchase.                                         *)

\* The request's status is not looked at: the engine's is.
ApproveOrder(c, p, actor) ==
    /\ order[p].status \notin {"none", "DRAFT", "deleted"} /\ Actionable(actor, p)
    /\ Begin(c, "order", "approve_order", p, [stage |-> approval[p].stage, actor |-> actor])
    /\ UNCHANGED <<approval, inventory, procurement>>

\* What the engine answers decides: the row as it is after its write.
WriteOrderApproval(c) ==
    LET p == calls[c].on IN
    /\ At(c, "approve_order")
    /\ WriteApproved(p, calls[c].saw.stage, calls[c].saw.actor)
    /\ Goto(c, IF approval'[p].status = "APPROVED" THEN "approved_order" ELSE "order_in_review", 0)
    /\ UNCHANGED <<inventory, procurement>>

WriteUnderReview(c) ==
    /\ At(c, "order_in_review") /\ Return(c)
    /\ order' = [order EXCEPT ![calls[c].on].status =
                    IF @ = "deleted" THEN @ ELSE "UNDER_REVIEW"]
    /\ UNCHANGED <<approval, inventory, purchase, deliveries, payments>>

WriteOrderApproved(c) ==
    LET p == calls[c].on IN
    /\ At(c, "approved_order")
    /\ IF order[p].status = "deleted"
       THEN Return(c) /\ UNCHANGED order
       ELSE Goto(c, "convert", 0) /\ order' = [order EXCEPT ![p].status = "APPROVED"]
    /\ UNCHANGED <<approval, inventory, purchase, deliveries, payments>>

\* convertToPurchase copies the lines as they are now; purchaseRequestId is unique.
ConvertToPurchase(c) ==
    LET p == calls[c].on IN
    /\ At(c, "convert") /\ Return(c)
    /\ purchase' = IF purchase[p].made \/ order[p].status = "deleted" THEN purchase
                   ELSE [purchase EXCEPT ![p] = [@ EXCEPT !.made = TRUE, !.total = order[p].total]]
    /\ UNCHANGED <<approval, inventory, order, deliveries, payments>>

RejectOrder(c, p, actor) ==
    /\ order[p].status \notin {"none", "DRAFT", "deleted"} /\ Actionable(actor, p)
    /\ Begin(c, "order", "reject_order", p, 0)
    /\ UNCHANGED <<approval, inventory, procurement>>

WriteOrderRejection(c) ==
    /\ At(c, "reject_order") /\ WriteRejected(calls[c].on) /\ Goto(c, "rejected_order", 0)
    /\ UNCHANGED <<inventory, procurement>>

WriteOrderRejected(c) ==
    /\ At(c, "rejected_order") /\ Return(c)
    /\ order' = [order EXCEPT ![calls[c].on].status = IF @ = "deleted" THEN @ ELSE "REJECTED"]
    /\ UNCHANGED <<approval, inventory, purchase, deliveries, payments>>

-----------------------------------------------------------------------------
(* Deliveries, their review, and payment.                                  *)

\* What entries, each with a quantity, come to together.
Together(entries) == SumOver(DOMAIN entries, [n \in DOMAIN entries |-> entries[n].qty])

\* Every entry for the purchase's line is compared by itself with what earlier deliveries brought.
ReceiveGoods(c, p, entries) ==
    /\ purchase[p].made /\ Len(receipts[p]) + Len(entries) <= MaxReceipts
    /\ \A n \in DOMAIN entries :
          entries[n].damaged <= entries[n].qty /\ Delivered(receipts[p]) + entries[n].qty <= Ordered[p]
    /\ Begin(c, "goods", "receive_goods", p,
             [entries |-> entries, acceptance |-> purchase[p].acceptance, status |-> purchase[p].delivery])
    /\ UNCHANGED <<approval, inventory, procurement>>

\* The transaction reads all committed lines; an overlapping one has its own.
CountDelivered(c) ==
    LET p == calls[c].on  s == calls[c].saw
        full == Delivered(receipts[p]) + Together(s.entries) >= Ordered[p]
    IN
    /\ At(c, "receive_goods")
    /\ Goto(c, "write_delivery", [s EXCEPT !.status = IF full THEN "FULLY_RECEIVED"
                                                     ELSE "PARTIALLY_RECEIVED"])
    /\ UNCHANGED <<approval, inventory, procurement>>

\* A line of the receipt for each entry.
Received(entries) ==
    [n \in DOMAIN entries |->
        [delivered |-> entries[n].qty, damaged |-> entries[n].damaged, reviewed |-> FALSE, accepted |-> 0]]

\* Faulty variant of WriteDelivery: a delivery leaves the acceptance as it is.
WriteDeliveryOnly(c) ==
    LET p == calls[c].on  s == calls[c].saw IN
    /\ At(c, "write_delivery") /\ Return(c)
    /\ receipts' = [receipts EXCEPT ![p] = @ \o Received(s.entries)]
    /\ repeated' = IF Len(s.entries) > 1 THEN repeated \cup {<<p, "delivery">>} ELSE repeated
    /\ purchase' = [purchase EXCEPT ![p].delivery = s.status]
    /\ UNCHANGED <<approval, inventory, order, stored, payments>>

\* The acceptance is made of what was read before the transaction.
WriteDelivery(c) ==
    LET p == calls[c].on  s == calls[c].saw IN
    /\ At(c, "write_delivery") /\ Return(c)
    /\ receipts' = [receipts EXCEPT ![p] = @ \o Received(s.entries)]
    /\ repeated' = IF Len(s.entries) > 1 THEN repeated \cup {<<p, "delivery">>} ELSE repeated
    /\ purchase' = [purchase EXCEPT ![p] =
           [@ EXCEPT !.delivery = s.status,
                     !.acceptance = IF s.acceptance \in {"PENDING", "FULLY_ACCEPTED"} THEN "RECEIVED"
                                    ELSE s.acceptance]]
    /\ UNCHANGED <<approval, inventory, order, stored, payments>>

\* Entries name a receipt line, perhaps the same one, and how much of it is accepted; each is
\* looked at by itself.
AcceptGoods(c, p, entries) ==
    /\ \A n \in DOMAIN entries : LET l == entries[n].line IN
          /\ l \in DOMAIN receipts[p] /\ ~receipts[p][l].reviewed
          /\ entries[n].qty <= receipts[p][l].delivered - receipts[p][l].damaged
    /\ Begin(c, "goods", "accept_goods", p, [entries |-> entries, all |-> FALSE])
    /\ UNCHANGED <<approval, inventory, procurement>>

LinesOf(entries) == {entries[n].line : n \in DOMAIN entries}

\* The transaction has reviewed its lines and reads the others as they are committed.
JudgeReview(c) ==
    LET p == calls[c].on  s == calls[c].saw
        others == (DOMAIN receipts[p]) \ LinesOf(s.entries)
    IN
    /\ At(c, "accept_goods")
    /\ Goto(c, "write_acceptance", [s EXCEPT !.all = \A l \in others : receipts[p][l].reviewed])
    /\ UNCHANGED <<approval, inventory, procurement>>

\* The entries are written one after the other: the last for a line stays.
LastFor(entries, l) ==
    CHOOSE n \in DOMAIN entries :
        entries[n].line = l /\ \A k \in DOMAIN entries : entries[k].line = l => k <= n

Reviewed(lines, entries) ==
    [l \in DOMAIN lines |->
        IF l \notin LinesOf(entries) THEN lines[l]
        ELSE [lines[l] EXCEPT !.reviewed = TRUE, !.accepted = entries[LastFor(entries, l)].qty]]

\* The lines, the stock and its movement for every entry, and what was judged of all lines.
WriteAcceptance(c) ==
    LET p == calls[c].on  s == calls[c].saw IN
    /\ At(c, "write_acceptance") /\ Return(c)
    /\ receipts' = [receipts EXCEPT ![p] = Reviewed(@, s.entries)]
    /\ stock' = [stock EXCEPT ![ItemOf[p]]["STORE"] = @ + Together(s.entries)]
    /\ Moved(ItemOf[p], "STORE", Together(s.entries))
    /\ stored' = [stored EXCEPT ![p] = @ + Together(s.entries)]
    /\ repeated' = IF Cardinality(LinesOf(s.entries)) < Len(s.entries) THEN repeated \cup {<<p, "review">>} ELSE repeated
    /\ purchase' = [purchase EXCEPT ![p].acceptance = IF s.all THEN "FULLY_ACCEPTED" ELSE "RECEIVED"]
    /\ UNCHANGED <<approval, alert, decision, applied, overdrawn, order, payments>>

RecordPayment(c, p, amount) ==
    /\ purchase[p].made /\ purchase[p].paid < purchase[p].total
    /\ Begin(c, "pay", "record_payment", p, [amount |-> amount, paid |-> purchase[p].paid + amount])
    /\ UNCHANGED <<approval, inventory, procurement>>

\* One transaction: the entry in the books, the payment, and the sum computed before.
WritePayment(c) ==
    LET p == calls[c].on  s == calls[c].saw IN
    /\ At(c, "record_payment") /\ Return(c)
    /\ payments' = [payments EXCEPT ![p] = @ + s.amount]
    /\ purchase' = [purchase EXCEPT ![p].paid = s.paid]
    /\ UNCHANGED <<approval, inventory, order, deliveries>>

-----------------------------------------------------------------------------
ProcurementStep(c) ==
    \/ WriteEdited(c) \/ WriteRemoved(c) \/ WriteSubmitted(c)
    \/ WriteOrderApproval(c) \/ WriteUnderReview(c) \/ WriteOrderApproved(c)
    \/ ConvertToPurchase(c) \/ WriteOrderRejection(c) \/ WriteOrderRejected(c)
    \/ CountDelivered(c) \/ WriteDelivery(c) \/ JudgeReview(c) \/ WriteAcceptance(c)
    \/ WritePayment(c)

\* Bound: a call has one entry of E, or two of D.
OneOrTwo(E, D) == {<<e>> : e \in E} \cup {<<d, e>> : d, e \in D}

GoodsRequest(c, p) ==
    \/ \E entries \in OneOrTwo([qty : 1..Ordered[p], damaged : 0..1], [qty : 1..Ordered[p], damaged : {0}]) :
          ReceiveGoods(c, p, entries)
    \/ \E entries \in OneOrTwo([line : 1..MaxReceipts, qty : 0..Ordered[p]], [line : 1..MaxReceipts, qty : {1}]) :
          AcceptGoods(c, p, entries)
    \/ RecordPayment(c, p, 1)

ProcurementRequest(c) ==
    \E p \in PurchaseRequests :
        \/ \E total \in Totals : DraftOrder(c, p, total) \/ EditOrder(c, p, total)
        \/ RemoveOrder(c, p) \/ SubmitOrder(c, p)
        \/ \E actor \in Actors : ApproveOrder(c, p, actor) \/ RejectOrder(c, p, actor)
        \/ GoodsRequest(c, p)

-----------------------------------------------------------------------------
(* Properties                                                              *)

\* Nothing is bought that not every stage of the chain has signed, in whatever order
\* approvals, a rejection, an edit and a deletion overlap.
BoughtWasSigned ==
    \A p \in PurchaseRequests : purchase[p].made =>
        \A n \in 1..Chain[p] : \E a \in Actors : <<n, a>> \in approval[p].signed

\* A purchase that says FULLY_ACCEPTED has no delivery left to review, one handler after
\* the other: whichever of deliveries and reviews comes last, and whoever dies, the status
\* is kept honest.
AcceptanceIsHonest ==
    overlapped \/ \A p \in PurchaseRequests : purchase[p].acceptance = "FULLY_ACCEPTED" =>
        \A l \in DOMAIN receipts[p] : receipts[p][l].reviewed

\* One handler after the other, whoever dies: what was bought, and what is paid, accepted
\* and delivered fit together.  No more is delivered than was ordered, and what was accepted is
\* what went into the store: unless one call named the line twice, which nothing refuses, though
\* "each line is reviewed exactly once".
PurchaseAddsUp ==
    overlapped \/ \A p \in PurchaseRequests : purchase[p].made =>
        /\ purchase[p].total = order[p].submitted
        /\ purchase[p].paid = payments[p]
        /\ Accepted(receipts[p]) <= Delivered(receipts[p])
        /\ Delivered(receipts[p]) <= Ordered[p] \/ <<p, "delivery">> \in repeated
        /\ stored[p] = Accepted(receipts[p]) \/ <<p, "review">> \in repeated

\* What was approved, and what was bought, has every signature.
SignedFirst == EveryStageSigned /\ BoughtWasSigned

\* Purchases, deliveries and payments agree with each other.
PurchasesKept == ProcurementTypeOK /\ AcceptanceIsHonest /\ PurchaseAddsUp
===============================================================================
