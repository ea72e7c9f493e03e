--------------------------- MODULE BookingPayment ---------------------------
(***************************************************************************)
(* How one customer's bookings are paid for: from the wallet, in cash, or  *)
(* by a payment intent that splits the price between the wallet and the    *)
(* Monnify gateway and makes the booking once the gateway has the money;   *)
(* and how a cancelled booking is paid back.                               *)
(*                                                                         *)
(* A key is the idempotency key the customer's app sends: it names at most *)
(* one booking (unique index) and at most one intent (unique reference).   *)
(* A handler reads rows, lets others run, and writes; each database        *)
(* transaction is one step.  The transaction that fulfils an intent locks  *)
(* its row; the other writes to an intent go by id, and store the whole    *)
(* metadata as the handler read it.                                        *)
(*                                                                         *)
(* The price stands for services, branch prices and discount together.     *)
(***************************************************************************)
EXTENDS Integers

CONSTANTS
    Keys,           \* idempotency keys
    Callers,        \* requests and queue workers that run concurrently
    Prices,         \* what a booking may cost
    Opening,        \* the wallet's balance at the start
    Attempts,       \* attempts of a webhook job (Bull)
    MaxDeliveries,  \* bound: webhooks the gateway sends for one intent
    Ops,            \* which requests a run allows
    Troubles,       \* which mishaps a run allows
    MaxTroubles     \* bound: how many of them

OpKinds      == {"create", "initialize", "verify", "cancel", "admin"}
TroubleKinds == {"price", "crash", "database", "late", "spend"}

ASSUME PriceAssumption == Prices \subseteq Nat \ {0} /\ Opening \in Nat
ASSUME BoundAssumption == /\ Attempts \in Nat \ {0} /\ MaxDeliveries \in Nat
                          /\ MaxTroubles \in Nat
ASSUME KindAssumption == Ops \subseteq OpKinds /\ Troubles \subseteq TroubleKinds

NoKey == "no_key"
ASSUME NoKeyAssumption == NoKey \notin Keys

VARIABLES
    balance,    \* wallets.balance
    price,      \* price[k]: what the booking costs now
    booking,    \* booking[k]: the booking row
    intent,     \* intent[k]: the BOOKING_PAYMENT row of the transactions table
    late,       \* late[k]: the intent's 30 minutes are over
    gateway,    \* gateway[k]: what the gateway received
    taken,      \* taken[k]: wallet money debited for k
    returned,   \* returned[k]: wallet money credited as k's refund
    jobs,       \* jobs[k]: attempts left of k's webhook job, 0 when there is none
    deliveries, \* deliveries[k]: webhooks sent so far (bounded)
    calls,      \* calls[c]: what caller c is doing
    troubles    \* mishaps so far (bounded)

money == <<balance, taken, returned>>
outer == <<price, late, gateway, deliveries, troubles>>
vars  == <<money, outer, booking, intent, jobs, calls>>

\* PENDING_ASSIGNMENT stands for the later statuses of a home visit too.
BookingStatuses == {"NONE", "PENDING", "CONFIRMED", "PENDING_ASSIGNMENT", "COMPLETED",
                    "CANCELLED"}
Methods == {"NONE", "WALLET", "CASH", "MONNIFY"}
IntentStatuses == {"NONE", "PENDING", "COMPLETED", "FAILED"}

NoBooking == [status |-> "NONE", method |-> "NONE", total |-> 0]
Bookings  == [status : BookingStatuses, method : Methods, total : Nat]

\* share and due: the wallet's and the gateway's part.  confirmed: metadata.
\* gatewayPaymentStatus is PAID.  booked: metadata.bookingId is set.
NoIntent == [status |-> "NONE", share |-> 0, due |-> 0, confirmed |-> FALSE, booked |-> FALSE]
Intents  == [status : IntentStatuses, share : Nat, due : Nat,
             confirmed : BOOLEAN, booked : BOOLEAN]

Stages == {"idle", "create", "intent", "expire", "lookup", "gateway", "notPaid",
           "confirm", "context", "fulfil", "record", "cancel", "admin"}

Idle  == [key |-> NoKey, stage |-> "idle", job |-> FALSE, seen |-> NoIntent,
          from |-> "NONE", to |-> "NONE", method |-> "NONE", total |-> 0]
Calls == [key : Keys \cup {NoKey}, stage : Stages, job : BOOLEAN, seen : Intents,
          from : BookingStatuses, to : BookingStatuses, method : Methods, total : Nat]

TypeOK ==
    /\ balance \in Nat
    /\ price \in [Keys -> Nat \ {0}]
    /\ booking \in [Keys -> Bookings]
    /\ intent \in [Keys -> Intents]
    /\ late \in [Keys -> BOOLEAN]
    /\ gateway \in [Keys -> {"unpaid", "paid", "other"}]
    /\ taken \in [Keys -> Nat] /\ returned \in [Keys -> Nat]
    /\ jobs \in [Keys -> Nat] /\ deliveries \in [Keys -> Nat]
    /\ calls \in [Callers -> Calls]
    /\ \A c \in Callers : calls[c].stage # "idle" => calls[c].key \in Keys
    /\ troubles \in Nat

Init ==
    /\ balance = Opening
    /\ price \in [Keys -> Prices]
    /\ booking = [k \in Keys |-> NoBooking]
    /\ intent = [k \in Keys |-> NoIntent]
    /\ late = [k \in Keys |-> FALSE]
    /\ gateway = [k \in Keys |-> "unpaid"]
    /\ taken = [k \in Keys |-> 0] /\ returned = [k \in Keys |-> 0]
    /\ jobs = [k \in Keys |-> 0] /\ deliveries = [k \in Keys |-> 0]
    /\ calls = [c \in Callers |-> Idle]
    /\ troubles = 0

Booked(k) == booking[k].status # "NONE"

At(c, stage) == calls[c].stage = stage
Key(c) == calls[c].key
Goto(c, stage) == calls' = [calls EXCEPT ![c].stage = stage]
Begin(c, call) == At(c, "idle") /\ calls' = [calls EXCEPT ![c] = call]

\* A handler ends well, or throws.  That ends a webhook job, or one attempt of it.
Leave(c, left) ==
    /\ calls' = [calls EXCEPT ![c] = Idle]
    /\ jobs' = IF calls[c].job THEN [jobs EXCEPT ![Key(c)] = left] ELSE jobs
Return(c) == Leave(c, 0)
Throw(c)  == Leave(c, jobs[Key(c)] - 1)

\* The metadata and status a handler writes by the intent's id, from what it read.
Overwrite(c, status, confirmed) ==
    intent' = [intent EXCEPT ![Key(c)].status = status,
                             ![Key(c)].confirmed = confirmed,
                             ![Key(c)].booked = calls[c].seen.booked]

Mishap(kind) == kind \in Troubles /\ troubles < MaxTroubles /\ troubles' = troubles + 1

-----------------------------------------------------------------------------
(* Booking with the wallet or in cash (create).                            *)

\* A key seen before is answered with its booking; a new one is priced ...
Create(c, k, method) ==
    /\ "create" \in Ops
    /\ ~Booked(k)
    /\ Begin(c, [Idle EXCEPT !.key = k, !.stage = "create", !.method = method,
                             !.total = price[k]])
    /\ UNCHANGED <<money, outer, booking, intent, jobs>>

\* ... and booked in one transaction, with the debit when the wallet pays.  The
\* unique key or the balance may refuse it.
CreateCommit(c) ==
    LET k == Key(c)  wallet == calls[c].method = "WALLET" IN
    /\ At(c, "create")
    /\ IF Booked(k) \/ (wallet /\ balance < calls[c].total)
       THEN UNCHANGED <<booking, balance, taken>>
       ELSE /\ \E s \in IF wallet THEN {"CONFIRMED", "PENDING_ASSIGNMENT"} ELSE {"PENDING"} :
                 booking' = [booking EXCEPT ![k] = [status |-> s, method |-> calls[c].method,
                                                    total |-> calls[c].total]]
            /\ balance' = IF wallet THEN balance - calls[c].total ELSE balance
            /\ taken' = IF wallet THEN [taken EXCEPT ![k] = @ + calls[c].total] ELSE taken
    /\ Return(c)
    /\ UNCHANGED <<returned, outer, intent>>

-----------------------------------------------------------------------------
(* The payment intent and the gateway.                                     *)

\* initializeBookingPayment: the wallet gives what it has, the gateway the rest.
Initialize(c, k) ==
    LET share == IF balance < price[k] THEN balance ELSE price[k] IN
    /\ "initialize" \in Ops
    /\ intent[k].status = "NONE"
    /\ price[k] > share
    /\ Begin(c, [Idle EXCEPT !.key = k, !.stage = "intent",
                             !.seen = [NoIntent EXCEPT !.status = "PENDING", !.share = share,
                                                       !.due = price[k] - share]])
    /\ UNCHANGED <<money, outer, booking, intent, jobs>>

\* The row is inserted after the gateway's answer; its reference is unique.
InitializeWrite(c) ==
    LET k == Key(c) IN
    /\ At(c, "intent")
    /\ intent' = IF intent[k].status = "NONE" THEN [intent EXCEPT ![k] = calls[c].seen]
                 ELSE intent
    /\ Return(c)
    /\ UNCHANGED <<money, outer, booking>>

\* The customer pays at the checkout page, the right amount or not.
GatewayPays(k) ==
    /\ intent[k].status # "NONE"
    /\ gateway[k] = "unpaid"
    /\ \E verdict \in {"paid", "other"} : gateway' = [gateway EXCEPT ![k] = verdict]
    /\ UNCHANGED <<money, price, late, deliveries, troubles, booking, intent, jobs, calls>>

\* The gateway's webhook becomes a queue job.
WebhookArrives(k) ==
    /\ gateway[k] # "unpaid"
    /\ jobs[k] = 0
    /\ deliveries[k] < MaxDeliveries
    /\ deliveries' = [deliveries EXCEPT ![k] = @ + 1]
    /\ jobs' = [jobs EXCEPT ![k] = Attempts]
    /\ UNCHANGED <<money, price, late, gateway, troubles, booking, intent, calls>>

\* expiresAt passes; the checkout page does not know of it.
IntentLapses(k) ==
    /\ intent[k].status # "NONE"
    /\ ~late[k]
    /\ Mishap("late")
    /\ late' = [late EXCEPT ![k] = TRUE]
    /\ UNCHANGED <<money, price, gateway, deliveries, booking, intent, jobs, calls>>

-----------------------------------------------------------------------------
(* verifyBookingPayment, called by the customer's app or by a webhook job. *)

\* The intent is read; one that is late and not confirmed will be written off.
Verify(c, k, job) ==
    LET it == intent[k] IN
    /\ it.status # "NONE"
    /\ IF job THEN jobs[k] > 0 /\ \A d \in Callers : ~(Key(d) = k /\ calls[d].job)
       ELSE "verify" \in Ops
    /\ Begin(c, [Idle EXCEPT !.key = k, !.job = job, !.seen = it,
                   !.stage = IF it.status = "PENDING" /\ ~it.confirmed /\ late[k]
                             THEN "expire" ELSE "lookup"])
    /\ UNCHANGED <<money, outer, booking, intent, jobs>>

\* FAILED is written by id; the handler goes on all the same.
ExpireIntent(c) ==
    /\ At(c, "expire")
    /\ Overwrite(c, "FAILED", FALSE)
    /\ Goto(c, "lookup")
    /\ UNCHANGED <<money, outer, booking, jobs>>

\* A booking of this key, whoever made it, answers the request.
LookUp(c) ==
    /\ At(c, "lookup")
    /\ IF Booked(Key(c))
       THEN Return(c)
       ELSE /\ Goto(c, IF calls[c].seen.confirmed THEN "context" ELSE "gateway")
            /\ UNCHANGED jobs
    /\ UNCHANGED <<money, outer, booking, intent>>

\* The gateway is asked; another amount than the one due is refused, as a payment
\* that is not complete or as one of the wrong amount.
AskGateway(c) ==
    LET verdict == gateway[Key(c)] IN
    /\ At(c, "gateway")
    /\ \/ verdict = "paid" /\ Goto(c, "confirm") /\ UNCHANGED jobs
       \/ verdict # "paid" /\ Goto(c, "notPaid") /\ UNCHANGED jobs
       \/ verdict = "other" /\ Throw(c)
    /\ UNCHANGED <<money, outer, booking, intent>>

\* Not paid: FAILED is written by id.
MarkNotPaid(c) ==
    /\ At(c, "notPaid")
    /\ Overwrite(c, "FAILED", FALSE)
    /\ Throw(c)
    /\ UNCHANGED <<money, outer, booking>>

\* confirmGatewayPaymentOnIntent: only a PENDING intent is marked.
ConfirmGatewayPayment(c) ==
    LET k == Key(c) IN
    /\ At(c, "confirm")
    /\ intent' = IF intent[k].status = "PENDING"
                 THEN [intent EXCEPT ![k].confirmed = TRUE, ![k].booked = calls[c].seen.booked]
                 ELSE intent
    /\ calls' = [calls EXCEPT ![c].stage = "context", ![c].seen.confirmed = TRUE]
    /\ UNCHANGED <<money, outer, booking, jobs>>

\* Faulty variant: the price of today is not compared with the split that was paid.
CheckContextAnyPrice(c) ==
    /\ At(c, "context")
    /\ IF balance < calls[c].seen.share
       THEN Throw(c)
       ELSE /\ calls' = [calls EXCEPT ![c].stage = "fulfil", ![c].total = price[Key(c)]]
            /\ UNCHANGED jobs
    /\ UNCHANGED <<money, outer, booking, intent>>

\* Price and balance must still be those of the split.
CheckContext(c) ==
    LET seen == calls[c].seen IN
    /\ At(c, "context")
    /\ IF price[Key(c)] # seen.share + seen.due \/ balance < seen.share
       THEN Throw(c)
       ELSE /\ calls' = [calls EXCEPT ![c].stage = "fulfil", ![c].total = price[Key(c)]]
            /\ UNCHANGED jobs
    /\ UNCHANGED <<money, outer, booking, intent>>

\* Debit, booking and COMPLETED in one transaction, with the intent's row locked.
\* An intent that is no longer pending, an empty wallet or a failing database is
\* put on record; a booking of the same key answers the request.
Fulfil(c) ==
    LET k == Key(c)  it == intent[k] IN
    /\ At(c, "fulfil")
    /\ it.status = "PENDING" /\ balance >= it.share /\ ~Booked(k)
    /\ balance' = balance - it.share
    /\ taken' = [taken EXCEPT ![k] = @ + it.share]
    /\ \E s \in {"CONFIRMED", "PENDING_ASSIGNMENT"} :
         booking' = [booking EXCEPT ![k] = [status |-> s, method |-> "MONNIFY",
                                            total |-> calls[c].total]]
    /\ intent' = [intent EXCEPT ![k].status = "COMPLETED", ![k].booked = TRUE]
    /\ Return(c)
    /\ UNCHANGED <<returned, outer>>

FulfilledBefore(c) ==
    LET k == Key(c)  it == intent[k] IN
    /\ At(c, "fulfil")
    /\ \/ it.status = "COMPLETED" /\ it.booked
       \/ it.status = "PENDING" /\ balance >= it.share /\ Booked(k)
    /\ Return(c)
    /\ UNCHANGED <<money, outer, booking, intent>>

FulfilRefused(c) ==
    LET k == Key(c)  it == intent[k] IN
    /\ At(c, "fulfil")
    /\ \/ it.status = "PENDING" /\ balance < it.share
       \/ it.status # "PENDING" /\ ~(it.status = "COMPLETED" /\ it.booked)
    /\ Goto(c, "record")
    /\ UNCHANGED <<money, outer, booking, intent, jobs>>

DatabaseFails(c) ==
    /\ At(c, "fulfil")
    /\ Mishap("database")
    /\ Goto(c, "record")
    /\ UNCHANGED <<money, price, late, gateway, deliveries, booking, intent, jobs>>

\* recordFulfillmentFailure: the metadata as read, by id; the status is left alone.
RecordFailure(c) ==
    /\ At(c, "record")
    /\ Overwrite(c, intent[Key(c)].status, TRUE)
    /\ Throw(c)
    /\ UNCHANGED <<money, outer, booking>>

-----------------------------------------------------------------------------
(* Cancelling, by the customer and by an admin.                            *)

\* Faulty variant: the refund's reference does not keep a second one out.
SettleAgain(c, to, refund) ==
    LET k == Key(c) IN
    /\ booking' = [booking EXCEPT ![k].status = to]
    /\ balance' = IF refund THEN balance + booking[k].total ELSE balance
    /\ returned' = IF refund THEN [returned EXCEPT ![k] = @ + booking[k].total] ELSE returned

\* A refund has a unique reference: a second one undoes its whole transaction.
Settle(c, to, refund) ==
    LET k == Key(c) IN
    IF refund /\ returned[k] > 0
    THEN UNCHANGED <<booking, balance, returned>>
    ELSE /\ booking' = [booking EXCEPT ![k].status = to]
         /\ balance' = IF refund THEN balance + booking[k].total ELSE balance
         /\ returned' = IF refund THEN [returned EXCEPT ![k] = @ + booking[k].total] ELSE returned

\* updateStatus and updateStatusAdmin read the booking and check that it is not over.
RequestStatus(c, k, to, by) ==
    /\ by \in Ops
    /\ booking[k].status \notin {"NONE", "COMPLETED", "CANCELLED"}
    /\ Begin(c, [Idle EXCEPT !.key = k, !.stage = by, !.from = booking[k].status, !.to = to])
    /\ UNCHANGED <<money, outer, booking, intent, jobs>>

\* The customer's cancellation pays wallet bookings back.
CancelCommit(c) ==
    /\ At(c, "cancel")
    /\ Settle(c, "CANCELLED", booking[Key(c)].method = "WALLET")
    /\ Return(c)
    /\ UNCHANGED <<taken, outer, intent>>

\* An admin's pays back whatever was paid how, if it was CONFIRMED or PENDING.
AdminCommit(c) ==
    /\ At(c, "admin")
    /\ Settle(c, calls[c].to,
              calls[c].to = "CANCELLED" /\ calls[c].from \in {"CONFIRMED", "PENDING"})
    /\ Return(c)
    /\ UNCHANGED <<taken, outer, intent>>

-----------------------------------------------------------------------------
\* A service, a branch price or a discount changes.
PriceChanges(k) ==
    /\ Mishap("price")
    /\ \E p \in Prices \ {price[k]} : price' = [price EXCEPT ![k] = p]
    /\ UNCHANGED <<money, late, gateway, deliveries, booking, intent, jobs, calls>>

\* The customer pays for something else from the same wallet.
SpendsElsewhere ==
    /\ balance > 0
    /\ Mishap("spend")
    /\ balance' = balance - 1
    /\ UNCHANGED <<taken, returned, price, late, gateway, deliveries, booking, intent, jobs, calls>>

\* A process dies between two awaits; Bull gives its job to another worker.
Crash(c) ==
    /\ ~At(c, "idle")
    /\ Mishap("crash")
    /\ calls' = [calls EXCEPT ![c] = Idle]
    /\ UNCHANGED <<money, price, late, gateway, deliveries, booking, intent, jobs>>

CallStep(c) ==
    \/ CreateCommit(c) \/ InitializeWrite(c)
    \/ ExpireIntent(c) \/ LookUp(c) \/ AskGateway(c) \/ MarkNotPaid(c)
    \/ ConfirmGatewayPayment(c) \/ CheckContext(c)
    \/ Fulfil(c) \/ FulfilledBefore(c) \/ FulfilRefused(c) \/ RecordFailure(c)
    \/ CancelCommit(c) \/ AdminCommit(c)

CheckoutRequest(c, k) ==
    \/ \E method \in {"WALLET", "CASH"} : Create(c, k, method)
    \/ Initialize(c, k)
    \/ Verify(c, k, FALSE)

Request(c, k) ==
    \/ CheckoutRequest(c, k)
    \/ RequestStatus(c, k, "CANCELLED", "cancel")
    \/ \E to \in BookingStatuses \ {"NONE"} : RequestStatus(c, k, to, "admin")

Next ==
    \/ \E c \in Callers : CallStep(c) \/ DatabaseFails(c) \/ Crash(c)
    \/ \E c \in Callers, k \in Keys : Request(c, k) \/ Verify(c, k, TRUE)
    \/ \E k \in Keys : GatewayPays(k) \/ WebhookArrives(k) \/ IntentLapses(k) \/ PriceChanges(k)
    \/ SpendsElsewhere

Spec == Init /\ [][Next]_vars

\* Handlers in progress go on, and workers take the jobs in the queue.
Fairness ==
    /\ \A c \in Callers : WF_vars(CallStep(c))
    /\ \A k \in Keys : SF_vars(\E c \in Callers : Verify(c, k, TRUE))

FairSpec == Spec /\ Fairness

-----------------------------------------------------------------------------
\* Every booking is paid for, neither less nor more than it costs: out of the wallet,
\* or split between the wallet and the gateway as agreed; nothing is taken for a
\* booking that was not made (verifyBookingPayment, debitWalletAndRecordTx).
PaidInFull ==
    \A k \in Keys :
        CASE booking[k].method = "WALLET"  -> taken[k] = booking[k].total
          [] booking[k].method = "MONNIFY" -> /\ gateway[k] = "paid"
                                              /\ taken[k] + intent[k].due = booking[k].total
          [] OTHER -> taken[k] = 0

\* However the customer and the admins cancel, a booking is paid back at most once
\* (the REFUND reference in updateStatus and updateStatusAdmin).
RefundedOnce ==
    \A k \in Keys : returned[k] \in {0, booking[k].total}

\* The webhook of a paid intent ends in a booking, as the guide says: "If Monnify webhook
\* arrives before frontend callback, backend processes BOOKING_PAYMENT and creates booking
\* automatically."
WebhookBooks ==
    \A k \in Keys : (jobs[k] > 0 /\ gateway[k] = "paid") ~> Booked(k)
=============================================================================
