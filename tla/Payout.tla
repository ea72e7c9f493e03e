------------------------------- MODULE Payout -------------------------------
(***************************************************************************)
(* How beauticians are paid out of their wallets: a request is made, and   *)
(* by itself (AUTO) or by an admin turned into a Paystack transfer; what   *)
(* became of the transfer is told by Paystack's answer or by a webhook,    *)
(* and settling it debits the wallet.                                      *)
(*                                                                         *)
(* All writes to a request go by its id.  A reference is made for each     *)
(* transfer, so a request that is processed twice has two transfers and    *)
(* keeps the reference of the last.  Settling is a READ COMMITTED          *)
(* transaction: its reads lock nothing, its writes appear together.        *)
(*                                                                         *)
(* One beautician and one day: requests of yesterday, which the daily pool *)
(* does not count, and bank accounts are left out.  Paystack's call to the *)
(* approval endpoint can only make a transfer fail, which it may do here   *)
(* anyhow.  An event of a transfer is in the queue at most once at a time. *)
(***************************************************************************)
EXTENDS Integers, FiniteSetsExt

CONSTANTS
    Requests,       \* payout requests
    Amount,         \* Amount[p]: what request p is for
    Opening,        \* the wallet's balance at the start
    Limit,          \* HomeServiceSettings.dailyPayoutLimit
    Callers,        \* request handlers and queue workers that run concurrently
    MaxTransfers,   \* bound: transfers ever asked for
    Attempts,       \* attempts of a webhook job (Bull)
    Troubles,       \* which mishaps a run allows
    MaxTroubles     \* bound: how many of them

TroubleKinds == {"timeout", "crash", "spend"}

ASSUME AmountAssumption == /\ Amount \in [Requests -> Nat \ {0}]
                           /\ Opening \in Nat /\ Limit \in Nat
ASSUME BoundAssumption == /\ MaxTransfers \in Nat /\ MaxTroubles \in Nat
                          /\ Attempts \in Nat \ {0}
ASSUME TroubleAssumption == Troubles \subseteq TroubleKinds

NoRequest == "no_request"
ASSUME NoRequestAssumption == NoRequest \notin Requests

Transfers == 1..MaxTransfers    \* by their references; 0 is no reference

VARIABLES
    balance,    \* wallets.balance
    payout,     \* payout[p]: the payout_requests row
    debits,     \* debits[p]: how often p's amount was taken from the wallet
    transfer,   \* transfer[t]: the transfer as Paystack knows it
    jobs,       \* jobs[t, e]: attempts left of the job for event e of transfer t
    calls,      \* calls[c]: what caller c is doing
    troubles    \* mishaps so far (bounded)

rows == <<balance, payout, debits>>
vars == <<rows, transfer, jobs, calls, troubles>>

RequestStatuses == {"NONE", "PENDING", "PROCESSING", "COMPLETED", "REJECTED", "CANCELLED"}

\* What Paystack makes of a transfer.  "named": a reference was made for it, and Paystack
\* has not heard of it; "waiting": queued, or waiting for an OTP.
TransferStates == {"unused", "named", "waiting", "success", "failed", "reversed"}
Events == {"success", "failed", "reversed"}

\* ref and code: the transfer named by paystackTransferReference and -Code.
Payouts == [status : RequestStatuses, ref : 0..MaxTransfers, code : 0..MaxTransfers]
TransferRecords == [request : Requests \cup {NoRequest}, state : TransferStates]

Stages == {"idle", "reserve", "create", "check", "available", "start", "send", "finalize",
           "outcome", "cancel", "complete", "debit", "reject"}

\* transfer: the one this call asked for or is told of.  event: what it was told.
Idle  == [stage |-> "idle", request |-> NoRequest, seen |-> 0, transfer |-> 0,
          event |-> "waiting", job |-> FALSE]
Calls == [stage : Stages, request : Requests \cup {NoRequest}, seen : Int,
          transfer : 0..MaxTransfers, event : Events \cup {"waiting"}, job : BOOLEAN]

TypeOK ==
    /\ balance \in Int
    /\ payout \in [Requests -> Payouts]
    /\ debits \in [Requests -> Nat]
    /\ transfer \in [Transfers -> TransferRecords]
    /\ jobs \in [Transfers \X Events -> Nat]
    /\ calls \in [Callers -> Calls]
    /\ \A c \in Callers : calls[c].stage # "idle" => calls[c].request \in Requests
    /\ troubles \in Nat

Init ==
    /\ balance = Opening
    /\ payout = [p \in Requests |-> [status |-> "NONE", ref |-> 0, code |-> 0]]
    /\ debits = [p \in Requests |-> 0]
    /\ transfer = [t \in Transfers |-> [request |-> NoRequest, state |-> "unused"]]
    /\ jobs = [j \in Transfers \X Events |-> 0]
    /\ calls = [c \in Callers |-> Idle]
    /\ troubles = 0

At(c, stage) == calls[c].stage = stage
Request(c) == calls[c].request
Goto(c, stage) == calls' = [calls EXCEPT ![c].stage = stage]
Begin(c, call) == At(c, "idle") /\ calls' = [calls EXCEPT ![c] = call]

\* A handler ends well, or throws.  That ends a webhook job, or one attempt of it.
Leave(c, left) ==
    /\ calls' = [calls EXCEPT ![c] = Idle]
    /\ jobs' = IF calls[c].job
               THEN [jobs EXCEPT ![<<calls[c].transfer, calls[c].event>>] = left] ELSE jobs
Return(c) == Leave(c, 0)
Throw(c)  == Leave(c, jobs[<<calls[c].transfer, calls[c].event>>] - 1)

Mishap(kind) == kind \in Troubles /\ troubles < MaxTroubles /\ troubles' = troubles + 1

\* The amounts of the requests with one of these statuses, p's own left out.
SumOf(statuses, p) ==
    MapThenSumSet(LAMBDA q : Amount[q], {q \in Requests \ {p} : payout[q].status \in statuses})

\* What is asked for and not yet paid, and what counts for the daily pool.
Reserved(p) == SumOf({"PENDING", "PROCESSING"}, p)
Used(p)     == SumOf({"PENDING", "PROCESSING", "COMPLETED"}, p)

WithinDailyLimit(p) == Used(p) + Amount[p] <= Limit

-----------------------------------------------------------------------------
(* The beautician asks for a payout (createRequest).                       *)

\* The balance is read and the pool checked; the mode is a setting.
CreateRequest(c, p, auto) ==
    /\ payout[p].status = "NONE"
    /\ \A d \in Callers : Request(d) # p
    /\ WithinDailyLimit(p)
    /\ Begin(c, [Idle EXCEPT !.stage = IF auto THEN "check" ELSE "reserve", !.request = p,
                             !.seen = IF auto THEN 0 ELSE balance])
    /\ UNCHANGED <<rows, transfer, jobs, troubles>>

\* What other requests hold back is read later than the balance.
Reserve(c) ==
    /\ At(c, "reserve")
    /\ IF Amount[Request(c)] > calls[c].seen - Reserved(Request(c))
       THEN Return(c)
       ELSE /\ calls' = [calls EXCEPT ![c].stage = "create", ![c].seen = 0]
            /\ UNCHANGED jobs
    /\ UNCHANGED <<rows, transfer, troubles>>

CreatePending(c) ==
    /\ At(c, "create")
    /\ payout' = [payout EXCEPT ![Request(c)].status = "PENDING"]
    /\ Return(c)
    /\ UNCHANGED <<balance, debits, transfer, troubles>>

-----------------------------------------------------------------------------
(* A transfer is made (processPendingRequest, initiateForUser).            *)

\* An admin processes a request that is PENDING at this moment.
ProcessPendingRequest(c, p) ==
    /\ payout[p].status = "PENDING"
    /\ Begin(c, [Idle EXCEPT !.stage = "check", !.request = p])
    /\ UNCHANGED <<rows, transfer, jobs, troubles>>

\* assertSufficientAvailableBalance reads the balance ...
CheckBalance(c) ==
    /\ At(c, "check")
    /\ calls' = [calls EXCEPT ![c].stage = "available", ![c].seen = balance]
    /\ UNCHANGED <<rows, transfer, jobs, troubles>>

\* ... and then what is reserved; the daily pool is checked again.
CheckAvailable(c) ==
    LET p == Request(c) IN
    /\ At(c, "available")
    /\ IF Amount[p] > calls[c].seen - Reserved(p) \/ ~WithinDailyLimit(p)
       THEN Return(c)
       ELSE /\ calls' = [calls EXCEPT ![c].stage = "start", ![c].seen = 0]
            /\ UNCHANGED jobs
    /\ UNCHANGED <<rows, transfer, troubles>>

\* A new reference; PROCESSING is written by id, or the row created with it.
StartTransfer(c) ==
    LET p == Request(c) IN
    /\ At(c, "start")
    /\ \E t \in Transfers :
        /\ transfer[t].state = "unused"
        /\ \A u \in Transfers : u < t => transfer[u].state # "unused"
        /\ transfer' = [transfer EXCEPT ![t] = [request |-> p, state |-> "named"]]
        /\ payout' = [payout EXCEPT ![p] = [status |-> "PROCESSING", ref |-> t, code |-> 0]]
        /\ calls' = [calls EXCEPT ![c].stage = "send", ![c].transfer = t]
    /\ UNCHANGED <<balance, debits, jobs, troubles>>

\* Paystack is asked, and answers with the state of the transfer ...
SendTransfer(c) ==
    LET t == calls[c].transfer IN
    /\ At(c, "send")
    /\ \E state \in {"waiting", "success", "failed"} :
        /\ transfer' = [transfer EXCEPT ![t].state = state]
        /\ calls' = [calls EXCEPT ![c].stage = "outcome", ![c].event = state]
    /\ UNCHANGED <<rows, jobs, troubles>>

\* ... or refuses, or the answer does not come although the transfer was accepted.
SendFails(c) ==
    LET t == calls[c].transfer IN
    /\ At(c, "send")
    /\ \/ UNCHANGED <<transfer, troubles>>
       \/ /\ Mishap("timeout")
          /\ transfer' = [transfer EXCEPT ![t].state = "waiting"]
    /\ Goto(c, "cancel")
    /\ UNCHANGED <<rows, jobs>>

\* Either way the request is CANCELLED, by id.
CancelRequest(c) ==
    /\ At(c, "cancel")
    /\ payout' = [payout EXCEPT ![Request(c)].status = "CANCELLED"]
    /\ Return(c)
    /\ UNCHANGED <<balance, debits, transfer, troubles>>

\* approveTransfer: an admin gives the OTP for the transfer with the request's code.
ApproveTransfer(c, p) ==
    /\ payout[p].status = "PROCESSING" /\ payout[p].code # 0
    /\ Begin(c, [Idle EXCEPT !.stage = "finalize", !.request = p,
                             !.transfer = payout[p].code])
    /\ UNCHANGED <<rows, transfer, jobs, troubles>>

\* Paystack goes on with a transfer that waits, or refuses.
FinalizeTransfer(c) ==
    LET t == calls[c].transfer IN
    /\ At(c, "finalize")
    /\ \/ /\ transfer[t].state = "waiting"
          /\ \E state \in {"waiting", "success", "failed"} :
              /\ transfer' = [transfer EXCEPT ![t].state = state]
              /\ calls' = [calls EXCEPT ![c].stage = "outcome", ![c].event = state]
          /\ UNCHANGED jobs
       \/ Return(c) /\ UNCHANGED transfer
    /\ UNCHANGED <<rows, troubles>>

\* Faulty variant: an answer that is not a failure is taken for a success.
HandleTransferOutcomeHopeful(c) ==
    /\ At(c, "outcome")
    /\ payout' = [payout EXCEPT ![Request(c)].code = calls[c].transfer]
    /\ Goto(c, IF calls[c].event = "failed" THEN "reject" ELSE "complete")
    /\ UNCHANGED <<balance, debits, transfer, jobs, troubles>>

\* handleTransferOutcome: the code is written, and a final answer settled.
HandleTransferOutcome(c) ==
    /\ At(c, "outcome")
    /\ payout' = [payout EXCEPT ![Request(c)].code = calls[c].transfer]
    /\ CASE calls[c].event = "failed"  -> Goto(c, "reject") /\ UNCHANGED jobs
         [] calls[c].event = "success" -> Goto(c, "complete") /\ UNCHANGED jobs
         [] OTHER -> Return(c)
    /\ UNCHANGED <<balance, debits, transfer, troubles>>

-----------------------------------------------------------------------------
(* Paystack and its webhooks.                                              *)

\* A transfer that waits succeeds or fails, and one that succeeded may be reversed.
TransferEnds(t) ==
    /\ \E state \in Events :
        /\ transfer[t].state = IF state = "reversed" THEN "success" ELSE "waiting"
        /\ transfer' = [transfer EXCEPT ![t].state = state]
    /\ UNCHANGED <<rows, jobs, calls, troubles>>

\* Paystack tells what became of a transfer, as often as it likes and in any order.
WebhookArrives(t, e) ==
    /\ e = transfer[t].state \/ (e = "success" /\ transfer[t].state = "reversed")
    /\ jobs[<<t, e>>] = 0
    /\ jobs' = [jobs EXCEPT ![<<t, e>>] = Attempts]
    /\ UNCHANGED <<rows, transfer, calls, troubles>>

\* A worker takes a job no other works on.
TakesJob(t, e) ==
    /\ jobs[<<t, e>>] > 0
    /\ \A d \in Callers : ~(calls[d].job /\ calls[d].transfer = t /\ calls[d].event = e)

\* Faulty variant: only a request that is PROCESSING is settled.
HandleTransferWebhookWhileProcessing(c, t, e) ==
    /\ TakesJob(t, e)
    /\ \/ \E p \in Requests :
            /\ payout[p].ref = t /\ payout[p].status = "PROCESSING"
            /\ Begin(c, [Idle EXCEPT !.stage = IF e = "success" THEN "complete" ELSE "reject",
                             !.request = p, !.transfer = t, !.event = e, !.job = TRUE])
            /\ UNCHANGED jobs
       \/ /\ At(c, "idle")
          /\ \A p \in Requests : payout[p].ref = t => payout[p].status # "PROCESSING"
          /\ jobs' = [jobs EXCEPT ![<<t, e>>] = 0]
          /\ UNCHANGED calls
    /\ UNCHANGED <<rows, transfer, troubles>>

\* The request is found by its current reference.  Without one, or when it is COMPLETED,
\* there is nothing to do.
HandleTransferWebhook(c, t, e) ==
    /\ TakesJob(t, e)
    /\ \/ \E p \in Requests :
            /\ payout[p].ref = t /\ payout[p].status # "COMPLETED"
            /\ Begin(c, [Idle EXCEPT !.stage = IF e = "success" THEN "complete" ELSE "reject",
                             !.request = p, !.transfer = t, !.event = e, !.job = TRUE])
            /\ UNCHANGED jobs
       \/ /\ At(c, "idle")
          /\ \A p \in Requests : payout[p].ref = t => payout[p].status = "COMPLETED"
          /\ jobs' = [jobs EXCEPT ![<<t, e>>] = 0]
          /\ UNCHANGED calls
    /\ UNCHANGED <<rows, transfer, troubles>>

-----------------------------------------------------------------------------
(* Settling (PayoutTransferSettlementService).                             *)

\* Faulty variant: the status is written before the transaction that debits.
CompleteTransferMarksEarly(c) ==
    LET p == Request(c) IN
    /\ At(c, "complete")
    /\ IF payout[p].status = "COMPLETED" \/ balance < Amount[p]
       THEN Throw(c) /\ UNCHANGED payout
       ELSE /\ Goto(c, "debit") /\ UNCHANGED jobs
            /\ payout' = [payout EXCEPT ![p].status = "COMPLETED"]
    /\ UNCHANGED <<balance, debits, transfer, troubles>>

\* completeTransfer's transaction reads the request and the wallet ...
CompleteTransfer(c) ==
    LET p == Request(c) IN
    /\ At(c, "complete")
    /\ IF payout[p].status = "COMPLETED" \/ balance < Amount[p]
       THEN Throw(c)
       ELSE Goto(c, "debit") /\ UNCHANGED jobs
    /\ UNCHANGED <<rows, transfer, troubles>>

\* ... and debits.  The ledger row's reference is the request's own and unique: a second
\* debit undoes its whole transaction.
DebitAndComplete(c) ==
    LET p == Request(c) IN
    /\ At(c, "debit")
    /\ IF debits[p] > 0
       THEN Throw(c) /\ UNCHANGED rows
       ELSE /\ balance' = balance - Amount[p]
            /\ debits' = [debits EXCEPT ![p] = @ + 1]
            /\ payout' = [payout EXCEPT ![p].status = "COMPLETED"]
            /\ Return(c)
    /\ UNCHANGED <<transfer, troubles>>

\* REJECTED is written by id, whatever the request has become.
RejectTransfer(c) ==
    /\ At(c, "reject")
    /\ payout' = [payout EXCEPT ![Request(c)].status = "REJECTED"]
    /\ Return(c)
    /\ UNCHANGED <<balance, debits, transfer, troubles>>

-----------------------------------------------------------------------------
\* The beautician pays for something from the same wallet (a conditional decrement).
SpendsElsewhere ==
    /\ balance > 0
    /\ Mishap("spend")
    /\ balance' = balance - 1
    /\ UNCHANGED <<payout, debits, transfer, jobs, calls>>

\* A process dies between two awaits; Bull gives its job to another worker.
Crash(c) ==
    /\ ~At(c, "idle")
    /\ Mishap("crash")
    /\ calls' = [calls EXCEPT ![c] = Idle]
    /\ UNCHANGED <<rows, transfer, jobs>>

CallStep(c) ==
    \/ Reserve(c) \/ CreatePending(c) \/ CheckBalance(c) \/ CheckAvailable(c)
    \/ StartTransfer(c) \/ SendTransfer(c) \/ SendFails(c) \/ CancelRequest(c)
    \/ FinalizeTransfer(c) \/ HandleTransferOutcome(c)
    \/ CompleteTransfer(c) \/ DebitAndComplete(c) \/ RejectTransfer(c)

AdminRequest(c, p) == ProcessPendingRequest(c, p) \/ ApproveTransfer(c, p)

Next ==
    \/ \E c \in Callers : CallStep(c) \/ Crash(c)
    \/ \E c \in Callers, p \in Requests :
          AdminRequest(c, p) \/ \E auto \in BOOLEAN : CreateRequest(c, p, auto)
    \/ \E c \in Callers, t \in Transfers, e \in Events : HandleTransferWebhook(c, t, e)
    \/ \E t \in Transfers : TransferEnds(t) \/ \E e \in Events : WebhookArrives(t, e)
    \/ SpendsElsewhere

Spec == Init /\ [][Next]_vars

\* Handlers in progress go on, and workers take the jobs in the queue.  A request that
\* waits for Paystack holds up no worker in the code; here it occupies a caller, and so
\* it is answered or refused.
Fairness ==
    /\ \A c \in Callers : WF_vars(CallStep(c))
    /\ \A t \in Transfers : SF_vars(\E c \in Callers : HandleTransferWebhook(c, t, "success"))

FairSpec == Spec /\ Fairness

-----------------------------------------------------------------------------
\* The wallet pays only for what went out: a request's amount is taken at most once,
\* and only when Paystack has made a transfer of this very request, however answers,
\* webhooks and admins overlap (completeTransfer).
DebitBacked ==
    \A p \in Requests : debits[p] > 0 =>
        /\ debits[p] = 1
        /\ \E t \in Transfers : /\ transfer[t].request = p
                                /\ transfer[t].state \in {"success", "reversed"}

\* A request that says COMPLETED has been paid by the wallet, also when it was processed
\* twice, cancelled or rejected on the way (the transaction of completeTransfer).
CompletedIsDebited == \A p \in Requests : payout[p].status = "COMPLETED" => debits[p] = 1

\* A webhook that tells of a success ends in the debit, although the request may have
\* been cancelled or rejected meanwhile, unless it has gone on to another transfer or
\* the wallet is short of the amount.
SuccessSettles ==
    \A t \in Transfers, p \in Requests :
        (jobs[<<t, "success">>] > 0 /\ payout[p].ref = t)
            ~> (debits[p] = 1 \/ payout[p].ref # t \/ balance < Amount[p])
=============================================================================
