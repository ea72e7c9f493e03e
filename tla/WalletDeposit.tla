--------------------------- MODULE WalletDeposit ---------------------------
(***************************************************************************)
(* Funding and spending of one customer wallet.                            *)
(*                                                                         *)
(* A deposit is a row of the transactions table that starts PENDING.  Two  *)
(* handlers may settle it: the customer's verify request (WalletService.   *)
(* verifyDeposit) and the gateway's webhook, taken from a Bull queue by    *)
(* PaystackWebhookProcessor or MonnifyWebhookProcessor.  Both read the     *)
(* row, decide, and then open a database transaction that reads the status *)
(* again before it writes.  PostgreSQL runs these transactions at READ     *)
(* COMMITTED and the second read takes no row lock, so the read and the    *)
(* writes are two steps here and other handlers run between them.          *)
(*                                                                         *)
(* Amounts are whole units; the gateway is the only party that knows       *)
(* whether a deposit was paid, and pays it at most once.                   *)
(***************************************************************************)
EXTENDS Sums

CONSTANTS
    Deposits,       \* deposit rows of the wallet
    Callers,        \* request handlers and queue workers that run concurrently
    Debits,         \* wallet payments, each with its own unique reference
    Amount,         \* Amount[d]: what deposit d is for
    Price,          \* Price[p]: what payment p costs
    MaxDeliveries,  \* bound: webhook deliveries of one deposit, retries included
    MaxCrashes      \* bound: processes lost between two awaits

ASSUME AmountAssumption ==
    /\ Amount \in [Deposits -> Nat \ {0}]
    /\ Price \in [Debits -> Nat \ {0}]

ASSUME BoundAssumption == MaxDeliveries \in Nat /\ MaxCrashes \in Nat

NoDeposit == "none"
ASSUME NoDepositAssumption == NoDeposit \notin Deposits

VARIABLES
    status,     \* status[d]: the row's status, "NONE" before initializeDeposit
    paid,       \* paid[d]: what the gateway received: nothing, the amount, another amount
    balance,    \* wallets.balance
    credits,    \* credits[d]: how many times d's amount was added to balance
    spent,      \* wallet payments recorded (their references are unique)
    jobs,       \* jobs[d]: webhook jobs of d waiting in the queue
    delivered,  \* delivered[d]: webhooks of d accepted so far (bounded)
    calls,      \* calls[c]: what caller c is doing
    crashes     \* processes lost so far (bounded)

vars == <<status, paid, balance, credits, spent, jobs, delivered, calls, crashes>>

Statuses == {"NONE", "PENDING", "COMPLETED", "FAILED"}
Verdicts == {"unpaid", "exact", "other"}
Kinds    == {"verify", "webhook"}
Stages   == {"idle", "ask", "reject", "lock", "commit"}

Idle == [kind |-> "verify", deposit |-> NoDeposit, stage |-> "idle"]

Calls == {Idle} \cup [kind : Kinds, deposit : Deposits, stage : Stages \ {"idle"}]

TypeOK ==
    /\ status \in [Deposits -> Statuses]
    /\ paid \in [Deposits -> Verdicts]
    /\ balance \in Int
    /\ credits \in [Deposits -> Nat]
    /\ spent \in SUBSET Debits
    /\ jobs \in [Deposits -> Nat]
    /\ delivered \in [Deposits -> Nat]
    /\ calls \in [Callers -> Calls]
    /\ crashes \in Nat

Init ==
    /\ status = [d \in Deposits |-> "NONE"]
    /\ paid = [d \in Deposits |-> "unpaid"]
    /\ balance = 0
    /\ credits = [d \in Deposits |-> 0]
    /\ spent = {}
    /\ jobs = [d \in Deposits |-> 0]
    /\ delivered = [d \in Deposits |-> 0]
    /\ calls = [c \in Callers |-> Idle]
    /\ crashes = 0

At(c, stage) == calls[c].stage = stage

Goto(c, stage) == calls' = [calls EXCEPT ![c].stage = stage]

Return(c) == calls' = [calls EXCEPT ![c] = Idle]

-----------------------------------------------------------------------------
(* The customer asks to fund the wallet and pays (or not) at the gateway.  *)

\* initializeDeposit records the row before the gateway is called, so the row
\* exists even when the call fails.
InitializeDeposit(d) ==
    /\ status[d] = "NONE"
    /\ status' = [status EXCEPT ![d] = "PENDING"]
    /\ UNCHANGED <<paid, balance, credits, spent, jobs, delivered, calls, crashes>>

\* The gateway takes the money; nothing in the program is told yet.
GatewayPays(d) ==
    /\ status[d] # "NONE"
    /\ paid[d] = "unpaid"
    /\ \E verdict \in {"exact", "other"} : paid' = [paid EXCEPT ![d] = verdict]
    /\ UNCHANGED <<status, balance, credits, spent, jobs, delivered, calls, crashes>>

\* The controller queues the webhook body.  Gateways deliver a webhook again when
\* they see no answer; when queue.add throws, the controller still answers 200 and
\* the webhook is lost, which is this step not happening.
WebhookArrives(d) ==
    /\ paid[d] # "unpaid"
    /\ delivered[d] < MaxDeliveries
    /\ jobs' = [jobs EXCEPT ![d] = @ + 1]
    /\ delivered' = [delivered EXCEPT ![d] = @ + 1]
    /\ UNCHANGED <<status, paid, balance, credits, spent, calls, crashes>>

-----------------------------------------------------------------------------
(* The first half of the two handlers: read the row, learn the verdict.    *)

\* verifyDeposit: a COMPLETED row is answered at once (no state changes).
VerifyDeposit(c, d) ==
    /\ At(c, "idle")
    /\ status[d] \in {"PENDING", "FAILED"}
    /\ calls' = [calls EXCEPT ![c] = [kind |-> "verify", deposit |-> d, stage |-> "ask"]]
    /\ UNCHANGED <<status, paid, balance, credits, spent, jobs, delivered, crashes>>

\* verifyPayment's answer is the gateway's state at this moment: unpaid is
\* written back as FAILED, a wrong amount throws, the exact amount goes on.
GatewayAnswers(c) ==
    /\ At(c, "ask")
    /\ CASE paid[calls[c].deposit] = "unpaid" -> Goto(c, "reject")
         [] paid[calls[c].deposit] = "other"  -> Return(c)
         [] paid[calls[c].deposit] = "exact"  -> Goto(c, "lock")
    /\ UNCHANGED <<status, paid, balance, credits, spent, jobs, delivered, crashes>>

\* Faulty variant: the webhook's amount is not compared with the row's.
HandleDepositWebhookAnyAmount(c, d) ==
    /\ At(c, "idle")
    /\ jobs[d] > 0
    /\ jobs' = [jobs EXCEPT ![d] = @ - 1]
    /\ IF status[d] = "COMPLETED"
       THEN UNCHANGED calls
       ELSE calls' = [calls EXCEPT ![c] =
                        [kind |-> "webhook", deposit |-> d, stage |-> "lock"]]
    /\ UNCHANGED <<status, paid, balance, credits, spent, delivered, crashes>>

\* A worker takes a webhook job.  A COMPLETED row ends it; another amount is
\* written back as FAILED; the exact amount goes on.
HandleDepositWebhook(c, d) ==
    /\ At(c, "idle")
    /\ jobs[d] > 0
    /\ jobs' = [jobs EXCEPT ![d] = @ - 1]
    /\ IF status[d] = "COMPLETED"
       THEN UNCHANGED calls
       ELSE calls' = [calls EXCEPT ![c] =
                        [kind |-> "webhook", deposit |-> d,
                         stage |-> IF paid[d] = "exact" THEN "lock" ELSE "reject"]]
    /\ UNCHANGED <<status, paid, balance, credits, spent, delivered, crashes>>

\* The FAILED write is by id, whatever the status has become meanwhile.
MarkFailed(c) ==
    /\ At(c, "reject")
    /\ status' = [status EXCEPT ![calls[c].deposit] = "FAILED"]
    /\ Return(c)
    /\ UNCHANGED <<paid, balance, credits, spent, jobs, delivered, crashes>>

-----------------------------------------------------------------------------
(* The database transaction, first its read and then its writes.           *)

\* Faulty variant: the status is written here, outside the transaction that credits.
DoubleCheckMarksEarly(c) ==
    LET d == calls[c].deposit IN
    /\ At(c, "lock")
    /\ IF status[d] = "COMPLETED"
       THEN Return(c) /\ UNCHANGED status
       ELSE Goto(c, "commit") /\ status' = [status EXCEPT ![d] = "COMPLETED"]
    /\ UNCHANGED <<paid, balance, credits, spent, jobs, delivered, crashes>>

\* "Double-check status hasn't changed": a COMPLETED row throws; for a webhook the
\* throw makes Bull queue the job again.
DoubleCheck(c) ==
    LET d == calls[c].deposit IN
    /\ At(c, "lock")
    /\ IF status[d] = "COMPLETED"
       THEN /\ Return(c)
            /\ jobs' = IF calls[c].kind = "webhook"
                       THEN [jobs EXCEPT ![d] = @ + 1] ELSE jobs
       ELSE /\ Goto(c, "commit")
            /\ UNCHANGED jobs
    /\ UNCHANGED <<status, paid, balance, credits, spent, delivered, crashes>>

\* The two updates of the transaction, by id, committed together.
CreditWallet(c) ==
    LET d == calls[c].deposit IN
    /\ At(c, "commit")
    /\ status' = [status EXCEPT ![d] = "COMPLETED"]
    /\ balance' = balance + Amount[d]
    /\ credits' = [credits EXCEPT ![d] = @ + 1]
    /\ Return(c)
    /\ UNCHANGED <<paid, spent, jobs, delivered, crashes>>

\* Faulty variant: a job lost with its worker is not given to another.
CrashDropsJob(c) ==
    /\ ~At(c, "idle")
    /\ crashes < MaxCrashes
    /\ crashes' = crashes + 1
    /\ Return(c)
    /\ UNCHANGED <<status, paid, balance, credits, spent, jobs, delivered>>

\* A process dies between two awaits: an open transaction rolls back, and Bull
\* gives a webhook job it was working on to another worker.
Crash(c) ==
    /\ ~At(c, "idle")
    /\ crashes < MaxCrashes
    /\ crashes' = crashes + 1
    /\ jobs' = IF calls[c].kind = "webhook"
               THEN [jobs EXCEPT ![calls[c].deposit] = @ + 1] ELSE jobs
    /\ Return(c)
    /\ UNCHANGED <<status, paid, balance, credits, spent, delivered>>

-----------------------------------------------------------------------------
(* Spending.                                                               *)

\* Faulty variant: the decrement does not require the balance.
DebitWalletUnchecked(p) ==
    /\ p \notin spent
    /\ balance' = balance - Price[p]
    /\ spent' = spent \cup {p}
    /\ UNCHANGED <<status, paid, credits, jobs, delivered, calls, crashes>>

\* debitWalletAndRecordTx: the decrement is one conditional update and the
\* record's reference is unique, so a second use of a reference rolls back.
DebitWallet(p) ==
    /\ p \notin spent
    /\ balance >= Price[p]
    /\ balance' = balance - Price[p]
    /\ spent' = spent \cup {p}
    /\ UNCHANGED <<status, paid, credits, jobs, delivered, calls, crashes>>

-----------------------------------------------------------------------------
Settle(c) == GatewayAnswers(c) \/ MarkFailed(c) \/ DoubleCheck(c) \/ CreditWallet(c)

DepositRequest(d) == InitializeDeposit(d) \/ \E c \in Callers : VerifyDeposit(c, d)

Next ==
    \/ \E d \in Deposits : DepositRequest(d) \/ GatewayPays(d) \/ WebhookArrives(d)
    \/ \E c \in Callers, d \in Deposits : HandleDepositWebhook(c, d)
    \/ \E c \in Callers : Settle(c) \/ Crash(c)
    \/ \E p \in Debits : DebitWallet(p)

Spec == Init /\ [][Next]_vars

\* Handlers in progress run to their end, and queued jobs are given to idle
\* workers (Bull keeps polling).  Customers, gateways and crashes are not fair.
Fairness ==
    /\ \A c \in Callers : WF_vars(Settle(c))
    /\ \A d \in Deposits : SF_vars(\E c \in Callers : HandleDepositWebhook(c, d))

FairSpec == Spec /\ Fairness

-----------------------------------------------------------------------------
(* What the wallet promises.                                               *)

\* The wallet never holds less than nothing and every unit in it is accounted
\* for: the balance is what was credited less what was spent, whatever debits
\* race with each other and with credits (the conditional updateMany of
\* debitWalletAndRecordTx and the increments of the two handlers).
Solvent ==
    /\ balance >= 0
    /\ balance = SumOver(Deposits, [d \in Deposits |-> credits[d] * Amount[d]]) - SumOver(spent, Price)

\* Money is added for a deposit only after the gateway took exactly its amount,
\* in either handler and whatever the two read before (the amount checks of
\* verifyDeposit and of the webhook processors).
CreditOnlyWhatWasPaid == \A d \in Deposits : credits[d] > 0 => paid[d] = "exact"

\* A row that says COMPLETED has been credited at least once: the status and
\* the balance are written by one transaction.
CompletedIsCredited == \A d \in Deposits : status[d] = "COMPLETED" => credits[d] > 0

\* What the strict reading of the comments "Use transaction to prevent race
\* conditions" and "Process payment in transaction to handle race conditions"
\* promises: a deposit is added to the wallet at most once.  It fails when two
\* handlers overlap.
CreditedOnce == \A d \in Deposits : credits[d] <= 1

\* A queued webhook of an exactly paid deposit leads to the credit, however the
\* worker that took it first fared (Bull's retries in the two processors).
WebhookCredits ==
    \A d \in Deposits : (jobs[d] > 0 /\ paid[d] = "exact") ~> (credits[d] > 0)
=============================================================================
