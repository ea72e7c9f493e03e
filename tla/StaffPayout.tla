------------------------------ MODULE StaffPayout -----------------------------
(***************************************************************************)
(* Staff take their pay out of the wallet: the bank account on file, the   *)
(* withdrawal, and the gateway's transfer, whose outcome arrives with the  *)
(* answer, by webhook, or when an admin asks.                              *)
(*                                                                         *)
(* The gateway may refuse, and its answer may be lost; it asks before it   *)
(* sends; what it sent may be reversed; webhooks repeat themselves.        *)
(***************************************************************************)
EXTENDS Payroll

CONSTANTS
    Withdrawals,    \* ids of withdrawal requests
    Banks           \* bank accounts that staff may name

ASSUME BanksAssumption == Banks # {}

VARIABLES
    releaseActive,  \* the Payday switch
    account,        \* account[s]: the bank account on file
    withdrawal,     \* withdrawal[w]: the request
    transfer,       \* transfer[w]: external, what the gateway does with it
    mishaps         \* history: an answer of the gateway got lost, or two completions raced

staffPayout == <<releaseActive, account, withdrawal, transfer, mishaps>>

\* recipient is the account behind the gateway's recipient code.
AccountRows == [bank : {"none"} \cup Banks, recipient : {"none"} \cup Banks,
                pending : {"none"} \cup Banks]
WithdrawalRows == [status : {"none", "PROCESSING", "COMPLETED", "FAILED"}, staff : {"none"} \cup Staff,
                   amount : {0} \cup Amounts, coded : BOOLEAN]
Transfers == [state : {"none", "asked", "open", "sent", "failed", "reversed"},
              to : {"none"} \cup Banks]

StaffPayoutTypeOK ==
    /\ releaseActive \in BOOLEAN /\ mishaps \subseteq {"lost", "raced"}
    /\ account \in [Staff -> AccountRows]
    /\ withdrawal \in [Withdrawals -> WithdrawalRows]
    /\ transfer \in [Withdrawals -> Transfers]

\* Unless a behaviour is about them, the switch is on and the accounts are there.
StaffPayoutInit ==
    /\ releaseActive = ("release" \notin scenario) /\ mishaps = {}
    /\ LET b == IF "bank" \in scenario THEN "none" ELSE CHOOSE b \in Banks : TRUE IN
           account = [s \in Staff |-> [bank |-> b, recipient |-> b, pending |-> "none"]]
    /\ withdrawal = [w \in Withdrawals |->
            [status |-> "none", staff |-> "none", amount |-> 0, coded |-> FALSE]]
    /\ transfer = [w \in Withdrawals |-> [state |-> "none", to |-> "none"]]

SetReleaseActive(c, active) ==
    /\ active # releaseActive /\ Once(c, "release")
    /\ releaseActive' = active
    /\ UNCHANGED <<payroll, account, withdrawal, transfer, mishaps>>

-----------------------------------------------------------------------------
(* The bank account.  The gateway may fail to create a recipient (ok).     *)

SubmitFirstAccount(c, s, b) ==
    /\ account[s].bank = "none"
    /\ Begin(c, "bank", "first_account", s, b)
    /\ UNCHANGED <<payroll, staffPayout>>

CreateAccount(c, ok) ==
    LET s == calls[c].on  b == calls[c].saw IN
    /\ At(c, "first_account") /\ Return(c)
    /\ account' = IF account[s].bank = "none"
                  THEN [account EXCEPT ![s] = [bank |-> b, recipient |-> IF ok THEN b ELSE "none",
                                               pending |-> "none"]]
                  ELSE account
    /\ UNCHANGED <<payroll, releaseActive, withdrawal, transfer, mishaps>>

SubmitChange(c, s, b) ==
    /\ account[s].bank # "none" /\ Once(c, "bank")
    /\ account' = [account EXCEPT ![s].pending = b]
    /\ UNCHANGED <<payroll, releaseActive, withdrawal, transfer, mishaps>>

ApproveChange(c, s) ==
    /\ account[s].pending # "none"
    /\ Begin(c, "bank", "approve_change", s, account[s])
    /\ UNCHANGED <<payroll, staffPayout>>

\* Without a new recipient the old one is kept.
WriteChange(c, ok) ==
    LET a == calls[c].saw IN
    /\ At(c, "approve_change") /\ Return(c)
    /\ account' = [account EXCEPT ![calls[c].on] =
            [bank |-> a.pending, recipient |-> IF ok THEN a.pending ELSE a.recipient, pending |-> "none"]]
    /\ UNCHANGED <<payroll, releaseActive, withdrawal, transfer, mishaps>>

RejectChange(c, s) ==
    /\ account[s].bank # "none" /\ Once(c, "bank")
    /\ account' = [account EXCEPT ![s].pending = "none"]
    /\ UNCHANGED <<payroll, releaseActive, withdrawal, transfer, mishaps>>

-----------------------------------------------------------------------------
(* Requesting a withdrawal.                                                *)

Asking(s) == {w \in Withdrawals : withdrawal[w].staff = s /\ withdrawal[w].status = "PROCESSING"}
Reserved(s) == SumOver(Asking(s), [w \in Withdrawals |-> withdrawal[w].amount])
Available(s) == wallet[s].balance - Reserved(s)

RequestWithdrawal(c, s, amount) ==
    /\ releaseActive /\ account[s].bank # "none"
    /\ Begin(c, "withdraw", "reserve", s,
             [amount |-> amount, account |-> account[s], had |-> Available(s)])
    /\ UNCHANGED <<payroll, staffPayout>>

\* A request w of member s is opened, and the gateway is called next; or it is turned down.
OpenIf(covered, c, w) ==
    LET s == calls[c].on  r == calls[c].saw IN
    /\ withdrawal[w].status = "none"
    /\ IF covered
       THEN /\ withdrawal' = [withdrawal EXCEPT ![w] =
                    [status |-> "PROCESSING", staff |-> s, amount |-> r.amount, coded |-> FALSE]]
            /\ Continue(c, [stage |-> "pay", on |-> w, saw |-> r.account])
       ELSE Return(c) /\ UNCHANGED withdrawal
    /\ UNCHANGED <<payroll, releaseActive, account, transfer, mishaps>>

\* Faulty variant of Reserve: what is available was read before the wallet was locked.
ReserveUnlocked(c, w) ==
    At(c, "reserve") /\ OpenIf(calls[c].saw.amount <= calls[c].saw.had, c, w)

\* In a transaction that has locked the member's wallet.
Reserve(c, w) ==
    At(c, "reserve") /\ OpenIf(calls[c].saw.amount <= Available(calls[c].on), c, w)

CreateRecipient(c) ==
    LET a == calls[c].saw IN
    /\ At(c, "pay") /\ a.recipient = "none" /\ Goto(c, "pay", [bank |-> a.bank, recipient |-> a.bank, pending |-> a.pending])
    /\ account' = [account EXCEPT ![withdrawal[calls[c].on].staff].recipient = a.bank]
    /\ UNCHANGED <<payroll, releaseActive, withdrawal, transfer, mishaps>>

\* The gateway refuses, or does not answer in time: without a recipient, or without a transfer.
Refused(c) ==
    /\ At(c, "pay") /\ Goto(c, "fail", 0)
    /\ UNCHANGED <<payroll, staffPayout>>

Initiate(c, answer) ==
    LET w == calls[c].on  a == calls[c].saw IN
    /\ At(c, "pay") /\ a.recipient # "none"
    /\ transfer' = [transfer EXCEPT ![w] = [state |-> "asked", to |-> a.recipient]]
    /\ Goto(c, IF answer THEN "answered" ELSE "fail", 0)
    /\ mishaps' = IF answer THEN mishaps ELSE mishaps \cup {"lost"}
    /\ UNCHANGED <<payroll, releaseActive, account, withdrawal>>

\* handleTransferOutcome, when the transfer is what its state is by then.
WriteTransferCode(c) ==
    LET w == calls[c].on IN
    /\ At(c, "answered")
    /\ withdrawal' = [withdrawal EXCEPT ![w].coded = TRUE]
    /\ CASE transfer[w].state \in {"failed", "reversed"} -> Goto(c, "fail", 0)
         [] transfer[w].state = "sent"                   -> Goto(c, "complete", 0)
         [] OTHER                                        -> Return(c)
    /\ UNCHANGED <<payroll, releaseActive, account, transfer, mishaps>>

\* By id, whatever became of the request in between.
WriteFailed(c) ==
    /\ At(c, "fail") /\ Return(c)
    /\ withdrawal' = [withdrawal EXCEPT ![calls[c].on].status = "FAILED"]
    /\ UNCHANGED <<payroll, releaseActive, account, transfer, mishaps>>

\* Another withdrawal of w's member has been checked and not yet debited.
Races(c, w) ==
    \E d \in Callers \ {c} : /\ At(d, "debit") /\ calls[d].on # w
                            /\ withdrawal[calls[d].on].staff = withdrawal[w].staff

\* The transaction reads the request and the wallet without a lock; FAILED does not stop it.
CompleteTransfer(c) ==
    LET w == calls[c].on  r == withdrawal[w] IN
    /\ At(c, "complete")
    /\ IF r.status = "COMPLETED" \/ wallet[r.staff].balance < r.amount
       THEN Return(c) /\ UNCHANGED mishaps
       ELSE /\ Goto(c, "debit", 0)
            /\ mishaps' = IF Races(c, w) THEN mishaps \cup {"raced"} ELSE mishaps
    /\ UNCHANGED <<payroll, releaseActive, account, withdrawal, transfer>>

\* It subtracts from what the row holds by then; its unique reference keeps out a second one.
DebitWallet(c) ==
    LET w == calls[c].on  r == withdrawal[w]  ref == Reference("WITHDRAWAL", w) IN
    /\ At(c, "debit") /\ Return(c)
    /\ IF ref \in References(r.staff)
       THEN UNCHANGED <<wallet, withdrawal>>
       ELSE /\ Post(r.staff, ref, -r.amount)
            /\ withdrawal' = [withdrawal EXCEPT ![w].status = "COMPLETED"]
    /\ UNCHANGED <<period, slip, deduction, releaseActive, account, transfer, mishaps>>

-----------------------------------------------------------------------------
(* The gateway, and what it tells.                                         *)

\* validateTransferApproval: only what is in progress may go out.
ApproveTransfer(c, w) ==
    /\ transfer[w].state = "asked" /\ Once(c, "gateway")
    /\ transfer' = [transfer EXCEPT ![w].state =
            IF withdrawal[w].status = "PROCESSING" THEN "open" ELSE "failed"]
    /\ UNCHANGED <<payroll, releaseActive, account, withdrawal, mishaps>>

Becomes == [open |-> {"sent", "failed"}, sent |-> {"reversed"}]

Settle(w, state) ==
    /\ "gateway" \in scenario
    /\ transfer[w].state \in DOMAIN Becomes /\ state \in Becomes[transfer[w].state]
    /\ transfer' = [transfer EXCEPT ![w].state = state]
    /\ UNCHANGED <<handlers, payroll, releaseActive, account, withdrawal, mishaps>>

TransferOutcome(state) ==
    CASE state = "sent" -> "complete" [] state \in {"failed", "reversed"} -> "fail" [] OTHER -> "nothing"

\* A webhook tells of a transfer that ended, as often as it likes.
Webhook(c, w) ==
    LET outcome == TransferOutcome(transfer[w].state) IN
    /\ outcome # "nothing"
    /\ outcome = "fail" => withdrawal[w].status = "PROCESSING"
    /\ Begin(c, "gateway", outcome, w, 0)
    /\ UNCHANGED <<payroll, staffPayout>>

\* adminResyncWithdrawal: the gateway is asked, and read again before a failure is written.
ResyncWithdrawal(c, w) ==
    /\ withdrawal[w].coded /\ withdrawal[w].status = "PROCESSING"
    /\ Begin(c, "gateway", "resync", w, 0)
    /\ UNCHANGED <<payroll, staffPayout>>

AskGateway(c) ==
    LET w == calls[c].on  outcome == TransferOutcome(transfer[w].state) IN
    /\ At(c, "resync")
    /\ IF outcome = "nothing" \/ (outcome = "fail" /\ withdrawal[w].status # "PROCESSING")
       THEN Return(c) ELSE Goto(c, outcome, 0)
    /\ UNCHANGED <<payroll, staffPayout>>

-----------------------------------------------------------------------------
StaffPayoutStep(c) ==
    \/ (\E w \in Withdrawals : Reserve(c, w)) \/ CreateRecipient(c) \/ Refused(c) \/ WriteTransferCode(c) \/ WriteFailed(c)
    \/ CompleteTransfer(c) \/ DebitWallet(c) \/ AskGateway(c)
    \/ \E ok \in BOOLEAN : CreateAccount(c, ok) \/ WriteChange(c, ok) \/ Initiate(c, ok)

BankRequest(c) == \E s \in Staff : ApproveChange(c, s) \/ RejectChange(c, s)

ReleaseRequest(c) ==
    \/ \E active \in BOOLEAN : SetReleaseActive(c, active)
    \/ \E w \in Withdrawals : ResyncWithdrawal(c, w)

StaffPayoutRequest(c) ==
    \/ BankRequest(c) \/ ReleaseRequest(c)
    \/ \E s \in Staff : \/ \E b \in Banks : SubmitFirstAccount(c, s, b) \/ SubmitChange(c, s, b)
                        \/ \E amount \in Amounts : RequestWithdrawal(c, s, amount)
    \/ \E w \in Withdrawals : ApproveTransfer(c, w) \/ Webhook(c, w)

Gateway == \E w \in Withdrawals, state \in {"sent", "failed", "reversed"} : Settle(w, state)

-----------------------------------------------------------------------------
(* Properties.                                                             *)

\* Requests never reserve more than the wallet holds, though they run at the same time, as long
\* as the gateway's answers arrive and it takes nothing back (and nor does the payroll).
ReservedIsCovered ==
    \/ "lost" \in mishaps \/ \E w \in Withdrawals : transfer[w].state = "reversed"
    \/ "generate" \in scenario
    \/ \A s \in Staff : Reserved(s) <= wallet[s].balance

\* A wallet is not overdrawn by withdrawals: not when answers get lost or transfers are reversed, so
\* that more is withdrawn than is there, nor when completions race, that each have checked the
\* balance before either is debited; only when both happen.
NotOverdrawn ==
    \/ "generate" \in scenario \/ \A s \in Staff : wallet[s].balance >= 0
    \/ /\ "raced" \in mishaps
       /\ "lost" \in mishaps \/ \E w \in Withdrawals : transfer[w].state = "reversed"

\* What is COMPLETED was sent by the gateway, and taken from the wallet.
CompletedWasSent ==
    \A w \in Withdrawals : withdrawal[w].status = "COMPLETED" =>
        /\ transfer[w].state \in {"sent", "reversed"}
        /\ Reference("WITHDRAWAL", w) \in References(withdrawal[w].staff)

\* Staff withdrawals are covered when requested, backed when completed and overdraw no wallet by
\* one mishap alone.
WithdrawalsCovered == StaffPayoutTypeOK /\ ReservedIsCovered /\ NotOverdrawn /\ CompletedWasSent
===============================================================================
