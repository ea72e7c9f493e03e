------------------------------ MODULE PeopleProofs ----------------------------
EXTENDS People, TLAPS, FiniteSetTheorems
(* The staff's days and pay, proved for any number of members, days, figures, withdrawals, banks and*)
(* handlers (attendance.service.ts, leave.service.ts, payroll.service.ts, staff-payout.service.ts). *)
(*                                                                                                  *)
(* What is withdrawn is covered (StaffIsPaidWhatTheyHold).  The inductive invariant, CoverInv:      *)
(*   - a handler of a withdrawal stands at a step of that request's flow, and one that is about     *)
(*     to pay is alone with its request: the reserve opened it under the wallet's lock;             *)
(*   - what each row says fits what was sent of it, and what failed was not sent, unless an         *)
(*     answer was lost;                                                                             *)
(*   - while all is calm the open requests of a member fit the balance: a request is checked and    *)
(*     written in one transaction, and a debit frees the reserve it takes from the balance;         *)
(*   - while no two completions raced, who is about to debit a wallet is alone with that member's   *)
(*     wallet, or with that request, and the balance it has checked still covers the debit.         *)
(*                                                                                                  *)
(* What was published changes on record only (PublishedPayStays), and pay arrives once              *)
(* (PayArrivesOnce).  The invariants:                                                               *)
(*   - Sound: a balance is the sum of its transactions, which are finitely many;                    *)
(*   - Single and Phases: until two handlers overlap one runs at a time, the stage it is at         *)
(*     tells the status of the period, and staff are shown slips of a released one only;            *)
(*   - PaydayInv: a handler's reads still hold when it writes, the numbers of the corrections       *)
(*     so far leave the next one free, and a wallet differs from the slip only by the               *)
(*     difference that a handler is about to post (Settled).                                        *)
(* The days are kept (DaysAreKept).  The invariants:                                                *)
(*   - RecordsFit: a record, and one that a handler is about to write, is charged as its status     *)
(*     says, and has a status if an admin wrote it;                                                 *)
(*   - LeavesInv: a request about to be written still clashes with none;                            *)
(*   - DaysInv: what is approved is on record or about to be marked, and whom the night's job       *)
(*     has not recorded it has yet to come to.                                                      *)
(* The first part of the module says what a step of any handler does to the others, so that         *)
(* each operation is looked at once and alone.                                                      *)

-----------------------------------------------------------------------------
(* The handlers: what a step of one does to all.                           *)

\* calls is a function on Callers.
Shape ==
    /\ DOMAIN calls = Callers
    /\ calls = [c \in Callers |-> calls[c]]

\* What a step of handler c does to the handlers, whatever else it does: c goes on to one of stages.
Acts(c, stages) ==
    /\ Shape' /\ scenario' = scenario /\ crashes' = crashes
    /\ \A d \in Callers \ {c} : calls'[d] = calls[d]
    /\ calls'[c] = calls[c] \/ calls'[c].stage \in stages \cup {"idle"}
    /\ \/ overlapped' = overlapped /\ Busy(c)
       \/ overlapped' = (overlapped \/ ~Quiet)

LEMMA Begins ==
    ASSUME Shape, NEW c \in Callers, NEW S, NEW op, NEW stage, NEW on, NEW saw,
           Begin(c, op, stage, on, saw), stage \in S
    PROVE  Acts(c, S)
BY DEF Shape, Acts, Begin, Quiet, Busy, At, Ready

LEMMA Onces ==
    ASSUME Shape, NEW c \in Callers, NEW S, NEW op, Once(c, op)
    PROVE  Acts(c, S)
BY DEF Shape, Acts, Once, Quiet, Busy, At, Ready

LEMMA Continues ==
    ASSUME Shape, NEW c \in Callers, NEW S, Busy(c), NEW stage, NEW on, NEW saw, stage \in S,
           Continue(c, [stage |-> stage, on |-> on, saw |-> saw])
    PROVE  Acts(c, S)
BY DEF Shape, Acts, Continue, Quiet, Busy, At

LEMMA Selects ==
    ASSUME NEW stage, NEW on, NEW saw, NEW r, r = [stage |-> stage, on |-> on, saw |-> saw]
    PROVE  r.stage = stage /\ r.on = on /\ r.saw = saw
OBVIOUS

LEMMA Begun ==
    ASSUME Shape, NEW c \in Callers, NEW op, NEW stage, NEW on, NEW saw, Begin(c, op, stage, on, saw)
    PROVE  calls'[c].stage = stage /\ calls'[c].on = on /\ calls'[c].saw = saw
<1>1. calls'[c] = [stage |-> stage, on |-> on, saw |-> saw]
  BY DEF Begin, Shape
<1> QED BY <1>1, Selects

LEMMA Gone ==
    ASSUME Shape, NEW c \in Callers, NEW stage, NEW saw, Goto(c, stage, saw)
    PROVE  calls'[c].stage = stage /\ calls'[c].on = calls[c].on /\ calls'[c].saw = saw
<1>1. calls'[c] = [stage |-> stage, on |-> calls[c].on, saw |-> saw]
  BY DEF Goto, Continue, Shape
<1> QED BY <1>1, Selects

LEMMA Goes ==
    ASSUME Shape, NEW c \in Callers, NEW S, Busy(c), NEW stage, NEW saw, Goto(c, stage, saw), stage \in S
    PROVE  Acts(c, S)
BY Continues DEF Goto

LEMMA Returns ==
    ASSUME Shape, NEW c \in Callers, NEW S, Busy(c), Return(c)
    PROVE  Acts(c, S)
BY DEF Shape, Acts, Return, Continue, Quiet, Busy, At, Idle

-----------------------------------------------------------------------------
(* Where the handlers of each part can be.                                 *)

AttendanceStages == {"clock_in", "clock_out", "sweep", "no_show", "never_left", "correct",
    "manual", "extra", "submit_leave", "decide_leave", "mark_leave"}

PayrollStages == {"figures", "write_slip", "credit", "generated", "recalculate", "count", "post",
    "approve_drafts", "publish", "send_back", "supersede", "correct_adjustment",
    "remove_adjustment"}

\* Where a handler of the payout is before it debits a wallet.
BeforeDebit == {"first_account", "approve_change", "reserve", "pay", "answered", "fail",
    "complete", "resync"}

StaffPayoutStages == BeforeDebit \cup {"debit"}

LEMMA AttendanceStagesAre ==
    "clock_in" \in AttendanceStages /\ "clock_out" \in AttendanceStages /\
    "sweep" \in AttendanceStages /\ "no_show" \in AttendanceStages /\
    "never_left" \in AttendanceStages /\ "correct" \in AttendanceStages /\
    "manual" \in AttendanceStages /\ "extra" \in AttendanceStages /\
    "submit_leave" \in AttendanceStages /\ "decide_leave" \in AttendanceStages /\
    "mark_leave" \in AttendanceStages
BY DEF AttendanceStages

LEMMA AttendanceActs ==
    ASSUME Shape, NEW c \in Callers, AttendanceNext(c)
    PROVE  Acts(c, AttendanceStages)
<1>1. CASE Busy(c) /\ AttendanceStep(c)
  <2> USE <1>1, Goes, Continues, Returns, AttendanceStagesAre
  <2>1. CASE WriteClockIn(c) \/ WriteClockOut(c) \/ WriteNoShow(c) \/ WriteNeverLeft(c) \/ Swept(c)
    BY <2>1 DEF WriteClockIn, WriteClockOut, WriteNoShow, WriteNeverLeft, Swept
  <2>2. CASE \E s \in Staff : SweepOne(c, s)
    BY <2>2 DEF SweepOne
  <2>3. CASE WriteCorrected(c) \/ WriteManualRecord(c) \/ WriteExtraWorkDay(c)
    BY <2>3 DEF WriteCorrected, WriteManualRecord, WriteExtraWorkDay
  <2>4. CASE WriteSubmitted(c) \/ WriteDecided(c) \/ MarkLeave(c)
    BY <2>4 DEF WriteSubmitted, WriteDecided, MarkLeave
  <2> QED BY <2>1, <2>2, <2>3, <2>4 DEF AttendanceStep
<1>2. CASE Ready(c) /\ AttendanceRequest(c)
  BY <1>2, Begins, AttendanceStagesAre
     DEF AttendanceRequest, ClockRequest, LeaveRequest, ClockIn, ClockOut, CorrectRecord, CreateManualRecord, DecideExtraWorkDay,
         SubmitLeave, DecideLeave, Sweep
<1> QED BY <1>1, <1>2 DEF AttendanceNext

LEMMA PayrollStagesAre ==
    "figures" \in PayrollStages /\ "write_slip" \in PayrollStages /\ "credit" \in PayrollStages /\
    "generated" \in PayrollStages /\ "recalculate" \in PayrollStages /\
    "count" \in PayrollStages /\ "post" \in PayrollStages /\ "approve_drafts" \in PayrollStages /\
    "publish" \in PayrollStages /\ "send_back" \in PayrollStages /\
    "supersede" \in PayrollStages /\ "correct_adjustment" \in PayrollStages /\
    "remove_adjustment" \in PayrollStages
BY DEF PayrollStages

LEMMA PayrollActs ==
    ASSUME Shape, NEW c \in Callers, PayrollNext(c)
    PROVE  Acts(c, PayrollStages)
<1>1. CASE Busy(c) /\ PayrollStep(c)
  <2> USE <1>1, Goes, Continues, Returns, PayrollStagesAre
  <2>1. CASE \E s \in Staff : ComputeFigures(c, s) \/ CreditPay(c, s) \/ ApproveDraft(c, s)
    BY <2>1 DEF ComputeFigures, CreditPay, ApproveDraft
  <2>2. CASE WriteSlip(c) \/ FinishGeneration(c) \/ WriteRecalculated(c) \/ CountCorrections(c)
    BY <2>2 DEF WriteSlip, FinishGeneration, WriteRecalculated, CountCorrections, GoOn
  <2>3. CASE PostDifference(c) \/ ReleasePeriod(c) \/ PublishPayslips(c) \/ WriteSentBack(c)
    BY <2>3 DEF PostDifference, ReleasePeriod, PublishPayslips, WriteSentBack, GoOn
  <2>4. CASE SupersedePayslip(c) \/ WriteAdjustmentRemoved(c) \/ \E y \in Adjustable : WriteAdjustmentCorrected(c, y)
    BY <2>4 DEF SupersedePayslip, WriteAdjustmentRemoved, WriteAdjustmentCorrected
  <2> QED BY <2>1, <2>2, <2>3, <2>4 DEF PayrollStep
<1>2. CASE Ready(c) /\ PayrollRequest(c)
  BY <1>2, Begins, Onces, PayrollStagesAre
     DEF PayrollRequest, AdjustmentRequest, GeneratePayroll, ApprovePeriod, RequestCorrection, RecalculatePayslip,
         CorrectPayslip, RemoveAdjustment, CreateAdjustment, CorrectAdjustment
<1> QED BY <1>1, <1>2 DEF PayrollNext

LEMMA StaffPayoutStagesAre ==
    "first_account" \in BeforeDebit /\ "approve_change" \in BeforeDebit /\
    "reserve" \in BeforeDebit /\ "pay" \in BeforeDebit /\
    "answered" \in BeforeDebit /\ "fail" \in BeforeDebit /\
    "complete" \in BeforeDebit /\ "resync" \in BeforeDebit /\
    "debit" \notin BeforeDebit /\ "debit" \in StaffPayoutStages
BY DEF BeforeDebit, StaffPayoutStages

\* Only a completion brings a handler to the debit.
LEMMA StaffPayoutActs ==
    ASSUME Shape, NEW c \in Callers, StaffPayoutNext(c)
    PROVE  Acts(c, StaffPayoutStages) /\ (Acts(c, BeforeDebit) \/ CompleteTransfer(c))
<1>0. Acts(c, BeforeDebit) => Acts(c, StaffPayoutStages)
  BY DEF Acts, StaffPayoutStages
<1>1. CASE Busy(c) /\ StaffPayoutStep(c)
  <2> USE <1>1, Goes, Continues, Returns, StaffPayoutStagesAre
  <2>1. CASE \E w \in Withdrawals : Reserve(c, w)
    BY <1>0, <2>1 DEF Reserve, OpenIf
  <2>2. CASE CreateRecipient(c) \/ Refused(c) \/ WriteTransferCode(c) \/ WriteFailed(c)
    BY <1>0, <2>2 DEF CreateRecipient, Refused, WriteTransferCode, WriteFailed
  <2>3. CASE DebitWallet(c) \/ AskGateway(c)
    BY <1>0, <2>3 DEF DebitWallet, AskGateway, TransferOutcome
  <2>4. CASE \E ok \in BOOLEAN : CreateAccount(c, ok) \/ WriteChange(c, ok) \/ Initiate(c, ok)
    BY <1>0, <2>4 DEF CreateAccount, WriteChange, Initiate
  <2>5. CASE CompleteTransfer(c)
    BY <2>5 DEF CompleteTransfer
  <2> QED BY <2>1, <2>2, <2>3, <2>4, <2>5 DEF StaffPayoutStep
<1>2. CASE Ready(c) /\ StaffPayoutRequest(c)
  BY <1>0, <1>2, Begins, Onces, StaffPayoutStagesAre
     DEF StaffPayoutRequest, BankRequest, ReleaseRequest, SetReleaseActive, ApproveChange, RejectChange, SubmitFirstAccount,
         SubmitChange, RequestWithdrawal, ApproveTransfer, Webhook, ResyncWithdrawal, TransferOutcome
<1> QED BY <1>1, <1>2 DEF StaffPayoutNext

-----------------------------------------------------------------------------
(* Withdrawals: what a handler knows, and how it stands with its request.  *)

AtWithdrawal == {"pay", "answered", "fail", "complete", "debit", "resync"}

\* The type of what handlers of the payout remember.
PayoutCall(call) ==
    /\ call.stage = "first_account" => call.on \in Staff /\ call.saw \in Banks
    /\ call.stage = "approve_change" => call.on \in Staff /\ call.saw \in AccountRows
    /\ call.stage = "reserve" => call.on \in Staff /\ call.saw.amount \in Amounts /\ call.saw.account \in AccountRows
    /\ call.stage = "pay" => call.saw \in AccountRows
    /\ call.stage \in AtWithdrawal => call.on \in Withdrawals

PayoutCalls == \A c \in Callers : PayoutCall(calls[c])

\* Handlers other than c remember what they did.
LEMMA PayoutCallsStay ==
    ASSUME PayoutCalls, NEW c \in Callers, \A d \in Callers \ {c} : calls'[d] = calls[d], PayoutCall(calls'[c])
    PROVE  PayoutCalls'
BY DEF PayoutCalls

LEMMA OtherCallsTyped ==
    ASSUME NEW call, call.stage \in AttendanceStages \cup PayrollStages \cup {"idle"}
    PROVE  PayoutCall(call) /\ call.stage \notin AtWithdrawal /\ call.stage \notin StaffPayoutStages
BY DEF AttendanceStages, PayrollStages, AtWithdrawal, PayoutCall, StaffPayoutStages, BeforeDebit

PayoutTyped == Shape /\ StaffPayoutTypeOK /\ PayoutCalls

LEMMA PayoutTypedAtFirst == Init => PayoutTyped
<1> SUFFICES ASSUME Init PROVE PayoutTyped
  OBVIOUS
<1>1. Shape
  BY DEF Init, HandlersInit, Shape
<1>2. \A c \in Callers : calls[c].stage = "idle"
  BY DEF Init, HandlersInit, Idle
<1>3. PayoutCalls
  BY <1>2, OtherCallsTyped DEF PayoutCalls
<1>4. PICK b \in Banks \cup {"none"} : account = [s \in Staff |-> [bank |-> b, recipient |-> b, pending |-> "none"]]
  BY BanksAssumption DEF Init, StaffPayoutInit
<1>5. account \in [Staff -> AccountRows]
  BY <1>4 DEF AccountRows
<1>6. releaseActive \in BOOLEAN /\ mishaps \subseteq {"lost", "raced"}
  BY DEF Init, StaffPayoutInit
<1>7. withdrawal \in [Withdrawals -> WithdrawalRows]
  BY DEF Init, StaffPayoutInit, WithdrawalRows
<1>8. transfer \in [Withdrawals -> Transfers]
  BY DEF Init, StaffPayoutInit, Transfers
<1> QED BY <1>1, <1>3, <1>5, <1>6, <1>7, <1>8 DEF PayoutTyped, StaffPayoutTypeOK

\* A handler of accounts does not look at withdrawals or the wallet.
AccountStep(c) ==
    \/ \E ok \in BOOLEAN : CreateAccount(c, ok) \/ WriteChange(c, ok)
    \/ \E active \in BOOLEAN : SetReleaseActive(c, active)
    \/ \E s \in Staff : \/ ApproveChange(c, s) \/ RejectChange(c, s)
                        \/ \E b \in Banks : SubmitFirstAccount(c, s, b) \/ SubmitChange(c, s, b)
                        \/ \E amount \in Amounts : RequestWithdrawal(c, s, amount)

LEMMA AccountTyped ==
    ASSUME PayoutTyped, NEW c \in Callers, Busy(c) \/ Ready(c), AccountStep(c)
    PROVE  /\ StaffPayoutTypeOK' /\ PayoutCall(calls'[c])
           /\ calls'[c].stage \notin AtWithdrawal \/ calls'[c] = calls[c]
           /\ UNCHANGED <<withdrawal, transfer, mishaps, payroll>>
<1> USE DEF PayoutTyped, StaffPayoutTypeOK
<1>0. PayoutCall(calls[c])
  BY DEF PayoutCalls
<1>1. ASSUME NEW ok \in BOOLEAN, CreateAccount(c, ok)
      PROVE  account' \in [Staff -> AccountRows] /\ calls'[c] = Idle
  <2>1. calls[c].on \in Staff /\ calls[c].saw \in Banks /\ calls'[c] = Idle
    BY <1>0, <1>1 DEF CreateAccount, PayoutCall, At, Return, Continue, Shape
  <2>2. PICK row : row = [bank |-> calls[c].saw, recipient |-> IF ok THEN calls[c].saw ELSE "none", pending |-> "none"]
    OBVIOUS
  <2>3. row \in AccountRows
    BY <2>1, <2>2 DEF AccountRows
  <2> QED BY <1>1, <2>1, <2>2, <2>3 DEF CreateAccount
<1>2. ASSUME NEW ok \in BOOLEAN, WriteChange(c, ok)
      PROVE  account' \in [Staff -> AccountRows] /\ calls'[c] = Idle
  <2>1. calls[c].on \in Staff /\ calls[c].saw \in AccountRows /\ calls'[c] = Idle
    BY <1>0, <1>2 DEF WriteChange, PayoutCall, At, Return, Continue, Shape
  <2>2. PICK a : a = calls[c].saw
    OBVIOUS
  <2>3. PICK row : row = [bank |-> a.pending, recipient |-> IF ok THEN a.pending ELSE a.recipient, pending |-> "none"]
    OBVIOUS
  <2>4. row \in AccountRows
    BY <2>1, <2>2, <2>3 DEF AccountRows
  <2> QED BY <1>2, <2>1, <2>2, <2>3, <2>4 DEF WriteChange
<1>3. ASSUME NEW s \in Staff, NEW b \in Banks \cup {"none"}, account' = [account EXCEPT ![s].pending = b]
      PROVE  account' \in [Staff -> AccountRows]
  <2>1. account[s] \in AccountRows
    OBVIOUS
  <2>2. PICK row : row = [account[s] EXCEPT !.pending = b]
    OBVIOUS
  <2>3. row \in AccountRows
    BY <2>1, <2>2 DEF AccountRows
  <2> QED BY <1>3, <2>2, <2>3
<1>4. ASSUME NEW s \in Staff, ApproveChange(c, s) PROVE PayoutCall(calls'[c]) /\ calls'[c].stage = "approve_change"
  <2>1. calls'[c].stage = "approve_change" /\ calls'[c].on = s /\ calls'[c].saw = account[s]
    BY <1>4, Begun DEF ApproveChange
  <2> QED BY <2>1 DEF PayoutCall, AtWithdrawal
<1>5. ASSUME NEW s \in Staff, NEW b \in Banks, SubmitFirstAccount(c, s, b)
      PROVE  PayoutCall(calls'[c]) /\ calls'[c].stage = "first_account"
  <2>1. calls'[c].stage = "first_account" /\ calls'[c].on = s /\ calls'[c].saw = b
    BY <1>5, Begun DEF SubmitFirstAccount
  <2> QED BY <2>1 DEF PayoutCall, AtWithdrawal
<1>6. ASSUME NEW s \in Staff, NEW amount \in Amounts, RequestWithdrawal(c, s, amount)
      PROVE  PayoutCall(calls'[c]) /\ calls'[c].stage = "reserve"
  <2>1. PICK r : r = [amount |-> amount, account |-> account[s], had |-> Available(s)]
    OBVIOUS
  <2>2. calls'[c].stage = "reserve" /\ calls'[c].on = s /\ calls'[c].saw = r
    BY <1>6, <2>1, Begun DEF RequestWithdrawal
  <2>3. r.amount = amount /\ r.account = account[s]
    BY <2>1
  <2> QED BY <2>2, <2>3 DEF PayoutCall, AtWithdrawal
<1>7. CASE \E ok \in BOOLEAN : CreateAccount(c, ok) \/ WriteChange(c, ok)
  <2>1. PayoutCall(Idle) /\ Idle.stage \notin AtWithdrawal
    BY OtherCallsTyped DEF Idle
  <2> QED BY <1>1, <1>2, <1>7, <2>1 DEF CreateAccount, WriteChange, payroll
<1>8. CASE \E active \in BOOLEAN : SetReleaseActive(c, active)
  BY <1>0, <1>8 DEF SetReleaseActive, Once, payroll
<1>9. CASE \E s \in Staff : \/ ApproveChange(c, s)
                            \/ \E b \in Banks : SubmitFirstAccount(c, s, b)
                            \/ \E amount \in Amounts : RequestWithdrawal(c, s, amount)
  BY <1>4, <1>5, <1>6, <1>9
     DEF ApproveChange, SubmitFirstAccount, RequestWithdrawal, payroll, staffPayout, AtWithdrawal
<1>10. CASE \E s \in Staff : RejectChange(c, s) \/ \E b \in Banks : SubmitChange(c, s, b)
  BY <1>0, <1>3, <1>10 DEF RejectChange, SubmitChange, Once, payroll
<1> QED BY <1>7, <1>8, <1>9, <1>10 DEF AccountStep

-----------------------------------------------------------------------------
(* A handler, its request and the transfer.                                *)

InStep(call, row, t) ==
    /\ call.stage \in AtWithdrawal => row.status # "none"
    /\ call.stage = "pay" => row.status = "PROCESSING" /\ ~row.coded /\ t.state = "none"
    /\ call.stage = "answered" => t.state # "none"
    /\ call.stage \in {"complete", "debit"} => t.state \in {"sent", "reversed"}

InSteps == \A c \in Callers : InStep(calls[c], withdrawal[calls[c].on], transfer[calls[c].on])

\* While a handler is about to pay a request, no other one deals with it.
PaysAlone ==
    \A c, d \in Callers : At(c, "pay") /\ calls[d].stage \in AtWithdrawal /\ calls[d].on = calls[c].on => d = c

RowSound(row, t) ==
    /\ row.status = "none" => t.state = "none"
    /\ row.status # "none" => row.staff \in Staff /\ row.amount \in Amounts

RowsSound == \A w \in Withdrawals : RowSound(withdrawal[w], transfer[w])

\* As long as no answer got lost and nothing was taken back, what failed was not sent.
Calm == "lost" \notin mishaps /\ \A w \in Withdrawals : transfer[w].state # "reversed"
Unsent(t) == t.state \in {"none", "failed"}
CalmCall(call, t) == call.stage = "fail" => Unsent(t)
CalmRow(row, t) == row.status = "FAILED" => Unsent(t)
FailedUnsent ==
    Calm => /\ \A c \in Callers : CalmCall(calls[c], transfer[calls[c].on])
            /\ \A w \in Withdrawals : CalmRow(withdrawal[w], transfer[w])

\* What no step undoes.
TransferLater(t, new) ==
    /\ t.state # "none" => new.state # "none"
    /\ t.state = "failed" => new.state = "failed"
    /\ t.state = "reversed" => new.state = "reversed"
    /\ t.state = "sent" => new.state \in {"sent", "reversed"}

Dealt == PayoutTyped /\ InSteps /\ PaysAlone /\ RowsSound /\ FailedUnsent

\* The handlers of D, one or none, deal with request w.
Moves(D, w) ==
    /\ \A d \in Callers \ D : calls'[d] = calls[d] /\ (At(d, "pay") => calls[d].on # w)
    /\ \A v \in Withdrawals \ {w} : withdrawal'[v] = withdrawal[v] /\ transfer'[v] = transfer[v]
    /\ withdrawal[w].status # "none" => withdrawal'[w].status # "none"
    /\ TransferLater(transfer[w], transfer'[w]) /\ mishaps \subseteq mishaps'
    /\ RowSound(withdrawal'[w], transfer'[w])
    /\ \A c \in D : calls'[c].stage \in AtWithdrawal =>
            calls'[c].on = w /\ InStep(calls'[c], withdrawal'[w], transfer'[w])
    /\ \/ \A d \in Callers \ D : calls[d].stage \in AtWithdrawal => calls[d].on # w
       \/ /\ \A c \in D : calls'[c].stage # "pay"
          /\ transfer[w].state = "none" => transfer'[w].state = "none"
    /\ Calm' => /\ CalmRow(withdrawal'[w], transfer'[w])
                /\ \A c \in D : CalmCall(calls'[c], transfer'[calls'[c].on])

LEMMA StagesAtWithdrawal ==
    "pay" \in AtWithdrawal /\ "answered" \in AtWithdrawal /\ "fail" \in AtWithdrawal /\
    "complete" \in AtWithdrawal /\ "debit" \in AtWithdrawal /\ "resync" \in AtWithdrawal
BY DEF AtWithdrawal

LEMMA InStepLater ==
    ASSUME NEW call, NEW row, NEW t, NEW new, NEW newer, InStep(call, row, t), call.stage # "pay",
           row.status # "none" => new.status # "none", TransferLater(t, newer)
    PROVE  InStep(call, new, newer)
BY DEF InStep, TransferLater

LEMMA DealtMoves ==
    ASSUME Dealt, NEW D \in SUBSET Callers, \A c, d \in D : c = d, NEW w \in Withdrawals, Moves(D, w)
    PROVE  InSteps' /\ PaysAlone' /\ RowsSound' /\ FailedUnsent'
<1>1. ASSUME NEW d \in Callers \ D, calls[d].stage \in AtWithdrawal
      PROVE  calls[d].on \in Withdrawals
  BY <1>1 DEF Dealt, PayoutTyped, PayoutCalls, PayoutCall
<1>2. ASSUME NEW d \in Callers PROVE InStep(calls[d], withdrawal[calls[d].on], transfer[calls[d].on])'
  <2>1. CASE calls'[d].stage \notin AtWithdrawal
    BY <2>1, StagesAtWithdrawal DEF InStep
  <2>2. CASE d \in D /\ calls'[d].stage \in AtWithdrawal
    BY <2>2 DEF Moves
  <2>3. CASE d \notin D /\ calls'[d].stage \in AtWithdrawal
    <3>1. calls'[d] = calls[d] /\ calls[d].on \in Withdrawals
      BY <1>1, <2>3 DEF Moves
    <3>2. InStep(calls[d], withdrawal[calls[d].on], transfer[calls[d].on])
      BY DEF Dealt, InSteps
    <3>3. CASE calls[d].on # w
      BY <3>1, <3>2, <3>3 DEF Moves
    <3>4. CASE calls[d].on = w
      <4>1. calls[d].stage # "pay"
        BY <2>3, <3>4 DEF Moves, At
      <4>2. InStep(calls[d], withdrawal'[w], transfer'[w])
        BY <3>2, <3>4, <4>1, InStepLater DEF Moves
      <4> QED BY <3>1, <3>4, <4>2
    <3> QED BY <3>3, <3>4
  <2> QED BY <2>1, <2>2, <2>3
<1>3. ASSUME NEW c \in Callers, NEW d \in Callers, At(c, "pay")', calls'[d].stage \in AtWithdrawal,
             calls'[d].on = calls'[c].on
      PROVE  d = c
  <2>1. CASE c \in D /\ d \in D
    BY <2>1
  <2>2. CASE c \in D /\ d \notin D
    <3>1. calls'[c].on = w /\ calls'[c].stage = "pay" /\ calls'[d] = calls[d]
      BY <1>3, <2>2, StagesAtWithdrawal DEF Moves, At
    <3> QED BY <1>3, <2>2, <3>1 DEF Moves
  <2>3. CASE c \notin D /\ d \in D
    <3>1. calls'[d].on = w /\ calls'[c] = calls[c]
      BY <1>3, <2>3 DEF Moves
    <3> QED BY <1>3, <2>3, <3>1 DEF Moves, At
  <2>4. CASE c \notin D /\ d \notin D
    BY <1>3, <2>4 DEF Moves, At, Dealt, PaysAlone
  <2> QED BY <2>1, <2>2, <2>3, <2>4
<1>4. RowsSound'
  BY DEF Moves, Dealt, RowsSound
<1>5. ASSUME Calm' PROVE /\ \A c \in Callers : CalmCall(calls'[c], transfer'[calls'[c].on])
                         /\ \A v \in Withdrawals : CalmRow(withdrawal'[v], transfer'[v])
  <2>1. Calm
    BY <1>5 DEF Calm, Moves, TransferLater
  <2>2. ASSUME NEW d \in Callers PROVE CalmCall(calls'[d], transfer'[calls'[d].on])
    <3>1. CASE d \in D
      BY <1>5, <3>1 DEF Moves
    <3>2. CASE d \notin D /\ calls'[d].stage = "fail"
      <4>1. calls'[d] = calls[d] /\ calls[d].on \in Withdrawals /\ Unsent(transfer[calls[d].on])
        BY <1>1, <2>1, <3>2, StagesAtWithdrawal DEF Moves, Dealt, FailedUnsent, CalmCall
      <4>2. CASE calls[d].on # w
        BY <4>1, <4>2 DEF Moves, CalmCall
      <4>3. CASE calls[d].on = w
        <5>1. transfer[w].state = "none" => transfer'[w].state = "none"
          BY <3>2, <4>1, <4>3, StagesAtWithdrawal DEF Moves
        <5> QED BY <4>1, <4>3, <5>1 DEF Moves, CalmCall, Unsent, TransferLater
      <4> QED BY <4>2, <4>3
    <3> QED BY <3>1, <3>2 DEF CalmCall
  <2>3. ASSUME NEW v \in Withdrawals PROVE CalmRow(withdrawal'[v], transfer'[v])
    BY <1>5, <2>1 DEF Moves, Dealt, FailedUnsent
  <2> QED BY <2>2, <2>3
<1> QED BY <1>2, <1>3, <1>4, <1>5 DEF InSteps, PaysAlone, FailedUnsent

\* A step that moves no request, of a handler that deals with none.
LEMMA DealtApart ==
    ASSUME Dealt, UNCHANGED <<withdrawal, transfer, mishaps>>,
           \A c \in Callers : calls'[c] = calls[c] \/ calls'[c].stage \notin AtWithdrawal
    PROVE  InSteps' /\ PaysAlone' /\ RowsSound' /\ FailedUnsent'
<1>1. ASSUME NEW c \in Callers
      PROVE  InStep(calls'[c], withdrawal[calls'[c].on], transfer[calls'[c].on])
  BY StagesAtWithdrawal DEF Dealt, InSteps, InStep
<1>2. PaysAlone'
  <2> SUFFICES ASSUME NEW c \in Callers, NEW d \in Callers, At(c, "pay")', calls'[d].stage \in AtWithdrawal,
                      calls'[d].on = calls'[c].on
               PROVE  d = c
    BY DEF PaysAlone
  <2>1. calls'[c] = calls[c] /\ calls'[d] = calls[d]
    BY StagesAtWithdrawal DEF At
  <2> QED BY <2>1 DEF Dealt, PaysAlone, At
<1>3. RowsSound'
  BY DEF Dealt, RowsSound
<1>4. FailedUnsent'
  BY StagesAtWithdrawal DEF Dealt, FailedUnsent, Calm, CalmCall
<1> QED BY <1>1, <1>2, <1>3, <1>4 DEF InSteps

-----------------------------------------------------------------------------
(* Every step of the withdrawals is such a move.                           *)

\* What a handler at a withdrawal knows of it, and that no other handler is about to pay it.
LEMMA AtRequest ==
    ASSUME Dealt, NEW c \in Callers, calls[c].stage \in AtWithdrawal
    PROVE  /\ calls[c].on \in Withdrawals /\ withdrawal[calls[c].on] \in WithdrawalRows
           /\ transfer[calls[c].on] \in Transfers
           /\ InStep(calls[c], withdrawal[calls[c].on], transfer[calls[c].on])
           /\ RowSound(withdrawal[calls[c].on], transfer[calls[c].on])
           /\ \A d \in Callers \ {c} : At(d, "pay") => calls[d].on # calls[c].on
           /\ Calm => CalmCall(calls[c], transfer[calls[c].on]) /\ CalmRow(withdrawal[calls[c].on], transfer[calls[c].on])
<1>1. calls[c].on \in Withdrawals
  BY DEF Dealt, PayoutTyped, PayoutCalls, PayoutCall
<1> QED BY <1>1 DEF Dealt, PayoutTyped, StaffPayoutTypeOK, InSteps, RowsSound, PaysAlone, FailedUnsent, At

LEMMA AtFirst ==
    ASSUME Dealt, NEW w \in Withdrawals, withdrawal[w].status = "none" \/ withdrawal[w].coded \/ transfer[w].state # "none"
    PROVE  /\ \A d \in Callers : At(d, "pay") => calls[d].on # w
           /\ withdrawal[w].status = "none" => \A d \in Callers : calls[d].stage \in AtWithdrawal => calls[d].on # w
BY DEF Dealt, InSteps, InStep, At

LEMMA Stays ==
    ASSUME NEW t
    PROVE  TransferLater(t, t)
BY DEF TransferLater

\* A handler goes on with a request whose row and transfer stay as they are.
LEMMA GoesOn ==
    ASSUME Dealt, NEW c \in Callers, NEW w \in Withdrawals, UNCHANGED <<withdrawal, transfer>>, mishaps \subseteq mishaps',
           \A d \in Callers \ {c} : calls'[d] = calls[d] /\ (At(d, "pay") => calls[d].on # w),
           calls'[c].stage \in AtWithdrawal => calls'[c].on = w /\ InStep(calls'[c], withdrawal[w], transfer[w]),
           calls'[c].stage # "pay" \/ (calls[c].stage = "pay" /\ calls[c].on = w),
           Calm' => CalmCall(calls'[c], transfer[calls'[c].on])
    PROVE  Moves({c}, w)
<1>1. \/ calls'[c].stage # "pay"
      \/ \A d \in Callers \ {c} : calls[d].stage \in AtWithdrawal => calls[d].on # w
  BY DEF Dealt, PaysAlone, At
<1>2. Calm' => Calm
  BY DEF Calm
<1> QED BY <1>1, <1>2, Stays DEF Moves, Dealt, RowsSound, FailedUnsent

LEMMA OpensMoves ==
    ASSUME Dealt, NEW c \in Callers, NEW w \in Withdrawals, Reserve(c, w)
    PROVE  Moves({c}, w) /\ StaffPayoutTypeOK' /\ PayoutCall(calls'[c])
<1>1. PICK s, r : s = calls[c].on /\ r = calls[c].saw
  OBVIOUS
<1>2. s \in Staff /\ r.amount \in Amounts /\ r.account \in AccountRows /\ Busy(c)
  BY <1>1 DEF Reserve, Dealt, PayoutTyped, PayoutCalls, PayoutCall, At, Busy
<1>3. withdrawal[w].status = "none" /\ UNCHANGED <<releaseActive, account, transfer, mishaps>>
  BY DEF Reserve, OpenIf
<1>4. transfer[w].state = "none"
  BY <1>3 DEF Dealt, RowsSound, RowSound
<1>5. \A d \in Callers \ {c} : calls'[d] = calls[d]
  BY DEF Reserve, OpenIf, Return, Continue, Dealt, PayoutTyped, Shape
<1>6. \A d \in Callers : calls[d].stage \in AtWithdrawal => calls[d].on # w
  BY <1>3, AtFirst
<1>7. CASE r.amount <= Available(s)
  <2>1. PICK row : row = [status |-> "PROCESSING", staff |-> s, amount |-> r.amount, coded |-> FALSE]
    OBVIOUS
  <2>2. row \in WithdrawalRows /\ row.status = "PROCESSING" /\ row.staff = s /\ row.amount = r.amount /\ row.coded = FALSE
    BY <1>2, <2>1 DEF WithdrawalRows
  <2>3. /\ withdrawal' = [withdrawal EXCEPT ![w] = row]
        /\ Continue(c, [stage |-> "pay", on |-> w, saw |-> r.account])
    BY <1>1, <1>7, <2>1 DEF Reserve, OpenIf
  <2>4. calls'[c] = [stage |-> "pay", on |-> w, saw |-> r.account]
    BY <2>3 DEF Continue, Dealt, PayoutTyped, Shape
  <2>5. calls'[c].stage = "pay" /\ calls'[c].on = w /\ calls'[c].saw = r.account
    BY <2>4, Selects
  <2>6. PayoutCall(calls'[c])
    BY <1>2, <2>5 DEF PayoutCall
  <2>7. withdrawal' \in [Withdrawals -> WithdrawalRows] /\ withdrawal'[w] = row
    BY <2>2, <2>3 DEF Dealt, PayoutTyped, StaffPayoutTypeOK
  <2>8. \A v \in Withdrawals \ {w} : withdrawal'[v] = withdrawal[v]
    BY <2>3 DEF Dealt, PayoutTyped, StaffPayoutTypeOK
  <2>9. InStep(calls'[c], row, transfer[w]) /\ CalmRow(row, transfer[w]) /\ RowSound(row, transfer[w])
    BY <1>2, <1>4, <2>2, <2>5 DEF InStep, CalmRow, RowSound
  <2>10. StaffPayoutTypeOK'
    BY <1>3, <2>7 DEF StaffPayoutTypeOK, Dealt, PayoutTyped
  <2>11. Moves({c}, w)
    BY <1>3, <1>5, <1>6, <2>2, <2>5, <2>7, <2>8, <2>9, Stays, StagesAtWithdrawal DEF Moves, CalmCall, At
  <2> QED BY <2>6, <2>10, <2>11
<1>8. CASE ~(r.amount <= Available(s))
  <2>1. Return(c) /\ UNCHANGED withdrawal
    BY <1>1, <1>8 DEF Reserve, OpenIf
  <2>2. calls'[c].stage = "idle"
    BY <2>1 DEF Return, Continue, Idle, Dealt, PayoutTyped, Shape
  <2>3. PayoutCall(calls'[c]) /\ calls'[c].stage \notin AtWithdrawal
    BY <2>2, OtherCallsTyped
  <2>4. Moves({c}, w)
    BY <1>3, <1>5, <1>6, <2>1, <2>2, <2>3, StagesAtWithdrawal, GoesOn DEF CalmCall, At
  <2> QED BY <1>3, <2>1, <2>3, <2>4 DEF StaffPayoutTypeOK, Dealt, PayoutTyped
<1> QED BY <1>7, <1>8

LEMMA PaysMoves ==
    ASSUME Dealt, NEW c \in Callers, CreateRecipient(c) \/ Refused(c)
    PROVE  Moves({c}, calls[c].on) /\ StaffPayoutTypeOK' /\ PayoutCall(calls'[c]) /\ UNCHANGED <<withdrawal, mishaps>>
<1>1. At(c, "pay") /\ Busy(c) /\ calls[c].stage \in AtWithdrawal /\ calls[c].saw \in AccountRows
  BY StagesAtWithdrawal DEF CreateRecipient, Refused, At, Busy, Dealt, PayoutTyped, PayoutCalls, PayoutCall
<1>2. PICK w \in Withdrawals : w = calls[c].on
  BY <1>1, AtRequest
<1>3. UNCHANGED <<withdrawal, transfer, mishaps, releaseActive>>
  BY DEF CreateRecipient, Refused, staffPayout
<1>4. \A d \in Callers \ {c} : calls'[d] = calls[d] /\ (At(d, "pay") => calls[d].on # w)
  BY <1>1, <1>2, AtRequest DEF CreateRecipient, Refused, Goto, Continue, Dealt, PayoutTyped, Shape
<1>5. InStep(calls[c], withdrawal[w], transfer[w]) /\ (Calm => CalmRow(withdrawal[w], transfer[w]))
  BY <1>1, <1>2, AtRequest
<1>6. withdrawal[w].status # "none" /\ Unsent(transfer[w])
  BY <1>1, <1>5 DEF InStep, At, Unsent
<1>7. CASE CreateRecipient(c)
  <2>1. PICK a : a = calls[c].saw
    OBVIOUS
  <2>2. PICK b : b = [bank |-> a.bank, recipient |-> a.bank, pending |-> a.pending]
    OBVIOUS
  <2>3. b \in AccountRows /\ a.bank \in {"none"} \cup Banks
    BY <1>1, <2>1, <2>2 DEF AccountRows
  <2>4. calls'[c].stage = "pay" /\ calls'[c].on = w /\ calls'[c].saw = b
    BY <1>2, <1>7, <2>1, <2>2, Gone DEF CreateRecipient, Dealt, PayoutTyped
  <2>5. PayoutCall(calls'[c])
    BY <2>3, <2>4 DEF PayoutCall
  <2>6. account' \in [Staff -> AccountRows]
    <3>1. PICK s : account' = [account EXCEPT ![s].recipient = a.bank]
      BY <1>7, <2>1 DEF CreateRecipient
    <3>2. CASE s \in Staff
      <4>1. PICK row : row = [account[s] EXCEPT !.recipient = a.bank]
        OBVIOUS
      <4>2. row \in AccountRows
        BY <2>3, <3>2, <4>1 DEF AccountRows, Dealt, PayoutTyped, StaffPayoutTypeOK
      <4> QED BY <3>1, <3>2, <4>1, <4>2 DEF Dealt, PayoutTyped, StaffPayoutTypeOK
    <3>3. CASE s \notin Staff
      BY <3>1, <3>3 DEF Dealt, PayoutTyped, StaffPayoutTypeOK
    <3> QED BY <3>2, <3>3
  <2>7. InStep(calls'[c], withdrawal[w], transfer[w])
    BY <1>1, <1>5, <2>4 DEF InStep, At
  <2>8. Moves({c}, w)
    BY <1>1, <1>2, <1>3, <1>4, <2>4, <2>7, GoesOn DEF CalmCall, At
  <2> QED BY <1>2, <1>3, <2>5, <2>6, <2>8 DEF StaffPayoutTypeOK, Dealt, PayoutTyped
<1>8. CASE Refused(c)
  <2>1. calls'[c].stage = "fail" /\ calls'[c].on = w
    BY <1>2, <1>8, Gone DEF Refused, Dealt, PayoutTyped
  <2>2. PayoutCall(calls'[c])
    BY <2>1 DEF PayoutCall, AtWithdrawal
  <2>3. InStep(calls'[c], withdrawal[w], transfer[w])
    BY <1>6, <2>1 DEF InStep
  <2>4. Moves({c}, w)
    BY <1>3, <1>4, <1>6, <2>1, <2>3, GoesOn DEF CalmCall
  <2> QED BY <1>2, <1>3, <1>8, <2>2, <2>4 DEF Refused, staffPayout, StaffPayoutTypeOK, Dealt, PayoutTyped
<1> QED BY <1>7, <1>8

LEMMA InitiateMoves ==
    ASSUME Dealt, NEW c \in Callers, NEW answer \in BOOLEAN, Initiate(c, answer)
    PROVE  Moves({c}, calls[c].on) /\ StaffPayoutTypeOK' /\ PayoutCall(calls'[c]) /\ UNCHANGED withdrawal
<1>1. At(c, "pay") /\ calls[c].stage \in AtWithdrawal /\ calls[c].saw \in AccountRows
  BY StagesAtWithdrawal DEF Initiate, At, Dealt, PayoutTyped, PayoutCalls, PayoutCall
<1>2. PICK w \in Withdrawals : w = calls[c].on
  BY <1>1, AtRequest
<1>3. InStep(calls[c], withdrawal[w], transfer[w]) /\ RowSound(withdrawal[w], transfer[w])
  BY <1>1, <1>2, AtRequest
<1>4. withdrawal[w].status = "PROCESSING" /\ transfer[w].state = "none"
  BY <1>1, <1>3 DEF InStep, At
<1>5. \A d \in Callers \ {c} : calls[d].stage \in AtWithdrawal => calls[d].on # w
  BY <1>1, <1>2 DEF Dealt, PaysAlone
<1>6. \A d \in Callers \ {c} : calls'[d] = calls[d]
  BY DEF Initiate, Goto, Continue, Dealt, PayoutTyped, Shape
<1>7. PICK t : t = [state |-> "asked", to |-> calls[c].saw.recipient]
  OBVIOUS
<1>8. t \in Transfers /\ t.state = "asked"
  BY <1>1, <1>7 DEF Transfers, AccountRows
<1>9. transfer' = [transfer EXCEPT ![w] = t] /\ UNCHANGED <<withdrawal, account, releaseActive>>
  BY <1>2, <1>7 DEF Initiate
<1>10. transfer' \in [Withdrawals -> Transfers] /\ transfer'[w] = t /\ \A v \in Withdrawals \ {w} : transfer'[v] = transfer[v]
  BY <1>8, <1>9 DEF Dealt, PayoutTyped, StaffPayoutTypeOK
<1>11. /\ calls'[c].stage = IF answer THEN "answered" ELSE "fail"
       /\ calls'[c].on = w
  BY <1>2, Gone DEF Initiate, Dealt, PayoutTyped
<1>12. PayoutCall(calls'[c])
  BY <1>11 DEF PayoutCall, AtWithdrawal
<1>13. /\ mishaps' \subseteq {"lost", "raced"} /\ mishaps \subseteq mishaps'
       /\ ~answer => "lost" \in mishaps'
  BY DEF Initiate, Dealt, PayoutTyped, StaffPayoutTypeOK
<1>14. /\ InStep(calls'[c], withdrawal[w], t) /\ TransferLater(transfer[w], t) /\ RowSound(withdrawal[w], t)
       /\ CalmRow(withdrawal[w], t)
  BY <1>3, <1>4, <1>8, <1>11 DEF InStep, TransferLater, RowSound, CalmRow
<1>15. Calm' => CalmCall(calls'[c], t)
  BY <1>11, <1>13 DEF Calm, CalmCall
<1>16. Moves({c}, w)
  BY <1>5, <1>6, <1>9, <1>10, <1>11, <1>13, <1>14, <1>15, StagesAtWithdrawal DEF Moves, At
<1>17. StaffPayoutTypeOK'
  BY <1>9, <1>10, <1>13 DEF StaffPayoutTypeOK, Dealt, PayoutTyped
<1> QED BY <1>2, <1>9, <1>12, <1>16, <1>17

\* The row of a request gets another status, or a code.
LEMMA RowMoves ==
    ASSUME Dealt, NEW c \in Callers, calls[c].stage \in AtWithdrawal, ~ At(c, "pay"),
           NEW w, w = calls[c].on, NEW row \in WithdrawalRows,
           row.staff = withdrawal[w].staff, row.amount = withdrawal[w].amount, row.status # "none",
           withdrawal' = [withdrawal EXCEPT ![w] = row], UNCHANGED <<releaseActive, account, transfer, mishaps>>,
           \A d \in Callers \ {c} : calls'[d] = calls[d],
           calls'[c].stage \in AtWithdrawal => calls'[c].on = w /\ InStep(calls'[c], row, transfer[w]),
           calls'[c].stage # "pay", calls'[c].stage \in AtWithdrawal \cup {"idle"},
           Calm => CalmRow(row, transfer[w]),
           calls'[c].stage = "fail" /\ Calm => Unsent(transfer[w])
    PROVE  Moves({c}, w) /\ StaffPayoutTypeOK' /\ PayoutCall(calls'[c])
<1>1. w \in Withdrawals /\ InStep(calls[c], withdrawal[w], transfer[w]) /\ RowSound(withdrawal[w], transfer[w])
  BY AtRequest
<1>2. withdrawal[w].status # "none"
  BY <1>1 DEF InStep
<1>3. withdrawal' \in [Withdrawals -> WithdrawalRows] /\ withdrawal'[w] = row /\ \A v \in Withdrawals \ {w} : withdrawal'[v] = withdrawal[v]
  BY <1>1 DEF Dealt, PayoutTyped, StaffPayoutTypeOK
<1>4. RowSound(row, transfer[w])
  BY <1>1, <1>2 DEF RowSound
<1>5. \A d \in Callers \ {c} : At(d, "pay") => calls[d].on # w
  BY AtRequest
<1>6. Calm' => Calm
  BY DEF Calm
<1>7. calls'[c].stage = "fail" => calls'[c].on = w
  BY StagesAtWithdrawal
<1>8. Moves({c}, w)
  BY <1>2, <1>3, <1>4, <1>5, <1>6, <1>7, Stays DEF Moves, CalmCall
<1>9. PayoutCall(calls'[c])
  BY <1>1 DEF PayoutCall, AtWithdrawal
<1> QED BY <1>3, <1>8, <1>9 DEF StaffPayoutTypeOK, Dealt, PayoutTyped

LEMMA CodeMoves ==
    ASSUME Dealt, NEW c \in Callers, WriteTransferCode(c)
    PROVE  /\ Moves({c}, calls[c].on) /\ StaffPayoutTypeOK' /\ PayoutCall(calls'[c])
           /\ \A w \in Withdrawals : /\ withdrawal'[w].status = withdrawal[w].status
                                     /\ withdrawal'[w].staff = withdrawal[w].staff
                                     /\ withdrawal'[w].amount = withdrawal[w].amount
<1>1. At(c, "answered") /\ calls[c].stage \in AtWithdrawal
  BY StagesAtWithdrawal DEF WriteTransferCode, At
<1>2. PICK w \in Withdrawals : w = calls[c].on
  BY <1>1, AtRequest
<1>3. withdrawal[w] \in WithdrawalRows /\ InStep(calls[c], withdrawal[w], transfer[w]) /\ (Calm => CalmRow(withdrawal[w], transfer[w]))
  BY <1>1, <1>2, AtRequest
<1>4. PICK row : row = [withdrawal[w] EXCEPT !.coded = TRUE]
  OBVIOUS
<1>5. /\ row \in WithdrawalRows /\ row.status = withdrawal[w].status /\ row.staff = withdrawal[w].staff
      /\ row.amount = withdrawal[w].amount
  BY <1>3, <1>4 DEF WithdrawalRows
<1>6. row.status # "none" /\ (Calm => CalmRow(row, transfer[w]))
  BY <1>1, <1>3, <1>5 DEF InStep, CalmRow
<1>7. withdrawal' = [withdrawal EXCEPT ![w] = row] /\ UNCHANGED <<releaseActive, account, transfer, mishaps>>
  BY <1>2, <1>4 DEF WriteTransferCode
<1>8. /\ transfer[w].state \in {"failed", "reversed"} => Goto(c, "fail", 0)
      /\ transfer[w].state = "sent" => Goto(c, "complete", 0)
      /\ transfer[w].state \notin {"failed", "reversed", "sent"} => Return(c)
  BY <1>2 DEF WriteTransferCode
<1>9. /\ \A d \in Callers \ {c} : calls'[d] = calls[d]
      /\ \/ transfer[w].state \in {"failed", "reversed"} /\ calls'[c].stage = "fail" /\ calls'[c].on = w
         \/ transfer[w].state = "sent" /\ calls'[c].stage = "complete" /\ calls'[c].on = w
         \/ calls'[c].stage = "idle"
  BY <1>2, <1>8, Gone DEF Goto, Return, Continue, Idle, Dealt, PayoutTyped, Shape
<1>10. calls'[c].stage \in AtWithdrawal => calls'[c].on = w /\ InStep(calls'[c], row, transfer[w])
  BY <1>6, <1>9 DEF InStep, AtWithdrawal
<1>11. calls'[c].stage # "pay" /\ calls'[c].stage \in AtWithdrawal \cup {"idle"} /\ ~ At(c, "pay")
  BY <1>1, <1>9, StagesAtWithdrawal DEF At
<1>12. calls'[c].stage = "fail" /\ Calm => Unsent(transfer[w])
  BY <1>9 DEF Calm, Unsent
<1>13. Moves({c}, w) /\ StaffPayoutTypeOK' /\ PayoutCall(calls'[c])
  BY <1>1, <1>2, <1>5, <1>6, <1>7, <1>9, <1>10, <1>11, <1>12, RowMoves
<1> QED BY <1>2, <1>5, <1>7, <1>13 DEF Dealt, PayoutTyped, StaffPayoutTypeOK

LEMMA FailMoves ==
    ASSUME Dealt, NEW c \in Callers, WriteFailed(c)
    PROVE  Moves({c}, calls[c].on) /\ StaffPayoutTypeOK' /\ PayoutCall(calls'[c])
<1>1. At(c, "fail") /\ calls[c].stage \in AtWithdrawal /\ ~ At(c, "pay")
  BY StagesAtWithdrawal DEF WriteFailed, At
<1>2. PICK w \in Withdrawals : w = calls[c].on
  BY <1>1, AtRequest
<1>3. withdrawal[w] \in WithdrawalRows /\ (Calm => Unsent(transfer[w]))
  BY <1>1, <1>2, AtRequest DEF CalmCall, At
<1>4. PICK row : row = [withdrawal[w] EXCEPT !.status = "FAILED"]
  OBVIOUS
<1>5. /\ row \in WithdrawalRows /\ row.status = "FAILED" /\ row.staff = withdrawal[w].staff
      /\ row.amount = withdrawal[w].amount
  BY <1>3, <1>4 DEF WithdrawalRows
<1>6. withdrawal' = [withdrawal EXCEPT ![w] = row] /\ UNCHANGED <<releaseActive, account, transfer, mishaps>>
  BY <1>2, <1>4 DEF WriteFailed
<1>7. (\A d \in Callers \ {c} : calls'[d] = calls[d]) /\ calls'[c].stage = "idle"
  BY DEF WriteFailed, Return, Continue, Idle, Dealt, PayoutTyped, Shape
<1>8. calls'[c].stage \notin AtWithdrawal /\ calls'[c].stage # "pay" /\ calls'[c].stage # "fail"
  BY <1>7, OtherCallsTyped, StagesAtWithdrawal
<1>9. Calm => CalmRow(row, transfer[w])
  BY <1>3 DEF CalmRow
<1> QED BY <1>1, <1>2, <1>5, <1>6, <1>7, <1>8, <1>9, RowMoves

\* A completion looks at the request and the wallet, and goes on to the debit if it is covered.
LEMMA CompleteMoves ==
    ASSUME Dealt, NEW c \in Callers, CompleteTransfer(c)
    PROVE  /\ StaffPayoutTypeOK' /\ PayoutCall(calls'[c]) /\ Moves({c}, calls[c].on)
           /\ UNCHANGED <<withdrawal, transfer, payroll, scenario>> /\ mishaps \subseteq mishaps'
           /\ \A d \in Callers \ {c} : calls'[d] = calls[d]
           /\ \/ calls'[c].stage = "idle"
              \/ \E w \in Withdrawals :
                    /\ calls'[c].stage = "debit" /\ calls'[c].on = w
                    /\ ~ (wallet[withdrawal[w].staff].balance < withdrawal[w].amount)
                    /\ Races(c, w) => "raced" \in mishaps'
<1>1. At(c, "complete") /\ calls[c].stage \in AtWithdrawal /\ ~ At(c, "pay")
  BY StagesAtWithdrawal DEF CompleteTransfer, At
<1>2. PICK w \in Withdrawals : w = calls[c].on
  BY <1>1, AtRequest
<1>3. /\ InStep(calls[c], withdrawal[w], transfer[w])
      /\ \A d \in Callers \ {c} : At(d, "pay") => calls[d].on # w
  BY <1>1, <1>2, AtRequest
<1>4. transfer[w].state \in {"sent", "reversed"} /\ withdrawal[w].status # "none"
  BY <1>1, <1>3, StagesAtWithdrawal DEF InStep, At
<1>5. UNCHANGED <<releaseActive, account, withdrawal, transfer, payroll>>
  BY DEF CompleteTransfer
<1>6. PICK r : r = withdrawal[w]
  OBVIOUS
<1>7. CASE r.status = "COMPLETED" \/ wallet[r.staff].balance < r.amount
  <2>1. Return(c) /\ mishaps' = mishaps
    BY <1>2, <1>6, <1>7 DEF CompleteTransfer
  <2>2. (\A d \in Callers \ {c} : calls'[d] = calls[d]) /\ calls'[c].stage = "idle" /\ scenario' = scenario
    BY <2>1 DEF Return, Continue, Idle, Dealt, PayoutTyped, Shape
  <2>3. calls'[c].stage \notin AtWithdrawal /\ calls'[c].stage # "pay" /\ calls'[c].stage # "fail" /\ PayoutCall(calls'[c])
    BY <2>2, OtherCallsTyped, StagesAtWithdrawal
  <2>4. Moves({c}, w)
    BY <1>3, <1>5, <2>1, <2>2, <2>3, GoesOn DEF CalmCall
  <2> QED BY <1>2, <1>5, <2>1, <2>2, <2>3, <2>4 DEF StaffPayoutTypeOK, Dealt, PayoutTyped
<1>8. CASE ~ (r.status = "COMPLETED" \/ wallet[r.staff].balance < r.amount)
  <2>1. Goto(c, "debit", 0) /\ mishaps' = IF Races(c, w) THEN mishaps \cup {"raced"} ELSE mishaps
    BY <1>2, <1>6, <1>8 DEF CompleteTransfer
  <2>2. (\A d \in Callers \ {c} : calls'[d] = calls[d]) /\ scenario' = scenario
    BY <2>1 DEF Goto, Continue, Dealt, PayoutTyped, Shape
  <2>3. calls'[c].stage = "debit" /\ calls'[c].on = w
    BY <1>2, <2>1, Gone DEF Dealt, PayoutTyped
  <2>4. PayoutCall(calls'[c]) /\ InStep(calls'[c], withdrawal[w], transfer[w])
    BY <1>4, <2>3 DEF PayoutCall, AtWithdrawal, InStep
  <2>5. mishaps \subseteq mishaps' /\ mishaps' \subseteq {"lost", "raced"} /\ (Races(c, w) => "raced" \in mishaps')
    BY <2>1 DEF StaffPayoutTypeOK, Dealt, PayoutTyped
  <2>6. Moves({c}, w)
    BY <1>3, <1>5, <2>2, <2>3, <2>4, <2>5, GoesOn DEF CalmCall
  <2>7. StaffPayoutTypeOK'
    BY <1>5, <2>5 DEF StaffPayoutTypeOK, Dealt, PayoutTyped
  <2> QED BY <1>2, <1>5, <1>6, <1>8, <2>2, <2>3, <2>4, <2>5, <2>6, <2>7
<1> QED BY <1>7, <1>8

\* A transfer that was paid out is not FAILED as long as all is calm: then what is debited was asked for.
LEMMA DebitMoves ==
    ASSUME Dealt, NEW c \in Callers, DebitWallet(c)
    PROVE  /\ StaffPayoutTypeOK' /\ PayoutCall(calls'[c]) /\ calls'[c].stage = "idle"
           /\ \A d \in Callers \ {c} : calls'[d] = calls[d]
           /\ Moves({c}, calls[c].on) /\ UNCHANGED <<transfer, mishaps, scenario, period>>
           /\ \/ UNCHANGED <<wallet, withdrawal>>
              \/ \E w \in Withdrawals, row \in WithdrawalRows :
                    /\ withdrawal[w].staff \in Staff /\ withdrawal[w].amount \in Amounts
                    /\ Calm => withdrawal[w].status \in {"PROCESSING", "COMPLETED"}
                    /\ transfer[w].state \in {"sent", "reversed"} /\ At(c, "debit") /\ calls[c].on = w
                    /\ Reference("WITHDRAWAL", w) \notin References(withdrawal[w].staff)
                    /\ Post(withdrawal[w].staff, Reference("WITHDRAWAL", w), -withdrawal[w].amount)
                    /\ row.status = "COMPLETED"
                    /\ row.staff = withdrawal[w].staff /\ row.amount = withdrawal[w].amount
                    /\ withdrawal' = [withdrawal EXCEPT ![w] = row]
<1>1. At(c, "debit") /\ calls[c].stage \in AtWithdrawal /\ ~ At(c, "pay")
  BY StagesAtWithdrawal DEF DebitWallet, At
<1>2. PICK w \in Withdrawals : w = calls[c].on
  BY <1>1, AtRequest
<1>3. /\ withdrawal[w] \in WithdrawalRows /\ InStep(calls[c], withdrawal[w], transfer[w])
      /\ RowSound(withdrawal[w], transfer[w]) /\ (Calm => CalmRow(withdrawal[w], transfer[w]))
      /\ \A d \in Callers \ {c} : At(d, "pay") => calls[d].on # w
  BY <1>1, <1>2, AtRequest
<1>4. transfer[w].state \in {"sent", "reversed"} /\ withdrawal[w].status # "none"
  BY <1>1, <1>3, StagesAtWithdrawal DEF InStep, At
<1>5. PICK r : r = withdrawal[w]
  OBVIOUS
<1>6. r.staff \in Staff /\ r.amount \in Amounts
  BY <1>3, <1>4, <1>5 DEF RowSound
<1>7. PICK row : row = [r EXCEPT !.status = "COMPLETED"]
  OBVIOUS
<1>8. row \in WithdrawalRows /\ row.status = "COMPLETED" /\ row.staff = r.staff /\ row.amount = r.amount
  BY <1>3, <1>5, <1>7 DEF WithdrawalRows
<1>9. (\A d \in Callers \ {c} : calls'[d] = calls[d]) /\ calls'[c].stage = "idle" /\ scenario' = scenario
  BY DEF DebitWallet, Return, Continue, Idle, Dealt, PayoutTyped, Shape
<1>10. calls'[c].stage \notin AtWithdrawal /\ calls'[c].stage # "pay" /\ calls'[c].stage # "fail" /\ PayoutCall(calls'[c])
  BY <1>9, OtherCallsTyped, StagesAtWithdrawal
<1>11. UNCHANGED <<releaseActive, account, transfer, mishaps, period>>
  BY DEF DebitWallet
<1>12. CASE Reference("WITHDRAWAL", w) \in References(r.staff)
  <2>1. UNCHANGED <<wallet, withdrawal>>
    BY <1>2, <1>5, <1>12 DEF DebitWallet
  <2>2. Moves({c}, w)
    BY <1>3, <1>9, <1>10, <1>11, <2>1, GoesOn DEF CalmCall
  <2> QED BY <1>2, <1>9, <1>10, <1>11, <2>1, <2>2 DEF StaffPayoutTypeOK, Dealt, PayoutTyped
<1>13. CASE Reference("WITHDRAWAL", w) \notin References(r.staff)
  <2>1. /\ Post(r.staff, Reference("WITHDRAWAL", w), -r.amount)
        /\ withdrawal' = [withdrawal EXCEPT ![w] = row]
    BY <1>2, <1>5, <1>7, <1>13 DEF DebitWallet
  <2>2. Calm => r.status \in {"PROCESSING", "COMPLETED"}
    BY <1>3, <1>4, <1>5 DEF CalmRow, Unsent, WithdrawalRows
  <2>3. Calm => CalmRow(row, transfer[w])
    BY <1>8 DEF CalmRow
  <2>4. Moves({c}, w) /\ StaffPayoutTypeOK' /\ PayoutCall(calls'[c])
    BY <1>1, <1>2, <1>5, <1>8, <1>9, <1>10, <1>11, <2>1, <2>3, RowMoves
  <2> QED BY <1>1, <1>2, <1>4, <1>5, <1>6, <1>8, <1>9, <1>11, <1>13, <2>1, <2>2, <2>4
<1> QED BY <1>12, <1>13

\* The gateway's own steps: the transfer changes, and nothing else.
LEMMA TransferMoves ==
    ASSUME Dealt, NEW D \in SUBSET Callers, \A c \in D : calls[c].stage = "idle", NEW w \in Withdrawals,
           NEW state \in {"open", "sent", "failed", "reversed"},
           transfer' = [transfer EXCEPT ![w].state = state], calls' = calls,
           UNCHANGED <<releaseActive, account, withdrawal, mishaps>>,
           \/ transfer[w].state \in {"asked", "open"}
           \/ transfer[w].state = "sent" /\ state = "reversed"
    PROVE  Moves(D, w) /\ StaffPayoutTypeOK' /\ PayoutCalls'
<1>1. PICK t : t = [transfer[w] EXCEPT !.state = state]
  OBVIOUS
<1>2. t \in Transfers /\ t.state = state
  BY <1>1 DEF Transfers, Dealt, PayoutTyped, StaffPayoutTypeOK
<1>3. transfer' \in [Withdrawals -> Transfers] /\ transfer'[w] = t /\ \A v \in Withdrawals \ {w} : transfer'[v] = transfer[v]
  BY <1>1, <1>2 DEF Dealt, PayoutTyped, StaffPayoutTypeOK
<1>4. \A d \in Callers : At(d, "pay") => calls[d].on # w
  BY AtFirst
<1>5. TransferLater(transfer[w], t) /\ RowSound(withdrawal[w], t)
  BY <1>2 DEF TransferLater, RowSound, Dealt, RowsSound
<1>6. Calm' => Calm /\ (transfer[w].state \in {"asked", "open"})
  BY <1>2, <1>3, <1>5 DEF Calm, TransferLater
<1>7. Calm' => CalmRow(withdrawal[w], t)
  BY <1>6 DEF Dealt, FailedUnsent, CalmRow, Unsent
<1>8. \A c \in D : calls'[c].stage = "idle"
  OBVIOUS
<1>9. \A c \in D : calls'[c].stage \notin AtWithdrawal /\ calls'[c].stage # "pay" /\ calls'[c].stage # "fail"
  BY <1>8, OtherCallsTyped, StagesAtWithdrawal
<1>10. Moves(D, w)
  BY <1>2, <1>3, <1>4, <1>5, <1>7, <1>9 DEF Moves, CalmCall
<1> QED BY <1>3, <1>10 DEF StaffPayoutTypeOK, Dealt, PayoutTyped, PayoutCalls

LEMMA ApproveMoves ==
    ASSUME Dealt, NEW c \in Callers, Ready(c), NEW w \in Withdrawals, ApproveTransfer(c, w)
    PROVE  Moves({c}, w) /\ StaffPayoutTypeOK' /\ PayoutCall(calls'[c]) /\ UNCHANGED withdrawal
<1>1. PICK state \in {"open", "failed"} : transfer' = [transfer EXCEPT ![w].state = state]
  BY DEF ApproveTransfer
<1>2. /\ transfer[w].state = "asked" /\ calls' = calls /\ calls[c].stage = "idle"
      /\ UNCHANGED <<releaseActive, account, withdrawal, mishaps>>
  BY DEF ApproveTransfer, Once, Ready, At
<1>3. {c} \in SUBSET Callers /\ \A d \in {c} : calls[d].stage = "idle"
  BY <1>2
<1>4. Moves({c}, w) /\ StaffPayoutTypeOK' /\ PayoutCalls'
  BY <1>1, <1>2, <1>3, TransferMoves
<1> QED BY <1>2, <1>4 DEF PayoutCalls

LEMMA SettleMoves ==
    ASSUME Dealt, NEW w \in Withdrawals, NEW state, Settle(w, state)
    PROVE  Moves({}, w) /\ StaffPayoutTypeOK' /\ PayoutCalls' /\ UNCHANGED <<handlers, payroll, withdrawal, mishaps>>
<1>0. \A x \in DOMAIN Becomes : \/ x = "open" /\ Becomes[x] = {"sent", "failed"}
                                \/ x = "sent" /\ Becomes[x] = {"reversed"}
  BY DEF Becomes
<1>1. PICK x : x = transfer[w].state /\ x \in DOMAIN Becomes /\ state \in Becomes[x]
  BY DEF Settle
<1>2. /\ \/ transfer[w].state = "open" /\ state \in {"sent", "failed"}
         \/ transfer[w].state = "sent" /\ state = "reversed"
      /\ transfer' = [transfer EXCEPT ![w].state = state] /\ calls' = calls
      /\ UNCHANGED <<releaseActive, account, withdrawal, mishaps>>
  BY <1>0, <1>1 DEF Settle, handlers
<1>3. PICK D \in SUBSET Callers : D = {}
  OBVIOUS
<1>4. Moves(D, w) /\ StaffPayoutTypeOK' /\ PayoutCalls'
  BY <1>2, <1>3, TransferMoves
<1> QED BY <1>3, <1>4 DEF Settle

\* What an outcome tells is true.
LEMMA OutcomeIsTrue ==
    ASSUME NEW t, NEW outcome, outcome = TransferOutcome(t.state), outcome # "nothing"
    PROVE  \/ outcome = "complete" /\ t.state = "sent"
           \/ outcome = "fail" /\ t.state \in {"failed", "reversed"}
BY DEF TransferOutcome

LEMMA ToldMoves ==
    ASSUME Dealt, NEW c \in Callers, NEW w \in Withdrawals, UNCHANGED <<withdrawal, transfer, mishaps>>,
           \A d \in Callers \ {c} : calls'[d] = calls[d] /\ (At(d, "pay") => calls[d].on # w),
           withdrawal[w].status # "none", calls'[c].on = w,
           \/ calls'[c].stage = "complete" /\ transfer[w].state = "sent"
           \/ calls'[c].stage = "fail" /\ transfer[w].state \in {"failed", "reversed"}
           \/ calls'[c].stage = "resync"
    PROVE  Moves({c}, w) /\ PayoutCall(calls'[c])
<1>1. PayoutCall(calls'[c])
  BY DEF PayoutCall, AtWithdrawal
<1>2. InStep(calls'[c], withdrawal[w], transfer[w])
  BY DEF InStep
<1>3. Calm' => CalmCall(calls'[c], transfer[calls'[c].on])
  BY DEF Calm, CalmCall, Unsent
<1> QED BY <1>1, <1>2, <1>3, GoesOn

LEMMA WebhookMoves ==
    ASSUME Dealt, NEW c \in Callers, NEW w \in Withdrawals, Webhook(c, w) \/ ResyncWithdrawal(c, w)
    PROVE  Moves({c}, w) /\ StaffPayoutTypeOK' /\ PayoutCall(calls'[c]) /\ UNCHANGED <<withdrawal, mishaps>>
<1>1. UNCHANGED <<releaseActive, account, withdrawal, transfer, mishaps>>
  BY DEF Webhook, ResyncWithdrawal, staffPayout
<1>2. PICK outcome : outcome = TransferOutcome(transfer[w].state)
  OBVIOUS
<1>3. \/ outcome # "nothing" /\ Begin(c, "gateway", outcome, w, 0)
      \/ withdrawal[w].coded /\ withdrawal[w].status = "PROCESSING" /\ Begin(c, "gateway", "resync", w, 0)
  BY <1>2 DEF Webhook, ResyncWithdrawal
<1>4. /\ \A d \in Callers \ {c} : calls'[d] = calls[d]
      /\ calls'[c].on = w
      /\ calls'[c].stage = IF outcome # "nothing" /\ Begin(c, "gateway", outcome, w, 0) THEN outcome ELSE "resync"
  BY <1>3, Begun DEF Begin, Dealt, PayoutTyped, Shape
<1>5. \/ calls'[c].stage = "complete" /\ transfer[w].state = "sent"
      \/ calls'[c].stage = "fail" /\ transfer[w].state \in {"failed", "reversed"}
      \/ calls'[c].stage = "resync" /\ withdrawal[w].coded /\ withdrawal[w].status = "PROCESSING"
  BY <1>2, <1>3, <1>4, OutcomeIsTrue
<1>6. withdrawal[w].status # "none" /\ \A d \in Callers : At(d, "pay") => calls[d].on # w
  BY <1>5, AtFirst DEF Dealt, RowsSound, RowSound
<1>7. Moves({c}, w) /\ PayoutCall(calls'[c])
  BY <1>1, <1>4, <1>5, <1>6, ToldMoves
<1> QED BY <1>1, <1>7 DEF StaffPayoutTypeOK, Dealt, PayoutTyped

LEMMA AskMoves ==
    ASSUME Dealt, NEW c \in Callers, AskGateway(c)
    PROVE  Moves({c}, calls[c].on) /\ StaffPayoutTypeOK' /\ PayoutCall(calls'[c]) /\ UNCHANGED <<withdrawal, mishaps>>
<1>1. At(c, "resync") /\ calls[c].stage \in AtWithdrawal
  BY StagesAtWithdrawal DEF AskGateway, At
<1>2. PICK w \in Withdrawals : w = calls[c].on
  BY <1>1, AtRequest
<1>3. /\ InStep(calls[c], withdrawal[w], transfer[w])
      /\ \A d \in Callers \ {c} : At(d, "pay") => calls[d].on # w
  BY <1>1, <1>2, AtRequest
<1>4. PICK outcome : outcome = TransferOutcome(transfer[w].state)
  OBVIOUS
<1>5. UNCHANGED <<releaseActive, account, withdrawal, transfer, mishaps>>
  BY DEF AskGateway, staffPayout
<1>6. Return(c) \/ (outcome # "nothing" /\ Goto(c, outcome, 0))
  BY <1>2, <1>4 DEF AskGateway
<1>7. \A d \in Callers \ {c} : calls'[d] = calls[d]
  BY <1>6 DEF Goto, Return, Continue, Dealt, PayoutTyped, Shape
<1>8. CASE Return(c)
  <2>1. calls'[c].stage = "idle"
    BY <1>8 DEF Return, Continue, Idle, Dealt, PayoutTyped, Shape
  <2>2. calls'[c].stage \notin AtWithdrawal /\ calls'[c].stage # "pay" /\ calls'[c].stage # "fail" /\ PayoutCall(calls'[c])
    BY <2>1, OtherCallsTyped, StagesAtWithdrawal
  <2>3. Moves({c}, w)
    BY <1>3, <1>5, <1>7, <2>2, GoesOn DEF CalmCall
  <2> QED BY <1>2, <1>5, <2>2, <2>3 DEF StaffPayoutTypeOK, Dealt, PayoutTyped
<1>9. CASE outcome # "nothing" /\ Goto(c, outcome, 0)
  <2>1. calls'[c].stage = outcome /\ calls'[c].on = w
    BY <1>2, <1>9, Gone DEF Dealt, PayoutTyped
  <2>2. \/ calls'[c].stage = "complete" /\ transfer[w].state = "sent"
        \/ calls'[c].stage = "fail" /\ transfer[w].state \in {"failed", "reversed"}
    BY <1>4, <1>9, <2>1, OutcomeIsTrue
  <2>3. withdrawal[w].status # "none"
    BY <1>1, <1>3 DEF InStep
  <2>4. Moves({c}, w) /\ PayoutCall(calls'[c])
    BY <1>3, <1>5, <1>7, <2>1, <2>2, <2>3, ToldMoves
  <2> QED BY <1>2, <1>5, <2>4 DEF StaffPayoutTypeOK, Dealt, PayoutTyped
<1> QED BY <1>6, <1>8, <1>9

-----------------------------------------------------------------------------
(* Sums.                                                                   *)

\* The units of x from the m-th on, k of them.
More(x, m, k) == {x} \X ((m + 1)..(m + k))

\* They are k elements more for a set that holds the units of x up to the m-th.
LEMMA MoreUnits ==
    ASSUME NEW U, IsFiniteSet(U), NEW x, NEW m \in Nat, NEW k \in Nat,
           \A n \in Int : <<x, n>> \in U => n <= m
    PROVE  /\ IsFiniteSet(U \cup More(x, m, k))
           /\ Cardinality(U \cup More(x, m, k)) = Cardinality(U) + k
<1>1. IsFiniteSet((m + 1)..(m + k)) /\ Cardinality((m + 1)..(m + k)) = k
  BY FS_Interval
<1>2. /\ IsFiniteSet(More(x, m, k))
      /\ Cardinality(More(x, m, k)) = Cardinality({x}) * Cardinality((m + 1)..(m + k))
  BY <1>1, FS_Singleton, FS_Product DEF More
<1>3. Cardinality(More(x, m, k)) = k
  <2>1. Cardinality({x}) = 1
    BY FS_Singleton
  <2> QED BY <1>1, <1>2, <2>1
<1>4. U \cap More(x, m, k) = {}
  <2> SUFFICES ASSUME NEW t \in U, t \in More(x, m, k) PROVE FALSE
    OBVIOUS
  <2>1. PICK n \in (m + 1)..(m + k) : t = <<x, n>>
    BY DEF More
  <2> QED BY <2>1
<1>5. /\ IsFiniteSet(U \cup More(x, m, k))
      /\ Cardinality(U \cup More(x, m, k)) = Cardinality(U) + k - Cardinality({})
  BY <1>2, <1>3, <1>4, FS_Union
<1>6. Cardinality(U) \in Nat /\ Cardinality({}) = 0
  BY FS_CardinalityType, FS_EmptySet
<1> QED BY <1>5, <1>6

\* The sum over one more summand.
LEMMA SumExtends ==
    ASSUME NEW S, NEW D, NEW w \in [D -> Nat], IsFiniteSet(Units(S, w)), NEW x \in D, x \notin S
    PROVE  IsFiniteSet(Units(S \cup {x}, w)) /\ SumOver(S \cup {x}, w) = SumOver(S, w) + w[x]
<1>1. PICK none \in Nat : none = 0
  OBVIOUS
<1>2. w[x] \in Nat /\ \A n \in Int : <<x, n>> \in Units(S, w) => n <= none
  BY DEF Units
<1>3. Units(S \cup {x}, w) = Units(S, w) \cup More(x, none, w[x])
  BY <1>1 DEF Units, More
<1>4. /\ IsFiniteSet(Units(S, w) \cup More(x, none, w[x]))
      /\ Cardinality(Units(S, w) \cup More(x, none, w[x])) = Cardinality(Units(S, w)) + w[x]
  BY <1>2, MoreUnits
<1> QED BY <1>3, <1>4 DEF SumOver

\* The sum over one summand less.
LEMMA SumShrinks ==
    ASSUME NEW S, NEW D, NEW w \in [D -> Nat], IsFiniteSet(Units(S, w)), NEW x \in D, x \in S
    PROVE  IsFiniteSet(Units(S \ {x}, w)) /\ SumOver(S, w) = SumOver(S \ {x}, w) + w[x]
<1>1. Units(S \ {x}, w) \subseteq Units(S, w) /\ (S \ {x}) \cup {x} = S
  BY DEF Units
<1>2. IsFiniteSet(Units(S \ {x}, w))
  BY <1>1, FS_Subset
<1>3. PICK T : T = S \ {x}
  OBVIOUS
<1>4. SumOver(T \cup {x}, w) = SumOver(T, w) + w[x]
  BY <1>2, <1>3, SumExtends
<1> QED BY <1>1, <1>2, <1>3, <1>4

\* Only the summands count.
LEMMA SumAgrees ==
    ASSUME NEW S, NEW v, NEW w, \A x \in S : v[x] = w[x]
    PROVE  Units(S, v) = Units(S, w) /\ SumOver(S, v) = SumOver(S, w)
BY DEF Units, SumOver

-----------------------------------------------------------------------------
(* The wallets.                                                            *)

WalletShape == wallet = [s \in Staff |-> [balance |-> wallet[s].balance, entries |-> wallet[s].entries]]

\* References are never taken back.
LEMMA PostKeeps ==
    ASSUME WalletShape, NEW s, NEW ref, NEW amount, Post(s, ref, amount)
    PROVE  WalletShape' /\ \A x \in Staff : References(x) \subseteq References(x)'
<1>1. CASE ref \in References(s)
  BY <1>1 DEF Post, WalletShape, References
<1>2. CASE ref \notin References(s)
  <2>1. PICK row : row = [balance |-> wallet[s].balance + amount,
                          entries |-> wallet[s].entries \cup {[ref |-> ref, amount |-> amount]}]
    OBVIOUS
  <2>2. row = [balance |-> row.balance, entries |-> row.entries] /\ wallet[s].entries \subseteq row.entries
    BY <2>1
  <2>3. wallet' = [wallet EXCEPT ![s] = row]
    BY <1>2, <2>1 DEF Post
  <2>4. \A x \in Staff : wallet'[x] = IF x = s THEN row ELSE wallet[x]
    BY <2>3 DEF WalletShape
  <2>5. \A x \in Staff : wallet'[x] = [balance |-> wallet'[x].balance, entries |-> wallet'[x].entries]
    <3> TAKE x \in Staff
    <3>1. wallet[x] = [balance |-> wallet[x].balance, entries |-> wallet[x].entries]
      BY DEF WalletShape
    <3> QED BY <2>2, <2>4, <3>1
  <2>6. wallet' = [x \in Staff |-> wallet'[x]]
    BY <2>3 DEF WalletShape
  <2>7. WalletShape'
    BY <2>5, <2>6 DEF WalletShape
  <2>8. \A x \in Staff : wallet[x].entries \subseteq wallet'[x].entries
    BY <2>2, <2>4
  <2> QED BY <2>7, <2>8 DEF References
<1> QED BY <1>1, <1>2

\* What a posting that is not refused does.
LEMMA PostAdds ==
    ASSUME WalletShape, NEW s \in Staff, NEW ref, NEW amount, Post(s, ref, amount), ref \notin References(s)
    PROVE  /\ wallet'[s].balance = wallet[s].balance + amount
           /\ wallet'[s].entries = wallet[s].entries \cup {[ref |-> ref, amount |-> amount]}
           /\ ref \in References(s)'
           /\ \A x \in Staff \ {s} : wallet'[x] = wallet[x]
<1>1. PICK entry : entry = [ref |-> ref, amount |-> amount]
  OBVIOUS
<1>2. PICK row : row = [balance |-> wallet[s].balance + amount, entries |-> wallet[s].entries \cup {entry}]
  OBVIOUS
<1>3. wallet' = [wallet EXCEPT ![s] = row]
  BY <1>1, <1>2 DEF Post
<1>4. wallet'[s] = row /\ \A x \in Staff \ {s} : wallet'[x] = wallet[x]
  BY <1>3 DEF WalletShape
<1>5. row.balance = wallet[s].balance + amount /\ row.entries = wallet[s].entries \cup {entry} /\ entry.ref = ref
  BY <1>1, <1>2
<1>6. entry \in wallet'[s].entries
  BY <1>4, <1>5
<1> QED BY <1>1, <1>4, <1>5, <1>6 DEF References

\* The payroll moves wallets by postings only.
LEMMA PayrollPosts ==
    ASSUME NEW c \in Callers, PayrollNext(c)
    PROVE  wallet' = wallet \/ \E s, ref, amount : Post(s, ref, amount)
<1>1. CASE Busy(c) /\ PayrollStep(c)
  <2>1. CASE \E s \in Staff : CreditPay(c, s)
    BY <2>1 DEF CreditPay
  <2>2. CASE PostDifference(c)
    BY <2>2 DEF PostDifference
  <2>3. CASE \E s \in Staff : ComputeFigures(c, s) \/ ApproveDraft(c, s)
    BY <2>3 DEF ComputeFigures, ApproveDraft, payroll
  <2>4. CASE WriteSlip(c) \/ FinishGeneration(c) \/ WriteRecalculated(c) \/ CountCorrections(c)
    BY <2>4 DEF WriteSlip, FinishGeneration, WriteRecalculated, CountCorrections, payroll
  <2>5. CASE ReleasePeriod(c) \/ PublishPayslips(c) \/ WriteSentBack(c) \/ SupersedePayslip(c)
    BY <2>5 DEF ReleasePeriod, PublishPayslips, WriteSentBack, SupersedePayslip
  <2>6. CASE WriteAdjustmentRemoved(c) \/ \E y \in Adjustable : WriteAdjustmentCorrected(c, y)
    BY <2>6 DEF WriteAdjustmentRemoved, WriteAdjustmentCorrected
  <2> QED BY <1>1, <2>1, <2>2, <2>3, <2>4, <2>5, <2>6 DEF PayrollStep
<1>2. CASE Ready(c) /\ PayrollRequest(c)
  BY <1>2 DEF PayrollRequest, AdjustmentRequest, GeneratePayroll, ApprovePeriod, RequestCorrection, RecalculatePayslip,
              CorrectPayslip, RemoveAdjustment, CreateAdjustment, CorrectAdjustment, payroll
<1> QED BY <1>1, <1>2 DEF PayrollNext

-----------------------------------------------------------------------------
(* A behaviour that generates no payroll has none.                         *)

Paying == PayrollStages \ {"remove_adjustment"}

NoPayday == "generate" \notin scenario => period = "DRAFT" /\ \A c \in Callers : calls[c].stage \notin Paying

LEMMA PayingIs ==
    "figures" \in Paying /\ "write_slip" \in Paying /\ "credit" \in Paying /\ "generated" \in Paying /\
    "recalculate" \in Paying /\ "count" \in Paying /\ "post" \in Paying /\ "approve_drafts" \in Paying /\
    "publish" \in Paying /\ "send_back" \in Paying /\ "supersede" \in Paying /\ "correct_adjustment" \in Paying /\
    "idle" \notin Paying /\ "remove_adjustment" \notin Paying
BY DEF Paying, PayrollStages

LEMMA NotPaying ==
    ASSUME NEW call, call.stage \in AttendanceStages \cup StaffPayoutStages \cup {"idle"}
    PROVE  call.stage \notin Paying
BY DEF Paying, PayrollStages, AttendanceStages, StaffPayoutStages, BeforeDebit

LEMMA NoPaydayComes ==
    ASSUME Shape, NoPayday, "generate" \notin scenario, NEW c \in Callers, PayrollNext(c)
    PROVE  UNCHANGED <<period, wallet, scenario>> /\ calls'[c].stage \notin Paying
<1>1. period = "DRAFT" /\ calls[c].stage \notin Paying
  BY DEF NoPayday
<1>2. CASE Busy(c) /\ PayrollStep(c)
  <2>1. WriteAdjustmentRemoved(c)
    BY <1>1, <1>2, PayingIs
       DEF PayrollStep, At, ComputeFigures, CreditPay, ApproveDraft, WriteSlip, FinishGeneration,
           WriteRecalculated, CountCorrections, PostDifference, ReleasePeriod, PublishPayslips,
           WriteSentBack, SupersedePayslip, WriteAdjustmentCorrected
  <2>2. calls'[c].stage = "idle" /\ UNCHANGED <<period, wallet, scenario>>
    BY <2>1 DEF WriteAdjustmentRemoved, Return, Continue, Idle, Shape
  <2> QED BY <2>2, PayingIs
<1>3. CASE Ready(c) /\ PayrollRequest(c)
  <2>1. CASE \E x \in Adjustable : RemoveAdjustment(c, x)
    <3>1. PICK x \in Adjustable : RemoveAdjustment(c, x)
      BY <2>1
    <3>2. calls'[c].stage = "remove_adjustment" /\ UNCHANGED <<period, wallet, scenario>>
      BY <3>1, Begun DEF RemoveAdjustment, payroll, Begin
    <3> QED BY <3>2, PayingIs
  <2>2. CASE \E x \in Adjustable, amount \in Amounts : CreateAdjustment(c, x, amount)
    BY <1>1, <2>2 DEF CreateAdjustment, Once
  <2> QED BY <1>1, <1>3, <2>1, <2>2
          DEF PayrollRequest, AdjustmentRequest, GeneratePayroll, ApprovePeriod, RequestCorrection, RecalculatePayslip, Recalculable,
              CorrectPayslip, CorrectAdjustment, Begin
<1> QED BY <1>2, <1>3 DEF PayrollNext

-----------------------------------------------------------------------------
(* Withdrawals are covered.                                                *)

AskedFor == [w \in Withdrawals |-> withdrawal[w].amount]

LEMMA ReservedSums ==
    ASSUME NEW s
    PROVE  Reserved(s) = SumOver(Asking(s), AskedFor)
BY DEF Reserved, AskedFor

WholeBalances == "generate" \notin scenario => \A s \in Staff : wallet[s].balance \in Int

\* As long as no completion passed its check beside another of the same member.
InTurn == "generate" \notin scenario /\ "raced" \notin mishaps

NotNegative == InTurn => \A s \in Staff : wallet[s].balance >= 0

\* Who is about to debit a wallet is the only one of that member, or at the same request, and is covered.
DebitCovered(w) ==
    \/ Reference("WITHDRAWAL", w) \in References(withdrawal[w].staff)
    \/ withdrawal[w].amount <= wallet[withdrawal[w].staff].balance

DebitsInTurn ==
    \A c, d \in Callers :
        At(c, "debit") /\ At(d, "debit") /\ withdrawal[calls[c].on].staff = withdrawal[calls[d].on].staff =>
            calls[c].on = calls[d].on

DebitsCovered == InTurn => DebitsInTurn /\ \A c \in Callers : At(c, "debit") => DebitCovered(calls[c].on)

ReservesFit ==
    "generate" \notin scenario /\ Calm =>
        \A s \in Staff : IsFiniteSet(Units(Asking(s), AskedFor)) /\ Reserved(s) <= wallet[s].balance

Funds == WholeBalances /\ NotNegative /\ DebitsCovered /\ ReservesFit /\ CompletedWasSent

CoverInv == Dealt /\ WalletShape /\ NoPayday /\ Funds

LEMMA AskedForIsNat == StaffPayoutTypeOK => AskedFor \in [Withdrawals -> Nat]
<1> SUFFICES ASSUME StaffPayoutTypeOK, NEW w \in Withdrawals PROVE withdrawal[w].amount \in Nat
  BY DEF AskedFor
<1>1. withdrawal[w].amount \in {0} \cup Amounts
  BY DEF StaffPayoutTypeOK, WithdrawalRows
<1>2. withdrawal[w].amount = 0 \/ withdrawal[w].amount \in Amounts
  BY <1>1
<1>3. \A amount \in Amounts : amount \in Nat
  BY PayrollAssumption
<1> QED BY <1>2, <1>3

\* No handler comes to the debit.
NoNewDebit == \A c \in Callers : calls'[c] = calls[c] \/ calls'[c].stage # "debit"

\* Handlers at the debit keep their turn while wallets and requests stay.
LEMMA DebitsStay ==
    ASSUME Dealt, DebitsCovered, NoNewDebit, scenario' = scenario, mishaps \subseteq mishaps', wallet' = wallet,
           \A w \in Withdrawals : withdrawal[w].status # "none" =>
                withdrawal'[w].staff = withdrawal[w].staff /\ withdrawal'[w].amount = withdrawal[w].amount
    PROVE  DebitsCovered'
<1> SUFFICES ASSUME InTurn'
             PROVE  /\ \A c \in Callers : calls'[c].stage = "debit" => DebitCovered(calls[c].on)' /\ calls'[c] = calls[c]
                    /\ \A c, d \in Callers :
                          calls'[c].stage = "debit" /\ calls'[d].stage = "debit"
                          /\ withdrawal'[calls[c].on].staff = withdrawal'[calls[d].on].staff => calls[c].on = calls[d].on
  BY DEF DebitsCovered, DebitsInTurn, At, DebitCovered
<1>1. InTurn
  BY DEF InTurn
<1>2. ASSUME NEW c \in Callers, calls'[c].stage = "debit"
      PROVE  /\ calls'[c] = calls[c] /\ At(c, "debit") /\ calls[c].on \in Withdrawals
             /\ withdrawal'[calls[c].on].staff = withdrawal[calls[c].on].staff
             /\ withdrawal'[calls[c].on].amount = withdrawal[calls[c].on].amount
  <2>1. calls'[c] = calls[c] /\ calls[c].stage \in AtWithdrawal
    BY <1>2, StagesAtWithdrawal DEF NoNewDebit
  <2>2. calls[c].on \in Withdrawals /\ withdrawal[calls[c].on].status # "none"
    BY <2>1, AtRequest DEF InStep
  <2> QED BY <1>2, <2>1, <2>2 DEF At
<1>3. ASSUME NEW c \in Callers, calls'[c].stage = "debit" PROVE DebitCovered(calls[c].on)'
  <2>1. DebitCovered(calls[c].on)
    BY <1>1, <1>2, <1>3 DEF DebitsCovered
  <2> QED BY <1>2, <1>3, <2>1 DEF DebitCovered, References
<1> QED BY <1>1, <1>2, <1>3 DEF DebitsCovered, DebitsInTurn

\* A step that leaves wallets and requests alone, or requests as far as these count.
LEMMA FundsStay ==
    ASSUME Dealt, Funds, NoNewDebit, scenario' = scenario, wallet' = wallet,
           \A w \in Withdrawals :
              /\ withdrawal'[w].status = withdrawal[w].status \/ withdrawal'[w].status \notin {"PROCESSING", "COMPLETED"}
              /\ withdrawal[w].status # "none" =>
                    withdrawal'[w].staff = withdrawal[w].staff /\ withdrawal'[w].amount = withdrawal[w].amount
              /\ withdrawal[w].status = "none" => withdrawal'[w] = withdrawal[w]
              /\ TransferLater(transfer[w], transfer'[w]),
           mishaps \subseteq mishaps', AskedFor \in [Withdrawals -> Nat]
    PROVE  Funds'
<1>1. WholeBalances' /\ NotNegative' /\ DebitsCovered'
  BY DebitsStay DEF Funds, WholeBalances, NotNegative, InTurn
<1>2. CompletedWasSent'
  BY DEF Funds, CompletedWasSent, TransferLater, References
<1>3. ASSUME "generate" \notin scenario, Calm', NEW s \in Staff
      PROVE  IsFiniteSet(Units(Asking(s)', AskedFor')) /\ Reserved(s)' <= wallet'[s].balance
  <2>1. Calm
    BY <1>3 DEF Calm, TransferLater
  <2>2. IsFiniteSet(Units(Asking(s), AskedFor)) /\ SumOver(Asking(s), AskedFor) <= wallet[s].balance
    BY <1>3, <2>1, ReservedSums DEF Funds, ReservesFit
  <2>3. Asking(s)' \subseteq Asking(s) /\ \A w \in Asking(s)' : AskedFor'[w] = AskedFor[w]
    BY DEF Asking, AskedFor
  <2>4. Units(Asking(s)', AskedFor') = Units(Asking(s)', AskedFor)
    BY <2>3, SumAgrees
  <2>5. Units(Asking(s)', AskedFor) \subseteq Units(Asking(s), AskedFor)
    BY <2>3 DEF Units
  <2>6. /\ IsFiniteSet(Units(Asking(s)', AskedFor))
        /\ Cardinality(Units(Asking(s)', AskedFor)) <= Cardinality(Units(Asking(s), AskedFor))
    BY <2>2, <2>5, FS_Subset
  <2>7. Cardinality(Units(Asking(s)', AskedFor)) \in Nat /\ Cardinality(Units(Asking(s), AskedFor)) \in Nat
    BY <2>2, <2>6, FS_CardinalityType
  <2>8. Reserved(s)' = Cardinality(Units(Asking(s)', AskedFor'))
    BY DEF Reserved, AskedFor, SumOver
  <2>9. wallet[s].balance \in Int
    BY <1>3 DEF Funds, WholeBalances
  <2>10. SumOver(Asking(s), AskedFor) = Cardinality(Units(Asking(s), AskedFor)) /\ wallet'[s].balance = wallet[s].balance
    BY DEF SumOver
  <2> QED BY <2>2, <2>4, <2>6, <2>7, <2>8, <2>9, <2>10
<1>4. ReservesFit'
  BY <1>3 DEF ReservesFit
<1> QED BY <1>1, <1>2, <1>4 DEF Funds

LEMMA FundsReserve ==
    ASSUME Dealt, WalletShape, Funds, NEW c \in Callers, NEW w \in Withdrawals, Reserve(c, w), StaffPayoutTypeOK'
    PROVE  Funds'
<1>1. PICK s, r : s = calls[c].on /\ r = calls[c].saw
  OBVIOUS
<1>2. s \in Staff /\ r.amount \in Amounts /\ r.amount \in Nat
  BY <1>1, PayrollAssumption DEF Reserve, Dealt, PayoutTyped, PayoutCalls, PayoutCall, At
<1>3. withdrawal[w].status = "none" /\ UNCHANGED <<wallet, scenario, transfer, mishaps>>
  BY DEF Reserve, OpenIf, payroll, Return, Continue
<1>4. AskedFor \in [Withdrawals -> Nat] /\ AskedFor' \in [Withdrawals -> Nat]
  <2>1. StaffPayoutTypeOK
    BY DEF Dealt, PayoutTyped
  <2>2. (StaffPayoutTypeOK => AskedFor \in [Withdrawals -> Nat])'
    BY AskedForIsNat, PTL
  <2> QED BY <2>1, <2>2, AskedForIsNat
<1>7. NoNewDebit
  BY StaffPayoutStagesAre, OpensMoves DEF NoNewDebit, Reserve, OpenIf, Return, Continue, Idle, Dealt, PayoutTyped, Shape
<1>5. CASE r.amount <= Available(s)
  <2>1. PICK row : row = [status |-> "PROCESSING", staff |-> s, amount |-> r.amount, coded |-> FALSE]
    OBVIOUS
  <2>2. row.status = "PROCESSING" /\ row.staff = s /\ row.amount = r.amount
    BY <2>1
  <2>3. withdrawal' = [withdrawal EXCEPT ![w] = row]
    BY <1>1, <1>5, <2>1 DEF Reserve, OpenIf
  <2>4. withdrawal'[w] = row /\ \A v \in Withdrawals \ {w} : withdrawal'[v] = withdrawal[v]
    BY <2>3 DEF Dealt, PayoutTyped, StaffPayoutTypeOK
  <2>5. CompletedWasSent'
    BY <1>3, <2>2, <2>4 DEF Funds, CompletedWasSent, References
  <2>6. ASSUME "generate" \notin scenario, Calm', NEW x \in Staff
        PROVE  IsFiniteSet(Units(Asking(x)', AskedFor')) /\ Reserved(x)' <= wallet'[x].balance
    <3>1. Calm
      BY <1>3, <2>6 DEF Calm
    <3>2. IsFiniteSet(Units(Asking(x), AskedFor)) /\ SumOver(Asking(x), AskedFor) <= wallet[x].balance
      BY <2>6, <3>1, ReservedSums DEF Funds, ReservesFit
    <3>3. AskedFor'[w] = r.amount /\ \A v \in Withdrawals \ {w} : AskedFor'[v] = AskedFor[v]
      BY <2>2, <2>4 DEF AskedFor
    <3>4. w \notin Asking(x) /\ Asking(x) \subseteq Withdrawals
      BY <1>3 DEF Asking
    <3>5. /\ Units(Asking(x), AskedFor') = Units(Asking(x), AskedFor)
          /\ SumOver(Asking(x), AskedFor') = SumOver(Asking(x), AskedFor)
      BY <3>3, <3>4, SumAgrees
    <3>6. Reserved(x)' = SumOver(Asking(x)', AskedFor')
      BY DEF Reserved, AskedFor
    <3>7. CASE x = s
      <4>1. Asking(x)' = Asking(x) \cup {w}
        BY <1>3, <2>2, <2>4, <3>7 DEF Asking
      <4>2. PICK v \in [Withdrawals -> Nat] : v = AskedFor'
        BY <1>4
      <4>3. IsFiniteSet(Units(Asking(x), v))
        BY <3>2, <3>5, <4>2
      <4>4. IsFiniteSet(Units(Asking(x) \cup {w}, v)) /\ SumOver(Asking(x) \cup {w}, v) = SumOver(Asking(x), v) + v[w]
        BY <3>4, <4>3, SumExtends
      <4>5. SumOver(Asking(x), AskedFor) \in Nat /\ wallet[x].balance \in Int
        BY <2>6, <3>2, FS_CardinalityType DEF SumOver, Funds, WholeBalances
      <4>6. r.amount <= wallet[x].balance - SumOver(Asking(x), AskedFor)
        BY <1>5, <3>7, ReservedSums DEF Available
      <4>7. SumOver(Asking(x), AskedFor) + r.amount <= wallet[x].balance
        BY <1>2, <4>5, <4>6
      <4>8. Reserved(x)' = SumOver(Asking(x), AskedFor) + r.amount
        BY <3>3, <3>5, <3>6, <4>1, <4>2, <4>4
      <4> QED BY <1>3, <4>1, <4>2, <4>4, <4>7, <4>8
    <3>8. CASE x # s
      <4>1. Asking(x)' = Asking(x)
        BY <1>3, <2>2, <2>4, <3>8 DEF Asking
      <4> QED BY <1>3, <3>2, <3>5, <3>6, <4>1
    <3> QED BY <3>7, <3>8
  <2>7. DebitsCovered'
    <3>1. \A v \in Withdrawals : withdrawal[v].status # "none" => withdrawal'[v] = withdrawal[v]
      BY <1>3, <2>4
    <3> QED BY <1>3, <1>7, <3>1, DebitsStay DEF Funds
  <2> QED BY <1>3, <2>5, <2>6, <2>7 DEF Funds, WholeBalances, NotNegative, InTurn, ReservesFit
<1>6. CASE ~ (r.amount <= Available(s))
  <2>1. withdrawal' = withdrawal
    BY <1>1, <1>6 DEF Reserve, OpenIf
  <2> QED BY <1>3, <1>4, <1>7, <2>1, Stays, FundsStay
<1> QED BY <1>5, <1>6

\* A covered completion takes its turn, unless another of the same member has passed its check.
LEMMA FundsComplete ==
    ASSUME Dealt, WalletShape, Funds, NEW c \in Callers, CompleteTransfer(c)
    PROVE  Funds' /\ WalletShape'
<1>1. /\ UNCHANGED <<withdrawal, transfer, payroll, scenario>> /\ mishaps \subseteq mishaps'
      /\ \A d \in Callers \ {c} : calls'[d] = calls[d]
  BY CompleteMoves
<1>2. AskedFor \in [Withdrawals -> Nat]
  BY AskedForIsNat DEF Dealt, PayoutTyped
<1>3. CASE calls'[c].stage = "idle"
  <2>1. NoNewDebit
    BY <1>1, <1>3 DEF NoNewDebit
  <2> QED BY <1>1, <1>2, <2>1, Stays, FundsStay DEF WalletShape, payroll
<1>4. ASSUME NEW w \in Withdrawals, calls'[c].stage = "debit", calls'[c].on = w,
             ~ (wallet[withdrawal[w].staff].balance < withdrawal[w].amount),
             Races(c, w) => "raced" \in mishaps'
      PROVE  Funds' /\ WalletShape'
  <2>1. DebitsCovered'
    <3> SUFFICES ASSUME InTurn' PROVE DebitsInTurn' /\ \A d \in Callers : At(d, "debit")' => DebitCovered(calls'[d].on)
      BY <1>1 DEF DebitsCovered, DebitCovered, References, payroll
    <3>1. InTurn /\ ~ Races(c, w)
      BY <1>1, <1>4 DEF InTurn
    <3>2. \A d \in Callers \ {c} : At(d, "debit") /\ withdrawal[calls[d].on].staff = withdrawal[w].staff => calls[d].on = w
      BY <3>1 DEF Races
    <3>3. DebitsInTurn'
      BY <1>1, <1>4, <3>1, <3>2 DEF Funds, DebitsCovered, DebitsInTurn, At
    <3>4. DebitCovered(w)
      <4>1. calls'[c].stage \in AtWithdrawal /\ calls'[c].on = w
        BY <1>4, StagesAtWithdrawal
      <4>2. calls[c].stage \in AtWithdrawal /\ calls[c].on = w
        BY <1>4, StagesAtWithdrawal, Gone DEF CompleteTransfer, At, Goto, Return, Continue, Idle, Dealt, PayoutTyped, Shape
      <4>3. withdrawal[w].status # "none"
        BY <4>2, AtRequest DEF InStep
      <4>4. withdrawal[w].staff \in Staff /\ withdrawal[w].amount \in Amounts
        BY <4>3 DEF Dealt, RowsSound, RowSound
      <4>5. PICK amount \in Nat : amount = withdrawal[w].amount
        BY <4>4, PayrollAssumption
      <4>6. PICK balance \in Int : balance = wallet[withdrawal[w].staff].balance
        BY <3>1, <4>4 DEF InTurn, Funds, WholeBalances
      <4>7. amount <= balance
        BY <1>4, <4>5, <4>6
      <4> QED BY <4>5, <4>6, <4>7 DEF DebitCovered
    <3> QED BY <1>1, <1>4, <3>1, <3>3, <3>4 DEF Funds, DebitsCovered, At
  <2>2. WholeBalances' /\ NotNegative'
    BY <1>1 DEF Funds, WholeBalances, NotNegative, InTurn, payroll
  <2>3. CompletedWasSent'
    BY <1>1 DEF Funds, CompletedWasSent, References, payroll
  <2>4. ReservesFit'
    BY <1>1 DEF Funds, ReservesFit, Calm, Reserved, Asking, AskedFor, payroll
  <2> QED BY <1>1, <2>1, <2>2, <2>3, <2>4 DEF Funds, WalletShape, payroll
<1> QED BY <1>3, <1>4, CompleteMoves

LEMMA FundsDebit ==
    ASSUME Dealt, WalletShape, Funds, NEW c \in Callers, DebitWallet(c)
    PROVE  Funds' /\ WalletShape'
<1>1. /\ UNCHANGED <<scenario, transfer, mishaps>> /\ calls'[c].stage = "idle"
      /\ \A d \in Callers \ {c} : calls'[d] = calls[d]
  BY DebitMoves
<1>2. AskedFor \in [Withdrawals -> Nat]
  BY AskedForIsNat DEF Dealt, PayoutTyped
<1>3. CASE UNCHANGED <<wallet, withdrawal>>
  <2>1. NoNewDebit
    BY <1>1 DEF NoNewDebit
  <2> QED BY <1>1, <1>2, <1>3, <2>1, Stays, FundsStay DEF WalletShape
<1>4. ASSUME NEW w \in Withdrawals, NEW row \in WithdrawalRows,
             /\ withdrawal[w].staff \in Staff /\ withdrawal[w].amount \in Amounts
             /\ Calm => withdrawal[w].status \in {"PROCESSING", "COMPLETED"}
             /\ transfer[w].state \in {"sent", "reversed"} /\ At(c, "debit") /\ calls[c].on = w
             /\ Reference("WITHDRAWAL", w) \notin References(withdrawal[w].staff)
             /\ Post(withdrawal[w].staff, Reference("WITHDRAWAL", w), -withdrawal[w].amount)
             /\ row.status = "COMPLETED"
             /\ row.staff = withdrawal[w].staff /\ row.amount = withdrawal[w].amount
             /\ withdrawal' = [withdrawal EXCEPT ![w] = row]
      PROVE  Funds' /\ WalletShape'
  <2>1. PICK s \in Staff : s = withdrawal[w].staff
    BY <1>4
  <2>2. PICK amount \in Nat : amount = withdrawal[w].amount
    BY <1>4, PayrollAssumption
  <2>3. PICK r : r = Reference("WITHDRAWAL", w)
    OBVIOUS
  <2>4. /\ wallet'[s].balance = wallet[s].balance - amount /\ r \in References(s)'
        /\ \A x \in Staff \ {s} : wallet'[x] = wallet[x]
    <3>1. Post(s, r, -amount) /\ r \notin References(s)
      BY <1>4, <2>1, <2>2, <2>3
    <3>2. wallet'[s].balance = wallet[s].balance + (-amount)
      BY <3>1, PostAdds
    <3> QED BY <3>1, <3>2, PostAdds
  <2>5. WalletShape' /\ \A x \in Staff : References(x) \subseteq References(x)'
    BY <1>4, PostKeeps
  <2>6. withdrawal'[w] = row /\ \A v \in Withdrawals \ {w} : withdrawal'[v] = withdrawal[v]
    BY <1>4 DEF Dealt, PayoutTyped, StaffPayoutTypeOK
  <2>7. WholeBalances' /\ NotNegative'
    <3>1. ASSUME "generate" \notin scenario, NEW x \in Staff PROVE wallet'[x].balance \in Int
      <4>1. wallet[x].balance \in Int /\ wallet[s].balance \in Int
        BY <3>1 DEF Funds, WholeBalances
      <4> QED BY <2>4, <4>1
    <3>2. ASSUME InTurn, NEW x \in Staff PROVE wallet'[x].balance >= 0
      <4>1. PICK balance \in Int : balance = wallet[s].balance
        BY <3>2 DEF InTurn, Funds, WholeBalances
      <4>2. amount <= balance
        BY <1>4, <2>1, <2>2, <3>2, <4>1 DEF Funds, DebitsCovered, DebitCovered
      <4>3. wallet'[s].balance = balance - amount /\ balance - amount >= 0
        BY <2>4, <4>1, <4>2
      <4> QED BY <2>4, <3>2, <4>3 DEF Funds, NotNegative
    <3> QED BY <1>1, <3>1, <3>2 DEF WholeBalances, NotNegative, InTurn
  <2>11. DebitsCovered'
    <3> SUFFICES ASSUME InTurn
                 PROVE  /\ \A d \in Callers : calls'[d].stage = "debit" =>
                              /\ d # c /\ calls'[d] = calls[d]
                              /\ \/ Reference("WITHDRAWAL", calls[d].on) \in {t.ref : t \in wallet'[withdrawal'[calls[d].on].staff].entries}
                                 \/ withdrawal'[calls[d].on].amount <= wallet'[withdrawal'[calls[d].on].staff].balance
                        /\ \A v \in Withdrawals : withdrawal'[v].staff = withdrawal[v].staff
                        /\ \A d \in Callers : At(d, "debit") => calls[d].on \in Withdrawals
      BY <1>1 DEF DebitsCovered, DebitsInTurn, InTurn, DebitCovered, References, At, Funds
    <3>1. \A v \in Withdrawals : withdrawal'[v].staff = withdrawal[v].staff /\ withdrawal'[v].amount = withdrawal[v].amount
      BY <1>4, <2>6
    <3>2. ASSUME NEW d \in Callers, calls[d].stage = "debit"
          PROVE  calls[d].on \in Withdrawals /\ withdrawal[calls[d].on].staff \in Staff
      <4>1. calls[d].stage \in AtWithdrawal
        BY <3>2, StagesAtWithdrawal
      <4> QED BY <3>2, <4>1, AtRequest DEF InStep, RowSound
    <3>3. ASSUME NEW d \in Callers, calls'[d].stage = "debit"
          PROVE  /\ d # c /\ calls'[d] = calls[d]
                 /\ \/ Reference("WITHDRAWAL", calls[d].on) \in {t.ref : t \in wallet'[withdrawal'[calls[d].on].staff].entries}
                    \/ withdrawal'[calls[d].on].amount <= wallet'[withdrawal'[calls[d].on].staff].balance
      <4>1. d # c /\ calls'[d] = calls[d] /\ At(d, "debit")
        BY <1>1, <3>3 DEF At
      <4>2. PICK v \in Withdrawals : v = calls[d].on
        BY <3>2, <4>1 DEF At
      <4>3. PICK x \in Staff : x = withdrawal[v].staff
        BY <3>2, <4>1, <4>2 DEF At
      <4>4. CASE x = s
        <5>1. v = w
          BY <1>4, <2>1, <4>1, <4>2, <4>3, <4>4 DEF Funds, DebitsCovered, DebitsInTurn
        <5>2. r \in {t.ref : t \in wallet'[x].entries}
          BY <2>4, <4>4 DEF References
        <5> QED BY <2>3, <3>1, <4>1, <4>2, <4>3, <5>1, <5>2
      <4>5. CASE x # s
        <5>1. DebitCovered(v) /\ wallet'[x] = wallet[x]
          BY <2>4, <4>1, <4>2, <4>5 DEF Funds, DebitsCovered
        <5> QED BY <3>1, <4>1, <4>2, <4>3, <5>1 DEF DebitCovered, References
      <4> QED BY <4>4, <4>5
    <3> QED BY <3>1, <3>2, <3>3 DEF At
  <2>8. CompletedWasSent'
    <3> SUFFICES ASSUME NEW v \in Withdrawals, withdrawal'[v].status = "COMPLETED"
                 PROVE  /\ transfer'[v].state \in {"sent", "reversed"}
                        /\ Reference("WITHDRAWAL", v) \in {t.ref : t \in wallet'[withdrawal'[v].staff].entries}
      BY DEF CompletedWasSent, References
    <3>1. CASE v = w
      <4>1. r \in {t.ref : t \in wallet'[s].entries}
        BY <2>4 DEF References
      <4>2. withdrawal'[v].staff = s
        BY <1>4, <2>1, <2>6, <3>1
      <4> QED BY <1>1, <1>4, <2>3, <3>1, <4>1, <4>2
    <3>2. CASE v # w
      <4>1. withdrawal[v].status = "COMPLETED" /\ withdrawal'[v] = withdrawal[v]
        BY <2>6, <3>2
      <4>2. withdrawal[v].staff \in Staff
        BY <4>1 DEF Dealt, RowsSound, RowSound
      <4>3. /\ transfer[v].state \in {"sent", "reversed"}
            /\ Reference("WITHDRAWAL", v) \in References(withdrawal[v].staff)
        BY <4>1 DEF Funds, CompletedWasSent
      <4>4. PICK x \in Staff : x = withdrawal[v].staff
        BY <4>2
      <4>5. Reference("WITHDRAWAL", v) \in References(x)'
        BY <2>5, <4>3, <4>4
      <4>6. Reference("WITHDRAWAL", v) \in {t.ref : t \in wallet'[x].entries}
        BY <4>5 DEF References
      <4> QED BY <1>1, <4>1, <4>3, <4>4, <4>6
    <3> QED BY <3>1, <3>2
  <2>9. ASSUME "generate" \notin scenario, Calm', NEW x \in Staff
        PROVE  IsFiniteSet(Units(Asking(x)', AskedFor')) /\ Reserved(x)' <= wallet'[x].balance
    <3>1. Calm
      BY <1>1, <2>9 DEF Calm
    <3>2. IsFiniteSet(Units(Asking(x), AskedFor)) /\ SumOver(Asking(x), AskedFor) <= wallet[x].balance
      BY <2>9, <3>1, ReservedSums DEF Funds, ReservesFit
    <3>3. AskedFor' = AskedFor
      <4>1. \A v \in Withdrawals : withdrawal'[v].amount = withdrawal[v].amount
        BY <1>4, <2>6
      <4> QED BY <4>1 DEF AskedFor
    <3>4. Reserved(x)' = SumOver(Asking(x)', AskedFor)
      BY <3>3 DEF Reserved, AskedFor
    <3>5. wallet[x].balance \in Int
      BY <2>9 DEF Funds, WholeBalances
    <3>8. withdrawal[w].status = "PROCESSING"
      BY <1>4, <3>1 DEF Funds, CompletedWasSent
    <3>6. CASE x = s
      <4>1. Asking(x)' = Asking(x) \ {w} /\ w \in Asking(x)
        BY <1>4, <2>1, <2>6, <3>1, <3>6, <3>8 DEF Asking
      <4>2. /\ IsFiniteSet(Units(Asking(x) \ {w}, AskedFor))
            /\ SumOver(Asking(x), AskedFor) = SumOver(Asking(x) \ {w}, AskedFor) + AskedFor[w]
        BY <1>2, <3>2, <4>1, SumShrinks
      <4>3. SumOver(Asking(x) \ {w}, AskedFor) \in Nat
        BY <4>2, FS_CardinalityType DEF SumOver
      <4>4. AskedFor[w] = amount /\ wallet'[x].balance = wallet[x].balance - amount
        BY <2>2, <2>4, <3>6 DEF AskedFor
      <4>5. PICK rest \in Nat : rest = SumOver(Asking(x) \ {w}, AskedFor)
        BY <4>3
      <4>6. rest + amount <= wallet[x].balance
        BY <3>2, <4>2, <4>4, <4>5
      <4>7. rest <= wallet[x].balance - amount
        BY <3>5, <4>6
      <4> QED BY <3>3, <3>4, <4>1, <4>2, <4>4, <4>5, <4>7
    <3>7. CASE x # s
      <4>1. Asking(x)' = Asking(x)
        BY <1>4, <2>1, <2>6, <3>7 DEF Asking
      <4> QED BY <2>4, <3>2, <3>3, <3>4, <3>7, <4>1
    <3> QED BY <3>6, <3>7
  <2>10. ReservesFit'
    BY <1>1, <2>9 DEF ReservesFit
  <2> QED BY <2>5, <2>7, <2>8, <2>10, <2>11 DEF Funds
<1> QED BY <1>3, <1>4, DebitMoves

\* Steps that leave the payroll and the payout alone.
LEMMA CoverElsewhere ==
    ASSUME CoverInv, Shape', UNCHANGED <<payroll, staffPayout, scenario>>,
           \A c \in Callers : calls'[c] = calls[c] \/ calls'[c].stage \in AttendanceStages \cup {"idle"}
    PROVE  CoverInv'
<1>1. PayoutCalls'
  BY OtherCallsTyped DEF CoverInv, Dealt, PayoutTyped, PayoutCalls
<1>2. StaffPayoutTypeOK'
  BY DEF CoverInv, Dealt, PayoutTyped, StaffPayoutTypeOK, staffPayout
<1>3. InSteps' /\ PaysAlone' /\ RowsSound' /\ FailedUnsent'
  BY OtherCallsTyped, DealtApart DEF CoverInv, staffPayout
<1>4. NoPayday'
  BY NotPaying DEF CoverInv, NoPayday, payroll
<1>5. AskedFor \in [Withdrawals -> Nat]
  BY AskedForIsNat DEF CoverInv, Dealt, PayoutTyped
<1>7. NoNewDebit
  BY OtherCallsTyped, StagesAtWithdrawal DEF NoNewDebit
<1>6. Funds' /\ WalletShape'
  BY <1>5, <1>7, Stays, FundsStay DEF CoverInv, payroll, staffPayout, WalletShape
<1> QED BY <1>1, <1>2, <1>3, <1>4, <1>6 DEF CoverInv, Dealt, PayoutTyped

LEMMA CoverPayroll ==
    ASSUME CoverInv, NEW c \in Callers, PayrollNext(c), UNCHANGED staffPayout
    PROVE  CoverInv'
<1>1. /\ Shape' /\ scenario' = scenario /\ \A d \in Callers \ {c} : calls'[d] = calls[d]
      /\ calls'[c] = calls[c] \/ calls'[c].stage \in PayrollStages \cup {"idle"}
  BY PayrollActs DEF CoverInv, Dealt, PayoutTyped, Acts
<1>2. PayoutCalls'
  BY <1>1, OtherCallsTyped DEF CoverInv, Dealt, PayoutTyped, PayoutCalls
<1>3. StaffPayoutTypeOK'
  BY DEF CoverInv, Dealt, PayoutTyped, StaffPayoutTypeOK, staffPayout
<1>4. InSteps' /\ PaysAlone' /\ RowsSound' /\ FailedUnsent'
  BY <1>1, OtherCallsTyped, DealtApart DEF CoverInv, staffPayout
<1>5. WalletShape' /\ \A s \in Staff : References(s) \subseteq References(s)'
  <2>1. CASE wallet' = wallet
    BY <2>1 DEF CoverInv, WalletShape, References
  <2>2. CASE \E s, ref, amount : Post(s, ref, amount)
    BY <2>2, PostKeeps DEF CoverInv
  <2> QED BY <2>1, <2>2, PayrollPosts
<1>6. "generate" \notin scenario => UNCHANGED <<period, wallet>> /\ calls'[c].stage \notin Paying
  BY NoPaydayComes DEF CoverInv, Dealt, PayoutTyped
<1>7. NoPayday'
  BY <1>1, <1>6 DEF CoverInv, NoPayday
<1>8. WholeBalances' /\ NotNegative' /\ DebitsCovered'
  <2>1. NoNewDebit
    BY <1>1, OtherCallsTyped, StagesAtWithdrawal DEF NoNewDebit
  <2>2. CASE "generate" \in scenario
    BY <1>1, <2>2 DEF WholeBalances, NotNegative, DebitsCovered, InTurn
  <2>3. CASE "generate" \notin scenario
    <3>1. wallet' = wallet /\ mishaps' = mishaps /\ withdrawal' = withdrawal
      BY <1>6, <2>3 DEF staffPayout
    <3>2. DebitsCovered'
      BY <1>1, <2>1, <3>1, DebitsStay DEF CoverInv, Funds
    <3> QED BY <1>1, <3>1, <3>2 DEF CoverInv, Funds, WholeBalances, NotNegative, InTurn
  <2> QED BY <2>2, <2>3
<1>9. CompletedWasSent'
  <2> SUFFICES ASSUME NEW w \in Withdrawals, withdrawal[w].status = "COMPLETED"
               PROVE  /\ transfer[w].state \in {"sent", "reversed"}
                      /\ Reference("WITHDRAWAL", w) \in {t.ref : t \in wallet'[withdrawal[w].staff].entries}
    BY DEF CompletedWasSent, staffPayout, References
  <2>1. PICK s \in Staff : s = withdrawal[w].staff
    BY DEF CoverInv, Dealt, RowsSound, RowSound
  <2>2. transfer[w].state \in {"sent", "reversed"} /\ Reference("WITHDRAWAL", w) \in References(s)
    BY <2>1 DEF CoverInv, Funds, CompletedWasSent
  <2>3. Reference("WITHDRAWAL", w) \in References(s)'
    BY <1>5, <2>2
  <2> QED BY <2>1, <2>2, <2>3 DEF References
<1>10. ReservesFit'
  <2> SUFFICES ASSUME "generate" \notin scenario, Calm', NEW s \in Staff
               PROVE  IsFiniteSet(Units(Asking(s)', AskedFor')) /\ Reserved(s)' <= wallet'[s].balance
    BY <1>1 DEF ReservesFit
  <2>1. Asking(s)' = Asking(s) /\ AskedFor' = AskedFor /\ Reserved(s)' = Reserved(s) /\ Calm /\ wallet' = wallet
    BY <1>6 DEF Asking, AskedFor, Reserved, Calm, staffPayout
  <2> QED BY <2>1 DEF CoverInv, Funds, ReservesFit
<1> QED BY <1>1, <1>2, <1>3, <1>4, <1>5, <1>7, <1>8, <1>9, <1>10 DEF CoverInv, Dealt, PayoutTyped, Funds

\* What a move of the withdrawals leaves to be shown.
LEMMA CoverMoves ==
    ASSUME CoverInv, Shape', NEW c \in Callers, NEW D \in SUBSET Callers, D \subseteq {c}, NEW w \in Withdrawals, Moves(D, w),
           StaffPayoutTypeOK', PayoutCalls', scenario' = scenario, period' = period,
           calls'[c] = calls[c] \/ calls'[c].stage \in StaffPayoutStages \cup {"idle"},
           Funds', WalletShape'
    PROVE  CoverInv'
<1>1. InSteps' /\ PaysAlone' /\ RowsSound' /\ FailedUnsent'
  BY DealtMoves DEF CoverInv
<1>2. \A d \in Callers \ {c} : calls'[d] = calls[d]
  BY DEF Moves
<1>3. NoPayday'
  BY <1>2, NotPaying DEF CoverInv, NoPayday
<1> QED BY <1>1, <1>3 DEF CoverInv, Dealt, PayoutTyped

\* A move that leaves the wallets and what counts of the requests alone.
LEMMA FundsMove ==
    ASSUME CoverInv, NoNewDebit, NEW D, NEW w \in Withdrawals, Moves(D, w), scenario' = scenario, wallet' = wallet,
           withdrawal'[w].status = withdrawal[w].status \/ withdrawal'[w].status \notin {"PROCESSING", "COMPLETED"},
           withdrawal[w].status # "none",
           withdrawal'[w].staff = withdrawal[w].staff, withdrawal'[w].amount = withdrawal[w].amount
    PROVE  Funds' /\ WalletShape'
<1>1. AskedFor \in [Withdrawals -> Nat]
  BY AskedForIsNat DEF CoverInv, Dealt, PayoutTyped
<1>2. \A v \in Withdrawals :
         /\ withdrawal'[v].status = withdrawal[v].status \/ withdrawal'[v].status \notin {"PROCESSING", "COMPLETED"}
         /\ withdrawal[v].status # "none" =>
               withdrawal'[v].staff = withdrawal[v].staff /\ withdrawal'[v].amount = withdrawal[v].amount
         /\ withdrawal[v].status = "none" => withdrawal'[v] = withdrawal[v]
         /\ TransferLater(transfer[v], transfer'[v])
  BY Stays DEF Moves
<1>3. Funds /\ mishaps \subseteq mishaps'
  BY DEF CoverInv, Moves
<1> QED BY <1>1, <1>2, <1>3, FundsStay DEF CoverInv, WalletShape

LEMMA FundsMoveRowless ==
    ASSUME CoverInv, NoNewDebit, NEW D, NEW w \in Withdrawals, Moves(D, w), scenario' = scenario, wallet' = wallet,
           UNCHANGED withdrawal
    PROVE  Funds' /\ WalletShape'
<1>1. AskedFor \in [Withdrawals -> Nat]
  BY AskedForIsNat DEF CoverInv, Dealt, PayoutTyped
<1>2. \A v \in Withdrawals : TransferLater(transfer[v], transfer'[v])
  BY Stays DEF Moves
<1>3. Funds /\ mishaps \subseteq mishaps'
  BY DEF CoverInv, Moves
<1> QED BY <1>1, <1>2, <1>3, FundsStay DEF CoverInv, WalletShape

\* The steps of the withdrawals and of the accounts.
LEMMA CoverStaffPayout ==
    ASSUME CoverInv, NEW c \in Callers, StaffPayoutNext(c)
    PROVE  CoverInv'
<1>1. /\ Shape' /\ scenario' = scenario /\ \A d \in Callers \ {c} : calls'[d] = calls[d]
      /\ calls'[c] = calls[c] \/ calls'[c].stage \in StaffPayoutStages \cup {"idle"}
  BY StaffPayoutActs DEF CoverInv, Dealt, PayoutTyped, Acts
<1>2. Dealt /\ {c} \in SUBSET Callers
  BY DEF CoverInv
<1>15. CompleteTransfer(c) \/ NoNewDebit
  BY <1>1, <1>2, StaffPayoutActs, StaffPayoutStagesAre DEF Acts, NoNewDebit, Dealt, PayoutTyped
<1>3. ASSUME PayoutCall(calls'[c]) PROVE PayoutCalls'
  BY <1>1, <1>2, <1>3, PayoutCallsStay DEF Dealt, PayoutTyped
<1>4. ASSUME AccountStep(c), Busy(c) \/ Ready(c) PROVE CoverInv'
  <2>1. /\ StaffPayoutTypeOK' /\ PayoutCall(calls'[c])
        /\ calls'[c].stage \notin AtWithdrawal \/ calls'[c] = calls[c]
        /\ UNCHANGED <<withdrawal, transfer, mishaps, payroll>>
    BY <1>2, <1>4, AccountTyped DEF Dealt
  <2>2. InSteps' /\ PaysAlone' /\ RowsSound' /\ FailedUnsent'
    BY <1>1, <1>2, <2>1, DealtApart
  <2>3. NoPayday'
    BY <1>1, <2>1, NotPaying DEF CoverInv, NoPayday, payroll
  <2>4. AskedFor \in [Withdrawals -> Nat]
    BY <1>2, AskedForIsNat DEF Dealt, PayoutTyped
  <2>6. NoNewDebit
    BY <1>1, <2>1, StagesAtWithdrawal DEF NoNewDebit
  <2>5. Funds' /\ WalletShape'
    BY <1>1, <2>1, <2>4, <2>6, Stays, FundsStay DEF CoverInv, payroll, WalletShape
  <2> QED BY <1>1, <1>3, <2>1, <2>2, <2>3, <2>5 DEF CoverInv, Dealt, PayoutTyped
<1>5. ASSUME NEW w \in Withdrawals, Reserve(c, w) PROVE CoverInv'
  <2>1. Moves({c}, w) /\ StaffPayoutTypeOK' /\ PayoutCall(calls'[c])
    BY <1>2, <1>5, OpensMoves
  <2>2. Funds' /\ WalletShape' /\ period' = period
    BY <1>2, <1>5, <2>1, FundsReserve DEF CoverInv, Reserve, OpenIf, payroll, WalletShape
  <2> QED BY <1>1, <1>2, <1>3, <2>1, <2>2, CoverMoves
<1>6. ASSUME NEW w \in Withdrawals, Moves({c}, w), StaffPayoutTypeOK', PayoutCall(calls'[c]), NoNewDebit,
             UNCHANGED <<payroll, withdrawal>>
      PROVE  CoverInv'
  <2>1. Funds' /\ WalletShape' /\ period' = period
    BY <1>1, <1>6, FundsMoveRowless DEF payroll
  <2> QED BY <1>1, <1>2, <1>3, <1>6, <2>1, CoverMoves
<1>7. CASE CreateRecipient(c) \/ Refused(c)
  <2>1. calls[c].stage \in AtWithdrawal /\ UNCHANGED payroll
    BY <1>7, StagesAtWithdrawal DEF CreateRecipient, Refused, At
  <2>2. PICK w \in Withdrawals : w = calls[c].on
    BY <1>2, <2>1, AtRequest
  <2>3. Moves({c}, w) /\ StaffPayoutTypeOK' /\ PayoutCall(calls'[c]) /\ UNCHANGED withdrawal
    BY <1>2, <1>7, <2>2, PaysMoves
  <2>4. NoNewDebit
    BY <1>7, <1>15 DEF CompleteTransfer, CreateRecipient, Refused, At
  <2> QED BY <1>6, <2>1, <2>3, <2>4
<1>8. CASE \E answer \in BOOLEAN : Initiate(c, answer)
  <2>1. PICK answer \in BOOLEAN : Initiate(c, answer)
    BY <1>8
  <2>2. calls[c].stage \in AtWithdrawal /\ UNCHANGED payroll
    BY <2>1, StagesAtWithdrawal DEF Initiate, At
  <2>3. PICK w \in Withdrawals : w = calls[c].on
    BY <1>2, <2>2, AtRequest
  <2>4. Moves({c}, w) /\ StaffPayoutTypeOK' /\ PayoutCall(calls'[c]) /\ UNCHANGED withdrawal
    BY <1>2, <2>1, <2>3, InitiateMoves
  <2>5. NoNewDebit
    BY <1>15, <2>1 DEF CompleteTransfer, Initiate, At
  <2> QED BY <1>6, <2>2, <2>4, <2>5
<1>9. CASE AskGateway(c)
  <2>1. calls[c].stage \in AtWithdrawal /\ UNCHANGED payroll
    BY <1>9, StagesAtWithdrawal DEF AskGateway, At
  <2>2. PICK w \in Withdrawals : w = calls[c].on
    BY <1>2, <2>1, AtRequest
  <2>3. Moves({c}, w) /\ StaffPayoutTypeOK' /\ PayoutCall(calls'[c]) /\ UNCHANGED withdrawal
    BY <1>2, <1>9, <2>2, AskMoves
  <2>4. NoNewDebit
    BY <1>9, <1>15 DEF CompleteTransfer, AskGateway, At
  <2> QED BY <1>6, <2>1, <2>3, <2>4
<1>10. ASSUME NEW w \in Withdrawals, Ready(c), ApproveTransfer(c, w) \/ Webhook(c, w) \/ ResyncWithdrawal(c, w)
       PROVE  CoverInv'
  <2>1. Moves({c}, w) /\ StaffPayoutTypeOK' /\ PayoutCall(calls'[c]) /\ UNCHANGED withdrawal
    BY <1>2, <1>10, ApproveMoves, WebhookMoves
  <2>2. UNCHANGED payroll
    BY <1>10 DEF ApproveTransfer, Webhook, ResyncWithdrawal
  <2>3. NoNewDebit
    BY <1>10, <1>15 DEF CompleteTransfer, Ready, At
  <2> QED BY <1>6, <2>1, <2>2, <2>3
<1>11. CASE WriteTransferCode(c) \/ WriteFailed(c)
  <2>1. calls[c].stage \in AtWithdrawal /\ UNCHANGED payroll
    BY <1>11, StagesAtWithdrawal DEF WriteTransferCode, WriteFailed, At
  <2>2. PICK w \in Withdrawals : w = calls[c].on
    BY <1>2, <2>1, AtRequest
  <2>3. withdrawal[w].status # "none" /\ withdrawal[w] \in WithdrawalRows
    BY <1>2, <2>1, <2>2, AtRequest DEF InStep
  <2>4. Moves({c}, w) /\ StaffPayoutTypeOK' /\ PayoutCall(calls'[c])
    BY <1>2, <1>11, <2>2, CodeMoves, FailMoves
  <2>5. /\ withdrawal'[w].status = withdrawal[w].status \/ withdrawal'[w].status \notin {"PROCESSING", "COMPLETED"}
        /\ withdrawal'[w].staff = withdrawal[w].staff /\ withdrawal'[w].amount = withdrawal[w].amount
    <3>1. CASE WriteTransferCode(c)
      BY <1>2, <3>1, CodeMoves
    <3>2. CASE WriteFailed(c)
      <4>1. PICK row : row = [withdrawal[w] EXCEPT !.status = "FAILED"]
        OBVIOUS
      <4>2. row.status = "FAILED" /\ row.staff = withdrawal[w].staff /\ row.amount = withdrawal[w].amount
        BY <2>3, <4>1 DEF WithdrawalRows
      <4>3. withdrawal'[w] = row
        BY <1>2, <2>2, <3>2, <4>1 DEF WriteFailed, Dealt, PayoutTyped, StaffPayoutTypeOK
      <4> QED BY <4>2, <4>3
    <3> QED BY <1>11, <3>1, <3>2
  <2>7. NoNewDebit
    BY <1>11, <1>15 DEF CompleteTransfer, WriteTransferCode, WriteFailed, At
  <2>6. Funds' /\ WalletShape' /\ period' = period
    BY <1>1, <2>1, <2>3, <2>4, <2>5, <2>7, FundsMove DEF payroll
  <2> QED BY <1>1, <1>2, <1>3, <2>4, <2>6, CoverMoves
<1>12. CASE CompleteTransfer(c) \/ DebitWallet(c)
  <2>1. calls[c].stage \in AtWithdrawal /\ period' = period
    BY <1>12, StagesAtWithdrawal DEF CompleteTransfer, DebitWallet, At, payroll
  <2>2. PICK w \in Withdrawals : w = calls[c].on
    BY <1>2, <2>1, AtRequest
  <2>3. Moves({c}, w) /\ StaffPayoutTypeOK' /\ PayoutCall(calls'[c])
    BY <1>2, <1>12, <2>2, CompleteMoves, DebitMoves
  <2>4. Funds' /\ WalletShape'
    BY <1>2, <1>12, FundsComplete, FundsDebit DEF CoverInv
  <2> QED BY <1>1, <1>2, <1>3, <2>1, <2>3, <2>4, CoverMoves
<1>13. CASE Busy(c) /\ StaffPayoutStep(c)
  BY <1>4, <1>5, <1>7, <1>8, <1>9, <1>11, <1>12, <1>13 DEF StaffPayoutStep, AccountStep
<1>14. CASE Ready(c) /\ StaffPayoutRequest(c)
  BY <1>4, <1>10, <1>14 DEF StaffPayoutRequest, BankRequest, ReleaseRequest, AccountStep
<1> QED BY <1>13, <1>14 DEF StaffPayoutNext

LEMMA CoverAtFirst == Init => CoverInv
<1> SUFFICES ASSUME Init PROVE CoverInv
  OBVIOUS
<1>1. PayoutTyped
  BY PayoutTypedAtFirst
<1>2. \A c \in Callers : calls[c].stage = "idle"
  BY DEF Init, HandlersInit, Idle
<1>3. \A c \in Callers : calls[c].stage \notin AtWithdrawal /\ calls[c].stage \notin Paying
  BY <1>2, OtherCallsTyped, NotPaying
<1>4. \A w \in Withdrawals : withdrawal[w].status = "none" /\ transfer[w].state = "none"
  BY DEF Init, StaffPayoutInit
<1>5. InSteps /\ PaysAlone /\ RowsSound /\ FailedUnsent
  BY <1>3, <1>4, StagesAtWithdrawal
     DEF InSteps, InStep, PaysAlone, At, RowsSound, RowSound, FailedUnsent, CalmCall, CalmRow, Unsent
<1>6. WalletShape
  <2>1. \A s \in Staff : wallet[s] = [balance |-> Opening[s],
                                      entries |-> {[ref |-> Reference("OPENING", 0), amount |-> Opening[s]]}]
    BY DEF Init, PayrollInit
  <2>2. ASSUME NEW s \in Staff
        PROVE  wallet[s] = [balance |-> wallet[s].balance, entries |-> wallet[s].entries]
    <3>1. PICK opening : opening = {[ref |-> Reference("OPENING", 0), amount |-> Opening[s]]}
      OBVIOUS
    <3>2. wallet[s] = [balance |-> Opening[s], entries |-> opening]
      BY <2>1, <3>1
    <3> QED BY <3>2
  <2>3. wallet = [s \in Staff |-> wallet[s]]
    BY DEF Init, PayrollInit
  <2> QED BY <2>2, <2>3 DEF WalletShape
<1>7. NoPayday
  BY <1>3 DEF Init, PayrollInit, NoPayday
<1>8. \A s \in Staff : wallet[s].balance \in Nat
  BY PayrollAssumption DEF Init, PayrollInit
<1>9. ReservesFit
  <2> SUFFICES ASSUME NEW s \in Staff
               PROVE  IsFiniteSet(Units(Asking(s), AskedFor)) /\ Reserved(s) <= wallet[s].balance
    BY DEF ReservesFit
  <2>1. Units(Asking(s), AskedFor) = {}
    BY <1>4 DEF Asking, Units
  <2>2. IsFiniteSet(Units(Asking(s), AskedFor)) /\ Cardinality(Units(Asking(s), AskedFor)) = 0
    BY <2>1, FS_EmptySet
  <2>3. Reserved(s) = 0
    BY <2>2, ReservedSums DEF SumOver
  <2> QED BY <1>8, <2>2, <2>3
<1>11. WholeBalances /\ NotNegative
  BY <1>8 DEF WholeBalances, NotNegative
<1>12. DebitsCovered
  BY <1>2 DEF DebitsCovered, DebitsInTurn, At
<1>10. Funds
  BY <1>4, <1>9, <1>11, <1>12 DEF Funds, CompletedWasSent
<1> QED BY <1>1, <1>5, <1>6, <1>7, <1>10 DEF CoverInv, Dealt

LEMMA CoverStays == CoverInv /\ [Next]_vars => CoverInv'
<1> SUFFICES ASSUME CoverInv, [Next]_vars PROVE CoverInv'
  OBVIOUS
<1> USE DEF CoverInv, Dealt, PayoutTyped
<1>1. ASSUME NEW c \in Callers, AttendanceNext(c) PROVE CoverInv'
  BY <1>1, AttendanceActs, CoverElsewhere DEF Acts, AttendanceNext
<1>2. ASSUME NEW c \in Callers, PayrollNext(c) PROVE CoverInv'
  BY <1>2, CoverPayroll DEF PayrollNext
<1>3. ASSUME NEW c \in Callers, StaffPayoutNext(c) PROVE CoverInv'
  BY <1>3, CoverStaffPayout
<1>4. ASSUME NEW c \in Callers, PayslipNext(c) PROVE CoverInv'
  <2>1. calls' = calls /\ scenario' = scenario /\ UNCHANGED <<payroll, staffPayout>>
    BY <1>4 DEF PayslipNext, PreviewPayslip, Once
  <2> QED BY <2>1, CoverElsewhere DEF Shape
<1>5. ASSUME NEW c \in Callers, Dies(c) PROVE CoverInv'
  <2>1. calls' = [calls EXCEPT ![c] = Idle] /\ scenario' = scenario /\ UNCHANGED <<payroll, staffPayout>>
    BY <1>5 DEF Dies, Crash
  <2>2. Shape' /\ \A d \in Callers : calls'[d] = calls[d] \/ calls'[d].stage = "idle"
    BY <2>1 DEF Shape, Idle
  <2> QED BY <2>1, <2>2, CoverElsewhere
<1>6. CASE TimePasses /\ UNCHANGED <<payroll, staffPayout, sheet>>
  <2>1. calls' = calls /\ scenario' = scenario
    BY <1>6 DEF TimePasses, handlers
  <2> QED BY <1>6, <2>1, CoverElsewhere DEF Shape
<1>7. CASE Gateway /\ UNCHANGED <<attendance, sheet>>
  <2>1. PICK w \in Withdrawals, state \in {"sent", "failed", "reversed"} : Settle(w, state)
    BY <1>7 DEF Gateway
  <2>2. Moves({}, w) /\ StaffPayoutTypeOK' /\ PayoutCalls' /\ UNCHANGED <<handlers, payroll, withdrawal, mishaps>>
    BY <2>1, SettleMoves
  <2>3. InSteps' /\ PaysAlone' /\ RowsSound' /\ FailedUnsent'
    BY <2>2, DealtMoves
  <2>4. Shape' /\ NoPayday'
    BY <2>2 DEF handlers, payroll, Shape, NoPayday
  <2>5. Funds' /\ WalletShape'
    <3>1. NoNewDebit
      BY <2>2 DEF NoNewDebit, handlers
    <3> QED BY <2>2, <3>1, FundsMoveRowless DEF handlers, payroll
  <2> QED BY <2>2, <2>3, <2>4, <2>5
<1>8. CASE UNCHANGED vars
  BY <1>8, CoverElsewhere DEF vars, handlers, Shape
<1> QED BY <1>1, <1>2, <1>3, <1>4, <1>5, <1>6, <1>7, <1>8 DEF Next

\* Staff withdrawals are covered when requested, backed when completed and overdraw no wallet by one
\* mishap alone, however many handlers run, and for any number of members and requests: a completion
\* checks the balance, another of the same member may come between, and the debit subtracts.
THEOREM StaffIsPaidWhatTheyHold == Spec => []WithdrawalsCovered
<1>1. CoverInv => WithdrawalsCovered
  <2> SUFFICES ASSUME CoverInv PROVE WithdrawalsCovered
    OBVIOUS
  <2>1. ReservedIsCovered
    BY DEF CoverInv, Funds, ReservesFit, Calm, ReservedIsCovered
  <2>2. NotOverdrawn
    <3>1. ASSUME "generate" \notin scenario, Calm, NEW s \in Staff PROVE wallet[s].balance >= 0
      <4>1. PICK U : U = Units(Asking(s), AskedFor)
        OBVIOUS
      <4>2. IsFiniteSet(U) /\ Cardinality(U) <= wallet[s].balance
        BY <3>1, <4>1, ReservedSums DEF CoverInv, Funds, ReservesFit, SumOver
      <4>3. Cardinality(U) \in Nat
        BY <4>2, FS_CardinalityType
      <4>4. wallet[s].balance \in Int
        BY <3>1 DEF CoverInv, Funds, WholeBalances
      <4> QED BY <4>2, <4>3, <4>4
    <3> QED BY <3>1 DEF CoverInv, Funds, NotNegative, InTurn, Calm, NotOverdrawn
  <2> QED BY <2>1, <2>2 DEF WithdrawalsCovered, CoverInv, Dealt, PayoutTyped, Funds
<1> QED BY <1>1, CoverStays, CoverAtFirst, PTL DEF Spec

-----------------------------------------------------------------------------
(* Types of the day records, and of what their handlers remember.          *)

Verdicts == {"APPROVED", "REJECTED"}

AttendanceCall(call) ==
    /\ call.stage = "clock_in" => call.saw \in AttendanceRows
    /\ call.stage = "correct" => call.saw.fix \in Corrections /\ call.saw.row \in AttendanceRows
    /\ call.stage = "manual" => call.saw \in {"PRESENT", "ABSENT"}
    /\ call.stage \in {"extra", "decide_leave"} => call.saw \in Verdicts

AttendanceCalls == \A c \in Callers : AttendanceCall(calls[c])

AttendanceTyped == Shape /\ AttendanceTypeOK /\ AttendanceCalls

\* A day record that is saved.
LEMMA SaveTyped ==
    ASSUME record \in [Staff -> [Days -> AttendanceRows]], NEW s, NEW d, NEW row, Save(s, d, row),
           s \in Staff /\ d \in Days => row \in AttendanceRows
    PROVE  record' \in [Staff -> [Days -> AttendanceRows]]
<1>1. PICK days : days = [record[s] EXCEPT ![d] = row]
  OBVIOUS
<1>2. record' = [record EXCEPT ![s] = days]
  BY <1>1 DEF Save
<1>3. ASSUME s \in Staff PROVE days \in [Days -> AttendanceRows]
  <2>1. record[s] \in [Days -> AttendanceRows]
    BY <1>3
  <2> QED BY <1>1, <1>3, <2>1
<1> QED BY <1>2, <1>3

LEMMA OutcomeTyped ==
    ASSUME NEW s, NEW d, NEW p
    PROVE  /\ Outcome(s, d, p).status \in {"PUBLIC_HOLIDAY", "EXTRA_WORK_DAY_PENDING", "LATE", "PRESENT"}
           /\ Outcome(s, d, p).late \in {0, LatePenalty}
<1>1. \/ Outcome(s, d, p) = [status |-> "PUBLIC_HOLIDAY", late |-> 0]
      \/ Outcome(s, d, p) = [status |-> "EXTRA_WORK_DAY_PENDING", late |-> 0]
      \/ Outcome(s, d, p) = [status |-> "LATE", late |-> LatePenalty]
      \/ Outcome(s, d, p) = [status |-> "PRESENT", late |-> 0]
  BY DEF Outcome
<1> QED BY <1>1

LEMMA FeeTyped ==
    ASSUME NEW d
    PROVE  FeeFor(d) \in {0, AbsentFee}
BY DEF FeeFor

LEMMA NoRecordTyped == NoRecord \in AttendanceRows
BY DEF NoRecord, AttendanceRows, AttendanceStatuses, Cutoff

\* A record with other columns is a record.
LEMMA RowTyped ==
    ASSUME NEW row \in AttendanceRows, NEW status \in AttendanceStatuses, NEW in \in 0..Cutoff, NEW out \in BOOLEAN,
           NEW late \in {0, LatePenalty}, NEW fee \in {0, AbsentFee},
           NEW extra \in {"none", "PENDING", "APPROVED", "REJECTED"}, NEW byHand \in BOOLEAN
    PROVE  /\ [row EXCEPT !.status = status, !.in = in, !.out = out, !.late = late, !.fee = fee, !.byHand = byHand] \in AttendanceRows
           /\ [row EXCEPT !.status = status, !.late = late, !.in = in, !.extra = extra] \in AttendanceRows
           /\ [row EXCEPT !.status = status, !.fee = fee] \in AttendanceRows
           /\ [row EXCEPT !.status = status, !.late = late, !.fee = fee, !.in = in, !.out = out, !.byHand = byHand] \in AttendanceRows
           /\ [row EXCEPT !.status = status, !.byHand = byHand, !.in = in, !.fee = fee] \in AttendanceRows
           /\ [row EXCEPT !.status = status, !.in = in] \in AttendanceRows
           /\ [row EXCEPT !.status = status] \in AttendanceRows
BY DEF AttendanceRows

\* The steps that write a day record.
LEMMA RecordsTyped ==
    ASSUME AttendanceTyped, NEW c \in Callers, Busy(c), AttendanceStep(c)
    PROVE  record' \in [Staff -> [Days -> AttendanceRows]]
<1> USE DEF AttendanceTyped, AttendanceTypeOK
<1>0. AttendanceCall(calls[c])
  BY DEF AttendanceCalls
<1>1. ASSUME NEW s \in Staff, NEW d \in Days PROVE record[s][d] \in AttendanceRows
  OBVIOUS
<1>2. CASE WriteClockIn(c)
  <2>1. calls[c].saw \in AttendanceRows
    BY <1>0, <1>2 DEF AttendanceCall, WriteClockIn, At
  <2> QED BY <1>2, <2>1, SaveTyped DEF WriteClockIn
<1>3. CASE WriteClockOut(c)
  <2>1. PICK s, d : s = calls[c].on /\ d = today
    OBVIOUS
  <2>2. PICK row : row = [record[s][d] EXCEPT !.out = TRUE]
    OBVIOUS
  <2>3. s \in Staff /\ d \in Days => row \in AttendanceRows
    BY <1>1, <2>2 DEF AttendanceRows
  <2>4. Save(s, d, row)
    BY <1>3, <2>1, <2>2 DEF WriteClockOut, Save
  <2> QED BY <2>3, <2>4, SaveTyped
<1>4. CASE WriteNoShow(c)
  <2>1. PICK d : d = today - 1
    OBVIOUS
  <2>2. [NoRecord EXCEPT !.status = "ABSENT", !.fee = FeeFor(d)] \in AttendanceRows
    BY NoRecordTyped, FeeTyped DEF AttendanceRows, AttendanceStatuses
  <2> QED BY <1>4, <2>1, <2>2, SaveTyped DEF WriteNoShow
<1>5. CASE WriteNeverLeft(c)
  <2>1. PICK s, d : s = calls[c].on /\ d = today - 1
    OBVIOUS
  <2>2. PICK row : row = [record[s][d] EXCEPT !.status = "ABSENT", !.fee = FeeFor(d)]
    OBVIOUS
  <2>3. PICK fee \in {0, AbsentFee} : fee = FeeFor(d)
    BY FeeTyped
  <2>5. s \in Staff /\ d \in Days => row \in AttendanceRows
    <3>1. \A old \in AttendanceRows : [old EXCEPT !.status = "ABSENT", !.fee = fee] \in AttendanceRows
      BY DEF AttendanceRows, AttendanceStatuses
    <3> QED BY <1>1, <2>2, <2>3, <3>1
  <2>4. Save(s, d, row)
    BY <1>5, <2>1, <2>2 DEF WriteNeverLeft
  <2> QED BY <2>4, <2>5, SaveTyped
<1>6. CASE WriteCorrected(c)
  <2>1. PICK s, d, fix, new : s = calls[c].on[1] /\ d = calls[c].on[2] /\ fix = calls[c].saw.fix /\ new = calls[c].saw.row
    OBVIOUS
  <2>2. fix \in Corrections /\ new \in AttendanceRows
    BY <1>0, <1>6, <2>1 DEF AttendanceCall, WriteCorrected, At
  <2>3. PICK row : row = [record[s][d] EXCEPT !.status = new.status, !.late = new.late, !.fee = new.fee,
                             !.in = IF fix.in > 0 THEN fix.in ELSE @, !.out = @ \/ fix.out, !.byHand = TRUE]
    OBVIOUS
  <2>4. s \in Staff /\ d \in Days => row \in AttendanceRows
    <3> SUFFICES ASSUME s \in Staff, d \in Days PROVE row \in AttendanceRows
      OBVIOUS
    <3>1. PICK old \in AttendanceRows : old = record[s][d]
      BY <1>1
    <3>2. PICK in, out : in = (IF fix.in > 0 THEN fix.in ELSE old.in) /\ out = (old.out \/ fix.out)
      OBVIOUS
    <3>3. in \in 0..Cutoff /\ out \in BOOLEAN
      BY <2>2, <3>2 DEF Corrections, AttendanceRows, Cutoff
    <3>4. row = [old EXCEPT !.status = new.status, !.late = new.late, !.fee = new.fee, !.in = in, !.out = out, !.byHand = TRUE]
      BY <2>3, <3>1, <3>2
    <3> QED BY <2>2, <3>3, <3>4 DEF AttendanceRows
  <2>5. Save(s, d, row)
    BY <1>6, <2>1, <2>3 DEF WriteCorrected
  <2> QED BY <2>4, <2>5, SaveTyped
<1>7. CASE WriteManualRecord(c)
  <2>1. PICK s, d, status : s = calls[c].on[1] /\ d = calls[c].on[2] /\ status = calls[c].saw
    OBVIOUS
  <2>2. status \in {"PRESENT", "ABSENT"}
    BY <1>0, <1>7, <2>1 DEF AttendanceCall, WriteManualRecord, At
  <2>3. PICK row : row = [NoRecord EXCEPT !.status = status, !.byHand = TRUE,
                             !.in = IF status = "ABSENT" THEN 0 ELSE 1,
                             !.fee = IF status = "ABSENT" THEN FeeFor(d) ELSE 0]
    OBVIOUS
  <2>4. row \in AttendanceRows
    <3>1. PICK in, fee : in = (IF status = "ABSENT" THEN 0 ELSE 1) /\ fee = IF status = "ABSENT" THEN FeeFor(d) ELSE 0
      OBVIOUS
    <3>2. in \in 0..Cutoff /\ fee \in {0, AbsentFee} /\ status \in AttendanceStatuses
      BY <2>2, <3>1, FeeTyped DEF Cutoff, AttendanceStatuses
    <3>3. row = [NoRecord EXCEPT !.status = status, !.byHand = TRUE, !.in = in, !.fee = fee]
      BY <2>3, <3>1
    <3> QED BY <3>2, <3>3, NoRecordTyped DEF AttendanceRows
  <2>5. record' = record \/ Save(s, d, row)
    BY <1>7, <2>1, <2>3 DEF WriteManualRecord
  <2> QED BY <2>4, <2>5, SaveTyped
<1>8. CASE WriteExtraWorkDay(c)
  <2>1. PICK s, d : s = calls[c].on[1] /\ d = calls[c].on[2]
    OBVIOUS
  <2>2. calls[c].saw \in Verdicts
    BY <1>0, <1>8 DEF AttendanceCall, WriteExtraWorkDay, At
  <2>3. PICK row : row = [record[s][d] EXCEPT !.extra = calls[c].saw]
    OBVIOUS
  <2>4. s \in Staff /\ d \in Days => row \in AttendanceRows
    BY <1>1, <2>2, <2>3 DEF AttendanceRows, Verdicts
  <2>5. Save(s, d, row)
    BY <1>8, <2>1, <2>3 DEF WriteExtraWorkDay, Save
  <2> QED BY <2>4, <2>5, SaveTyped
<1>9. CASE MarkLeave(c)
  <2>1. PICK s, d : s = Ask[calls[c].on].staff /\ d = calls[c].saw
    OBVIOUS
  <2>2. PICK row : row = MarkOnLeave(record[s][d])
    OBVIOUS
  <2>3. s \in Staff /\ d \in Days => row \in AttendanceRows
    <3>1. \A old \in AttendanceRows : [old EXCEPT !.status = "ON_LEAVE"] \in AttendanceRows
      BY DEF AttendanceRows, AttendanceStatuses
    <3>2. PICK in \in 0..Cutoff : in = 1
      BY DEF Cutoff
    <3>3. [NoRecord EXCEPT !.status = "ON_LEAVE", !.in = in] \in AttendanceRows
      BY NoRecordTyped DEF AttendanceRows, AttendanceStatuses
    <3> QED BY <1>1, <2>2, <3>1, <3>2, <3>3 DEF MarkOnLeave
  <2>4. Save(s, d, row)
    BY <1>9, <2>1, <2>2 DEF MarkLeave
  <2> QED BY <2>3, <2>4, SaveTyped
<1>10. CASE (\E s \in Staff : SweepOne(c, s)) \/ Swept(c) \/ WriteSubmitted(c) \/ WriteDecided(c)
  BY <1>10 DEF SweepOne, Swept, WriteSubmitted, WriteDecided, attendance
<1> QED BY <1>2, <1>3, <1>4, <1>5, <1>6, <1>7, <1>8, <1>9, <1>10 DEF AttendanceStep

LEMMA CorrectedTyped ==
    ASSUME record \in [Staff -> [Days -> AttendanceRows]], NEW s \in Staff, NEW d \in Days, NEW fix \in Corrections
    PROVE  Corrected(s, d, fix) \in AttendanceRows
<1>1. PICK row \in AttendanceRows : row = record[s][d]
  OBVIOUS
<1>2. PICK in, asked : in = (IF fix.in > 0 THEN fix.in ELSE row.in) /\ asked = IF fix.status # "none" THEN fix.status ELSE row.status
  OBVIOUS
<1>3. PICK worked \in BOOLEAN : worked = (asked # "ABSENT" /\ in > 0)
  OBVIOUS
<1>4. PICK status, late :
        /\ status = IF worked /\ fix.status = "none" THEN Outcome(s, d, in).status ELSE asked
        /\ late = CASE worked /\ (fix.status = "none" \/ asked = "LATE") -> Outcome(s, d, in).late
                    [] fix.status # "none" /\ (worked \/ asked # "LATE") -> 0
                    [] OTHER -> row.late
  OBVIOUS
<1>5. PICK out, fee : out = (row.out \/ fix.out) /\ fee = IF status = "ABSENT" THEN FeeFor(d) ELSE 0
  OBVIOUS
<1>6. Corrected(s, d, fix) = [row EXCEPT !.status = status, !.in = in, !.out = out, !.late = late, !.fee = fee, !.byHand = TRUE]
  BY <1>1, <1>2, <1>3, <1>4, <1>5 DEF Corrected
<1>7. in \in 0..Cutoff /\ asked \in AttendanceStatuses /\ out \in BOOLEAN
  BY <1>2, <1>5 DEF Corrections, AttendanceRows, AttendanceStatuses, Cutoff
<1>8. status \in AttendanceStatuses /\ late \in {0, LatePenalty} /\ fee \in {0, AbsentFee}
  <2>1. status = asked \/ status = Outcome(s, d, in).status
    BY <1>4
  <2>2. late = Outcome(s, d, in).late \/ late = 0 \/ late = row.late
    BY <1>4
  <2>3. status \in AttendanceStatuses
    BY <1>7, <2>1, OutcomeTyped DEF AttendanceStatuses
  <2>4. late \in {0, LatePenalty}
    BY <2>2, OutcomeTyped DEF AttendanceRows
  <2>5. fee \in {0, AbsentFee}
    BY <1>5, FeeTyped
  <2> QED BY <2>3, <2>4, <2>5
<1>9. [row EXCEPT !.status = status, !.in = in, !.out = out, !.late = late, !.fee = fee, !.byHand = TRUE] \in AttendanceRows
  <2>1. PICK byHand \in BOOLEAN : byHand = TRUE
    OBVIOUS
  <2>2. [row EXCEPT !.status = status, !.in = in, !.out = out, !.late = late, !.fee = fee, !.byHand = byHand] \in AttendanceRows
    BY <1>7, <1>8 DEF AttendanceRows
  <2> QED BY <2>1, <2>2
<1> QED BY <1>6, <1>9

\* What a handler writes besides, and what it remembers.
LEMMA AttendanceKeepsTypes ==
    ASSUME AttendanceTyped, NEW c \in Callers, AttendanceNext(c)
    PROVE  AttendanceTypeOK' /\ AttendanceCall(calls'[c])
<1> USE DEF AttendanceTyped, AttendanceTypeOK
<1>0. AttendanceCall(calls[c])
  BY DEF AttendanceCalls
<1>1. CASE Busy(c) /\ AttendanceStep(c)
  <2>1. record' \in [Staff -> [Days -> AttendanceRows]] /\ today' = today /\ part' = part /\ swept' = swept
    BY <1>1, RecordsTyped
       DEF AttendanceStep, WriteClockIn, WriteClockOut, SweepOne, WriteNoShow, WriteNeverLeft, Swept, WriteCorrected,
           WriteManualRecord, WriteExtraWorkDay, WriteSubmitted, WriteDecided, MarkLeave, attendance
  <2>2. leave' \in [LeaveRequests -> LeaveStatuses]
    <3>1. CASE WriteSubmitted(c)
      BY <3>1 DEF WriteSubmitted, LeaveStatuses
    <3>2. CASE WriteDecided(c)
      BY <1>0, <3>2 DEF WriteDecided, AttendanceCall, At, Verdicts, LeaveStatuses
    <3>3. CASE ~WriteSubmitted(c) /\ ~WriteDecided(c)
      BY <1>1, <3>3
         DEF AttendanceStep, WriteClockIn, WriteClockOut, SweepOne, WriteNoShow, WriteNeverLeft, Swept, WriteCorrected,
             WriteManualRecord, WriteExtraWorkDay, MarkLeave, attendance
    <3> QED BY <3>1, <3>2, <3>3
  <2>3. calls'[c].stage \in {"idle", "sweep", "no_show", "never_left", "mark_leave"}
    <3>1. ASSUME NEW stage, NEW on, NEW saw, Continue(c, [stage |-> stage, on |-> on, saw |-> saw])
          PROVE  calls'[c].stage = stage
      BY <3>1 DEF Continue, Shape
    <3>2. ASSUME NEW stage, NEW saw, Goto(c, stage, saw) PROVE calls'[c].stage = stage
      BY <3>2, Gone
    <3>3. Return(c) => calls'[c].stage = "idle"
      BY DEF Return, Continue, Idle, Shape
    <3>4. CASE WriteDecided(c) \/ MarkLeave(c) \/ \E s \in Staff : SweepOne(c, s)
      BY <3>1, <3>2, <3>3, <3>4 DEF WriteDecided, MarkLeave, SweepOne
    <3>5. CASE ~(WriteDecided(c) \/ MarkLeave(c) \/ \E s \in Staff : SweepOne(c, s))
      BY <1>1, <3>2, <3>3, <3>5
         DEF AttendanceStep, WriteClockIn, WriteClockOut, WriteNoShow, WriteNeverLeft, Swept, WriteCorrected,
             WriteManualRecord, WriteExtraWorkDay, WriteSubmitted
    <3> QED BY <3>4, <3>5
  <2>4. AttendanceCall(calls'[c])
    BY <2>3 DEF AttendanceCall
  <2> QED BY <2>1, <2>2, <2>4
<1>2. CASE Ready(c) /\ AttendanceRequest(c)
  <2>1. today' = today /\ part' = part /\ record' = record /\ leave' = leave /\ swept' \in Nat
    <3>1. Sweep(c) => swept' \in Nat
      BY DEF Sweep
    <3>2. UNCHANGED attendance \/ Sweep(c)
      BY <1>2 DEF AttendanceRequest, ClockRequest, LeaveRequest, ClockIn, ClockOut, CorrectRecord, CreateManualRecord, DecideExtraWorkDay,
                  SubmitLeave, DecideLeave
    <3> QED BY <3>1, <3>2 DEF Sweep, attendance
  <2>2. ASSUME NEW s \in Staff, ClockIn(c, s) PROVE AttendanceCall(calls'[c])
    <3>1. PICK is : is = Outcome(s, today, part)
      OBVIOUS
    <3>2. PICK extra : extra = IF is.status = "EXTRA_WORK_DAY_PENDING" THEN "PENDING" ELSE "none"
      OBVIOUS
    <3>3. PICK row : row = [NoRecord EXCEPT !.status = is.status, !.late = is.late, !.in = part, !.extra = extra]
      OBVIOUS
    <3>4. row \in AttendanceRows
      <4>1. is.status \in AttendanceStatuses /\ is.late \in {0, LatePenalty} /\ extra \in {"none", "PENDING"} /\ part \in 0..Cutoff
        BY <3>1, <3>2, OutcomeTyped DEF AttendanceStatuses, Parts, Cutoff
      <4> QED BY <3>3, <4>1, NoRecordTyped DEF AttendanceRows
    <3>5. calls'[c].stage = "clock_in" /\ calls'[c].saw = row
      BY <2>2, <3>1, <3>2, <3>3, Begun DEF ClockIn
    <3> QED BY <3>4, <3>5 DEF AttendanceCall
  <2>3. ASSUME NEW s \in Staff, NEW d \in Until(today), NEW fix \in Corrections, CorrectRecord(c, s, d, fix)
        PROVE  AttendanceCall(calls'[c])
    <3>1. PICK row : row = Corrected(s, d, fix)
      OBVIOUS
    <3>2. row \in AttendanceRows
      BY <3>1, CorrectedTyped DEF Until
    <3>3. PICK saw : saw = [fix |-> fix, row |-> row]
      OBVIOUS
    <3>4. calls'[c].stage = "correct" /\ calls'[c].saw = saw
      BY <2>3, <3>1, <3>3, Begun DEF CorrectRecord
    <3>5. saw.fix = fix /\ saw.row = row
      BY <3>3
    <3> QED BY <3>2, <3>4, <3>5 DEF AttendanceCall
  <2>4. ASSUME NEW s, NEW d, NEW status \in {"PRESENT", "ABSENT"}, CreateManualRecord(c, s, d, status)
        PROVE  AttendanceCall(calls'[c])
    BY <2>4, Begun DEF CreateManualRecord, AttendanceCall
  <2>5. ASSUME NEW s, NEW d, NEW verdict \in Verdicts, DecideExtraWorkDay(c, s, d, verdict)
        PROVE  AttendanceCall(calls'[c])
    BY <2>5, Begun DEF DecideExtraWorkDay, AttendanceCall
  <2>6. ASSUME NEW r, NEW verdict \in Verdicts, DecideLeave(c, r, verdict) PROVE AttendanceCall(calls'[c])
    BY <2>6, Begun DEF DecideLeave, AttendanceCall
  <2>7. ASSUME (\E s \in Staff : ClockOut(c, s)) \/ (\E r \in LeaveRequests : SubmitLeave(c, r)) \/ Sweep(c)
        PROVE  AttendanceCall(calls'[c])
    <3>1. calls'[c].stage \in {"clock_out", "submit_leave", "sweep"}
      BY <2>7, Begun DEF ClockOut, SubmitLeave, Sweep
    <3> QED BY <3>1 DEF AttendanceCall
  <2> QED BY <1>2, <2>1, <2>2, <2>3, <2>4, <2>5, <2>6, <2>7 DEF AttendanceRequest, ClockRequest, LeaveRequest, Verdicts
<1> QED BY <1>1, <1>2 DEF AttendanceNext

-----------------------------------------------------------------------------
(* Types of the payroll: what is due is a whole number.                    *)

LEMMA SumIsNat ==
    ASSUME NEW S, IsFiniteSet(S), NEW w, \A x \in S : w[x] \in Int
    PROVE  IsFiniteSet(Units(S, w)) /\ SumOver(S, w) \in Nat
<1>1. PICK f : f = [x \in S |-> {x} \X (1..w[x])]
  OBVIOUS
<1>2. PICK T : T = {f[x] : x \in S}
  OBVIOUS
<1>3. f \in Surjection(S, T)
  BY <1>1, <1>2 DEF Surjection
<1>4. IsFiniteSet(T)
  BY <1>3, FS_Surjection
<1>5. ASSUME NEW x \in S PROVE IsFiniteSet(f[x])
  <2>1. PICK one \in Int, n \in Int : one = 1 /\ n = w[x]
    OBVIOUS
  <2>3. IsFiniteSet({x}) /\ IsFiniteSet(1..w[x])
    BY <2>1, FS_Singleton, FS_Interval
  <2>2. IsFiniteSet({x} \X (1..w[x]))
    BY <2>3, FS_Product
  <2> QED BY <1>1, <2>2
<1>6. IsFiniteSet(UNION T)
  BY <1>2, <1>4, <1>5, FS_UNION
<1>7. Units(S, w) = UNION T
  BY <1>1, <1>2 DEF Units
<1> QED BY <1>6, <1>7, FS_CardinalityType DEF SumOver

LEMMA QuotientIsInt ==
    ASSUME NEW a \in Int, NEW b \in Int, NEW d \in Nat, d > 0
    PROVE  (a * b) \div d \in Int
<1>1. PICK n \in Int : n = a * b
  OBVIOUS
<1> QED BY <1>1

LEMMA ShareTyped ==
    ASSUME AttendanceTypeOK, NEW s \in Staff
    PROVE  Share(s) \in Int
<1>1. IsFiniteSet(Days)
  BY AttendanceAssumption DEF Days
<1>2. Expected(s) \subseteq Days /\ Missed(s) \subseteq Days /\ ExtraDays(s) \subseteq Days
  BY DEF Expected, Missed, ExtraDays, Until
<1>3. /\ IsFiniteSet(Expected(s)) /\ Cardinality(Expected(s)) \in Nat
      /\ Cardinality(Missed(s)) \in Nat /\ Cardinality(ExtraDays(s)) \in Nat
  BY <1>1, <1>2, FS_Subset, FS_CardinalityType
<1>4. Expected(s) # {} => Cardinality(Expected(s)) > 0
  BY <1>3, FS_EmptySet
<1>5. PICK payable \in Int : payable = Cardinality(Expected(s)) - Cardinality(Missed(s)) + Cardinality(ExtraDays(s))
  BY <1>3
<1>6. Salary[s] \in Int
  BY PayrollAssumption
<1>7. CASE Expected(s) = {}
  BY <1>7 DEF Share
<1>8. CASE Expected(s) # {}
  <2>1. (Salary[s] * payable) \div Cardinality(Expected(s)) \in Int
    BY <1>3, <1>4, <1>6, <1>8, QuotientIsInt
  <2> QED BY <1>5, <1>8, <2>1 DEF Share
<1> QED BY <1>7, <1>8

LEMMA DueTyped ==
    ASSUME AttendanceTypeOK, deduction \in [Adjustable -> DeductionRows], NEW s \in Staff
    PROVE  Due(s) \in Int /\ Figures(s) \subseteq Int
<1>1. Penalties(s) \in Nat
  <2>1. PICK w : w = [d \in Days |-> record[s][d].late]
    OBVIOUS
  <2>2. \A d \in Days : w[d] \in Nat
    <3> TAKE d \in Days
    <3>1. record[s][d] \in AttendanceRows
      BY DEF AttendanceTypeOK
    <3>2. record[s][d].late \in {0, LatePenalty}
      BY <3>1 DEF AttendanceRows
    <3> QED BY <2>1, <3>2, AttendanceAssumption
  <2> QED BY <2>1, <2>2, SumIsNat, AttendanceAssumption DEF Penalties, Days
<1>2. Deducted(s) \in Nat
  <2>1. PICK w : w = [x \in Adjustable |-> deduction[x].amount]
    OBVIOUS
  <2>2. \A x \in Adjustable : w[x] \in Nat
    <3> TAKE x \in Adjustable
    <3>1. deduction[x] \in DeductionRows
      OBVIOUS
    <3>2. deduction[x].amount = 0 \/ deduction[x].amount \in Amounts
      BY <3>1 DEF DeductionRows
    <3>3. \A amount \in Amounts : amount \in Nat
      BY PayrollAssumption
    <3>4. w[x] = deduction[x].amount
      BY <2>1
    <3> QED BY <3>2, <3>3, <3>4
  <2>3. PICK S : S = {x \in Adjustable : AdjusteeOf[x] = s /\ deduction[x].status # "none"}
    OBVIOUS
  <2>4. IsFiniteSet(S)
    BY <2>3, PayrollAssumption, FS_Subset
  <2>5. SumOver(S, w) \in Nat
    BY <2>2, <2>3, <2>4, SumIsNat
  <2> QED BY <2>1, <2>3, <2>5 DEF Deducted
<1>3. Due(s) \in Int
  BY <1>1, <1>2, ShareTyped DEF Due
<1>4. \A amount \in Amounts : amount \in Int
  BY PayrollAssumption
<1> QED BY <1>3, <1>4 DEF Figures

ThenTyped(then) == then = Alone \/ then \subseteq Staff

PayrollCall(call) ==
    /\ call.stage \in {"figures", "credit"} => call.saw.left \subseteq Staff /\ call.saw.nets \in [Staff -> Int]
    /\ call.stage = "write_slip" => /\ call.on \in Staff /\ call.saw.left \subseteq Staff /\ call.saw.nets \in [Staff -> Int]
                                    /\ call.saw.found \in BOOLEAN /\ call.saw.issue \in Nat
    /\ call.stage \in {"recalculate", "supersede"} =>
           call.on \in Staff /\ call.saw.net \in Int /\ call.saw.old \in Int /\ call.saw.issue \in Nat
    /\ call.stage \in {"count", "post"} => call.on \in Staff /\ call.saw.delta \in Int
    /\ call.stage \in {"recalculate", "count", "post"} => ThenTyped(call.saw.then)
    /\ call.stage = "approve_drafts" => call.saw \subseteq Staff
    /\ call.stage = "correct_adjustment" => call.on \in Adjustable /\ call.saw \in Amounts
    /\ call.stage = "remove_adjustment" => call.on \in Adjustable

PayrollCalls == \A c \in Callers : PayrollCall(calls[c])

PayrollTyped == AttendanceTyped /\ PayrollTypeOK /\ PayrollCalls /\ WalletShape

\* A net pay that is written.
LEMMA NetWritten ==
    ASSUME NEW old \in [Staff -> PayslipRows], NEW s, NEW net \in Int, NEW new, new = [old EXCEPT ![s].net = net]
    PROVE  /\ new \in [Staff -> PayslipRows]
           /\ \A x \in Staff : /\ new[x].status = old[x].status /\ new[x].issue = old[x].issue
                               /\ new[x].net = IF x = s THEN net ELSE old[x].net
<1>1. PICK row : row = [old[s] EXCEPT !.net = net]
  OBVIOUS
<1>2. new = [old EXCEPT ![s] = row]
  BY <1>1
<1>3. ASSUME s \in Staff PROVE row \in PayslipRows /\ row.status = old[s].status /\ row.issue = old[s].issue /\ row.net = net
  <2>1. old[s] \in PayslipRows
    BY <1>3
  <2> QED BY <1>1, <2>1 DEF PayslipRows
<1> QED BY <1>2, <1>3

\* A posting of a whole amount keeps the wallets whole.
LEMMA PostTyped ==
    ASSUME WalletShape, NEW s, NEW ref, NEW amount \in Int, Post(s, ref, amount),
           \A x \in Staff : wallet[x].balance \in Int /\ \A t \in wallet[x].entries : t.amount \in Int
    PROVE  WalletShape' /\ \A x \in Staff : wallet'[x].balance \in Int /\ \A t \in wallet'[x].entries : t.amount \in Int
<1>1. WalletShape'
  BY PostKeeps
<1>2. CASE s \notin Staff \/ ref \in References(s)
  BY <1>2 DEF Post, WalletShape
<1>3. CASE s \in Staff /\ ref \notin References(s)
  <2>1. PICK entry : entry = [ref |-> ref, amount |-> amount]
    OBVIOUS
  <2>2. /\ wallet'[s].balance = wallet[s].balance + amount /\ wallet'[s].entries = wallet[s].entries \cup {entry}
        /\ \A x \in Staff \ {s} : wallet'[x] = wallet[x]
    BY <1>3, <2>1, PostAdds
  <2>3. entry.amount = amount
    BY <2>1
  <2>4. wallet'[s].balance \in Int /\ \A t \in wallet'[s].entries : t.amount \in Int
    BY <1>3, <2>2, <2>3
  <2> QED BY <1>1, <2>2, <2>4
<1> QED BY <1>1, <1>2, <1>3

\* generatePayroll.
LEMMA GenerateTyped ==
    ASSUME PayrollTyped, NEW c \in Callers,
           \/ Ready(c) /\ GeneratePayroll(c)
           \/ Busy(c) /\ \/ \E s \in Staff : ComputeFigures(c, s) \/ CreditPay(c, s)
                         \/ WriteSlip(c) \/ FinishGeneration(c)
    PROVE  PayrollTypeOK' /\ PayrollCall(calls'[c]) /\ WalletShape'
<1> USE DEF PayrollTyped, AttendanceTyped, PayrollTypeOK
<1>0. PayrollCall(calls[c])
  BY DEF PayrollCalls
<1>1. CASE GeneratePayroll(c)
  <2>1. PICK r : r = [left |-> Staff, nets |-> [s \in Staff |-> 0]]
    OBVIOUS
  <2>2. calls'[c].stage = "figures" /\ calls'[c].saw = r
    BY <1>1, <2>1, Begun DEF GeneratePayroll
  <2>3. r.left = Staff /\ r.nets \in [Staff -> Int]
    BY <2>1
  <2>4. PayrollCall(calls'[c])
    BY <2>2, <2>3 DEF PayrollCall
  <2> QED BY <1>1, <2>4 DEF GeneratePayroll, payroll, WalletShape
<1>2. ASSUME NEW s \in Staff, ComputeFigures(c, s) PROVE PayrollTypeOK' /\ PayrollCall(calls'[c]) /\ WalletShape'
  <2>1. PICK g : g = calls[c].saw
    OBVIOUS
  <2>2. g.left \subseteq Staff /\ g.nets \in [Staff -> Int]
    BY <1>0, <1>2, <2>1 DEF PayrollCall, ComputeFigures, At
  <2>3. PICK nets : nets = [g.nets EXCEPT ![s] = Due(s)]
    OBVIOUS
  <2>4. nets \in [Staff -> Int]
    BY <2>2, <2>3, DueTyped
  <2>5. PICK r : r = [left |-> g.left \ {s}, nets |-> nets, found |-> slip[s].status # "none", issue |-> slip[s].issue]
    OBVIOUS
  <2>6. calls'[c] = [stage |-> "write_slip", on |-> s, saw |-> r]
    BY <1>2, <2>1, <2>3, <2>5 DEF ComputeFigures, Continue, Shape
  <2>7. calls'[c].stage = "write_slip" /\ calls'[c].on = s /\ calls'[c].saw = r
    BY <2>6, Selects
  <2>8. r.left \subseteq Staff /\ r.nets = nets /\ r.found \in BOOLEAN /\ r.issue = slip[s].issue
    BY <2>2, <2>5
  <2>9. slip[s].issue \in Nat
    BY DEF PayslipRows
  <2>10. PayrollCall(calls'[c])
    BY <2>4, <2>7, <2>8, <2>9 DEF PayrollCall
  <2> QED BY <1>2, <2>10 DEF ComputeFigures, payroll, WalletShape
<1>3. CASE WriteSlip(c)
  <2>1. PICK g, s : g = calls[c].saw /\ s = calls[c].on
    OBVIOUS
  <2>2. s \in Staff /\ g.left \subseteq Staff /\ g.nets \in [Staff -> Int]
    BY <1>0, <1>3, <2>1 DEF PayrollCall, WriteSlip, At
  <2>3. slip' \in [Staff -> PayslipRows]
    <3>1. PICK net \in Int : net = g.nets[s]
      BY <2>2
    <3>2. PICK row : row = [status |-> "DRAFT", net |-> net, issue |-> 0]
      OBVIOUS
    <3>3. row \in PayslipRows
      BY <3>2 DEF PayslipRows
    <3>4. slip' = slip \/ slip' = [slip EXCEPT ![s].net = net] \/ slip' = [slip EXCEPT ![s] = row]
      BY <1>3, <2>1, <3>1, <3>2 DEF WriteSlip
    <3> QED BY <3>3, <3>4, NetWritten
  <2>4. PICK r : r = [left |-> IF g.left = {} THEN Staff ELSE g.left, nets |-> g.nets]
    OBVIOUS
  <2>5. r.left \subseteq Staff /\ r.nets = g.nets
    BY <2>2, <2>4
  <2>6. PICK stage \in {"credit", "figures"} : stage = IF g.left = {} THEN "credit" ELSE "figures"
    OBVIOUS
  <2>7. calls'[c] = Idle \/ calls'[c] = [stage |-> stage, on |-> "nothing", saw |-> r]
    BY <1>3, <2>1, <2>4, <2>6 DEF WriteSlip, Continue, Return, Shape
  <2>8. PayrollCall(calls'[c])
    <3>1. CASE calls'[c] = Idle
      BY <3>1 DEF PayrollCall, Idle
    <3>2. CASE calls'[c] = [stage |-> stage, on |-> "nothing", saw |-> r]
      <4>1. calls'[c].stage = stage /\ calls'[c].saw = r
        BY <3>2, Selects
      <4> QED BY <2>2, <2>5, <4>1 DEF PayrollCall
    <3> QED BY <2>7, <3>1, <3>2
  <2> QED BY <1>3, <2>3, <2>8 DEF WriteSlip, WalletShape
<1>4. ASSUME NEW s \in Staff, CreditPay(c, s) PROVE PayrollTypeOK' /\ PayrollCall(calls'[c]) /\ WalletShape'
  <2>1. PICK g : g = calls[c].saw
    OBVIOUS
  <2>2. g.left \subseteq Staff /\ g.nets \in [Staff -> Int]
    BY <1>0, <1>4, <2>1 DEF PayrollCall, CreditPay, At
  <2>3. PICK r : r = [left |-> g.left \ {s}, nets |-> g.nets]
    OBVIOUS
  <2>4. r.left \subseteq Staff /\ r.nets = g.nets
    BY <2>2, <2>3
  <2>5. calls'[c].stage \in {"generated", "credit"} /\ calls'[c].saw = r
    BY <1>4, <2>1, <2>3, Gone DEF CreditPay
  <2>6. PayrollCall(calls'[c])
    BY <2>2, <2>4, <2>5 DEF PayrollCall
  <2>7. Post(s, Base, g.nets[s]) /\ g.nets[s] \in Int
    BY <1>4, <2>1, <2>2 DEF CreditPay
  <2>8. WalletShape' /\ \A x \in Staff : wallet'[x].balance \in Int /\ \A t \in wallet'[x].entries : t.amount \in Int
    BY <2>7, PostTyped
  <2> QED BY <1>4, <2>6, <2>8 DEF CreditPay
<1>5. CASE FinishGeneration(c)
  <2>1. calls'[c] = Idle
    BY <1>5 DEF FinishGeneration, Return, Continue, Shape
  <2>2. PayrollCall(calls'[c])
    BY <2>1 DEF PayrollCall, Idle
  <2> QED BY <1>5, <2>2 DEF FinishGeneration, PeriodStatuses, WalletShape
<1> QED BY <1>1, <1>2, <1>3, <1>4, <1>5

LEMMA IdleTyped ==
    ASSUME Shape, NEW c \in Callers, Return(c)
    PROVE  calls'[c] = Idle /\ PayrollCall(calls'[c])
<1>1. calls'[c] = Idle
  BY DEF Return, Continue, Shape
<1> QED BY <1>1 DEF PayrollCall, Idle

LEMMA GoOnTyped ==
    ASSUME Shape, NEW c \in Callers, NEW then, ThenTyped(then), GoOn(c, then)
    PROVE  PayrollCall(calls'[c]) /\ \/ then = Alone /\ calls'[c] = Idle
                                     \/ then # Alone /\ calls'[c].stage = "approve_drafts" /\ calls'[c].saw = then
<1>1. CASE then = Alone
  BY <1>1, IdleTyped DEF GoOn
<1>2. CASE then # Alone
  <2>1. calls'[c] = [stage |-> "approve_drafts", on |-> "nothing", saw |-> then]
    BY <1>2 DEF GoOn, Continue, Shape
  <2>2. calls'[c].stage = "approve_drafts" /\ calls'[c].saw = then
    BY <2>1, Selects
  <2> QED BY <1>2, <2>2 DEF PayrollCall, ThenTyped
<1> QED BY <1>1, <1>2

\* What remains to be done of a difference.
LEMMA DifferenceIs ==
    ASSUME NEW kind, NEW delta, NEW n, NEW then, NEW d, d = Difference(kind, delta, n, then)
    PROVE  d.kind = kind /\ d.delta = delta /\ d.n = n /\ d.then = then
BY DEF Difference

\* Recalculation, and the posting of the difference it makes.
LEMMA RecalculateTyped ==
    ASSUME PayrollTyped, NEW c \in Callers,
           \/ Ready(c) /\ \E s \in Staff : \E net \in Figures(s) : RecalculatePayslip(c, s, net)
           \/ Busy(c) /\ (WriteRecalculated(c) \/ CountCorrections(c) \/ PostDifference(c))
    PROVE  PayrollTypeOK' /\ PayrollCall(calls'[c]) /\ WalletShape'
<1> USE DEF PayrollTyped, AttendanceTyped, PayrollTypeOK
<1>0. PayrollCall(calls[c])
  BY DEF PayrollCalls
<1>1. ASSUME NEW s \in Staff, NEW net \in Figures(s), RecalculatePayslip(c, s, net)
      PROVE  PayrollTypeOK' /\ PayrollCall(calls'[c]) /\ WalletShape'
  <2>1. PICK r : r = [net |-> net, old |-> slip[s].net, issue |-> slip[s].issue, then |-> Alone]
    OBVIOUS
  <2>2. calls'[c].stage = "recalculate" /\ calls'[c].on = s /\ calls'[c].saw = r
    BY <1>1, <2>1, Begun DEF RecalculatePayslip
  <2>3. r.net = net /\ r.old = slip[s].net /\ r.issue = slip[s].issue /\ r.then = Alone
    BY <2>1
  <2>4. net \in Int /\ slip[s].net \in Int /\ slip[s].issue \in Nat
    BY DueTyped DEF PayslipRows
  <2>5. PayrollCall(calls'[c])
    BY <2>2, <2>3, <2>4 DEF PayrollCall, ThenTyped
  <2> QED BY <1>1, <2>5 DEF RecalculatePayslip, payroll, WalletShape
<1>2. CASE WriteRecalculated(c)
  <2>1. PICK r, s : r = calls[c].saw /\ s = calls[c].on
    OBVIOUS
  <2>2. s \in Staff /\ r.net \in Int /\ r.old \in Int /\ ThenTyped(r.then)
    BY <1>0, <1>2, <2>1 DEF PayrollCall, WriteRecalculated, At
  <2>3. slip' \in [Staff -> PayslipRows]
    <3>1. PICK net \in Int : net = r.net
      BY <2>2
    <3>2. slip' = slip \/ slip' = [slip EXCEPT ![s].net = net]
      BY <1>2, <2>1, <3>1 DEF WriteRecalculated
    <3> QED BY <3>2, NetWritten
  <2>4. PayrollCall(calls'[c])
    <3>1. CASE GoOn(c, r.then)
      BY <2>2, <3>1, GoOnTyped
    <3>2. CASE Goto(c, "count", Difference("INDCORR", r.net - r.old, 0, r.then))
      <4>4. PICK delta \in Int : delta = r.net - r.old
        BY <2>2
      <4>1. PICK d : d = Difference("INDCORR", delta, 0, r.then)
        OBVIOUS
      <4>2. calls'[c].stage = "count" /\ calls'[c].on = s /\ calls'[c].saw = d
        BY <2>1, <3>2, <4>4, <4>1, Gone
      <4>3. d.delta = delta /\ d.then = r.then
        BY <4>1, DifferenceIs
      <4> QED BY <2>2, <4>4, <4>2, <4>3 DEF PayrollCall
    <3> QED BY <1>2, <2>1, <3>1, <3>2 DEF WriteRecalculated
  <2> QED BY <1>2, <2>3, <2>4 DEF WriteRecalculated, WalletShape
<1>3. CASE CountCorrections(c)
  <2>1. PICK d, s : d = calls[c].saw /\ s = calls[c].on
    OBVIOUS
  <2>2. s \in Staff /\ d.delta \in Int /\ ThenTyped(d.then)
    BY <1>0, <1>3, <2>1 DEF PayrollCall, CountCorrections, At
  <2>3. PICK n : Goto(c, "post", Difference(d.kind, d.delta, n + 1, d.then))
    BY <1>3, <2>1 DEF CountCorrections
  <2>4. PICK e : e = Difference(d.kind, d.delta, n + 1, d.then)
    OBVIOUS
  <2>5. calls'[c].stage = "post" /\ calls'[c].on = s /\ calls'[c].saw = e
    BY <2>1, <2>3, <2>4, Gone
  <2>6. e.delta = d.delta /\ e.then = d.then
    BY <2>4, DifferenceIs
  <2>7. PayrollCall(calls'[c])
    BY <2>2, <2>5, <2>6 DEF PayrollCall
  <2> QED BY <1>3, <2>7 DEF CountCorrections, payroll, WalletShape
<1>4. CASE PostDifference(c)
  <2>1. PICK d, s : d = calls[c].saw /\ s = calls[c].on
    OBVIOUS
  <2>2. d.delta \in Int /\ ThenTyped(d.then)
    BY <1>0, <1>4, <2>1 DEF PayrollCall, PostDifference, At
  <2>3. Post(s, Reference(d.kind, d.n), d.delta) /\ GoOn(c, d.then)
    BY <1>4, <2>1 DEF PostDifference
  <2>4. WalletShape' /\ \A x \in Staff : wallet'[x].balance \in Int /\ \A t \in wallet'[x].entries : t.amount \in Int
    BY <2>2, <2>3, PostTyped
  <2>5. PayrollCall(calls'[c])
    BY <2>2, <2>3, GoOnTyped
  <2> QED BY <1>4, <2>4, <2>5 DEF PostDifference
<1> QED BY <1>1, <1>2, <1>3, <1>4

\* Approval and correction.
LEMMA ApproveTyped ==
    ASSUME PayrollTyped, NEW c \in Callers,
           \/ Ready(c) /\ \/ ApprovePeriod(c) \/ RequestCorrection(c)
                          \/ \E s \in Staff : \E net \in Figures(s) : CorrectPayslip(c, s, net)
           \/ Busy(c) /\ \/ \E s \in Staff : ApproveDraft(c, s)
                         \/ ReleasePeriod(c) \/ PublishPayslips(c) \/ WriteSentBack(c) \/ SupersedePayslip(c)
    PROVE  PayrollTypeOK' /\ PayrollCall(calls'[c]) /\ WalletShape'
<1> USE DEF PayrollTyped, AttendanceTyped, PayrollTypeOK
<1>0. PayrollCall(calls[c])
  BY DEF PayrollCalls
<1>1. CASE ApprovePeriod(c)
  <2>1. calls'[c].stage = "approve_drafts" /\ calls'[c].saw = {s \in Staff : slip[s].status = "DRAFT"}
    BY <1>1, Begun DEF ApprovePeriod
  <2>2. PayrollCall(calls'[c])
    BY <2>1 DEF PayrollCall
  <2> QED BY <1>1, <2>2 DEF ApprovePeriod, payroll, WalletShape
<1>2. CASE RequestCorrection(c)
  <2>1. calls'[c].stage = "send_back"
    BY <1>2, Begun DEF RequestCorrection
  <2>2. PayrollCall(calls'[c])
    BY <2>1 DEF PayrollCall
  <2> QED BY <1>2, <2>2 DEF RequestCorrection, payroll, WalletShape
<1>3. ASSUME NEW s \in Staff, NEW net \in Figures(s), CorrectPayslip(c, s, net)
      PROVE  PayrollTypeOK' /\ PayrollCall(calls'[c]) /\ WalletShape'
  <2>1. PICK r : r = [net |-> net, old |-> slip[s].net, issue |-> slip[s].issue]
    OBVIOUS
  <2>2. calls'[c].stage = "supersede" /\ calls'[c].on = s /\ calls'[c].saw = r
    BY <1>3, <2>1, Begun DEF CorrectPayslip
  <2>3. r.net = net /\ r.old = slip[s].net /\ r.issue = slip[s].issue
    BY <2>1
  <2>4. net \in Int /\ slip[s].net \in Int /\ slip[s].issue \in Nat
    BY DueTyped DEF PayslipRows
  <2>5. PayrollCall(calls'[c])
    BY <2>2, <2>3, <2>4 DEF PayrollCall
  <2> QED BY <1>3, <2>5 DEF CorrectPayslip, payroll, WalletShape
<1>4. ASSUME NEW s \in Staff, ApproveDraft(c, s) PROVE PayrollTypeOK' /\ PayrollCall(calls'[c]) /\ WalletShape'
  <2>1. PICK rest : rest = calls[c].saw \ {s}
    OBVIOUS
  <2>2. rest \subseteq Staff
    BY <1>0, <1>4, <2>1 DEF PayrollCall, ApproveDraft, At
  <2>3. PayrollCall(calls'[c])
    <3>1. CASE Recalculable(s)
      <4>1. PICK r : r = [net |-> Due(s), old |-> slip[s].net, issue |-> slip[s].issue, then |-> rest]
        OBVIOUS
      <4>2. calls'[c] = [stage |-> "recalculate", on |-> s, saw |-> r]
        BY <1>4, <2>1, <3>1, <4>1 DEF ApproveDraft, Continue, Shape
      <4>3. calls'[c].stage = "recalculate" /\ calls'[c].on = s /\ calls'[c].saw = r
        BY <4>2, Selects
      <4>4. r.net = Due(s) /\ r.old = slip[s].net /\ r.issue = slip[s].issue /\ r.then = rest
        BY <4>1
      <4>5. Due(s) \in Int /\ slip[s].net \in Int /\ slip[s].issue \in Nat
        BY DueTyped DEF PayslipRows
      <4> QED BY <2>2, <4>3, <4>4, <4>5 DEF PayrollCall, ThenTyped
    <3>2. CASE ~Recalculable(s)
      <4>1. calls'[c].stage = "approve_drafts" /\ calls'[c].saw = rest
        BY <1>4, <2>1, <3>2, Gone DEF ApproveDraft
      <4> QED BY <2>2, <4>1 DEF PayrollCall
    <3> QED BY <3>1, <3>2
  <2> QED BY <1>4, <2>3 DEF ApproveDraft, payroll, WalletShape
<1>5. CASE ReleasePeriod(c)
  <2>1. calls'[c].stage = "publish"
    BY <1>5, Gone DEF ReleasePeriod
  <2>2. PayrollCall(calls'[c])
    BY <2>1 DEF PayrollCall
  <2> QED BY <1>5, <2>2 DEF ReleasePeriod, PeriodStatuses, WalletShape
<1>6. CASE PublishPayslips(c)
  <2>1. \A s \in Staff : [slip[s] EXCEPT !.status = "PUBLISHED"] \in PayslipRows
    BY DEF PayslipRows
  <2>2. slip' \in [Staff -> PayslipRows]
    BY <1>6, <2>1 DEF PublishPayslips
  <2> QED BY <1>6, <2>2, IdleTyped DEF PublishPayslips, WalletShape
<1>7. CASE WriteSentBack(c)
  BY <1>7, IdleTyped DEF WriteSentBack, PeriodStatuses, WalletShape
<1>8. CASE SupersedePayslip(c)
  <2>1. PICK r, s : r = calls[c].saw /\ s = calls[c].on
    OBVIOUS
  <2>2. s \in Staff /\ r.net \in Int /\ r.old \in Int /\ r.issue \in Nat
    BY <1>0, <1>8, <2>1 DEF PayrollCall, SupersedePayslip, At
  <2>3. slip' \in [Staff -> PayslipRows]
    <3>1. PICK row : row = [status |-> "CORRECTED", net |-> r.net, issue |-> r.issue + 1]
      OBVIOUS
    <3>2. row \in PayslipRows
      BY <2>2, <3>1 DEF PayslipRows
    <3>3. slip' = slip \/ slip' = [slip EXCEPT ![s] = row]
      BY <1>8, <2>1, <3>1 DEF SupersedePayslip
    <3> QED BY <3>2, <3>3
  <2>4. PayrollCall(calls'[c])
    <3>1. CASE Return(c)
      BY <3>1, IdleTyped
    <3>2. CASE Goto(c, "post", Difference("CORR", r.net - r.old, r.issue + 1, Alone))
      <4>4. PICK delta \in Int : delta = r.net - r.old
        BY <2>2
      <4>1. PICK d : d = Difference("CORR", delta, r.issue + 1, Alone)
        OBVIOUS
      <4>2. calls'[c].stage = "post" /\ calls'[c].on = s /\ calls'[c].saw = d
        BY <2>1, <3>2, <4>4, <4>1, Gone
      <4>3. d.delta = delta /\ d.then = Alone
        BY <4>1, DifferenceIs
      <4> QED BY <2>2, <4>4, <4>2, <4>3 DEF PayrollCall, ThenTyped
    <3> QED BY <1>8, <2>1, <3>1, <3>2 DEF SupersedePayslip
  <2> QED BY <1>8, <2>3, <2>4 DEF SupersedePayslip, WalletShape
<1> QED BY <1>1, <1>2, <1>3, <1>4, <1>5, <1>6, <1>7, <1>8

\* Adjustments.
AdjustmentStep(c) ==
    \/ Ready(c) /\ \E x \in Adjustable : \/ RemoveAdjustment(c, x)
                                         \/ \E amount \in Amounts : CreateAdjustment(c, x, amount) \/ CorrectAdjustment(c, x, amount)
    \/ Busy(c) /\ (WriteAdjustmentRemoved(c) \/ \E y \in Adjustable : WriteAdjustmentCorrected(c, y))

LEMMA AdjustmentTyped ==
    ASSUME PayrollTyped, NEW c \in Callers, AdjustmentStep(c)
    PROVE  PayrollTypeOK' /\ PayrollCall(calls'[c]) /\ WalletShape' /\ UNCHANGED <<period, slip, wallet>>
<1> USE DEF PayrollTyped, AttendanceTyped, PayrollTypeOK
<1>0. PayrollCall(calls[c])
  BY DEF PayrollCalls
<1>1. ASSUME NEW x \in Adjustable, RemoveAdjustment(c, x)
      PROVE  PayrollTypeOK' /\ PayrollCall(calls'[c]) /\ UNCHANGED <<period, slip, wallet>>
  <2>1. calls'[c].stage = "remove_adjustment" /\ calls'[c].on = x
    BY <1>1, Begun DEF RemoveAdjustment
  <2> QED BY <1>1, <2>1 DEF PayrollCall, RemoveAdjustment, payroll
<1>2. ASSUME NEW x \in Adjustable, NEW amount \in Amounts, CorrectAdjustment(c, x, amount)
      PROVE  PayrollTypeOK' /\ PayrollCall(calls'[c]) /\ UNCHANGED <<period, slip, wallet>>
  <2>1. calls'[c].stage = "correct_adjustment" /\ calls'[c].on = x /\ calls'[c].saw = amount
    BY <1>2, Begun DEF CorrectAdjustment
  <2> QED BY <1>2, <2>1 DEF PayrollCall, CorrectAdjustment, payroll
<1>3. ASSUME NEW x \in Adjustable, NEW amount \in Amounts, CreateAdjustment(c, x, amount)
      PROVE  PayrollTypeOK' /\ PayrollCall(calls'[c]) /\ UNCHANGED <<period, slip, wallet>>
  <2>1. PICK row : row = [status |-> "ACTIVE", amount |-> amount, of |-> "none"]
    OBVIOUS
  <2>2. row \in DeductionRows
    BY <2>1 DEF DeductionRows
  <2>3. deduction' = [deduction EXCEPT ![x] = row] /\ calls' = calls
    BY <1>3, <2>1 DEF CreateAdjustment, Once
  <2>4. deduction' \in [Adjustable -> DeductionRows]
    BY <2>2, <2>3
  <2> QED BY <1>0, <1>3, <2>3, <2>4 DEF CreateAdjustment
<1>4. ASSUME NEW y \in Adjustable, WriteAdjustmentCorrected(c, y)
      PROVE  PayrollTypeOK' /\ PayrollCall(calls'[c]) /\ UNCHANGED <<period, slip, wallet>>
  <2>1. PICK x \in Adjustable, amount \in Adjustable \cup Amounts : x = calls[c].on /\ amount = calls[c].saw
    BY <1>0, <1>4 DEF PayrollCall, WriteAdjustmentCorrected, At
  <2>2. amount \in Amounts
    BY <1>0, <1>4, <2>1 DEF PayrollCall, WriteAdjustmentCorrected, At
  <2>3. PICK row, old : row = [status |-> "ACTIVE", amount |-> amount, of |-> x] /\ old = [deduction[x] EXCEPT !.status = "SUPERSEDED"]
    OBVIOUS
  <2>4. row \in DeductionRows
    BY <2>2, <2>3 DEF DeductionRows
  <2>5. deduction[x] \in DeductionRows
    OBVIOUS
  <2>6. old \in DeductionRows
    BY <2>3, <2>5 DEF DeductionRows
  <2>7. \/ deduction' = deduction
        \/ deduction' = [z \in Adjustable |-> CASE z = y -> row [] z = x /\ z # y -> old [] OTHER -> deduction[z]]
    BY <1>4, <2>1, <2>3 DEF WriteAdjustmentCorrected
  <2>8. deduction' \in [Adjustable -> DeductionRows]
    BY <2>4, <2>6, <2>7
  <2> QED BY <1>4, <2>8, IdleTyped DEF WriteAdjustmentCorrected
<1>5. ASSUME WriteAdjustmentRemoved(c) PROVE PayrollTypeOK' /\ PayrollCall(calls'[c]) /\ UNCHANGED <<period, slip, wallet>>
  <2>1. PICK x, none : x = calls[c].on /\ none = [status |-> "none", amount |-> 0, of |-> "none"]
    OBVIOUS
  <2>2. none \in DeductionRows
    BY <2>1 DEF DeductionRows
  <2>3. \A y \in Adjustable : [deduction[y] EXCEPT !.of = "none"] \in DeductionRows
    <3> TAKE y \in Adjustable
    <3>1. deduction[y] \in DeductionRows
      OBVIOUS
    <3> QED BY <3>1 DEF DeductionRows
  <2>4. deduction' = [y \in Adjustable |-> IF y = x THEN none
                                           ELSE IF deduction[y].of = x THEN [deduction[y] EXCEPT !.of = "none"] ELSE deduction[y]]
    BY <1>5, <2>1 DEF WriteAdjustmentRemoved
  <2>5. deduction' \in [Adjustable -> DeductionRows]
    BY <2>2, <2>3, <2>4
  <2>6. UNCHANGED <<period, slip, wallet>> /\ PayrollCall(calls'[c])
    BY <1>5, IdleTyped DEF WriteAdjustmentRemoved
  <2> QED BY <2>5, <2>6
<1>6. AdjustmentStep(c) => PayrollTypeOK' /\ PayrollCall(calls'[c]) /\ UNCHANGED <<period, slip, wallet>>
  BY <1>1, <1>2, <1>3, <1>4, <1>5 DEF AdjustmentStep
<1> QED BY <1>6 DEF WalletShape

LEMMA PayrollKeepsTypes ==
    ASSUME PayrollTyped, NEW c \in Callers, PayrollNext(c)
    PROVE  PayrollTypeOK' /\ PayrollCall(calls'[c]) /\ WalletShape'
BY GenerateTyped, RecalculateTyped, ApproveTyped, AdjustmentTyped
   DEF PayrollNext, PayrollStep, PayrollRequest, AdjustmentRequest, AdjustmentStep

\* Handlers of one part are not at the stages of another.
LEMMA StagesApart ==
    ASSUME NEW call
    PROVE  /\ call.stage \in AttendanceStages \cup StaffPayoutStages \cup {"idle"} => PayrollCall(call)
           /\ call.stage \in PayrollStages \cup StaffPayoutStages \cup {"idle"} => AttendanceCall(call)
BY DEF AttendanceStages, StaffPayoutStages, BeforeDebit, PayrollStages, PayrollCall, AttendanceCall

\* The payout takes whole amounts from the wallets, and leaves the rest of the payroll as it is.
LEMMA PayoutPosts ==
    ASSUME PayoutTyped, NEW c \in Callers, StaffPayoutNext(c)
    PROVE  /\ UNCHANGED <<period, slip, deduction>>
           /\ wallet' = wallet \/ \E s : \E ref : \E amount \in Int : ref[1] = "WITHDRAWAL" /\ Post(s, ref, amount)
<1>1. CASE DebitWallet(c)
  <2>1. PICK w, r, ref : w = calls[c].on /\ r = withdrawal[w] /\ ref = Reference("WITHDRAWAL", w)
    OBVIOUS
  <2>2. wallet' = wallet \/ Post(r.staff, ref, -r.amount)
    BY <1>1, <2>1 DEF DebitWallet
  <2>3. ref[1] = "WITHDRAWAL"
    BY <2>1 DEF Reference
  <2>4. r.amount \in Int
    <3>1. w \in Withdrawals
      BY <1>1, <2>1 DEF PayoutTyped, PayoutCalls, PayoutCall, AtWithdrawal, DebitWallet, At
    <3>2. AskedFor[w] \in Nat /\ AskedFor[w] = r.amount
      BY <2>1, <3>1, AskedForIsNat DEF PayoutTyped, AskedFor
    <3> QED BY <3>2
  <2> QED BY <1>1, <2>2, <2>3, <2>4 DEF DebitWallet
<1>2. CASE ~DebitWallet(c)
  BY <1>2
     DEF StaffPayoutNext, StaffPayoutStep, StaffPayoutRequest, BankRequest, ReleaseRequest, payroll, Reserve, OpenIf, CreateRecipient, Refused, WriteTransferCode,
         WriteFailed, CompleteTransfer, AskGateway, CreateAccount, WriteChange, Initiate, SetReleaseActive, ApproveChange, RejectChange,
         SubmitFirstAccount, SubmitChange, RequestWithdrawal, ApproveTransfer, Webhook, ResyncWithdrawal
<1> QED BY <1>1, <1>2

-----------------------------------------------------------------------------
(* Every step keeps the types of the payroll and of what it is made from.  *)

LEMMA CallsStayTyped ==
    ASSUME PayrollTyped, NEW c \in Callers, \A d \in Callers \ {c} : calls'[d] = calls[d],
           PayrollCall(calls'[c]), AttendanceCall(calls'[c])
    PROVE  PayrollCalls' /\ AttendanceCalls'
BY DEF PayrollTyped, AttendanceTyped, PayrollCalls, AttendanceCalls

LEMMA TimeTyped ==
    ASSUME AttendanceTypeOK, TimePasses
    PROVE  AttendanceTypeOK'
<1>1. part \in {1, 2, 3, 4} /\ today \in Nat
  BY DEF AttendanceTypeOK, Parts
<1>2. part' \in 1..4 /\ today' \in Nat
  <2>1. CASE part = Cutoff
    BY <1>1, <2>1 DEF TimePasses
  <2>2. CASE part # Cutoff
    BY <1>1, <2>2 DEF TimePasses, Cutoff
  <2> QED BY <2>1, <2>2
<1> QED BY <1>2 DEF AttendanceTypeOK, TimePasses, Parts

LEMMA TypedStays ==
    ASSUME PayrollTyped, PayoutTyped, [Next]_vars
    PROVE  PayrollTyped'
<1> USE DEF PayrollTyped, AttendanceTyped
<1>1. ASSUME NEW c \in Callers, AttendanceNext(c) PROVE PayrollTyped'
  <2>1. AttendanceTypeOK' /\ AttendanceCall(calls'[c])
    BY <1>1, AttendanceKeepsTypes
  <2>2. Acts(c, AttendanceStages) /\ UNCHANGED payroll
    BY <1>1, AttendanceActs DEF AttendanceNext
  <2>3. PayrollCall(calls'[c])
    BY <2>2, StagesApart DEF Acts, PayrollCalls
  <2>4. PayrollCalls' /\ AttendanceCalls' /\ Shape'
    BY <2>1, <2>2, <2>3, CallsStayTyped DEF Acts
  <2> QED BY <2>1, <2>2, <2>4 DEF payroll, PayrollTypeOK, WalletShape
<1>2. ASSUME NEW c \in Callers, PayrollNext(c) PROVE PayrollTyped'
  <2>1. PayrollTypeOK' /\ PayrollCall(calls'[c]) /\ WalletShape'
    BY <1>2, PayrollKeepsTypes
  <2>2. Acts(c, PayrollStages) /\ UNCHANGED attendance
    BY <1>2, PayrollActs DEF PayrollNext
  <2>3. AttendanceCall(calls'[c])
    BY <2>2, StagesApart DEF Acts, AttendanceCalls
  <2>4. PayrollCalls' /\ AttendanceCalls' /\ Shape'
    BY <2>1, <2>2, <2>3, CallsStayTyped DEF Acts
  <2> QED BY <2>1, <2>2, <2>4 DEF attendance, AttendanceTypeOK
<1>3. ASSUME NEW c \in Callers, StaffPayoutNext(c) PROVE PayrollTyped'
  <2>1. Acts(c, StaffPayoutStages) /\ UNCHANGED attendance
    BY <1>3, StaffPayoutActs DEF StaffPayoutNext
  <2>2. AttendanceCall(calls'[c]) /\ PayrollCall(calls'[c])
    BY <2>1, StagesApart DEF Acts, AttendanceCalls, PayrollCalls
  <2>3. PayrollCalls' /\ AttendanceCalls' /\ Shape'
    BY <2>1, <2>2, CallsStayTyped DEF Acts
  <2>4. /\ UNCHANGED <<period, slip, deduction>>
        /\ wallet' = wallet \/ \E s : \E ref : \E amount \in Int : Post(s, ref, amount)
    BY <1>3, PayoutPosts
  <2>5. WalletShape' /\ \A x \in Staff : wallet'[x].balance \in Int /\ \A t \in wallet'[x].entries : t.amount \in Int
    BY <2>4, PostTyped DEF WalletShape, PayrollTypeOK
  <2>6. PayrollTypeOK'
    BY <2>4, <2>5 DEF PayrollTypeOK
  <2> QED BY <2>1, <2>3, <2>5, <2>6 DEF attendance, AttendanceTypeOK
<1>4. ASSUME calls' = calls, UNCHANGED payroll, AttendanceTypeOK'
      PROVE  PayrollTyped'
  BY <1>4 DEF Shape, AttendanceCalls, PayrollCalls, payroll, PayrollTypeOK, WalletShape
<1>5. ASSUME NEW c \in Callers, PayslipNext(c) PROVE PayrollTyped'
  BY <1>4, <1>5 DEF attendance, AttendanceTypeOK, PayslipNext, PreviewPayslip, Once
<1>6. ASSUME NEW c \in Callers, Dies(c) PROVE PayrollTyped'
  <2>1. calls' = [calls EXCEPT ![c] = Idle] /\ UNCHANGED <<payroll, attendance>>
    BY <1>6 DEF Dies, Crash
  <2>2. Shape' /\ calls'[c] = Idle /\ \A d \in Callers \ {c} : calls'[d] = calls[d]
    BY <2>1 DEF Shape
  <2>3. PayrollCall(Idle) /\ AttendanceCall(Idle)
    BY StagesApart DEF Idle
  <2>4. PayrollCalls' /\ AttendanceCalls'
    BY <2>2, <2>3, CallsStayTyped
  <2> QED BY <2>1, <2>2, <2>4 DEF payroll, attendance, PayrollTypeOK, AttendanceTypeOK, WalletShape
<1>7. CASE TimePasses /\ UNCHANGED <<payroll, staffPayout, sheet>>
  BY <1>4, <1>7, TimeTyped DEF TimePasses, handlers
<1>8. CASE Gateway /\ UNCHANGED <<attendance, sheet>>
  BY <1>4, <1>8 DEF Gateway, Settle, handlers, attendance, AttendanceTypeOK
<1>9. CASE UNCHANGED vars
  BY <1>4, <1>9 DEF vars, handlers, attendance, AttendanceTypeOK
<1> QED BY <1>1, <1>2, <1>3, <1>5, <1>6, <1>7, <1>8, <1>9 DEF Next

LEMMA TypedAtFirst == Init => PayrollTyped
<1> SUFFICES ASSUME Init PROVE PayrollTyped
  OBVIOUS
<1>1. Shape /\ \A c \in Callers : calls[c] = Idle
  BY DEF Init, HandlersInit, Shape
<1>2. PayrollCall(Idle) /\ AttendanceCall(Idle)
  BY StagesApart DEF Idle
<1>3. PayrollCalls /\ AttendanceCalls
  BY <1>1, <1>2 DEF PayrollCalls, AttendanceCalls
<1>4. AttendanceTypeOK
  <2>1. today \in Nat
    <3>1. IsFiniteSet(Days)
      BY AttendanceAssumption DEF Days
    <3>2. Cardinality(Days) \in Nat
      BY <3>1, FS_CardinalityType
    <3> QED BY <3>2 DEF Init, AttendanceInit
  <2>2. PICK came : came = [NoRecord EXCEPT !.status = "PRESENT", !.in = 1, !.out = TRUE]
    OBVIOUS
  <2>3. came \in AttendanceRows
    <3>1. "PRESENT" \in AttendanceStatuses /\ 1 \in 0..Cutoff
      BY DEF AttendanceStatuses, Cutoff
    <3> QED BY <2>2, <3>1, NoRecordTyped DEF AttendanceRows
  <2>4. record = [s \in Staff |-> [d \in Days |-> IF "time" \in scenario \/ DayType[d] = "OFF" THEN NoRecord ELSE came]]
    BY <2>2 DEF Init, AttendanceInit
  <2>5. record \in [Staff -> [Days -> AttendanceRows]]
    BY <2>3, <2>4, NoRecordTyped
  <2>6. part \in Parts /\ swept \in Nat
    BY DEF Init, AttendanceInit, Parts
  <2>7. leave \in [LeaveRequests -> LeaveStatuses]
    BY DEF Init, AttendanceInit, LeaveStatuses
  <2> QED BY <2>1, <2>5, <2>6, <2>7 DEF AttendanceTypeOK
<1>5. WalletShape
  BY CoverAtFirst DEF CoverInv
<1>6. PayrollTypeOK
  <2>1. period \in PeriodStatuses
    BY DEF Init, PayrollInit, PeriodStatuses
  <2>2. slip \in [Staff -> PayslipRows]
    BY DEF Init, PayrollInit, PayslipRows
  <2>3. deduction \in [Adjustable -> DeductionRows]
    BY DEF Init, PayrollInit, DeductionRows
  <2>4. \A s \in Staff : wallet[s].balance \in Int /\ \A t \in wallet[s].entries : t.amount \in Int
    BY PayrollAssumption DEF Init, PayrollInit
  <2> QED BY <2>1, <2>2, <2>3, <2>4 DEF PayrollTypeOK
<1> QED BY <1>1, <1>3, <1>4, <1>5, <1>6 DEF PayrollTyped, AttendanceTyped

-----------------------------------------------------------------------------
(* A wallet holds what its transactions add up to.                         *)

\* Credits count in the first of the sums that make a total, debits in the second.
LEMMA SumOfPart ==
    ASSUME NEW S, NEW v, NEW w, \A x \in S : v[x] \in Int /\ w[x] = IF v[x] > 0 THEN v[x] ELSE 0
    PROVE  Units(S, v) = Units(S, w) /\ SumOver(S, v) = SumOver(S, w)
<1>1. \A x \in S : 1..v[x] = 1..w[x]
  <2> TAKE x \in S
  <2>1. PICK i, j : i = v[x] /\ j = w[x] /\ i \in Int
    OBVIOUS
  <2>2. j = IF i > 0 THEN i ELSE 0
    BY <2>1
  <2>3. 1..i = 1..j
    BY <2>1, <2>2
  <2> QED BY <2>1, <2>3
<1> QED BY <1>1 DEF Units, SumOver

\* One more transaction changes the total by its amount.
LEMMA SumOneMore ==
    ASSUME NEW S, IsFiniteSet(S), NEW e, e \notin S, NEW D, D = S \cup {e}, NEW v, \A x \in D : v[x] \in Int,
           NEW u, \A x \in S : u[x] = v[x]
    PROVE  /\ SumOver(S, u) \in Nat
           /\ SumOver(D, v) = SumOver(S, u) + IF v[e] > 0 THEN v[e] ELSE 0
<1>1. PICK w : w = [x \in D |-> IF v[x] > 0 THEN v[x] ELSE 0]
  OBVIOUS
<1>2. w \in [D -> Nat]
  <2>1. ASSUME NEW x \in D PROVE w[x] \in Nat
    <3>1. PICK i \in Int : i = v[x]
      OBVIOUS
    <3> QED BY <1>1, <3>1
  <2> QED BY <1>1, <2>1
<1>3. Units(S, u) = Units(S, w) /\ SumOver(S, u) = SumOver(S, w)
  BY <1>1, SumOfPart
<1>4. SumOver(D, v) = SumOver(D, w)
  BY <1>1, SumOfPart
<1>5. IsFiniteSet(Units(S, u)) /\ SumOver(S, u) \in Nat
  BY SumIsNat
<1>6. IsFiniteSet(Units(S, w)) /\ e \in D
  BY <1>3, <1>5
<1>7. SumOver(D, w) = SumOver(S, w) + w[e]
  BY <1>2, <1>6, SumExtends
<1> QED BY <1>1, <1>3, <1>4, <1>5, <1>6, <1>7

LEMMA TotalAdds ==
    ASSUME NEW S, IsFiniteSet(S), NEW e, e \notin S, \A t \in S \cup {e} : t.amount \in Int
    PROVE  Total(S) \in Int /\ Total(S \cup {e}) = Total(S) + e.amount
<1>1. PICK T : T = S \cup {e}
  OBVIOUS
<1>2. PICK v, u, in, out : /\ v = [t \in T |-> t.amount] /\ u = [t \in T |-> -t.amount]
                           /\ in = [t \in S |-> t.amount] /\ out = [t \in S |-> -t.amount]
  OBVIOUS
<1>3. (\A t \in T : v[t] \in Int) /\ (\A t \in T : u[t] \in Int)
  <2> SUFFICES ASSUME NEW t \in T PROVE v[t] \in Int /\ u[t] \in Int
    OBVIOUS
  <2>1. PICK i \in Int : i = t.amount
    BY <1>1
  <2> QED BY <1>2, <2>1
<1>4. (\A t \in S : in[t] = v[t]) /\ (\A t \in S : out[t] = u[t])
  BY <1>1, <1>2
<1>5. SumOver(S, in) \in Nat /\ SumOver(T, v) = SumOver(S, in) + IF v[e] > 0 THEN v[e] ELSE 0
  BY <1>1, <1>3, <1>4, SumOneMore
<1>6. SumOver(S, out) \in Nat /\ SumOver(T, u) = SumOver(S, out) + IF u[e] > 0 THEN u[e] ELSE 0
  BY <1>1, <1>3, <1>4, SumOneMore
<1>7. Total(T) = SumOver(T, v) - SumOver(T, u) /\ Total(S) = SumOver(S, in) - SumOver(S, out)
  BY <1>2 DEF Total
<1>8. PICK i \in Int : i = e.amount
  OBVIOUS
<1>9. v[e] = i /\ u[e] = -i
  BY <1>1, <1>2, <1>8
<1>10. PICK a, b, d : a \in Nat /\ b \in Nat /\ a = SumOver(S, in) /\ b = SumOver(S, out) /\ d = SumOver(T, v) - SumOver(T, u)
  BY <1>5, <1>6
<1>11. d = a - b + i
  BY <1>5, <1>6, <1>8, <1>9, <1>10
<1> QED BY <1>1, <1>7, <1>8, <1>10, <1>11

LEMMA TotalOfNothing == Total({}) = 0
<1>1. PICK no, none : no = [t \in {} |-> t.amount] /\ none = [t \in {} |-> -t.amount]
  OBVIOUS
<1>2. Units({}, no) = {} /\ Units({}, none) = {}
  BY DEF Units
<1> QED BY <1>1, <1>2, FS_EmptySet DEF Total, SumOver

EntriesFinite == \A s \in Staff : IsFiniteSet(wallet[s].entries)

Sound == EntriesFinite /\ StaffWalletAddsUp

LEMMA PostSums ==
    ASSUME WalletShape, PayrollTypeOK, Sound, NEW s, NEW ref, NEW amount \in Int, Post(s, ref, amount)
    PROVE  Sound'
<1> USE DEF Sound
<1>1. CASE s \notin Staff \/ ref \in References(s)
  <2>1. \A x \in Staff : wallet'[x] = wallet[x]
    BY <1>1 DEF Post, WalletShape
  <2> QED BY <2>1 DEF EntriesFinite, StaffWalletAddsUp
<1>2. CASE s \in Staff /\ ref \notin References(s)
  <2>1. PICK entry : entry = [ref |-> ref, amount |-> amount]
    OBVIOUS
  <2>2. /\ wallet'[s].balance = wallet[s].balance + amount /\ wallet'[s].entries = wallet[s].entries \cup {entry}
        /\ \A x \in Staff \ {s} : wallet'[x] = wallet[x]
    BY <1>2, <2>1, PostAdds
  <2>3. entry.amount = amount /\ entry.ref = ref
    BY <2>1
  <2>4. entry \notin wallet[s].entries
    BY <1>2, <2>3 DEF References
  <2>5. PICK S : S = wallet[s].entries
    OBVIOUS
  <2>6. IsFiniteSet(S) /\ \A t \in S \cup {entry} : t.amount \in Int
    BY <1>2, <2>3, <2>5 DEF EntriesFinite, PayrollTypeOK
  <2>7. Total(S) \in Int /\ Total(S \cup {entry}) = Total(S) + amount
    BY <2>3, <2>4, <2>5, <2>6, TotalAdds
  <2>8. IsFiniteSet(S \cup {entry})
    BY <2>6, FS_AddElement
  <2>9. wallet[s].balance = Total(S)
    BY <1>2, <2>5 DEF StaffWalletAddsUp
  <2>10. IsFiniteSet(wallet'[s].entries) /\ wallet'[s].balance = Total(wallet'[s].entries)
    BY <2>2, <2>5, <2>7, <2>8, <2>9
  <2> QED BY <2>2, <2>10 DEF EntriesFinite, StaffWalletAddsUp
<1> QED BY <1>1, <1>2

\* What the payroll posts are whole amounts.
LEMMA PayrollPostsWhole ==
    ASSUME PayrollTyped, NEW c \in Callers, PayrollNext(c)
    PROVE  wallet' = wallet \/ \E s : \E ref : \E amount \in Int : Post(s, ref, amount)
<1>0. PayrollCall(calls[c])
  BY DEF PayrollTyped, PayrollCalls
<1>1. ASSUME NEW s \in Staff, CreditPay(c, s) PROVE \E ref : \E amount \in Int : Post(s, ref, amount)
  <2>1. calls[c].saw.nets[s] \in Int
    BY <1>0, <1>1 DEF CreditPay, At, PayrollCall
  <2> QED BY <1>1, <2>1 DEF CreditPay
<1>2. ASSUME PostDifference(c) PROVE \E s : \E ref : \E amount \in Int : Post(s, ref, amount)
  <2>1. calls[c].saw.delta \in Int
    BY <1>0, <1>2 DEF PostDifference, At, PayrollCall
  <2> QED BY <1>2, <2>1 DEF PostDifference
<1>3. ASSUME ~PostDifference(c), ~\E s \in Staff : CreditPay(c, s) PROVE wallet' = wallet
  <2>1. CASE Busy(c) /\ PayrollStep(c)
    BY <1>3, <2>1 DEF PayrollStep, ComputeFigures, ApproveDraft, WriteSlip, FinishGeneration, WriteRecalculated, CountCorrections,
       ReleasePeriod, PublishPayslips, WriteSentBack, SupersedePayslip, WriteAdjustmentRemoved, WriteAdjustmentCorrected, payroll
  <2>2. CASE Ready(c) /\ PayrollRequest(c)
    BY <2>2 DEF PayrollRequest, AdjustmentRequest, GeneratePayroll, ApprovePeriod, RequestCorrection, RecalculatePayslip,
       CorrectPayslip, RemoveAdjustment, CreateAdjustment, CorrectAdjustment, payroll
  <2> QED BY <2>1, <2>2 DEF PayrollNext
<1> QED BY <1>1, <1>2, <1>3

LEMMA WalletsElsewhere ==
    ASSUME [Next]_vars, \A c \in Callers : ~PayrollNext(c) /\ ~StaffPayoutNext(c)
    PROVE  UNCHANGED payroll
BY DEF Next, vars, AttendanceNext, PayslipNext, Dies, Gateway, Settle

LEMMA SoundStays ==
    ASSUME PayrollTyped, PayoutTyped, Sound, [Next]_vars
    PROVE  Sound'
<1>1. wallet' = wallet \/ \E s : \E ref : \E amount \in Int : Post(s, ref, amount)
  BY PayrollPostsWhole, PayoutPosts, WalletsElsewhere DEF payroll
<1>2. CASE wallet' = wallet
  BY <1>2 DEF Sound, EntriesFinite, StaffWalletAddsUp
<1>3. CASE \E s : \E ref : \E amount \in Int : Post(s, ref, amount)
  BY <1>3, PostSums DEF PayrollTyped
<1> QED BY <1>1, <1>2, <1>3

LEMMA SoundAtFirst == Init => Sound
<1> SUFFICES ASSUME Init, NEW s \in Staff PROVE IsFiniteSet(wallet[s].entries) /\ wallet[s].balance = Total(wallet[s].entries)
  BY DEF Sound, EntriesFinite, StaffWalletAddsUp
<1>1. PICK entry, amount : entry = [ref |-> Reference("OPENING", 0), amount |-> amount] /\ amount = Opening[s]
  OBVIOUS
<1>2. wallet[s].entries = {entry} /\ wallet[s].balance = amount /\ amount \in Int
  BY <1>1, PayrollAssumption DEF Init, PayrollInit
<1>3. entry.amount = amount
  BY <1>1
<1>4. PICK S : S = {}
  OBVIOUS
<1>5. IsFiniteSet(S) /\ Total(S) = 0
  BY <1>4, FS_EmptySet, TotalOfNothing
<1>6. IsFiniteSet(S \cup {entry}) /\ Total(S \cup {entry}) = 0 + amount
  <2>1. entry \notin S /\ \A t \in S \cup {entry} : t.amount \in Int
    BY <1>2, <1>3, <1>4
  <2>2. IsFiniteSet(S \cup {entry})
    BY <1>5, FS_AddElement
  <2>3. Total(S \cup {entry}) = Total(S) + entry.amount
    BY <1>5, <2>1, TotalAdds
  <2> QED BY <1>3, <1>5, <2>2, <2>3
<1>7. S \cup {entry} = {entry}
  BY <1>4
<1> QED BY <1>2, <1>6, <1>7

-----------------------------------------------------------------------------
(* One handler at a time: where the period is while it runs.               *)

\* At most one handler runs, until two overlap.
Single == overlapped \/ \A c, d \in Callers : Busy(c) /\ Busy(d) => c = d

InPhase(call, p) ==
    /\ call.stage \in {"figures", "write_slip", "credit", "generated"} => p = "DRAFT"
    /\ call.stage \in {"recalculate", "approve_drafts", "send_back"} => p = "AWAITING_RELEASE"
    /\ call.stage \in {"count", "post"} => call.saw.then = Alone \/ p = "AWAITING_RELEASE"
    /\ call.stage \in {"publish", "supersede"} => p = "RELEASED"

ShownToStaff(row) == row.status \in {"PUBLISHED", "CORRECTED"}
ShownOnceReleased == \A s \in Staff : ShownToStaff(slip[s]) => period = "RELEASED"

Phases == overlapped \/ (ShownOnceReleased /\ \A c \in Callers : InPhase(calls[c], period))

\* While none have overlapped, what handler c does it does alone.
LEMMA OneAtATime ==
    ASSUME Shape, Single, NEW c \in Callers, NEW S, Acts(c, S), ~overlapped'
    PROVE  /\ ~overlapped /\ \A d \in Callers \ {c} : At(d, "idle") /\ calls'[d] = calls[d]
           /\ Busy(c) \/ Quiet
<1>1. \A d \in Callers \ {c} : calls'[d] = calls[d]
  BY DEF Acts
<1>2. CASE overlapped' = overlapped /\ Busy(c)
  <2>1. \A d \in Callers \ {c} : ~Busy(d)
    BY <1>2 DEF Single
  <2> QED BY <1>1, <1>2, <2>1 DEF Busy
<1>3. CASE overlapped' = (overlapped \/ ~Quiet)
  <2>1. ~overlapped /\ Quiet
    BY <1>3
  <2> QED BY <1>1, <2>1 DEF Quiet
<1> QED BY <1>2, <1>3 DEF Acts

LEMMA SingleStays ==
    ASSUME Shape, Single, NEW c \in Callers, NEW S, Acts(c, S)
    PROVE  Single'
<1> SUFFICES ASSUME ~overlapped', NEW d \in Callers, NEW e \in Callers, calls'[d].stage # "idle", calls'[e].stage # "idle"
             PROVE  d = e
  BY DEF Single, Busy, At
<1>1. \A x \in Callers \ {c} : calls[x].stage = "idle" /\ calls'[x] = calls[x]
  BY OneAtATime DEF At
<1> QED BY <1>1

\* Only the handler that moves and the period matter.
LEMMA PhasesMove ==
    ASSUME Shape, Single, Phases, NEW c \in Callers, NEW S, Acts(c, S),
           ~overlapped' => ShownOnceReleased' /\ InPhase(calls'[c], period')
    PROVE  Phases'
<1> SUFFICES ASSUME ~overlapped', NEW d \in Callers PROVE InPhase(calls'[d], period')
  BY DEF Phases
<1>1. CASE d # c
  <2>1. calls'[d].stage = "idle"
    BY <1>1, OneAtATime DEF At
  <2> QED BY <2>1 DEF InPhase
<1>2. CASE d = c
  BY <1>2
<1> QED BY <1>1, <1>2

LEMMA PhasesElsewhere ==
    ASSUME Shape, Single, Phases, NEW c \in Callers, NEW S, Acts(c, S), UNCHANGED <<period, slip>>,
           S \cap PayrollStages = {}
    PROVE  Phases'
<1> SUFFICES ASSUME ~overlapped' PROVE ShownOnceReleased' /\ InPhase(calls'[c], period')
  BY PhasesMove
<1>1. ShownOnceReleased' /\ InPhase(calls[c], period)
  BY OneAtATime DEF Phases, ShownOnceReleased
<1>2. CASE calls'[c] = calls[c]
  BY <1>1, <1>2
<1>3. CASE calls'[c].stage \in S \cup {"idle"}
  <2>1. calls'[c].stage \notin PayrollStages
    BY <1>3 DEF PayrollStages
  <2> QED BY <1>1, <2>1 DEF InPhase, PayrollStages
<1> QED BY <1>2, <1>3 DEF Acts

\* The payroll moves from one status of the period to the next as its handlers do.
LEMMA PhasesPayroll ==
    ASSUME PayrollTyped, Single, Phases, NEW c \in Callers, PayrollNext(c)
    PROVE  Phases'
<1>1. Shape /\ Acts(c, PayrollStages)
  BY PayrollActs DEF PayrollTyped, AttendanceTyped
<1> SUFFICES ASSUME ~overlapped' PROVE ShownOnceReleased' /\ InPhase(calls'[c], period')
  BY <1>1, PhasesMove
<1>2. ShownOnceReleased /\ InPhase(calls[c], period)
  BY <1>1, OneAtATime DEF Phases
<1>3. \A s \in Staff : slip[s] \in PayslipRows
  BY DEF PayrollTyped, PayrollTypeOK
<1>4. ASSUME UNCHANGED slip, period' = period \/ period' = "RELEASED" \/ ~\E s \in Staff : ShownToStaff(slip[s])
      PROVE  ShownOnceReleased'
  BY <1>2, <1>4 DEF ShownOnceReleased
<1>5. ASSUME Return(c) PROVE InPhase(calls'[c], period')
  BY <1>1, <1>5, IdleTyped DEF InPhase, Idle
<1>6. CASE GeneratePayroll(c)
  <2>1. calls'[c].stage = "figures"
    BY <1>1, <1>6, Begun DEF GeneratePayroll
  <2> QED BY <1>2, <1>6, <2>1 DEF InPhase, GeneratePayroll, payroll, ShownOnceReleased
<1>7. CASE ApprovePeriod(c)
  <2>1. calls'[c].stage = "approve_drafts"
    BY <1>1, <1>7, Begun DEF ApprovePeriod
  <2> QED BY <1>2, <1>7, <2>1 DEF InPhase, ApprovePeriod, payroll, ShownOnceReleased
<1>8. CASE RequestCorrection(c)
  <2>1. calls'[c].stage = "send_back"
    BY <1>1, <1>8, Begun DEF RequestCorrection
  <2> QED BY <1>2, <1>8, <2>1 DEF InPhase, RequestCorrection, payroll, ShownOnceReleased
<1>9. ASSUME NEW s \in Staff, NEW net, RecalculatePayslip(c, s, net)
      PROVE  ShownOnceReleased' /\ InPhase(calls'[c], period')
  <2>1. calls'[c].stage = "recalculate"
    BY <1>1, <1>9, Begun DEF RecalculatePayslip
  <2> QED BY <1>2, <1>9, <2>1 DEF InPhase, RecalculatePayslip, Recalculable, payroll, ShownOnceReleased
<1>10. ASSUME NEW s \in Staff, NEW net, CorrectPayslip(c, s, net)
       PROVE  ShownOnceReleased' /\ InPhase(calls'[c], period')
  <2>1. calls'[c].stage = "supersede"
    BY <1>1, <1>10, Begun DEF CorrectPayslip
  <2> QED BY <1>2, <1>10, <2>1 DEF InPhase, CorrectPayslip, payroll, ShownOnceReleased
<1>11. ASSUME AdjustmentStep(c) PROVE ShownOnceReleased' /\ InPhase(calls'[c], period')
  <2>1. UNCHANGED <<period, slip>>
    BY <1>11, AdjustmentTyped
  <2>2. calls'[c] = calls[c] \/ calls'[c].stage \in {"remove_adjustment", "correct_adjustment", "idle"}
    BY <1>1, <1>11, Begun, IdleTyped
       DEF AdjustmentStep, RemoveAdjustment, CreateAdjustment, CorrectAdjustment, WriteAdjustmentRemoved,
           WriteAdjustmentCorrected, Once, Idle
  <2> QED BY <1>2, <2>1, <2>2 DEF InPhase, ShownOnceReleased
<1>12. ASSUME NEW s \in Staff, ComputeFigures(c, s) PROVE ShownOnceReleased' /\ InPhase(calls'[c], period')
  <2>1. PICK r : calls' = [calls EXCEPT ![c] = [stage |-> "write_slip", on |-> s, saw |-> r]]
    BY <1>12 DEF ComputeFigures, Continue
  <2>2. calls'[c].stage = "write_slip"
    BY <1>1, <2>1 DEF Shape
  <2>3. period = "DRAFT"
    BY <1>2, <1>12 DEF ComputeFigures, At, InPhase
  <2> QED BY <1>2, <1>12, <2>2, <2>3 DEF InPhase, ComputeFigures, payroll, ShownOnceReleased
<1>13. CASE WriteSlip(c)
  <2>1. period = "DRAFT" /\ period' = period
    BY <1>2, <1>13 DEF WriteSlip, At, InPhase
  <2>2. calls'[c].stage \in {"credit", "figures", "idle"}
    <3>1. CASE Return(c)
      BY <1>1, <3>1, IdleTyped DEF Idle
    <3>2. CASE ~Return(c)
      <4>1. PICK stage \in {"credit", "figures"}, r \in {[left |-> IF calls[c].saw.left = {} THEN Staff ELSE calls[c].saw.left, nets |-> calls[c].saw.nets]} :
                calls' = [calls EXCEPT ![c] = [stage |-> stage, on |-> "nothing", saw |-> r]]
        BY <1>13, <3>2 DEF WriteSlip, Continue
      <4> QED BY <1>1, <4>1 DEF Shape
    <3> QED BY <3>1, <3>2
  <2>3. \A s \in Staff : ~ShownToStaff(slip[s])
    BY <1>2, <2>1 DEF ShownOnceReleased
  <2>4. \A s \in Staff : slip'[s].status = slip[s].status \/ slip'[s].status = "DRAFT"
    <3>1. PICK g, x : g = calls[c].saw /\ x = calls[c].on
      OBVIOUS
    <3>2. PICK new : new = [status |-> "DRAFT", net |-> g.nets[x], issue |-> 0]
      OBVIOUS
    <3>3. slip' = slip \/ slip' = [slip EXCEPT ![x].net = g.nets[x]] \/ slip' = [slip EXCEPT ![x] = new]
      BY <1>13, <3>1, <3>2 DEF WriteSlip
    <3>4. slip \in [Staff -> PayslipRows] /\ g.nets[x] \in Int
      BY <1>13, <3>1 DEF PayrollTyped, PayrollTypeOK, PayrollCalls, PayrollCall, WriteSlip, At
    <3>5. CASE slip' = [slip EXCEPT ![x].net = g.nets[x]]
      BY <3>4, <3>5, NetWritten
    <3>6. CASE slip' = [slip EXCEPT ![x] = new]
      BY <3>2, <3>4, <3>6
    <3> QED BY <3>3, <3>5, <3>6
  <2>5. ShownOnceReleased'
    BY <2>3, <2>4 DEF ShownOnceReleased, ShownToStaff
  <2> QED BY <2>1, <2>2, <2>5 DEF InPhase
<1>14. ASSUME NEW s \in Staff, CreditPay(c, s) PROVE ShownOnceReleased' /\ InPhase(calls'[c], period')
  <2>1. calls'[c].stage \in {"generated", "credit"}
    BY <1>1, <1>14, Gone DEF CreditPay
  <2> QED BY <1>2, <1>14, <2>1 DEF InPhase, CreditPay, At, ShownOnceReleased
<1>15. CASE FinishGeneration(c)
  <2>1. ~\E s \in Staff : ShownToStaff(slip[s])
    BY <1>2, <1>15 DEF FinishGeneration, At, InPhase, ShownOnceReleased
  <2> QED BY <1>4, <1>5, <1>15, <2>1 DEF FinishGeneration
<1>16. ASSUME NEW net, slip' = [slip EXCEPT ![calls[c].on].net = net] \/ slip' = slip, net \in Int, period' = period
       PROVE  ShownOnceReleased'
  <2>1. slip \in [Staff -> PayslipRows]
    BY DEF PayrollTyped, PayrollTypeOK
  <2>2. \A s \in Staff : slip'[s].status = slip[s].status
    BY <1>16, <2>1, NetWritten
  <2> QED BY <1>2, <1>16, <2>2 DEF ShownOnceReleased, ShownToStaff
<1>17. ASSUME NEW then, GoOn(c, then), then = Alone \/ period' = "AWAITING_RELEASE", ThenTyped(then)
       PROVE  InPhase(calls'[c], period')
  <2>1. calls'[c] = Idle \/ (then # Alone /\ calls'[c].stage = "approve_drafts")
    BY <1>1, <1>17, GoOnTyped
  <2> QED BY <1>17, <2>1 DEF InPhase, Idle
<1>18. CASE WriteRecalculated(c)
  <2>1. PICK r : r = calls[c].saw
    OBVIOUS
  <2>2. r.net \in Int /\ ThenTyped(r.then)
    BY <1>18, <2>1 DEF PayrollTyped, PayrollCalls, PayrollCall, WriteRecalculated, At
  <2>3. period = "AWAITING_RELEASE" /\ period' = period
    BY <1>2, <1>18 DEF WriteRecalculated, At, InPhase
  <2>4. ShownOnceReleased'
    BY <1>16, <1>18, <2>1, <2>2 DEF WriteRecalculated
  <2>5. CASE GoOn(c, r.then)
    BY <1>17, <2>2, <2>3, <2>4, <2>5
  <2>6. CASE Goto(c, "count", Difference("INDCORR", r.net - r.old, 0, r.then))
    <3>1. calls'[c].stage = "count"
      BY <1>1, <2>6, Gone
    <3> QED BY <2>3, <2>4, <3>1 DEF InPhase
  <2> QED BY <1>18, <2>1, <2>5, <2>6 DEF WriteRecalculated
<1>19. CASE CountCorrections(c)
  <2>1. PICK d, n : d = calls[c].saw /\ Goto(c, "post", Difference(d.kind, d.delta, n, d.then))
    BY <1>19 DEF CountCorrections
  <2>2. PICK e : e = Difference(d.kind, d.delta, n, d.then)
    OBVIOUS
  <2>3. calls'[c].stage = "post" /\ calls'[c].saw = e /\ e.then = d.then
    BY <1>1, <2>1, <2>2, Gone, DifferenceIs
  <2>4. d.then = Alone \/ period = "AWAITING_RELEASE"
    BY <1>2, <1>19, <2>1 DEF CountCorrections, At, InPhase
  <2> QED BY <1>2, <1>19, <2>3, <2>4 DEF InPhase, CountCorrections, payroll, ShownOnceReleased
<1>20. CASE PostDifference(c)
  <2>1. PICK d : d = calls[c].saw
    OBVIOUS
  <2>2. ThenTyped(d.then)
    BY <1>20, <2>1 DEF PayrollTyped, PayrollCalls, PayrollCall, PostDifference, At
  <2>3. d.then = Alone \/ period = "AWAITING_RELEASE"
    BY <1>2, <1>20, <2>1 DEF PostDifference, At, InPhase
  <2> QED BY <1>2, <1>17, <1>20, <2>1, <2>2, <2>3 DEF PostDifference, ShownOnceReleased
<1>21. ASSUME NEW s \in Staff, ApproveDraft(c, s) PROVE ShownOnceReleased' /\ InPhase(calls'[c], period')
  <2>1. calls'[c].stage \in {"approve_drafts", "recalculate"}
    <3>1. CASE Recalculable(s)
      <4>1. PICK r : calls' = [calls EXCEPT ![c] = [stage |-> "recalculate", on |-> s, saw |-> r]]
        BY <1>21, <3>1 DEF ApproveDraft, Continue
      <4> QED BY <1>1, <4>1 DEF Shape
    <3>2. CASE ~Recalculable(s)
      BY <1>1, <1>21, <3>2, Gone DEF ApproveDraft
    <3> QED BY <3>1, <3>2
  <2>2. period = "AWAITING_RELEASE"
    BY <1>2, <1>21 DEF ApproveDraft, At, InPhase
  <2> QED BY <1>2, <1>21, <2>1, <2>2 DEF InPhase, ApproveDraft, payroll, ShownOnceReleased
<1>22. CASE ReleasePeriod(c)
  <2>1. calls'[c].stage = "publish"
    BY <1>1, <1>22, Gone DEF ReleasePeriod
  <2> QED BY <1>4, <1>22, <2>1 DEF ReleasePeriod, InPhase
<1>23. CASE PublishPayslips(c)
  <2>1. period' = "RELEASED"
    BY <1>2, <1>23 DEF PublishPayslips, At, InPhase
  <2> QED BY <1>5, <1>23, <2>1 DEF PublishPayslips, ShownOnceReleased
<1>24. CASE WriteSentBack(c)
  <2>1. ~\E s \in Staff : ShownToStaff(slip[s])
    BY <1>2, <1>24 DEF WriteSentBack, At, InPhase, ShownOnceReleased
  <2> QED BY <1>4, <1>5, <1>24, <2>1 DEF WriteSentBack
<1>25. CASE SupersedePayslip(c)
  <2>1. period' = "RELEASED"
    BY <1>2, <1>25 DEF SupersedePayslip, At, InPhase
  <2>2. CASE Return(c)
    BY <1>5, <2>1, <2>2 DEF ShownOnceReleased
  <2>3. CASE ~Return(c)
    <3>1. PICK d : Goto(c, "post", d) /\ d.then = Alone
      BY <1>25, <2>3, DifferenceIs DEF SupersedePayslip
    <3>2. calls'[c].stage = "post" /\ calls'[c].saw.then = Alone
      BY <1>1, <3>1, Gone
    <3> QED BY <2>1, <3>2 DEF InPhase, ShownOnceReleased
  <2> QED BY <2>2, <2>3
<1>26. CASE Busy(c) /\ PayrollStep(c)
  BY <1>11, <1>12, <1>13, <1>14, <1>15, <1>18, <1>19, <1>20, <1>21, <1>22, <1>23, <1>24, <1>25, <1>26
     DEF PayrollStep, AdjustmentStep
<1>27. CASE Ready(c) /\ PayrollRequest(c)
  BY <1>6, <1>7, <1>8, <1>9, <1>10, <1>11, <1>27 DEF PayrollRequest, AdjustmentRequest, AdjustmentStep
<1> QED BY <1>26, <1>27 DEF PayrollNext

LEMMA StagesDisjoint ==
    AttendanceStages \cap PayrollStages = {} /\ StaffPayoutStages \cap PayrollStages = {}
BY DEF AttendanceStages, StaffPayoutStages, BeforeDebit, PayrollStages

LEMMA PhasesStay ==
    ASSUME PayrollTyped, PayoutTyped, Single, Phases, [Next]_vars
    PROVE  Single' /\ Phases'
<1>0. Shape
  BY DEF PayoutTyped
<1>1. ASSUME NEW c \in Callers, AttendanceNext(c) PROVE Single' /\ Phases'
  <2>1. Acts(c, AttendanceStages) /\ UNCHANGED <<period, slip>>
    BY <1>0, <1>1, AttendanceActs DEF AttendanceNext, payroll
  <2> QED BY <1>0, <2>1, SingleStays, PhasesElsewhere, StagesDisjoint
<1>2. ASSUME NEW c \in Callers, PayrollNext(c) PROVE Single' /\ Phases'
  BY <1>0, <1>2, PayrollActs, SingleStays, PhasesPayroll
<1>3. ASSUME NEW c \in Callers, StaffPayoutNext(c) PROVE Single' /\ Phases'
  <2>1. Acts(c, StaffPayoutStages) /\ UNCHANGED <<period, slip>>
    BY <1>0, <1>3, StaffPayoutActs, PayoutPosts
  <2> QED BY <1>0, <2>1, SingleStays, PhasesElsewhere, StagesDisjoint
<1>4. ASSUME NEW c \in Callers, PayslipNext(c) PROVE Single' /\ Phases'
  <2>1. PICK none : none = {}
    OBVIOUS
  <2>2. none \cap PayrollStages = {}
    BY <2>1
  <2>3. Acts(c, none) /\ UNCHANGED <<period, slip>>
    BY <1>0, <1>4, Onces DEF PayslipNext, PreviewPayslip, payroll
  <2> QED BY <1>0, <2>2, <2>3, SingleStays, PhasesElsewhere
<1>5. ASSUME NEW c \in Callers, Dies(c) PROVE Single' /\ Phases'
  <2>1. calls' = [calls EXCEPT ![c] = Idle] /\ UNCHANGED <<period, slip, overlapped>>
    BY <1>5 DEF Dies, Crash, payroll
  <2>2. \A d \in Callers : calls'[d] = calls[d] \/ calls'[d] = Idle
    BY <1>0, <2>1 DEF Shape
  <2>3. Single'
    BY <2>1, <2>2 DEF Single, Busy, At, Idle
  <2>4. Phases'
    BY <2>1, <2>2 DEF Phases, ShownOnceReleased, InPhase, Idle
  <2> QED BY <2>3, <2>4
<1>6. ASSUME UNCHANGED <<handlers, period, slip>> PROVE Single' /\ Phases'
  BY <1>6 DEF handlers, Single, Busy, At, Phases, ShownOnceReleased
<1>7. CASE TimePasses /\ UNCHANGED <<payroll, staffPayout, sheet>>
  BY <1>6, <1>7 DEF TimePasses, payroll
<1>8. CASE Gateway /\ UNCHANGED <<attendance, sheet>>
  BY <1>6, <1>8 DEF Gateway, Settle, payroll
<1>9. CASE UNCHANGED vars
  BY <1>6, <1>9 DEF vars, payroll
<1> QED BY <1>1, <1>2, <1>3, <1>4, <1>5, <1>7, <1>8, <1>9 DEF Next

LEMMA PhasesAtFirst == Init => Single /\ Phases
<1> SUFFICES ASSUME Init PROVE Single /\ Phases
  OBVIOUS
<1>1. \A c \in Callers : calls[c].stage = "idle"
  BY DEF Init, HandlersInit, Idle
<1>2. ShownOnceReleased
  BY DEF Init, PayrollInit, ShownOnceReleased, ShownToStaff
<1> QED BY <1>1, <1>2 DEF Single, Phases, Busy, At, InPhase

\* The net pay of a slip that staff were shown changes with its number, while none overlap.
LEMMA NetChanges ==
    ASSUME PayrollTyped, Phases, NEW c \in Callers, PayrollNext(c), ~overlapped,
           NEW s \in Staff, ShownToStaff(slip[s]), slip'[s].net # slip[s].net
    PROVE  slip'[s].issue > slip[s].issue
<1>1. period = "RELEASED" /\ InPhase(calls[c], period)
  BY DEF Phases, ShownOnceReleased
<1>2. ~At(c, "write_slip") /\ ~At(c, "recalculate")
  BY <1>1 DEF InPhase, At
<1>3. slip' # slip
  OBVIOUS
<1>4. ~PublishPayslips(c)
  <2>1. slip[s] \in PayslipRows
    BY DEF PayrollTyped, PayrollTypeOK
  <2>2. [slip[s] EXCEPT !.status = "PUBLISHED"].net = slip[s].net
    BY <2>1 DEF PayslipRows
  <2> QED BY <2>2 DEF PublishPayslips
<1>5. SupersedePayslip(c)
  <2>1. Busy(c) /\ PayrollStep(c)
    BY <1>3 DEF PayrollNext, PayrollRequest, AdjustmentRequest, GeneratePayroll, ApprovePeriod, RequestCorrection, RecalculatePayslip,
       CorrectPayslip, RemoveAdjustment, CreateAdjustment, CorrectAdjustment, payroll
  <2> QED BY <1>2, <1>3, <1>4, <2>1
          DEF PayrollStep, ComputeFigures, CreditPay, ApproveDraft, WriteSlip, FinishGeneration, WriteRecalculated,
              CountCorrections, PostDifference, ReleasePeriod, WriteSentBack, WriteAdjustmentRemoved,
              WriteAdjustmentCorrected, payroll
<1>6. PICK r, x : r = calls[c].saw /\ x = calls[c].on
  OBVIOUS
<1>7. r.issue \in Nat
  BY <1>5, <1>6 DEF PayrollTyped, PayrollCalls, PayrollCall, SupersedePayslip, At
<1>8. PICK row : row = [status |-> "CORRECTED", net |-> r.net, issue |-> r.issue + 1]
  OBVIOUS
<1>9. slip[x].issue = r.issue /\ slip' = [slip EXCEPT ![x] = row]
  BY <1>3, <1>5, <1>6, <1>8 DEF SupersedePayslip
<1>10. x = s
  BY <1>9
<1>11. slip'[s] = row /\ row.issue = r.issue + 1
  BY <1>8, <1>9, <1>10 DEF PayrollTyped, PayrollTypeOK
<1> QED BY <1>7, <1>9, <1>10, <1>11

\* What staff were shown changes by a correction on record only, not by recalculation, while no
\* two requests overlap: for any number of members, figures and adjustments.
THEOREM PublishedPayStays == Spec => PublishedIsFinal
<1> DEFINE Inv == CoverInv /\ PayrollTyped /\ Single /\ Phases
<1>1. Init => Inv
  BY CoverAtFirst, TypedAtFirst, PhasesAtFirst
<1>2. Inv /\ [Next]_vars => Inv'
  BY CoverStays, TypedStays, PhasesStay DEF CoverInv, Dealt
<1>3. Inv /\ [Next]_vars => [\A s \in Staff : slip[s].status \in {"PUBLISHED", "CORRECTED"} /\ slip'[s].net # slip[s].net =>
            overlapped \/ slip'[s].issue > slip[s].issue]_<<slip, overlapped>>
  <2> SUFFICES ASSUME Inv, [Next]_vars, NEW s \in Staff, ShownToStaff(slip[s]), slip'[s].net # slip[s].net, ~overlapped
               PROVE  slip'[s].issue > slip[s].issue
    BY DEF ShownToStaff
  <2>1. PICK c \in Callers : PayrollNext(c)
    BY WalletsElsewhere, PayoutPosts DEF payroll, CoverInv, Dealt
  <2> QED BY <2>1, NetChanges
<1> QED BY <1>1, <1>2, <1>3, PTL DEF Spec, PublishedIsFinal

-----------------------------------------------------------------------------
(* What a wallet w says of the period's pay, and how it fits the slips.    *)

PayKinds == {"PAYROLL", "INDCORR", "CORR"}
Refs(w, s) == {t.ref : t \in w[s].entries}
Numbered(w, s, kind) == {r \in Refs(w, s) : r[1] = kind}
PaidOf(w, s) == Total({t \in w[s].entries : t.ref[1] \in PayKinds})
Unpaid(w, s) == \A r \in Refs(w, s) : r[1] \notin PayKinds
Agrees(slips, w, s) == Base \in Refs(w, s) => PaidOf(w, s) = slips[s].net

\* Corrections carry the numbers given out so far.
NumbersFit(slips, w, s) ==
    /\ \A r \in Numbered(w, s, "INDCORR") : r[2] \in Nat /\ r[2] <= Cardinality(Numbered(w, s, "INDCORR"))
    /\ \A r \in Numbered(w, s, "CORR") : r[2] \in Nat /\ r[2] <= slips[s].issue

\* A difference that is about to be posted: the slip was written, the wallet has yet to follow.
Owing == {"count", "post"}
NextNumber(d, slips, w, s) ==
    \/ d.kind = "INDCORR" /\ d.n = Cardinality(Numbered(w, s, "INDCORR")) + 1
    \/ d.kind = "CORR" /\ d.n = slips[s].issue /\ \A r \in Numbered(w, s, "CORR") : r[2] < d.n
Owes(call, slips, w) ==
    /\ Base \in Refs(w, call.on) /\ PaidOf(w, call.on) + call.saw.delta = slips[call.on].net
    /\ call.stage = "count" => call.saw.kind = "INDCORR"
    /\ call.stage = "post" => NextNumber(call.saw, slips, w, call.on)

\* What a handler that runs by itself knows of the slips and the wallets.
Knows(call, slips, w) ==
    /\ call.stage = "figures" => \A s \in Staff \ call.saw.left : slips[s].net = call.saw.nets[s]
    /\ call.stage = "write_slip" =>
           /\ \A s \in Staff \ (call.saw.left \cup {call.on}) : slips[s].net = call.saw.nets[s]
           /\ call.saw.found = (slips[call.on].status # "none") /\ call.saw.issue = slips[call.on].issue
    /\ call.stage = "credit" => /\ \A s \in Staff : slips[s].net = call.saw.nets[s]
                                /\ \A s \in call.saw.left : Unpaid(w, s)
    /\ call.stage \in {"recalculate", "supersede"} =>
           call.saw.old = slips[call.on].net /\ call.saw.issue = slips[call.on].issue
    /\ call.stage \in Owing => Owes(call, slips, w)
    /\ call.stage # "send_back"

Crediting == {"credit", "generated"}

Settled(call, p, slips, w) ==
    /\ Knows(call, slips, w)
    /\ \A s \in Staff : NumbersFit(slips, w, s)
    /\ \A s \in Staff : Agrees(slips, w, s) \/ (call.stage \in Owing /\ call.on = s)
    /\ p = "DRAFT" /\ call.stage \notin Crediting => \A s \in Staff : Unpaid(w, s)

Disturbed == overlapped \/ crashes > 0 \/ "send_back" \in scenario

PaydayInv ==
    Disturbed \/ /\ \A c \in Callers : Busy(c) => Settled(calls[c], period, slip, wallet)
                 /\ Quiet => Settled(Idle, period, slip, wallet)

Whole(w) == \A s \in Staff : IsFiniteSet(w[s].entries) /\ \A t \in w[s].entries : t.amount \in Int

\* v is w with one transaction more, of s.
Posted(w, v, s, ref, amount) ==
    /\ ref \notin Refs(w, s)
    /\ v[s].entries = w[s].entries \cup {[ref |-> ref, amount |-> amount]}
    /\ \A x \in Staff \ {s} : v[x] = w[x]

LEMMA PostedRefs ==
    ASSUME NEW w, NEW v, NEW s, NEW ref, NEW amount, Posted(w, v, s, ref, amount)
    PROVE  /\ Refs(v, s) = Refs(w, s) \cup {ref}
           /\ \A kind : Numbered(v, s, kind) = Numbered(w, s, kind) \cup {r \in {ref} : r[1] = kind}
<1>1. PICK entry : entry = [ref |-> ref, amount |-> amount]
  OBVIOUS
<1>2. entry.ref = ref /\ v[s].entries = w[s].entries \cup {entry}
  BY <1>1 DEF Posted
<1>3. Refs(v, s) = Refs(w, s) \cup {ref}
  BY <1>2 DEF Refs
<1> QED BY <1>3 DEF Numbered

LEMMA PostedPay ==
    ASSUME NEW w, Whole(w), NEW v, NEW s \in Staff, NEW ref, NEW amount \in Int, Posted(w, v, s, ref, amount)
    PROVE  /\ PaidOf(w, s) \in Int
           /\ ref[1] \in PayKinds => PaidOf(v, s) = PaidOf(w, s) + amount
           /\ ref[1] \notin PayKinds => PaidOf(v, s) = PaidOf(w, s)
<1>1. PICK entry : entry = [ref |-> ref, amount |-> amount]
  OBVIOUS
<1>2. entry.ref = ref /\ entry.amount = amount /\ v[s].entries = w[s].entries \cup {entry}
  BY <1>1 DEF Posted
<1>3. PICK P, Q : /\ P = {t \in w[s].entries : t.ref[1] \in PayKinds}
                  /\ Q = {t \in v[s].entries : t.ref[1] \in PayKinds}
  OBVIOUS
<1>4. entry \notin w[s].entries
  BY <1>2 DEF Posted, Refs
<1>5. P \subseteq w[s].entries /\ IsFiniteSet(w[s].entries)
  BY <1>3 DEF Whole
<1>6. IsFiniteSet(P) /\ entry \notin P
  BY <1>4, <1>5, FS_Subset
<1>7. \A t \in P \cup {entry} : t.amount \in Int
  BY <1>2, <1>5 DEF Whole
<1>8. Total(P) \in Int /\ Total(P \cup {entry}) = Total(P) + amount
  BY <1>2, <1>6, <1>7, TotalAdds
<1>9. Q = IF ref[1] \in PayKinds THEN P \cup {entry} ELSE P
  BY <1>2, <1>3
<1> QED BY <1>3, <1>8, <1>9 DEF PaidOf

LEMMA UnpaidIsNothing ==
    ASSUME NEW w, NEW s, Unpaid(w, s)
    PROVE  /\ PaidOf(w, s) = 0 /\ Base \notin Refs(w, s)
           /\ Numbered(w, s, "INDCORR") = {} /\ Numbered(w, s, "CORR") = {}
<1>1. \A t \in w[s].entries : t.ref[1] \notin PayKinds
  BY DEF Unpaid, Refs
<1>2. {t \in w[s].entries : t.ref[1] \in PayKinds} = {}
  BY <1>1
<1>3. PaidOf(w, s) = 0
  BY <1>2, TotalOfNothing DEF PaidOf
<1>4. Base[1] \in PayKinds
  BY DEF Base, Reference, PayKinds
<1> QED BY <1>3, <1>4 DEF Unpaid, Numbered, PayKinds

LEMMA NumberedFinite ==
    ASSUME NEW w, Whole(w), NEW s \in Staff, NEW kind
    PROVE  IsFiniteSet(Numbered(w, s, kind)) /\ Cardinality(Numbered(w, s, kind)) \in Nat
<1>1. PICK E, f : E = w[s].entries /\ f = [t \in E |-> t.ref]
  OBVIOUS
<1>2. f \in Surjection(E, Refs(w, s)) /\ IsFiniteSet(E)
  BY <1>1 DEF Surjection, Refs, Whole
<1>3. IsFiniteSet(Refs(w, s))
  BY <1>2, FS_Surjection
<1>4. Numbered(w, s, kind) \subseteq Refs(w, s)
  BY DEF Numbered
<1> QED BY <1>3, <1>4, FS_Subset, FS_CardinalityType

\* Two wallets say the same of the period's pay of s.
SamePay(w, v, s) ==
    /\ Base \in Refs(v, s) <=> Base \in Refs(w, s)
    /\ PaidOf(v, s) = PaidOf(w, s)
    /\ Numbered(v, s, "INDCORR") = Numbered(w, s, "INDCORR") /\ Numbered(v, s, "CORR") = Numbered(w, s, "CORR")
    /\ Unpaid(w, s) => Unpaid(v, s)

LEMMA SamePayStays ==
    ASSUME NEW w, NEW v, NEW s, v[s] = w[s]
    PROVE  SamePay(w, v, s)
BY DEF SamePay, Refs, PaidOf, Numbered, Unpaid

LEMMA SamePayElsewhere ==
    ASSUME NEW w, Whole(w), NEW v, NEW s \in Staff, NEW ref, NEW amount \in Int, Posted(w, v, s, ref, amount),
           ref[1] = "WITHDRAWAL"
    PROVE  SamePay(w, v, s)
<1>1. ref[1] \notin PayKinds /\ Base[1] \in PayKinds
  BY DEF PayKinds, Base, Reference
<1>2. Refs(v, s) = Refs(w, s) \cup {ref} /\ PaidOf(v, s) = PaidOf(w, s)
  BY <1>1, PostedRefs, PostedPay
<1>3. Base \in Refs(v, s) <=> Base \in Refs(w, s)
  BY <1>1, <1>2
<1>4. Numbered(v, s, "INDCORR") = Numbered(w, s, "INDCORR") /\ Numbered(v, s, "CORR") = Numbered(w, s, "CORR")
  BY <1>2 DEF Numbered
<1> QED BY <1>1, <1>2, <1>3, <1>4 DEF SamePay, Unpaid

\* A step that writes no slip and no pay.
LEMMA SettledGoes ==
    ASSUME NEW call, NEW p, NEW slips, NEW w, Settled(call, p, slips, w),
           NEW new, NEW q, NEW v, Knows(new, slips, v), \A s \in Staff : SamePay(w, v, s),
           call.stage \in Owing => new.stage \in Owing /\ new.on = call.on,
           q = "DRAFT" => p = "DRAFT" /\ (call.stage \in Crediting => new.stage \in Crediting)
    PROVE  Settled(new, q, slips, v)
<1>1. \A s \in Staff : NumbersFit(slips, v, s)
  BY DEF Settled, NumbersFit, SamePay
<1>2. \A s \in Staff : Agrees(slips, v, s) \/ (new.stage \in Owing /\ new.on = s)
  BY DEF Settled, Agrees, SamePay
<1>3. q = "DRAFT" /\ new.stage \notin Crediting => \A s \in Staff : Unpaid(v, s)
  BY DEF Settled, SamePay
<1> QED BY <1>1, <1>2, <1>3 DEF Settled

-----------------------------------------------------------------------------
(* Each step of the payroll by itself.                                     *)

\* What the handler c knows and what the books say.
Before(c) == PayrollTyped /\ EntriesFinite /\ InPhase(calls[c], period) /\ Settled(calls[c], period, slip, wallet)
After(c) == Settled(calls'[c], period', slip', wallet')

LEMMA WalletsWhole == ASSUME PayrollTyped, EntriesFinite PROVE Whole(wallet)
BY DEF PayrollTyped, PayrollTypeOK, EntriesFinite, Whole

LEMMA SettledReads ==
    ASSUME NEW c \in Callers, Before(c), UNCHANGED <<slip, wallet>>, Knows(calls'[c], slip, wallet),
           calls[c].stage \in Owing => calls'[c].stage \in Owing /\ calls'[c].on = calls[c].on,
           period' = "DRAFT" => period = "DRAFT" /\ (calls[c].stage \in Crediting => calls'[c].stage \in Crediting)
    PROVE  After(c)
<1>1. \A s \in Staff : SamePay(wallet, wallet', s)
  BY SamePayStays
<1> QED BY <1>1, SettledGoes DEF Before, After

\* Stages of which a handler knows nothing.
LEMMA KnowsNothing ==
    ASSUME NEW call, NEW slips, NEW w,
           call.stage \notin {"figures", "write_slip", "credit", "recalculate", "supersede", "send_back"} \cup Owing
    PROVE  Knows(call, slips, w)
BY DEF Knows, Owing

LEMMA GenerateSettles ==
    ASSUME NEW c \in Callers, Before(c), Ready(c), GeneratePayroll(c)
    PROVE  After(c)
<1>1. PICK r : r = [left |-> Staff, nets |-> [s \in Staff |-> 0]]
  OBVIOUS
<1>2. calls'[c].stage = "figures" /\ calls'[c].saw = r /\ r.left = Staff
  BY <1>1, Begun DEF GeneratePayroll, Before, PayrollTyped, AttendanceTyped
<1>3. Knows(calls'[c], slip, wallet)
  BY <1>2 DEF Knows, Owing
<1>4. calls[c].stage = "idle" /\ UNCHANGED <<period, slip, wallet>>
  BY DEF GeneratePayroll, payroll, Ready, At
<1> QED BY <1>3, <1>4, SettledReads DEF Owing, Crediting

LEMMA FiguresSettle ==
    ASSUME NEW c \in Callers, Before(c), NEW s \in Staff, ComputeFigures(c, s)
    PROVE  After(c)
<1>1. PICK g : g = calls[c].saw
  OBVIOUS
<1>2. calls[c].stage = "figures" /\ s \in g.left /\ g.nets \in [Staff -> Int] /\ g.left \subseteq Staff
  BY <1>1 DEF ComputeFigures, At, Before, PayrollTyped, PayrollCalls, PayrollCall
<1>3. PICK r, nets, found, issue :
        /\ r = [left |-> g.left \ {s}, nets |-> nets, found |-> found, issue |-> issue]
        /\ nets = [g.nets EXCEPT ![s] = Due(s)] /\ found = (slip[s].status # "none") /\ issue = slip[s].issue
  OBVIOUS
<1>4. calls'[c] = [stage |-> "write_slip", on |-> s, saw |-> r]
  BY <1>1, <1>3 DEF ComputeFigures, Continue, Before, PayrollTyped, AttendanceTyped, Shape
<1>5. calls'[c].stage = "write_slip" /\ calls'[c].on = s /\ calls'[c].saw = r
  BY <1>4, Selects
<1>6. r.left = g.left \ {s} /\ r.nets = nets /\ r.found = found /\ r.issue = issue
  BY <1>3
<1>7. ASSUME NEW x \in Staff, x \notin r.left \cup {s} PROVE slip[x].net = r.nets[x]
  <2>1. x \notin g.left /\ x # s
    BY <1>6, <1>7
  <2>2. slip[x].net = g.nets[x]
    BY <1>1, <1>2, <2>1 DEF Before, Settled, Knows
  <2> QED BY <1>2, <1>3, <1>6, <2>1, <2>2
<1>8. Knows(calls'[c], slip, wallet)
  BY <1>3, <1>5, <1>6, <1>7 DEF Knows, Owing
<1> QED BY <1>2, <1>5, <1>8, SettledReads DEF ComputeFigures, payroll, Owing, Crediting

LEMMA FinishSettles ==
    ASSUME NEW c \in Callers, Before(c), FinishGeneration(c)
    PROVE  After(c)
<1>1. calls'[c].stage = "idle" /\ calls[c].stage = "generated"
  BY IdleTyped DEF FinishGeneration, Before, PayrollTyped, AttendanceTyped, Idle, At
<1>2. Knows(calls'[c], slip, wallet)
  BY <1>1, KnowsNothing DEF Owing
<1> QED BY <1>1, <1>2, SettledReads DEF FinishGeneration, Owing

LEMMA RecalculateSettles ==
    ASSUME NEW c \in Callers, Before(c), Ready(c), NEW s \in Staff, NEW net,
           RecalculatePayslip(c, s, net) \/ CorrectPayslip(c, s, net)
    PROVE  After(c)
<1>1. PICK stage \in {"recalculate", "supersede"}, r \in {calls'[c].saw} :
        calls'[c].stage = stage /\ calls'[c].on = s /\ r.old = slip[s].net /\ r.issue = slip[s].issue
  <2>1. CASE RecalculatePayslip(c, s, net)
    <3>1. PICK r : r = [net |-> net, old |-> slip[s].net, issue |-> slip[s].issue, then |-> Alone]
      OBVIOUS
    <3>2. calls'[c].stage = "recalculate" /\ calls'[c].on = s /\ calls'[c].saw = r
      BY <2>1, <3>1, Begun DEF RecalculatePayslip, Before, PayrollTyped, AttendanceTyped
    <3>3. r.old = slip[s].net /\ r.issue = slip[s].issue
      BY <3>1
    <3> QED BY <3>2, <3>3
  <2>2. CASE CorrectPayslip(c, s, net)
    <3>1. PICK r : r = [net |-> net, old |-> slip[s].net, issue |-> slip[s].issue]
      OBVIOUS
    <3>2. calls'[c].stage = "supersede" /\ calls'[c].on = s /\ calls'[c].saw = r
      BY <2>2, <3>1, Begun DEF CorrectPayslip, Before, PayrollTyped, AttendanceTyped
    <3>3. r.old = slip[s].net /\ r.issue = slip[s].issue
      BY <3>1
    <3> QED BY <3>2, <3>3
  <2> QED BY <2>1, <2>2
<1>2. Knows(calls'[c], slip, wallet)
  BY <1>1 DEF Knows, Owing
<1>3. calls[c].stage = "idle" /\ UNCHANGED <<period, slip, wallet>>
  BY DEF RecalculatePayslip, CorrectPayslip, payroll, Ready, At
<1> QED BY <1>2, <1>3, SettledReads DEF Owing, Crediting

LEMMA CountSettles ==
    ASSUME NEW c \in Callers, Before(c), CountCorrections(c)
    PROVE  After(c)
<1>1. PICK d, s, n : d = calls[c].saw /\ s = calls[c].on /\ n = Cardinality(Numbered(wallet, s, "INDCORR")) + 1
  OBVIOUS
<1>2. calls[c].stage = "count" /\ Owes(calls[c], slip, wallet)
  BY DEF CountCorrections, At, Before, Settled, Knows, Owing
<1>3. PICK e : e = Difference(d.kind, d.delta, n, d.then)
  OBVIOUS
<1>4. calls'[c].stage = "post" /\ calls'[c].on = s /\ calls'[c].saw = e
  BY <1>1, <1>3, Gone DEF CountCorrections, Numbered, Refs, References, Before, PayrollTyped, AttendanceTyped
<1>5. e.kind = d.kind /\ e.delta = d.delta /\ e.n = n
  BY <1>3, DifferenceIs
<1>6. Owes(calls'[c], slip, wallet)
  BY <1>1, <1>2, <1>4, <1>5 DEF Owes, NextNumber
<1>7. Knows(calls'[c], slip, wallet)
  BY <1>4, <1>6 DEF Knows
<1> QED BY <1>1, <1>2, <1>4, <1>7, SettledReads DEF CountCorrections, payroll, Owing, Crediting

LEMMA ApproveSettles ==
    ASSUME NEW c \in Callers, Before(c),
           (Ready(c) /\ ApprovePeriod(c)) \/ ReleasePeriod(c)
    PROVE  After(c)
<1>1. calls'[c].stage \in {"approve_drafts", "publish"}
  BY Begun, Gone DEF ApprovePeriod, ReleasePeriod, Before, PayrollTyped, AttendanceTyped
<1>2. Knows(calls'[c], slip, wallet)
  BY <1>1, KnowsNothing DEF Owing
<1>3. calls[c].stage \in {"idle", "approve_drafts"} /\ UNCHANGED <<slip, wallet>> /\ (period' = "DRAFT" => period = "DRAFT")
  BY DEF ApprovePeriod, ReleasePeriod, payroll, Ready, At
<1> QED BY <1>2, <1>3, SettledReads DEF Owing, Crediting

LEMMA DraftSettles ==
    ASSUME NEW c \in Callers, Before(c), NEW s \in Staff, ApproveDraft(c, s)
    PROVE  After(c)
<1>1. PICK rest : rest = calls[c].saw \ {s}
  OBVIOUS
<1>2. Knows(calls'[c], slip, wallet)
  <2>1. CASE Recalculable(s)
    <3>1. PICK r : r = [net |-> Due(s), old |-> slip[s].net, issue |-> slip[s].issue, then |-> rest]
      OBVIOUS
    <3>2. calls'[c] = [stage |-> "recalculate", on |-> s, saw |-> r]
      BY <1>1, <2>1, <3>1 DEF ApproveDraft, Continue, Before, PayrollTyped, AttendanceTyped, Shape
    <3>3. calls'[c].stage = "recalculate" /\ calls'[c].on = s /\ calls'[c].saw = r
      BY <3>2, Selects
    <3>4. r.old = slip[s].net /\ r.issue = slip[s].issue
      BY <3>1
    <3> QED BY <3>3, <3>4 DEF Knows, Owing
  <2>2. CASE ~Recalculable(s)
    <3>1. calls'[c].stage = "approve_drafts"
      BY <2>2, Gone DEF ApproveDraft, Before, PayrollTyped, AttendanceTyped
    <3> QED BY <3>1, KnowsNothing DEF Owing
  <2> QED BY <2>1, <2>2
<1>3. calls[c].stage = "approve_drafts" /\ UNCHANGED <<period, slip, wallet>>
  BY DEF ApproveDraft, payroll, At
<1> QED BY <1>2, <1>3, SettledReads DEF Owing, Crediting

LEMMA AdjustmentSettles ==
    ASSUME NEW c \in Callers, Before(c), AdjustmentStep(c)
    PROVE  After(c)
<1>1. UNCHANGED <<period, slip, wallet>>
  BY AdjustmentTyped DEF Before
<1>2. /\ calls[c].stage \in {"idle", "remove_adjustment", "correct_adjustment"}
      /\ calls'[c].stage \in {"idle", "remove_adjustment", "correct_adjustment"}
  BY Begun, IdleTyped
     DEF AdjustmentStep, RemoveAdjustment, CreateAdjustment, CorrectAdjustment, WriteAdjustmentRemoved,
         WriteAdjustmentCorrected, Once, Idle, Ready, At, Before, PayrollTyped, AttendanceTyped
<1>3. Knows(calls'[c], slip, wallet)
  BY <1>2, KnowsNothing DEF Owing
<1> QED BY <1>1, <1>2, <1>3, SettledReads DEF Owing, Crediting

\* Slips are written while the period is a draft, before anything is paid for it.
LEMMA WriteSettles ==
    ASSUME NEW c \in Callers, Before(c), WriteSlip(c)
    PROVE  After(c)
<1>1. PICK g, s : g = calls[c].saw /\ s = calls[c].on
  OBVIOUS
<1>2. calls[c].stage = "write_slip" /\ s \in Staff /\ g.nets \in [Staff -> Int] /\ slip \in [Staff -> PayslipRows] /\ g.left \subseteq Staff
  BY <1>1 DEF WriteSlip, At, Before, PayrollTyped, PayrollCalls, PayrollCall, PayrollTypeOK
<1>3. /\ \A x \in Staff \ (g.left \cup {s}) : slip[x].net = g.nets[x]
      /\ g.found = (slip[s].status # "none") /\ g.issue = slip[s].issue
  BY <1>1, <1>2 DEF Before, Settled, Knows
<1>4. \A x \in Staff : Unpaid(wallet, x)
  BY <1>2 DEF Before, InPhase, Settled, Crediting
<1>5. PICK stage, r : /\ stage = IF g.left = {} THEN "credit" ELSE "figures"
                      /\ r = [left |-> IF g.left = {} THEN Staff ELSE g.left, nets |-> g.nets]
  OBVIOUS
<1>6. calls'[c].stage = stage /\ calls'[c].saw = r /\ r.nets = g.nets /\ r.left = IF g.left = {} THEN Staff ELSE g.left
  <2>1. calls'[c] = [stage |-> stage, on |-> "nothing", saw |-> r]
    <3>1. Continue(c, [stage |-> stage, on |-> "nothing", saw |-> r])
      BY <1>1, <1>3, <1>5 DEF WriteSlip
    <3> QED BY <3>1 DEF Continue, Before, PayrollTyped, AttendanceTyped, Shape
  <2>2. calls'[c].stage = stage /\ calls'[c].saw = r
    BY <2>1, Selects
  <2> QED BY <1>5, <2>2
<1>7. \A x \in Staff : slip'[x].net = IF x = s THEN g.nets[s] ELSE slip[x].net
  <2>1. PICK net \in Int : net = g.nets[s]
    BY <1>2
  <2>2. PICK row : row = [status |-> "DRAFT", net |-> net, issue |-> 0]
    OBVIOUS
  <2>3. slip' = [slip EXCEPT ![s].net = net] \/ slip' = [slip EXCEPT ![s] = row]
    BY <1>1, <1>3, <2>1, <2>2 DEF WriteSlip
  <2>4. CASE slip' = [slip EXCEPT ![s].net = net]
    BY <1>2, <2>1, <2>4, NetWritten
  <2>5. CASE slip' = [slip EXCEPT ![s] = row]
    BY <1>2, <2>1, <2>2, <2>5
  <2> QED BY <2>3, <2>4, <2>5
<1>8. \A x \in Staff \ g.left : slip'[x].net = g.nets[x]
  BY <1>3, <1>7
<1>9. UNCHANGED <<period, wallet>>
  BY DEF WriteSlip
<1>10. Knows(calls'[c], slip', wallet')
  <2>1. CASE g.left = {}
    BY <1>4, <1>5, <1>6, <1>8, <1>9, <2>1 DEF Knows, Owing
  <2>2. CASE g.left # {}
    BY <1>5, <1>6, <1>8, <2>2 DEF Knows, Owing
  <2> QED BY <2>1, <2>2
<1>11. \A x \in Staff : NumbersFit(slip', wallet', x) /\ Agrees(slip', wallet', x) /\ Unpaid(wallet', x)
  BY <1>4, <1>9, UnpaidIsNothing DEF NumbersFit, Agrees
<1> QED BY <1>10, <1>11 DEF After, Settled

LEMMA PostIs ==
    ASSUME WalletShape, NEW s \in Staff, NEW ref, NEW amount, Post(s, ref, amount), ref \notin Refs(wallet, s)
    PROVE  Posted(wallet, wallet', s, ref, amount)
BY PostAdds DEF Posted, Refs, References

LEMMA CreditSettles ==
    ASSUME NEW c \in Callers, Before(c), NEW s \in Staff, CreditPay(c, s)
    PROVE  After(c)
<1>1. PICK g, net : g = calls[c].saw /\ net = g.nets[s]
  OBVIOUS
<1>2. calls[c].stage = "credit" /\ s \in g.left /\ g.left \subseteq Staff /\ net \in Int
  BY <1>1 DEF CreditPay, At, Before, PayrollTyped, PayrollCalls, PayrollCall
<1>3. (\A x \in Staff : slip[x].net = g.nets[x]) /\ (\A x \in g.left : Unpaid(wallet, x))
  BY <1>1, <1>2 DEF Before, Settled, Knows
<1>4. PaidOf(wallet, s) = 0 /\ Base \notin Refs(wallet, s)
  BY <1>2, <1>3, UnpaidIsNothing
<1>5. Posted(wallet, wallet', s, Base, net)
  BY <1>1, <1>4, PostIs DEF CreditPay, Before, PayrollTyped
<1>6. Base[1] = "PAYROLL" /\ Base[1] \in PayKinds
  BY DEF Base, Reference, PayKinds
<1>7. PaidOf(wallet', s) = net
  <2>1. PaidOf(wallet', s) = PaidOf(wallet, s) + net
    BY <1>2, <1>5, <1>6, PostedPay, WalletsWhole DEF Before
  <2> QED BY <1>2, <1>4, <2>1
<1>8. /\ Numbered(wallet', s, "INDCORR") = Numbered(wallet, s, "INDCORR")
      /\ Numbered(wallet', s, "CORR") = Numbered(wallet, s, "CORR")
  <2>1. Refs(wallet', s) = Refs(wallet, s) \cup {Base}
    BY <1>5, PostedRefs
  <2> QED BY <1>6, <2>1 DEF Numbered
<1>9. \A x \in Staff \ {s} : SamePay(wallet, wallet', x)
  BY <1>5, SamePayStays DEF Posted
<1>10. slip' = slip /\ period' = period
  BY DEF CreditPay
<1>11. PICK r : r = [left |-> g.left \ {s}, nets |-> g.nets]
  OBVIOUS
<1>12. calls'[c].saw = r /\ calls'[c].stage \in Crediting /\ r.left = g.left \ {s} /\ r.nets = g.nets
  BY <1>1, <1>11, Gone DEF CreditPay, Crediting, Before, PayrollTyped, AttendanceTyped
<1>13. \A x \in r.left : Unpaid(wallet', x)
  BY <1>2, <1>3, <1>9, <1>12 DEF SamePay
<1>14. Knows(calls'[c], slip', wallet')
  BY <1>3, <1>10, <1>12, <1>13 DEF Knows, Owing, Crediting
<1>15. \A x \in Staff : NumbersFit(slip', wallet', x)
  BY <1>8, <1>9, <1>10 DEF Before, Settled, NumbersFit, SamePay
<1>16. \A x \in Staff : Agrees(slip', wallet', x)
  <2>1. \A x \in Staff : Agrees(slip, wallet, x)
    BY <1>2 DEF Before, Settled, Owing
  <2>2. Agrees(slip', wallet', s)
    BY <1>1, <1>3, <1>7, <1>10 DEF Agrees
  <2> QED BY <1>9, <1>10, <2>1, <2>2 DEF Agrees, SamePay
<1> QED BY <1>12, <1>14, <1>15, <1>16 DEF After, Settled

\* A slip is written and the wallet is left: either they agree, or the difference is owed.
LEMMA NetSettles ==
    ASSUME NEW c \in Callers, Before(c), NEW s \in Staff, UNCHANGED <<period, wallet>>,
           calls[c].stage \notin Owing \cup Crediting,
           \A x \in Staff \ {s} : slip'[x].net = slip[x].net /\ slip'[x].issue = slip[x].issue,
           slip'[s].issue \in Nat, slip'[s].issue >= slip[s].issue, Knows(calls'[c], slip', wallet'),
           \/ Base \notin Refs(wallet, s) \/ slip'[s].net = slip[s].net
           \/ calls'[c].stage \in Owing /\ calls'[c].on = s
    PROVE  After(c)
<1>1. \A x \in Staff : NumbersFit(slip', wallet', x)
  <2> SUFFICES ASSUME NEW x \in Staff PROVE NumbersFit(slip', wallet', x)
    OBVIOUS
  <2>1. NumbersFit(slip, wallet, x)
    BY DEF Before, Settled
  <2>2. slip[x].issue \in Nat /\ slip'[x].issue \in Nat /\ slip[x].issue <= slip'[x].issue
    BY DEF Before, PayrollTyped, PayrollTypeOK, PayslipRows
  <2> QED BY <2>1, <2>2 DEF NumbersFit
<1>2. \A x \in Staff : Agrees(slip', wallet', x) \/ (calls'[c].stage \in Owing /\ calls'[c].on = x)
  BY DEF Before, Settled, Agrees
<1>3. period' = "DRAFT" => \A x \in Staff : Unpaid(wallet', x)
  BY DEF Before, Settled
<1> QED BY <1>1, <1>2, <1>3 DEF After, Settled

LEMMA RecalculatedSettles ==
    ASSUME NEW c \in Callers, Before(c), WriteRecalculated(c)
    PROVE  After(c)
<1>1. PICK r, s, net : r = calls[c].saw /\ s = calls[c].on /\ net = r.net
  OBVIOUS
<1>2. /\ calls[c].stage = "recalculate" /\ s \in Staff /\ net \in Int /\ r.old \in Int /\ ThenTyped(r.then)
      /\ slip \in [Staff -> PayslipRows]
  BY <1>1 DEF WriteRecalculated, At, Before, PayrollTyped, PayrollCalls, PayrollCall, PayrollTypeOK
<1>3. r.old = slip[s].net /\ r.issue = slip[s].issue
  BY <1>1, <1>2 DEF Before, Settled, Knows
<1>4. slip' = [slip EXCEPT ![s].net = net] /\ UNCHANGED <<period, wallet>>
  BY <1>1, <1>3 DEF WriteRecalculated
<1>5. \A x \in Staff : slip'[x].issue = slip[x].issue /\ slip'[x].net = IF x = s THEN net ELSE slip[x].net
  BY <1>2, <1>4, NetWritten
<1>6. slip[s].issue \in Nat
  BY <1>2 DEF PayslipRows
<1>7. /\ UNCHANGED <<period, wallet>> /\ calls[c].stage \notin Owing \cup Crediting
      /\ \A x \in Staff \ {s} : slip'[x].net = slip[x].net /\ slip'[x].issue = slip[x].issue
      /\ slip'[s].issue \in Nat /\ slip'[s].issue >= slip[s].issue /\ slip'[s].net = net
  BY <1>2, <1>4, <1>5, <1>6 DEF Owing, Crediting
<1>8. CASE Base \in Refs(wallet, s) /\ net # r.old
  <2>1. PICK d, delta : d = Difference("INDCORR", delta, 0, r.then) /\ delta = net - r.old
    OBVIOUS
  <2>2. Goto(c, "count", d)
    BY <1>1, <1>8, <2>1 DEF WriteRecalculated, Refs, References
  <2>3. calls'[c].stage = "count" /\ calls'[c].on = s /\ calls'[c].saw = d
    BY <1>1, <2>2, Gone DEF Before, PayrollTyped, AttendanceTyped
  <2>4. d.kind = "INDCORR" /\ d.delta = delta
    BY <2>1, DifferenceIs
  <2>5. PaidOf(wallet, s) = slip[s].net
    BY <1>2, <1>8 DEF Before, Settled, Agrees, Owing
  <2>6. PaidOf(wallet, s) + delta = net
    BY <1>2, <1>3, <2>1, <2>5
  <2>7. Owes(calls'[c], slip', wallet')
    BY <1>2, <1>4, <1>5, <1>8, <2>3, <2>4, <2>6 DEF Owes
  <2>8. Knows(calls'[c], slip', wallet')
    BY <2>3, <2>7 DEF Knows
  <2>9. "count" \in Owing
    BY DEF Owing
  <2> QED BY <1>2, <1>7, <2>3, <2>8, <2>9, NetSettles
<1>9. CASE ~(Base \in Refs(wallet, s) /\ net # r.old)
  <2>1. GoOn(c, r.then)
    BY <1>1, <1>9 DEF WriteRecalculated, Refs, References
  <2>2. calls'[c].stage \in {"idle", "approve_drafts"}
    BY <1>2, <2>1, GoOnTyped DEF Idle, Before, PayrollTyped, AttendanceTyped
  <2>3. Knows(calls'[c], slip', wallet')
    BY <2>2, KnowsNothing DEF Owing
  <2> QED BY <1>2, <1>3, <1>9, <1>7, <2>3, NetSettles
<1> QED BY <1>8, <1>9

LEMMA SupersedeSettles ==
    ASSUME NEW c \in Callers, Before(c), SupersedePayslip(c)
    PROVE  After(c)
<1>1. PICK r, s, net, n : r = calls[c].saw /\ s = calls[c].on /\ net = r.net /\ n = r.issue + 1
  OBVIOUS
<1>2. /\ calls[c].stage = "supersede" /\ s \in Staff /\ net \in Int /\ r.old \in Int
      /\ slip \in [Staff -> PayslipRows]
  BY <1>1 DEF SupersedePayslip, At, Before, PayrollTyped, PayrollCalls, PayrollCall, PayrollTypeOK
<1>3. r.old = slip[s].net /\ r.issue = slip[s].issue /\ slip[s].issue \in Nat /\ n = slip[s].issue + 1
  BY <1>1, <1>2 DEF Before, Settled, Knows, PayslipRows
<1>4. PICK row : row = [status |-> "CORRECTED", net |-> net, issue |-> n]
  OBVIOUS
<1>5. slip' = [slip EXCEPT ![s] = row] /\ UNCHANGED <<period, wallet>>
  BY <1>1, <1>3, <1>4 DEF SupersedePayslip
<1>6. slip'[s].net = net /\ slip'[s].issue = n /\ \A x \in Staff \ {s} : slip'[x] = slip[x]
  BY <1>2, <1>4, <1>5
<1>7. /\ UNCHANGED <<period, wallet>> /\ calls[c].stage \notin Owing \cup Crediting
      /\ \A x \in Staff \ {s} : slip'[x].net = slip[x].net /\ slip'[x].issue = slip[x].issue
      /\ slip'[s].issue \in Nat /\ slip'[s].issue >= slip[s].issue /\ slip'[s].net = net
  BY <1>2, <1>3, <1>5, <1>6 DEF Owing, Crediting
<1>8. CASE Base \in Refs(wallet, s) /\ net # r.old
  <2>1. PICK d, delta : d = Difference("CORR", delta, n, Alone) /\ delta = net - r.old
    OBVIOUS
  <2>2. Goto(c, "post", d)
    BY <1>1, <1>3, <1>8, <2>1 DEF SupersedePayslip, Refs, References
  <2>3. calls'[c].stage = "post" /\ calls'[c].on = s /\ calls'[c].saw = d
    BY <1>1, <2>2, Gone DEF Before, PayrollTyped, AttendanceTyped
  <2>4. d.kind = "CORR" /\ d.delta = delta /\ d.n = n
    BY <2>1, DifferenceIs
  <2>5. PaidOf(wallet, s) = slip[s].net
    BY <1>2, <1>8 DEF Before, Settled, Agrees, Owing
  <2>6. PaidOf(wallet, s) + delta = net
    BY <1>2, <1>3, <2>1, <2>5
  <2>7. \A x \in Numbered(wallet, s, "CORR") : x[2] < n
    <3>1. NumbersFit(slip, wallet, s)
      BY <1>2 DEF Before, Settled
    <3> QED BY <1>3, <3>1 DEF NumbersFit
  <2>8. Owes(calls'[c], slip', wallet')
    BY <1>2, <1>5, <1>6, <1>8, <2>3, <2>4, <2>6, <2>7 DEF Owes, NextNumber
  <2>9. Knows(calls'[c], slip', wallet')
    BY <2>3, <2>8 DEF Knows
  <2>10. "post" \in Owing
    BY DEF Owing
  <2> QED BY <1>2, <1>7, <2>3, <2>9, <2>10, NetSettles
<1>9. CASE ~(Base \in Refs(wallet, s) /\ net # r.old)
  <2>1. Return(c)
    BY <1>1, <1>9 DEF SupersedePayslip, Refs, References
  <2>2. calls'[c].stage = "idle"
    BY <2>1, IdleTyped DEF Idle, Before, PayrollTyped, AttendanceTyped
  <2>3. Knows(calls'[c], slip', wallet')
    BY <2>2, KnowsNothing DEF Owing
  <2> QED BY <1>2, <1>3, <1>9, <1>7, <2>3, NetSettles
<1> QED BY <1>8, <1>9

LEMMA PublishSettles ==
    ASSUME NEW c \in Callers, Before(c), PublishPayslips(c)
    PROVE  After(c)
<1>1. calls'[c].stage = "idle" /\ calls[c].stage = "publish"
  BY IdleTyped DEF PublishPayslips, Before, PayrollTyped, AttendanceTyped, Idle, At
<1>2. Knows(calls'[c], slip', wallet')
  BY <1>1, KnowsNothing DEF Owing
<1>3. \A x \in Staff : slip'[x].net = slip[x].net /\ slip'[x].issue = slip[x].issue
  <2> TAKE x \in Staff
  <2>1. slip[x] \in PayslipRows
    BY DEF Before, PayrollTyped, PayrollTypeOK
  <2>2. PICK row : row = [slip[x] EXCEPT !.status = "PUBLISHED"]
    OBVIOUS
  <2>3. row.net = slip[x].net /\ row.issue = slip[x].issue
    BY <2>1, <2>2 DEF PayslipRows
  <2> QED BY <2>2, <2>3 DEF PublishPayslips
<1>4. \A x \in Staff : NumbersFit(slip', wallet', x) /\ Agrees(slip', wallet', x)
  BY <1>1, <1>3 DEF Before, Settled, NumbersFit, Agrees, PublishPayslips, Owing
<1>5. period' = "DRAFT" => \A x \in Staff : Unpaid(wallet', x)
  BY <1>1 DEF Before, Settled, PublishPayslips, Crediting
<1> QED BY <1>2, <1>4, <1>5 DEF After, Settled

\* The number of a difference is one that was not given out, so that it is posted, and it fits.
LEMMA NumberIsNew ==
    ASSUME NEW d, NEW slips, NEW w, Whole(w), NEW s \in Staff, NEW v, NEW amount, NEW ref, ref[1] = d.kind, ref[2] = d.n,
           NumbersFit(slips, w, s), slips[s].issue \in Nat, NextNumber(d, slips, w, s)
    PROVE  /\ ref \notin Refs(w, s) /\ ref[1] \in {"INDCORR", "CORR"}
           /\ Posted(w, v, s, ref, amount) => NumbersFit(slips, v, s)
<1>1. ref[1] = d.kind /\ ref[2] = d.n
  OBVIOUS
<1>2. PICK n \in Nat : n = Cardinality(Numbered(w, s, "INDCORR"))
  BY NumberedFinite
<1>3. CASE d.kind = "INDCORR" /\ d.n = n + 1
  <2>1. \A r \in Numbered(w, s, "INDCORR") : r[2] \in Nat /\ r[2] <= n
    BY <1>2 DEF NumbersFit
  <2>2. ref \notin Refs(w, s)
    BY <1>1, <1>3, <2>1 DEF Numbered
  <2>3. ASSUME Posted(w, v, s, ref, amount) PROVE NumbersFit(slips, v, s)
    <3>1. Refs(v, s) = Refs(w, s) \cup {ref}
      BY <2>3, PostedRefs
    <3>2. Numbered(v, s, "INDCORR") = Numbered(w, s, "INDCORR") \cup {ref} /\ Numbered(v, s, "CORR") = Numbered(w, s, "CORR")
      BY <1>1, <1>3, <3>1 DEF Numbered
    <3>3. PICK N : N = Numbered(w, s, "INDCORR")
      OBVIOUS
    <3>4. ref \notin N /\ IsFiniteSet(N)
      <4>1. IsFiniteSet(N)
        BY <3>3, NumberedFinite
      <4>2. ref \notin N
        BY <2>2, <3>3 DEF Numbered
      <4> QED BY <4>1, <4>2
    <3>5. Cardinality(N \cup {ref}) = Cardinality(N) + 1
      BY <3>4, FS_AddElement
    <3>6. Cardinality(Numbered(v, s, "INDCORR")) = n + 1
      BY <1>2, <3>2, <3>3, <3>5
    <3>7. \A r \in Numbered(v, s, "INDCORR") : r[2] \in Nat /\ r[2] <= n + 1
      BY <1>1, <1>3, <2>1, <3>2
    <3> QED BY <3>2, <3>6, <3>7 DEF NumbersFit
  <2> QED BY <1>1, <1>3, <2>2, <2>3
<1>4. CASE d.kind = "CORR" /\ d.n = slips[s].issue /\ \A r \in Numbered(w, s, "CORR") : r[2] < d.n
  <2>1. \A r \in Numbered(w, s, "CORR") : r[2] \in Nat /\ r[2] < d.n
    BY <1>4 DEF NumbersFit
  <2>2. ref \notin Refs(w, s)
    BY <1>1, <1>4, <2>1 DEF Numbered
  <2>3. ASSUME Posted(w, v, s, ref, amount) PROVE NumbersFit(slips, v, s)
    <3>1. Refs(v, s) = Refs(w, s) \cup {ref}
      BY <2>3, PostedRefs
    <3>2. Numbered(v, s, "CORR") = Numbered(w, s, "CORR") \cup {ref} /\ Numbered(v, s, "INDCORR") = Numbered(w, s, "INDCORR")
      BY <1>1, <1>4, <3>1 DEF Numbered
    <3>3. \A r \in Numbered(v, s, "CORR") : r[2] \in Nat /\ r[2] <= slips[s].issue
      BY <1>1, <1>4, <2>1, <3>2
    <3> QED BY <3>2, <3>3 DEF NumbersFit
  <2> QED BY <1>1, <1>4, <2>2, <2>3
<1> QED BY <1>2, <1>3, <1>4 DEF NextNumber

LEMMA PostSettles ==
    ASSUME NEW c \in Callers, Before(c), PostDifference(c)
    PROVE  After(c)
<1>1. PICK d, s, delta, ref : d = calls[c].saw /\ s = calls[c].on /\ delta = d.delta /\ ref = Reference(d.kind, d.n)
  OBVIOUS
<1>2. calls[c].stage = "post" /\ s \in Staff /\ delta \in Int /\ ThenTyped(d.then) /\ slip[s] \in PayslipRows
  BY <1>1 DEF PostDifference, At, Before, PayrollTyped, PayrollCalls, PayrollCall, PayrollTypeOK
<1>3. /\ Base \in Refs(wallet, s) /\ PaidOf(wallet, s) + delta = slip[s].net
      /\ NextNumber(d, slip, wallet, s)
  BY <1>1, <1>2 DEF Before, Settled, Knows, Owes, Owing
<1>4. NumbersFit(slip, wallet, s) /\ slip[s].issue \in Nat /\ Whole(wallet)
  BY <1>2, WalletsWhole DEF Before, Settled, PayslipRows
<1>5. PICK v : v = wallet'
  OBVIOUS
<1>6. ref \notin Refs(wallet, s) /\ ref[1] \in {"INDCORR", "CORR"} /\ (Posted(wallet, v, s, ref, delta) => NumbersFit(slip, v, s))
  <2>1. PICK w, slips : w = wallet /\ slips = slip
    OBVIOUS
  <2>2. Whole(w) /\ NumbersFit(slips, w, s) /\ slips[s].issue \in Nat /\ NextNumber(d, slips, w, s)
    BY <1>3, <1>4, <2>1
  <2>3. ref[1] = d.kind /\ ref[2] = d.n
    BY <1>1 DEF Reference
  <2>4. ref \notin Refs(w, s) /\ ref[1] \in {"INDCORR", "CORR"} /\ (Posted(w, v, s, ref, delta) => NumbersFit(slips, v, s))
    BY <1>2, <2>2, <2>3, NumberIsNew
  <2> QED BY <2>1, <2>4
<1>7. Posted(wallet, v, s, ref, delta)
  BY <1>1, <1>2, <1>5, <1>6, PostIs DEF PostDifference, Before, PayrollTyped
<1>8. PaidOf(v, s) = slip[s].net
  <2>1. ref[1] \in PayKinds
    BY <1>6 DEF PayKinds
  <2>2. PaidOf(v, s) = PaidOf(wallet, s) + delta
    BY <1>2, <1>4, <1>7, <2>1, PostedPay
  <2> QED BY <1>3, <2>2
<1>9. \A x \in Staff \ {s} : SamePay(wallet, v, x)
  BY <1>7, SamePayStays DEF Posted
<1>10. slip' = slip /\ period' = period
  BY DEF PostDifference
<1>11. calls'[c].stage \in {"idle", "approve_drafts"}
  BY <1>1, <1>2, GoOnTyped DEF PostDifference, Idle, Before, PayrollTyped, AttendanceTyped
<1>12. Knows(calls'[c], slip', wallet')
  BY <1>11, KnowsNothing DEF Owing
<1>13. \A x \in Staff : NumbersFit(slip, v, x)
  BY <1>6, <1>7, <1>9 DEF Before, Settled, NumbersFit, SamePay
<1>14. \A x \in Staff : Agrees(slip, v, x)
  <2>1. \A x \in Staff \ {s} : Agrees(slip, wallet, x)
    BY <1>1 DEF Before, Settled
  <2>2. Agrees(slip, v, s)
    BY <1>8 DEF Agrees
  <2> QED BY <1>9, <2>1, <2>2 DEF Agrees, SamePay
<1>15. period # "DRAFT"
  <2>1. ~Unpaid(wallet, s)
    BY <1>3, UnpaidIsNothing
  <2> QED BY <1>2, <2>1 DEF Before, Settled, Crediting
<1> QED BY <1>5, <1>10, <1>12, <1>13, <1>14, <1>15 DEF After, Settled

LEMMA PayrollSettles ==
    ASSUME NEW c \in Callers, Before(c), PayrollNext(c), "send_back" \notin scenario
    PROVE  After(c)
<1>1. ~(Ready(c) /\ RequestCorrection(c))
  BY DEF RequestCorrection, Begin
<1>2. ~WriteSentBack(c)
  BY DEF WriteSentBack, At, Before, Settled, Knows
<1>3. CASE Busy(c) /\ PayrollStep(c)
  BY <1>2, <1>3, FiguresSettle, CreditSettles, DraftSettles, WriteSettles, FinishSettles, RecalculatedSettles, CountSettles,
     PostSettles, ApproveSettles, PublishSettles, SupersedeSettles, AdjustmentSettles DEF PayrollStep, AdjustmentStep
<1>4. CASE Ready(c) /\ PayrollRequest(c)
  BY <1>1, <1>4, GenerateSettles, ApproveSettles, RecalculateSettles, AdjustmentSettles DEF PayrollRequest, AdjustmentRequest, AdjustmentStep
<1> QED BY <1>3, <1>4 DEF PayrollNext

-----------------------------------------------------------------------------
(* The pay of a period arrives once.                                       *)

LEMMA IdleSettled ==
    ASSUME NEW call, NEW other, NEW p, NEW slips, NEW w, Settled(call, p, slips, w),
           call.stage = "idle", other.stage = "idle"
    PROVE  Settled(other, p, slips, w)
<1>1. Knows(other, slips, w)
  BY KnowsNothing DEF Owing
<1> QED BY <1>1 DEF Settled, Owing, Crediting

LEMMA PaydayMoves ==
    ASSUME Shape, Single, PaydayInv, NEW c \in Callers, NEW S, Acts(c, S),
           ~Disturbed /\ ~Disturbed' /\ Settled(calls[c], period, slip, wallet) => After(c)
    PROVE  PaydayInv'
<1> SUFFICES ASSUME ~Disturbed'
             PROVE  /\ \A d \in Callers : calls'[d].stage # "idle" => Settled(calls'[d], period', slip', wallet')
                    /\ (\A d \in Callers : calls'[d].stage = "idle") => Settled(Idle, period', slip', wallet')
  BY DEF PaydayInv, Busy, Quiet, At
<1>1. ~overlapped' /\ scenario' = scenario /\ crashes' = crashes
  BY DEF Disturbed, Acts
<1>2. ~Disturbed
  BY <1>1, OneAtATime DEF Disturbed
<1>3. \A d \in Callers \ {c} : calls'[d].stage = "idle"
  BY <1>1, OneAtATime DEF At
<1>4. Settled(calls[c], period, slip, wallet)
  <2>1. CASE Busy(c)
    BY <1>2, <2>1 DEF PaydayInv
  <2>2. CASE ~Busy(c)
    <3>1. Quiet /\ calls[c].stage = "idle"
      BY <1>1, <2>2, OneAtATime DEF Quiet, At, Busy
    <3>2. Settled(Idle, period, slip, wallet) /\ Idle.stage = "idle"
      BY <1>2, <3>1 DEF PaydayInv, Idle
    <3> QED BY <3>1, <3>2, IdleSettled
  <2> QED BY <2>1, <2>2
<1>5. Settled(calls'[c], period', slip', wallet')
  BY <1>2, <1>4 DEF After
<1>6. calls'[c].stage = "idle" => Settled(Idle, period', slip', wallet')
  BY <1>5, IdleSettled DEF Idle
<1> QED BY <1>3, <1>5, <1>6

LEMMA PaydayPayroll ==
    ASSUME PayrollTyped, EntriesFinite, Single, Phases, PaydayInv, NEW c \in Callers, PayrollNext(c)
    PROVE  PaydayInv'
<1>1. Shape /\ Acts(c, PayrollStages)
  BY PayrollActs DEF PayrollTyped, AttendanceTyped
<1>2. ASSUME ~Disturbed, Settled(calls[c], period, slip, wallet) PROVE After(c)
  <2>1. InPhase(calls[c], period) /\ "send_back" \notin scenario
    BY <1>2 DEF Disturbed, Phases
  <2> QED BY <1>2, <2>1, PayrollSettles DEF Before
<1> QED BY <1>1, <1>2, PaydayMoves

\* The other parts leave the slips, and take from the wallets at most what is withdrawn.
LEMMA PaydayElsewhere ==
    ASSUME PayrollTyped, EntriesFinite, Single, PaydayInv, NEW c \in Callers, NEW S, Acts(c, S), S \cap PayrollStages = {},
           calls[c].stage \notin PayrollStages, UNCHANGED <<period, slip>>,
           \/ wallet' = wallet
           \/ \E s : \E ref : \E amount \in Int : ref[1] = "WITHDRAWAL" /\ Post(s, ref, amount)
    PROVE  PaydayInv'
<1>1. \A x \in Staff : SamePay(wallet, wallet', x)
  <2>1. CASE wallet' = wallet
    BY <2>1, SamePayStays
  <2>2. ASSUME NEW s, NEW ref, NEW amount \in Int, ref[1] = "WITHDRAWAL", Post(s, ref, amount)
        PROVE  \A x \in Staff : SamePay(wallet, wallet', x)
    <3>1. CASE s \notin Staff \/ ref \in References(s)
      <4>1. \A x \in Staff : wallet'[x] = wallet[x]
        BY <2>2, <3>1 DEF Post, PayrollTyped, WalletShape
      <4> QED BY <4>1, SamePayStays
    <3>2. CASE s \in Staff /\ ref \notin References(s)
      <4>1. Posted(wallet, wallet', s, ref, amount)
        BY <2>2, <3>2, PostIs DEF PayrollTyped, Refs, References
      <4>2. SamePay(wallet, wallet', s)
        BY <2>2, <3>2, <4>1, SamePayElsewhere, WalletsWhole
      <4>3. \A x \in Staff \ {s} : SamePay(wallet, wallet', x)
        BY <4>1, SamePayStays DEF Posted
      <4> QED BY <4>2, <4>3
    <3> QED BY <3>1, <3>2
  <2> QED BY <2>1, <2>2
<1>2. calls'[c].stage \notin PayrollStages
  <2>1. "idle" \notin PayrollStages
    BY DEF PayrollStages
  <2> QED BY <2>1 DEF Acts
<1>3. Knows(calls'[c], slip, wallet')
  BY <1>2, KnowsNothing DEF Owing, PayrollStages
<1>4. calls[c].stage \notin Owing /\ calls[c].stage \notin Crediting
  BY DEF Owing, Crediting, PayrollStages
<1>5. Settled(calls[c], period, slip, wallet) => After(c)
  BY <1>1, <1>3, <1>4, SettledGoes DEF After
<1>6. Shape
  BY DEF PayrollTyped, AttendanceTyped
<1> QED BY <1>5, <1>6, PaydayMoves

\* Each part's handlers act from its own stages.
LEMMA OthersStages ==
    ASSUME NEW c \in Callers, AttendanceNext(c) \/ StaffPayoutNext(c) \/ PayslipNext(c)
    PROVE  calls[c].stage \notin PayrollStages
<1>1. CASE Busy(c) /\ AttendanceStep(c)
  BY <1>1 DEF AttendanceStep, WriteClockIn, WriteClockOut, SweepOne, WriteNoShow, WriteNeverLeft, Swept, WriteCorrected,
     WriteManualRecord, WriteExtraWorkDay, WriteSubmitted, WriteDecided, MarkLeave, At, PayrollStages
<1>2. CASE Busy(c) /\ StaffPayoutStep(c)
  BY <1>2 DEF StaffPayoutStep, Reserve, CreateRecipient, Refused, WriteTransferCode, WriteFailed, CompleteTransfer, DebitWallet,
     AskGateway, CreateAccount, WriteChange, Initiate, At, PayrollStages
<1>3. CASE Ready(c)
  BY <1>3 DEF Ready, At, PayrollStages
<1> QED BY <1>1, <1>2, <1>3 DEF AttendanceNext, StaffPayoutNext, PayslipNext, PreviewPayslip, Once

\* Handlers that died are counted.
Counted == crashes \in Nat

LEMMA CountedStays ==
    ASSUME PayoutTyped, PayrollTyped, Counted, [Next]_vars
    PROVE  Counted'
<1>1. ASSUME NEW c \in Callers, AttendanceNext(c) \/ PayrollNext(c) \/ StaffPayoutNext(c) PROVE crashes' = crashes
  BY <1>1, AttendanceActs, PayrollActs, StaffPayoutActs DEF Acts, PayoutTyped
<1>2. ASSUME NEW c \in Callers, PayslipNext(c) PROVE crashes' = crashes
  BY <1>2 DEF PayslipNext, PreviewPayslip, Once
<1>3. ASSUME NEW c \in Callers, Dies(c) PROVE crashes' = crashes + 1
  BY <1>3 DEF Dies, Crash
<1>4. CASE \E c \in Callers : AttendanceNext(c) \/ PayrollNext(c) \/ StaffPayoutNext(c) \/ PayslipNext(c) \/ Dies(c)
  BY <1>1, <1>2, <1>3, <1>4 DEF Counted
<1>5. CASE UNCHANGED handlers
  BY <1>5 DEF handlers, Counted
<1> QED BY <1>4, <1>5 DEF Next, TimePasses, Gateway, Settle, vars

LEMMA PaydayStays ==
    ASSUME PayrollTyped, PayoutTyped, EntriesFinite, Single, Phases, PaydayInv, Counted, [Next]_vars
    PROVE  PaydayInv'
<1>0. Shape
  BY DEF PayoutTyped
<1>1. ASSUME NEW c \in Callers, AttendanceNext(c) PROVE PaydayInv'
  <2>1. Acts(c, AttendanceStages) /\ UNCHANGED <<period, slip>> /\ wallet' = wallet
    BY <1>0, <1>1, AttendanceActs DEF AttendanceNext, payroll
  <2> QED BY <1>1, <2>1, OthersStages, StagesDisjoint, PaydayElsewhere
<1>2. ASSUME NEW c \in Callers, PayrollNext(c) PROVE PaydayInv'
  BY <1>2, PaydayPayroll
<1>3. ASSUME NEW c \in Callers, StaffPayoutNext(c) PROVE PaydayInv'
  <2>1. Acts(c, StaffPayoutStages) /\ UNCHANGED <<period, slip>>
    BY <1>0, <1>3, StaffPayoutActs, PayoutPosts
  <2>2. wallet' = wallet \/ \E s : \E ref : \E amount \in Int : ref[1] = "WITHDRAWAL" /\ Post(s, ref, amount)
    BY <1>3, PayoutPosts
  <2> QED BY <1>3, <2>1, <2>2, OthersStages, StagesDisjoint, PaydayElsewhere
<1>4. ASSUME NEW c \in Callers, PayslipNext(c) PROVE PaydayInv'
  <2>1. PICK none : none = {}
    OBVIOUS
  <2>2. none \cap PayrollStages = {}
    BY <2>1
  <2>3. Acts(c, none) /\ UNCHANGED <<period, slip>> /\ wallet' = wallet
    BY <1>0, <1>4, Onces DEF PayslipNext, PreviewPayslip, payroll
  <2> QED BY <1>4, <2>2, <2>3, OthersStages, PaydayElsewhere
<1>5. ASSUME NEW c \in Callers, Dies(c) PROVE PaydayInv'
  <2>1. crashes' > 0
    BY <1>5 DEF Dies, Crash, Counted
  <2> QED BY <2>1 DEF PaydayInv, Disturbed
<1>6. ASSUME UNCHANGED <<handlers, period, slip, wallet>> PROVE PaydayInv'
  <2>1. UNCHANGED <<calls, scenario, crashes, overlapped, period, slip, wallet>>
    BY <1>6 DEF handlers
  <2>2. (Disturbed' <=> Disturbed) /\ (Quiet' <=> Quiet) /\ \A c \in Callers : Busy(c)' <=> Busy(c)
    BY <2>1 DEF Disturbed, Quiet, Busy, At
  <2> QED BY <2>1, <2>2 DEF PaydayInv
<1>7. CASE TimePasses /\ UNCHANGED <<payroll, staffPayout, sheet>>
  BY <1>6, <1>7 DEF TimePasses, payroll
<1>8. CASE Gateway /\ UNCHANGED <<attendance, sheet>>
  BY <1>6, <1>8 DEF Gateway, Settle, payroll
<1>9. CASE UNCHANGED vars
  BY <1>6, <1>9 DEF vars, payroll
<1> QED BY <1>1, <1>2, <1>3, <1>4, <1>5, <1>7, <1>8, <1>9 DEF Next

LEMMA PaydayAtFirst == Init => PaydayInv /\ Counted
<1> SUFFICES ASSUME Init PROVE PaydayInv /\ Counted
  OBVIOUS
<1>1. \A s \in Staff : Unpaid(wallet, s)
  <2> SUFFICES ASSUME NEW s \in Staff PROVE Unpaid(wallet, s)
    OBVIOUS
  <2>1. PICK entry, amount : entry = [ref |-> Reference("OPENING", 0), amount |-> amount] /\ amount = Opening[s]
    OBVIOUS
  <2>2. wallet[s].entries = {entry}
    BY <2>1 DEF Init, PayrollInit
  <2>3. entry.ref[1] = "OPENING"
    BY <2>1 DEF Reference
  <2> QED BY <2>2, <2>3 DEF Unpaid, Refs, PayKinds
<1>2. \A s \in Staff : NumbersFit(slip, wallet, s) /\ Agrees(slip, wallet, s)
  BY <1>1, UnpaidIsNothing DEF NumbersFit, Agrees
<1>3. Knows(Idle, slip, wallet)
  BY KnowsNothing DEF Owing, Idle
<1>4. Settled(Idle, period, slip, wallet)
  BY <1>1, <1>2, <1>3 DEF Settled
<1>5. \A c \in Callers : ~Busy(c)
  BY DEF Init, HandlersInit, Idle, Busy, At
<1>6. crashes = 0
  BY DEF Init, HandlersInit
<1> QED BY <1>4, <1>5, <1>6 DEF PaydayInv, Counted

\* A wallet holds what its transactions add up to, and a period's pay arrives there once: what
\* was credited and corrected is what the slip says, through recalculations, approval and
\* corrections, for any number of members and figures, whatever is withdrawn meanwhile.
THEOREM PayArrivesOnce == Spec => []PayAddsUp
<1> DEFINE Inv == CoverInv /\ PayrollTyped /\ Sound /\ Single /\ Phases /\ PaydayInv /\ Counted
<1>1. Init => Inv
  BY CoverAtFirst, TypedAtFirst, SoundAtFirst, PhasesAtFirst, PaydayAtFirst
<1>2. Inv /\ [Next]_vars => Inv'
  <2> SUFFICES ASSUME Inv, [Next]_vars PROVE Inv'
    OBVIOUS
  <2>1. PayoutTyped /\ EntriesFinite
    BY DEF CoverInv, Dealt, Sound
  <2>2. CoverInv' /\ PayrollTyped'
    BY <2>1, CoverStays, TypedStays
  <2>3. Sound' /\ Single' /\ Phases'
    BY <2>1, SoundStays, PhasesStay
  <2>4. PaydayInv' /\ Counted'
    BY <2>1, PaydayStays, CountedStays
  <2> QED BY <2>2, <2>3, <2>4
<1>3. Inv => PayAddsUp
  <2> SUFFICES ASSUME Inv PROVE PayrollTypeOK /\ StaffWalletAddsUp /\ PaidWhatSlipSays
    BY DEF PayAddsUp
  <2>1. PayrollTypeOK /\ StaffWalletAddsUp
    BY DEF PayrollTyped, Sound
  <2>2. ASSUME ~Disturbed, NEW s \in Staff, Quiet, Base \in References(s) PROVE PaidIn(s) = slip[s].net
    <3>1. Settled(Idle, period, slip, wallet) /\ Idle.stage \notin Owing
      BY <2>2 DEF PaydayInv, Idle, Owing
    <3>2. Agrees(slip, wallet, s)
      BY <3>1 DEF Settled
    <3>3. Base \in Refs(wallet, s) /\ PaidIn(s) = PaidOf(wallet, s)
      BY <2>2 DEF References, Refs, PaidIn, PaidOf, PayKinds
    <3> QED BY <3>2, <3>3 DEF Agrees
  <2>3. PaidWhatSlipSays
    BY <2>2 DEF PaidWhatSlipSays, Disturbed
  <2> QED BY <2>1, <2>3
<1> QED BY <1>1, <1>2, <1>3, PTL DEF Spec

-----------------------------------------------------------------------------
(* The day records: which of them a step of the attendance changes.        *)

LEMMA SavedRow ==
    ASSUME AttendanceTypeOK, NEW s, NEW d, NEW row, Save(s, d, row), NEW x \in Staff, NEW y \in Days
    PROVE  record'[x][y] = IF x = s /\ y = d THEN row ELSE record[x][y]
<1>1. PICK days : days = [record[s] EXCEPT ![d] = row]
  OBVIOUS
<1>2. record' = [record EXCEPT ![s] = days]
  BY <1>1 DEF Save
<1>3. record[x] \in [Days -> AttendanceRows] /\ DOMAIN record = Staff
  BY DEF AttendanceTypeOK
<1>4. record'[x] = IF x = s THEN days ELSE record[x]
  BY <1>2, <1>3
<1>5. x = s => days[y] = IF y = d THEN row ELSE record[x][y]
  BY <1>1, <1>3
<1> QED BY <1>4, <1>5

LEMMA LeaveMarked ==
    ASSUME AttendanceTypeOK, NEW c \in Callers, MarkLeave(c), NEW x \in Staff, NEW y \in Days
    PROVE  IF x = Ask[calls[c].on].staff /\ y = calls[c].saw THEN record'[x][y].status = "ON_LEAVE"
           ELSE record'[x][y] = record[x][y]
<1>1. PICK s, d, row : s = Ask[calls[c].on].staff /\ d = calls[c].saw /\ row = MarkOnLeave(record[s][d])
  OBVIOUS
<1>2. Save(s, d, row)
  BY <1>1 DEF MarkLeave
<1>3. record'[x][y] = IF x = s /\ y = d THEN row ELSE record[x][y]
  BY <1>2, SavedRow
<1>4. x = s /\ y = d => row.status = "ON_LEAVE"
  <2>1. [NoRecord EXCEPT !.status = "ON_LEAVE", !.in = 1].status = "ON_LEAVE"
    BY DEF NoRecord
  <2>2. [record[x][y] EXCEPT !.status = "ON_LEAVE"].status = "ON_LEAVE"
    BY DEF AttendanceRows, AttendanceTypeOK
  <2> QED BY <1>1, <2>1, <2>2 DEF MarkOnLeave
<1> QED BY <1>1, <1>3, <1>4

\* What the properties tell of a record stays.
SameRow(new, old) == new.status = old.status /\ new.late = old.late /\ new.byHand = old.byHand

\* What a step of handler c may do to the record of member x on day y.
RecordMoves(c, x, y) ==
    LET new == record'[x][y]  old == record[x][y] IN
    \/ SameRow(new, old)
    \/ At(c, "clock_in") /\ old.status = "none" /\ new = calls[c].saw
    \/ At(c, "no_show") /\ x = calls[c].on /\ old.status = "none"
          /\ new.status = "ABSENT" /\ new.late = 0 /\ ~new.byHand
    \/ At(c, "never_left") /\ x = calls[c].on /\ y = today - 1
          /\ new.status = "ABSENT" /\ new.late = old.late /\ new.byHand = old.byHand
    \/ At(c, "correct") /\ new.status = calls[c].saw.row.status /\ new.late = calls[c].saw.row.late /\ new.byHand
    \/ At(c, "manual") /\ new.status = calls[c].saw /\ new.late = 0 /\ new.byHand
    \/ At(c, "mark_leave") /\ new.status = "ON_LEAVE"

LEMMA RecordsMove ==
    ASSUME AttendanceTyped, NEW c \in Callers, Busy(c), AttendanceStep(c), NEW x \in Staff, NEW y \in Days
    PROVE  RecordMoves(c, x, y)
<1> USE DEF RecordMoves
<1>1. record[x][y] \in AttendanceRows /\ AttendanceTypeOK
  BY DEF AttendanceTyped, AttendanceTypeOK
<1>2. CASE UNCHANGED record
  BY <1>2 DEF SameRow
<1>3. ASSUME WriteClockIn(c), ~UNCHANGED record PROVE RecordMoves(c, x, y)
  <2>1. PICK s, d, row : s = calls[c].on /\ d = today /\ row = calls[c].saw
    OBVIOUS
  <2>2. At(c, "clock_in") /\ record[s][d].status = "none" /\ Save(s, d, row)
    BY <1>3, <2>1 DEF WriteClockIn
  <2>3. record'[x][y] = IF x = s /\ y = d THEN row ELSE record[x][y]
    BY <1>1, <2>2, SavedRow
  <2> QED BY <2>1, <2>2, <2>3 DEF SameRow
<1>4. ASSUME WriteClockOut(c) PROVE RecordMoves(c, x, y)
  <2>1. PICK s, d, row : s = calls[c].on /\ d = today /\ row = [record[s][d] EXCEPT !.out = TRUE]
    OBVIOUS
  <2>2. Save(s, d, row)
    BY <1>4, <2>1 DEF WriteClockOut, Save
  <2>3. record'[x][y] = IF x = s /\ y = d THEN row ELSE record[x][y]
    BY <1>1, <2>2, SavedRow
  <2>4. x = s /\ y = d => SameRow(row, record[x][y])
    BY <1>1, <2>1 DEF SameRow, AttendanceRows
  <2> QED BY <2>3, <2>4 DEF SameRow
<1>5. ASSUME WriteExtraWorkDay(c) PROVE RecordMoves(c, x, y)
  <2>1. PICK s, d, row : s = calls[c].on[1] /\ d = calls[c].on[2] /\ row = [record[s][d] EXCEPT !.extra = calls[c].saw]
    OBVIOUS
  <2>2. Save(s, d, row)
    BY <1>5, <2>1 DEF WriteExtraWorkDay, Save
  <2>3. record'[x][y] = IF x = s /\ y = d THEN row ELSE record[x][y]
    BY <1>1, <2>2, SavedRow
  <2>4. x = s /\ y = d => SameRow(row, record[x][y])
    BY <1>1, <2>1 DEF SameRow, AttendanceRows
  <2> QED BY <2>3, <2>4 DEF SameRow
<1>6. ASSUME WriteNoShow(c), ~UNCHANGED record PROVE RecordMoves(c, x, y)
  <2>1. PICK s, d, row : s = calls[c].on /\ d = today - 1 /\ row = [NoRecord EXCEPT !.status = "ABSENT", !.fee = FeeFor(d)]
    OBVIOUS
  <2>2. At(c, "no_show") /\ record[s][d].status = "none" /\ Save(s, d, row)
    BY <1>6, <2>1 DEF WriteNoShow
  <2>3. record'[x][y] = IF x = s /\ y = d THEN row ELSE record[x][y]
    BY <1>1, <2>2, SavedRow
  <2>4. row.status = "ABSENT" /\ row.late = 0 /\ ~row.byHand
    BY <2>1 DEF NoRecord
  <2> QED BY <2>1, <2>2, <2>3, <2>4 DEF SameRow
<1>7. ASSUME WriteNeverLeft(c) PROVE RecordMoves(c, x, y)
  <2>1. PICK s, d, row : s = calls[c].on /\ d = today - 1 /\ row = [record[s][d] EXCEPT !.status = "ABSENT", !.fee = FeeFor(d)]
    OBVIOUS
  <2>2. At(c, "never_left") /\ Save(s, d, row)
    BY <1>7, <2>1 DEF WriteNeverLeft
  <2>3. record'[x][y] = IF x = s /\ y = d THEN row ELSE record[x][y]
    BY <1>1, <2>2, SavedRow
  <2>4. x = s /\ y = d => row.status = "ABSENT" /\ row.late = record[x][y].late /\ row.byHand = record[x][y].byHand
    BY <1>1, <2>1 DEF AttendanceRows
  <2> QED BY <2>1, <2>2, <2>3, <2>4 DEF SameRow
<1>8. ASSUME WriteCorrected(c) PROVE RecordMoves(c, x, y)
  <2>1. PICK s, d, fix, new : s = calls[c].on[1] /\ d = calls[c].on[2] /\ fix = calls[c].saw.fix /\ new = calls[c].saw.row
    OBVIOUS
  <2>2. PICK row : row = [record[s][d] EXCEPT !.status = new.status, !.late = new.late, !.fee = new.fee,
                             !.in = IF fix.in > 0 THEN fix.in ELSE @, !.out = @ \/ fix.out, !.byHand = TRUE]
    OBVIOUS
  <2>3. At(c, "correct") /\ Save(s, d, row)
    BY <1>8, <2>1, <2>2 DEF WriteCorrected
  <2>4. record'[x][y] = IF x = s /\ y = d THEN row ELSE record[x][y]
    BY <1>1, <2>3, SavedRow
  <2>5. x = s /\ y = d => row.status = new.status /\ row.late = new.late /\ row.byHand
    BY <1>1, <2>2 DEF AttendanceRows
  <2> QED BY <2>1, <2>3, <2>4, <2>5 DEF SameRow
<1>9. ASSUME WriteManualRecord(c), ~UNCHANGED record PROVE RecordMoves(c, x, y)
  <2>1. PICK s, d, status : s = calls[c].on[1] /\ d = calls[c].on[2] /\ status = calls[c].saw
    OBVIOUS
  <2>2. PICK row : row = [NoRecord EXCEPT !.status = status, !.byHand = TRUE,
                             !.in = IF status = "ABSENT" THEN 0 ELSE 1,
                             !.fee = IF status = "ABSENT" THEN FeeFor(d) ELSE 0]
    OBVIOUS
  <2>3. At(c, "manual") /\ Save(s, d, row)
    BY <1>9, <2>1, <2>2 DEF WriteManualRecord
  <2>4. record'[x][y] = IF x = s /\ y = d THEN row ELSE record[x][y]
    BY <1>1, <2>3, SavedRow
  <2>5. row.status = status /\ row.late = 0 /\ row.byHand
    BY <2>2 DEF NoRecord
  <2> QED BY <2>1, <2>3, <2>4, <2>5 DEF SameRow
<1>10. ASSUME MarkLeave(c) PROVE RecordMoves(c, x, y)
  <2>1. At(c, "mark_leave") /\ (record'[x][y].status = "ON_LEAVE" \/ record'[x][y] = record[x][y])
    BY <1>1, <1>10, LeaveMarked DEF MarkLeave
  <2> QED BY <2>1 DEF SameRow
<1> QED BY <1>2, <1>3, <1>4, <1>5, <1>6, <1>7, <1>8, <1>9, <1>10
        DEF AttendanceStep, SweepOne, Swept, WriteSubmitted, WriteDecided, attendance

-----------------------------------------------------------------------------
(* What is charged for coming late, and what an admin wrote.               *)

\* A charge fits the record's status, and what an admin wrote has one.
RowFits(row) ==
    /\ row.late > 0 => row.status \in {"LATE", "ABSENT", "ON_LEAVE"}
    /\ row.byHand => row.status # "none"
CallFits(call) ==
    /\ call.stage = "clock_in" => RowFits(call.saw) /\ call.saw.status # "none"
    /\ call.stage = "correct" => RowFits(call.saw.row) /\ call.saw.row.status # "none"
RecordsFit == (\A s \in Staff, d \in Days : RowFits(record[s][d])) /\ \A c \in Callers : CallFits(calls[c])

\* An arrival that is charged for is LATE.
LEMMA OutcomeFits ==
    ASSUME NEW s, NEW d, NEW p
    PROVE  Outcome(s, d, p).late > 0 => Outcome(s, d, p).status = "LATE"
<1>1. \/ Outcome(s, d, p) = [status |-> "PUBLIC_HOLIDAY", late |-> 0]
      \/ Outcome(s, d, p) = [status |-> "EXTRA_WORK_DAY_PENDING", late |-> 0]
      \/ Outcome(s, d, p) = [status |-> "LATE", late |-> LatePenalty]
      \/ Outcome(s, d, p) = [status |-> "PRESENT", late |-> 0]
  BY DEF Outcome
<1> QED BY <1>1

LEMMA CorrectedFits ==
    ASSUME record \in [Staff -> [Days -> AttendanceRows]], NEW s \in Staff, NEW d \in Days, NEW fix \in Corrections,
           RowFits(record[s][d]), record[s][d].status # "none"
    PROVE  RowFits(Corrected(s, d, fix)) /\ Corrected(s, d, fix).status # "none"
<1>1. PICK row \in AttendanceRows : row = record[s][d]
  OBVIOUS
<1>2. PICK in, asked : in = (IF fix.in > 0 THEN fix.in ELSE row.in) /\ asked = IF fix.status # "none" THEN fix.status ELSE row.status
  OBVIOUS
<1>3. PICK worked \in BOOLEAN : worked = (asked # "ABSENT" /\ in > 0)
  OBVIOUS
<1>4. PICK status, late :
        /\ status = IF worked /\ fix.status = "none" THEN Outcome(s, d, in).status ELSE asked
        /\ late = CASE worked /\ (fix.status = "none" \/ asked = "LATE") -> Outcome(s, d, in).late
                    [] fix.status # "none" /\ (worked \/ asked # "LATE") -> 0
                    [] OTHER -> row.late
  OBVIOUS
<1>5. PICK out, fee : out = (row.out \/ fix.out) /\ fee = IF status = "ABSENT" THEN FeeFor(d) ELSE 0
  OBVIOUS
<1>6. Corrected(s, d, fix) = [row EXCEPT !.status = status, !.in = in, !.out = out, !.late = late, !.fee = fee, !.byHand = TRUE]
  BY <1>1, <1>2, <1>3, <1>4, <1>5 DEF Corrected
<1>7. [row EXCEPT !.status = status, !.in = in, !.out = out, !.late = late, !.fee = fee, !.byHand = TRUE].status = status
      /\ [row EXCEPT !.status = status, !.in = in, !.out = out, !.late = late, !.fee = fee, !.byHand = TRUE].late = late
  BY DEF AttendanceRows
<1>8. Corrected(s, d, fix).status = status /\ Corrected(s, d, fix).late = late
  BY <1>6, <1>7
<1>9. asked # "none"
  BY <1>1, <1>2
<1>10. status # "none"
  BY <1>4, <1>9, OutcomeTyped
<1>11. CASE worked /\ fix.status = "none"
  <2>1. late = Outcome(s, d, in).late /\ status = Outcome(s, d, in).status
    BY <1>4, <1>11
  <2> QED BY <1>8, <1>10, <2>1, OutcomeFits DEF RowFits
<1>12. CASE worked /\ fix.status # "none" /\ asked = "LATE"
  <2>1. status = "LATE"
    BY <1>4, <1>12
  <2> QED BY <1>8, <2>1 DEF RowFits
<1>13. CASE fix.status # "none" /\ asked # "LATE"
  <2>1. late = 0
    BY <1>4, <1>13
  <2> QED BY <1>8, <1>10, <2>1 DEF RowFits
<1>14. CASE ~worked /\ fix.status = "none"
  <2>1. status = row.status /\ late = row.late
    BY <1>2, <1>4, <1>14
  <2> QED BY <1>1, <1>8, <1>10, <2>1 DEF RowFits
<1>15. CASE ~worked /\ fix.status # "none" /\ asked = "LATE"
  <2>1. status = "LATE"
    BY <1>4, <1>15
  <2> QED BY <1>8, <2>1 DEF RowFits
<1> QED BY <1>11, <1>12, <1>13, <1>14, <1>15

LEMMA StepFits ==
    ASSUME AttendanceTyped, RecordsFit, NEW c \in Callers, Busy(c), AttendanceStep(c), NEW x \in Staff, NEW y \in Days
    PROVE  RowFits(record'[x][y]) /\ (record[x][y].status # "none" => record'[x][y].status # "none")
<1>1. RecordMoves(c, x, y) /\ RowFits(record[x][y]) /\ CallFits(calls[c]) /\ AttendanceCall(calls[c])
  BY RecordsMove DEF RecordsFit, AttendanceTyped, AttendanceCalls
<1>2. record[x][y] \in AttendanceRows
  BY DEF AttendanceTyped, AttendanceTypeOK
<1> QED BY <1>1, <1>2 DEF RecordMoves, SameRow, RowFits, CallFits, AttendanceCall, At, AttendanceRows

\* Where the steps of the attendance lead.
LEMMA StepGoes ==
    ASSUME Shape, NEW c \in Callers, Busy(c), AttendanceStep(c)
    PROVE  /\ calls'[c].stage \in {"idle", "sweep", "no_show", "never_left", "mark_leave"}
           /\ UNCHANGED <<today, part, swept>>
<1>1. ASSUME NEW stage, NEW on, NEW saw, Continue(c, [stage |-> stage, on |-> on, saw |-> saw])
      PROVE  calls'[c].stage = stage
  BY <1>1 DEF Continue, Shape
<1>2. ASSUME NEW stage, NEW saw, Goto(c, stage, saw) PROVE calls'[c].stage = stage
  BY <1>2, Gone
<1>3. Return(c) => calls'[c].stage = "idle"
  BY DEF Return, Continue, Idle, Shape
<1>4. CASE WriteDecided(c) \/ MarkLeave(c) \/ \E s \in Staff : SweepOne(c, s)
  BY <1>1, <1>2, <1>3, <1>4 DEF WriteDecided, MarkLeave, SweepOne, attendance
<1>5. CASE ~(WriteDecided(c) \/ MarkLeave(c) \/ \E s \in Staff : SweepOne(c, s))
  BY <1>2, <1>3, <1>5
     DEF AttendanceStep, WriteClockIn, WriteClockOut, WriteNoShow, WriteNeverLeft, Swept, WriteCorrected,
         WriteManualRecord, WriteExtraWorkDay, WriteSubmitted, attendance
<1> QED BY <1>4, <1>5

\* A request of the attendance reads, and only the night's job notes for which day it is.
LEMMA RequestReads ==
    ASSUME NEW c \in Callers, AttendanceRequest(c)
    PROVE  /\ UNCHANGED <<today, part, record, leave>>
           /\ UNCHANGED swept \/ Sweep(c)
BY DEF AttendanceRequest, ClockRequest, LeaveRequest, ClockIn, ClockOut, CorrectRecord, CreateManualRecord, DecideExtraWorkDay, SubmitLeave,
       DecideLeave, Sweep, attendance

LEMMA RequestFits ==
    ASSUME AttendanceTyped, RecordsFit, NEW c \in Callers, AttendanceRequest(c)
    PROVE  CallFits(calls'[c])
<1>0. Shape /\ AttendanceTypeOK
  BY DEF AttendanceTyped
<1>1. ASSUME NEW s \in Staff, ClockIn(c, s) PROVE CallFits(calls'[c])
  <2>1. PICK is : is = Outcome(s, today, part)
    OBVIOUS
  <2>2. PICK extra : extra = IF is.status = "EXTRA_WORK_DAY_PENDING" THEN "PENDING" ELSE "none"
    OBVIOUS
  <2>3. PICK row : row = [NoRecord EXCEPT !.status = is.status, !.late = is.late, !.in = part, !.extra = extra]
    OBVIOUS
  <2>4. row.status = is.status /\ row.late = is.late /\ ~row.byHand
    BY <2>3 DEF NoRecord
  <2>5. RowFits(row) /\ row.status # "none"
    BY <2>1, <2>4, OutcomeTyped, OutcomeFits DEF RowFits
  <2>6. calls'[c].stage = "clock_in" /\ calls'[c].saw = row
    BY <1>0, <1>1, <2>1, <2>2, <2>3, Begun DEF ClockIn
  <2> QED BY <2>5, <2>6 DEF CallFits
<1>2. ASSUME NEW s \in Staff, NEW d \in Until(today), NEW fix \in Corrections, CorrectRecord(c, s, d, fix)
      PROVE  CallFits(calls'[c])
  <2>1. PICK row : row = Corrected(s, d, fix)
    OBVIOUS
  <2>2. d \in Days /\ RowFits(record[s][d]) /\ record[s][d].status # "none"
    BY <1>2 DEF CorrectRecord, Until, RecordsFit
  <2>3. RowFits(row) /\ row.status # "none"
    BY <1>0, <2>1, <2>2, CorrectedFits DEF AttendanceTypeOK
  <2>4. PICK saw : saw = [fix |-> fix, row |-> row]
    OBVIOUS
  <2>5. calls'[c].stage = "correct" /\ calls'[c].saw = saw /\ saw.row = row
    BY <1>0, <1>2, <2>1, <2>4, Begun DEF CorrectRecord
  <2> QED BY <2>3, <2>5 DEF CallFits
<1>3. ASSUME calls'[c].stage \notin {"clock_in", "correct"} PROVE CallFits(calls'[c])
  BY <1>3 DEF CallFits
<1>4. ASSUME NEW op, NEW stage, NEW on, NEW saw, Begin(c, op, stage, on, saw), stage \notin {"clock_in", "correct"}
      PROVE  CallFits(calls'[c])
  BY <1>0, <1>3, <1>4, Begun
<1>5. CASE Sweep(c) \/ \E r \in LeaveRequests : SubmitLeave(c, r) \/ \E verdict \in {"APPROVED", "REJECTED"} : DecideLeave(c, r, verdict)
  BY <1>4, <1>5 DEF Sweep, SubmitLeave, DecideLeave
<1>6. ASSUME NEW s, NEW d, NEW word, ClockOut(c, s) \/ CreateManualRecord(c, s, d, word) \/ DecideExtraWorkDay(c, s, d, word)
      PROVE  CallFits(calls'[c])
  BY <1>4, <1>6 DEF ClockOut, CreateManualRecord, DecideExtraWorkDay
<1> QED BY <1>1, <1>2, <1>5, <1>6 DEF AttendanceRequest, ClockRequest, LeaveRequest

LEMMA FitsStay ==
    ASSUME PayrollTyped, PayoutTyped, RecordsFit, [Next]_vars
    PROVE  RecordsFit'
<1>0. Shape /\ AttendanceTyped
  BY DEF PayoutTyped, PayrollTyped
<1>1. ASSUME NEW c \in Callers, NEW S, Acts(c, S), CallFits(calls'[c]),
             \A x \in Staff, y \in Days : RowFits(record'[x][y])
      PROVE  RecordsFit'
  BY <1>1 DEF RecordsFit, Acts
<1>2. ASSUME NEW c \in Callers, AttendanceNext(c) PROVE RecordsFit'
  <2>1. Acts(c, AttendanceStages)
    BY <1>0, <1>2, AttendanceActs
  <2>2. CASE Busy(c) /\ AttendanceStep(c)
    <3>1. CallFits(calls'[c])
      BY <1>0, <2>2, StepGoes DEF CallFits
    <3> QED BY <1>0, <1>1, <2>1, <2>2, <3>1, StepFits
  <2>3. CASE Ready(c) /\ AttendanceRequest(c)
    <3>1. CallFits(calls'[c]) /\ UNCHANGED record
      BY <1>0, <2>3, RequestFits, RequestReads
    <3> QED BY <1>1, <2>1, <3>1 DEF RecordsFit
  <2> QED BY <1>2, <2>2, <2>3 DEF AttendanceNext
<1>3. ASSUME NEW c \in Callers, NEW S, S \cap AttendanceStages = {}, Acts(c, S), UNCHANGED attendance PROVE RecordsFit'
  <2>1. CallFits(calls'[c])
    <3>1. calls'[c] = calls[c] \/ calls'[c].stage \notin {"clock_in", "correct"}
      BY <1>3 DEF Acts, AttendanceStages
    <3> QED BY <3>1 DEF CallFits, RecordsFit
  <2> QED BY <1>1, <1>3, <2>1 DEF RecordsFit, attendance
<1>4. ASSUME NEW c \in Callers, PayrollNext(c) PROVE RecordsFit'
  <2>1. PayrollStages \cap AttendanceStages = {}
    BY StagesDisjoint
  <2> QED BY <1>0, <1>3, <1>4, <2>1, PayrollActs DEF PayrollNext
<1>5. ASSUME NEW c \in Callers, StaffPayoutNext(c) PROVE RecordsFit'
  <2>1. StaffPayoutStages \cap AttendanceStages = {}
    BY DEF StaffPayoutStages, BeforeDebit, AttendanceStages
  <2> QED BY <1>0, <1>3, <1>5, <2>1, StaffPayoutActs DEF StaffPayoutNext
<1>6. ASSUME NEW c \in Callers, PayslipNext(c) PROVE RecordsFit'
  BY <1>6 DEF PayslipNext, PreviewPayslip, Once, RecordsFit, attendance
<1>7. ASSUME NEW c \in Callers, Dies(c) PROVE RecordsFit'
  <2>1. \A d \in Callers : calls'[d] = calls[d] \/ calls'[d] = Idle
    BY <1>0, <1>7 DEF Dies, Crash, Shape
  <2>2. CallFits(Idle)
    BY DEF CallFits, Idle
  <2> QED BY <1>7, <2>1, <2>2 DEF Dies, RecordsFit, attendance
<1>8. CASE UNCHANGED <<handlers, record>>
  BY <1>8 DEF handlers, RecordsFit
<1> QED BY <1>2, <1>4, <1>5, <1>6, <1>7, <1>8 DEF Next, TimePasses, Gateway, Settle, vars, attendance

LEMMA FitsAtFirst == Init => RecordsFit
<1> SUFFICES ASSUME Init PROVE RecordsFit
  OBVIOUS
<1>1. \A c \in Callers : CallFits(calls[c])
  BY DEF Init, HandlersInit, Idle, CallFits
<1>2. ASSUME NEW s \in Staff, NEW d \in Days PROVE RowFits(record[s][d])
  <2>1. PICK row, here : row = NoRecord /\ here = [row EXCEPT !.status = "PRESENT", !.in = 1, !.out = TRUE]
    OBVIOUS
  <2>2. RowFits(row) /\ RowFits(here)
    BY <2>1 DEF RowFits, NoRecord
  <2>3. record[s][d] = row \/ record[s][d] = here
    BY <2>1 DEF Init, AttendanceInit
  <2> QED BY <2>2, <2>3
<1> QED BY <1>1, <1>2 DEF RecordsFit

-----------------------------------------------------------------------------
(* Leave requests, one handler at a time.                                  *)

Taken == {"PENDING", "APPROVED"}
Clashless(lv, r) == \A q \in LeaveRequests : lv[q] \in Taken => ~Clash(r, q)
DontClash(lv) == \A r, q \in LeaveRequests : r # q /\ lv[r] \in Taken /\ lv[q] \in Taken => ~Clash(r, q)

\* What a handler that runs by itself knows of the leave request it is about.
LeaveKnown(call, lv) ==
    /\ call.stage \in {"submit_leave", "decide_leave"} => call.on \in LeaveRequests
    /\ call.stage = "submit_leave" => lv[call.on] = "none" /\ Clashless(lv, call.on)
    /\ call.stage = "decide_leave" => lv[call.on] = "PENDING"

LeavesInv == overlapped \/ (DontClash(leave) /\ \A c \in Callers : LeaveKnown(calls[c], leave))

\* Only the handler that moves and the requests matter.
LEMMA LeavesMove ==
    ASSUME Shape, Single, LeavesInv, NEW c \in Callers, NEW S, Acts(c, S),
           ~overlapped /\ ~overlapped' => DontClash(leave') /\ LeaveKnown(calls'[c], leave')
    PROVE  LeavesInv'
<1> SUFFICES ASSUME ~overlapped', NEW d \in Callers PROVE DontClash(leave') /\ LeaveKnown(calls'[d], leave')
  BY DEF LeavesInv
<1>1. CASE d # c
  <2>1. calls'[d].stage = "idle" /\ ~overlapped
    BY <1>1, OneAtATime DEF At
  <2> QED BY <2>1 DEF LeaveKnown
<1>2. CASE d = c
  BY <1>2, OneAtATime
<1> QED BY <1>1, <1>2

LEMMA SubmittedDontClash ==
    ASSUME AttendanceTyped, NEW c \in Callers, Busy(c), WriteSubmitted(c), DontClash(leave), LeaveKnown(calls[c], leave)
    PROVE  DontClash(leave')
<1>1. PICK r \in LeaveRequests : r = calls[c].on
  BY DEF WriteSubmitted, At, LeaveKnown
<1>2. Clashless(leave, r) /\ leave' = [leave EXCEPT ![r] = "PENDING"]
  BY <1>1 DEF WriteSubmitted, At, LeaveKnown
<1>3. \A q \in LeaveRequests : leave'[q] = IF q = r THEN "PENDING" ELSE leave[q]
  BY <1>2 DEF AttendanceTyped, AttendanceTypeOK
<1>4. \A q \in LeaveRequests \ {r} : leave'[q] \in Taken => ~Clash(r, q) /\ ~Clash(q, r)
  BY <1>2, <1>3 DEF Clashless, Clash
<1>5. \A p, q \in LeaveRequests \ {r} : p # q /\ leave'[p] \in Taken /\ leave'[q] \in Taken => ~Clash(p, q)
  BY <1>3 DEF DontClash
<1> QED BY <1>4, <1>5 DEF DontClash

LEMMA DecidedDontClash ==
    ASSUME AttendanceTyped, NEW c \in Callers, Busy(c), WriteDecided(c), DontClash(leave), LeaveKnown(calls[c], leave)
    PROVE  DontClash(leave')
<1>1. PICK r \in LeaveRequests : r = calls[c].on
  BY DEF WriteDecided, At, LeaveKnown
<1>2. leave[r] = "PENDING" /\ leave' = [leave EXCEPT ![r] = calls[c].saw]
  BY <1>1 DEF WriteDecided, At, LeaveKnown
<1>3. \A q \in LeaveRequests : q # r => leave'[q] = leave[q]
  BY <1>2 DEF AttendanceTyped, AttendanceTypeOK
<1>4. \A q \in LeaveRequests : leave'[q] \in Taken => leave[q] \in Taken
  BY <1>2, <1>3 DEF Taken
<1> QED BY <1>4 DEF DontClash

\* Decisions and submissions are the only writes.
LEMMA LeavesElsewhere ==
    ASSUME NEW c \in Callers, AttendanceNext(c), ~WriteSubmitted(c), ~WriteDecided(c)
    PROVE  UNCHANGED leave
<1>1. CASE AttendanceStep(c)
  BY <1>1 DEF AttendanceStep, WriteClockIn, WriteClockOut, SweepOne, WriteNoShow, WriteNeverLeft, Swept, WriteCorrected,
     WriteManualRecord, WriteExtraWorkDay, MarkLeave, attendance
<1>2. CASE AttendanceRequest(c)
  BY <1>2, RequestReads
<1> QED BY <1>1, <1>2 DEF AttendanceNext

LEMMA RequestKnows ==
    ASSUME AttendanceTyped, NEW c \in Callers, AttendanceRequest(c)
    PROVE  LeaveKnown(calls'[c], leave)
<1>0. Shape
  BY DEF AttendanceTyped
<1>1. ASSUME NEW r \in LeaveRequests, SubmitLeave(c, r) PROVE LeaveKnown(calls'[c], leave)
  <2>1. calls'[c].stage = "submit_leave" /\ calls'[c].on = r
    BY <1>0, <1>1, Begun DEF SubmitLeave
  <2> QED BY <1>1, <2>1 DEF SubmitLeave, NoClash, Clashless, Taken, LeaveKnown
<1>2. ASSUME NEW r \in LeaveRequests, NEW verdict, DecideLeave(c, r, verdict) PROVE LeaveKnown(calls'[c], leave)
  <2>1. calls'[c].stage = "decide_leave" /\ calls'[c].on = r
    BY <1>0, <1>2, Begun DEF DecideLeave
  <2> QED BY <1>2, <2>1 DEF DecideLeave, LeaveKnown
<1>3. ASSUME NEW op, NEW stage, NEW on, NEW saw, Begin(c, op, stage, on, saw), stage \notin {"submit_leave", "decide_leave"}
      PROVE  LeaveKnown(calls'[c], leave)
  <2>1. calls'[c].stage = stage
    BY <1>0, <1>3, Begun
  <2> QED BY <1>3, <2>1 DEF LeaveKnown
<1>4. CASE Sweep(c)
  BY <1>3, <1>4 DEF Sweep
<1>5. ASSUME NEW s, NEW d, NEW word, ClockIn(c, s) \/ ClockOut(c, s) \/ CorrectRecord(c, s, d, word)
             \/ CreateManualRecord(c, s, d, word) \/ DecideExtraWorkDay(c, s, d, word)
      PROVE  LeaveKnown(calls'[c], leave)
  BY <1>3, <1>5 DEF ClockIn, ClockOut, CorrectRecord, CreateManualRecord, DecideExtraWorkDay
<1> QED BY <1>1, <1>2, <1>4, <1>5 DEF AttendanceRequest, ClockRequest, LeaveRequest

LEMMA LeavesStay ==
    ASSUME PayrollTyped, PayoutTyped, Single, LeavesInv, [Next]_vars
    PROVE  LeavesInv'
<1>0. Shape /\ AttendanceTyped
  BY DEF PayoutTyped, PayrollTyped
<1>1. ASSUME NEW c \in Callers, AttendanceNext(c) PROVE LeavesInv'
  <2>1. Acts(c, AttendanceStages)
    BY <1>0, <1>1, AttendanceActs
  <2>2. ASSUME ~overlapped PROVE DontClash(leave') /\ LeaveKnown(calls'[c], leave')
    <3>1. DontClash(leave) /\ LeaveKnown(calls[c], leave)
      BY <2>2 DEF LeavesInv
    <3>2. CASE Busy(c) /\ AttendanceStep(c)
      <4>1. LeaveKnown(calls'[c], leave')
        BY <1>0, <3>2, StepGoes DEF LeaveKnown
      <4>2. DontClash(leave')
        BY <1>0, <1>1, <3>1, <3>2, SubmittedDontClash, DecidedDontClash, LeavesElsewhere
      <4> QED BY <4>1, <4>2
    <3>3. CASE Ready(c) /\ AttendanceRequest(c)
      BY <1>0, <3>1, <3>3, RequestReads, RequestKnows
    <3> QED BY <1>1, <3>2, <3>3 DEF AttendanceNext
  <2> QED BY <1>0, <2>1, <2>2, LeavesMove
<1>2. ASSUME NEW c \in Callers, NEW S, S \cap AttendanceStages = {}, Acts(c, S), UNCHANGED leave PROVE LeavesInv'
  <2>1. ASSUME ~overlapped PROVE DontClash(leave') /\ LeaveKnown(calls'[c], leave')
    <3>1. calls'[c] = calls[c] \/ calls'[c].stage \notin {"submit_leave", "decide_leave"}
      BY <1>2 DEF Acts, AttendanceStages
    <3> QED BY <1>2, <2>1, <3>1 DEF LeavesInv, LeaveKnown
  <2> QED BY <1>0, <1>2, <2>1, LeavesMove
<1>3. ASSUME NEW c \in Callers, PayrollNext(c) PROVE LeavesInv'
  <2>1. PayrollStages \cap AttendanceStages = {}
    BY StagesDisjoint
  <2> QED BY <1>0, <1>2, <1>3, <2>1, PayrollActs DEF PayrollNext, attendance
<1>4. ASSUME NEW c \in Callers, StaffPayoutNext(c) PROVE LeavesInv'
  <2>1. StaffPayoutStages \cap AttendanceStages = {}
    BY DEF StaffPayoutStages, BeforeDebit, AttendanceStages
  <2> QED BY <1>0, <1>2, <1>4, <2>1, StaffPayoutActs DEF StaffPayoutNext, attendance
<1>5. ASSUME NEW c \in Callers, PayslipNext(c) PROVE LeavesInv'
  <2>1. UNCHANGED <<calls, leave>> /\ overlapped' = (overlapped \/ ~Quiet)
    BY <1>5 DEF PayslipNext, PreviewPayslip, Once, attendance
  <2>2. CASE overlapped
    BY <2>1, <2>2 DEF LeavesInv
  <2>3. CASE DontClash(leave) /\ \A d \in Callers : LeaveKnown(calls[d], leave)
    BY <2>1, <2>3 DEF LeavesInv
  <2> QED BY <2>2, <2>3 DEF LeavesInv
<1>6. ASSUME NEW c \in Callers, Dies(c) PROVE LeavesInv'
  <2>1. \A d \in Callers : calls'[d] = calls[d] \/ calls'[d] = Idle
    BY <1>0, <1>6 DEF Dies, Crash, Shape
  <2>2. UNCHANGED <<leave, overlapped>>
    BY <1>6 DEF Dies, Crash, attendance
  <2>3. LeaveKnown(Idle, leave)
    BY DEF LeaveKnown, Idle
  <2> QED BY <2>1, <2>2, <2>3 DEF LeavesInv
<1>7. CASE UNCHANGED <<handlers, leave>>
  BY <1>7 DEF handlers, LeavesInv
<1> QED BY <1>1, <1>3, <1>4, <1>5, <1>6, <1>7 DEF Next, TimePasses, Gateway, Settle, vars, attendance

LEMMA LeavesAtFirst == Init => LeavesInv
<1> SUFFICES ASSUME Init PROVE LeavesInv
  OBVIOUS
<1>1. \A c \in Callers : LeaveKnown(calls[c], leave)
  BY DEF Init, HandlersInit, Idle, LeaveKnown
<1>2. \A r \in LeaveRequests : leave[r] = "none"
  BY DEF Init, AttendanceInit
<1> QED BY <1>1, <1>2 DEF LeavesInv, DontClash, Taken

-----------------------------------------------------------------------------
(* Leave and the night's job, one handler at a time.                       *)

Approved(lv, s, d) ==
    \E r \in LeaveRequests : /\ Ask[r].staff = s /\ Ask[r].type = "LEAVE"
                             /\ lv[r] = "APPROVED" /\ d \in Ask[r].first..Ask[r].last

\* The handler has yet to come to the day's record: to mark a leave, or by night.
Marking(call, s, d) == call.stage = "mark_leave" /\ Ask[call.on].staff = s /\ d \in call.saw..Ask[call.on].last
Sweeping == {"sweep", "no_show", "never_left"}
Awaits(call, s) == call.stage \in Sweeping /\ (s \in call.saw \/ (call.stage = "no_show" /\ call.on = s))

Honoured(call, rec, lv) ==
    \A s \in Staff, d \in Days :
        Approved(lv, s, d) => rec[s][d].status = "ON_LEAVE" \/ rec[s][d].byHand \/ Marking(call, s, d)
Noticed(call, day, done, rec, lv) ==
    \A s \in Staff, d \in Days :
        day = done + 1 /\ d = done /\ DayType[d] = "WORKING" /\ ~Approved(lv, s, d) =>
            rec[s][d].status # "none" \/ Awaits(call, s)

\* What a handler that runs by itself knows of the day it is about.
Night(call, day, rec, lv) ==
    /\ call.stage = "no_show" => ~Approved(lv, call.on, day - 1) /\ rec[call.on][day - 1].status = "none"
    /\ call.stage = "never_left" => rec[call.on][day - 1].status \in {"PRESENT", "LATE"}
    /\ call.stage = "mark_leave" => call.on \in LeaveRequests /\ call.saw \in Int

Orderly(call, day, done, rec, lv) == Night(call, day, rec, lv) /\ Honoured(call, rec, lv) /\ Noticed(call, day, done, rec, lv)

Unruly == overlapped \/ crashes > 0

DaysInv ==
    Unruly \/ /\ \A c \in Callers : Busy(c) => Orderly(calls[c], today, swept, record, leave)
              /\ Quiet => Orderly(Idle, today, swept, record, leave)

Behind == swept < today

Informed(c) == AttendanceTyped /\ RecordsFit /\ LeaveKnown(calls[c], leave) /\ Orderly(calls[c], today, swept, record, leave)
InOrder(c) == Orderly(calls'[c], today', swept', record', leave')

LEMMA ApprovedIs == ASSUME NEW s, NEW d PROVE ApprovedOn(s, d, "LEAVE") <=> Approved(leave, s, d)
BY DEF ApprovedOn, Approved

\* A step that does not touch the requests keeps the approved leave on record.
LEMMA HonourStays ==
    ASSUME NEW c \in Callers, Informed(c), Busy(c), AttendanceStep(c), UNCHANGED leave, ~At(c, "mark_leave")
    PROVE  Honoured(calls'[c], record', leave')
<1> SUFFICES ASSUME NEW x \in Staff, NEW y \in Days, Approved(leave, x, y)
             PROVE  record'[x][y].status = "ON_LEAVE" \/ record'[x][y].byHand
  BY DEF Honoured
<1>1. record[x][y].status = "ON_LEAVE" \/ record[x][y].byHand
  BY DEF Informed, Orderly, Honoured, Marking, At
<1>2. RecordMoves(c, x, y) /\ RowFits(record[x][y])
  BY RecordsMove DEF Informed, RecordsFit
<1>3. record[x][y] \in AttendanceRows /\ record[x][y].status # "none"
  BY <1>1, <1>2 DEF Informed, AttendanceTyped, AttendanceTypeOK, RowFits
<1>4. At(c, "never_left") /\ x = calls[c].on /\ y = today - 1 => record[x][y].byHand
  BY <1>1 DEF Informed, Orderly, Night, At
<1> QED BY <1>1, <1>2, <1>3, <1>4 DEF RecordMoves, SameRow, At

\* Nor does it forget a member whose record the night's job has yet to see.
LEMMA NoticeStays ==
    ASSUME NEW c \in Callers, Informed(c), Busy(c), AttendanceStep(c),
           \A x \in Staff, y \in Days : Approved(leave, x, y) => Approved(leave', x, y),
           \A x \in Staff : Awaits(calls[c], x) /\ swept = today - 1 /\ swept \in Days /\ DayType[swept] = "WORKING"
                                /\ ~Approved(leave, x, swept) =>
                                Awaits(calls'[c], x) \/ record'[x][swept].status # "none"
    PROVE  Noticed(calls'[c], today', swept', record', leave')
<1> SUFFICES ASSUME NEW x \in Staff, NEW y \in Days, today = swept + 1, y = swept, DayType[y] = "WORKING", ~Approved(leave', x, y),
                    ~Awaits(calls'[c], x)
             PROVE  record'[x][y].status # "none"
  BY StepGoes DEF Noticed, Informed, AttendanceTyped
<1>1. ~Approved(leave, x, y) /\ swept = today - 1
  BY DEF Informed, AttendanceTyped, AttendanceTypeOK
<1>2. record[x][y].status # "none" \/ Awaits(calls[c], x)
  BY <1>1 DEF Informed, Orderly, Noticed
<1>3. record[x][y].status # "none" => record'[x][y].status # "none"
  BY StepFits DEF Informed
<1> QED BY <1>1, <1>2, <1>3

\* Handlers that have just returned, or do not work by night.
LEMMA NightElsewhere ==
    ASSUME NEW call, NEW day, NEW rec, NEW lv, call.stage \notin {"no_show", "never_left", "mark_leave"}
    PROVE  Night(call, day, rec, lv)
BY DEF Night

LEMMA SweepOneInOrder ==
    ASSUME NEW c \in Callers, Informed(c), Busy(c), NEW s \in Staff, SweepOne(c, s)
    PROVE  InOrder(c)
<1>0. Shape /\ AttendanceTypeOK /\ AttendanceStep(c)
  BY DEF Informed, AttendanceTyped, AttendanceStep
<1>1. PICK rest, d : rest = calls[c].saw \ {s} /\ d = today - 1
  OBVIOUS
<1>2. UNCHANGED <<today, part, swept, record, leave>> /\ At(c, "sweep")
  BY DEF SweepOne, attendance
<1>3. CASE NoShow(s, d)
  <2>0. NoShow(s, today - 1) /\ ~NeverLeft(record[s][today - 1])
    BY <1>1, <1>3 DEF NoShow, NeverLeft
  <2>1. Continue(c, [stage |-> "no_show", on |-> s, saw |-> rest])
    <3>1. Continue(c, [stage |-> "no_show", on |-> s, saw |-> calls[c].saw \ {s}])
      BY <2>0 DEF SweepOne
    <3> QED BY <1>1, <3>1
  <2>2. calls'[c] = [stage |-> "no_show", on |-> s, saw |-> rest]
    BY <1>0, <2>1 DEF Continue, Shape
  <2>3. calls'[c].stage = "no_show" /\ calls'[c].on = s /\ calls'[c].saw = rest
    BY <2>2, Selects
  <2>4. Night(calls'[c], today', record', leave')
    BY <1>1, <1>2, <1>3, <2>3, ApprovedIs DEF NoShow, OnLeave, Night
  <2>5. \A x \in Staff : Awaits(calls[c], x) => Awaits(calls'[c], x)
    BY <1>1, <1>2, <2>3 DEF Awaits, Sweeping, At
  <2>6. Noticed(calls'[c], today', swept', record', leave')
    BY <1>0, <1>2, <2>5, NoticeStays
  <2> QED BY <1>0, <1>2, <2>4, <2>6, HonourStays DEF InOrder, Orderly, At
<1>4. CASE ~NoShow(s, d) /\ NeverLeft(record[s][d])
  <2>1. Continue(c, [stage |-> "never_left", on |-> s, saw |-> rest])
    BY <1>1, <1>4 DEF SweepOne
  <2>2. calls'[c] = [stage |-> "never_left", on |-> s, saw |-> rest]
    BY <1>0, <2>1 DEF Continue, Shape
  <2>3. calls'[c].stage = "never_left" /\ calls'[c].on = s /\ calls'[c].saw = rest
    BY <2>2, Selects
  <2>4. Night(calls'[c], today', record', leave')
    BY <1>1, <1>2, <1>4, <2>3 DEF NeverLeft, Night
  <2>5. \A x \in Staff : Awaits(calls[c], x) => Awaits(calls'[c], x) \/ x = s
    BY <1>1, <1>2, <2>3 DEF Awaits, Sweeping, At
  <2>6. record'[s][d].status # "none"
    BY <1>2, <1>4 DEF NeverLeft
  <2>7. Noticed(calls'[c], today', swept', record', leave')
    BY <1>0, <1>1, <1>2, <2>5, <2>6, NoticeStays
  <2> QED BY <1>0, <1>2, <2>4, <2>7, HonourStays DEF InOrder, Orderly, At
<1>5. CASE ~NoShow(s, d) /\ ~NeverLeft(record[s][d])
  <2>1. Goto(c, "sweep", rest)
    BY <1>1, <1>5 DEF SweepOne
  <2>3. calls'[c].stage = "sweep" /\ calls'[c].saw = rest
    BY <1>0, <2>1, Gone
  <2>4. Night(calls'[c], today', record', leave')
    BY <2>3, NightElsewhere
  <2>5. \A x \in Staff : Awaits(calls[c], x) => Awaits(calls'[c], x) \/ x = s
    BY <1>1, <1>2, <2>3 DEF Awaits, Sweeping, At
  <2>6. DayType[d] = "WORKING" /\ ~Approved(leave, s, d) => record'[s][d].status # "none"
    BY <1>2, <1>5, ApprovedIs DEF NoShow, OnLeave
  <2>7. Noticed(calls'[c], today', swept', record', leave')
    BY <1>0, <1>1, <1>2, <2>5, <2>6, NoticeStays
  <2> QED BY <1>0, <1>2, <2>4, <2>7, HonourStays DEF InOrder, Orderly, At
<1> QED BY <1>3, <1>4, <1>5

LEMMA NoShowInOrder ==
    ASSUME NEW c \in Callers, Informed(c), Busy(c), WriteNoShow(c)
    PROVE  InOrder(c)
<1>0. Shape /\ AttendanceTypeOK /\ AttendanceStep(c)
  BY DEF Informed, AttendanceTyped, AttendanceStep
<1>1. PICK s, d, row : s = calls[c].on /\ d = today - 1 /\ row = [NoRecord EXCEPT !.status = "ABSENT", !.fee = FeeFor(d)]
  OBVIOUS
<1>2. At(c, "no_show") /\ record[s][d].status = "none"
  BY <1>1 DEF WriteNoShow, Informed, Orderly, Night, At
<1>3. Save(s, d, row) /\ Goto(c, "sweep", calls[c].saw) /\ UNCHANGED <<today, part, swept, leave>>
  BY <1>1, <1>2 DEF WriteNoShow
<1>4. calls'[c].stage = "sweep" /\ calls'[c].saw = calls[c].saw
  BY <1>0, <1>3, Gone
<1>5. \A x \in Staff : Awaits(calls[c], x) => Awaits(calls'[c], x) \/ x = s
  BY <1>1, <1>4 DEF Awaits, Sweeping
<1>6. row.status = "ABSENT"
  BY <1>1 DEF NoRecord
<1>7. s \in Staff /\ d \in Days => record'[s][d].status # "none"
  BY <1>0, <1>3, <1>6, SavedRow
<1>8. Noticed(calls'[c], today', swept', record', leave')
  BY <1>0, <1>1, <1>3, <1>5, <1>7, NoticeStays
<1> QED BY <1>0, <1>2, <1>3, <1>4, <1>8, HonourStays, NightElsewhere DEF InOrder, Orderly, At

\* The other steps with a record or none, and the end of the job.
LEMMA WriteInOrder ==
    ASSUME NEW c \in Callers, Informed(c), Busy(c),
           \/ WriteClockIn(c) \/ WriteClockOut(c) \/ WriteNeverLeft(c) \/ Swept(c) \/ WriteCorrected(c)
           \/ WriteManualRecord(c) \/ WriteExtraWorkDay(c)
    PROVE  InOrder(c)
<1>0. Shape /\ AttendanceStep(c) /\ UNCHANGED leave /\ ~At(c, "mark_leave")
  BY DEF Informed, AttendanceTyped, AttendanceStep, WriteClockIn, WriteClockOut, WriteNeverLeft, Swept, WriteCorrected,
         WriteManualRecord, WriteExtraWorkDay, At, attendance
<1>1. calls'[c].stage \in {"idle", "sweep"} /\ \A x \in Staff : Awaits(calls[c], x) => Awaits(calls'[c], x)
  <2>1. CASE WriteNeverLeft(c)
    <3>1. calls'[c].stage = "sweep" /\ calls'[c].saw = calls[c].saw
      BY <1>0, <2>1, Gone DEF WriteNeverLeft
    <3> QED BY <2>1, <3>1 DEF WriteNeverLeft, At, Awaits, Sweeping
  <2>2. CASE ~WriteNeverLeft(c)
    <3>1. Return(c)
      BY <2>2 DEF WriteClockIn, WriteClockOut, Swept, WriteCorrected, WriteManualRecord, WriteExtraWorkDay
    <3>2. calls'[c].stage = "idle"
      BY <1>0, <3>1 DEF Return, Continue, Idle, Shape
    <3>3. \A x \in Staff : ~Awaits(calls[c], x)
      BY <2>2 DEF WriteClockIn, WriteClockOut, Swept, WriteCorrected, WriteManualRecord, WriteExtraWorkDay, At, Awaits, Sweeping
    <3> QED BY <3>2, <3>3
  <2> QED BY <2>1, <2>2
<1>2. Night(calls'[c], today', record', leave')
  BY <1>1, NightElsewhere
<1>3. Noticed(calls'[c], today', swept', record', leave')
  BY <1>0, <1>1, NoticeStays
<1> QED BY <1>0, <1>2, <1>3, HonourStays DEF InOrder, Orderly

\* Neither by night nor marking a leave: whatever is approved stands on record.
LEMMA StandsOnRecord ==
    ASSUME NEW call, NEW day, NEW done, NEW rec, NEW lv, Orderly(call, day, done, rec, lv),
           NEW other, call.stage \notin Sweeping \cup {"mark_leave"}, other.stage \notin {"no_show", "never_left", "mark_leave"}
    PROVE  Orderly(other, day, done, rec, lv)
BY DEF Orderly, Night, Honoured, Noticed, Marking, Awaits, Sweeping

LEMMA SubmittedInOrder ==
    ASSUME NEW c \in Callers, Informed(c), Busy(c), WriteSubmitted(c)
    PROVE  InOrder(c)
<1>0. Shape /\ AttendanceTypeOK /\ At(c, "submit_leave") /\ Return(c) /\ UNCHANGED <<today, part, swept, record>>
  BY DEF Informed, AttendanceTyped, WriteSubmitted
<1>1. PICK r \in LeaveRequests : r = calls[c].on
  BY <1>0 DEF At, Informed, LeaveKnown
<1>2. leave[r] = "none" /\ leave' = [leave EXCEPT ![r] = "PENDING"]
  BY <1>0, <1>1 DEF WriteSubmitted, At, Informed, LeaveKnown
<1>3. \A q \in LeaveRequests : leave'[q] = "APPROVED" <=> leave[q] = "APPROVED"
  BY <1>0, <1>2 DEF AttendanceTypeOK
<1>4. \A x, y : Approved(leave', x, y) <=> Approved(leave, x, y)
  BY <1>3 DEF Approved
<1>5. calls'[c].stage = "idle"
  BY <1>0 DEF Return, Continue, Idle, Shape
<1>6. Orderly(calls'[c], today, swept, record, leave)
  BY <1>0, <1>5, StandsOnRecord DEF Informed, At, Sweeping
<1>7. Night(calls'[c], today, record, leave')
  BY <1>5, NightElsewhere
<1>8. Honoured(calls'[c], record, leave') /\ Noticed(calls'[c], today, swept, record, leave')
  BY <1>4, <1>6 DEF Orderly, Honoured, Noticed
<1> QED BY <1>0, <1>7, <1>8 DEF InOrder, Orderly

\* A request that is approved is about to be marked, day by day.
LEMMA DecidedInOrder ==
    ASSUME NEW c \in Callers, Informed(c), Busy(c), WriteDecided(c)
    PROVE  InOrder(c)
<1>0. Shape /\ AttendanceTypeOK /\ At(c, "decide_leave") /\ UNCHANGED <<today, part, swept, record>>
  BY DEF Informed, AttendanceTyped, WriteDecided
<1>1. PICK r \in LeaveRequests : r = calls[c].on
  BY <1>0 DEF At, Informed, LeaveKnown
<1>2. leave[r] = "PENDING" /\ leave' = [leave EXCEPT ![r] = calls[c].saw]
  BY <1>0, <1>1 DEF WriteDecided, At, Informed, LeaveKnown
<1>3. \A q \in LeaveRequests : q # r => leave'[q] = leave[q]
  BY <1>2 DEF AttendanceTypeOK
<1>4. leave'[r] = calls[c].saw
  BY <1>0, <1>2 DEF AttendanceTypeOK
<1>5. CASE calls[c].saw = "APPROVED" /\ Ask[r].type = "LEAVE"
  <2>1. Goto(c, "mark_leave", Ask[r].first)
    BY <1>1, <1>5 DEF WriteDecided
  <2>2. calls'[c].stage = "mark_leave" /\ calls'[c].on = r /\ calls'[c].saw = Ask[r].first
    BY <1>0, <1>1, <2>1, Gone
  <2>3. Ask[r].first \in Int
    BY AttendanceAssumption DEF LeaveRequests
  <2>4. Night(calls'[c], today, record, leave')
    BY <2>2, <2>3 DEF Night
  <2>5. \A x, y : Approved(leave', x, y) => Approved(leave, x, y) \/ Marking(calls'[c], x, y)
    BY <1>3, <2>2 DEF Approved, Marking
  <2>6. \A x, y : Approved(leave, x, y) => Approved(leave', x, y)
    BY <1>2, <1>3 DEF Approved
  <2>7. Honoured(calls'[c], record, leave')
    BY <1>0, <2>5 DEF Informed, Orderly, Honoured, Marking, At
  <2>8. Noticed(calls'[c], today, swept, record, leave')
    BY <1>0, <2>6 DEF Informed, Orderly, Noticed, Awaits, Sweeping, At
  <2> QED BY <1>0, <2>4, <2>7, <2>8 DEF InOrder, Orderly
<1>6. CASE ~(calls[c].saw = "APPROVED" /\ Ask[r].type = "LEAVE")
  <2>1. Return(c)
    BY <1>1, <1>6 DEF WriteDecided
  <2>2. calls'[c].stage = "idle"
    BY <1>0, <2>1 DEF Return, Continue, Idle, Shape
  <2>3. \A x, y : Approved(leave', x, y) <=> Approved(leave, x, y)
    BY <1>2, <1>3, <1>4, <1>6 DEF Approved
  <2>4. Orderly(calls'[c], today, swept, record, leave)
    BY <1>0, <2>2, StandsOnRecord DEF Informed, At, Sweeping
  <2>5. Night(calls'[c], today, record, leave')
    BY <2>2, NightElsewhere
  <2>6. Honoured(calls'[c], record, leave') /\ Noticed(calls'[c], today, swept, record, leave')
    BY <2>3, <2>4 DEF Orderly, Honoured, Noticed
  <2> QED BY <1>0, <2>5, <2>6 DEF InOrder, Orderly
<1> QED BY <1>5, <1>6

LEMMA MarkedInOrder ==
    ASSUME NEW c \in Callers, Informed(c), Busy(c), MarkLeave(c)
    PROVE  InOrder(c)
<1>0. Shape /\ AttendanceTypeOK /\ At(c, "mark_leave") /\ UNCHANGED <<today, part, swept, leave>> /\ AttendanceStep(c)
  BY DEF Informed, AttendanceTyped, MarkLeave, AttendanceStep
<1>1. PICK r, d, last : r = calls[c].on /\ d = calls[c].saw /\ last = Ask[r].last
  OBVIOUS
<1>2. r \in LeaveRequests /\ d \in Int /\ last \in Int
  BY <1>0, <1>1, AttendanceAssumption DEF Informed, Orderly, Night, At, LeaveRequests
<1>3. \A x \in Staff, y \in Days : Approved(leave, x, y) =>
          record'[x][y].status = "ON_LEAVE" \/ record'[x][y].byHand \/ (Ask[r].staff = x /\ y \in d..last /\ y # d)
  <2> SUFFICES ASSUME NEW x \in Staff, NEW y \in Days, Approved(leave, x, y)
               PROVE  record'[x][y].status = "ON_LEAVE" \/ record'[x][y].byHand \/ (Ask[r].staff = x /\ y \in d..last /\ y # d)
    OBVIOUS
  <2>1. record[x][y].status = "ON_LEAVE" \/ record[x][y].byHand \/ (Ask[r].staff = x /\ y \in d..last)
    BY <1>1 DEF Informed, Orderly, Honoured, Marking
  <2>2. IF x = Ask[r].staff /\ y = d THEN record'[x][y].status = "ON_LEAVE" ELSE record'[x][y] = record[x][y]
    BY <1>0, <1>1, LeaveMarked
  <2> QED BY <2>1, <2>2
<1>4. \A x \in Staff : ~Awaits(calls[c], x)
  BY <1>0 DEF Awaits, Sweeping, At
<1>5. Noticed(calls'[c], today', swept', record', leave')
  BY <1>0, <1>4, NoticeStays
<1>6. CASE d = last
  <2>1. Return(c)
    BY <1>1, <1>6 DEF MarkLeave
  <2>2. calls'[c].stage = "idle"
    BY <1>0, <2>1 DEF Return, Continue, Idle, Shape
  <2>3. \A y \in d..last : y = d
    BY <1>2, <1>6
  <2>4. Honoured(calls'[c], record', leave')
    BY <1>0, <1>3, <2>3 DEF Honoured
  <2> QED BY <1>5, <2>2, <2>4, NightElsewhere DEF InOrder, Orderly
<1>7. CASE d # last
  <2>1. Goto(c, "mark_leave", d + 1)
    BY <1>1, <1>7 DEF MarkLeave
  <2>2. calls'[c].stage = "mark_leave" /\ calls'[c].on = r /\ calls'[c].saw = d + 1
    BY <1>0, <1>1, <2>1, Gone
  <2>3. \A y \in d..last : y = d \/ y \in (d + 1)..last
    BY <1>2
  <2>4. Honoured(calls'[c], record', leave')
    BY <1>0, <1>1, <1>3, <2>2, <2>3 DEF Honoured, Marking
  <2>5. Night(calls'[c], today', record', leave')
    BY <1>2, <2>2 DEF Night
  <2> QED BY <1>5, <2>4, <2>5 DEF InOrder, Orderly
<1> QED BY <1>6, <1>7

\* A request: only the night's job has more to come to than was on record.
LEMMA RequestInOrder ==
    ASSUME NEW c \in Callers, Informed(c), Ready(c), AttendanceRequest(c)
    PROVE  InOrder(c)
<1>0. Shape /\ UNCHANGED <<today, part, record, leave>> /\ calls[c].stage = "idle"
  BY RequestReads DEF Informed, AttendanceTyped, Ready, At
<1>1. \E op, stage, on, saw : Begin(c, op, stage, on, saw) /\ stage \notin {"no_show", "never_left", "mark_leave"}
                                  /\ (Sweep(c) => stage = "sweep" /\ saw = Staff)
  <2>1. CASE Sweep(c)
    BY <2>1 DEF Sweep
  <2>2. CASE ~Sweep(c) /\ \E r \in LeaveRequests : SubmitLeave(c, r) \/ \E verdict \in {"APPROVED", "REJECTED"} : DecideLeave(c, r, verdict)
    BY <2>2 DEF SubmitLeave, DecideLeave
  <2>3. ASSUME ~Sweep(c), NEW s, NEW d, NEW word, ClockIn(c, s) \/ ClockOut(c, s) \/ CorrectRecord(c, s, d, word)
               \/ CreateManualRecord(c, s, d, word) \/ DecideExtraWorkDay(c, s, d, word)
        PROVE  \E op, stage, on, saw : Begin(c, op, stage, on, saw) /\ stage \notin {"no_show", "never_left", "mark_leave"}
    BY <2>3 DEF ClockIn, ClockOut, CorrectRecord, CreateManualRecord, DecideExtraWorkDay
  <2> QED BY <2>1, <2>2, <2>3 DEF AttendanceRequest, ClockRequest, LeaveRequest
<1>2. calls'[c].stage \notin {"no_show", "never_left", "mark_leave"} /\ (Sweep(c) => calls'[c].stage = "sweep" /\ calls'[c].saw = Staff)
  BY <1>0, <1>1, Begun
<1>3. Orderly(calls'[c], today, swept, record, leave)
  BY <1>0, <1>2, StandsOnRecord DEF Informed, Sweeping
<1>4. CASE Sweep(c)
  <2>1. \A x \in Staff : Awaits(calls'[c], x)
    BY <1>2, <1>4 DEF Awaits, Sweeping
  <2> QED BY <1>0, <1>3, <2>1 DEF InOrder, Orderly, Noticed
<1>5. CASE UNCHANGED swept
  BY <1>0, <1>3, <1>5 DEF InOrder
<1> QED BY <1>4, <1>5, RequestReads

LEMMA AttendanceInOrder ==
    ASSUME NEW c \in Callers, Informed(c), AttendanceNext(c)
    PROVE  InOrder(c)
BY SweepOneInOrder, NoShowInOrder, WriteInOrder, SubmittedInOrder, DecidedInOrder, MarkedInOrder, RequestInOrder
   DEF AttendanceNext, AttendanceStep

LEMMA DaysMove ==
    ASSUME Shape, Single, DaysInv, NEW c \in Callers, NEW S, Acts(c, S),
           ~Unruly /\ ~Unruly' /\ Orderly(calls[c], today, swept, record, leave) => InOrder(c)
    PROVE  DaysInv'
<1> SUFFICES ASSUME ~Unruly'
             PROVE  /\ \A d \in Callers : calls'[d].stage # "idle" => Orderly(calls'[d], today', swept', record', leave')
                    /\ (\A d \in Callers : calls'[d].stage = "idle") => Orderly(Idle, today', swept', record', leave')
  BY DEF DaysInv, Busy, Quiet, At
<1>1. ~overlapped' /\ crashes' = crashes
  BY DEF Unruly, Acts
<1>2. ~Unruly
  BY <1>1, OneAtATime DEF Unruly
<1>3. \A d \in Callers \ {c} : calls'[d].stage = "idle"
  BY <1>1, OneAtATime DEF At
<1>4. Orderly(calls[c], today, swept, record, leave)
  <2>1. CASE Busy(c)
    BY <1>2, <2>1 DEF DaysInv
  <2>2. CASE ~Busy(c)
    <3>1. Quiet /\ calls[c].stage = "idle"
      BY <1>1, <2>2, OneAtATime DEF Quiet, At, Busy
    <3>2. Orderly(Idle, today, swept, record, leave) /\ Idle.stage = "idle"
      BY <1>2, <3>1 DEF DaysInv, Idle
    <3> QED BY <3>1, <3>2, StandsOnRecord DEF Sweeping
  <2> QED BY <2>1, <2>2
<1>5. Orderly(calls'[c], today', swept', record', leave')
  BY <1>2, <1>4 DEF InOrder
<1>6. calls'[c].stage = "idle" => Orderly(Idle, today', swept', record', leave')
  BY <1>5, StandsOnRecord DEF Idle, Sweeping
<1> QED BY <1>3, <1>5, <1>6

LEMMA DaysElsewhere ==
    ASSUME Shape, Single, DaysInv, NEW c \in Callers, NEW S, Acts(c, S), UNCHANGED attendance, S \cap AttendanceStages = {},
           calls[c].stage \notin AttendanceStages
    PROVE  DaysInv'
<1>1. "idle" \notin AttendanceStages /\ Sweeping \cup {"mark_leave"} \subseteq AttendanceStages
  BY DEF AttendanceStages, Sweeping
<1>2. calls'[c].stage \notin Sweeping \cup {"mark_leave"} /\ calls[c].stage \notin Sweeping \cup {"mark_leave"}
  BY <1>1 DEF Acts
<1>3. calls'[c].stage \notin {"no_show", "never_left", "mark_leave"}
  BY <1>2 DEF Sweeping
<1>4. ASSUME Orderly(calls[c], today, swept, record, leave) PROVE InOrder(c)
  BY <1>2, <1>3, <1>4, StandsOnRecord DEF InOrder, attendance
<1> QED BY <1>4, DaysMove

\* Handlers of the payroll and of withdrawals act from their own stages.
LEMMA AwayFromRecords ==
    ASSUME NEW c \in Callers, PayrollNext(c) \/ StaffPayoutNext(c) \/ PayslipNext(c)
    PROVE  calls[c].stage \notin AttendanceStages
<1>1. CASE Busy(c) /\ PayrollStep(c)
  BY <1>1 DEF PayrollStep, ComputeFigures, CreditPay, ApproveDraft, WriteSlip, FinishGeneration, WriteRecalculated,
     CountCorrections, PostDifference, ReleasePeriod, PublishPayslips, WriteSentBack, SupersedePayslip,
     WriteAdjustmentRemoved, WriteAdjustmentCorrected, At, AttendanceStages
<1>2. CASE Busy(c) /\ StaffPayoutStep(c)
  BY <1>2 DEF StaffPayoutStep, Reserve, CreateRecipient, Refused, WriteTransferCode, WriteFailed, CompleteTransfer, DebitWallet,
     AskGateway, CreateAccount, WriteChange, Initiate, At, AttendanceStages
<1>3. CASE Ready(c)
  BY <1>3 DEF Ready, At, AttendanceStages
<1> QED BY <1>1, <1>2, <1>3 DEF PayrollNext, StaffPayoutNext, PayslipNext, PreviewPayslip, Once

LEMMA BehindStays ==
    ASSUME PayrollTyped, Behind, [Next]_vars
    PROVE  Behind'
<1>1. AttendanceTypeOK /\ Shape
  BY DEF PayrollTyped, AttendanceTyped
<1>2. ASSUME NEW c \in Callers, AttendanceNext(c) PROVE Behind'
  <2>1. UNCHANGED today /\ (UNCHANGED swept \/ Sweep(c))
    BY <1>1, <1>2, StepGoes, RequestReads DEF AttendanceNext
  <2> QED BY <1>1, <2>1 DEF Sweep, Behind, AttendanceTypeOK
<1>3. CASE TimePasses
  BY <1>1, <1>3 DEF TimePasses, Behind, AttendanceTypeOK
<1>4. CASE UNCHANGED attendance
  BY <1>4 DEF attendance, Behind
<1> QED BY <1>2, <1>3, <1>4 DEF Next, PayrollNext, StaffPayoutNext, PayslipNext, Dies, vars

LEMMA DaysStay ==
    ASSUME PayrollTyped, PayoutTyped, Single, LeavesInv, RecordsFit, Behind, DaysInv, Counted, [Next]_vars
    PROVE  DaysInv'
<1>0. Shape /\ AttendanceTyped
  BY DEF PayoutTyped, PayrollTyped
<1>1. ASSUME NEW c \in Callers, AttendanceNext(c) PROVE DaysInv'
  <2>1. Acts(c, AttendanceStages)
    BY <1>0, <1>1, AttendanceActs
  <2>2. ASSUME ~Unruly, Orderly(calls[c], today, swept, record, leave) PROVE InOrder(c)
    <3>1. Informed(c)
      BY <1>0, <2>2 DEF Informed, LeavesInv, Unruly
    <3> QED BY <1>1, <3>1, AttendanceInOrder
  <2> QED BY <1>0, <2>1, <2>2, DaysMove
<1>2. ASSUME NEW c \in Callers, PayrollNext(c) PROVE DaysInv'
  <2>1. PayrollStages \cap AttendanceStages = {}
    BY StagesDisjoint
  <2>2. UNCHANGED attendance
    BY <1>2 DEF PayrollNext
  <2> QED BY <1>0, <1>2, <2>1, <2>2, PayrollActs, AwayFromRecords, DaysElsewhere
<1>3. ASSUME NEW c \in Callers, StaffPayoutNext(c) PROVE DaysInv'
  <2>1. StaffPayoutStages \cap AttendanceStages = {}
    BY DEF StaffPayoutStages, BeforeDebit, AttendanceStages
  <2>2. UNCHANGED attendance
    BY <1>3 DEF StaffPayoutNext
  <2> QED BY <1>0, <1>3, <2>1, <2>2, StaffPayoutActs, AwayFromRecords, DaysElsewhere
<1>4. ASSUME NEW c \in Callers, PayslipNext(c) PROVE DaysInv'
  <2>1. PICK none : none = {}
    OBVIOUS
  <2>2. none \cap AttendanceStages = {}
    BY <2>1
  <2>3. Acts(c, none) /\ UNCHANGED attendance
    BY <1>0, <1>4, Onces DEF PayslipNext, PreviewPayslip
  <2> QED BY <1>0, <1>4, <2>2, <2>3, AwayFromRecords, DaysElsewhere
<1>5. ASSUME NEW c \in Callers, Dies(c) PROVE DaysInv'
  <2>1. crashes' > 0
    BY <1>5 DEF Dies, Crash, Counted
  <2> QED BY <2>1 DEF DaysInv, Unruly
<1>6. ASSUME TimePasses PROVE DaysInv'
  <2>1. UNCHANGED <<calls, crashes, overlapped, swept, record, leave>> /\ Quiet /\ (today' = today \/ today' = today + 1)
    BY <1>6 DEF TimePasses, handlers
  <2>2. (Unruly' <=> Unruly) /\ \A c \in Callers : ~Busy(c)'
    BY <2>1 DEF Unruly, Quiet, Busy, At
  <2>3. ASSUME Orderly(Idle, today, swept, record, leave) PROVE Orderly(Idle, today', swept, record, leave)
    <3>1. today' = swept + 1 => today' = today
      BY <1>0, <2>1 DEF Behind, AttendanceTyped, AttendanceTypeOK
    <3>2. Noticed(Idle, today', swept, record, leave)
      BY <2>3, <3>1 DEF Orderly, Noticed
    <3>3. Night(Idle, today', record, leave)
      BY NightElsewhere DEF Idle
    <3> QED BY <2>3, <3>2, <3>3 DEF Orderly
  <2> QED BY <2>1, <2>2, <2>3 DEF DaysInv
<1>7. ASSUME UNCHANGED <<handlers, attendance>> PROVE DaysInv'
  <2>1. UNCHANGED <<calls, crashes, overlapped, today, swept, record, leave>>
    BY <1>7 DEF handlers, attendance
  <2>2. (Unruly' <=> Unruly) /\ (Quiet' <=> Quiet) /\ \A c \in Callers : Busy(c)' <=> Busy(c)
    BY <2>1 DEF Unruly, Quiet, Busy, At
  <2> QED BY <2>1, <2>2 DEF DaysInv
<1> QED BY <1>1, <1>2, <1>3, <1>4, <1>5, <1>6, <1>7 DEF Next, Gateway, Settle, vars

LEMMA DaysAtFirst == Init => DaysInv /\ Behind
<1> SUFFICES ASSUME Init PROVE DaysInv /\ Behind
  OBVIOUS
<1>1. swept = 0 /\ today \in Nat /\ swept < today
  <2>1. Cardinality(Days) \in Nat
    BY AttendanceAssumption, FS_CardinalityType DEF Days
  <2> QED BY <2>1 DEF Init, AttendanceInit
<1>2. \A r \in LeaveRequests : leave[r] = "none"
  BY DEF Init, AttendanceInit
<1>3. \A x, y : ~Approved(leave, x, y)
  BY <1>2 DEF Approved
<1>4. 0 \notin Days
  BY AttendanceAssumption DEF Days
<1>5. Orderly(Idle, today, swept, record, leave)
  BY <1>1, <1>3, <1>4, NightElsewhere DEF Orderly, Honoured, Noticed, Idle
<1>6. \A c \in Callers : ~Busy(c)
  BY DEF Init, HandlersInit, Idle, Busy, At
<1> QED BY <1>1, <1>5, <1>6 DEF DaysInv, Behind

\* The day records agree: leave is honoured, no no-show slips through the night's job, who is
\* charged for coming late was late, and leaves do not clash (the last while handlers do not
\* overlap, the first two while none dies either), for any number of members, days and requests.
THEOREM DaysAreKept == Spec => []AttendanceKept
<1> DEFINE Inv == CoverInv /\ PayrollTyped /\ Single /\ Phases /\ Counted /\ RecordsFit /\ LeavesInv /\ Behind /\ DaysInv
<1>1. Init => Inv
  BY CoverAtFirst, TypedAtFirst, PhasesAtFirst, PaydayAtFirst, FitsAtFirst, LeavesAtFirst, DaysAtFirst
<1>2. Inv /\ [Next]_vars => Inv'
  <2> SUFFICES ASSUME Inv, [Next]_vars PROVE Inv'
    OBVIOUS
  <2>1. PayoutTyped
    BY DEF CoverInv, Dealt
  <2>2. CoverInv' /\ PayrollTyped'
    BY <2>1, CoverStays, TypedStays
  <2>3. Single' /\ Phases' /\ Counted'
    BY <2>1, PhasesStay, CountedStays
  <2>4. RecordsFit' /\ LeavesInv' /\ Behind'
    BY <2>1, FitsStay, LeavesStay, BehindStays
  <2>5. DaysInv'
    BY <2>1, DaysStay
  <2> QED BY <2>2, <2>3, <2>4, <2>5
<1>3. Inv => AttendanceKept
  <2> SUFFICES ASSUME Inv PROVE AttendanceTypeOK /\ LeaveIsHonoured /\ NoShowIsAbsent /\ ChargedWasLate /\ LeavesDontClash
    BY DEF AttendanceKept
  <2>1. AttendanceTypeOK
    BY DEF PayrollTyped, AttendanceTyped
  <2>2. ChargedWasLate
    BY DEF RecordsFit, RowFits, ChargedWasLate
  <2>3. LeavesDontClash
    <3>1. DontClash(leave) => \A r, q \in LeaveRequests :
              r # q /\ {leave[r], leave[q]} \subseteq {"PENDING", "APPROVED"} => ~Clash(r, q)
      BY DEF DontClash, Taken
    <3> QED BY <3>1 DEF LeavesInv, LeavesDontClash
  <2>4. ASSUME ~Unruly, Quiet PROVE Honoured(Idle, record, leave) /\ Noticed(Idle, today, swept, record, leave)
    BY <2>4 DEF DaysInv, Orderly
  <2>5. \A x, y : ~Marking(Idle, x, y) /\ ~Awaits(Idle, x)
    BY DEF Idle, Marking, Awaits, Sweeping
  <2>6. LeaveIsHonoured
    <3>1. ASSUME ~Unruly, NEW x \in Staff, NEW y \in Days, Quiet, ApprovedOn(x, y, "LEAVE")
          PROVE  record[x][y].status # "ABSENT" \/ record[x][y].byHand
      BY <2>4, <2>5, <3>1, ApprovedIs DEF Honoured
    <3> QED BY <3>1 DEF LeaveIsHonoured, Unruly
  <2>7. NoShowIsAbsent
    <3>1. ASSUME ~Unruly, NEW x \in Staff, NEW y \in Days, Quiet, swept = y, today = y + 1, DayType[y] = "WORKING",
                 ~ApprovedOn(x, y, "LEAVE")
          PROVE  record[x][y].status # "none"
      BY <2>4, <2>5, <3>1, ApprovedIs DEF Noticed
    <3> QED BY <3>1 DEF NoShowIsAbsent, Unruly
  <2> QED BY <2>1, <2>2, <2>3, <2>6, <2>7
<1> QED BY <1>1, <1>2, <1>3, PTL DEF Spec
===============================================================================
