-------------------------------- MODULE Payroll -------------------------------
(***************************************************************************)
(* One payroll period: payslips computed from attendance and adjustments,  *)
(* net pay credited to the staff wallets, individual recalculation, the    *)
(* period's approval or return for correction, and corrections of what was *)
(* published.                                                              *)
(*                                                                         *)
(* Pay is a salary by days, less penalties and adjustments; commission,    *)
(* allowances, tax and pension are left out, and amounts are whole.        *)
(***************************************************************************)
EXTENDS Attendance, Sums

CONSTANTS
    Salary,         \* Salary[s]: base salary of a month
    Opening,        \* Opening[s]: the wallet before this period
    Adjustable,     \* ids of payroll adjustments, all of them deductions
    AdjusteeOf,     \* AdjusteeOf[x]: whom adjustment x is about
    Amounts,        \* what an adjustment, an override or a withdrawal may amount to
    Manual          \* whether admins override figures by hand

ASSUME PayrollAssumption ==
    /\ Salary \in [Staff -> Nat] /\ Opening \in [Staff -> Nat]
    /\ Amounts \subseteq Nat /\ IsFiniteSet(Adjustable)

VARIABLES
    period,         \* status of the period
    slip,           \* slip[s]: the payslip that is not superseded, and how many are
    deduction,      \* deduction[x]: a payroll adjustment
    wallet          \* wallet[s]: balance and its transactions, by reference

payroll == <<period, slip, deduction, wallet>>

PeriodStatuses == {"DRAFT", "AWAITING_RELEASE", "RELEASED"}
PayslipRows == [status : {"none", "DRAFT", "PUBLISHED", "CORRECTED"}, net : Int, issue : Nat]
DeductionRows == [status : {"none", "ACTIVE", "SUPERSEDED"}, amount : {0} \cup Amounts,
                  of : Adjustable \cup {"none"}]

\* A reference is unique: PAYROLL-<period>-<staff>, -INDCORR<n>, -CORR<n>, WITHDRAWAL-<id>.
Reference(kind, n) == <<kind, n>>
Base == Reference("PAYROLL", 0)
References(s) == {t.ref : t \in wallet[s].entries}

PayrollTypeOK ==
    /\ period \in PeriodStatuses
    /\ slip \in [Staff -> PayslipRows]
    /\ deduction \in [Adjustable -> DeductionRows]
    /\ \A s \in Staff : /\ wallet[s].balance \in Int
                        /\ \A t \in wallet[s].entries : t.amount \in Int

PayrollInit ==
    /\ period = "DRAFT"
    /\ slip = [s \in Staff |-> [status |-> "none", net |-> 0, issue |-> 0]]
    /\ deduction = [x \in Adjustable |-> [status |-> "none", amount |-> 0, of |-> "none"]]
    /\ wallet = [s \in Staff |-> [balance |-> Opening[s],
                                  entries |-> {[ref |-> Reference("OPENING", 0), amount |-> Opening[s]]}]]

\* Debits have negative amounts.
Total(S) == SumOver(S, [t \in S |-> t.amount]) - SumOver(S, [t \in S |-> -t.amount])

\* A transaction: the balance and the entry, or neither if the reference is taken.
Post(s, ref, amount) ==
    IF ref \in References(s) THEN UNCHANGED wallet
    ELSE wallet' = [wallet EXCEPT ![s] = [balance |-> @.balance + amount,
                                          entries |-> @.entries \cup {[ref |-> ref, amount |-> amount]}]]

-----------------------------------------------------------------------------
(* What a member is due, from the attendance so far and the adjustments of *)
(* the period, the superseded ones included.                               *)

Share(s) == LET payable == Cardinality(Expected(s)) - Cardinality(Missed(s)) + Cardinality(ExtraDays(s))
            IN IF Expected(s) = {} THEN 0 ELSE (Salary[s] * payable) \div Cardinality(Expected(s))
Penalties(s) == SumOver(Days, [d \in Days |-> record[s][d].late])
Deducted(s) == SumOver({x \in Adjustable : AdjusteeOf[x] = s /\ deduction[x].status # "none"},
                       [x \in Adjustable |-> deduction[x].amount])
Due(s) == Share(s) - Penalties(s) - Deducted(s)

\* An override replaces a figure, and the net pay is computed from it.
Figures(s) == {Due(s)} \cup (IF Manual THEN Amounts ELSE {})

-----------------------------------------------------------------------------
(* generatePayroll.  First every member's slip, then every member's credit. *)

GeneratePayroll(c) ==
    /\ period = "DRAFT"
    /\ Begin(c, "generate", "figures", "nothing", [left |-> Staff, nets |-> [s \in Staff |-> 0]])
    /\ UNCHANGED payroll

\* The figures, and the slip that is there.
ComputeFigures(c, s) ==
    LET g == calls[c].saw IN
    /\ At(c, "figures") /\ s \in g.left
    /\ Continue(c, [stage |-> "write_slip", on |-> s,
                    saw |-> [left |-> g.left \ {s}, nets |-> [g.nets EXCEPT ![s] = Due(s)],
                             found |-> slip[s].status # "none", issue |-> slip[s].issue]])
    /\ UNCHANGED payroll

\* An update by id, even of a slip superseded since; or an insert, of which the database
\* refuses a second for the member: then the whole of it stops.
WriteSlip(c) ==
    LET s == calls[c].on  g == calls[c].saw
        go == Continue(c, [stage |-> IF g.left = {} THEN "credit" ELSE "figures", on |-> "nothing",
                           saw |-> [left |-> IF g.left = {} THEN Staff ELSE g.left, nets |-> g.nets]])
    IN
    /\ At(c, "write_slip")
    /\ \/ /\ g.found /\ go
          /\ slip' = IF slip[s].issue = g.issue THEN [slip EXCEPT ![s].net = g.nets[s]] ELSE slip
       \/ /\ ~g.found /\ slip[s].status = "none" /\ go
          /\ slip' = [slip EXCEPT ![s] = [status |-> "DRAFT", net |-> g.nets[s], issue |-> 0]]
       \/ ~g.found /\ slip[s].status # "none" /\ Return(c) /\ UNCHANGED slip
    /\ UNCHANGED <<period, deduction, wallet>>

\* One credit for a period and a member, found or refused the second time.
CreditPay(c, s) ==
    LET g == calls[c].saw IN
    /\ At(c, "credit") /\ s \in g.left
    /\ Post(s, Base, g.nets[s])
    /\ Goto(c, IF g.left = {s} THEN "generated" ELSE "credit", [left |-> g.left \ {s}, nets |-> g.nets])
    /\ UNCHANGED <<period, slip, deduction>>

\* By id, whatever became of the period in between.
FinishGeneration(c) ==
    /\ At(c, "generated") /\ Return(c)
    /\ period' = "AWAITING_RELEASE"
    /\ UNCHANGED <<slip, deduction, wallet>>

-----------------------------------------------------------------------------
(* regeneratePayslipForStaff, by itself or for every draft of a period     *)
(* that is being approved (one member after the other here), and the       *)
(* difference it makes to the wallet, which correctPayslip posts as well.  *)

\* Faulty variant of Recalculable: released periods too.
RecalculableAlways(s) == period # "DRAFT" /\ slip[s].status \in {"DRAFT", "PUBLISHED"}

Recalculable(s) == period = "AWAITING_RELEASE" /\ slip[s].status = "DRAFT"

\* What is left to do once a slip is written; then: the members whose turn comes after it.
Difference(kind, delta, n, then) == [kind |-> kind, delta |-> delta, n |-> n, then |-> then]
Alone == {"alone"}

RecalculatePayslip(c, s, net) ==
    /\ Recalculable(s) /\ net \in Figures(s)
    /\ Begin(c, "recalculate", "recalculate", s,
             [net |-> net, old |-> slip[s].net, issue |-> slip[s].issue, then |-> Alone])
    /\ UNCHANGED payroll

GoOn(c, then) ==
    IF then = Alone THEN Return(c)
    ELSE Continue(c, [stage |-> "approve_drafts", on |-> "nothing", saw |-> then])

WriteRecalculated(c) ==
    LET s == calls[c].on  r == calls[c].saw IN
    /\ At(c, "recalculate")
    /\ slip' = IF slip[s].issue = r.issue THEN [slip EXCEPT ![s].net = r.net] ELSE slip
    /\ IF Base \in References(s) /\ r.net # r.old
       THEN Goto(c, "count", Difference("INDCORR", r.net - r.old, 0, r.then))
       ELSE GoOn(c, r.then)
    /\ UNCHANGED <<period, deduction, wallet>>

CountCorrections(c) ==
    LET d == calls[c].saw
        n == Cardinality({t \in References(calls[c].on) : t[1] = "INDCORR"}) IN
    /\ At(c, "count")
    /\ Goto(c, "post", Difference(d.kind, d.delta, n + 1, d.then))
    /\ UNCHANGED payroll

\* A reference that is taken makes the request fail, after the slip is written.
PostDifference(c) ==
    LET d == calls[c].saw IN
    /\ At(c, "post") /\ Post(calls[c].on, Reference(d.kind, d.n), d.delta) /\ GoOn(c, d.then)
    /\ UNCHANGED <<period, slip, deduction>>

-----------------------------------------------------------------------------
(* Approval of the period, or its return for correction.                   *)

ApprovePeriod(c) ==
    /\ period = "AWAITING_RELEASE"
    /\ Begin(c, "approve_payroll", "approve_drafts", "nothing",
             {s \in Staff : slip[s].status = "DRAFT"})
    /\ UNCHANGED payroll

\* A failed recalculation is logged and passed over.
ApproveDraft(c, s) ==
    LET rest == calls[c].saw \ {s} IN
    /\ At(c, "approve_drafts") /\ s \in calls[c].saw
    /\ IF Recalculable(s)
       THEN Continue(c, [stage |-> "recalculate", on |-> s,
                         saw |-> [net |-> Due(s), old |-> slip[s].net, issue |-> slip[s].issue,
                                  then |-> rest]])
       ELSE Goto(c, "approve_drafts", rest)
    /\ UNCHANGED payroll

ReleasePeriod(c) ==
    /\ At(c, "approve_drafts") /\ calls[c].saw = {} /\ Goto(c, "publish", 0)
    /\ period' = "RELEASED"
    /\ UNCHANGED <<slip, deduction, wallet>>

PublishPayslips(c) ==
    /\ At(c, "publish") /\ Return(c)
    /\ slip' = [s \in Staff |-> IF slip[s].status = "DRAFT" THEN [slip[s] EXCEPT !.status = "PUBLISHED"]
                                ELSE slip[s]]
    /\ UNCHANGED <<period, deduction, wallet>>

RequestCorrection(c) ==
    /\ period = "AWAITING_RELEASE"
    /\ Begin(c, "send_back", "send_back", "nothing", 0)
    /\ UNCHANGED payroll

WriteSentBack(c) ==
    /\ At(c, "send_back") /\ Return(c)
    /\ period' = "DRAFT"
    /\ UNCHANGED <<slip, deduction, wallet>>

-----------------------------------------------------------------------------
(* correctPayslip: a published slip is superseded by another.              *)

CorrectPayslip(c, s, net) ==
    /\ slip[s].status \in {"PUBLISHED", "CORRECTED"} /\ period = "RELEASED" /\ net \in Figures(s)
    /\ Begin(c, "correct_payslip", "supersede", s,
             [net |-> net, old |-> slip[s].net, issue |-> slip[s].issue])
    /\ UNCHANGED payroll

\* Faulty variant of SupersedePayslip: the wallet is left as it was.
SupersedeOnly(c) ==
    LET s == calls[c].on  r == calls[c].saw IN
    /\ At(c, "supersede") /\ slip[s].issue = r.issue
    /\ slip' = [slip EXCEPT ![s] = [status |-> "CORRECTED", net |-> r.net, issue |-> r.issue + 1]]
    /\ Return(c)
    /\ UNCHANGED <<period, deduction, wallet>>

\* The database takes one slip that supersedes another, and one that is not superseded.
SupersedePayslip(c) ==
    LET s == calls[c].on  r == calls[c].saw IN
    /\ At(c, "supersede")
    /\ IF slip[s].issue = r.issue
       THEN /\ slip' = [slip EXCEPT ![s] = [status |-> "CORRECTED", net |-> r.net, issue |-> r.issue + 1]]
            /\ IF Base \in References(s) /\ r.net # r.old
               THEN Goto(c, "post", Difference("CORR", r.net - r.old, r.issue + 1, Alone))
               ELSE Return(c)
       ELSE Return(c) /\ UNCHANGED slip
    /\ UNCHANGED <<period, deduction, wallet>>

-----------------------------------------------------------------------------
(* Adjustments.                                                            *)

CreateAdjustment(c, x, amount) ==
    /\ deduction[x].status = "none" /\ Once(c, "adjustments")
    /\ deduction' = [deduction EXCEPT ![x] = [status |-> "ACTIVE", amount |-> amount, of |-> "none"]]
    /\ UNCHANGED <<period, slip, wallet>>

CorrectAdjustment(c, x, amount) ==
    /\ deduction[x].status = "ACTIVE" /\ period # "DRAFT"
    /\ Begin(c, "adjustments", "correct_adjustment", x, amount)
    /\ UNCHANGED payroll

\* A new row, y, supersedes the old one; the database takes one that does.
WriteAdjustmentCorrected(c, y) ==
    LET x == calls[c].on IN
    /\ At(c, "correct_adjustment") /\ Return(c)
    /\ deduction[y].status = "none" /\ AdjusteeOf[x] = AdjusteeOf[y]
    /\ IF \A z \in Adjustable : deduction[z].of # x
       THEN deduction' = [z \in Adjustable |->
                CASE z = y -> [status |-> "ACTIVE", amount |-> calls[c].saw, of |-> x]
                  [] z = x /\ z # y -> [deduction[x] EXCEPT !.status = "SUPERSEDED"]
                  [] OTHER -> deduction[z]]
       ELSE UNCHANGED deduction
    /\ UNCHANGED <<period, slip, wallet>>

RemoveAdjustment(c, x) ==
    /\ deduction[x].status # "none" /\ period = "DRAFT"
    /\ Begin(c, "adjustments", "remove_adjustment", x, 0)
    /\ UNCHANGED payroll

\* What superseded it loses the link.
WriteAdjustmentRemoved(c) ==
    LET x == calls[c].on IN
    /\ At(c, "remove_adjustment") /\ Return(c)
    /\ deduction' = [y \in Adjustable |->
            IF y = x THEN [status |-> "none", amount |-> 0, of |-> "none"]
            ELSE IF deduction[y].of = x THEN [deduction[y] EXCEPT !.of = "none"] ELSE deduction[y]]
    /\ UNCHANGED <<period, slip, wallet>>

-----------------------------------------------------------------------------
PayrollStep(c) ==
    \/ \E s \in Staff : ComputeFigures(c, s) \/ CreditPay(c, s) \/ ApproveDraft(c, s)
    \/ WriteSlip(c) \/ FinishGeneration(c)
    \/ WriteRecalculated(c) \/ CountCorrections(c) \/ PostDifference(c)
    \/ ReleasePeriod(c) \/ PublishPayslips(c) \/ WriteSentBack(c)
    \/ SupersedePayslip(c) \/ WriteAdjustmentRemoved(c)
    \/ \E y \in Adjustable : WriteAdjustmentCorrected(c, y)

AdjustmentRequest(c) ==
    \E x \in Adjustable :
        \/ RemoveAdjustment(c, x)
        \/ \E amount \in Amounts : CreateAdjustment(c, x, amount) \/ CorrectAdjustment(c, x, amount)

PayrollRequest(c) ==
    \/ GeneratePayroll(c) \/ ApprovePeriod(c) \/ RequestCorrection(c) \/ AdjustmentRequest(c)
    \/ \E s \in Staff : \E net \in Figures(s) : RecalculatePayslip(c, s, net) \/ CorrectPayslip(c, s, net)

-----------------------------------------------------------------------------
(* Properties.                                                             *)

\* A wallet holds what its transactions add up to, whoever overlaps and whoever dies.
StaffWalletAddsUp == \A s \in Staff : wallet[s].balance = Total(wallet[s].entries)

\* Pay arrives once: what a period has brought to a wallet is what the slip says, through
\* recalculations, approval and corrections.  Not if the period was sent back, as the code says
\* itself, nor when requests overlap or die halfway.
PaidIn(s) == Total({t \in wallet[s].entries : t.ref[1] \in {"PAYROLL", "INDCORR", "CORR"}})
PaidWhatSlipSays ==
    overlapped \/ crashes > 0 \/ "send_back" \in scenario \/
    \A s \in Staff : Quiet /\ Base \in References(s) => PaidIn(s) = slip[s].net

\* What staff were shown changes by a correction on record only, not by recalculation.
PublishedIsFinal ==
    [][\A s \in Staff : slip[s].status \in {"PUBLISHED", "CORRECTED"} /\ slip'[s].net # slip[s].net =>
            overlapped \/ slip'[s].issue > slip[s].issue]_<<slip, overlapped>>

\* The payroll engine's wallets and payslips agree: a wallet is the sum of its transactions and
\* a period's pay has arrived there once.
PayAddsUp == PayrollTypeOK /\ StaffWalletAddsUp /\ PaidWhatSlipSays
===============================================================================
