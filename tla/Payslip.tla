-------------------------------- MODULE Payslip -------------------------------
(***************************************************************************)
(* How one payslip is computed: the workdays and the commission that       *)
(* count, the split of a period in which a member goes over from salary to *)
(* commission, the figures, and an admin's overrides of them.              *)
(*                                                                         *)
(* Days are numbered and a month has MonthLength of them.  Amounts are     *)
(* whole, rates are percentages, and the amounts chosen divide evenly.     *)
(***************************************************************************)
EXTENDS Handlers

CONSTANTS
    MonthLength, CutoffDay,     \* CutoffDay: of the month
    TaxRate, PensionRate,       \* percentages
    Sheets                      \* what a payslip is computed from

VARIABLE sheet      \* the last preview: its inputs, the override, the figures before and after

CompensationTypes == {"COMMISSION", "SALARY", "SALARY_PLUS_COMMISSION", "SALARY_TO_COMMISSION"}

\* in.first..in.last is the period, in.hired the day of hiring or 0; scheduled, missed, extra
\* and sold are sets of days (sold: a commission of in.commission was earned); words are those
\* found in the category of a deduction in.deducted.
NoSheet == [figures |-> "none"]

SheetInit == sheet = NoSheet

-----------------------------------------------------------------------------
(* Days.                                                                   *)

DayOfMonth(d) == ((d - 1) % MonthLength) + 1
FirstOfNextMonth(d) == d - DayOfMonth(d) + MonthLength + 1

TransitionDay(hired) == FirstOfNextMonth(hired) + (IF DayOfMonth(hired) < CutoffDay THEN 0 ELSE CutoffDay)

\* resolveCutoffSplit: the days paid by salary and those paid by commission.
Split(hired, first, last) ==
    LET t == TransitionDay(hired) IN
    CASE last < t   -> [salary |-> first..last, commission |-> {}]
      [] first >= t -> [salary |-> {}, commission |-> first..last]
      [] OTHER      -> [salary |-> first..(t - 1), commission |-> t..last]

\* weekParityFor: day 0 is the epoch, and days before it count as well.
WeekParity(d) == (d \div 7) % 2

-----------------------------------------------------------------------------
(* calculateForStaff: what counts in the days given.                       *)

Payable(in, days) ==
    Cardinality(in.scheduled \cap days) - Cardinality(in.missed \cap days) + Cardinality(in.extra \cap days)
CommissionIn(in, days) == in.commission * Cardinality(in.sold \cap days)

Smaller(a, b) == IF a < b THEN a ELSE b
Per(amount, n) == IF n > 0 THEN amount \div n ELSE 0

\* Days without a count are -1.
Nothing == [full |-> -1, payable |-> -1, daily |-> 0, salary |-> 0, commission |-> 0]

ByCommission(in, days) ==
    LET scheduled  == Cardinality(in.scheduled \cap days)
        payable    == Smaller(Payable(in, days), scheduled)
        commission == CommissionIn(in, days)
        daily      == Per(commission, scheduled)
    IN [full |-> -1, payable |-> payable, daily |-> daily,
        salary |-> Smaller(daily * payable, commission), commission |-> commission]

BySalary(in, days) ==
    LET full  == Cardinality(in.scheduled \cap (in.first..in.last))
        daily == Per(in.base, full)
    IN [full |-> full, payable |-> Payable(in, days), daily |-> daily,
        salary |-> daily * Payable(in, days), commission |-> 0]

CalculateForStaff(in) ==
    LET first == IF in.hired > in.first THEN in.hired ELSE in.first
        days  == first..in.last
        split == Split(in.hired, first, in.last)
    IN
    CASE in.hired > in.last -> Nothing
      [] in.hired <= in.last /\ in.type = "COMMISSION" -> ByCommission(in, days)
      [] in.hired <= in.last /\ in.type = "SALARY" -> BySalary(in, days)
      [] in.hired <= in.last /\ in.type = "SALARY_PLUS_COMMISSION" ->
            [BySalary(in, days) EXCEPT !.commission = CommissionIn(in, days)]
      [] in.hired <= in.last /\ in.type = "SALARY_TO_COMMISSION" /\ in.hired = 0 -> BySalary(in, days)
      [] OTHER ->
            LET salary == BySalary(in, split.salary) IN
            [salary EXCEPT
                !.payable = IF split.salary = {} THEN -1 ELSE @,
                !.commission = CommissionIn(in, split.commission)]

-----------------------------------------------------------------------------
(* computePayslipFigures.                                                  *)

Percent(rate, amount) == (rate * amount) \div 100
TaxOn(gross) == Percent(TaxRate, IF gross > 0 THEN gross ELSE 0)

\* The days of a member on commission carry it already.
CommissionPaid(in, calc) == IF in.type = "COMMISSION" THEN 0 ELSE calc.commission

Entitled(calc) == IF calc.payable >= 0 THEN calc.daily * calc.payable ELSE 0

DeductionFields == {"attendanceDeduction", "latePenaltyDeduction", "fineTotal", "loanRepayment",
                    "taxDeduction", "pensionDeduction", "otherDeductionTotal"}
EarningFields == {"allowances", "overtimeAmount", "commissionPaid", "bonusTotal"}

TotalDeductions(f) ==
    f.attendanceDeduction + f.latePenaltyDeduction + f.fineTotal + f.loanRepayment
        + f.taxDeduction + f.pensionDeduction + f.otherDeductionTotal
Extras(f) == f.allowances + f.overtimeAmount + f.commissionPaid + f.bonusTotal

\* A category with words of both kinds counts as a loan and as a fine.
ComputePayslipFigures(in) ==
    LET calc  == CalculateForStaff(in)
        paid  == CommissionPaid(in, calc)
        gross == Entitled(calc) + in.allowances + paid + in.bonus
        f     == [baseSalary |-> in.base, allowances |-> in.allowances, overtimeAmount |-> 0,
                  commissionPaid |-> paid, bonusTotal |-> in.bonus,
                  attendanceDeduction  |-> Entitled(calc) - calc.salary,
                  latePenaltyDeduction |-> in.late,
                  fineTotal            |-> IF "fine" \in in.words THEN in.deducted ELSE 0,
                  loanRepayment        |-> IF "loan" \in in.words THEN in.deducted ELSE 0,
                  otherDeductionTotal  |-> IF in.words = {} THEN in.deducted ELSE 0,
                  taxDeduction         |-> TaxOn(gross),
                  pensionDeduction     |-> Percent(PensionRate, Entitled(calc) + in.allowances),
                  full |-> calc.full, payable |-> calc.payable, grossPay |-> gross, netPay |-> 0, number |-> TRUE]
    IN [f EXCEPT !.netPay = gross - TotalDeductions(f)]

-----------------------------------------------------------------------------
(* applyManualOverrides: field is set to amount, and the rest follows.     *)

Overridable == {"baseSalary"} \cup EarningFields \cup DeductionFields

\* Faulty variant of EntitledAfter: always from the base salary, as it was once.
EntitledFromBase(f, o, field) == Per(o.baseSalary, f.full) * f.payable

\* From the new base salary, where pay is by days; else what the gross pay holds beyond the
\* other earnings.
EntitledAfter(f, o, field) ==
    IF field = "baseSalary" /\ f.full >= 0 /\ f.payable >= 0
    THEN Per(o.baseSalary, f.full) * f.payable
    ELSE f.grossPay - Extras(f)

\* A base salary is divided by the workdays even if there are none: then the pay is NaN, or
\* infinite, and its tax, pension and net with it (number is FALSE, and the figures mean nothing).
DividesByZero(f, field) == field = "baseSalary" /\ f.full = 0 /\ f.payable >= 0

ApplyManualOverrides(f, field, amount) ==
    LET o        == [f EXCEPT ![field] = amount]
        entitled == EntitledAfter(f, o, field)
        gross    == entitled + Extras(o)
        g        == [o EXCEPT
                        !.grossPay = gross, !.number = @ /\ ~DividesByZero(f, field),
                        !.taxDeduction = IF field = "taxDeduction" THEN @ ELSE TaxOn(gross),
                        !.pensionDeduction = IF field = "pensionDeduction" THEN @
                                             ELSE Percent(PensionRate, entitled + o.allowances)]
    IN [g EXCEPT !.netPay = gross - TotalDeductions(g)]

-----------------------------------------------------------------------------
\* previewRecalculationForStaff and previewCorrection show the figures; nothing is written.
PreviewPayslip(c) ==
    /\ Once(c, "preview")
    /\ \E in \in Sheets, field \in Overridable, amount \in {0, 600, 2400} :
           LET figures == ComputePayslipFigures(in) IN
           sheet' = [in |-> in, figures |-> figures, field |-> field, amount |-> amount,
                     after |-> ApplyManualOverrides(figures, field, amount),
                     same |-> ApplyManualOverrides(figures, field, figures[field])]

-----------------------------------------------------------------------------
(* Properties.                                                             *)

Shown == sheet # NoSheet

\* Typing the figure that is there already changes nothing, for every type of pay, as long as
\* the pay is a number.
SameOverrideChangesNothing == Shown /\ sheet.same.number => sheet.same = sheet.figures

\* The pay is a number, but for the base salary of a member who was hired by the period's end, is
\* paid by days and has no workday in the period: the comment above applyManualOverrides, that
\* "the payslip can never end up internally inconsistent", does not hold for them.
NumberButWithoutWorkdays ==
    Shown /\ ~(sheet.same.number /\ sheet.after.number) =>
        /\ sheet.field = "baseSalary" /\ sheet.in.type # "COMMISSION" /\ sheet.in.hired <= sheet.in.last
        /\ sheet.in.scheduled \cap (sheet.in.first..sheet.in.last) = {}

\* An override reaches the net pay, and tax and pension follow it: a deduction lowers the net
\* pay by as much as it grows, an earning raises it by as much, less its tax (and pension).
OverrideMovesPay ==
    Shown /\ sheet.after.number =>
        LET more == sheet.amount - sheet.figures[sheet.field]
            net  == sheet.after.netPay - sheet.figures.netPay
            both == sheet.figures.grossPay >= 0 /\ sheet.after.grossPay >= 0
        IN CASE sheet.field \in DeductionFields -> net = -more
             [] sheet.field \in EarningFields -> both =>
                    net = more - Percent(TaxRate, more)
                          - (IF sheet.field = "allowances" THEN Percent(PensionRate, more) ELSE 0)
             [] OTHER -> more > 0 /\ sheet.figures.payable > 0 /\ sheet.figures.full > 0 => net > 0

\* A period is paid by salary or by commission, every day by exactly one of them, and by
\* salary as long as the transition has not come.
SplitCovers ==
    Shown /\ sheet.in.hired > 0 =>
        LET s == Split(sheet.in.hired, sheet.in.first, sheet.in.last) IN
        /\ s.salary \cup s.commission = sheet.in.first..sheet.in.last
        /\ s.salary \cap s.commission = {}
        /\ \A d \in s.salary, e \in s.commission : d < e

\* Commission is not paid twice: what a member gets beyond salary, allowances and bonus is at
\* most the commission earned in the period.
CommissionOnce ==
    Shown =>
        LET in == sheet.in  f == sheet.figures IN
        f.grossPay - in.allowances - in.bonus
            <= CommissionIn(in, in.first..in.last)
               + (IF in.type = "COMMISSION" THEN 0
                  ELSE Per(in.base, Cardinality(in.scheduled \cap (in.first..in.last)))
                       * Cardinality((in.scheduled \cup in.extra) \cap (in.first..in.last)))

\* The weeks of an alternating calendar alternate, before the epoch and after it.
WeeksAlternate == Shown => \A d \in -15..15 : {WeekParity(d), WeekParity(d + 7)} = {0, 1}

\* The figures of computePayslipFigures and applyManualOverrides are sound: overrides move the pay
\* as they should, and every day is paid once, under its own calendar.
PayslipSound ==
    /\ SameOverrideChangesNothing /\ NumberButWithoutWorkdays /\ OverrideMovesPay
    /\ SplitCovers /\ CommissionOnce /\ WeeksAlternate
===============================================================================
