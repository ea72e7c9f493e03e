-------------------------------- MODULE People --------------------------------
(***************************************************************************)
(* The staff: attendance and leave, the payroll computed from them, and    *)
(* the withdrawal of what was paid.                                        *)
(***************************************************************************)
EXTENDS StaffPayout, Payslip

vars == <<handlers, attendance, payroll, staffPayout, sheet>>

Init == HandlersInit /\ AttendanceInit /\ PayrollInit /\ StaffPayoutInit /\ SheetInit

AttendanceNext(c)  == ((Busy(c) /\ AttendanceStep(c)) \/ (Ready(c) /\ AttendanceRequest(c))) /\ UNCHANGED <<payroll, staffPayout, sheet>>
PayrollNext(c)     == ((Busy(c) /\ PayrollStep(c)) \/ (Ready(c) /\ PayrollRequest(c))) /\ UNCHANGED <<attendance, staffPayout, sheet>>
StaffPayoutNext(c) == ((Busy(c) /\ StaffPayoutStep(c)) \/ (Ready(c) /\ StaffPayoutRequest(c))) /\ UNCHANGED <<attendance, sheet>>
PayslipNext(c)     == PreviewPayslip(c) /\ UNCHANGED <<attendance, payroll, staffPayout>>
Dies(c)            == Crash(c) /\ UNCHANGED <<attendance, payroll, staffPayout, sheet>>

Next ==
    \/ \E c \in Callers : AttendanceNext(c) \/ PayrollNext(c) \/ StaffPayoutNext(c) \/ PayslipNext(c) \/ Dies(c)
    \/ TimePasses /\ UNCHANGED <<payroll, staffPayout, sheet>>
    \/ Gateway /\ UNCHANGED <<attendance, sheet>>

Spec == Init /\ [][Next]_vars
===============================================================================
