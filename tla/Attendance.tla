------------------------------ MODULE Attendance ------------------------------
(***************************************************************************)
(* Who came to work and who was on leave: clocking in and out, the night's *)
(* job that marks absences, corrections by an admin, extra days, leave     *)
(* requests and their approval, and the summary that pay is computed from. *)
(*                                                                         *)
(* A day has four parts.  Time passes only while no handler runs: handlers *)
(* take moments, the parts of a day hours.  The work calendar and closures *)
(* are fixed, and the distance to the branch is always in range.           *)
(***************************************************************************)
EXTENDS Handlers

CONSTANTS
    Staff,          \* staff members
    DayType,        \* DayType[d]: what the calendar says of day d; days are 1, 2, ...
    Ask,            \* Ask[r]: staff, type, first and last day of leave request r
    LatePenalty,    \* charged for coming late
    AbsentFee       \* recorded for an absence

ASSUME AttendanceAssumption ==
    /\ LatePenalty \in Nat /\ AbsentFee \in Nat
    /\ IsFiniteSet(DOMAIN DayType) /\ DOMAIN DayType \subseteq Nat \ {0}
    /\ \A r \in DOMAIN Ask : Ask[r].first \in Int /\ Ask[r].last \in Int

Days == DOMAIN DayType
LeaveRequests == DOMAIN Ask

\* Before the grace period ends, before closing time, before the cutoff at 22:00, after it.
Parts == 1..4
Grace == 1  Closing == 3  Cutoff == 4

VARIABLES
    today, part,    \* the day, and the part of it
    swept,          \* the last day whose absences the night's job has started to mark
    record,         \* record[s][d]: the attendance record
    leave           \* leave[r]: status of a leave request

attendance == <<today, part, swept, record, leave>>

NoRecord == [status |-> "none", in |-> 0, out |-> FALSE, late |-> 0, fee |-> 0,
             extra |-> "none", byHand |-> FALSE]

AttendanceStatuses ==
    {"none", "PRESENT", "LATE", "ABSENT", "ON_LEAVE", "PUBLIC_HOLIDAY", "EXTRA_WORK_DAY_PENDING"}

AttendanceRows ==
    [status : AttendanceStatuses, in : 0..Cutoff, out : BOOLEAN,
     late : {0, LatePenalty}, fee : {0, AbsentFee},
     extra : {"none", "PENDING", "APPROVED", "REJECTED"},
     byHand : BOOLEAN]      \* history: an admin wrote the status

LeaveStatuses == {"none", "PENDING", "APPROVED", "REJECTED"}

AttendanceTypeOK ==
    /\ today \in Nat /\ part \in Parts /\ swept \in Nat
    /\ record \in [Staff -> [Days -> AttendanceRows]]
    /\ leave \in [LeaveRequests -> LeaveStatuses]

\* A behaviour in which time passes starts on the first day; any other one when the days are
\* over and everybody has come.
AttendanceInit ==
    /\ part = 1 /\ swept = 0
    /\ today = IF "time" \in scenario THEN 1 ELSE Cardinality(Days) + 1
    /\ record = [s \in Staff |-> [d \in Days |->
            IF "time" \in scenario \/ DayType[d] = "OFF" THEN NoRecord
            ELSE [NoRecord EXCEPT !.status = "PRESENT", !.in = 1, !.out = TRUE]]]
    /\ leave = [r \in LeaveRequests |-> "none"]

TimePasses ==
    /\ "time" \in scenario /\ Quiet /\ today \in Days
    /\ IF part = Cutoff THEN today' = today + 1 /\ part' = 1
       ELSE part' = part + 1 /\ UNCHANGED today
    /\ UNCHANGED <<handlers, swept, record, leave>>

Save(s, d, row) == record' = [record EXCEPT ![s][d] = row]

-----------------------------------------------------------------------------
(* What the services look up.                                              *)

ApprovedOn(s, d, type) ==
    \E r \in LeaveRequests : /\ Ask[r].staff = s /\ Ask[r].type = type
                             /\ leave[r] = "APPROVED" /\ d \in Ask[r].first..Ask[r].last

\* computeAttendanceOutcome, which clockIn spells out once more.
Outcome(s, d, p) ==
    CASE DayType[d] = "CLOSED"  -> [status |-> "PUBLIC_HOLIDAY", late |-> 0]
      [] DayType[d] = "OFF"     -> [status |-> "EXTRA_WORK_DAY_PENDING", late |-> 0]
      [] DayType[d] = "WORKING" /\ p > Grace /\ ~ApprovedOn(s, d, "LATE_ARRIVAL")
                                -> [status |-> "LATE", late |-> LatePenalty]
      [] OTHER                  -> [status |-> "PRESENT", late |-> 0]

\* A fee is worked out from the day's hours: a day without hours has none.
FeeFor(d) == IF DayType[d] = "WORKING" THEN AbsentFee ELSE 0

-----------------------------------------------------------------------------
(* Clocking in and out.                                                    *)

ClockIn(c, s) ==
    LET is == Outcome(s, today, part) IN
    /\ today \in Days /\ record[s][today].status = "none"
    /\ Begin(c, "clock", "clock_in", s,
             [NoRecord EXCEPT !.status = is.status, !.late = is.late, !.in = part,
                 !.extra = IF is.status = "EXTRA_WORK_DAY_PENDING" THEN "PENDING" ELSE "none"])
    /\ UNCHANGED attendance

\* One record for a member and a day: the database refuses a second.
WriteClockIn(c) ==
    LET s == calls[c].on IN
    /\ At(c, "clock_in") /\ Return(c)
    /\ IF record[s][today].status = "none" THEN Save(s, today, calls[c].saw) ELSE UNCHANGED record
    /\ UNCHANGED <<today, part, swept, leave>>

ClockOut(c, s) ==
    /\ today \in Days /\ record[s][today].status # "none" /\ ~record[s][today].out
    /\ part < Cutoff
    /\ \/ record[s][today].status = "EXTRA_WORK_DAY_PENDING" \/ DayType[today] # "WORKING"
       \/ part >= Closing \/ ApprovedOn(s, today, "EARLY_DEPARTURE")
    /\ Begin(c, "clock", "clock_out", s, 0)
    /\ UNCHANGED attendance

WriteClockOut(c) ==
    /\ At(c, "clock_out") /\ Return(c)
    /\ record' = [record EXCEPT ![calls[c].on][today].out = TRUE]
    /\ UNCHANGED <<today, part, swept, leave>>

-----------------------------------------------------------------------------
(* markAbsencesForYesterday, once a night: the members one after the other. *)

Sweep(c) ==
    /\ part = 1 /\ swept < today - 1
    /\ Begin(c, "sweep", "sweep", "nothing", Staff)
    /\ swept' = today - 1
    /\ UNCHANGED <<today, part, record, leave>>

OnLeave(s, d) == ApprovedOn(s, d, "LEAVE")

NoShow(s, d) == /\ record[s][d].status = "none" /\ DayType[d] \notin {"OFF", "CLOSED"}
                /\ ~OnLeave(s, d)
NeverLeft(row) == row.in > 0 /\ ~row.out /\ row.status \in {"PRESENT", "LATE"}

SweepOne(c, s) ==
    LET d == today - 1  rest == calls[c].saw \ {s} IN
    /\ At(c, "sweep") /\ s \in calls[c].saw
    /\ CASE NoShow(s, d)            -> Continue(c, [stage |-> "no_show", on |-> s, saw |-> rest])
         [] NeverLeft(record[s][d]) -> Continue(c, [stage |-> "never_left", on |-> s, saw |-> rest])
         [] OTHER                   -> Goto(c, "sweep", rest)
    /\ UNCHANGED attendance

\* A record that appeared in between makes the insert fail, and with it the rest of the job.
WriteNoShow(c) ==
    LET s == calls[c].on  d == today - 1 IN
    /\ At(c, "no_show")
    /\ IF record[s][d].status = "none"
       THEN /\ Save(s, d, [NoRecord EXCEPT !.status = "ABSENT", !.fee = FeeFor(d)])
            /\ Goto(c, "sweep", calls[c].saw)
       ELSE Return(c) /\ UNCHANGED record
    /\ UNCHANGED <<today, part, swept, leave>>

WriteNeverLeft(c) ==
    LET s == calls[c].on  d == today - 1 IN
    /\ At(c, "never_left") /\ Goto(c, "sweep", calls[c].saw)
    /\ Save(s, d, [record[s][d] EXCEPT !.status = "ABSENT", !.fee = FeeFor(d)])
    /\ UNCHANGED <<today, part, swept, leave>>

Swept(c) ==
    /\ At(c, "sweep") /\ calls[c].saw = {} /\ Return(c)
    /\ UNCHANGED attendance

-----------------------------------------------------------------------------
(* Corrections by an admin.  A correction has a status, a time of arrival, *)
(* a departure, or any of them.                                            *)

Corrections == [status : {"none", "PRESENT", "LATE", "ABSENT"}, in : {0, 2}, out : BOOLEAN]

Corrected(s, d, fix) ==
    LET row    == record[s][d]
        in     == IF fix.in > 0 THEN fix.in ELSE row.in
        asked  == IF fix.status # "none" THEN fix.status ELSE row.status
        worked == asked # "ABSENT" /\ in > 0
        status == IF worked /\ fix.status = "none" THEN Outcome(s, d, in).status ELSE asked
        late   == CASE worked /\ (fix.status = "none" \/ asked = "LATE") -> Outcome(s, d, in).late
                    [] fix.status # "none" /\ (worked \/ asked # "LATE") -> 0
                    [] OTHER -> row.late
    IN [row EXCEPT !.status = status, !.in = in, !.out = @ \/ fix.out, !.late = late,
                   !.fee = IF status = "ABSENT" THEN FeeFor(d) ELSE 0, !.byHand = TRUE]

CorrectRecord(c, s, d, fix) ==
    /\ record[s][d].status # "none"
    /\ Begin(c, "correct", "correct", <<s, d>>, [fix |-> fix, row |-> Corrected(s, d, fix)])
    /\ UNCHANGED attendance

\* Written by id: the columns the request names, and the status with what follows from it.
WriteCorrected(c) ==
    LET s == calls[c].on[1]  d == calls[c].on[2]  fix == calls[c].saw.fix  row == calls[c].saw.row IN
    /\ At(c, "correct") /\ Return(c)
    /\ Save(s, d, [record[s][d] EXCEPT !.status = row.status, !.late = row.late, !.fee = row.fee,
                       !.in = IF fix.in > 0 THEN fix.in ELSE @, !.out = @ \/ fix.out, !.byHand = TRUE])
    /\ UNCHANGED <<today, part, swept, leave>>

CreateManualRecord(c, s, d, status) ==
    /\ record[s][d].status = "none"
    /\ Begin(c, "correct", "manual", <<s, d>>, status)
    /\ UNCHANGED attendance

WriteManualRecord(c) ==
    LET s == calls[c].on[1]  d == calls[c].on[2]  status == calls[c].saw IN
    /\ At(c, "manual") /\ Return(c)
    /\ IF record[s][d].status = "none"
       THEN Save(s, d, [NoRecord EXCEPT !.status = status, !.byHand = TRUE,
                            !.in = IF status = "ABSENT" THEN 0 ELSE 1,
                            !.fee = IF status = "ABSENT" THEN FeeFor(d) ELSE 0])
       ELSE UNCHANGED record
    /\ UNCHANGED <<today, part, swept, leave>>

DecideExtraWorkDay(c, s, d, verdict) ==
    /\ record[s][d].status = "EXTRA_WORK_DAY_PENDING" /\ record[s][d].extra = "PENDING"
    /\ Begin(c, "extra", "extra", <<s, d>>, verdict)
    /\ UNCHANGED attendance

WriteExtraWorkDay(c) ==
    /\ At(c, "extra") /\ Return(c)
    /\ record' = [record EXCEPT ![calls[c].on[1]][calls[c].on[2]].extra = calls[c].saw]
    /\ UNCHANGED <<today, part, swept, leave>>

-----------------------------------------------------------------------------
(* Leave and permissions.                                                  *)

Clash(r, q) == /\ Ask[r].staff = Ask[q].staff
               /\ Ask[r].first <= Ask[q].last /\ Ask[q].first <= Ask[r].last

\* Faulty variant of NoClash: requests that share their last and first day pass.
NoClashInside(r) ==
    \A q \in LeaveRequests : leave[q] \in {"PENDING", "APPROVED"} =>
        ~(Ask[r].staff = Ask[q].staff /\ Ask[r].first < Ask[q].last /\ Ask[q].first < Ask[r].last)

NoClash(r) == \A q \in LeaveRequests : leave[q] \in {"PENDING", "APPROVED"} => ~Clash(r, q)

SubmitLeave(c, r) ==
    /\ leave[r] = "none" /\ NoClash(r)
    /\ Begin(c, "leave", "submit_leave", r, 0)
    /\ UNCHANGED attendance

WriteSubmitted(c) ==
    /\ At(c, "submit_leave") /\ Return(c)
    /\ leave' = [leave EXCEPT ![calls[c].on] = "PENDING"]
    /\ UNCHANGED <<today, part, swept, record>>

DecideLeave(c, r, verdict) ==
    /\ leave[r] = "PENDING"
    /\ Begin(c, "leave", "decide_leave", r, verdict)
    /\ UNCHANGED attendance

\* By id, whatever became of the request in between.
WriteDecided(c) ==
    LET r == calls[c].on IN
    /\ At(c, "decide_leave")
    /\ leave' = [leave EXCEPT ![r] = calls[c].saw]
    /\ IF calls[c].saw = "APPROVED" /\ Ask[r].type = "LEAVE"
       THEN Goto(c, "mark_leave", Ask[r].first) ELSE Return(c)
    /\ UNCHANGED <<today, part, swept, record>>

\* The upsert: what a record already has, but for its status, stays.
MarkOnLeave(row) ==
    IF row.status = "none" THEN [NoRecord EXCEPT !.status = "ON_LEAVE", !.in = 1]
    ELSE [row EXCEPT !.status = "ON_LEAVE"]

MarkLeave(c) ==
    LET r == calls[c].on  d == calls[c].saw  s == Ask[r].staff IN
    /\ At(c, "mark_leave")
    /\ Save(s, d, MarkOnLeave(record[s][d]))
    /\ IF d = Ask[r].last THEN Return(c) ELSE Goto(c, "mark_leave", d + 1)
    /\ UNCHANGED <<today, part, swept, leave>>

-----------------------------------------------------------------------------
(* getMonthlySummary, of the days up to today.  A day with a time of       *)
(* arrival is a day worked, whatever its status.                           *)

Until(d) == {e \in Days : e <= d}
Expected(s) == {d \in Until(today) : DayType[d] # "OFF"}
Missed(s) == {d \in Expected(s) : /\ record[s][d].in = 0
                                  /\ ~OnLeave(s, d) /\ DayType[d] # "CLOSED"}
ExtraDays(s) == {d \in Days : /\ record[s][d].status = "EXTRA_WORK_DAY_PENDING"
                              /\ record[s][d].extra = "APPROVED"}

-----------------------------------------------------------------------------
AttendanceStep(c) ==
    \/ WriteClockIn(c) \/ WriteClockOut(c)
    \/ (\E s \in Staff : SweepOne(c, s)) \/ WriteNoShow(c) \/ WriteNeverLeft(c) \/ Swept(c)
    \/ WriteCorrected(c) \/ WriteManualRecord(c) \/ WriteExtraWorkDay(c)
    \/ WriteSubmitted(c) \/ WriteDecided(c) \/ MarkLeave(c)

ClockRequest(c) == \E s \in Staff : ClockIn(c, s) \/ ClockOut(c, s)

LeaveRequest(c) ==
    \E r \in LeaveRequests : \/ SubmitLeave(c, r)
                             \/ \E verdict \in {"APPROVED", "REJECTED"} : DecideLeave(c, r, verdict)

AttendanceRequest(c) ==
    \/ ClockRequest(c) \/ LeaveRequest(c) \/ Sweep(c)
    \/ \E s \in Staff : \E d \in Until(today) :
           \/ \E fix \in Corrections : CorrectRecord(c, s, d, fix)
           \/ \E status \in {"PRESENT", "ABSENT"} : CreateManualRecord(c, s, d, status)
           \/ \E verdict \in {"APPROVED", "REJECTED"} : DecideExtraWorkDay(c, s, d, verdict)

-----------------------------------------------------------------------------
(* Properties, of handlers one after the other: overlapping ones and dying *)
(* ones do break them.                                                     *)

\* A member on approved leave is not marked absent for it by the night's job, whether the leave
\* was approved before the night or after it.
LeaveIsHonoured ==
    overlapped \/ crashes > 0 \/
    \A s \in Staff, d \in Days :
        Quiet /\ ApprovedOn(s, d, "LEAVE") => record[s][d].status # "ABSENT" \/ record[s][d].byHand

\* A no-show on a working day does not slip through the night's job: a permission to come late
\* or to leave early is no leave.
NoShowIsAbsent ==
    overlapped \/ crashes > 0 \/
    \A s \in Staff, d \in Days :
        Quiet /\ swept = d /\ today = d + 1 /\ DayType[d] = "WORKING" /\ ~ApprovedOn(s, d, "LEAVE") =>
            record[s][d].status # "none"

\* Who is charged for coming late was late on that day: the record says so, or was late before
\* the night's job or a leave request gave it another status.
ChargedWasLate ==
    \A s \in Staff, d \in Days :
        record[s][d].late > 0 => record[s][d].status \in {"LATE", "ABSENT", "ON_LEAVE"}

\* A member's requests that are pending or approved do not share a day.
LeavesDontClash ==
    overlapped \/
    \A r, q \in LeaveRequests :
        r # q /\ {leave[r], leave[q]} \subseteq {"PENDING", "APPROVED"} => ~Clash(r, q)

\* The day records of AttendanceService, its nightly job and LeaveService agree: leave is
\* honoured, no no-show slips through, charges are for lateness and leaves do not clash.
AttendanceKept == AttendanceTypeOK /\ LeaveIsHonoured /\ NoShowIsAbsent /\ ChargedWasLate /\ LeavesDontClash
===============================================================================
