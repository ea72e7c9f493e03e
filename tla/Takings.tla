-------------------------------- MODULE Takings --------------------------------
(***************************************************************************)
(* What a branch takes in a day, and the count of the cash that is         *)
(* submitted for it: of yesterday, until the deadline today, against what  *)
(* the bookings and sales of that day then say.                            *)
(*                                                                         *)
(* Nothing ties a count to the rows it was made from: they may change, or  *)
(* move to another day, after the day was counted.                         *)
(***************************************************************************)
EXTENDS Handlers, Sequences, Sums

CONSTANTS
    Incomes,        \* visits to a salon, bookings made online, and sales
    Source,         \* Source[i]: "SALON", "WALK_IN", "HOME" or "SALE"
    Houses,         \* the branches
    House,          \* House[i]: the branch of i
    FromWallet,     \* the bookings paid from a wallet
    Accountants,    \* staff who count
    Home,           \* Home[m]: the branch m belongs to
    LastHalfDay     \* bound: half days

ASSUME TakingsAssumption == IsFiniteSet(Incomes) /\ LastHalfDay \in Nat

VARIABLES
    clock,      \* half days since the start: 2d is the morning of day d
    income,     \* income[i]: the row
    records,    \* the entries in financial_transactions
    access,     \* access[m]: further branches that m may count for
    deadlines,  \* the rows of the settings, in no order: half days of a day that are in time
    count,      \* count[<<b, d>>]: the row of daily_cash_reconciliations
    rewritten   \* history: incomes that were changed or deleted after they were done

takings == <<clock, income, records, access, deadlines, count, rewritten>>

Days == 0..(LastHalfDay \div 2)
DayOf(t) == t \div 2

\* at: completedAt, serviceCompletedAt or createdAt.  A booking's updatedAt is `touched`.
IncomeRows == [status : {"open", "progress", "done", "cancelled", "deleted"}, at : SUBSET (0..LastHalfDay),
               touched : 0..LastHalfDay, used : BOOLEAN, amount : 1..2]
\* of: history, the incomes it was made from.
CountRows == [expected : Nat, total : Nat, counted : Nat, of : SUBSET Incomes]
Bookings == {i \in Incomes : Source[i] \in {"WALK_IN", "HOME"}}

TakingsTypeOK ==
    /\ clock \in 0..LastHalfDay /\ income \in [Incomes -> IncomeRows]
    /\ records \subseteq Incomes \X Nat /\ access \in [Accountants -> SUBSET Houses]
    /\ \A n \in DOMAIN deadlines : deadlines[n] \in 0..2
    /\ \A k \in Houses \X Days : count[k] \subseteq CountRows
    /\ rewritten \subseteq Incomes

TakingsInit ==
    /\ clock = 0 /\ records = {}
    /\ income = [i \in Incomes |-> [status |-> "open", at |-> {}, touched |-> 0, used |-> FALSE, amount |-> 1]]
    /\ access = [m \in Accountants |-> {}] /\ deadlines = <<>>
    /\ count = [k \in Houses \X Days |-> {}] /\ rewritten = {}

\* Only where something is counted: elsewhere it would only multiply the states.
TimePasses ==
    /\ "count" \in scenario /\ clock < LastHalfDay /\ clock' = clock + 1
    /\ UNCHANGED <<handlers, income, records, access, deadlines, count, rewritten>>

-----------------------------------------------------------------------------
\* Money comes in.

\* A visit is completed or a sale is made, and recorded, in one transaction; a booking online is
\* completed by its beautician, and not recorded.
Earn(c, i) ==
    /\ income[i].status \in {"open", "progress"} /\ Source[i] # "WALK_IN"
    /\ Once(c, "earn")
    /\ income' = [income EXCEPT ![i].status = "done", ![i].at = {clock}, ![i].touched = clock]
    /\ records' = IF i \in Bookings THEN records ELSE records \cup {<<i, income[i].amount>>}
    /\ UNCHANGED <<clock, access, deadlines, count, rewritten>>

\* A booking of which the books may have told already.
Rewritten(i) == IF income[i].status = "done" THEN rewritten \cup {i} ELSE rewritten

\* An admin moves a booking on; nothing sets when it was done.
SetBookingStatus(c, i, status) ==
    /\ i \in Bookings /\ income[i].status \notin {"done", "cancelled"}
    /\ Begin(c, "set_status", "write_booking_status", i, status)
    /\ UNCHANGED takings

WriteBookingStatus(c) ==
    LET i == calls[c].on IN
    /\ At(c, "write_booking_status") /\ Return(c)
    /\ income' = [income EXCEPT ![i].status = calls[c].saw, ![i].touched = clock]
    /\ rewritten' = Rewritten(i)
    /\ UNCHANGED <<clock, records, access, deadlines, count>>

\* The reservation is shown at the branch.  That the booking is done already is no obstacle.
ShowReservation(c, i) ==
    /\ i \in Bookings /\ ~income[i].used /\ income[i].status # "cancelled"
    /\ Begin(c, "show", "write_used_booking", i, 0)
    /\ UNCHANGED takings

WriteUsedBooking(c) ==
    LET i == calls[c].on IN
    /\ At(c, "write_used_booking") /\ Return(c)
    /\ income' = [income EXCEPT ![i].used = TRUE, ![i].touched = clock,
                      ![i].status = IF Source[i] = "WALK_IN" THEN "done" ELSE "progress",
                      ![i].at = IF Source[i] = "WALK_IN" THEN {clock} ELSE @]
    /\ rewritten' = Rewritten(i)
    /\ UNCHANGED <<clock, records, access, deadlines, count>>

\* A completed visit gets another service: its amount grows, on the day it was completed.
AddToVisit(c, i) ==
    /\ Source[i] = "SALON" /\ income[i].status = "done" /\ income[i].amount = 1
    /\ Once(c, "add_to_visit")
    /\ income' = [income EXCEPT ![i].amount = 2] /\ rewritten' = rewritten \cup {i}
    /\ UNCHANGED <<clock, records, access, deadlines, count>>

\* A visit is deleted, whatever its status is; the books keep what they were told of it.
DeleteVisit(c, i) ==
    /\ Source[i] = "SALON" /\ income[i].status # "deleted"
    /\ Once(c, "delete_row")
    /\ income' = [income EXCEPT ![i].status = "deleted"] /\ rewritten' = Rewritten(i)
    /\ UNCHANGED <<clock, records, access, deadlines, count>>

-----------------------------------------------------------------------------
\* A day's summary.

DoneOn(i) == IF income[i].at # {} THEN DayOf(CHOOSE t \in income[i].at : TRUE) ELSE DayOf(income[i].touched)
TakenOn(b, d) == {i \in Incomes : House[i] = b /\ income[i].status = "done" /\ DoneOn(i) = d}

Sum(S) == SumOver(S, [i \in Incomes |-> income[i].amount])

\* What was paid from a wallet is not in the till.
ExpectedCash(b, d) == Sum(TakenOn(b, d)) - Sum(TakenOn(b, d) \cap FromWallet)

\* Its own branch, and those that were given to m.
MayCount(m) == {Home[m]} \cup access[m]

\* What the settings say, if more than one row says it; noon if none does.
Deadlines == IF deadlines = <<>> THEN {1} ELSE {deadlines[n] : n \in DOMAIN deadlines}

\* Faulty variant of InWindow: today is counted as well.
InWindowOrToday(d, deadline) == d \in {DayOf(clock), DayOf(clock) - 1} /\ clock % 2 < deadline

\* Yesterday, before the deadline today.
InWindow(d, deadline) == d = DayOf(clock) - 1 /\ clock % 2 < deadline

SubmitCount(c, m, b, d, counted) ==
    /\ b \in MayCount(m) /\ \E deadline \in Deadlines : InWindow(d, deadline)
    /\ Begin(c, "count", "read_takings", <<b, d>>, counted)
    /\ UNCHANGED takings

\* A difference needs a note, which we take to be given.
ReadTakings(c) ==
    LET b == calls[c].on[1]  d == calls[c].on[2]  these == TakenOn(b, d) IN
    /\ At(c, "read_takings")
    /\ Goto(c, "write_count", [expected |-> ExpectedCash(b, d), total |-> Sum(these), counted |-> calls[c].saw,
                               of |-> these])
    /\ UNCHANGED takings

\* The day's one row is made or written over.
WriteCount(c) ==
    /\ At(c, "write_count") /\ Return(c)
    /\ count' = [count EXCEPT ![calls[c].on] = {calls[c].saw}]
    /\ UNCHANGED <<clock, income, records, access, deadlines, rewritten>>

\* The branches given to m are replaced as a whole.
SetFinanceBranches(c, m, these) ==
    /\ Once(c, "access") /\ access' = [access EXCEPT ![m] = these]
    /\ UNCHANGED <<clock, income, records, deadlines, count, rewritten>>

\* The first row that is found is changed; two who find none make one each.
SetDeadline(c, deadline) ==
    /\ \/ deadlines = <<>> /\ Begin(c, "access", "write_deadline", 0, deadline)
       \/ \E n \in DOMAIN deadlines : Begin(c, "access", "write_deadline", n, deadline)
    /\ UNCHANGED takings

WriteDeadline(c) ==
    /\ At(c, "write_deadline") /\ Return(c)
    /\ deadlines' = IF calls[c].on = 0 THEN Append(deadlines, calls[c].saw)
                    ELSE [deadlines EXCEPT ![calls[c].on] = calls[c].saw]
    /\ UNCHANGED <<clock, income, records, access, count, rewritten>>

TakingsStep(c) ==
    \/ WriteBookingStatus(c) \/ WriteUsedBooking(c) \/ ReadTakings(c) \/ WriteCount(c) \/ WriteDeadline(c)

BookingStatusRequest(c) ==
    \E i \in Incomes, status \in {"progress", "done", "cancelled"} : SetBookingStatus(c, i, status)

ReservationRequest(c) == \E i \in Incomes : ShowReservation(c, i)

TakingsRequest(c) ==
    \/ BookingStatusRequest(c) \/ ReservationRequest(c)
    \/ \E i \in Incomes : Earn(c, i) \/ AddToVisit(c, i) \/ DeleteVisit(c, i)
    \/ "count" \in scenario /\ \E m \in Accountants, b \in Houses, d \in Days, counted \in {0, 1} :
           SubmitCount(c, m, b, d, counted)
    \/ "access" \in scenario /\ \/ \E m \in Accountants : SetFinanceBranches(c, m, Houses)
                                \/ \E deadline \in {0, 2} : SetDeadline(c, deadline)

-----------------------------------------------------------------------------
\* What a count was held against is what the day's rows still say, but for rows that were changed
\* or deleted after they were done: so the count of a day is made when the day is over.
CountsStillHold ==
    \A k \in Houses \X Days : \A row \in count[k] :
        /\ row.expected = ExpectedCash(k[1], k[2]) /\ row.of = TakenOn(k[1], k[2])
        \/ \E i \in rewritten : House[i] = k[1]

\* No income is in the counts of two days, unless it was changed after it was done: a walk-in
\* that an admin set done has no time, and is done again when its reservation is shown.
CountedOnce ==
    \A i \in Incomes \ rewritten :
        Cardinality({k \in Houses \X Days : \E row \in count[k] : i \in row.of}) <= 1

\* Visits and sales are in the books once, with their amounts, unless a service was
\* added or the visit deleted later.
RecordsAgree ==
    \A i \in Incomes \ (Bookings \cup rewritten) :
        {r \in records : r[1] = i} = IF income[i].status = "done" THEN {<<i, income[i].amount>>} ELSE {}

\* There is one deadline, unless two admins set the first one at once.
OneDeadline == overlapped \/ Len(deadlines) <= 1

\* Takings, counts and books agree.
TakingsKept == TakingsTypeOK /\ CountsStillHold /\ CountedOnce /\ RecordsAgree /\ OneDeadline
===============================================================================
