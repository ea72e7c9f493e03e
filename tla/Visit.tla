-------------------------------- MODULE Visit --------------------------------
(***************************************************************************)
(* A home visit from the moment a beautician holds it: on the way, arrived *)
(* and verified by a PIN, done, confirmed by the customer or by a timer,   *)
(* her earnings credited and she herself released; or cancelled on the     *)
(* way.  Every handler reads the booking first, checks the one step of     *)
(* HOME_SERVICE_TRANSITIONS it makes, and later writes the status by id,   *)
(* whatever it has become: so a slow handler may take a visit back.        *)
(*                                                                         *)
(* The earnings are posted under one reference per booking, in one         *)
(* transaction with the wallet and the beautician's statistics; that       *)
(* implements module Ledger.  All bookings here are paid from the wallet   *)
(* (BookingPayment has the others); accepting an offer is one step         *)
(* (Dispatch has its parts); messages, positions and the geo fence are     *)
(* left out.                                                               *)
(***************************************************************************)
EXTENDS Integers, FiniteSets

CONSTANTS
    Bookings,       \* home visits
    Beauticians,
    Worker,         \* Worker[b]: the beautician who takes b
    Amount,         \* Amount[b]: what the calculator makes of b
    Callers,        \* handlers and queue workers that run at a time
    Ops,            \* which kinds of interference a run allows
    Troubles,       \* which mishaps a run allows
    MaxTroubles,    \* bound: interferences and mishaps together
    MaxPins,        \* bound: PINs ever generated
    Attempts,       \* attempts of the finalize job (3 in the code)
    Threshold       \* noShowSuspendThreshold

OpKinds == {"customer_cancels", "admin", "scan"}
TroubleKinds == {"crash", "database", "queue", "lapse"}

ASSUME WorkAssumption == /\ Worker \in [Bookings -> Beauticians]
                         /\ Amount \in [Bookings -> Nat]
ASSUME BoundAssumption == /\ MaxPins \in Nat /\ MaxTroubles \in Nat
                          /\ Attempts \in Nat \ {0} /\ Threshold \in Nat \ {0}
ASSUME KindAssumption == Ops \subseteq OpKinds /\ Troubles \subseteq TroubleKinds

NoBooking == "no_booking"
ASSUME NoBookingAssumption == NoBooking \notin Bookings

VARIABLES
    status,         \* status[b]: bookings.status
    row,            \* row[b]: the booking's other columns
    pin,            \* pin[b]: the arrival PIN in Redis, 0 if there is none
    pins,           \* PINs generated so far
    job,            \* job[b]: the finalize job, by its jobId
    left,           \* left[b]: attempts the finalize job has left
    account,        \* account[w]: earnings in w's wallet
    posted,         \* bookings whose earnings have a ledger entry
    availability,   \* availability[w]: beauticianProfile.availabilityStatus
    noShows,        \* noShows[w]: the counter in Redis
    calls,          \* calls[c]: what caller c is doing
    troubles        \* interferences and mishaps so far (bounded)

arrival == <<pin, pins>>
timer   == <<job, left>>
wallets == <<account, posted>>
people  == <<availability, noShows>>
vars == <<status, row, arrival, timer, wallets, people, calls, troubles>>

Active == {"ASSIGNED", "EN_ROUTE", "ARRIVED", "IN_PROGRESS", "AWAITING_CUSTOMER_CONFIRM"}
Statuses == Active \cup {"PENDING_ASSIGNMENT", "COMPLETED", "CANCELLED"}

\* ARRIVED_VERIFIED is passed through within one write.
CanTransition(from, to) ==
    <<from, to>> \in {<<"ASSIGNED", "EN_ROUTE">>, <<"EN_ROUTE", "ARRIVED">>,
                      <<"ARRIVED", "IN_PROGRESS">>,
                      <<"IN_PROGRESS", "AWAITING_CUSTOMER_CONFIRM">>,
                      <<"AWAITING_CUSTOMER_CONFIRM", "COMPLETED">>}

\* assigned: assignedBeauticianUserId is set.  done: serviceCompletedAt is.  rated:
\* customerRating is.  used: reservationUsed.  refunded: the REFUND ledger row exists.  noShow:
\* cancelReason names a no-show.  byAdmin (history): an admin has written the status.
NewRow == [assigned |-> FALSE, done |-> FALSE, rated |-> FALSE, used |-> FALSE,
           refunded |-> FALSE, noShow |-> FALSE, byAdmin |-> FALSE]
Rows   == [assigned : BOOLEAN, done : BOOLEAN, rated : BOOLEAN, used : BOOLEAN,
           refunded : BOOLEAN, noShow : BOOLEAN, byAdmin : BOOLEAN]

JobStates == {"none", "delayed", "due", "active", "failed"}

Stages == {"idle", "en_route", "store", "arrived", "check", "consume", "start", "done",
           "queue", "confirm", "rate", "finalize", "credit", "post", "release", "online",
           "cancel", "penalty", "suspend", "admin", "scan"}

\* pin: the PIN made or submitted.  to: the status an admin asks for.  job: runs for the queue.
Idle  == [stage |-> "idle", booking |-> NoBooking, pin |-> 0, to |-> "CANCELLED",
          noShow |-> FALSE, job |-> FALSE]
Calls == [stage : Stages, booking : Bookings \cup {NoBooking}, pin : Nat,
          to : Statuses, noShow : BOOLEAN, job : BOOLEAN]

TypeOK ==
    /\ status \in [Bookings -> Statuses]
    /\ row \in [Bookings -> Rows]
    /\ pin \in [Bookings -> Nat] /\ pins \in Nat
    /\ job \in [Bookings -> JobStates] /\ left \in [Bookings -> 0..Attempts]
    /\ account \in [Beauticians -> Nat] /\ posted \in SUBSET Bookings
    /\ availability \in [Beauticians -> {"ONLINE", "ON_JOB", "OFFLINE"}]
    /\ noShows \in [Beauticians -> Nat]
    /\ calls \in [Callers -> Calls]
    /\ \A c \in Callers : calls[c].stage # "idle" => calls[c].booking \in Bookings
    /\ troubles \in Nat

Init ==
    /\ status = [b \in Bookings |-> "PENDING_ASSIGNMENT"]
    /\ row = [b \in Bookings |-> NewRow]
    /\ pin = [b \in Bookings |-> 0] /\ pins = 0
    /\ job = [b \in Bookings |-> "none"] /\ left = [b \in Bookings |-> 0]
    /\ account = [w \in Beauticians |-> 0] /\ posted = {}
    /\ availability = [w \in Beauticians |-> "ONLINE"]
    /\ noShows = [w \in Beauticians |-> 0]
    /\ calls = [c \in Callers |-> Idle]
    /\ troubles = 0

At(c, stage) == calls[c].stage = stage
Booking(c)   == calls[c].booking
Beautician(c) == Worker[Booking(c)]
Goto(c, stage) == calls' = [calls EXCEPT ![c].stage = stage]
Begin(c, call) == At(c, "idle") /\ calls' = [calls EXCEPT ![c] = call]
Call(b, stage) == [Idle EXCEPT !.booking = b, !.stage = stage]
SetStatus(c, s) == status' = [status EXCEPT ![Booking(c)] = s]

Mishap(kind) == kind \in Troubles /\ troubles < MaxTroubles /\ troubles' = troubles + 1
Interference(kind) == kind \in Ops /\ troubles < MaxTroubles /\ troubles' = troubles + 1

\* A handler ends.  A job that ends is removed from the queue.
Return(c) ==
    /\ calls' = [calls EXCEPT ![c] = Idle]
    /\ job' = IF calls[c].job THEN [job EXCEPT ![Booking(c)] = "none"] ELSE job
    /\ left' = left

\* It throws: a job is tried again while it has attempts left, then kept as failed.
Throw(c) ==
    /\ calls' = [calls EXCEPT ![c] = Idle]
    /\ IF calls[c].job
       THEN /\ left' = [left EXCEPT ![Booking(c)] = @ - 1]
            /\ job' = [job EXCEPT ![Booking(c)] = IF left[Booking(c)] > 1 THEN "due" ELSE "failed"]
       ELSE UNCHANGED timer

-----------------------------------------------------------------------------
(* The beautician: accepts, leaves, arrives, has done.                     *)

\* The accept's transaction (Dispatch has what comes before it).
Accept(b) ==
    /\ status[b] = "PENDING_ASSIGNMENT"
    /\ status' = [status EXCEPT ![b] = "ASSIGNED"]
    /\ availability' = [availability EXCEPT ![Worker[b]] = "ON_JOB"]
    /\ row' = [row EXCEPT ![b].assigned = TRUE]
    /\ UNCHANGED <<arrival, timer, wallets, noShows, calls, troubles>>

MarkEnRoute(c, b) ==
    /\ row[b].assigned /\ CanTransition(status[b], "EN_ROUTE")
    /\ Begin(c, Call(b, "en_route"))
    /\ UNCHANGED <<status, row, arrival, timer, wallets, people, troubles>>

WriteEnRoute(c) ==
    /\ At(c, "en_route") /\ SetStatus(c, "EN_ROUTE") /\ Return(c)
    /\ UNCHANGED <<row, arrival, wallets, people, troubles>>

\* A visit that is ARRIVED already is returned as it is, without a new PIN.
MarkArrived(c, b) ==
    /\ row[b].assigned /\ CanTransition(status[b], "ARRIVED")
    /\ pins + Cardinality({d \in Callers : At(d, "store")}) < MaxPins
    /\ Begin(c, Call(b, "store"))
    /\ UNCHANGED <<status, row, arrival, timer, wallets, people, troubles>>

\* "PIN available before status is ARRIVED for customers".
StorePin(c) ==
    /\ At(c, "store")
    /\ pins' = pins + 1
    /\ pin' = [pin EXCEPT ![Booking(c)] = pins + 1]
    /\ Goto(c, "arrived")
    /\ UNCHANGED <<status, row, timer, wallets, people, troubles>>

WriteArrived(c) ==
    /\ At(c, "arrived") /\ SetStatus(c, "ARRIVED") /\ Return(c)
    /\ UNCHANGED <<row, arrival, wallets, people, troubles>>

CompleteService(c, b) ==
    /\ row[b].assigned /\ CanTransition(status[b], "AWAITING_CUSTOMER_CONFIRM")
    /\ Begin(c, Call(b, "done"))
    /\ UNCHANGED <<status, row, arrival, timer, wallets, people, troubles>>

WriteDone(c) ==
    /\ At(c, "done") /\ SetStatus(c, "AWAITING_CUSTOMER_CONFIRM")
    /\ row' = [row EXCEPT ![Booking(c)].done = TRUE]
    /\ Goto(c, "queue")
    /\ UNCHANGED <<arrival, timer, wallets, people, troubles>>

\* Bull ignores a job whose jobId it still has, failed ones included.
QueueFinalize(c) ==
    LET b == Booking(c) IN
    /\ At(c, "queue")
    /\ calls' = [calls EXCEPT ![c] = Idle]
    /\ IF job[b] = "none"
       THEN /\ job' = [job EXCEPT ![b] = "delayed"]
            /\ left' = [left EXCEPT ![b] = Attempts]
       ELSE UNCHANGED timer
    /\ UNCHANGED <<status, row, arrival, wallets, people, troubles>>

QueueRefuses(c) ==
    /\ At(c, "queue") /\ Mishap("queue") /\ Throw(c)
    /\ UNCHANGED <<status, row, arrival, wallets, people>>

-----------------------------------------------------------------------------
(* The customer verifies the arrival with the PIN, typed or from a QR code. *)

VerifyArrival(c, b, p) ==
    /\ status[b] = "ARRIVED"
    /\ Begin(c, [Call(b, "check") EXCEPT !.pin = p])
    /\ UNCHANGED <<status, row, arrival, timer, wallets, people, troubles>>

CheckPin(c) ==
    /\ At(c, "check")
    /\ IF pin[Booking(c)] # 0 /\ pin[Booking(c)] = calls[c].pin
       THEN Goto(c, "consume") /\ UNCHANGED timer
       ELSE Throw(c)
    /\ UNCHANGED <<status, row, arrival, wallets, people, troubles>>

ConsumePin(c) ==
    /\ At(c, "consume")
    /\ pin' = [pin EXCEPT ![Booking(c)] = 0]
    /\ Goto(c, "start")
    /\ UNCHANGED <<status, row, pins, timer, wallets, people, troubles>>

StartService(c) ==
    /\ At(c, "start") /\ SetStatus(c, "IN_PROGRESS") /\ Return(c)
    /\ UNCHANGED <<row, arrival, wallets, people, troubles>>

\* The PIN's time in Redis is over.
PinLapses(b) ==
    /\ pin[b] # 0 /\ Mishap("lapse")
    /\ pin' = [pin EXCEPT ![b] = 0]
    /\ UNCHANGED <<status, row, pins, timer, wallets, people, calls>>

-----------------------------------------------------------------------------
(* Confirmation: by the customer, or a day later by the finalize job.      *)

\* Faulty variant of ConfirmCompletion: the transition is not checked.
ConfirmAnything(c, b) ==
    /\ \/ status[b] \in Active /\ Begin(c, Call(b, "confirm"))
       \/ status[b] = "COMPLETED" /\ ~row[b].rated /\ Begin(c, Call(b, "rate"))
    /\ UNCHANGED <<status, row, arrival, timer, wallets, people, troubles>>

\* A visit that is completed and not rated can still be rated (applyLateRating).
ConfirmCompletion(c, b) ==
    /\ \/ CanTransition(status[b], "COMPLETED") /\ Begin(c, Call(b, "confirm"))
       \/ status[b] = "COMPLETED" /\ ~row[b].rated /\ Begin(c, Call(b, "rate"))
    /\ UNCHANGED <<status, row, arrival, timer, wallets, people, troubles>>

WriteConfirmed(c) ==
    /\ At(c, "confirm") /\ SetStatus(c, "COMPLETED")
    /\ row' = [row EXCEPT ![Booking(c)].rated = TRUE]
    /\ Goto(c, "credit")
    /\ UNCHANGED <<arrival, timer, wallets, people, troubles>>

ApplyLateRating(c) ==
    /\ At(c, "rate") /\ Return(c)
    /\ row' = [row EXCEPT ![Booking(c)].rated = TRUE]
    /\ UNCHANGED <<status, arrival, wallets, people, troubles>>

\* The delay is a day, longer than any handler that ran when it was set.
FinalizeDue(b) ==
    /\ job[b] = "delayed" /\ \A c \in Callers : Booking(c) # b
    /\ job' = [job EXCEPT ![b] = "due"]
    /\ UNCHANGED <<status, row, arrival, left, wallets, people, calls, troubles>>

\* finalizeIfAwaitingConfirmation: any other status ends the job.
Finalize(c, b) ==
    /\ job[b] = "due" /\ At(c, "idle")
    /\ IF status[b] = "AWAITING_CUSTOMER_CONFIRM"
       THEN /\ Begin(c, [Call(b, "finalize") EXCEPT !.job = TRUE])
            /\ job' = [job EXCEPT ![b] = "active"]
       ELSE /\ job' = [job EXCEPT ![b] = "none"]
            /\ calls' = calls
    /\ UNCHANGED <<status, row, arrival, left, wallets, people, troubles>>

WriteFinalized(c) ==
    /\ At(c, "finalize") /\ SetStatus(c, "COMPLETED") /\ Goto(c, "credit")
    /\ UNCHANGED <<row, arrival, timer, wallets, people, troubles>>

-----------------------------------------------------------------------------
(* creditForCompletedBooking and releaseBeauticianIfIdle.                  *)

CreditEarnings(c) ==
    LET b == Booking(c) IN
    /\ At(c, "credit")
    /\ IF row[b].assigned
       THEN /\ Goto(c, IF status[b] = "COMPLETED" /\ b \notin posted /\ Amount[b] > 0
                       THEN "post" ELSE "release")
            /\ UNCHANGED timer
       ELSE Return(c)
    /\ UNCHANGED <<status, row, arrival, wallets, people, troubles>>

\* Faulty variant of PostEarnings: the ledger row has no unique reference.
PostEarningsAgain(c) ==
    LET b == Booking(c) IN
    /\ At(c, "post")
    /\ posted' = posted \cup {b}
    /\ account' = [account EXCEPT ![Worker[b]] = @ + Amount[b]]
    /\ Goto(c, "release")
    /\ UNCHANGED <<status, row, arrival, timer, people, troubles>>

\* One transaction: wallet, ledger row, statistics.  A second row with the reference
\* SVC-EARN-<booking> is refused, and the handler throws.
PostEarnings(c) ==
    LET b == Booking(c) IN
    /\ At(c, "post")
    /\ IF b \in posted
       THEN Throw(c) /\ UNCHANGED wallets
       ELSE /\ posted' = posted \cup {b}
            /\ account' = [account EXCEPT ![Worker[b]] = @ + Amount[b]]
            /\ Goto(c, "release")
            /\ UNCHANGED timer
    /\ UNCHANGED <<status, row, arrival, people, troubles>>

PostFails(c) ==
    /\ At(c, "post") /\ Mishap("database") /\ Throw(c)
    /\ UNCHANGED <<status, row, arrival, wallets, people>>

\* Her active bookings are counted first, and ONLINE is written later.
ReleaseIfIdle(c) ==
    /\ At(c, "release")
    /\ IF \E b \in Bookings : /\ Worker[b] = Beautician(c) /\ row[b].assigned
                             /\ status[b] \in Active
       THEN Return(c)
       ELSE Goto(c, "online") /\ UNCHANGED timer
    /\ UNCHANGED <<status, row, arrival, wallets, people, troubles>>

SetOnline(c) ==
    /\ At(c, "online") /\ Return(c)
    /\ availability' = [availability EXCEPT ![Beautician(c)] = "ONLINE"]
    /\ UNCHANGED <<status, row, arrival, wallets, noShows, troubles>>

-----------------------------------------------------------------------------
(* Cancellation, by the customer or an admin, and its penalty.             *)

CancelBooking(c, b, noShow) ==
    /\ Interference("customer_cancels")
    /\ status[b] \notin {"COMPLETED", "CANCELLED"}
    /\ Begin(c, [Call(b, "cancel") EXCEPT !.noShow = noShow])
    /\ UNCHANGED <<status, row, arrival, timer, wallets, people>>

\* The refund's reference is unique too: a second refund undoes the transaction.
WriteCancelled(c) ==
    LET b == Booking(c) IN
    /\ At(c, "cancel")
    /\ IF row[b].refunded
       THEN Throw(c) /\ UNCHANGED <<status, row>>
       ELSE /\ SetStatus(c, "CANCELLED")
            /\ row' = [row EXCEPT ![b].refunded = TRUE, ![b].noShow = calls[c].noShow]
            /\ Goto(c, "penalty")
            /\ UNCHANGED timer
    /\ UNCHANGED <<arrival, wallets, people, troubles>>

\* recordIfApplicable: what the row says now decides.
RecordNoShow(c) ==
    LET b == Booking(c)  w == Beautician(c) IN
    /\ At(c, "penalty")
    /\ IF status[b] = "CANCELLED" /\ row[b].assigned /\ row[b].noShow
       THEN /\ noShows' = [noShows EXCEPT ![w] = @ + 1]
            /\ IF noShows[w] + 1 < Threshold
               THEN Return(c)
               ELSE Goto(c, "suspend") /\ UNCHANGED timer
       ELSE Return(c) /\ UNCHANGED noShows
    /\ UNCHANGED <<status, row, arrival, wallets, availability, troubles>>

Suspend(c) ==
    /\ At(c, "suspend") /\ Return(c)
    /\ availability' = [availability EXCEPT ![Beautician(c)] = "OFFLINE"]
    /\ UNCHANGED <<status, row, arrival, wallets, noShows, troubles>>

\* An admin may ask for any status.  A visit is never CONFIRMED or PENDING, so an
\* admin's cancellation pays nothing back.
UpdateStatusAdmin(c, b, s) ==
    /\ Interference("admin")
    /\ status[b] \notin {"COMPLETED", "CANCELLED"}
    /\ Begin(c, [Call(b, "admin") EXCEPT !.to = s])
    /\ UNCHANGED <<status, row, arrival, timer, wallets, people>>

WriteStatusAdmin(c) ==
    LET s == calls[c].to IN
    /\ At(c, "admin") /\ SetStatus(c, s)
    /\ row' = [row EXCEPT ![Booking(c)].byAdmin = TRUE]
    /\ IF s = "CANCELLED" THEN Goto(c, "penalty") /\ UNCHANGED timer ELSE Return(c)
    /\ UNCHANGED <<arrival, wallets, people, troubles>>

\* The reservation's code is scanned: for a home visit, IN_PROGRESS from any status.
UseReservation(c, b) ==
    /\ Interference("scan")
    /\ ~row[b].used /\ status[b] # "CANCELLED"
    /\ Begin(c, Call(b, "scan"))
    /\ UNCHANGED <<status, row, arrival, timer, wallets, people>>

WriteUsed(c) ==
    /\ At(c, "scan") /\ SetStatus(c, "IN_PROGRESS") /\ Return(c)
    /\ row' = [row EXCEPT ![Booking(c)].used = TRUE]
    /\ UNCHANGED <<arrival, wallets, people, troubles>>

\* Faulty variant of Crash: the job of a dead worker is lost.
CrashLosesJob(c) ==
    /\ ~At(c, "idle") /\ Mishap("crash")
    /\ calls' = [calls EXCEPT ![c] = Idle]
    /\ job' = IF calls[c].job THEN [job EXCEPT ![Booking(c)] = "none"] ELSE job
    /\ UNCHANGED <<status, row, arrival, left, wallets, people>>

\* The process dies.  A stalled job is given to another worker.
Crash(c) ==
    /\ ~At(c, "idle") /\ Mishap("crash")
    /\ calls' = [calls EXCEPT ![c] = Idle]
    /\ job' = IF calls[c].job THEN [job EXCEPT ![Booking(c)] = "due"] ELSE job
    /\ UNCHANGED <<status, row, arrival, left, wallets, people>>

-----------------------------------------------------------------------------
Handler(c) ==
    \/ WriteEnRoute(c) \/ StorePin(c) \/ WriteArrived(c) \/ WriteDone(c) \/ QueueFinalize(c)
    \/ CheckPin(c) \/ ConsumePin(c) \/ StartService(c)
    \/ WriteConfirmed(c) \/ ApplyLateRating(c) \/ WriteFinalized(c)
    \/ CreditEarnings(c) \/ PostEarnings(c) \/ ReleaseIfIdle(c) \/ SetOnline(c)
    \/ WriteCancelled(c) \/ RecordNoShow(c) \/ Suspend(c) \/ WriteStatusAdmin(c) \/ WriteUsed(c)

JobRequest(c, b) == MarkEnRoute(c, b) \/ MarkArrived(c, b) \/ CompleteService(c, b)

CustomerRequest(c, b) ==
    \/ \E p \in 1..pins : VerifyArrival(c, b, p)
    \/ CompleteService(c, b) \/ ConfirmCompletion(c, b)
    \/ \E noShow \in BOOLEAN : CancelBooking(c, b, noShow)

Request(c, b) ==
    \/ JobRequest(c, b) \/ CustomerRequest(c, b)
    \/ \E s \in Statuses : UpdateStatusAdmin(c, b, s)
    \/ UseReservation(c, b)

Next ==
    \/ \E b \in Bookings : Accept(b) \/ PinLapses(b) \/ FinalizeDue(b)
    \/ \E c \in Callers, b \in Bookings : Request(c, b) \/ Finalize(c, b)
    \/ \E c \in Callers : Handler(c) \/ QueueRefuses(c) \/ PostFails(c) \/ Crash(c)

Spec == Init /\ [][Next]_vars

\* Handlers go on, the queue delivers what is due, and days pass.
Fairness ==
    /\ \A c \in Callers : WF_vars(Handler(c))
    /\ \A b \in Bookings : /\ SF_vars(\E c \in Callers : Finalize(c, b))
                           /\ SF_vars(FinalizeDue(b))

FairSpec == Spec /\ Fairness

-----------------------------------------------------------------------------
(* Properties                                                              *)

LedgerOfEarnings == INSTANCE Ledger WITH
    Accounts <- Beauticians, Refs <- Bookings, Holder <- Worker, Worth <- Amount,
    Opening <- [w \in Beauticians |-> 0]

\* Whoever confirms, retries or takes the visit back and completes it again: the wallets
\* change only by posting a visit's earnings, each visit's at most once.
EarningsPostedOnce == LedgerOfEarnings!Spec

\* Earnings are paid only for a visit whose beautician has said that it is done, unless an
\* admin set its status: neither the timer, nor a late confirmation, nor a visit that was
\* taken back in between pays for one that was not.
EarnedWasDone ==
    \A b \in posted : row[b].done \/ row[b].byAdmin

\* A beautician whose visits are all completed and paid is not left ON_JOB, though the last
\* two may have been completed at the same time: each handler counts after its own write.
ReleasedWhenDone ==
    \A w \in Beauticians :
        LET mine == {b \in Bookings : Worker[b] = w} IN
        (/\ troubles = 0 /\ \A c \in Callers : At(c, "idle")
         /\ mine # {} /\ \A b \in mine : status[b] = "COMPLETED" /\ b \in posted)
            => availability[w] # "ON_JOB"

\* A visit's state and its people agree: paid for what was done, and released afterwards.
VisitKept == TypeOK /\ EarnedWasDone /\ ReleasedWhenDone

\* A visit that waits for its customer, and whose timer was set, is confirmed or ended in
\* the end, although nobody reacts and workers die.
ConfirmedInTheEnd ==
    \A b \in Bookings :
        (status[b] = "AWAITING_CUSTOMER_CONFIRM" /\ job[b] \in {"delayed", "due"})
            ~> (status[b] # "AWAITING_CUSTOMER_CONFIRM")

===============================================================================
