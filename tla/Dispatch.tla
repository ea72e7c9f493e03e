------------------------------ MODULE Dispatch ------------------------------
(***************************************************************************)
(* How a paid home-service booking finds a beautician: the matching pass   *)
(* that offers the job, the beauticians who accept, decline, let an offer  *)
(* lapse or leave, and the admins and customers who interfere.             *)
(*                                                                         *)
(* The rows (booking, job offer, beautician profile) live in PostgreSQL,   *)
(* the two locks and the create-offers and expire-offer jobs in Redis.     *)
(* Every flow is a chain of awaits; a flow's stage names the await it is   *)
(* at, and other flows run between two stages.  What one database          *)
(* transaction writes is one step.  A read and the write it justifies are  *)
(* one step only where the write repeats the condition (updateMany).       *)
(*                                                                         *)
(* ASSIGNED stands for the six statuses of a job in progress, ASSIGNED to  *)
(* AWAITING_CUSTOMER_CONFIRM.  Ranking, distance, services and suspension  *)
(* decide which eligible beauticians a search returns, and are a free      *)
(* choice here.  An admin's direct status override is modelled only for    *)
(* cancellation, and a pass ends before the 30 seconds of its lock.        *)
(***************************************************************************)
EXTENDS Integers, FiniteSets

CONSTANTS
    Bookings,       \* paid bookings that need a beautician
    Beauticians,    \* verified beauticians
    MaxOffers,      \* bound: job offers ever created
    Cap,            \* DISPATCH_CONCURRENT_OFFERS: live offers of one booking
    MaxDelays,      \* retries of a search that found nobody, per booking
    Moves,          \* which interferences a run allows
    MaxMoves,       \* bound: how many of them
    MaxFlows        \* bound: beauticians' requests and expiries served at a time

NoBooking == "no_booking"
Nobody    == "nobody"

ASSUME CapAssumption == Cap \in Nat \ {0}
ASSUME BoundAssumption == MaxOffers \in Nat /\ MaxDelays \in Nat
                          /\ MaxMoves \in Nat /\ MaxFlows \in Nat \ {0}
ASSUME NoneAssumption == NoBooking \notin Bookings /\ Nobody \notin Beauticians

OfferIds == 1..MaxOffers

VARIABLES
    status,         \* status[b]: Booking.status
    assignee,       \* assignee[b]: Booking.assignedBeauticianUserId
    dispatch,       \* dispatch[b]: Booking.dispatchStatus
    exhausted,      \* exhausted[b]: Booking.matchingExhaustedAt is set
    tokens,         \* one-time keys used: exhaustion events, the wake dedupe key
    offers,         \* offers[o]: the JobOffer rows
    availability,   \* availability[w]: BeauticianProfile.availabilityStatus
    jobs,           \* create-offers jobs in the queue, by booking and job id
    timers,         \* offers with an expire-offer job in the queue
    delays,         \* delays[b]: searches put off so far (a Redis counter)
    pass,           \* pass[b]: the matching pass that holds b's flow lock
    calls,          \* flows of beauticians in progress
    assignLock,     \* bookings whose assignment lock is held
    requests,       \* retries, wakes, triggers and cancellations in progress
    forces,         \* force-assignments in progress
    moves           \* interferences so far (bounded)

rows   == <<status, assignee, dispatch, exhausted, tokens>>
queues == <<jobs, timers, delays>>
admin  == <<requests, forces, moves>>
vars   == <<rows, offers, availability, queues, pass, calls, assignLock, admin>>

BookingStatuses == {"PENDING_ASSIGNMENT", "ASSIGNED", "COMPLETED", "CANCELLED"}
DispatchStatuses == {"NULL", "PENDING_MATCH", "OFFERING", "MATCH_EXHAUSTED",
                     "ASSIGNED", "CANCELLED"}
OfferStatuses == {"NONE", "OFFERED", "ACCEPTED", "DECLINED", "EXPIRED", "CANCELLED"}
AvailabilityStatuses == {"ONLINE", "OFFLINE", "OFFERED", "ON_JOB"}
Reasons  == {"OFFERS_NOT_ACCEPTED", "NO_CANDIDATES"}
JobKinds == {"create", "later", "retry", "wake", "immediate"}
MoveKinds == {"online", "offline", "force", "retry", "wake", "immediate", "cancel", "crash",
              "lapse"}

ASSUME MovesAssumption == Moves \subseteq MoveKinds

\* Which dispatch statuses may follow which (ALLOWED_TRANSITIONS).
Allowed == [from \in DispatchStatuses |->
    CASE from = "NULL"            -> {"PENDING_MATCH", "OFFERING", "ASSIGNED", "CANCELLED"}
      [] from = "PENDING_MATCH"   -> {"OFFERING", "MATCH_EXHAUSTED", "ASSIGNED", "CANCELLED"}
      [] from = "OFFERING"        -> {"PENDING_MATCH", "MATCH_EXHAUSTED", "ASSIGNED", "CANCELLED"}
      [] from = "MATCH_EXHAUSTED" -> {"PENDING_MATCH", "ASSIGNED", "CANCELLED"}
      [] from = "ASSIGNED"        -> {"CANCELLED"}
      [] from = "CANCELLED"       -> {}]

NoOffer == [booking |-> NoBooking, worker |-> Nobody, status |-> "NONE",
            due |-> FALSE, forced |-> FALSE]

Offers == [booking : Bookings \cup {NoBooking}, worker : Beauticians \cup {Nobody},
           status : OfferStatuses, due : BOOLEAN, forced : BOOLEAN]

PassStages == {"idle", "count", "prepare", "prepareWrite", "search", "noCandidate",
               "exhaust", "exhaustWrite", "create", "insert", "offering",
               "offeringWrite", "schedule", "release"}

IdlePass == [stage |-> "idle", by |-> Nobody, resume |-> FALSE, slots |-> 0,
             picks |-> {}, pick |-> Nobody, offer |-> 0, made |-> {}, reason |-> "NO_CANDIDATES"]

Passes == [stage : PassStages, by : Beauticians \cup {Nobody}, resume : BOOLEAN,
           slots : 0..Cap, picks : SUBSET Beauticians,
           pick : Beauticians \cup {Nobody}, offer : 0..MaxOffers,
           made : SUBSET OfferIds, reason : Reasons]

Ops == {"accept", "decline", "expire", "clear", "offline", "online", "complete"}
CallStages == {"commit", "unlock", "decline", "release", "toOnJob", "toOnline", "resume",
               "count", "goOnline", "goOffline"}
CallRecords == [op : Ops, worker : Beauticians, offers : SUBSET OfferIds, stage : CallStages]

TypeOK ==
    /\ status \in [Bookings -> BookingStatuses]
    /\ assignee \in [Bookings -> Beauticians \cup {Nobody}]
    /\ dispatch \in [Bookings -> DispatchStatuses]
    /\ exhausted \in [Bookings -> BOOLEAN]
    /\ tokens \subseteq Bookings \X (Reasons \cup {"wake"})
    /\ offers \in [OfferIds -> Offers]
    /\ availability \in [Beauticians -> AvailabilityStatuses]
    /\ jobs \subseteq Bookings \X JobKinds
    /\ timers \subseteq OfferIds
    /\ delays \in [Bookings -> Nat]
    /\ pass \in [Bookings -> Passes]
    /\ calls \subseteq CallRecords
    /\ assignLock \subseteq Bookings
    /\ requests \subseteq [booking : Bookings, kind : {"retry", "wake", "immediate", "cancel"}]
    /\ forces \subseteq [booking : Bookings, worker : Beauticians, wasOffline : BOOLEAN,
                         stage : {"checked", "assign"}]
    /\ moves \in Nat

\* A paid booking waits for a beautician with its first create-offers job queued;
\* beauticians are at work or not.
Init ==
    /\ status = [b \in Bookings |-> "PENDING_ASSIGNMENT"]
    /\ assignee = [b \in Bookings |-> Nobody]
    /\ dispatch = [b \in Bookings |-> "NULL"]
    /\ exhausted = [b \in Bookings |-> FALSE]
    /\ tokens = {}
    /\ offers = [o \in OfferIds |-> NoOffer]
    /\ availability \in [Beauticians -> {"ONLINE", "OFFLINE"}]
    /\ jobs = Bookings \X {"create"}
    /\ timers = {}
    /\ delays = [b \in Bookings |-> 0]
    /\ pass = [b \in Bookings |-> IdlePass]
    /\ calls = {}
    /\ assignLock = {}
    /\ requests = {}
    /\ forces = {}
    /\ moves = 0

-----------------------------------------------------------------------------
(* What the flows read.                                                    *)

Offered(o) == offers[o].status = "OFFERED"

\* OFFERED and expiresAt still ahead.
LiveOffer(o) == Offered(o) /\ ~offers[o].due

OffersOf(b) == {o \in OfferIds : offers[o].booking = b}

\* Faulty variant: the comparison with expiresAt is the wrong way round.
LapsedOffers(b) == {o \in OffersOf(b) : Offered(o) /\ offers[o].due}

Live(b) == {o \in OffersOf(b) : LiveOffer(o)}

Matchable(b) == status[b] = "PENDING_ASSIGNMENT" /\ ~exhausted[b]

HasActiveJob(w) == \E b \in Bookings : assignee[b] = w /\ status[b] = "ASSIGNED"

\* The next row id of the offers table.
Fresh(o) == /\ offers[o].status = "NONE"
            /\ \A p \in OfferIds : p < o => offers[p].status # "NONE"

\* getExcludedBeauticianIds: who declined, accepted or is still thinking.
Excluded(b) ==
    {offers[o].worker : o \in {p \in OffersOf(b) :
        offers[p].status \in {"DECLINED", "ACCEPTED"} \/ LiveOffer(p)}}

\* Free beauticians, and those on a job (near its end, which is a free choice).
Eligible(b) ==
    {w \in Beauticians : \/ availability[w] = "ONLINE"
                         \/ availability[w] = "ON_JOB" /\ HasActiveJob(w)} \ Excluded(b)

\* continueMatching: the flow lock lets one pass of a booking run; a trigger that
\* finds it held is skipped.  The pass starts by reading the booking, and ends at
\* once when it is not matchable.
PassAfterTrigger(b, by) ==
    IF pass[b].stage = "idle" /\ Matchable(b)
    THEN [pass EXCEPT ![b] = [IdlePass EXCEPT !.stage = "count", !.by = by,
                                              !.resume = dispatch[b] = "OFFERING"]]
    ELSE pass

At(b, stage) == pass[b].stage = stage
Goto(b, stage) == pass' = [pass EXCEPT ![b].stage = stage]
Finish(b) == pass' = [pass EXCEPT ![b] = [IdlePass EXCEPT !.stage = "release", !.by = pass[b].by,
                                                          !.made = pass[b].made]]

Step(c, stage) == calls' = (calls \ {c}) \cup {[c EXCEPT !.stage = stage]}
End(c) == calls' = calls \ {c}
Start(op, w, os, stage) ==
    /\ Cardinality(calls) < MaxFlows
    /\ calls' = calls \cup {[op |-> op, worker |-> w, offers |-> os, stage |-> stage]}

\* The offers of S, those that are OFFERED, get another status.
Resolved(S, to) ==
    [o \in OfferIds |-> IF o \in S /\ Offered(o)
                        THEN [offers[o] EXCEPT !.status = to] ELSE offers[o]]

Move(kind) == kind \in Moves /\ moves < MaxMoves /\ moves' = moves + 1

-----------------------------------------------------------------------------
(* The matching pass of a booking (runMatchingPass and what it calls).     *)

\* A worker takes a create-offers job; the first one also starts the dispatch.
RunCreateJob(b, kind) ==
    /\ <<b, kind>> \in jobs
    /\ jobs' = jobs \ {<<b, kind>>}
    /\ dispatch' = IF Matchable(b) /\ dispatch[b] = "NULL"
                   THEN [dispatch EXCEPT ![b] = "PENDING_MATCH"] ELSE dispatch
    /\ pass' = PassAfterTrigger(b, Nobody)
    /\ UNCHANGED <<status, assignee, exhausted, tokens, offers, availability,
                   timers, delays, calls, assignLock, admin>>

\* Open slots are counted from the live offers; a full booking ends the pass.
CountOffers(b) ==
    LET open == Cap - Cardinality(Live(b)) IN
    /\ At(b, "count")
    /\ IF open <= 0
       THEN Finish(b)
       ELSE pass' = [pass EXCEPT ![b].slots = open,
                                 ![b].resume = FALSE,
                                 ![b].stage = IF pass[b].resume THEN "prepare" ELSE "search"]
    /\ UNCHANGED <<rows, offers, availability, queues, calls, assignLock, admin>>

\* prepareAttemptState: transition OFFERING -> PENDING_MATCH, first its read ...
PrepareAttempt(b) ==
    /\ At(b, "prepare")
    /\ Goto(b, IF dispatch[b] = "OFFERING" THEN "prepareWrite" ELSE "search")
    /\ UNCHANGED <<rows, offers, availability, queues, calls, assignLock, admin>>

\* ... then its write, by booking id.
PrepareWrite(b) ==
    /\ At(b, "prepareWrite")
    /\ dispatch' = [dispatch EXCEPT ![b] = "PENDING_MATCH"]
    /\ Goto(b, "search")
    /\ UNCHANGED <<status, assignee, exhausted, tokens, offers, availability,
                   queues, calls, assignLock, admin>>

\* Faulty variant: an empty search is an exhausted one even with offers pending.
SearchIgnoresPending(b) ==
    /\ At(b, "search")
    /\ \E picks \in SUBSET Eligible(b) :
        /\ Cardinality(picks) <= pass[b].slots
        /\ Cardinality(picks) <= Cardinality({o \in OfferIds : offers[o].status = "NONE"})
        /\ pass' = [pass EXCEPT ![b].picks = picks, ![b].slots = 0,
                                ![b].stage = IF picks # {} THEN "create" ELSE "noCandidate"]
    /\ UNCHANGED <<rows, offers, availability, queues, calls, assignLock, admin>>

\* The candidates for the open slots (as many as offers are left).  With none, the pass waits for the offers
\* still pending or deals with having found nobody.
Search(b) ==
    /\ At(b, "search")
    /\ \E picks \in SUBSET Eligible(b) :
        /\ Cardinality(picks) <= pass[b].slots
        /\ Cardinality(picks) <= Cardinality({o \in OfferIds : offers[o].status = "NONE"})
        /\ IF picks = {} /\ pass[b].slots < Cap
           THEN Finish(b)
           ELSE pass' = [pass EXCEPT ![b].picks = picks, ![b].slots = 0,
                                     ![b].stage = IF picks # {} THEN "create" ELSE "noCandidate"]
    /\ UNCHANGED <<rows, offers, availability, queues, calls, assignLock, admin>>

\* handleNoCandidate: search again later (same tier or the next, as often as the
\* counters allow), or give up for one of the reasons.
SearchLater(b) ==
    /\ At(b, "noCandidate")
    /\ delays[b] < MaxDelays
    /\ delays' = [delays EXCEPT ![b] = @ + 1]
    /\ jobs' = jobs \cup {<<b, "later">>}
    /\ Finish(b)
    /\ UNCHANGED <<rows, offers, availability, timers, calls, assignLock, admin>>

GiveUp(b, reason) ==
    /\ At(b, "noCandidate")
    /\ reason = "OFFERS_NOT_ACCEPTED" => OffersOf(b) # {}
    /\ pass' = [pass EXCEPT ![b].stage = "exhaust", ![b].reason = reason]
    /\ UNCHANGED <<rows, offers, availability, queues, calls, assignLock, admin>>

\* markMatchingExhausted: the reads.  An event key used before makes it a no-op.
MarkExhausted(b) ==
    /\ At(b, "exhaust")
    /\ IF /\ Matchable(b)
          /\ <<b, pass[b].reason>> \notin tokens
          /\ "MATCH_EXHAUSTED" \in {dispatch[b]} \cup Allowed[dispatch[b]]
       THEN Goto(b, "exhaustWrite")
       ELSE Finish(b)
    /\ UNCHANGED <<rows, offers, availability, queues, calls, assignLock, admin>>

\* ... and the write, with the event that uses up the key.
MarkExhaustedWrite(b) ==
    /\ At(b, "exhaustWrite")
    /\ dispatch' = [dispatch EXCEPT ![b] = "MATCH_EXHAUSTED"]
    /\ exhausted' = [exhausted EXCEPT ![b] = TRUE]
    /\ tokens' = tokens \cup {<<b, pass[b].reason>>}
    /\ Finish(b)
    /\ UNCHANGED <<status, assignee, offers, availability, queues, calls, assignLock, admin>>

\* createNextOffer for one more candidate: the transaction counts the live offers
\* and looks for one to the same beautician.
CreateOffer(b) ==
    /\ At(b, "create")
    /\ IF pass[b].picks = {}
       THEN Finish(b)
       ELSE \E w \in pass[b].picks :
              IF Cardinality(Live(b)) >= Cap \/ \E o \in Live(b) : offers[o].worker = w
              THEN pass' = [pass EXCEPT ![b].picks = @ \ {w}]
              ELSE pass' = [pass EXCEPT ![b].stage = "insert", ![b].pick = w,
                                        ![b].picks = @ \ {w}]
    /\ UNCHANGED <<rows, offers, availability, queues, calls, assignLock, admin>>

\* ... inserts the offer and marks the beautician, whatever became of both.
InsertOffer(b) ==
    /\ At(b, "insert")
    /\ \E o \in OfferIds :
        /\ Fresh(o)
        /\ offers' = [offers EXCEPT ![o] = [booking |-> b, worker |-> pass[b].pick,
                                            status |-> "OFFERED", due |-> FALSE,
                                            forced |-> FALSE]]
        /\ pass' = [pass EXCEPT ![b].stage = "offering", ![b].offer = o,
                                ![b].made = @ \cup {o}]
    /\ availability' = [availability EXCEPT ![pass[b].pick] = "OFFERED"]
    /\ UNCHANGED <<rows, queues, calls, assignLock, admin>>

\* The transition to OFFERING: its read, and its write when one is needed.
Offering(b) ==
    /\ At(b, "offering")
    /\ Goto(b, IF "OFFERING" \in Allowed[dispatch[b]] THEN "offeringWrite" ELSE "schedule")
    /\ UNCHANGED <<rows, offers, availability, queues, calls, assignLock, admin>>

OfferingWrite(b) ==
    /\ At(b, "offeringWrite")
    /\ dispatch' = [dispatch EXCEPT ![b] = "OFFERING"]
    /\ Goto(b, "schedule")
    /\ UNCHANGED <<status, assignee, exhausted, tokens, offers, availability,
                   queues, calls, assignLock, admin>>

\* Faulty variant: the expiry job is not scheduled.
ScheduleExpireOfferNot(b) ==
    /\ At(b, "schedule")
    /\ pass' = [pass EXCEPT ![b].stage = "create", ![b].pick = Nobody, ![b].offer = 0]
    /\ UNCHANGED <<rows, offers, availability, queues, calls, assignLock, admin>>

\* The expiry job is queued and the loop goes on with the next candidate.
ScheduleExpireOffer(b) ==
    /\ At(b, "schedule")
    /\ timers' = timers \cup {pass[b].offer}
    /\ pass' = [pass EXCEPT ![b].stage = "create", ![b].pick = Nobody, ![b].offer = 0]
    /\ UNCHANGED <<rows, offers, availability, jobs, delays, calls, assignLock, admin>>

ReleaseFlowLock(b) ==
    /\ At(b, "release")
    /\ pass' = [pass EXCEPT ![b] = IdlePass]
    /\ UNCHANGED <<rows, offers, availability, queues, calls, assignLock, admin>>

\* The process dies during a pass: its lock lapses, and a pass that a job started
\* is started again when Bull finds the job stalled.
Crash(b) ==
    /\ ~At(b, "idle")
    /\ Move("crash")
    /\ pass' = [pass EXCEPT ![b] = IdlePass]
    /\ jobs' \in {jobs, jobs \cup {<<b, "create">>}}
    /\ UNCHANGED <<rows, offers, availability, timers, delays, calls, assignLock,
                   requests, forces>>

-----------------------------------------------------------------------------
(* What becomes of an offer.                                               *)

\* Time: expiresAt goes by, 45 seconds or more after the offer was made and so after
\* the pass that made it.
OfferDue(o) ==
    /\ LiveOffer(o)
    /\ \A b \in Bookings : o \notin pass[b].made
    /\ offers' = [offers EXCEPT ![o].due = TRUE]
    /\ UNCHANGED <<rows, availability, queues, pass, calls, assignLock, admin>>

\* The expire-offer job runs: a conditional update, then release and resume.
ExpireOffer(o) ==
    /\ o \in timers
    /\ Offered(o) => offers[o].due
    /\ timers' = timers \ {o}
    /\ offers' = Resolved({o}, "EXPIRED")
    /\ IF Offered(o) THEN Start("expire", offers[o].worker, {o}, "release")
                     ELSE UNCHANGED calls
    /\ UNCHANGED <<rows, availability, jobs, delays, pass, assignLock, admin>>

\* JobDeclineService.decline finds the live offer ...
Decline(o) ==
    /\ LiveOffer(o)
    /\ Start("decline", offers[o].worker, {o}, "decline")
    /\ UNCHANGED <<rows, offers, availability, queues, pass, assignLock, admin>>

\* ... and writes DECLINED by id, whatever the offer has become.
DeclineWrite(c) ==
    /\ c \in calls /\ c.stage = "decline"
    /\ offers' = [o \in OfferIds |-> IF o \in c.offers
                                     THEN [offers[o] EXCEPT !.status = "DECLINED"]
                                     ELSE offers[o]]
    /\ Step(c, "release")
    /\ UNCHANGED <<rows, availability, queues, pass, assignLock, admin>>

\* JobAcceptService.accept takes the assignment lock and finds the offer live and
\* the booking waiting ...
Accept(o) ==
    LET b == offers[o].booking IN
    /\ LiveOffer(o)
    /\ b \notin assignLock
    /\ status[b] = "PENDING_ASSIGNMENT"
    /\ assignLock' = assignLock \cup {b}
    /\ Start("accept", offers[o].worker, {o}, "commit")
    /\ UNCHANGED <<rows, offers, availability, queues, pass, admin>>

\* Faulty variant: the offer is accepted by id, without the status condition.
AcceptCommitUnconditional(c) ==
    /\ c \in calls /\ c.stage = "commit"
    /\ \E o \in c.offers : LET b == offers[o].booking IN
        /\ offers' = [p \in OfferIds |->
                        IF p = o THEN [offers[p] EXCEPT !.status = "ACCEPTED"]
                        ELSE IF p \in OffersOf(b) /\ Offered(p)
                        THEN [offers[p] EXCEPT !.status = "EXPIRED"] ELSE offers[p]]
        /\ status' = [status EXCEPT ![b] = "ASSIGNED"]
        /\ assignee' = [assignee EXCEPT ![b] = c.worker]
        /\ dispatch' = [dispatch EXCEPT ![b] = "ASSIGNED"]
        /\ availability' = [availability EXCEPT ![c.worker] = "ON_JOB"]
        /\ Step(c, "unlock")
    /\ UNCHANGED <<exhausted, tokens, queues, pass, assignLock, admin>>

\* ... and commits: the offer must still be OFFERED, the booking is not read again,
\* and every other pending offer of the booking ends.
AcceptCommit(c) ==
    /\ c \in calls /\ c.stage = "commit"
    /\ \E o \in c.offers : LET b == offers[o].booking IN
        /\ Offered(o)
        /\ offers' = [p \in OfferIds |->
                        IF p = o THEN [offers[p] EXCEPT !.status = "ACCEPTED"]
                        ELSE IF p \in OffersOf(b) /\ Offered(p)
                        THEN [offers[p] EXCEPT !.status = "EXPIRED"] ELSE offers[p]]
        /\ status' = [status EXCEPT ![b] = "ASSIGNED"]
        /\ assignee' = [assignee EXCEPT ![b] = c.worker]
        /\ dispatch' = [dispatch EXCEPT ![b] = "ASSIGNED"]
        /\ availability' = [availability EXCEPT ![c.worker] = "ON_JOB"]
        /\ Step(c, "unlock")
    /\ UNCHANGED <<exhausted, tokens, queues, pass, assignLock, admin>>

\* The update found the offer gone: Conflict, and the finally clause unlocks.
AcceptConflict(c) ==
    /\ c \in calls /\ c.stage = "commit"
    /\ \E o \in c.offers :
        /\ ~Offered(o)
        /\ assignLock' = assignLock \ {offers[o].booking}
    /\ End(c)
    /\ UNCHANGED <<rows, offers, availability, queues, pass, admin>>

\* The expiry job is removed and the lock released.
AcceptUnlock(c) ==
    /\ c \in calls /\ c.stage = "unlock"
    /\ timers' = timers \ c.offers
    /\ \E o \in c.offers : assignLock' = assignLock \ {offers[o].booking}
    /\ End(c)
    /\ UNCHANGED <<rows, offers, availability, jobs, delays, pass, admin>>

\* The assignment lock's 30 seconds are over before its holder is done.
LockLapses(b) ==
    /\ b \in assignLock
    /\ Move("lapse")
    /\ assignLock' = assignLock \ {b}
    /\ UNCHANGED <<rows, offers, availability, queues, pass, calls, requests, forces>>

-----------------------------------------------------------------------------
(* releaseBeauticianToOnline, as part of the flow c.                       *)

\* The profile and the active job are read; nothing to do unless OFFERED.
ReleaseRead(c) ==
    /\ c \in calls /\ c.stage = "release"
    /\ Step(c, CASE availability[c.worker] # "OFFERED" -> "resume"
                 [] availability[c.worker] = "OFFERED" /\ HasActiveJob(c.worker) -> "toOnJob"
                 [] OTHER -> "toOnline")
    /\ UNCHANGED <<rows, offers, availability, queues, pass, assignLock, admin>>

\* The write repeats the condition OFFERED, but not the read of the job.
ReleaseWrite(c) ==
    /\ c \in calls /\ c.stage \in {"toOnJob", "toOnline"}
    /\ availability' =
         IF availability[c.worker] = "OFFERED"
         THEN [availability EXCEPT ![c.worker] =
                 IF c.stage = "toOnJob" THEN "ON_JOB" ELSE "ONLINE"]
         ELSE availability
    /\ Step(c, "resume")
    /\ UNCHANGED <<rows, offers, queues, pass, assignLock, admin>>

\* After an expiry or a decline the expiry job is removed and matching goes on.
Resume(c) ==
    /\ c \in calls /\ c.stage = "resume" /\ c.op \in {"expire", "decline"}
    /\ timers' = timers \ c.offers
    /\ \E o \in c.offers : pass' = PassAfterTrigger(offers[o].booking, Nobody)
    /\ End(c)
    /\ UNCHANGED <<rows, offers, availability, jobs, delays, assignLock, admin>>

\* After clearing one offer for a force-assignment only its job is removed.
Cleared(c) ==
    /\ c \in calls /\ c.stage = "resume" /\ c.op = "clear"
    /\ timers' = timers \ c.offers
    /\ End(c)
    /\ UNCHANGED <<rows, offers, availability, jobs, delays, pass, assignLock, admin>>

-----------------------------------------------------------------------------
(* Beauticians come, go and finish (BeauticianAvailabilityService).        *)

\* Going online is refused while ON_JOB or OFFERED; the write comes later.
GoOnline(w) ==
    /\ availability[w] \notin {"ON_JOB", "OFFERED"}
    /\ Move("online")
    /\ Start("online", w, {}, "goOnline")
    /\ UNCHANGED <<rows, offers, availability, queues, pass, assignLock, requests, forces>>

\* Going offline first cancels the live offers of the beautician and releases.
GoOffline(w) ==
    LET pending == {o \in OfferIds : offers[o].worker = w /\ LiveOffer(o)} IN
    /\ Move("offline")
    /\ offers' = Resolved(pending, "CANCELLED")
    /\ Start("offline", w, pending, IF pending = {} THEN "goOffline" ELSE "release")
    /\ UNCHANGED <<rows, availability, queues, pass, assignLock, requests, forces>>

\* ... then resumes the matching of each booking it left, and waits for each pass,
OfflineResume(c) ==
    /\ c \in calls /\ c.stage = "resume" /\ c.op = "offline"
    /\ \A b \in Bookings : pass[b].by # c.worker
    /\ \E o \in c.offers :
        /\ timers' = timers \ {o}
        /\ pass' = PassAfterTrigger(offers[o].booking, c.worker)
        /\ calls' = (calls \ {c}) \cup
             {[c EXCEPT !.offers = @ \ {o},
                        !.stage = IF c.offers = {o} THEN "goOffline" ELSE "resume"]}
    /\ UNCHANGED <<rows, offers, availability, jobs, delays, assignLock, admin>>

\* ... and writes the new availability whatever it has become.
SetOffline(c) ==
    /\ c \in calls /\ c.stage = "goOffline"
    /\ \A b \in Bookings : pass[b].by # c.worker
    /\ availability' = [availability EXCEPT ![c.worker] = "OFFLINE"]
    /\ End(c)
    /\ UNCHANGED <<rows, offers, queues, pass, assignLock, admin>>

\* The job ends: the booking is completed, then the beautician's jobs are counted
\* (releaseBeauticianIfIdle) ...
CompleteJob(b) ==
    /\ status[b] = "ASSIGNED"
    /\ status' = [status EXCEPT ![b] = "COMPLETED"]
    /\ Start("complete", assignee[b], {}, "count")
    /\ UNCHANGED <<assignee, dispatch, exhausted, tokens, offers, availability, queues,
                   pass, assignLock, admin>>

CountJobs(c) ==
    /\ c \in calls /\ c.stage = "count"
    /\ IF HasActiveJob(c.worker) THEN End(c) ELSE Step(c, "goOnline")
    /\ UNCHANGED <<rows, offers, availability, queues, pass, assignLock, admin>>

\* ... and ONLINE is written without a condition, here and for going online.
SetOnline(c) ==
    /\ c \in calls /\ c.stage = "goOnline"
    /\ availability' = [availability EXCEPT ![c.worker] = "ONLINE"]
    /\ End(c)
    /\ UNCHANGED <<rows, offers, queues, pass, assignLock, admin>>

-----------------------------------------------------------------------------
(* Retries, wakes, triggers, cancellations: a check, then its effect.      *)

\* retryMatching (customer or admin), tryWakeExhaustedBooking and
\* triggerImmediateMatching (a beautician came online or moved).
RequestMatching(b, kind) ==
    /\ status[b] = "PENDING_ASSIGNMENT"
    /\ kind = "wake" => exhausted[b] /\ <<b, "wake">> \notin tokens
    /\ kind = "immediate" => ~exhausted[b] /\ Live(b) = {}
    /\ kind \in {"wake", "immediate"} => \E w \in Beauticians : availability[w] = "ONLINE"
    /\ Move(kind)
    /\ tokens' = IF kind = "wake" THEN tokens \cup {<<b, "wake">>} ELSE tokens
    /\ requests' = requests \cup {[booking |-> b, kind |-> kind]}
    /\ UNCHANGED <<status, assignee, dispatch, exhausted, offers, availability, queues,
                   pass, calls, assignLock, forces>>

\* cancelBookingJobs removes every job of the booking, expiry jobs included; a
\* retry or a wake starts the dispatch over; one create-offers job is queued.
RestartMatching(r) ==
    LET b == r.booking IN
    /\ r \in requests /\ r.kind # "cancel"
    /\ requests' = requests \ {r}
    /\ jobs' = {j \in jobs : j[1] # b} \cup {<<b, r.kind>>}
    /\ timers' = timers \ OffersOf(b)
    /\ IF r.kind = "immediate"
       THEN UNCHANGED <<dispatch, exhausted>>
       ELSE /\ dispatch' = [dispatch EXCEPT ![b] = "PENDING_MATCH"]
            /\ exhausted' = [exhausted EXCEPT ![b] = FALSE]
    /\ UNCHANGED <<status, assignee, tokens, offers, availability, delays, pass, calls,
                   assignLock, forces, moves>>

\* BookingCoreService.updateStatus: a booking that is not over can be cancelled.
RequestCancel(b) ==
    /\ status[b] \notin {"COMPLETED", "CANCELLED"}
    /\ Move("cancel")
    /\ requests' = requests \cup {[booking |-> b, kind |-> "cancel"]}
    /\ UNCHANGED <<rows, offers, availability, queues, pass, calls, assignLock, forces>>

\* CANCELLED is written by id.  cancelDispatchForBooking runs after that and does
\* nothing: it reads the booking again and wants it PENDING_ASSIGNMENT.
CancelBooking(r) ==
    /\ r \in requests /\ r.kind = "cancel"
    /\ requests' = requests \ {r}
    /\ status' = [status EXCEPT ![r.booking] = "CANCELLED"]
    /\ UNCHANGED <<assignee, dispatch, exhausted, tokens, offers, availability, queues,
                   pass, calls, assignLock, forces, moves>>

-----------------------------------------------------------------------------
(* DispatchAdminService.forceAssign.                                       *)

\* The pre-flight checks.
ForceAssign(b, w) ==
    /\ status[b] = "PENDING_ASSIGNMENT"
    /\ availability[w] # "ON_JOB"
    /\ \A o \in OfferIds : offers[o].worker = w /\ LiveOffer(o) => offers[o].booking = b
    /\ Move("force")
    /\ forces' = forces \cup {[booking |-> b, worker |-> w, stage |-> "checked",
                               wasOffline |-> availability[w] = "OFFLINE"]}
    /\ UNCHANGED <<rows, offers, availability, queues, pass, calls, assignLock, requests>>

\* An OFFLINE beautician is set ONLINE; the live offers of the booking are
\* cancelled and their beauticians released one by one.
ForceClear(f) ==
    LET cleared == Live(f.booking) IN
    /\ f \in forces /\ f.stage = "checked"
    /\ availability' = IF f.wasOffline THEN [availability EXCEPT ![f.worker] = "ONLINE"]
                       ELSE availability
    /\ offers' = Resolved(cleared, "CANCELLED")
    /\ calls' = calls \cup {[op |-> "clear", worker |-> offers[o].worker, offers |-> {o},
                             stage |-> "release"] : o \in cleared}
    /\ forces' = (forces \ {f}) \cup {[f EXCEPT !.stage = "assign"]}
    /\ UNCHANGED <<rows, queues, pass, assignLock, requests, moves>>

\* Faulty variant: the offers made since the clearing are left open.
ForceAssignCommitKeepsOffers(f) ==
    LET b == f.booking IN
    /\ f \in forces /\ f.stage = "assign"
    /\ \A c \in calls : c.op = "clear" => c.offers \cap OffersOf(b) = {}
    /\ \E o \in OfferIds :
        /\ Fresh(o)
        /\ offers' = [offers EXCEPT ![o] =
             [booking |-> b, worker |-> f.worker, status |-> "ACCEPTED",
              due |-> TRUE, forced |-> TRUE]]
    /\ status' = [status EXCEPT ![b] = "ASSIGNED"]
    /\ assignee' = [assignee EXCEPT ![b] = f.worker]
    /\ dispatch' = [dispatch EXCEPT ![b] = "ASSIGNED"]
    /\ exhausted' = [exhausted EXCEPT ![b] = FALSE]
    /\ availability' = [availability EXCEPT ![f.worker] = "ON_JOB"]
    /\ jobs' = {j \in jobs : j[1] # b}
    /\ timers' = timers \ OffersOf(b)
    /\ forces' = forces \ {f}
    /\ UNCHANGED <<tokens, delays, pass, calls, assignLock, requests, moves>>

\* The booking's jobs are removed, and one transaction ends its pending offers,
\* inserts an accepted one and assigns, without reading the booking again.
ForceAssignCommit(f) ==
    LET b == f.booking IN
    /\ f \in forces /\ f.stage = "assign"
    /\ \A c \in calls : c.op = "clear" => c.offers \cap OffersOf(b) = {}
    /\ \E o \in OfferIds :
        /\ Fresh(o)
        /\ offers' = [Resolved(OffersOf(b), "CANCELLED") EXCEPT ![o] =
             [booking |-> b, worker |-> f.worker, status |-> "ACCEPTED",
              due |-> TRUE, forced |-> TRUE]]
    /\ status' = [status EXCEPT ![b] = "ASSIGNED"]
    /\ assignee' = [assignee EXCEPT ![b] = f.worker]
    /\ dispatch' = [dispatch EXCEPT ![b] = "ASSIGNED"]
    /\ exhausted' = [exhausted EXCEPT ![b] = FALSE]
    /\ availability' = [availability EXCEPT ![f.worker] = "ON_JOB"]
    /\ jobs' = {j \in jobs : j[1] # b}
    /\ timers' = timers \ OffersOf(b)
    /\ forces' = forces \ {f}
    /\ UNCHANGED <<tokens, delays, pass, calls, assignLock, requests, moves>>

-----------------------------------------------------------------------------
PassStep(b) ==
    \/ CountOffers(b) \/ PrepareAttempt(b) \/ PrepareWrite(b) \/ Search(b)
    \/ SearchLater(b) \/ (\E reason \in Reasons : GiveUp(b, reason))
    \/ MarkExhausted(b) \/ MarkExhaustedWrite(b)
    \/ CreateOffer(b) \/ InsertOffer(b) \/ Offering(b) \/ OfferingWrite(b)
    \/ ScheduleExpireOffer(b) \/ ReleaseFlowLock(b)

OfferStep(o) == OfferDue(o) \/ ExpireOffer(o) \/ Decline(o) \/ Accept(o)

CallStep(c) ==
    \/ DeclineWrite(c) \/ AcceptCommit(c) \/ AcceptConflict(c) \/ AcceptUnlock(c)
    \/ ReleaseRead(c) \/ ReleaseWrite(c) \/ Resume(c) \/ Cleared(c)
    \/ OfflineResume(c) \/ SetOffline(c) \/ CountJobs(c) \/ SetOnline(c)

ForceStep(f) == ForceClear(f) \/ ForceAssignCommit(f)

Next ==
    \/ \E b \in Bookings : PassStep(b) \/ Crash(b) \/ LockLapses(b) \/ CompleteJob(b)
    \/ \E b \in Bookings, kind \in JobKinds : RunCreateJob(b, kind)
    \/ \E o \in OfferIds : OfferStep(o)
    \/ \E c \in calls : CallStep(c)
    \/ \E w \in Beauticians : GoOnline(w) \/ GoOffline(w)
    \/ \E b \in Bookings, kind \in {"retry", "wake", "immediate"} : RequestMatching(b, kind)
    \/ \E b \in Bookings : RequestCancel(b)
    \/ \E r \in requests : RestartMatching(r) \/ CancelBooking(r)
    \/ \E b \in Bookings, w \in Beauticians : ForceAssign(b, w)
    \/ \E f \in forces : ForceStep(f)

Spec == Init /\ [][Next]_vars

\* A flow in progress goes on to its end, time passes, and queued jobs are run when
\* they are due.  Nobody has to accept, decline, come, go or ask for anything.
Fairness ==
    /\ \A b \in Bookings : WF_vars(PassStep(b))
    /\ WF_vars(\E b \in Bookings, kind \in JobKinds : RunCreateJob(b, kind))
    /\ \A o \in OfferIds : WF_vars(OfferDue(o)) /\ WF_vars(ExpireOffer(o))
    /\ WF_vars(\E c \in calls : CallStep(c))
    /\ WF_vars(\E r \in requests : RestartMatching(r) \/ CancelBooking(r))
    /\ WF_vars(\E f \in forces : ForceStep(f))

FairSpec == Spec /\ Fairness

-----------------------------------------------------------------------------
(* What dispatch promises.                                                 *)

\* However accepts, declines, lapses, lost locks, cancellations and
\* force-assignments interleave, at most one beautician wins a booking by accepting
\* an offer (the conditional update of JobAcceptService.accept).
OneWinner ==
    \A o, p \in OfferIds :
        /\ offers[o].status = "ACCEPTED" /\ ~offers[o].forced
        /\ offers[p].status = "ACCEPTED" /\ ~offers[p].forced
        /\ offers[o].booking = offers[p].booking
        => o = p

\* A booking under way changes hands only when an admin assigns it by force: an
\* accept that was on its way when somebody else got the booking fails (accept and
\* forceAssign end all other pending offers in the transaction that assigns).
NoTakeover ==
    [][\A b \in Bookings :
          status[b] = "ASSIGNED" /\ assignee'[b] # assignee[b] =>
            \E o \in OfferIds :
                /\ offers[o].status = "NONE"
                /\ offers'[o].booking = b
                /\ offers'[o].worker = assignee'[b]
                /\ offers'[o].forced]_vars

\* The customer's booking is never with more beauticians at once than configured,
\* and never twice with the same one (runMatchingPass, createNextOffer).
LiveOffersWithinCap ==
    \A b \in Bookings :
        /\ Cardinality({o \in OfferIds : offers[o].booking = b /\ LiveOffer(o)}) <= Cap
        /\ \A o, p \in OfferIds :
              /\ offers[o].booking = b /\ LiveOffer(o)
              /\ offers[p].booking = b /\ LiveOffer(p)
              /\ offers[o].worker = offers[p].worker
              => o = p

\* Matching gives up only when nobody is thinking about an offer, and makes no
\* offer once it gave up (handleNoCandidate, markMatchingExhausted).
ExhaustedHasNoLiveOffer ==
    \A o \in OfferIds : LiveOffer(o) => ~exhausted[offers[o].booking]

\* An offer is answered, withdrawn or expired in the end, whatever its beautician
\* does (scheduleExpireOffer and the expire-offer job).
OfferResolved == \A o \in OfferIds : Offered(o) ~> ~Offered(o)

=============================================================================
