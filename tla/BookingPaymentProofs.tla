------------------------ MODULE BookingPaymentProofs ------------------------
(***************************************************************************)
(* Proofs about BookingPayment, for every set of keys and handlers, all    *)
(* prices, every opening balance and every bound.                          *)
(*                                                                         *)
(* A verify call compares price and split before the transaction that      *)
(* books: SplitAgreed carries the comparison over to it.                   *)
(***************************************************************************)
EXTENDS BookingPayment, TLAPS

\* A webhook job is worked on by one handler and counted until that one is done.
JobsHeld ==
    \A c \in Callers : calls[c].job =>
        /\ calls[c].stage # "idle"
        /\ jobs[Key(c)] > 0
        /\ \A d \in Callers : calls[d].job /\ Key(d) = Key(c) => d = c

TypeInv == TypeOK /\ JobsHeld

CallsOK ==
    /\ calls \in [Callers -> Calls]
    /\ \A c \in Callers : calls[c].stage # "idle" => calls[c].key \in Keys
    /\ jobs \in [Keys -> Nat]
    /\ JobsHeld

-----------------------------------------------------------------------------
(* What the helpers of the model do to the handlers.                       *)

\* Nobody's handler is a handler, at no stage and on no job.
LEMMA IdleFacts ==
    /\ Idle \in Calls
    /\ Idle.stage = "idle" /\ Idle.job = FALSE /\ Idle.key = NoKey
    /\ NoIntent \in Intents /\ NoIntent.status = "NONE" /\ NoBooking \in Bookings
BY DEF Idle, Calls, Stages, NoIntent, Intents, IntentStatuses, BookingStatuses, Methods,
       NoBooking, Bookings

\* What changes in one handler's record changes in no other.
LEMMA CallChanged ==
    ASSUME TypeInv, NEW c \in Callers, NEW r \in Calls, r.key = Key(c), r.job = calls[c].job,
           r.stage # "idle", ~At(c, "idle"), calls' = [calls EXCEPT ![c] = r], jobs' = jobs
    PROVE  CallsOK' /\ calls'[c] = r /\ \A d \in Callers \ {c} : calls'[d] = calls[d]
<1>1. /\ calls' \in [Callers -> Calls] /\ calls'[c] = r
      /\ \A d \in Callers \ {c} : calls'[d] = calls[d]
  BY DEF TypeInv, TypeOK
<1>2. \A d \in Callers : /\ calls'[d].key = calls[d].key /\ calls'[d].job = calls[d].job
                         /\ calls'[d].stage = "idle" <=> calls[d].stage = "idle"
  BY <1>1 DEF Key, At
<1>3. JobsHeld'
  BY <1>2 DEF TypeInv, JobsHeld, Key
<1> QED BY <1>1, <1>2, <1>3 DEF TypeInv, TypeOK, CallsOK

\* A handler that moves to another stage keeps everything else.
LEMMA GotoFacts ==
    ASSUME TypeInv, NEW c \in Callers, NEW s \in Stages \ {"idle"}, ~At(c, "idle"),
           Goto(c, s), jobs' = jobs
    PROVE  /\ CallsOK'
           /\ calls'[c].stage = s /\ calls'[c].key = calls[c].key
           /\ calls'[c].seen = calls[c].seen /\ calls'[c].total = calls[c].total
           /\ \A d \in Callers \ {c} : calls'[d] = calls[d]
<1> DEFINE r == [calls[c] EXCEPT !.stage = s]
<1>1. /\ r \in Calls /\ r.key = Key(c) /\ r.job = calls[c].job /\ r.stage = s
      /\ r.seen = calls[c].seen /\ r.total = calls[c].total
  BY DEF TypeInv, TypeOK, Calls, Key
<1>2. calls' = [calls EXCEPT ![c] = r]
  BY DEF Goto
<1> HIDE DEF r
<1> QED BY <1>1, <1>2, CallChanged DEF Key

\* A handler that leaves gives up its job, or an attempt of it, and nobody else's.
LEMMA LeaveFacts ==
    ASSUME TypeInv, NEW c \in Callers, ~At(c, "idle"), NEW left, Leave(c, left),
           calls[c].job => left \in Nat
    PROVE  /\ CallsOK'
           /\ calls'[c] = Idle
           /\ \A d \in Callers \ {c} : calls'[d] = calls[d]
<1>1. /\ calls' = [calls EXCEPT ![c] = Idle]
      /\ calls' \in [Callers -> Calls] /\ calls'[c] = Idle
      /\ \A d \in Callers \ {c} : calls'[d] = calls[d]
  BY IdleFacts DEF Leave, TypeInv, TypeOK
<1>2. calls[c].job \in BOOLEAN /\ Key(c) \in Keys
  BY DEF TypeInv, TypeOK, Calls, Key, At
<1>3. CASE calls[c].job
  <2>1. jobs' = [jobs EXCEPT ![Key(c)] = left]
    BY <1>3 DEF Leave
  <2>2. jobs' \in [Keys -> Nat]
    BY <1>2, <1>3, <2>1 DEF TypeInv, TypeOK
  <2>3. \A d \in Callers : calls'[d].job =>
          /\ d # c /\ calls'[d] = calls[d] /\ calls[d].job
          /\ Key(d) # Key(c) /\ Key(d) \in Keys
    BY <1>1, <1>3, IdleFacts DEF TypeInv, TypeOK, JobsHeld, Key
  <2>4. \A d \in Callers : calls'[d].job => jobs'[Key(d)] = jobs[Key(d)]
    BY <1>2, <2>1, <2>3 DEF TypeInv, TypeOK
  <2>5. JobsHeld'
    BY <2>3, <2>4 DEF TypeInv, JobsHeld, Key
  <2> QED BY <1>1, <2>2, <2>5, IdleFacts DEF TypeInv, TypeOK, CallsOK
<1>4. CASE ~calls[c].job
  <2>1. jobs' = jobs
    BY <1>4 DEF Leave
  <2>2. \A d \in Callers : calls'[d].job => d # c /\ calls'[d] = calls[d]
    BY <1>1, IdleFacts
  <2>3. JobsHeld'
    BY <2>1, <2>2 DEF TypeInv, JobsHeld, Key
  <2> QED BY <1>1, <2>1, <2>3, IdleFacts DEF TypeInv, TypeOK, CallsOK
<1> QED BY <1>2, <1>3, <1>4

\* Both ways to leave.
LEMMA DoneFacts ==
    ASSUME TypeInv, NEW c \in Callers, ~At(c, "idle"), Return(c) \/ Throw(c)
    PROVE  /\ CallsOK'
           /\ calls'[c] = Idle
           /\ \A d \in Callers \ {c} : calls'[d] = calls[d]
<1>1. CASE Return(c)
  BY <1>1, LeaveFacts DEF Return
<1>2. CASE Throw(c)
  <2>1. calls[c].job => jobs[Key(c)] - 1 \in Nat
    <3> SUFFICES ASSUME calls[c].job PROVE jobs[Key(c)] - 1 \in Nat
      OBVIOUS
    <3>1. Key(c) \in Keys /\ jobs[Key(c)] > 0
      BY DEF TypeInv, TypeOK, JobsHeld, Key, At
    <3>2. jobs[Key(c)] \in Nat
      BY <3>1 DEF TypeInv, TypeOK
    <3> QED BY <3>1, <3>2
  <2> QED BY <1>2, <2>1, LeaveFacts DEF Throw
<1> QED BY <1>1, <1>2

\* A new handler is what it was started as; a job it takes nobody else works on.
LEMMA BeginFacts ==
    ASSUME TypeInv, NEW c \in Callers, NEW r \in Calls, Begin(c, r), jobs' = jobs,
           r.stage # "idle", r.key \in Keys,
           r.job => jobs[r.key] > 0 /\ \A d \in Callers : ~(Key(d) = r.key /\ calls[d].job)
    PROVE  /\ CallsOK'
           /\ calls'[c] = r
           /\ \A d \in Callers \ {c} : calls'[d] = calls[d]
<1>1. /\ calls' \in [Callers -> Calls] /\ calls'[c] = r
      /\ \A d \in Callers \ {c} : calls'[d] = calls[d]
  BY DEF Begin, TypeInv, TypeOK
<1>2. ~calls[c].job
  BY DEF Begin, At, TypeInv, JobsHeld
<1>3. JobsHeld'
  BY <1>1, <1>2 DEF TypeInv, JobsHeld, Key
<1> QED BY <1>1, <1>3 DEF TypeInv, TypeOK, CallsOK

\* What a handler writes to its intent by id is an intent.
LEMMA OverwriteFacts ==
    ASSUME TypeInv, NEW c \in Callers, ~At(c, "idle"), NEW s \in IntentStatuses,
           NEW f \in BOOLEAN, Overwrite(c, s, f)
    PROVE  /\ intent' \in [Keys -> Intents]
           /\ Key(c) \in Keys
           /\ intent'[Key(c)].status = s /\ intent'[Key(c)].confirmed = f
           /\ intent'[Key(c)].share = intent[Key(c)].share
           /\ intent'[Key(c)].due = intent[Key(c)].due
           /\ \A k \in Keys \ {Key(c)} : intent'[k] = intent[k]
<1> DEFINE k == Key(c)
           it == intent[k]
           b == calls[c].seen.booked
           r == [it EXCEPT !.status = s, !.confirmed = f, !.booked = b]
<1>1. k \in Keys /\ it \in Intents /\ b \in BOOLEAN
  BY DEF TypeInv, TypeOK, Calls, Intents, Key, At
<1>2. /\ r \in Intents /\ r.status = s /\ r.confirmed = f /\ r.share = it.share
      /\ r.due = it.due
  BY <1>1 DEF Intents
<1>3. intent' = [intent EXCEPT ![k] = r]
  BY <1>1 DEF Overwrite, TypeInv, TypeOK
<1> HIDE DEF r
<1>4. intent' \in [Keys -> Intents] /\ intent'[k] = r
      /\ \A j \in Keys \ {k} : intent'[j] = intent[j]
  BY <1>1, <1>2, <1>3 DEF TypeInv, TypeOK
<1> QED BY <1>1, <1>2, <1>4

-----------------------------------------------------------------------------
(* Every variable keeps its type.                                          *)

\* With nothing begun every variable has its type.
LEMMA InitTyped == Init => TypeInv
<1> SUFFICES ASSUME Init PROVE TypeInv
  OBVIOUS
<1>1. TypeOK
  BY IdleFacts, PriceAssumption DEF Init, TypeOK
<1>2. JobsHeld
  BY IdleFacts DEF Init, JobsHeld
<1> QED BY <1>1, <1>2 DEF TypeInv

\* The steps of bookings made without an intent, and of the intent's beginning.
LEMMA BookingStepTyped ==
    ASSUME TypeInv, NEW c \in Callers, CreateCommit(c) \/ InitializeWrite(c)
    PROVE  TypeInv'
<1> DEFINE k == Key(c)
<1>0. ~At(c, "idle") /\ k \in Keys /\ calls[c] \in Calls
  BY DEF CreateCommit, InitializeWrite, At, Key, TypeInv, TypeOK
<1>1. CallsOK'
  BY <1>0, DoneFacts DEF CreateCommit, InitializeWrite
<1>2. CASE CreateCommit(c)
  <2>1. booking' \in [Keys -> Bookings] /\ balance' \in Nat /\ taken' \in [Keys -> Nat]
    <3>1. CASE UNCHANGED <<booking, balance, taken>>
      BY <3>1 DEF TypeInv, TypeOK
    <3>2. CASE ~UNCHANGED <<booking, balance, taken>>
      <4>1. PICK s \in {"CONFIRMED", "PENDING_ASSIGNMENT", "PENDING"} :
              booking' = [booking EXCEPT ![k] = [status |-> s, method |-> calls[c].method,
                                                 total |-> calls[c].total]]
        BY <1>2, <3>2 DEF CreateCommit
      <4>2. calls[c].total \in Nat /\ calls[c].method \in Methods
        BY <1>0 DEF Calls
      <4>3. [status |-> s, method |-> calls[c].method, total |-> calls[c].total] \in Bookings
        BY <4>2 DEF Bookings, BookingStatuses
      <4>4. booking' \in [Keys -> Bookings]
        BY <1>0, <4>1, <4>3 DEF TypeInv, TypeOK
      <4>5. \/ balance' = balance /\ taken' = taken
            \/ /\ balance >= calls[c].total
               /\ balance' = balance - calls[c].total
               /\ taken' = [taken EXCEPT ![k] = taken[k] + calls[c].total]
        BY <1>2, <3>2, <4>2 DEF CreateCommit, TypeInv, TypeOK
      <4>6. balance' \in Nat /\ taken' \in [Keys -> Nat]
        BY <1>0, <4>2, <4>5 DEF TypeInv, TypeOK
      <4> QED BY <4>4, <4>6
    <3> QED BY <3>1, <3>2
  <2> QED BY <1>1, <1>2, <2>1 DEF CreateCommit, TypeInv, TypeOK, CallsOK, outer
<1>3. CASE InitializeWrite(c)
  <2>1. intent' \in [Keys -> Intents]
    <3>1. calls[c].seen \in Intents
      BY <1>0 DEF Calls
    <3> QED BY <1>0, <1>3, <3>1 DEF InitializeWrite, TypeInv, TypeOK
  <2> QED BY <1>1, <1>3, <2>1 DEF InitializeWrite, TypeInv, TypeOK, CallsOK, outer, money
<1> QED BY <1>2, <1>3

\* The steps of a verify call before its transaction, and its record of a failure.
LEMMA VerifyStepTyped ==
    ASSUME TypeInv, NEW c \in Callers,
           \/ ExpireIntent(c) \/ LookUp(c) \/ AskGateway(c) \/ MarkNotPaid(c)
           \/ ConfirmGatewayPayment(c) \/ CheckContext(c) \/ RecordFailure(c)
    PROVE  TypeInv'
<1> DEFINE k == Key(c)
<1>0. ~At(c, "idle") /\ k \in Keys /\ calls[c] \in Calls /\ intent[k] \in Intents
  BY DEF ExpireIntent, LookUp, AskGateway, MarkNotPaid, ConfirmGatewayPayment, CheckContext,
         RecordFailure, At, Key, TypeInv, TypeOK
<1>1. CASE ExpireIntent(c)
  <2>1. CallsOK'
    BY <1>0, <1>1, GotoFacts DEF ExpireIntent, Stages
  <2>2. intent' \in [Keys -> Intents]
    BY <1>0, <1>1, OverwriteFacts DEF ExpireIntent, IntentStatuses
  <2> QED BY <1>1, <2>1, <2>2 DEF ExpireIntent, TypeInv, TypeOK, CallsOK, outer, money
<1>2. CASE LookUp(c)
  <2>1. CallsOK'
    BY <1>0, <1>2, GotoFacts, DoneFacts DEF LookUp, Stages
  <2> QED BY <1>2, <2>1 DEF LookUp, TypeInv, TypeOK, CallsOK, outer, money
<1>3. CASE AskGateway(c)
  <2>1. CallsOK'
    BY <1>0, <1>3, GotoFacts, DoneFacts DEF AskGateway, Stages
  <2> QED BY <1>3, <2>1 DEF AskGateway, TypeInv, TypeOK, CallsOK, outer, money
<1>4. CASE MarkNotPaid(c)
  <2>1. CallsOK'
    BY <1>0, <1>4, DoneFacts DEF MarkNotPaid
  <2>2. intent' \in [Keys -> Intents]
    BY <1>0, <1>4, OverwriteFacts DEF MarkNotPaid, IntentStatuses
  <2> QED BY <1>4, <2>1, <2>2 DEF MarkNotPaid, TypeInv, TypeOK, CallsOK, outer, money
<1>5. CASE ConfirmGatewayPayment(c)
  <2> DEFINE r == [calls[c] EXCEPT !.stage = "context", !.seen.confirmed = TRUE]
             i == [intent[k] EXCEPT !.confirmed = TRUE, !.booked = calls[c].seen.booked]
  <2>1. r \in Calls /\ r.key = Key(c) /\ r.job = calls[c].job /\ r.stage # "idle"
    BY <1>0 DEF Calls, Intents, Stages, Key
  <2>2. calls' = [calls EXCEPT ![c] = r] /\ jobs' = jobs
    BY <1>5 DEF ConfirmGatewayPayment
  <2>3. i \in Intents
    BY <1>0 DEF Calls, Intents
  <2>4. intent' = intent \/ intent' = [intent EXCEPT ![k] = i]
    BY <1>0, <1>5 DEF ConfirmGatewayPayment, TypeInv, TypeOK
  <2> HIDE DEF r, i
  <2>5. CallsOK'
    BY <1>0, <2>1, <2>2, CallChanged
  <2>6. intent' \in [Keys -> Intents]
    BY <1>0, <2>3, <2>4 DEF TypeInv, TypeOK
  <2> QED BY <1>5, <2>5, <2>6 DEF ConfirmGatewayPayment, TypeInv, TypeOK, CallsOK, outer, money
<1>6. CASE CheckContext(c)
  <2>1. CallsOK'
    <3>1. CASE Throw(c)
      BY <1>0, <3>1, DoneFacts
    <3>2. CASE ~Throw(c)
      <4> DEFINE r == [calls[c] EXCEPT !.stage = "fulfil", !.total = price[k]]
      <4>1. price[k] \in Nat
        BY <1>0 DEF TypeInv, TypeOK
      <4>2. r \in Calls /\ r.key = Key(c) /\ r.job = calls[c].job /\ r.stage # "idle"
        BY <1>0, <4>1 DEF Calls, Stages, Key
      <4>3. calls' = [calls EXCEPT ![c] = r] /\ jobs' = jobs
        BY <1>6, <3>2 DEF CheckContext
      <4> HIDE DEF r
      <4> QED BY <1>0, <4>2, <4>3, CallChanged
    <3> QED BY <3>1, <3>2
  <2> QED BY <1>6, <2>1 DEF CheckContext, TypeInv, TypeOK, CallsOK, outer, money
<1>7. CASE RecordFailure(c)
  <2>1. CallsOK'
    BY <1>0, <1>7, DoneFacts DEF RecordFailure
  <2>2. intent' \in [Keys -> Intents]
    BY <1>0, <1>7, OverwriteFacts DEF RecordFailure, Intents
  <2> QED BY <1>7, <2>1, <2>2 DEF RecordFailure, TypeInv, TypeOK, CallsOK, outer, money
<1> QED BY <1>1, <1>2, <1>3, <1>4, <1>5, <1>6, <1>7

\* The transaction that fulfils an intent, and its other outcomes.
LEMMA FulfilStepTyped ==
    ASSUME TypeInv, NEW c \in Callers,
           \/ Fulfil(c) \/ FulfilledBefore(c) \/ FulfilRefused(c) \/ DatabaseFails(c)
    PROVE  TypeInv'
<1> DEFINE k == Key(c)
           it == intent[k]
<1>0. ~At(c, "idle") /\ k \in Keys /\ calls[c] \in Calls /\ it \in Intents
  BY DEF Fulfil, FulfilledBefore, FulfilRefused, DatabaseFails, At, Key, TypeInv, TypeOK
<1>1. CASE Fulfil(c)
  <2>1. CallsOK'
    BY <1>0, <1>1, DoneFacts DEF Fulfil
  <2>2. it.share \in Nat /\ calls[c].total \in Nat
    BY <1>0 DEF Intents, Calls
  <2>3. /\ balance' = balance - it.share /\ balance >= it.share
        /\ taken' = [taken EXCEPT ![k] = taken[k] + it.share]
    BY <1>1 DEF Fulfil
  <2>4. balance' \in Nat /\ taken' \in [Keys -> Nat]
    BY <1>0, <2>2, <2>3 DEF TypeInv, TypeOK
  <2>5. PICK s \in {"CONFIRMED", "PENDING_ASSIGNMENT"} :
          booking' = [booking EXCEPT ![k] = [status |-> s, method |-> "MONNIFY",
                                             total |-> calls[c].total]]
    BY <1>1 DEF Fulfil
  <2>6. [status |-> s, method |-> "MONNIFY", total |-> calls[c].total] \in Bookings
    BY <2>2 DEF Bookings, BookingStatuses, Methods
  <2>7. booking' \in [Keys -> Bookings]
    BY <1>0, <2>5, <2>6 DEF TypeInv, TypeOK
  <2> DEFINE i == [it EXCEPT !.status = "COMPLETED", !.booked = TRUE]
  <2>8. i \in Intents
    BY <1>0 DEF Intents, IntentStatuses
  <2>9. intent' = [intent EXCEPT ![k] = i]
    BY <1>0, <1>1 DEF Fulfil, TypeInv, TypeOK
  <2> HIDE DEF i
  <2>10. intent' \in [Keys -> Intents]
    BY <1>0, <2>8, <2>9 DEF TypeInv, TypeOK
  <2> QED BY <1>1, <2>1, <2>4, <2>7, <2>10 DEF Fulfil, TypeInv, TypeOK, CallsOK, outer
<1>2. CASE FulfilledBefore(c)
  <2>1. CallsOK'
    BY <1>0, <1>2, DoneFacts DEF FulfilledBefore
  <2> QED BY <1>2, <2>1 DEF FulfilledBefore, TypeInv, TypeOK, CallsOK, outer, money
<1>3. CASE FulfilRefused(c)
  <2>1. CallsOK'
    BY <1>0, <1>3, GotoFacts DEF FulfilRefused, Stages
  <2> QED BY <1>3, <2>1 DEF FulfilRefused, TypeInv, TypeOK, CallsOK, outer, money
<1>4. CASE DatabaseFails(c)
  <2>1. CallsOK'
    BY <1>0, <1>4, GotoFacts DEF DatabaseFails, Stages
  <2>2. troubles' \in Nat
    BY <1>4 DEF DatabaseFails, Mishap, TypeInv, TypeOK
  <2> QED BY <1>4, <2>1, <2>2 DEF DatabaseFails, TypeInv, TypeOK, CallsOK, money
<1> QED BY <1>1, <1>2, <1>3, <1>4

\* A cancellation changes the status of one booking and pays back its price, or nothing.
LEMMA SettleFacts ==
    ASSUME TypeInv, NEW c \in Callers, ~At(c, "idle"), NEW to \in BookingStatuses,
           NEW refund \in BOOLEAN, Settle(c, to, refund)
    PROVE  /\ booking' \in [Keys -> Bookings] /\ balance' \in Nat /\ returned' \in [Keys -> Nat]
           /\ \A k \in Keys : /\ booking'[k].method = booking[k].method
                              /\ booking'[k].total = booking[k].total
                              /\ booking'[k].status \in {booking[k].status, to}
                              /\ k # Key(c) => booking'[k].status = booking[k].status
                              /\ k # Key(c) => returned'[k] = returned[k]
           /\ returned'[Key(c)] \in {returned[Key(c)], booking[Key(c)].total}
<1> DEFINE k == Key(c)
           r == [booking[k] EXCEPT !.status = to]
<1>1. k \in Keys /\ booking[k] \in Bookings
  BY DEF TypeInv, TypeOK, Key, At
<1>2. r \in Bookings /\ r.status = to /\ r.method = booking[k].method /\ r.total = booking[k].total
      /\ booking[k].total \in Nat
  BY <1>1 DEF Bookings
<1>3. CASE refund /\ returned[k] > 0
  <2>1. booking' = booking /\ balance' = balance /\ returned' = returned
    BY <1>3 DEF Settle
  <2> QED BY <1>1, <2>1 DEF TypeInv, TypeOK
<1>4. CASE ~(refund /\ returned[k] > 0)
  <2>1. booking' = [booking EXCEPT ![k] = r]
    BY <1>1, <1>4 DEF Settle
  <2> HIDE DEF r
  <2>2. booking' \in [Keys -> Bookings] /\ booking'[k] = r
        /\ \A j \in Keys \ {k} : booking'[j] = booking[j]
    BY <1>1, <1>2, <2>1 DEF TypeInv, TypeOK
  <2>3. CASE refund
    <3>1. returned[k] = 0
      BY <1>1, <1>4, <2>3 DEF TypeInv, TypeOK
    <3>2. /\ returned' = [returned EXCEPT ![k] = returned[k] + booking[k].total]
          /\ balance' = balance + booking[k].total
      BY <1>4, <2>3 DEF Settle
    <3> QED BY <1>1, <1>2, <2>2, <3>1, <3>2 DEF TypeInv, TypeOK
  <2>4. CASE ~refund
    <3>1. returned' = returned /\ balance' = balance
      BY <1>4, <2>4 DEF Settle
    <3> QED BY <1>1, <1>2, <2>2, <3>1 DEF TypeInv, TypeOK
  <2> QED BY <2>3, <2>4
<1> QED BY <1>3, <1>4

\* The cancellations.
LEMMA CancelStepTyped ==
    ASSUME TypeInv, NEW c \in Callers, CancelCommit(c) \/ AdminCommit(c)
    PROVE  TypeInv'
<1>0. ~At(c, "idle") /\ calls[c] \in Calls
  BY DEF CancelCommit, AdminCommit, At, TypeInv, TypeOK
<1>1. CallsOK'
  BY <1>0, DoneFacts DEF CancelCommit, AdminCommit
<1>2. calls[c].to \in BookingStatuses /\ "CANCELLED" \in BookingStatuses
  BY <1>0 DEF Calls, BookingStatuses
<1>3. booking' \in [Keys -> Bookings] /\ balance' \in Nat /\ returned' \in [Keys -> Nat]
  BY <1>0, <1>2, SettleFacts DEF CancelCommit, AdminCommit
<1> QED BY <1>1, <1>3 DEF CancelCommit, AdminCommit, TypeInv, TypeOK, CallsOK, outer

\* What a new handler of each kind is.
LEMMA RequestFacts ==
    ASSUME TypeInv, NEW c \in Callers, NEW k \in Keys, Request(c, k) \/ Verify(c, k, TRUE)
    PROVE  /\ UNCHANGED <<money, outer, booking, intent>>
           /\ CallsOK'
           /\ \A d \in Callers \ {c} : calls'[d] = calls[d]
           /\ calls'[c].key = k /\ calls'[c].stage # "idle"
           /\ \/ /\ calls'[c].stage = "create" /\ calls'[c].method \in {"WALLET", "CASH"}
                 /\ ~calls'[c].seen.confirmed
              \/ calls'[c].stage = "intent" /\ ~calls'[c].seen.confirmed
              \/ /\ calls'[c].stage \in {"expire", "lookup"}
                 /\ calls'[c].seen = intent[k] /\ intent[k].status # "NONE"
              \/ /\ calls'[c].stage \in {"cancel", "admin"} /\ ~calls'[c].seen.confirmed
                 /\ Booked(k) /\ calls'[c].to # "NONE"
<1>0. price[k] \in Nat /\ balance \in Nat /\ intent[k] \in Intents /\ booking[k] \in Bookings
  BY DEF TypeInv, TypeOK
<1>1. CASE \E method \in {"WALLET", "CASH"} : Create(c, k, method)
  <2>1. PICK method \in {"WALLET", "CASH"} : Create(c, k, method)
    BY <1>1
  <2> DEFINE r == [Idle EXCEPT !.key = k, !.stage = "create", !.method = method,
                               !.total = price[k]]
  <2>2. /\ r \in Calls /\ r.key = k /\ r.stage = "create" /\ r.method = method
        /\ r.job = FALSE /\ r.seen.confirmed = FALSE
    BY <1>0, IdleFacts DEF Idle, Calls, Stages, Methods, BookingStatuses, NoIntent
  <2>3. Begin(c, r) /\ UNCHANGED <<money, outer, booking, intent, jobs>>
    BY <2>1 DEF Create
  <2> HIDE DEF r
  <2> QED BY <2>2, <2>3, BeginFacts
<1>2. CASE Initialize(c, k)
  <2> DEFINE share == IF balance < price[k] THEN balance ELSE price[k]
             i == [NoIntent EXCEPT !.status = "PENDING", !.share = share,
                                   !.due = price[k] - share]
             r == [Idle EXCEPT !.key = k, !.stage = "intent", !.seen = i]
  <2>1. share \in Nat /\ price[k] - share \in Nat
    BY <1>0
  <2> HIDE DEF share
  <2>2. i \in Intents /\ i.confirmed = FALSE
    BY <2>1 DEF NoIntent, Intents, IntentStatuses
  <2>3. Begin(c, r) /\ UNCHANGED <<money, outer, booking, intent, jobs>>
    BY <1>2 DEF Initialize, share
  <2> HIDE DEF i
  <2>4. /\ r \in Calls /\ r.key = k /\ r.stage = "intent" /\ r.job = FALSE /\ r.seen = i
    BY <2>2, IdleFacts DEF Idle, Calls, Stages, Methods, BookingStatuses
  <2> HIDE DEF r
  <2> QED BY <2>2, <2>3, <2>4, BeginFacts
<1>3. CASE \E job \in BOOLEAN : Verify(c, k, job)
  <2>1. PICK job \in BOOLEAN : Verify(c, k, job)
    BY <1>3
  <2> DEFINE r == [Idle EXCEPT !.key = k, !.job = job, !.seen = intent[k],
                     !.stage = IF intent[k].status = "PENDING" /\ ~intent[k].confirmed /\ late[k]
                               THEN "expire" ELSE "lookup"]
  <2>2. Begin(c, r) /\ UNCHANGED <<money, outer, booking, intent, jobs>>
    BY <2>1 DEF Verify
  <2>3. /\ intent[k].status # "NONE"
        /\ job => jobs[k] > 0 /\ \A d \in Callers : ~(Key(d) = k /\ calls[d].job)
    BY <2>1 DEF Verify
  <2>4. /\ r \in Calls /\ r.key = k /\ r.stage \in {"expire", "lookup"} /\ r.job = job
        /\ r.seen = intent[k]
    BY <1>0, IdleFacts DEF Idle, Calls, Stages, Methods, BookingStatuses
  <2> HIDE DEF r
  <2> QED BY <2>2, <2>3, <2>4, BeginFacts
<1>4. CASE \E by \in {"cancel", "admin"}, to \in BookingStatuses \ {"NONE"} :
             RequestStatus(c, k, to, by)
  <2>1. PICK by \in {"cancel", "admin"}, to \in BookingStatuses \ {"NONE"} :
               RequestStatus(c, k, to, by)
    BY <1>4
  <2> DEFINE r == [Idle EXCEPT !.key = k, !.stage = by, !.from = booking[k].status, !.to = to]
  <2>2. /\ r \in Calls /\ r.key = k /\ r.stage = by /\ r.job = FALSE
        /\ r.seen.confirmed = FALSE /\ r.to = to
    BY <1>0, IdleFacts DEF Idle, Calls, Stages, Methods, BookingStatuses, NoIntent, Bookings
  <2>3. Begin(c, r) /\ UNCHANGED <<money, outer, booking, intent, jobs>> /\ Booked(k)
    BY <2>1 DEF RequestStatus, Booked
  <2> HIDE DEF r
  <2> QED BY <2>2, <2>3, BeginFacts
<1> QED BY <1>1, <1>2, <1>3, <1>4 DEF Request, CheckoutRequest, BookingStatuses

\* The steps nobody's handler takes, and the crash of one.
LEMMA OutsideStepTyped ==
    ASSUME TypeInv,
           \/ \E k \in Keys : \/ GatewayPays(k) \/ WebhookArrives(k)
                              \/ IntentLapses(k) \/ PriceChanges(k)
           \/ SpendsElsewhere
           \/ \E c \in Callers : Crash(c)
           \/ UNCHANGED vars
    PROVE  TypeInv'
<1>1. ASSUME NEW k \in Keys, GatewayPays(k) PROVE TypeInv'
  BY <1>1 DEF GatewayPays, TypeInv, TypeOK, JobsHeld, Key, money
<1>2. ASSUME NEW k \in Keys, WebhookArrives(k) PROVE TypeInv'
  <2>1. jobs' \in [Keys -> Nat] /\ deliveries' \in [Keys -> Nat]
    BY <1>2, BoundAssumption DEF WebhookArrives, TypeInv, TypeOK
  <2>2. \A j \in Keys : jobs[j] > 0 => jobs'[j] > 0
    BY <1>2, BoundAssumption DEF WebhookArrives, TypeInv, TypeOK
  <2>3. JobsHeld'
    BY <1>2, <2>2 DEF WebhookArrives, TypeInv, TypeOK, JobsHeld, Key
  <2> QED BY <1>2, <2>1, <2>3 DEF WebhookArrives, TypeInv, TypeOK, money
<1>3. ASSUME NEW k \in Keys, IntentLapses(k) PROVE TypeInv'
  BY <1>3 DEF IntentLapses, Mishap, TypeInv, TypeOK, JobsHeld, Key, money
<1>4. ASSUME NEW k \in Keys, PriceChanges(k) PROVE TypeInv'
  BY <1>4, PriceAssumption DEF PriceChanges, Mishap, TypeInv, TypeOK, JobsHeld, Key, money
<1>5. CASE SpendsElsewhere
  BY <1>5 DEF SpendsElsewhere, Mishap, TypeInv, TypeOK, JobsHeld, Key
<1>6. ASSUME NEW c \in Callers, Crash(c) PROVE TypeInv'
  <2>1. /\ calls' \in [Callers -> Calls] /\ calls'[c] = Idle /\ jobs' = jobs
        /\ \A d \in Callers \ {c} : calls'[d] = calls[d]
    BY <1>6, IdleFacts DEF Crash, TypeInv, TypeOK
  <2>2. \A d \in Callers : calls'[d].job => d # c /\ calls'[d] = calls[d]
    BY <2>1, IdleFacts
  <2>3. JobsHeld'
    BY <2>1, <2>2 DEF TypeInv, JobsHeld, Key
  <2>4. \A d \in Callers : calls'[d].stage # "idle" => calls'[d].key \in Keys
    BY <2>1, IdleFacts DEF TypeInv, TypeOK
  <2>5. troubles' \in Nat
    BY <1>6 DEF Crash, Mishap, TypeInv, TypeOK
  <2> QED BY <1>6, <2>1, <2>3, <2>4, <2>5 DEF Crash, TypeInv, TypeOK, money
<1>7. CASE UNCHANGED vars
  BY <1>7 DEF vars, outer, money, TypeInv, TypeOK, JobsHeld, Key
<1> QED BY <1>1, <1>2, <1>3, <1>4, <1>5, <1>6, <1>7

\* Every step keeps the types.
LEMMA StepTyped == TypeInv /\ [Next]_vars => TypeInv'
<1> SUFFICES ASSUME TypeInv, [Next]_vars PROVE TypeInv'
  OBVIOUS
<1>1. ASSUME NEW c \in Callers, CallStep(c) PROVE TypeInv'
  BY <1>1, BookingStepTyped, VerifyStepTyped, FulfilStepTyped, CancelStepTyped DEF CallStep
<1>2. ASSUME NEW c \in Callers, DatabaseFails(c) PROVE TypeInv'
  BY <1>2, FulfilStepTyped
<1>3. ASSUME NEW c \in Callers, NEW k \in Keys, Request(c, k) \/ Verify(c, k, TRUE)
      PROVE  TypeInv'
  BY <1>3, RequestFacts DEF TypeInv, TypeOK, CallsOK, money, outer
<1>4. CASE \/ \E k \in Keys : \/ GatewayPays(k) \/ WebhookArrives(k)
                              \/ IntentLapses(k) \/ PriceChanges(k)
           \/ SpendsElsewhere
           \/ \E c \in Callers : Crash(c)
           \/ UNCHANGED vars
  BY <1>4, OutsideStepTyped
<1> QED BY <1>1, <1>2, <1>3, <1>4 DEF Next

LEMMA AlwaysTyped == Spec => []TypeInv
BY InitTyped, StepTyped, PTL DEF Spec

\* Every row, handler, job and balance keeps its type: no step takes more out of the
\* wallet than it holds, and no job is tried more often than it has attempts.
THEOREM TypeCorrect == Spec => []TypeOK
<1>1. TypeInv => TypeOK
  BY DEF TypeInv
<1> QED BY <1>1, AlwaysTyped, PTL

-----------------------------------------------------------------------------
(* Every booking is paid in full, and back at most once.                   *)

\* One booking's accounts: what was taken for it and returned.
Accounts(k) ==
    /\ ~Booked(k) => /\ booking[k].method = "NONE" /\ booking[k].total = 0
                     /\ taken[k] = 0
    /\ intent[k].confirmed => gateway[k] = "paid"
    /\ booking[k].method = "WALLET" => taken[k] = booking[k].total
    /\ booking[k].method = "MONNIFY" =>
         /\ gateway[k] = "paid" /\ intent[k].status # "NONE"
         /\ taken[k] + intent[k].due = booking[k].total
    /\ booking[k].method \notin {"WALLET", "MONNIFY"} => taken[k] = 0
    /\ returned[k] \in {0, booking[k].total}

\* What a handler has read and checked, and still holds when it writes.
SplitAgreed(c) ==
    LET call == calls[c]  k == call.key IN
    call.stage # "idle" =>
      /\ call.seen.confirmed => gateway[k] = "paid"
      /\ call.stage = "create" => call.method \in {"WALLET", "CASH"}
      /\ call.stage \in {"cancel", "admin"} => Booked(k) /\ call.to # "NONE"
      /\ call.stage = "confirm" => gateway[k] = "paid"
      /\ call.stage \in {"context", "fulfil"} => call.seen.confirmed
      /\ call.stage \in {"fulfil", "record"} => gateway[k] = "paid"
      /\ call.stage = "fulfil" => call.total = call.seen.share + call.seen.due
      /\ call.stage \notin {"create", "intent", "cancel", "admin"} =>
           /\ intent[k].status # "NONE"
           /\ call.seen.share = intent[k].share /\ call.seen.due = intent[k].due

MoneyInv ==
    /\ \A k \in Keys : Accounts(k)
    /\ \A c \in Callers : SplitAgreed(c)

\* What no step undoes: a payment received, an intent's split, a booking.
Kept ==
    \A k \in Keys :
        /\ gateway[k] = "paid" => gateway'[k] = "paid"
        /\ intent[k].status # "NONE" =>
             /\ intent'[k].status # "NONE"
             /\ intent'[k].share = intent[k].share /\ intent'[k].due = intent[k].due
        /\ Booked(k) => booking'[k].status # "NONE"

\* A step that moves no money and books nothing leaves the accounts right.
LEMMA AccountsKept ==
    ASSUME TypeInv, MoneyInv, Kept, UNCHANGED <<booking, taken, returned>>,
           \A k \in Keys : intent'[k].confirmed => gateway'[k] = "paid"
    PROVE  \A k \in Keys : Accounts(k)'
BY DEF MoneyInv, Accounts, Kept, Booked

\* The handlers a step does not move keep what they hold.
LEMMA SplitsKept ==
    ASSUME TypeInv, MoneyInv, Kept, NEW c \in Callers, SplitAgreed(c)',
           \A d \in Callers \ {c} : calls'[d] = calls[d]
    PROVE  \A d \in Callers : SplitAgreed(d)'
<1> SUFFICES ASSUME NEW d \in Callers \ {c} PROVE SplitAgreed(d)'
  OBVIOUS
<1>1. SplitAgreed(d) /\ calls'[d] = calls[d]
  BY DEF MoneyInv
<1>2. calls[d].stage # "idle" => calls[d].key \in Keys
  BY DEF TypeInv, TypeOK
<1> QED BY <1>1, <1>2 DEF SplitAgreed, Kept, Booked

\* A handler that is done holds nothing.
LEMMA DoneAgrees ==
    ASSUME TypeInv, NEW c \in Callers, calls'[c] = Idle
    PROVE  SplitAgreed(c)'
BY IdleFacts DEF SplitAgreed

\* With nothing begun all accounts are empty.
LEMMA InitMoney == Init => MoneyInv
<1> SUFFICES ASSUME Init PROVE MoneyInv
  OBVIOUS
<1>1. \A k \in Keys : booking[k] = NoBooking /\ intent[k] = NoIntent
  BY DEF Init
<1>2. \A k \in Keys : Accounts(k)
  BY <1>1 DEF Init, Accounts, Booked, NoBooking, NoIntent
<1>3. \A c \in Callers : SplitAgreed(c)
  BY IdleFacts DEF Init, SplitAgreed
<1> QED BY <1>2, <1>3 DEF MoneyInv

\* A booking made without an intent is paid out of the wallet, or not yet.
LEMMA CreateKeepsMoney ==
    ASSUME TypeInv, TypeInv', MoneyInv, NEW c \in Callers, CreateCommit(c)
    PROVE  MoneyInv'
<1> PICK k \in Keys : k = Key(c)
  BY DEF CreateCommit, At, Key, TypeInv, TypeOK
<1>0. ~At(c, "idle") /\ calls[c] \in Calls /\ SplitAgreed(c)
  BY DEF CreateCommit, At, Key, TypeInv, TypeOK, MoneyInv
<1>1. calls'[c] = Idle /\ \A d \in Callers \ {c} : calls'[d] = calls[d]
  BY <1>0, DoneFacts DEF CreateCommit
<1>2. intent' = intent /\ gateway' = gateway /\ returned' = returned
  BY DEF CreateCommit, outer
<1>3. CASE UNCHANGED <<booking, balance, taken>>
  <2>1. Kept
    BY <1>2, <1>3 DEF Kept, Booked
  <2>2. \A j \in Keys : Accounts(j)'
    BY <1>2, <1>3, <2>1, AccountsKept DEF MoneyInv, Accounts
  <2> QED BY <1>1, <2>1, <2>2, SplitsKept, DoneAgrees DEF MoneyInv
<1>4. CASE ~UNCHANGED <<booking, balance, taken>>
  <2> DEFINE paid == IF calls[c].method = "WALLET" THEN calls[c].total ELSE 0
  <2>1. PICK s \in {"CONFIRMED", "PENDING_ASSIGNMENT", "PENDING"} :
          booking' = [booking EXCEPT ![k] = [status |-> s, method |-> calls[c].method,
                                             total |-> calls[c].total]]
    BY <1>4 DEF CreateCommit
  <2>2. /\ booking'[k] = [status |-> s, method |-> calls[c].method, total |-> calls[c].total]
        /\ \A j \in Keys \ {k} : booking'[j] = booking[j]
    BY <1>0, <2>1 DEF TypeInv, TypeOK
  <2>3. calls[c].total \in Nat /\ calls[c].method \in {"WALLET", "CASH"} /\ ~Booked(k)
    BY <1>0, <1>4 DEF CreateCommit, Calls, SplitAgreed, At, Key
  <2>4. taken[k] = 0 /\ returned[k] = 0 /\ taken \in [Keys -> Nat]
    BY <1>0, <2>3 DEF MoneyInv, Accounts, TypeInv, TypeOK
  <2>5. taken'[k] = paid /\ \A j \in Keys \ {k} : taken'[j] = taken[j]
    BY <1>0, <1>4, <2>3, <2>4 DEF CreateCommit
  <2>6. Kept
    BY <1>2, <2>2 DEF Kept, Booked
  <2>7. \A j \in Keys \ {k} : Accounts(j)'
    BY <1>2, <2>2, <2>5 DEF MoneyInv, Accounts, Booked
  <2>8. Accounts(k)'
    BY <1>0, <1>2, <2>2, <2>3, <2>4, <2>5 DEF MoneyInv, Accounts, Booked
  <2> QED BY <1>1, <2>6, <2>7, <2>8, SplitsKept, DoneAgrees DEF MoneyInv
<1> QED BY <1>3, <1>4

\* A cancellation changes no price and pays back the price or nothing.
LEMMA CancelKeepsMoney ==
    ASSUME TypeInv, TypeInv', MoneyInv, NEW c \in Callers, CancelCommit(c) \/ AdminCommit(c)
    PROVE  MoneyInv'
<1> DEFINE k == Key(c)
<1>0. /\ ~At(c, "idle") /\ k \in Keys /\ calls[c] \in Calls /\ SplitAgreed(c)
      /\ At(c, "cancel") \/ At(c, "admin")
  BY DEF CancelCommit, AdminCommit, At, Key, TypeInv, TypeOK, MoneyInv
<1>1. calls'[c] = Idle /\ \A d \in Callers \ {c} : calls'[d] = calls[d]
  BY <1>0, DoneFacts DEF CancelCommit, AdminCommit
<1>2. intent' = intent /\ gateway' = gateway /\ taken' = taken
  BY DEF CancelCommit, AdminCommit, outer
<1>3. PICK to \in BookingStatuses \ {"NONE"}, refund \in BOOLEAN : Settle(c, to, refund)
  <2>1. CASE CancelCommit(c)
    <3>1. Settle(c, "CANCELLED", booking[k].method = "WALLET")
      BY <2>1 DEF CancelCommit
    <3>2. "CANCELLED" \in BookingStatuses \ {"NONE"} /\ (booking[k].method = "WALLET") \in BOOLEAN
      BY DEF BookingStatuses
    <3> QED BY <3>1, <3>2
  <2>2. CASE AdminCommit(c)
    <3> DEFINE back == calls[c].to = "CANCELLED" /\ calls[c].from \in {"CONFIRMED", "PENDING"}
    <3>1. Settle(c, calls[c].to, back) /\ At(c, "admin")
      BY <2>2 DEF AdminCommit
    <3>2. calls[c].to \in BookingStatuses
      BY <1>0 DEF Calls
    <3>3. calls[c].to # "NONE"
      BY <1>0, <3>1 DEF SplitAgreed, At
    <3>4. back \in BOOLEAN
      OBVIOUS
    <3> HIDE DEF back
    <3> QED BY <3>1, <3>2, <3>3, <3>4
  <2> QED BY <2>1, <2>2
<1>4. Booked(k)
  BY <1>0 DEF SplitAgreed, At, Key
<1>5. \A j \in Keys : /\ booking'[j].method = booking[j].method
                      /\ booking'[j].total = booking[j].total
                      /\ Booked(j) <=> booking'[j].status # "NONE"
                      /\ returned'[j] \in {returned[j], booking[j].total}
  BY <1>0, <1>3, <1>4, SettleFacts DEF Booked
<1>6. Kept
  BY <1>2, <1>5 DEF Kept, Booked
<1>7. \A j \in Keys : Accounts(j)'
  BY <1>2, <1>5 DEF MoneyInv, Accounts, Booked
<1> QED BY <1>1, <1>6, <1>7, SplitsKept, DoneAgrees DEF MoneyInv

\* The intent is inserted unconfirmed, and only where there was none.
LEMMA InitializeKeepsMoney ==
    ASSUME TypeInv, TypeInv', MoneyInv, NEW c \in Callers, InitializeWrite(c)
    PROVE  MoneyInv'
<1> PICK k \in Keys : k = Key(c)
  BY DEF InitializeWrite, At, Key, TypeInv, TypeOK
<1>0. ~At(c, "idle") /\ SplitAgreed(c)
  BY DEF InitializeWrite, At, MoneyInv
<1>1. calls'[c] = Idle /\ \A d \in Callers \ {c} : calls'[d] = calls[d]
  BY <1>0, DoneFacts DEF InitializeWrite
<1>2. UNCHANGED <<booking, taken, returned>> /\ gateway' = gateway
  BY DEF InitializeWrite, money, outer
<1>3. intent' = intent \/ (intent[k].status = "NONE" /\ intent' = [intent EXCEPT ![k] = calls[c].seen])
  BY DEF InitializeWrite
<1>4. calls[c].seen.confirmed => gateway[k] = "paid"
  BY <1>0 DEF SplitAgreed, At, Key
<1>5. Kept /\ \A j \in Keys : intent'[j].confirmed => gateway'[j] = "paid"
  BY <1>2, <1>3, <1>4 DEF Kept, Booked, MoneyInv, Accounts, TypeInv, TypeOK
<1> QED BY <1>1, <1>2, <1>5, AccountsKept, SplitsKept, DoneAgrees DEF MoneyInv

\* Up to its transaction, a verify call moves no money; it confirms only what the
\* gateway has received and goes on to fulfil only the split that was agreed.
LEMMA VerifyKeepsMoney ==
    ASSUME TypeInv, TypeInv', MoneyInv, NEW c \in Callers,
           \/ ExpireIntent(c) \/ LookUp(c) \/ AskGateway(c) \/ MarkNotPaid(c)
           \/ ConfirmGatewayPayment(c) \/ CheckContext(c) \/ RecordFailure(c)
           \/ FulfilledBefore(c) \/ FulfilRefused(c) \/ DatabaseFails(c)
    PROVE  MoneyInv'
<1> PICK k \in Keys : k = Key(c)
  BY DEF ExpireIntent, LookUp, AskGateway, MarkNotPaid, ConfirmGatewayPayment, CheckContext,
         RecordFailure, FulfilledBefore, FulfilRefused, DatabaseFails, At, Key, TypeInv, TypeOK
<1>0. /\ calls[c].stage \in {"expire", "lookup", "gateway", "notPaid", "confirm", "context",
                             "fulfil", "record"}
      /\ calls[c] \in Calls /\ SplitAgreed(c)
      /\ UNCHANGED <<booking, taken, returned>> /\ gateway' = gateway
  BY DEF ExpireIntent, LookUp, AskGateway, MarkNotPaid, ConfirmGatewayPayment, CheckContext,
         RecordFailure, FulfilledBefore, FulfilRefused, DatabaseFails, At, MoneyInv, TypeInv,
         TypeOK, money, outer
<1>1. /\ intent[k].status # "NONE" /\ intent[k] \in Intents
      /\ calls[c].seen.share = intent[k].share /\ calls[c].seen.due = intent[k].due
      /\ calls[c].seen.confirmed => gateway[k] = "paid"
      /\ calls[c].stage \in {"confirm", "fulfil", "record"} => gateway[k] = "paid"
      /\ ~At(c, "idle")
  BY <1>0 DEF SplitAgreed, Key, At, TypeInv, TypeOK
\* It is enough that the step keeps the splits and leaves the handler agreed.
<1>2. ASSUME Kept, SplitAgreed(c)', intent'[k].confirmed => gateway[k] = "paid",
             \A j \in Keys \ {k} : intent'[j] = intent[j],
             \A d \in Callers \ {c} : calls'[d] = calls[d]
      PROVE  MoneyInv'
  <2>1. \A j \in Keys : intent'[j].confirmed => gateway'[j] = "paid"
    BY <1>0, <1>2 DEF MoneyInv, Accounts
  <2> QED BY <1>0, <1>2, <2>1, AccountsKept, SplitsKept DEF MoneyInv
<1>3. ASSUME intent' = intent, SplitAgreed(c)', \A d \in Callers \ {c} : calls'[d] = calls[d]
      PROVE  MoneyInv'
  BY <1>0, <1>2, <1>3 DEF Kept, Booked, MoneyInv, Accounts
<1>4. ASSUME NEW s \in IntentStatuses \ {"NONE"}, NEW f \in BOOLEAN, Overwrite(c, s, f),
             f => gateway[k] = "paid", SplitAgreed(c)',
             \A d \in Callers \ {c} : calls'[d] = calls[d]
      PROVE  MoneyInv'
  <2>1. /\ intent'[k].status # "NONE" /\ intent'[k].confirmed = f
        /\ intent'[k].share = intent[k].share /\ intent'[k].due = intent[k].due
        /\ \A j \in Keys \ {k} : intent'[j] = intent[j]
    BY <1>1, <1>4, OverwriteFacts
  <2>2. Kept
    BY <1>0, <2>1 DEF Kept, Booked
  <2> QED BY <1>2, <1>4, <2>1, <2>2
<1>5. CASE ExpireIntent(c)
  <2>1. /\ calls'[c].stage = "lookup" /\ calls'[c].key = k /\ calls'[c].seen = calls[c].seen
        /\ \A d \in Callers \ {c} : calls'[d] = calls[d]
    BY <1>1, <1>5, GotoFacts DEF ExpireIntent, Stages, Key
  <2>2. /\ intent'[k].status # "NONE"
        /\ intent'[k].share = intent[k].share /\ intent'[k].due = intent[k].due
    BY <1>1, <1>5, OverwriteFacts DEF ExpireIntent, IntentStatuses
  <2>3. SplitAgreed(c)'
    BY <1>0, <1>1, <2>1, <2>2 DEF SplitAgreed
  <2> QED BY <1>4, <1>5, <2>1, <2>3 DEF ExpireIntent, IntentStatuses
<1>6. CASE LookUp(c)
  <2>1. CASE Return(c)
    BY <1>1, <1>3, <1>6, <2>1, DoneFacts, DoneAgrees DEF LookUp
  <2>2. CASE Goto(c, IF calls[c].seen.confirmed THEN "context" ELSE "gateway") /\ UNCHANGED jobs
    <3>1. /\ calls'[c].stage = IF calls[c].seen.confirmed THEN "context" ELSE "gateway"
          /\ calls'[c].key = k /\ calls'[c].seen = calls[c].seen
          /\ \A d \in Callers \ {c} : calls'[d] = calls[d]
      BY <1>1, <2>2, GotoFacts DEF Stages, Key
    <3>2. intent' = intent
      BY <1>6 DEF LookUp
    <3>3. SplitAgreed(c)'
      BY <1>0, <1>1, <3>1, <3>2 DEF SplitAgreed
    <3> QED BY <1>3, <3>1, <3>2, <3>3
  <2> QED BY <1>6, <2>1, <2>2 DEF LookUp
<1>7. CASE AskGateway(c)
  <2>0. intent' = intent
    BY <1>7 DEF AskGateway
  <2>1. CASE Throw(c)
    BY <1>1, <1>3, <2>0, <2>1, DoneFacts, DoneAgrees
  <2>2. CASE ~Throw(c)
    <3>1. PICK s \in {"confirm", "notPaid"} :
            Goto(c, s) /\ jobs' = jobs /\ (s = "confirm" => gateway[k] = "paid")
      BY <1>7, <2>2 DEF AskGateway
    <3>2. /\ calls'[c].stage = s /\ calls'[c].key = k /\ calls'[c].seen = calls[c].seen
          /\ \A d \in Callers \ {c} : calls'[d] = calls[d]
      BY <1>1, <3>1, GotoFacts DEF Stages, Key
    <3>3. SplitAgreed(c)'
      BY <1>0, <1>1, <2>0, <3>1, <3>2 DEF SplitAgreed
    <3> QED BY <1>3, <2>0, <3>2, <3>3
  <2> QED BY <2>1, <2>2
<1>8. CASE MarkNotPaid(c)
  BY <1>1, <1>4, <1>8, DoneFacts, DoneAgrees DEF MarkNotPaid, IntentStatuses
<1>9. CASE ConfirmGatewayPayment(c)
  <2>1. At(c, "confirm") /\ gateway[k] = "paid"
    BY <1>1, <1>9 DEF ConfirmGatewayPayment, At
  <2>2. /\ intent'[k].status = intent[k].status
        /\ intent'[k].share = intent[k].share /\ intent'[k].due = intent[k].due
        /\ \A j \in Keys \ {k} : intent'[j] = intent[j]
    BY <1>1, <1>9 DEF ConfirmGatewayPayment, TypeInv, TypeOK, Intents
  <2> DEFINE r == [calls[c] EXCEPT !.stage = "context", !.seen.confirmed = TRUE]
  <2>3. /\ r.stage = "context" /\ r.key = k /\ r.seen.confirmed = TRUE
        /\ r.seen.share = calls[c].seen.share /\ r.seen.due = calls[c].seen.due
    BY <1>0 DEF Calls, Intents, Key
  <2>4. calls' = [calls EXCEPT ![c] = r]
    BY <1>9 DEF ConfirmGatewayPayment
  <2> HIDE DEF r
  <2>5. calls'[c] = r /\ \A d \in Callers \ {c} : calls'[d] = calls[d]
    BY <2>4 DEF TypeInv, TypeOK
  <2>6. SplitAgreed(c)'
    BY <1>0, <1>1, <2>1, <2>2, <2>3, <2>5 DEF SplitAgreed
  <2>7. Kept
    BY <1>0, <2>2 DEF Kept, Booked
  <2> QED BY <1>2, <2>1, <2>2, <2>5, <2>6, <2>7
<1>10. CASE CheckContext(c)
  <2>0. intent' = intent
    BY <1>10 DEF CheckContext
  <2>1. CASE Throw(c)
    BY <1>1, <1>3, <2>0, <2>1, DoneFacts, DoneAgrees
  <2>2. CASE ~Throw(c)
    <3> DEFINE r == [calls[c] EXCEPT !.stage = "fulfil", !.total = price[k]]
    <3>1. /\ r.stage = "fulfil" /\ r.key = k /\ r.seen = calls[c].seen /\ r.total = price[k]
      BY <1>0 DEF Calls, Key
    <3>2. /\ calls' = [calls EXCEPT ![c] = r]
          /\ price[k] = calls[c].seen.share + calls[c].seen.due
          /\ calls[c].seen.confirmed
      BY <1>0, <1>10, <2>2 DEF CheckContext, SplitAgreed, At
    <3> HIDE DEF r
    <3>3. calls'[c] = r /\ \A d \in Callers \ {c} : calls'[d] = calls[d]
      BY <3>2 DEF TypeInv, TypeOK
    <3>4. SplitAgreed(c)'
      BY <1>0, <1>1, <2>0, <3>1, <3>2, <3>3 DEF SplitAgreed
    <3> QED BY <1>3, <2>0, <3>3, <3>4
  <2> QED BY <2>1, <2>2
<1>11. CASE RecordFailure(c)
  <2>1. gateway[k] = "paid" /\ intent[k].status \in IntentStatuses \ {"NONE"}
    BY <1>1, <1>11 DEF RecordFailure, At, Intents
  <2> QED BY <1>1, <1>4, <1>11, <2>1, DoneFacts, DoneAgrees DEF RecordFailure
<1>12. CASE FulfilledBefore(c)
  BY <1>1, <1>3, <1>12, DoneFacts, DoneAgrees DEF FulfilledBefore
<1>13. CASE FulfilRefused(c) \/ DatabaseFails(c)
  <2>1. /\ Goto(c, "record") /\ jobs' = jobs /\ intent' = intent /\ At(c, "fulfil")
    BY <1>13 DEF FulfilRefused, DatabaseFails
  <2>2. /\ calls'[c].stage = "record" /\ calls'[c].key = k /\ calls'[c].seen = calls[c].seen
        /\ \A d \in Callers \ {c} : calls'[d] = calls[d]
    BY <1>1, <2>1, GotoFacts DEF Stages, Key
  <2>3. SplitAgreed(c)'
    BY <1>0, <1>1, <2>1, <2>2 DEF SplitAgreed, At
  <2> QED BY <1>3, <2>1, <2>2, <2>3
<1> QED BY <1>5, <1>6, <1>7, <1>8, <1>9, <1>10, <1>11, <1>12, <1>13

\* The transaction takes the wallet's share for a booking that costs share and due, once
\* the gateway has what was due.
LEMMA FulfilKeepsMoney ==
    ASSUME TypeInv, TypeInv', MoneyInv, NEW c \in Callers, Fulfil(c)
    PROVE  MoneyInv'
<1> PICK k \in Keys : k = Key(c)
  BY DEF Fulfil, At, Key, TypeInv, TypeOK
<1> DEFINE it == intent[k]
           total == calls[c].total
<1>0. ~At(c, "idle") /\ At(c, "fulfil") /\ SplitAgreed(c) /\ it \in Intents
  BY DEF Fulfil, At, MoneyInv, TypeInv, TypeOK
<1>1. calls'[c] = Idle /\ \A d \in Callers \ {c} : calls'[d] = calls[d]
  BY <1>0, DoneFacts DEF Fulfil
<1>2. gateway' = gateway /\ returned' = returned /\ ~Booked(k)
  BY DEF Fulfil, outer
<1>3. gateway[k] = "paid" /\ total = it.share + it.due
  BY <1>0 DEF SplitAgreed, At, Key
<1>4. it.share \in Nat /\ it.due \in Nat /\ taken[k] = 0 /\ returned[k] = 0
  BY <1>0, <1>2 DEF Intents, MoneyInv, Accounts, TypeInv, TypeOK
<1>5. taken'[k] = it.share /\ \A j \in Keys \ {k} : taken'[j] = taken[j]
  BY <1>4 DEF Fulfil, TypeInv, TypeOK
<1>6. PICK s \in {"CONFIRMED", "PENDING_ASSIGNMENT"} :
        booking' = [booking EXCEPT ![k] = [status |-> s, method |-> "MONNIFY", total |-> total]]
  BY DEF Fulfil
<1>7. /\ booking'[k] = [status |-> s, method |-> "MONNIFY", total |-> total]
      /\ \A j \in Keys \ {k} : booking'[j] = booking[j]
  BY <1>6 DEF TypeInv, TypeOK
<1>8. /\ intent'[k].status = "COMPLETED" /\ intent'[k].confirmed = it.confirmed
      /\ intent'[k].share = it.share /\ intent'[k].due = it.due
      /\ \A j \in Keys \ {k} : intent'[j] = intent[j]
  BY <1>0 DEF Fulfil, TypeInv, TypeOK, Intents
<1>9. Kept
  BY <1>2, <1>7, <1>8 DEF Kept, Booked
<1>10. \A j \in Keys \ {k} : Accounts(j)'
  BY <1>2, <1>5, <1>7, <1>8 DEF MoneyInv, Accounts, Booked
<1>11. Accounts(k)'
  BY <1>2, <1>3, <1>4, <1>5, <1>7, <1>8 DEF Accounts, Booked
<1> QED BY <1>1, <1>9, <1>10, <1>11, SplitsKept, DoneAgrees DEF MoneyInv

\* A new handler holds what it was given, and moves nothing.
LEMMA RequestKeepsMoney ==
    ASSUME TypeInv, TypeInv', MoneyInv, NEW c \in Callers, NEW k \in Keys,
           Request(c, k) \/ Verify(c, k, TRUE)
    PROVE  MoneyInv'
<1>1. UNCHANGED <<booking, taken, returned>> /\ intent' = intent /\ gateway' = gateway
  BY RequestFacts DEF money, outer
<1>2. Kept /\ \A j \in Keys : intent'[j].confirmed => gateway'[j] = "paid"
  BY <1>1 DEF Kept, Booked, MoneyInv, Accounts
<1>3. SplitAgreed(c)'
  <2>1. intent[k].confirmed => gateway[k] = "paid"
    BY DEF MoneyInv, Accounts
  <2>2. calls'[c].key = k
    BY RequestFacts
  <2>3. CASE calls'[c].stage \in {"expire", "lookup"}
    <3>1. calls'[c].seen = intent[k] /\ intent[k].status # "NONE"
      BY <2>3, RequestFacts
    <3> QED BY <1>1, <2>1, <2>2, <2>3, <3>1 DEF SplitAgreed
  <2>4. CASE calls'[c].stage \notin {"expire", "lookup"}
    <3>1. /\ calls'[c].stage \in {"create", "intent", "cancel", "admin"}
          /\ calls'[c].stage = "create" => calls'[c].method \in {"WALLET", "CASH"}
          /\ calls'[c].stage \in {"cancel", "admin"} => Booked(k) /\ calls'[c].to # "NONE"
          /\ ~calls'[c].seen.confirmed
      BY <2>4, RequestFacts
    <3> QED BY <1>1, <2>2, <3>1 DEF SplitAgreed, Booked
  <2> QED BY <2>3, <2>4
<1> QED BY <1>1, <1>2, <1>3, RequestFacts, AccountsKept, SplitsKept DEF MoneyInv

\* Payments, deliveries, prices and crashes leave the accounts alone.
LEMMA OutsideKeepsMoney ==
    ASSUME TypeInv, TypeInv', MoneyInv,
           \/ \E k \in Keys : \/ GatewayPays(k) \/ WebhookArrives(k)
                              \/ IntentLapses(k) \/ PriceChanges(k)
           \/ SpendsElsewhere
           \/ \E c \in Callers : Crash(c)
           \/ UNCHANGED vars
    PROVE  MoneyInv'
<1>1. UNCHANGED <<booking, taken, returned>> /\ intent' = intent
  BY DEF GatewayPays, WebhookArrives, IntentLapses, PriceChanges, SpendsElsewhere, Crash, vars,
         money
<1>2. \A k \in Keys : gateway[k] = "paid" => gateway'[k] = "paid"
  BY DEF GatewayPays, WebhookArrives, IntentLapses, PriceChanges, SpendsElsewhere, Crash, vars,
         outer, TypeInv, TypeOK
<1>3. \A d \in Callers : calls'[d] = calls[d] \/ calls'[d] = Idle
  BY DEF GatewayPays, WebhookArrives, IntentLapses, PriceChanges, SpendsElsewhere, Crash, vars,
         TypeInv, TypeOK
<1>4. Kept /\ \A j \in Keys : intent'[j].confirmed => gateway'[j] = "paid"
  BY <1>1, <1>2 DEF Kept, Booked, MoneyInv, Accounts
<1>5. \A d \in Callers : SplitAgreed(d)'
  <2> SUFFICES ASSUME NEW d \in Callers PROVE SplitAgreed(d)'
    OBVIOUS
  <2>1. CASE calls'[d] = Idle
    BY <2>1, DoneAgrees
  <2>2. CASE calls'[d] = calls[d]
    <3>1. SplitAgreed(d) /\ (calls[d].stage # "idle" => calls[d].key \in Keys)
      BY DEF MoneyInv, TypeInv, TypeOK
    <3> QED BY <1>4, <2>2, <3>1 DEF SplitAgreed, Kept, Booked
  <2> QED BY <1>3, <2>1, <2>2
<1> QED BY <1>1, <1>4, <1>5, AccountsKept DEF MoneyInv

\* Every step keeps the accounts.
LEMMA StepMoney == TypeInv /\ TypeInv' /\ MoneyInv /\ [Next]_vars => MoneyInv'
<1> SUFFICES ASSUME TypeInv, TypeInv', MoneyInv, [Next]_vars PROVE MoneyInv'
  OBVIOUS
<1>1. ASSUME NEW c \in Callers, CallStep(c) \/ DatabaseFails(c) PROVE MoneyInv'
  BY <1>1, CreateKeepsMoney, InitializeKeepsMoney, VerifyKeepsMoney, FulfilKeepsMoney,
     CancelKeepsMoney DEF CallStep
<1>2. ASSUME NEW c \in Callers, NEW k \in Keys, Request(c, k) \/ Verify(c, k, TRUE)
      PROVE  MoneyInv'
  BY <1>2, RequestKeepsMoney
<1>3. CASE \/ \E k \in Keys : \/ GatewayPays(k) \/ WebhookArrives(k)
                              \/ IntentLapses(k) \/ PriceChanges(k)
           \/ SpendsElsewhere
           \/ \E c \in Callers : Crash(c)
           \/ UNCHANGED vars
  BY <1>3, OutsideKeepsMoney
<1> QED BY <1>1, <1>2, <1>3 DEF Next

LEMMA AlwaysMoney == Spec => []MoneyInv
BY InitTyped, StepTyped, InitMoney, StepMoney, PTL DEF Spec

\* Every booking is paid for as it costs: by the wallet, or by wallet and gateway as they
\* were split, whatever requests, webhooks, price changes, crashes and failures overlap.
THEOREM BookingsPaidInFull == Spec => []PaidInFull
<1>1. MoneyInv => PaidInFull
  BY DEF MoneyInv, Accounts, PaidInFull
<1> QED BY <1>1, AlwaysMoney, PTL

\* A booking is paid back its price at most once, whoever cancels it, how often and when.
THEOREM BookingsRefundedOnce == Spec => []RefundedOnce
<1>1. MoneyInv => RefundedOnce
  BY DEF MoneyInv, Accounts, RefundedOnce
<1> QED BY <1>1, AlwaysMoney, PTL

=============================================================================
