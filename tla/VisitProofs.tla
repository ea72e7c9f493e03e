----------------------------- MODULE VisitProofs -----------------------------
(***************************************************************************)
(* Proofs about Visit, for every set of visits, beauticians and handlers,  *)
(* all amounts and every bound: its variables keep their types, what is    *)
(* paid was done, and its wallets are a Ledger.                            *)
(*                                                                         *)
(* What a handler checked may be old when it pays: EarnedInv carries what  *)
(* it saw, that the visit was done, along with it, and rests on a row's    *)
(* never forgetting that it was.                                           *)
(***************************************************************************)
EXTENDS Visit, TLAPS

Finalizing == {"finalize", "credit", "post", "release", "online"}

\* The finalize job is worked on by one handler, and has an attempt left until it ends.
JobsHeld ==
    /\ \A c \in Callers : calls[c].job =>
          /\ calls[c].stage \in Finalizing
          /\ job[calls[c].booking] = "active"
          /\ \A d \in Callers :
                calls[d].job /\ calls[d].booking = calls[c].booking => d = c
    /\ \A b \in Bookings : job[b] \in {"delayed", "due", "active"} => left[b] > 0

TypeInv == TypeOK /\ JobsHeld

\* The part of TypeInv that is about handlers and the queue.
CallsOK ==
    /\ calls \in [Callers -> Calls]
    /\ \A c \in Callers : calls[c].stage # "idle" => calls[c].booking \in Bookings
    /\ job \in [Bookings -> JobStates] /\ left \in [Bookings -> 0..Attempts]
    /\ JobsHeld

OthersStay(c) == \A d \in Callers \ {c} : calls'[d] = calls[d]

-----------------------------------------------------------------------------
(* What the helpers of the model do to the handlers and the queue.         *)

\* Nobody's handler is a handler, at no stage and not the queue's.
LEMMA IdleFacts ==
    Idle \in Calls /\ Idle.stage = "idle" /\ Idle.job = FALSE /\ Idle.pin = 0
BY DEF Idle, Calls, Stages, Statuses, Active

\* A handler that goes on keeps its visit and its job.
LEMMA GotoFacts ==
    ASSUME TypeInv, NEW c \in Callers, NEW s \in Stages \ {"idle"}, ~At(c, "idle"),
           calls[c].job => s \in Finalizing, Goto(c, s), UNCHANGED timer
    PROVE  /\ CallsOK' /\ OthersStay(c)
           /\ calls'[c].stage = s /\ calls'[c].booking = calls[c].booking
<1>1. calls' \in [Callers -> Calls] /\ OthersStay(c)
  BY DEF TypeInv, TypeOK, OthersStay, Goto, Calls
<1>2. calls'[c].stage = s /\ \A d \in Callers : /\ calls'[d].booking = calls[d].booking
                                                /\ calls'[d].job = calls[d].job
  BY DEF TypeInv, TypeOK, Goto, Calls
<1>3. JobsHeld'
  BY <1>1, <1>2 DEF TypeInv, JobsHeld, OthersStay, timer, Finalizing
<1>4. \A d \in Callers : calls'[d].stage # "idle" => calls'[d].booking \in Bookings
  BY <1>1, <1>2 DEF TypeInv, TypeOK, OthersStay, At
<1> QED BY <1>1, <1>2, <1>3, <1>4 DEF TypeInv, TypeOK, CallsOK, timer

\* A handler that ends leaves the others alone, and takes its job with it.
LEMMA ReturnFacts ==
    ASSUME TypeInv, NEW c \in Callers, Return(c)
    PROVE  CallsOK' /\ OthersStay(c) /\ calls'[c].stage = "idle"
<1>1. calls' \in [Callers -> Calls] /\ OthersStay(c) /\ calls'[c] = Idle
  BY IdleFacts DEF TypeInv, TypeOK, OthersStay, Return
<1>2. \A d \in Callers : calls'[d].job => d # c /\ calls'[d] = calls[d]
  BY <1>1, IdleFacts DEF OthersStay
<1>3. job' \in [Bookings -> JobStates]
  BY DEF TypeInv, TypeOK, Return, JobStates
<1>4. \A b \in Bookings : job'[b] = job[b] \/ (/\ job'[b] = "none" /\ calls[c].job
                                               /\ calls[c].booking = b)
  BY DEF TypeInv, TypeOK, Return, Booking
<1>5. JobsHeld'
  <2>1. ASSUME NEW d \in Callers, calls'[d].job
        PROVE  /\ calls'[d].stage \in Finalizing
               /\ job'[calls'[d].booking] = "active"
               /\ \A e \in Callers :
                     calls'[e].job /\ calls'[e].booking = calls'[d].booking => e = d
    <3>1. d # c /\ calls'[d] = calls[d] /\ calls[d].job
      BY <2>1, <1>2
    <3>2. calls[d].stage \in Finalizing /\ calls[d].booking \in Bookings
      BY <3>1, IdleFacts DEF TypeInv, TypeOK, JobsHeld, Finalizing
    <3>3. job'[calls[d].booking] = job[calls[d].booking]
      BY <3>1, <3>2, <1>4 DEF TypeInv, JobsHeld
    <3> QED BY <3>1, <3>2, <3>3, <1>2 DEF TypeInv, JobsHeld
  <2>2. \A b \in Bookings : job'[b] \in {"delayed", "due", "active"} => left'[b] > 0
    BY <1>4 DEF TypeInv, JobsHeld, Return
  <2> QED BY <2>1, <2>2 DEF JobsHeld
<1>6. \A d \in Callers : calls'[d].stage # "idle" => calls'[d].booking \in Bookings
  BY <1>1, IdleFacts DEF TypeInv, TypeOK, OthersStay
<1> QED BY <1>1, <1>3, <1>5, <1>6, IdleFacts DEF TypeInv, TypeOK, CallsOK, Return

\* A handler that throws leaves the others alone; its job is tried again or given up.
LEMMA ThrowFacts ==
    ASSUME TypeInv, NEW c \in Callers, Throw(c)
    PROVE  CallsOK' /\ OthersStay(c) /\ calls'[c].stage = "idle"
<1>1. calls' \in [Callers -> Calls] /\ OthersStay(c) /\ calls'[c] = Idle
  BY IdleFacts DEF TypeInv, TypeOK, OthersStay, Throw
<1>2. \A d \in Callers : calls'[d].job => d # c /\ calls'[d] = calls[d]
  BY <1>1, IdleFacts DEF OthersStay
<1>3. \A d \in Callers : calls'[d].stage # "idle" => calls'[d].booking \in Bookings
  BY <1>1, IdleFacts DEF TypeInv, TypeOK, OthersStay
<1>4. CASE ~calls[c].job
  <2>1. UNCHANGED timer
    BY <1>4 DEF Throw
  <2>2. JobsHeld'
    BY <2>1, <1>2 DEF TypeInv, JobsHeld, timer
  <2> QED BY <1>1, <1>3, <2>1, <2>2, IdleFacts DEF TypeInv, TypeOK, CallsOK, timer
<1>5. CASE calls[c].job
  <2> DEFINE b == calls[c].booking
  <2>1. b \in Bookings /\ job[b] = "active" /\ left[b] \in 1..Attempts
    BY <1>5 DEF TypeInv, TypeOK, JobsHeld, Finalizing
  <2>2. /\ left' = [left EXCEPT ![b] = @ - 1]
        /\ job' = [job EXCEPT ![b] = IF left[b] > 1 THEN "due" ELSE "failed"]
    BY <1>5 DEF Throw, Booking
  <2> HIDE DEF b
  <2>3. left' \in [Bookings -> 0..Attempts] /\ job' \in [Bookings -> JobStates]
    BY <2>1, <2>2, BoundAssumption DEF TypeInv, TypeOK, JobStates
  <2>4. \A a \in Bookings \ {b} : left'[a] = left[a] /\ job'[a] = job[a]
    BY <2>1, <2>2 DEF TypeInv, TypeOK
  <2>5. job'[b] \in {"delayed", "due", "active"} => left'[b] > 0
    BY <2>1, <2>2, BoundAssumption DEF TypeInv, TypeOK
  <2>6. ASSUME NEW d \in Callers, calls'[d].job
        PROVE  /\ calls'[d].stage \in Finalizing
               /\ job'[calls'[d].booking] = "active"
               /\ \A e \in Callers :
                     calls'[e].job /\ calls'[e].booking = calls'[d].booking => e = d
    <3>1. d # c /\ calls'[d] = calls[d] /\ calls[d].job
      BY <2>6, <1>2
    <3>2. calls[d].stage \in Finalizing /\ calls[d].booking \in Bookings /\ calls[d].booking # b
      BY <3>1, <1>5 DEF TypeInv, TypeOK, JobsHeld, Finalizing, b
    <3> QED BY <3>1, <3>2, <2>4, <1>2 DEF TypeInv, JobsHeld
  <2>7. \A a \in Bookings : job'[a] \in {"delayed", "due", "active"} => left'[a] > 0
    BY <2>4, <2>5 DEF TypeInv, JobsHeld
  <2>8. JobsHeld'
    BY <2>6, <2>7 DEF JobsHeld
  <2> QED BY <1>1, <1>3, <2>3, <2>8, IdleFacts DEF CallsOK
<1> QED BY <1>4, <1>5

\* A new request works for a visit, and not for the queue.
LEMMA BeginFacts ==
    ASSUME TypeInv, NEW c \in Callers, NEW r \in Calls, r.booking \in Bookings, ~r.job,
           Begin(c, r), UNCHANGED timer
    PROVE  CallsOK' /\ OthersStay(c) /\ calls'[c] = r
<1>1. calls' \in [Callers -> Calls] /\ OthersStay(c) /\ calls'[c] = r
  BY DEF TypeInv, TypeOK, OthersStay, Begin
<1>2. \A d \in Callers : calls'[d].job => d # c /\ calls'[d] = calls[d]
  BY <1>1 DEF OthersStay
<1>3. JobsHeld'
  BY <1>2 DEF TypeInv, JobsHeld, timer
<1>4. \A d \in Callers : calls'[d].stage # "idle" => calls'[d].booking \in Bookings
  BY <1>1 DEF TypeInv, TypeOK, OthersStay
<1> QED BY <1>1, <1>3, <1>4 DEF TypeInv, TypeOK, CallsOK, timer

-----------------------------------------------------------------------------
(* Every variable keeps its type.                                          *)

\* Before anybody accepts every variable has its type.
LEMMA InitTyped == Init => TypeInv
<1> SUFFICES ASSUME Init PROVE TypeInv
  OBVIOUS
<1>1. TypeOK
  BY IdleFacts, BoundAssumption DEF Init, TypeOK, Statuses, Rows, NewRow, JobStates
<1>2. JobsHeld
  BY IdleFacts DEF Init, JobsHeld
<1> QED BY <1>1, <1>2 DEF TypeInv

\* A handler under way works for a visit of a beautician.
LEMMA WorkFacts ==
    ASSUME TypeInv, NEW c \in Callers, ~At(c, "idle")
    PROVE  /\ Booking(c) \in Bookings /\ Beautician(c) \in Beauticians
           /\ calls[c].to \in Statuses /\ calls[c].pin \in Nat
           /\ calls[c].noShow \in BOOLEAN
BY WorkAssumption DEF TypeInv, TypeOK, Booking, Beautician, At, Calls

\* The rows stay rows whichever of their columns is written.
LEMMA RowFacts ==
    ASSUME TypeInv, NEW b \in Bookings, NEW r \in Rows, row' = [row EXCEPT ![b] = r]
    PROVE  row' \in [Bookings -> Rows]
BY DEF TypeInv, TypeOK

\* The beautician's and the customer's steps up to the start of the work.
LEMMA ArrivalStepTyped ==
    ASSUME TypeInv, NEW c \in Callers,
           \/ WriteEnRoute(c) \/ StorePin(c) \/ WriteArrived(c) \/ WriteDone(c)
           \/ QueueFinalize(c) \/ CheckPin(c) \/ ConsumePin(c) \/ StartService(c)
    PROVE  TypeInv' /\ OthersStay(c)
<1>0. ~At(c, "idle")
  BY DEF WriteEnRoute, StorePin, WriteArrived, WriteDone, QueueFinalize, CheckPin, ConsumePin,
         StartService, At
<1>1. Booking(c) \in Bookings
  BY <1>0, WorkFacts
<1>2. calls[c].job => calls[c].stage \in Finalizing
  BY DEF TypeInv, JobsHeld
<1>3. CASE WriteEnRoute(c)
  <2>1. CallsOK' /\ OthersStay(c)
    BY <1>3, ReturnFacts DEF WriteEnRoute
  <2> QED BY <1>1, <1>3, <2>1
          DEF WriteEnRoute, SetStatus, arrival, wallets, people, TypeInv, TypeOK, CallsOK,
              Statuses, Active
<1>4. CASE StorePin(c)
  <2>1. CallsOK' /\ OthersStay(c)
    BY <1>0, <1>2, <1>4, GotoFacts DEF StorePin, Stages, At, Finalizing
  <2>2. pins' \in Nat /\ pin' \in [Bookings -> Nat]
    BY <1>1, <1>4 DEF StorePin, TypeInv, TypeOK
  <2> QED BY <1>4, <2>1, <2>2 DEF StorePin, timer, wallets, people, TypeInv, TypeOK, CallsOK
<1>5. CASE WriteArrived(c)
  <2>1. CallsOK' /\ OthersStay(c)
    BY <1>5, ReturnFacts DEF WriteArrived
  <2> QED BY <1>1, <1>5, <2>1
          DEF WriteArrived, SetStatus, arrival, wallets, people, TypeInv, TypeOK, CallsOK,
              Statuses, Active
<1>6. CASE WriteDone(c)
  <2>1. CallsOK' /\ OthersStay(c)
    BY <1>0, <1>2, <1>6, GotoFacts DEF WriteDone, Stages, At, Finalizing
  <2>2. row' \in [Bookings -> Rows]
    BY <1>1, <1>6 DEF WriteDone, TypeInv, TypeOK, Rows
  <2> QED BY <1>1, <1>6, <2>1, <2>2
          DEF WriteDone, SetStatus, arrival, timer, wallets, people, TypeInv, TypeOK, CallsOK,
              Statuses, Active
<1>7. CASE QueueFinalize(c)
  <2>1. calls' = [calls EXCEPT ![c] = Idle] /\ ~calls[c].job
    BY <1>2, <1>7 DEF QueueFinalize, At, Finalizing, TypeInv, TypeOK, Calls
  <2>2. calls' \in [Callers -> Calls] /\ calls'[c] = Idle /\ OthersStay(c)
    BY <2>1, IdleFacts DEF TypeInv, TypeOK, OthersStay
  <2>3. \A d \in Callers : calls'[d].job => d # c /\ calls'[d] = calls[d]
    BY <2>2, IdleFacts DEF OthersStay
  <2>4. /\ job' \in [Bookings -> JobStates] /\ left' \in [Bookings -> 0..Attempts]
        /\ \A b \in Bookings : \/ job'[b] = job[b] /\ left'[b] = left[b]
                               \/ job[b] = "none" /\ job'[b] = "delayed" /\ left'[b] > 0
    BY <1>1, <1>7, BoundAssumption DEF QueueFinalize, timer, TypeInv, TypeOK, JobStates
  <2>5. ASSUME NEW d \in Callers, calls'[d].job
        PROVE  job'[calls'[d].booking] = "active"
    <3>1. /\ calls'[d] = calls[d] /\ job[calls[d].booking] = "active"
          /\ calls[d].booking \in Bookings
      BY <2>3, <2>5 DEF TypeInv, TypeOK, JobsHeld, Finalizing
    <3> QED BY <2>4, <3>1
  <2>6. \A b \in Bookings : job'[b] \in {"delayed", "due", "active"} => left'[b] > 0
    BY <2>4 DEF TypeInv, JobsHeld
  <2>7. JobsHeld'
    BY <2>3, <2>5, <2>6 DEF TypeInv, JobsHeld
  <2>8. \A d \in Callers : calls'[d].stage # "idle" => calls'[d].booking \in Bookings
    BY <2>2, IdleFacts DEF TypeInv, TypeOK, OthersStay
  <2> QED BY <1>7, <2>2, <2>4, <2>7, <2>8
          DEF QueueFinalize, arrival, wallets, people, TypeInv, TypeOK
<1>8. CASE CheckPin(c)
  <2>1. CallsOK' /\ OthersStay(c)
    <3>1. CASE Throw(c)
      BY <3>1, ThrowFacts
    <3>2. CASE ~Throw(c)
      BY <1>0, <1>2, <1>8, <3>2, GotoFacts DEF CheckPin, Stages, At, Finalizing
    <3> QED BY <3>1, <3>2
  <2> QED BY <1>8, <2>1 DEF CheckPin, arrival, wallets, people, TypeInv, TypeOK, CallsOK
<1>begun. CASE ConsumePin(c)
  <2>1. CallsOK' /\ OthersStay(c)
    BY <1>0, <1>2, <1>begun, GotoFacts DEF ConsumePin, Stages, At, Finalizing
  <2> QED BY <1>1, <1>begun, <2>1 DEF ConsumePin, wallets, people, TypeInv, TypeOK, CallsOK
<1>10. CASE StartService(c)
  <2>1. CallsOK' /\ OthersStay(c)
    BY <1>10, ReturnFacts DEF StartService
  <2> QED BY <1>1, <1>10, <2>1
          DEF StartService, SetStatus, arrival, wallets, people, TypeInv, TypeOK, CallsOK,
              Statuses, Active
<1> QED BY <1>3, <1>4, <1>5, <1>6, <1>7, <1>8, <1>begun, <1>10

\* Confirmation, earnings and release.
LEMMA ConfirmStepTyped ==
    ASSUME TypeInv, NEW c \in Callers,
           \/ WriteConfirmed(c) \/ ApplyLateRating(c) \/ WriteFinalized(c)
           \/ CreditEarnings(c) \/ PostEarnings(c) \/ ReleaseIfIdle(c) \/ SetOnline(c)
    PROVE  TypeInv' /\ OthersStay(c)
<1>0. ~At(c, "idle")
  BY DEF WriteConfirmed, ApplyLateRating, WriteFinalized, CreditEarnings, PostEarnings,
         ReleaseIfIdle, SetOnline, At
<1>1. Booking(c) \in Bookings /\ Beautician(c) \in Beauticians
  BY <1>0, WorkFacts
<1>2. \A s \in {"credit", "post", "release", "online"} :
        Goto(c, s) /\ UNCHANGED timer => CallsOK' /\ OthersStay(c)
  BY <1>0, GotoFacts DEF Stages, Finalizing
<1>3. CASE WriteConfirmed(c)
  <2>1. CallsOK' /\ OthersStay(c)
    BY <1>2, <1>3 DEF WriteConfirmed
  <2>2. row' \in [Bookings -> Rows]
    BY <1>1, <1>3 DEF WriteConfirmed, TypeInv, TypeOK, Rows
  <2> QED BY <1>1, <1>3, <2>1, <2>2
          DEF WriteConfirmed, SetStatus, arrival, timer, wallets, people, TypeInv, TypeOK,
              CallsOK, Statuses
<1>4. CASE ApplyLateRating(c)
  <2>1. CallsOK' /\ OthersStay(c)
    BY <1>4, ReturnFacts DEF ApplyLateRating
  <2>2. row' \in [Bookings -> Rows]
    BY <1>1, <1>4 DEF ApplyLateRating, TypeInv, TypeOK, Rows
  <2> QED BY <1>4, <2>1, <2>2
          DEF ApplyLateRating, arrival, wallets, people, TypeInv, TypeOK, CallsOK
<1>5. CASE WriteFinalized(c)
  <2>1. CallsOK' /\ OthersStay(c)
    BY <1>2, <1>5 DEF WriteFinalized
  <2> QED BY <1>1, <1>5, <2>1
          DEF WriteFinalized, SetStatus, arrival, timer, wallets, people, TypeInv, TypeOK,
              CallsOK, Statuses
<1>6. CASE CreditEarnings(c)
  <2>1. CallsOK' /\ OthersStay(c)
    <3>1. CASE Return(c)
      BY <3>1, ReturnFacts
    <3>2. CASE ~Return(c)
      BY <1>2, <1>6, <3>2 DEF CreditEarnings
    <3> QED BY <3>1, <3>2
  <2> QED BY <1>6, <2>1 DEF CreditEarnings, arrival, wallets, people, TypeInv, TypeOK, CallsOK
<1>7. CASE PostEarnings(c)
  <2> DEFINE b == Booking(c)
  <2>1. CallsOK' /\ OthersStay(c)
    <3>1. CASE Throw(c)
      BY <3>1, ThrowFacts
    <3>2. CASE ~Throw(c)
      BY <1>2, <1>7, <3>2 DEF PostEarnings
    <3> QED BY <3>1, <3>2
  <2>2. account' \in [Beauticians -> Nat] /\ posted' \in SUBSET Bookings
    <3>1. CASE b \in posted
      BY <1>7, <3>1 DEF PostEarnings, wallets, TypeInv, TypeOK
    <3>2. CASE b \notin posted
      <4>1. /\ account' = [account EXCEPT ![Worker[b]] = @ + Amount[b]]
            /\ posted' = posted \cup {b}
        BY <1>7, <3>2 DEF PostEarnings
      <4>2. Amount[b] \in Nat /\ Worker[b] \in Beauticians
        BY <1>1, WorkAssumption
      <4> QED BY <1>1, <4>1, <4>2 DEF TypeInv, TypeOK
    <3> QED BY <3>1, <3>2
  <2> QED BY <1>7, <2>1, <2>2 DEF PostEarnings, arrival, people, TypeInv, TypeOK, CallsOK
<1>8. CASE ReleaseIfIdle(c)
  <2>1. CallsOK' /\ OthersStay(c)
    <3>1. CASE Return(c)
      BY <3>1, ReturnFacts
    <3>2. CASE ~Return(c)
      BY <1>2, <1>8, <3>2 DEF ReleaseIfIdle
    <3> QED BY <3>1, <3>2
  <2> QED BY <1>8, <2>1 DEF ReleaseIfIdle, arrival, wallets, people, TypeInv, TypeOK, CallsOK
<1>begun. CASE SetOnline(c)
  <2>1. CallsOK' /\ OthersStay(c)
    BY <1>begun, ReturnFacts DEF SetOnline
  <2> QED BY <1>1, <1>begun, <2>1 DEF SetOnline, arrival, wallets, TypeInv, TypeOK, CallsOK
<1> QED BY <1>3, <1>4, <1>5, <1>6, <1>7, <1>8, <1>begun

\* Cancellation, its penalty, and what admins and scans write.
LEMMA CancelStepTyped ==
    ASSUME TypeInv, NEW c \in Callers,
           \/ WriteCancelled(c) \/ RecordNoShow(c) \/ Suspend(c)
           \/ WriteStatusAdmin(c) \/ WriteUsed(c)
    PROVE  TypeInv' /\ OthersStay(c)
<1>0. ~At(c, "idle") /\ ~(calls[c].stage \in Finalizing)
  BY DEF WriteCancelled, RecordNoShow, Suspend, WriteStatusAdmin, WriteUsed, At, Finalizing
<1>1. /\ Booking(c) \in Bookings /\ Beautician(c) \in Beauticians
      /\ calls[c].to \in Statuses /\ calls[c].noShow \in BOOLEAN
  BY <1>0, WorkFacts
<1>2. \A s \in {"penalty", "suspend"} :
        Goto(c, s) /\ UNCHANGED timer => CallsOK' /\ OthersStay(c)
  BY <1>0, GotoFacts DEF Stages, TypeInv, JobsHeld
<1>3. CASE WriteCancelled(c)
  <2> DEFINE b == Booking(c)
  <2>1. CASE row[b].refunded
    <3>1. Throw(c) /\ UNCHANGED <<status, row>>
      BY <1>3, <2>1 DEF WriteCancelled
    <3>2. CallsOK' /\ OthersStay(c)
      BY <3>1, ThrowFacts
    <3> QED BY <1>3, <3>1, <3>2
            DEF WriteCancelled, arrival, wallets, people, TypeInv, TypeOK, CallsOK
  <2>2. CASE ~row[b].refunded
    <3>1. /\ SetStatus(c, "CANCELLED") /\ Goto(c, "penalty") /\ UNCHANGED timer
          /\ row' = [row EXCEPT ![b].refunded = TRUE, ![b].noShow = calls[c].noShow]
      BY <1>3, <2>2 DEF WriteCancelled
    <3>2. CallsOK' /\ OthersStay(c)
      BY <1>2, <3>1
    <3>3. row' \in [Bookings -> Rows]
      <4> DEFINE q == [row[b] EXCEPT !.refunded = TRUE]
                 r == [q EXCEPT !.noShow = calls[c].noShow]
      <4>0. q \in Rows
        <5>1. row[b] \in Rows
          BY <1>1 DEF TypeInv, TypeOK
        <5> QED BY <5>1 DEF Rows
      <4>2. row' = [row EXCEPT ![b] = r]
        BY <1>1, <3>1 DEF TypeInv, TypeOK
      <4> HIDE DEF q
      <4>1. r \in Rows
        BY <1>1, <4>0 DEF Rows
      <4> HIDE DEF r
      <4> QED BY <1>1, <4>1, <4>2, RowFacts
    <3> QED BY <1>1, <1>3, <3>1, <3>2, <3>3
            DEF WriteCancelled, SetStatus, arrival, wallets, people, TypeInv, TypeOK, CallsOK,
                Statuses
  <2> QED BY <2>1, <2>2
<1>4. CASE RecordNoShow(c)
  <2>1. CallsOK' /\ OthersStay(c)
    <3>1. CASE Return(c)
      BY <3>1, ReturnFacts
    <3>2. CASE ~Return(c)
      BY <1>2, <1>4, <3>2 DEF RecordNoShow
    <3> QED BY <3>1, <3>2
  <2>2. noShows' \in [Beauticians -> Nat]
    <3>1. \/ noShows' = noShows
          \/ noShows' = [noShows EXCEPT ![Beautician(c)] = @ + 1]
      BY <1>4 DEF RecordNoShow
    <3> QED BY <1>1, <3>1 DEF TypeInv, TypeOK
  <2> QED BY <1>4, <2>1, <2>2 DEF RecordNoShow, arrival, wallets, TypeInv, TypeOK, CallsOK
<1>5. CASE Suspend(c)
  <2>1. CallsOK' /\ OthersStay(c)
    BY <1>5, ReturnFacts DEF Suspend
  <2> QED BY <1>1, <1>5, <2>1 DEF Suspend, arrival, wallets, TypeInv, TypeOK, CallsOK
<1>6. CASE WriteStatusAdmin(c)
  <2>1. CallsOK' /\ OthersStay(c)
    <3>1. CASE Return(c)
      BY <3>1, ReturnFacts
    <3>2. CASE ~Return(c)
      BY <1>2, <1>6, <3>2 DEF WriteStatusAdmin
    <3> QED BY <3>1, <3>2
  <2>2. row' \in [Bookings -> Rows]
    BY <1>1, <1>6 DEF WriteStatusAdmin, TypeInv, TypeOK, Rows
  <2>3. status' \in [Bookings -> Statuses]
    BY <1>1, <1>6 DEF WriteStatusAdmin, SetStatus, TypeInv, TypeOK
  <2> QED BY <1>6, <2>1, <2>2, <2>3
          DEF WriteStatusAdmin, arrival, wallets, people, TypeInv, TypeOK, CallsOK
<1>7. CASE WriteUsed(c)
  <2>1. CallsOK' /\ OthersStay(c)
    BY <1>7, ReturnFacts DEF WriteUsed
  <2>2. row' \in [Bookings -> Rows]
    BY <1>1, <1>7 DEF WriteUsed, TypeInv, TypeOK, Rows
  <2> QED BY <1>1, <1>7, <2>1, <2>2
          DEF WriteUsed, SetStatus, arrival, wallets, people, TypeInv, TypeOK, CallsOK,
              Statuses, Active
<1> QED BY <1>3, <1>4, <1>5, <1>6, <1>7

\* A request that begins; what it works for is in its record.
LEMMA RequestFacts ==
    ASSUME TypeInv, NEW c \in Callers, NEW b \in Bookings, Request(c, b)
    PROVE  /\ TypeInv' /\ OthersStay(c) /\ UNCHANGED <<status, row, wallets>>
           /\ calls'[c].booking = b
           /\ calls'[c].stage \in {"en_route", "store", "done", "check", "confirm", "rate",
                                   "cancel", "admin", "scan"}
           /\ calls'[c].stage = "confirm" => status[b] = "AWAITING_CUSTOMER_CONFIRM"
<1>0. \A s \in Stages : /\ Call(b, s) \in Calls /\ Call(b, s).booking = b
                        /\ Call(b, s).stage = s /\ Call(b, s).job = FALSE
  BY IdleFacts DEF Call, Calls
<1>1. UNCHANGED <<status, row, arrival, timer, wallets, people>> /\ troubles' \in Nat
  <2>1. CASE MarkEnRoute(c, b) \/ MarkArrived(c, b) \/ CompleteService(c, b)
    BY <2>1 DEF MarkEnRoute, MarkArrived, CompleteService, TypeInv, TypeOK
  <2>2. CASE \E p \in 1..pins : VerifyArrival(c, b, p)
    <3>1. PICK p \in 1..pins : VerifyArrival(c, b, p)
      BY <2>2
    <3> QED BY <3>1 DEF VerifyArrival, TypeInv, TypeOK
  <2>3. CASE ConfirmCompletion(c, b)
    BY <2>3 DEF ConfirmCompletion, TypeInv, TypeOK
  <2>4. CASE \E noShow \in BOOLEAN : CancelBooking(c, b, noShow)
    <3>1. /\ UNCHANGED <<status, row, arrival, timer, wallets, people>>
          /\ troubles' = troubles + 1
      <4>1. PICK noShow \in BOOLEAN : CancelBooking(c, b, noShow)
        BY <2>4, Zenon
      <4> QED BY <4>1, Zenon DEF CancelBooking, Interference
    <3> QED BY <3>1 DEF TypeInv, TypeOK
  <2>5. CASE \E s \in Statuses : UpdateStatusAdmin(c, b, s)
    BY <2>5 DEF UpdateStatusAdmin, Interference, TypeInv, TypeOK
  <2>6. CASE UseReservation(c, b)
    BY <2>6 DEF UseReservation, Interference, TypeInv, TypeOK
  <2> QED BY <2>1, <2>2, <2>3, <2>4, <2>5, <2>6 DEF Request, JobRequest, CustomerRequest
<1>2. ASSUME NEW r \in Calls, r.booking = b, r.job = FALSE,
             r.stage \in {"en_route", "store", "done", "check", "confirm", "rate", "cancel",
                          "admin", "scan"},
             r.stage = "confirm" => status[b] = "AWAITING_CUSTOMER_CONFIRM",
             Begin(c, r)
      PROVE  /\ TypeInv' /\ OthersStay(c) /\ calls'[c].booking = b
             /\ calls'[c].stage = r.stage
             /\ calls'[c].stage = "confirm" => status[b] = "AWAITING_CUSTOMER_CONFIRM"
  <2>1. CallsOK' /\ OthersStay(c) /\ calls'[c] = r
    BY <1>1, <1>2, BeginFacts
  <2> QED BY <1>1, <1>2, <2>1 DEF arrival, wallets, people, TypeInv, TypeOK, CallsOK
<1>3. ASSUME NEW s \in {"en_route", "store", "done", "rate", "confirm", "scan"},
             Begin(c, Call(b, s)),
             s = "confirm" => status[b] = "AWAITING_CUSTOMER_CONFIRM"
      PROVE  /\ TypeInv' /\ OthersStay(c) /\ calls'[c].booking = b /\ calls'[c].stage = s
             /\ calls'[c].stage = "confirm" => status[b] = "AWAITING_CUSTOMER_CONFIRM"
  <2> DEFINE r == Call(b, s)
  <2>1. r \in Calls /\ r.booking = b /\ r.stage = s /\ r.job = FALSE
    BY <1>0 DEF Stages
  <2> HIDE DEF r
  <2> QED BY <1>2, <1>3, <2>1 DEF r
<1>4. CASE MarkEnRoute(c, b) \/ MarkArrived(c, b) \/ CompleteService(c, b)
           \/ UseReservation(c, b)
  BY <1>1, <1>3, <1>4 DEF MarkEnRoute, MarkArrived, CompleteService, UseReservation
<1>5. CASE ConfirmCompletion(c, b)
  <2>1. \/ status[b] = "AWAITING_CUSTOMER_CONFIRM" /\ Begin(c, Call(b, "confirm"))
        \/ Begin(c, Call(b, "rate"))
    BY <1>5 DEF ConfirmCompletion, CanTransition
  <2> QED BY <1>1, <1>3, <2>1
<1>6. CASE \E p \in 1..pins : VerifyArrival(c, b, p)
  <2>1. PICK p \in 1..pins : Begin(c, [Call(b, "check") EXCEPT !.pin = p])
    BY <1>6 DEF VerifyArrival
  <2> DEFINE r == [Call(b, "check") EXCEPT !.pin = p]
  <2>2. p \in Nat
    BY <2>1 DEF TypeInv, TypeOK
  <2>3. r \in Calls /\ r.booking = b /\ r.stage = "check" /\ r.job = FALSE
    BY <1>0, <2>2 DEF Stages, Calls
  <2> HIDE DEF r
  <2> QED BY <1>1, <1>2, <2>1, <2>3 DEF r
<1>7. CASE \E noShow \in BOOLEAN : CancelBooking(c, b, noShow)
  <2>1. PICK noShow \in BOOLEAN : Begin(c, [Call(b, "cancel") EXCEPT !.noShow = noShow])
    BY <1>7 DEF CancelBooking
  <2> DEFINE r == [Call(b, "cancel") EXCEPT !.noShow = noShow]
  <2>2. r \in Calls /\ r.booking = b /\ r.stage = "cancel" /\ r.job = FALSE
    BY <1>0 DEF Stages, Calls
  <2> HIDE DEF r
  <2> QED BY <1>1, <1>2, <2>1, <2>2 DEF r
<1>8. CASE \E s \in Statuses : UpdateStatusAdmin(c, b, s)
  <2>1. PICK s \in Statuses : Begin(c, [Call(b, "admin") EXCEPT !.to = s])
    BY <1>8 DEF UpdateStatusAdmin
  <2> DEFINE r == [Call(b, "admin") EXCEPT !.to = s]
  <2>2. r \in Calls /\ r.booking = b /\ r.stage = "admin" /\ r.job = FALSE
    BY <1>0 DEF Stages, Calls
  <2> HIDE DEF r
  <2> QED BY <1>1, <1>2, <2>1, <2>2 DEF r
<1> QED BY <1>4, <1>5, <1>6, <1>7, <1>8 DEF Request, JobRequest, CustomerRequest

\* The queue gives its job to a handler, or drops it.
LEMMA FinalizeFacts ==
    ASSUME TypeInv, NEW c \in Callers, NEW b \in Bookings, Finalize(c, b)
    PROVE  /\ TypeInv' /\ OthersStay(c) /\ UNCHANGED <<status, row, wallets>>
           /\ \/ calls' = calls
              \/ /\ calls'[c].booking = b /\ calls'[c].stage = "finalize"
                 /\ status[b] = "AWAITING_CUSTOMER_CONFIRM"
<1>1. /\ UNCHANGED <<status, row, arrival, left, wallets, people, troubles>>
      /\ At(c, "idle") /\ job[b] = "due"
  BY DEF Finalize
<1>2. CASE status[b] = "AWAITING_CUSTOMER_CONFIRM"
  <2> DEFINE r == [Call(b, "finalize") EXCEPT !.job = TRUE]
  <2>1. r \in Calls /\ r.booking = b /\ r.stage = "finalize" /\ r.job
    BY IdleFacts DEF Call, Calls, Stages
  <2>2. calls' = [calls EXCEPT ![c] = r] /\ job' = [job EXCEPT ![b] = "active"]
    BY <1>2 DEF Finalize, Begin
  <2> HIDE DEF r
  <2>3. calls' \in [Callers -> Calls] /\ OthersStay(c) /\ calls'[c] = r
    BY <2>1, <2>2 DEF TypeInv, TypeOK, OthersStay
  <2>4. job' \in [Bookings -> JobStates] /\ job'[b] = "active"
        /\ \A a \in Bookings \ {b} : job'[a] = job[a]
    BY <2>2 DEF TypeInv, TypeOK, JobStates
  <2>5. \A d \in Callers : calls[d].job => calls[d].booking \in Bookings \ {b}
    BY <1>1 DEF TypeInv, TypeOK, JobsHeld, Finalizing
  <2>6. ASSUME NEW d \in Callers, calls'[d].job
        PROVE  /\ calls'[d].stage \in Finalizing
               /\ job'[calls'[d].booking] = "active"
               /\ \A e \in Callers :
                     calls'[e].job /\ calls'[e].booking = calls'[d].booking => e = d
    <3>1. CASE d = c
      BY <2>1, <2>3, <2>4, <2>5, <3>1 DEF OthersStay, Finalizing
    <3>2. CASE d # c
      BY <2>1, <2>3, <2>4, <2>5, <2>6, <3>2 DEF OthersStay, TypeInv, JobsHeld
    <3> QED BY <3>1, <3>2
  <2>7. \A a \in Bookings : job'[a] \in {"delayed", "due", "active"} => left'[a] > 0
    BY <1>1, <2>4 DEF TypeInv, JobsHeld
  <2>8. JobsHeld'
    BY <2>6, <2>7 DEF JobsHeld
  <2>9. \A d \in Callers : calls'[d].stage # "idle" => calls'[d].booking \in Bookings
    BY <2>1, <2>3 DEF TypeInv, TypeOK, OthersStay
  <2> QED BY <1>1, <1>2, <2>1, <2>3, <2>4, <2>8, <2>9
          DEF TypeInv, TypeOK, arrival, wallets, people
<1>3. CASE status[b] # "AWAITING_CUSTOMER_CONFIRM"
  <2>1. calls' = calls /\ job' = [job EXCEPT ![b] = "none"]
    BY <1>3 DEF Finalize
  <2>2. \A d \in Callers : calls[d].job => calls[d].booking \in Bookings \ {b}
    BY <1>1 DEF TypeInv, TypeOK, JobsHeld, Finalizing
  <2>3. job' \in [Bookings -> JobStates] /\ job'[b] = "none"
        /\ \A a \in Bookings \ {b} : job'[a] = job[a]
    BY <2>1 DEF TypeInv, TypeOK, JobStates
  <2>4. JobsHeld'
    BY <1>1, <2>1, <2>2, <2>3 DEF TypeInv, JobsHeld
  <2> QED BY <1>1, <2>1, <2>3, <2>4 DEF TypeInv, TypeOK, arrival, wallets, people, OthersStay
<1> QED BY <1>2, <1>3

\* What happens by itself: an accept, a lapse, a day that passes, and failures.
LEMMA EventStepTyped ==
    ASSUME TypeInv,
           \/ \E b \in Bookings : Accept(b) \/ PinLapses(b) \/ FinalizeDue(b)
           \/ \E c \in Callers : QueueRefuses(c) \/ PostFails(c) \/ Crash(c)
    PROVE  TypeInv' /\ UNCHANGED wallets
<1>1. ASSUME NEW b \in Bookings, Accept(b) PROVE TypeInv' /\ UNCHANGED wallets
  <2>1. Worker[b] \in Beauticians
    BY WorkAssumption
  <2>2. row' \in [Bookings -> Rows]
    BY <1>1 DEF Accept, TypeInv, TypeOK, Rows
  <2>3. /\ status' \in [Bookings -> Statuses]
        /\ availability' \in [Beauticians -> {"ONLINE", "ON_JOB", "OFFLINE"}]
    BY <1>1, <2>1 DEF Accept, TypeInv, TypeOK, Statuses, Active
  <2> QED BY <1>1, <2>2, <2>3 DEF Accept, arrival, timer, wallets, TypeInv, TypeOK, JobsHeld
<1>2. ASSUME NEW b \in Bookings, PinLapses(b) PROVE TypeInv' /\ UNCHANGED wallets
  BY <1>2 DEF PinLapses, Mishap, timer, wallets, people, TypeInv, TypeOK, JobsHeld
<1>3. ASSUME NEW b \in Bookings, FinalizeDue(b) PROVE TypeInv' /\ UNCHANGED wallets
  <2>1. /\ job' \in [Bookings -> JobStates] /\ job[b] = "delayed" /\ job'[b] = "due"
        /\ \A a \in Bookings \ {b} : job'[a] = job[a]
    BY <1>3 DEF FinalizeDue, TypeInv, TypeOK, JobStates
  <2>2. JobsHeld'
    <3>1. calls' = calls /\ left' = left
      BY <1>3 DEF FinalizeDue
    <3>2. \A d \in Callers : calls[d].job => calls[d].booking \in Bookings \ {b}
      BY <2>1 DEF TypeInv, TypeOK, JobsHeld, Finalizing
    <3> QED BY <2>1, <3>1, <3>2 DEF TypeInv, JobsHeld
  <2> QED BY <1>3, <2>1, <2>2 DEF FinalizeDue, arrival, wallets, people, TypeInv, TypeOK
<1>4. ASSUME NEW c \in Callers, QueueRefuses(c) \/ PostFails(c)
      PROVE TypeInv' /\ UNCHANGED wallets
  <2>1. /\ Throw(c) /\ troubles' \in Nat
        /\ UNCHANGED <<status, row, arrival, wallets, people>>
    BY <1>4 DEF QueueRefuses, PostFails, Mishap, TypeInv, TypeOK
  <2>2. CallsOK'
    BY <2>1, ThrowFacts
  <2> QED BY <2>1, <2>2 DEF arrival, wallets, people, TypeInv, TypeOK, CallsOK
<1>5. ASSUME NEW c \in Callers, Crash(c) PROVE TypeInv' /\ UNCHANGED wallets
  <2>1. /\ calls' = [calls EXCEPT ![c] = Idle]
        /\ job' = IF calls[c].job THEN [job EXCEPT ![calls[c].booking] = "due"] ELSE job
        /\ UNCHANGED <<status, row, arrival, left, wallets, people>> /\ troubles' \in Nat
    BY <1>5 DEF Crash, Mishap, Booking, TypeInv, TypeOK
  <2>2. calls' \in [Callers -> Calls] /\ OthersStay(c) /\ calls'[c] = Idle
    BY <2>1, IdleFacts DEF TypeInv, TypeOK, OthersStay
  <2>3. \A d \in Callers : calls'[d].job => d # c /\ calls'[d] = calls[d]
    BY <2>2, IdleFacts DEF OthersStay
  <2>4. /\ job' \in [Bookings -> JobStates]
        /\ \A b \in Bookings : \/ job'[b] = job[b]
                               \/ /\ job'[b] = "due" /\ job[b] = "active" /\ calls[c].job
                                  /\ calls[c].booking = b
    BY <2>1 DEF TypeInv, TypeOK, JobsHeld, JobStates
  <2>5. ASSUME NEW d \in Callers, calls'[d].job
        PROVE  job'[calls'[d].booking] = "active"
    <3>1. d # c /\ calls'[d] = calls[d] /\ calls[d].job /\ calls[d].booking \in Bookings
      BY <2>3, <2>5 DEF TypeInv, TypeOK, JobsHeld, Finalizing
    <3> QED BY <2>4, <3>1 DEF TypeInv, JobsHeld
  <2>6. JobsHeld'
    BY <2>1, <2>3, <2>4, <2>5 DEF TypeInv, JobsHeld
  <2>7. \A d \in Callers : calls'[d].stage # "idle" => calls'[d].booking \in Bookings
    BY <2>2, IdleFacts DEF TypeInv, TypeOK, OthersStay
  <2> QED BY <2>1, <2>2, <2>4, <2>6, <2>7 DEF arrival, wallets, people, TypeInv, TypeOK
<1> QED BY <1>1, <1>2, <1>3, <1>4, <1>5

\* The types survive every step, and only a posting touches the wallets.
LEMMA NextTyped == TypeInv /\ [Next]_vars => TypeInv'
<1> SUFFICES ASSUME TypeInv, [Next]_vars PROVE TypeInv'
  OBVIOUS
<1>1. CASE UNCHANGED vars
  BY <1>1 DEF vars, arrival, timer, wallets, people, TypeInv, TypeOK, JobsHeld
<1>2. ASSUME NEW c \in Callers, NEW b \in Bookings, Request(c, b) \/ Finalize(c, b)
      PROVE  TypeInv'
  BY <1>2, RequestFacts, FinalizeFacts
<1>3. ASSUME NEW c \in Callers, Handler(c) PROVE TypeInv'
  BY <1>3, ArrivalStepTyped, ConfirmStepTyped, CancelStepTyped DEF Handler
<1> QED BY <1>1, <1>2, <1>3, EventStepTyped DEF Next

\* Every variable of a visit keeps its type, whoever acts on it (Visit's whole next-state
\* relation, home-service-booking and arrival-verification).
THEOREM TypeCorrect == Spec => []TypeOK
<1>1. Spec => []TypeInv
  BY InitTyped, NextTyped, PTL DEF Spec
<1>2. TypeInv => TypeOK
  BY DEF TypeInv
<1> QED BY <1>1, <1>2, PTL

-----------------------------------------------------------------------------
(* The wallets are a Ledger.                                               *)

\* A step of Visit posts one visit's earnings, or leaves the wallets alone.
LEMMA StepOfLedger ==
    TypeInv /\ [Next]_vars => [LedgerOfEarnings!Next]_(LedgerOfEarnings!ledger)
<1> SUFFICES ASSUME TypeInv, [Next]_vars
             PROVE  LedgerOfEarnings!Next \/ UNCHANGED LedgerOfEarnings!ledger
  OBVIOUS
<1>1. CASE UNCHANGED vars
  BY <1>1 DEF vars, wallets, LedgerOfEarnings!ledger
<1>2. ASSUME NEW c \in Callers, NEW b \in Bookings, Request(c, b) \/ Finalize(c, b)
      PROVE  UNCHANGED LedgerOfEarnings!ledger
  BY <1>2, RequestFacts, FinalizeFacts DEF wallets, LedgerOfEarnings!ledger
<1>3. ASSUME NEW c \in Callers, PostEarnings(c)
      PROVE  LedgerOfEarnings!Next \/ UNCHANGED LedgerOfEarnings!ledger
  <2> DEFINE b == Booking(c)
  <2>1. b \in Bookings
    BY <1>3, WorkFacts DEF PostEarnings, At
  <2>2. CASE b \in posted
    BY <1>3, <2>2 DEF PostEarnings, wallets, LedgerOfEarnings!ledger
  <2>3. CASE b \notin posted
    <3>1. LedgerOfEarnings!Post(b)
      BY <1>3, <2>3 DEF PostEarnings, LedgerOfEarnings!Post
    <3> QED BY <2>1, <3>1 DEF LedgerOfEarnings!Next
  <2> QED BY <2>2, <2>3
<1>4. ASSUME NEW c \in Callers, Handler(c), ~PostEarnings(c)
      PROVE  UNCHANGED LedgerOfEarnings!ledger
  <2>1. UNCHANGED wallets
    BY <1>4
       DEF Handler, WriteEnRoute, StorePin, WriteArrived, WriteDone, QueueFinalize, CheckPin,
           ConsumePin, StartService, WriteConfirmed, ApplyLateRating, WriteFinalized,
           CreditEarnings, ReleaseIfIdle, SetOnline, WriteCancelled, RecordNoShow, Suspend,
           WriteStatusAdmin, WriteUsed
  <2> QED BY <2>1 DEF wallets, LedgerOfEarnings!ledger
<1>5. CASE \/ \E b \in Bookings : Accept(b) \/ PinLapses(b) \/ FinalizeDue(b)
           \/ \E c \in Callers : QueueRefuses(c) \/ PostFails(c) \/ Crash(c)
  BY <1>5, EventStepTyped DEF wallets, LedgerOfEarnings!ledger
<1> QED BY <1>1, <1>2, <1>3, <1>4, <1>5 DEF Next

\* Visit implements Ledger: earnings reach a wallet together with their ledger row, once a
\* visit, whoever confirms it, how often its job is retried and whatever crashes
\* (CreditServiceEarningsService.creditForCompletedBooking).
THEOREM VisitImplementsLedger == Spec => EarningsPostedOnce
<1>1. Init => LedgerOfEarnings!Init
  BY DEF Init, LedgerOfEarnings!Init
<1>2. Spec => []TypeInv
  BY InitTyped, NextTyped, PTL DEF Spec
<1> QED BY <1>1, <1>2, StepOfLedger, PTL DEF Spec, EarningsPostedOnce, LedgerOfEarnings!Spec

-----------------------------------------------------------------------------
(* Only what was done is paid.                                             *)

Done(b) == row[b].done \/ row[b].byAdmin

\* Handlers that have seen the visit done, or have made it so.
SawDone == {"confirm", "finalize", "credit", "post"}

EarnedInv ==
    /\ \A b \in Bookings : status[b] \in {"AWAITING_CUSTOMER_CONFIRM", "COMPLETED"} => Done(b)
    /\ \A c \in Callers : calls[c].stage \in SawDone => Done(calls[c].booking)
    /\ EarnedWasDone

\* A row never forgets that its visit was done.
DoneStays == \A b \in Bookings : Done(b) => Done(b)'

\* What a step must show of the handler that takes it.
LEMMA CallerStep ==
    ASSUME TypeInv, EarnedInv, NEW c \in Callers, OthersStay(c), DoneStays, posted' = posted,
           TypeInv',
           calls'[c].stage \in SawDone => Done(calls[c].booking)',
           \A b \in Bookings :
              status'[b] \in {"AWAITING_CUSTOMER_CONFIRM", "COMPLETED"} => Done(b)'
    PROVE  EarnedInv'
<1>1. \A d \in Callers : calls'[d].stage \in SawDone => Done(calls[d].booking)'
  <2> SUFFICES ASSUME NEW d \in Callers, calls'[d].stage \in SawDone
               PROVE  Done(calls[d].booking)'
    OBVIOUS
  <2>1. CASE d = c
    BY <2>1
  <2>2. CASE d # c
    <3>1. calls'[d] = calls[d] /\ calls[d].booking \in Bookings
      BY <2>2 DEF OthersStay, TypeInv, TypeOK, SawDone
    <3>2. Done(calls[d].booking)
      BY <2>2, <3>1 DEF EarnedInv
    <3> QED BY <3>1, <3>2 DEF DoneStays, Done
  <2> QED BY <2>1, <2>2
<1>2. EarnedWasDone'
  BY DEF EarnedInv, EarnedWasDone, DoneStays, Done, TypeInv, TypeOK
<1> QED BY <1>1, <1>2 DEF EarnedInv

\* Where a handler is after its step: it has ended, or it has moved on.
LEMMA StageFacts ==
    ASSUME TypeInv, NEW c \in Callers
    PROVE  /\ Return(c) \/ Throw(c) => calls'[c].stage = "idle"
           /\ \A s \in Stages : Goto(c, s) => /\ calls'[c].stage = s
                                              /\ calls'[c].booking = calls[c].booking
<1>1. \A s \in Stages : Goto(c, s) => /\ calls'[c].stage = s
                                      /\ calls'[c].booking = calls[c].booking
  BY DEF TypeInv, TypeOK, Goto, Calls
<1> QED BY <1>1, ReturnFacts, ThrowFacts

\* Columns other than done and byAdmin say nothing of what was done.
LEMMA RowKeepsDone ==
    ASSUME TypeInv, NEW b \in Bookings, NEW r,
           row' = [row EXCEPT ![b] = r], Done(b) => r.done \/ r.byAdmin
    PROVE  DoneStays
BY DEF TypeInv, TypeOK, DoneStays, Done

\* The steps of a handler that write no status, or one that claims nothing.
LEMMA PlainStepEarned ==
    ASSUME TypeInv, EarnedInv, TypeInv', NEW c \in Callers, OthersStay(c),
           \/ WriteEnRoute(c) \/ StorePin(c) \/ WriteArrived(c) \/ QueueFinalize(c)
           \/ CheckPin(c) \/ ConsumePin(c) \/ StartService(c) \/ ReleaseIfIdle(c)
           \/ SetOnline(c) \/ RecordNoShow(c) \/ Suspend(c)
    PROVE  EarnedInv'
<1>1. row' = row /\ posted' = posted
  BY DEF WriteEnRoute, StorePin, WriteArrived, QueueFinalize, CheckPin, ConsumePin,
         StartService, ReleaseIfIdle, SetOnline, RecordNoShow, Suspend, wallets
<1>2. calls'[c].stage \notin SawDone
  <2>1. \/ Return(c) \/ Throw(c) \/ calls' = [calls EXCEPT ![c] = Idle]
        \/ \E s \in {"arrived", "consume", "start", "online", "suspend"} : Goto(c, s)
    BY DEF WriteEnRoute, StorePin, WriteArrived, QueueFinalize, CheckPin, ConsumePin,
           StartService, ReleaseIfIdle, SetOnline, RecordNoShow, Suspend
  <2> QED BY <2>1, StageFacts, IdleFacts DEF SawDone, Stages, TypeInv, TypeOK
<1>3. \A b \in Bookings : status'[b] \in {"AWAITING_CUSTOMER_CONFIRM", "COMPLETED"} =>
                             status'[b] = status[b]
  <2>1. \/ status' = status
        \/ \E s \in {"EN_ROUTE", "ARRIVED", "IN_PROGRESS"} :
              status' = [status EXCEPT ![Booking(c)] = s]
    BY DEF WriteEnRoute, StorePin, WriteArrived, QueueFinalize, CheckPin, ConsumePin,
           StartService, ReleaseIfIdle, SetOnline, RecordNoShow, Suspend, SetStatus
  <2> QED BY <2>1 DEF TypeInv, TypeOK
<1>4. DoneStays /\ \A b \in Bookings : Done(b)' = Done(b)
  BY <1>1 DEF DoneStays, Done
<1> QED BY <1>1, <1>2, <1>3, <1>4, CallerStep DEF EarnedInv

\* The steps of a handler that complete a visit or pay for it.
LEMMA CompletingStepEarned ==
    ASSUME TypeInv, EarnedInv, TypeInv', NEW c \in Callers, OthersStay(c),
           \/ WriteDone(c) \/ WriteConfirmed(c) \/ ApplyLateRating(c) \/ WriteFinalized(c)
           \/ CreditEarnings(c) \/ PostEarnings(c)
    PROVE  EarnedInv'
<1>0. PICK b \in Bookings : b = calls[c].booking /\ b = Booking(c)
  <2>1. ~At(c, "idle")
    BY DEF WriteDone, WriteConfirmed, ApplyLateRating, WriteFinalized, CreditEarnings,
           PostEarnings, At
  <2> QED BY <2>1, WorkFacts DEF Booking
<1>1. row[b] \in Rows
  BY <1>0 DEF TypeInv, TypeOK
<1>2. CASE WriteDone(c)
  <2>1. /\ row' = [row EXCEPT ![b].done = TRUE]
        /\ status' = [status EXCEPT ![b] = "AWAITING_CUSTOMER_CONFIRM"]
        /\ posted' = posted /\ calls'[c].stage = "queue"
    BY <1>0, <1>2, StageFacts DEF WriteDone, SetStatus, Booking, wallets, Stages
  <2>2. DoneStays /\ Done(b)'
    BY <1>0, <1>1, <2>1 DEF DoneStays, Done, TypeInv, TypeOK, Rows
  <2>3. \A a \in Bookings :
           status'[a] \in {"AWAITING_CUSTOMER_CONFIRM", "COMPLETED"} => Done(a)'
    BY <1>0, <2>1, <2>2 DEF EarnedInv, DoneStays, TypeInv, TypeOK
  <2> QED BY <2>1, <2>2, <2>3, CallerStep DEF SawDone
<1>3. CASE WriteConfirmed(c)
  <2>1. /\ row' = [row EXCEPT ![b].rated = TRUE]
        /\ status' = [status EXCEPT ![b] = "COMPLETED"]
        /\ posted' = posted /\ Done(b)
    BY <1>0, <1>3 DEF WriteConfirmed, SetStatus, Booking, wallets, EarnedInv, SawDone, At
  <2>2. DoneStays
    BY <1>0, <1>1, <2>1 DEF DoneStays, Done, TypeInv, TypeOK, Rows
  <2>3. \A a \in Bookings :
           status'[a] \in {"AWAITING_CUSTOMER_CONFIRM", "COMPLETED"} => Done(a)'
    BY <1>0, <2>1, <2>2 DEF EarnedInv, DoneStays, TypeInv, TypeOK
  <2>4. calls'[c].booking = b
    BY <1>0, <1>3, StageFacts DEF WriteConfirmed, Stages
  <2>5. Done(calls[c].booking)'
    BY <1>0, <2>1, <2>2, <2>4 DEF DoneStays, Done
  <2> QED BY <2>1, <2>2, <2>3, <2>5, CallerStep
<1>4. CASE ApplyLateRating(c)
  <2>1. /\ row' = [row EXCEPT ![b].rated = TRUE]
        /\ status' = status /\ posted' = posted /\ calls'[c].stage = "idle"
    BY <1>0, <1>4, StageFacts DEF ApplyLateRating, Booking, wallets
  <2>2. DoneStays
    BY <1>0, <1>1, <2>1 DEF DoneStays, Done, TypeInv, TypeOK, Rows
  <2>3. \A a \in Bookings :
           status'[a] \in {"AWAITING_CUSTOMER_CONFIRM", "COMPLETED"} => Done(a)'
    BY <2>1, <2>2 DEF EarnedInv, DoneStays
  <2> QED BY <2>1, <2>2, <2>3, CallerStep DEF SawDone
<1>5. CASE WriteFinalized(c)
  <2>1. /\ row' = row /\ posted' = posted /\ Done(b)
        /\ status' = [status EXCEPT ![b] = "COMPLETED"]
    BY <1>0, <1>5 DEF WriteFinalized, SetStatus, Booking, wallets, EarnedInv, SawDone, At
  <2>2. DoneStays /\ Done(b)'
    BY <2>1 DEF DoneStays, Done
  <2>3. \A a \in Bookings :
           status'[a] \in {"AWAITING_CUSTOMER_CONFIRM", "COMPLETED"} => Done(a)'
    BY <1>0, <2>1, <2>2 DEF EarnedInv, DoneStays, TypeInv, TypeOK
  <2>4. calls'[c].booking = b
    BY <1>0, <1>5, StageFacts DEF WriteFinalized, Stages
  <2>5. Done(calls[c].booking)'
    BY <2>2, <2>4 DEF Done
  <2> QED BY <2>1, <2>2, <2>3, <2>5, CallerStep
<1>6. CASE CreditEarnings(c)
  <2>1. row' = row /\ posted' = posted /\ status' = status /\ Done(b)
    BY <1>0, <1>6 DEF CreditEarnings, wallets, EarnedInv, SawDone, At
  <2>2. DoneStays /\ Done(b)'
    BY <2>1 DEF DoneStays, Done
  <2>3. \A a \in Bookings :
           status'[a] \in {"AWAITING_CUSTOMER_CONFIRM", "COMPLETED"} => Done(a)'
    BY <2>1, <2>2 DEF EarnedInv, DoneStays
  <2>4. calls'[c].stage \in SawDone => calls'[c].booking = b
    BY <1>0, <1>6, StageFacts DEF CreditEarnings, Stages, SawDone
  <2>5. calls'[c].stage \in SawDone => Done(calls[c].booking)'
    BY <2>2, <2>4 DEF Done
  <2> QED BY <2>1, <2>2, <2>3, <2>5, CallerStep
<1>7. CASE PostEarnings(c)
  <2>1. row' = row /\ status' = status /\ Done(b) /\ posted' \in {posted, posted \cup {b}}
    BY <1>0, <1>7 DEF PostEarnings, wallets, EarnedInv, SawDone, At, Booking
  <2>2. \A a \in Bookings : Done(a)' = Done(a)
    BY <2>1 DEF Done
  <2>3. \A d \in Callers : calls'[d].stage \in SawDone => Done(calls'[d].booking)
    <3>1. calls'[c].stage \notin SawDone
      BY <1>7, StageFacts DEF PostEarnings, SawDone, Stages
    <3> QED BY <3>1 DEF OthersStay, EarnedInv
  <2>4. \A d \in Callers : (calls[d].stage \in SawDone => Done(calls[d].booking))'
    BY <2>1, <2>3 DEF Done
  <2>5. EarnedWasDone'
    BY <2>1 DEF EarnedInv, EarnedWasDone, Done
  <2> QED BY <2>1, <2>2, <2>4, <2>5 DEF EarnedInv
<1> QED BY <1>2, <1>3, <1>4, <1>5, <1>6, <1>7

\* Cancellations and admins.
LEMMA CancelStepEarned ==
    ASSUME TypeInv, EarnedInv, TypeInv', NEW c \in Callers, OthersStay(c),
           WriteCancelled(c) \/ WriteStatusAdmin(c) \/ WriteUsed(c)
    PROVE  EarnedInv'
<1>0. PICK b \in Bookings : b = calls[c].booking /\ b = Booking(c)
  <2>1. ~At(c, "idle")
    BY DEF WriteCancelled, WriteStatusAdmin, WriteUsed, At
  <2> QED BY <2>1, WorkFacts DEF Booking
<1>1. row[b] \in Rows
  BY <1>0 DEF TypeInv, TypeOK
<1>2. posted' = posted /\ calls'[c].stage \notin SawDone
  <2>1. Return(c) \/ Throw(c) \/ Goto(c, "penalty")
    BY DEF WriteCancelled, WriteStatusAdmin, WriteUsed
  <2>2. calls'[c].stage \notin SawDone
    BY <2>1, StageFacts DEF SawDone, Stages
  <2> QED BY <2>2 DEF WriteCancelled, WriteStatusAdmin, WriteUsed, wallets
<1>3. CASE WriteCancelled(c)
  <2>1. DoneStays
    <3>1. CASE row' = row
      BY <3>1 DEF DoneStays, Done
    <3>2. CASE row' # row
      <4> DEFINE q == [row[b] EXCEPT !.refunded = TRUE]
                 r == [q EXCEPT !.noShow = calls[c].noShow]
      <4>1. r.done = row[b].done /\ r.byAdmin = row[b].byAdmin
        BY <1>1 DEF Rows
      <4>2. row' = [row EXCEPT ![b].refunded = TRUE, ![b].noShow = calls[c].noShow]
        BY <1>0, <1>3, <3>2 DEF WriteCancelled, Booking
      <4>3. row' = [row EXCEPT ![b] = r]
        BY <1>0, <4>2 DEF TypeInv, TypeOK
      <4> HIDE DEF q, r
      <4> QED BY <1>0, <4>1, <4>3, RowKeepsDone DEF Done
    <3> QED BY <3>1, <3>2
  <2>2. status' = status \/ status' = [status EXCEPT ![b] = "CANCELLED"]
    BY <1>0, <1>3 DEF WriteCancelled, SetStatus, Booking
  <2>3. \A a \in Bookings :
           status'[a] \in {"AWAITING_CUSTOMER_CONFIRM", "COMPLETED"} => Done(a)'
    BY <1>0, <2>1, <2>2 DEF EarnedInv, DoneStays, TypeInv, TypeOK
  <2> QED BY <1>2, <2>1, <2>3, CallerStep
<1>4. CASE WriteStatusAdmin(c)
  <2>1. /\ row' = [row EXCEPT ![b].byAdmin = TRUE]
        /\ status' = [status EXCEPT ![b] = calls[c].to]
    BY <1>0, <1>4 DEF WriteStatusAdmin, SetStatus, Booking
  <2>2. DoneStays /\ Done(b)'
    BY <1>0, <1>1, <2>1 DEF DoneStays, Done, TypeInv, TypeOK, Rows
  <2>3. \A a \in Bookings :
           status'[a] \in {"AWAITING_CUSTOMER_CONFIRM", "COMPLETED"} => Done(a)'
    BY <1>0, <2>1, <2>2 DEF EarnedInv, DoneStays, TypeInv, TypeOK
  <2> QED BY <1>2, <2>2, <2>3, CallerStep
<1>5. CASE WriteUsed(c)
  <2>1. /\ row' = [row EXCEPT ![b].used = TRUE]
        /\ status' = [status EXCEPT ![b] = "IN_PROGRESS"]
    BY <1>0, <1>5 DEF WriteUsed, SetStatus, Booking
  <2>2. DoneStays
    BY <1>0, <1>1, <2>1 DEF DoneStays, Done, TypeInv, TypeOK, Rows
  <2>3. \A a \in Bookings :
           status'[a] \in {"AWAITING_CUSTOMER_CONFIRM", "COMPLETED"} => Done(a)'
    BY <1>0, <2>1, <2>2 DEF EarnedInv, DoneStays, TypeInv, TypeOK
  <2> QED BY <1>2, <2>2, <2>3, CallerStep
<1> QED BY <1>3, <1>4, <1>5

\* What happens by itself claims nothing either.
LEMMA EventStepEarned ==
    ASSUME TypeInv, EarnedInv, TypeInv', posted' = posted,
           \/ \E b \in Bookings : Accept(b) \/ PinLapses(b) \/ FinalizeDue(b)
           \/ \E c \in Callers : QueueRefuses(c) \/ PostFails(c) \/ Crash(c)
    PROVE  EarnedInv'
<1>1. DoneStays /\ \A b \in Bookings :
         status'[b] \in {"AWAITING_CUSTOMER_CONFIRM", "COMPLETED"} => status'[b] = status[b]
  <2>1. ASSUME NEW a \in Bookings, Accept(a)
        PROVE  DoneStays /\ \A b \in Bookings :
           status'[b] \in {"AWAITING_CUSTOMER_CONFIRM", "COMPLETED"} => status'[b] = status[b]
    BY <2>1 DEF Accept, DoneStays, Done, TypeInv, TypeOK, Rows
  <2>2. CASE row' = row /\ status' = status
    BY <2>2 DEF DoneStays, Done
  <2> QED BY <2>1, <2>2 DEF PinLapses, FinalizeDue, QueueRefuses, PostFails, Crash
<1>2. \A d \in Callers : calls'[d] = calls[d] \/ calls'[d].stage = "idle"
  <2>1. \/ calls' = calls
        \/ \E c \in Callers : Throw(c) \/ calls' = [calls EXCEPT ![c] = Idle]
    BY DEF Accept, PinLapses, FinalizeDue, QueueRefuses, PostFails, Crash
  <2>2. \A c \in Callers : Throw(c) => calls' = [calls EXCEPT ![c] = Idle]
    BY DEF Throw
  <2> QED BY <2>1, <2>2, IdleFacts DEF TypeInv, TypeOK
<1>3. ASSUME NEW d \in Callers, calls'[d].stage \in SawDone PROVE Done(calls[d].booking)'
  <2>1. calls'[d] = calls[d] /\ calls[d].booking \in Bookings /\ Done(calls[d].booking)
    BY <1>2, <1>3 DEF SawDone, EarnedInv, TypeInv, TypeOK
  <2> QED BY <1>1, <2>1 DEF DoneStays, Done
<1>4. EarnedWasDone'
  BY <1>1 DEF EarnedInv, EarnedWasDone, DoneStays, Done, TypeInv, TypeOK
<1>5. \A b \in Bookings :
         status'[b] \in {"AWAITING_CUSTOMER_CONFIRM", "COMPLETED"} => Done(b)'
  BY <1>1 DEF EarnedInv, DoneStays
<1> QED BY <1>3, <1>4, <1>5 DEF EarnedInv

\* Every step keeps what is earned to what was done.
LEMMA NextEarned == TypeInv /\ EarnedInv /\ [Next]_vars => EarnedInv'
<1> SUFFICES ASSUME TypeInv, EarnedInv, [Next]_vars PROVE EarnedInv'
  OBVIOUS
<1>0. TypeInv'
  BY NextTyped
<1>1. CASE UNCHANGED vars
  BY <1>1 DEF vars, wallets, EarnedInv, EarnedWasDone, Done
<1>2. ASSUME NEW c \in Callers, NEW b \in Bookings, Request(c, b) \/ Finalize(c, b)
      PROVE  EarnedInv'
  <2>1. /\ OthersStay(c) /\ status' = status /\ row' = row /\ posted' = posted
        /\ \/ calls' = calls
           \/ /\ calls'[c].booking = b
              /\ calls'[c].stage \in SawDone => status[b] = "AWAITING_CUSTOMER_CONFIRM"
    <3>1. CASE Request(c, b)
      BY <3>1, RequestFacts DEF wallets, SawDone
    <3>2. CASE Finalize(c, b)
      BY <3>2, FinalizeFacts DEF wallets
    <3> QED BY <1>2, <3>1, <3>2
  <2>2. \A a : Done(a)' = Done(a)
    BY <2>1 DEF Done
  <2>3. \A d \in Callers : calls'[d].stage \in SawDone => Done(calls'[d].booking)
    BY <2>1 DEF OthersStay, EarnedInv
  <2>4. \A d \in Callers : (calls[d].stage \in SawDone => Done(calls[d].booking))'
    BY <2>1, <2>3 DEF Done
  <2> QED BY <2>1, <2>2, <2>4 DEF EarnedInv, EarnedWasDone, Done
<1>3. ASSUME NEW c \in Callers, Handler(c) PROVE EarnedInv'
  <2>1. OthersStay(c)
    BY <1>3, ArrivalStepTyped, ConfirmStepTyped, CancelStepTyped DEF Handler
  <2> QED BY <1>0, <1>3, <2>1, PlainStepEarned, CompletingStepEarned, CancelStepEarned DEF Handler
<1>4. CASE \/ \E b \in Bookings : Accept(b) \/ PinLapses(b) \/ FinalizeDue(b)
           \/ \E c \in Callers : QueueRefuses(c) \/ PostFails(c) \/ Crash(c)
  BY <1>0, <1>4, EventStepTyped, EventStepEarned DEF wallets
<1> QED BY <1>1, <1>2, <1>3, <1>4 DEF Next

\* No beautician is paid for a visit that she never said was done, unless an admin set its
\* status: though the timer, a late confirmation or a retried job pays on what it read before
\* (FinalizeBookingService, CustomerCompletionService, CreditServiceEarningsService).
THEOREM PaidWasDone == Spec => []EarnedWasDone
<1>1. Init => EarnedInv
  BY IdleFacts DEF Init, EarnedInv, EarnedWasDone, SawDone
<1>2. Spec => []TypeInv
  BY InitTyped, NextTyped, PTL DEF Spec
<1>3. EarnedInv => EarnedWasDone
  BY DEF EarnedInv
<1> QED BY <1>1, <1>2, <1>3, NextEarned, PTL DEF Spec

-----------------------------------------------------------------------------
(* Whoever has done is released.                                           *)

Intrusions == {"cancel", "penalty", "suspend", "admin", "scan"}

\* As long as nobody interferes: who works on a visit works on one that somebody holds.
Calm ==
    /\ \A b \in Bookings : status[b] # "PENDING_ASSIGNMENT" => row[b].assigned
    /\ \A c \in Callers : /\ calls[c].stage # "idle" => row[calls[c].booking].assigned
                          /\ calls[c].stage \notin Intrusions

\* c is about to count w's active visits and find none, unless one is taken back before.
WillRelease(c, w) ==
    /\ calls[c].stage \in {"credit", "post", "release", "online"}
    /\ Worker[calls[c].booking] = w
    /\ calls[c].stage = "post" => calls[c].booking \notin posted

Mine(w) == {b \in Bookings : Worker[b] = w}

\* A beautician who is ON_JOB and whose visits are all completed will be released.
Owed ==
    \A w \in Beauticians :
        (availability[w] = "ON_JOB" /\ \A b \in Mine(w) : status[b] = "COMPLETED")
            => \E c \in Callers : WillRelease(c, w)

CalmInv == troubles = 0 => Calm /\ Owed

\* What a step must show of its handler and its visit, for Calm.
LEMMA CalmStep ==
    ASSUME TypeInv, TypeInv', Calm, NEW c \in Callers, OthersStay(c),
           \A b \in Bookings : row[b].assigned => row'[b].assigned,
           \A b \in Bookings : status'[b] # status[b] => row[b].assigned,
           calls'[c].stage # "idle" => /\ row[calls'[c].booking].assigned
                                       /\ calls'[c].stage \notin Intrusions
    PROVE  Calm'
<1>1. \A b \in Bookings : status'[b] # "PENDING_ASSIGNMENT" => row'[b].assigned
  BY DEF Calm
<1>2. ASSUME NEW d \in Callers
      PROVE  /\ calls'[d].stage # "idle" => row'[calls'[d].booking].assigned
             /\ calls'[d].stage \notin Intrusions
  <2>1. CASE d = c
    <3>1. calls'[c].stage # "idle" => calls'[c].booking \in Bookings
      BY DEF TypeInv, TypeOK
    <3> QED BY <2>1, <3>1 DEF Intrusions
  <2>2. CASE d # c
    <3>1. calls'[d] = calls[d] /\ (calls[d].stage # "idle" => calls[d].booking \in Bookings)
      BY <2>2 DEF OthersStay, TypeInv, TypeOK
    <3> QED BY <3>1 DEF Calm
  <2> QED BY <2>1, <2>2
<1> QED BY <1>1, <1>2 DEF Calm

\* What a step must show of its handler and its visit, for Owed, when it completes nothing
\* and pays nothing.
LEMMA OwedStep ==
    ASSUME TypeInv, Owed, NEW c \in Callers, OthersStay(c), posted' = posted,
           \A b \in Bookings : status'[b] = "COMPLETED" => status[b] = "COMPLETED",
           \A w \in Beauticians : availability'[w] = "ON_JOB" => availability[w] = "ON_JOB",
           \A w \in Beauticians :
              /\ WillRelease(c, w) /\ availability'[w] = "ON_JOB"
              /\ \A b \in Mine(w) : status'[b] = "COMPLETED"
              => \E d \in Callers : WillRelease(d, w)'
    PROVE  Owed'
<1> SUFFICES ASSUME NEW w \in Beauticians, availability'[w] = "ON_JOB",
                    \A b \in Mine(w) : status'[b] = "COMPLETED"
             PROVE  \E d \in Callers : WillRelease(d, w)'
  BY DEF Owed, Mine
<1>1. availability[w] = "ON_JOB" /\ \A b \in Mine(w) : status[b] = "COMPLETED"
  BY DEF Mine
<1>2. PICK d \in Callers : WillRelease(d, w)
  BY <1>1 DEF Owed
<1>3. CASE d = c
  BY <1>2, <1>3
<1>4. CASE d # c
  <2>1. calls'[d] = calls[d]
    BY <1>4 DEF OthersStay
  <2> QED BY <1>2, <2>1 DEF WillRelease
<1> QED BY <1>3, <1>4

\* The columns that say that a visit is done or rated say nothing of who holds it.
LEMMA AssignedStays ==
    ASSUME TypeInv, NEW b \in Bookings,
           \/ row' = [row EXCEPT ![b].done = TRUE]
           \/ row' = [row EXCEPT ![b].rated = TRUE]
    PROVE  \A a \in Bookings : row'[a].assigned = row[a].assigned
<1>1. \A a \in Bookings : row[a] \in Rows
  BY DEF TypeInv, TypeOK
<1>2. CASE row' = [row EXCEPT ![b].done = TRUE]
  BY <1>1, <1>2 DEF TypeInv, TypeOK, Rows
<1>3. CASE row' = [row EXCEPT ![b].rated = TRUE]
  BY <1>1, <1>3 DEF TypeInv, TypeOK, Rows
<1> QED BY <1>2, <1>3

\* The steps on the way to a finished visit, and a late rating.
LEMMA PlainStepOwed ==
    ASSUME TypeInv, TypeInv', Calm, Owed, NEW c \in Callers, OthersStay(c),
           \/ WriteEnRoute(c) \/ StorePin(c) \/ WriteArrived(c) \/ WriteDone(c)
           \/ QueueFinalize(c) \/ CheckPin(c) \/ ConsumePin(c) \/ StartService(c)
           \/ ApplyLateRating(c)
    PROVE  Calm' /\ Owed'
<1>0. PICK b \in Bookings : b = calls[c].booking /\ b = Booking(c) /\ row[b].assigned
  <2>1. ~At(c, "idle")
    BY DEF WriteEnRoute, StorePin, WriteArrived, WriteDone, QueueFinalize, CheckPin,
           ConsumePin, StartService, ApplyLateRating, At
  <2> QED BY <2>1, WorkFacts DEF Booking, Calm, At
<1>1. /\ posted' = posted /\ availability' = availability
      /\ calls[c].stage \notin {"credit", "post", "release", "online"}
  BY DEF WriteEnRoute, StorePin, WriteArrived, WriteDone, QueueFinalize, CheckPin, ConsumePin,
         StartService, ApplyLateRating, wallets, people, At
<1>2. \/ calls'[c].stage = "idle"
      \/ calls'[c].stage \notin Intrusions /\ calls'[c].booking = b
  <2>1. \/ Return(c) \/ Throw(c) \/ calls' = [calls EXCEPT ![c] = Idle]
        \/ \E s \in {"arrived", "queue", "consume", "start"} : Goto(c, s)
    BY DEF WriteEnRoute, StorePin, WriteArrived, WriteDone, QueueFinalize, CheckPin,
           ConsumePin, StartService, ApplyLateRating
  <2> QED BY <1>0, <2>1, StageFacts, IdleFacts DEF Intrusions, Stages, TypeInv, TypeOK
<1>3. \/ status' = status
      \/ \E s \in {"EN_ROUTE", "ARRIVED", "IN_PROGRESS", "AWAITING_CUSTOMER_CONFIRM"} :
            status' = [status EXCEPT ![b] = s]
  BY <1>0 DEF WriteEnRoute, StorePin, WriteArrived, WriteDone, QueueFinalize, CheckPin,
         ConsumePin, StartService, ApplyLateRating, SetStatus
<1>4. \A a \in Bookings : row[a].assigned => row'[a].assigned
  <2>1. \/ row' = row
        \/ row' = [row EXCEPT ![b].done = TRUE] \/ row' = [row EXCEPT ![b].rated = TRUE]
    BY <1>0 DEF WriteEnRoute, StorePin, WriteArrived, WriteDone, QueueFinalize, CheckPin,
           ConsumePin, StartService, ApplyLateRating
  <2> QED BY <2>1, AssignedStays
<1>5. \A a \in Bookings : status'[a] # status[a] => a = b
  BY <1>3 DEF TypeInv, TypeOK
<1>6. \A a \in Bookings : status'[a] = "COMPLETED" => status[a] = "COMPLETED"
  BY <1>3 DEF TypeInv, TypeOK
<1>7. Calm'
  BY <1>0, <1>2, <1>4, <1>5, CalmStep
<1>8. \A w \in Beauticians : ~WillRelease(c, w)
  BY <1>1 DEF WillRelease
<1> QED BY <1>1, <1>6, <1>7, <1>8, OwedStep

\* A visit is completed: whoever completes it goes on to its beautician.
LEMMA CompletingStepOwed ==
    ASSUME TypeInv, TypeInv', Calm, Owed, NEW c \in Callers, OthersStay(c),
           WriteConfirmed(c) \/ WriteFinalized(c)
    PROVE  Calm' /\ Owed'
<1>0. PICK b \in Bookings : b = calls[c].booking /\ b = Booking(c) /\ row[b].assigned
  <2>1. ~At(c, "idle")
    BY DEF WriteConfirmed, WriteFinalized, At
  <2> QED BY <2>1, WorkFacts DEF Booking, Calm, At
<1>1. /\ posted' = posted /\ availability' = availability
      /\ calls[c].stage \notin {"credit", "post", "release", "online"}
      /\ status' = [status EXCEPT ![b] = "COMPLETED"] /\ Goto(c, "credit")
  BY <1>0 DEF WriteConfirmed, WriteFinalized, SetStatus, wallets, people, At
<1>2. calls'[c].stage = "credit" /\ calls'[c].booking = b
  BY <1>0, <1>1, StageFacts DEF Stages
<1>3. \A a \in Bookings : row[a].assigned => row'[a].assigned
  <2>1. row' = row \/ row' = [row EXCEPT ![b].rated = TRUE]
    BY <1>0 DEF WriteConfirmed, WriteFinalized
  <2> QED BY <2>1, AssignedStays
<1>4. Calm'
  <2>1. \A a \in Bookings : status'[a] # status[a] => row[a].assigned
    BY <1>0, <1>1 DEF TypeInv, TypeOK
  <2> QED BY <1>0, <1>2, <1>3, <2>1, CalmStep DEF Intrusions
<1>5. Owed'
  <2> SUFFICES ASSUME NEW w \in Beauticians, availability'[w] = "ON_JOB",
                      \A a \in Mine(w) : status'[a] = "COMPLETED"
               PROVE  \E d \in Callers : WillRelease(d, w)'
    BY DEF Owed, Mine
  <2>1. CASE Worker[b] = w
    BY <1>2, <2>1 DEF WillRelease
  <2>2. CASE Worker[b] # w
    <3>1. availability[w] = "ON_JOB" /\ \A a \in Mine(w) : status[a] = "COMPLETED"
      BY <1>1, <2>2 DEF Mine, TypeInv, TypeOK
    <3>2. PICK d \in Callers : WillRelease(d, w)
      BY <3>1 DEF Owed
    <3>3. d # c
      BY <1>1, <3>2 DEF WillRelease
    <3>4. calls'[d] = calls[d]
      BY <3>3 DEF OthersStay
    <3> QED BY <1>1, <3>2, <3>4 DEF WillRelease
  <2> QED BY <2>1, <2>2
<1> QED BY <1>4, <1>5

\* The earnings: who finds them posted by another releases all the same, and who is refused
\* leaves the release to the other.
LEMMA PayingStepOwed ==
    ASSUME TypeInv, TypeInv', Calm, Owed, NEW c \in Callers, OthersStay(c),
           CreditEarnings(c) \/ PostEarnings(c)
    PROVE  Calm' /\ Owed'
<1>0. PICK b \in Bookings : b = calls[c].booking /\ b = Booking(c) /\ row[b].assigned
  <2>1. ~At(c, "idle")
    BY DEF CreditEarnings, PostEarnings, At
  <2> QED BY <2>1, WorkFacts DEF Booking, Calm, At
<1>1. status' = status /\ row' = row /\ availability' = availability
  BY DEF CreditEarnings, PostEarnings, people
<1>2. /\ calls'[c].stage \in {"idle", "post", "release"}
      /\ calls'[c].stage # "idle" => calls'[c].booking = b
  <2>1. Return(c) \/ Throw(c) \/ \E s \in {"post", "release"} : Goto(c, s)
    BY DEF CreditEarnings, PostEarnings
  <2> QED BY <1>0, <2>1, StageFacts DEF Stages
<1>3. Calm'
  BY <1>0, <1>1, <1>2, CalmStep DEF Intrusions
<1>4. CASE CreditEarnings(c)
  <2>1. posted' = posted
    BY <1>4 DEF CreditEarnings, wallets
  <2>2. ASSUME NEW w \in Beauticians, WillRelease(c, w),
               \A a \in Mine(w) : status'[a] = "COMPLETED"
        PROVE  WillRelease(c, w)'
    <3>1. Worker[b] = w /\ status[b] = "COMPLETED"
      BY <1>0, <1>1, <2>2 DEF WillRelease, Mine
    <3>2. Goto(c, IF status[b] = "COMPLETED" /\ b \notin posted /\ Amount[b] > 0
                  THEN "post" ELSE "release")
      BY <1>0, <1>4 DEF CreditEarnings
    <3>3. calls'[c].stage = "release" \/ (calls'[c].stage = "post" /\ b \notin posted)
      BY <3>2, StageFacts DEF Stages
    <3> QED BY <1>2, <2>1, <3>1, <3>3 DEF WillRelease
  <2>3. Owed'
    BY <1>1, <2>1, <2>2, OwedStep
  <2> QED BY <1>3, <2>3
<1>5. CASE PostEarnings(c)
  <2>1. CASE b \in posted
    <3>1. posted' = posted
      BY <1>0, <1>5, <2>1 DEF PostEarnings, wallets
    <3>2. \A w \in Beauticians : ~WillRelease(c, w)
      BY <1>0, <1>5, <2>1 DEF PostEarnings, At, WillRelease
    <3>3. Owed'
      BY <1>1, <3>1, <3>2, OwedStep
    <3> QED BY <1>3, <3>3
  <2>2. CASE b \notin posted
    <3>1. posted' = posted \cup {b} /\ calls'[c].stage = "release"
      BY <1>0, <1>5, <2>2, StageFacts DEF PostEarnings, Stages
    <3>2. WillRelease(c, Worker[b])'
      BY <1>2, <3>1 DEF WillRelease
    <3>3. Owed'
      <4> SUFFICES ASSUME NEW w \in Beauticians, availability'[w] = "ON_JOB",
                          \A a \in Mine(w) : status'[a] = "COMPLETED"
                   PROVE  \E d \in Callers : WillRelease(d, w)'
        BY DEF Owed, Mine
      <4>1. CASE Worker[b] = w
        BY <3>2, <4>1
      <4>2. CASE Worker[b] # w
        <5>1. PICK d \in Callers : WillRelease(d, w)
          BY <1>1 DEF Owed
        <5>2. d # c /\ calls[d].booking # b
          BY <1>0, <4>2, <5>1 DEF WillRelease
        <5>3. calls'[d] = calls[d]
          BY <5>2 DEF OthersStay
        <5> QED BY <3>1, <5>1, <5>2, <5>3 DEF WillRelease
      <4> QED BY <4>1, <4>2
    <3> QED BY <1>3, <3>3
  <2> QED BY <2>1, <2>2
<1> QED BY <1>4, <1>5

\* The release itself: with every visit completed she is found idle, and goes ONLINE.
LEMMA ReleasingStepOwed ==
    ASSUME TypeInv, TypeInv', Calm, Owed, NEW c \in Callers, OthersStay(c),
           ReleaseIfIdle(c) \/ SetOnline(c)
    PROVE  Calm' /\ Owed'
<1>0. PICK b \in Bookings : b = calls[c].booking /\ b = Booking(c) /\ row[b].assigned
  <2>1. ~At(c, "idle")
    BY DEF ReleaseIfIdle, SetOnline, At
  <2> QED BY <2>1, WorkFacts DEF Booking, Calm, At
<1>1. status' = status /\ row' = row /\ posted' = posted
  BY DEF ReleaseIfIdle, SetOnline, wallets
<1>2. /\ calls'[c].stage \in {"idle", "online"}
      /\ calls'[c].stage # "idle" => calls'[c].booking = b
  <2>1. Return(c) \/ Goto(c, "online")
    BY DEF ReleaseIfIdle, SetOnline
  <2> QED BY <1>0, <2>1, StageFacts DEF Stages
<1>3. Calm'
  BY <1>0, <1>1, <1>2, CalmStep DEF Intrusions
<1>4. CASE ReleaseIfIdle(c)
  <2>1. availability' = availability
    BY <1>4 DEF ReleaseIfIdle, people
  <2>2. ASSUME NEW w \in Beauticians, WillRelease(c, w),
               \A a \in Mine(w) : status'[a] = "COMPLETED"
        PROVE  WillRelease(c, w)'
    <3>1. Worker[b] = w /\ Beautician(c) = w
      BY <1>0, <2>2 DEF WillRelease, Beautician
    <3>2. ~ \E a \in Bookings : Worker[a] = Beautician(c) /\ row[a].assigned /\ status[a] \in Active
      BY <1>1, <2>2, <3>1 DEF Mine, Active
    <3>3. Goto(c, "online")
      BY <1>4, <3>2 DEF ReleaseIfIdle
    <3>4. calls'[c].stage = "online"
      BY <3>3, StageFacts DEF Stages
    <3> QED BY <1>2, <3>1, <3>4 DEF WillRelease
  <2>3. Owed'
    BY <1>1, <2>1, <2>2, OwedStep
  <2> QED BY <1>3, <2>3
<1>5. CASE SetOnline(c)
  <2>1. availability' = [availability EXCEPT ![Beautician(c)] = "ONLINE"]
    BY <1>5 DEF SetOnline
  <2>2. \A w \in Beauticians : availability'[w] = "ON_JOB" =>
                                  availability[w] = "ON_JOB" /\ w # Beautician(c)
    BY <2>1 DEF TypeInv, TypeOK
  <2>3. \A w \in Beauticians : WillRelease(c, w) => w = Beautician(c)
    BY <1>0 DEF WillRelease, Beautician
  <2>4. Owed'
    BY <1>1, <2>2, <2>3, OwedStep
  <2> QED BY <1>3, <2>4
<1> QED BY <1>4, <1>5

\* New requests and the queue's job: they ask for visits that somebody holds.
LEMMA RequestStepOwed ==
    ASSUME TypeInv, TypeInv', Calm, Owed, NEW c \in Callers, NEW b \in Bookings,
           Request(c, b) \/ Finalize(c, b), troubles' = 0
    PROVE  Calm' /\ Owed'
<1>1. /\ OthersStay(c) /\ status' = status /\ row' = row /\ posted' = posted
      /\ \/ calls' = calls
         \/ /\ calls'[c].booking = b
            /\ calls'[c].stage \in {"en_route", "store", "done", "check", "confirm", "rate",
                                    "cancel", "admin", "scan", "finalize"}
  <2>1. CASE Request(c, b)
    BY <2>1, RequestFacts DEF wallets
  <2>2. CASE Finalize(c, b)
    BY <2>2, FinalizeFacts DEF wallets
  <2> QED BY <2>1, <2>2
<1>2. troubles \in Nat
  BY DEF TypeInv, TypeOK
<1>3. \A kind : ~Interference(kind)
  BY <1>2 DEF Interference
<1>begun. \A s \in Stages : Begin(c, Call(b, s)) => calls'[c].stage = s
  <2>1. \A s \in Stages : Call(b, s).stage = s
    BY IdleFacts DEF Call, Calls
  <2> QED BY <2>1 DEF Begin, TypeInv, TypeOK
<1>4. /\ availability' = availability /\ calls[c].stage = "idle"
      /\ calls' # calls => status[b] # "PENDING_ASSIGNMENT" \/ row[b].assigned
      /\ calls'[c].stage \notin Intrusions
  <2>1. CASE MarkEnRoute(c, b) \/ MarkArrived(c, b) \/ CompleteService(c, b)
    <3>1. \E s \in {"en_route", "store", "done"} : Begin(c, Call(b, s))
      BY <2>1 DEF MarkEnRoute, MarkArrived, CompleteService
    <3>2. calls'[c].stage \in {"en_route", "store", "done"}
      BY <1>begun, <3>1 DEF Stages
    <3> QED BY <2>1, <3>2 DEF MarkEnRoute, MarkArrived, CompleteService, Begin, At, people,
                              Intrusions
  <2>2. CASE \E p \in 1..pins : VerifyArrival(c, b, p)
    <3>1. PICK p \in 1..pins : VerifyArrival(c, b, p)
      BY <2>2
    <3>2. calls'[c].stage = "check"
      BY <3>1, IdleFacts DEF VerifyArrival, Begin, Call, Calls, TypeInv, TypeOK
    <3> QED BY <3>1, <3>2 DEF VerifyArrival, Begin, At, people, Intrusions
  <2>3. CASE ConfirmCompletion(c, b)
    <3>1. \E s \in {"confirm", "rate"} : Begin(c, Call(b, s))
      BY <2>3 DEF ConfirmCompletion
    <3>2. calls'[c].stage \in {"confirm", "rate"}
      BY <1>begun, <3>1 DEF Stages
    <3> QED BY <2>3, <3>2
            DEF ConfirmCompletion, CanTransition, Begin, At, people, Intrusions
  <2>4. ~ \E noShow \in BOOLEAN : CancelBooking(c, b, noShow)
    BY <1>3, Zenon DEF CancelBooking
  <2>5. ~(\E s \in Statuses : UpdateStatusAdmin(c, b, s)) /\ ~UseReservation(c, b)
    BY <1>3, Zenon DEF UpdateStatusAdmin, UseReservation
  <2>6. CASE Finalize(c, b)
    <3>1. CASE calls' = calls
      <4>1. calls[c].stage = "idle" /\ availability' = availability
        BY <2>6 DEF Finalize, At, people
      <4> QED BY <3>1, <4>1 DEF Intrusions
    <3>2. CASE calls' # calls
      <4>1. /\ status[b] = "AWAITING_CUSTOMER_CONFIRM"
            /\ calls'[c].stage = "finalize"
        BY <2>6, <3>2, FinalizeFacts
      <4> QED BY <2>6, <4>1 DEF Finalize, At, people, Intrusions
    <3> QED BY <3>1, <3>2
  <2> QED BY <2>1, <2>2, <2>3, <2>4, <2>5, <2>6 DEF Request, JobRequest, CustomerRequest
<1>5. calls' # calls => row[b].assigned
  BY <1>4 DEF Calm
<1>6. Calm'
  <2>1. CASE calls' = calls
    BY <1>1, <2>1 DEF Calm
  <2>2. CASE calls' # calls
    BY <1>1, <1>4, <1>5, <2>2, CalmStep
  <2> QED BY <2>1, <2>2
<1>7. \A w \in Beauticians : ~WillRelease(c, w)
  BY <1>4 DEF WillRelease
<1>8. Owed'
  BY <1>1, <1>4, <1>7, OwedStep
<1> QED BY <1>6, <1>8

\* A beautician accepts, or a day passes.
LEMMA EventStepOwed ==
    ASSUME TypeInv, TypeInv', Calm, Owed, NEW b \in Bookings, Accept(b) \/ FinalizeDue(b)
    PROVE  Calm' /\ Owed'
<1>1. CASE FinalizeDue(b)
  BY <1>1 DEF FinalizeDue, wallets, people, Calm, Owed, WillRelease
<1>2. CASE Accept(b)
  <2>1. /\ calls' = calls /\ posted' = posted
        /\ status' = [status EXCEPT ![b] = "ASSIGNED"]
        /\ availability' = [availability EXCEPT ![Worker[b]] = "ON_JOB"]
        /\ row' = [row EXCEPT ![b].assigned = TRUE]
    BY <1>2 DEF Accept, wallets
  <2>2. \A a \in Bookings : row'[a].assigned <=> (a = b \/ row[a].assigned)
    <3>1. row[b] \in Rows
      BY DEF TypeInv, TypeOK
    <3>2. row'[b].assigned = TRUE /\ \A a \in Bookings \ {b} : row'[a] = row[a]
      BY <2>1, <3>1 DEF TypeInv, TypeOK, Rows
    <3> QED BY <3>2
  <2>3. Calm'
    <3>1. \A a \in Bookings : status'[a] # "PENDING_ASSIGNMENT" => row'[a].assigned
      BY <2>1, <2>2 DEF Calm, TypeInv, TypeOK
    <3>2. \A c \in Callers : /\ calls[c].stage # "idle" => row'[calls[c].booking].assigned
                             /\ calls[c].stage \notin Intrusions
      BY <2>2 DEF Calm, TypeInv, TypeOK
    <3> QED BY <2>1, <3>1, <3>2 DEF Calm
  <2>4. Owed'
    <3> SUFFICES ASSUME NEW w \in Beauticians, availability'[w] = "ON_JOB",
                        \A a \in Mine(w) : status'[a] = "COMPLETED"
                 PROVE  \E d \in Callers : WillRelease(d, w)'
      BY DEF Owed, Mine
    <3>1. Worker[b] # w
      BY <2>1 DEF Mine, TypeInv, TypeOK
    <3>2. availability[w] = "ON_JOB" /\ \A a \in Mine(w) : status[a] = "COMPLETED"
      BY <2>1, <3>1 DEF Mine, TypeInv, TypeOK
    <3>3. PICK d \in Callers : WillRelease(d, w)
      BY <3>2 DEF Owed
    <3> QED BY <2>1, <3>3 DEF WillRelease
  <2> QED BY <2>3, <2>4
<1> QED BY <1>1, <1>2

\* Every step keeps the promise, until something goes wrong.
LEMMA NextOwed == TypeInv /\ CalmInv /\ [Next]_vars => CalmInv'
<1> SUFFICES ASSUME TypeInv, CalmInv, [Next]_vars, troubles' = 0 PROVE Calm' /\ Owed'
  BY DEF CalmInv
<1>0. TypeInv'
  BY NextTyped
<1>1. troubles \in Nat
  BY DEF TypeInv, TypeOK
<1>2. CASE UNCHANGED vars
  BY <1>2 DEF vars, wallets, people, CalmInv, Calm, Owed, WillRelease
<1>3. CASE Next
  <2>1. /\ ~ \E b \in Bookings : PinLapses(b)
        /\ ~ \E c \in Callers : QueueRefuses(c) \/ PostFails(c) \/ Crash(c)
    BY <1>1 DEF PinLapses, QueueRefuses, PostFails, Crash, Mishap
  <2>2. ASSUME NEW b \in Bookings, Accept(b) \/ FinalizeDue(b) PROVE Calm' /\ Owed'
    <3>1. troubles = 0
      BY <2>2 DEF Accept, FinalizeDue
    <3> QED BY <1>0, <2>2, <3>1, EventStepOwed DEF CalmInv
  <2>3. ASSUME NEW c \in Callers, NEW b \in Bookings, Request(c, b) \/ Finalize(c, b)
        PROVE  Calm' /\ Owed'
    <3>1. troubles' = troubles \/ troubles' = troubles + 1
      BY <2>3 DEF Request, JobRequest, CustomerRequest, MarkEnRoute, MarkArrived, CompleteService, VerifyArrival,
                  ConfirmCompletion, CancelBooking, UpdateStatusAdmin, UseReservation,
                  Interference, Finalize
    <3>2. troubles = 0
      BY <1>1, <3>1
    <3> QED BY <1>0, <2>3, <3>2, RequestStepOwed DEF CalmInv
  <2>4. ASSUME NEW c \in Callers, Handler(c) PROVE Calm' /\ Owed'
    <3>1. OthersStay(c)
      BY <2>4, ArrivalStepTyped, ConfirmStepTyped, CancelStepTyped DEF Handler
    <3>2. troubles = 0
      BY <2>4
         DEF Handler, WriteEnRoute, StorePin, WriteArrived, WriteDone, QueueFinalize, CheckPin,
             ConsumePin, StartService, WriteConfirmed, ApplyLateRating, WriteFinalized,
             CreditEarnings, PostEarnings, ReleaseIfIdle, SetOnline, WriteCancelled,
             RecordNoShow, Suspend, WriteStatusAdmin, WriteUsed
    <3>3. Calm /\ Owed
      BY <3>2 DEF CalmInv
    <3>4. ~(\/ WriteCancelled(c) \/ RecordNoShow(c) \/ Suspend(c) \/ WriteStatusAdmin(c)
            \/ WriteUsed(c))
      BY <3>3 DEF WriteCancelled, RecordNoShow, Suspend, WriteStatusAdmin, WriteUsed, At,
                  Calm, Intrusions
    <3> QED BY <1>0, <2>4, <3>1, <3>3, <3>4, PlainStepOwed, CompletingStepOwed,
               PayingStepOwed, ReleasingStepOwed DEF Handler
  <2> QED BY <1>3, <2>1, <2>2, <2>3, <2>4 DEF Next
<1> QED BY <1>2, <1>3

\* A visit's status, its money and its beautician agree: she is paid only for what was done,
\* and, unless something interferes, is not left ON_JOB when all is done and paid, though two
\* handlers may complete her last visits at once (BookingParticipantService.
\* releaseBeauticianIfIdle counts her active visits and writes ONLINE later).
THEOREM VisitIsKept == Spec => []VisitKept
<1>1. Init => CalmInv
  <2> SUFFICES ASSUME Init PROVE Calm /\ Owed
    BY DEF CalmInv
  <2> QED BY IdleFacts DEF Init, Calm, Owed, Intrusions
<1>2. Spec => []TypeInv
  BY InitTyped, NextTyped, PTL DEF Spec
<1>3. Spec => []CalmInv
  BY <1>1, <1>2, NextOwed, PTL DEF Spec
<1>4. CalmInv => ReleasedWhenDone
  <2> SUFFICES ASSUME CalmInv, NEW w \in Beauticians, troubles = 0,
                      \A c \in Callers : At(c, "idle"),
                      \A b \in Mine(w) : status[b] = "COMPLETED"
               PROVE  availability[w] # "ON_JOB"
    BY DEF ReleasedWhenDone, Mine
  <2>1. Owed /\ \A c \in Callers : ~WillRelease(c, w)
    BY DEF CalmInv, WillRelease, At
  <2> QED BY <2>1 DEF Owed
<1> QED BY <1>3, <1>4, TypeCorrect, PaidWasDone, PTL DEF VisitKept
===============================================================================
