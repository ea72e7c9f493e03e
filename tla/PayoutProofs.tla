---------------------------- MODULE PayoutProofs ----------------------------
(***************************************************************************)
(* Proofs about Payout, for every set of requests and handlers, all        *)
(* amounts, every limit, opening balance and bound.                        *)
(*                                                                         *)
(* Whoever settles a request has been told of a transfer some steps ago:   *)
(* Informed says that what it was told is true and about its own request,  *)
(* although the request may name another transfer by now.                  *)
(***************************************************************************)
EXTENDS Payout, TLAPS

\* A webhook job is worked on by one handler, which settles what it tells, and is counted
\* until that one is done.
JobsHeld ==
    \A c \in Callers : calls[c].job =>
        /\ calls[c].stage \in {"complete", "debit", "reject"}
        /\ <<calls[c].transfer, calls[c].event>> \in Transfers \X Events
        /\ jobs[<<calls[c].transfer, calls[c].event>>] > 0
        /\ \A d \in Callers :
              /\ calls[d].job
              /\ calls[d].transfer = calls[c].transfer /\ calls[d].event = calls[c].event
              => d = c

\* Who asks Paystack about a transfer has its name.
TransfersNamed ==
    \A c \in Callers :
        calls[c].stage \in {"send", "finalize", "outcome"} => calls[c].transfer \in Transfers

TypeInv == TypeOK /\ JobsHeld /\ TransfersNamed

CallsOK ==
    /\ calls \in [Callers -> Calls]
    /\ \A c \in Callers : calls[c].stage # "idle" => calls[c].request \in Requests
    /\ jobs \in [Transfers \X Events -> Nat]
    /\ JobsHeld /\ TransfersNamed

OthersStay(c) == \A d \in Callers \ {c} : calls'[d] = calls[d]
NoNewJob == \A j \in Transfers \X Events : jobs'[j] <= jobs[j]

-----------------------------------------------------------------------------
(* What the helpers of the model do to the handlers.                       *)

\* Nobody's handler is a handler, at no stage and on no job.
LEMMA IdleFacts ==
    /\ Idle \in Calls
    /\ Idle.stage = "idle" /\ Idle.job = FALSE /\ Idle.request = NoRequest
BY BoundAssumption DEF Idle, Calls, Stages, Events

\* What changes in one handler's record changes in no other.
LEMMA CallChanged ==
    ASSUME TypeInv, NEW c \in Callers, NEW r \in Calls, ~At(c, "idle"), r.stage # "idle",
           r.request = Request(c), r.job = calls[c].job,
           r.job => /\ r.stage \in {"complete", "debit", "reject"}
                    /\ r.transfer = calls[c].transfer /\ r.event = calls[c].event,
           r.stage \in {"send", "finalize", "outcome"} => r.transfer \in Transfers,
           calls' = [calls EXCEPT ![c] = r], jobs' = jobs
    PROVE  CallsOK' /\ calls'[c] = r /\ OthersStay(c)
<1>1. calls' \in [Callers -> Calls] /\ calls'[c] = r /\ OthersStay(c)
  BY DEF TypeInv, TypeOK, OthersStay
<1>2. \A d \in Callers :
        /\ calls'[d].job = calls[d].job
        /\ calls[d].job => /\ calls'[d].transfer = calls[d].transfer
                           /\ calls'[d].event = calls[d].event
                           /\ calls'[d].stage \in {"complete", "debit", "reject"}
  BY <1>1 DEF TypeInv, JobsHeld, OthersStay
<1>3. JobsHeld'
  BY <1>2 DEF TypeInv, JobsHeld
<1>4. TransfersNamed'
  BY <1>1 DEF TypeInv, TransfersNamed, OthersStay
<1>5. \A d \in Callers : calls'[d].stage # "idle" => calls'[d].request \in Requests
  BY <1>1 DEF TypeInv, TypeOK, OthersStay, Request, At
<1> QED BY <1>1, <1>3, <1>4, <1>5 DEF TypeInv, TypeOK, CallsOK

\* A handler that moves to another stage keeps everything else.
LEMMA GotoFacts ==
    ASSUME TypeInv, NEW c \in Callers, NEW s \in Stages \ {"idle", "send", "finalize", "outcome"},
           ~At(c, "idle"), calls[c].job => s \in {"complete", "debit", "reject"},
           Goto(c, s), jobs' = jobs
    PROVE  /\ CallsOK' /\ OthersStay(c)
           /\ calls'[c].stage = s /\ calls'[c].request = calls[c].request
<1> DEFINE r == [calls[c] EXCEPT !.stage = s]
<1>1. /\ r \in Calls /\ r.request = Request(c) /\ r.job = calls[c].job /\ r.stage = s
      /\ r.transfer = calls[c].transfer /\ r.event = calls[c].event
  BY DEF TypeInv, TypeOK, Calls, Request
<1>2. calls' = [calls EXCEPT ![c] = r]
  BY DEF Goto
<1> HIDE DEF r
<1> QED BY <1>1, <1>2, CallChanged DEF Request

\* A handler that leaves gives up its job, or an attempt of it, and nobody else's.
LEMMA LeaveFacts ==
    ASSUME TypeInv, NEW c \in Callers, ~At(c, "idle"), NEW left, Leave(c, left),
           calls[c].job =>
             left \in Nat /\ left <= jobs[<<calls[c].transfer, calls[c].event>>]
    PROVE  /\ CallsOK' /\ OthersStay(c) /\ calls'[c] = Idle
           /\ NoNewJob
<1>1. /\ calls' = [calls EXCEPT ![c] = Idle]
      /\ calls' \in [Callers -> Calls] /\ calls'[c] = Idle /\ OthersStay(c)
  BY IdleFacts DEF Leave, TypeInv, TypeOK, OthersStay
<1>2. calls[c].job \in BOOLEAN /\ jobs \in [Transfers \X Events -> Nat]
  BY DEF TypeInv, TypeOK, Calls
<1>3. TransfersNamed' /\ \A d \in Callers : calls'[d].stage # "idle" => calls'[d].request \in Requests
  BY <1>1, IdleFacts DEF TypeInv, TypeOK, TransfersNamed, OthersStay
<1>4. CASE calls[c].job
  <2> DEFINE held == <<calls[c].transfer, calls[c].event>>
  <2>1. jobs' = [jobs EXCEPT ![held] = left] /\ held \in Transfers \X Events
    BY <1>4 DEF Leave, TypeInv, JobsHeld
  <2>2. /\ jobs' \in [Transfers \X Events -> Nat]
        /\ \A i \in Transfers \X Events : jobs'[i] <= jobs[i]
        /\ \A i \in Transfers \X Events : i # held => jobs'[i] = jobs[i]
    BY <1>2, <1>4, <2>1
  <2>3. \A d \in Callers : calls'[d].job =>
          /\ d # c /\ calls'[d] = calls[d] /\ calls[d].job
          /\ <<calls[d].transfer, calls[d].event>> # held
          /\ <<calls[d].transfer, calls[d].event>> \in Transfers \X Events
    BY <1>1, <1>4, IdleFacts DEF TypeInv, JobsHeld, OthersStay
  <2>4. \A d \in Callers : calls'[d].job =>
          jobs'[<<calls'[d].transfer, calls'[d].event>>] = jobs[<<calls[d].transfer, calls[d].event>>]
    BY <2>2, <2>3
  <2> HIDE DEF held
  <2>5. ASSUME NEW d \in Callers, calls'[d].job
        PROVE  /\ calls'[d].stage \in {"complete", "debit", "reject"}
               /\ <<calls'[d].transfer, calls'[d].event>> \in Transfers \X Events
               /\ jobs'[<<calls'[d].transfer, calls'[d].event>>] > 0
               /\ \A e \in Callers :
                     /\ calls'[e].job
                     /\ calls'[e].transfer = calls'[d].transfer
                     /\ calls'[e].event = calls'[d].event
                     => e = d
    <3>1. calls'[d] = calls[d] /\ calls[d].job
      BY <2>3, <2>5
    <3>2. jobs'[<<calls'[d].transfer, calls'[d].event>>] > 0
      BY <2>4, <2>5, <3>1 DEF TypeInv, JobsHeld
    <3> QED BY <2>3, <3>1, <3>2 DEF TypeInv, JobsHeld
  <2>6. JobsHeld'
    BY <2>5 DEF JobsHeld
  <2> QED BY <1>1, <1>3, <2>2, <2>6 DEF CallsOK, NoNewJob
<1>5. CASE ~calls[c].job
  <2>1. jobs' = jobs
    BY <1>5 DEF Leave
  <2>2. \A d \in Callers : calls'[d].job => d # c /\ calls'[d] = calls[d]
    BY <1>1, IdleFacts DEF OthersStay
  <2>3. JobsHeld'
    BY <2>1, <2>2 DEF TypeInv, JobsHeld
  <2> QED BY <1>1, <1>2, <1>3, <2>1, <2>3 DEF CallsOK, NoNewJob
<1> QED BY <1>2, <1>4, <1>5

\* Both ways to leave.
LEMMA DoneFacts ==
    ASSUME TypeInv, NEW c \in Callers, ~At(c, "idle"), Return(c) \/ Throw(c)
    PROVE  /\ CallsOK' /\ OthersStay(c) /\ calls'[c] = Idle
           /\ NoNewJob
<1> DEFINE n == jobs[<<calls[c].transfer, calls[c].event>>]
<1>1. calls[c].job => n \in Nat /\ n > 0
  BY DEF TypeInv, TypeOK, JobsHeld
<1>2. CASE Return(c)
  BY <1>1, <1>2, LeaveFacts DEF Return
<1>3. CASE Throw(c)
  <2>1. calls[c].job => n - 1 \in Nat /\ n - 1 <= n
    BY <1>1
  <2> QED BY <1>3, <2>1, LeaveFacts DEF Throw
<1> QED BY <1>2, <1>3

\* A new handler is what it was started as; a job it takes nobody else works on.
LEMMA BeginFacts ==
    ASSUME TypeInv, NEW c \in Callers, NEW r \in Calls, Begin(c, r), jobs' = jobs,
           r.stage # "idle", r.request \in Requests,
           r.stage \in {"send", "finalize", "outcome"} => r.transfer \in Transfers,
           r.job => /\ r.stage \in {"complete", "debit", "reject"}
                    /\ <<r.transfer, r.event>> \in Transfers \X Events
                    /\ TakesJob(r.transfer, r.event)
    PROVE  CallsOK' /\ calls'[c] = r /\ OthersStay(c)
<1>1. calls' \in [Callers -> Calls] /\ calls'[c] = r /\ OthersStay(c)
  BY DEF Begin, TypeInv, TypeOK, OthersStay
<1>2. ~calls[c].job
  BY DEF Begin, At, TypeInv, JobsHeld
<1>3. JobsHeld'
  BY <1>1, <1>2 DEF TypeInv, JobsHeld, TakesJob, OthersStay
<1>4. TransfersNamed'
  BY <1>1 DEF TypeInv, TransfersNamed, OthersStay
<1> QED BY <1>1, <1>3, <1>4 DEF TypeInv, TypeOK, CallsOK, OthersStay

-----------------------------------------------------------------------------
(* Every variable keeps its type.                                          *)

\* With nothing asked for every variable has its type.
LEMMA InitTyped == Init => TypeInv
<1> SUFFICES ASSUME Init PROVE TypeInv
  OBVIOUS
<1>1. TypeOK
  BY IdleFacts, AmountAssumption, BoundAssumption
     DEF Init, TypeOK, Payouts, RequestStatuses, TransferRecords, TransferStates
<1>2. JobsHeld /\ TransfersNamed
  BY IdleFacts DEF Init, JobsHeld, TransfersNamed
<1> QED BY <1>1, <1>2 DEF TypeInv

\* The row of a request with another status is a row.
LEMMA StatusFacts ==
    ASSUME TypeInv, NEW p \in Requests, NEW s \in RequestStatuses,
           payout' = [payout EXCEPT ![p].status = s]
    PROVE  /\ payout' \in [Requests -> Payouts]
           /\ payout'[p].status = s /\ payout'[p].ref = payout[p].ref
           /\ payout'[p].code = payout[p].code
           /\ \A q \in Requests \ {p} : payout'[q] = payout[q]
<1> DEFINE r == [payout[p] EXCEPT !.status = s]
<1>1. r \in Payouts /\ r.status = s /\ r.ref = payout[p].ref /\ r.code = payout[p].code
  BY DEF TypeInv, TypeOK, Payouts
<1>2. payout' = [payout EXCEPT ![p] = r]
  BY DEF TypeInv, TypeOK
<1> HIDE DEF r
<1> QED BY <1>1, <1>2 DEF TypeInv, TypeOK

\* The transfer with another state is a transfer of the same request.
LEMMA StateFacts ==
    ASSUME TypeInv, NEW t \in Transfers, NEW s \in TransferStates,
           transfer' = [transfer EXCEPT ![t].state = s]
    PROVE  /\ transfer' \in [Transfers -> TransferRecords]
           /\ transfer'[t].state = s /\ transfer'[t].request = transfer[t].request
           /\ \A u \in Transfers \ {t} : transfer'[u] = transfer[u]
<1> DEFINE r == [transfer[t] EXCEPT !.state = s]
<1>1. r \in TransferRecords /\ r.state = s /\ r.request = transfer[t].request
  BY DEF TypeInv, TypeOK, TransferRecords
<1>2. transfer' = [transfer EXCEPT ![t] = r]
  BY DEF TypeInv, TypeOK
<1> HIDE DEF r
<1> QED BY <1>1, <1>2 DEF TypeInv, TypeOK

\* A request that is made or refused.
LEMMA AskStepTyped ==
    ASSUME TypeInv, NEW c \in Callers,
           Reserve(c) \/ CreatePending(c) \/ CheckBalance(c) \/ CheckAvailable(c)
    PROVE  TypeInv' /\ OthersStay(c) /\ UNCHANGED <<debits, transfer>>
           /\ calls'[c].stage \in {"idle", "create", "available", "start"}
           /\ NoNewJob
<1> DEFINE p == Request(c)
<1>0. /\ ~At(c, "idle") /\ p \in Requests /\ calls[c] \in Calls /\ calls[c].job = FALSE
      /\ \A j \in Transfers \X Events : jobs[j] \in Nat
  BY DEF Reserve, CreatePending, CheckBalance, CheckAvailable, At, Request, TypeInv, TypeOK,
         JobsHeld, Calls
<1>1. ASSUME NEW s \in {"create", "available", "start"}, NEW n \in Int,
             calls' = [calls EXCEPT ![c].stage = s, ![c].seen = n], jobs' = jobs
      PROVE  CallsOK' /\ OthersStay(c) /\ calls'[c].stage = s
  <2> DEFINE r == [calls[c] EXCEPT !.stage = s, !.seen = n]
  <2>1. r \in Calls /\ r.request = Request(c) /\ r.job = calls[c].job /\ r.stage = s
    BY <1>0 DEF Calls, Stages, Request
  <2>2. calls' = [calls EXCEPT ![c] = r]
    BY <1>0, <1>1 DEF TypeInv, TypeOK
  <2> HIDE DEF r
  <2> QED BY <1>0, <1>1, <2>1, <2>2, CallChanged
<1>2. CASE Reserve(c)
  <2>1. CallsOK' /\ OthersStay(c) /\ calls'[c].stage \in {"idle", "create"}
        /\ NoNewJob
    <3>1. CASE Return(c)
      BY <1>0, <3>1, DoneFacts, IdleFacts
    <3>2. CASE ~Return(c)
      BY <1>0, <1>1, <1>2, <3>2 DEF Reserve, NoNewJob
    <3> QED BY <3>1, <3>2
  <2> QED BY <1>2, <2>1 DEF Reserve, rows, TypeInv, TypeOK, CallsOK
<1>3. CASE CreatePending(c)
  <2>1. CallsOK' /\ OthersStay(c) /\ calls'[c].stage = "idle"
        /\ NoNewJob
    BY <1>0, <1>3, DoneFacts, IdleFacts DEF CreatePending
  <2>2. payout' \in [Requests -> Payouts]
    BY <1>0, <1>3, StatusFacts DEF CreatePending, RequestStatuses
  <2> QED BY <1>3, <2>1, <2>2 DEF CreatePending, TypeInv, TypeOK, CallsOK
<1>4. CASE CheckBalance(c)
  <2>1. CallsOK' /\ OthersStay(c) /\ calls'[c].stage = "available"
    BY <1>1, <1>4 DEF CheckBalance, TypeInv, TypeOK
  <2>2. jobs' = jobs
    BY <1>4 DEF CheckBalance
  <2> QED BY <1>0, <1>4, <2>1, <2>2 DEF CheckBalance, rows, TypeInv, TypeOK, CallsOK, NoNewJob
<1>5. CASE CheckAvailable(c)
  <2>1. CallsOK' /\ OthersStay(c) /\ calls'[c].stage \in {"idle", "start"}
        /\ NoNewJob
    <3>1. CASE Return(c)
      BY <1>0, <3>1, DoneFacts, IdleFacts
    <3>2. CASE ~Return(c)
      BY <1>0, <1>1, <1>5, <3>2 DEF CheckAvailable, NoNewJob
    <3> QED BY <3>1, <3>2
  <2> QED BY <1>5, <2>1 DEF CheckAvailable, rows, TypeInv, TypeOK, CallsOK
<1> QED BY <1>2, <1>3, <1>4, <1>5

\* A transfer is named: its request is PROCESSING and has its reference.
LEMMA StartFacts ==
    ASSUME TypeInv, NEW c \in Callers, StartTransfer(c)
    PROVE  /\ TypeInv' /\ OthersStay(c) /\ UNCHANGED <<debits, jobs>>
           /\ \E t \in Transfers :
                /\ transfer[t].state = "unused"
                /\ transfer'[t] = [request |-> Request(c), state |-> "named"]
                /\ \A u \in Transfers \ {t} : transfer'[u] = transfer[u]
                /\ payout'[Request(c)] = [status |-> "PROCESSING", ref |-> t, code |-> 0]
                /\ \A q \in Requests \ {Request(c)} : payout'[q] = payout[q]
                /\ calls'[c].stage = "send" /\ calls'[c].transfer = t
                /\ calls'[c].request = Request(c)
<1> DEFINE p == Request(c)
<1>0. /\ ~At(c, "idle") /\ p \in Requests /\ calls[c] \in Calls /\ calls[c].job = FALSE
  BY DEF StartTransfer, At, Request, TypeInv, TypeOK, JobsHeld, Calls
<1>1. PICK t \in Transfers :
        /\ transfer[t].state = "unused"
        /\ transfer' = [transfer EXCEPT ![t] = [request |-> p, state |-> "named"]]
        /\ payout' = [payout EXCEPT ![p] = [status |-> "PROCESSING", ref |-> t, code |-> 0]]
        /\ calls' = [calls EXCEPT ![c].stage = "send", ![c].transfer = t]
  BY DEF StartTransfer
<1>2. t \in 0..MaxTransfers /\ 0 \in 0..MaxTransfers
  BY BoundAssumption DEF Transfers
<1> DEFINE r == [calls[c] EXCEPT !.stage = "send", !.transfer = t]
<1>3. /\ r \in Calls /\ r.request = Request(c) /\ r.job = calls[c].job /\ r.stage = "send"
      /\ r.transfer = t
  BY <1>0, <1>2 DEF Calls, Stages, Request
<1>4. calls' = [calls EXCEPT ![c] = r]
  BY <1>0, <1>1 DEF TypeInv, TypeOK
<1> HIDE DEF r
<1>5. CallsOK' /\ calls'[c] = r /\ OthersStay(c)
  BY <1>0, <1>3, <1>4, CallChanged DEF StartTransfer
<1>6. /\ payout' \in [Requests -> Payouts]
      /\ payout'[p] = [status |-> "PROCESSING", ref |-> t, code |-> 0]
      /\ \A q \in Requests \ {p} : payout'[q] = payout[q]
  BY <1>0, <1>1, <1>2 DEF TypeInv, TypeOK, Payouts, RequestStatuses
<1>7. /\ transfer' \in [Transfers -> TransferRecords]
      /\ transfer'[t] = [request |-> p, state |-> "named"]
      /\ \A u \in Transfers \ {t} : transfer'[u] = transfer[u]
  BY <1>0, <1>1 DEF TypeInv, TypeOK, TransferRecords, TransferStates
<1>8. TypeInv'
  BY <1>5, <1>6, <1>7 DEF StartTransfer, TypeInv, TypeOK, CallsOK
<1>9. UNCHANGED <<debits, jobs>>
  BY DEF StartTransfer
<1> QED BY <1>1, <1>3, <1>5, <1>6, <1>7, <1>8, <1>9

\* Paystack's answer is what it makes of the transfer, or there is none.
LEMMA AnswerFacts ==
    ASSUME TypeInv, NEW c \in Callers, SendTransfer(c) \/ SendFails(c) \/ FinalizeTransfer(c)
    PROVE  /\ TypeInv' /\ OthersStay(c) /\ UNCHANGED <<payout, debits>> /\ NoNewJob
           /\ calls[c].transfer \in Transfers /\ calls[c].stage \in {"send", "finalize"}
           /\ \A u \in Transfers \ {calls[c].transfer} : transfer'[u] = transfer[u]
           /\ transfer'[calls[c].transfer].request = transfer[calls[c].transfer].request
           /\ transfer' # transfer =>
                /\ calls[c].stage = "finalize" => transfer[calls[c].transfer].state = "waiting"
                /\ transfer'[calls[c].transfer].state \in {"waiting", "success", "failed"}
           /\ \/ calls'[c] = Idle
              \/ calls'[c].stage = "cancel"
              \/ /\ calls'[c].stage = "outcome" /\ calls'[c].request = Request(c)
                 /\ calls'[c].transfer = calls[c].transfer
                 /\ calls'[c].event = transfer'[calls[c].transfer].state
<1> DEFINE t == calls[c].transfer
<1>0. /\ ~At(c, "idle") /\ calls[c] \in Calls /\ calls[c].job = FALSE
      /\ t \in Transfers /\ calls[c].stage \in {"send", "finalize"}
      /\ UNCHANGED <<payout, debits, balance>> /\ troubles' \in Nat
      /\ Request(c) \in Requests /\ \A j \in Transfers \X Events : jobs[j] \in Nat
  <2>1. calls[c].stage \in {"send", "finalize"}
    BY DEF SendTransfer, SendFails, FinalizeTransfer, At
  <2>2. UNCHANGED <<payout, debits, balance>> /\ troubles' \in Nat
    BY DEF SendTransfer, SendFails, FinalizeTransfer, Mishap, rows, TypeInv, TypeOK
  <2> QED BY <2>1, <2>2 DEF At, Request, TypeInv, TypeOK, JobsHeld, TransfersNamed, Calls
<1>1. ASSUME NEW s \in {"waiting", "success", "failed"},
             transfer' = [transfer EXCEPT ![t].state = s]
      PROVE  /\ transfer' \in [Transfers -> TransferRecords]
             /\ transfer'[t].state = s /\ transfer'[t].request = transfer[t].request
             /\ \A u \in Transfers \ {t} : transfer'[u] = transfer[u]
  BY <1>0, <1>1, StateFacts DEF TransferStates
<1>2. ASSUME NEW s \in {"waiting", "success", "failed"}, UNCHANGED jobs,
             calls' = [calls EXCEPT ![c].stage = "outcome", ![c].event = s]
      PROVE  /\ CallsOK' /\ OthersStay(c) /\ NoNewJob
             /\ calls'[c].stage = "outcome" /\ calls'[c].request = Request(c)
             /\ calls'[c].transfer = t /\ calls'[c].event = s
  <2> DEFINE r == [calls[c] EXCEPT !.stage = "outcome", !.event = s]
  <2>1. /\ r \in Calls /\ r.request = Request(c) /\ r.job = calls[c].job
        /\ r.stage = "outcome" /\ r.transfer = t /\ r.event = s
    BY <1>0 DEF Calls, Stages, Events, Request
  <2>2. calls' = [calls EXCEPT ![c] = r]
    BY <1>0, <1>2 DEF TypeInv, TypeOK
  <2> HIDE DEF r
  <2>3. r.stage # "idle" /\ ~r.job /\ r.transfer \in Transfers /\ jobs' = jobs
    BY <1>0, <1>2, <2>1
  <2>4. CallsOK' /\ calls'[c] = r /\ OthersStay(c)
    BY <1>0, <2>1, <2>2, <2>3, CallChanged
  <2>5. NoNewJob
    BY <1>0, <2>3 DEF NoNewJob
  <2> QED BY <2>1, <2>4, <2>5
<1>3. CASE SendTransfer(c)
  <2>1. PICK s \in {"waiting", "success", "failed"} :
          /\ transfer' = [transfer EXCEPT ![t].state = s]
          /\ calls' = [calls EXCEPT ![c].stage = "outcome", ![c].event = s]
    BY <1>3 DEF SendTransfer
  <2>2. UNCHANGED jobs /\ calls[c].stage = "send"
    BY <1>3 DEF SendTransfer, At
  <2> HIDE DEF t
  <2>3. TypeInv'
    BY <1>0, <1>1, <1>2, <2>1, <2>2 DEF TypeInv, TypeOK, CallsOK
  <2> USE DEF t
  <2> QED BY <1>0, <1>1, <1>2, <2>1, <2>2, <2>3
<1>4. CASE SendFails(c)
  <2>1. UNCHANGED jobs /\ Goto(c, "cancel") /\ calls[c].stage = "send"
    BY <1>4 DEF SendFails, At
  <2>2. CallsOK' /\ OthersStay(c) /\ calls'[c].stage = "cancel"
    BY <1>0, <2>1, GotoFacts DEF Stages
  <2>3. transfer' = transfer \/ transfer' = [transfer EXCEPT ![t].state = "waiting"]
    BY <1>4 DEF SendFails
  <2>4. /\ transfer' \in [Transfers -> TransferRecords]
        /\ transfer'[t].request = transfer[t].request
        /\ \A u \in Transfers \ {t} : transfer'[u] = transfer[u]
        /\ transfer' # transfer => transfer'[t].state = "waiting"
    BY <1>0, <1>1, <2>3 DEF TypeInv, TypeOK
  <2>5. TypeInv'
    BY <1>0, <2>2, <2>4 DEF TypeInv, TypeOK, CallsOK
  <2> QED BY <1>0, <2>1, <2>2, <2>4, <2>5 DEF NoNewJob
<1>5. CASE FinalizeTransfer(c)
  <2>0. calls[c].stage = "finalize"
    BY <1>5 DEF FinalizeTransfer, At
  <2>1. CASE Return(c) /\ UNCHANGED transfer
    <3>1. CallsOK' /\ OthersStay(c) /\ calls'[c] = Idle /\ NoNewJob
      BY <1>0, <2>1, DoneFacts
    <3>2. TypeInv'
      BY <1>0, <2>1, <3>1 DEF TypeInv, TypeOK, CallsOK
    <3> QED BY <1>0, <2>1, <3>1, <3>2
  <2>2. CASE ~(Return(c) /\ UNCHANGED transfer)
    <3>1. PICK s \in {"waiting", "success", "failed"} :
            /\ transfer' = [transfer EXCEPT ![t].state = s]
            /\ calls' = [calls EXCEPT ![c].stage = "outcome", ![c].event = s]
      BY <1>5, <2>2 DEF FinalizeTransfer
    <3>2. UNCHANGED jobs /\ transfer[t].state = "waiting"
      BY <1>5, <2>2 DEF FinalizeTransfer
    <3> HIDE DEF t
    <3>3. TypeInv'
      BY <1>0, <1>1, <1>2, <3>1, <3>2 DEF TypeInv, TypeOK, CallsOK
    <3> USE DEF t
    <3> QED BY <1>0, <1>1, <1>2, <2>0, <3>1, <3>2, <3>3
  <2> QED BY <2>1, <2>2
<1> QED BY <1>3, <1>4, <1>5

\* A request that is given up becomes CANCELLED or REJECTED.
LEMMA GiveUpFacts ==
    ASSUME TypeInv, NEW c \in Callers, CancelRequest(c) \/ RejectTransfer(c)
    PROVE  /\ TypeInv' /\ OthersStay(c) /\ UNCHANGED <<debits, transfer>> /\ NoNewJob
           /\ calls'[c] = Idle
           /\ \A q \in Requests : /\ payout'[q].ref = payout[q].ref
                                  /\ payout'[q].code = payout[q].code
                                  /\ payout'[q].status # payout[q].status
                                       => payout'[q].status # "COMPLETED"
<1> DEFINE p == Request(c)
<1>1. /\ ~At(c, "idle") /\ p \in Requests /\ Return(c)
      /\ UNCHANGED <<balance, debits, transfer, troubles>>
  BY DEF CancelRequest, RejectTransfer, At, Request, TypeInv, TypeOK
<1>2. PICK s \in {"CANCELLED", "REJECTED"} : payout' = [payout EXCEPT ![p].status = s]
  BY DEF CancelRequest, RejectTransfer
<1>3. CallsOK' /\ OthersStay(c) /\ calls'[c] = Idle /\ NoNewJob
  BY <1>1, DoneFacts
<1>4. /\ payout' \in [Requests -> Payouts]
      /\ payout'[p].status = s /\ payout'[p].ref = payout[p].ref
      /\ payout'[p].code = payout[p].code
      /\ \A q \in Requests \ {p} : payout'[q] = payout[q]
  BY <1>1, <1>2, StatusFacts DEF RequestStatuses
<1>5. TypeInv'
  BY <1>1, <1>3, <1>4 DEF TypeInv, TypeOK, CallsOK
<1> HIDE DEF p
<1> QED BY <1>1, <1>3, <1>4, <1>5

\* An answer is written down as the request's code, and settled when it is final.
LEMMA OutcomeFacts ==
    ASSUME TypeInv, NEW c \in Callers, HandleTransferOutcome(c)
    PROVE  /\ TypeInv' /\ OthersStay(c) /\ UNCHANGED <<debits, transfer>> /\ NoNewJob
           /\ calls[c].stage = "outcome"
           /\ \A q \in Requests : /\ payout'[q].status = payout[q].status
                                  /\ payout'[q].ref = payout[q].ref
                                  /\ \/ payout'[q].code = payout[q].code
                                     \/ q = Request(c) /\ payout'[q].code = calls[c].transfer
           /\ calls'[c].stage \in {"idle", "reject", "complete"}
           /\ calls'[c].stage = "complete" =>
                calls[c].event = "success" /\ calls'[c].request = Request(c)
<1> DEFINE p == Request(c)
           r == [payout[p] EXCEPT !.code = calls[c].transfer]
<1>1. /\ ~At(c, "idle") /\ p \in Requests /\ calls[c].job = FALSE /\ calls[c].stage = "outcome"
      /\ calls[c].transfer \in 0..MaxTransfers
      /\ \A j \in Transfers \X Events : jobs[j] \in Nat
  BY DEF HandleTransferOutcome, At, Request, TypeInv, TypeOK, JobsHeld, Calls
<1>2. /\ r \in Payouts /\ r.status = payout[p].status /\ r.ref = payout[p].ref
      /\ r.code = calls[c].transfer
  BY <1>1 DEF TypeInv, TypeOK, Payouts
<1>3. payout' = [payout EXCEPT ![p] = r]
  BY <1>1 DEF HandleTransferOutcome, TypeInv, TypeOK
<1>4. UNCHANGED <<balance, debits, transfer, troubles>>
  BY DEF HandleTransferOutcome
<1> HIDE DEF r
<1>5. payout' \in [Requests -> Payouts] /\ \A q \in Requests : payout'[q] = IF q = p THEN r ELSE payout[q]
  BY <1>1, <1>2, <1>3 DEF TypeInv, TypeOK
<1>6. /\ CallsOK' /\ OthersStay(c) /\ NoNewJob
      /\ calls'[c].stage \in {"idle", "reject", "complete"}
      /\ calls'[c].stage = "complete" =>
           calls[c].event = "success" /\ calls'[c].request = Request(c)
  <2>1. CASE Return(c)
    BY <1>1, <2>1, DoneFacts, IdleFacts
  <2>2. CASE ~Return(c)
    <3>1. PICK stage \in {"reject", "complete"} :
            /\ Goto(c, stage) /\ jobs' = jobs
            /\ stage = "complete" => calls[c].event = "success"
      BY <2>2 DEF HandleTransferOutcome
    <3>2. /\ CallsOK' /\ OthersStay(c)
          /\ calls'[c].stage = stage /\ calls'[c].request = calls[c].request
      BY <1>1, <3>1, GotoFacts DEF Stages
    <3>3. NoNewJob
      BY <1>1, <3>1 DEF NoNewJob
    <3> QED BY <3>1, <3>2, <3>3 DEF Request
  <2> QED BY <2>1, <2>2
<1>7. TypeInv'
  BY <1>4, <1>5, <1>6 DEF TypeInv, TypeOK, CallsOK
<1> HIDE DEF p
<1> QED BY <1>1, <1>2, <1>4, <1>5, <1>6, <1>7 DEF p

\* Settling first reads, and changes nothing.
LEMMA ReadFacts ==
    ASSUME TypeInv, NEW c \in Callers, CompleteTransfer(c)
    PROVE  /\ TypeInv' /\ OthersStay(c) /\ UNCHANGED <<payout, debits, transfer>> /\ NoNewJob
           /\ calls[c].stage = "complete"
           /\ calls'[c].stage \in {"idle", "debit"}
           /\ calls'[c].stage = "debit" => calls'[c].request = Request(c)
<1>1. /\ ~At(c, "idle") /\ calls[c].stage = "complete"
      /\ UNCHANGED <<balance, payout, debits, transfer, troubles>>
      /\ \A j \in Transfers \X Events : jobs[j] \in Nat
  BY DEF CompleteTransfer, At, rows, TypeInv, TypeOK
<1>2. /\ CallsOK' /\ OthersStay(c) /\ NoNewJob /\ calls'[c].stage \in {"idle", "debit"}
      /\ calls'[c].stage = "debit" => calls'[c].request = Request(c)
  <2>1. CASE Throw(c)
    BY <1>1, <2>1, DoneFacts, IdleFacts
  <2>2. CASE ~Throw(c)
    <3>1. Goto(c, "debit") /\ jobs' = jobs
      BY <2>2 DEF CompleteTransfer
    <3>2. /\ CallsOK' /\ OthersStay(c)
          /\ calls'[c].stage = "debit" /\ calls'[c].request = calls[c].request
      BY <1>1, <3>1, GotoFacts DEF Stages
    <3>3. NoNewJob
      BY <1>1, <3>1 DEF NoNewJob
    <3> QED BY <3>2, <3>3 DEF Request
  <2> QED BY <2>1, <2>2
<1>3. TypeInv'
  BY <1>1, <1>2 DEF TypeInv, TypeOK, CallsOK
<1> QED BY <1>1, <1>2, <1>3

\* The debit is made once, with the status.
LEMMA DebitFacts ==
    ASSUME TypeInv, NEW c \in Callers, DebitAndComplete(c)
    PROVE  /\ TypeInv' /\ OthersStay(c) /\ UNCHANGED transfer /\ NoNewJob
           /\ calls[c].stage = "debit" /\ calls'[c] = Idle
           /\ \A q \in Requests \ {Request(c)} :
                payout'[q] = payout[q] /\ debits'[q] = debits[q]
           /\ payout'[Request(c)].ref = payout[Request(c)].ref
           /\ payout'[Request(c)].code = payout[Request(c)].code
           /\ \/ /\ payout'[Request(c)].status = payout[Request(c)].status
                 /\ debits'[Request(c)] = debits[Request(c)]
              \/ debits'[Request(c)] = 1
<1> DEFINE p == Request(c)
<1>1. /\ ~At(c, "idle") /\ p \in Requests /\ calls[c].stage = "debit"
      /\ UNCHANGED <<transfer, troubles>> /\ (Return(c) \/ Throw(c))
  BY DEF DebitAndComplete, At, Request, TypeInv, TypeOK
<1>2. CallsOK' /\ OthersStay(c) /\ calls'[c] = Idle /\ NoNewJob
  BY <1>1, DoneFacts
<1>3. CASE debits[p] > 0
  <2>1. UNCHANGED <<balance, payout, debits>>
    BY <1>3 DEF DebitAndComplete, rows
  <2>2. TypeInv'
    BY <1>1, <1>2, <2>1 DEF TypeInv, TypeOK, CallsOK
  <2> QED BY <1>1, <1>2, <2>1, <2>2
<1>4. CASE ~(debits[p] > 0)
  <2>1. /\ balance' = balance - Amount[p] /\ Amount[p] \in Nat
        /\ debits' = [debits EXCEPT ![p] = @ + 1]
        /\ payout' = [payout EXCEPT ![p].status = "COMPLETED"]
    BY <1>1, <1>4, AmountAssumption DEF DebitAndComplete
  <2>2. /\ debits' \in [Requests -> Nat] /\ debits'[p] = 1
        /\ \A q \in Requests \ {p} : debits'[q] = debits[q]
    BY <1>1, <1>4, <2>1 DEF TypeInv, TypeOK
  <2>3. /\ payout' \in [Requests -> Payouts]
        /\ payout'[p].ref = payout[p].ref /\ payout'[p].code = payout[p].code
        /\ \A q \in Requests \ {p} : payout'[q] = payout[q]
    BY <1>1, <2>1, StatusFacts DEF RequestStatuses
  <2>4. balance' \in Int
    BY <2>1 DEF TypeInv, TypeOK
  <2>5. TypeInv'
    BY <1>1, <1>2, <2>2, <2>3, <2>4 DEF TypeInv, TypeOK, CallsOK
  <2> QED BY <1>1, <1>2, <2>2, <2>3, <2>5
<1> QED BY <1>3, <1>4

Begins(c) ==
    \/ \E p \in Requests :
         \/ \E auto \in BOOLEAN : CreateRequest(c, p, auto)
         \/ ProcessPendingRequest(c, p) \/ ApproveTransfer(c, p)
    \/ \E t \in Transfers, e \in Events : HandleTransferWebhook(c, t, e)

Outside ==
    \/ \E t \in Transfers : TransferEnds(t) \/ \E e \in Events : WebhookArrives(t, e)
    \/ SpendsElsewhere
    \/ \E c \in Callers : Crash(c)
    \/ UNCHANGED vars

\* A handler begins; only one told of a success goes to settle.
LEMMA NewCallFacts ==
    ASSUME TypeInv, NEW c \in Callers, Begins(c)
    PROVE  /\ TypeInv' /\ OthersStay(c) /\ UNCHANGED <<payout, debits, transfer>> /\ NoNewJob
           /\ calls'[c].stage \in {"idle", "reserve", "check", "finalize", "complete", "reject"}
           /\ calls'[c].stage = "finalize" =>
                LET p == calls'[c].request IN
                p \in Requests /\ payout[p].code # 0 /\ calls'[c].transfer = payout[p].code
           /\ calls'[c].stage = "complete" =>
                \E t \in Transfers, p \in Requests :
                  /\ calls'[c].request = p /\ payout[p].ref = t /\ jobs[<<t, "success">>] > 0
<1>1. /\ UNCHANGED <<balance, payout, debits, transfer, troubles>>
      /\ \A j \in Transfers \X Events : jobs[j] \in Nat
  BY DEF Begins, CreateRequest, ProcessPendingRequest, ApproveTransfer, HandleTransferWebhook, rows,
         TypeInv, TypeOK
<1>2. ASSUME CallsOK' PROVE TypeInv'
  BY <1>1, <1>2 DEF TypeInv, TypeOK, CallsOK
<1>3. ASSUME jobs' = jobs PROVE NoNewJob
  BY <1>1, <1>3 DEF NoNewJob
<1>4. ASSUME NEW p \in Requests, NEW auto \in BOOLEAN, CreateRequest(c, p, auto)
      PROVE  /\ CallsOK' /\ OthersStay(c) /\ NoNewJob
             /\ calls'[c].stage \in {"reserve", "check"}
  <2>0. PICK s \in {"reserve", "check"}, n \in Int :
          Begin(c, [Idle EXCEPT !.stage = s, !.request = p, !.seen = n]) /\ jobs' = jobs
    <3> DEFINE s == IF auto THEN "check" ELSE "reserve"
               n == IF auto THEN 0 ELSE balance
    <3>1. s \in {"reserve", "check"} /\ n \in Int
      BY DEF TypeInv, TypeOK
    <3>2. Begin(c, [Idle EXCEPT !.stage = s, !.request = p, !.seen = n]) /\ jobs' = jobs
      BY <1>4 DEF CreateRequest
    <3> HIDE DEF s, n
    <3> QED BY <3>1, <3>2
  <2> DEFINE r == [Idle EXCEPT !.stage = s, !.request = p, !.seen = n]
  <2>1. r \in Calls /\ r.stage \in {"reserve", "check"} /\ r.request = p /\ r.job = FALSE
    BY IdleFacts DEF Calls, Stages
  <2>2. Begin(c, r) /\ jobs' = jobs
    BY <2>0
  <2> HIDE DEF r
  <2>3. CallsOK' /\ calls'[c] = r /\ OthersStay(c)
    BY <2>1, <2>2, BeginFacts
  <2> QED BY <1>3, <2>1, <2>2, <2>3
<1>5. ASSUME NEW p \in Requests, ProcessPendingRequest(c, p)
      PROVE  CallsOK' /\ OthersStay(c) /\ NoNewJob /\ calls'[c].stage = "check"
  <2> DEFINE r == [Idle EXCEPT !.stage = "check", !.request = p]
  <2>1. r \in Calls /\ r.stage = "check" /\ r.request = p /\ r.job = FALSE
    BY IdleFacts DEF Calls, Stages
  <2>2. Begin(c, r) /\ jobs' = jobs
    BY <1>5 DEF ProcessPendingRequest
  <2> HIDE DEF r
  <2>3. CallsOK' /\ calls'[c] = r /\ OthersStay(c)
    BY <2>1, <2>2, BeginFacts
  <2> QED BY <1>3, <2>1, <2>2, <2>3
<1>6. ASSUME NEW p \in Requests, ApproveTransfer(c, p)
      PROVE  /\ CallsOK' /\ OthersStay(c) /\ NoNewJob
             /\ calls'[c].stage = "finalize" /\ calls'[c].request = p
             /\ payout[p].code # 0 /\ calls'[c].transfer = payout[p].code
  <2> DEFINE t == payout[p].code
             r == [Idle EXCEPT !.stage = "finalize", !.request = p, !.transfer = t]
  <2>0. t # 0 /\ t \in 0..MaxTransfers /\ t \in Transfers
    BY <1>6, BoundAssumption DEF ApproveTransfer, TypeInv, TypeOK, Payouts, Transfers
  <2> HIDE DEF t
  <2>1. /\ r \in Calls /\ r.stage = "finalize" /\ r.request = p /\ r.job = FALSE
        /\ r.transfer = t
    BY <2>0, IdleFacts DEF Calls, Stages
  <2> USE DEF t
  <2>2. Begin(c, r) /\ jobs' = jobs
    BY <1>6 DEF ApproveTransfer
  <2> HIDE DEF r, t
  <2>3. CallsOK' /\ calls'[c] = r /\ OthersStay(c)
    BY <2>0, <2>1, <2>2, BeginFacts
  <2> QED BY <1>3, <2>0, <2>1, <2>2, <2>3 DEF t
<1>7. ASSUME NEW t \in Transfers, NEW e \in Events, HandleTransferWebhook(c, t, e)
      PROVE  /\ CallsOK' /\ OthersStay(c) /\ NoNewJob
             /\ calls'[c].stage \in {"idle", "complete", "reject"}
             /\ calls'[c].stage = "complete" =>
                  \E p \in Requests : /\ calls'[c].request = p /\ payout[p].ref = t
                                      /\ jobs[<<t, "success">>] > 0
  <2>0. TakesJob(t, e) /\ <<t, e>> \in Transfers \X Events /\ t \in 0..MaxTransfers
    <3>1. TakesJob(t, e)
      BY <1>7 DEF HandleTransferWebhook
    <3>2. t \in 0..MaxTransfers
      BY BoundAssumption DEF Transfers
    <3> QED BY <3>1, <3>2
  <2>1. CASE \E p \in Requests :
               /\ payout[p].ref = t /\ payout[p].status # "COMPLETED"
               /\ Begin(c, [Idle EXCEPT !.stage = IF e = "success" THEN "complete" ELSE "reject",
                                        !.request = p, !.transfer = t, !.event = e,
                                        !.job = TRUE])
               /\ UNCHANGED jobs
    <3>1. PICK p \in Requests :
            /\ payout[p].ref = t
            /\ Begin(c, [Idle EXCEPT !.stage = IF e = "success" THEN "complete" ELSE "reject",
                                     !.request = p, !.transfer = t, !.event = e, !.job = TRUE])
            /\ UNCHANGED jobs
      BY <2>1
    <3> DEFINE r == [Idle EXCEPT !.stage = IF e = "success" THEN "complete" ELSE "reject",
                                 !.request = p, !.transfer = t, !.event = e, !.job = TRUE]
    <3>2. /\ r \in Calls /\ r.stage \in {"complete", "reject"} /\ r.request = p /\ r.job = TRUE
          /\ r.transfer = t /\ r.event = e /\ (r.stage = "complete" => e = "success")
      BY <2>0, IdleFacts DEF Calls, Stages
    <3>3. Begin(c, r) /\ jobs' = jobs
      BY <3>1
    <3> HIDE DEF r
    <3>4. CallsOK' /\ calls'[c] = r /\ OthersStay(c)
      BY <2>0, <3>2, <3>3, BeginFacts
    <3>5. NoNewJob
      BY <1>3, <3>3
    <3>6. calls'[c].stage = "complete" => jobs[<<t, "success">>] > 0
      BY <2>0, <3>2, <3>4 DEF TakesJob
    <3> QED BY <3>1, <3>2, <3>4, <3>5, <3>6
  <2>2. CASE At(c, "idle") /\ jobs' = [jobs EXCEPT ![<<t, e>>] = 0] /\ UNCHANGED calls
    <3>1. /\ jobs' \in [Transfers \X Events -> Nat]
          /\ \A j \in Transfers \X Events : jobs'[j] = IF j = <<t, e>> THEN 0 ELSE jobs[j]
      BY <2>0, <2>2 DEF TypeInv, TypeOK
    <3>2. NoNewJob
      BY <1>1, <3>1 DEF NoNewJob
    <3>3. \A d \in Callers : calls[d].job =>
            /\ <<calls[d].transfer, calls[d].event>> # <<t, e>>
            /\ <<calls[d].transfer, calls[d].event>> \in Transfers \X Events
      BY <2>0 DEF TakesJob, TypeInv, JobsHeld
    <3>4. JobsHeld'
      BY <2>2, <3>1, <3>3 DEF TypeInv, JobsHeld
    <3>5. CallsOK' /\ OthersStay(c)
      BY <2>2, <3>1, <3>4 DEF TypeInv, TypeOK, TransfersNamed, CallsOK, OthersStay
    <3> QED BY <2>2, <3>2, <3>5 DEF At
  <2> QED BY <1>7, <2>1, <2>2 DEF HandleTransferWebhook
<1>8. CASE \E p \in Requests :
             \/ \E auto \in BOOLEAN : CreateRequest(c, p, auto)
             \/ ProcessPendingRequest(c, p) \/ ApproveTransfer(c, p)
  BY <1>1, <1>2, <1>4, <1>5, <1>6, <1>8
<1>9. CASE \E t \in Transfers, e \in Events : HandleTransferWebhook(c, t, e)
  BY <1>1, <1>2, <1>7, <1>9
<1> QED BY <1>8, <1>9 DEF Begins

\* Outside the handlers only Paystack's transfers go on, and a webhook tells the truth.
LEMMA OutsideFacts ==
    ASSUME TypeInv, Outside
    PROVE  /\ TypeInv' /\ UNCHANGED <<payout, debits>>
           /\ \A d \in Callers : calls'[d] = calls[d] \/ calls'[d] = Idle
           /\ \A t \in Transfers :
                /\ transfer'[t].request = transfer[t].request
                /\ \/ transfer'[t].state = transfer[t].state
                   \/ /\ transfer[t].state = "waiting" \/ transfer'[t].state = "reversed"
                      /\ transfer[t].state \in {"waiting", "success"}
                      /\ transfer'[t].state # "unused"
                /\ jobs'[<<t, "success">>] > 0 =>
                     \/ jobs[<<t, "success">>] > 0
                     \/ transfer'[t].state \in {"success", "reversed"}
<1>1. ASSUME NEW t \in Transfers, TransferEnds(t)
      PROVE  /\ TypeInv' /\ UNCHANGED <<payout, debits, jobs, calls>>
             /\ \A u \in Transfers :
                  /\ transfer'[u].request = transfer[u].request
                  /\ \/ transfer'[u].state = transfer[u].state
                     \/ /\ transfer[u].state = "waiting" \/ transfer'[u].state = "reversed"
                        /\ transfer[u].state \in {"waiting", "success"}
                        /\ transfer'[u].state # "unused"
  <2>1. PICK s \in Events : /\ transfer[t].state = IF s = "reversed" THEN "success" ELSE "waiting"
                            /\ transfer' = [transfer EXCEPT ![t].state = s]
    BY <1>1 DEF TransferEnds
  <2>2. s \in TransferStates /\ s # "unused"
    BY DEF Events, TransferStates
  <2>3. /\ transfer' \in [Transfers -> TransferRecords]
        /\ transfer'[t].state = s /\ transfer'[t].request = transfer[t].request
        /\ \A u \in Transfers \ {t} : transfer'[u] = transfer[u]
    BY <2>1, <2>2, StateFacts
  <2>4. UNCHANGED <<balance, payout, debits, jobs, calls, troubles>>
    BY <1>1 DEF TransferEnds, rows
  <2>5. TypeInv'
    BY <2>3, <2>4 DEF TypeInv, TypeOK, JobsHeld, TransfersNamed
  <2> QED BY <2>1, <2>2, <2>3, <2>4, <2>5
<1>2. ASSUME NEW t \in Transfers, NEW e \in Events, WebhookArrives(t, e)
      PROVE  /\ TypeInv' /\ UNCHANGED <<payout, debits, transfer, calls>>
             /\ \A u \in Transfers :
                  jobs'[<<u, "success">>] > 0 =>
                    \/ jobs[<<u, "success">>] > 0
                    \/ transfer[u].state \in {"success", "reversed"}
  <2>1. UNCHANGED <<balance, payout, debits, transfer, calls, troubles>>
    BY <1>2 DEF WebhookArrives, rows
  <2>2. /\ jobs[<<t, e>>] = 0 /\ <<t, e>> \in Transfers \X Events
        /\ e = "success" => transfer[t].state \in {"success", "reversed"}
    BY <1>2 DEF WebhookArrives
  <2>3. /\ jobs' \in [Transfers \X Events -> Nat]
        /\ \A j \in Transfers \X Events : jobs'[j] = IF j = <<t, e>> THEN Attempts ELSE jobs[j]
    BY <1>2, <2>2, BoundAssumption DEF WebhookArrives, TypeInv, TypeOK
  <2>4. \A d \in Callers : calls[d].job =>
          /\ <<calls[d].transfer, calls[d].event>> \in Transfers \X Events
          /\ jobs[<<calls[d].transfer, calls[d].event>>] > 0
          /\ jobs'[<<calls[d].transfer, calls[d].event>>] > 0
    <3>1. ASSUME NEW d \in Callers, calls[d].job
          PROVE  /\ <<calls[d].transfer, calls[d].event>> \in Transfers \X Events
                 /\ jobs[<<calls[d].transfer, calls[d].event>>] > 0
      BY <3>1 DEF TypeInv, JobsHeld
    <3>2. ASSUME NEW d \in Callers, calls[d].job
          PROVE  <<calls[d].transfer, calls[d].event>> # <<t, e>>
      BY <2>2, <3>1, <3>2
    <3> QED BY <2>3, <3>1, <3>2
  <2>5. JobsHeld'
    BY <2>1, <2>4 DEF TypeInv, JobsHeld
  <2>6. TypeInv'
    BY <2>1, <2>3, <2>5 DEF TypeInv, TypeOK, TransfersNamed
  <2>7. \A u \in Transfers : <<u, "success">> \in Transfers \X Events
    BY DEF Events
  <2>8. ASSUME NEW u \in Transfers, jobs'[<<u, "success">>] > 0
        PROVE  jobs[<<u, "success">>] > 0 \/ transfer[u].state \in {"success", "reversed"}
    <3>1. CASE <<u, "success">> = <<t, e>>
      BY <2>2, <3>1
    <3>2. CASE <<u, "success">> # <<t, e>>
      BY <2>3, <2>7, <2>8, <3>2
    <3> QED BY <3>1, <3>2
  <2> QED BY <2>1, <2>6, <2>8
<1>3. ASSUME SpendsElsewhere \/ UNCHANGED vars
      PROVE  TypeInv' /\ UNCHANGED <<payout, debits, transfer, jobs, calls>>
  <2>1. UNCHANGED <<payout, debits, transfer, jobs, calls>> /\ balance' \in Int /\ troubles' \in Nat
    BY <1>3 DEF SpendsElsewhere, Mishap, vars, rows, TypeInv, TypeOK
  <2> QED BY <2>1 DEF TypeInv, TypeOK, JobsHeld, TransfersNamed
<1>4. ASSUME NEW c \in Callers, Crash(c)
      PROVE  /\ TypeInv' /\ UNCHANGED <<payout, debits, transfer, jobs>>
             /\ calls'[c] = Idle /\ OthersStay(c)
  <2>1. /\ calls' \in [Callers -> Calls] /\ calls'[c] = Idle /\ OthersStay(c)
        /\ UNCHANGED <<balance, payout, debits, transfer, jobs>> /\ troubles' \in Nat
    BY <1>4, IdleFacts DEF Crash, Mishap, rows, TypeInv, TypeOK, OthersStay
  <2>2. \A d \in Callers : calls'[d].job => d # c /\ calls'[d] = calls[d]
    BY <2>1, IdleFacts DEF OthersStay
  <2>3. JobsHeld'
    BY <2>1, <2>2 DEF TypeInv, JobsHeld
  <2>4. /\ TransfersNamed'
        /\ \A d \in Callers : calls'[d].stage # "idle" => calls'[d].request \in Requests
    BY <2>1, IdleFacts DEF TypeInv, TypeOK, TransfersNamed, OthersStay
  <2> QED BY <2>1, <2>3, <2>4 DEF TypeInv, TypeOK
<1>5. CASE \E t \in Transfers : TransferEnds(t)
  BY <1>1, <1>5
<1>6. CASE \E t \in Transfers, e \in Events : WebhookArrives(t, e)
  BY <1>2, <1>6
<1>7. CASE SpendsElsewhere \/ UNCHANGED vars
  BY <1>3, <1>7
<1>8. CASE \E c \in Callers : Crash(c)
  BY <1>4, <1>8 DEF OthersStay
<1> QED BY <1>5, <1>6, <1>7, <1>8 DEF Outside

\* Every step keeps the types.
LEMMA StepTyped == TypeInv /\ [Next]_vars => TypeInv'
<1> SUFFICES ASSUME TypeInv, [Next]_vars PROVE TypeInv'
  OBVIOUS
<1>1. ASSUME NEW c \in Callers, CallStep(c) PROVE TypeInv'
  BY <1>1, AskStepTyped, StartFacts, AnswerFacts, GiveUpFacts, OutcomeFacts, ReadFacts,
     DebitFacts DEF CallStep
<1>2. ASSUME NEW c \in Callers, Begins(c) PROVE TypeInv'
  BY <1>2, NewCallFacts
<1>3. CASE Outside
  BY <1>3, OutsideFacts
<1> QED BY <1>1, <1>2, <1>3 DEF Next, AdminRequest, Begins, Outside

LEMMA AlwaysTyped == Spec => []TypeInv
BY InitTyped, StepTyped, PTL DEF Spec

\* Every row, transfer, job and handler keeps its type: no job is tried more often than it
\* has attempts, and no handler is at work for nobody.
THEOREM TypeCorrect == Spec => []TypeOK
<1>1. TypeInv => TypeOK
  BY DEF TypeInv
<1> QED BY <1>1, AlwaysTyped, PTL

-----------------------------------------------------------------------------
(* The wallet pays once, and only for what went out.                       *)

Paid(t)    == transfer[t].state \in {"success", "reversed"}
PaidFor(p) == \E t \in Transfers : transfer[t].request = p /\ Paid(t)

\* What a request's row names is a transfer of that request.
Account(p) ==
    /\ payout[p].ref # 0 => transfer[payout[p].ref].request = p
    /\ payout[p].code # 0 => transfer[payout[p].code].request = p
    /\ debits[p] > 0 => debits[p] = 1 /\ PaidFor(p)
    /\ payout[p].status = "COMPLETED" => debits[p] = 1

\* Webhooks tell the truth, and a reference not used yet belongs to nobody.
Told(t) ==
    /\ transfer[t].state = "unused" => transfer[t].request = NoRequest
    /\ jobs[<<t, "success">>] > 0 => Paid(t)

\* What a handler was told is about its own request, and so is what it settles.
Informed(c) ==
    LET call == calls[c]  t == call.transfer IN
    /\ call.stage \in {"send", "finalize", "outcome"} => transfer[t].request = call.request
    /\ call.stage = "send" => transfer[t].state = "named"
    /\ call.stage = "outcome" /\ call.event = "success" => Paid(t)
    /\ call.stage \in {"complete", "debit"} => PaidFor(call.request)

OneSender ==
    \A c, d \in Callers : /\ calls[c].stage = "send" /\ calls[d].stage = "send"
                          /\ calls[c].transfer = calls[d].transfer
                          => c = d

MoneyInv ==
    /\ \A p \in Requests : Account(p)
    /\ \A t \in Transfers : Told(t)
    /\ \A c \in Callers : Informed(c)
    /\ OneSender

\* What no step undoes: money that went out, and whom a transfer is for.
Kept ==
    \A t \in Transfers :
        /\ Paid(t) => transfer'[t].state \in {"success", "reversed"}
        /\ transfer[t].request # NoRequest => transfer'[t].request = transfer[t].request

\* A step may name a new transfer of a request, and complete none.
NoSettlement ==
    \A p \in Requests :
        /\ debits'[p] = debits[p]
        /\ payout'[p].status = "COMPLETED" => payout[p].status = "COMPLETED"
        /\ payout'[p].ref \in {0, payout[p].ref} \/ transfer'[payout'[p].ref].request = p
        /\ payout'[p].code \in {0, payout[p].code} \/ transfer'[payout'[p].code].request = p

\* A request that has been paid out stays so.
LEMMA PaidForKept ==
    ASSUME Kept, NEW p \in Requests, PaidFor(p)
    PROVE  PaidFor(p)'
<1>1. PICK t \in Transfers : transfer[t].request = p /\ Paid(t)
  BY DEF PaidFor
<1>2. transfer'[t].request = p /\ transfer'[t].state \in {"success", "reversed"}
  BY <1>1, NoRequestAssumption DEF Kept
<1> QED BY <1>2 DEF PaidFor, Paid

\* A step that settles nothing leaves the accounts right.
LEMMA AccountsKept ==
    ASSUME TypeInv, MoneyInv, Kept, NoSettlement
    PROVE  \A p \in Requests : Account(p)'
<1> SUFFICES ASSUME NEW p \in Requests PROVE Account(p)'
  OBVIOUS
<1>1. Account(p) /\ payout[p].ref \in 0..MaxTransfers /\ payout[p].code \in 0..MaxTransfers
  BY DEF MoneyInv, TypeInv, TypeOK, Payouts
<1>2. ASSUME NEW t \in 0..MaxTransfers, t # 0, transfer[t].request = p
      PROVE  transfer'[t].request = p
  BY <1>2, BoundAssumption, NoRequestAssumption DEF Kept, Transfers
<1>3. payout'[p].ref # 0 => transfer'[payout'[p].ref].request = p
  BY <1>1, <1>2 DEF NoSettlement, Account
<1>4. payout'[p].code # 0 => transfer'[payout'[p].code].request = p
  BY <1>1, <1>2 DEF NoSettlement, Account
<1>5. debits'[p] > 0 => debits'[p] = 1 /\ PaidFor(p)'
  BY <1>1, PaidForKept DEF NoSettlement, Account
<1>6. payout'[p].status = "COMPLETED" => debits'[p] = 1
  BY <1>1 DEF NoSettlement, Account
<1> QED BY <1>3, <1>4, <1>5, <1>6 DEF Account

\* A step that adds no webhook and frees no reference leaves what was told true.
LEMMA ToldKept ==
    ASSUME TypeInv, TypeInv', MoneyInv, Kept, NoNewJob,
           \A t \in Transfers : transfer'[t].state = "unused" => transfer'[t] = transfer[t]
    PROVE  \A t \in Transfers : Told(t)'
<1> SUFFICES ASSUME NEW t \in Transfers PROVE Told(t)'
  OBVIOUS
<1>1. /\ jobs'[<<t, "success">>] <= jobs[<<t, "success">>]
      /\ jobs[<<t, "success">>] \in Nat /\ jobs'[<<t, "success">>] \in Nat
  <2>1. <<t, "success">> \in Transfers \X Events
    BY DEF Events
  <2> QED BY <2>1 DEF NoNewJob, TypeInv, TypeOK
<1>2. Told(t)
  BY DEF MoneyInv
<1>3. jobs'[<<t, "success">>] > 0 => transfer'[t].state \in {"success", "reversed"}
  BY <1>1, <1>2 DEF Told, Kept
<1> QED BY <1>2, <1>3 DEF Told, Paid

\* The handlers a step does not move keep what they know.
LEMMA OthersInformed ==
    ASSUME TypeInv, MoneyInv, Kept, NEW d \in Callers, calls'[d] = calls[d],
           calls[d].stage = "send" => transfer'[calls[d].transfer].state = "named"
    PROVE  Informed(d)'
<1> DEFINE t == calls[d].transfer
<1>1. Informed(d)
  BY DEF MoneyInv
<1>2. calls[d].stage # "idle" => calls[d].request \in Requests /\ calls[d].request # NoRequest
  BY NoRequestAssumption DEF TypeInv, TypeOK
<1>3. calls[d].stage \in {"send", "finalize", "outcome"} =>
        t \in Transfers /\ transfer'[t].request = calls[d].request
  BY <1>1, <1>2 DEF TypeInv, TransfersNamed, Informed, Kept
<1>4. calls[d].stage = "outcome" /\ calls[d].event = "success" =>
        transfer'[t].state \in {"success", "reversed"}
  BY <1>1, <1>3 DEF Informed, Kept
<1>5. calls[d].stage \in {"complete", "debit"} => PaidFor(calls[d].request)'
  <2> SUFFICES ASSUME calls[d].stage \in {"complete", "debit"} PROVE PaidFor(calls[d].request)'
    OBVIOUS
  <2>1. PaidFor(calls[d].request) /\ calls[d].request \in Requests
    BY <1>1, <1>2 DEF Informed
  <2>2. PICK p \in Requests : p = calls[d].request
    BY <2>1
  <2>3. PaidFor(p)'
    BY <2>1, <2>2, PaidForKept
  <2> QED BY <2>2, <2>3 DEF PaidFor, Paid
<1>6. calls'[d].stage \in {"complete", "debit"} => PaidFor(calls[d].request)'
  BY <1>5
<1> QED BY <1>3, <1>4, <1>6 DEF Informed, Paid, PaidFor

\* A step of one handler that asks Paystack nothing and settles nothing.
LEMMA QuietKeepsMoney ==
    ASSUME TypeInv, TypeInv', MoneyInv, NEW c \in Callers, OthersStay(c), NoNewJob,
           UNCHANGED transfer, NoSettlement, calls'[c].stage # "send", Informed(c)'
    PROVE  MoneyInv'
<1>1. Kept
  BY DEF Kept, Paid
<1>2. \A d \in Callers : Informed(d)'
  <2> SUFFICES ASSUME NEW d \in Callers \ {c} PROVE Informed(d)'
    OBVIOUS
  <2>1. calls'[d] = calls[d] /\ (calls[d].stage = "send" => transfer'[calls[d].transfer].state = "named")
    BY DEF OthersStay, MoneyInv, Informed
  <2> QED BY <1>1, <2>1, OthersInformed
<1>3. OneSender'
  BY DEF OthersStay, MoneyInv, OneSender
<1>4. \A p \in Requests : Account(p)'
  BY <1>1, AccountsKept
<1>5. \A t \in Transfers : Told(t)'
  BY <1>1, ToldKept
<1> QED BY <1>2, <1>3, <1>4, <1>5 DEF MoneyInv

\* Asking for a payout writes PENDING at most.
LEMMA AskKeepsMoney ==
    ASSUME TypeInv, TypeInv', MoneyInv, NEW c \in Callers,
           Reserve(c) \/ CreatePending(c) \/ CheckBalance(c) \/ CheckAvailable(c)
    PROVE  MoneyInv'
<1>1. /\ OthersStay(c) /\ UNCHANGED <<debits, transfer>> /\ NoNewJob
      /\ calls'[c].stage \in {"idle", "create", "available", "start"}
  BY AskStepTyped
<1>2. Informed(c)'
  BY <1>1 DEF Informed
<1>3. NoSettlement
  <2>1. CASE CreatePending(c)
    <3>1. Request(c) \in Requests /\ payout' = [payout EXCEPT ![Request(c)].status = "PENDING"]
      BY <2>1 DEF CreatePending, At, Request, TypeInv, TypeOK
    <3> DEFINE p == Request(c)
    <3>2. /\ payout'[p].status = "PENDING" /\ payout'[p].ref = payout[p].ref
          /\ payout'[p].code = payout[p].code
          /\ \A q \in Requests \ {p} : payout'[q] = payout[q]
      BY <3>1, StatusFacts DEF RequestStatuses
    <3> HIDE DEF p
    <3> QED BY <1>1, <3>2 DEF NoSettlement
  <2>2. CASE ~CreatePending(c)
    <3>1. UNCHANGED payout
      BY <2>2 DEF Reserve, CheckBalance, CheckAvailable, rows
    <3> QED BY <1>1, <3>1 DEF NoSettlement
  <2> QED BY <2>1, <2>2
<1> QED BY <1>1, <1>2, <1>3, QuietKeepsMoney

\* A new transfer belongs to the request that names it, and to one sender.
LEMMA StartKeepsMoney ==
    ASSUME TypeInv, TypeInv', MoneyInv, NEW c \in Callers, StartTransfer(c)
    PROVE  MoneyInv'
<1> DEFINE p == Request(c)
<1>1. /\ OthersStay(c) /\ UNCHANGED <<debits, jobs>> /\ p \in Requests
  BY StartFacts DEF StartTransfer, At, Request, TypeInv, TypeOK
<1>2. PICK t \in Transfers :
        /\ transfer[t].state = "unused"
        /\ transfer'[t] = [request |-> p, state |-> "named"]
        /\ \A u \in Transfers \ {t} : transfer'[u] = transfer[u]
        /\ payout'[p] = [status |-> "PROCESSING", ref |-> t, code |-> 0]
        /\ \A q \in Requests \ {p} : payout'[q] = payout[q]
        /\ calls'[c].stage = "send" /\ calls'[c].transfer = t
        /\ calls'[c].request = p
  BY StartFacts
<1> HIDE DEF p
<1>3. transfer[t].request = NoRequest /\ ~Paid(t)
  BY <1>2 DEF MoneyInv, Told, Paid
<1>4. Kept
  BY <1>2, <1>3 DEF Kept, Paid
<1>5. NoSettlement
  BY <1>1, <1>2 DEF NoSettlement
<1>6. NoNewJob
  <2>1. \A j \in Transfers \X Events : jobs[j] \in Nat
    BY DEF TypeInv, TypeOK
  <2> QED BY <1>1, <2>1 DEF NoNewJob
<1>7. \A u \in Transfers : transfer'[u].state = "unused" => transfer'[u] = transfer[u]
  BY <1>2
<1>8. \A d \in Callers \ {c} : calls[d].stage = "send" =>
        calls[d].transfer # t /\ transfer'[calls[d].transfer].state = "named"
  BY <1>2 DEF MoneyInv, Informed, TypeInv, TransfersNamed
<1>9. \A d \in Callers : Informed(d)'
  <2>1. Informed(c)'
    BY <1>2 DEF Informed
  <2>2. ASSUME NEW d \in Callers \ {c} PROVE Informed(d)'
    BY <1>1, <1>4, <1>8, OthersInformed DEF OthersStay
  <2> QED BY <2>1, <2>2
<1>10. OneSender'
  BY <1>1, <1>2, <1>8 DEF OthersStay, MoneyInv, OneSender
<1>11. (\A q \in Requests : Account(q)') /\ (\A u \in Transfers : Told(u)')
  BY <1>4, <1>5, <1>6, <1>7, AccountsKept, ToldKept
<1> QED BY <1>9, <1>10, <1>11 DEF MoneyInv

\* An answer is about the transfer asked for, which was not paid before.
LEMMA AnswerKeepsMoney ==
    ASSUME TypeInv, TypeInv', MoneyInv, NEW c \in Callers,
           SendTransfer(c) \/ SendFails(c) \/ FinalizeTransfer(c)
    PROVE  MoneyInv'
<1> DEFINE t == calls[c].transfer
<1>1. /\ OthersStay(c) /\ UNCHANGED <<payout, debits>> /\ NoNewJob
      /\ t \in Transfers /\ calls[c].stage \in {"send", "finalize"}
      /\ \A u \in Transfers \ {t} : transfer'[u] = transfer[u]
      /\ transfer'[t].request = transfer[t].request
      /\ transfer' # transfer =>
           /\ calls[c].stage = "finalize" => transfer[t].state = "waiting"
           /\ transfer'[t].state \in {"waiting", "success", "failed"}
      /\ \/ calls'[c] = Idle
         \/ calls'[c].stage = "cancel"
         \/ /\ calls'[c].stage = "outcome" /\ calls'[c].request = Request(c)
            /\ calls'[c].transfer = t
            /\ calls'[c].event = transfer'[t].state
  BY AnswerFacts
<1>2. /\ transfer[t].request = Request(c)
      /\ calls[c].stage = "send" => transfer[t].state = "named"
  BY <1>1 DEF MoneyInv, Informed, Request
<1> HIDE DEF t
<1>3. transfer' # transfer => transfer[t].state \in {"named", "waiting"}
  BY <1>1, <1>2
<1>4. Kept
  BY <1>1, <1>3 DEF Kept, Paid
<1>5. NoSettlement
  BY <1>1 DEF NoSettlement
<1>6. \A u \in Transfers : transfer'[u].state = "unused" => transfer'[u] = transfer[u]
  BY <1>1
<1>7. ASSUME NEW d \in Callers \ {c}, calls[d].stage = "send"
      PROVE  transfer'[calls[d].transfer].state = "named"
  <2>1. transfer[calls[d].transfer].state = "named" /\ calls[d].transfer \in Transfers
    BY <1>7 DEF MoneyInv, Informed, TypeInv, TransfersNamed
  <2>2. CASE transfer' = transfer
    BY <2>1, <2>2
  <2>3. CASE transfer' # transfer
    <3>1. calls[d].transfer # t
      BY <1>1, <1>7, <2>1, <2>3 DEF MoneyInv, OneSender, t
    <3> QED BY <1>1, <2>1, <3>1
  <2> QED BY <2>2, <2>3
<1>8. \A d \in Callers : Informed(d)'
  <2>1. Informed(c)'
    BY <1>1, <1>2, IdleFacts DEF Informed, Paid
  <2>2. ASSUME NEW d \in Callers \ {c} PROVE Informed(d)'
    BY <1>1, <1>4, <1>7, OthersInformed DEF OthersStay
  <2> QED BY <2>1, <2>2
<1>9. calls'[c].stage # "send"
  BY <1>1, IdleFacts
<1>10. OneSender'
  BY <1>1, <1>9 DEF OthersStay, MoneyInv, OneSender
<1>11. (\A q \in Requests : Account(q)') /\ (\A u \in Transfers : Told(u)')
  BY <1>1, <1>4, <1>5, <1>6, AccountsKept, ToldKept
<1> QED BY <1>8, <1>10, <1>11 DEF MoneyInv

\* Giving up, writing the code down and reading settle nothing.
LEMMA UnsettledKeepsMoney ==
    ASSUME TypeInv, TypeInv', MoneyInv, NEW c \in Callers,
           \/ CancelRequest(c) \/ RejectTransfer(c) \/ HandleTransferOutcome(c)
           \/ CompleteTransfer(c)
    PROVE  MoneyInv'
<1>1. CASE CancelRequest(c) \/ RejectTransfer(c)
  <2>1. /\ OthersStay(c) /\ UNCHANGED <<debits, transfer>> /\ NoNewJob /\ calls'[c] = Idle
        /\ NoSettlement
    BY <1>1, GiveUpFacts DEF NoSettlement
  <2>2. Informed(c)' /\ calls'[c].stage # "send"
    BY <2>1, IdleFacts DEF Informed
  <2> QED BY <2>1, <2>2, QuietKeepsMoney
<1>2. CASE HandleTransferOutcome(c)
  <2>1. /\ OthersStay(c) /\ UNCHANGED <<debits, transfer>> /\ NoNewJob
        /\ calls[c].stage = "outcome"
        /\ calls'[c].stage \in {"idle", "reject", "complete"}
        /\ calls'[c].stage = "complete" =>
             calls[c].event = "success" /\ calls'[c].request = Request(c)
    BY <1>2, OutcomeFacts
  <2>2. /\ transfer[calls[c].transfer].request = Request(c) /\ calls[c].transfer \in Transfers
        /\ calls[c].event = "success" => PaidFor(Request(c))
    BY <2>1 DEF MoneyInv, Informed, TypeInv, TransfersNamed, Request, PaidFor
  <2>3. NoSettlement
    <3>1. \A q \in Requests : /\ payout'[q].status = payout[q].status
                              /\ payout'[q].ref = payout[q].ref
                              /\ \/ payout'[q].code = payout[q].code
                                 \/ q = Request(c) /\ payout'[q].code = calls[c].transfer
      BY <1>2, OutcomeFacts
    <3> QED BY <2>1, <2>2, <3>1 DEF NoSettlement
  <2>4. calls'[c].stage = "complete" => PaidFor(calls'[c].request)
    BY <2>1, <2>2
  <2>5. Informed(c)'
    BY <2>1, <2>4 DEF Informed, PaidFor, Paid
  <2> QED BY <2>1, <2>3, <2>5, QuietKeepsMoney
<1>3. CASE CompleteTransfer(c)
  <2>1. /\ OthersStay(c) /\ UNCHANGED <<payout, debits, transfer>> /\ NoNewJob
        /\ calls[c].stage = "complete"
        /\ calls'[c].stage \in {"idle", "debit"}
        /\ calls'[c].stage = "debit" => calls'[c].request = Request(c)
    BY <1>3, ReadFacts
  <2>2. NoSettlement
    BY <2>1 DEF NoSettlement
  <2>3. calls'[c].stage = "debit" => PaidFor(calls'[c].request)
    BY <2>1 DEF MoneyInv, Informed, Request
  <2>4. Informed(c)'
    BY <2>1, <2>3 DEF Informed, PaidFor, Paid
  <2> QED BY <2>1, <2>2, <2>4, QuietKeepsMoney
<1> QED BY <1>1, <1>2, <1>3

\* The debit: once, and for a request that was paid out.
LEMMA DebitKeepsMoney ==
    ASSUME TypeInv, TypeInv', MoneyInv, NEW c \in Callers, DebitAndComplete(c)
    PROVE  MoneyInv'
<1>0. PICK p \in Requests : p = Request(c)
  BY DebitFacts DEF Request, TypeInv, TypeOK
<1>1. /\ OthersStay(c) /\ UNCHANGED transfer /\ NoNewJob
      /\ calls[c].stage = "debit" /\ calls'[c] = Idle
      /\ \A q \in Requests \ {p} : payout'[q] = payout[q] /\ debits'[q] = debits[q]
      /\ payout'[p].ref = payout[p].ref
      /\ payout'[p].code = payout[p].code
      /\ \/ payout'[p].status = payout[p].status /\ debits'[p] = debits[p]
         \/ debits'[p] = 1
  BY <1>0, DebitFacts
<1>2. PaidFor(p)
  BY <1>0, <1>1 DEF MoneyInv, Informed, Request
<1>3. Kept
  BY <1>1 DEF Kept, Paid
<1>4. \A q \in Requests : PaidFor(q) => PaidFor(q)'
  BY <1>3, PaidForKept
<1>5. \A q \in Requests \ {p} : Account(q)'
  BY <1>1, <1>4 DEF MoneyInv, Account
<1>6. Account(p)'
  <2>1. Account(p) /\ PaidFor(p)'
    BY <1>2, <1>4 DEF MoneyInv
  <2>2. CASE payout'[p].status = payout[p].status /\ debits'[p] = debits[p]
    BY <1>1, <2>1, <2>2 DEF Account
  <2>3. CASE debits'[p] = 1
    BY <1>1, <2>1, <2>3 DEF Account
  <2> QED BY <1>1, <2>2, <2>3
<1>7. \A t \in Transfers : Told(t)'
  BY <1>1, <1>3, ToldKept
<1>8. \A d \in Callers : Informed(d)'
  <2>1. Informed(c)'
    BY <1>1, IdleFacts DEF Informed
  <2>2. ASSUME NEW d \in Callers \ {c} PROVE Informed(d)'
    <3>1. calls'[d] = calls[d]
          /\ (calls[d].stage = "send" => transfer'[calls[d].transfer].state = "named")
      BY <1>1 DEF OthersStay, MoneyInv, Informed
    <3> QED BY <1>3, <3>1, OthersInformed
  <2> QED BY <2>1, <2>2
<1>9. OneSender'
  BY <1>1, IdleFacts DEF OthersStay, MoneyInv, OneSender
<1>10. \A q \in Requests : Account(q)'
  BY <1>5, <1>6
<1> QED BY <1>7, <1>8, <1>9, <1>10 DEF MoneyInv

\* A new handler knows what the row or the webhook says.
LEMMA NewCallKeepsMoney ==
    ASSUME TypeInv, TypeInv', MoneyInv, NEW c \in Callers, Begins(c)
    PROVE  MoneyInv'
<1>1. /\ OthersStay(c) /\ UNCHANGED <<payout, debits, transfer>> /\ NoNewJob
      /\ calls'[c].stage \in {"idle", "reserve", "check", "finalize", "complete", "reject"}
      /\ calls'[c].stage = "finalize" =>
           LET p == calls'[c].request IN
           p \in Requests /\ payout[p].code # 0 /\ calls'[c].transfer = payout[p].code
      /\ calls'[c].stage = "complete" =>
           \E t \in Transfers, p \in Requests :
             /\ calls'[c].request = p /\ payout[p].ref = t /\ jobs[<<t, "success">>] > 0
  BY NewCallFacts
<1>2. NoSettlement
  BY <1>1 DEF NoSettlement
<1>3. calls'[c].stage = "finalize" => transfer[calls'[c].transfer].request = calls'[c].request
  BY <1>1 DEF MoneyInv, Account
<1>4. calls'[c].stage = "complete" => PaidFor(calls'[c].request)
  <2> SUFFICES ASSUME calls'[c].stage = "complete" PROVE PaidFor(calls'[c].request)
    OBVIOUS
  <2>1. PICK t \in Transfers, p \in Requests :
          calls'[c].request = p /\ payout[p].ref = t /\ jobs[<<t, "success">>] > 0
    BY <1>1
  <2>2. t # 0 /\ transfer[t].request = p /\ Paid(t)
    BY <2>1, BoundAssumption DEF MoneyInv, Account, Told, Transfers
  <2> QED BY <2>1, <2>2 DEF PaidFor
<1>5. Informed(c)'
  BY <1>1, <1>3, <1>4 DEF Informed, PaidFor, Paid
<1> QED BY <1>1, <1>2, <1>5, QuietKeepsMoney

\* Paystack takes nothing back that it paid but by a reversal, and tells of nothing else.
LEMMA OutsideKeepsMoney ==
    ASSUME TypeInv, TypeInv', MoneyInv, Outside
    PROVE  MoneyInv'
<1>1. /\ UNCHANGED <<payout, debits>>
      /\ \A d \in Callers : calls'[d] = calls[d] \/ calls'[d] = Idle
      /\ \A t \in Transfers :
           /\ transfer'[t].request = transfer[t].request
           /\ \/ transfer'[t].state = transfer[t].state
              \/ /\ transfer[t].state = "waiting" \/ transfer'[t].state = "reversed"
                 /\ transfer[t].state \in {"waiting", "success"}
                 /\ transfer'[t].state # "unused"
           /\ jobs'[<<t, "success">>] > 0 =>
                \/ jobs[<<t, "success">>] > 0
                \/ transfer'[t].state \in {"success", "reversed"}
  BY OutsideFacts
<1>2. Kept
  BY <1>1 DEF Kept, Paid
<1>3. NoSettlement
  BY <1>1 DEF NoSettlement
<1>4. \A p \in Requests : Account(p)'
  BY <1>2, <1>3, AccountsKept
<1>5. \A t \in Transfers : Told(t)'
  BY <1>1, <1>2 DEF MoneyInv, Told, Paid, Kept
<1>6. \A d \in Callers : Informed(d)'
  <2> SUFFICES ASSUME NEW d \in Callers PROVE Informed(d)'
    OBVIOUS
  <2>1. CASE calls'[d] = Idle
    BY <2>1, IdleFacts DEF Informed
  <2>2. CASE calls'[d] = calls[d]
    <3>1. calls[d].stage = "send" => transfer[calls[d].transfer].state = "named"
      BY DEF MoneyInv, Informed
    <3>2. calls[d].stage = "send" => transfer'[calls[d].transfer].state = "named"
      BY <1>1, <3>1 DEF TypeInv, TransfersNamed
    <3> QED BY <1>2, <2>2, <3>2, OthersInformed
  <2> QED BY <1>1, <2>1, <2>2
<1>7. OneSender'
  BY <1>1, IdleFacts DEF MoneyInv, OneSender
<1> QED BY <1>4, <1>5, <1>6, <1>7 DEF MoneyInv

\* With nothing asked for nothing is paid.
LEMMA InitMoney == Init => MoneyInv
<1> SUFFICES ASSUME Init PROVE MoneyInv
  OBVIOUS
<1>1. \A p \in Requests : Account(p)
  BY DEF Init, Account
<1>2. \A t \in Transfers : Told(t)
  <2> SUFFICES ASSUME NEW t \in Transfers PROVE Told(t)
    OBVIOUS
  <2>1. <<t, "success">> \in Transfers \X Events
    BY DEF Events
  <2>2. jobs[<<t, "success">>] = 0 /\ transfer[t].request = NoRequest
    BY <2>1 DEF Init
  <2> QED BY <2>2 DEF Told
<1>3. (\A c \in Callers : Informed(c)) /\ OneSender
  BY IdleFacts DEF Init, Informed, OneSender
<1> QED BY <1>1, <1>2, <1>3 DEF MoneyInv

\* Every step keeps the accounts.
LEMMA StepMoney == TypeInv /\ TypeInv' /\ MoneyInv /\ [Next]_vars => MoneyInv'
<1> SUFFICES ASSUME TypeInv, TypeInv', MoneyInv, [Next]_vars PROVE MoneyInv'
  OBVIOUS
<1>1. ASSUME NEW c \in Callers, CallStep(c) PROVE MoneyInv'
  BY <1>1, AskKeepsMoney, StartKeepsMoney, AnswerKeepsMoney, UnsettledKeepsMoney,
     DebitKeepsMoney DEF CallStep
<1>2. ASSUME NEW c \in Callers, Begins(c) PROVE MoneyInv'
  BY <1>2, NewCallKeepsMoney
<1>3. CASE Outside
  BY <1>3, OutsideKeepsMoney
<1> QED BY <1>1, <1>2, <1>3 DEF Next, AdminRequest, Begins, Outside

LEMMA AlwaysMoney == Spec => []MoneyInv
BY InitTyped, StepTyped, InitMoney, StepMoney, PTL DEF Spec

\* The wallet pays a request at most once, and only when a transfer of this request went
\* out, for any number of transfers, handlers, mishaps and deliveries of a webhook.
THEOREM DebitsBacked == Spec => []DebitBacked
<1>1. MoneyInv => DebitBacked
  BY DEF MoneyInv, Account, PaidFor, Paid, DebitBacked
<1> QED BY <1>1, AlwaysMoney, PTL

\* No request says COMPLETED without the debit, whatever else is written to its row.
THEOREM CompletedHasDebit == Spec => []CompletedIsDebited
<1>1. MoneyInv => CompletedIsDebited
  BY DEF MoneyInv, Account, CompletedIsDebited
<1> QED BY <1>1, AlwaysMoney, PTL

=============================================================================
