--------------------------- MODULE DispatchProofs ---------------------------
(***************************************************************************)
(* Proofs about Dispatch, for every set of bookings and beauticians, every *)
(* cap on live offers and every bound.                                     *)
(*                                                                         *)
(* The results rest on four inductive invariants: TypeInv, and relative to *)
(* it AssignInv, ExhaustInv and CapInv.  A flow reads, lets others run and *)
(* writes: so each conjunct says what a flow between its read and its      *)
(* write can still rely on.                                                *)
(***************************************************************************)
EXTENDS Dispatch, FiniteSetTheorems, TLAPS

\* An offer in use belongs to a booking and a beautician.
OffersNamed ==
    \A o \in OfferIds : offers[o].status # "NONE" =>
        offers[o].booking \in Bookings /\ offers[o].worker \in Beauticians

\* A pass about to insert has a beautician; one that has inserted has its offer.
PassesReady ==
    \A b \in Bookings :
        /\ pass[b].stage = "insert" => pass[b].pick \in Beauticians
        /\ pass[b].stage \in {"offering", "offeringWrite", "schedule"} =>
              pass[b].offer \in OfferIds

\* A job in progress has a beautician.
AssignedHasWorker ==
    \A b \in Bookings : status[b] = "ASSIGNED" => assignee[b] \in Beauticians

\* A flow works on offers that exist.
CallsOnOffers ==
    \A c \in calls : \A o \in c.offers : offers[o].status # "NONE"

TypeInv == TypeOK /\ OffersNamed /\ PassesReady /\ AssignedHasWorker /\ CallsOnOffers

Won(o) == offers[o].status = "ACCEPTED" /\ ~offers[o].forced

\* A booking that still waits has not been won.
WaitingNotWon ==
    \A o \in OfferIds : Won(o) => status[offers[o].booking] # "PENDING_ASSIGNMENT"

\* While an accept on its way to its commit can still succeed, nobody has the booking.
CommitsAreFirst ==
    \A c \in calls : \A o \in c.offers :
        c.stage = "commit" /\ Offered(o) =>
            /\ status[offers[o].booking] # "ASSIGNED"
            /\ \A p \in OfferIds : Won(p) => offers[p].booking # offers[o].booking

AssignInv == WaitingNotWon /\ CommitsAreFirst /\ OneWinner

\* A pass at work runs for a booking that has not given up.
PassNotExhausted ==
    \A b \in Bookings : pass[b].stage \notin {"idle", "release"} => ~exhausted[b]

\* All slots open, or about to give up: no offer of the booking is live.
NobodyThinking ==
    \A b \in Bookings :
        \/ pass[b].stage \in {"noCandidate", "exhaust", "exhaustWrite"}
        \/ pass[b].stage \in {"prepare", "prepareWrite", "search"} /\ pass[b].slots = Cap
        => \A o \in OfferIds : LiveOffer(o) => offers[o].booking # b

ExhaustInv == PassNotExhausted /\ NobodyThinking /\ ExhaustedHasNoLiveOffer

\* A pass about to insert has room for one more, for a beautician without one.
RoomToInsert ==
    \A b \in Bookings : pass[b].stage = "insert" =>
        /\ Cardinality(Live(b)) < Cap
        /\ \A o \in OfferIds : LiveOffer(o) /\ offers[o].booking = b =>
              offers[o].worker # pass[b].pick

CapInv == RoomToInsert /\ LiveOffersWithinCap

-----------------------------------------------------------------------------
(* What the helpers of the model do to the variables they change.          *)

\* A set of offers is finite, so its size is a number.
LEMMA SizeOfOffers ==
    ASSUME NEW S \in SUBSET OfferIds
    PROVE  IsFiniteSet(S) /\ Cardinality(S) \in Nat
<1>1. IsFiniteSet(1..MaxOffers)
  BY BoundAssumption, FS_Interval
<1>2. IsFiniteSet(S)
  BY <1>1, FS_Subset DEF OfferIds
<1> QED BY <1>2, FS_CardinalityType

\* Resolving offers changes only the status of the offers resolved.
LEMMA ResolvedFacts ==
    ASSUME TypeOK, NEW S, NEW to \in OfferStatuses
    PROVE  /\ Resolved(S, to) \in [OfferIds -> Offers]
           /\ \A o \in OfferIds :
                 /\ o \notin S \/ ~Offered(o) => Resolved(S, to)[o] = offers[o]
                 /\ o \in S /\ Offered(o) =>
                       Resolved(S, to)[o] = [offers[o] EXCEPT !.status = to]
BY DEF Resolved, TypeOK, Offers

\* Whose offer it is, and whether it is in use, is not touched by that.
LEMMA ResolvedSame ==
    ASSUME TypeOK, NEW S, NEW to \in OfferStatuses \ {"NONE"}
    PROVE  /\ Resolved(S, to) \in [OfferIds -> Offers]
           /\ \A o \in OfferIds : LET r == Resolved(S, to)[o] IN
                 /\ r.status \in {offers[o].status, to}
                 /\ r.status # "NONE" <=> offers[o].status # "NONE"
                 /\ r.booking = offers[o].booking /\ r.worker = offers[o].worker
                 /\ r.due = offers[o].due /\ r.forced = offers[o].forced
                 /\ r.status = to \/ r = offers[o]
<1> SUFFICES ASSUME NEW o \in OfferIds
             PROVE  LET r == Resolved(S, to)[o] IN
                      /\ r.status \in {offers[o].status, to}
                      /\ r.status # "NONE" <=> offers[o].status # "NONE"
                      /\ r.booking = offers[o].booking /\ r.worker = offers[o].worker
                      /\ r.due = offers[o].due /\ r.forced = offers[o].forced
                      /\ r.status = to \/ r = offers[o]
  BY ResolvedFacts
<1>1. offers[o] \in Offers
  BY DEF TypeOK
<1>2. CASE o \in S /\ Offered(o)
  <2> DEFINE r == [offers[o] EXCEPT !.status = to]
  <2>1. /\ r.status = to /\ r.booking = offers[o].booking /\ r.worker = offers[o].worker
        /\ r.due = offers[o].due /\ r.forced = offers[o].forced
    BY <1>1 DEF Offers
  <2>2. Resolved(S, to)[o] = r
    BY <1>2, ResolvedFacts
  <2> HIDE DEF r
  <2> QED BY <1>2, <2>1, <2>2 DEF Offered
<1>3. CASE ~(o \in S /\ Offered(o))
  <2>1. Resolved(S, to)[o] = offers[o]
    BY <1>3 DEF Resolved
  <2> QED BY <2>1
<1> QED BY <1>2, <1>3

\* A flow that goes on to another stage keeps its beautician and its offers.
LEMMA StepFacts ==
    ASSUME TypeOK, NEW c \in calls, NEW s \in CallStages, Step(c, s)
    PROVE  /\ calls' \subseteq CallRecords
           /\ \A d \in calls' : \/ d \in calls
                                \/ d.offers = c.offers /\ d.worker = c.worker /\ d.stage = s
BY DEF Step, TypeOK, CallRecords

\* A new flow has the beautician and the offers it was started with.
LEMMA StartFacts ==
    ASSUME TypeOK, NEW op \in Ops, NEW w \in Beauticians, NEW os \in SUBSET OfferIds,
           NEW s \in CallStages, Start(op, w, os, s)
    PROVE  /\ calls' \subseteq CallRecords
           /\ \A d \in calls' : \/ d \in calls
                                \/ d.offers = os /\ d.worker = w /\ d.stage = s
BY DEF Start, TypeOK, CallRecords

\* A pass that moves on to another stage keeps everything else.
LEMMA GotoFacts ==
    ASSUME TypeOK, NEW b \in Bookings, NEW s \in PassStages, Goto(b, s)
    PROVE  /\ pass' \in [Bookings -> Passes]
           /\ pass'[b].stage = s /\ pass'[b].slots = pass[b].slots
           /\ pass'[b].pick = pass[b].pick /\ pass'[b].offer = pass[b].offer
           /\ \A a \in Bookings \ {b} : pass'[a] = pass[a]
<1> DEFINE p == [pass[b] EXCEPT !.stage = s]
<1>1. pass[b] \in Passes
  BY DEF TypeOK
<1>2. /\ p \in Passes /\ p.stage = s /\ p.slots = pass[b].slots
      /\ p.pick = pass[b].pick /\ p.offer = pass[b].offer
  BY <1>1 DEF Passes
<1>3. pass' = [pass EXCEPT ![b] = p]
  BY DEF Goto
<1> HIDE DEF p
<1> QED BY <1>2, <1>3 DEF TypeOK

\* An idle pass, and one about to release its lock, are passes.
LEMMA IdleIsPass == IdlePass \in Passes
BY CapAssumption, BoundAssumption DEF IdlePass, Passes, PassStages, Reasons

\* A pass that finishes has only its lock to release.
LEMMA FinishFacts ==
    ASSUME TypeOK, NEW b \in Bookings, Finish(b)
    PROVE  /\ pass' \in [Bookings -> Passes]
           /\ pass'[b].stage = "release"
           /\ \A a \in Bookings \ {b} : pass'[a] = pass[a]
<1> DEFINE p == [IdlePass EXCEPT !.stage = "release", !.by = pass[b].by, !.made = pass[b].made]
<1>1. p \in Passes /\ p.stage = "release"
  BY IdleIsPass DEF TypeOK, Passes, PassStages, IdlePass
<1>2. pass' = [pass EXCEPT ![b] = p]
  BY DEF Finish
<1> HIDE DEF p
<1> QED BY <1>1, <1>2 DEF TypeOK

\* A trigger does nothing, or starts a pass for an idle, matchable booking.
LEMMA TriggerFacts ==
    ASSUME TypeOK, NEW b \in Bookings, NEW by \in Beauticians \cup {Nobody}
    PROVE  \/ PassAfterTrigger(b, by) = pass
           \/ /\ PassAfterTrigger(b, by) \in [Bookings -> Passes]
              /\ PassAfterTrigger(b, by)[b].stage = "count"
              /\ pass[b].stage = "idle" /\ Matchable(b)
              /\ \A a \in Bookings \ {b} : PassAfterTrigger(b, by)[a] = pass[a]
<1> DEFINE r == dispatch[b] = "OFFERING"
           p == [IdlePass EXCEPT !.stage = "count", !.by = by, !.resume = r]
<1>1. \/ PassAfterTrigger(b, by) = pass
      \/ /\ pass[b].stage = "idle" /\ Matchable(b)
         /\ PassAfterTrigger(b, by) = [pass EXCEPT ![b] = p]
  BY Zenon DEF PassAfterTrigger
<1>2. r \in BOOLEAN
  OBVIOUS
<1> HIDE DEF r
<1>3. p \in Passes /\ p.stage = "count"
  BY <1>2, IdleIsPass DEF Passes, PassStages, IdlePass
<1> HIDE DEF p
<1> QED BY <1>1, <1>3 DEF TypeOK

\* Flows stay on offers in use: no step un-uses an offer, and a new flow, if any,
\* is on offers in use.
LEMMA FlowsOnOffers ==
    ASSUME TypeInv,
           \A o \in OfferIds : offers[o].status # "NONE" => offers'[o].status # "NONE",
           \A d \in calls' : \/ d \in calls
                             \/ /\ d.offers \subseteq OfferIds
                                /\ \A o \in d.offers : offers[o].status # "NONE"
    PROVE  CallsOnOffers'
<1>1. \A c \in calls : c.offers \subseteq OfferIds
  BY DEF TypeInv, TypeOK, CallRecords
<1> QED BY <1>1 DEF TypeInv, CallsOnOffers

\* After a trigger the passes are typed and ready as before.
LEMMA TriggeredPassReady ==
    ASSUME TypeInv, NEW b \in Bookings, NEW by \in Beauticians \cup {Nobody},
           pass' = PassAfterTrigger(b, by)
    PROVE  pass' \in [Bookings -> Passes] /\ PassesReady'
<1>1. TypeOK /\ PassesReady
  BY DEF TypeInv
<1>2. CASE pass' = pass
  BY <1>1, <1>2 DEF TypeOK, PassesReady
<1>3. CASE pass' # pass
  <2>1. /\ pass' \in [Bookings -> Passes]
        /\ pass'[b].stage = "count"
        /\ \A a \in Bookings \ {b} : pass'[a] = pass[a]
    BY <1>1, <1>3, TriggerFacts
  <2> QED BY <1>1, <2>1 DEF PassesReady
<1> QED BY <1>2, <1>3

-----------------------------------------------------------------------------
(* Every variable keeps its type.                                          *)

\* What a step of b's pass preserves: everything else is unchanged or typed.
LEMMA PassStepTyped ==
    ASSUME TypeInv, NEW b \in Bookings, PassStep(b)
    PROVE  TypeInv'
<1> USE DEF TypeInv
<1>0. pass[b] \in Passes
  BY DEF TypeOK
<1>a. /\ 0 \in 0..Cap /\ 0 \in 0..MaxOffers
      /\ \A o \in OfferIds : o \in 0..MaxOffers
  BY CapAssumption, BoundAssumption DEF OfferIds
<1>1. CASE CountOffers(b)
  <2> DEFINE open == Cap - Cardinality(Live(b))
             stage == IF pass[b].resume THEN "prepare" ELSE "search"
  <2>1. CASE open <= 0
    <3>1. Finish(b)
      BY <1>1, <2>1 DEF CountOffers
    <3> QED BY <1>1, <3>1, FinishFacts DEF CountOffers, TypeOK, OffersNamed, PassesReady,
               AssignedHasWorker, CallsOnOffers, Offered, rows, queues, admin
  <2>2. CASE ~(open <= 0)
    <3>1. Live(b) \subseteq OfferIds
      BY DEF Live, OffersOf
    <3>2. open \in 0..Cap
      BY <2>2, <3>1, SizeOfOffers, CapAssumption
    <3> DEFINE p == [pass[b] EXCEPT !.slots = open, !.resume = FALSE, !.stage = stage]
    <3>3. pass' = [pass EXCEPT ![b] = p]
      BY <1>1, <2>2 DEF CountOffers
    <3>4. stage \in {"prepare", "search"}
      OBVIOUS
    <3> HIDE DEF open, stage
    <3>5. p \in Passes /\ p.stage \in {"prepare", "search"}
      BY <1>0, <3>2, <3>4 DEF Passes, PassStages
    <3> HIDE DEF p
    <3>6. pass' \in [Bookings -> Passes] /\ PassesReady'
      BY <3>3, <3>5 DEF TypeOK, PassesReady
    <3> QED BY <1>1, <3>6 DEF CountOffers, TypeOK, OffersNamed,
               AssignedHasWorker, CallsOnOffers, rows, queues, admin
  <2> QED BY <2>1, <2>2
<1>2. CASE PrepareAttempt(b)
  <2>1. Goto(b, "prepareWrite") \/ Goto(b, "search")
    BY <1>2 DEF PrepareAttempt
  <2>2. pass' \in [Bookings -> Passes] /\ PassesReady'
    BY <2>1, GotoFacts DEF PassesReady, PassStages
  <2> QED BY <1>2, <2>2 DEF PrepareAttempt, TypeOK, OffersNamed,
             AssignedHasWorker, CallsOnOffers, rows, queues, admin
<1>3. CASE PrepareWrite(b)
  <2>1. Goto(b, "search")
    BY <1>3 DEF PrepareWrite
  <2>2. pass' \in [Bookings -> Passes] /\ PassesReady'
    BY <2>1, GotoFacts DEF PassesReady, PassStages
  <2>3. dispatch' \in [Bookings -> DispatchStatuses]
    BY <1>3 DEF PrepareWrite, TypeOK, DispatchStatuses
  <2> QED BY <1>3, <2>2, <2>3 DEF PrepareWrite, TypeOK, OffersNamed,
             AssignedHasWorker, CallsOnOffers, queues, admin
<1>4. CASE Search(b)
  <2>1. PICK picks \in SUBSET Eligible(b) :
          \/ Finish(b)
          \/ pass' = [pass EXCEPT ![b].picks = picks, ![b].slots = 0,
                        ![b].stage = IF picks # {} THEN "create" ELSE "noCandidate"]
    BY <1>4 DEF Search
  <2>2. pass' \in [Bookings -> Passes] /\ PassesReady'
    <3>1. CASE Finish(b)
      BY <3>1, FinishFacts DEF TypeOK, PassesReady
    <3>2. CASE ~Finish(b)
      <4> DEFINE stage == IF picks # {} THEN "create" ELSE "noCandidate"
                 p == [pass[b] EXCEPT !.picks = picks, !.slots = 0, !.stage = stage]
      <4>1. pass' = [pass EXCEPT ![b] = p]
        BY <2>1, <3>2
      <4>2. stage \in {"create", "noCandidate"}
        OBVIOUS
      <4>3. picks \in SUBSET Beauticians
        BY DEF Eligible
      <4> HIDE DEF stage
      <4>4. p \in Passes /\ p.stage \in {"create", "noCandidate"}
        BY <1>0, <1>a, <4>2, <4>3 DEF Passes, PassStages
      <4> HIDE DEF p
      <4> QED BY <4>1, <4>4 DEF TypeOK, PassesReady
    <3> QED BY <3>1, <3>2
  <2> QED BY <1>4, <2>2 DEF Search, TypeOK, OffersNamed,
             AssignedHasWorker, CallsOnOffers, rows, queues, admin
<1>5. CASE SearchLater(b)
  <2>1. pass' \in [Bookings -> Passes] /\ PassesReady'
    BY <1>5, FinishFacts DEF SearchLater, TypeOK, PassesReady
  <2>2. delays' \in [Bookings -> Nat] /\ jobs' \subseteq Bookings \X JobKinds
    BY <1>5 DEF SearchLater, TypeOK, JobKinds
  <2> QED BY <1>5, <2>1, <2>2 DEF SearchLater, TypeOK, OffersNamed,
             AssignedHasWorker, CallsOnOffers, rows, admin
<1>6. ASSUME NEW reason \in Reasons, GiveUp(b, reason) PROVE TypeInv'
  <2> DEFINE p == [pass[b] EXCEPT !.stage = "exhaust", !.reason = reason]
  <2>1. pass' = [pass EXCEPT ![b] = p]
    BY <1>6 DEF GiveUp
  <2>2. p \in Passes /\ p.stage = "exhaust"
    BY <1>0 DEF Passes, PassStages
  <2> HIDE DEF p
  <2>3. pass' \in [Bookings -> Passes] /\ PassesReady'
    BY <2>1, <2>2 DEF TypeOK, PassesReady
  <2> QED BY <1>6, <2>3 DEF GiveUp, TypeOK, OffersNamed,
             AssignedHasWorker, CallsOnOffers, rows, queues, admin
<1>7. CASE MarkExhausted(b)
  <2>1. Goto(b, "exhaustWrite") \/ Finish(b)
    BY <1>7 DEF MarkExhausted
  <2>2. pass' \in [Bookings -> Passes] /\ PassesReady'
    BY <2>1, GotoFacts, FinishFacts DEF PassesReady, PassStages
  <2> QED BY <1>7, <2>2 DEF MarkExhausted, TypeOK, OffersNamed,
             AssignedHasWorker, CallsOnOffers, rows, queues, admin
<1>8. CASE MarkExhaustedWrite(b)
  <2>1. pass' \in [Bookings -> Passes] /\ PassesReady'
    BY <1>8, FinishFacts DEF MarkExhaustedWrite, TypeOK, PassesReady
  <2>2. /\ dispatch' \in [Bookings -> DispatchStatuses]
        /\ exhausted' \in [Bookings -> BOOLEAN]
        /\ tokens' \subseteq Bookings \X (Reasons \cup {"wake"})
    BY <1>8 DEF MarkExhaustedWrite, TypeOK, DispatchStatuses, Passes
  <2> QED BY <1>8, <2>1, <2>2 DEF MarkExhaustedWrite, TypeOK, OffersNamed,
             AssignedHasWorker, CallsOnOffers, queues, admin
<1>9. CASE CreateOffer(b)
  <2>1. pass' \in [Bookings -> Passes] /\ PassesReady'
    <3>1. CASE Finish(b)
      BY <3>1, FinishFacts DEF TypeOK, PassesReady
    <3>2. CASE ~Finish(b)
      <4>1. PICK w \in pass[b].picks :
              \/ pass' = [pass EXCEPT ![b] = [pass[b] EXCEPT !.picks = @ \ {w}]]
              \/ pass' = [pass EXCEPT ![b] = [pass[b] EXCEPT !.stage = "insert", !.pick = w,
                                                             !.picks = @ \ {w}]]
        BY <1>9, <3>2 DEF CreateOffer
      <4>2. w \in Beauticians /\ pass[b].stage = "create"
        BY <1>9 DEF TypeOK, Passes, CreateOffer, At
      <4> DEFINE p == [pass[b] EXCEPT !.picks = @ \ {w}]
                 q == [pass[b] EXCEPT !.stage = "insert", !.pick = w, !.picks = @ \ {w}]
      <4>3. p \in Passes /\ p.stage = "create" /\ q \in Passes /\ q.pick \in Beauticians
            /\ q.stage = "insert"
        BY <1>0, <4>2 DEF Passes, PassStages
      <4>4. pass' = [pass EXCEPT ![b] = p] \/ pass' = [pass EXCEPT ![b] = q]
        BY <4>1
      <4> HIDE DEF p, q
      <4> QED BY <4>3, <4>4 DEF TypeOK, PassesReady
    <3> QED BY <3>1, <3>2
  <2> QED BY <1>9, <2>1 DEF CreateOffer, TypeOK, OffersNamed,
             AssignedHasWorker, CallsOnOffers, rows, queues, admin
<1>10. CASE InsertOffer(b)
  <2> DEFINE new == [booking |-> b, worker |-> pass[b].pick, status |-> "OFFERED",
                     due |-> FALSE, forced |-> FALSE]
  <2>1. PICK o \in OfferIds :
          /\ offers' = [offers EXCEPT ![o] = new]
          /\ pass' = [pass EXCEPT ![b] = [pass[b] EXCEPT !.stage = "offering", !.offer = o,
                                                         !.made = @ \cup {o}]]
    BY <1>10 DEF InsertOffer
  <2>2. pass[b].pick \in Beauticians
    BY <1>10 DEF InsertOffer, At, PassesReady
  <2>3. new \in Offers /\ new.booking \in Bookings /\ new.worker \in Beauticians
        /\ new.status # "NONE"
    BY <2>2 DEF Offers, OfferStatuses
  <2> HIDE DEF new
  <2>4. offers' \in [OfferIds -> Offers] /\ OffersNamed' /\ CallsOnOffers'
    <3>1. \A p \in OfferIds \ {o} : offers'[p] = offers[p]
      BY <2>1 DEF TypeOK
    <3>2. offers'[o] = new /\ offers' \in [OfferIds -> Offers]
      BY <2>1, <2>3 DEF TypeOK
    <3>3. calls' = calls /\ \A c \in calls : c.offers \subseteq OfferIds
      BY <1>10 DEF InsertOffer, TypeOK, CallRecords
    <3> QED BY <2>3, <3>1, <3>2, <3>3 DEF OffersNamed, CallsOnOffers
  <2> DEFINE p == [pass[b] EXCEPT !.stage = "offering", !.offer = o, !.made = @ \cup {o}]
  <2>5. p \in Passes /\ p.stage = "offering" /\ p.offer = o
    BY <1>0, <1>a DEF Passes, PassStages
  <2> HIDE DEF p
  <2>6. pass' \in [Bookings -> Passes] /\ PassesReady'
    BY <2>1, <2>5 DEF TypeOK, PassesReady, p
  <2>7. availability' \in [Beauticians -> AvailabilityStatuses]
    BY <1>10 DEF InsertOffer, TypeOK, AvailabilityStatuses
  <2> QED BY <1>10, <2>4, <2>6, <2>7 DEF InsertOffer, TypeOK, AssignedHasWorker,
             rows, queues, admin
<1>11. CASE Offering(b)
  <2>1. /\ Goto(b, "offeringWrite") \/ Goto(b, "schedule")
        /\ pass[b].offer \in OfferIds
    BY <1>11 DEF Offering, At, PassesReady
  <2>2. pass' \in [Bookings -> Passes] /\ PassesReady'
    BY <2>1, GotoFacts DEF PassesReady, PassStages
  <2> QED BY <1>11, <2>2 DEF Offering, TypeOK, OffersNamed,
             AssignedHasWorker, CallsOnOffers, rows, queues, admin
<1>12. CASE OfferingWrite(b)
  <2>1. Goto(b, "schedule") /\ pass[b].offer \in OfferIds
    BY <1>12 DEF OfferingWrite, At, PassesReady
  <2>2. pass' \in [Bookings -> Passes] /\ PassesReady'
    BY <2>1, GotoFacts DEF PassesReady, PassStages
  <2>3. dispatch' \in [Bookings -> DispatchStatuses]
    BY <1>12 DEF OfferingWrite, TypeOK, DispatchStatuses
  <2> QED BY <1>12, <2>2, <2>3 DEF OfferingWrite, TypeOK, OffersNamed,
             AssignedHasWorker, CallsOnOffers, queues, admin
<1>13. CASE ScheduleExpireOffer(b)
  <2> DEFINE p == [pass[b] EXCEPT !.stage = "create", !.pick = Nobody, !.offer = 0]
  <2>1. pass' = [pass EXCEPT ![b] = p] /\ pass[b].offer \in OfferIds
    BY <1>13 DEF ScheduleExpireOffer, At, PassesReady
  <2>2. p \in Passes /\ p.stage = "create"
    BY <1>0, <1>a DEF Passes, PassStages
  <2> HIDE DEF p
  <2>3. pass' \in [Bookings -> Passes] /\ PassesReady'
    BY <2>1, <2>2 DEF TypeOK, PassesReady
  <2>4. timers' \subseteq OfferIds
    BY <1>13, <2>1 DEF ScheduleExpireOffer, TypeOK
  <2> QED BY <1>13, <2>3, <2>4 DEF ScheduleExpireOffer, TypeOK, OffersNamed,
             AssignedHasWorker, CallsOnOffers, rows, admin
<1>14. CASE ReleaseFlowLock(b)
  <2>1. pass' \in [Bookings -> Passes] /\ PassesReady'
    BY <1>14, IdleIsPass DEF ReleaseFlowLock, TypeOK, PassesReady, IdlePass
  <2> QED BY <1>14, <2>1 DEF ReleaseFlowLock, TypeOK, OffersNamed,
             AssignedHasWorker, CallsOnOffers, rows, queues, admin
<1> QED BY <1>1, <1>2, <1>3, <1>4, <1>5, <1>6, <1>7, <1>8, <1>9, <1>10, <1>11, <1>12,
           <1>13, <1>14 DEF PassStep

\* The same for the steps by which an offer is answered or expires.
LEMMA OfferStepTyped ==
    ASSUME TypeInv, NEW o \in OfferIds, OfferStep(o)
    PROVE  TypeInv'
<1> USE DEF TypeInv
<1>1. CASE OfferDue(o)
  <2> DEFINE new == [offers[o] EXCEPT !.due = TRUE]
  <2>1. offers' = [offers EXCEPT ![o] = new]
    BY <1>1 DEF OfferDue
  <2>2. offers[o] \in Offers
    BY DEF TypeOK
  <2>3. new \in Offers /\ new.status = offers[o].status
        /\ new.booking = offers[o].booking /\ new.worker = offers[o].worker
    BY <2>2 DEF Offers
  <2> HIDE DEF new
  <2>4. offers' \in [OfferIds -> Offers]
        /\ \A p \in OfferIds : /\ offers'[p].status = offers[p].status
                               /\ offers'[p].booking = offers[p].booking
                               /\ offers'[p].worker = offers[p].worker
    BY <2>1, <2>3 DEF TypeOK
  <2> QED BY <1>1, <2>4 DEF OfferDue, TypeOK, OffersNamed, PassesReady, AssignedHasWorker,
             CallsOnOffers, CallRecords, rows, queues, admin
<1>2. CASE ExpireOffer(o)
  <2>1. offers' = Resolved({o}, "EXPIRED") /\ "EXPIRED" \in OfferStatuses
    BY <1>2 DEF ExpireOffer, OfferStatuses
  <2>2. offers' \in [OfferIds -> Offers]
        /\ \A p \in OfferIds : /\ offers[p].status # "NONE" => offers'[p].status # "NONE"
                               /\ offers'[p].status # "NONE" => offers[p].status # "NONE"
                               /\ offers'[p].booking = offers[p].booking
                               /\ offers'[p].worker = offers[p].worker
    BY <2>1, ResolvedSame
  <2>3. calls' \subseteq CallRecords /\ CallsOnOffers'
    <3>1. CASE Offered(o)
      <4>1. Start("expire", offers[o].worker, {o}, "release")
        BY <1>2, <3>1 DEF ExpireOffer
      <4>2. offers[o].worker \in Beauticians /\ offers[o].status # "NONE"
        BY <3>1 DEF OffersNamed, Offered
      <4>3. "expire" \in Ops /\ "release" \in CallStages /\ {o} \in SUBSET OfferIds
        BY DEF Ops, CallStages
      <4>4. /\ calls' \subseteq CallRecords
            /\ \A d \in calls' : d \in calls \/ d.offers = {o}
        BY <4>1, <4>2, <4>3, StartFacts
      <4> QED BY <2>2, <4>2, <4>4, FlowsOnOffers
    <3>2. CASE ~Offered(o)
      BY <1>2, <2>2, <3>2, FlowsOnOffers DEF ExpireOffer, TypeOK
    <3> QED BY <3>1, <3>2
  <2> QED BY <1>2, <2>2, <2>3 DEF ExpireOffer, TypeOK, OffersNamed, PassesReady,
             AssignedHasWorker, rows, admin
<1>3. CASE Decline(o)
  <2>1. /\ Start("decline", offers[o].worker, {o}, "decline")
        /\ offers[o].worker \in Beauticians /\ offers[o].status # "NONE"
    BY <1>3 DEF Decline, LiveOffer, Offered, OffersNamed
  <2>2. "decline" \in Ops /\ "decline" \in CallStages /\ {o} \in SUBSET OfferIds
    BY DEF Ops, CallStages
  <2>3. /\ calls' \subseteq CallRecords
        /\ \A d \in calls' : d \in calls \/ d.offers = {o}
    BY <2>1, <2>2, StartFacts
  <2> QED BY <1>3, <2>1, <2>3 DEF Decline, TypeOK, OffersNamed, PassesReady,
             AssignedHasWorker, CallsOnOffers, rows, queues, admin
<1>4. CASE Accept(o)
  <2>1. /\ Start("accept", offers[o].worker, {o}, "commit")
        /\ offers[o].worker \in Beauticians /\ offers[o].status # "NONE"
        /\ assignLock' \subseteq Bookings
    BY <1>4 DEF Accept, LiveOffer, Offered, OffersNamed, TypeOK
  <2>2. "accept" \in Ops /\ "commit" \in CallStages /\ {o} \in SUBSET OfferIds
    BY DEF Ops, CallStages
  <2>3. /\ calls' \subseteq CallRecords
        /\ \A d \in calls' : d \in calls \/ d.offers = {o}
    BY <2>1, <2>2, StartFacts
  <2> QED BY <1>4, <2>1, <2>3 DEF Accept, TypeOK, OffersNamed, PassesReady,
             AssignedHasWorker, CallsOnOffers, rows, queues, admin
<1> QED BY <1>1, <1>2, <1>3, <1>4 DEF OfferStep

\* The same for the steps of the flows that beauticians started.
LEMMA CallStepTyped ==
    ASSUME TypeInv, NEW c \in calls, CallStep(c)
    PROVE  TypeInv'
<1> USE DEF TypeInv
<1>0. /\ c \in CallRecords /\ c.worker \in Beauticians /\ c.offers \subseteq OfferIds
      /\ \A o \in c.offers : /\ offers[o].status # "NONE" /\ offers[o].booking \in Bookings
                             /\ offers[o] \in Offers
  BY DEF TypeOK, CallRecords, CallsOnOffers, OffersNamed
<1>1. CASE DeclineWrite(c)
  <2>1. \A o \in OfferIds :
           offers'[o] = IF o \in c.offers THEN [offers[o] EXCEPT !.status = "DECLINED"]
                        ELSE offers[o]
    BY <1>1 DEF DeclineWrite
  <2>2. \A o \in OfferIds : /\ offers'[o] \in Offers
                            /\ offers[o].status # "NONE" => offers'[o].status # "NONE"
                            /\ offers'[o].status # "NONE" => offers[o].status # "NONE"
                            /\ offers'[o].booking = offers[o].booking
                            /\ offers'[o].worker = offers[o].worker
    <3> SUFFICES ASSUME NEW o \in OfferIds
                 PROVE  /\ offers'[o] \in Offers
                        /\ offers[o].status # "NONE" => offers'[o].status # "NONE"
                        /\ offers'[o].status # "NONE" => offers[o].status # "NONE"
                        /\ offers'[o].booking = offers[o].booking
                        /\ offers'[o].worker = offers[o].worker
      OBVIOUS
    <3> DEFINE r == [offers[o] EXCEPT !.status = "DECLINED"]
    <3>1. offers[o] \in Offers
      BY DEF TypeOK
    <3>2. r \in Offers /\ r.status = "DECLINED" /\ r.booking = offers[o].booking
          /\ r.worker = offers[o].worker
      BY <3>1 DEF Offers, OfferStatuses
    <3>3. CASE o \in c.offers
      <4>1. offers'[o] = r
        BY <2>1, <3>3
      <4> HIDE DEF r
      <4> QED BY <1>0, <3>2, <3>3, <4>1
    <3>4. CASE o \notin c.offers
      <4>1. offers'[o] = offers[o]
        BY <2>1, <3>4
      <4> QED BY <3>1, <4>1
    <3> QED BY <3>3, <3>4
  <2>3. offers' \in [OfferIds -> Offers]
    BY <1>1, <2>2 DEF DeclineWrite
  <2>4. calls' \subseteq CallRecords
        /\ \A d \in calls' : d \in calls \/ d.offers = c.offers
    <3>1. Step(c, "release") /\ "release" \in CallStages
      BY <1>1 DEF DeclineWrite, CallStages
    <3> QED BY <3>1, StepFacts
  <2>5. CallsOnOffers'
    BY <1>0, <2>2, <2>4, FlowsOnOffers
  <2> QED BY <1>1, <2>2, <2>3, <2>4, <2>5 DEF DeclineWrite, TypeOK, OffersNamed, PassesReady,
             AssignedHasWorker, rows, queues, admin
<1>2. CASE AcceptCommit(c)
  <2>1. PICK o \in c.offers : LET b == offers[o].booking IN
          /\ offers' = [p \in OfferIds |->
                          IF p = o THEN [offers[p] EXCEPT !.status = "ACCEPTED"]
                          ELSE IF p \in OffersOf(b) /\ Offered(p)
                          THEN [offers[p] EXCEPT !.status = "EXPIRED"] ELSE offers[p]]
          /\ status' = [status EXCEPT ![b] = "ASSIGNED"]
          /\ assignee' = [assignee EXCEPT ![b] = c.worker]
          /\ dispatch' = [dispatch EXCEPT ![b] = "ASSIGNED"]
          /\ availability' = [availability EXCEPT ![c.worker] = "ON_JOB"]
          /\ Step(c, "unlock")
    BY <1>2 DEF AcceptCommit
  <2>2. offers[o].booking \in Bookings /\ offers[o].status # "NONE"
    BY <1>0
  <2>3. \A p \in OfferIds : /\ offers'[p] \in Offers
                            /\ offers[p].status # "NONE" => offers'[p].status # "NONE"
                            /\ offers'[p].status # "NONE" => offers[p].status # "NONE"
                            /\ offers'[p].booking = offers[p].booking
                            /\ offers'[p].worker = offers[p].worker
    <3> SUFFICES ASSUME NEW p \in OfferIds
                 PROVE  /\ offers'[p] \in Offers
                        /\ offers[p].status # "NONE" => offers'[p].status # "NONE"
                        /\ offers'[p].status # "NONE" => offers[p].status # "NONE"
                        /\ offers'[p].booking = offers[p].booking
                        /\ offers'[p].worker = offers[p].worker
      OBVIOUS
    <3> DEFINE r == [offers[p] EXCEPT !.status = "ACCEPTED"]
               x == [offers[p] EXCEPT !.status = "EXPIRED"]
    <3>1. offers[p] \in Offers
      BY DEF TypeOK
    <3>2. /\ r \in Offers /\ r.status = "ACCEPTED" /\ r.booking = offers[p].booking
          /\ r.worker = offers[p].worker
          /\ x \in Offers /\ x.status = "EXPIRED" /\ x.booking = offers[p].booking
          /\ x.worker = offers[p].worker
      BY <3>1 DEF Offers, OfferStatuses
    <3>3. \/ offers'[p] = r /\ p = o
          \/ offers'[p] = x /\ Offered(p)
          \/ offers'[p] = offers[p]
      BY <2>1
    <3> HIDE DEF r, x
    <3> QED BY <2>2, <3>1, <3>2, <3>3 DEF Offered
  <2>4. offers' \in [OfferIds -> Offers]
    BY <2>1, <2>3
  <2>5. calls' \subseteq CallRecords
        /\ \A d \in calls' : d \in calls \/ d.offers = c.offers
    <3>1. Step(c, "unlock") /\ "unlock" \in CallStages
      BY <2>1 DEF CallStages
    <3> QED BY <3>1, StepFacts
  <2>6. CallsOnOffers'
    BY <1>0, <2>3, <2>5, FlowsOnOffers
  <2>7. /\ status' \in [Bookings -> BookingStatuses]
        /\ assignee' \in [Bookings -> Beauticians \cup {Nobody}]
        /\ dispatch' \in [Bookings -> DispatchStatuses]
        /\ availability' \in [Beauticians -> AvailabilityStatuses]
        /\ AssignedHasWorker'
    <3> DEFINE b == offers[o].booking
    <3>1. /\ status' = [status EXCEPT ![b] = "ASSIGNED"]
          /\ assignee' = [assignee EXCEPT ![b] = c.worker]
          /\ dispatch' = [dispatch EXCEPT ![b] = "ASSIGNED"]
          /\ availability' = [availability EXCEPT ![c.worker] = "ON_JOB"]
      BY <2>1
    <3> HIDE DEF b
    <3> QED BY <1>0, <3>1 DEF TypeOK, AssignedHasWorker, BookingStatuses, DispatchStatuses,
                              AvailabilityStatuses
  <2> QED BY <1>2, <2>3, <2>4, <2>5, <2>6, <2>7 DEF AcceptCommit, TypeOK, OffersNamed,
             PassesReady, queues, admin
<1>3. CASE AcceptConflict(c)
  <2>1. calls' \subseteq calls /\ assignLock' \subseteq assignLock
    BY <1>3 DEF AcceptConflict, End
  <2> QED BY <1>3, <2>1, FlowsOnOffers DEF AcceptConflict, TypeOK, OffersNamed, PassesReady,
             AssignedHasWorker, rows, queues, admin
<1>4. CASE AcceptUnlock(c)
  <2>1. calls' \subseteq calls /\ assignLock' \subseteq assignLock /\ timers' \subseteq timers
    BY <1>4 DEF AcceptUnlock, End
  <2> QED BY <1>4, <2>1, FlowsOnOffers DEF AcceptUnlock, TypeOK, OffersNamed, PassesReady,
             AssignedHasWorker, rows, admin
<1>5. CASE ReleaseRead(c)
  <2>1. Step(c, "resume") \/ Step(c, "toOnJob") \/ Step(c, "toOnline")
    BY <1>5 DEF ReleaseRead
  <2>2. {"resume", "toOnJob", "toOnline"} \subseteq CallStages
    BY DEF CallStages
  <2>3. calls' \subseteq CallRecords
        /\ \A d \in calls' : d \in calls \/ d.offers = c.offers
    BY <2>1, <2>2, StepFacts
  <2> QED BY <1>0, <1>5, <2>3, FlowsOnOffers DEF ReleaseRead, TypeOK, OffersNamed, PassesReady,
             AssignedHasWorker, rows, queues, admin
<1>6. CASE ReleaseWrite(c)
  <2>1. Step(c, "resume") /\ "resume" \in CallStages
    BY <1>6 DEF ReleaseWrite, CallStages
  <2>2. calls' \subseteq CallRecords
        /\ \A d \in calls' : d \in calls \/ d.offers = c.offers
    BY <2>1, StepFacts
  <2>3. availability' \in [Beauticians -> AvailabilityStatuses]
    BY <1>6 DEF ReleaseWrite, TypeOK, AvailabilityStatuses
  <2> QED BY <1>0, <1>6, <2>2, <2>3, FlowsOnOffers DEF ReleaseWrite, TypeOK, OffersNamed,
             PassesReady, AssignedHasWorker, rows, queues, admin
<1>7. CASE Resume(c)
  <2>1. calls' \subseteq calls /\ timers' \subseteq timers
    BY <1>7 DEF Resume, End
  <2>2. PICK o \in c.offers : pass' = PassAfterTrigger(offers[o].booking, Nobody)
    BY <1>7 DEF Resume
  <2>3. pass' \in [Bookings -> Passes] /\ PassesReady'
    BY <1>0, <2>2, TriggeredPassReady
  <2> QED BY <1>7, <2>1, <2>3, FlowsOnOffers DEF Resume, TypeOK, OffersNamed,
             AssignedHasWorker, rows, admin
<1>8. CASE Cleared(c)
  <2>1. calls' \subseteq calls /\ timers' \subseteq timers
    BY <1>8 DEF Cleared, End
  <2> QED BY <1>8, <2>1, FlowsOnOffers DEF Cleared, TypeOK, OffersNamed, PassesReady,
             AssignedHasWorker, rows, admin
<1>9. CASE OfflineResume(c)
  <2>1. PICK o \in c.offers :
          /\ timers' = timers \ {o}
          /\ pass' = PassAfterTrigger(offers[o].booking, c.worker)
          /\ calls' = (calls \ {c}) \cup
               {[c EXCEPT !.offers = @ \ {o},
                          !.stage = IF c.offers = {o} THEN "goOffline" ELSE "resume"]}
    BY <1>9 DEF OfflineResume
  <2>2. pass' \in [Bookings -> Passes] /\ PassesReady'
    BY <1>0, <2>1, TriggeredPassReady
  <2> DEFINE s == IF c.offers = {o} THEN "goOffline" ELSE "resume"
             d == [c EXCEPT !.offers = @ \ {o}, !.stage = s]
  <2>3. calls' = (calls \ {c}) \cup {d}
    BY <2>1
  <2>4. s \in CallStages
    BY DEF CallStages
  <2> HIDE DEF s
  <2>5. d \in CallRecords /\ d.offers \subseteq c.offers
    BY <1>0, <2>4 DEF CallRecords
  <2> HIDE DEF d
  <2>6. calls' \subseteq CallRecords /\ CallsOnOffers'
    BY <1>0, <1>9, <2>3, <2>5, FlowsOnOffers DEF TypeOK, OfflineResume
  <2> QED BY <1>9, <2>1, <2>2, <2>6 DEF OfflineResume, TypeOK, OffersNamed,
             AssignedHasWorker, rows, admin
<1>10. CASE SetOffline(c)
  <2>1. calls' \subseteq calls
    BY <1>10 DEF SetOffline, End
  <2>2. availability' \in [Beauticians -> AvailabilityStatuses]
    BY <1>10 DEF SetOffline, TypeOK, AvailabilityStatuses
  <2> QED BY <1>10, <2>1, <2>2, FlowsOnOffers DEF SetOffline, TypeOK, OffersNamed, PassesReady,
             AssignedHasWorker, rows, queues, admin
<1>11. CASE CountJobs(c)
  <2>1. End(c) \/ Step(c, "goOnline")
    BY <1>11 DEF CountJobs
  <2>2. "goOnline" \in CallStages
    BY DEF CallStages
  <2>3. calls' \subseteq CallRecords
        /\ \A d \in calls' : d \in calls \/ d.offers = c.offers
    BY <2>1, <2>2, StepFacts DEF End, TypeOK
  <2> QED BY <1>0, <1>11, <2>3, FlowsOnOffers DEF CountJobs, TypeOK, OffersNamed, PassesReady,
             AssignedHasWorker, rows, queues, admin
<1>12. CASE SetOnline(c)
  <2>1. calls' \subseteq calls
    BY <1>12 DEF SetOnline, End
  <2>2. availability' \in [Beauticians -> AvailabilityStatuses]
    BY <1>12 DEF SetOnline, TypeOK, AvailabilityStatuses
  <2> QED BY <1>12, <2>1, <2>2, FlowsOnOffers DEF SetOnline, TypeOK, OffersNamed, PassesReady,
             AssignedHasWorker, rows, queues, admin
<1> QED BY <1>1, <1>2, <1>3, <1>4, <1>5, <1>6, <1>7, <1>8, <1>9, <1>10, <1>11, <1>12
           DEF CallStep

\* The same for queue jobs, crashes, lapses, comings and goings, and admins.
LEMMA OtherStepTyped ==
    ASSUME TypeInv,
           \/ \E b \in Bookings : Crash(b) \/ LockLapses(b) \/ CompleteJob(b) \/ RequestCancel(b)
           \/ \E b \in Bookings, kind \in JobKinds : RunCreateJob(b, kind)
           \/ \E w \in Beauticians : GoOnline(w) \/ GoOffline(w)
           \/ \E b \in Bookings, kind \in {"retry", "wake", "immediate"} : RequestMatching(b, kind)
           \/ \E r \in requests : RestartMatching(r) \/ CancelBooking(r)
           \/ \E b \in Bookings, w \in Beauticians : ForceAssign(b, w)
           \/ \E f \in forces : ForceStep(f)
    PROVE  TypeInv'
<1> USE DEF TypeInv
<1>1. ASSUME NEW b \in Bookings, Crash(b) PROVE TypeInv'
  <2>1. pass' \in [Bookings -> Passes] /\ PassesReady'
    BY <1>1, IdleIsPass DEF Crash, TypeOK, PassesReady, IdlePass
  <2>2. jobs' \subseteq Bookings \X JobKinds /\ moves' \in Nat
    BY <1>1 DEF Crash, Move, TypeOK, JobKinds
  <2> QED BY <1>1, <2>1, <2>2 DEF Crash, TypeOK, OffersNamed, AssignedHasWorker,
             CallsOnOffers, rows
<1>2. ASSUME NEW b \in Bookings, LockLapses(b) PROVE TypeInv'
  <2>1. assignLock' \subseteq Bookings /\ moves' \in Nat
    BY <1>2 DEF LockLapses, Move, TypeOK
  <2> QED BY <1>2, <2>1 DEF LockLapses, TypeOK, OffersNamed, PassesReady, AssignedHasWorker,
             CallsOnOffers, rows, queues
<1>3. ASSUME NEW b \in Bookings, CompleteJob(b) PROVE TypeInv'
  <2>1. /\ Start("complete", assignee[b], {}, "count")
        /\ assignee[b] \in Beauticians
    BY <1>3 DEF CompleteJob, AssignedHasWorker
  <2>2. "complete" \in Ops /\ "count" \in CallStages /\ {} \in SUBSET OfferIds
    BY DEF Ops, CallStages
  <2>3. /\ calls' \subseteq CallRecords
        /\ \A d \in calls' : d \in calls \/ d.offers = {}
    BY <2>1, <2>2, StartFacts
  <2>4. status' \in [Bookings -> BookingStatuses] /\ AssignedHasWorker'
    BY <1>3 DEF CompleteJob, TypeOK, BookingStatuses, AssignedHasWorker
  <2> QED BY <1>3, <2>3, <2>4, FlowsOnOffers DEF CompleteJob, TypeOK, OffersNamed,
             PassesReady, queues, admin
<1>4. ASSUME NEW b \in Bookings, RequestCancel(b) PROVE TypeInv'
  BY <1>4 DEF RequestCancel, Move, TypeOK, OffersNamed, PassesReady, AssignedHasWorker,
              CallsOnOffers, rows, queues
<1>5. ASSUME NEW b \in Bookings, NEW kind \in JobKinds, RunCreateJob(b, kind) PROVE TypeInv'
  <2>1. pass' \in [Bookings -> Passes] /\ PassesReady'
    BY <1>5, TriggeredPassReady DEF RunCreateJob
  <2>2. jobs' \subseteq Bookings \X JobKinds /\ dispatch' \in [Bookings -> DispatchStatuses]
    BY <1>5 DEF RunCreateJob, TypeOK, DispatchStatuses
  <2> QED BY <1>5, <2>1, <2>2 DEF RunCreateJob, TypeOK, OffersNamed, AssignedHasWorker,
             CallsOnOffers, admin
<1>6. ASSUME NEW w \in Beauticians, GoOnline(w) PROVE TypeInv'
  <2>1. /\ Start("online", w, {}, "goOnline") /\ moves' \in Nat
        /\ "online" \in Ops /\ "goOnline" \in CallStages /\ {} \in SUBSET OfferIds
    BY <1>6 DEF GoOnline, Move, Ops, CallStages, TypeOK
  <2>2. /\ calls' \subseteq CallRecords
        /\ \A d \in calls' : d \in calls \/ d.offers = {}
    BY <2>1, StartFacts
  <2> QED BY <1>6, <2>1, <2>2, FlowsOnOffers DEF GoOnline, TypeOK, OffersNamed, PassesReady,
             AssignedHasWorker, rows, queues
<1>7. ASSUME NEW w \in Beauticians, GoOffline(w) PROVE TypeInv'
  <2> DEFINE pending == {o \in OfferIds : offers[o].worker = w /\ LiveOffer(o)}
             s == IF pending = {} THEN "goOffline" ELSE "release"
  <2>1. /\ Start("offline", w, pending, s) /\ moves' \in Nat
        /\ "offline" \in Ops /\ s \in CallStages /\ pending \in SUBSET OfferIds
        /\ \A o \in pending : offers[o].status # "NONE"
    BY <1>7 DEF GoOffline, Move, Ops, CallStages, TypeOK, LiveOffer, Offered
  <2>2. offers' = Resolved(pending, "CANCELLED") /\ "CANCELLED" \in OfferStatuses \ {"NONE"}
    BY <1>7 DEF GoOffline, OfferStatuses
  <2> HIDE DEF pending, s
  <2>3. /\ calls' \subseteq CallRecords
        /\ \A d \in calls' : d \in calls \/ d.offers = pending
    BY <2>1, StartFacts
  <2>4. offers' \in [OfferIds -> Offers] /\ OffersNamed'
    BY <2>2, ResolvedSame DEF OffersNamed
  <2>5. CallsOnOffers'
    BY <2>1, <2>2, <2>3, ResolvedSame, FlowsOnOffers
  <2> QED BY <1>7, <2>1, <2>3, <2>4, <2>5 DEF GoOffline, TypeOK, PassesReady,
             AssignedHasWorker, rows, queues
<1>8. ASSUME NEW b \in Bookings, NEW kind \in {"retry", "wake", "immediate"},
             RequestMatching(b, kind)
      PROVE  TypeInv'
  <2>1. /\ tokens' \subseteq Bookings \X (Reasons \cup {"wake"}) /\ moves' \in Nat
        /\ requests' \subseteq [booking : Bookings, kind : {"retry", "wake", "immediate", "cancel"}]
    BY <1>8 DEF RequestMatching, Move, TypeOK
  <2> QED BY <1>8, <2>1 DEF RequestMatching, TypeOK, OffersNamed, PassesReady,
             AssignedHasWorker, CallsOnOffers, queues
<1>9. ASSUME NEW r \in requests, RestartMatching(r) PROVE TypeInv'
  <2>1. r.booking \in Bookings /\ r.kind \in {"retry", "wake", "immediate"}
    BY <1>9 DEF TypeOK, RestartMatching
  <2>2. jobs' \subseteq Bookings \X JobKinds /\ timers' \subseteq OfferIds /\ requests' \subseteq requests
    BY <1>9, <2>1 DEF RestartMatching, TypeOK, JobKinds
  <2>3. dispatch' \in [Bookings -> DispatchStatuses] /\ exhausted' \in [Bookings -> BOOLEAN]
    BY <1>9, <2>1 DEF RestartMatching, TypeOK, DispatchStatuses
  <2> QED BY <1>9, <2>2, <2>3 DEF RestartMatching, TypeOK, OffersNamed, PassesReady,
             AssignedHasWorker, CallsOnOffers
<1>10. ASSUME NEW r \in requests, CancelBooking(r) PROVE TypeInv'
  <2>1. /\ requests' \subseteq requests /\ status' \in [Bookings -> BookingStatuses]
        /\ AssignedHasWorker'
    BY <1>10 DEF CancelBooking, TypeOK, BookingStatuses, AssignedHasWorker
  <2> QED BY <1>10, <2>1 DEF CancelBooking, TypeOK, OffersNamed, PassesReady,
             CallsOnOffers, queues
<1>11. ASSUME NEW b \in Bookings, NEW w \in Beauticians, ForceAssign(b, w) PROVE TypeInv'
  <2> DEFINE off == availability[w] = "OFFLINE"
             f == [booking |-> b, worker |-> w, stage |-> "checked", wasOffline |-> off]
  <2>1. forces' = forces \cup {f}
    BY <1>11, Zenon DEF ForceAssign
  <2>2. off \in BOOLEAN
    OBVIOUS
  <2> HIDE DEF off
  <2>3. f \in [booking : Bookings, worker : Beauticians, wasOffline : BOOLEAN,
               stage : {"checked", "assign"}]
    BY <2>2
  <2> HIDE DEF f
  <2>4. forces' \subseteq [booking : Bookings, worker : Beauticians, wasOffline : BOOLEAN,
                           stage : {"checked", "assign"}] /\ moves' \in Nat
    BY <1>11, <2>1, <2>3 DEF TypeOK, ForceAssign, Move
  <2> QED BY <1>11, <2>4 DEF ForceAssign, TypeOK, OffersNamed, PassesReady,
             AssignedHasWorker, CallsOnOffers, rows, queues
<1>12. ASSUME NEW f \in forces, ForceClear(f) PROVE TypeInv'
  <2> DEFINE b == f.booking
             cleared == Live(b)
  <2>0. /\ b \in Bookings /\ f.worker \in Beauticians
        /\ f \in [booking : Bookings, worker : Beauticians, wasOffline : BOOLEAN,
                  stage : {"checked", "assign"}]
    BY DEF TypeOK
  <2>1. /\ offers' = Resolved(cleared, "CANCELLED")
        /\ "CANCELLED" \in OfferStatuses \ {"NONE"}
        /\ calls' = calls \cup {[op |-> "clear", worker |-> offers[o].worker, offers |-> {o},
                                 stage |-> "release"] : o \in cleared}
        /\ forces' = (forces \ {f}) \cup {[f EXCEPT !.stage = "assign"]}
    BY <1>12 DEF ForceClear, OfferStatuses
  <2>2. \A o \in cleared : o \in OfferIds /\ offers[o].status # "NONE"
                           /\ offers[o].worker \in Beauticians
    BY DEF Live, OffersOf, LiveOffer, Offered, OffersNamed
  <2> HIDE DEF b, cleared
  <2>3. offers' \in [OfferIds -> Offers] /\ OffersNamed'
    BY <2>1, ResolvedSame DEF OffersNamed
  <2>4. calls' \subseteq CallRecords /\ CallsOnOffers'
    <3>1. \A d \in calls' : \/ d \in calls
                            \/ \E o \in cleared :
                                 d = [op |-> "clear", worker |-> offers[o].worker,
                                      offers |-> {o}, stage |-> "release"]
      BY <2>1
    <3>2. \A o \in cleared : [op |-> "clear", worker |-> offers[o].worker,
                              offers |-> {o}, stage |-> "release"] \in CallRecords
      BY <2>2 DEF CallRecords, Ops, CallStages
    <3>3. calls' \subseteq CallRecords
      BY <3>1, <3>2 DEF TypeOK
    <3>4. \A d \in calls' : \/ d \in calls
                            \/ d.offers \subseteq OfferIds
                               /\ \A o \in d.offers : offers[o].status # "NONE"
      BY <2>2, <3>1
    <3> QED BY <2>1, <3>3, <3>4, ResolvedSame, FlowsOnOffers
  <2>5. forces' \subseteq [booking : Bookings, worker : Beauticians, wasOffline : BOOLEAN,
                           stage : {"checked", "assign"}]
    <3> DEFINE g == [f EXCEPT !.stage = "assign"]
    <3>1. g \in [booking : Bookings, worker : Beauticians, wasOffline : BOOLEAN,
                 stage : {"checked", "assign"}]
      BY <2>0
    <3>2. forces' = (forces \ {f}) \cup {g}
      BY <2>1
    <3> HIDE DEF g
    <3> QED BY <3>1, <3>2 DEF TypeOK
  <2>6. availability' \in [Beauticians -> AvailabilityStatuses]
    BY <1>12 DEF ForceClear, TypeOK, AvailabilityStatuses
  <2> QED BY <1>12, <2>3, <2>4, <2>5, <2>6 DEF ForceClear, TypeOK, PassesReady,
             AssignedHasWorker, rows, queues
<1>13. ASSUME NEW f \in forces, ForceAssignCommit(f) PROVE TypeInv'
  <2> DEFINE b == f.booking
             new == [booking |-> b, worker |-> f.worker, status |-> "ACCEPTED",
                     due |-> TRUE, forced |-> TRUE]
             res == Resolved(OffersOf(b), "CANCELLED")
  <2>0. b \in Bookings /\ f.worker \in Beauticians
    BY DEF TypeOK
  <2>1. PICK o \in OfferIds : offers' = [res EXCEPT ![o] = new]
    BY <1>13 DEF ForceAssignCommit
  <2>2. new \in Offers /\ new.status # "NONE" /\ new.booking = b /\ new.worker = f.worker
    BY <2>0 DEF Offers, OfferStatuses
  <2>3. /\ res \in [OfferIds -> Offers]
        /\ \A p \in OfferIds : /\ res[p].status # "NONE" <=> offers[p].status # "NONE"
                               /\ res[p].booking = offers[p].booking
                               /\ res[p].worker = offers[p].worker
    <3>1. "CANCELLED" \in OfferStatuses \ {"NONE"}
      BY DEF OfferStatuses
    <3> QED BY <3>1, ResolvedSame
  <2>4. /\ status' = [status EXCEPT ![b] = "ASSIGNED"]
        /\ assignee' = [assignee EXCEPT ![b] = f.worker]
        /\ dispatch' = [dispatch EXCEPT ![b] = "ASSIGNED"]
        /\ exhausted' = [exhausted EXCEPT ![b] = FALSE]
    BY <1>13 DEF ForceAssignCommit
  <2> HIDE DEF b, new, res
  <2>5. offers' \in [OfferIds -> Offers] /\ OffersNamed'
        /\ \A p \in OfferIds : offers[p].status # "NONE" => offers'[p].status # "NONE"
    BY <2>0, <2>1, <2>2, <2>3 DEF OffersNamed
  <2>6. /\ status' \in [Bookings -> BookingStatuses]
        /\ assignee' \in [Bookings -> Beauticians \cup {Nobody}]
        /\ dispatch' \in [Bookings -> DispatchStatuses]
        /\ exhausted' \in [Bookings -> BOOLEAN]
        /\ AssignedHasWorker'
    BY <2>0, <2>4 DEF TypeOK, AssignedHasWorker, BookingStatuses, DispatchStatuses
  <2>7. /\ availability' \in [Beauticians -> AvailabilityStatuses]
        /\ jobs' \subseteq Bookings \X JobKinds /\ timers' \subseteq OfferIds
        /\ forces' \subseteq forces
    BY <1>13 DEF ForceAssignCommit, TypeOK, AvailabilityStatuses
  <2>8. CallsOnOffers'
    BY <1>13, <2>5, FlowsOnOffers DEF ForceAssignCommit
  <2> QED BY <1>13, <2>5, <2>6, <2>7, <2>8 DEF ForceAssignCommit, TypeOK, PassesReady
<1> QED BY <1>1, <1>2, <1>3, <1>4, <1>5, <1>6, <1>7, <1>8, <1>9, <1>10, <1>11, <1>12, <1>13
           DEF ForceStep

\* Every variable keeps its type, whatever flows interleave.
LEMMA InitTyped == Init => TypeInv
<1> SUFFICES ASSUME Init PROVE TypeInv
  OBVIOUS
<1>1. NoOffer \in Offers /\ NoOffer.status = "NONE"
  BY DEF NoOffer, Offers, OfferStatuses
<1>2. IdlePass \in Passes /\ IdlePass.stage = "idle"
  BY IdleIsPass DEF IdlePass
<1> QED BY <1>1, <1>2 DEF Init, TypeInv, TypeOK, OffersNamed, PassesReady, AssignedHasWorker,
           CallsOnOffers, BookingStatuses, DispatchStatuses, AvailabilityStatuses, JobKinds

\* The step lemmas cover every disjunct of Next.
LEMMA StepTyped == TypeInv /\ [Next]_vars => TypeInv'
<1> SUFFICES ASSUME TypeInv, [Next]_vars PROVE TypeInv'
  OBVIOUS
<1>1. CASE UNCHANGED vars
  BY <1>1 DEF vars, rows, queues, admin, TypeInv, TypeOK, OffersNamed, PassesReady,
              AssignedHasWorker, CallsOnOffers
<1> QED BY <1>1, PassStepTyped, OfferStepTyped, CallStepTyped, OtherStepTyped DEF Next

\* The type of every variable, and that offers, passes and jobs are well formed.
THEOREM TypeCorrect == Spec => []TypeOK
<1>1. TypeInv => TypeOK
  BY DEF TypeInv
<1> QED BY <1>1, InitTyped, StepTyped, PTL DEF Spec

-----------------------------------------------------------------------------
(* The four kinds of steps.                                                *)

\* A step that assigns nobody, and offers nothing to anybody.
Quiet ==
    /\ \A b \in Bookings : status'[b] \in {status[b], "COMPLETED", "CANCELLED"}
    /\ assignee' = assignee
    /\ \A o \in OfferIds :
          /\ offers'[o].booking = offers[o].booking
          /\ offers'[o].worker = offers[o].worker
          /\ LiveOffer(o)' => LiveOffer(o)
          /\ Offered(o)' => Offered(o)
          /\ Won(o)' => Won(o)

\* Resolving offers as anything but accepted or offered is quiet.
LEMMA ResolvedQuiet ==
    ASSUME TypeInv, NEW S, NEW to \in OfferStatuses \ {"NONE", "OFFERED", "ACCEPTED"},
           offers' = Resolved(S, to), assignee' = assignee, status' = status
    PROVE  Quiet
<1>1. \A o \in OfferIds : LET r == offers'[o] IN
         /\ r.status \in {offers[o].status, to}
         /\ r.booking = offers[o].booking /\ r.worker = offers[o].worker
         /\ r.due = offers[o].due /\ r.forced = offers[o].forced
  BY ResolvedSame DEF TypeInv
<1> QED BY <1>1 DEF Quiet, LiveOffer, Offered, Won

\* Of a pass's steps only the insertion of an offer is not quiet.
LEMMA PassStepKinds ==
    ASSUME TypeInv, NEW b \in Bookings, PassStep(b)
    PROVE  Quiet \/ InsertOffer(b)
<1>1. CASE InsertOffer(b)
  BY <1>1
<1>2. CASE ~InsertOffer(b)
  <2>1. UNCHANGED <<status, assignee, offers>>
    BY <1>2 DEF PassStep, CountOffers, PrepareAttempt, PrepareWrite, Search, SearchLater,
                GiveUp, MarkExhausted, MarkExhaustedWrite, CreateOffer, Offering,
                OfferingWrite, ScheduleExpireOffer, ReleaseFlowLock, rows
  <2> QED BY <2>1 DEF Quiet, LiveOffer, Offered, Won
<1> QED BY <1>1, <1>2

\* Of the steps of beauticians' flows only an accept's commit is not quiet.
LEMMA CallStepKinds ==
    ASSUME TypeInv, NEW c \in calls, CallStep(c)
    PROVE  Quiet \/ AcceptCommit(c)
<1>1. CASE AcceptCommit(c)
  BY <1>1
<1>2. CASE DeclineWrite(c)
  <2>1. \A o \in OfferIds : /\ offers[o] \in Offers
                            /\ offers'[o] \in {offers[o], [offers[o] EXCEPT !.status = "DECLINED"]}
    BY <1>2 DEF DeclineWrite, TypeInv, TypeOK
  <2>2. \A q \in Offers : LET r == [q EXCEPT !.status = "DECLINED"] IN
           /\ r.booking = q.booking /\ r.worker = q.worker /\ r.status = "DECLINED"
    BY DEF Offers
  <2>3. UNCHANGED <<status, assignee>>
    BY <1>2 DEF DeclineWrite, rows
  <2> QED BY <2>1, <2>2, <2>3 DEF Quiet, LiveOffer, Offered, Won
<1>3. CASE ~AcceptCommit(c) /\ ~DeclineWrite(c)
  <2>1. UNCHANGED <<status, assignee, offers>>
    BY <1>3 DEF CallStep, AcceptConflict, AcceptUnlock, ReleaseRead, ReleaseWrite, Resume,
                Cleared, OfflineResume, SetOffline, CountJobs, SetOnline, rows
  <2> QED BY <2>1 DEF Quiet, LiveOffer, Offered, Won
<1> QED BY <1>1, <1>2, <1>3

\* A step makes an offer, commits an accept, commits a force-assignment or is quiet.
LEMMA StepKinds ==
    ASSUME TypeInv, [Next]_vars
    PROVE  \/ Quiet
           \/ \E b \in Bookings : InsertOffer(b)
           \/ \E c \in calls : AcceptCommit(c)
           \/ \E f \in forces : ForceAssignCommit(f)
<1> USE DEF TypeInv
<1>1. ASSUME NEW o \in OfferIds, OfferDue(o) PROVE Quiet
  <2>1. \A p \in OfferIds : /\ offers[p] \in Offers
                            /\ offers'[p] \in {offers[p], [offers[p] EXCEPT !.due = TRUE]}
    BY <1>1 DEF OfferDue, TypeOK
  <2>2. \A q \in Offers : LET r == [q EXCEPT !.due = TRUE] IN
           /\ r.booking = q.booking /\ r.worker = q.worker /\ r.status = q.status
           /\ r.forced = q.forced /\ r.due = TRUE
    BY DEF Offers
  <2>3. UNCHANGED <<status, assignee>>
    BY <1>1 DEF OfferDue, rows
  <2>4. ASSUME NEW p \in OfferIds
        PROVE  /\ offers'[p].booking = offers[p].booking
               /\ offers'[p].worker = offers[p].worker
               /\ offers'[p].status = offers[p].status
               /\ offers'[p].forced = offers[p].forced
               /\ offers'[p].due = offers[p].due \/ offers'[p].due = TRUE
    <3>1. CASE offers'[p] = offers[p]
      BY <3>1
    <3>2. CASE offers'[p] # offers[p]
      <4> DEFINE r == [offers[p] EXCEPT !.due = TRUE]
      <4>1. offers'[p] = r
        BY <2>1, <3>2
      <4>2. /\ r.booking = offers[p].booking /\ r.worker = offers[p].worker
            /\ r.status = offers[p].status /\ r.forced = offers[p].forced /\ r.due = TRUE
        BY <2>1, <2>2
      <4> HIDE DEF r
      <4> QED BY <4>1, <4>2
    <3> QED BY <3>1, <3>2
  <2>5. \A p \in OfferIds : Won(p)' => Won(p)
    BY <2>4 DEF Won
  <2>6. \A p \in OfferIds : (Offered(p)' => Offered(p)) /\ (LiveOffer(p)' => LiveOffer(p))
    BY <2>4 DEF LiveOffer, Offered
  <2> QED BY <2>3, <2>4, <2>5, <2>6 DEF Quiet
<1>2. ASSUME NEW o \in OfferIds, ExpireOffer(o) PROVE Quiet
  BY <1>2, ResolvedQuiet DEF ExpireOffer, rows, OfferStatuses
<1>3. ASSUME NEW o \in OfferIds, Decline(o) \/ Accept(o) PROVE Quiet
  BY <1>3 DEF Decline, Accept, rows, Quiet, LiveOffer, Offered, Won
<1>4. ASSUME NEW w \in Beauticians, GoOffline(w) PROVE Quiet
  BY <1>4, ResolvedQuiet DEF GoOffline, rows, OfferStatuses
<1>5. ASSUME NEW f \in forces, ForceClear(f) PROVE Quiet
  BY <1>5, ResolvedQuiet DEF ForceClear, rows, OfferStatuses
<1>6. ASSUME NEW b \in Bookings, CompleteJob(b) PROVE Quiet
  BY <1>6 DEF CompleteJob, TypeOK, Quiet, LiveOffer, Offered, Won
<1>7. ASSUME NEW r \in requests, CancelBooking(r) PROVE Quiet
  BY <1>7 DEF CancelBooking, TypeOK, Quiet, LiveOffer, Offered, Won
<1>8. CASE UNCHANGED <<status, assignee, offers>>
  BY <1>8 DEF Quiet, LiveOffer, Offered, Won
<1> QED
  BY <1>1, <1>2, <1>3, <1>4, <1>5, <1>6, <1>7, <1>8, PassStepKinds, CallStepKinds
     DEF Next, OfferStep, ForceStep, RunCreateJob, Crash, LockLapses, GoOnline,
         RequestMatching, RequestCancel, RestartMatching, ForceAssign, vars, rows

\* An insertion uses a fresh row for the chosen beautician and changes no other.
LEMMA InsertFacts ==
    ASSUME TypeInv, NEW b \in Bookings, InsertOffer(b)
    PROVE  /\ UNCHANGED <<status, assignee, exhausted, calls>>
           /\ pass[b].stage = "insert" /\ pass'[b].stage = "offering"
           /\ \A a \in Bookings \ {b} : pass'[a] = pass[a]
           /\ \E o \in OfferIds :
                 /\ offers[o].status = "NONE"
                 /\ offers'[o].booking = b /\ offers'[o].worker = pass[b].pick
                 /\ offers'[o].status = "OFFERED"
                 /\ \A p \in OfferIds \ {o} : offers'[p] = offers[p]
<1>1. UNCHANGED <<status, assignee, exhausted, calls>> /\ pass[b].stage = "insert"
  BY DEF InsertOffer, At, rows
<1> DEFINE new == [booking |-> b, worker |-> pass[b].pick, status |-> "OFFERED",
                   due |-> FALSE, forced |-> FALSE]
<1>2. PICK o \in OfferIds :
        /\ offers[o].status = "NONE"
        /\ offers' = [offers EXCEPT ![o] = new]
        /\ pass' = [pass EXCEPT ![b] = [pass[b] EXCEPT !.stage = "offering", !.offer = o,
                                                       !.made = @ \cup {o}]]
  BY DEF InsertOffer, Fresh
<1>3. new.booking = b /\ new.worker = pass[b].pick /\ new.status = "OFFERED"
  OBVIOUS
<1> HIDE DEF new
<1>4. /\ offers'[o].booking = b /\ offers'[o].worker = pass[b].pick
      /\ offers'[o].status = "OFFERED"
      /\ \A p \in OfferIds \ {o} : offers'[p] = offers[p]
  BY <1>2, <1>3 DEF TypeInv, TypeOK
<1> DEFINE q == [pass[b] EXCEPT !.stage = "offering", !.offer = o, !.made = @ \cup {o}]
<1>5. q.stage = "offering"
  <2>1. pass[b] \in Passes
    BY DEF TypeInv, TypeOK
  <2> QED BY <2>1 DEF Passes
<1>6. pass' = [pass EXCEPT ![b] = q]
  BY <1>2
<1> HIDE DEF q
<1>7. pass'[b].stage = "offering" /\ \A a \in Bookings \ {b} : pass'[a] = pass[a]
  BY <1>5, <1>6 DEF TypeInv, TypeOK
<1> QED BY <1>1, <1>2, <1>4, <1>7

\* A committed accept wins the booking with an offer that was pending, and leaves no
\* other offer of the booking pending.
LEMMA CommitFacts ==
    ASSUME TypeInv, NEW c \in calls, AcceptCommit(c)
    PROVE  /\ UNCHANGED <<exhausted, pass>>
           /\ c.stage = "commit"
           /\ \E o \in c.offers :
                 /\ o \in OfferIds /\ Offered(o) /\ offers[o].booking \in Bookings
                 /\ status' = [status EXCEPT ![offers[o].booking] = "ASSIGNED"]
                 /\ assignee' = [assignee EXCEPT ![offers[o].booking] = c.worker]
                 /\ \A p \in OfferIds :
                       /\ offers'[p].booking = offers[p].booking
                       /\ offers'[p].worker = offers[p].worker
                       /\ LiveOffer(p)' => LiveOffer(p)
                       /\ Offered(p)' => /\ Offered(p)
                                         /\ offers[p].booking # offers[o].booking
                       /\ Won(p)' => p = o \/ Won(p)
<1>1. /\ UNCHANGED <<exhausted, pass>> /\ c.stage = "commit"
      /\ c.offers \subseteq OfferIds
      /\ \A o \in c.offers : offers[o].booking \in Bookings
  BY DEF AcceptCommit, TypeInv, TypeOK, CallRecords, CallsOnOffers, OffersNamed
<1>2. PICK o \in c.offers : LET b == offers[o].booking IN
        /\ Offered(o)
        /\ offers' = [p \in OfferIds |->
                        IF p = o THEN [offers[p] EXCEPT !.status = "ACCEPTED"]
                        ELSE IF p \in OffersOf(b) /\ Offered(p)
                        THEN [offers[p] EXCEPT !.status = "EXPIRED"] ELSE offers[p]]
        /\ status' = [status EXCEPT ![b] = "ASSIGNED"]
        /\ assignee' = [assignee EXCEPT ![b] = c.worker]
  BY DEF AcceptCommit
<1>3. ASSUME NEW p \in OfferIds
      PROVE  /\ offers'[p].booking = offers[p].booking
             /\ offers'[p].worker = offers[p].worker
             /\ LiveOffer(p)' => LiveOffer(p)
             /\ Offered(p)' => /\ Offered(p)
                               /\ offers[p].booking # offers[o].booking
             /\ Won(p)' => p = o \/ Won(p)
  <2> DEFINE r == [offers[p] EXCEPT !.status = "ACCEPTED"]
             x == [offers[p] EXCEPT !.status = "EXPIRED"]
  <2>1. \/ offers'[p] = r /\ p = o
        \/ offers'[p] = x
        \/ offers'[p] = offers[p] /\ (Offered(p) => offers[p].booking # offers[o].booking)
    BY <1>2 DEF OffersOf
  <2>2. offers[p] \in Offers
    BY DEF TypeInv, TypeOK
  <2>3. /\ r.status = "ACCEPTED" /\ r.booking = offers[p].booking /\ r.worker = offers[p].worker
        /\ x.status = "EXPIRED" /\ x.booking = offers[p].booking /\ x.worker = offers[p].worker
    BY <2>2 DEF Offers
  <2> HIDE DEF r, x
  <2> QED BY <2>1, <2>3 DEF LiveOffer, Offered, Won
<1> QED BY <1>1, <1>2, <1>3

\* A force-assignment uses a fresh row, wins nothing by acceptance, and leaves no
\* offer of the booking pending.
LEMMA ForceFacts ==
    ASSUME TypeInv, NEW f \in forces, ForceAssignCommit(f)
    PROVE  /\ UNCHANGED <<pass, calls>>
           /\ f.booking \in Bookings
           /\ status' = [status EXCEPT ![f.booking] = "ASSIGNED"]
           /\ assignee' = [assignee EXCEPT ![f.booking] = f.worker]
           /\ exhausted' = [exhausted EXCEPT ![f.booking] = FALSE]
           /\ \E o \in OfferIds :
                 /\ offers[o].status = "NONE"
                 /\ offers'[o].status = "ACCEPTED" /\ offers'[o].forced
                 /\ offers'[o].booking = f.booking /\ offers'[o].worker = f.worker
                 /\ \A p \in OfferIds \ {o} :
                       /\ offers'[p].booking = offers[p].booking
                       /\ offers'[p].worker = offers[p].worker
                       /\ LiveOffer(p)' => LiveOffer(p)
                       /\ Offered(p)' => /\ Offered(p)
                                         /\ offers[p].booking # f.booking
                       /\ Won(p)' => Won(p)
<1> DEFINE b == f.booking
           new == [booking |-> b, worker |-> f.worker, status |-> "ACCEPTED",
                   due |-> TRUE, forced |-> TRUE]
           res == Resolved(OffersOf(b), "CANCELLED")
<1>1. /\ UNCHANGED <<pass, calls>> /\ b \in Bookings
      /\ status' = [status EXCEPT ![b] = "ASSIGNED"]
      /\ assignee' = [assignee EXCEPT ![b] = f.worker]
      /\ exhausted' = [exhausted EXCEPT ![b] = FALSE]
  BY DEF ForceAssignCommit, TypeInv, TypeOK
<1>2. PICK o \in OfferIds : offers[o].status = "NONE" /\ offers' = [res EXCEPT ![o] = new]
  BY DEF ForceAssignCommit, Fresh
<1>3. /\ new.status = "ACCEPTED" /\ new.forced = TRUE /\ new.booking = b
      /\ new.worker = f.worker
  OBVIOUS
<1>4. /\ res \in [OfferIds -> Offers]
      /\ \A p \in OfferIds : /\ res[p].status \in {offers[p].status, "CANCELLED"}
                             /\ res[p].booking = offers[p].booking
                             /\ res[p].worker = offers[p].worker
                             /\ res[p].due = offers[p].due
                             /\ res[p].forced = offers[p].forced
                             /\ res[p].status = "OFFERED" => p \notin OffersOf(b)
  <2>1. "CANCELLED" \in OfferStatuses \ {"NONE"} /\ TypeOK
    BY DEF OfferStatuses, TypeInv
  <2>2. \A p \in OfferIds : res[p].status = "OFFERED" => p \notin OffersOf(b)
    <3> SUFFICES ASSUME NEW p \in OfferIds, p \in OffersOf(b) PROVE res[p].status # "OFFERED"
      OBVIOUS
    <3>1. CASE Offered(p)
      <4>1. offers[p] \in Offers
        BY <2>1 DEF TypeOK
      <4>2. res[p] = [offers[p] EXCEPT !.status = "CANCELLED"]
        BY <3>1 DEF Resolved
      <4>3. [offers[p] EXCEPT !.status = "CANCELLED"].status = "CANCELLED"
        BY <4>1 DEF Offers
      <4> QED BY <4>2, <4>3
    <3>2. CASE ~Offered(p)
      <4>1. res[p] = offers[p]
        BY <3>2 DEF Resolved
      <4> QED BY <3>2, <4>1 DEF Offered
    <3> QED BY <3>1, <3>2
  <2> HIDE DEF b, res
  <2> QED BY <2>1, <2>2, ResolvedSame DEF res
<1> HIDE DEF new, res
<1>5. /\ offers'[o] = new
      /\ \A p \in OfferIds \ {o} : offers'[p] = res[p]
  BY <1>2, <1>4
<1>6. \A p \in OfferIds \ {o} :
         /\ offers'[p].booking = offers[p].booking
         /\ offers'[p].worker = offers[p].worker
         /\ LiveOffer(p)' => LiveOffer(p)
         /\ Offered(p)' => Offered(p) /\ offers[p].booking # b
         /\ Won(p)' => Won(p)
  BY <1>4, <1>5 DEF LiveOffer, Offered, Won, OffersOf
<1> QED BY <1>1, <1>2, <1>3, <1>5, <1>6

\* A flow that a step starts has the offers and the stage it was started with.
LEMMA StartedFlow ==
    ASSUME NEW op, NEW w, NEW os, NEW s, Start(op, w, os, s), NEW d \in calls'
    PROVE  d \in calls \/ (d.offers = os /\ d.stage = s)
BY DEF Start

\* A flow reaches its commit only by Accept.
LEMMA NewCommits ==
    ASSUME TypeInv, [Next]_vars, NEW d \in calls', d.stage = "commit"
    PROVE  d \in calls \/ \E o \in OfferIds : Accept(o) /\ d.offers = {o}
<1>0. TypeOK
  BY DEF TypeInv
<1>1. ASSUME NEW c \in calls, CallStep(c) PROVE d \in calls
  <2>1. CASE calls' \subseteq calls
    BY <2>1
  <2>2. CASE \E s \in CallStages \ {"commit"} : Step(c, s)
    BY <1>0, <2>2, StepFacts
  <2>3. CASE OfflineResume(c)
    <3>1. PICK o \in c.offers : calls' = (calls \ {c}) \cup
            {[c EXCEPT !.offers = @ \ {o},
                       !.stage = IF c.offers = {o} THEN "goOffline" ELSE "resume"]}
      BY <2>3 DEF OfflineResume
    <3> DEFINE s == IF c.offers = {o} THEN "goOffline" ELSE "resume"
               e == [c EXCEPT !.offers = @ \ {o}, !.stage = s]
    <3>2. calls' = (calls \ {c}) \cup {e}
      BY <3>1
    <3>3. s # "commit"
      OBVIOUS
    <3> HIDE DEF s
    <3>4. e.stage # "commit"
      <4>1. c \in CallRecords
        BY <1>0 DEF TypeOK
      <4> QED BY <3>3, <4>1 DEF CallRecords
    <3> HIDE DEF e
    <3> QED BY <3>2, <3>4
  <2> QED
    BY <1>1, <2>1, <2>2, <2>3
       DEF CallStep, DeclineWrite, AcceptCommit, AcceptConflict, AcceptUnlock, ReleaseRead,
           ReleaseWrite, Resume, Cleared, SetOffline, CountJobs, SetOnline, End, CallStages
<1>2. ASSUME NEW f \in forces, ForceStep(f) PROVE d \in calls
  BY <1>2 DEF ForceStep, ForceClear, ForceAssignCommit
<1>3. ASSUME NEW b \in Bookings, CompleteJob(b) PROVE d \in calls
  BY <1>3 DEF CompleteJob, Start
<1>4. ASSUME NEW w \in Beauticians, GoOnline(w) \/ GoOffline(w) PROVE d \in calls
  BY <1>4 DEF GoOnline, GoOffline, Start
<1>5. ASSUME NEW o \in OfferIds, OfferStep(o)
      PROVE  d \in calls \/ (Accept(o) /\ d.offers = {o})
  <2>1. CASE Accept(o)
    <3>1. Start("accept", offers[o].worker, {o}, "commit")
      BY <2>1 DEF Accept
    <3> QED BY <2>1, <3>1, StartedFlow
  <2>2. CASE calls' = calls
    BY <2>2
  <2>3. CASE Start("expire", offers[o].worker, {o}, "release")
    BY <2>3, StartedFlow
  <2>4. CASE Start("decline", offers[o].worker, {o}, "decline")
    BY <2>4, StartedFlow
  <2> QED BY <1>5, <2>1, <2>2, <2>3, <2>4 DEF OfferStep, OfferDue, ExpireOffer, Decline
<1>6. CASE calls' = calls
  BY <1>6
<1>7. ASSUME NEW b \in Bookings, PassStep(b) PROVE calls' = calls
  BY <1>7 DEF PassStep, CountOffers, PrepareAttempt, PrepareWrite, Search, SearchLater,
              GiveUp, MarkExhausted, MarkExhaustedWrite, CreateOffer, InsertOffer, Offering,
              OfferingWrite, ScheduleExpireOffer, ReleaseFlowLock
<1> QED
  BY <1>1, <1>2, <1>3, <1>4, <1>5, <1>6, <1>7
     DEF Next, RunCreateJob, Crash, LockLapses, RequestMatching, RequestCancel,
         RestartMatching, CancelBooking, ForceAssign, vars

-----------------------------------------------------------------------------
(* One winner, and no takeover.                                            *)

\* Initially no offer exists.
LEMMA InitNoOffers == Init => \A o \in OfferIds : offers[o].status = "NONE"
BY DEF Init, NoOffer

\* With no offers, nobody has won and no accept is on its way.
LEMMA InitAssign == Init => AssignInv
<1> SUFFICES ASSUME Init PROVE AssignInv
  OBVIOUS
<1> QED BY InitNoOffers DEF Init, AssignInv, WaitingNotWon, CommitsAreFirst, OneWinner, Won

\* Only a commit and a force-assignment can disturb who has the booking; a commit
\* that succeeds finds the booking waiting, and ends the offers of the others.
LEMMA StepAssign == TypeInv /\ TypeInv' /\ AssignInv /\ [Next]_vars => AssignInv'
<1> SUFFICES ASSUME TypeInv, TypeInv', AssignInv, [Next]_vars PROVE AssignInv'
  OBVIOUS
<1>0. /\ \A c \in calls : c.offers \subseteq OfferIds
      /\ \A o \in OfferIds : offers[o].status # "NONE" => offers[o].booking \in Bookings
      /\ \A c \in calls : \A o \in c.offers : offers[o].status # "NONE"
      /\ status \in [Bookings -> BookingStatuses]
  BY DEF TypeInv, TypeOK, CallRecords, OffersNamed, CallsOnOffers
<1>1. CASE Quiet
  <2>1. WaitingNotWon'
    BY <1>0, <1>1 DEF Quiet, AssignInv, WaitingNotWon, Won
  <2>2. CommitsAreFirst'
    <3> SUFFICES ASSUME NEW d \in calls', NEW o \in d.offers, d.stage = "commit", Offered(o)'
                 PROVE  /\ status'[offers'[o].booking] # "ASSIGNED"
                        /\ \A p \in OfferIds :
                              Won(p)' => offers'[p].booking # offers'[o].booking
      BY DEF CommitsAreFirst
    <3>1. CASE d \in calls
      <4>1. o \in OfferIds /\ Offered(o) /\ offers[o].booking \in Bookings
            /\ offers'[o].booking = offers[o].booking
        BY <1>0, <1>1, <3>1 DEF Quiet
      <4>2. /\ status[offers[o].booking] # "ASSIGNED"
            /\ \A p \in OfferIds : Won(p) => offers[p].booking # offers[o].booking
        BY <3>1, <4>1 DEF AssignInv, CommitsAreFirst
      <4> QED BY <1>1, <4>1, <4>2 DEF Quiet
    <3>2. ASSUME NEW a \in OfferIds, Accept(a), d.offers = {a}
          PROVE  /\ status'[offers'[o].booking] # "ASSIGNED"
                 /\ \A p \in OfferIds :
                       Won(p)' => offers'[p].booking # offers'[o].booking
      <4>1. o = a /\ status[offers[o].booking] = "PENDING_ASSIGNMENT"
            /\ UNCHANGED <<status, offers>>
        BY <3>2 DEF Accept, rows
      <4>2. \A p \in OfferIds : Won(p) => offers[p].booking # offers[o].booking
        BY <4>1 DEF AssignInv, WaitingNotWon
      <4> QED BY <4>1, <4>2 DEF Won
    <3> QED BY <3>1, <3>2, NewCommits
  <2>3. OneWinner'
    BY <1>1 DEF Quiet, AssignInv, OneWinner, Won
  <2> QED BY <2>1, <2>2, <2>3 DEF AssignInv
<1>2. ASSUME NEW b \in Bookings, InsertOffer(b) PROVE AssignInv'
  <2>1. PICK o \in OfferIds :
          /\ UNCHANGED <<status, calls>>
          /\ offers[o].status = "NONE" /\ offers'[o].status = "OFFERED"
          /\ \A p \in OfferIds \ {o} : offers'[p] = offers[p]
    BY <1>2, InsertFacts
  <2>2. \A p \in OfferIds : Won(p)' => Won(p) /\ p # o /\ offers'[p] = offers[p]
    BY <2>1 DEF Won
  <2>3. \A c \in calls : o \notin c.offers
    BY <1>0, <2>1
  <2>4. WaitingNotWon' /\ OneWinner'
    BY <2>1, <2>2 DEF AssignInv, WaitingNotWon, OneWinner, Won
  <2>5. CommitsAreFirst'
    BY <1>0, <2>1, <2>2, <2>3 DEF AssignInv, CommitsAreFirst, Offered
  <2> QED BY <2>4, <2>5 DEF AssignInv
<1>3. ASSUME NEW c \in calls, AcceptCommit(c) PROVE AssignInv'
  <2>1. PICK o \in c.offers :
          /\ c.stage = "commit"
          /\ o \in OfferIds /\ Offered(o) /\ offers[o].booking \in Bookings
          /\ status' = [status EXCEPT ![offers[o].booking] = "ASSIGNED"]
          /\ \A p \in OfferIds :
                /\ offers'[p].booking = offers[p].booking
                /\ Offered(p)' => /\ Offered(p)
                                  /\ offers[p].booking # offers[o].booking
                /\ Won(p)' => p = o \/ Won(p)
    BY <1>3, CommitFacts
  <2>2. \A p \in OfferIds : Won(p) => offers[p].booking # offers[o].booking
    BY <1>3, <2>1 DEF AssignInv, CommitsAreFirst
  <2>3. status'[offers[o].booking] = "ASSIGNED"
        /\ \A b \in Bookings : b # offers[o].booking => status'[b] = status[b]
    BY <1>0, <2>1
  <2>4. WaitingNotWon'
    <3> SUFFICES ASSUME NEW p \in OfferIds, Won(p)'
                 PROVE  status'[offers'[p].booking] # "PENDING_ASSIGNMENT"
      BY DEF WaitingNotWon
    <3>1. CASE p = o
      BY <2>1, <2>3, <3>1
    <3>2. CASE p # o
      <4>1. Won(p) /\ offers[p].booking \in Bookings /\ offers'[p].booking = offers[p].booking
        BY <1>0, <2>1, <3>2 DEF Won
      <4> QED BY <2>2, <2>3, <4>1 DEF AssignInv, WaitingNotWon
    <3> QED BY <3>1, <3>2
  <2>5. OneWinner'
    <3> SUFFICES ASSUME NEW p \in OfferIds, NEW q \in OfferIds, Won(p)', Won(q)',
                        offers'[p].booking = offers'[q].booking
                 PROVE  p = q
      BY DEF OneWinner, Won
    <3> QED BY <2>1, <2>2 DEF AssignInv, OneWinner, Won
  <2>6. CommitsAreFirst'
    <3> SUFFICES ASSUME NEW d \in calls', NEW q \in d.offers, d.stage = "commit", Offered(q)'
                 PROVE  /\ status'[offers'[q].booking] # "ASSIGNED"
                        /\ \A p \in OfferIds :
                              Won(p)' => offers'[p].booking # offers'[q].booking
      BY DEF CommitsAreFirst
    <3>1. d \in calls
      <4>1. \A a \in OfferIds : ~Accept(a)
        <5>1. ~Offered(o)'
          BY <2>1
        <5> QED BY <2>1, <5>1 DEF Accept, Offered
      <4> QED BY <4>1, NewCommits
    <3>2. q \in OfferIds /\ Offered(q) /\ offers[q].booking \in Bookings
          /\ offers'[q].booking = offers[q].booking
          /\ offers[q].booking # offers[o].booking
      BY <1>0, <2>1, <3>1
    <3>3. /\ status[offers[q].booking] # "ASSIGNED"
          /\ \A p \in OfferIds : Won(p) => offers[p].booking # offers[q].booking
      BY <3>1, <3>2 DEF AssignInv, CommitsAreFirst
    <3> QED BY <2>1, <2>3, <3>2, <3>3
  <2> QED BY <2>4, <2>5, <2>6 DEF AssignInv
<1>4. ASSUME NEW f \in forces, ForceAssignCommit(f) PROVE AssignInv'
  <2>1. /\ calls' = calls /\ f.booking \in Bookings
        /\ status' = [status EXCEPT ![f.booking] = "ASSIGNED"]
    BY <1>4, ForceFacts
  <2>2. PICK o \in OfferIds :
          /\ offers[o].status = "NONE"
          /\ offers'[o].status = "ACCEPTED" /\ offers'[o].forced
          /\ \A p \in OfferIds \ {o} :
                /\ offers'[p].booking = offers[p].booking
                /\ Offered(p)' => /\ Offered(p)
                                  /\ offers[p].booking # f.booking
                /\ Won(p)' => Won(p)
    BY <1>4, ForceFacts
  <2>3. status'[f.booking] = "ASSIGNED"
        /\ \A b \in Bookings : b # f.booking => status'[b] = status[b]
    BY <1>0, <2>1
  <2>4. \A p \in OfferIds : Won(p)' => /\ p # o /\ Won(p) /\ offers[p].booking \in Bookings
                                       /\ offers'[p].booking = offers[p].booking
    BY <1>0, <2>2 DEF Won
  <2>5. WaitingNotWon'
    BY <2>3, <2>4 DEF AssignInv, WaitingNotWon
  <2>6. OneWinner'
    <3> SUFFICES ASSUME NEW p \in OfferIds, NEW q \in OfferIds, Won(p)', Won(q)',
                        offers'[p].booking = offers'[q].booking
                 PROVE  p = q
      BY DEF OneWinner, Won
    <3> QED BY <2>4 DEF AssignInv, OneWinner, Won
  <2>7. CommitsAreFirst'
    <3> SUFFICES ASSUME NEW d \in calls, NEW q \in d.offers, d.stage = "commit", Offered(q)'
                 PROVE  /\ status'[offers'[q].booking] # "ASSIGNED"
                        /\ \A p \in OfferIds :
                              Won(p)' => offers'[p].booking # offers'[q].booking
      BY <2>1 DEF CommitsAreFirst
    <3>1. q \in OfferIds \ {o}
      BY <1>0, <2>2
    <3>2. Offered(q) /\ offers[q].booking \in Bookings
          /\ offers'[q].booking = offers[q].booking
          /\ offers[q].booking # f.booking
      BY <1>0, <2>2, <3>1
    <3>3. /\ status[offers[q].booking] # "ASSIGNED"
          /\ \A p \in OfferIds : Won(p) => offers[p].booking # offers[q].booking
      BY <3>2 DEF AssignInv, CommitsAreFirst
    <3> QED BY <2>3, <2>4, <3>2, <3>3
  <2> QED BY <2>5, <2>6, <2>7 DEF AssignInv
<1> QED BY <1>1, <1>2, <1>3, <1>4, StepKinds

\* At most one beautician ever wins a booking by accepting an offer, for any number
\* of bookings, beauticians, offers and interfering flows.
THEOREM AtMostOneWinner == Spec => []OneWinner
<1>1. AssignInv => OneWinner
  BY DEF AssignInv
<1> QED BY <1>1, InitTyped, StepTyped, InitAssign, StepAssign, PTL DEF Spec

\* A job in progress passes to another beautician only by a force-assignment.
THEOREM NobodyTakesOver == Spec => NoTakeover
<1> DEFINE Taken == \A b \in Bookings :
             status[b] = "ASSIGNED" /\ assignee'[b] # assignee[b] =>
               \E o \in OfferIds :
                   /\ offers[o].status = "NONE"
                   /\ offers'[o].booking = b
                   /\ offers'[o].worker = assignee'[b]
                   /\ offers'[o].forced
<1>1. TypeInv /\ AssignInv /\ [Next]_vars => [Taken]_vars
  <2> SUFFICES ASSUME TypeInv, AssignInv, [Next]_vars,
                      NEW b \in Bookings, status[b] = "ASSIGNED", assignee'[b] # assignee[b]
               PROVE  \E o \in OfferIds :
                        /\ offers[o].status = "NONE"
                        /\ offers'[o].booking = b
                        /\ offers'[o].worker = assignee'[b]
                        /\ offers'[o].forced
    OBVIOUS
  <2>0. assignee \in [Bookings -> Beauticians \cup {Nobody}]
    BY DEF TypeInv, TypeOK
  <2>1. ~Quiet
    BY DEF Quiet
  <2>2. \A a \in Bookings : ~InsertOffer(a)
    BY InsertFacts
  <2>3. \A c \in calls : ~AcceptCommit(c)
    <3> SUFFICES ASSUME NEW c \in calls, AcceptCommit(c) PROVE FALSE
      OBVIOUS
    <3>1. PICK o \in c.offers :
            /\ c.stage = "commit" /\ o \in OfferIds /\ Offered(o)
            /\ offers[o].booking \in Bookings
            /\ assignee' = [assignee EXCEPT ![offers[o].booking] = c.worker]
      BY CommitFacts
    <3>2. b = offers[o].booking
      BY <2>0, <3>1
    <3> QED BY <3>1, <3>2 DEF AssignInv, CommitsAreFirst
  <2>4. PICK f \in forces : ForceAssignCommit(f)
    BY <2>1, <2>2, <2>3, StepKinds
  <2>5. /\ f.booking \in Bookings
        /\ assignee' = [assignee EXCEPT ![f.booking] = f.worker]
        /\ \E o \in OfferIds :
              /\ offers[o].status = "NONE" /\ offers'[o].forced
              /\ offers'[o].booking = f.booking /\ offers'[o].worker = f.worker
    BY <2>4, ForceFacts
  <2>6. b = f.booking /\ assignee'[b] = f.worker
    BY <2>0, <2>5
  <2> QED BY <2>5, <2>6
<1>2. Spec => [][Taken]_vars
  BY <1>1, InitTyped, StepTyped, InitAssign, StepAssign, PTL DEF Spec
<1> QED BY <1>2 DEF NoTakeover

-----------------------------------------------------------------------------
(* Giving up.                                                              *)

\* Except for the insertion, no step makes an offer live or moves it.
Shrinks ==
    \A o \in OfferIds : LiveOffer(o)' =>
        /\ LiveOffer(o)
        /\ offers'[o].booking = offers[o].booking
        /\ offers'[o].worker = offers[o].worker

LEMMA LiveShrinks ==
    ASSUME TypeInv, [Next]_vars
    PROVE  Shrinks \/ \E b \in Bookings : InsertOffer(b)
<1>1. CASE Quiet
  BY <1>1 DEF Quiet, Shrinks
<1>2. ASSUME NEW c \in calls, AcceptCommit(c) PROVE Shrinks
  BY <1>2, CommitFacts DEF Shrinks
<1>3. ASSUME NEW f \in forces, ForceAssignCommit(f) PROVE Shrinks
  <2>1. PICK o \in OfferIds :
          /\ offers'[o].status = "ACCEPTED"
          /\ \A p \in OfferIds \ {o} :
                /\ offers'[p].booking = offers[p].booking
                /\ offers'[p].worker = offers[p].worker
                /\ LiveOffer(p)' => LiveOffer(p)
    BY <1>3, ForceFacts
  <2>2. ~LiveOffer(o)'
    BY <2>1 DEF LiveOffer, Offered
  <2> QED BY <2>1, <2>2 DEF Shrinks
<1> QED BY <1>1, <1>2, <1>3, StepKinds

\* How a pass moves, step by step, as far as the proofs below need it.
LEMMA PassMoves ==
    ASSUME TypeInv, NEW b \in Bookings, PassStep(b)
    PROVE  /\ \A a \in Bookings \ {b} : pass'[a] = pass[a]
           /\ \/ pass'[b].stage \in {"idle", "release"}
              \/ CountOffers(b) /\ pass'[b].stage \in {"prepare", "search"}
                 /\ pass'[b].slots = Cap - Cardinality(Live(b))
              \/ pass[b].stage = "prepare" /\ pass'[b].stage \in {"prepareWrite", "search"}
                 /\ pass'[b].slots = pass[b].slots
              \/ pass[b].stage = "prepareWrite" /\ pass'[b].stage = "search"
                 /\ pass'[b].slots = pass[b].slots
              \/ pass[b].stage = "search" /\ pass'[b].stage = "create"
              \/ pass[b].stage = "search" /\ pass'[b].stage = "noCandidate"
                 /\ pass[b].slots = Cap
              \/ pass[b].stage = "noCandidate" /\ pass'[b].stage = "exhaust"
              \/ pass[b].stage = "exhaust" /\ pass'[b].stage = "exhaustWrite"
              \/ CreateOffer(b) /\ pass[b].stage = "create"
                 /\ pass'[b].stage \in {"create", "insert"}
              \/ InsertOffer(b) /\ pass'[b].stage = "offering"
              \/ pass[b].stage \in {"offering", "offeringWrite", "schedule"}
                 /\ pass'[b].stage \in {"offeringWrite", "schedule", "create"}
<1>0. TypeOK /\ pass[b] \in Passes /\ pass \in [Bookings -> Passes]
  BY DEF TypeInv, TypeOK
<1>1. CASE CountOffers(b)
  <2> DEFINE open == Cap - Cardinality(Live(b))
             stage == IF pass[b].resume THEN "prepare" ELSE "search"
             p == [pass[b] EXCEPT !.slots = open, !.resume = FALSE, !.stage = stage]
  <2>1. Finish(b) \/ pass' = [pass EXCEPT ![b] = p]
    BY <1>1 DEF CountOffers
  <2>2. stage \in {"prepare", "search"}
    OBVIOUS
  <2> HIDE DEF open, stage
  <2>3. p.stage \in {"prepare", "search"} /\ p.slots = open
    BY <1>0, <2>2 DEF Passes
  <2> HIDE DEF p
  <2> QED BY <1>0, <1>1, <2>1, <2>3, FinishFacts DEF open
<1>2. CASE PrepareAttempt(b)
  BY <1>0, <1>2, GotoFacts DEF PrepareAttempt, At, PassStages
<1>3. CASE PrepareWrite(b)
  BY <1>0, <1>3, GotoFacts DEF PrepareWrite, At, PassStages
<1>4. CASE Search(b)
  <2>1. CASE Finish(b)
    BY <1>0, <2>1, FinishFacts
  <2>2. CASE ~Finish(b)
    <3>1. PICK picks \in SUBSET Eligible(b) :
            /\ ~(picks = {} /\ pass[b].slots < Cap)
            /\ pass' = [pass EXCEPT ![b].picks = picks, ![b].slots = 0,
                          ![b].stage = IF picks # {} THEN "create" ELSE "noCandidate"]
      BY <1>4, <2>2 DEF Search
    <3> DEFINE stage == IF picks # {} THEN "create" ELSE "noCandidate"
               p == [pass[b] EXCEPT !.picks = picks, !.slots = 0, !.stage = stage]
    <3>2. pass' = [pass EXCEPT ![b] = p]
      BY <3>1
    <3>3. stage = "create" \/ (stage = "noCandidate" /\ ~(pass[b].slots < Cap))
      BY <3>1
    <3> HIDE DEF stage
    <3>4. p.stage = stage
      BY <1>0 DEF Passes
    <3> HIDE DEF p
    <3>5. pass[b].slots \in 0..Cap
      BY <1>0 DEF Passes
    <3>6. ~(pass[b].slots < Cap) => pass[b].slots = Cap
      BY <3>5, CapAssumption
    <3>7. pass[b].stage = "search"
      BY <1>4 DEF Search, At
    <3> QED BY <1>0, <3>2, <3>3, <3>4, <3>6, <3>7
  <2> QED BY <2>1, <2>2
<1>5. CASE SearchLater(b) \/ MarkExhaustedWrite(b)
  BY <1>0, <1>5, FinishFacts DEF SearchLater, MarkExhaustedWrite
<1>6. ASSUME NEW reason \in Reasons, GiveUp(b, reason)
      PROVE  /\ \A a \in Bookings \ {b} : pass'[a] = pass[a]
             /\ pass[b].stage = "noCandidate" /\ pass'[b].stage = "exhaust"
  <2> DEFINE p == [pass[b] EXCEPT !.stage = "exhaust", !.reason = reason]
  <2>1. pass' = [pass EXCEPT ![b] = p] /\ pass[b].stage = "noCandidate"
    BY <1>6 DEF GiveUp, At
  <2>2. p.stage = "exhaust"
    BY <1>0 DEF Passes
  <2> HIDE DEF p
  <2> QED BY <1>0, <2>1, <2>2
<1>7. CASE MarkExhausted(b)
  BY <1>0, <1>7, GotoFacts, FinishFacts DEF MarkExhausted, At, PassStages
<1>8. CASE CreateOffer(b)
  <2>1. CASE Finish(b)
    BY <1>0, <2>1, FinishFacts
  <2>2. CASE ~Finish(b)
    <3>1. PICK w \in pass[b].picks :
            \/ pass' = [pass EXCEPT ![b] = [pass[b] EXCEPT !.picks = @ \ {w}]]
            \/ pass' = [pass EXCEPT ![b] = [pass[b] EXCEPT !.stage = "insert", !.pick = w,
                                                           !.picks = @ \ {w}]]
      BY <1>8, <2>2 DEF CreateOffer
    <3> DEFINE p == [pass[b] EXCEPT !.picks = @ \ {w}]
               q == [pass[b] EXCEPT !.stage = "insert", !.pick = w, !.picks = @ \ {w}]
    <3>2. pass[b].stage = "create"
      BY <1>8 DEF CreateOffer, At
    <3>3. p.stage = "create" /\ q.stage = "insert"
      BY <1>0, <3>2 DEF Passes
    <3>4. pass' = [pass EXCEPT ![b] = p] \/ pass' = [pass EXCEPT ![b] = q]
      BY <3>1
    <3> HIDE DEF p, q
    <3> QED BY <1>0, <1>8, <3>2, <3>3, <3>4
  <2> QED BY <2>1, <2>2
<1>9. CASE InsertOffer(b)
  BY <1>9, InsertFacts
<1>10. CASE Offering(b) \/ OfferingWrite(b)
  BY <1>0, <1>10, GotoFacts DEF Offering, OfferingWrite, At, PassStages
<1>11. CASE ScheduleExpireOffer(b)
  <2> DEFINE p == [pass[b] EXCEPT !.stage = "create", !.pick = Nobody, !.offer = 0]
  <2>1. pass' = [pass EXCEPT ![b] = p] /\ pass[b].stage = "schedule"
    BY <1>11 DEF ScheduleExpireOffer, At
  <2>2. p.stage = "create"
    BY <1>0 DEF Passes
  <2> HIDE DEF p
  <2> QED BY <1>0, <2>1, <2>2
<1>12. CASE ReleaseFlowLock(b)
  BY <1>0, <1>12 DEF ReleaseFlowLock, IdlePass
<1> QED BY <1>1, <1>2, <1>3, <1>4, <1>5, <1>6, <1>7, <1>8, <1>9, <1>10, <1>11, <1>12
           DEF PassStep

\* A step is one of a pass, or starts or drops one, or leaves the passes alone.
LEMMA PassKinds ==
    ASSUME TypeInv, [Next]_vars
    PROVE  \/ \E b \in Bookings : PassStep(b)
           \/ pass' = pass
           \/ \E b \in Bookings :
                 /\ \A a \in Bookings \ {b} : pass'[a] = pass[a]
                 /\ pass'[b].stage = "idle" \/ (pass'[b].stage = "count" /\ Matchable(b))
<1>0. TypeOK /\ pass \in [Bookings -> Passes]
      /\ \A c \in calls : /\ c.worker \in Beauticians
                          /\ \A o \in c.offers : offers[o].booking \in Bookings
  BY DEF TypeInv, TypeOK, CallRecords, OffersNamed, CallsOnOffers
<1> DEFINE Moved(b) == /\ \A a \in Bookings \ {b} : pass'[a] = pass[a]
                       /\ \/ pass'[b].stage = "idle"
                          \/ pass'[b].stage = "count" /\ Matchable(b)
<1>1. ASSUME NEW b \in Bookings, NEW by \in Beauticians \cup {Nobody},
             pass' = PassAfterTrigger(b, by)
      PROVE  pass' = pass \/ Moved(b)
  BY <1>0, <1>1, TriggerFacts
<1>2. ASSUME NEW b \in Bookings, Crash(b) PROVE Moved(b)
  BY <1>0, <1>2 DEF Crash, IdlePass
<1>3. ASSUME NEW b \in Bookings, NEW kind \in JobKinds, RunCreateJob(b, kind)
      PROVE  pass' = pass \/ Moved(b)
  BY <1>1, <1>3 DEF RunCreateJob
<1>4. ASSUME NEW c \in calls, CallStep(c)
      PROVE  pass' = pass \/ \E b \in Bookings : Moved(b)
  <2> HIDE DEF Moved
  <2>1. CASE Resume(c)
    <3>1. PICK o \in c.offers : pass' = PassAfterTrigger(offers[o].booking, Nobody)
      BY <2>1 DEF Resume
    <3> QED BY <1>0, <1>1, <3>1
  <2>2. CASE OfflineResume(c)
    <3>1. PICK o \in c.offers : pass' = PassAfterTrigger(offers[o].booking, c.worker)
      BY <2>2 DEF OfflineResume
    <3> QED BY <1>0, <1>1, <3>1
  <2>3. CASE ~Resume(c) /\ ~OfflineResume(c)
    BY <1>4, <2>3 DEF CallStep, DeclineWrite, AcceptCommit, AcceptConflict, AcceptUnlock,
              ReleaseRead, ReleaseWrite, Cleared, SetOffline, CountJobs, SetOnline
  <2> QED BY <2>1, <2>2, <2>3
<1>5. ASSUME NEW o \in OfferIds, OfferStep(o) PROVE pass' = pass
  BY <1>5 DEF OfferStep, OfferDue, ExpireOffer, Decline, Accept
<1>6. ASSUME NEW f \in forces, ForceStep(f) PROVE pass' = pass
  BY <1>6 DEF ForceStep, ForceClear, ForceAssignCommit
<1>7. CASE pass' = pass
  BY <1>7
<1> HIDE DEF Moved
<1>8. \/ \E b \in Bookings : PassStep(b)
      \/ pass' = pass
      \/ \E b \in Bookings : Moved(b)
  BY <1>2, <1>3, <1>4, <1>5, <1>6, <1>7
     DEF Next, LockLapses, CompleteJob, GoOnline, GoOffline, RequestMatching, RequestCancel,
         RestartMatching, CancelBooking, ForceAssign, vars
<1> QED BY <1>8 DEF Moved

\* Only a pass gives up, and only at its last stage.
LEMMA ExhaustedOnlyBy ==
    ASSUME TypeInv, [Next]_vars, NEW b \in Bookings, exhausted'[b], ~exhausted[b]
    PROVE  pass[b].stage = "exhaustWrite" /\ pass'[b].stage = "release"
<1>0. TypeOK /\ exhausted \in [Bookings -> BOOLEAN]
  BY DEF TypeInv, TypeOK
<1>1. exhausted' # exhausted
  OBVIOUS
<1>2. ASSUME NEW a \in Bookings, PassStep(a) PROVE a = b /\ MarkExhaustedWrite(b)
  <2>1. MarkExhaustedWrite(a)
    BY <1>1, <1>2 DEF PassStep, CountOffers, PrepareAttempt, PrepareWrite, Search, SearchLater,
                GiveUp, MarkExhausted, CreateOffer, InsertOffer, Offering,
                OfferingWrite, ScheduleExpireOffer, ReleaseFlowLock, rows
  <2>2. a = b
    BY <1>0, <2>1 DEF MarkExhaustedWrite
  <2> QED BY <2>1, <2>2
<1>3. ASSUME NEW r \in requests, RestartMatching(r) PROVE FALSE
  BY <1>0, <1>3 DEF RestartMatching
<1>4. ASSUME NEW f \in forces, ForceAssignCommit(f) PROVE FALSE
  BY <1>0, <1>4 DEF ForceAssignCommit
<1>5. ASSUME NEW c \in calls, CallStep(c) PROVE FALSE
  BY <1>1, <1>5 DEF CallStep, DeclineWrite, AcceptCommit, AcceptConflict, AcceptUnlock,
            ReleaseRead, ReleaseWrite, Resume, Cleared, OfflineResume, SetOffline, CountJobs,
            SetOnline, rows
<1>6. ASSUME NEW o \in OfferIds, OfferStep(o) PROVE FALSE
  BY <1>1, <1>6 DEF OfferStep, OfferDue, ExpireOffer, Decline, Accept, rows
<1>7. MarkExhaustedWrite(b)
  BY <1>1, <1>2, <1>3, <1>4, <1>5, <1>6
     DEF Next, ForceStep, ForceClear, RunCreateJob, Crash, LockLapses, CompleteJob, GoOnline,
         GoOffline, RequestMatching, RequestCancel, CancelBooking, ForceAssign, vars, rows
<1> QED BY <1>0, <1>7, FinishFacts DEF MarkExhaustedWrite, At

\* With no offers, nobody is thinking.
LEMMA InitExhaust == Init => ExhaustInv
<1> SUFFICES ASSUME Init PROVE ExhaustInv
  OBVIOUS
<1> QED BY InitNoOffers DEF Init, ExhaustInv, PassNotExhausted, NobodyThinking,
           ExhaustedHasNoLiveOffer, LiveOffer, Offered, IdlePass

\* A pass that is past its search keeps the flow lock, so what it knew still holds
\* at its last write: nobody else makes an offer, and offers only end.
LEMMA StepExhaust == TypeInv /\ ExhaustInv /\ [Next]_vars => ExhaustInv'
<1> SUFFICES ASSUME TypeInv, ExhaustInv, [Next]_vars PROVE ExhaustInv'
  OBVIOUS
<1>0. /\ \A o \in OfferIds : LiveOffer(o) => offers[o].booking \in Bookings
      /\ exhausted \in [Bookings -> BOOLEAN]
  BY DEF TypeInv, TypeOK, OffersNamed, LiveOffer, Offered
<1>1. PassNotExhausted'
  <2> SUFFICES ASSUME NEW b \in Bookings, pass'[b].stage \notin {"idle", "release"}
               PROVE  ~exhausted'[b]
    BY DEF PassNotExhausted
  <2>1. exhausted'[b] => exhausted[b]
    BY ExhaustedOnlyBy
  <2>2. CASE pass[b].stage \notin {"idle", "release"}
    BY <2>1, <2>2 DEF ExhaustInv, PassNotExhausted
  <2>3. CASE pass[b].stage \in {"idle", "release"}
    <3>1. ~PassStep(b)
      <4> SUFFICES ASSUME PassStep(b) PROVE FALSE
        OBVIOUS
      <4> QED BY <2>3, PassMoves DEF CountOffers, CreateOffer, InsertOffer, At
    <3>2. pass'[b].stage = "count" /\ Matchable(b)
      BY <2>3, <3>1, PassKinds, PassMoves
    <3> QED BY <2>1, <3>2 DEF Matchable
  <2> QED BY <2>2, <2>3
<1>2. NobodyThinking'
  <2> SUFFICES ASSUME NEW b \in Bookings,
                      \/ pass'[b].stage \in {"noCandidate", "exhaust", "exhaustWrite"}
                      \/ /\ pass'[b].stage \in {"prepare", "prepareWrite", "search"}
                         /\ pass'[b].slots = Cap,
                      NEW o \in OfferIds, LiveOffer(o)'
               PROVE  offers'[o].booking # b
    BY DEF NobodyThinking
  <2>1. ASSUME NEW a \in Bookings, InsertOffer(a) PROVE offers'[o].booking # b
    <3>1. PICK n \in OfferIds :
            /\ offers'[n].booking = a
            /\ pass'[a].stage = "offering"
            /\ \A c \in Bookings \ {a} : pass'[c] = pass[c]
            /\ \A p \in OfferIds \ {n} : offers'[p] = offers[p]
      BY <2>1, InsertFacts
    <3>2. b # a /\ pass'[b] = pass[b]
      BY <3>1
    <3>3. \A p \in OfferIds : LiveOffer(p) => offers[p].booking # b
      BY <3>2 DEF ExhaustInv, NobodyThinking
    <3> QED BY <3>1, <3>2, <3>3 DEF LiveOffer, Offered
  <2>2. CASE Shrinks
    <3> SUFFICES offers[o].booking # b
      BY <2>2 DEF Shrinks
    <3>0. LiveOffer(o)
      BY <2>2 DEF Shrinks
    <3>1. CASE pass'[b] = pass[b]
      BY <3>0, <3>1 DEF ExhaustInv, NobodyThinking
    <3>2. CASE PassStep(b)
      <4>1. CASE pass'[b].slots = Cap - Cardinality(Live(b)) /\ pass'[b].slots = Cap
        <5>1. IsFiniteSet(Live(b)) /\ Cardinality(Live(b)) \in Nat
          BY SizeOfOffers DEF Live, OffersOf
        <5>2. Cardinality(Live(b)) = 0
          BY <4>1, <5>1, CapAssumption
        <5>3. Live(b) = {}
          BY <5>1, <5>2, FS_EmptySet
        <5> QED BY <3>0, <5>3 DEF Live, OffersOf
      <4>2. CASE ~(pass'[b].slots = Cap - Cardinality(Live(b)) /\ pass'[b].slots = Cap)
        <5>1. \/ pass[b].stage \in {"noCandidate", "exhaust", "exhaustWrite"}
              \/ /\ pass[b].stage \in {"prepare", "prepareWrite", "search"}
                 /\ pass[b].slots = Cap
          BY <3>2, <4>2, PassMoves
        <5> QED BY <3>0, <5>1 DEF ExhaustInv, NobodyThinking
      <4> QED BY <4>1, <4>2
    <3>3. CASE pass'[b] # pass[b] /\ ~PassStep(b)
      BY <3>3, PassKinds, PassMoves
    <3> QED BY <3>1, <3>2, <3>3
  <2> QED BY <2>1, <2>2, LiveShrinks
<1>3. ExhaustedHasNoLiveOffer'
  <2> SUFFICES ASSUME NEW o \in OfferIds, LiveOffer(o)'
               PROVE  ~exhausted'[offers'[o].booking]
    BY DEF ExhaustedHasNoLiveOffer
  <2>1. ASSUME NEW a \in Bookings, InsertOffer(a) PROVE ~exhausted'[offers'[o].booking]
    <3>1. PICK n \in OfferIds :
            /\ offers'[n].booking = a /\ pass[a].stage = "insert"
            /\ exhausted' = exhausted
            /\ \A p \in OfferIds \ {n} : offers'[p] = offers[p]
      BY <2>1, InsertFacts
    <3>2. ~exhausted[a]
      BY <3>1 DEF ExhaustInv, PassNotExhausted
    <3> QED BY <3>1, <3>2 DEF ExhaustInv, ExhaustedHasNoLiveOffer, LiveOffer, Offered
  <2>2. CASE Shrinks
    <3>1. LiveOffer(o) /\ offers'[o].booking = offers[o].booking
          /\ offers[o].booking \in Bookings
      BY <1>0, <2>2 DEF Shrinks
    <3>2. ~exhausted[offers[o].booking]
      BY <3>1 DEF ExhaustInv, ExhaustedHasNoLiveOffer
    <3>3. pass[offers[o].booking].stage # "exhaustWrite"
      BY <3>1 DEF ExhaustInv, NobodyThinking
    <3> QED BY <3>1, <3>2, <3>3, ExhaustedOnlyBy
  <2> QED BY <2>1, <2>2, LiveShrinks
<1> QED BY <1>1, <1>2, <1>3 DEF ExhaustInv

\* Matching never gives up on a booking somebody can still accept.
THEOREM GivesUpOnlyWhenNobodyThinks == Spec => []ExhaustedHasNoLiveOffer
<1>1. ExhaustInv => ExhaustedHasNoLiveOffer
  BY DEF ExhaustInv
<1> QED BY <1>1, InitTyped, StepTyped, InitExhaust, StepExhaust, PTL DEF Spec

-----------------------------------------------------------------------------
(* The cap on live offers.                                                 *)

\* When a pass chooses whom to offer the job, there is room, and the chosen one has
\* no live offer of this booking.
LEMMA ChosenHasRoom ==
    ASSUME TypeInv, NEW b \in Bookings, CreateOffer(b), pass'[b].stage = "insert"
    PROVE  /\ offers' = offers
           /\ Cardinality(Live(b)) < Cap
           /\ \A o \in Live(b) : offers[o].worker # pass'[b].pick
<1>0. TypeOK /\ pass[b] \in Passes /\ pass[b].stage = "create"
      /\ pass \in [Bookings -> Passes]
  BY DEF TypeInv, TypeOK, CreateOffer, At
<1>1. ~Finish(b)
  BY <1>0, FinishFacts
<1>2. PICK w \in pass[b].picks :
        \/ pass' = [pass EXCEPT ![b] = [pass[b] EXCEPT !.picks = @ \ {w}]]
        \/ /\ ~(Cardinality(Live(b)) >= Cap \/ \E o \in Live(b) : offers[o].worker = w)
           /\ pass' = [pass EXCEPT ![b] = [pass[b] EXCEPT !.stage = "insert", !.pick = w,
                                                          !.picks = @ \ {w}]]
  BY <1>1 DEF CreateOffer
<1> DEFINE p == [pass[b] EXCEPT !.picks = @ \ {w}]
           q == [pass[b] EXCEPT !.stage = "insert", !.pick = w, !.picks = @ \ {w}]
<1>3. p.stage = "create" /\ q.pick = w
  BY <1>0 DEF Passes
<1>4. \/ pass' = [pass EXCEPT ![b] = p]
      \/ /\ ~(Cardinality(Live(b)) >= Cap \/ \E o \in Live(b) : offers[o].worker = w)
         /\ pass' = [pass EXCEPT ![b] = q]
  BY <1>2
<1> HIDE DEF p, q
<1>5. pass'[b].pick = w
      /\ ~(Cardinality(Live(b)) >= Cap \/ \E o \in Live(b) : offers[o].worker = w)
  BY <1>0, <1>3, <1>4
<1>6. Cardinality(Live(b)) \in Nat
  BY SizeOfOffers DEF Live, OffersOf
<1>7. offers' = offers
  BY DEF CreateOffer
<1> QED BY <1>5, <1>6, <1>7, CapAssumption

\* A step that inserts no offer of b leaves b with some of its live offers.
LEMMA LiveSubset ==
    ASSUME TypeInv, [Next]_vars, NEW b \in Bookings, ~InsertOffer(b)
    PROVE  /\ Live(b)' \subseteq Live(b)
           /\ Cardinality(Live(b)') <= Cardinality(Live(b))
           /\ \A o \in Live(b)' : offers'[o].worker = offers[o].worker
<1>1. CASE Shrinks
  <2>1. /\ Live(b)' \subseteq Live(b)
        /\ \A o \in Live(b)' : offers'[o].worker = offers[o].worker
    BY <1>1 DEF Shrinks, Live, OffersOf
  <2>2. IsFiniteSet(Live(b))
    BY SizeOfOffers DEF Live, OffersOf
  <2>3. Cardinality(Live(b)') <= Cardinality(Live(b))
    BY <2>1, <2>2, FS_Subset
  <2> QED BY <2>1, <2>3
<1>2. ASSUME NEW a \in Bookings, InsertOffer(a)
      PROVE  /\ Live(b)' \subseteq Live(b)
             /\ Cardinality(Live(b)') <= Cardinality(Live(b))
             /\ \A o \in Live(b)' : offers'[o].worker = offers[o].worker
  <2>1. PICK n \in OfferIds :
          /\ offers'[n].booking = a /\ a # b
          /\ \A p \in OfferIds \ {n} : offers'[p] = offers[p]
    BY <1>2, InsertFacts
  <2>2. /\ Live(b)' \subseteq Live(b)
        /\ \A o \in Live(b)' : offers'[o].worker = offers[o].worker
    BY <2>1 DEF Live, OffersOf, LiveOffer, Offered
  <2>3. IsFiniteSet(Live(b))
    BY SizeOfOffers DEF Live, OffersOf
  <2>4. Cardinality(Live(b)') <= Cardinality(Live(b))
    BY <2>2, <2>3, FS_Subset
  <2> QED BY <2>2, <2>4
<1> QED BY <1>1, <1>2, LiveShrinks

\* With no offers there is room.
LEMMA InitCap == Init => CapInv
<1> SUFFICES ASSUME Init PROVE CapInv
  OBVIOUS
<1>1. \A o \in OfferIds : ~LiveOffer(o)
  BY InitNoOffers DEF LiveOffer, Offered
<1>2. \A b \in Bookings : {o \in OfferIds : offers[o].booking = b /\ LiveOffer(o)} = {}
  BY <1>1
<1>3. Cardinality({}) <= Cap
  BY FS_EmptySet, CapAssumption
<1>4. LiveOffersWithinCap
  BY <1>1, <1>2, <1>3 DEF LiveOffersWithinCap
<1>5. RoomToInsert
  BY DEF Init, RoomToInsert, IdlePass
<1> QED BY <1>4, <1>5 DEF CapInv

\* Only b's own pass inserts an offer of b, and others only take offers away, so
\* the room it counted is still there at the insert.
LEMMA StepCap == TypeInv /\ TypeInv' /\ CapInv /\ [Next]_vars => CapInv'
<1> SUFFICES ASSUME TypeInv, TypeInv', CapInv, [Next]_vars PROVE CapInv'
  OBVIOUS
<1>0. \A b \in Bookings : /\ Cardinality(Live(b)) \in Nat /\ Cardinality(Live(b)') \in Nat
                          /\ Live(b) \subseteq OfferIds /\ IsFiniteSet(Live(b))
  BY SizeOfOffers DEF Live, OffersOf
<1>1. RoomToInsert'
  <2> SUFFICES ASSUME NEW b \in Bookings, pass'[b].stage = "insert"
               PROVE  /\ Cardinality(Live(b)') < Cap
                      /\ \A o \in Live(b)' : offers'[o].worker # pass'[b].pick
    BY DEF RoomToInsert, Live, OffersOf
  <2>1. ~InsertOffer(b)
    BY InsertFacts
  <2>2. CASE pass'[b] = pass[b]
    <3>1. /\ Cardinality(Live(b)) < Cap
          /\ \A o \in Live(b) : offers[o].worker # pass'[b].pick
      BY <2>2 DEF CapInv, RoomToInsert, Live, OffersOf
    <3> QED BY <1>0, <2>1, <3>1, LiveSubset, CapAssumption
  <2>3. CASE PassStep(b)
    <3>1. CreateOffer(b)
      BY <2>3, PassMoves
    <3>2. /\ offers' = offers
          /\ Cardinality(Live(b)) < Cap
          /\ \A o \in Live(b) : offers[o].worker # pass'[b].pick
      BY <3>1, ChosenHasRoom
    <3>3. Live(b)' = Live(b)
      BY <3>2 DEF Live, OffersOf, LiveOffer, Offered
    <3> QED BY <3>2, <3>3
  <2>4. CASE pass'[b] # pass[b] /\ ~PassStep(b)
    BY <2>4, PassKinds, PassMoves
  <2> QED BY <2>2, <2>3, <2>4
<1>2. LiveOffersWithinCap'
  <2> SUFFICES ASSUME NEW b \in Bookings
               PROVE  /\ Cardinality(Live(b)') <= Cap
                      /\ \A o, p \in Live(b)' : offers'[o].worker = offers'[p].worker => o = p
    <3>1. \A b \in Bookings :
            Live(b)' = {o \in OfferIds : offers'[o].booking = b /\ LiveOffer(o)'}
      BY DEF Live, OffersOf
    <3> QED BY <3>1 DEF LiveOffersWithinCap, Live, OffersOf
  <2>1. /\ Cardinality(Live(b)) <= Cap
        /\ \A o, p \in Live(b) : offers[o].worker = offers[p].worker => o = p
    <3>1. Live(b) = {o \in OfferIds : offers[o].booking = b /\ LiveOffer(o)}
      BY DEF Live, OffersOf
    <3> QED BY <3>1 DEF CapInv, LiveOffersWithinCap
  <2>2. CASE ~InsertOffer(b)
    BY <1>0, <2>1, <2>2, LiveSubset, CapAssumption
  <2>3. CASE InsertOffer(b)
    <3>1. PICK n \in OfferIds :
            /\ offers[n].status = "NONE" /\ pass[b].stage = "insert"
            /\ offers'[n].worker = pass[b].pick
            /\ \A p \in OfferIds \ {n} : offers'[p] = offers[p]
      BY <2>3, InsertFacts
    <3>2. /\ Cardinality(Live(b)) < Cap
          /\ \A o \in Live(b) : offers[o].worker # pass[b].pick
      BY <3>1 DEF CapInv, RoomToInsert, Live, OffersOf
    <3>3. n \notin Live(b) /\ Live(b)' \subseteq Live(b) \cup {n}
      BY <3>1 DEF Live, OffersOf, LiveOffer, Offered
    <3>4. /\ IsFiniteSet(Live(b) \cup {n})
          /\ Cardinality(Live(b) \cup {n}) = Cardinality(Live(b)) + 1
      BY <1>0, <3>3, FS_AddElement
    <3>5. Cardinality(Live(b)') <= Cardinality(Live(b) \cup {n})
      BY <3>3, <3>4, FS_Subset
    <3>6. Cardinality(Live(b)') <= Cap
      BY <1>0, <3>2, <3>4, <3>5, CapAssumption
    <3>7. \A o, p \in Live(b)' : offers'[o].worker = offers'[p].worker => o = p
      BY <1>0, <2>1, <3>1, <3>2, <3>3
    <3> QED BY <3>6, <3>7
  <2> QED BY <2>2, <2>3
<1> QED BY <1>1, <1>2 DEF CapInv

\* A booking is never with more beauticians than configured, nor twice with the same.
THEOREM NeverAboveTheCap == Spec => []LiveOffersWithinCap
<1>1. CapInv => LiveOffersWithinCap
  BY DEF CapInv
<1> QED BY <1>1, InitTyped, StepTyped, InitCap, StepCap, PTL DEF Spec
=============================================================================
