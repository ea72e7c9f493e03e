------------------------------ MODULE Inventory -------------------------------
(***************************************************************************)
(* A branch's stock, in buckets (STORE, SALES, USAGE), and everything that *)
(* moves it: goods received, allocation between buckets, sales, and the    *)
(* adjustments and transfers that the approval engine decides; with the    *)
(* low-stock alerts these raise.  Every movement is recorded beside it.    *)
(*                                                                         *)
(* Sales and transfers subtract from what the row holds; adjustments and   *)
(* allocations write what they computed from an earlier read.  All check   *)
(* first and write later, so handlers that overlap can undo each other.    *)
(* Expiry alerts and the items' other columns are left out.                *)
(*                                                                         *)
(* Before it the approval engine that both these and purchases go through: *)
(* one request per thing that awaits approval, which one person decides,   *)
(* or a chain of stages, each for the holders of a role.  The modules of   *)
(* what is approved start its operations and take its steps as parts of    *)
(* their own handlers.  Every operation reads the request, and later       *)
(* writes it by id.  Chains are set up before the requests (setChainStages *)
(* is left out).                                                           *)
(***************************************************************************)
EXTENDS Handlers, Sequences, Sums

-----------------------------------------------------------------------------
(* The approval engine.                                                    *)

CONSTANTS
    Chain       \* Chain[r]: how many stages r's request type has, 0 for no chain

Requests == DOMAIN Chain

\* Bound: a chain has at most two stages.
ASSUME ChainAssumption == Chain \in [Requests -> 0..2]

\* "elevated": an admin.  "assignee": the approver of record.  n > 0: a holder of the role
\* of stage n.
Elevated == 9
Assignee == 0
Actors == {Elevated, Assignee} \cup 1..2

VARIABLES
    approval    \* approval[r]: the approval_requests row and its approval_actions

\* stage: currentStageOrder, 0 for none.  assigned: currentApproverId is set.
\* signed: the APPROVED actions, as stage and actor.
ApprovalRows == [status : {"none", "PENDING", "APPROVED", "REJECTED"}, stage : 0..2,
                 assigned : BOOLEAN, signed : SUBSET ((0..2) \X Actors)]
Unsubmitted  == [status |-> "none", stage |-> 0, assigned |-> FALSE, signed |-> {}]

\* The requests in done were approved before.
ApprovalInit(done) ==
    approval = [r \in Requests |->
        IF r \in done
        THEN [status |-> "APPROVED", stage |-> 0, assigned |-> FALSE,
              signed |-> (0..Chain[r]) \X {Elevated}]
        ELSE Unsubmitted]

\* ApprovalService.create.  Without a chain a person is assigned.
Submit(r) ==
    approval' = [approval EXCEPT ![r] =
        [status |-> "PENDING", stage |-> IF Chain[r] > 0 THEN 1 ELSE 0,
         assigned |-> Chain[r] = 0, signed |-> {}]]

MayAct(a, r) ==
    \/ a = Elevated
    \/ a = Assignee /\ approval[r].assigned
    \/ approval[r].stage # 0 /\ a = approval[r].stage

\* assertActionable.
Actionable(a, r) == approval[r].status = "PENDING" /\ MayAct(a, r)

\* Faulty variant of NextStage: a stage is skipped.
StageAfterNext(r, n) == IF n + 2 <= Chain[r] THEN n + 2 ELSE 0

\* The first stage after n, 0 if there is none.
NextStage(r, n) == IF n + 1 <= Chain[r] THEN n + 1 ELSE 0

\* approve's write, by id, after stage n was read; a chained request is approved by the last
\* stage only.  The action is written next; nothing reads it in between.
WriteApproved(r, n, a) ==
    LET next == NextStage(r, n) IN
    approval' = [approval EXCEPT ![r] =
        [status |-> IF n > 0 /\ next > 0 THEN @.status ELSE "APPROVED",
         stage  |-> IF n > 0 THEN next ELSE @.stage,
         assigned |-> IF n > 0 /\ next = 0 THEN FALSE ELSE @.assigned,
         signed |-> @.signed \cup {<<n, a>>}]]

WriteRejected(r) == approval' = [approval EXCEPT ![r].status = "REJECTED"]

\* reassign: the stage's role keeps its say.
WriteReassigned(r) == approval' = [approval EXCEPT ![r].assigned = TRUE]

-----------------------------------------------------------------------------
\* A request is approved only when every stage of its chain was, in whatever order its
\* approvers' reads and writes fall: by the stage's role, an admin or one it was handed to.
EveryStageSigned ==
    \A r \in Requests : approval[r].status = "APPROVED" =>
        \A n \in 1..Chain[r] : \E a \in {Elevated, Assignee, n} : <<n, a>> \in approval[r].signed

-----------------------------------------------------------------------------
(* Stock.                                                                  *)

CONSTANTS
    Items,          \* inventory items, each of one branch
    Buckets,        \* stock types
    Opened,         \* Opened[i][k]: what bucket k of item i holds at the start
    LowAt,          \* LowAt[i]: lowStockThreshold
    Change,         \* Change[a]: item, bucket and quantity of adjustment a
    Move            \* Move[t]: from, to, bucket and quantity of transfer t

Adjustments == DOMAIN Change
StockTransfers == DOMAIN Move

ASSUME InventoryAssumption ==
    /\ {"STORE", "SALES", "USAGE"} \subseteq Buckets
    /\ Opened \in [Items -> [Buckets -> Nat]]
    /\ Change \in [Adjustments -> [item : Items, bucket : Buckets, qty : Int]]
    /\ Move \in [StockTransfers -> [from : Items, to : Items, bucket : Buckets, qty : Nat]]
    /\ \A t \in StockTransfers : Move[t].from # Move[t].to

\* Each has a request of its own.
ASSUME DecidedAssumption ==
    /\ Adjustments \cup StockTransfers \subseteq Requests /\ Adjustments \cap StockTransfers = {}
    /\ "nothing" \notin Adjustments

VARIABLES
    stock,      \* stock[i][k]: the item's bucket columns
    moved,      \* moved[i][k]: the sum of its stock movements
    alert,      \* alert[i]: its unresolved low-stock alerts, and their stage
    decision,   \* decision[r]: status of an adjustment request or a stock transfer
    applied,    \* history: applied[r], how often r moved stock
    overdrawn   \* history: one sale, or one completed booking, took an item on two of its lines

inventory == <<stock, moved, alert, decision, applied, overdrawn>>

Levels == <<"SUPERVISOR", "OPERATIONS", "MANAGEMENT">>

StockRows == [Buckets -> Int]
AlertRows == [open : Nat, level : 1..Len(Levels)]
AdjustmentStatuses == {"none", "PENDING", "APPROVED", "REJECTED"}
TransferStatuses   == {"none", "PENDING", "COMPLETED", "REJECTED"}

InventoryTypeOK ==
    /\ stock \in [Items -> StockRows] /\ moved \in [Items -> [Buckets -> Int]]
    /\ alert \in [Items -> AlertRows]
    /\ \A a \in Adjustments : decision[a] \in AdjustmentStatuses
    /\ \A t \in StockTransfers : decision[t] \in TransferStatuses

InventoryInit ==
    /\ stock = Opened
    /\ moved = [i \in Items |-> [k \in Buckets |-> 0]]
    /\ alert = [i \in Items |-> [open |-> 0, level |-> 1]]
    /\ decision = [r \in Adjustments \cup StockTransfers |-> "none"]
    /\ applied = [r \in Adjustments \cup StockTransfers |-> 0] /\ overdrawn = FALSE

TotalOf(s, i) == LET Sum[B \in SUBSET Buckets] ==
                       IF B = {} THEN 0
                       ELSE LET k == CHOOSE k \in B : TRUE IN s[i][k] + Sum[B \ {k}]
                 IN Sum[Buckets]

Moved(i, k, n) == moved' = [moved EXCEPT ![i][k] = @ + n]

-----------------------------------------------------------------------------
(* Goods received, and allocation between buckets.                         *)

Receive(c, i, n) ==
    /\ Once(c, "receive")
    /\ stock' = [stock EXCEPT ![i]["STORE"] = @ + n] /\ Moved(i, "STORE", n)
    /\ UNCHANGED <<approval, alert, decision, applied, overdrawn>>

\* transferBetweenStockTypes reads both buckets and computes both from that.
Allocate(c, i, from, to, n) ==
    /\ from # to /\ stock[i][from] >= n
    /\ Begin(c, "allocate", "allocate", i,
             [from |-> from, to |-> to, qty |-> n,
              newFrom |-> stock[i][from] - n, newTo |-> stock[i][to] + n])
    /\ UNCHANGED <<approval, inventory>>

WriteAllocated(c) ==
    LET i == calls[c].on  s == calls[c].saw IN
    /\ At(c, "allocate")
    /\ stock' = [stock EXCEPT ![i][s.from] = s.newFrom, ![i][s.to] = s.newTo]
    /\ moved' = [moved EXCEPT ![i][s.from] = @ - s.qty, ![i][s.to] = @ + s.qty]
    /\ Continue(c, [stage |-> "alert", on |-> i, saw |-> "nothing"])
    /\ UNCHANGED <<approval, alert, decision, applied, overdrawn>>

-----------------------------------------------------------------------------
(* Low-stock alerts.  A handler that has an adjustment to finish does that *)
(* after the alert; its id is in saw.                                      *)

Finish(c) == IF calls[c].saw = "nothing" THEN Return(c)
             ELSE Continue(c, [stage |-> "adjusted", on |-> calls[c].saw, saw |-> 0])

CheckLowStock(c) ==
    LET i == calls[c].on IN
    /\ At(c, "alert")
    /\ IF TotalOf(stock, i) <= LowAt[i] /\ alert[i].open = 0
       THEN Goto(c, "open_alert", calls[c].saw)
       ELSE Finish(c)
    /\ UNCHANGED <<approval, inventory>>

OpenAlert(c) ==
    /\ At(c, "open_alert") /\ Finish(c)
    /\ alert' = [alert EXCEPT ![calls[c].on] = [open |-> @.open + 1, level |-> 1]]
    /\ UNCHANGED <<approval, stock, moved, decision, applied, overdrawn>>

ResolveAlert(c, i) ==
    /\ alert[i].open > 0 /\ Once(c, "alerts")
    /\ alert' = [alert EXCEPT ![i].open = @ - 1]
    /\ UNCHANGED <<approval, stock, moved, decision, applied, overdrawn>>

\* escalateOverdueAlerts: the next stage is computed from what the job read.
EscalateAlert(c, i) ==
    /\ alert[i].open > 0 /\ alert[i].level < Len(Levels)
    /\ Begin(c, "alerts", "escalate", i, alert[i].level + 1)
    /\ UNCHANGED <<approval, inventory>>

WriteEscalated(c) ==
    /\ At(c, "escalate") /\ Return(c)
    /\ alert' = [alert EXCEPT ![calls[c].on].level = calls[c].saw]
    /\ UNCHANGED <<approval, stock, moved, decision, applied, overdrawn>>

-----------------------------------------------------------------------------
(* Sales over the counter.                                                 *)

\* A sale's lines of one item: every line is compared with the stock by itself.
Sell(c, i, lines) ==
    /\ \A n \in DOMAIN lines : lines[n] <= stock[i]["SALES"]
    /\ Begin(c, "sell", "sell", i, lines)
    /\ UNCHANGED <<approval, inventory>>

\* The sale, its lines, their movements and its entry in the books are one transaction, in which
\* every line takes its quantity.
WriteSold(c) ==
    LET i == calls[c].on  lines == calls[c].saw  sold == SumOver(DOMAIN lines, lines) IN
    /\ At(c, "sell")
    /\ stock' = [stock EXCEPT ![i]["SALES"] = @ - sold] /\ Moved(i, "SALES", -sold)
    /\ overdrawn' = (overdrawn \/ Len(lines) > 1)
    /\ Continue(c, [stage |-> "alert", on |-> i, saw |-> "nothing"])
    /\ UNCHANGED <<approval, alert, decision, applied>>

-----------------------------------------------------------------------------
(* Stock adjustments.  One that an admin asks for is approved by the admin *)
(* at once, with the same steps.                                           *)

RequestAdjustment(c, a) ==
    /\ decision[a] = "none" /\ Once(c, "adjust")
    /\ Submit(a) /\ decision' = [decision EXCEPT ![a] = "PENDING"]
    /\ UNCHANGED <<stock, moved, alert, applied, overdrawn>>

ApproveAdjustment(c, a, actor) ==
    /\ decision[a] = "PENDING" /\ Actionable(actor, a)
    /\ Begin(c, "adjust", "approve_adjustment", a, [stage |-> approval[a].stage, actor |-> actor])
    /\ UNCHANGED <<approval, inventory>>

\* What the engine answers, that stages remain say, is not looked at.
WriteAdjustmentApproval(c) ==
    LET s == calls[c].saw IN
    /\ At(c, "approve_adjustment")
    /\ WriteApproved(calls[c].on, s.stage, s.actor)
    /\ Goto(c, "apply", 0)
    /\ UNCHANGED inventory

\* applyAdjustment: "stock may have moved since this was submitted".
ApplyAdjustment(c) ==
    LET a == calls[c].on
        new == stock[Change[a].item][Change[a].bucket] + Change[a].qty
    IN
    /\ At(c, "apply")
    /\ IF new < 0 THEN Return(c) ELSE Goto(c, "adjust", new)
    /\ UNCHANGED <<approval, inventory>>

WriteAdjustment(c) ==
    LET a == calls[c].on  i == Change[a].item  k == Change[a].bucket IN
    /\ At(c, "adjust")
    /\ stock' = [stock EXCEPT ![i][k] = calls[c].saw] /\ Moved(i, k, Change[a].qty)
    /\ applied' = [applied EXCEPT ![a] = @ + 1]
    /\ IF Change[a].qty < 0
       THEN Continue(c, [stage |-> "alert", on |-> i, saw |-> a])
       ELSE Goto(c, "adjusted", 0)
    /\ UNCHANGED <<approval, alert, decision, overdrawn>>

FinishAdjustment(c) ==
    /\ At(c, "adjusted") /\ Return(c)
    /\ decision' = [decision EXCEPT ![calls[c].on] = "APPROVED"]
    /\ UNCHANGED <<approval, stock, moved, alert, applied, overdrawn>>

-----------------------------------------------------------------------------
(* Transfers to another branch.                                            *)

RequestTransfer(c, t) ==
    /\ decision[t] = "none" /\ stock[Move[t].from][Move[t].bucket] >= Move[t].qty
    /\ Once(c, "transfer")
    /\ Submit(t) /\ decision' = [decision EXCEPT ![t] = "PENDING"]
    /\ UNCHANGED <<stock, moved, alert, applied, overdrawn>>

ApproveTransfer(c, t, actor) ==
    /\ decision[t] = "PENDING" /\ Actionable(actor, t)
    /\ Begin(c, "transfer", "approve_transfer", t, [stage |-> approval[t].stage, actor |-> actor])
    /\ UNCHANGED <<approval, inventory>>

WriteTransferApproval(c) ==
    LET s == calls[c].saw IN
    /\ At(c, "approve_transfer")
    /\ WriteApproved(calls[c].on, s.stage, s.actor)
    /\ Goto(c, "recheck", 0)
    /\ UNCHANGED inventory

\* "Re-validate stock at execution time, not just at request time".
RecheckTransfer(c) ==
    LET m == Move[calls[c].on] IN
    /\ At(c, "recheck")
    /\ IF stock[m.from][m.bucket] < m.qty THEN Return(c) ELSE Goto(c, "move", 0)
    /\ UNCHANGED <<approval, inventory>>

\* Both items, both movements and the transfer's status in one transaction.
WriteTransfer(c) ==
    LET t == calls[c].on  m == Move[t] IN
    /\ At(c, "move")
    /\ stock' = [stock EXCEPT ![m.from][m.bucket] = @ - m.qty, ![m.to][m.bucket] = @ + m.qty]
    /\ moved' = [moved EXCEPT ![m.from][m.bucket] = @ - m.qty, ![m.to][m.bucket] = @ + m.qty]
    /\ applied' = [applied EXCEPT ![t] = @ + 1]
    /\ decision' = [decision EXCEPT ![t] = "COMPLETED"]
    /\ Continue(c, [stage |-> "alert", on |-> m.from, saw |-> "nothing"])
    /\ UNCHANGED <<approval, alert, overdrawn>>

-----------------------------------------------------------------------------
(* Rejecting and handing over, alike for both.                             *)

Operation(r) == IF r \in Adjustments THEN "adjust" ELSE "transfer"

Reject(c, r, actor) ==
    /\ decision[r] = "PENDING" /\ Actionable(actor, r)
    /\ Begin(c, Operation(r), "reject", r, 0)
    /\ UNCHANGED <<approval, inventory>>

WriteRejection(c) ==
    /\ At(c, "reject") /\ WriteRejected(calls[c].on) /\ Goto(c, "rejected", 0)
    /\ UNCHANGED inventory

FinishRejection(c) ==
    /\ At(c, "rejected") /\ Return(c)
    /\ decision' = [decision EXCEPT ![calls[c].on] = "REJECTED"]
    /\ UNCHANGED <<approval, stock, moved, alert, applied, overdrawn>>

Reassign(c, r, actor) ==
    /\ decision[r] = "PENDING" /\ Actionable(actor, r) /\ ~approval[r].assigned
    /\ Once(c, Operation(r)) /\ WriteReassigned(r)
    /\ UNCHANGED inventory

-----------------------------------------------------------------------------
\* Bound: a sale has at most two lines of an item, of one each.
Baskets == {<<1>>, <<1, 1>>}

InventoryStep(c) ==
    \/ WriteAllocated(c) \/ CheckLowStock(c) \/ OpenAlert(c) \/ WriteEscalated(c) \/ WriteSold(c)
    \/ WriteAdjustmentApproval(c) \/ ApplyAdjustment(c) \/ WriteAdjustment(c)
    \/ FinishAdjustment(c)
    \/ WriteTransferApproval(c) \/ RecheckTransfer(c) \/ WriteTransfer(c)
    \/ WriteRejection(c) \/ FinishRejection(c)

SignedRequest(c) ==
    \/ \E a \in Adjustments : \/ RequestAdjustment(c, a)
                              \/ \E actor \in Actors : ApproveAdjustment(c, a, actor)
    \/ \E t \in StockTransfers : \/ RequestTransfer(c, t)
                                 \/ \E actor \in Actors : ApproveTransfer(c, t, actor)
    \/ \E r \in Adjustments \cup StockTransfers, actor \in Actors :
            Reject(c, r, actor) \/ Reassign(c, r, actor)

InventoryRequest(c) ==
    \/ \E i \in Items : \/ Receive(c, i, 1) \/ \E lines \in Baskets : Sell(c, i, lines)
                        \/ ResolveAlert(c, i) \/ EscalateAlert(c, i)
                        \/ \E from, to \in Buckets : Allocate(c, i, from, to, 1)
    \/ SignedRequest(c)

-----------------------------------------------------------------------------
(* Properties.  The first three are about handlers one after the other,    *)
(* any of which may die in the middle: overlapping ones do break them.     *)

\* What a bucket holds is what the movement history adds up to.
StockIsMovements ==
    overlapped \/ \A i \in Items, k \in Buckets : stock[i][k] = Opened[i][k] + moved[i][k]

\* No bucket goes below nothing, though stock moves between request and approval: unless a sale
\* or a booking took an item on two lines, which are not added up before they are compared.
NeverNegative ==
    overlapped \/ overdrawn \/ \A i \in Items, k \in Buckets : stock[i][k] >= 0

\* An adjustment or a transfer moves stock at most once, whoever dies between moving it and
\* saying so.  (With a chain, its next stage may move it again.)
MovedOnce ==
    overlapped \/ \A r \in DOMAIN applied : Chain[r] = 0 => applied[r] <= 1

===============================================================================
