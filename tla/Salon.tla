-------------------------------- MODULE Salon --------------------------------
(***************************************************************************)
(* Visits to a salon: booked by the staff or reserved by the customer,     *)
(* verified, begun, edited, and completed: the goods on the booking and    *)
(* the services' recipes are taken from the branch's stock, the stylist    *)
(* gets a commission and the branch its revenue.                           *)
(*                                                                         *)
(* Every status is decided by an earlier read and written by the booking's *)
(* id.  Completion is one transaction; that the commission's booking is    *)
(* unique makes a second one fail as a whole.  Opening hours, prices of    *)
(* branches and the lists are left out: quantities are 1, a service costs  *)
(* Price[s], and stylists and goods are of the booking's branch.           *)
(***************************************************************************)
EXTENDS Inventory, Promotions, Sums

CONSTANTS
    Visits,         \* salon bookings
    Phones,         \* customers are known by their phone
    Wish,           \* Wish[v]: phone, link, services, goods, code, stylist, reserved of booking v
    Menu,           \* services
    Price,
    Recipe,         \* Recipe[s]: the item that service s uses up, or "none"
    Wares,          \* what may be put on a booking: <<item, bucket>>
    Rate,           \* the stylists' commission plan, in percent; 0 without an active one
    Off,            \* the discount, in percent
    Replacements,   \* the services and goods that an edit may ask for
    Standing        \* bookings made before, without a discount

\* A line of goods: what of which branch's stock, and of which bucket.
Lines == Items \X Buckets

ASSUME SalonAssumption ==
    /\ \A v \in Visits : Wish[v] \in [phone : Phones, link : BOOLEAN, stylist : BOOLEAN, reserved : BOOLEAN,
                                      services : Seq(Menu), goods : Seq(Lines), code : Codes \cup {"none"}]
    /\ Replacements \subseteq Seq(Menu) \X Seq(Lines) /\ Wares \subseteq Lines
    /\ Price \in [Menu -> Nat] /\ Rate \in Nat /\ Off \in 0..100

VARIABLES
    visit,      \* visit[v]: the salon_bookings row with its lines
    client,     \* client[p]: "none", "walk-in", or "linked" to a verified account
    commission, \* commission[v]: amount of its commission row, -1 for none
    revenue,    \* revenue[v]: its entries in the books
    admitted,   \* history: how often v's reservation was used
    shortened   \* history: bookings whose total was computed again

salon == <<visit, client, commission, revenue, admitted, shortened>>
books == <<commission, revenue>>

VisitStatuses == {"none", "SCHEDULED", "IN_PROGRESS", "COMPLETED", "CANCELLED", "NO_SHOW", "deleted"}
NoVisit == [status |-> "none", stylist |-> FALSE, used |-> FALSE, services |-> <<>>, goods |-> <<>>, off |-> 0, total |-> 0]

Modifiable  == {"SCHEDULED", "IN_PROGRESS"}
There(v)    == visit[v].status \notin {"none", "deleted"}

VisitRows == [status : VisitStatuses, stylist : BOOLEAN, used : BOOLEAN, services : Seq(Menu), goods : Seq(Lines),
              off : Nat, total : Nat]

SalonTypeOK ==
    /\ visit \in [Visits -> VisitRows]
    /\ client \in [Phones -> {"none", "walk-in", "linked"}]
    /\ \A v \in Visits : commission[v] >= -1 /\ admitted[v] \in Nat

\* Only goods for sale have a price, which is 1.
SumOf(services) == SumOver(DOMAIN services, [n \in DOMAIN services |-> Price[services[n]]])
ComputeTotal(services, goods) ==
    SumOf(services) + Cardinality({n \in DOMAIN goods : goods[n][2] = "SALES"})

SalonInit ==
    /\ visit = [v \in Visits |->
          IF v \notin Standing THEN NoVisit
          ELSE [NoVisit EXCEPT !.status = "SCHEDULED", !.stylist = Wish[v].stylist, !.services = Wish[v].services,
                               !.goods = Wish[v].goods, !.total = ComputeTotal(Wish[v].services, Wish[v].goods)]]
    /\ client = [p \in Phones |-> IF \E v \in Standing : Wish[v].phone = p THEN "walk-in" ELSE "none"]
    /\ commission = [v \in Visits |-> -1] /\ revenue = [v \in Visits |-> <<>>]
    /\ admitted = [v \in Visits |-> 0] /\ shortened = {}

\* A write by id of a row that has been deleted fails.
WriteVisit(v, row) == visit' = IF There(v) THEN [visit EXCEPT ![v] = row] ELSE visit

-----------------------------------------------------------------------------
(* Booking.  The customer is looked for by the phone and created; a code   *)
(* is validated before the transaction that counts its use.                *)

Create(c, v) ==
    /\ visit[v].status = "none" /\ ~Wish[v].reserved /\ Begin(c, "book", "find_client", v, 0)
    /\ UNCHANGED <<approval, inventory, promotions, salon>>

\* By the customer: without a stylist, goods or a discount, with a code of its own.
Reserve(c, v) ==
    /\ visit[v].status = "none" /\ Wish[v].reserved /\ Begin(c, "book", "find_client", v, 0)
    /\ UNCHANGED <<approval, inventory, promotions, salon>>

\* An existing customer is linked to a verified account when that is asked for.
FindOrCreateCustomer(c) ==
    LET q == Wish[calls[c].on] IN
    /\ At(c, "find_client")
    /\ Goto(c, IF client[q.phone] = "none" THEN "create_client" ELSE "validate", 0)
    /\ client' = IF client[q.phone] = "walk-in" /\ q.link THEN [client EXCEPT ![q.phone] = "linked"] ELSE client
    /\ UNCHANGED <<approval, inventory, promotions, visit, books, admitted, shortened>>

\* The phone is unique: who comes second fails.
CreateCustomer(c) ==
    LET q == Wish[calls[c].on] IN
    /\ At(c, "create_client")
    /\ IF client[q.phone] = "none"
       THEN /\ Goto(c, "validate", 0)
            /\ client' = [client EXCEPT ![q.phone] = IF q.link THEN "linked" ELSE "walk-in"]
       ELSE Return(c) /\ UNCHANGED client
    /\ UNCHANGED <<approval, inventory, promotions, visit, books, admitted, shortened>>

ValidateDiscount(c) ==
    LET q == Wish[calls[c].on] IN
    /\ At(c, "validate")
    /\ IF q.code = "none" \/ Valid(q.code) THEN Goto(c, "write_visit", 0) ELSE Return(c)
    /\ UNCHANGED <<approval, inventory, promotions, salon>>

\* The booking, its lines and the code's count.
WriteBooking(c) ==
    LET v == calls[c].on  q == Wish[v]
        total == ComputeTotal(q.services, q.goods)
        off == IF q.code = "none" THEN 0 ELSE (total * Off) \div 100
    IN
    /\ At(c, "write_visit") /\ Return(c)
    /\ IF visit[v].status = "none" /\ (q.code = "none" \/ code[q.code].there)
       THEN /\ visit' = [visit EXCEPT ![v] = [NoVisit EXCEPT !.status = "SCHEDULED", !.stylist = q.stylist,
                                                !.services = q.services, !.goods = q.goods, !.off = off, !.total = total - off]]
            /\ IF q.code = "none" THEN UNCHANGED code ELSE UseCode(q.code)
       ELSE UNCHANGED <<visit, code>>
    /\ UNCHANGED <<approval, inventory, influencer, signups, settings, lowered, client, books, admitted, shortened>>

\* The cascade takes lines and commission; the books keep the revenue.
DeleteBooking(c, v) ==
    /\ There(v) /\ Once(c, "delete_visit")
    /\ visit' = [visit EXCEPT ![v].status = "deleted"]
    /\ commission' = [commission EXCEPT ![v] = -1]
    /\ UNCHANGED <<approval, inventory, promotions, client, revenue, admitted, shortened>>

-----------------------------------------------------------------------------
(* The reservation's code, and the statuses.                               *)

\* Whatever the status is: only the flag is looked at.
VerifyReservation(c, v) ==
    /\ There(v) /\ Wish[v].reserved /\ ~visit[v].used
    /\ Begin(c, "verify", "use_code", v, 0)
    /\ UNCHANGED <<approval, inventory, promotions, salon>>

\* The same by the code alone, which is looked up first.
VerifyReservationAnywhere(c, v) ==
    /\ There(v) /\ Wish[v].reserved
    /\ Begin(c, "verify", "verify_found", v, 0)
    /\ UNCHANGED <<approval, inventory, promotions, salon>>

VerifyFound(c) ==
    LET v == calls[c].on IN
    /\ At(c, "verify_found")
    /\ IF There(v) /\ ~visit[v].used THEN Goto(c, "use_code", 0) ELSE Return(c)
    /\ UNCHANGED <<approval, inventory, promotions, salon>>

WriteReservationUsed(c) ==
    LET v == calls[c].on IN
    /\ At(c, "use_code") /\ Return(c)
    /\ WriteVisit(v, [visit[v] EXCEPT !.stylist = TRUE, !.used = TRUE])
    /\ admitted' = IF There(v) THEN [admitted EXCEPT ![v] = @ + 1] ELSE admitted
    /\ UNCHANGED <<approval, inventory, promotions, client, books, shortened>>

Transitions == [SCHEDULED   |-> {"IN_PROGRESS", "CANCELLED", "NO_SHOW"},
                IN_PROGRESS |-> {"IN_PROGRESS", "NO_SHOW"}]

\* start, cancel and markNoShow.
SetVisit(c, v, status) ==
    /\ visit[v].status \in Modifiable /\ status \in Transitions[visit[v].status]
    /\ Begin(c, "progress", "set_visit", v, status)
    /\ UNCHANGED <<approval, inventory, promotions, salon>>

WriteVisitStatus(c) ==
    LET v == calls[c].on IN
    /\ At(c, "set_visit") /\ Return(c)
    /\ WriteVisit(v, [visit[v] EXCEPT !.status = calls[c].saw])
    /\ UNCHANGED <<approval, inventory, promotions, client, books, admitted, shortened>>

-----------------------------------------------------------------------------
(* Edits: services and goods are replaced, then details, then the total is *)
(* computed again, each by a transaction of its own.                       *)

EditBooking(c, v, new) ==
    /\ visit[v].status \in Modifiable
    /\ Begin(c, "edit_visit", "replace_services", v, new)
    /\ UNCHANGED <<approval, inventory, promotions, salon>>

ReplaceServices(c) ==
    LET v == calls[c].on IN
    /\ At(c, "replace_services")
    /\ IF There(v) THEN Goto(c, "replace_goods", calls[c].saw) ELSE Return(c)
    /\ WriteVisit(v, [visit[v] EXCEPT !.services = calls[c].saw[1]])
    /\ UNCHANGED <<approval, inventory, promotions, client, books, admitted, shortened>>

ReplaceGoods(c) ==
    LET v == calls[c].on IN
    /\ At(c, "replace_goods")
    /\ IF There(v) THEN Goto(c, "details", 0) ELSE Return(c)
    /\ WriteVisit(v, [visit[v] EXCEPT !.goods = calls[c].saw[2]])
    /\ UNCHANGED <<approval, inventory, promotions, client, books, admitted, shortened>>

\* An edit may name the stylist; this one does.
WriteDetails(c) ==
    LET v == calls[c].on IN
    /\ At(c, "details")
    /\ IF There(v) THEN Goto(c, "recompute", 0) ELSE Return(c)
    /\ WriteVisit(v, [visit[v] EXCEPT !.stylist = TRUE])
    /\ UNCHANGED <<approval, inventory, promotions, client, books, admitted, shortened>>

AddInventoryItem(c, v, g) ==
    /\ visit[v].status \in Modifiable
    /\ Begin(c, "add_goods", "add_goods", v, g)
    /\ UNCHANGED <<approval, inventory, promotions, salon>>

WriteGoods(c) ==
    LET v == calls[c].on IN
    /\ At(c, "add_goods")
    /\ IF There(v) THEN Goto(c, "recompute", 0) ELSE Return(c)
    /\ WriteVisit(v, [visit[v] EXCEPT !.goods = Append(@, calls[c].saw)])
    /\ UNCHANGED <<approval, inventory, promotions, client, books, admitted, shortened>>

\* A completed booking gets another service; revenue and commission stay as they were.
AddServiceToCompletedBooking(c, v, s) ==
    /\ visit[v].status = "COMPLETED"
    /\ Begin(c, "add_service", "add_service", v, s)
    /\ UNCHANGED <<approval, inventory, promotions, salon>>

WriteService(c) ==
    LET v == calls[c].on IN
    /\ At(c, "add_service")
    /\ IF There(v) THEN Goto(c, "recompute", 0) ELSE Return(c)
    /\ WriteVisit(v, [visit[v] EXCEPT !.services = Append(@, calls[c].saw)])
    /\ UNCHANGED <<approval, inventory, promotions, client, books, admitted, shortened>>

\* recomputeTotal: the sum of the lines; the discount is forgotten.
Recompute(c) ==
    LET v == calls[c].on IN
    /\ At(c, "recompute")
    /\ IF There(v) THEN Goto(c, "write_total", ComputeTotal(visit[v].services, visit[v].goods)) ELSE Return(c)
    /\ UNCHANGED <<approval, inventory, promotions, salon>>

WriteTotal(c) ==
    LET v == calls[c].on IN
    /\ At(c, "write_total") /\ Return(c)
    /\ WriteVisit(v, [visit[v] EXCEPT !.total = calls[c].saw])
    /\ shortened' = shortened \cup {v}
    /\ UNCHANGED <<approval, inventory, promotions, client, books, admitted>>

-----------------------------------------------------------------------------
(* Completion.  What was read first decides to the end.                    *)

\* How much of an item the services' recipes need together.
Uses(row, i) == Cardinality({n \in DOMAIN row.services : Recipe[row.services[n]] = i})
Named(row, g) == Cardinality({n \in DOMAIN row.goods : row.goods[n] = g})

\* Every line is compared with the stock by itself.
Complete(c, v) ==
    /\ visit[v].status \in Modifiable /\ visit[v].stylist
    /\ \A n \in DOMAIN visit[v].goods : LET g == visit[v].goods[n] IN stock[g[1]][g[2]] >= 1
    /\ Begin(c, "complete_visit", "recipes", v, visit[v])
    /\ UNCHANGED <<approval, inventory, promotions, salon>>

\* Faulty variant of CheckRecipes: each service's need is compared by itself.
CheckEachRecipe(c) ==
    /\ At(c, "recipes")
    /\ IF \A i \in Items : Uses(calls[c].saw, i) > 0 => stock[i]["USAGE"] >= 1
       THEN Goto(c, "complete_visit", calls[c].saw) ELSE Return(c)
    /\ UNCHANGED <<approval, inventory, promotions, salon>>

\* The recipes' needs are added up by item before they are compared.
CheckRecipes(c) ==
    /\ At(c, "recipes")
    /\ IF \A i \in Items : stock[i]["USAGE"] >= Uses(calls[c].saw, i)
       THEN Goto(c, "complete_visit", calls[c].saw) ELSE Return(c)
    /\ UNCHANGED <<approval, inventory, promotions, salon>>

Taken(row, i, k) ==
    Named(row, <<i, k>>) + (IF k = "USAGE" THEN Uses(row, i) ELSE 0)

Commission(row) ==
    (SumOf(row.services) * Rate) \div 100

\* Faulty variant of WriteCompletion: the commission's booking is not unique.
CompleteAgain(c) ==
    LET v == calls[c].on  row == calls[c].saw IN
    /\ At(c, "complete_visit")
    /\ Continue(c, [stage |-> "low_stock", on |-> v, saw |-> row.goods])
    /\ stock' = [i \in Items |-> [k \in Buckets |-> stock[i][k] - Taken(row, i, k)]]
    /\ moved' = [i \in Items |-> [k \in Buckets |-> moved[i][k] - Taken(row, i, k)]]
    /\ commission' = [commission EXCEPT ![v] = Commission(row)]
    /\ visit' = [visit EXCEPT ![v].status = "COMPLETED"]
    /\ revenue' = [revenue EXCEPT ![v] = Append(@, row.total)]
    /\ overdrawn' = overdrawn
    /\ UNCHANGED <<approval, alert, decision, applied, promotions, client, admitted, shortened>>

\* One transaction: goods and recipes with their movements, the commission, the status, the
\* revenue.  The commission's booking is unique, and must still be there.
WriteCompletion(c) ==
    LET v == calls[c].on  row == calls[c].saw IN
    /\ At(c, "complete_visit")
    /\ IF There(v) /\ commission[v] = -1
       THEN /\ Continue(c, [stage |-> "low_stock", on |-> v, saw |-> row.goods])
            /\ stock' = [i \in Items |-> [k \in Buckets |-> stock[i][k] - Taken(row, i, k)]]
            /\ moved' = [i \in Items |-> [k \in Buckets |-> moved[i][k] - Taken(row, i, k)]]
            /\ commission' = [commission EXCEPT ![v] = Commission(row)]
            /\ visit' = [visit EXCEPT ![v].status = "COMPLETED"]
            /\ revenue' = [revenue EXCEPT ![v] = Append(@, row.total)]
            /\ overdrawn' = (overdrawn \/ \E i \in Items, k \in Buckets :
                                 Named(row, <<i, k>>) > 1 \/ (Named(row, <<i, k>>) = 1 /\ k = "USAGE" /\ Uses(row, i) > 0))
       ELSE Return(c) /\ UNCHANGED <<stock, moved, overdrawn, visit, books>>
    /\ UNCHANGED <<approval, alert, decision, applied, promotions, client, admitted, shortened>>

\* checkAndTriggerLowStockAlert for the lines' items, not for those of the recipes.
LookAtLines(c) ==
    LET rest == calls[c].saw IN
    /\ At(c, "low_stock")
    /\ IF rest = <<>> THEN Return(c)
       ELSE IF TotalOf(stock, rest[1][1]) <= LowAt[rest[1][1]] /\ alert[rest[1][1]].open = 0
       THEN Goto(c, "raise_alert", rest)
       ELSE Goto(c, "low_stock", Tail(rest))
    /\ UNCHANGED <<approval, inventory, promotions, salon>>

RaiseAlert(c) ==
    LET i == calls[c].saw[1][1] IN
    /\ At(c, "raise_alert") /\ Goto(c, "low_stock", Tail(calls[c].saw))
    /\ alert' = [alert EXCEPT ![i] = [open |-> @.open + 1, level |-> 1]]
    /\ UNCHANGED <<approval, stock, moved, decision, applied, overdrawn, promotions, salon>>

SalonStep(c) ==
    \/ FindOrCreateCustomer(c) \/ CreateCustomer(c) \/ ValidateDiscount(c) \/ WriteBooking(c)
    \/ VerifyFound(c) \/ WriteReservationUsed(c) \/ WriteVisitStatus(c)
    \/ ReplaceServices(c) \/ ReplaceGoods(c) \/ WriteDetails(c) \/ WriteGoods(c) \/ WriteService(c)
    \/ Recompute(c) \/ WriteTotal(c)
    \/ CheckRecipes(c) \/ WriteCompletion(c) \/ LookAtLines(c) \/ RaiseAlert(c)

DeskRequest(c, v) ==
    Create(c, v) \/ Reserve(c, v) \/ VerifyReservation(c, v) \/ VerifyReservationAnywhere(c, v)

ServingRequest(c, v) ==
    \/ Complete(c, v)
    \/ \E status \in VisitStatuses : SetVisit(c, v, status)
    \/ \E new \in Replacements : EditBooking(c, v, new)
    \/ \E g \in Wares : AddInventoryItem(c, v, g)
    \/ \E s \in Menu : AddServiceToCompletedBooking(c, v, s)

SalonRequest(c) == \E v \in Visits : DeskRequest(c, v) \/ ServingRequest(c, v) \/ DeleteBooking(c, v)

-----------------------------------------------------------------------------
(* Properties                                                              *)

\* A booking is completed once: its revenue is booked once and its goods are taken once, though
\* two complete it at the same time or somebody sets it back in between.
CompletedOnce == \A v \in Visits : Len(revenue[v]) <= 1

\* Revenue and commission come with each other, unless the booking was deleted; and a booking
\* that has them says COMPLETED, unless another status was decided at the same time.
EarnedTogether ==
    \A v \in Visits :
        /\ commission[v] >= 0 => revenue[v] # <<>>
        /\ revenue[v] # <<>> /\ There(v) =>
              commission[v] >= 0 /\ (visit[v].status = "COMPLETED" \/ overlapped)

\* What is in the books is the booking's total, unless a service was added afterwards.
RevenueIsTotal ==
    overlapped \/ "add_service" \in scenario \/
    \A v \in Visits : revenue[v] # <<>> /\ There(v) => revenue[v] = <<visit[v].total>>

\* A booking's total is the price of its lines, less the discount as long as nothing was edited,
\* once handlers are through.
TotalIsLines ==
    overlapped \/ crashes > 0 \/
    \A v \in Visits : Quiet /\ There(v) =>
        visit[v].total = ComputeTotal(visit[v].services, visit[v].goods) - (IF v \in shortened THEN 0 ELSE visit[v].off)

\* A reservation's code admits once, unless it is tried twice at the same moment.
AdmittedOnce == overlapped \/ \A v \in Visits : admitted[v] <= 1

\* Bookings are completed once and in full, and say what they cost.
SalonKept ==
    SalonTypeOK /\ CompletedOnce /\ EarnedTogether /\ RevenueIsTotal /\ TotalIsLines /\ AdmittedOnce
===============================================================================
