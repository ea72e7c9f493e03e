------------------------------- MODULE Catalogue -------------------------------
(***************************************************************************)
(* The services on offer, their categories, what each branch offers of     *)
(* them, the images of both at Cloudinary, and the copies that customers   *)
(* and admins are shown for some minutes.                                  *)
(*                                                                         *)
(* A change checks first, moves images, writes, and drops copies, without  *)
(* a transaction; a branch's list is replaced in one transaction, or       *)
(* patched item by item without one.                                       *)
(***************************************************************************)
EXTENDS Handlers, Sequences

CONSTANTS
    Services,
    Listed,         \* the services there at the start, of the first category
    Referenced,     \* services that a visit or its record refers to
    Categories,
    FirstCategory,  \* the one there at the start
    Branches,
    Staffed,        \* branches that staff belong to
    Labels,         \* names of services and of categories
    LabelOf,        \* LabelOf[x]: name at the start of service or category x
    ServiceForms,   \* what an admin may ask for: records of FormFields
    Offers          \* patches of a branch's offers: sequences of OfferForms

VARIABLES
    service,        \* service[s]: its row
    category,       \* category[k]: its row
    offer,          \* offer[b][s]: the rows of branch_services
    branch,         \* branch[b]: staff_locations: "open", "closed" or "gone"
    hosted,         \* the images that Cloudinary keeps (a row with image 0 has none)
    copies,         \* copies[k]: the cached copy
    uploads,        \* history: images uploaded so far
    shifted,        \* history: a service changed its category without a check of its name
    touched,        \* history: a service was created, changed or removed
    torn            \* history: a patch of offers failed after it wrote some

catalogue == <<service, category, offer, branch, hosted, copies, uploads, shifted, touched, torn>>

Presence == {"new", "there", "gone"}
ServiceRows  == [is : Presence, in : Categories, name : Labels, walkIn : BOOLEAN, home : BOOLEAN,
                 price : Nat, active : BOOLEAN, image : Nat]
CategoryRows == [is : Presence, name : Labels, image : Nat]
OfferRows    == [available : BOOLEAN, price : SUBSET Nat]

\* A form gives a field ({v}) or leaves it out ({}).
FormFields == [in : SUBSET Categories, name : SUBSET Labels, walkIn : SUBSET BOOLEAN, home : SUBSET BOOLEAN,
               price : SUBSET Nat, image : BOOLEAN]
OfferForms == [service : Services, available : SUBSET BOOLEAN, price : SUBSET (SUBSET Nat)]
Or(field, old) == IF field = {} THEN old ELSE CHOOSE v \in field : TRUE

Everywhere == "all"
CopyKeys == ({"services", "matrix"} \X Branches) \cup ({"one"} \X Services)
            \cup ({"services", "categories", "branches"} \X {Everywhere})
Pages(what) == {k \in CopyKeys : k[1] = what}

ServiceThere(s)  == service[s].is = "there"
CategoryThere(k) == category[k].is = "there"
InCategory(k)    == {s \in Services : ServiceThere(s) /\ service[s].in = k}

CatalogueTypeOK ==
    /\ service \in [Services -> ServiceRows] /\ category \in [Categories -> CategoryRows]
    /\ \A b \in Branches, s \in Services : offer[b][s] \subseteq OfferRows /\ Cardinality(offer[b][s]) <= 1
    /\ branch \in [Branches -> {"open", "closed", "gone"}]
    /\ hosted \subseteq Nat /\ DOMAIN copies = CopyKeys /\ uploads \in Nat
    /\ shifted \in BOOLEAN /\ touched \in BOOLEAN /\ torn \in BOOLEAN

CatalogueInit ==
    /\ service = [s \in Services |->
           [is |-> IF s \in Listed THEN "there" ELSE "new", in |-> FirstCategory, name |-> LabelOf[s],
            walkIn |-> TRUE, home |-> TRUE, price |-> 1, active |-> TRUE, image |-> 0]]
    /\ category = [k \in Categories |->
           [is |-> IF k = FirstCategory THEN "there" ELSE "new", name |-> LabelOf[k], image |-> 0]]
    /\ offer = [b \in Branches |-> [s \in Services |-> {}]]
    /\ branch = [b \in Branches |-> "open"]
    /\ hosted = {} /\ copies = [k \in CopyKeys |-> {}] /\ uploads = 0
    /\ shifted = FALSE /\ touched = FALSE /\ torn = FALSE

-----------------------------------------------------------------------------
\* What is shown.

Active == {s \in Services : ServiceThere(s) /\ service[s].active}
Public(s) == <<s, service[s], category[service[s].in]>>
OfferedAt(b) == {s \in Services : \E row \in offer[b][s] : row.available}

\* A branch may have its own price for who walks in.
BranchPrice(b, s) == Or(UNION {row.price : row \in offer[b][s]}, service[s].price)

ServicesPage(b) ==
    IF b = Everywhere THEN {Public(s) : s \in Active}
    ELSE {<<Public(s), BranchPrice(b, s)>> : s \in Active \cap OfferedAt(b)}
CategoriesPage == {<<k, category[k], Cardinality(InCategory(k) \cap Active)>> :
                       k \in {k \in Categories : CategoryThere(k)}}
MatrixPage(b) == {<<s, service[s].name, service[s].in, service[s].price, offer[b][s]>> : s \in Active}
BranchesPage == {<<b, Cardinality(OfferedAt(b))>> : b \in {b \in Branches : branch[b] = "open"}}

Page(k) ==
    CASE k[1] = "services"   -> ServicesPage(k[2])
      [] k[1] = "one"        -> Public(k[2])
      [] k[1] = "categories" -> CategoriesPage
      [] k[1] = "matrix"     -> MatrixPage(k[2])
      [] k[1] = "branches"   -> BranchesPage

\* A page that is not copied is put together from what is read now.
ReadPage(c, k) ==
    /\ copies[k] = {}
    /\ k[1] = "one" => k[2] \in Active
    /\ k[1] = "services" /\ k[2] # Everywhere => branch[k[2]] = "open"
    /\ k[1] = "matrix" => branch[k[2]] # "gone"
    /\ Begin(c, "read_page", "keep_page", k, {Page(k)})
    /\ UNCHANGED catalogue

KeepPage(c) ==
    /\ At(c, "keep_page") /\ Return(c)
    /\ copies' = [copies EXCEPT ![calls[c].on] = calls[c].saw]
    /\ UNCHANGED <<service, category, offer, branch, hosted, uploads, shifted, touched, torn>>

\* Five minutes pass.
PageExpires ==
    \E k \in CopyKeys :
        /\ copies[k] # {} /\ copies' = [copies EXCEPT ![k] = {}]
        /\ UNCHANGED <<handlers, service, category, offer, branch, hosted, uploads, shifted, touched, torn>>

DropPages(c) ==
    /\ At(c, "drop_pages") /\ Return(c)
    /\ copies' = [k \in CopyKeys |-> IF k \in calls[c].saw THEN {} ELSE copies[k]]
    /\ UNCHANGED <<service, category, offer, branch, hosted, uploads, shifted, touched, torn>>

ServicePages(s)  == Pages("services") \cup {<<"one", s>>}
CategoryPages    == Pages("categories") \cup Pages("services")
OfferPages(b)    == {<<"matrix", b>>} \cup Pages("services") \cup Pages("one") \cup Pages("branches")

-----------------------------------------------------------------------------
\* Images.  A handler that has moved its images goes on with calls[c].saw.next.

Plan(form, image, old, next) == [form |-> form, image |-> image, old |-> old, next |-> next, pages |-> {}]

UploadImage(c) ==
    LET saw == calls[c].saw IN
    /\ At(c, "upload_image")
    /\ uploads' = uploads + 1 /\ hosted' = hosted \cup {uploads + 1}
    /\ Goto(c, IF saw.old = {} THEN saw.next ELSE "delete_image", [saw EXCEPT !.image = {uploads + 1}])
    /\ UNCHANGED <<service, category, offer, branch, copies, shifted, touched, torn>>

\* The image of the row as it was read.
DeleteImage(c) ==
    LET saw == calls[c].saw IN
    /\ At(c, "delete_image") /\ hosted' = hosted \ saw.old
    /\ Goto(c, saw.next, IF saw.next = "drop_pages" THEN saw.pages ELSE saw)
    /\ UNCHANGED <<service, category, offer, branch, copies, uploads, shifted, touched, torn>>

-----------------------------------------------------------------------------
\* Services.

LabelFree(k, name, but) == \A t \in InCategory(k) \ {but} : service[t].name # name

\* At least one way to book it is left on, as the row was read.
\* Faulty variant of Bookable: a way that the form leaves out counts as on.
BookableAsGiven(form, row) == Or(form.walkIn, TRUE) \/ Or(form.home, TRUE)

Bookable(form, row) == Or(form.walkIn, row.walkIn) \/ Or(form.home, row.home)

Fresh(x) == \A d \in Callers : calls[d].on # x

CreateService(c, s, k, form) ==
    /\ service[s].is = "new" /\ Fresh(s) /\ Bookable(form, [walkIn |-> TRUE, home |-> TRUE])
    /\ CategoryThere(k) /\ \A name \in form.name : LabelFree(k, name, s)
    /\ Begin(c, "services", "upload_image", s, Plan([form EXCEPT !.in = {k}], {}, {}, "insert_service"))
    /\ UNCHANGED catalogue

\* The fields that a form gives, and the image if there is a new one.
Filled(row, saw) ==
    [row EXCEPT !.in = Or(saw.form.in, @), !.name = Or(saw.form.name, @), !.walkIn = Or(saw.form.walkIn, @),
                !.home = Or(saw.form.home, @), !.price = Or(saw.form.price, @), !.image = Or(saw.image, @)]

\* Refused when the category is gone; the image stays.
InsertService(c) ==
    LET s == calls[c].on  saw == calls[c].saw IN
    /\ At(c, "insert_service")
    /\ IF ~CategoryThere(Or(saw.form.in, FirstCategory)) THEN Return(c) /\ UNCHANGED catalogue
       ELSE /\ service' = [service EXCEPT ![s] = Filled([@ EXCEPT !.is = "there"], saw)]
            /\ touched' = TRUE /\ Goto(c, "drop_pages", Pages("services"))
            /\ UNCHANGED <<category, offer, branch, hosted, copies, uploads, shifted, torn>>

UpdateService(c, s, form) ==
    LET row == service[s]  into == Or(form.in, row.in) IN
    /\ ServiceThere(s) /\ CategoryThere(into) /\ Bookable(form, row)
    /\ \A name \in form.name : LabelFree(into, name, s)
    /\ Begin(c, "services", IF form.image THEN "upload_image" ELSE "write_service", s,
             Plan(form, {}, {row.image} \ {0}, "write_service"))
    /\ UNCHANGED catalogue

WriteServiceRow(c) ==
    LET s == calls[c].on  saw == calls[c].saw  into == Or(saw.form.in, service[s].in) IN
    /\ At(c, "write_service")
    /\ IF ~ServiceThere(s) \/ ~CategoryThere(into) THEN Return(c) /\ UNCHANGED catalogue
       ELSE /\ service' = [service EXCEPT ![s] = Filled(@, saw)]
            /\ shifted' = (shifted \/ (saw.form.name = {} /\ into # service[s].in))
            /\ touched' = TRUE /\ Goto(c, "drop_pages", ServicePages(s))
            /\ UNCHANGED <<category, offer, branch, hosted, copies, uploads, torn>>

SetServiceStatus(c, s, active) ==
    /\ ServiceThere(s) /\ Begin(c, "services", "write_service_status", s, active)
    /\ UNCHANGED catalogue

WriteServiceStatus(c) ==
    LET s == calls[c].on IN
    /\ At(c, "write_service_status")
    /\ IF ~ServiceThere(s) THEN Return(c) /\ UNCHANGED catalogue
       ELSE /\ service' = [service EXCEPT ![s].active = calls[c].saw]
            /\ touched' = TRUE /\ Goto(c, "drop_pages", ServicePages(s))
            /\ UNCHANGED <<category, offer, branch, hosted, copies, uploads, shifted, torn>>

RemoveService(c, s) ==
    /\ ServiceThere(s) /\ Begin(c, "remove_service", "delete_service", s, {service[s].image} \ {0})
    /\ UNCHANGED catalogue

\* The branches' rows go with it; the database refuses if a visit refers to it.
DeleteService(c) ==
    LET s == calls[c].on IN
    /\ At(c, "delete_service")
    /\ IF ~ServiceThere(s) \/ s \in Referenced THEN Return(c) /\ UNCHANGED catalogue
       ELSE /\ service' = [service EXCEPT ![s].is = "gone"]
            /\ offer' = [b \in Branches |-> [offer[b] EXCEPT ![s] = {}]]
            /\ touched' = TRUE
            /\ Goto(c, "delete_image", [old |-> calls[c].saw, next |-> "drop_pages", pages |-> ServicePages(s)])
            /\ UNCHANGED <<category, branch, hosted, copies, uploads, shifted, torn>>

-----------------------------------------------------------------------------
\* Categories, whose names the database keeps apart.

CategoryNamed(name, but) == \E k \in Categories \ {but} : CategoryThere(k) /\ category[k].name = name

CreateCategory(c, k, name) ==
    /\ category[k].is = "new" /\ Fresh(k) /\ ~CategoryNamed(name, k)
    /\ Begin(c, "categories", "upload_image", k, Plan([name |-> {name}], {}, {}, "insert_category"))
    /\ UNCHANGED catalogue

InsertCategory(c) ==
    LET k == calls[c].on  saw == calls[c].saw  name == Or(saw.form.name, "none") IN
    /\ At(c, "insert_category")
    /\ IF CategoryNamed(name, k) THEN Return(c) /\ UNCHANGED catalogue
       ELSE /\ category' = [category EXCEPT ![k] = [is |-> "there", name |-> name, image |-> Or(saw.image, 0)]]
            /\ Goto(c, "drop_pages", CategoryPages)
            /\ UNCHANGED <<service, offer, branch, hosted, copies, uploads, shifted, touched, torn>>

UpdateCategory(c, k, name, image) ==
    /\ CategoryThere(k) /\ \A n \in name : ~CategoryNamed(n, k)
    /\ Begin(c, "categories", IF image THEN "upload_image" ELSE "write_category", k,
             Plan([name |-> name], {}, {category[k].image} \ {0}, "write_category"))
    /\ UNCHANGED catalogue

WriteCategory(c) ==
    LET k == calls[c].on  saw == calls[c].saw IN
    /\ At(c, "write_category")
    /\ IF ~CategoryThere(k) \/ \E n \in saw.form.name : CategoryNamed(n, k)
       THEN Return(c) /\ UNCHANGED catalogue
       ELSE /\ category' = [category EXCEPT ![k].name = Or(saw.form.name, @), ![k].image = Or(saw.image, @)]
            /\ Goto(c, "drop_pages", CategoryPages \cup Pages("one"))
            /\ UNCHANGED <<service, offer, branch, hosted, copies, uploads, shifted, touched, torn>>

RemoveCategory(c, k) ==
    /\ CategoryThere(k) /\ InCategory(k) = {}
    /\ Begin(c, "categories", "delete_category", k, {category[k].image} \ {0})
    /\ UNCHANGED catalogue

DeleteCategory(c) ==
    LET k == calls[c].on IN
    /\ At(c, "delete_category")
    /\ IF ~CategoryThere(k) \/ InCategory(k) # {} THEN Return(c) /\ UNCHANGED catalogue
       ELSE /\ category' = [category EXCEPT ![k].is = "gone"]
            /\ Goto(c, "delete_image", [old |-> calls[c].saw, next |-> "drop_pages", pages |-> CategoryPages])
            /\ UNCHANGED <<service, offer, branch, hosted, copies, uploads, shifted, touched, torn>>

-----------------------------------------------------------------------------
\* What a branch offers.

SetAvailableServices(c, b, these) ==
    /\ branch[b] # "gone" /\ these \subseteq Active
    /\ Begin(c, "offers", "write_offers", b, these)
    /\ UNCHANGED catalogue

\* One transaction: these are on, every other row is off.
WriteOffers(c) ==
    LET b == calls[c].on  these == calls[c].saw
        On(rows) == IF rows = {} THEN {[available |-> TRUE, price |-> {}]}
                    ELSE {[row EXCEPT !.available = TRUE] : row \in rows}
        Withdrawn(rows) == {[row EXCEPT !.available = FALSE] : row \in rows} IN
    /\ At(c, "write_offers")
    /\ IF branch[b] = "gone" \/ \E s \in these : ~ServiceThere(s) THEN Return(c) /\ UNCHANGED catalogue
       ELSE /\ offer' = [offer EXCEPT ![b] =
                   [s \in Services |-> IF s \in these THEN On(@[s]) ELSE Withdrawn(@[s])]]
            /\ Goto(c, "drop_pages", OfferPages(b))
            /\ UNCHANGED <<service, category, branch, hosted, copies, uploads, shifted, touched, torn>>

\* Item by item, each read and then written.
PatchServices(c, b, items) ==
    /\ branch[b] # "gone" /\ Begin(c, "offers", "read_offer", b, [items |-> items, written |-> 0])
    /\ UNCHANGED catalogue

\* The patch fails: what it has written stays, and no copy is dropped.
Tear(c) ==
    /\ Return(c) /\ torn' = (torn \/ calls[c].saw.written > 0)
    /\ UNCHANGED <<service, category, offer, branch, hosted, copies, uploads, shifted, touched>>

\* A service is assigned before it is switched off or priced.
ReadOffer(c) ==
    LET saw == calls[c].saw  item == Head(saw.items) IN
    /\ At(c, "read_offer")
    /\ IF offer[calls[c].on][item.service] # {}
       THEN Goto(c, "update_offer", saw) /\ UNCHANGED catalogue
       ELSE IF item.available = {TRUE}
       THEN Goto(c, "create_offer", saw) /\ UNCHANGED catalogue
       ELSE Tear(c)

NextOffer(c, saw) ==
    IF Len(saw.items) = 1 THEN Goto(c, "drop_pages", OfferPages(calls[c].on))
    ELSE Goto(c, "read_offer", [items |-> Tail(saw.items), written |-> saw.written + 1])

WriteOffer(c) ==
    LET b == calls[c].on  saw == calls[c].saw  item == Head(saw.items)  s == item.service IN
    /\ At(c, "create_offer") \/ At(c, "update_offer")
    /\ IF ServiceThere(s) /\ branch[b] # "gone" /\ (offer[b][s] = {}) = At(c, "create_offer")
       THEN /\ offer' = [offer EXCEPT ![b][s] =
                   IF @ = {} THEN {[available |-> TRUE, price |-> UNION item.price]}
                   ELSE {[available |-> Or(item.available, row.available),
                          price |-> IF item.price = {} THEN row.price ELSE UNION item.price] : row \in @}]
            /\ NextOffer(c, saw)
            /\ UNCHANGED <<service, category, branch, hosted, copies, uploads, shifted, touched, torn>>
       ELSE Tear(c)

\* A branch with staff is not closed, and is not removed.
ChangeBranch(c, b, to) ==
    /\ branch[b] # "gone" /\ (to # "open" => b \notin Staffed)
    /\ Begin(c, "locations", "write_location", b, to)
    /\ UNCHANGED catalogue

WriteLocation(c) ==
    LET b == calls[c].on IN
    /\ At(c, "write_location")
    /\ IF branch[b] = "gone" THEN Return(c) /\ UNCHANGED catalogue
       ELSE /\ branch' = [branch EXCEPT ![b] = calls[c].saw]
            /\ offer' = IF calls[c].saw = "gone" THEN [offer EXCEPT ![b] = [s \in Services |-> {}]] ELSE offer
            /\ Goto(c, "drop_pages", OfferPages(b))
            /\ UNCHANGED <<service, category, hosted, copies, uploads, shifted, touched, torn>>

CatalogueStep(c) ==
    \/ KeepPage(c) \/ DropPages(c) \/ UploadImage(c) \/ DeleteImage(c)
    \/ InsertService(c) \/ WriteServiceRow(c) \/ WriteServiceStatus(c) \/ DeleteService(c)
    \/ InsertCategory(c) \/ WriteCategory(c) \/ DeleteCategory(c)
    \/ WriteOffers(c) \/ ReadOffer(c) \/ WriteOffer(c) \/ WriteLocation(c)

CreationRequest(c) ==
    "services" \in scenario /\ \E s \in Services, k \in Categories, form \in ServiceForms :
        form.in = {} /\ form.image /\ CreateService(c, s, k, form)

ServicesRequest(c) ==
    \/ "services" \in scenario /\ \E s \in Services :
           \/ \E form \in ServiceForms : UpdateService(c, s, form)
           \/ \E active \in BOOLEAN : SetServiceStatus(c, s, active)
    \/ \E s \in Services : RemoveService(c, s)

CategoriesRequest(c) ==
    "categories" \in scenario /\ \E k \in Categories :
        \/ RemoveCategory(c, k)
        \/ \E name \in Labels : CreateCategory(c, k, name) \/ UpdateCategory(c, k, {name}, FALSE)
        \/ UpdateCategory(c, k, {}, TRUE)

OffersRequest(c) ==
    \/ "offers" \in scenario /\ \E b \in Branches :
           \/ \E these \in SUBSET Services : SetAvailableServices(c, b, these)
           \/ \E items \in Offers : PatchServices(c, b, items)
    \/ \E b \in Branches, to \in {"open", "closed", "gone"} : ChangeBranch(c, b, to)

CatalogueRequest(c) ==
    \/ "read_page" \in scenario /\ \E k \in CopyKeys : ReadPage(c, k)
    \/ CreationRequest(c) \/ ServicesRequest(c) \/ CategoriesRequest(c) \/ OffersRequest(c)

-----------------------------------------------------------------------------
\* A service is in a category that is there, and a branch that is there offers services that
\* are, however changes overlap.
RowsRefer ==
    /\ \A s \in Services : ServiceThere(s) => CategoryThere(service[s].in)
    /\ \A b \in Branches, s \in Services : offer[b][s] # {} => branch[b] # "gone" /\ ServiceThere(s)

\* A service can be booked in some way, unless two updates overlapped: each may switch off the
\* way that the other leaves on.
SomeWayToBook == overlapped \/ \A s \in Services : ServiceThere(s) => service[s].walkIn \/ service[s].home

\* Two services of a category have two names, unless their changes overlapped or one was moved
\* there, which does not look at its name.
LabelsApart ==
    overlapped \/ shifted \/ \A s, t \in Services :
        s # t /\ ServiceThere(s) /\ ServiceThere(t) /\ service[s].in = service[t].in
        => service[s].name # service[t].name

\* Every image shown is kept, and none that is not shown: unless changes overlapped, or one died.
ImagesAreKept ==
    Quiet /\ ~overlapped /\ crashes = 0 =>
        hosted \cup {0} = {0} \cup {service[s].image : s \in {s \in Services : ServiceThere(s)}}
                              \cup {category[k].image : k \in {k \in Categories : CategoryThere(k)}}

\* What customers are shown is what is there, unless it was read before a change and kept after
\* it, or the change failed half way.  The counts of the categories and the branches, and the
\* admins' matrix, are only true as long as no service changes: those changes do not drop them.
PagesAreTrue ==
    Quiet /\ ~overlapped /\ crashes = 0 /\ ~torn =>
        \A k \in CopyKeys :
            \/ copies[k] \in {{}, {Page(k)}}
            \/ touched /\ k[1] \in {"categories", "branches", "matrix"}

\* Services, categories, offers, images and the copies of them agree.
CatalogueKept ==
    CatalogueTypeOK /\ RowsRefer /\ SomeWayToBook /\ LabelsApart /\ ImagesAreKept /\ PagesAreTrue
===============================================================================
