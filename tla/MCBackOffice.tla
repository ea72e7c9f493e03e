----------------------------- MODULE MCBackOffice -----------------------------
\* Two branches' items, an adjustment and a transfer decided by one person, a purchase
\* request with a chain of two stages and one that was bought, orders for one product of two,
\* two services in two categories at one branch, and the incomes of a day at two tills.
EXTENDS BackOffice, TLC

CONSTANTS c1, c2, i1, i2, o1, o2, gel, extra, oils, tools, customer, v1, v2, v3, braids, twist, hair, nails, lagos, abuja, cut, colour, ann, ben, kim

MCChain == [r \in {"adj", "move", "buy", "had"} |-> IF r = "buy" THEN 2 ELSE 0]
MCChange == [a \in {"adj"} |-> [item |-> i1, bucket |-> "SALES", qty |-> -1]]
MCMove == [t \in {"move"} |-> [from |-> i1, to |-> i2, bucket |-> "SALES", qty |-> 2]]
MCOpened == [i \in Items |-> [k \in Buckets |-> IF i = i1 /\ k = "SALES" THEN 2 ELSE IF k = "USAGE" THEN 1 ELSE 0]]
MCLowAt == [i \in Items |-> 1]
MCOrdered == [p \in {"buy", "had"} |-> 2]
MCItemOf == [p \in {"buy", "had"} |-> i1]
MCGoods == [o \in Orders |-> [product |-> gel, quantity |-> 1, total |-> 2,
                              customer |-> customer]]
MCShopStock == [p \in Products |-> IF p = gel THEN 1 ELSE 0]
MCTitleOf == [x \in Products \cup Kinds |-> IF x \in Kinds THEN "wax" ELSE "soap"]
NoEdit == [in |-> {}, name |-> {}, stock |-> {}, remove |-> {}, add |-> 0]
MCEdits == {[NoEdit EXCEPT !.name = {"wax"}], [NoEdit EXCEPT !.in = {tools}], [NoEdit EXCEPT !.stock = {2}],
            [NoEdit EXCEPT !.add = 1], [NoEdit EXCEPT !.remove = {0}, !.add = 1], [NoEdit EXCEPT !.remove = {0}]}
MCSavings == [u \in Customers |-> 4]

MCOwner == [d \in Codes |-> kim]
MCSignsUpWith == [n \in Newcomers |-> IF n = ann THEN kim ELSE "launch"]

\* v1 is a reservation, made already, to which a product was added; v2 is booked at the desk, with a
\* code, for two services that use up the same item; v3 is another reservation.
MCWish == [v \in Visits |->
    [phone |-> "080", link |-> v = v2, stylist |-> v = v2, reserved |-> v # v2,
     services |-> IF v = v2 THEN <<cut, colour>> ELSE <<cut>>,
     goods |-> IF v = v1 THEN <<<<i1, "SALES">>>> ELSE <<>>, code |-> IF v = v2 THEN "ten" ELSE "none"]]
MCPrice == [s \in Menu |-> 2]
MCRecipe == [s \in Menu |-> i1]
MCReplacements == {<<<<colour>>, <<>>>>}
MCWares == {<<i1, "SALES">>, <<i1, "USAGE">>}

MCLabelOf == [x \in Services \cup Categories |-> IF x \in Categories /\ x # FirstCategory THEN "new" ELSE "old"]
NoForm == [in |-> {}, name |-> {}, walkIn |-> {}, home |-> {}, price |-> {}, image |-> FALSE]
MCServiceForms == {[NoForm EXCEPT !.name = {"new"}, !.image = TRUE], [NoForm EXCEPT !.in = {nails}],
                   [NoForm EXCEPT !.walkIn = {FALSE}], [NoForm EXCEPT !.home = {FALSE}, !.price = {2}]}
Patch(s, available, price) == [service |-> s, available |-> available, price |-> price]
MCOffers == {<<Patch(braids, {TRUE}, {{3}}), Patch(twist, {FALSE}, {})>>, <<Patch(braids, {FALSE}, {{}})>>}

MCSource == "visit" :> "SALON" @@ "walk_in" :> "WALK_IN" @@ "home" :> "HOME" @@ "sale" :> "SALE"
MCHouse == [i \in Incomes |-> IF i = "sale" THEN abuja ELSE lagos]
MCHome == [m \in Accountants |-> lagos]

Salons == {{"book", "delete_visit", "progress"}, {"book", "codes", "influencers"}, {"book", "verify", "complete_visit"}, {"progress", "complete_visit", "verify"},
           {"edit_visit", "complete_visit", "progress"}, {"add_goods", "complete_visit"},
           {"verify", "complete_visit", "add_service"}, {"delete_visit", "complete_visit", "verify"},
           {"complete_visit", "edit_visit", "sell"}}
SignUps == {{"sign_up", "deposit", "settings"}, {"sign_up", "campaigns"}, {"codes", "influencers", "edit_influencer"}}

ShopAdmins == {{"shop", "edit_product"}, {"edit_product", "kinds", "add_product"}, {"shop", "remove_product", "look"},
               {"add_product", "remove_product", "look"}, {"kinds", "look", "edit_product"}}
CatalogueAdmins == {{"services", "remove_service", "offers"}, {"services", "categories"},
                    {"offers", "read_page", "services"}, {"locations", "offers", "read_page"},
                    {"categories", "read_page"}}
Tills == {{"earn", "count", "access"}, {"set_status", "show", "count"}, {"earn", "add_to_visit", "show", "count"},
          {"earn", "delete_row", "count"}}
MCScenarios == {{"adjust", "sell"}, {"transfer", "sell"}, {"adjust", "transfer"},
                {"receive", "allocate", "sell"}, {"alerts", "sell"}, {"order"},
                {"goods", "pay"}, {"shop"}} \cup Salons \cup SignUps \cup ShopAdmins \cup CatalogueAdmins \cup Tills
Short == {{"offers", "read_page", "services"}, {"kinds", "look", "edit_product"}, {"categories", "read_page"},
          {"edit_product", "kinds", "add_product"}, {"services", "categories"}, {"set_status", "show", "count"}}
MCMaxCalls == [s \in MCScenarios |->
    CASE s \in Short -> 2
      [] "allocate" \in s \/ s \in ShopAdmins \cup CatalogueAdmins \cup Tills -> 3
      [] s \in SignUps \/ {"book", "goods"} \cap s # {} -> 4
      [] s \in Salons \/ "transfer" \in s -> 5
      [] OTHER -> 6]
===============================================================================
