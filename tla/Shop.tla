--------------------------------- MODULE Shop ---------------------------------
(***************************************************************************)
(* The online shop.                                                        *)
(*                                                                         *)
(* The assortment: products, the kinds they come in, their pictures (rows  *)
(* in the database, assets at Cloudinary), their stock, and the copies of  *)
(* all this that customers are shown for some minutes.  An admin's change  *)
(* checks first and writes later, in several steps and without a           *)
(* transaction.  Copies are dropped after the change, and the answer does  *)
(* not wait for it.                                                        *)
(*                                                                         *)
(* The orders: an order takes its goods from the products' stock and its   *)
(* price from the customer's wallet in one transaction; an admin moves it  *)
(* on, or cancels it and gives both back.  A checkout may be sent twice    *)
(* with one idempotency key.  Stock and balance are taken only if there is *)
(* enough when they are; an admin's change is decided by an earlier read   *)
(* and written by the order's id.  The money side implements module        *)
(* Ledger.  Prices, delivery fees and addresses are left out: an order is  *)
(* one product, a quantity, a total.                                       *)
(***************************************************************************)
EXTENDS Handlers, Sums

CONSTANTS
    Products,
    Stocked,        \* the products there at the start, of the first kind
    ShopStock,      \* ShopStock[p]: stock at the start
    Kinds,          \* product categories
    FirstKind,      \* the one there at the start
    Titles,         \* names of products and of kinds
    TitleOf,        \* TitleOf[x]: name at the start of product or kind x
    Edits,          \* what an admin may ask for: records of EditForms
    MaxPictures

VARIABLES
    product,    \* product[p]: its row but for stock and pictures
    kind,       \* kind[k]: name of category k
    shelf,      \* shelf[p]: products.stock
    pictures,   \* pictures[p]: its rows of product_images
    assets,     \* what Cloudinary keeps for the shop
    window,     \* window[w]: the cached copy
    stocked,    \* history: the stock at the start, and what admins' corrections added to it
    rekinded,      \* history: a product changed its kind without a check of its name
    numbered    \* history: picture rows made so far

assortment == <<product, kind, shelf, pictures, assets, window, stocked, rekinded, numbered>>

ProductRows == [is : {"new", "there", "gone"}, in : Kinds, name : Titles, active : BOOLEAN]
PictureRows == [id : Nat, sort : Nat]
Windows == Products \cup {"list", "kinds"}

\* A form gives a field ({v}) or leaves it out ({}).
EditForms == [in : SUBSET Kinds, name : SUBSET Titles, stock : SUBSET Nat, remove : SUBSET Nat, add : Nat]
Given(field, old) == IF field = {} THEN old ELSE CHOOSE v \in field : TRUE

ProductThere(p) == product[p].is = "there"
KindThere(k) == kind[k] \in Titles
OfKind(k) == {p \in Products : ProductThere(p) /\ product[p].in = k}

AssortmentTypeOK ==
    /\ product \in [Products -> ProductRows] /\ kind \in [Kinds -> Titles \cup {"new", "gone"}]
    /\ shelf \in [Products -> Int] /\ stocked \in [Products -> Int]
    /\ \A p \in Products : pictures[p] \subseteq PictureRows
    /\ assets \subseteq Products \X Nat
    /\ DOMAIN window = Windows /\ rekinded \in BOOLEAN /\ numbered \in Nat

AssortmentInit ==
    /\ product = [p \in Products |-> [is |-> IF p \in Stocked THEN "there" ELSE "new",
                                      in |-> FirstKind, name |-> TitleOf[p], active |-> TRUE]]
    /\ kind = [k \in Kinds |-> IF k = FirstKind THEN TitleOf[k] ELSE "new"]
    /\ shelf = ShopStock /\ stocked = ShopStock
    /\ pictures = [p \in Products |-> IF p \in Stocked THEN {[id |-> 0, sort |-> 0]} ELSE {}]
    /\ assets = {<<p, 0>> : p \in Stocked}
    /\ window = [w \in Windows |-> {}]
    /\ rekinded = FALSE /\ numbered = 0

-----------------------------------------------------------------------------
\* Customers look.

ShownProduct(p) == [p |-> p, row |-> product[p], kind |-> kind[product[p].in],
                    stock |-> shelf[p], pictures |-> pictures[p]]
OnSale == {p \in Products : ProductThere(p) /\ product[p].active}
ShownList == {ShownProduct(p) : p \in OnSale}
ShownKinds == {<<k, kind[k], Cardinality(OfKind(k) \cap OnSale)>> : k \in {k \in Kinds : KindThere(k)}}
Shown(w) ==
    CASE w = "list"  -> ShownList
      [] w = "kinds" -> ShownKinds
      [] OTHER       -> ShownProduct(w)

\* A window with no copy is filled from what is read now.
Look(c, w) ==
    /\ window[w] = {} /\ (w \in Products => w \in OnSale)
    /\ Begin(c, "look", "keep_copy", w, {Shown(w)})
    /\ UNCHANGED assortment

KeepCopy(c) ==
    /\ At(c, "keep_copy") /\ Return(c)
    /\ window' = [window EXCEPT ![calls[c].on] = calls[c].saw]
    /\ UNCHANGED <<product, kind, shelf, pictures, assets, stocked, rekinded, numbered>>

\* Five minutes pass.
CopyExpires ==
    \E w \in Windows :
        /\ window[w] # {} /\ window' = [window EXCEPT ![w] = {}]
        /\ UNCHANGED <<handlers, product, kind, shelf, pictures, assets, stocked, rekinded, numbered>>

\* After a change of the products in `saw` (all of them, after a change of a kind or an order).
DropCopies(c) ==
    /\ At(c, "drop_copies") /\ Return(c)
    /\ window' = [w \in Windows |-> IF w \in calls[c].saw \cup {"list", "kinds"} THEN {} ELSE window[w]]
    /\ UNCHANGED <<product, kind, shelf, pictures, assets, stocked, rekinded, numbered>>

-----------------------------------------------------------------------------
\* Admins change the products.

NameFree(k, name, but) == \A q \in OfKind(k) \ {but} : product[q].name # name

\* The id is new: nothing and nobody refers to it yet.
AddProduct(c, p, k, name, n) ==
    /\ product[p].is = "new" /\ ~(\E d \in Callers : calls[d].on = p) /\ ~(\E a \in assets : a[1] = p)
    /\ KindThere(k) /\ NameFree(k, name, p)
    /\ Begin(c, "add_product", "upload_first", p, [in |-> k, name |-> name, add |-> n])
    /\ UNCHANGED assortment

UploadFirst(c) ==
    /\ At(c, "upload_first") /\ Goto(c, "create_product", calls[c].saw)
    /\ assets' = assets \cup {<<calls[c].on, i>> : i \in 0..(calls[c].saw.add - 1)}
    /\ UNCHANGED <<product, kind, shelf, pictures, window, stocked, rekinded, numbered>>

\* Product and picture rows in one write, refused when the category is gone.
CreateProduct(c) ==
    LET p == calls[c].on  form == calls[c].saw IN
    /\ At(c, "create_product")
    /\ IF ~KindThere(form.in) THEN Return(c) /\ UNCHANGED assortment
       ELSE /\ product' = [product EXCEPT ![p] =
                   [is |-> "there", in |-> form.in, name |-> form.name, active |-> TRUE]]
            /\ pictures' = [pictures EXCEPT ![p] =
                   {[id |-> numbered + i, sort |-> i - 1] : i \in 1..form.add}]
            /\ numbered' = numbered + form.add
            /\ Goto(c, "drop_copies", {p})
            /\ UNCHANGED <<kind, shelf, assets, window, stocked, rekinded>>

\* Where an update goes on: pictures to remove first, then those to add, then the row.
AddOrWrite(form) == IF form.add > 0 THEN "upload_pictures" ELSE "write_product"

EditProduct(c, p, form) ==
    LET into == Given(form.in, product[p].in)
        left == {r \in pictures[p] : r.id \notin form.remove} IN
    /\ ProductThere(p) /\ KindThere(into)
    /\ \A name \in form.name : NameFree(into, name, p)
    /\ \A i \in form.remove : \E r \in pictures[p] : r.id = i
    /\ Cardinality(left) + form.add \in 1..MaxPictures
    /\ Begin(c, "edit_product", IF form.remove # {} THEN "remove_assets" ELSE AddOrWrite(form),
             p, [form |-> form, had |-> pictures[p]])
    /\ UNCHANGED assortment

Removed(call) == {r \in call.saw.had : r.id \in call.saw.form.remove}

RemoveAssets(c) ==
    /\ At(c, "remove_assets") /\ Goto(c, "remove_rows", calls[c].saw)
    /\ assets' = assets \ {<<calls[c].on, r.sort>> : r \in Removed(calls[c])}
    /\ UNCHANGED <<product, kind, shelf, pictures, window, stocked, rekinded, numbered>>

RemoveRows(c) ==
    /\ At(c, "remove_rows") /\ Goto(c, AddOrWrite(calls[c].saw.form), calls[c].saw)
    /\ pictures' = [pictures EXCEPT ![calls[c].on] = @ \ Removed(calls[c])]
    /\ UNCHANGED <<product, kind, shelf, assets, window, stocked, rekinded, numbered>>

\* Faulty variant of NextSort: the number of the pictures that stay.
NextByCount(call) == Cardinality(call.saw.had \ Removed(call))

\* The places after the last of the pictures that were read and stay.
NextSort(call) ==
    LET stay == {r.sort : r \in call.saw.had \ Removed(call)} IN
    IF stay = {} THEN 0 ELSE 1 + CHOOSE s \in stay : \A t \in stay : t <= s

NewSorts(call) == {NextSort(call) + i : i \in 0..(call.saw.form.add - 1)}

UploadPictures(c) ==
    /\ At(c, "upload_pictures") /\ Goto(c, "create_rows", calls[c].saw)
    /\ assets' = assets \cup {<<calls[c].on, s>> : s \in NewSorts(calls[c])}
    /\ UNCHANGED <<product, kind, shelf, pictures, window, stocked, rekinded, numbered>>

\* Refused when the product is gone.
CreateRows(c) ==
    LET p == calls[c].on  call == calls[c] IN
    /\ At(c, "create_rows")
    /\ IF ~ProductThere(p) THEN Return(c) /\ UNCHANGED assortment
       ELSE /\ pictures' = [pictures EXCEPT ![p] =
                   @ \cup {[id |-> numbered + 1 + s - NextSort(call), sort |-> s] : s \in NewSorts(call)}]
            /\ numbered' = numbered + call.saw.form.add
            /\ Goto(c, "write_product", call.saw)
            /\ UNCHANGED <<product, kind, shelf, assets, window, stocked, rekinded>>

\* The fields given, by the product's id.  The stock is written as it is, not added to.
WriteProduct(c) ==
    LET p == calls[c].on
        form == calls[c].saw.form
        into == Given(form.in, product[p].in)
        count == Given(form.stock, shelf[p]) IN
    /\ At(c, "write_product")
    /\ IF ~ProductThere(p) \/ ~KindThere(into) THEN Return(c) /\ UNCHANGED assortment
       ELSE /\ product' = [product EXCEPT ![p].in = into, ![p].name = Given(form.name, @)]
            /\ shelf' = [shelf EXCEPT ![p] = count]
            /\ stocked' = [stocked EXCEPT ![p] = @ + count - shelf[p]]
            /\ rekinded' = (rekinded \/ (form.name = {} /\ into # product[p].in))
            /\ Goto(c, "drop_copies", {p})
            /\ UNCHANGED <<kind, pictures, assets, window, numbered>>

SetProductStatus(c, p, active) ==
    /\ ProductThere(p) /\ Begin(c, "edit_product", "write_product_status", p, active)
    /\ UNCHANGED assortment

WriteProductStatus(c) ==
    LET p == calls[c].on IN
    /\ At(c, "write_product_status")
    /\ IF ~ProductThere(p) THEN Return(c) /\ UNCHANGED assortment
       ELSE /\ product' = [product EXCEPT ![p].active = calls[c].saw]
            /\ Goto(c, "drop_copies", {p})
            /\ UNCHANGED <<kind, shelf, pictures, assets, window, stocked, rekinded, numbered>>

RemoveProduct(c, p) ==
    /\ ProductThere(p) /\ Begin(c, "remove_product", "delete_assets", p, pictures[p])
    /\ UNCHANGED assortment

DeleteAssets(c) ==
    /\ At(c, "delete_assets") /\ Goto(c, "delete_product", 0)
    /\ assets' = assets \ {<<calls[c].on, r.sort>> : r \in calls[c].saw}
    /\ UNCHANGED <<product, kind, shelf, pictures, window, stocked, rekinded, numbered>>

\* The picture rows go with the product; orders do not refer to it.
DeleteProduct(c) ==
    LET p == calls[c].on IN
    /\ At(c, "delete_product")
    /\ IF ~ProductThere(p) THEN Return(c) /\ UNCHANGED assortment
       ELSE /\ product' = [product EXCEPT ![p].is = "gone"]
            /\ pictures' = [pictures EXCEPT ![p] = {}]
            /\ Goto(c, "drop_copies", {p})
            /\ UNCHANGED <<kind, shelf, assets, window, stocked, rekinded, numbered>>

-----------------------------------------------------------------------------
\* Kinds of products.

ChangeKind(c, k, name) ==
    /\ kind[k] # "gone" /\ ~(kind[k] = "new" /\ \E d \in Callers : calls[d].on = k)
    /\ name = "gone" => KindThere(k) /\ OfKind(k) = {}
    /\ name # "gone" => \A j \in Kinds \ {k} : kind[j] # name
    /\ Begin(c, "kinds", IF KindThere(k) THEN "write_kind" ELSE "create_kind", k, name)
    /\ UNCHANGED assortment

\* The database keeps names apart, a kind that products are of, and refuses to write one gone.
WriteKind(c) ==
    LET k == calls[c].on  name == calls[c].saw IN
    /\ At(c, "write_kind") \/ At(c, "create_kind")
    /\ IF \/ At(c, "write_kind") # KindThere(k)
          \/ name = "gone" /\ OfKind(k) # {}
          \/ name # "gone" /\ \E j \in Kinds \ {k} : kind[j] = name
       THEN Return(c) /\ UNCHANGED assortment
       ELSE /\ kind' = [kind EXCEPT ![k] = name]
            /\ Goto(c, "drop_copies", Products)
            /\ UNCHANGED <<product, shelf, pictures, assets, window, stocked, rekinded, numbered>>

AssortmentStep(c) ==
    \/ KeepCopy(c) \/ DropCopies(c) \/ UploadFirst(c) \/ CreateProduct(c)
    \/ RemoveAssets(c) \/ RemoveRows(c) \/ UploadPictures(c) \/ CreateRows(c) \/ WriteProduct(c)
    \/ WriteProductStatus(c) \/ DeleteAssets(c) \/ DeleteProduct(c) \/ WriteKind(c)

ProductsRequest(c) ==
    \/ "add_product" \in scenario /\ \E p \in Products, k \in Kinds, name \in Titles :
           AddProduct(c, p, k, name, 1)
    \/ "edit_product" \in scenario /\ \E p \in Products :
           \/ \E form \in Edits : EditProduct(c, p, form)
           \/ \E active \in BOOLEAN : SetProductStatus(c, p, active)
    \/ \E p \in Products : RemoveProduct(c, p)

KindsRequest(c) ==
    "kinds" \in scenario /\ \E k \in Kinds, name \in Titles \cup {"gone"} : ChangeKind(c, k, name)

AssortmentRequest(c) ==
    \/ "look" \in scenario /\ \E w \in Windows : Look(c, w)
    \/ ProductsRequest(c) \/ KindsRequest(c)

-----------------------------------------------------------------------------
\* A product is of a kind that is there, however its changes and the kind's overlap.
OfAKind == \A p \in Products : ProductThere(p) => KindThere(product[p].in)

\* Two products of a kind have two names, unless their changes overlapped or one of them was
\* rekinded into the kind, which does not look at its name.
NamesApart ==
    overlapped \/ rekinded \/ \A p, q \in Products :
        p # q /\ ProductThere(p) /\ ProductThere(q) /\ product[p].in = product[q].in => product[p].name # product[q].name

\* A product on sale has a picture and no two of it in one place, each picture shown is still
\* kept, and nothing is kept that no picture shows: unless changes overlapped, or one died.
PicturesAreKept ==
    Quiet /\ ~overlapped /\ crashes = 0 =>
        /\ \A p \in Products :
               /\ ProductThere(p) => Cardinality(pictures[p]) \in 1..MaxPictures
               /\ Cardinality({r.sort : r \in pictures[p]}) = Cardinality(pictures[p])
        /\ \A a \in Products \X (0..(numbered + 1)) :
               a \in assets <=> \E r \in pictures[a[1]] : r.sort = a[2]

\* What customers are shown is what is there, unless a copy was read before a change and kept
\* after it, or the change died before it dropped the copies.
WindowsAreTrue ==
    Quiet /\ ~overlapped /\ crashes = 0 => \A w \in Windows : window[w] \in {{}, {Shown(w)}}

\* Products, pictures and the copies of them agree.
AssortmentKept == AssortmentTypeOK /\ OfAKind /\ NamesApart /\ PicturesAreKept /\ WindowsAreTrue

-----------------------------------------------------------------------------
(* Orders. *)

CONSTANTS
    Orders,         \* by their idempotency keys
    Customers,
    Goods,          \* Goods[o]: product, quantity, total and customer of order o
    Savings         \* Savings[u]: what is in u's wallet at the start

ASSUME ShopAssumption ==
    /\ IsFiniteSet(Orders) /\ Savings \in [Customers -> Int]
    /\ Goods \in [Orders -> [product : Products, quantity : Nat, total : Nat, customer : Customers]]
    /\ Stocked \subseteq Products /\ ShopStock \in [Products -> Nat] /\ Edits \subseteq EditForms
    /\ FirstKind \in Kinds /\ \A p \in Products : TitleOf[p] \in Titles

VARIABLES
    purse,      \* purse[u]: the customer's wallet
    entries,    \* the wallet's ledger entries, by reference
    bought      \* bought[o]: shop_orders.status

shop == <<assortment, purse, entries, bought>>

\* The references SHOP-<order> and REFUND-SHOP-<order>.
References == {"SHOP", "REFUND-SHOP"} \X Orders
Payer  == [r \in References |-> Goods[r[2]].customer]
Signed == [r \in References |-> IF r[1] = "SHOP" THEN -Goods[r[2]].total ELSE Goods[r[2]].total]

OrderStatuses == {"CONFIRMED", "PROCESSING", "SHIPPED", "DELIVERED", "CANCELLED"}

ShopTypeOK ==
    /\ purse \in [Customers -> Int]
    /\ entries \subseteq References
    /\ bought \in [Orders -> OrderStatuses \cup {"none"}]

ShopInit ==
    /\ AssortmentInit /\ purse = Savings
    /\ entries = {} /\ bought = [o \in Orders |-> "none"]

\* The order is looked for by its key, and the stock is looked at.
Checkout(c, o) ==
    /\ bought[o] = "none"
    /\ Goods[o].product \in OnSale /\ shelf[Goods[o].product] >= Goods[o].quantity
    /\ Begin(c, "shop", "place_order", o, 0)
    /\ UNCHANGED shop

\* One transaction, undone as a whole when the stock, the balance or the key refuses.
PlaceOrder(c) ==
    LET o == calls[c].on  g == Goods[o] IN
    /\ At(c, "place_order")
    /\ IF bought[o] = "none" /\ ProductThere(g.product) /\ shelf[g.product] >= g.quantity /\ purse[g.customer] >= g.total
       THEN /\ Goto(c, "drop_copies", Products)
            /\ shelf' = [shelf EXCEPT ![g.product] = @ - g.quantity]
            /\ purse' = [purse EXCEPT ![g.customer] = @ - g.total]
            /\ entries' = entries \cup {<<"SHOP", o>>}
            /\ bought' = [bought EXCEPT ![o] = "CONFIRMED"]
            /\ UNCHANGED <<product, kind, pictures, assets, window, stocked, rekinded, numbered>>
       ELSE Return(c) /\ UNCHANGED shop

UpdateOrderStatus(c, o, status) ==
    /\ bought[o] \notin {"none", "DELIVERED", "CANCELLED", status}
    /\ Begin(c, "shop", "update_order", o, status)
    /\ UNCHANGED shop

\* Goods of a product that is gone go nowhere.
Restocked(g) == IF ProductThere(g.product) THEN [shelf EXCEPT ![g.product] = @ + g.quantity] ELSE shelf

\* Faulty variant of WriteOrderStatus: the wallet is credited outside the transaction.
RefundEachTime(c) ==
    LET o == calls[c].on  g == Goods[o]  again == <<"REFUND-SHOP", o>> \in entries IN
    /\ At(c, "update_order") /\ Goto(c, "drop_copies", Products)
    /\ bought' = [bought EXCEPT ![o] = calls[c].saw]
    /\ purse' = IF calls[c].saw = "CANCELLED" THEN [purse EXCEPT ![g.customer] = @ + g.total] ELSE purse
    /\ IF calls[c].saw = "CANCELLED" /\ ~again
       THEN shelf' = Restocked(g) /\ entries' = entries \cup {<<"REFUND-SHOP", o>>}
       ELSE UNCHANGED <<shelf, entries>>
    /\ UNCHANGED <<product, kind, pictures, assets, window, stocked, rekinded, numbered>>

\* One transaction.  A second cancellation fails on the refund's unique reference, and gives
\* no goods back either.
WriteOrderStatus(c) ==
    LET o == calls[c].on  g == Goods[o] IN
    /\ At(c, "update_order")
    /\ IF calls[c].saw # "CANCELLED"
       THEN /\ Return(c) /\ bought' = [bought EXCEPT ![o] = calls[c].saw]
            /\ UNCHANGED <<assortment, purse, entries>>
       ELSE IF <<"REFUND-SHOP", o>> \in entries
       THEN Return(c) /\ UNCHANGED shop
       ELSE /\ Goto(c, "drop_copies", Products)
            /\ bought' = [bought EXCEPT ![o] = "CANCELLED"]
            /\ shelf' = Restocked(g)
            /\ purse' = [purse EXCEPT ![g.customer] = @ + g.total]
            /\ entries' = entries \cup {<<"REFUND-SHOP", o>>}
            /\ UNCHANGED <<product, kind, pictures, assets, window, stocked, rekinded, numbered>>

ShopStep(c) ==
    \/ PlaceOrder(c) \/ WriteOrderStatus(c)
    \/ AssortmentStep(c) /\ UNCHANGED <<purse, entries, bought>>

OrderRequest(c) ==
    "shop" \in scenario /\ \E o \in Orders, status \in OrderStatuses : UpdateOrderStatus(c, o, status)

ShopRequest(c) ==
    \/ "shop" \in scenario /\ \E o \in Orders : Checkout(c, o)
    \/ OrderRequest(c)
    \/ AssortmentRequest(c) /\ UNCHANGED <<purse, entries, bought>>

-----------------------------------------------------------------------------
Kept == INSTANCE Ledger WITH
    Accounts <- Customers, Refs <- References, Holder <- Payer, Worth <- Signed,
    Opening <- Savings, account <- purse, posted <- entries

\* However checkouts with one key, and admins' changes, overlap: a wallet changes only by
\* posting an order's price or its refund, each at most once.
WalletsFollowOrders == Kept!Spec

SoldOf(p) == {o \in Orders : /\ Goods[o].product = p /\ <<"SHOP", o>> \in entries
                             /\ <<"REFUND-SHOP", o>> \notin entries}
Quantities == [o \in Orders |-> Goods[o].quantity]

\* What a product has on the shelf, and in orders that were not refunded, is what it had, and
\* what admins' corrections added, as long as it is there.  Two admins who cancel at once give
\* the goods back once.
GoodsAreKept ==
    \A p \in Products :
        ProductThere(p) => shelf[p] >= 0 /\ shelf[p] + SumOver(SoldOf(p), Quantities) = stocked[p]

\* What is delivered was paid for and not refunded, unless two admins decide at once.
DeliveredIsPaid ==
    overlapped \/ \A o \in Orders : bought[o] = "DELIVERED" => <<"REFUND-SHOP", o>> \notin entries

\* Goods, money and orders agree with each other.
ShopKept == []ShopTypeOK /\ []GoodsAreKept /\ []DeliveredIsPaid /\ WalletsFollowOrders
===============================================================================
