------------------------------ MODULE BackOffice ------------------------------
(***************************************************************************)
(* The back office: stock, purchases and the approvals both go through,    *)
(* the online shop, the salons' bookings, discounts and referrals, the     *)
(* catalogue of services and the branches' takings.  Handlers of all of    *)
(* them run in one process.                                                *)
(***************************************************************************)
EXTENDS Procurement, Shop, Salon, Catalogue, Takings

vars == <<handlers, approval, inventory, procurement, shop, promotions, salon, catalogue, takings>>

Init ==
    /\ HandlersInit /\ ApprovalInit(AtHand) /\ InventoryInit /\ ProcurementInit /\ ShopInit
    /\ PromotionsInit /\ SalonInit /\ CatalogueInit /\ TakingsInit

InventoryNext(c)   == ((Busy(c) /\ InventoryStep(c)) \/ (Ready(c) /\ InventoryRequest(c))) /\ UNCHANGED <<procurement, shop, promotions, salon, catalogue, takings>>
ProcurementNext(c) == ((Busy(c) /\ ProcurementStep(c)) \/ (Ready(c) /\ ProcurementRequest(c))) /\ UNCHANGED <<shop, promotions, salon, catalogue, takings>>
ShopNext(c)        == ((Busy(c) /\ ShopStep(c)) \/ (Ready(c) /\ ShopRequest(c))) /\ UNCHANGED <<approval, inventory, procurement, promotions, salon, catalogue, takings>>
PromotionsNext(c)  == ((Busy(c) /\ PromotionsStep(c)) \/ (Ready(c) /\ PromotionsRequest(c))) /\ UNCHANGED <<approval, inventory, procurement, shop, salon, catalogue, takings>>
SalonNext(c)       == ((Busy(c) /\ SalonStep(c)) \/ (Ready(c) /\ SalonRequest(c))) /\ UNCHANGED <<procurement, shop, catalogue, takings>>
CatalogueNext(c)   == ((Busy(c) /\ CatalogueStep(c)) \/ (Ready(c) /\ CatalogueRequest(c))) /\ UNCHANGED <<approval, inventory, procurement, shop, promotions, salon, takings>>
TakingsNext(c)     == ((Busy(c) /\ TakingsStep(c)) \/ (Ready(c) /\ TakingsRequest(c))) /\ UNCHANGED <<approval, inventory, procurement, shop, promotions, salon, catalogue>>
Dies(c)            == Crash(c) /\ UNCHANGED <<approval, inventory, procurement, shop, promotions, salon, catalogue, takings>>

Next ==
    \/ \E c \in Callers : \/ InventoryNext(c) \/ ProcurementNext(c) \/ ShopNext(c)
                          \/ PromotionsNext(c) \/ SalonNext(c) \/ CatalogueNext(c) \/ TakingsNext(c) \/ Dies(c)
    \/ SettingsExpire /\ UNCHANGED <<approval, inventory, procurement, shop, salon, catalogue, takings>>
    \/ PageExpires /\ UNCHANGED <<approval, inventory, procurement, shop, promotions, salon, takings>>
    \/ TimePasses /\ UNCHANGED <<approval, inventory, procurement, shop, promotions, salon, catalogue>>
    \/ CopyExpires /\ UNCHANGED <<approval, inventory, procurement, purse, entries, bought, promotions, salon, catalogue, takings>>

Spec == Init /\ [][Next]_vars

\* Stock is what moved it, moves once for one reason, and never falls below nothing: except for a
\* sale or a salon's booking with an item on two lines, each compared with the stock alone.
StockKept ==
    /\ approval \in [Requests -> ApprovalRows] /\ InventoryTypeOK
    /\ StockIsMovements /\ MovedOnce /\ NeverNegative
===============================================================================
