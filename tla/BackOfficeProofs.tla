--------------------------- MODULE BackOfficeProofs ---------------------------
(***************************************************************************)
(* Proofs about the back office: what no one signed is not done, whoever   *)
(* overlaps and whoever dies (NothingUnsigned); stock is what moved it, as *)
(* long as handlers do not overlap (StockStays); a salon's booking is      *)
(* completed once and says what it costs (VisitsEarnOnce); a day's count   *)
(* stands for what the day's rows say (TakingsAgree); and customers'       *)
(* wallets are a Ledger of orders and refunds (ShopImplementsLedger).      *)
(*                                                                         *)
(* First where the handlers of each part can be, and that the others leave *)
(* the tables of a part alone; then the types of the rows and of what a    *)
(* handler remembers; then SignedInv, the inductive invariant: a handler   *)
(* that is about to write an approval remembers a row that was signed up   *)
(* to its stage, and the row that is there now carries those signatures    *)
(* too, because no step takes a signature back.                            *)
(*                                                                         *)
(* StockInv, for stock, has the types and StockCalm: until two handlers    *)
(* overlap, what the one in progress has found it still finds when it      *)
(* writes.  SalonInv, for bookings, is built the same way: SalonCalm also  *)
(* says that totals are right but of the booking that is being edited.     *)
(* TakingsInv says of every count, also of one about to be written, that   *)
(* its day is over.  ShopInv, for orders, says that a product is made by   *)
(* one handler and ordered only once it is there, and that a refunded      *)
(* order was paid.                                                         *)
(***************************************************************************)
EXTENDS BackOffice, TLAPS, FiniteSetTheorems

-----------------------------------------------------------------------------
(* The handlers: what a step of one does to all.                           *)

\* calls is a function on Callers.
Shape ==
    /\ DOMAIN calls = Callers
    /\ calls = [c \in Callers |-> calls[c]]

\* What a step of handler c does to the handlers, whatever else it does: c goes on to one of stages.
Acts(c, stages) ==
    /\ Shape'
    /\ \A d \in Callers \ {c} : calls'[d] = calls[d]
    /\ calls'[c].stage \in stages \cup {"idle"}
    /\ \/ overlapped' = overlapped /\ Busy(c)
       \/ overlapped' = (overlapped \/ ~Quiet)
    /\ scenario' = scenario
    /\ crashes' = crashes \/ (crashes' = crashes + 1 /\ calls'[c].stage = "idle")

LEMMA Begins ==
    ASSUME Shape, NEW c \in Callers, NEW S, NEW op, NEW stage, NEW on, NEW saw,
           Begin(c, op, stage, on, saw), stage \in S
    PROVE  Acts(c, S)
BY DEF Shape, Acts, Begin, Quiet, Busy, At, Ready

LEMMA Onces ==
    ASSUME Shape, NEW c \in Callers, NEW S, NEW op, Once(c, op)
    PROVE  Acts(c, S)
BY DEF Shape, Acts, Once, Quiet, Busy, At, Ready

LEMMA Continues ==
    ASSUME Shape, NEW c \in Callers, NEW S, Busy(c), NEW stage, NEW on, NEW saw, stage \in S,
           Continue(c, [stage |-> stage, on |-> on, saw |-> saw])
    PROVE  Acts(c, S)
BY DEF Shape, Acts, Continue, Quiet, Busy, At

LEMMA Selects ==
    ASSUME NEW stage, NEW on, NEW saw, NEW r, r = [stage |-> stage, on |-> on, saw |-> saw]
    PROVE  r.stage = stage /\ r.on = on /\ r.saw = saw
OBVIOUS

LEMMA Begun ==
    ASSUME Shape, NEW c \in Callers, NEW op, NEW stage, NEW on, NEW saw, Begin(c, op, stage, on, saw)
    PROVE  calls'[c].stage = stage /\ calls'[c].on = on /\ calls'[c].saw = saw
<1>1. calls'[c] = [stage |-> stage, on |-> on, saw |-> saw]
  BY DEF Begin, Shape
<1> QED BY <1>1, Selects

LEMMA Gone ==
    ASSUME Shape, NEW c \in Callers, NEW stage, NEW saw, Goto(c, stage, saw)
    PROVE  calls'[c].stage = stage /\ calls'[c].on = calls[c].on /\ calls'[c].saw = saw
<1>1. calls'[c] = [stage |-> stage, on |-> calls[c].on, saw |-> saw]
  BY DEF Goto, Continue, Shape
<1> QED BY <1>1, Selects

LEMMA Continued ==
    ASSUME Shape, NEW c \in Callers, NEW stage, NEW on, NEW saw,
           Continue(c, [stage |-> stage, on |-> on, saw |-> saw])
    PROVE  calls'[c].stage = stage /\ calls'[c].on = on /\ calls'[c].saw = saw
<1>1. calls'[c] = [stage |-> stage, on |-> on, saw |-> saw]
  BY DEF Continue, Shape
<1> QED BY <1>1, Selects

LEMMA Goes ==
    ASSUME Shape, NEW c \in Callers, NEW S, Busy(c), NEW stage, NEW saw, Goto(c, stage, saw), stage \in S
    PROVE  Acts(c, S)
BY Continues DEF Goto

LEMMA Returns ==
    ASSUME Shape, NEW c \in Callers, NEW S, Busy(c), Return(c)
    PROVE  Acts(c, S)
BY DEF Shape, Acts, Return, Continue, Quiet, Busy, At, Idle

\* Four steps on goods, by what they do beside moving them; and what an adjustment would leave.
Left(a) == stock[Change[a].item][Change[a].bucket] + Change[a].qty

LEMMA Applying ==
    ASSUME NEW c, ApplyAdjustment(c)
    PROVE  /\ At(c, "apply") /\ approval' = approval /\ inventory' = inventory
           /\ \/ Return(c)
              \/ ~(Left(calls[c].on) < 0) /\ Goto(c, "adjust", Left(calls[c].on))
BY Zenon DEF ApplyAdjustment, inventory, Left

LEMMA Adjusting ==
    ASSUME NEW c, WriteAdjustment(c)
    PROVE  /\ At(c, "adjust")
           /\ \/ Continue(c, [stage |-> "alert", on |-> Change[calls[c].on].item, saw |-> calls[c].on])
              \/ Goto(c, "adjusted", 0)
           /\ approval' = approval /\ alert' = alert /\ decision' = decision
           /\ applied' = [applied EXCEPT ![calls[c].on] = @ + 1]
BY Zenon DEF WriteAdjustment

LEMMA Allocating ==
    ASSUME NEW c, WriteAllocated(c)
    PROVE  /\ At(c, "allocate")
           /\ Continue(c, [stage |-> "alert", on |-> calls[c].on, saw |-> "nothing"])
           /\ approval' = approval /\ alert' = alert /\ decision' = decision /\ applied' = applied
BY Zenon DEF WriteAllocated

LEMMA Transferring ==
    ASSUME NEW c, WriteTransfer(c)
    PROVE  /\ At(c, "move")
           /\ Continue(c, [stage |-> "alert", on |-> Move[calls[c].on].from, saw |-> "nothing"])
           /\ approval' = approval /\ alert' = alert
           /\ decision' = [decision EXCEPT ![calls[c].on] = "COMPLETED"]
           /\ applied' = [applied EXCEPT ![calls[c].on] = @ + 1]
BY Zenon DEF WriteTransfer

-----------------------------------------------------------------------------
(* Where the handlers of each part can be.                                 *)

InventoryStages == {"allocate", "alert", "open_alert", "escalate", "sell", "approve_adjustment",
    "apply", "adjust", "adjusted", "approve_transfer", "recheck", "move", "reject", "rejected"}

ProcurementStages == {"edit_order", "remove_order", "submit_order", "approve_order",
    "order_in_review", "approved_order", "convert", "reject_order", "rejected_order",
    "receive_goods", "write_delivery", "accept_goods", "write_acceptance", "record_payment"}

ShopStages == {"place_order", "update_order", "keep_copy", "drop_copies", "upload_first",
    "create_product", "remove_assets", "remove_rows", "upload_pictures", "create_rows",
    "write_product", "write_product_status", "delete_assets", "delete_product", "write_kind",
    "create_kind"}

PromotionsStages == {"create_code", "update_code", "look_at_campaign", "credit_bonus", "link",
    "reward", "read_settings", "look_again", "credit_reward", "mark_failed", "update_campaign",
    "delete_campaign"}

SalonStages == {"find_client", "create_client", "validate", "write_visit", "verify_found",
    "use_code", "set_visit", "replace_services", "replace_goods", "details", "add_goods",
    "add_service", "recompute", "write_total", "recipes", "complete_visit", "low_stock",
    "raise_alert"}

PlainStages == {"keep_page", "drop_pages", "insert_service", "write_service",
    "write_service_status", "delete_service", "insert_category", "write_category",
    "delete_category", "write_offers", "read_offer", "create_offer", "update_offer",
    "write_location"}

CatalogueStages == PlainStages \cup {"upload_image", "delete_image"}

TakingsStages == {"write_booking_status", "write_used_booking", "read_takings", "write_count",
    "write_deadline"}

LEMMA InventoryStagesAre ==
    "allocate" \in InventoryStages /\ "alert" \in InventoryStages /\
    "open_alert" \in InventoryStages /\ "escalate" \in InventoryStages /\
    "sell" \in InventoryStages /\ "approve_adjustment" \in InventoryStages /\
    "apply" \in InventoryStages /\ "adjust" \in InventoryStages /\
    "adjusted" \in InventoryStages /\ "approve_transfer" \in InventoryStages /\
    "recheck" \in InventoryStages /\ "move" \in InventoryStages /\ "reject" \in InventoryStages /\
    "rejected" \in InventoryStages
BY DEF InventoryStages

LEMMA InventoryActs ==
    ASSUME Shape, NEW c \in Callers, InventoryNext(c)
    PROVE  Acts(c, InventoryStages)
<1>1. CASE Busy(c) /\ InventoryStep(c)
  <2> USE <1>1, Goes, Continues, Returns, InventoryStagesAre
  <2>1. CASE WriteAllocated(c) \/ CheckLowStock(c) \/ OpenAlert(c)
    BY <2>1, Allocating DEF CheckLowStock, OpenAlert, Finish
  <2>2. CASE WriteEscalated(c) \/ WriteSold(c)
    BY <2>2 DEF WriteEscalated, WriteSold
  <2>3. CASE WriteAdjustmentApproval(c) \/ WriteTransferApproval(c) \/ FinishAdjustment(c)
    BY <2>3 DEF WriteAdjustmentApproval, WriteTransferApproval, FinishAdjustment
  <2>4. CASE ApplyAdjustment(c)
    BY <2>4, Applying
  <2>5. CASE WriteAdjustment(c) \/ WriteTransfer(c)
    BY <2>5, Adjusting, Transferring
  <2>6. CASE RecheckTransfer(c) \/ WriteRejection(c) \/ FinishRejection(c)
    BY <2>6 DEF RecheckTransfer, WriteRejection, FinishRejection
  <2> QED BY <2>1, <2>2, <2>3, <2>4, <2>5, <2>6 DEF InventoryStep
<1>2. CASE Ready(c) /\ InventoryRequest(c)
  BY <1>2, Begins, Onces, InventoryStagesAre
     DEF InventoryRequest, SignedRequest, Receive, Sell, ResolveAlert, EscalateAlert, Allocate, RequestAdjustment,
         ApproveAdjustment, RequestTransfer, ApproveTransfer, Reject, Reassign, Finish, Operation
<1> QED BY <1>1, <1>2 DEF InventoryNext

LEMMA ProcurementStagesAre ==
    "edit_order" \in ProcurementStages /\ "remove_order" \in ProcurementStages /\
    "submit_order" \in ProcurementStages /\ "approve_order" \in ProcurementStages /\
    "order_in_review" \in ProcurementStages /\ "approved_order" \in ProcurementStages /\
    "convert" \in ProcurementStages /\ "reject_order" \in ProcurementStages /\
    "rejected_order" \in ProcurementStages /\ "receive_goods" \in ProcurementStages /\
    "write_delivery" \in ProcurementStages /\ "accept_goods" \in ProcurementStages /\
    "write_acceptance" \in ProcurementStages /\ "record_payment" \in ProcurementStages
BY DEF ProcurementStages

LEMMA ProcurementActs ==
    ASSUME Shape, NEW c \in Callers, ProcurementNext(c)
    PROVE  Acts(c, ProcurementStages)
<1>1. CASE Busy(c) /\ ProcurementStep(c)
  <2> USE <1>1, Goes, Continues, Returns, ProcurementStagesAre
  <2>1. CASE WriteEdited(c) \/ WriteRemoved(c) \/ WriteSubmitted(c)
    BY <2>1 DEF WriteEdited, WriteRemoved, WriteSubmitted
  <2>2. CASE WriteOrderApproval(c) \/ WriteUnderReview(c) \/ WriteOrderApproved(c)
    BY <2>2 DEF WriteOrderApproval, WriteUnderReview, WriteOrderApproved
  <2>3. CASE ConvertToPurchase(c) \/ WriteOrderRejection(c) \/ WriteOrderRejected(c)
    BY <2>3 DEF ConvertToPurchase, WriteOrderRejection, WriteOrderRejected
  <2>4. CASE CountDelivered(c) \/ WriteDelivery(c) \/ JudgeReview(c)
    BY <2>4 DEF CountDelivered, WriteDelivery, JudgeReview
  <2>5. CASE WriteAcceptance(c) \/ WritePayment(c)
    BY <2>5 DEF WriteAcceptance, WritePayment
  <2> QED BY <2>1, <2>2, <2>3, <2>4, <2>5 DEF ProcurementStep
<1>2. CASE Ready(c) /\ ProcurementRequest(c)
  BY <1>2, Begins, Onces, ProcurementStagesAre
     DEF ProcurementRequest, GoodsRequest, DraftOrder, EditOrder, RemoveOrder, SubmitOrder, ApproveOrder,
         RejectOrder, ReceiveGoods, AcceptGoods, RecordPayment
<1> QED BY <1>1, <1>2 DEF ProcurementNext

LEMMA ShopStagesAre ==
    "place_order" \in ShopStages /\ "update_order" \in ShopStages /\ "keep_copy" \in ShopStages /\
    "drop_copies" \in ShopStages /\ "upload_first" \in ShopStages /\
    "create_product" \in ShopStages /\ "remove_assets" \in ShopStages /\
    "remove_rows" \in ShopStages /\ "upload_pictures" \in ShopStages /\
    "create_rows" \in ShopStages /\ "write_product" \in ShopStages /\
    "write_product_status" \in ShopStages /\ "delete_assets" \in ShopStages /\
    "delete_product" \in ShopStages /\ "write_kind" \in ShopStages /\ "create_kind" \in ShopStages
BY DEF ShopStages

LEMMA ShopActs ==
    ASSUME Shape, NEW c \in Callers, ShopNext(c)
    PROVE  Acts(c, ShopStages)
<1>1. CASE Busy(c) /\ ShopStep(c)
  <2> USE <1>1, Goes, Continues, Returns, ShopStagesAre
  <2>1. CASE PlaceOrder(c) \/ WriteOrderStatus(c) \/ KeepCopy(c) \/ DropCopies(c) \/ UploadFirst(c)
    BY <2>1 DEF PlaceOrder, WriteOrderStatus, KeepCopy, DropCopies, UploadFirst
  <2>2. CASE CreateProduct(c) \/ RemoveAssets(c) \/ RemoveRows(c)
    BY <2>2 DEF CreateProduct, RemoveAssets, RemoveRows, AddOrWrite
  <2>4. CASE UploadPictures(c) \/ CreateRows(c)
    BY <2>4 DEF UploadPictures, CreateRows
  <2>3. CASE WriteProduct(c) \/ WriteProductStatus(c) \/ DeleteAssets(c) \/ DeleteProduct(c) \/ WriteKind(c)
    BY <2>3 DEF WriteProduct, WriteProductStatus, DeleteAssets, DeleteProduct, WriteKind
  <2> QED BY <2>1, <2>2, <2>3, <2>4 DEF ShopStep, AssortmentStep
<1>2. CASE Ready(c) /\ ShopRequest(c)
  BY <1>2, Begins, Onces, ShopStagesAre
     DEF ShopRequest, OrderRequest, Checkout, UpdateOrderStatus, AssortmentRequest, Look, ProductsRequest,
         AddProduct, EditProduct, SetProductStatus, RemoveProduct, KindsRequest, ChangeKind,
         AddOrWrite
<1> QED BY <1>1, <1>2 DEF ShopNext

LEMMA PromotionsStagesAre ==
    "create_code" \in PromotionsStages /\ "update_code" \in PromotionsStages /\
    "look_at_campaign" \in PromotionsStages /\ "credit_bonus" \in PromotionsStages /\
    "link" \in PromotionsStages /\ "reward" \in PromotionsStages /\
    "read_settings" \in PromotionsStages /\ "look_again" \in PromotionsStages /\
    "credit_reward" \in PromotionsStages /\ "mark_failed" \in PromotionsStages /\
    "update_campaign" \in PromotionsStages /\ "delete_campaign" \in PromotionsStages
BY DEF PromotionsStages

LEMMA PromotionsActs ==
    ASSUME Shape, NEW c \in Callers, PromotionsNext(c)
    PROVE  Acts(c, PromotionsStages)
<1>1. CASE Busy(c) /\ PromotionsStep(c)
  <2> USE <1>1, Goes, Continues, Returns, PromotionsStagesAre
  <2>1. CASE WriteCode(c) \/ WriteCodeUpdate(c) \/ LookAtCampaign(c)
    BY <2>1 DEF WriteCode, WriteCodeUpdate, LookAtCampaign
  <2>2. CASE CreditBonus(c) \/ LinkReferral(c)
    BY <2>2 DEF CreditBonus, LinkReferral
  <2>3. CASE ProcessReward(c) \/ ReadSettings(c) \/ LookAgain(c)
    BY <2>3 DEF ProcessReward, ReadSettings, LookAgain
  <2>4. CASE CreditReward(c) \/ MarkFailed(c)
    BY <2>4 DEF CreditReward, MarkFailed
  <2>5. CASE WriteCampaign(c) \/ WriteCampaignDeletion(c)
    BY <2>5 DEF WriteCampaign, WriteCampaignDeletion
  <2> QED BY <2>1, <2>2, <2>3, <2>4, <2>5 DEF PromotionsStep
<1>2. CASE Ready(c) /\ PromotionsRequest(c)
  BY <1>2, Begins, Onces, PromotionsStagesAre
     DEF PromotionsRequest, InfluencerCodeRequest, PromotionRequest, CampaignRequest, DiscountRequest, CreateCode, RemoveCode, UpdateCode, InfluencerRequest,
         PromoteUser, DemoteUser, UpdateInfluencer, ReferralRequest, UpsertSettings,
         CreateCampaign, DeleteCampaign, UpdateCampaign, ApplySignupCode, DepositOf
<1> QED BY <1>1, <1>2 DEF PromotionsNext

LEMMA SalonStagesAre ==
    "find_client" \in SalonStages /\ "create_client" \in SalonStages /\
    "validate" \in SalonStages /\ "write_visit" \in SalonStages /\
    "verify_found" \in SalonStages /\ "use_code" \in SalonStages /\ "set_visit" \in SalonStages /\
    "replace_services" \in SalonStages /\ "replace_goods" \in SalonStages /\
    "details" \in SalonStages /\ "add_goods" \in SalonStages /\ "add_service" \in SalonStages /\
    "recompute" \in SalonStages /\ "write_total" \in SalonStages /\ "recipes" \in SalonStages /\
    "complete_visit" \in SalonStages /\ "low_stock" \in SalonStages /\ "raise_alert" \in SalonStages
BY DEF SalonStages

LEMMA SalonActs ==
    ASSUME Shape, NEW c \in Callers, SalonNext(c)
    PROVE  Acts(c, SalonStages)
<1>1. CASE Busy(c) /\ SalonStep(c)
  <2> USE <1>1, Goes, Continues, Returns, SalonStagesAre
  <2>1. CASE FindOrCreateCustomer(c) \/ CreateCustomer(c) \/ ValidateDiscount(c) \/ WriteBooking(c) \/ VerifyFound(c)
    BY <2>1 DEF FindOrCreateCustomer, CreateCustomer, ValidateDiscount, WriteBooking, VerifyFound
  <2>2. CASE WriteReservationUsed(c) \/ WriteVisitStatus(c) \/ ReplaceServices(c) \/ ReplaceGoods(c) \/ WriteDetails(c)
    BY <2>2 DEF WriteReservationUsed, WriteVisitStatus, ReplaceServices, ReplaceGoods, WriteDetails
  <2>3. CASE WriteGoods(c) \/ WriteService(c) \/ Recompute(c) \/ WriteTotal(c) \/ CheckRecipes(c)
    BY <2>3 DEF WriteGoods, WriteService, Recompute, WriteTotal, CheckRecipes
  <2>4. CASE WriteCompletion(c) \/ LookAtLines(c) \/ RaiseAlert(c)
    BY <2>4 DEF WriteCompletion, LookAtLines, RaiseAlert
  <2> QED BY <2>1, <2>2, <2>3, <2>4 DEF SalonStep
<1>2. CASE Ready(c) /\ SalonRequest(c)
  BY <1>2, Begins, Onces, SalonStagesAre
     DEF SalonRequest, DeskRequest, ServingRequest, Create, Reserve, DeleteBooking, Complete, VerifyReservation,
         VerifyReservationAnywhere, SetVisit, EditBooking, AddInventoryItem,
         AddServiceToCompletedBooking
<1> QED BY <1>1, <1>2 DEF SalonNext

LEMMA PlainStagesAre ==
    "keep_page" \in PlainStages /\ "drop_pages" \in PlainStages /\
    "insert_service" \in PlainStages /\ "write_service" \in PlainStages /\
    "write_service_status" \in PlainStages /\ "delete_service" \in PlainStages /\
    "insert_category" \in PlainStages /\ "write_category" \in PlainStages /\
    "delete_category" \in PlainStages /\ "write_offers" \in PlainStages /\
    "read_offer" \in PlainStages /\ "create_offer" \in PlainStages /\
    "update_offer" \in PlainStages /\ "write_location" \in PlainStages
BY DEF PlainStages

\* A handler that moves images knows where it goes on.
RoutedCall(call) ==
    LET saw == call.saw IN
    /\ call.stage = "upload_image" => saw = Plan(saw.form, saw.image, saw.old, saw.next) /\ saw.next \in PlainStages
    /\ call.stage = "delete_image" => saw.next \in PlainStages

Routed == \A c \in Callers : RoutedCall(calls[c])

\* It does as long as those that begin with images do.
LEMMA ImagesStay ==
    ASSUME Routed, NEW c \in Callers, \A d \in Callers \ {c} : calls'[d] = calls[d], RoutedCall(calls'[c])
    PROVE  Routed'
BY DEF Routed

LEMMA PlainRoutes ==
    ASSUME Shape, Routed, NEW c \in Callers, Acts(c, PlainStages)
    PROVE  Acts(c, CatalogueStages) /\ Routed'
<1>1. Acts(c, CatalogueStages)
  BY DEF Acts, CatalogueStages
<1>2. \A d \in Callers \ {c} : calls'[d] = calls[d]
  BY DEF Acts
<1>3. calls'[c] = calls[c] \/ (calls'[c].stage # "upload_image" /\ calls'[c].stage # "delete_image")
  BY DEF Acts, PlainStages
<1>4. RoutedCall(calls'[c])
  BY <1>3 DEF Routed, RoutedCall
<1> QED BY <1>1, <1>2, <1>4, ImagesStay

\* One that starts with images.
LEMMA PlansRoute ==
    ASSUME Shape, Routed, NEW c \in Callers, NEW op, NEW stage, NEW on, NEW form, NEW image, NEW old, NEW next,
           Begin(c, op, stage, on, Plan(form, image, old, next)),
           stage = "upload_image" \/ stage \in PlainStages, next \in PlainStages
    PROVE  Acts(c, CatalogueStages) /\ Routed'
<1>1. Acts(c, CatalogueStages)
  BY Begins DEF CatalogueStages
<1>3. ASSUME NEW plan, plan = Plan(form, image, old, next)
      PROVE  plan.next \in PlainStages /\ plan = Plan(plan.form, plan.image, plan.old, plan.next)
  BY <1>3 DEF Plan
<1>4. \A d \in Callers \ {c} : calls'[d] = calls[d]
  BY <1>1 DEF Acts
<1>5. stage # "delete_image"
  BY DEF PlainStages
<1>6. calls'[c].stage = stage /\ calls'[c].saw = Plan(form, image, old, next)
  BY Begun
<1>7. RoutedCall(calls'[c])
  BY <1>3, <1>5, <1>6 DEF RoutedCall
<1> QED BY <1>1, <1>4, <1>7, ImagesStay

\* One that goes on to delete an image.
LEMMA DeletesRoute ==
    ASSUME Shape, Routed, NEW c \in Callers, Busy(c), NEW saw, Goto(c, "delete_image", saw), saw.next \in PlainStages
    PROVE  Acts(c, CatalogueStages) /\ Routed'
<1>1. Acts(c, CatalogueStages)
  BY Goes DEF CatalogueStages
<1>3. \A d \in Callers \ {c} : calls'[d] = calls[d]
  BY <1>1 DEF Acts
<1>4. calls'[c].stage = "delete_image" /\ calls'[c].saw = saw
  BY Gone
<1>5. RoutedCall(calls'[c])
  BY <1>4 DEF RoutedCall
<1> QED BY <1>1, <1>3, <1>5, ImagesStay

\* The image of a plan is filled in.
LEMMA FilledPlan ==
    ASSUME NEW r, r = Plan(r.form, r.image, r.old, r.next), NEW image, NEW q, q = [r EXCEPT !.image = image]
    PROVE  q.next = r.next
BY DEF Plan

LEMMA CatalogueActs ==
    ASSUME Shape, Routed, NEW c \in Callers, CatalogueNext(c)
    PROVE  Acts(c, CatalogueStages) /\ Routed'
<1>1. CASE Busy(c) /\ CatalogueStep(c)
  <2> USE <1>1, PlainStagesAre
  <2>1. CASE UploadImage(c)
    <3> DEFINE saw == calls[c].saw
    <3>1. saw.next \in PlainStages /\ saw = Plan(saw.form, saw.image, saw.old, saw.next)
      BY <2>1 DEF UploadImage, Routed, RoutedCall, At
    <3>2. PICK q : /\ q = [saw EXCEPT !.image = {uploads + 1}]
                   /\ Goto(c, IF saw.old = {} THEN saw.next ELSE "delete_image", q)
      BY <2>1 DEF UploadImage
    <3>3. q.next \in PlainStages
      BY <3>1, <3>2, FilledPlan
    <3>4. CASE saw.old = {}
      BY <3>1, <3>2, <3>4, Goes, PlainRoutes
    <3>5. CASE saw.old # {}
      BY <3>2, <3>3, <3>5, DeletesRoute
    <3> QED BY <3>4, <3>5
  <2>2. CASE DeleteImage(c)
    <3>1. calls[c].saw.next \in PlainStages
      BY <2>2 DEF DeleteImage, Routed, RoutedCall, At
    <3>2. \E w : Goto(c, calls[c].saw.next, w)
      BY <2>2 DEF DeleteImage
    <3> QED BY <3>1, <3>2, Goes, PlainRoutes
  <2>3. CASE DeleteService(c)
    <3>1. \/ Return(c)
          \/ \E w : w.next = "drop_pages" /\ Goto(c, "delete_image", w)
      BY <2>3 DEF DeleteService
    <3> QED BY <3>1, Returns, PlainRoutes, DeletesRoute
  <2>4. CASE DeleteCategory(c)
    <3>1. \/ Return(c)
          \/ \E w : w.next = "drop_pages" /\ Goto(c, "delete_image", w)
      BY <2>4 DEF DeleteCategory
    <3> QED BY <3>1, Returns, PlainRoutes, DeletesRoute
  <2>5. CASE KeepPage(c) \/ DropPages(c)
    BY <2>5, Goes, Returns, PlainRoutes DEF KeepPage, DropPages
  <2>8. CASE InsertService(c) \/ WriteServiceRow(c) \/ WriteServiceStatus(c)
    BY <2>8, Goes, Returns, PlainRoutes DEF InsertService, WriteServiceRow, WriteServiceStatus
  <2>6. CASE InsertCategory(c) \/ WriteCategory(c)
    <3>1. Return(c) \/ \E saw : Goto(c, "drop_pages", saw)
      BY <2>6, Zenon DEF InsertCategory, WriteCategory
    <3> QED BY <3>1, Goes, Returns, PlainRoutes
  <2>9. CASE WriteOffers(c) \/ ReadOffer(c)
    <3>1. Return(c) \/ \E saw : \E stage \in {"drop_pages", "update_offer", "create_offer"} : Goto(c, stage, saw)
      BY <2>9, Zenon DEF WriteOffers, ReadOffer, Tear
    <3> QED BY <3>1, Goes, Returns, PlainRoutes
  <2>7. CASE WriteOffer(c) \/ WriteLocation(c)
    <3>1. Return(c) \/ \E saw : Goto(c, "drop_pages", saw) \/ Goto(c, "read_offer", saw)
      BY <2>7, Zenon DEF WriteOffer, WriteLocation, Tear, NextOffer
    <3> QED BY <3>1, Goes, Returns, PlainRoutes
  <2> QED BY <2>1, <2>2, <2>3, <2>4, <2>5, <2>6, <2>7, <2>8, <2>9 DEF CatalogueStep
<1>2. CASE Ready(c) /\ CatalogueRequest(c)
  <2> USE <1>2, PlainStagesAre
  <2>1. ASSUME NEW s, NEW form,
               \/ \E k \in Categories : CreateService(c, s, k, form)
               \/ UpdateService(c, s, form) \/ CreateCategory(c, s, form)
        PROVE  Acts(c, CatalogueStages) /\ Routed'
    BY <2>1, PlansRoute DEF CreateService, UpdateService, CreateCategory
  <2>2. ASSUME NEW k \in Categories, NEW name, NEW image, UpdateCategory(c, k, name, image)
        PROVE  Acts(c, CatalogueStages) /\ Routed'
    BY <2>2, PlansRoute DEF UpdateCategory
  <2>3. ASSUME NEW k, ReadPage(c, k) \/ RemoveService(c, k) \/ RemoveCategory(c, k)
                      \/ \E x : \/ SetServiceStatus(c, k, x) \/ SetAvailableServices(c, k, x)
                                \/ PatchServices(c, k, x) \/ ChangeBranch(c, k, x)
        PROVE  Acts(c, CatalogueStages) /\ Routed'
    BY <2>3, Begins, PlainRoutes
       DEF ReadPage, RemoveService, RemoveCategory, SetServiceStatus, SetAvailableServices, PatchServices,
           ChangeBranch
  <2> QED BY <2>1, <2>2, <2>3
          DEF CatalogueRequest, CreationRequest, ServicesRequest, CategoriesRequest, OffersRequest
<1> QED BY <1>1, <1>2 DEF CatalogueNext

LEMMA TakingsStagesAre ==
    "write_booking_status" \in TakingsStages /\ "write_used_booking" \in TakingsStages /\
    "read_takings" \in TakingsStages /\ "write_count" \in TakingsStages /\
    "write_deadline" \in TakingsStages
BY DEF TakingsStages

LEMMA TakingsActs ==
    ASSUME Shape, NEW c \in Callers, TakingsNext(c)
    PROVE  Acts(c, TakingsStages)
<1>1. CASE Busy(c) /\ TakingsStep(c)
  <2> USE <1>1, Goes, Continues, Returns, TakingsStagesAre
  <2>1. CASE WriteBookingStatus(c) \/ WriteUsedBooking(c) \/ ReadTakings(c) \/ WriteCount(c) \/ WriteDeadline(c)
    BY <2>1 DEF WriteBookingStatus, WriteUsedBooking, ReadTakings, WriteCount, WriteDeadline
  <2> QED BY <2>1 DEF TakingsStep
<1>2. CASE Ready(c) /\ TakingsRequest(c)
  BY <1>2, Begins, Onces, TakingsStagesAre
     DEF TakingsRequest, BookingStatusRequest, ReservationRequest, Earn, DeleteVisit, ShowReservation, AddToVisit, SetBookingStatus, SubmitCount,
         SetFinanceBranches, SetDeadline
<1> QED BY <1>1, <1>2 DEF TakingsNext

-----------------------------------------------------------------------------
(* Steps of other parts.                                                   *)

\* A handler that is at one of these stages after others' steps was there before.
LEMMA Elsewhere ==
    ASSUME NEW c \in Callers, NEW S, Acts(c, S), NEW T, "idle" \notin T, \A s \in T : s \notin S
    PROVE  \A d \in Callers : calls'[d].stage \in T => calls'[d] = calls[d]
BY DEF Acts

DecidingStages == InventoryStages \cup ProcurementStages

LEMMA DecidingApart ==
    \A s \in DecidingStages : /\ s # "idle" /\ s \notin ShopStages /\ s \notin PromotionsStages
                              /\ s \notin SalonStages /\ s \notin CatalogueStages /\ s \notin TakingsStages
<1>1. "idle" \notin InventoryStages /\ "idle" \notin ProcurementStages
  BY DEF InventoryStages, ProcurementStages
<1>2. \A s \in ShopStages : s \notin InventoryStages
  BY DEF InventoryStages, ShopStages
<1>3. \A s \in ShopStages : s \notin ProcurementStages
  BY DEF ProcurementStages, ShopStages
<1>4. \A s \in PromotionsStages : s \notin InventoryStages
  BY DEF InventoryStages, PromotionsStages
<1>5. \A s \in PromotionsStages : s \notin ProcurementStages
  BY DEF ProcurementStages, PromotionsStages
<1>6. \A s \in SalonStages : s \notin InventoryStages
  BY DEF InventoryStages, SalonStages
<1>7. \A s \in SalonStages : s \notin ProcurementStages
  BY DEF ProcurementStages, SalonStages
<1>8. \A s \in CatalogueStages : s \notin InventoryStages
  BY DEF InventoryStages, CatalogueStages, PlainStages
<1>9. \A s \in CatalogueStages : s \notin ProcurementStages
  BY DEF ProcurementStages, CatalogueStages, PlainStages
<1>10. \A s \in TakingsStages : s \notin InventoryStages
  BY DEF InventoryStages, TakingsStages
<1>11. \A s \in TakingsStages : s \notin ProcurementStages
  BY DEF ProcurementStages, TakingsStages
<1> QED BY <1>1, <1>2, <1>3, <1>4, <1>5, <1>6, <1>7, <1>8, <1>9, <1>10, <1>11 DEF DecidingStages

LEMMA InventoryApart == \A s \in InventoryStages : s # "idle" /\ s \notin ProcurementStages
BY DEF InventoryStages, ProcurementStages

LEMMA SalonDecidesNothing ==
    ASSUME NEW c \in Callers, SalonNext(c)
    PROVE  approval' = approval /\ decision' = decision /\ applied' = applied
<1>1. CASE SalonStep(c)
  <2>1. CASE FindOrCreateCustomer(c) \/ CreateCustomer(c) \/ ValidateDiscount(c) \/ WriteBooking(c) \/ VerifyFound(c)
    BY <2>1 DEF FindOrCreateCustomer, CreateCustomer, ValidateDiscount, WriteBooking, VerifyFound, inventory
  <2>2. CASE WriteReservationUsed(c) \/ WriteVisitStatus(c) \/ ReplaceServices(c) \/ ReplaceGoods(c) \/ WriteDetails(c)
    BY <2>2 DEF WriteReservationUsed, WriteVisitStatus, ReplaceServices, ReplaceGoods, WriteDetails, inventory
  <2>3. CASE WriteGoods(c) \/ WriteService(c) \/ Recompute(c) \/ WriteTotal(c) \/ CheckRecipes(c)
    BY <2>3 DEF WriteGoods, WriteService, Recompute, WriteTotal, CheckRecipes, inventory
  <2>4. CASE WriteCompletion(c) \/ LookAtLines(c) \/ RaiseAlert(c)
    BY <2>4 DEF WriteCompletion, LookAtLines, RaiseAlert, inventory
  <2> QED BY <1>1, <2>1, <2>2, <2>3, <2>4 DEF SalonStep
<1>2. CASE SalonRequest(c)
  BY <1>2 DEF SalonRequest, DeskRequest, ServingRequest, Create, Reserve, DeleteBooking, Complete, VerifyReservation, VerifyReservationAnywhere,
              SetVisit, EditBooking, AddInventoryItem, AddServiceToCompletedBooking, inventory
<1> QED BY <1>1, <1>2 DEF SalonNext

LEMMA DiesActs ==
    ASSUME Shape, NEW c \in Callers, Dies(c)
    PROVE  Acts(c, {})
<1>1. /\ calls' = [calls EXCEPT ![c] = Idle] /\ overlapped' = overlapped /\ Busy(c)
      /\ scenario' = scenario /\ crashes' = crashes + 1
  BY DEF Dies, Crash
<1> QED BY <1>1 DEF Shape, Acts, Idle

\* What is of no concern to approvals and purchases.
LEMMA OtherSteps ==
    ASSUME Shape, Routed, [Next]_vars,
           ~ \E c \in Callers : InventoryNext(c) \/ ProcurementNext(c)
    PROVE  /\ approval' = approval /\ decision' = decision /\ applied' = applied
           /\ UNCHANGED procurement
           /\ \A d \in Callers : calls'[d].stage \in DecidingStages => calls'[d] = calls[d]
<1>1. ASSUME NEW c \in Callers, ShopNext(c) \/ PromotionsNext(c) \/ SalonNext(c) \/ CatalogueNext(c) \/ TakingsNext(c) \/ Dies(c)
      PROVE  \A d \in Callers : calls'[d].stage \in DecidingStages => calls'[d] = calls[d]
  BY <1>1, ShopActs, PromotionsActs, SalonActs, CatalogueActs, TakingsActs, DiesActs, Elsewhere, DecidingApart
<1>2. ASSUME NEW c \in Callers, ShopNext(c) \/ PromotionsNext(c) \/ SalonNext(c) \/ CatalogueNext(c) \/ TakingsNext(c) \/ Dies(c)
      PROVE  approval' = approval /\ decision' = decision /\ applied' = applied /\ UNCHANGED procurement
  BY <1>2, SalonDecidesNothing DEF ShopNext, PromotionsNext, SalonNext, CatalogueNext, TakingsNext, Dies, inventory
<1>3. CASE UNCHANGED vars
  BY <1>3 DEF vars, handlers, inventory
<1>4. CASE SettingsExpire /\ UNCHANGED <<approval, inventory, procurement, shop, salon, catalogue, takings>>
  BY <1>4 DEF SettingsExpire, handlers, inventory
<1>5. CASE PageExpires /\ UNCHANGED <<approval, inventory, procurement, shop, promotions, salon, takings>>
  BY <1>5 DEF PageExpires, handlers, inventory
<1>6. CASE TimePasses /\ UNCHANGED <<approval, inventory, procurement, shop, promotions, salon, catalogue>>
  BY <1>6 DEF TimePasses, handlers, inventory
<1>7. CASE CopyExpires /\ UNCHANGED <<approval, inventory, procurement, purse, entries, bought, promotions, salon, catalogue, takings>>
  BY <1>7 DEF CopyExpires, handlers, inventory
<1> QED BY <1>1, <1>2, <1>3, <1>4, <1>5, <1>6, <1>7 DEF Next

-----------------------------------------------------------------------------
(* Types of approvals and purchases, and of what their handlers know.      *)

Signatures == [stage : 0..2, actor : Actors]

InventoryCall(call) ==
    /\ call.stage \in {"approve_adjustment", "apply", "adjust", "adjusted"} => call.on \in Adjustments
    /\ call.stage \in {"approve_transfer", "recheck", "move"} => call.on \in StockTransfers
    /\ call.stage \in {"reject", "rejected"} => call.on \in Adjustments \cup StockTransfers
    /\ call.stage \in {"alert", "open_alert"} => call.saw \in Adjustments \cup {"nothing"}
    /\ call.stage \in {"approve_adjustment", "approve_transfer"} => call.saw \in Signatures

\* What deliveries and reviews remember.
Delivery == [entries : Seq([qty : Nat, damaged : Nat]), acceptance : {"PENDING", "RECEIVED", "FULLY_ACCEPTED"},
             status : {"PENDING", "PARTIALLY_RECEIVED", "FULLY_RECEIVED"}]
Review == [entries : Seq([line : Nat, qty : Nat]), all : BOOLEAN]

\* Calls have one entry or two.
LEMMA EntriesAre ==
    ASSUME NEW S, NEW E \in SUBSET S, NEW D \in SUBSET S, NEW lot \in OneOrTwo(E, D)
    PROVE  lot \in Seq(S)
<1>1. PICK d \in S, e \in S : lot = <<e>> \/ lot = <<d, e>>
  BY DEF OneOrTwo
<1>2. <<e>> \in Seq(S) /\ <<d, e>> \in Seq(S)
  OBVIOUS
<1> QED BY <1>1, <1>2

LEMMA BasketsAre == Baskets \subseteq Seq(Nat)
BY DEF Baskets

Sells(c, i) == \E lines \in Baskets : Sell(c, i, lines)

Deliverable(p) == OneOrTwo([qty : 1..Ordered[p], damaged : 0..1], [qty : 1..Ordered[p], damaged : {0}])
Reviewable(p)  == OneOrTwo([line : 1..MaxReceipts, qty : 0..Ordered[p]], [line : 1..MaxReceipts, qty : {1}])

ReceivesSome(c, p) == \E lot \in Deliverable(p) : ReceiveGoods(c, p, lot)
AcceptsSome(c, p)  == \E lot \in Reviewable(p) : AcceptGoods(c, p, lot)

LEMMA GoodsRequests ==
    ASSUME NEW c, NEW p, GoodsRequest(c, p)
    PROVE  ReceivesSome(c, p) \/ AcceptsSome(c, p) \/ RecordPayment(c, p, 1)
BY DEF GoodsRequest, ReceivesSome, AcceptsSome, Deliverable, Reviewable

LEMMA Deliverables ==
    ASSUME NEW p \in PurchaseRequests
    PROVE  \A lot \in Deliverable(p) : lot \in Seq([qty : Nat, damaged : Nat])
<1>1. Ordered[p] \in Nat
  BY ProcurementAssumption
<1>2. /\ [qty : 1..Ordered[p], damaged : 0..1] \in SUBSET [qty : Nat, damaged : Nat]
      /\ [qty : 1..Ordered[p], damaged : {0}] \in SUBSET [qty : Nat, damaged : Nat]
  BY <1>1
<1> QED BY <1>2, EntriesAre DEF Deliverable

LEMMA Reviewables ==
    ASSUME NEW p \in PurchaseRequests
    PROVE  \A lot \in Reviewable(p) : lot \in Seq([line : Nat, qty : Nat])
<1>1. Ordered[p] \in Nat
  BY ProcurementAssumption
<1>2. /\ [line : 1..MaxReceipts, qty : 0..Ordered[p]] \in SUBSET [line : Nat, qty : Nat]
      /\ [line : 1..MaxReceipts, qty : {1}] \in SUBSET [line : Nat, qty : Nat]
  BY <1>1
<1> QED BY <1>2, EntriesAre DEF Reviewable

ProcurementCall(call) ==
    /\ call.stage \in ProcurementStages => call.on \in PurchaseRequests
    /\ call.stage = "edit_order" => call.saw \in Totals
    /\ call.stage = "approve_order" => call.saw \in Signatures
    /\ call.stage \in {"receive_goods", "write_delivery"} => call.saw \in Delivery
    /\ call.stage \in {"accept_goods", "write_acceptance"} => call.saw \in Review
    /\ call.stage = "record_payment" => call.saw \in [amount : Nat, paid : Nat]

Decisions == {"none", "PENDING", "APPROVED", "COMPLETED", "REJECTED"}

RequestRows ==
    /\ approval \in [Requests -> ApprovalRows]
    /\ decision \in [Adjustments \cup StockTransfers -> Decisions]

PurchaseTables ==
    /\ order \in [PurchaseRequests -> OrderRows]
    /\ purchase \in [PurchaseRequests -> PurchaseRows]

CallsTyped == \A c \in Callers : InventoryCall(calls[c]) /\ ProcurementCall(calls[c])

LEMMA Returned ==
    ASSUME Shape, NEW c \in Callers, Return(c)
    PROVE  calls'[c].stage = "idle"
BY DEF Return, Continue, Shape, Idle

LEMMA IdleTyped ==
    ASSUME NEW call, call.stage = "idle" \/ call.stage \notin DecidingStages
    PROVE  InventoryCall(call) /\ ProcurementCall(call)
BY DEF InventoryCall, ProcurementCall, DecidingStages, InventoryStages, ProcurementStages

-----------------------------------------------------------------------------
(* What is signed.                                                         *)

\* The first n stages of a request's chain are signed by those who may sign them.
SignedUpTo(row, n) == \A k \in 1..n : \E a \in {Elevated, Assignee, k} : <<k, a>> \in row.signed

\* n is a stage that r can be waiting at.
StageOf(r, n) == IF Chain[r] = 0 THEN n = 0 ELSE n \in 1..Chain[r]

\* A request that waits has the signatures of the stages before, an approved one all.
RowSigned(r, row) ==
    /\ row.status = "PENDING" => StageOf(r, row.stage) /\ SignedUpTo(row, row.stage - 1)
    /\ row.status = "APPROVED" => SignedUpTo(row, Chain[r])

RequestsSigned == \A r \in Requests : RowSigned(r, approval[r])

Signing == {"approve_adjustment", "approve_transfer", "approve_order"}
Buying  == {"approved_order", "convert"}
Judging == {"order_in_review", "reject_order", "rejected_order", "reject"}

LEMMA JudgingStagesAre ==
    "approve_adjustment" \in Signing /\ "approve_transfer" \in Signing /\ "approve_order" \in Signing /\
    "approved_order" \in Buying /\ "convert" \in Buying /\
    "order_in_review" \in Judging /\ "reject_order" \in Judging /\ "rejected_order" \in Judging /\ "reject" \in Judging
BY DEF Signing, Buying, Judging

LEMMA SigningApart == \A s \in Signing : s \notin Buying /\ s \notin Judging
BY DEF Signing, Buying, Judging

LEMMA BuyingApart == \A s \in Buying : s \notin Signing /\ s \notin Judging
BY DEF Signing, Buying, Judging

\* What a handler that decides a request found when it read its row, and what stays so.
Vouched(call, row) ==
    /\ call.stage \in Signing =>
          /\ row.status # "none"
          /\ StageOf(call.on, call.saw.stage) /\ SignedUpTo(row, call.saw.stage - 1)
          /\ call.saw.actor \in {Elevated, Assignee, call.saw.stage}
    /\ call.stage \in Buying => row.status # "none" /\ SignedUpTo(row, Chain[call.on])
    /\ call.stage \in Judging => row.status # "none"

CallsVouched == \A c \in Callers : Vouched(calls[c], approval[calls[c].on])

\* Nothing is submitted twice, and what was not submitted has no request.
Undecided == \A r \in Adjustments \cup StockTransfers : decision[r] = "none" => approval[r].status = "none"
Drafts == \A p \in PurchaseRequests : order[p].status \in {"none", "DRAFT"} => approval[p].status = "none"
Submitting == \A c \in Callers : At(c, "submit_order") =>
    /\ order[calls[c].on].status \in {"DRAFT", "deleted"}
    /\ \A d \in Callers : At(d, "submit_order") /\ calls[d].on = calls[c].on => d = c

BoughtSigned == \A p \in PurchaseRequests : purchase[p].made =>
    approval[p].status # "none" /\ SignedUpTo(approval[p], Chain[p])

\* What no step undoes: a row, once there, stays, with its signatures.
Later(row, new) == row.status # "none" => new.status # "none" /\ row.signed \subseteq new.signed

LEMMA SignedLater ==
    ASSUME NEW row, NEW new, Later(row, new), row.status # "none", NEW n, SignedUpTo(row, n)
    PROVE  SignedUpTo(new, n)
BY DEF Later, SignedUpTo

LEMMA VouchedLater ==
    ASSUME NEW row, NEW new, Later(row, new), NEW call, Vouched(call, row)
    PROVE  Vouched(call, new)
<1>1. row.status # "none" => new.status # "none"
  BY DEF Later
<1>2. \A n : row.status # "none" /\ SignedUpTo(row, n) => SignedUpTo(new, n)
  BY SignedLater
<1> QED BY <1>1, <1>2 DEF Vouched

LEMMA SubmittedRow ==
    ASSUME NEW r \in Requests, NEW row \in ApprovalRows, row.status = "none", RowSigned(r, row),
           approval \in [Requests -> ApprovalRows], approval[r] = row, Submit(r)
    PROVE  /\ approval' \in [Requests -> ApprovalRows]
           /\ \A x \in Requests \ {r} : approval'[x] = approval[x]
           /\ approval'[r].status # "none" /\ RowSigned(r, approval'[r])
<1>1. approval'[r] = [status |-> "PENDING", stage |-> IF Chain[r] > 0 THEN 1 ELSE 0,
                      assigned |-> Chain[r] = 0, signed |-> {}]
  BY DEF Submit
<1>2. approval'[r] \in ApprovalRows
  BY <1>1 DEF ApprovalRows
<1>3. Chain[r] \in 0..2
  BY ChainAssumption
<1> QED BY <1>1, <1>2, <1>3 DEF Submit, RowSigned, StageOf, SignedUpTo

LEMMA ApprovedRow ==
    ASSUME NEW r \in Requests, approval \in [Requests -> ApprovalRows], RowSigned(r, approval[r]),
           NEW n \in 0..2, NEW a \in {Elevated, Assignee, n}, a \in Actors, StageOf(r, n),
           SignedUpTo(approval[r], n - 1), approval[r].status # "none", WriteApproved(r, n, a)
    PROVE  /\ approval' \in [Requests -> ApprovalRows]
           /\ \A x \in Requests \ {r} : approval'[x] = approval[x]
           /\ Later(approval[r], approval'[r]) /\ RowSigned(r, approval'[r])
<1> DEFINE row == approval[r]
           new == approval'[r]
           next == NextStage(r, n)
<1>0. row \in ApprovalRows /\ Chain[r] \in 0..2
  BY ChainAssumption
<1>1. next \in 0..2 /\ (next = 0 => n = Chain[r]) /\ (next # 0 => next = n + 1 /\ next <= Chain[r])
  BY <1>0 DEF NextStage, StageOf
<1> DEFINE res == [status |-> IF n > 0 /\ next > 0 THEN row.status ELSE "APPROVED",
                   stage |-> IF n > 0 THEN next ELSE row.stage,
                   assigned |-> IF n > 0 /\ next = 0 THEN FALSE ELSE row.assigned,
                   signed |-> row.signed \cup {<<n, a>>}]
<1>a. approval' = [approval EXCEPT ![r] = res]
  BY DEF WriteApproved
<1>b. res \in ApprovalRows
  <2>1. /\ row.status \in {"none", "PENDING", "APPROVED", "REJECTED"} /\ row.stage \in 0..2
        /\ row.assigned \in BOOLEAN /\ row.signed \subseteq ((0..2) \X Actors)
    BY <1>0 DEF ApprovalRows
  <2>2. row.signed \cup {<<n, a>>} \subseteq ((0..2) \X Actors)
    BY <2>1
  <2> QED BY <2>1, <2>2, <1>1 DEF ApprovalRows
<1>c. /\ res.status = IF n > 0 /\ next > 0 THEN row.status ELSE "APPROVED"
      /\ res.stage = IF n > 0 THEN next ELSE row.stage
      /\ res.signed = row.signed \cup {<<n, a>>}
  OBVIOUS
<1> HIDE DEF res
<1>3. new = res /\ (\A x \in Requests \ {r} : approval'[x] = approval[x]) /\ approval' \in [Requests -> ApprovalRows]
  BY <1>a, <1>b
<1>2. /\ new.status = (IF n > 0 /\ next > 0 THEN row.status ELSE "APPROVED")
      /\ new.stage = (IF n > 0 THEN next ELSE row.stage)
      /\ new.signed = row.signed \cup {<<n, a>>}
  BY <1>3, <1>c
<1>d. row.status # "none"
  OBVIOUS
<1> HIDE DEF row, new, next
<1>4. Later(row, new)
  BY <1>2, <1>d DEF Later
<1>5. SignedUpTo(new, n)
  <2>1. SignedUpTo(row, n - 1)
    BY DEF row
  <2>2. \A k \in 1..n : k = n \/ k \in 1..(n - 1)
    OBVIOUS
  <2>3. a \in {Elevated, Assignee, n} /\ <<n, a>> \in new.signed
    BY <1>2
  <2> QED BY <1>2, <2>1, <2>2, <2>3 DEF SignedUpTo
<1>6. RowSigned(r, new)
  <2>1. CASE n > 0 /\ next > 0
    <3>1. new.status = row.status /\ new.stage = next /\ next = n + 1 /\ next <= Chain[r]
      BY <2>1, <1>1, <1>2
    <3>2. row.status = "APPROVED" => SignedUpTo(new, Chain[r])
      BY <1>4, <1>d, SignedLater DEF RowSigned, row
    <3>3. StageOf(r, next)
      BY <3>1, <2>1, <1>0, <1>1 DEF StageOf
    <3>4. SignedUpTo(new, next - 1)
      BY <3>1, <1>5
    <3> QED BY <3>1, <3>2, <3>3, <3>4 DEF RowSigned
  <2>2. CASE n = 0 \/ next = 0
    <3>1. new.status = "APPROVED" /\ n = Chain[r]
      BY <2>2, <1>0, <1>1, <1>2 DEF StageOf
    <3> QED BY <3>1, <1>5 DEF RowSigned
  <2> QED BY <2>1, <2>2, <1>1
<1> QED BY <1>3, <1>4, <1>6 DEF row, new

LEMMA RejectedRow ==
    ASSUME NEW r \in Requests, approval \in [Requests -> ApprovalRows], RowSigned(r, approval[r]), WriteRejected(r)
    PROVE  /\ approval' \in [Requests -> ApprovalRows]
           /\ \A x \in Requests \ {r} : approval'[x] = approval[x]
           /\ approval'[r].status # "none"
           /\ Later(approval[r], approval'[r]) /\ RowSigned(r, approval'[r])
<1>1. approval[r] \in ApprovalRows
  OBVIOUS
<1>2. /\ approval'[r] = [approval[r] EXCEPT !.status = "REJECTED"]
      /\ \A x \in Requests \ {r} : approval'[x] = approval[x]
      /\ approval' = [x \in Requests |-> approval'[x]]
  BY DEF WriteRejected
<1>3. approval'[r] \in ApprovalRows /\ approval'[r].status = "REJECTED" /\ approval'[r].signed = approval[r].signed
  BY <1>1, <1>2 DEF ApprovalRows
<1> QED BY <1>1, <1>2, <1>3 DEF Later, RowSigned

LEMMA ReassignedRow ==
    ASSUME NEW r \in Requests, approval \in [Requests -> ApprovalRows], RowSigned(r, approval[r]), WriteReassigned(r)
    PROVE  /\ approval' \in [Requests -> ApprovalRows]
           /\ \A x \in Requests \ {r} : approval'[x] = approval[x]
           /\ approval'[r].status = approval[r].status
           /\ Later(approval[r], approval'[r]) /\ RowSigned(r, approval'[r])
<1>1. approval[r] \in ApprovalRows
  OBVIOUS
<1>2. /\ approval'[r] = [approval[r] EXCEPT !.assigned = TRUE]
      /\ \A x \in Requests \ {r} : approval'[x] = approval[x]
      /\ approval' = [x \in Requests |-> approval'[x]]
  BY DEF WriteReassigned
<1>3. /\ approval'[r] \in ApprovalRows /\ approval'[r].status = approval[r].status
      /\ approval'[r].signed = approval[r].signed /\ approval'[r].stage = approval[r].stage
  BY <1>1, <1>2 DEF ApprovalRows
<1> QED BY <1>1, <1>2, <1>3 DEF Later, RowSigned, SignedUpTo

\* Who may act knows where the request stands.
LEMMA ActorSees ==
    ASSUME NEW r \in Requests, approval \in [Requests -> ApprovalRows], RowSigned(r, approval[r]),
           NEW actor \in Actors, Actionable(actor, r),
           NEW call, call.on = r, call.stage \in Signing, call.saw = [stage |-> approval[r].stage, actor |-> actor]
    PROVE  Vouched(call, approval[r]) /\ call.saw \in Signatures
<1>1. approval[r].stage \in 0..2 /\ call.saw.stage = approval[r].stage /\ call.saw.actor = actor
  BY DEF ApprovalRows
<1>2. approval[r].status = "PENDING" /\ actor \in {Elevated, Assignee, approval[r].stage}
  BY DEF Actionable, MayAct
<1>3. StageOf(r, approval[r].stage) /\ SignedUpTo(approval[r], approval[r].stage - 1)
  BY <1>2 DEF RowSigned
<1>4. approval[r].status # "none"
  BY <1>2
<1>5. call.saw \in Signatures
  BY <1>1 DEF Signatures
<1> QED BY <1>1, <1>2, <1>3, <1>4, <1>5, SigningApart DEF Vouched

LEMMA Unvouched ==
    ASSUME NEW call, NEW row,
           call.stage \notin {"approve_adjustment", "approve_transfer", "approve_order", "approved_order",
                              "convert", "order_in_review", "reject_order", "rejected_order", "reject"}
    PROVE  Vouched(call, row)
BY DEF Vouched, Signing, Buying, Judging

\* What a step must leave true of the requests, for those of purchases untouched.
DecidesRightly(c) ==
    /\ RequestRows' /\ Undecided'
    /\ \A r \in Requests : Later(approval[r], approval'[r]) /\ RowSigned(r, approval'[r])
    /\ \A p \in PurchaseRequests : approval'[p] = approval[p]
    /\ InventoryCall(calls'[c]) /\ ProcurementCall(calls'[c]) /\ Vouched(calls'[c], approval'[calls'[c].on])

LEMMA NoApproval ==
    ASSUME RequestRows, RequestsSigned, Undecided, approval' = approval,
           decision' = decision \/ \E x \in Adjustments \cup StockTransfers, v \in Decisions \ {"none"} :
                                      decision' = [decision EXCEPT ![x] = v],
           NEW c, InventoryCall(calls'[c]), ProcurementCall(calls'[c]), Vouched(calls'[c], approval[calls'[c].on])
    PROVE  DecidesRightly(c)
<1>1. decision' \in [Adjustments \cup StockTransfers -> Decisions]
  BY DEF RequestRows
<1>2. \A r \in Adjustments \cup StockTransfers : decision'[r] = "none" => decision[r] = "none"
  BY DEF RequestRows
<1> QED BY <1>1, <1>2 DEF DecidesRightly, RequestRows, Undecided, RequestsSigned, Later

\* One row changes, that of no purchase.
LEMMA OneApproval ==
    ASSUME RequestRows, RequestsSigned, Undecided, NEW r \in Adjustments \cup StockTransfers,
           approval' \in [Requests -> ApprovalRows],
           \A x \in Requests \ {r} : approval'[x] = approval[x],
           Later(approval[r], approval'[r]), RowSigned(r, approval'[r]),
           \/ decision' = decision /\ (approval[r].status # "none" \/ approval'[r].status = approval[r].status)
           \/ decision' = [decision EXCEPT ![r] = "PENDING"],
           NEW c, InventoryCall(calls'[c]), ProcurementCall(calls'[c]), Vouched(calls'[c], approval'[calls'[c].on])
    PROVE  DecidesRightly(c)
<1>1. decision' \in [Adjustments \cup StockTransfers -> Decisions]
  BY DEF RequestRows, Decisions
<1>2. Undecided'
  BY DecidedAssumption DEF Undecided, RequestRows, Later
<1>3. \A x \in Requests : Later(approval[x], approval'[x]) /\ RowSigned(x, approval'[x])
  BY DEF RequestsSigned, Later
<1>4. \A p \in PurchaseRequests : approval'[p] = approval[p]
  BY ProcurementAssumption
<1> QED BY <1>1, <1>2, <1>3, <1>4 DEF DecidesRightly, RequestRows

LEMMA InventoryDecides ==
    ASSUME Shape, RequestRows, CallsTyped, RequestsSigned, CallsVouched, Undecided,
           NEW c \in Callers, InventoryNext(c)
    PROVE  DecidesRightly(c)
<1> DEFINE call == calls[c]
           r == calls[c].on
           C == InventoryCall(calls'[c]) /\ ProcurementCall(calls'[c])
<1>1. InventoryCall(calls[c]) /\ ProcurementCall(calls[c]) /\ Vouched(calls[c], approval[r])
  BY DEF CallsTyped, CallsVouched
<1>2. CASE WriteAllocated(c) \/ WriteSold(c)
  <2>1. calls'[c].stage = "alert" /\ calls'[c].saw = "nothing" /\ approval' = approval /\ decision' = decision
    BY <1>2, Continued, Allocating DEF WriteSold
  <2>2. C /\ Vouched(calls'[c], approval[calls'[c].on])
    BY <2>1, Unvouched DEF InventoryCall, ProcurementCall, ProcurementStages
  <2> QED BY <2>1, <2>2, NoApproval
<1>3. ASSUME Finish(c), calls[c].stage \in {"alert", "open_alert"}
      PROVE  C /\ Vouched(calls'[c], approval[calls'[c].on])
  <2>1. CASE Return(c)
    BY <2>1, Returned, IdleTyped, Unvouched
  <2>2. CASE Continue(c, [stage |-> "adjusted", on |-> calls[c].saw, saw |-> 0]) /\ calls[c].saw # "nothing"
    <3>1. calls'[c].stage = "adjusted" /\ calls'[c].on = calls[c].saw
      BY <2>2, Continued
    <3>2. calls[c].saw \in Adjustments
      BY <1>3, <1>1, <2>2 DEF InventoryCall
    <3> QED BY <3>1, <3>2, Unvouched DEF InventoryCall, ProcurementCall, ProcurementStages
  <2> QED BY <1>3, <2>1, <2>2 DEF Finish
<1>4. CASE CheckLowStock(c)
  <2>1. approval' = approval /\ decision' = decision
    BY <1>4 DEF CheckLowStock, inventory
  <2>2. CASE Goto(c, "open_alert", calls[c].saw)
    <3>1. calls'[c].stage = "open_alert" /\ calls'[c].saw = calls[c].saw
      BY <2>2, Gone
    <3>2. calls[c].saw \in Adjustments \cup {"nothing"}
      BY <1>1, <1>4 DEF CheckLowStock, At, InventoryCall
    <3>3. C /\ Vouched(calls'[c], approval[calls'[c].on])
      BY <3>1, <3>2, Unvouched DEF InventoryCall, ProcurementCall, ProcurementStages
    <3> QED BY <2>1, <3>3, NoApproval
  <2>3. CASE Finish(c)
    BY <2>1, <2>3, <1>3, <1>4, NoApproval DEF CheckLowStock, At
  <2> QED BY <1>4, <2>2, <2>3 DEF CheckLowStock
<1>5. CASE OpenAlert(c)
  <2>1. approval' = approval /\ decision' = decision /\ Finish(c) /\ calls[c].stage = "open_alert"
    BY <1>5 DEF OpenAlert, At
  <2> QED BY <2>1, <1>3, NoApproval
<1>6. CASE WriteEscalated(c) \/ FinishAdjustment(c) \/ FinishRejection(c)
  <2>1. C /\ Vouched(calls'[c], approval[calls'[c].on])
    BY <1>6, Returned, IdleTyped, Unvouched DEF WriteEscalated, FinishAdjustment, FinishRejection
  <2>2. approval' = approval
    BY <1>6 DEF WriteEscalated, FinishAdjustment, FinishRejection
  <2>3. CASE WriteEscalated(c)
    BY <2>1, <2>2, <2>3, NoApproval DEF WriteEscalated
  <2>4. CASE FinishAdjustment(c)
    <3>1. r \in Adjustments
      BY <2>4, <1>1 DEF FinishAdjustment, At, InventoryCall
    <3>2. decision' = [decision EXCEPT ![r] = "APPROVED"] /\ "APPROVED" \in Decisions \ {"none"}
      BY <2>4 DEF FinishAdjustment, Decisions
    <3> QED BY <2>1, <2>2, <3>1, <3>2, NoApproval
  <2>5. CASE FinishRejection(c)
    <3>1. r \in Adjustments \cup StockTransfers
      BY <2>5, <1>1 DEF FinishRejection, At, InventoryCall
    <3>2. decision' = [decision EXCEPT ![r] = "REJECTED"] /\ "REJECTED" \in Decisions \ {"none"}
      BY <2>5 DEF FinishRejection, Decisions
    <3> QED BY <2>1, <2>2, <3>1, <3>2, NoApproval
  <2> QED BY <1>6, <2>3, <2>4, <2>5
<1>7. CASE WriteAdjustmentApproval(c) \/ WriteTransferApproval(c)
  <2>0. calls[c].stage \in Signing
    BY <1>7, JudgingStagesAre DEF WriteAdjustmentApproval, WriteTransferApproval, At
  <2>a. r \in Adjustments \cup StockTransfers /\ calls[c].saw \in Signatures
    BY <1>1, <1>7 DEF WriteAdjustmentApproval, WriteTransferApproval, At, InventoryCall
  <2>1. /\ r \in Adjustments \cup StockTransfers /\ calls[c].saw \in Signatures
        /\ StageOf(r, calls[c].saw.stage) /\ SignedUpTo(approval[r], calls[c].saw.stage - 1)
        /\ calls[c].saw.actor \in {Elevated, Assignee, calls[c].saw.stage} /\ approval[r].status # "none"
    BY <2>0, <2>a, <1>1 DEF Vouched
  <2>2. WriteApproved(r, calls[c].saw.stage, calls[c].saw.actor) /\ decision' = decision
    BY <1>7 DEF WriteAdjustmentApproval, WriteTransferApproval, inventory
  <2>3. calls[c].saw.stage \in 0..2 /\ calls[c].saw.actor \in Actors /\ r \in Requests
    BY <2>1, DecidedAssumption DEF Signatures
  <2>4. /\ approval' \in [Requests -> ApprovalRows]
        /\ \A x \in Requests \ {r} : approval'[x] = approval[x]
        /\ Later(approval[r], approval'[r]) /\ RowSigned(r, approval'[r])
    BY <2>1, <2>2, <2>3, ApprovedRow DEF RequestRows, RequestsSigned
  <2>5. C /\ Vouched(calls'[c], approval'[calls'[c].on])
    <3>1. \/ calls'[c].stage = "apply" /\ calls'[c].on = r /\ r \in Adjustments
          \/ calls'[c].stage = "recheck" /\ calls'[c].on = r /\ r \in StockTransfers
      BY <1>1, <1>7, Gone DEF WriteAdjustmentApproval, WriteTransferApproval, At, InventoryCall
    <3> QED BY <3>1, Unvouched DEF InventoryCall, ProcurementCall, ProcurementStages
  <2> QED BY <2>1, <2>2, <2>4, <2>5, OneApproval
<1>8. CASE ApplyAdjustment(c) \/ RecheckTransfer(c)
  <2>1. approval' = approval /\ decision' = decision
    BY <1>8, Applying DEF RecheckTransfer, inventory
  <2>2. CASE Return(c)
    BY <2>1, <2>2, Returned, IdleTyped, Unvouched, NoApproval
  <2>3. CASE ~ Return(c)
    <3>1. \/ calls'[c].stage = "adjust" /\ calls'[c].on = r /\ r \in Adjustments
          \/ calls'[c].stage = "move" /\ calls'[c].on = r /\ r \in StockTransfers
      <4>1. CASE ApplyAdjustment(c)
        <5>1. PICK new : Goto(c, "adjust", new)
          BY <2>3, <4>1, Applying, Zenon
        <5> QED BY <1>1, <4>1, <5>1, Gone, Applying DEF At, InventoryCall
      <4>2. CASE RecheckTransfer(c)
        BY <1>1, <2>3, <4>2, Gone DEF RecheckTransfer, At, InventoryCall
      <4> QED BY <1>8, <4>1, <4>2
    <3>2. C /\ Vouched(calls'[c], approval[calls'[c].on])
      BY <3>1, Unvouched DEF InventoryCall, ProcurementCall, ProcurementStages
    <3> QED BY <2>1, <3>2, NoApproval
  <2> QED BY <2>2, <2>3
<1>9. CASE WriteAdjustment(c)
  <2>1. r \in Adjustments /\ approval' = approval /\ decision' = decision
    BY <1>1, <1>9, Adjusting DEF At, InventoryCall
  <2>2. \/ calls'[c].stage = "adjusted" /\ calls'[c].on = r
        \/ calls'[c].stage = "alert" /\ calls'[c].saw = r
    <3>1. CASE Goto(c, "adjusted", 0)
      BY <3>1, Gone
    <3>2. CASE ~ Goto(c, "adjusted", 0)
      BY <1>9, <3>2, Adjusting, Continued
    <3> QED BY <3>1, <3>2
  <2>3. C /\ Vouched(calls'[c], approval[calls'[c].on])
    BY <2>1, <2>2, Unvouched DEF InventoryCall, ProcurementCall, ProcurementStages
  <2> QED BY <2>1, <2>3, NoApproval
<1>10. CASE WriteTransfer(c)
  <2>1. r \in StockTransfers /\ approval' = approval /\ decision' = [decision EXCEPT ![r] = "COMPLETED"]
    BY <1>1, <1>10, Transferring DEF At, InventoryCall
  <2>2. calls'[c].stage = "alert" /\ calls'[c].saw = "nothing"
    <3>1. PICK from : Continue(c, [stage |-> "alert", on |-> from, saw |-> "nothing"])
      BY <1>10, Transferring, Zenon
    <3> QED BY <3>1, Continued
  <2>3. C /\ Vouched(calls'[c], approval[calls'[c].on])
    BY <2>2, Unvouched DEF InventoryCall, ProcurementCall, ProcurementStages
  <2>4. \E x \in Adjustments \cup StockTransfers, v \in Decisions \ {"none"} : decision' = [decision EXCEPT ![x] = v]
    <3>1. "COMPLETED" \in Decisions \ {"none"} /\ r \in Adjustments \cup StockTransfers
      BY <2>1 DEF Decisions
    <3> QED BY <2>1, <3>1, Zenon
  <2> QED BY <2>1, <2>3, <2>4, NoApproval
<1>11. CASE WriteRejection(c)
  <2>a. r \in Adjustments \cup StockTransfers /\ calls[c].stage \in Judging
    BY <1>1, <1>11, JudgingStagesAre DEF WriteRejection, At, InventoryCall
  <2>1. r \in Adjustments \cup StockTransfers /\ approval[r].status # "none"
    BY <2>a, <1>1 DEF Vouched
  <2>2. WriteRejected(r) /\ decision' = decision
    BY <1>11 DEF WriteRejection, inventory
  <2>3. calls'[c].stage = "rejected" /\ calls'[c].on = r
    BY <1>11, Gone DEF WriteRejection
  <2>4. C /\ Vouched(calls'[c], approval'[calls'[c].on])
    BY <2>1, <2>3, Unvouched DEF InventoryCall, ProcurementCall, ProcurementStages
  <2>5. /\ approval' \in [Requests -> ApprovalRows]
        /\ \A x \in Requests \ {r} : approval'[x] = approval[x]
        /\ Later(approval[r], approval'[r]) /\ RowSigned(r, approval'[r])
    BY <2>1, <2>2, RejectedRow, DecidedAssumption DEF RequestRows, RequestsSigned
  <2> QED BY <2>1, <2>2, <2>4, <2>5, OneApproval
<1>12. CASE InventoryRequest(c)
  <2>1. CASE \E i \in Items : Receive(c, i, 1) \/ ResolveAlert(c, i)
    <3>1. approval' = approval /\ decision' = decision /\ calls' = calls
      BY <2>1 DEF Receive, ResolveAlert, Once
    <3>2. C /\ Vouched(calls'[c], approval[calls'[c].on])
      BY <3>1, <1>1
    <3> QED BY <3>1, <3>2, NoApproval
  <2>2. CASE \E i \in Items : Sells(c, i) \/ EscalateAlert(c, i) \/ \E from, to \in Buckets : Allocate(c, i, from, to, 1)
    <3>a. /\ approval' = approval /\ decision' = decision
          /\ \E op, on, saw : \E stage \in {"sell", "escalate", "allocate"} : Begin(c, op, stage, on, saw)
      BY <2>2, Zenon DEF Sells, Sell, EscalateAlert, Allocate, inventory
    <3>1. approval' = approval /\ decision' = decision /\ calls'[c].stage \in {"sell", "escalate", "allocate"}
      BY <3>a, Begun
    <3>2. C /\ Vouched(calls'[c], approval[calls'[c].on])
      BY <3>1, Unvouched DEF InventoryCall, ProcurementCall, ProcurementStages
    <3> QED BY <3>1, <3>2, NoApproval
  <2>3. ASSUME NEW x \in Adjustments \cup StockTransfers, RequestAdjustment(c, x) \/ RequestTransfer(c, x)
        PROVE  DecidesRightly(c)
    <3>1. /\ decision[x] = "none" /\ Submit(x) /\ decision' = [decision EXCEPT ![x] = "PENDING"]
          /\ calls' = calls /\ x \in Requests
      BY <2>3, DecidedAssumption DEF RequestAdjustment, RequestTransfer, Once
    <3>2. approval[x].status = "none" /\ approval[x] \in ApprovalRows /\ RowSigned(x, approval[x])
      BY <3>1 DEF Undecided, RequestsSigned, RequestRows
    <3>3. /\ approval' \in [Requests -> ApprovalRows]
          /\ \A y \in Requests \ {x} : approval'[y] = approval[y]
          /\ approval'[x].status # "none" /\ RowSigned(x, approval'[x])
      BY <3>1, <3>2, SubmittedRow DEF RequestRows
    <3>4. Later(approval[x], approval'[x])
      BY <3>2, <3>3 DEF Later
    <3>5. C /\ Vouched(calls'[c], approval'[calls'[c].on])
      BY <3>1, <2>3, IdleTyped, Unvouched DEF RequestAdjustment, RequestTransfer, Once, Ready, At
    <3> QED BY <3>1, <3>3, <3>4, <3>5, OneApproval
  <2>4. ASSUME NEW x \in Adjustments \cup StockTransfers, NEW actor \in Actors,
               \/ ApproveAdjustment(c, x, actor) /\ x \in Adjustments
               \/ ApproveTransfer(c, x, actor) /\ x \in StockTransfers
        PROVE  DecidesRightly(c)
    <3>1. /\ approval' = approval /\ decision' = decision /\ Actionable(actor, x) /\ x \in Requests
          /\ calls'[c].on = x /\ calls'[c].saw = [stage |-> approval[x].stage, actor |-> actor]
      BY <2>4, Begun, DecidedAssumption DEF ApproveAdjustment, ApproveTransfer, inventory
    <3>2. \/ calls'[c].stage = "approve_adjustment" /\ x \in Adjustments
          \/ calls'[c].stage = "approve_transfer" /\ x \in StockTransfers
      BY <2>4, Begun DEF ApproveAdjustment, ApproveTransfer
    <3>3. calls'[c].stage \in Signing
      BY <3>2, JudgingStagesAre
    <3>4. Vouched(calls'[c], approval[x]) /\ calls'[c].saw \in Signatures
      BY <3>1, <3>3, ActorSees DEF RequestRows, RequestsSigned
    <3>5. C
      BY <3>1, <3>2, <3>4 DEF InventoryCall, ProcurementCall, ProcurementStages
    <3> QED BY <3>1, <3>4, <3>5, NoApproval
  <2>5. ASSUME NEW x \in Adjustments \cup StockTransfers, NEW actor \in Actors, Reject(c, x, actor)
        PROVE  DecidesRightly(c)
    <3>1. /\ approval' = approval /\ decision' = decision /\ approval[x].status = "PENDING"
          /\ calls'[c].on = x /\ calls'[c].stage = "reject"
      BY <2>5, Begun DEF Reject, Actionable, inventory
    <3>2. approval[x].status # "none" /\ calls'[c].stage \notin Signing /\ calls'[c].stage \notin Buying
      BY <3>1, JudgingStagesAre, SigningApart, BuyingApart
    <3>3. Vouched(calls'[c], approval[x])
      BY <3>2 DEF Vouched
    <3>4. C
      BY <3>1 DEF InventoryCall, ProcurementCall, ProcurementStages
    <3> QED BY <3>1, <3>3, <3>4, NoApproval
  <2>6. ASSUME NEW x \in Adjustments \cup StockTransfers, NEW actor \in Actors, Reassign(c, x, actor)
        PROVE  DecidesRightly(c)
    <3>1. WriteReassigned(x) /\ decision' = decision /\ calls' = calls /\ x \in Requests /\ calls[c].stage = "idle"
      BY <2>6, DecidedAssumption DEF Reassign, Once, inventory, Ready, At
    <3>2. /\ approval' \in [Requests -> ApprovalRows]
          /\ \A y \in Requests \ {x} : approval'[y] = approval[y]
          /\ approval'[x].status = approval[x].status
          /\ Later(approval[x], approval'[x]) /\ RowSigned(x, approval'[x])
      BY <3>1, ReassignedRow DEF RequestRows, RequestsSigned
    <3>3. C /\ Vouched(calls'[c], approval'[calls'[c].on])
      BY <3>1, IdleTyped, Unvouched
    <3> QED BY <3>1, <3>2, <3>3, OneApproval
  <2>7. ASSUME NEW a \in Adjustments, RequestAdjustment(c, a) \/ \E actor \in Actors : ApproveAdjustment(c, a, actor)
        PROVE  DecidesRightly(c)
    <3>1. CASE RequestAdjustment(c, a)
      BY <2>3, <3>1
    <3>2. ASSUME NEW actor \in Actors, ApproveAdjustment(c, a, actor)
          PROVE  DecidesRightly(c)
      BY <2>4, <3>2
    <3> QED BY <2>7, <3>1, <3>2
  <2>8. ASSUME NEW t \in StockTransfers, RequestTransfer(c, t) \/ \E actor \in Actors : ApproveTransfer(c, t, actor)
        PROVE  DecidesRightly(c)
    BY <2>3, <2>4, <2>8
  <2>9. ASSUME NEW x \in Adjustments \cup StockTransfers, NEW actor \in Actors, Reject(c, x, actor) \/ Reassign(c, x, actor)
        PROVE  DecidesRightly(c)
    BY <2>5, <2>6, <2>9
  <2>10. ASSUME NEW i \in Items, \/ Receive(c, i, 1) \/ Sells(c, i) \/ ResolveAlert(c, i) \/ EscalateAlert(c, i)
                                 \/ \E from, to \in Buckets : Allocate(c, i, from, to, 1)
        PROVE  DecidesRightly(c)
    BY <2>1, <2>2, <2>10
  <2> QED BY <1>12, <2>7, <2>8, <2>9, <2>10 DEF InventoryRequest, SignedRequest, Sells
<1>13. CASE InventoryStep(c)
  BY <1>2, <1>4, <1>5, <1>6, <1>7, <1>8, <1>9, <1>10, <1>11, <1>13 DEF InventoryStep
<1> QED BY <1>12, <1>13 DEF InventoryNext

\* The same of a step that is about purchases.
BuysRightly(c) ==
    /\ RequestRows' /\ decision' = decision
    /\ \A r \in Requests : Later(approval[r], approval'[r]) /\ RowSigned(r, approval'[r])
    /\ \A r \in Adjustments \cup StockTransfers : approval'[r] = approval[r]
    /\ InventoryCall(calls'[c]) /\ ProcurementCall(calls'[c]) /\ Vouched(calls'[c], approval'[calls'[c].on])

LEMMA NoPurchaseApproval ==
    ASSUME RequestRows, RequestsSigned, approval' = approval, decision' = decision,
           NEW c, InventoryCall(calls'[c]), ProcurementCall(calls'[c]), Vouched(calls'[c], approval[calls'[c].on])
    PROVE  BuysRightly(c)
BY DEF BuysRightly, RequestRows, RequestsSigned, Later

LEMMA OnePurchaseApproval ==
    ASSUME RequestRows, RequestsSigned, NEW p \in PurchaseRequests, decision' = decision,
           approval' \in [Requests -> ApprovalRows],
           \A x \in Requests \ {p} : approval'[x] = approval[x],
           Later(approval[p], approval'[p]), RowSigned(p, approval'[p]),
           NEW c, InventoryCall(calls'[c]), ProcurementCall(calls'[c]), Vouched(calls'[c], approval'[calls'[c].on])
    PROVE  BuysRightly(c)
<1>1. \A x \in Requests : Later(approval[x], approval'[x]) /\ RowSigned(x, approval'[x])
  BY DEF RequestsSigned, Later
<1>2. \A r \in Adjustments \cup StockTransfers : approval'[r] = approval[r]
  BY ProcurementAssumption, DecidedAssumption
<1> QED BY <1>1, <1>2 DEF BuysRightly, RequestRows

LEMMA ProcurementDecides ==
    ASSUME Shape, RequestRows, PurchaseTables, CallsTyped, RequestsSigned, CallsVouched, Drafts, Submitting,
           NEW c \in Callers, ProcurementNext(c)
    PROVE  BuysRightly(c)
<1> DEFINE p == calls[c].on
           C == InventoryCall(calls'[c]) /\ ProcurementCall(calls'[c])
<1>1. InventoryCall(calls[c]) /\ ProcurementCall(calls[c]) /\ Vouched(calls[c], approval[p])
  BY DEF CallsTyped, CallsVouched
<1>2. calls[c].stage \in ProcurementStages => p \in PurchaseRequests /\ p \in Requests
  BY <1>1, ProcurementAssumption DEF ProcurementCall
<1>3. CASE WriteEdited(c) \/ WriteRemoved(c) \/ WriteUnderReview(c) \/ WriteOrderRejected(c) \/ ConvertToPurchase(c)
  <2>1. Return(c) /\ approval' = approval /\ decision' = decision
    BY <1>3 DEF WriteEdited, WriteRemoved, WriteUnderReview, WriteOrderRejected, ConvertToPurchase, inventory
  <2> QED BY <2>1, Returned, IdleTyped, Unvouched, NoPurchaseApproval
<1>4. CASE WriteDelivery(c) \/ WriteAcceptance(c) \/ WritePayment(c)
  <2>1. Return(c) /\ approval' = approval /\ decision' = decision
    BY <1>4 DEF WriteDelivery, WriteAcceptance, WritePayment, inventory
  <2> QED BY <2>1, Returned, IdleTyped, Unvouched, NoPurchaseApproval
<1>5. CASE WriteSubmitted(c)
  <2>1. Return(c) /\ decision' = decision /\ p \in PurchaseRequests /\ p \in Requests /\ At(c, "submit_order")
    BY <1>5, <1>2, ProcurementStagesAre DEF WriteSubmitted, At, inventory
  <2>2. C /\ \A row : Vouched(calls'[c], row)
    BY <2>1, Returned, IdleTyped, Unvouched
  <2>3. CASE order[p].status = "deleted"
    BY <1>5, <2>1, <2>2, <2>3, NoPurchaseApproval DEF WriteSubmitted
  <2>4. CASE order[p].status # "deleted"
    <3>1. Submit(p)
      BY <1>5, <2>4 DEF WriteSubmitted
    <3>2. approval[p].status = "none" /\ approval[p] \in ApprovalRows /\ RowSigned(p, approval[p])
      BY <2>1, <2>4 DEF Submitting, Drafts, RequestRows, RequestsSigned
    <3>3. /\ approval' \in [Requests -> ApprovalRows]
          /\ \A y \in Requests \ {p} : approval'[y] = approval[y]
          /\ approval'[p].status # "none" /\ RowSigned(p, approval'[p])
      BY <2>1, <3>1, <3>2, SubmittedRow DEF RequestRows
    <3>4. Later(approval[p], approval'[p])
      BY <3>2 DEF Later
    <3> QED BY <2>1, <2>2, <3>3, <3>4, OnePurchaseApproval
  <2> QED BY <2>3, <2>4
<1>6. CASE WriteOrderApproval(c)
  <2>1. /\ p \in PurchaseRequests /\ p \in Requests /\ At(c, "approve_order") /\ decision' = decision
        /\ WriteApproved(p, calls[c].saw.stage, calls[c].saw.actor)
    BY <1>6, <1>2, ProcurementStagesAre DEF WriteOrderApproval, At, inventory
  <2>2. calls[c].saw \in Signatures /\ calls[c].stage \in Signing
    BY <2>1, <1>1, JudgingStagesAre DEF At, ProcurementCall
  <2>3. /\ StageOf(p, calls[c].saw.stage) /\ SignedUpTo(approval[p], calls[c].saw.stage - 1)
        /\ calls[c].saw.actor \in {Elevated, Assignee, calls[c].saw.stage} /\ approval[p].status # "none"
    BY <2>2, <1>1 DEF Vouched
  <2>4. calls[c].saw.stage \in 0..2 /\ calls[c].saw.actor \in Actors
    BY <2>2 DEF Signatures
  <2>5. /\ approval' \in [Requests -> ApprovalRows]
        /\ \A x \in Requests \ {p} : approval'[x] = approval[x]
        /\ Later(approval[p], approval'[p]) /\ RowSigned(p, approval'[p])
    BY <2>1, <2>3, <2>4, ApprovedRow DEF RequestRows, RequestsSigned
  <2>6. approval'[p].status # "none" /\ (approval'[p].status = "APPROVED" => SignedUpTo(approval'[p], Chain[p]))
    BY <2>3, <2>5 DEF Later, RowSigned
  <2>7. C /\ Vouched(calls'[c], approval'[calls'[c].on])
    <3>1. CASE approval'[p].status = "APPROVED"
      <4>1. calls'[c].stage = "approved_order" /\ calls'[c].on = p
        BY <1>6, <3>1, Gone DEF WriteOrderApproval
      <4>2. C
        BY <2>1, <4>1 DEF InventoryCall, ProcurementCall
      <4>3. calls'[c].stage \notin Signing /\ calls'[c].stage \notin Judging
        BY <4>1, JudgingStagesAre, BuyingApart
      <4> QED BY <2>6, <3>1, <4>1, <4>2, <4>3 DEF Vouched
    <3>2. CASE approval'[p].status # "APPROVED"
      <4>1. calls'[c].stage = "order_in_review" /\ calls'[c].on = p
        BY <1>6, <3>2, Gone DEF WriteOrderApproval
      <4>2. C
        BY <2>1, <4>1 DEF InventoryCall, ProcurementCall
      <4>3. calls'[c].stage \notin Signing /\ calls'[c].stage \notin Buying
        BY <4>1, JudgingStagesAre, BuyingApart, SigningApart
      <4> QED BY <2>6, <4>1, <4>2, <4>3 DEF Vouched
    <3> QED BY <3>1, <3>2
  <2> QED BY <2>1, <2>5, <2>7, OnePurchaseApproval
<1>7. CASE WriteOrderApproved(c)
  <2>1. p \in PurchaseRequests /\ At(c, "approved_order") /\ approval' = approval /\ decision' = decision
    BY <1>7, <1>2, ProcurementStagesAre DEF WriteOrderApproved, At, inventory
  <2>2. CASE Return(c)
    BY <2>1, <2>2, Returned, IdleTyped, Unvouched, NoPurchaseApproval
  <2>3. CASE Goto(c, "convert", 0)
    <3>1. calls'[c].stage = "convert" /\ calls'[c].on = p
      BY <2>3, Gone
    <3>2. C
      BY <2>1, <3>1 DEF InventoryCall, ProcurementCall
    <3>3. approval[p].status # "none" /\ SignedUpTo(approval[p], Chain[p])
      BY <1>1, <2>1, JudgingStagesAre DEF At, Vouched
    <3>4. calls'[c].stage \notin Signing /\ calls'[c].stage \notin Judging
      BY <3>1, JudgingStagesAre, BuyingApart
    <3>5. Vouched(calls'[c], approval[p])
      BY <3>1, <3>3, <3>4 DEF Vouched
    <3> QED BY <2>1, <3>1, <3>2, <3>5, NoPurchaseApproval
  <2> QED BY <1>7, <2>2, <2>3 DEF WriteOrderApproved
<1>8. CASE WriteOrderRejection(c)
  <2>1. p \in PurchaseRequests /\ p \in Requests /\ At(c, "reject_order") /\ decision' = decision /\ WriteRejected(p)
    BY <1>8, <1>2, ProcurementStagesAre DEF WriteOrderRejection, At, inventory
  <2>2. calls'[c].stage = "rejected_order" /\ calls'[c].on = p
    BY <1>8, Gone DEF WriteOrderRejection
  <2>3. /\ approval' \in [Requests -> ApprovalRows]
        /\ \A x \in Requests \ {p} : approval'[x] = approval[x]
        /\ approval'[p].status # "none" /\ Later(approval[p], approval'[p]) /\ RowSigned(p, approval'[p])
    BY <2>1, RejectedRow DEF RequestRows, RequestsSigned
  <2>4. C
    BY <2>1, <2>2 DEF InventoryCall, ProcurementCall
  <2>5. calls'[c].stage \notin Signing /\ calls'[c].stage \notin Buying
    BY <2>2, JudgingStagesAre, BuyingApart, SigningApart
  <2>6. Vouched(calls'[c], approval'[calls'[c].on])
    BY <2>2, <2>3, <2>5 DEF Vouched
  <2> QED BY <2>1, <2>3, <2>4, <2>6, OnePurchaseApproval
<1>9. CASE CountDelivered(c)
  <2>1. p \in PurchaseRequests /\ At(c, "receive_goods") /\ approval' = approval /\ decision' = decision
    BY <1>9, <1>2, ProcurementStagesAre DEF CountDelivered, At, inventory
  <2>2. calls[c].saw \in Delivery
    BY <1>1, <2>1 DEF At, ProcurementCall
  <2>3. PICK saw : /\ saw = [calls[c].saw EXCEPT !.status = "FULLY_RECEIVED"] \/ saw = [calls[c].saw EXCEPT !.status = "PARTIALLY_RECEIVED"]
                   /\ Goto(c, "write_delivery", saw)
    BY <1>9 DEF CountDelivered
  <2>4. calls'[c].stage = "write_delivery" /\ calls'[c].on = p /\ calls'[c].saw = saw
    BY <2>3, Gone
  <2>5. saw \in Delivery
    BY <2>2, <2>3 DEF Delivery
  <2>6. C
    BY <2>1, <2>4, <2>5 DEF InventoryCall, ProcurementCall
  <2> QED BY <2>1, <2>4, <2>6, Unvouched, NoPurchaseApproval
<1>10. CASE JudgeReview(c)
  <2>1. p \in PurchaseRequests /\ At(c, "accept_goods") /\ approval' = approval /\ decision' = decision
    BY <1>10, <1>2, ProcurementStagesAre DEF JudgeReview, At, inventory
  <2>2. calls[c].saw \in Review
    BY <1>1, <2>1 DEF At, ProcurementCall
  <2>3. PICK saw : /\ \E all \in BOOLEAN : saw = [calls[c].saw EXCEPT !.all = all]
                   /\ Goto(c, "write_acceptance", saw)
    BY <1>10 DEF JudgeReview
  <2>4. calls'[c].stage = "write_acceptance" /\ calls'[c].on = p /\ calls'[c].saw = saw
    BY <2>3, Gone
  <2>5. saw \in Review
    BY <2>2, <2>3 DEF Review
  <2>6. C
    BY <2>1, <2>4, <2>5 DEF InventoryCall, ProcurementCall
  <2> QED BY <2>1, <2>4, <2>6, Unvouched, NoPurchaseApproval
<1>11. ASSUME NEW x \in PurchaseRequests, NEW total \in Totals, DraftOrder(c, x, total)
       PROVE  BuysRightly(c)
  <2>1. approval' = approval /\ decision' = decision /\ calls' = calls
    BY <1>11 DEF DraftOrder, Once, inventory
  <2> QED BY <2>1, <1>1, NoPurchaseApproval
<1>12. ASSUME NEW x \in PurchaseRequests, NEW total \in Totals,
              EditOrder(c, x, total) \/ RemoveOrder(c, x) \/ SubmitOrder(c, x)
       PROVE  BuysRightly(c)
  <2>1. approval' = approval /\ decision' = decision
    BY <1>12 DEF EditOrder, RemoveOrder, SubmitOrder, inventory
  <2>2. /\ calls'[c].stage \in {"edit_order", "remove_order", "submit_order"} /\ calls'[c].on = x
        /\ calls'[c].stage = "edit_order" => calls'[c].saw = total
    BY <1>12, Begun DEF EditOrder, RemoveOrder, SubmitOrder
  <2>3. C
    BY <2>2 DEF InventoryCall, ProcurementCall
  <2> QED BY <2>1, <2>2, <2>3, Unvouched, NoPurchaseApproval
<1>13. ASSUME NEW x \in PurchaseRequests, RemoveOrder(c, x) \/ SubmitOrder(c, x)
       PROVE  BuysRightly(c)
  <2>1. approval' = approval /\ decision' = decision
    BY <1>13 DEF RemoveOrder, SubmitOrder, inventory
  <2>2. calls'[c].stage \in {"remove_order", "submit_order"} /\ calls'[c].on = x
    BY <1>13, Begun DEF RemoveOrder, SubmitOrder
  <2>3. C
    BY <2>2 DEF InventoryCall, ProcurementCall
  <2> QED BY <2>1, <2>2, <2>3, Unvouched, NoPurchaseApproval
<1>14. ASSUME NEW x \in PurchaseRequests, NEW actor \in Actors, ApproveOrder(c, x, actor)
       PROVE  BuysRightly(c)
  <2>1. approval' = approval /\ decision' = decision /\ Actionable(actor, x) /\ x \in Requests
    BY <1>14, ProcurementAssumption DEF ApproveOrder, inventory
  <2>2. /\ calls'[c].stage = "approve_order" /\ calls'[c].on = x
        /\ calls'[c].saw = [stage |-> approval[x].stage, actor |-> actor]
    BY <1>14, Begun DEF ApproveOrder
  <2>3. calls'[c].stage \in Signing
    BY <2>2, JudgingStagesAre
  <2>4. Vouched(calls'[c], approval[x]) /\ calls'[c].saw \in Signatures
    BY <2>1, <2>2, <2>3, ActorSees DEF RequestRows, RequestsSigned
  <2>5. C
    BY <2>2, <2>4 DEF InventoryCall, ProcurementCall
  <2> QED BY <2>1, <2>2, <2>4, <2>5, NoPurchaseApproval
<1>15. ASSUME NEW x \in PurchaseRequests, NEW actor \in Actors, RejectOrder(c, x, actor)
       PROVE  BuysRightly(c)
  <2>1. approval' = approval /\ decision' = decision /\ approval[x].status = "PENDING"
    BY <1>15 DEF RejectOrder, Actionable, inventory
  <2>2. calls'[c].stage = "reject_order" /\ calls'[c].on = x
    BY <1>15, Begun DEF RejectOrder
  <2>3. approval[x].status # "none" /\ calls'[c].stage \notin Signing /\ calls'[c].stage \notin Buying
    BY <2>1, <2>2, JudgingStagesAre, SigningApart, BuyingApart
  <2>4. Vouched(calls'[c], approval[x])
    BY <2>3 DEF Vouched
  <2>5. C
    BY <2>2 DEF InventoryCall, ProcurementCall
  <2> QED BY <2>1, <2>2, <2>4, <2>5, NoPurchaseApproval
<1>16. ASSUME NEW x \in PurchaseRequests, ReceivesSome(c, x)
       PROVE  BuysRightly(c)
  <2>0. PICK lot \in Deliverable(x) : ReceiveGoods(c, x, lot)
    BY <1>16 DEF ReceivesSome, Deliverable
  <2>1. approval' = approval /\ decision' = decision
    BY <2>0 DEF ReceiveGoods, inventory
  <2>2. /\ calls'[c].stage = "receive_goods" /\ calls'[c].on = x
        /\ calls'[c].saw = [entries |-> lot, acceptance |-> purchase[x].acceptance,
                            status |-> purchase[x].delivery]
    BY <2>0, Begun DEF ReceiveGoods
  <2>3. purchase[x] \in PurchaseRows /\ lot \in Seq([qty : Nat, damaged : Nat])
    BY Deliverables DEF PurchaseTables
  <2>4. calls'[c].saw \in Delivery
    <3>1. [entries |-> lot, acceptance |-> purchase[x].acceptance,
           status |-> purchase[x].delivery] \in Delivery
      BY <2>3 DEF Delivery, PurchaseRows
    <3> QED BY <2>2, <3>1
  <2>5. C
    BY <2>2, <2>4 DEF InventoryCall, ProcurementCall
  <2> QED BY <2>1, <2>2, <2>5, Unvouched, NoPurchaseApproval
<1>17. ASSUME NEW x \in PurchaseRequests, AcceptsSome(c, x)
       PROVE  BuysRightly(c)
  <2>0. PICK lot \in Reviewable(x) : AcceptGoods(c, x, lot)
    BY <1>17 DEF AcceptsSome, Reviewable
  <2>1. approval' = approval /\ decision' = decision
    BY <2>0 DEF AcceptGoods, inventory
  <2>2. /\ calls'[c].stage = "accept_goods" /\ calls'[c].on = x
        /\ calls'[c].saw = [entries |-> lot, all |-> FALSE]
    BY <2>0, Begun DEF AcceptGoods
  <2>3. lot \in Seq([line : Nat, qty : Nat])
    BY Reviewables
  <2>4. calls'[c].saw \in Review
    <3>1. [entries |-> lot, all |-> FALSE] \in Review
      BY <2>3 DEF Review
    <3> QED BY <2>2, <3>1
  <2>5. C
    BY <2>2, <2>4 DEF InventoryCall, ProcurementCall
  <2> QED BY <2>1, <2>2, <2>5, Unvouched, NoPurchaseApproval
<1>18. ASSUME NEW x \in PurchaseRequests, RecordPayment(c, x, 1)
       PROVE  BuysRightly(c)
  <2>1. approval' = approval /\ decision' = decision
    BY <1>18 DEF RecordPayment, inventory
  <2>2. /\ calls'[c].stage = "record_payment" /\ calls'[c].on = x
        /\ calls'[c].saw = [amount |-> 1, paid |-> purchase[x].paid + 1]
    BY <1>18, Begun DEF RecordPayment
  <2>3. purchase[x].paid \in Nat
    BY DEF PurchaseTables, PurchaseRows
  <2>4. calls'[c].saw \in [amount : Nat, paid : Nat]
    <3>1. [amount |-> 1, paid |-> purchase[x].paid + 1] \in [amount : Nat, paid : Nat]
      BY <2>3
    <3> QED BY <2>2, <3>1
  <2>5. C
    BY <2>2, <2>4 DEF InventoryCall, ProcurementCall
  <2> QED BY <2>1, <2>2, <2>5, Unvouched, NoPurchaseApproval
<1>19. CASE ProcurementStep(c)
  BY <1>3, <1>4, <1>5, <1>6, <1>7, <1>8, <1>9, <1>10, <1>19 DEF ProcurementStep
<1>20. CASE ProcurementRequest(c)
  BY <1>11, <1>12, <1>13, <1>14, <1>15, <1>16, <1>17, <1>18, <1>20, GoodsRequests DEF ProcurementRequest
<1> QED BY <1>19, <1>20 DEF ProcurementNext

\* What a step of c does to the purchase requests.
MovesOrder(c, q) ==
    \/ order'[q].status = order[q].status
    \/ order[q].status = "none" /\ order'[q].status = "DRAFT"
    \/ order'[q].status = "deleted"
    \/ At(c, "submit_order") /\ calls[c].on = q /\ order'[q].status = "PENDING"
    \/ approval[q].status # "none" /\ order[q].status # "deleted" /\ order'[q].status \notin {"none", "DRAFT"}

OrdersMove(c) ==
    /\ PurchaseTables'
    /\ \A q \in PurchaseRequests : MovesOrder(c, q)
    /\ \A q \in PurchaseRequests : approval'[q].status # "none" =>
          approval[q].status # "none" \/ order'[q].status = "PENDING"
    /\ \A q \in PurchaseRequests : purchase'[q].made =>
          purchase[q].made \/ (At(c, "convert") /\ calls[c].on = q /\ approval' = approval)
    /\ calls'[c].stage = "submit_order" =>
          /\ order' = order /\ order[calls'[c].on].status = "DRAFT"
          /\ \A d \in Callers : ~ (At(d, "submit_order") /\ calls[d].on = calls'[c].on)

LEMMA OrderWritten ==
    ASSUME PurchaseTables, NEW p \in PurchaseRequests, NEW row \in OrderRows, order' = [order EXCEPT ![p] = row],
           purchase' = purchase
    PROVE  PurchaseTables' /\ order'[p] = row /\ \A q \in PurchaseRequests \ {p} : order'[q] = order[q]
BY DEF PurchaseTables

LEMMA PurchaseWritten ==
    ASSUME PurchaseTables, NEW p \in PurchaseRequests, NEW row \in PurchaseRows,
           purchase' = [purchase EXCEPT ![p] = row], order' = order
    PROVE  PurchaseTables' /\ purchase'[p] = row /\ \A q \in PurchaseRequests \ {p} : purchase'[q] = purchase[q]
BY DEF PurchaseTables

LEMMA OrderStatusWritten ==
    ASSUME PurchaseTables, NEW p \in PurchaseRequests, NEW status,
           status \in {"none", "DRAFT", "PENDING", "UNDER_REVIEW", "APPROVED", "REJECTED", "deleted"},
           order' = [order EXCEPT ![p].status = status], purchase' = purchase
    PROVE  /\ PurchaseTables' /\ order'[p].status = status
           /\ \A q \in PurchaseRequests \ {p} : order'[q] = order[q]
<1>1. order[p] \in OrderRows
  BY DEF PurchaseTables
<1>2. [order[p] EXCEPT !.status = status] \in OrderRows /\ [order[p] EXCEPT !.status = status].status = status
  BY <1>1 DEF OrderRows
<1>3. order' = [order EXCEPT ![p] = [order[p] EXCEPT !.status = status]]
  OBVIOUS
<1> QED BY <1>2, <1>3, OrderWritten

LEMMA OrdersStay ==
    ASSUME PurchaseTables, order' = order, purchase' = purchase, NEW c, calls'[c].stage # "submit_order",
           approval' = approval
    PROVE  OrdersMove(c)
<1>1. PurchaseTables'
  BY DEF PurchaseTables
<1>2. \A q \in PurchaseRequests : MovesOrder(c, q)
  BY DEF MovesOrder
<1> QED BY <1>1, <1>2 DEF OrdersMove

LEMMA OneOrderMoves ==
    ASSUME PurchaseTables', purchase' = purchase, approval' = approval, NEW c, calls'[c].stage # "submit_order",
           NEW p, MovesOrder(c, p), \A q \in PurchaseRequests \ {p} : order'[q] = order[q]
    PROVE  OrdersMove(c)
<1>1. \A q \in PurchaseRequests : MovesOrder(c, q)
  BY DEF MovesOrder
<1> QED BY <1>1 DEF OrdersMove

LEMMA OnePurchaseMoves ==
    ASSUME PurchaseTables', order' = order, approval' = approval, NEW c, calls'[c].stage # "submit_order",
           \A q \in PurchaseRequests : purchase'[q].made =>
               purchase[q].made \/ (At(c, "convert") /\ calls[c].on = q)
    PROVE  OrdersMove(c)
<1>1. \A q \in PurchaseRequests : MovesOrder(c, q)
  BY DEF MovesOrder
<1> QED BY <1>1 DEF OrdersMove

LEMMA ProcurementMoves ==
    ASSUME Shape, RequestRows, PurchaseTables, CallsTyped, RequestsSigned, CallsVouched, Drafts, Submitting,
           NEW c \in Callers, ProcurementNext(c)
    PROVE  OrdersMove(c)
<1> DEFINE p == calls[c].on
<1>1. InventoryCall(calls[c]) /\ ProcurementCall(calls[c]) /\ Vouched(calls[c], approval[p])
  BY DEF CallsTyped, CallsVouched
<1>2. calls[c].stage \in ProcurementStages => p \in PurchaseRequests /\ p \in Requests
  BY <1>1, ProcurementAssumption DEF ProcurementCall
<1>r. ASSUME Return(c)
      PROVE  calls'[c].stage # "submit_order"
  BY <1>r, Returned
<1>3. CASE WriteEdited(c)
  <2>1. /\ p \in PurchaseRequests /\ At(c, "edit_order") /\ approval' = approval /\ purchase' = purchase
        /\ calls'[c].stage # "submit_order"
    BY <1>3, <1>2, <1>r, ProcurementStagesAre DEF WriteEdited, At
  <2>2. calls[c].saw \in Nat
    BY <1>1, <2>1, ProcurementAssumption DEF At, ProcurementCall
  <2>3. CASE order[p].status = "deleted"
    BY <1>3, <2>1, <2>3, OrdersStay DEF WriteEdited
  <2>4. CASE order[p].status # "deleted"
    <3>1. order[p] \in OrderRows
      BY <2>1 DEF PurchaseTables
    <3>2. PICK row : row = [order[p] EXCEPT !.total = calls[c].saw]
      OBVIOUS
    <3>3. row \in OrderRows /\ row.status = order[p].status
      BY <3>1, <3>2, <2>2 DEF OrderRows
    <3>4. order' = [order EXCEPT ![p] = row]
      BY <1>3, <2>4, <3>2 DEF WriteEdited
    <3>5. PurchaseTables' /\ order'[p] = row /\ \A q \in PurchaseRequests \ {p} : order'[q] = order[q]
      BY <2>1, <3>3, <3>4, OrderWritten
    <3>6. MovesOrder(c, p)
      BY <3>3, <3>5 DEF MovesOrder
    <3> QED BY <2>1, <3>5, <3>6, OneOrderMoves
  <2> QED BY <2>3, <2>4
<1>4. CASE WriteRemoved(c)
  <2>1. /\ p \in PurchaseRequests /\ approval' = approval /\ purchase' = purchase
        /\ calls'[c].stage # "submit_order"
    BY <1>4, <1>2, <1>r, ProcurementStagesAre DEF WriteRemoved, At
  <2>2. CASE purchase[p].made
    BY <1>4, <2>1, <2>2, OrdersStay DEF WriteRemoved
  <2>3. CASE ~ purchase[p].made
    <3>1. order' = [order EXCEPT ![p].status = "deleted"]
      BY <1>4, <2>3 DEF WriteRemoved
    <3>2. PurchaseTables' /\ order'[p].status = "deleted" /\ \A q \in PurchaseRequests \ {p} : order'[q] = order[q]
      BY <2>1, <3>1, OrderStatusWritten
    <3>3. MovesOrder(c, p)
      BY <3>2 DEF MovesOrder
    <3> QED BY <2>1, <3>2, <3>3, OneOrderMoves
  <2> QED BY <2>2, <2>3
<1>5. CASE WriteUnderReview(c) \/ WriteOrderRejected(c)
  <2>1. /\ p \in PurchaseRequests /\ approval' = approval /\ purchase' = purchase
        /\ calls'[c].stage # "submit_order"
    BY <1>5, <1>2, <1>r, ProcurementStagesAre DEF WriteUnderReview, WriteOrderRejected, At
  <2>2. approval[p].status # "none"
    <3>1. calls[c].stage \in Judging
      BY <1>5, JudgingStagesAre DEF WriteUnderReview, WriteOrderRejected, At
    <3> QED BY <1>1, <3>1 DEF Vouched
  <2>3. PICK status \in {"UNDER_REVIEW", "REJECTED", order[p].status} :
             /\ order' = [order EXCEPT ![p].status = status]
             /\ order[p].status = "deleted" => status = "deleted"
             /\ order[p].status # "deleted" => status \in {"UNDER_REVIEW", "REJECTED"}
    BY <1>5 DEF WriteUnderReview, WriteOrderRejected
  <2>4. order[p].status \in {"none", "DRAFT", "PENDING", "UNDER_REVIEW", "APPROVED", "REJECTED", "deleted"}
    BY <2>1 DEF PurchaseTables, OrderRows
  <2>5. PurchaseTables' /\ order'[p].status = status /\ \A q \in PurchaseRequests \ {p} : order'[q] = order[q]
    BY <2>1, <2>3, <2>4, OrderStatusWritten
  <2>6. MovesOrder(c, p)
    BY <2>2, <2>3, <2>5 DEF MovesOrder
  <2> QED BY <2>1, <2>5, <2>6, OneOrderMoves
<1>6. CASE WriteOrderApproved(c)
  <2>1. p \in PurchaseRequests /\ approval' = approval /\ purchase' = purchase
    BY <1>6, <1>2, ProcurementStagesAre DEF WriteOrderApproved, At
  <2>2. approval[p].status # "none"
    <3>1. calls[c].stage \in Buying
      BY <1>6, JudgingStagesAre DEF WriteOrderApproved, At
    <3> QED BY <1>1, <3>1 DEF Vouched
  <2>3. CASE order[p].status = "deleted"
    BY <1>6, <2>1, <2>3, <1>r, OrdersStay DEF WriteOrderApproved
  <2>4. CASE order[p].status # "deleted"
    <3>1. order' = [order EXCEPT ![p].status = "APPROVED"] /\ calls'[c].stage = "convert"
      BY <1>6, <2>4, Gone DEF WriteOrderApproved
    <3>2. PurchaseTables' /\ order'[p].status = "APPROVED" /\ \A q \in PurchaseRequests \ {p} : order'[q] = order[q]
      BY <2>1, <3>1, OrderStatusWritten
    <3>3. MovesOrder(c, p)
      BY <2>2, <2>4, <3>2 DEF MovesOrder
    <3> QED BY <2>1, <3>1, <3>2, <3>3, OneOrderMoves
  <2> QED BY <2>3, <2>4
<1>7. CASE ConvertToPurchase(c)
  <2>1. /\ p \in PurchaseRequests /\ approval' = approval /\ order' = order /\ calls'[c].stage # "submit_order"
        /\ At(c, "convert")
    BY <1>7, <1>2, <1>r, ProcurementStagesAre DEF ConvertToPurchase, At
  <2>2. CASE purchase' = purchase
    BY <2>1, <2>2, OrdersStay
  <2>3. CASE purchase' # purchase
    <3>1. purchase[p] \in PurchaseRows /\ order[p].total \in Nat
      BY <2>1 DEF PurchaseTables, OrderRows
    <3>2. PICK row : row = [purchase[p] EXCEPT !.made = TRUE, !.total = order[p].total]
      OBVIOUS
    <3>3. row \in PurchaseRows
      BY <3>1, <3>2 DEF PurchaseRows
    <3>4. purchase' = [purchase EXCEPT ![p] = row]
      BY <1>7, <2>3, <3>2 DEF ConvertToPurchase
    <3>5. PurchaseTables' /\ \A q \in PurchaseRequests \ {p} : purchase'[q] = purchase[q]
      BY <2>1, <3>3, <3>4, PurchaseWritten
    <3> QED BY <2>1, <3>5, OnePurchaseMoves
  <2> QED BY <2>2, <2>3
<1>8. CASE WriteSubmitted(c)
  <2>1. /\ p \in PurchaseRequests /\ p \in Requests /\ purchase' = purchase /\ calls'[c].stage # "submit_order"
        /\ At(c, "submit_order")
    BY <1>8, <1>2, <1>r, ProcurementStagesAre DEF WriteSubmitted, At
  <2>2. CASE order[p].status = "deleted"
    BY <1>8, <2>1, <2>2, OrdersStay DEF WriteSubmitted
  <2>3. CASE order[p].status # "deleted"
    <3>1. order[p] \in OrderRows
      BY <2>1 DEF PurchaseTables
    <3>2. PICK row : row = [status |-> "PENDING", total |-> order[p].total, submitted |-> order[p].total]
      OBVIOUS
    <3>3. row \in OrderRows /\ row.status = "PENDING"
      BY <3>1, <3>2 DEF OrderRows
    <3>4. order' = [order EXCEPT ![p] = row] /\ Submit(p)
      BY <1>8, <2>1, <2>3, <3>1, <3>2 DEF WriteSubmitted, OrderRows, PurchaseTables
    <3>5. PurchaseTables' /\ order'[p] = row /\ \A q \in PurchaseRequests \ {p} : order'[q] = order[q]
      BY <2>1, <3>3, <3>4, OrderWritten
    <3>6. \A q \in PurchaseRequests : MovesOrder(c, q)
      BY <2>1, <3>3, <3>5 DEF MovesOrder
    <3>7. \A q \in PurchaseRequests \ {p} : approval'[q] = approval[q]
      BY <3>4, ProcurementAssumption DEF Submit, RequestRows
    <3> QED BY <2>1, <3>3, <3>5, <3>6, <3>7 DEF OrdersMove
  <2> QED BY <2>2, <2>3
<1>9. CASE WriteOrderApproval(c) \/ WriteOrderRejection(c)
  <2>1. /\ p \in PurchaseRequests /\ p \in Requests /\ purchase' = purchase /\ order' = order
        /\ calls[c].stage \in Signing \cup Judging
    BY <1>9, <1>2, ProcurementStagesAre, JudgingStagesAre DEF WriteOrderApproval, WriteOrderRejection, At, procurement
  <2>2. approval[p].status # "none"
    BY <1>1, <2>1 DEF Vouched
  <2>3. calls'[c].stage # "submit_order"
    BY <1>9, Gone DEF WriteOrderApproval, WriteOrderRejection
  <2>4. \A q \in PurchaseRequests \ {p} : approval'[q] = approval[q]
    BY <1>9, ProcurementAssumption DEF WriteOrderApproval, WriteOrderRejection, WriteApproved, WriteRejected, RequestRows
  <2>5. PurchaseTables' /\ \A q \in PurchaseRequests : MovesOrder(c, q)
    BY <2>1 DEF PurchaseTables, MovesOrder
  <2> QED BY <2>1, <2>2, <2>3, <2>4, <2>5 DEF OrdersMove
<1>10. CASE CountDelivered(c) \/ JudgeReview(c)
  <2>1. purchase' = purchase /\ order' = order /\ approval' = approval
    BY <1>10 DEF CountDelivered, JudgeReview, procurement
  <2>2. calls'[c].stage # "submit_order"
    BY <1>10, Gone DEF CountDelivered, JudgeReview
  <2> QED BY <2>1, <2>2, OrdersStay
<1>11. CASE WriteDelivery(c) \/ WriteAcceptance(c) \/ WritePayment(c)
  <2>1. p \in PurchaseRequests /\ approval' = approval /\ order' = order /\ calls'[c].stage # "submit_order"
    BY <1>11, <1>2, <1>r, ProcurementStagesAre DEF WriteDelivery, WriteAcceptance, WritePayment, At
  <2>2. purchase[p] \in PurchaseRows
    BY <2>1 DEF PurchaseTables
  <2>3. PICK row \in PurchaseRows : purchase' = [purchase EXCEPT ![p] = row] /\ row.made = purchase[p].made
    <3>1. CASE WriteDelivery(c)
      <4>1. calls[c].saw \in Delivery
        BY <1>1, <3>1 DEF WriteDelivery, At, ProcurementCall
      <4>2. PICK acceptance \in {"PENDING", "RECEIVED", "FULLY_ACCEPTED"} :
                purchase' = [purchase EXCEPT ![p] = [@ EXCEPT !.delivery = calls[c].saw.status, !.acceptance = acceptance]]
        BY <3>1, <4>1 DEF WriteDelivery, Delivery
      <4>3. PICK row : row = [purchase[p] EXCEPT !.delivery = calls[c].saw.status, !.acceptance = acceptance]
        OBVIOUS
      <4>4. row \in PurchaseRows /\ row.made = purchase[p].made
        BY <2>2, <4>1, <4>3 DEF PurchaseRows, Delivery
      <4>5. purchase' = [purchase EXCEPT ![p] = row]
        BY <4>2, <4>3
      <4> QED BY <4>4, <4>5
    <3>2. CASE WriteAcceptance(c)
      <4>1. PICK acceptance \in {"RECEIVED", "FULLY_ACCEPTED"} : purchase' = [purchase EXCEPT ![p].acceptance = acceptance]
        BY <3>2 DEF WriteAcceptance
      <4>2. PICK row : row = [purchase[p] EXCEPT !.acceptance = acceptance]
        OBVIOUS
      <4>3. row \in PurchaseRows /\ row.made = purchase[p].made
        BY <2>2, <4>2 DEF PurchaseRows
      <4>4. purchase' = [purchase EXCEPT ![p] = row]
        BY <4>1, <4>2
      <4> QED BY <4>3, <4>4
    <3>3. CASE WritePayment(c)
      <4>1. calls[c].saw.paid \in Nat
        BY <1>1, <3>3 DEF WritePayment, At, ProcurementCall
      <4>2. PICK row : row = [purchase[p] EXCEPT !.paid = calls[c].saw.paid]
        OBVIOUS
      <4>3. row \in PurchaseRows /\ row.made = purchase[p].made
        BY <2>2, <4>1, <4>2 DEF PurchaseRows
      <4>4. purchase' = [purchase EXCEPT ![p] = row]
        BY <3>3, <4>2 DEF WritePayment
      <4> QED BY <4>3, <4>4
    <3> QED BY <1>11, <3>1, <3>2, <3>3
  <2>4. PurchaseTables' /\ purchase'[p] = row /\ \A q \in PurchaseRequests \ {p} : purchase'[q] = purchase[q]
    BY <2>1, <2>3, PurchaseWritten
  <2> QED BY <2>1, <2>3, <2>4, OnePurchaseMoves
<1>12. ASSUME NEW x \in PurchaseRequests, NEW total \in Totals, DraftOrder(c, x, total)
       PROVE  OrdersMove(c)
  <2>1. /\ approval' = approval /\ purchase' = purchase /\ calls' = calls /\ calls[c].stage = "idle"
        /\ order[x].status = "none"
        /\ order' = [order EXCEPT ![x] = [status |-> "DRAFT", total |-> total, submitted |-> 0]]
    BY <1>12 DEF DraftOrder, Once, Ready, At
  <2>2. PICK row : row = [status |-> "DRAFT", total |-> total, submitted |-> 0]
    OBVIOUS
  <2>3. row \in OrderRows /\ row.status = "DRAFT"
    BY <2>2, ProcurementAssumption DEF OrderRows
  <2>4. PurchaseTables' /\ order'[x] = row /\ \A q \in PurchaseRequests \ {x} : order'[q] = order[q]
    BY <2>1, <2>2, <2>3, OrderWritten
  <2>5. MovesOrder(c, x)
    BY <2>1, <2>3, <2>4 DEF MovesOrder
  <2> QED BY <2>1, <2>4, <2>5, OneOrderMoves
<1>13. ASSUME NEW x \in PurchaseRequests, SubmitOrder(c, x)
       PROVE  OrdersMove(c)
  <2>1. /\ approval' = approval /\ purchase' = purchase /\ order' = order /\ order[x].status = "DRAFT"
        /\ \A d \in Callers : ~ (At(d, "submit_order") /\ calls[d].on = x)
    BY <1>13 DEF SubmitOrder, procurement
  <2>2. calls'[c].on = x
    BY <1>13, Begun DEF SubmitOrder
  <2>3. PurchaseTables' /\ \A q \in PurchaseRequests : MovesOrder(c, q)
    BY <2>1 DEF PurchaseTables, MovesOrder
  <2> QED BY <2>1, <2>2, <2>3 DEF OrdersMove
<1>14. ASSUME NEW x \in PurchaseRequests, NEW total \in Totals, EditOrder(c, x, total)
       PROVE  OrdersMove(c)
  BY <1>14, Begun, OrdersStay DEF EditOrder, procurement
<1>15. ASSUME NEW x \in PurchaseRequests, RemoveOrder(c, x) \/ RecordPayment(c, x, 1)
       PROVE  OrdersMove(c)
  BY <1>15, Begun, OrdersStay DEF RemoveOrder, RecordPayment, procurement
<1>16. ASSUME NEW x \in PurchaseRequests, NEW actor \in Actors, ApproveOrder(c, x, actor) \/ RejectOrder(c, x, actor)
       PROVE  OrdersMove(c)
  BY <1>16, Begun, OrdersStay DEF ApproveOrder, RejectOrder, procurement
<1>17. ASSUME NEW x \in PurchaseRequests, ReceivesSome(c, x)
       PROVE  OrdersMove(c)
  BY <1>17, Begun, OrdersStay DEF ReceivesSome, ReceiveGoods, procurement
<1>18. ASSUME NEW x \in PurchaseRequests, AcceptsSome(c, x)
       PROVE  OrdersMove(c)
  BY <1>18, Begun, OrdersStay DEF AcceptsSome, AcceptGoods, procurement
<1>19. CASE ProcurementStep(c)
  BY <1>3, <1>4, <1>5, <1>6, <1>7, <1>8, <1>9, <1>10, <1>11, <1>19 DEF ProcurementStep
<1>20. CASE ProcurementRequest(c)
  BY <1>12, <1>13, <1>14, <1>15, <1>16, <1>17, <1>18, <1>20, GoodsRequests DEF ProcurementRequest
<1> QED BY <1>19, <1>20 DEF ProcurementNext

-----------------------------------------------------------------------------
(* The inductive invariant.                                                *)

\* One handler at a time, unless two have overlapped.
Lone == overlapped \/ \A c, d \in Callers : Busy(c) /\ Busy(d) => c = d

Handled == Shape /\ Routed /\ Lone

LEMMA LoneStays ==
    ASSUME Lone, NEW c \in Callers, NEW S, Acts(c, S)
    PROVE  Lone'
<1> SUFFICES ASSUME ~ overlapped', NEW d \in Callers, NEW e \in Callers, calls'[d].stage # "idle", calls'[e].stage # "idle"
             PROVE  d = e
  BY DEF Lone, Busy, At
<1>1. CASE overlapped' = (overlapped \/ ~Quiet)
  BY <1>1 DEF Acts, Quiet, At
<1>2. CASE overlapped' = overlapped /\ Busy(c)
  BY <1>2 DEF Acts, Lone, Busy, At
<1>3. CASE overlapped' = overlapped /\ calls' = calls
  BY <1>3 DEF Lone, Busy, At
<1> QED BY <1>1, <1>2, <1>3 DEF Acts

LEMMA NoImages ==
    ASSUME Routed, NEW c \in Callers, NEW S, "upload_image" \notin S, "delete_image" \notin S, Acts(c, S)
    PROVE  Routed'
<1>1. \A d \in Callers \ {c} : calls'[d] = calls[d]
  BY DEF Acts
<1>2. calls'[c] = calls[c] \/ (calls'[c].stage # "upload_image" /\ calls'[c].stage # "delete_image")
  BY DEF Acts
<1>3. RoutedCall(calls'[c])
  BY <1>2 DEF Routed, RoutedCall
<1> QED BY <1>1, <1>3, ImagesStay

LEMMA ImagesApart ==
    \A s \in {"upload_image", "delete_image"} :
        /\ s \notin InventoryStages /\ s \notin ProcurementStages /\ s \notin ShopStages
        /\ s \notin PromotionsStages /\ s \notin SalonStages /\ s \notin TakingsStages
BY DEF InventoryStages, ProcurementStages, ShopStages, PromotionsStages, SalonStages, TakingsStages

LEMMA HandledStays ==
    ASSUME Handled, [Next]_vars
    PROVE  Handled'
<1>1. ASSUME NEW c \in Callers, NEW S, Acts(c, S), "upload_image" \notin S, "delete_image" \notin S
      PROVE  Handled'
  BY <1>1, LoneStays, NoImages DEF Handled, Acts
<1>2. ASSUME NEW c \in Callers, InventoryNext(c) \/ ProcurementNext(c) \/ ShopNext(c)
      PROVE  Handled'
  BY <1>1, <1>2, ImagesApart, InventoryActs, ProcurementActs, ShopActs DEF Handled
<1>3. ASSUME NEW c \in Callers, PromotionsNext(c) \/ SalonNext(c) \/ TakingsNext(c) \/ Dies(c)
      PROVE  Handled'
  BY <1>1, <1>3, ImagesApart, PromotionsActs, SalonActs, TakingsActs, DiesActs DEF Handled
<1>4. ASSUME NEW c \in Callers, CatalogueNext(c)
      PROVE  Handled'
  BY <1>4, CatalogueActs, LoneStays DEF Handled, Acts
<1>5. ASSUME calls' = calls, overlapped' = overlapped
      PROVE  Handled'
  BY <1>5 DEF Handled, Shape, Routed, Lone, Busy, At
<1>6. CASE UNCHANGED vars
  BY <1>5, <1>6 DEF vars, handlers
<1>7. CASE SettingsExpire \/ PageExpires \/ TimePasses \/ CopyExpires
  BY <1>5, <1>7 DEF SettingsExpire, PageExpires, TimePasses, CopyExpires, handlers
<1> QED BY <1>2, <1>3, <1>4, <1>6, <1>7 DEF Next

SignedInv ==
    /\ Handled
    /\ RequestRows /\ PurchaseTables /\ CallsTyped
    /\ RequestsSigned /\ CallsVouched /\ Undecided /\ Drafts /\ Submitting /\ BoughtSigned

\* Handlers other than c, and c where it is left alone.
LEMMA CallsKept ==
    ASSUME RequestRows, CallsTyped, CallsVouched,
           \A r \in Requests : Later(approval[r], approval'[r]),
           NEW d \in Callers, calls'[d] = calls[d]
    PROVE  InventoryCall(calls'[d]) /\ ProcurementCall(calls'[d]) /\ Vouched(calls'[d], approval'[calls'[d].on])
<1>1. InventoryCall(calls[d]) /\ ProcurementCall(calls[d]) /\ Vouched(calls[d], approval[calls[d].on])
  BY DEF CallsTyped, CallsVouched
<1>2. CASE calls[d].on \in Requests
  BY <1>1, <1>2, VouchedLater
<1>3. CASE calls[d].on \notin Requests
  <2>1. /\ calls[d].stage \notin ProcurementStages
        /\ calls[d].stage \notin {"approve_adjustment", "approve_transfer", "reject"}
    BY <1>1, <1>3, DecidedAssumption, ProcurementAssumption DEF InventoryCall, ProcurementCall
  <2> QED BY <1>1, <2>1, Unvouched DEF ProcurementStages
<1> QED BY <1>2, <1>3

LEMMA SignedInventory ==
    ASSUME SignedInv, NEW c \in Callers, InventoryNext(c), Handled'
    PROVE  SignedInv'
<1>1. DecidesRightly(c) /\ Acts(c, InventoryStages) /\ UNCHANGED procurement
  BY InventoryDecides, InventoryActs DEF SignedInv, Handled, InventoryNext
<1>2. \A d \in Callers : InventoryCall(calls'[d]) /\ ProcurementCall(calls'[d]) /\ Vouched(calls'[d], approval'[calls'[d].on])
  BY <1>1, CallsKept DEF SignedInv, DecidesRightly, Acts
<1>3. \A d \in Callers : calls'[d].stage = "submit_order" => calls'[d] = calls[d]
  <2>1. "submit_order" # "idle" /\ "submit_order" \notin InventoryStages
    BY DEF InventoryStages
  <2> QED BY <1>1, <2>1 DEF Acts
<1>4. Submitting'
  BY <1>1, <1>3 DEF SignedInv, Submitting, At, procurement
<1>5. Drafts' /\ BoughtSigned' /\ PurchaseTables'
  BY <1>1 DEF SignedInv, Drafts, BoughtSigned, PurchaseTables, procurement, DecidesRightly
<1> QED BY <1>1, <1>2, <1>4, <1>5 DEF SignedInv, DecidesRightly, CallsTyped, CallsVouched, RequestsSigned

LEMMA SignedProcurement ==
    ASSUME SignedInv, NEW c \in Callers, ProcurementNext(c), Handled'
    PROVE  SignedInv'
<1>1. BuysRightly(c) /\ Acts(c, ProcurementStages) /\ OrdersMove(c)
  BY ProcurementDecides, ProcurementActs, ProcurementMoves DEF SignedInv, Handled
<1>2. \A d \in Callers : InventoryCall(calls'[d]) /\ ProcurementCall(calls'[d]) /\ Vouched(calls'[d], approval'[calls'[d].on])
  BY <1>1, CallsKept DEF SignedInv, BuysRightly, Acts
<1>3. Undecided'
  BY <1>1 DEF SignedInv, Undecided, BuysRightly
<1>4. Drafts'
  <2> SUFFICES ASSUME NEW q \in PurchaseRequests, order'[q].status \in {"none", "DRAFT"}, approval'[q].status # "none"
               PROVE  FALSE
    BY DEF Drafts
  <2>1. approval[q].status # "none"
    BY <1>1 DEF OrdersMove
  <2>2. order[q].status \notin {"none", "DRAFT"}
    BY <2>1 DEF SignedInv, Drafts
  <2> QED BY <1>1, <2>1, <2>2 DEF OrdersMove, MovesOrder
<1>5. Submitting'
  <2> SUFFICES ASSUME NEW d \in Callers, calls'[d].stage = "submit_order"
               PROVE  /\ order'[calls'[d].on].status \in {"DRAFT", "deleted"}
                      /\ \A e \in Callers : calls'[e].stage = "submit_order" /\ calls'[e].on = calls'[d].on => e = d
    BY DEF Submitting, At
  <2>1. \A e \in Callers : calls'[e].stage = "submit_order" => e = c \/ calls'[e] = calls[e]
    BY <1>1 DEF Acts
  <2>2. CASE calls'[c].stage = "submit_order"
    <3>1. /\ order' = order /\ order[calls'[c].on].status = "DRAFT"
          /\ \A e \in Callers : ~ (At(e, "submit_order") /\ calls[e].on = calls'[c].on)
      BY <1>1, <2>2 DEF OrdersMove
    <3> QED BY <2>1, <3>1 DEF SignedInv, Submitting, At
  <2>3. CASE calls'[c].stage # "submit_order"
    <3>1. calls'[d] = calls[d] /\ d # c /\ At(d, "submit_order")
      BY <2>1, <2>3 DEF At
    <3>2. calls[d].on \in PurchaseRequests
      BY <3>1, ProcurementStagesAre DEF SignedInv, CallsTyped, ProcurementCall, At
    <3>3. ~ (At(c, "submit_order") /\ calls[c].on = calls[d].on)
      BY <3>1 DEF SignedInv, Submitting
    <3>4. order[calls[d].on].status \in {"DRAFT", "deleted"}
      BY <3>1 DEF SignedInv, Submitting
    <3>5. order[calls[d].on].status = "DRAFT" => approval[calls[d].on].status = "none"
      BY <3>2 DEF SignedInv, Drafts
    <3>6. MovesOrder(c, calls[d].on)
      BY <1>1, <3>2 DEF OrdersMove
    <3>7. order'[calls[d].on].status \in {"DRAFT", "deleted"}
      BY <3>3, <3>4, <3>5, <3>6 DEF MovesOrder
    <3> QED BY <2>1, <2>3, <3>1, <3>7 DEF SignedInv, Submitting, At
  <2> QED BY <2>2, <2>3
<1>6. BoughtSigned'
  <2> SUFFICES ASSUME NEW q \in PurchaseRequests, purchase'[q].made
               PROVE  approval'[q].status # "none" /\ SignedUpTo(approval'[q], Chain[q])
    BY DEF BoughtSigned
  <2>1. q \in Requests
    BY ProcurementAssumption
  <2>2. approval[q].status # "none" /\ SignedUpTo(approval[q], Chain[q])
    <3>1. CASE purchase[q].made
      BY <3>1 DEF SignedInv, BoughtSigned
    <3>2. CASE At(c, "convert") /\ calls[c].on = q
      BY <3>2, JudgingStagesAre DEF SignedInv, CallsVouched, Vouched, At
    <3> QED BY <1>1, <3>1, <3>2 DEF OrdersMove
  <2> QED BY <1>1, <2>1, <2>2, SignedLater DEF BuysRightly, Later
<1> QED BY <1>1, <1>2, <1>3, <1>4, <1>5, <1>6
        DEF SignedInv, BuysRightly, OrdersMove, CallsTyped, CallsVouched, RequestsSigned

LEMMA SignedElsewhere ==
    ASSUME SignedInv, [Next]_vars, ~ \E c \in Callers : InventoryNext(c) \/ ProcurementNext(c), Handled'
    PROVE  SignedInv'
<1>1. /\ approval' = approval /\ decision' = decision /\ order' = order /\ purchase' = purchase
      /\ \A d \in Callers : calls'[d].stage \in DecidingStages => calls'[d] = calls[d]
  BY OtherSteps DEF SignedInv, Handled, procurement
<1>2. \A d \in Callers : InventoryCall(calls'[d]) /\ ProcurementCall(calls'[d]) /\ Vouched(calls'[d], approval[calls'[d].on])
  <2> SUFFICES ASSUME NEW d \in Callers
               PROVE  InventoryCall(calls'[d]) /\ ProcurementCall(calls'[d]) /\ Vouched(calls'[d], approval[calls'[d].on])
    OBVIOUS
  <2>1. CASE calls'[d].stage \in DecidingStages
    <3>1. InventoryCall(calls[d]) /\ ProcurementCall(calls[d]) /\ Vouched(calls[d], approval[calls[d].on])
      BY DEF SignedInv, CallsTyped, CallsVouched
    <3> QED BY <1>1, <2>1, <3>1
  <2>2. CASE calls'[d].stage \notin DecidingStages
    <3>1. calls'[d].stage \notin {"approve_adjustment", "approve_transfer", "approve_order", "approved_order",
                                  "convert", "order_in_review", "reject_order", "rejected_order", "reject"}
      BY <2>2 DEF DecidingStages, InventoryStages, ProcurementStages
    <3> QED BY <2>2, <3>1, IdleTyped, Unvouched
  <2> QED BY <2>1, <2>2
<1>3. Submitting'
  <2>1. \A d \in Callers : calls'[d].stage = "submit_order" => calls'[d] = calls[d]
    BY <1>1 DEF DecidingStages, ProcurementStages
  <2> QED BY <1>1, <2>1 DEF SignedInv, Submitting, At
<1> QED BY <1>1, <1>2, <1>3
        DEF SignedInv, RequestRows, PurchaseTables, CallsTyped, CallsVouched, RequestsSigned, Undecided, Drafts, BoughtSigned

LEMMA SignedAtFirst == Init => SignedInv
<1> SUFFICES ASSUME Init PROVE SignedInv
  OBVIOUS
<1>1. \A c \in Callers : calls[c] = Idle
  BY DEF Init, HandlersInit
<1>2. Handled
  BY <1>1 DEF Init, HandlersInit, Handled, Shape, Routed, RoutedCall, Lone, Busy, At, Idle
<1>3. CallsTyped /\ CallsVouched /\ Submitting
  BY <1>1, IdleTyped, Unvouched DEF CallsTyped, CallsVouched, Submitting, At, Idle
<1>4. RequestRows
  <2>1. ASSUME NEW r \in Requests
        PROVE  /\ [status |-> "APPROVED", stage |-> 0, assigned |-> FALSE, signed |-> (0..Chain[r]) \X {Elevated}] \in ApprovalRows
               /\ Unsubmitted \in ApprovalRows
    <3>1. Chain[r] \in 0..2 /\ Elevated \in Actors
      BY ChainAssumption DEF Actors
    <3>2. (0..Chain[r]) \X {Elevated} \in SUBSET ((0..2) \X Actors) /\ {} \in SUBSET ((0..2) \X Actors)
      BY <3>1
    <3> QED BY <3>2 DEF ApprovalRows, Unsubmitted
  <2>2. approval \in [Requests -> ApprovalRows]
    BY <2>1 DEF Init, ApprovalInit
  <2>3. decision \in [Adjustments \cup StockTransfers -> Decisions]
    BY DEF Init, InventoryInit, Decisions
  <2> QED BY <2>2, <2>3 DEF RequestRows
<1>5. PurchaseTables
  BY DEF Init, ProcurementInit, PurchaseTables, OrderRows, PurchaseRows, NewOrder, NoPurchase
<1>6. RequestsSigned /\ Undecided /\ Drafts /\ BoughtSigned
  <2>1. ASSUME NEW r \in Requests
        PROVE  approval[r] = IF r \in AtHand
            THEN [status |-> "APPROVED", stage |-> 0, assigned |-> FALSE, signed |-> (0..Chain[r]) \X {Elevated}]
            ELSE Unsubmitted
    BY DEF Init, ApprovalInit
  <2>2. ASSUME NEW r \in Requests, r \notin AtHand
        PROVE  approval[r].status = "none"
    <3>1. approval[r] = Unsubmitted
      BY <2>1, <2>2
    <3>2. Unsubmitted.status = "none"
      BY DEF Unsubmitted
    <3> QED BY <3>1, <3>2
  <2>3. ASSUME NEW r \in Requests, r \in AtHand
        PROVE  approval[r].status = "APPROVED" /\ SignedUpTo(approval[r], Chain[r])
    <3>1. Chain[r] \in 0..2
      BY ChainAssumption
    <3>a. PICK row : row = [status |-> "APPROVED", stage |-> 0, assigned |-> FALSE, signed |-> (0..Chain[r]) \X {Elevated}]
      OBVIOUS
    <3>b. approval[r] = row
      BY <2>1, <2>3, <3>a
    <3>c. row.status = "APPROVED" /\ row.signed = (0..Chain[r]) \X {Elevated}
      BY <3>a
    <3>2. approval[r].status = "APPROVED" /\ approval[r].signed = (0..Chain[r]) \X {Elevated}
      BY <3>b, <3>c
    <3>3. \A k \in 1..Chain[r] : <<k, Elevated>> \in (0..Chain[r]) \X {Elevated}
      BY <3>1
    <3> QED BY <3>2, <3>3 DEF SignedUpTo
  <2>4. RequestsSigned
    BY <2>2, <2>3 DEF RequestsSigned, RowSigned
  <2>5. Undecided
    BY <2>2, DecidedAssumption, ProcurementAssumption DEF Undecided
  <2>6. \A p \in PurchaseRequests : /\ p \in AtHand => order[p].status = "APPROVED"
                                    /\ p \notin AtHand => ~ purchase[p].made
    BY DEF Init, ProcurementInit, NoPurchase
  <2>7. Drafts /\ BoughtSigned
    BY <2>2, <2>3, <2>6, ProcurementAssumption DEF Drafts, BoughtSigned
  <2> QED BY <2>4, <2>5, <2>7
<1> QED BY <1>2, <1>3, <1>4, <1>5, <1>6 DEF SignedInv

\* Nothing counts as approved, and nothing is bought, before every stage of its chain was signed by
\* one who may sign it: whatever approvals, rejections, edits and deletions overlap, and whoever dies.
THEOREM NothingUnsigned == Spec => []SignedFirst
<1>1. SignedInv /\ [Next]_vars => SignedInv'
  BY HandledStays, SignedInventory, SignedProcurement, SignedElsewhere DEF SignedInv
<1>2. SignedInv => SignedFirst
  <2> SUFFICES ASSUME SignedInv PROVE SignedFirst
    OBVIOUS
  <2>1. EveryStageSigned
    BY DEF SignedInv, RequestsSigned, RowSigned, SignedUpTo, EveryStageSigned
  <2>2. \A n \in 1..2 : {Elevated, Assignee, n} \subseteq Actors
    BY DEF Actors
  <2>3. BoughtWasSigned
    BY <2>2, ChainAssumption, ProcurementAssumption DEF SignedInv, BoughtSigned, SignedUpTo, BoughtWasSigned
  <2> QED BY <2>1, <2>3 DEF SignedFirst
<1> QED BY <1>1, <1>2, SignedAtFirst, PTL DEF Spec

-----------------------------------------------------------------------------
(* Stock: the types of its rows and of what a handler remembers of them.   *)

StockCall(call) ==
    /\ call.stage \in {"allocate", "alert", "open_alert", "escalate", "sell"} => call.on \in Items
    /\ call.stage = "allocate" =>
          /\ call.saw \in [from : Buckets, to : Buckets, qty : Nat, newFrom : Int, newTo : Int]
          /\ call.saw.from # call.saw.to
    /\ call.stage = "escalate" => call.saw \in 1..Len(Levels)
    /\ call.stage = "sell" => call.saw \in Seq(Nat)
    /\ call.stage = "adjust" => call.saw \in Int

\* The stages of a salon booking at which the handler has it at hand.
VisitStages == SalonStages \ {"low_stock", "raise_alert"}

\* What start, cancel and markNoShow write.
Settable == {"IN_PROGRESS", "CANCELLED", "NO_SHOW"}

SalonCall(call) ==
    /\ call.stage \in VisitStages => call.on \in Visits
    /\ call.stage = "set_visit" => call.saw \in Settable
    /\ call.stage \in {"replace_services", "replace_goods"} => call.saw \in Seq(Menu) \X Seq(Lines)
    /\ call.stage = "add_goods" => call.saw \in Lines
    /\ call.stage = "add_service" => call.saw \in Menu
    /\ call.stage = "write_total" => call.saw \in Nat
    /\ call.stage \in {"recipes", "complete_visit"} => call.saw \in VisitRows
    /\ call.stage \in {"low_stock", "raise_alert"} => call.saw \in Seq(Lines)
    /\ call.stage = "raise_alert" => call.saw # << >>

StockTables ==
    /\ InventoryTypeOK
    /\ decision \in [Adjustments \cup StockTransfers -> Decisions]
    /\ applied \in [Adjustments \cup StockTransfers -> Nat]

VisitsTyped == visit \in [Visits -> VisitRows]

StockTyped == StockTables /\ VisitsTyped /\ \A c \in Callers : StockCall(calls[c]) /\ SalonCall(calls[c])

-----------------------------------------------------------------------------
(* Stock: what holds until two handlers overlap.                           *)

AddsUp(s, m) == \A i \in Items, k \in Buckets : s[i][k] = Opened[i][k] + m[i][k]
NoneBelow(s) == \A i \in Items, k \in Buckets : s[i][k] >= 0

\* A request without a chain moves stock once, and not before it is decided.
AppliedOnce(r, row, n) == Chain[r] = 0 => n <= 1 /\ (row.status \in {"none", "PENDING"} => n = 0)

\* What a handler has found still holds when it writes.
StockFound(call, s) ==
    /\ call.stage = "allocate" =>
          /\ call.saw.newFrom = s[call.on][call.saw.from] - call.saw.qty /\ call.saw.newFrom >= 0
          /\ call.saw.newTo = s[call.on][call.saw.to] + call.saw.qty
    /\ call.stage = "sell" => \A n \in DOMAIN call.saw : s[call.on]["SALES"] >= call.saw[n]
    /\ call.stage = "adjust" =>
          /\ call.saw = s[Change[call.on].item][Change[call.on].bucket] + Change[call.on].qty
          /\ call.saw >= 0
    /\ call.stage = "move" => s[Move[call.on].from][Move[call.on].bucket] >= Move[call.on].qty
    /\ call.stage \in {"recipes", "complete_visit"} =>
          \A n \in DOMAIN call.saw.goods : s[call.saw.goods[n][1]][call.saw.goods[n][2]] >= 1
    /\ call.stage = "complete_visit" => \A i \in Items : s[i]["USAGE"] >= Uses(call.saw, i)

Deciding == {"approve_adjustment", "approve_transfer"}
Decided  == {"apply", "adjust", "recheck", "move"}

\* One about to approve finds the request pending; one about to move stock has decided it, and has
\* not moved it yet.
RequestFound(call, row, n) ==
    /\ call.stage \in Deciding => row.status = "PENDING"
    /\ call.stage \in Decided /\ Chain[call.on] = 0 => row.status \notin {"none", "PENDING"} /\ n = 0

StockCalm ==
    /\ AddsUp(stock, moved) /\ (overdrawn \/ NoneBelow(stock))
    /\ \A r \in Adjustments \cup StockTransfers : AppliedOnce(r, approval[r], applied[r])
    /\ \A c \in Callers : /\ StockFound(calls[c], stock)
                          /\ RequestFound(calls[c], approval[calls[c].on], applied[calls[c].on])

StockInv == StockTyped /\ (overlapped \/ StockCalm)

-----------------------------------------------------------------------------
(* Steps of other parts, for stock and salon bookings.                     *)

LEMMA SalonApart ==
    \A s \in SalonStages : /\ s # "idle" /\ s \notin InventoryStages /\ s \notin ProcurementStages /\ s \notin ShopStages
                           /\ s \notin PromotionsStages /\ s \notin CatalogueStages /\ s \notin TakingsStages
<1>1. \A s \in SalonStages : s # "idle" /\ s \notin InventoryStages /\ s \notin ProcurementStages
  BY DEF SalonStages, InventoryStages, ProcurementStages
<1>2. \A s \in SalonStages : s \notin ShopStages /\ s \notin PromotionsStages
  BY DEF SalonStages, ShopStages, PromotionsStages
<1>3. \A s \in SalonStages : s \notin CatalogueStages /\ s \notin TakingsStages
  BY DEF SalonStages, CatalogueStages, PlainStages, TakingsStages
<1> QED BY <1>1, <1>2, <1>3

\* What a handler of another part remembers is no concern of stock, or of salon bookings.
LEMMA StockNotHeld ==
    ASSUME NEW call, call.stage \notin InventoryStages
    PROVE  StockCall(call)
BY InventoryStagesAre DEF StockCall

LEMMA VisitNotHeld ==
    ASSUME NEW call, call.stage \notin SalonStages
    PROVE  SalonCall(call)
BY SalonStagesAre DEF SalonCall, VisitStages

\* A handler that has not found anything in the stock.
LEMMA NothingFound ==
    ASSUME NEW call, call.stage \notin {"allocate", "sell", "adjust", "move", "recipes", "complete_visit"}
    PROVE  \A s : StockFound(call, s)
BY DEF StockFound

LEMMA NothingDecided ==
    ASSUME NEW call, call.stage \notin Deciding \cup Decided
    PROVE  \A row, n : RequestFound(call, row, n)
BY DEF RequestFound

-----------------------------------------------------------------------------
(* Salon bookings and what their handlers remember are typed.              *)

LEMMA LinesCounted ==
    ASSUME NEW S, NEW s \in Seq(S)
    PROVE  /\ IsFiniteSet(DOMAIN s)
           /\ \A T \in SUBSET DOMAIN s : IsFiniteSet(T) /\ Cardinality(T) \in Nat
<1>1. PICK one \in Int, n \in Int : one = 1 /\ n = Len(s) /\ DOMAIN s = 1..Len(s)
  OBVIOUS
<1>2. IsFiniteSet(DOMAIN s)
  BY <1>1, FS_Interval
<1>3. \A T \in SUBSET DOMAIN s : IsFiniteSet(T)
  BY <1>2, FS_Subset
<1> QED BY <1>2, <1>3, FS_CardinalityType

LEMMA SumIsNat ==
    ASSUME NEW S, IsFiniteSet(S), NEW w, \A x \in S : w[x] \in Int
    PROVE  IsFiniteSet(Units(S, w)) /\ SumOver(S, w) \in Nat
<1>1. PICK f : f = [x \in S |-> {x} \X (1..w[x])]
  OBVIOUS
<1>2. PICK T : T = {f[x] : x \in S}
  OBVIOUS
<1>3. f \in Surjection(S, T)
  BY <1>1, <1>2 DEF Surjection
<1>4. IsFiniteSet(T)
  BY <1>3, FS_Surjection
<1>5. ASSUME NEW x \in S PROVE IsFiniteSet(f[x])
  <2>1. PICK one \in Int, n \in Int : one = 1 /\ n = w[x]
    OBVIOUS
  <2>3. IsFiniteSet({x}) /\ IsFiniteSet(1..w[x])
    BY <2>1, FS_Singleton, FS_Interval
  <2>2. IsFiniteSet({x} \X (1..w[x]))
    BY <2>3, FS_Product
  <2> QED BY <1>1, <2>2
<1>6. IsFiniteSet(UNION T)
  BY <1>2, <1>4, <1>5, FS_UNION
<1>7. Units(S, w) = UNION T
  BY <1>1, <1>2 DEF Units
<1> QED BY <1>6, <1>7, FS_CardinalityType DEF SumOver

LEMMA SumOfIsNat ==
    ASSUME NEW services \in Seq(Menu)
    PROVE  SumOf(services) \in Nat
<1>1. \A n \in DOMAIN services : services[n] \in Menu
  OBVIOUS
<1>2. PICK w : w = [n \in DOMAIN services |-> Price[services[n]]]
  OBVIOUS
<1>3. \A n \in DOMAIN services : w[n] \in Int
  BY <1>1, <1>2, SalonAssumption
<1>4. SumOver(DOMAIN services, w) \in Nat
  BY <1>3, LinesCounted, SumIsNat
<1> QED BY <1>2, <1>4 DEF SumOf

LEMMA TotalIsNat ==
    ASSUME NEW services \in Seq(Menu), NEW goods \in Seq(Lines)
    PROVE  ComputeTotal(services, goods) \in Nat
<1>1. SumOf(services) \in Nat
  BY SumOfIsNat
<1>2. {n \in DOMAIN goods : goods[n][2] = "SALES"} \in SUBSET DOMAIN goods
  OBVIOUS
<1>3. Cardinality({n \in DOMAIN goods : goods[n][2] = "SALES"}) \in Nat
  BY <1>2, LinesCounted
<1>4. \A a, b \in Nat : a + b \in Nat
  OBVIOUS
<1>5. ComputeTotal(services, goods)
          = SumOf(services) + Cardinality({n \in DOMAIN goods : goods[n][2] = "SALES"})
  BY Zenon DEF ComputeTotal
<1> QED BY <1>1, <1>3, <1>4, <1>5, Zenon

LEMMA Discounted ==
    ASSUME NEW total \in Nat
    PROVE  (total * Off) \div 100 \in Nat /\ total - (total * Off) \div 100 \in Nat
<1>1. Off \in 0..100
  BY SalonAssumption, Zenon
<1>2. total * Off \in Nat /\ total * Off <= total * 100
  BY <1>1
<1> QED BY <1>2

LEMMA VisitWritten ==
    ASSUME VisitsTyped, NEW v \in Visits, NEW row \in VisitRows, WriteVisit(v, row)
    PROVE  VisitsTyped'
BY DEF VisitsTyped, WriteVisit

LEMMA SalonTypes ==
    ASSUME Shape, VisitsTyped, NEW c \in Callers, SalonCall(calls[c]), SalonNext(c)
    PROVE  VisitsTyped' /\ SalonCall(calls'[c])
<1> DEFINE v == calls[c].on
           row == visit[v]
<1>0. \A call : call.stage = "idle" => SalonCall(call)
  BY VisitNotHeld, SalonApart
<1>1. calls[c].stage \in VisitStages => v \in Visits /\ row \in VisitRows
  BY DEF SalonCall, VisitsTyped
<1>2. CASE FindOrCreateCustomer(c) \/ CreateCustomer(c) \/ ValidateDiscount(c)
  <2>1. visit' = visit /\ calls[c].stage \in {"find_client", "create_client", "validate"}
    BY <1>2 DEF FindOrCreateCustomer, CreateCustomer, ValidateDiscount, At, salon
  <2>2. v \in Visits
    BY <1>1, <2>1 DEF VisitStages, SalonStages
  <2>3. \/ \E stage \in {"create_client", "validate", "write_visit"} : Goto(c, stage, 0)
        \/ Return(c)
    BY <1>2 DEF FindOrCreateCustomer, CreateCustomer, ValidateDiscount
  <2>4. SalonCall(calls'[c])
    <3>1. ASSUME NEW stage \in {"create_client", "validate", "write_visit"}, Goto(c, stage, 0)
          PROVE  SalonCall(calls'[c])
      BY <2>2, <3>1, Gone DEF SalonCall
    <3> QED BY <2>3, <3>1, <1>0, Returned
  <2> QED BY <2>1, <2>4 DEF VisitsTyped
<1>3. CASE WriteBooking(c)
  <2>1. v \in Visits
    BY <1>1, <1>3 DEF WriteBooking, At, VisitStages, SalonStages
  <2>2. /\ Wish[v].stylist \in BOOLEAN /\ Wish[v].services \in Seq(Menu) /\ Wish[v].goods \in Seq(Lines)
    BY <2>1, SalonAssumption
  <2>3. PICK total : total = ComputeTotal(Wish[v].services, Wish[v].goods)
    OBVIOUS
  <2>4. PICK off : off = IF Wish[v].code = "none" THEN 0 ELSE (total * Off) \div 100
    OBVIOUS
  <2>5. total \in Nat /\ off \in Nat /\ total - off \in Nat
    <3>1. total \in Nat
      BY <2>2, <2>3, TotalIsNat
    <3>2. PICK part : part = (total * Off) \div 100
      OBVIOUS
    <3>3. part \in Nat /\ total - part \in Nat
      BY <3>1, <3>2, Discounted
    <3> QED BY <2>4, <3>1, <3>2, <3>3
  <2>6. PICK new : new = [NoVisit EXCEPT !.status = "SCHEDULED", !.stylist = Wish[v].stylist, !.services = Wish[v].services,
                                         !.goods = Wish[v].goods, !.off = off, !.total = total - off]
    OBVIOUS
  <2>7. new \in VisitRows
    BY <2>2, <2>5, <2>6 DEF NoVisit, VisitRows, VisitStatuses
  <2>8. visit' = visit \/ visit' = [visit EXCEPT ![v] = new]
    BY <1>3, <2>3, <2>4, <2>6, Zenon DEF WriteBooking
  <2>9. VisitsTyped'
    BY <2>1, <2>7, <2>8 DEF VisitsTyped
  <2> QED BY <1>0, <1>3, <2>9, Returned DEF WriteBooking
<1>4. CASE VerifyFound(c) \/ WriteReservationUsed(c)
  <2>1. v \in Visits /\ row \in VisitRows
    BY <1>1, <1>4 DEF VerifyFound, WriteReservationUsed, At, VisitStages, SalonStages
  <2>2. [row EXCEPT !.stylist = TRUE, !.used = TRUE] \in VisitRows
    BY <2>1 DEF VisitRows
  <2>3. VisitsTyped'
    BY <1>4, <2>1, <2>2, VisitWritten DEF VerifyFound, WriteReservationUsed, VisitsTyped, salon
  <2>4. Goto(c, "use_code", 0) \/ Return(c)
    BY <1>4 DEF VerifyFound, WriteReservationUsed
  <2>5. ASSUME Goto(c, "use_code", 0)
        PROVE  SalonCall(calls'[c])
    BY <2>1, <2>5, Gone DEF SalonCall
  <2> QED BY <1>0, <2>3, <2>4, <2>5, Returned
<1>5. CASE WriteVisitStatus(c)
  <2>1. v \in Visits /\ row \in VisitRows /\ calls[c].saw \in VisitStatuses
    BY <1>1, <1>5 DEF WriteVisitStatus, At, VisitStages, SalonStages, SalonCall, Settable, VisitStatuses
  <2>2. [row EXCEPT !.status = calls[c].saw] \in VisitRows
    BY <2>1 DEF VisitRows
  <2> QED BY <1>0, <1>5, <2>1, <2>2, VisitWritten, Returned DEF WriteVisitStatus
<1>6. CASE ReplaceServices(c) \/ ReplaceGoods(c)
  <2>1. v \in Visits /\ row \in VisitRows /\ calls[c].saw \in Seq(Menu) \X Seq(Lines)
    BY <1>1, <1>6 DEF ReplaceServices, ReplaceGoods, At, VisitStages, SalonStages, SalonCall
  <2>2. [row EXCEPT !.services = calls[c].saw[1]] \in VisitRows /\ [row EXCEPT !.goods = calls[c].saw[2]] \in VisitRows
    BY <2>1 DEF VisitRows
  <2>3. VisitsTyped'
    BY <1>6, <2>1, <2>2, VisitWritten DEF ReplaceServices, ReplaceGoods
  <2>4. Goto(c, "replace_goods", calls[c].saw) \/ Goto(c, "details", 0) \/ Return(c)
    BY <1>6 DEF ReplaceServices, ReplaceGoods
  <2>5. ASSUME Goto(c, "replace_goods", calls[c].saw) \/ Goto(c, "details", 0)
        PROVE  SalonCall(calls'[c])
    BY <2>1, <2>5, Gone DEF SalonCall
  <2> QED BY <1>0, <2>3, <2>4, <2>5, Returned
<1>7. CASE WriteDetails(c) \/ WriteGoods(c) \/ WriteService(c)
  <2>1. v \in Visits /\ row \in VisitRows
    BY <1>1, <1>7 DEF WriteDetails, WriteGoods, WriteService, At, VisitStages, SalonStages
  <2>2. /\ [row EXCEPT !.stylist = TRUE] \in VisitRows
        /\ calls[c].saw \in Lines => [row EXCEPT !.goods = Append(@, calls[c].saw)] \in VisitRows
        /\ calls[c].saw \in Menu => [row EXCEPT !.services = Append(@, calls[c].saw)] \in VisitRows
    <3>1. [row EXCEPT !.stylist = TRUE] \in VisitRows
      BY <2>1 DEF VisitRows
    <3>2. row.goods \in Seq(Lines) /\ row.services \in Seq(Menu)
      BY <2>1 DEF VisitRows
    <3>3. ASSUME NEW goods \in Seq(Lines), NEW services \in Seq(Menu)
          PROVE  [row EXCEPT !.goods = goods] \in VisitRows /\ [row EXCEPT !.services = services] \in VisitRows
      BY <2>1 DEF VisitRows
    <3>4. calls[c].saw \in Lines => Append(row.goods, calls[c].saw) \in Seq(Lines)
      BY <3>2
    <3>5. calls[c].saw \in Menu => Append(row.services, calls[c].saw) \in Seq(Menu)
      BY <3>2
    <3> QED BY <3>1, <3>2, <3>3, <3>4, <3>5
  <2>3. VisitsTyped'
    BY <1>7, <2>1, <2>2, VisitWritten DEF WriteDetails, WriteGoods, WriteService, At, SalonCall
  <2>4. Goto(c, "recompute", 0) \/ Return(c)
    BY <1>7 DEF WriteDetails, WriteGoods, WriteService
  <2>5. ASSUME Goto(c, "recompute", 0)
        PROVE  SalonCall(calls'[c])
    BY <2>1, <2>5, Gone DEF SalonCall
  <2> QED BY <1>0, <2>3, <2>4, <2>5, Returned
<1>8. CASE Recompute(c)
  <2>1. v \in Visits /\ row \in VisitRows /\ visit' = visit
    BY <1>1, <1>8 DEF Recompute, At, VisitStages, SalonStages, salon
  <2>2. PICK total : total = ComputeTotal(row.services, row.goods)
    OBVIOUS
  <2>3. total \in Nat
    BY <2>1, <2>2, TotalIsNat DEF VisitRows
  <2>4. Goto(c, "write_total", total) \/ Return(c)
    BY <1>8, <2>2 DEF Recompute
  <2>5. ASSUME Goto(c, "write_total", total)
        PROVE  SalonCall(calls'[c])
    BY <2>1, <2>3, <2>5, Gone DEF SalonCall
  <2> QED BY <1>0, <2>1, <2>4, <2>5, Returned DEF VisitsTyped
<1>9. CASE WriteTotal(c)
  <2>1. v \in Visits /\ row \in VisitRows /\ calls[c].saw \in Nat
    BY <1>1, <1>9 DEF WriteTotal, At, VisitStages, SalonStages, SalonCall
  <2>2. [row EXCEPT !.total = calls[c].saw] \in VisitRows
    BY <2>1 DEF VisitRows
  <2> QED BY <1>0, <1>9, <2>1, <2>2, VisitWritten, Returned DEF WriteTotal
<1>10. CASE CheckRecipes(c)
  <2>1. v \in Visits /\ calls[c].saw \in VisitRows /\ visit' = visit
    BY <1>1, <1>10 DEF CheckRecipes, At, VisitStages, SalonStages, SalonCall, salon
  <2>2. ASSUME Goto(c, "complete_visit", calls[c].saw)
        PROVE  SalonCall(calls'[c])
    BY <2>1, <2>2, Gone DEF SalonCall
  <2> QED BY <1>0, <1>10, <2>1, <2>2, Returned DEF CheckRecipes, VisitsTyped
<1>11. CASE WriteCompletion(c)
  <2>1. v \in Visits /\ calls[c].saw \in VisitRows /\ row \in VisitRows
    BY <1>1, <1>11 DEF WriteCompletion, At, VisitStages, SalonStages, SalonCall
  <2>2. [row EXCEPT !.status = "COMPLETED"] \in VisitRows
    BY <2>1 DEF VisitRows, VisitStatuses
  <2>3. visit' = visit \/ visit' = [visit EXCEPT ![v].status = "COMPLETED"]
    BY <1>11 DEF WriteCompletion
  <2>4. VisitsTyped'
    BY <2>1, <2>2, <2>3 DEF VisitsTyped
  <2>5. Continue(c, [stage |-> "low_stock", on |-> v, saw |-> calls[c].saw.goods]) \/ Return(c)
    BY <1>11 DEF WriteCompletion
  <2>6. ASSUME Goto(c, "low_stock", calls[c].saw.goods)
        PROVE  SalonCall(calls'[c])
    <3>1. calls[c].saw.goods \in Seq(Lines)
      BY <2>1 DEF VisitRows
    <3> QED BY <2>6, <3>1, Gone DEF SalonCall, VisitStages
  <2> QED BY <1>0, <2>4, <2>5, <2>6, Returned DEF Goto
<1>12. CASE LookAtLines(c) \/ RaiseAlert(c)
  <2>1. calls[c].saw \in Seq(Lines) /\ (RaiseAlert(c) => calls[c].saw # << >>) /\ visit' = visit
    BY <1>12 DEF LookAtLines, RaiseAlert, At, SalonCall, salon
  <2>2. \/ Return(c)
        \/ calls[c].saw # << >> /\ Goto(c, "raise_alert", calls[c].saw)
        \/ calls[c].saw # << >> /\ Goto(c, "low_stock", Tail(calls[c].saw))
    BY <1>12, <2>1 DEF LookAtLines, RaiseAlert
  <2>3. ASSUME calls[c].saw # << >>, Goto(c, "raise_alert", calls[c].saw) \/ Goto(c, "low_stock", Tail(calls[c].saw))
        PROVE  SalonCall(calls'[c])
    <3>1. PICK rest : rest = Tail(calls[c].saw)
      OBVIOUS
    <3>2. rest \in Seq(Lines)
      BY <2>1, <2>3, <3>1
    <3>3. \/ calls'[c].stage = "raise_alert" /\ calls'[c].saw = calls[c].saw
          \/ calls'[c].stage = "low_stock" /\ calls'[c].saw = rest
      BY <2>3, <3>1, Gone
    <3> QED BY <2>1, <2>3, <3>2, <3>3 DEF SalonCall, VisitStages
  <2> QED BY <1>0, <2>1, <2>2, <2>3, Returned DEF VisitsTyped
<1>13. CASE SalonRequest(c)
  <2>1. ASSUME NEW x \in Visits, \/ Create(c, x) \/ Reserve(c, x) \/ VerifyReservation(c, x) \/ VerifyReservationAnywhere(c, x)
        PROVE  VisitsTyped' /\ SalonCall(calls'[c])
    <3>1. visit' = visit /\ \E stage \in {"find_client", "use_code", "verify_found"} : \E op : Begin(c, op, stage, x, 0)
      <4>1. visit' = visit
        BY <2>1 DEF Create, Reserve, VerifyReservation, VerifyReservationAnywhere, salon
      <4>2. \/ Begin(c, "book", "find_client", x, 0) \/ Begin(c, "verify", "use_code", x, 0)
            \/ Begin(c, "verify", "verify_found", x, 0)
        BY <2>1 DEF Create, Reserve, VerifyReservation, VerifyReservationAnywhere
      <4> HIDE DEF v, row
      <4> QED BY <4>1, <4>2
    <3>2. calls'[c].stage \in {"find_client", "use_code", "verify_found"} /\ calls'[c].on = x
      BY <3>1, Begun
    <3> QED BY <3>1, <3>2 DEF SalonCall, VisitsTyped
  <2>2. ASSUME NEW x \in Visits, DeleteBooking(c, x)
        PROVE  VisitsTyped' /\ SalonCall(calls'[c])
    <3>1. calls' = calls /\ visit' = [visit EXCEPT ![x].status = "deleted"]
      BY <2>2 DEF DeleteBooking, Once
    <3>2. [visit[x] EXCEPT !.status = "deleted"] \in VisitRows
      BY DEF VisitsTyped, VisitRows, VisitStatuses
    <3> QED BY <3>1, <3>2 DEF VisitsTyped
  <2>3. ASSUME NEW x \in Visits, Complete(c, x)
        PROVE  VisitsTyped' /\ SalonCall(calls'[c])
    <3>1. visit' = visit /\ calls'[c].stage = "recipes" /\ calls'[c].on = x /\ calls'[c].saw = visit[x]
      BY <2>3, Begun DEF Complete, salon
    <3> QED BY <3>1 DEF SalonCall, VisitsTyped
  <2>4. ASSUME NEW x \in Visits, NEW status \in VisitStatuses, SetVisit(c, x, status)
        PROVE  VisitsTyped' /\ SalonCall(calls'[c])
    <3>1. visit' = visit /\ calls'[c].stage = "set_visit" /\ calls'[c].on = x /\ calls'[c].saw = status
      BY <2>4, Begun DEF SetVisit, salon
    <3>2. status \in Settable
      BY <2>4 DEF SetVisit, Modifiable, Transitions, Settable
    <3> QED BY <3>1, <3>2 DEF SalonCall, VisitsTyped
  <2>5. ASSUME NEW x \in Visits, NEW new \in Replacements, EditBooking(c, x, new)
        PROVE  VisitsTyped' /\ SalonCall(calls'[c])
    <3>1. visit' = visit /\ calls'[c].stage = "replace_services" /\ calls'[c].on = x /\ calls'[c].saw = new
      BY <2>5, Begun DEF EditBooking, salon
    <3> QED BY <3>1, SalonAssumption DEF SalonCall, VisitsTyped
  <2>6. ASSUME NEW x \in Visits, NEW g \in Wares, AddInventoryItem(c, x, g)
        PROVE  VisitsTyped' /\ SalonCall(calls'[c])
    <3>1. visit' = visit /\ calls'[c].stage = "add_goods" /\ calls'[c].on = x /\ calls'[c].saw = g
      BY <2>6, Begun DEF AddInventoryItem, salon
    <3> QED BY <3>1, SalonAssumption DEF SalonCall, VisitsTyped
  <2>7. ASSUME NEW x \in Visits, NEW s \in Menu, AddServiceToCompletedBooking(c, x, s)
        PROVE  VisitsTyped' /\ SalonCall(calls'[c])
    <3>1. visit' = visit /\ calls'[c].stage = "add_service" /\ calls'[c].on = x /\ calls'[c].saw = s
      BY <2>7, Begun DEF AddServiceToCompletedBooking, salon
    <3> QED BY <3>1 DEF SalonCall, VisitsTyped
  <2> QED BY <1>13, <2>1, <2>2, <2>3, <2>4, <2>5, <2>6, <2>7 DEF SalonRequest, DeskRequest, ServingRequest
<1>14. CASE SalonStep(c)
  BY <1>2, <1>3, <1>4, <1>5, <1>6, <1>7, <1>8, <1>9, <1>10, <1>11, <1>12, <1>14 DEF SalonStep
<1> QED BY <1>13, <1>14 DEF SalonNext

-----------------------------------------------------------------------------
(* Writes to the buckets.                                                  *)

Holdings == [Items -> [Buckets -> Int]]

PutOne(f, g, i, k, n) == g = [f EXCEPT ![i][k] = n]
PutTwo(f, g, i, k, m, j, l, n) == g = [f EXCEPT ![i][k] = m, ![j][l] = n]

LEMMA OnePut ==
    ASSUME NEW f \in Holdings, NEW i \in Items, NEW k \in Buckets, NEW n \in Int, NEW g, PutOne(f, g, i, k, n)
    PROVE  /\ g \in Holdings /\ g[i][k] = n
           /\ \A j \in Items, l \in Buckets : (j # i \/ l # k) => g[j][l] = f[j][l]
BY DEF PutOne, Holdings

LEMMA TwoPut ==
    ASSUME NEW f \in Holdings, NEW i \in Items, NEW j \in Items, NEW k \in Buckets, NEW l \in Buckets, i # j \/ k # l,
           NEW m \in Int, NEW n \in Int, NEW g, PutTwo(f, g, i, k, m, j, l, n)
    PROVE  /\ g \in Holdings /\ g[i][k] = m /\ g[j][l] = n
           /\ \A x \in Items, b \in Buckets : (x # i \/ b # k) /\ (x # j \/ b # l) => g[x][b] = f[x][b]
<1>1. g[i][k] = m /\ g[j][l] = n
  BY DEF PutTwo, Holdings
<1>2. \A x \in Items, b \in Buckets : (x # i \/ b # k) /\ (x # j \/ b # l) => g[x][b] = f[x][b]
  BY DEF PutTwo, Holdings
<1>3. g \in Holdings
  BY DEF PutTwo, Holdings
<1> QED BY <1>1, <1>2, <1>3

-----------------------------------------------------------------------------
(* Stock and what its handlers remember are typed.                         *)

LEMMA Shelves ==
    ASSUME StockTables
    PROVE  /\ stock \in Holdings /\ moved \in Holdings
           /\ \A i \in Items, k \in Buckets : stock[i][k] \in Int /\ moved[i][k] \in Int
BY DEF StockTables, InventoryTypeOK, StockRows, Holdings

LEMMA RequestsHave ==
    /\ \A a \in Adjustments : Change[a].item \in Items /\ Change[a].bucket \in Buckets /\ Change[a].qty \in Int
    /\ \A t \in StockTransfers : /\ Move[t].from \in Items /\ Move[t].to \in Items /\ Move[t].from # Move[t].to
                                 /\ Move[t].bucket \in Buckets /\ Move[t].qty \in Nat
    /\ "STORE" \in Buckets /\ "SALES" \in Buckets /\ "USAGE" \in Buckets
    /\ \A i \in Items, k \in Buckets : Opened[i][k] \in Nat
<1>1. \A a \in Adjustments : Change[a] \in [item : Items, bucket : Buckets, qty : Int]
  BY InventoryAssumption DEF Adjustments
<1>2. \A t \in StockTransfers : Move[t] \in [from : Items, to : Items, bucket : Buckets, qty : Nat] /\ Move[t].from # Move[t].to
  BY InventoryAssumption DEF StockTransfers
<1>3. \A i \in Items, k \in Buckets : Opened[i][k] \in Nat
  BY InventoryAssumption
<1> QED BY <1>1, <1>2, <1>3, InventoryAssumption

LEMMA Leaves ==
    ASSUME StockTables, NEW a \in Adjustments
    PROVE  Left(a) \in Int
<1>1. PICK i \in Items, k \in Buckets, n \in Int : i = Change[a].item /\ k = Change[a].bucket /\ n = Change[a].qty
  BY RequestsHave
<1>2. PICK s \in Int : s = stock[i][k]
  BY Shelves
<1>3. Left(a) = s + n
  BY <1>1, <1>2 DEF Left
<1> QED BY <1>3

LEMMA InventoryCalls ==
    ASSUME Shape, StockTables, NEW c \in Callers, InventoryCall(calls[c]), StockCall(calls[c]), InventoryNext(c)
    PROVE  StockCall(calls'[c])
<1> DEFINE x == calls[c].on
<1>0. \A call : call.stage = "idle" => StockCall(call)
  BY StockNotHeld DEF InventoryStages
<1>1. CASE WriteAllocated(c) \/ WriteSold(c)
  <2>1. x \in Items
    BY <1>1, Allocating DEF WriteSold, At, StockCall
  <2>2. calls'[c].stage = "alert" /\ calls'[c].on = x
    <3>1. Goto(c, "alert", "nothing")
      BY <1>1, Allocating DEF WriteSold, Goto
    <3> QED BY <3>1, Gone
  <2> QED BY <2>1, <2>2 DEF StockCall
<1>2. CASE CheckLowStock(c) \/ OpenAlert(c)
  <2>1. x \in Items
    BY <1>2 DEF CheckLowStock, OpenAlert, At, StockCall
  <2>2. Goto(c, "open_alert", calls[c].saw) \/ Finish(c)
    BY <1>2 DEF CheckLowStock, OpenAlert
  <2>3. ASSUME Goto(c, "open_alert", calls[c].saw)
        PROVE  StockCall(calls'[c])
    BY <2>1, <2>3, Gone DEF StockCall
  <2>4. ASSUME Finish(c)
        PROVE  StockCall(calls'[c])
    <3>1. calls'[c].stage \in {"idle", "adjusted"}
      BY <2>4, Continued, Returned DEF Finish
    <3> QED BY <3>1 DEF StockCall
  <2> QED BY <2>2, <2>3, <2>4
<1>3. CASE WriteEscalated(c) \/ FinishAdjustment(c) \/ FinishRejection(c)
  BY <1>0, <1>3, Returned DEF WriteEscalated, FinishAdjustment, FinishRejection
<1>4. CASE ApplyAdjustment(c)
  <2>1. x \in Adjustments
    BY <1>4, Applying DEF At, InventoryCall
  <2>2. Left(x) \in Int
    BY <2>1, Leaves
  <2>3. Return(c) \/ Goto(c, "adjust", Left(x))
    BY <1>4, Applying
  <2>4. ASSUME Goto(c, "adjust", Left(x))
        PROVE  StockCall(calls'[c])
    BY <2>2, <2>4, Gone DEF StockCall
  <2> QED BY <1>0, <2>3, <2>4, Returned
<1>5. CASE WriteAdjustment(c)
  <2>1. x \in Adjustments
    BY <1>5, Adjusting DEF At, InventoryCall
  <2>2. PICK i : i = Change[x].item /\ i \in Items
    BY <2>1, RequestsHave
  <2>3. Continue(c, [stage |-> "alert", on |-> i, saw |-> x]) \/ Goto(c, "adjusted", 0)
    BY <1>5, <2>2, Adjusting
  <2>4. (calls'[c].stage = "alert" /\ calls'[c].on \in Items) \/ calls'[c].stage = "adjusted"
    BY <2>2, <2>3, Gone, Continued
  <2> QED BY <2>4 DEF StockCall
<1>6. CASE WriteTransfer(c)
  <2>1. x \in StockTransfers
    BY <1>6, Transferring DEF At, InventoryCall
  <2>2. Move[x].from \in Items
    BY <2>1, RequestsHave
  <2>3. calls'[c].stage = "alert" /\ calls'[c].on \in Items
    <3>1. PICK from : from = Move[x].from /\ Continue(c, [stage |-> "alert", on |-> from, saw |-> "nothing"])
      BY <1>6, Transferring, Zenon
    <3> QED BY <2>2, <3>1, Continued
  <2> QED BY <2>3 DEF StockCall
<1>7. CASE WriteAdjustmentApproval(c) \/ WriteTransferApproval(c) \/ RecheckTransfer(c) \/ WriteRejection(c)
  <2>1. Return(c) \/ \E stage \in {"apply", "recheck", "move", "rejected"} : Goto(c, stage, 0)
    BY <1>7 DEF WriteAdjustmentApproval, WriteTransferApproval, RecheckTransfer, WriteRejection
  <2>2. calls'[c].stage \in {"idle", "apply", "recheck", "move", "rejected"}
    BY <2>1, Returned, Gone
  <2> QED BY <2>2 DEF StockCall
<1>8. CASE InventoryRequest(c)
  <2>1. ASSUME NEW i \in Items, NEW from \in Buckets, NEW to \in Buckets, Allocate(c, i, from, to, 1)
        PROVE  StockCall(calls'[c])
    <3>1. PICK saw : saw = [from |-> from, to |-> to, qty |-> 1, newFrom |-> stock[i][from] - 1, newTo |-> stock[i][to] + 1]
      OBVIOUS
    <3>2. calls'[c].stage = "allocate" /\ calls'[c].on = i /\ calls'[c].saw = saw /\ from # to
      BY <2>1, <3>1, Begun DEF Allocate
    <3>3. saw \in [from : Buckets, to : Buckets, qty : Nat, newFrom : Int, newTo : Int] /\ saw.from # saw.to
      BY <3>1, <3>2, Shelves
    <3> QED BY <3>2, <3>3 DEF StockCall
  <2>2. ASSUME NEW i \in Items, Sells(c, i)
        PROVE  StockCall(calls'[c])
    <3>1. PICK lines \in Baskets : Sell(c, i, lines)
      BY <2>2 DEF Sells
    <3>2. lines \in Seq(Nat) /\ calls'[c].stage = "sell" /\ calls'[c].on = i /\ calls'[c].saw = lines
      BY <3>1, BasketsAre, Begun DEF Sell
    <3> QED BY <3>2 DEF StockCall
  <2>3. ASSUME NEW i \in Items, EscalateAlert(c, i)
        PROVE  StockCall(calls'[c])
    <3>1. PICK level : level = alert[i].level + 1
      OBVIOUS
    <3>2. level \in 1..Len(Levels)
      BY <2>3, <3>1 DEF EscalateAlert, StockTables, InventoryTypeOK, AlertRows, Levels
    <3>3. calls'[c].stage = "escalate" /\ calls'[c].on = i /\ calls'[c].saw = level
      BY <2>3, <3>1, Begun DEF EscalateAlert
    <3> QED BY <3>2, <3>3 DEF StockCall
  <2>4. ASSUME NEW i \in Items, Receive(c, i, 1) \/ ResolveAlert(c, i)
        PROVE  StockCall(calls'[c])
    BY <2>4 DEF Receive, ResolveAlert, Once
  <2>5. ASSUME NEW r, NEW actor, \/ RequestAdjustment(c, r) \/ RequestTransfer(c, r) \/ Reassign(c, r, actor)
        PROVE  StockCall(calls'[c])
    BY <2>5 DEF RequestAdjustment, RequestTransfer, Reassign, Once
  <2>6. ASSUME NEW r, NEW actor, \/ ApproveAdjustment(c, r, actor) \/ ApproveTransfer(c, r, actor) \/ Reject(c, r, actor)
        PROVE  StockCall(calls'[c])
    <3>1. calls'[c].stage \in {"approve_adjustment", "approve_transfer", "reject"}
      BY <2>6, Begun DEF ApproveAdjustment, ApproveTransfer, Reject
    <3> QED BY <3>1 DEF StockCall
  <2> QED BY <1>8, <2>1, <2>2, <2>3, <2>4, <2>5, <2>6 DEF InventoryRequest, SignedRequest, Sells
<1>9. CASE InventoryStep(c)
  BY <1>1, <1>2, <1>3, <1>4, <1>5, <1>6, <1>7, <1>9 DEF InventoryStep
<1> QED BY <1>8, <1>9 DEF InventoryNext

-----------------------------------------------------------------------------
(* What moves stock is recorded, and takes no more than was found.         *)

\* What a step of handler c does to stock and movements.
MovesRightly(c) ==
    /\ stock' \in Holdings /\ moved' \in Holdings
    /\ StockFound(calls[c], stock) /\ AddsUp(stock, moved) =>
          AddsUp(stock', moved') /\ (NoneBelow(stock) => overdrawn' \/ NoneBelow(stock'))

LEMMA OneShift ==
    ASSUME NEW s \in Holdings, NEW m \in Holdings, AddsUp(s, m), NEW i \in Items, NEW k \in Buckets, NEW n \in Int,
           NEW v \in Int, NEW w \in Int, v = s[i][k] + n, w = m[i][k] + n,
           NEW t, NEW l, PutOne(s, t, i, k, v), PutOne(m, l, i, k, w)
    PROVE  /\ AddsUp(t, l)
           /\ NoneBelow(s) /\ v >= 0 => NoneBelow(t)
<1>1. t[i][k] = v /\ \A j \in Items, b \in Buckets : (j # i \/ b # k) => t[j][b] = s[j][b]
  BY OnePut
<1>2. l[i][k] = w /\ \A j \in Items, b \in Buckets : (j # i \/ b # k) => l[j][b] = m[j][b]
  BY OnePut
<1>3. AddsUp(t, l)
  <2> SUFFICES ASSUME NEW j \in Items, NEW b \in Buckets
               PROVE  t[j][b] = Opened[j][b] + l[j][b]
    BY DEF AddsUp
  <2>1. s[j][b] = Opened[j][b] + m[j][b] /\ s[j][b] \in Int /\ m[j][b] \in Int /\ Opened[j][b] \in Nat
    BY RequestsHave DEF AddsUp, Holdings
  <2>2. CASE j = i /\ b = k
    BY <1>1, <1>2, <2>1, <2>2
  <2>3. CASE j # i \/ b # k
    BY <1>1, <1>2, <2>1, <2>3
  <2> QED BY <2>2, <2>3
<1>4. ASSUME NoneBelow(s), v >= 0
      PROVE  NoneBelow(t)
  BY <1>1, <1>4 DEF NoneBelow
<1> QED BY <1>3, <1>4

LEMMA Untouched ==
    ASSUME StockTables, NEW c, stock' = stock, moved' = moved
    PROVE  MovesRightly(c)
BY Shelves DEF MovesRightly

\* One bucket, by n: what is written is the sum, or what the handler found it to be.
LEMMA OneMove ==
    ASSUME StockTables, NEW c, NEW i \in Items, NEW k \in Buckets, NEW n \in Int, NEW v \in Int, NEW w \in Int,
           StockFound(calls[c], stock) => v = stock[i][k] + n /\ (NoneBelow(stock) => v >= 0 \/ overdrawn'),
           w = moved[i][k] + n, PutOne(stock, stock', i, k, v), PutOne(moved, moved', i, k, w)
    PROVE  MovesRightly(c)
<1>1. stock \in Holdings /\ moved \in Holdings
  BY Shelves
<1>2. stock' \in Holdings /\ moved' \in Holdings
  BY <1>1, OnePut
<1>3. ASSUME StockFound(calls[c], stock), AddsUp(stock, moved)
      PROVE  AddsUp(stock', moved') /\ (NoneBelow(stock) => overdrawn' \/ NoneBelow(stock'))
  <2>1. v = stock[i][k] + n /\ (NoneBelow(stock) => v >= 0 \/ overdrawn')
    BY <1>3
  <2>2. AddsUp(stock', moved') /\ (NoneBelow(stock) /\ v >= 0 => NoneBelow(stock'))
    BY <1>1, <1>3, <2>1, OneShift
  <2> QED BY <2>1, <2>2
<1> QED BY <1>2, <1>3 DEF MovesRightly

LEMMA TwoMove ==
    ASSUME StockTables, NEW c, NEW i \in Items, NEW k \in Buckets, NEW j \in Items, NEW l \in Buckets, i # j \/ k # l,
           NEW n \in Int, NEW p \in Int, NEW v \in Int, NEW w \in Int, NEW x \in Int, NEW y \in Int,
           StockFound(calls[c], stock) =>
              /\ v = stock[i][k] + n /\ x = stock[j][l] + p
              /\ NoneBelow(stock) => v >= 0 /\ x >= 0,
           w = moved[i][k] + n, y = moved[j][l] + p,
           PutTwo(stock, stock', i, k, v, j, l, x), PutTwo(moved, moved', i, k, w, j, l, y)
    PROVE  MovesRightly(c)
<1>1. stock \in Holdings /\ moved \in Holdings
  BY Shelves
<1>2. /\ stock' \in Holdings /\ stock'[i][k] = v /\ stock'[j][l] = x
      /\ \A a \in Items, b \in Buckets : (a # i \/ b # k) /\ (a # j \/ b # l) => stock'[a][b] = stock[a][b]
  BY <1>1, TwoPut
<1>3. /\ moved' \in Holdings /\ moved'[i][k] = w /\ moved'[j][l] = y
      /\ \A a \in Items, b \in Buckets : (a # i \/ b # k) /\ (a # j \/ b # l) => moved'[a][b] = moved[a][b]
  BY <1>1, TwoPut
<1>4. ASSUME StockFound(calls[c], stock), AddsUp(stock, moved)
      PROVE  AddsUp(stock', moved')
  <2> SUFFICES ASSUME NEW a \in Items, NEW b \in Buckets
               PROVE  stock'[a][b] = Opened[a][b] + moved'[a][b]
    BY DEF AddsUp
  <2>1. stock[a][b] = Opened[a][b] + moved[a][b] /\ stock[a][b] \in Int /\ moved[a][b] \in Int /\ Opened[a][b] \in Nat
    BY <1>1, <1>4, RequestsHave DEF AddsUp, Holdings
  <2>2. CASE a = i /\ b = k
    BY <1>2, <1>3, <1>4, <2>1, <2>2
  <2>3. CASE a = j /\ b = l
    BY <1>2, <1>3, <1>4, <2>1, <2>3
  <2>4. CASE (a # i \/ b # k) /\ (a # j \/ b # l)
    BY <1>2, <1>3, <2>1, <2>4
  <2> QED BY <2>2, <2>3, <2>4
<1>5. ASSUME StockFound(calls[c], stock), NoneBelow(stock)
      PROVE  NoneBelow(stock')
  BY <1>2, <1>5 DEF NoneBelow
<1> QED BY <1>2, <1>3, <1>4, <1>5 DEF MovesRightly

LEMMA SoldTogether ==
    ASSUME NEW lines \in Seq(Nat)
    PROVE  /\ SumOver(DOMAIN lines, lines) \in Nat
           /\ Len(lines) > 1 \/ SumOver(DOMAIN lines, lines) = 0
              \/ (1 \in DOMAIN lines /\ SumOver(DOMAIN lines, lines) = lines[1])
<1>1. SumOver(DOMAIN lines, lines) \in Nat
  <2>1. IsFiniteSet(DOMAIN lines) /\ \A x \in DOMAIN lines : lines[x] \in Int
    BY LinesCounted
  <2> QED BY <2>1, SumIsNat
<1>2. CASE Len(lines) = 0
  <2>1. DOMAIN lines = {}
    BY <1>2
  <2>2. Units(DOMAIN lines, lines) = {}
    BY <2>1 DEF Units
  <2> QED BY <1>1, <2>2, FS_EmptySet DEF SumOver
<1>3. CASE Len(lines) = 1
  <2>a. DOMAIN lines = 1..Len(lines)
    OBVIOUS
  <2>b. \A n \in DOMAIN lines : lines[n] \in Nat
    OBVIOUS
  <2>c. DOMAIN lines = {1}
    <3>1. 1..1 = {1}
      OBVIOUS
    <3> QED BY <1>3, <2>a, <3>1
  <2>1. DOMAIN lines = {1} /\ lines[1] \in Nat
    BY <2>b, <2>c
  <2>2. Units({1}, lines) = {1} \X (1..lines[1])
    BY DEF Units
  <2>3. PICK one \in Int, n \in Int : one = 1 /\ n = lines[1] /\ n >= 0
    BY <2>1
  <2>4. IsFiniteSet(one..n) /\ Cardinality(one..n) = IF one > n THEN 0 ELSE n - one + 1
    BY <2>3, FS_Interval
  <2>5. IsFiniteSet({1}) /\ Cardinality({1}) = 1
    BY FS_Singleton
  <2>6. Cardinality({1} \X (one..n)) = 1 * Cardinality(one..n)
    BY <2>4, <2>5, FS_Product
  <2>7. Cardinality(one..n) = n
    BY <2>3, <2>4
  <2>8. SumOver(DOMAIN lines, lines) = Cardinality({1} \X (one..n))
    BY <2>1, <2>2, <2>3 DEF SumOver
  <2> QED BY <1>1, <2>1, <2>3, <2>6, <2>7, <2>8
<1>4. CASE Len(lines) > 1
  BY <1>1, <1>4
<1>5. PICK k \in Nat : k = Len(lines)
  OBVIOUS
<1>6. k = 0 \/ k = 1 \/ k > 1
  OBVIOUS
<1> QED BY <1>2, <1>3, <1>4, <1>5, <1>6

LEMMA InventoryMoves ==
    ASSUME StockTables, NEW c \in Callers, InventoryCall(calls[c]), StockCall(calls[c]), InventoryNext(c)
    PROVE  MovesRightly(c)
<1> DEFINE x == calls[c].on
<1>1. ASSUME NEW i \in Items, Receive(c, i, 1)
      PROVE  MovesRightly(c)
  <2>1. PICK v \in Int, w \in Int : v = stock[i]["STORE"] + 1 /\ w = moved[i]["STORE"] + 1
    BY Shelves, RequestsHave
  <2>2. PutOne(stock, stock', i, "STORE", v) /\ PutOne(moved, moved', i, "STORE", w)
    BY <1>1, <2>1 DEF Receive, Moved, PutOne
  <2>3. NoneBelow(stock) => v >= 0
    BY <2>1, RequestsHave, Shelves DEF NoneBelow
  <2> QED BY <2>1, <2>2, <2>3, OneMove, RequestsHave
<1>2. CASE WriteAllocated(c)
  <2>1. PICK s : s = calls[c].saw
    OBVIOUS
  <2>2. /\ x \in Items /\ s.from # s.to
        /\ s \in [from : Buckets, to : Buckets, qty : Nat, newFrom : Int, newTo : Int]
    BY <1>2, <2>1, Allocating DEF At, StockCall
  <2>a. /\ s.from \in Buckets /\ s.to \in Buckets /\ s.qty \in Nat
    BY <2>2
  <2>b. /\ stock[x][s.from] \in Int /\ stock[x][s.to] \in Int
        /\ moved[x][s.from] \in Int /\ moved[x][s.to] \in Int
    BY <2>2, <2>a, Shelves
  <2>3. PICK w \in Int, y \in Int : w = moved[x][s.from] - s.qty /\ y = moved[x][s.to] + s.qty
    BY <2>a, <2>b
  <2>4. PutTwo(stock, stock', x, s.from, s.newFrom, x, s.to, s.newTo)
    BY <1>2, <2>1, Zenon DEF WriteAllocated, PutTwo
  <2>5. PutTwo(moved, moved', x, s.from, w, x, s.to, y)
    BY <1>2, <2>1, <2>3, Zenon DEF WriteAllocated, PutTwo
  <2>7. PICK n \in Int, p \in Int : n = - s.qty /\ p = s.qty
    BY <2>a
  <2>6. StockFound(calls[c], stock) =>
           /\ s.newFrom = stock[x][s.from] + n /\ s.newTo = stock[x][s.to] + p
           /\ NoneBelow(stock) => s.newFrom >= 0 /\ s.newTo >= 0
    <3>1. StockFound(calls[c], stock) =>
             /\ s.newFrom = stock[x][s.from] - s.qty /\ s.newFrom >= 0
             /\ s.newTo = stock[x][s.to] + s.qty
      <4>1. calls[c].stage = "allocate"
        BY <1>2, Allocating DEF At
      <4> QED BY <2>1, <4>1 DEF StockFound
    <3>2. NoneBelow(stock) => stock[x][s.to] >= 0
      BY <2>2, <2>a DEF NoneBelow
    <3> QED BY <2>a, <2>b, <2>7, <3>1, <3>2
  <2>8. s.from \in Buckets /\ s.to \in Buckets /\ s.newFrom \in Int /\ s.newTo \in Int
    BY <2>2
  <2>9. PICK from \in Buckets, to \in Buckets, v \in Int, z \in Int :
           from = s.from /\ to = s.to /\ v = s.newFrom /\ z = s.newTo
    BY <2>8
  <2>10. /\ PutTwo(stock, stock', x, from, v, x, to, z)
         /\ PutTwo(moved, moved', x, from, w, x, to, y)
    BY <2>4, <2>5, <2>9
  <2>11. StockFound(calls[c], stock) =>
            /\ v = stock[x][from] + n /\ z = stock[x][to] + p
            /\ NoneBelow(stock) => v >= 0 /\ z >= 0
    BY <2>6, <2>9
  <2>12. w = moved[x][from] + n /\ y = moved[x][to] + p /\ from # to
    BY <2>2, <2>a, <2>b, <2>3, <2>7, <2>9
  <2>13. x \in Items
    BY <2>2
  <2> HIDE DEF x
  <2> QED BY <2>10, <2>11, <2>12, <2>13, TwoMove
<1>3. CASE WriteSold(c)
  <2>1. PICK lines \in Seq(Nat) : lines = calls[c].saw /\ x \in Items /\ calls[c].stage = "sell"
    BY <1>3 DEF WriteSold, At, StockCall
  <2>2. PICK sold \in Nat : sold = SumOver(DOMAIN lines, lines) /\ (~ Len(lines) > 1 => sold = 0 \/ (1 \in DOMAIN lines /\ sold = lines[1]))
    BY SoldTogether
  <2>3. stock[x]["SALES"] \in Int /\ moved[x]["SALES"] \in Int
    BY <2>1, Shelves, RequestsHave
  <2>4. PICK v \in Int, w \in Int, n \in Int : v = stock[x]["SALES"] - sold /\ w = moved[x]["SALES"] + (- sold) /\ n = - sold
    BY <2>3
  <2>5. /\ stock' = [stock EXCEPT ![x]["SALES"] = v] /\ moved' = [moved EXCEPT ![x]["SALES"] = w]
        /\ overdrawn' = (overdrawn \/ Len(lines) > 1)
    BY <1>3, <2>1, <2>2, <2>4 DEF WriteSold, Moved
  <2>6. PutOne(stock, stock', x, "SALES", v) /\ PutOne(moved, moved', x, "SALES", w)
    BY <2>5 DEF PutOne
  <2>7. StockFound(calls[c], stock) => v = stock[x]["SALES"] + n /\ (NoneBelow(stock) => v >= 0 \/ overdrawn')
    <3>1. v = stock[x]["SALES"] + n
      BY <2>3, <2>4
    <3>2. NoneBelow(stock) => stock[x]["SALES"] >= 0
      BY <2>1, RequestsHave DEF NoneBelow
    <3>3. StockFound(calls[c], stock) /\ 1 \in DOMAIN lines => stock[x]["SALES"] >= lines[1]
      BY <2>1 DEF StockFound
    <3>4. ~ Len(lines) > 1 /\ StockFound(calls[c], stock) /\ NoneBelow(stock) => v >= 0
      BY <2>2, <2>3, <2>4, <3>2, <3>3
    <3> QED BY <2>5, <3>1, <3>4
  <2>8. w = moved[x]["SALES"] + n /\ "SALES" \in Buckets /\ x \in Items
    BY <2>1, <2>4, RequestsHave
  <2> HIDE DEF x
  <2> QED BY <2>6, <2>7, <2>8, OneMove
<1>4. CASE WriteAdjustment(c)
  <2>1. x \in Adjustments /\ calls[c].saw \in Int
    BY <1>4, Adjusting DEF At, StockCall, InventoryCall
  <2>a. Change[x].item \in Items /\ Change[x].bucket \in Buckets /\ Change[x].qty \in Int
    BY <2>1, RequestsHave
  <2>2. PICK i \in Items, k \in Buckets, n \in Int : i = Change[x].item /\ k = Change[x].bucket /\ n = Change[x].qty
    BY <2>a
  <2>b. moved[i][k] \in Int
    BY Shelves
  <2>3. PICK w \in Int : w = moved[i][k] + n
    BY <2>b
  <2>4. PutOne(stock, stock', i, k, calls[c].saw) /\ PutOne(moved, moved', i, k, w)
    BY <1>4, <2>2, <2>3, Zenon DEF WriteAdjustment, Moved, PutOne
  <2>5. StockFound(calls[c], stock) => calls[c].saw = stock[i][k] + n /\ (NoneBelow(stock) => calls[c].saw >= 0)
    <3>1. calls[c].stage = "adjust"
      BY <1>4, Adjusting DEF At
    <3> QED BY <2>2, <3>1 DEF StockFound
  <2> HIDE DEF x
  <2> QED BY <2>1, <2>3, <2>4, <2>5, OneMove
<1>5. CASE WriteTransfer(c)
  <2>1. x \in StockTransfers
    BY <1>5, Transferring DEF At, InventoryCall
  <2>2. PICK m : m = Move[x]
    OBVIOUS
  <2>3. m.from \in Items /\ m.to \in Items /\ m.from # m.to /\ m.bucket \in Buckets /\ m.qty \in Nat
    BY <2>1, <2>2, RequestsHave
  <2>4. PICK n \in Int, p \in Int : n = - m.qty /\ p = m.qty
    BY <2>3
  <2>a. /\ stock[m.from][m.bucket] \in Int /\ stock[m.to][m.bucket] \in Int
        /\ moved[m.from][m.bucket] \in Int /\ moved[m.to][m.bucket] \in Int
    BY <2>3, Shelves
  <2>5. PICK v \in Int, z \in Int : v = stock[m.from][m.bucket] - m.qty /\ z = stock[m.to][m.bucket] + m.qty
    BY <2>3, <2>a
  <2>6. PICK w \in Int, y \in Int : w = moved[m.from][m.bucket] - m.qty /\ y = moved[m.to][m.bucket] + m.qty
    BY <2>3, <2>a
  <2>7. PutTwo(stock, stock', m.from, m.bucket, v, m.to, m.bucket, z)
    BY <1>5, <2>2, <2>5, Zenon DEF WriteTransfer, PutTwo
  <2>8. PutTwo(moved, moved', m.from, m.bucket, w, m.to, m.bucket, y)
    BY <1>5, <2>2, <2>6, Zenon DEF WriteTransfer, PutTwo
  <2>9. StockFound(calls[c], stock) =>
           /\ v = stock[m.from][m.bucket] + n /\ z = stock[m.to][m.bucket] + p
           /\ NoneBelow(stock) => v >= 0 /\ z >= 0
    <3>2. v = stock[m.from][m.bucket] + n /\ z = stock[m.to][m.bucket] + p
      BY <2>3, <2>4, <2>5, <2>a
    <3>3. StockFound(calls[c], stock) => v >= 0
      <4>1. At(c, "move")
        BY <1>5, Transferring
      <4>2. StockFound(calls[c], stock) => stock[m.from][m.bucket] >= m.qty
        BY <2>2, <4>1 DEF At, StockFound
      <4> QED BY <2>3, <2>5, <2>a, <4>2
    <3>4. NoneBelow(stock) => z >= 0
      <4>1. NoneBelow(stock) => stock[m.to][m.bucket] >= 0
        BY <2>3 DEF NoneBelow
      <4> QED BY <2>3, <2>5, <2>a, <4>1
    <3> QED BY <3>2, <3>3, <3>4
  <2>10. w = moved[m.from][m.bucket] + n /\ y = moved[m.to][m.bucket] + p
    BY <2>3, <2>4, <2>6, <2>a
  <2> HIDE DEF x
  <2> QED BY <2>3, <2>7, <2>8, <2>9, <2>10, TwoMove
<1>6. CASE \/ CheckLowStock(c) \/ OpenAlert(c) \/ WriteEscalated(c) \/ WriteAdjustmentApproval(c) \/ ApplyAdjustment(c)
           \/ FinishAdjustment(c)
  BY <1>6, Untouched, Applying DEF CheckLowStock, OpenAlert, WriteEscalated, WriteAdjustmentApproval,
                         FinishAdjustment, inventory
<1>7. CASE WriteTransferApproval(c) \/ RecheckTransfer(c) \/ WriteRejection(c) \/ FinishRejection(c)
  BY <1>7, Untouched DEF WriteTransferApproval, RecheckTransfer, WriteRejection, FinishRejection, inventory
<1>8. CASE InventoryRequest(c)
  <2>1. ASSUME NEW i \in Items, Receive(c, i, 1) \/ Sells(c, i) \/ ResolveAlert(c, i) \/ EscalateAlert(c, i)
        PROVE  MovesRightly(c)
    BY <1>1, <2>1, Untouched DEF Sells, Sell, ResolveAlert, EscalateAlert, inventory
  <2>2. ASSUME NEW i \in Items, NEW from, NEW to, Allocate(c, i, from, to, 1)
        PROVE  MovesRightly(c)
    BY <2>2, Untouched DEF Allocate, inventory
  <2>3. ASSUME NEW r, NEW actor, \/ RequestAdjustment(c, r) \/ RequestTransfer(c, r) \/ Reassign(c, r, actor)
        PROVE  MovesRightly(c)
    BY <2>3, Untouched DEF RequestAdjustment, RequestTransfer, Reassign, inventory
  <2>4. ASSUME NEW r, NEW actor, \/ ApproveAdjustment(c, r, actor) \/ ApproveTransfer(c, r, actor) \/ Reject(c, r, actor)
        PROVE  MovesRightly(c)
    BY <2>4, Untouched DEF ApproveAdjustment, ApproveTransfer, Reject, inventory
  <2> QED BY <1>8, <2>1, <2>2, <2>3, <2>4 DEF InventoryRequest, SignedRequest, Sells
<1>9. CASE InventoryStep(c)
  BY <1>2, <1>3, <1>4, <1>5, <1>6, <1>7, <1>9 DEF InventoryStep
<1> QED BY <1>8, <1>9 DEF InventoryNext

LEMMA TogetherIsNat ==
    ASSUME NEW lot \in Seq([line : Nat, qty : Nat])
    PROVE  Together(lot) \in Nat
<1>1. PICK w : w = [n \in DOMAIN lot |-> lot[n].qty]
  OBVIOUS
<1>2. \A n \in DOMAIN lot : lot[n] \in [line : Nat, qty : Nat]
  <2>1. PICK S : S = [line : Nat, qty : Nat]
    OBVIOUS
  <2>2. \A n \in DOMAIN lot : lot[n] \in S
    <3>1. lot \in Seq(S)
      BY <2>1
    <3> HIDE <2>1
    <3> QED BY <3>1
  <2> QED BY <2>1, <2>2
<1>3. IsFiniteSet(DOMAIN lot) /\ \A n \in DOMAIN lot : w[n] \in Int
  BY <1>1, <1>2, LinesCounted
<1> QED BY <1>1, <1>3, SumIsNat DEF Together

LEMMA ProcurementMovesStock ==
    ASSUME StockTables, NEW c \in Callers, ProcurementCall(calls[c]), ProcurementNext(c)
    PROVE  /\ MovesRightly(c) /\ alert' = alert /\ decision' = decision /\ applied' = applied
           /\ visit' = visit /\ overdrawn' = overdrawn
<1> DEFINE p == calls[c].on
<1>0. visit' = visit /\ overdrawn' = overdrawn
  BY DEF ProcurementNext, salon, ProcurementStep, ProcurementRequest, GoodsRequest, DraftOrder, EditOrder, RemoveOrder,
         SubmitOrder, ApproveOrder, RejectOrder, ReceiveGoods, AcceptGoods, RecordPayment, WriteEdited, WriteRemoved,
         WriteSubmitted, WriteOrderApproval, WriteUnderReview, WriteOrderApproved, ConvertToPurchase, WriteOrderRejection,
         WriteOrderRejected, CountDelivered, WriteDelivery, JudgeReview, WriteAcceptance, WritePayment, inventory
<1>1. CASE WriteAcceptance(c)
  <2>1. p \in PurchaseRequests /\ Together(calls[c].saw.entries) \in Nat
    <3>1. p \in PurchaseRequests /\ calls[c].saw \in Review
      BY <1>1, ProcurementStagesAre DEF WriteAcceptance, At, ProcurementCall
    <3> QED BY <3>1, TogetherIsNat DEF Review
  <2>2. PICK i \in Items, n \in Int : i = ItemOf[p] /\ n = Together(calls[c].saw.entries)
    BY <2>1, ProcurementAssumption
  <2>3. stock[i]["STORE"] \in Int /\ moved[i]["STORE"] \in Int /\ "STORE" \in Buckets
    BY Shelves, RequestsHave
  <2>4. PICK v \in Int, w \in Int : v = stock[i]["STORE"] + n /\ w = moved[i]["STORE"] + n
    BY <2>3
  <2>5. PutOne(stock, stock', i, "STORE", v) /\ PutOne(moved, moved', i, "STORE", w)
    BY <1>1, <2>2, <2>4, Zenon DEF WriteAcceptance, Moved, PutOne
  <2>6. NoneBelow(stock) => v >= 0
    <3>1. NoneBelow(stock) => stock[i]["STORE"] >= 0
      BY <2>3 DEF NoneBelow
    <3>2. n >= 0
      BY <2>1, <2>2
    <3> HIDE DEF p
    <3> QED BY <2>3, <2>4, <3>1, <3>2
  <2>7. MovesRightly(c)
    BY <2>3, <2>4, <2>5, <2>6, OneMove
  <2> QED BY <1>0, <1>1, <2>7 DEF WriteAcceptance
<1>2. CASE WriteEdited(c) \/ WriteRemoved(c) \/ WriteSubmitted(c) \/ WriteOrderApproval(c) \/ WriteUnderReview(c)
  BY <1>0, <1>2, Untouched DEF WriteEdited, WriteRemoved, WriteSubmitted, WriteOrderApproval, WriteUnderReview, inventory
<1>3. CASE WriteOrderApproved(c) \/ ConvertToPurchase(c) \/ WriteOrderRejection(c) \/ WriteOrderRejected(c) \/ CountDelivered(c)
  BY <1>0, <1>3, Untouched
     DEF WriteOrderApproved, ConvertToPurchase, WriteOrderRejection, WriteOrderRejected, CountDelivered, inventory
<1>4. CASE WriteDelivery(c) \/ JudgeReview(c) \/ WritePayment(c)
  BY <1>0, <1>4, Untouched DEF WriteDelivery, JudgeReview, WritePayment, inventory
<1>5. CASE ProcurementRequest(c)
  <2>1. UNCHANGED inventory
    BY <1>5 DEF ProcurementRequest, GoodsRequest, DraftOrder, EditOrder, RemoveOrder, SubmitOrder, ApproveOrder,
                RejectOrder, ReceiveGoods, AcceptGoods, RecordPayment
  <2> QED BY <1>0, <2>1, Untouched DEF inventory
<1>6. CASE ProcurementStep(c)
  BY <1>1, <1>2, <1>3, <1>4, <1>6 DEF ProcurementStep
<1> QED BY <1>5, <1>6 DEF ProcurementNext

\* What a completed booking takes of a bucket is there, unless an item is named twice.
LEMMA TakenIsThere ==
    ASSUME NEW row \in VisitRows, NEW s \in Holdings, NEW i \in Items, NEW k \in Buckets, NoneBelow(s),
           \A n \in DOMAIN row.goods : s[row.goods[n][1]][row.goods[n][2]] >= 1,
           s[i]["USAGE"] >= Uses(row, i),
           ~ (Named(row, <<i, k>>) > 1 \/ (Named(row, <<i, k>>) = 1 /\ k = "USAGE" /\ Uses(row, i) > 0))
    PROVE  s[i][k] >= Taken(row, i, k)
<1>1. row.goods \in Seq(Lines)
  BY DEF VisitRows
<1>2. Uses(row, i) \in Nat
  <2>1. row.services \in Seq(Menu) /\ {n \in DOMAIN row.services : Recipe[row.services[n]] = i} \in SUBSET DOMAIN row.services
    BY DEF VisitRows
  <2> QED BY <2>1, LinesCounted DEF Uses
<1>3. PICK these \in SUBSET DOMAIN row.goods : these = {n \in DOMAIN row.goods : row.goods[n] = <<i, k>>}
  OBVIOUS
<1>4. IsFiniteSet(these) /\ Cardinality(these) \in Nat /\ Named(row, <<i, k>>) = Cardinality(these)
  BY <1>1, <1>3, LinesCounted DEF Named
<1>5. s[i][k] \in Int /\ s[i][k] >= 0
  BY DEF Holdings, NoneBelow
<1>6. Named(row, <<i, k>>) # 0 => s[i][k] >= 1
  <2>1. these = {} => Cardinality(these) = 0
    BY FS_EmptySet
  <2>2. \A n \in these : s[i][k] >= 1
    BY <1>3
  <2> QED BY <1>4, <2>1, <2>2
<1>7. CASE k = "USAGE"
  BY <1>2, <1>4, <1>5, <1>6, <1>7 DEF Taken
<1>8. CASE k # "USAGE"
  BY <1>4, <1>5, <1>6, <1>8 DEF Taken
<1> QED BY <1>7, <1>8

LEMMA TakenIsNat ==
    ASSUME NEW row \in VisitRows, NEW i, NEW k
    PROVE  Taken(row, i, k) \in Nat
<1>1. row.goods \in Seq(Lines) /\ row.services \in Seq(Menu)
  BY DEF VisitRows
<1>2. Uses(row, i) \in Nat
  <2>1. {n \in DOMAIN row.services : Recipe[row.services[n]] = i} \in SUBSET DOMAIN row.services
    OBVIOUS
  <2> QED BY <1>1, <2>1, LinesCounted DEF Uses
<1>3. Named(row, <<i, k>>) \in Nat
  <2>1. {n \in DOMAIN row.goods : row.goods[n] = <<i, k>>} \in SUBSET DOMAIN row.goods
    OBVIOUS
  <2> QED BY <1>1, <2>1, LinesCounted DEF Named
<1> QED BY <1>2, <1>3 DEF Taken

LEMMA AlertRaised ==
    ASSUME StockTables, NEW i \in Items, alert' = [alert EXCEPT ![i] = [open |-> @.open + 1, level |-> 1]]
    PROVE  alert' \in [Items -> AlertRows]
<1>1. alert[i].open \in Nat
  BY DEF StockTables, InventoryTypeOK, AlertRows
<1>2. PICK row : row = [open |-> alert[i].open + 1, level |-> 1]
  OBVIOUS
<1>3. row \in AlertRows
  BY <1>1, <1>2 DEF AlertRows, Levels
<1>4. alert' = [alert EXCEPT ![i] = row]
  BY <1>2
<1> QED BY <1>3, <1>4 DEF StockTables, InventoryTypeOK

LEMMA SalonMovesStock ==
    ASSUME StockTables, NEW c \in Callers, SalonCall(calls[c]), SalonNext(c)
    PROVE  /\ stock' \in Holdings /\ moved' \in Holdings /\ alert' \in [Items -> AlertRows]
           /\ StockFound(calls[c], stock) /\ AddsUp(stock, moved) => AddsUp(stock', moved')
           /\ StockFound(calls[c], stock) /\ (overdrawn \/ NoneBelow(stock)) => (overdrawn' \/ NoneBelow(stock'))
<1>0. stock \in Holdings /\ moved \in Holdings /\ alert \in [Items -> AlertRows]
  BY Shelves DEF StockTables, InventoryTypeOK
<1>1. ASSUME UNCHANGED <<stock, moved, overdrawn>>, alert' \in [Items -> AlertRows]
      PROVE  /\ stock' \in Holdings /\ moved' \in Holdings /\ alert' \in [Items -> AlertRows]
             /\ StockFound(calls[c], stock) /\ AddsUp(stock, moved) => AddsUp(stock', moved')
             /\ StockFound(calls[c], stock) /\ (overdrawn \/ NoneBelow(stock)) => (overdrawn' \/ NoneBelow(stock'))
  BY <1>0, <1>1
<1>2. CASE RaiseAlert(c)
  <2>1. calls[c].saw \in Seq(Lines) /\ calls[c].saw # << >>
    BY <1>2 DEF RaiseAlert, At, SalonCall
  <2>2. calls[c].saw[1] \in Lines
    BY <2>1
  <2>3. PICK i \in Items : i = calls[c].saw[1][1]
    BY <2>2 DEF Lines
  <2>4. alert' = [alert EXCEPT ![i] = [open |-> @.open + 1, level |-> 1]]
    BY <1>2, <2>3 DEF RaiseAlert
  <2>5. UNCHANGED <<stock, moved, overdrawn>>
    BY <1>2 DEF RaiseAlert, salon
  <2> QED BY <1>1, <2>4, <2>5, AlertRaised
<1>3. CASE WriteCompletion(c) /\ ~ UNCHANGED <<stock, moved, overdrawn>>
  <2>1. PICK row : row = calls[c].saw
    OBVIOUS
  <2>2. row \in VisitRows /\ calls[c].stage = "complete_visit" /\ alert' = alert
    BY <1>3, <2>1 DEF WriteCompletion, At, SalonCall
  <2>3. /\ stock' = [i \in Items |-> [k \in Buckets |-> stock[i][k] - Taken(row, i, k)]]
        /\ moved' = [i \in Items |-> [k \in Buckets |-> moved[i][k] - Taken(row, i, k)]]
        /\ overdrawn' = (overdrawn \/ \E i \in Items, k \in Buckets :
                 Named(row, <<i, k>>) > 1 \/ (Named(row, <<i, k>>) = 1 /\ k = "USAGE" /\ Uses(row, i) > 0))
    BY <1>3, <2>1 DEF WriteCompletion, books
  <2>4. \A i \in Items, k \in Buckets :
            /\ stock[i][k] \in Int /\ moved[i][k] \in Int /\ Taken(row, i, k) \in Nat
            /\ stock'[i][k] = stock[i][k] - Taken(row, i, k) /\ moved'[i][k] = moved[i][k] - Taken(row, i, k)
    <3>1. ASSUME NEW i \in Items, NEW k \in Buckets PROVE Taken(row, i, k) \in Nat
      BY <2>2, TakenIsNat
    <3>2. ASSUME NEW i \in Items, NEW k \in Buckets
          PROVE  stock'[i][k] = stock[i][k] - Taken(row, i, k) /\ moved'[i][k] = moved[i][k] - Taken(row, i, k)
      BY <2>3
    <3> QED BY <3>1, <3>2, Shelves
  <2>5. stock' \in Holdings /\ moved' \in Holdings
    <3>1. \A i \in Items, k \in Buckets : stock[i][k] - Taken(row, i, k) \in Int /\ moved[i][k] - Taken(row, i, k) \in Int
      BY <2>4
    <3> QED BY <2>3, <3>1 DEF Holdings
  <2>6. AddsUp(stock, moved) => AddsUp(stock', moved')
    <3>1. \A i \in Items, k \in Buckets : Opened[i][k] \in Nat
      BY RequestsHave
    <3> SUFFICES ASSUME AddsUp(stock, moved), NEW i \in Items, NEW k \in Buckets
                 PROVE  stock'[i][k] = Opened[i][k] + moved'[i][k]
      BY DEF AddsUp
    <3>2. stock[i][k] = Opened[i][k] + moved[i][k]
      BY DEF AddsUp
    <3> QED BY <2>4, <3>1, <3>2
  <2>7. ASSUME StockFound(calls[c], stock), NoneBelow(stock), ~ overdrawn'
        PROVE  NoneBelow(stock')
    <3> SUFFICES ASSUME NEW i \in Items, NEW k \in Buckets PROVE stock'[i][k] >= 0
      BY DEF NoneBelow
    <3>1. ~ (Named(row, <<i, k>>) > 1 \/ (Named(row, <<i, k>>) = 1 /\ k = "USAGE" /\ Uses(row, i) > 0))
      BY <2>3, <2>7
    <3>2. /\ \A n \in DOMAIN row.goods : stock[row.goods[n][1]][row.goods[n][2]] >= 1
          /\ stock[i]["USAGE"] >= Uses(row, i)
      BY <2>1, <2>2, <2>7 DEF StockFound
    <3>3. stock[i][k] >= Taken(row, i, k)
      BY <1>0, <2>2, <2>7, <3>1, <3>2, TakenIsThere
    <3> QED BY <2>4, <3>3
  <2>8. overdrawn => overdrawn'
    BY <2>3
  <2> QED BY <1>0, <2>2, <2>5, <2>6, <2>7, <2>8
<1>4. ASSUME SalonNext(c), ~ RaiseAlert(c), ~ WriteCompletion(c)
      PROVE  UNCHANGED <<stock, moved, alert, overdrawn>>
  <2>1. CASE FindOrCreateCustomer(c) \/ CreateCustomer(c) \/ ValidateDiscount(c) \/ WriteBooking(c) \/ VerifyFound(c)
    BY <2>1 DEF FindOrCreateCustomer, CreateCustomer, ValidateDiscount, WriteBooking, VerifyFound, inventory, books, salon
  <2>2. CASE WriteReservationUsed(c) \/ WriteVisitStatus(c) \/ ReplaceServices(c) \/ ReplaceGoods(c) \/ WriteDetails(c)
    BY <2>2 DEF WriteReservationUsed, WriteVisitStatus, ReplaceServices, ReplaceGoods, WriteDetails, inventory, books
  <2>3. CASE WriteGoods(c) \/ WriteService(c) \/ Recompute(c) \/ WriteTotal(c) \/ CheckRecipes(c) \/ LookAtLines(c)
    BY <2>3 DEF WriteGoods, WriteService, Recompute, WriteTotal, CheckRecipes, LookAtLines, inventory, books, salon
  <2>4. CASE SalonRequest(c)
    BY <2>4 DEF SalonRequest, DeskRequest, ServingRequest, Create, Reserve, DeleteBooking, Complete, VerifyReservation, VerifyReservationAnywhere,
                SetVisit, EditBooking, AddInventoryItem, AddServiceToCompletedBooking, inventory, books, salon
  <2> QED BY <1>4, <2>1, <2>2, <2>3, <2>4 DEF SalonNext, SalonStep
<1>5. CASE WriteCompletion(c) /\ UNCHANGED <<stock, moved, overdrawn>>
  <2>1. alert' = alert
    BY <1>5 DEF WriteCompletion
  <2> QED BY <1>0, <1>1, <1>5, <2>1
<1> QED BY <1>0, <1>1, <1>2, <1>3, <1>4, <1>5

\* What requests say they were decided to be.
Outcomes(d) ==
    /\ d \in [Adjustments \cup StockTransfers -> Decisions]
    /\ \A a \in Adjustments : d[a] \in AdjustmentStatuses
    /\ \A t \in StockTransfers : d[t] \in TransferStatuses

LEMMA OutcomeSet ==
    ASSUME StockTables, NEW r \in Adjustments \cup StockTransfers, NEW v \in {"PENDING", "APPROVED", "COMPLETED", "REJECTED"},
           r \in Adjustments => v # "COMPLETED", r \in StockTransfers => v # "APPROVED",
           decision' = [decision EXCEPT ![r] = v]
    PROVE  Outcomes(decision')
BY DEF Outcomes, StockTables, InventoryTypeOK, Decisions, AdjustmentStatuses, TransferStatuses

LEMMA Counted ==
    ASSUME StockTables, NEW r \in Adjustments \cup StockTransfers, applied' = [applied EXCEPT ![r] = @ + 1]
    PROVE  applied' \in [Adjustments \cup StockTransfers -> Nat]
BY DEF StockTables

LEMMA InventoryTables ==
    ASSUME StockTables, NEW c \in Callers, InventoryCall(calls[c]), StockCall(calls[c]), InventoryNext(c)
    PROVE  StockTables'
<1> DEFINE x == calls[c].on
           A == alert' \in [Items -> AlertRows]
           D == Outcomes(decision')
           N == applied' \in [Adjustments \cup StockTransfers -> Nat]
<1>0. stock' \in Holdings /\ moved' \in Holdings
  BY InventoryMoves DEF MovesRightly
<1>1. (alert' = alert => A) /\ (decision' = decision => D) /\ (applied' = applied => N)
  BY DEF StockTables, InventoryTypeOK, Outcomes
<1>a. /\ alert' \in [Items -> AlertRows] => A
      /\ Outcomes(decision') => D
      /\ applied' \in [Adjustments \cup StockTransfers -> Nat] => N
  OBVIOUS
<1>b. A /\ D /\ N => /\ alert' \in [Items -> AlertRows] /\ Outcomes(decision')
                     /\ applied' \in [Adjustments \cup StockTransfers -> Nat]
  OBVIOUS
<1> HIDE DEF A, D, N
<1> SUFFICES A /\ D /\ N
  BY <1>0, <1>b DEF StockTables, InventoryTypeOK, Outcomes, Holdings, StockRows
<1>2. Adjustments \cap StockTransfers = {}
  BY DecidedAssumption
<1>3. CASE OpenAlert(c)
  <2>1. PICK i \in Items : i = x
    BY <1>3 DEF OpenAlert, At, StockCall
  <2>2. alert' = [alert EXCEPT ![i] = [open |-> @.open + 1, level |-> 1]]
    BY <1>3, <2>1 DEF OpenAlert
  <2> QED BY <1>1, <1>3, <2>2, <1>a, AlertRaised DEF OpenAlert
<1>4. ASSUME NEW i \in Items, ResolveAlert(c, i)
      PROVE  A /\ D /\ N
  <2>1. alert[i] \in AlertRows /\ alert[i].open > 0 /\ alert \in [Items -> AlertRows]
    BY <1>4 DEF ResolveAlert, StockTables, InventoryTypeOK
  <2>2. PICK row : row = [alert[i] EXCEPT !.open = @ - 1]
    OBVIOUS
  <2>3. row \in AlertRows
    BY <2>1, <2>2 DEF AlertRows
  <2>4. alert' = [alert EXCEPT ![i] = row]
    BY <1>4, <2>2 DEF ResolveAlert
  <2> QED BY <1>1, <1>a, <1>4, <2>1, <2>3, <2>4 DEF ResolveAlert
<1>5. CASE WriteEscalated(c)
  <2>1. x \in Items /\ calls[c].saw \in 1..Len(Levels)
    BY <1>5 DEF WriteEscalated, At, StockCall
  <2>2. PICK row : row = [alert[x] EXCEPT !.level = calls[c].saw]
    OBVIOUS
  <2>3. row \in AlertRows /\ alert \in [Items -> AlertRows]
    BY <2>1, <2>2 DEF StockTables, InventoryTypeOK, AlertRows
  <2>4. alert' = [alert EXCEPT ![x] = row]
    BY <1>5, <2>2 DEF WriteEscalated
  <2> QED BY <1>1, <1>a, <1>5, <2>1, <2>3, <2>4 DEF WriteEscalated
<1>6. CASE WriteAdjustment(c)
  <2>1. x \in Adjustments \cup StockTransfers
    BY <1>6, Adjusting DEF At, InventoryCall
  <2> QED BY <1>1, <1>6, <1>a, <2>1, Counted, Adjusting
<1>7. CASE WriteTransfer(c)
  <2>1. x \in StockTransfers
    BY <1>7, Transferring DEF At, InventoryCall
  <2>2. N
    BY <1>7, <1>a, <2>1, Counted, Transferring
  <2>3. decision' = [decision EXCEPT ![x] = "COMPLETED"] /\ alert' = alert
    BY <1>7, Transferring
  <2> QED BY <1>1, <1>2, <2>1, <2>2, <2>3, <1>a, OutcomeSet
<1>8. CASE FinishAdjustment(c) \/ FinishRejection(c)
  <2>1. /\ x \in Adjustments \cup StockTransfers
        /\ FinishAdjustment(c) => x \in Adjustments
    BY <1>8 DEF FinishAdjustment, FinishRejection, At, InventoryCall
  <2>2. D
    BY <1>2, <1>8, <2>1, <1>a, OutcomeSet DEF FinishAdjustment, FinishRejection
  <2> QED BY <1>1, <1>8, <2>2 DEF FinishAdjustment, FinishRejection
<1>9. ASSUME NEW r \in Adjustments \cup StockTransfers, RequestAdjustment(c, r) \/ RequestTransfer(c, r)
      PROVE  A /\ D /\ N
  <2>1. decision' = [decision EXCEPT ![r] = "PENDING"]
    BY <1>9 DEF RequestAdjustment, RequestTransfer
  <2>2. D
    BY <1>a, <2>1, OutcomeSet
  <2> QED BY <1>1, <1>9, <2>2 DEF RequestAdjustment, RequestTransfer
<1>10. CASE WriteAllocated(c) \/ CheckLowStock(c) \/ WriteSold(c) \/ WriteAdjustmentApproval(c) \/ ApplyAdjustment(c)
  BY <1>1, <1>10, Allocating, Applying DEF CheckLowStock, WriteSold, WriteAdjustmentApproval, inventory
<1>11. CASE WriteTransferApproval(c) \/ RecheckTransfer(c) \/ WriteRejection(c)
  BY <1>1, <1>11 DEF WriteTransferApproval, RecheckTransfer, WriteRejection, inventory
<1>12. CASE InventoryRequest(c)
  <2>1. ASSUME NEW i \in Items, Receive(c, i, 1) \/ Sells(c, i) \/ ResolveAlert(c, i) \/ EscalateAlert(c, i)
        PROVE  A /\ D /\ N
    BY <1>1, <1>4, <2>1 DEF Receive, Sells, Sell, EscalateAlert, inventory
  <2>2. ASSUME NEW i \in Items, NEW from, NEW to, Allocate(c, i, from, to, 1)
        PROVE  A /\ D /\ N
    BY <1>1, <2>2 DEF Allocate, inventory
  <2>3. ASSUME NEW r \in Adjustments \cup StockTransfers, NEW actor,
               \/ RequestAdjustment(c, r) \/ RequestTransfer(c, r) \/ Reassign(c, r, actor)
               \/ ApproveAdjustment(c, r, actor) \/ ApproveTransfer(c, r, actor) \/ Reject(c, r, actor)
        PROVE  A /\ D /\ N
    BY <1>1, <1>9, <2>3 DEF ApproveAdjustment, ApproveTransfer, Reject, Reassign, inventory
  <2> QED BY <1>12, <2>1, <2>2, <2>3 DEF InventoryRequest, SignedRequest, Sells
<1> QED BY <1>3, <1>5, <1>6, <1>7, <1>8, <1>10, <1>11, <1>12 DEF InventoryNext, InventoryStep

-----------------------------------------------------------------------------
(* Each request moves stock once.                                          *)

\* What a step of handler c leaves true of the requests.
AppliesRightly(c) ==
    /\ \A r \in Adjustments \cup StockTransfers : AppliedOnce(r, approval'[r], applied'[r])
    /\ RequestFound(calls'[c], approval'[calls'[c].on], applied'[calls'[c].on])

LEMMA OnceStays ==
    ASSUME NEW r, NEW row, NEW new, NEW n, AppliedOnce(r, row, n),
           Chain[r] = 0 /\ new.status \in {"none", "PENDING"} => row.status \in {"none", "PENDING"}
    PROVE  AppliedOnce(r, new, n)
BY DEF AppliedOnce

LEMMA OneRequest ==
    ASSUME NEW c, \A r \in Adjustments \cup StockTransfers : AppliedOnce(r, approval[r], applied[r]), applied' = applied,
           NEW x, \A r \in Requests \ {x} : approval'[r] = approval[r],
           Chain[x] = 0 /\ approval'[x].status \in {"none", "PENDING"} => approval[x].status \in {"none", "PENDING"},
           RequestFound(calls'[c], approval'[calls'[c].on], applied[calls'[c].on])
    PROVE  AppliesRightly(c)
<1>1. \A r \in Adjustments \cup StockTransfers : r # x => AppliedOnce(r, approval'[r], applied[r])
  BY DecidedAssumption
<1>2. x \in Adjustments \cup StockTransfers => AppliedOnce(x, approval'[x], applied[x])
  BY OnceStays
<1> QED BY <1>1, <1>2 DEF AppliesRightly

\* The action leaves requests alone, and the handler goes where nothing was decided.
LEMMA NoRequest ==
    ASSUME NEW c, \A r \in Adjustments \cup StockTransfers : AppliedOnce(r, approval[r], applied[r]),
           approval' = approval, applied' = applied,
           \/ calls'[c].stage \notin Deciding \cup Decided
           \/ RequestFound(calls'[c], approval[calls'[c].on], applied[calls'[c].on])
    PROVE  AppliesRightly(c)
<1>1. RequestFound(calls'[c], approval[calls'[c].on], applied[calls'[c].on])
  BY NothingDecided
<1> QED BY <1>1 DEF AppliesRightly

LEMMA InventoryApplies ==
    ASSUME SignedInv, StockTables, NEW c \in Callers, InventoryNext(c),
           \A r \in Adjustments \cup StockTransfers : AppliedOnce(r, approval[r], applied[r]),
           RequestFound(calls[c], approval[calls[c].on], applied[calls[c].on])
    PROVE  AppliesRightly(c)
<1> DEFINE x == calls[c].on
           call == calls'[c]
<1>0. Shape /\ InventoryCall(calls[c]) /\ Vouched(calls[c], approval[x])
  BY DEF SignedInv, Handled, CallsTyped, CallsVouched
<1>a. \A s \in {"idle", "alert", "open_alert", "adjusted", "allocate", "sell", "escalate", "reject", "rejected"} :
          s \notin Deciding \cup Decided
  BY DEF Deciding, Decided
<1>1. CASE WriteAllocated(c) \/ WriteSold(c)
  <2>1. call.stage = "alert" /\ approval' = approval /\ applied' = applied
    BY <1>0, <1>1, Continued, Allocating DEF WriteSold
  <2> QED BY <1>a, <2>1, NoRequest
<1>2. CASE CheckLowStock(c) \/ OpenAlert(c)
  <2>1. approval' = approval /\ applied' = applied /\ (Goto(c, "open_alert", calls[c].saw) \/ Finish(c))
    BY <1>2 DEF CheckLowStock, OpenAlert, inventory
  <2>2. Finish(c) => Return(c) \/ call.stage = "adjusted"
    BY <1>0, Continued DEF Finish
  <2>3. call.stage \in {"idle", "open_alert", "adjusted"}
    BY <1>0, <2>1, <2>2, Gone, Returned
  <2> QED BY <1>a, <2>1, <2>3, NoRequest
<1>3. CASE WriteEscalated(c) \/ FinishAdjustment(c) \/ FinishRejection(c)
  <2>1. approval' = approval /\ applied' = applied /\ Return(c)
    BY <1>3 DEF WriteEscalated, FinishAdjustment, FinishRejection
  <2>2. call.stage = "idle"
    BY <1>0, <2>1, Returned
  <2> QED BY <1>a, <2>1, <2>2, NoRequest
<1>4. CASE WriteAdjustmentApproval(c) \/ WriteTransferApproval(c)
  <2>1. /\ calls[c].stage \in Deciding /\ x \in Adjustments \cup StockTransfers /\ x \in Requests
        /\ calls[c].stage \in Signing /\ applied' = applied
    BY <1>0, <1>4, DecidedAssumption, JudgingStagesAre
       DEF WriteAdjustmentApproval, WriteTransferApproval, At, Deciding, InventoryCall, inventory
  <2>2. WriteApproved(x, calls[c].saw.stage, calls[c].saw.actor)
    BY <1>4 DEF WriteAdjustmentApproval, WriteTransferApproval
  <2>3. \A r \in Requests \ {x} : approval'[r] = approval[r]
    BY <2>1, <2>2 DEF WriteApproved, SignedInv, RequestRows
  <2>4. Chain[x] = 0 => approval'[x].status = "APPROVED"
    <3>1. Chain[x] = 0 => calls[c].saw.stage = 0
      BY <1>0, <2>1 DEF Vouched, StageOf
    <3>2. PICK next, n : n = calls[c].saw.stage /\ next = NextStage(x, n)
      OBVIOUS
    <3>3. approval' = [approval EXCEPT ![x] =
              [status |-> IF n > 0 /\ next > 0 THEN @.status ELSE "APPROVED",
               stage  |-> IF n > 0 THEN next ELSE @.stage,
               assigned |-> IF n > 0 /\ next = 0 THEN FALSE ELSE @.assigned,
               signed |-> @.signed \cup {<<n, calls[c].saw.actor>>}]]
      BY <2>2, <3>2 DEF WriteApproved
    <3>4. approval'[x].status = IF n > 0 /\ next > 0 THEN approval[x].status ELSE "APPROVED"
      BY <2>1, <3>3 DEF SignedInv, RequestRows
    <3> QED BY <3>1, <3>2, <3>4
  <2>5. call.on = x /\ call.stage \notin Deciding
    BY <1>0, <1>4, Gone DEF WriteAdjustmentApproval, WriteTransferApproval, Deciding
  <2>6. Chain[x] = 0 => applied[x] = 0
    BY <2>1 DEF RequestFound, AppliedOnce
  <2>7. RequestFound(call, approval'[call.on], applied[call.on])
    BY <2>4, <2>5, <2>6 DEF RequestFound
  <2> HIDE DEF call, x
  <2> QED BY <2>1, <2>3, <2>4, <2>7, OneRequest DEF call
<1>5. CASE ApplyAdjustment(c) \/ RecheckTransfer(c)
  <2>1. approval' = approval /\ applied' = applied
    BY <1>5, Applying DEF RecheckTransfer, inventory
  <2>2. Return(c) \/ (call.stage \in Decided /\ call.on = x /\ calls[c].stage \in Decided)
    <3>1. CASE ApplyAdjustment(c)
      <4>1. Return(c) \/ \E new : Goto(c, "adjust", new)
        BY <3>1, Applying, Zenon
      <4> QED BY <1>0, <3>1, <4>1, Gone, Applying DEF At, Decided
    <3>2. CASE RecheckTransfer(c)
      BY <1>0, <3>2, Gone DEF RecheckTransfer, At, Decided
    <3> QED BY <1>5, <3>1, <3>2
  <2>3. ASSUME call.stage \in Decided, call.on = x, calls[c].stage \in Decided
        PROVE  RequestFound(call, approval[call.on], applied[call.on])
    BY <2>3 DEF RequestFound, Deciding, Decided
  <2> QED BY <1>0, <1>a, <2>1, <2>2, <2>3, NoRequest, Returned
<1>6. CASE WriteAdjustment(c) \/ WriteTransfer(c)
  <2>1. calls[c].stage \in Decided /\ x \in Adjustments \cup StockTransfers /\ approval' = approval
    BY <1>0, <1>6, Adjusting, Transferring DEF At, Decided, InventoryCall
  <2>2. applied' = [applied EXCEPT ![x] = @ + 1]
    BY <1>6, Adjusting, Transferring
  <2>3. \A r \in Adjustments \cup StockTransfers : applied'[r] = IF r = x THEN applied[r] + 1 ELSE applied[r]
    BY <2>2 DEF StockTables
  <2>4. Chain[x] = 0 => approval[x].status \notin {"none", "PENDING"} /\ applied[x] = 0
    BY <2>1 DEF RequestFound
  <2>5. call.stage \in {"alert", "adjusted"}
    <3>1. CASE Goto(c, "adjusted", 0)
      BY <1>0, <3>1, Gone
    <3>2. CASE ~ Goto(c, "adjusted", 0)
      <4>1. \E on, saw : Continue(c, [stage |-> "alert", on |-> on, saw |-> saw])
        BY <1>6, <3>2, Adjusting, Transferring
      <4> QED BY <1>0, <4>1, Continued
    <3> QED BY <3>1, <3>2
  <2>6. AppliedOnce(x, approval[x], applied'[x])
    BY <2>1, <2>3, <2>4 DEF AppliedOnce
  <2>7. \A r \in Adjustments \cup StockTransfers : AppliedOnce(r, approval[r], applied'[r])
    BY <2>3, <2>6
  <2> QED BY <1>a, <2>1, <2>5, <2>7, NothingDecided DEF AppliesRightly
<1>7. CASE WriteRejection(c)
  <2>1. x \in Requests /\ WriteRejected(x) /\ applied' = applied /\ call.stage = "rejected"
    BY <1>0, <1>7, Gone, DecidedAssumption DEF WriteRejection, At, InventoryCall, inventory
  <2>2. /\ approval'[x] = [approval[x] EXCEPT !.status = "REJECTED"]
        /\ \A r \in Requests \ {x} : approval'[r] = approval[r]
    BY <2>1 DEF WriteRejected, SignedInv, RequestRows
  <2>3. approval[x] \in ApprovalRows
    BY <2>1 DEF SignedInv, RequestRows
  <2>4. approval'[x].status = "REJECTED"
    BY <2>2, <2>3 DEF ApprovalRows
  <2>5. RequestFound(call, approval'[call.on], applied[call.on])
    BY <1>a, <2>1, NothingDecided
  <2> HIDE DEF call, x
  <2> QED BY <2>1, <2>2, <2>4, <2>5, OneRequest DEF call
<1>8. CASE InventoryRequest(c)
  <2>1. ASSUME NEW i \in Items, Receive(c, i, 1) \/ ResolveAlert(c, i)
        PROVE  AppliesRightly(c)
    <3>1. approval' = approval /\ applied' = applied /\ call = calls[c]
      BY <2>1 DEF Receive, ResolveAlert, Once
    <3> QED BY <3>1, NoRequest
  <2>2. ASSUME NEW i \in Items, NEW from, NEW to, Sells(c, i) \/ EscalateAlert(c, i) \/ Allocate(c, i, from, to, 1)
        PROVE  AppliesRightly(c)
    <3>1. approval' = approval /\ applied' = applied /\ call.stage \in {"sell", "escalate", "allocate"}
      BY <1>0, <2>2, Begun DEF Sells, Sell, EscalateAlert, Allocate, inventory
    <3> QED BY <1>a, <3>1, NoRequest
  <2>3. ASSUME NEW r \in Adjustments \cup StockTransfers, RequestAdjustment(c, r) \/ RequestTransfer(c, r)
        PROVE  AppliesRightly(c)
    <3>1. /\ decision[r] = "none" /\ Submit(r) /\ applied' = applied /\ r \in Requests
          /\ call = calls[c] /\ calls[c].stage = "idle"
      BY <2>3, DecidedAssumption DEF RequestAdjustment, RequestTransfer, Once, Ready, At
    <3>2. approval[r].status = "none"
      BY <3>1 DEF SignedInv, Undecided
    <3>3. \A y \in Requests \ {r} : approval'[y] = approval[y]
      BY <3>1 DEF Submit, SignedInv, RequestRows
    <3>4. RequestFound(call, approval'[call.on], applied[call.on])
      BY <1>a, <3>1, NothingDecided
    <3> HIDE DEF call, x
    <3> QED BY <3>1, <3>2, <3>3, <3>4, OneRequest DEF call
  <2>4. ASSUME NEW r \in Adjustments \cup StockTransfers, NEW actor, ApproveAdjustment(c, r, actor) \/ ApproveTransfer(c, r, actor)
        PROVE  AppliesRightly(c)
    <3>1. /\ approval' = approval /\ applied' = applied /\ approval[r].status = "PENDING" /\ call.on = r
          /\ call.stage \in Deciding
      BY <1>0, <2>4, Begun DEF ApproveAdjustment, ApproveTransfer, Actionable, Deciding, inventory
    <3>2. RequestFound(call, approval[call.on], applied[call.on])
      BY <3>1 DEF RequestFound, Deciding, Decided
    <3> QED BY <3>1, <3>2, NoRequest
  <2>5. ASSUME NEW r \in Adjustments \cup StockTransfers, NEW actor, Reject(c, r, actor)
        PROVE  AppliesRightly(c)
    <3>1. approval' = approval /\ applied' = applied /\ call.stage = "reject"
      BY <1>0, <2>5, Begun DEF Reject, inventory
    <3> QED BY <1>a, <3>1, NoRequest
  <2>6. ASSUME NEW r \in Adjustments \cup StockTransfers, NEW actor, Reassign(c, r, actor)
        PROVE  AppliesRightly(c)
    <3>1. /\ WriteReassigned(r) /\ applied' = applied /\ r \in Requests
          /\ call = calls[c] /\ calls[c].stage = "idle"
      BY <2>6, DecidedAssumption DEF Reassign, Once, Ready, At, inventory
    <3>2. /\ approval'[r] = [approval[r] EXCEPT !.assigned = TRUE] /\ approval[r] \in ApprovalRows
          /\ \A y \in Requests \ {r} : approval'[y] = approval[y]
      BY <3>1 DEF WriteReassigned, SignedInv, RequestRows
    <3>3. approval'[r].status = approval[r].status
      BY <3>2 DEF ApprovalRows
    <3>4. RequestFound(call, approval'[call.on], applied[call.on])
      BY <1>a, <3>1, NothingDecided
    <3> HIDE DEF call, x
    <3> QED BY <3>1, <3>2, <3>3, <3>4, OneRequest DEF call
  <2> QED BY <1>8, <2>1, <2>2, <2>3, <2>4, <2>5, <2>6 DEF InventoryRequest, SignedRequest, Sells
<1>9. CASE InventoryStep(c)
  BY <1>1, <1>2, <1>3, <1>4, <1>5, <1>6, <1>7, <1>9 DEF InventoryStep
<1> QED BY <1>8, <1>9 DEF InventoryNext

-----------------------------------------------------------------------------
(* What a handler finds holds when it goes on.                             *)

LEMMA InventoryFinds ==
    ASSUME Shape, StockTables, NEW c \in Callers, InventoryCall(calls[c]), InventoryNext(c)
    PROVE  StockFound(calls'[c], stock')
<1> DEFINE x == calls[c].on
           call == calls'[c]
<1>0. ASSUME call.stage \in {"idle", "alert", "open_alert", "adjusted", "escalate", "reject", "rejected", "apply",
                             "recheck", "approve_adjustment", "approve_transfer"}
      PROVE  StockFound(call, stock')
  BY <1>0, NothingFound
<1> HIDE DEF call
<1>1. CASE WriteAllocated(c) \/ WriteSold(c) \/ WriteTransfer(c)
  <2>1. \E on, saw : Continue(c, [stage |-> "alert", on |-> on, saw |-> saw])
    BY <1>1, Allocating, Transferring DEF WriteSold
  <2>2. call.stage = "alert"
    BY <2>1, Continued DEF call
  <2> QED BY <1>0, <2>2 DEF call
<1>2. CASE CheckLowStock(c) \/ OpenAlert(c)
  <2>1. Goto(c, "open_alert", calls[c].saw) \/ Finish(c)
    BY <1>2 DEF CheckLowStock, OpenAlert
  <2>2. Finish(c) => Return(c) \/ call.stage = "adjusted"
    BY Continued DEF Finish, call
  <2>3. call.stage \in {"idle", "open_alert", "adjusted"}
    BY <2>1, <2>2, Gone, Returned DEF call
  <2> QED BY <1>0, <2>3 DEF call
<1>3. CASE WriteEscalated(c) \/ FinishAdjustment(c) \/ FinishRejection(c)
  <2>1. call.stage = "idle"
    BY <1>3, Returned DEF WriteEscalated, FinishAdjustment, FinishRejection, call
  <2> QED BY <1>0, <2>1 DEF call
<1>4. CASE WriteAdjustmentApproval(c) \/ WriteTransferApproval(c) \/ WriteRejection(c)
  <2>1. call.stage \in {"apply", "recheck", "rejected"}
    BY <1>4, Gone DEF WriteAdjustmentApproval, WriteTransferApproval, WriteRejection, call
  <2> QED BY <1>0, <2>1 DEF call
<1>5. CASE ApplyAdjustment(c)
  <2>1. x \in Adjustments /\ stock' = stock
    BY <1>5, Applying DEF At, InventoryCall, inventory
  <2>2. Return(c) \/ (Left(x) >= 0 /\ Goto(c, "adjust", Left(x)))
    <3>1. Left(x) \in Int
      BY <2>1, Leaves
    <3>2. ~(Left(x) < 0) => Left(x) >= 0
      BY <3>1
    <3> QED BY <1>5, <3>2, Applying, Zenon
  <2>3. ASSUME Left(x) >= 0, Goto(c, "adjust", Left(x))
        PROVE  StockFound(call, stock')
    <3>1. call.stage = "adjust" /\ call.on = x /\ call.saw = Left(x)
      BY <2>3, Gone DEF call
    <3>2. Left(x) = stock'[Change[x].item][Change[x].bucket] + Change[x].qty
      BY <2>1, Zenon DEF Left
    <3> HIDE DEF x
    <3> QED BY <2>3, <3>1, <3>2, Zenon DEF StockFound
  <2> QED BY <1>0, <2>2, <2>3, Returned DEF call
<1>6. CASE RecheckTransfer(c)
  <2>1. x \in StockTransfers /\ stock' = stock
    BY <1>6 DEF RecheckTransfer, At, InventoryCall, inventory
  <2>2. PICK m : m = Move[x]
    OBVIOUS
  <2>3. m.from \in Items /\ m.bucket \in Buckets /\ m.qty \in Nat
    BY <2>1, <2>2, RequestsHave
  <2>4. stock[m.from][m.bucket] \in Int
    BY <2>3, Shelves
  <2>5. Return(c) \/ (stock[m.from][m.bucket] >= m.qty /\ Goto(c, "move", 0))
    BY <1>6, <2>2, <2>3, <2>4 DEF RecheckTransfer
  <2>6. call.stage = "idle" \/ (stock[m.from][m.bucket] >= m.qty /\ call.stage = "move" /\ call.on = x)
    BY <2>5, Gone, Returned DEF call
  <2>7. ASSUME stock[m.from][m.bucket] >= m.qty, call.stage = "move", call.on = x
        PROVE  StockFound(call, stock')
    BY <2>1, <2>2, <2>7 DEF StockFound
  <2> QED BY <1>0, <2>6, <2>7 DEF call
<1>7. CASE WriteAdjustment(c)
  <2>1. (\E on, saw : Continue(c, [stage |-> "alert", on |-> on, saw |-> saw])) \/ Goto(c, "adjusted", 0)
    BY <1>7, Adjusting
  <2>2. (\E on, saw : Continue(c, [stage |-> "alert", on |-> on, saw |-> saw])) => call.stage = "alert"
    BY Continued DEF call
  <2>3. call.stage \in {"alert", "adjusted"}
    BY <2>1, <2>2, Gone DEF call
  <2> QED BY <1>0, <2>3 DEF call
<1>8. CASE InventoryRequest(c)
  <2>1. ASSUME NEW i \in Items, NEW from \in Buckets, NEW to \in Buckets, Allocate(c, i, from, to, 1)
        PROVE  StockFound(call, stock')
    <3>1. stock[i][from] \in Int /\ stock[i][to] \in Int /\ stock' = stock
      BY <2>1, Shelves DEF Allocate, inventory
    <3>a. PICK n \in Int : n = stock[i][from] - 1
      BY <3>1
    <3>b. PICK m \in Int : m = stock[i][to] + 1
      BY <3>1
    <3>2. n = stock[i][from] - 1 /\ m = stock[i][to] + 1
      BY <3>a, <3>b
    <3>3. PICK saw : saw = [from |-> from, to |-> to, qty |-> 1, newFrom |-> n, newTo |-> m]
      OBVIOUS
    <3>4. call.stage = "allocate" /\ call.on = i /\ call.saw = saw /\ stock[i][from] >= 1
      BY <2>1, <3>2, <3>3, Begun DEF Allocate, call
    <3>5. saw.from = from /\ saw.to = to /\ saw.qty = 1 /\ saw.newFrom = n /\ saw.newTo = m
      BY <3>3
    <3>6. n >= 0
      BY <3>1, <3>2, <3>4
    <3> QED BY <3>1, <3>2, <3>4, <3>5, <3>6 DEF StockFound
  <2>2. ASSUME NEW i \in Items, Sells(c, i)
        PROVE  StockFound(call, stock')
    <3>0. PICK lines \in Baskets : Sell(c, i, lines)
      BY <2>2 DEF Sells
    <3>1. /\ stock' = stock /\ call.stage = "sell" /\ call.on = i /\ call.saw = lines
          /\ \A n \in DOMAIN lines : lines[n] <= stock[i]["SALES"]
      BY <3>0, Begun DEF Sell, inventory, call
    <3>2. lines \in Seq(Nat) /\ stock[i]["SALES"] \in Int
      BY BasketsAre, Shelves, RequestsHave
    <3>3. \A n \in DOMAIN lines : stock[i]["SALES"] >= lines[n]
      BY <3>1, <3>2
    <3> QED BY <3>1, <3>3 DEF StockFound
  <2>3. ASSUME NEW i \in Items, EscalateAlert(c, i)
        PROVE  StockFound(call, stock')
    BY <1>0, <2>3, Begun DEF EscalateAlert, call
  <2>4. ASSUME NEW i \in Items, Receive(c, i, 1) \/ ResolveAlert(c, i)
        PROVE  StockFound(call, stock')
    <3>1. call.stage = "idle"
      BY <2>4 DEF Receive, ResolveAlert, Once, Ready, At, call
    <3> QED BY <1>0, <3>1 DEF call
  <2>5. ASSUME NEW r, NEW actor, \/ RequestAdjustment(c, r) \/ RequestTransfer(c, r) \/ Reassign(c, r, actor)
        PROVE  StockFound(call, stock')
    <3>1. call.stage = "idle"
      BY <2>5 DEF RequestAdjustment, RequestTransfer, Reassign, Once, Ready, At, call
    <3> QED BY <1>0, <3>1 DEF call
  <2>6. ASSUME NEW r, NEW actor, \/ ApproveAdjustment(c, r, actor) \/ ApproveTransfer(c, r, actor) \/ Reject(c, r, actor)
        PROVE  StockFound(call, stock')
    <3>1. call.stage \in {"approve_adjustment", "approve_transfer", "reject"}
      BY <2>6, Begun DEF ApproveAdjustment, ApproveTransfer, Reject, call
    <3> QED BY <1>0, <3>1 DEF call
  <2> QED BY <1>8, <2>1, <2>2, <2>3, <2>4, <2>5, <2>6 DEF InventoryRequest, SignedRequest, Sells, call
<1>9. CASE InventoryStep(c)
  BY <1>1, <1>2, <1>3, <1>4, <1>5, <1>6, <1>7, <1>9 DEF InventoryStep
<1> QED BY <1>8, <1>9 DEF InventoryNext

LEMMA SalonFinds ==
    ASSUME Shape, NEW c \in Callers, SalonCall(calls[c]), SalonNext(c), StockFound(calls[c], stock)
    PROVE  StockFound(calls'[c], stock')
<1> DEFINE call == calls'[c]
<1>0. ASSUME call.stage \notin {"allocate", "sell", "adjust", "move", "recipes", "complete_visit"}
      PROVE  StockFound(call, stock')
  BY <1>0, NothingFound
<1> HIDE DEF call
<1>1. ASSUME Return(c) \/ \E stage \in SalonStages \ {"recipes", "complete_visit"} : \E saw : Goto(c, stage, saw)
      PROVE  StockFound(call, stock')
  <2>1. call.stage = "idle" \/ call.stage \in SalonStages \ {"recipes", "complete_visit"}
    BY <1>1, Gone, Returned DEF call
  <2>2. call.stage \notin {"allocate", "sell", "adjust", "move", "recipes", "complete_visit"}
    BY <2>1 DEF SalonStages
  <2> QED BY <1>0, <2>2 DEF call
<1>2. CASE FindOrCreateCustomer(c) \/ CreateCustomer(c) \/ ValidateDiscount(c) \/ WriteBooking(c) \/ VerifyFound(c)
  BY <1>1, <1>2 DEF FindOrCreateCustomer, CreateCustomer, ValidateDiscount, WriteBooking, VerifyFound, SalonStages, call
<1>3. CASE WriteReservationUsed(c) \/ WriteVisitStatus(c) \/ ReplaceServices(c) \/ ReplaceGoods(c) \/ WriteDetails(c)
  BY <1>1, <1>3 DEF WriteReservationUsed, WriteVisitStatus, ReplaceServices, ReplaceGoods, WriteDetails, SalonStages, call
<1>4. CASE WriteGoods(c) \/ WriteService(c) \/ Recompute(c) \/ WriteTotal(c)
  BY <1>1, <1>4 DEF WriteGoods, WriteService, Recompute, WriteTotal, SalonStages, call
<1>5. CASE WriteCompletion(c) \/ LookAtLines(c) \/ RaiseAlert(c)
  BY <1>1, <1>5 DEF WriteCompletion, LookAtLines, RaiseAlert, SalonStages, Goto, call
<1>6. CASE CheckRecipes(c)
  <2>1. stock' = stock /\ calls[c].stage = "recipes"
    BY <1>6 DEF CheckRecipes, At, inventory
  <2>2. CASE Return(c)
    BY <1>1, <2>2 DEF call
  <2>3. CASE ~ Return(c)
    <3>1. (\A i \in Items : stock[i]["USAGE"] >= Uses(calls[c].saw, i)) /\ Goto(c, "complete_visit", calls[c].saw)
      BY <1>6, <2>3 DEF CheckRecipes
    <3>2. call.stage = "complete_visit" /\ call.saw = calls[c].saw
      BY <3>1, Gone DEF call
    <3> QED BY <2>1, <3>1, <3>2 DEF StockFound, call
  <2> QED BY <2>2, <2>3
<1>7. CASE SalonRequest(c)
  <2>1. ASSUME NEW x \in Visits, Complete(c, x)
        PROVE  StockFound(call, stock')
    <3>1. stock' = stock /\ call.stage = "recipes" /\ call.saw = visit[x]
      BY <2>1, Begun DEF Complete, inventory, call
    <3>2. \A n \in DOMAIN visit[x].goods : stock[visit[x].goods[n][1]][visit[x].goods[n][2]] >= 1
      BY <2>1 DEF Complete
    <3> QED BY <3>1, <3>2 DEF StockFound
  <2>2. ASSUME NEW x \in Visits, DeleteBooking(c, x)
        PROVE  StockFound(call, stock')
    <3>1. call.stage = "idle"
      BY <2>2 DEF DeleteBooking, Once, Ready, At, call
    <3> QED BY <1>0, <3>1 DEF call
  <2>3. ASSUME NEW x \in Visits, \/ Create(c, x) \/ Reserve(c, x) \/ VerifyReservation(c, x) \/ VerifyReservationAnywhere(c, x)
        PROVE  StockFound(call, stock')
    <3>1. call.stage \in {"find_client", "use_code", "verify_found"}
      BY <2>3, Begun DEF Create, Reserve, VerifyReservation, VerifyReservationAnywhere, call
    <3> QED BY <1>0, <3>1 DEF call
  <2>4. ASSUME NEW x \in Visits, NEW y, \/ SetVisit(c, x, y) \/ EditBooking(c, x, y) \/ AddInventoryItem(c, x, y)
                                        \/ AddServiceToCompletedBooking(c, x, y)
        PROVE  StockFound(call, stock')
    <3>1. call.stage \in {"set_visit", "replace_services", "add_goods", "add_service"}
      BY <2>4, Begun DEF SetVisit, EditBooking, AddInventoryItem, AddServiceToCompletedBooking, call
    <3> QED BY <1>0, <3>1 DEF call
  <2> QED BY <1>7, <2>1, <2>2, <2>3, <2>4 DEF SalonRequest, DeskRequest, ServingRequest, call
<1>8. CASE SalonStep(c)
  BY <1>2, <1>3, <1>4, <1>5, <1>6, <1>8 DEF SalonStep
<1> QED BY <1>7, <1>8 DEF SalonNext

-----------------------------------------------------------------------------
(* The inductive invariant for stock.                                      *)

\* Unless two handlers overlap, nobody but c is in the middle of anything.
LEMMA Alone ==
    ASSUME Lone, NEW c \in Callers, NEW S, Acts(c, S), ~ overlapped'
    PROVE  ~ overlapped /\ \A d \in Callers \ {c} : calls[d].stage = "idle" /\ calls'[d].stage = "idle"
<1>1. \A d \in Callers \ {c} : calls'[d] = calls[d]
  BY DEF Acts
<1>2. CASE overlapped' = overlapped /\ Busy(c)
  BY <1>1, <1>2 DEF Lone, Busy, At
<1>3. CASE overlapped' = (overlapped \/ ~Quiet)
  BY <1>1, <1>3 DEF Quiet, At
<1> QED BY <1>2, <1>3 DEF Acts

LEMMA CalmStays ==
    ASSUME Lone, NEW c \in Callers, NEW S, Acts(c, S), ~ overlapped',
           AddsUp(stock', moved'), overdrawn' \/ NoneBelow(stock'),
           AppliesRightly(c), StockFound(calls'[c], stock')
    PROVE  StockCalm'
<1>1. \A d \in Callers \ {c} : calls'[d].stage = "idle"
  BY Alone
<1>2. ASSUME NEW d \in Callers
      PROVE  /\ StockFound(calls'[d], stock')
             /\ RequestFound(calls'[d], approval'[calls'[d].on], applied'[calls'[d].on])
  <2>1. CASE d = c
    BY <2>1 DEF AppliesRightly
  <2>2. CASE d # c
    <3>1. calls'[d].stage = "idle"
      BY <1>1, <2>2
    <3>2. /\ calls'[d].stage \notin {"allocate", "sell", "adjust", "move", "recipes", "complete_visit"}
          /\ calls'[d].stage \notin Deciding \cup Decided
      BY <3>1 DEF Deciding, Decided
    <3> QED BY <3>2, NothingFound, NothingDecided
  <2> QED BY <2>1, <2>2
<1> QED BY <1>2 DEF AppliesRightly, StockCalm

LEMMA OnceOverdrawn ==
    ASSUME NEW c \in Callers, InventoryNext(c)
    PROVE  overdrawn => overdrawn'
<1>1. CASE WriteSold(c)
  BY <1>1 DEF WriteSold
<1>2. CASE InventoryStep(c) /\ ~ WriteSold(c)
  BY <1>2, Allocating, Applying, Adjusting, Transferring
     DEF InventoryStep, WriteAllocated, CheckLowStock, OpenAlert, WriteEscalated, WriteAdjustmentApproval, ApplyAdjustment,
         WriteAdjustment, FinishAdjustment, WriteTransferApproval, RecheckTransfer, WriteTransfer, WriteRejection,
         FinishRejection, inventory
<1>3. CASE InventoryRequest(c)
  BY <1>3 DEF InventoryRequest, SignedRequest, Receive, Sell, ResolveAlert, EscalateAlert, Allocate, RequestAdjustment,
              ApproveAdjustment, RequestTransfer, ApproveTransfer, Reject, Reassign, inventory
<1> QED BY <1>1, <1>2, <1>3 DEF InventoryNext

LEMMA StockInventory ==
    ASSUME SignedInv, StockInv, NEW c \in Callers, InventoryNext(c)
    PROVE  StockInv'
<1>1. /\ Shape /\ Lone /\ InventoryCall(calls[c]) /\ StockTables /\ VisitsTyped
      /\ \A d \in Callers : StockCall(calls[d]) /\ SalonCall(calls[d])
  BY DEF SignedInv, Handled, CallsTyped, StockInv, StockTyped
<1>2. Acts(c, InventoryStages) /\ visit' = visit /\ (overdrawn => overdrawn')
  BY <1>1, InventoryActs, OnceOverdrawn DEF InventoryNext, salon
<1>3. StockTables' /\ StockCall(calls'[c])
  BY <1>1, InventoryTables, InventoryCalls
<1>4. SalonCall(calls'[c])
  <2>1. calls'[c].stage \notin SalonStages
    BY <1>2, SalonApart DEF Acts
  <2> QED BY <2>1, VisitNotHeld
<1>5. StockTyped'
  BY <1>1, <1>2, <1>3, <1>4 DEF StockTyped, VisitsTyped, Acts
<1>6. ASSUME ~ overlapped'
      PROVE  StockCalm'
  <2>1. StockCalm
    BY <1>1, <1>2, <1>6, Alone DEF StockInv
  <2>2. /\ AddsUp(stock, moved) /\ (overdrawn \/ NoneBelow(stock)) /\ StockFound(calls[c], stock)
        /\ \A r \in Adjustments \cup StockTransfers : AppliedOnce(r, approval[r], applied[r])
        /\ RequestFound(calls[c], approval[calls[c].on], applied[calls[c].on])
    BY <2>1 DEF StockCalm
  <2>3. AddsUp(stock', moved') /\ (NoneBelow(stock) => overdrawn' \/ NoneBelow(stock'))
    BY <1>1, <2>2, InventoryMoves DEF MovesRightly
  <2>4. AppliesRightly(c) /\ StockFound(calls'[c], stock')
    BY <1>1, <2>2, InventoryApplies, InventoryFinds
  <2>5. overdrawn' \/ NoneBelow(stock')
    BY <1>2, <2>2, <2>3
  <2> QED BY <1>1, <1>2, <1>6, <2>3, <2>4, <2>5, CalmStays
<1> QED BY <1>5, <1>6 DEF StockInv

LEMMA StockProcurement ==
    ASSUME SignedInv, StockInv, NEW c \in Callers, ProcurementNext(c)
    PROVE  StockInv'
<1>1. /\ Shape /\ Lone /\ ProcurementCall(calls[c]) /\ StockTables /\ VisitsTyped
      /\ \A d \in Callers : StockCall(calls[d]) /\ SalonCall(calls[d])
  BY DEF SignedInv, Handled, CallsTyped, StockInv, StockTyped
<1>2. Acts(c, ProcurementStages)
  BY <1>1, ProcurementActs
<1>3. /\ MovesRightly(c) /\ alert' = alert /\ decision' = decision /\ applied' = applied
      /\ visit' = visit /\ overdrawn' = overdrawn
  BY <1>1, ProcurementMovesStock
<1>4. calls'[c].stage \notin SalonStages /\ calls'[c].stage \notin InventoryStages
  BY <1>2, SalonApart, InventoryApart DEF Acts
<1>5. StockTyped'
  <2>1. StockTables'
    BY <1>1, <1>3 DEF StockTables, InventoryTypeOK, MovesRightly, Holdings, StockRows
  <2>2. StockCall(calls'[c]) /\ SalonCall(calls'[c])
    BY <1>4, StockNotHeld, VisitNotHeld
  <2> QED BY <1>1, <1>2, <1>3, <2>1, <2>2 DEF StockTyped, VisitsTyped, Acts
<1>6. ASSUME ~ overlapped'
      PROVE  StockCalm'
  <2>1. StockCalm
    BY <1>1, <1>2, <1>6, Alone DEF StockInv
  <2>2. /\ AddsUp(stock, moved) /\ (overdrawn \/ NoneBelow(stock)) /\ StockFound(calls[c], stock)
        /\ \A r \in Adjustments \cup StockTransfers : AppliedOnce(r, approval[r], applied[r])
    BY <2>1 DEF StockCalm
  <2>3. AddsUp(stock', moved') /\ (overdrawn' \/ NoneBelow(stock'))
    BY <1>3, <2>2 DEF MovesRightly
  <2>4. calls'[c].stage \notin {"allocate", "sell", "adjust", "move", "recipes", "complete_visit"}
    BY <1>4, InventoryStagesAre, SalonStagesAre
  <2>5. calls'[c].stage \notin Deciding \cup Decided
    BY <1>4, InventoryStagesAre DEF Deciding, Decided
  <2>6. \A r \in Adjustments \cup StockTransfers : approval'[r] = approval[r]
    BY ProcurementDecides DEF SignedInv, Handled, BuysRightly
  <2>7. AppliesRightly(c)
    BY <1>3, <2>2, <2>5, <2>6, NothingDecided DEF AppliesRightly
  <2>8. StockFound(calls'[c], stock')
    BY <2>4, NothingFound
  <2> QED BY <1>1, <1>2, <1>6, <2>3, <2>7, <2>8, CalmStays
<1> QED BY <1>5, <1>6 DEF StockInv

LEMMA StockSalon ==
    ASSUME SignedInv, StockInv, NEW c \in Callers, SalonNext(c)
    PROVE  StockInv'
<1>1. /\ Shape /\ Lone /\ StockTables /\ VisitsTyped
      /\ \A d \in Callers : StockCall(calls[d]) /\ SalonCall(calls[d])
  BY DEF SignedInv, Handled, StockInv, StockTyped
<1>2. Acts(c, SalonStages) /\ approval' = approval /\ decision' = decision /\ applied' = applied
  BY <1>1, SalonActs, SalonDecidesNothing
<1>3. /\ stock' \in Holdings /\ moved' \in Holdings /\ alert' \in [Items -> AlertRows]
      /\ StockFound(calls[c], stock) /\ AddsUp(stock, moved) => AddsUp(stock', moved')
      /\ StockFound(calls[c], stock) /\ (overdrawn \/ NoneBelow(stock)) => (overdrawn' \/ NoneBelow(stock'))
  BY <1>1, SalonMovesStock
<1>4. calls'[c].stage \notin InventoryStages
  BY <1>2, SalonApart DEF Acts, InventoryStages
<1>5. StockTyped'
  <2>1. StockTables'
    BY <1>1, <1>2, <1>3 DEF StockTables, InventoryTypeOK, Holdings, StockRows
  <2>2. StockCall(calls'[c]) /\ SalonCall(calls'[c]) /\ VisitsTyped'
    BY <1>1, <1>4, StockNotHeld, SalonTypes
  <2> QED BY <1>1, <1>2, <2>1, <2>2 DEF StockTyped, Acts
<1>6. ASSUME ~ overlapped'
      PROVE  StockCalm'
  <2>1. StockCalm
    BY <1>1, <1>2, <1>6, Alone DEF StockInv
  <2>2. /\ AddsUp(stock, moved) /\ (overdrawn \/ NoneBelow(stock)) /\ StockFound(calls[c], stock)
        /\ \A r \in Adjustments \cup StockTransfers : AppliedOnce(r, approval[r], applied[r])
    BY <2>1 DEF StockCalm
  <2>3. AddsUp(stock', moved') /\ (overdrawn' \/ NoneBelow(stock'))
    BY <1>3, <2>2
  <2>4. calls'[c].stage \notin Deciding \cup Decided
    BY <1>4, InventoryStagesAre DEF Deciding, Decided
  <2>5. AppliesRightly(c)
    BY <1>2, <2>2, <2>4, NoRequest
  <2>6. StockFound(calls'[c], stock')
    BY <1>1, <2>2, SalonFinds
  <2> QED BY <1>1, <1>2, <1>6, <2>3, <2>5, <2>6, CalmStays
<1> QED BY <1>5, <1>6 DEF StockInv

LEMMA StockElsewhere ==
    ASSUME SignedInv, StockInv, [Next]_vars,
           ~ \E c \in Callers : InventoryNext(c) \/ ProcurementNext(c) \/ SalonNext(c)
    PROVE  StockInv'
<1> DEFINE Part(c) == ShopNext(c) \/ PromotionsNext(c) \/ CatalogueNext(c) \/ TakingsNext(c) \/ Dies(c)
           Same == UNCHANGED <<approval, inventory, visit>>
<1>1. /\ Shape /\ Routed /\ Lone /\ StockTables /\ VisitsTyped
      /\ \A d \in Callers : StockCall(calls[d]) /\ SalonCall(calls[d])
  BY DEF SignedInv, Handled, StockInv, StockTyped
<1>2. ASSUME Same
      PROVE  StockTables' /\ VisitsTyped'
  BY <1>1, <1>2 DEF StockTables, InventoryTypeOK, VisitsTyped, inventory
<1>3. ASSUME Same, calls' = calls, overlapped' = overlapped
      PROVE  StockInv'
  <2>1. StockTyped'
    BY <1>1, <1>2, <1>3 DEF StockTyped
  <2>2. CASE overlapped
    BY <1>3, <2>1, <2>2 DEF StockInv
  <2>3. CASE ~ overlapped
    <3>1. StockCalm
      BY <2>3 DEF StockInv
    <3>2. StockCalm'
      BY <1>3, <3>1 DEF StockCalm, inventory
    <3> QED BY <2>1, <3>2 DEF StockInv
  <2> QED BY <2>2, <2>3
<1>4. ASSUME NEW c \in Callers, NEW S, Acts(c, S), Same, \A s \in S : s \notin InventoryStages /\ s \notin SalonStages
      PROVE  StockInv'
  <2>1. calls'[c].stage \notin InventoryStages /\ calls'[c].stage \notin SalonStages
    BY <1>4, InventoryApart, SalonApart DEF Acts
  <2>2. StockTyped'
    BY <1>1, <1>2, <1>4, <2>1, StockNotHeld, VisitNotHeld DEF StockTyped, Acts
  <2>3. ASSUME ~ overlapped'
        PROVE  StockCalm'
    <3>1. StockCalm
      BY <1>1, <1>4, <2>3, Alone DEF StockInv
    <3>2. AddsUp(stock', moved') /\ (overdrawn' \/ NoneBelow(stock'))
      BY <1>4, <3>1 DEF StockCalm, inventory
    <3>3. \A r \in Adjustments \cup StockTransfers : AppliedOnce(r, approval[r], applied[r])
      BY <3>1 DEF StockCalm
    <3>4. /\ calls'[c].stage \notin {"allocate", "sell", "adjust", "move", "recipes", "complete_visit"}
          /\ calls'[c].stage \notin Deciding \cup Decided
      BY <2>1, InventoryStagesAre, SalonStagesAre DEF Deciding, Decided
    <3>5. AppliesRightly(c) /\ StockFound(calls'[c], stock')
      BY <1>4, <3>3, <3>4, NoRequest, NothingFound DEF inventory
    <3> QED BY <1>1, <1>4, <2>3, <3>2, <3>5, CalmStays
  <2> QED BY <2>2, <2>3 DEF StockInv
<1>5. ASSUME NEW c \in Callers, Part(c)
      PROVE  Same
  BY <1>5 DEF ShopNext, PromotionsNext, CatalogueNext, TakingsNext, Dies, salon, inventory
<1>6. /\ \A s \in ShopStages : s \notin InventoryStages /\ s \notin SalonStages
      /\ \A s \in PromotionsStages : s \notin InventoryStages /\ s \notin SalonStages
      /\ \A s \in CatalogueStages : s \notin InventoryStages /\ s \notin SalonStages
      /\ \A s \in TakingsStages : s \notin InventoryStages /\ s \notin SalonStages
  BY DecidingApart, SalonApart DEF DecidingStages
<1> HIDE DEF Same, Part
<1>7. ASSUME NEW c \in Callers, ShopNext(c) \/ PromotionsNext(c)
      PROVE  StockInv'
  BY <1>1, <1>4, <1>5, <1>6, <1>7, ShopActs, PromotionsActs DEF Part
<1>8. ASSUME NEW c \in Callers, CatalogueNext(c) \/ TakingsNext(c) \/ Dies(c)
      PROVE  StockInv'
  BY <1>1, <1>4, <1>5, <1>6, <1>8, CatalogueActs, TakingsActs, DiesActs DEF Part
<1>9. CASE UNCHANGED vars
  BY <1>3, <1>9 DEF Same, vars, handlers, salon
<1>10. CASE SettingsExpire /\ UNCHANGED <<approval, inventory, procurement, shop, salon, catalogue, takings>>
  BY <1>3, <1>10 DEF Same, SettingsExpire, handlers, salon
<1>11. CASE PageExpires /\ UNCHANGED <<approval, inventory, procurement, shop, promotions, salon, takings>>
  BY <1>3, <1>11 DEF Same, PageExpires, handlers, salon
<1>12. CASE TimePasses /\ UNCHANGED <<approval, inventory, procurement, shop, promotions, salon, catalogue>>
  BY <1>3, <1>12 DEF Same, TimePasses, handlers, salon
<1>13. CASE CopyExpires /\ UNCHANGED <<approval, inventory, procurement, purse, entries, bought, promotions, salon, catalogue, takings>>
  BY <1>3, <1>13 DEF Same, CopyExpires, handlers, salon
<1> QED BY <1>7, <1>8, <1>9, <1>10, <1>11, <1>12, <1>13 DEF Next

LEMMA StockAtFirst == Init => StockInv
<1> SUFFICES ASSUME Init PROVE StockInv
  OBVIOUS
<1>1. \A c \in Callers : calls[c].stage = "idle"
  BY DEF Init, HandlersInit, Idle
<1>2. \A c \in Callers : StockCall(calls[c]) /\ SalonCall(calls[c])
  <2>1. "idle" \notin InventoryStages /\ "idle" \notin SalonStages
    BY InventoryApart, SalonApart
  <2> QED BY <1>1, <2>1, StockNotHeld, VisitNotHeld
<1>3. StockTables
  <2>1. stock \in Holdings /\ moved \in Holdings
    BY InventoryAssumption DEF Init, InventoryInit, Holdings
  <2>2. alert \in [Items -> AlertRows]
    BY DEF Init, InventoryInit, AlertRows, Levels
  <2> QED BY <2>1, <2>2 DEF Init, InventoryInit, StockTables, InventoryTypeOK, Holdings, StockRows, Decisions,
                            AdjustmentStatuses, TransferStatuses
<1>4. VisitsTyped
  <2>1. NoVisit \in VisitRows
    BY DEF NoVisit, VisitRows, VisitStatuses
  <2>2. ASSUME NEW v \in Visits
        PROVE  [NoVisit EXCEPT !.status = "SCHEDULED", !.stylist = Wish[v].stylist, !.services = Wish[v].services,
                               !.goods = Wish[v].goods, !.total = ComputeTotal(Wish[v].services, Wish[v].goods)] \in VisitRows
    <3>1. Wish[v].stylist \in BOOLEAN /\ Wish[v].services \in Seq(Menu) /\ Wish[v].goods \in Seq(Lines)
      BY SalonAssumption
    <3>2. PICK total : total = ComputeTotal(Wish[v].services, Wish[v].goods)
      OBVIOUS
    <3>3. total \in Nat
      BY <3>1, <3>2, TotalIsNat
    <3> QED BY <3>1, <3>2, <3>3 DEF NoVisit, VisitRows, VisitStatuses
  <2> QED BY <2>1, <2>2 DEF Init, SalonInit, VisitsTyped
<1>5. StockCalm
  <2>1. AddsUp(stock, moved) /\ NoneBelow(stock)
    <3>1. ASSUME NEW i \in Items, NEW k \in Buckets
          PROVE  stock[i][k] = Opened[i][k] /\ moved[i][k] = 0 /\ Opened[i][k] \in Nat
      BY RequestsHave DEF Init, InventoryInit
    <3> QED BY <3>1 DEF AddsUp, NoneBelow
  <2>2. \A r \in Adjustments \cup StockTransfers : AppliedOnce(r, approval[r], applied[r])
    BY DEF Init, InventoryInit, AppliedOnce
  <2>3. ASSUME NEW c \in Callers
        PROVE  StockFound(calls[c], stock) /\ RequestFound(calls[c], approval[calls[c].on], applied[calls[c].on])
    <3>1. /\ calls[c].stage \notin {"allocate", "sell", "adjust", "move", "recipes", "complete_visit"}
          /\ calls[c].stage \notin Deciding \cup Decided
      BY <1>1 DEF Deciding, Decided
    <3> QED BY <3>1, NothingFound, NothingDecided
  <2> QED BY <2>1, <2>2, <2>3 DEF StockCalm
<1> QED BY <1>2, <1>3, <1>4, <1>5 DEF StockInv, StockTyped

\* What a bucket holds is what its movements add up to, a request without a chain moves stock once,
\* and no bucket falls below nothing until a sale or a completed booking takes an item on two of
\* its lines: as long as
\* handlers do not overlap, whoever dies, for any number of items, buckets, requests and handlers.
THEOREM StockStays == Spec => []StockKept
<1>1. SignedInv /\ [Next]_vars => SignedInv'
  BY HandledStays, SignedInventory, SignedProcurement, SignedElsewhere DEF SignedInv
<1>2. SignedInv /\ StockInv /\ [Next]_vars => StockInv'
  BY StockInventory, StockProcurement, StockSalon, StockElsewhere
<1>3. SignedInv /\ StockInv => StockKept
  <2> SUFFICES ASSUME SignedInv, StockInv PROVE StockKept
    OBVIOUS
  <2>1. approval \in [Requests -> ApprovalRows] /\ InventoryTypeOK
    BY DEF SignedInv, RequestRows, StockInv, StockTyped, StockTables
  <2>2. CASE overlapped
    BY <2>1, <2>2 DEF StockKept, StockIsMovements, MovedOnce, NeverNegative
  <2>3. CASE StockCalm
    <3>1. StockIsMovements
      BY <2>3 DEF StockCalm, AddsUp, StockIsMovements
    <3>2. MovedOnce
      <4>1. DOMAIN applied = Adjustments \cup StockTransfers
        BY DEF StockInv, StockTyped, StockTables
      <4> QED BY <2>3, <4>1 DEF StockCalm, AppliedOnce, MovedOnce
    <3>3. NeverNegative
      BY <2>3 DEF StockCalm, NoneBelow, NeverNegative
    <3> QED BY <2>1, <3>1, <3>2, <3>3 DEF StockKept
  <2> QED BY <2>2, <2>3 DEF StockInv
<1> QED BY <1>1, <1>2, <1>3, SignedAtFirst, StockAtFirst, PTL DEF Spec

-----------------------------------------------------------------------------
(* Salon bookings: what holds always, and what holds until two overlap.    *)

BooksTyped ==
    /\ client \in [Phones -> {"none", "walk-in", "linked"}]
    /\ commission \in [Visits -> Nat \cup {-1}]
    /\ revenue \in [Visits -> Seq(Nat)]
    /\ admitted \in [Visits -> Nat]

\* A booking with a commission is in the books, once, and one in the books has a commission until
\* it is deleted.
VisitBooked(row, com, rev) ==
    /\ Len(rev) <= 1
    /\ com >= 0 => rev # << >>
    /\ row.status = "none" => rev = << >>
    /\ rev # << >> /\ row.status # "deleted" => com >= 0

Booked == \A v \in Visits : VisitBooked(visit[v], commission[v], revenue[v])

\* adds: services may be added to completed bookings.
VisitCalm(row, rev, adm, short, adds) ==
    /\ rev # << >> => row.status \in {"COMPLETED", "deleted"}
    /\ rev # << >> /\ row.status = "COMPLETED" /\ ~ adds => rev = <<row.total>>
    /\ adm <= 1 /\ (adm = 1 => row.status # "none" /\ (row.used \/ row.status = "deleted"))
    /\ row.status = "none" => ~ short

\* What a handler has found of its booking still holds when it writes.
Editable(row, adds) == row.status \in Modifiable \/ (adds /\ row.status = "COMPLETED")

VisitFound(call, row, adds) ==
    /\ call.stage \in {"set_visit", "replace_services", "replace_goods", "details", "add_goods"} => row.status \in Modifiable
    /\ call.stage \in {"add_service", "recompute", "write_total"} => Editable(row, adds)
    /\ call.stage = "write_total" => call.saw = ComputeTotal(row.services, row.goods)
    /\ call.stage \in {"recipes", "complete_visit"} => call.saw = row /\ row.status \in Modifiable
    /\ call.stage = "use_code" => ~ row.used /\ row.status \notin {"none", "deleted"}

\* Where an edit has changed the lines, and has yet to write the total.
Editing == {"replace_goods", "details", "recompute", "write_total"}

TotalRight(row, short) ==
    row.status \notin {"none", "deleted"} =>
        row.total = ComputeTotal(row.services, row.goods) - (IF short THEN 0 ELSE row.off)

\* Totals are right but of the booking that call edits.
TotalsBut(rows, short, call) ==
    \A v \in Visits : TotalRight(rows[v], v \in short) \/ (call.stage \in Editing /\ call.on = v)

Adds == "add_service" \in scenario

VisitsCalm == \A v \in Visits : VisitCalm(visit[v], revenue[v], admitted[v], v \in shortened, Adds)

TotalsRight ==
    \A v \in Visits : \/ TotalRight(visit[v], v \in shortened)
                      \/ \E c \in Callers : calls[c].stage \in Editing /\ calls[c].on = v

SalonCalm ==
    /\ VisitsCalm
    /\ \A c \in Callers : VisitFound(calls[c], visit[calls[c].on], Adds)
    /\ crashes = 0 => TotalsRight

SalonInv == BooksTyped /\ Booked /\ crashes \in Nat /\ (overlapped \/ SalonCalm)

-----------------------------------------------------------------------------
(* A step of a salon's handler, for one booking.                           *)

\* What c does to bookings and books, whatever was true of them before.
Keeps(c) ==
    /\ BooksTyped' /\ Booked'
    /\ VisitsCalm /\ VisitFound(calls[c], visit[calls[c].on], Adds) =>
          /\ VisitsCalm' /\ VisitFound(calls'[c], visit'[calls'[c].on], Adds)
          /\ TotalsBut(visit, shortened, calls[c]) => TotalsBut(visit', shortened', calls'[c])

\* All bookings but v stay.
Spared(v) ==
    \A x \in Visits \ {v} :
        /\ visit'[x] = visit[x] /\ commission'[x] = commission[x] /\ revenue'[x] = revenue[x]
        /\ admitted'[x] = admitted[x] /\ (x \in shortened' <=> x \in shortened)

LEMMA VisitUnfound ==
    ASSUME NEW call, call.stage \notin {"set_visit", "replace_services", "replace_goods", "details", "add_goods",
               "add_service", "recompute", "write_total", "recipes", "complete_visit", "use_code"}
    PROVE  \A row, adds : VisitFound(call, row, adds)
BY DEF VisitFound

LEMMA OneVisit ==
    ASSUME Booked, scenario' = scenario, NEW v \in Visits, Spared(v)
    PROVE  /\ VisitBooked(visit'[v], commission'[v], revenue'[v]) => Booked'
           /\ VisitsCalm /\ VisitCalm(visit'[v], revenue'[v], admitted'[v], v \in shortened', Adds) => VisitsCalm'
           /\ \A call, next :
                 /\ TotalsBut(visit, shortened, call) /\ (call.stage \in Editing => call.on = v)
                 /\ TotalRight(visit'[v], v \in shortened') \/ (next.stage \in Editing /\ next.on = v)
                 => TotalsBut(visit', shortened', next)
<1>1. VisitBooked(visit'[v], commission'[v], revenue'[v]) => Booked'
  BY DEF Spared, Booked
<1>2. VisitsCalm /\ VisitCalm(visit'[v], revenue'[v], admitted'[v], v \in shortened', Adds) => VisitsCalm'
  <2> SUFFICES ASSUME VisitsCalm, VisitCalm(visit'[v], revenue'[v], admitted'[v], v \in shortened', Adds), NEW x \in Visits
               PROVE  VisitCalm(visit'[x], revenue'[x], admitted'[x], x \in shortened', Adds)
    BY DEF VisitsCalm, Adds
  <2>1. CASE x = v
    BY <2>1
  <2>2. CASE x # v
    <3>1. visit'[x] = visit[x] /\ revenue'[x] = revenue[x] /\ admitted'[x] = admitted[x] /\ (x \in shortened' <=> x \in shortened)
      BY <2>2 DEF Spared
    <3>2. VisitCalm(visit[x], revenue[x], admitted[x], x \in shortened, Adds)
      BY DEF VisitsCalm
    <3> QED BY <3>1, <3>2 DEF VisitCalm
  <2> QED BY <2>1, <2>2
<1>3. ASSUME NEW call, NEW next,
             TotalsBut(visit, shortened, call), call.stage \in Editing => call.on = v,
             TotalRight(visit'[v], v \in shortened') \/ (next.stage \in Editing /\ next.on = v)
      PROVE  TotalsBut(visit', shortened', next)
  BY <1>3 DEF Spared, TotalsBut, TotalRight
<1> QED BY <1>1, <1>2, <1>3

\* Handlers that only read, or write another table.
LEMMA BooksRead ==
    ASSUME BooksTyped, Booked, scenario' = scenario, client' \in [Phones -> {"none", "walk-in", "linked"}],
           visit' = visit, commission' = commission, revenue' = revenue, admitted' = admitted, shortened' = shortened
    PROVE  /\ BooksTyped' /\ Booked' /\ (VisitsCalm => VisitsCalm')
           /\ \A call, next :
                 /\ TotalsBut(visit, shortened, call)
                 /\ call.stage \in Editing => \/ next.stage \in Editing /\ next.on = call.on
                                              \/ ~ There(call.on)
                 => TotalsBut(visit', shortened', next)
<1>1. BooksTyped' /\ Booked' /\ (VisitsCalm => VisitsCalm')
  BY DEF BooksTyped, Booked, VisitsCalm, Adds
<1>2. ASSUME NEW call, NEW next, TotalsBut(visit, shortened, call),
             call.stage \in Editing => (next.stage \in Editing /\ next.on = call.on) \/ ~ There(call.on)
      PROVE  TotalsBut(visit', shortened', next)
  BY <1>2 DEF TotalsBut, TotalRight, There
<1> QED BY <1>1, <1>2

\* An edit: the lines change, or the stylist.
LEMMA LinesEdited ==
    ASSUME VisitsTyped, BooksTyped, Booked, scenario' = scenario, NEW v \in Visits, NEW row, There(v),
           row.status = visit[v].status, row.used = visit[v].used, row.total = visit[v].total,
           visit' = [visit EXCEPT ![v] = row], UNCHANGED <<client, commission, revenue, admitted, shortened>>
    PROVE  /\ BooksTyped' /\ Booked' /\ (VisitsCalm => VisitsCalm')
           /\ \A call, next :
                 /\ TotalsBut(visit, shortened, call) /\ (call.stage \in Editing => call.on = v)
                 /\ next.stage \in Editing /\ next.on = v
                 => TotalsBut(visit', shortened', next)
<1>1. Spared(v) /\ visit'[v] = row
  BY DEF Spared, VisitsTyped
<1>2. VisitBooked(row, commission[v], revenue[v])
  BY DEF Booked, VisitBooked
<1>3. VisitsCalm => VisitCalm(row, revenue[v], admitted[v], v \in shortened, Adds)
  BY DEF VisitsCalm, VisitCalm
<1>4. BooksTyped'
  BY DEF BooksTyped
<1> QED BY <1>1, <1>2, <1>3, <1>4, OneVisit

\* Handlers that read, or write the customer.
LEMMA SalonReads ==
    ASSUME Shape, VisitsTyped, BooksTyped, Booked, scenario' = scenario, NEW c \in Callers, SalonCall(calls[c]),
           \/ FindOrCreateCustomer(c) \/ CreateCustomer(c) \/ ValidateDiscount(c) \/ VerifyFound(c) \/ Recompute(c)
           \/ CheckRecipes(c) \/ LookAtLines(c) \/ RaiseAlert(c)
    PROVE  Keeps(c)
<1> DEFINE v == calls[c].on
           row == visit[v]
<1>0. ASSUME NEW stage \in {"idle", "create_client", "validate", "write_visit", "low_stock", "raise_alert"}, calls'[c].stage = stage
      PROVE  \A r, adds : VisitFound(calls'[c], r, adds)
  <2>1. calls'[c].stage \notin {"set_visit", "replace_services", "replace_goods", "details", "add_goods",
               "add_service", "recompute", "write_total", "recipes", "complete_visit", "use_code"}
    BY <1>0
  <2> QED BY <2>1, VisitUnfound
<1>1. CASE FindOrCreateCustomer(c) \/ CreateCustomer(c)
  <2>1. /\ UNCHANGED <<visit, commission, revenue, admitted, shortened>>
        /\ calls[c].stage \in {"find_client", "create_client"}
    BY <1>1, Zenon DEF FindOrCreateCustomer, CreateCustomer, books, At
  <2>2. v \in Visits /\ Wish[v].phone \in Phones
    <3>1. v \in Visits
      BY <2>1 DEF SalonCall, VisitStages, SalonStages
    <3> QED BY <3>1, SalonAssumption
  <2>3. \/ client' = client \/ client' = [client EXCEPT ![Wish[v].phone] = "linked"]
        \/ client' = [client EXCEPT ![Wish[v].phone] = "walk-in"]
    BY <1>1, Zenon DEF FindOrCreateCustomer, CreateCustomer
  <2>4. client' \in [Phones -> {"none", "walk-in", "linked"}]
    BY <2>2, <2>3 DEF BooksTyped
  <2>5. Return(c) \/ \E stage \in {"create_client", "validate"} : Goto(c, stage, 0)
    BY <1>1, Zenon DEF FindOrCreateCustomer, CreateCustomer
  <2>6. calls'[c].stage \in {"idle", "create_client", "validate"}
    BY <2>5, Gone, Returned
  <2>7. \A r, adds : VisitFound(calls'[c], r, adds)
    BY <1>0, <2>6
  <2> QED BY <2>1, <2>4, <2>7, BooksRead DEF Keeps, Editing
<1>2. CASE ValidateDiscount(c) \/ LookAtLines(c) \/ RaiseAlert(c)
  <2>1. /\ UNCHANGED <<visit, client, commission, revenue, admitted, shortened>>
        /\ calls[c].stage \in {"validate", "low_stock", "raise_alert"}
    BY <1>2 DEF ValidateDiscount, LookAtLines, RaiseAlert, salon, At
  <2>2. Return(c) \/ \E stage \in {"write_visit", "low_stock", "raise_alert"} : \E saw : Goto(c, stage, saw)
    BY <1>2, Zenon DEF ValidateDiscount, LookAtLines, RaiseAlert
  <2>3. calls'[c].stage \in {"idle", "write_visit", "low_stock", "raise_alert"}
    BY <2>2, Gone, Returned
  <2>4. \A r, adds : VisitFound(calls'[c], r, adds)
    BY <1>0, <2>3
  <2> QED BY <2>1, <2>4, BooksRead DEF Keeps, Editing, BooksTyped
<1>3. CASE VerifyFound(c)
  <2>1. UNCHANGED <<visit, client, commission, revenue, admitted, shortened>> /\ calls[c].stage = "verify_found"
    BY <1>3 DEF VerifyFound, salon, At
  <2>2. Return(c) \/ (There(v) /\ ~ row.used /\ Goto(c, "use_code", 0))
    BY <1>3 DEF VerifyFound
  <2>3. CASE Return(c)
    BY <1>0, <2>1, <2>3, Returned, BooksRead DEF Keeps, Editing, BooksTyped
  <2>4. CASE There(v) /\ ~ row.used /\ Goto(c, "use_code", 0)
    <3>1. calls'[c].stage = "use_code" /\ calls'[c].on = v
      BY <2>4, Gone
    <3>2. VisitFound(calls'[c], visit'[calls'[c].on], Adds)
      BY <2>1, <2>4, <3>1 DEF VisitFound, There
    <3> QED BY <2>1, <3>2, BooksRead DEF Keeps, Editing, BooksTyped
  <2> QED BY <2>2, <2>3, <2>4
<1>4. CASE Recompute(c)
  <2>1. UNCHANGED <<visit, client, commission, revenue, admitted, shortened>> /\ calls[c].stage = "recompute"
    BY <1>4 DEF Recompute, salon, At
  <2>2. PICK total : total = ComputeTotal(row.services, row.goods)
    OBVIOUS
  <2>3. (Return(c) /\ ~ There(v)) \/ Goto(c, "write_total", total)
    BY <1>4, <2>2 DEF Recompute
  <2>4. CASE Return(c) /\ ~ There(v)
    BY <1>0, <2>1, <2>4, Returned, BooksRead DEF Keeps, BooksTyped
  <2>5. CASE Goto(c, "write_total", total)
    <3>1. calls'[c].stage = "write_total" /\ calls'[c].on = v /\ calls'[c].saw = total
      BY <2>5, Gone
    <3>2. VisitFound(calls[c], visit[v], Adds) => VisitFound(calls'[c], visit'[calls'[c].on], Adds)
      BY <2>1, <2>2, <3>1 DEF VisitFound
    <3>3. calls'[c].stage \in Editing
      BY <3>1 DEF Editing
    <3> QED BY <2>1, <3>1, <3>2, <3>3, BooksRead DEF Keeps, BooksTyped
  <2> QED BY <2>3, <2>4, <2>5
<1>5. CASE CheckRecipes(c)
  <2>1. UNCHANGED <<visit, client, commission, revenue, admitted, shortened>> /\ calls[c].stage = "recipes"
    BY <1>5 DEF CheckRecipes, salon, At
  <2>2. Return(c) \/ Goto(c, "complete_visit", calls[c].saw)
    BY <1>5 DEF CheckRecipes
  <2>3. CASE Return(c)
    BY <1>0, <2>1, <2>3, Returned, BooksRead DEF Keeps, Editing, BooksTyped
  <2>4. CASE Goto(c, "complete_visit", calls[c].saw)
    <3>1. calls'[c].stage = "complete_visit" /\ calls'[c].on = v /\ calls'[c].saw = calls[c].saw
      BY <2>4, Gone
    <3>2. VisitFound(calls[c], visit[v], Adds) => VisitFound(calls'[c], visit'[calls'[c].on], Adds)
      BY <2>1, <3>1 DEF VisitFound
    <3> QED BY <2>1, <3>2, BooksRead DEF Keeps, Editing, BooksTyped
  <2> QED BY <2>2, <2>3, <2>4
<1> QED BY <1>1, <1>2, <1>3, <1>4, <1>5

\* Handlers that change a booking's lines.
LEMMA SalonEdits ==
    ASSUME Shape, VisitsTyped, BooksTyped, Booked, scenario' = scenario, NEW c \in Callers, SalonCall(calls[c]),
           ReplaceServices(c) \/ ReplaceGoods(c) \/ WriteDetails(c) \/ WriteGoods(c) \/ WriteService(c)
    PROVE  Keeps(c)
<1> DEFINE v == calls[c].on
           old == visit[v]
           saw == calls[c].saw
           stage == calls[c].stage
<1>1. /\ v \in Visits /\ old \in VisitRows /\ UNCHANGED <<client, commission, revenue, admitted, shortened>>
      /\ stage \in {"replace_services", "replace_goods", "details", "add_goods", "add_service"}
  <2>1. /\ stage \in {"replace_services", "replace_goods", "details", "add_goods", "add_service"}
        /\ UNCHANGED <<client, commission, revenue, admitted, shortened>>
    BY Zenon DEF ReplaceServices, ReplaceGoods, WriteDetails, WriteGoods, WriteService, At, books
  <2>2. v \in Visits
    BY <2>1 DEF SalonCall, VisitStages, SalonStages
  <2> QED BY <2>1, <2>2 DEF VisitsTyped
<1>2. PICK row : /\ row.status = old.status /\ row.used = old.used /\ row.total = old.total
                 /\ WriteVisit(v, row)
  <2>1. WriteVisit(v, [old EXCEPT !.services = saw[1]]) \/ WriteVisit(v, [old EXCEPT !.goods = saw[2]])
        \/ WriteVisit(v, [old EXCEPT !.stylist = TRUE]) \/ WriteVisit(v, [old EXCEPT !.goods = Append(@, saw)])
        \/ WriteVisit(v, [old EXCEPT !.services = Append(@, saw)])
    BY Zenon DEF ReplaceServices, ReplaceGoods, WriteDetails, WriteGoods, WriteService
  <2>2. ASSUME NEW x
        PROVE  /\ [old EXCEPT !.services = x].status = old.status /\ [old EXCEPT !.services = x].used = old.used
               /\ [old EXCEPT !.services = x].total = old.total
               /\ [old EXCEPT !.goods = x].status = old.status /\ [old EXCEPT !.goods = x].used = old.used
               /\ [old EXCEPT !.goods = x].total = old.total
               /\ [old EXCEPT !.stylist = x].status = old.status /\ [old EXCEPT !.stylist = x].used = old.used
               /\ [old EXCEPT !.stylist = x].total = old.total
    BY <1>1 DEF VisitRows
  <2> HIDE DEF old
  <2> QED BY <2>1, <2>2
<1>3. \/ ~ There(v) /\ Return(c)
      \/ There(v) /\ \E next \in {"replace_goods", "details", "recompute"} : \E keep :
             Goto(c, next, keep) /\ (stage = "add_service" => next = "recompute") /\ (next # "recompute" => stage \in {"replace_services", "replace_goods"})
  BY Zenon DEF ReplaceServices, ReplaceGoods, WriteDetails, WriteGoods, WriteService, At
<1>4. CASE ~ There(v) /\ Return(c)
  <2>1. visit' = visit
    BY <1>2, <1>4 DEF WriteVisit
  <2>2. \A r, adds : VisitFound(calls'[c], r, adds)
    BY <1>4, Returned, VisitUnfound
  <2> QED BY <1>1, <1>4, <2>1, <2>2, BooksRead DEF Keeps, BooksTyped
<1>5. CASE There(v)
  <2>1. PICK next \in {"replace_goods", "details", "recompute"} :
            /\ \E keep : Goto(c, next, keep)
            /\ stage = "add_service" => next = "recompute"
    BY <1>3, <1>5
  <2>2. calls'[c].stage = next /\ calls'[c].on = v /\ next \in Editing
    BY <2>1, Gone DEF Editing
  <2>3. visit' = [visit EXCEPT ![v] = row] /\ visit'[v] = row
    BY <1>1, <1>2, <1>5 DEF WriteVisit, VisitsTyped
  <2>4. /\ BooksTyped' /\ Booked' /\ (VisitsCalm => VisitsCalm')
        /\ TotalsBut(visit, shortened, calls[c]) => TotalsBut(visit', shortened', calls'[c])
    BY <1>1, <1>2, <1>5, <2>2, <2>3, LinesEdited
  <2>5. VisitFound(calls[c], old, Adds) => VisitFound(calls'[c], row, Adds)
    <3>1. VisitFound(calls[c], old, Adds) => /\ stage # "add_service" => old.status \in Modifiable
                                             /\ Editable(old, Adds)
      BY <1>1 DEF VisitFound, Editable
    <3>2. Editable(old, Adds) => Editable(row, Adds)
      BY <1>2 DEF Editable
    <3> QED BY <1>2, <2>1, <2>2, <3>1, <3>2 DEF VisitFound
  <2> QED BY <2>2, <2>3, <2>4, <2>5 DEF Keeps
<1> QED BY <1>3, <1>4, <1>5

\* Handlers that write a booking's status, total or use.
LEMMA SalonSettles ==
    ASSUME Shape, VisitsTyped, BooksTyped, Booked, scenario' = scenario, NEW c \in Callers, SalonCall(calls[c]),
           WriteReservationUsed(c) \/ WriteVisitStatus(c) \/ WriteTotal(c)
    PROVE  Keeps(c)
<1> DEFINE v == calls[c].on
           old == visit[v]
           saw == calls[c].saw
<1>1. /\ v \in Visits /\ old \in VisitRows /\ calls[c].stage \in {"use_code", "set_visit", "write_total"}
      /\ UNCHANGED <<client, commission, revenue>> /\ Return(c)
  <2>1. /\ calls[c].stage \in {"use_code", "set_visit", "write_total"}
        /\ UNCHANGED <<client, commission, revenue>> /\ Return(c)
    BY Zenon DEF WriteReservationUsed, WriteVisitStatus, WriteTotal, At, books
  <2>2. v \in Visits
    BY <2>1 DEF SalonCall, VisitStages, SalonStages
  <2> QED BY <2>1, <2>2 DEF VisitsTyped
<1>2. \A r, adds : VisitFound(calls'[c], r, adds)
  BY <1>1, Returned, VisitUnfound
<1>3. ASSUME Spared(v), BooksTyped', VisitBooked(visit'[v], commission'[v], revenue'[v]),
             VisitsCalm /\ VisitFound(calls[c], old, Adds) => VisitCalm(visit'[v], revenue'[v], admitted'[v], v \in shortened', Adds),
             VisitFound(calls[c], old, Adds) /\ TotalsBut(visit, shortened, calls[c]) => TotalRight(visit'[v], v \in shortened')
      PROVE  Keeps(c)
  BY <1>1, <1>2, <1>3, OneVisit DEF Keeps
<1>4. VisitBooked(old, commission[v], revenue[v]) /\ revenue[v] \in Seq(Nat) /\ admitted[v] \in Nat
  BY <1>1 DEF Booked, BooksTyped
<1>5. /\ VisitsCalm => VisitCalm(old, revenue[v], admitted[v], v \in shortened, Adds)
      /\ TotalsBut(visit, shortened, calls[c]) => TotalRight(old, v \in shortened) \/ calls[c].stage \in Editing
  BY <1>1 DEF VisitsCalm, TotalsBut
<1> HIDE DEF old, saw
<1>6. CASE WriteReservationUsed(c)
  <2>1. /\ calls[c].stage = "use_code" /\ shortened' = shortened
        /\ WriteVisit(v, [old EXCEPT !.stylist = TRUE, !.used = TRUE])
        /\ admitted' = IF There(v) THEN [admitted EXCEPT ![v] = @ + 1] ELSE admitted
    BY <1>6 DEF WriteReservationUsed, At, old
  <2>2. PICK row : row = [old EXCEPT !.stylist = TRUE, !.used = TRUE]
    OBVIOUS
  <2>3. /\ row.status = old.status /\ row.total = old.total /\ row.services = old.services /\ row.goods = old.goods
        /\ row.off = old.off /\ row.used = TRUE
    BY <1>1, <2>2 DEF VisitRows
  <2>4. BooksTyped' /\ admitted'[v] \in Nat /\ (There(v) => admitted'[v] = admitted[v] + 1)
    BY <1>1, <2>1 DEF BooksTyped
  <2>5. Spared(v)
    BY <1>1, <2>1, <2>2 DEF Spared, WriteVisit, VisitsTyped, BooksTyped
  <2>6. visit'[v] = IF There(v) THEN row ELSE old
    BY <1>1, <2>1, <2>2 DEF WriteVisit, VisitsTyped, old
  <2>7. VisitBooked(visit'[v], commission'[v], revenue'[v])
    BY <1>1, <1>4, <2>3, <2>6 DEF VisitBooked
  <2>8. ASSUME VisitsCalm, VisitFound(calls[c], old, Adds)
        PROVE  VisitCalm(visit'[v], revenue'[v], admitted'[v], v \in shortened', Adds)
    <3>1. ~ old.used /\ old.status \notin {"none", "deleted"} /\ There(v)
      BY <2>1, <2>8 DEF VisitFound, There, old
    <3>2. admitted[v] = 0 /\ VisitCalm(old, revenue[v], admitted[v], v \in shortened, Adds)
      BY <1>4, <1>5, <2>8, <3>1 DEF VisitCalm
    <3> QED BY <1>1, <2>1, <2>3, <2>4, <2>6, <3>1, <3>2 DEF VisitCalm
  <2>9. ASSUME TotalsBut(visit, shortened, calls[c])
        PROVE  TotalRight(visit'[v], v \in shortened')
    <3>1. TotalRight(old, v \in shortened)
      BY <1>5, <2>1, <2>9 DEF Editing
    <3> QED BY <2>1, <2>3, <2>6, <3>1 DEF TotalRight
  <2> QED BY <1>3, <2>4, <2>5, <2>7, <2>8, <2>9
<1>7. CASE WriteVisitStatus(c)
  <2>1. /\ calls[c].stage = "set_visit" /\ UNCHANGED <<admitted, shortened>> /\ WriteVisit(v, [old EXCEPT !.status = saw])
    BY <1>7 DEF WriteVisitStatus, At, old, saw
  <2>2. saw \in Settable
    BY <2>1 DEF SalonCall, saw
  <2>3. PICK row : row = [old EXCEPT !.status = saw]
    OBVIOUS
  <2>4. /\ row.status = saw /\ row.total = old.total /\ row.services = old.services /\ row.goods = old.goods
        /\ row.off = old.off /\ row.used = old.used
    BY <1>1, <2>3 DEF VisitRows
  <2>5. BooksTyped' /\ Spared(v)
    BY <1>1, <2>1, <2>3 DEF Spared, WriteVisit, VisitsTyped, BooksTyped
  <2>6. visit'[v] = IF There(v) THEN row ELSE old
    BY <1>1, <2>1, <2>3 DEF WriteVisit, VisitsTyped, old
  <2>7. VisitBooked(visit'[v], commission'[v], revenue'[v])
    <3>1. There(v) => old.status \notin {"none", "deleted"}
      BY DEF There, old
    <3> QED BY <1>1, <1>4, <2>2, <2>4, <2>6, <3>1 DEF VisitBooked, Settable
  <2>8. ASSUME VisitsCalm, VisitFound(calls[c], old, Adds)
        PROVE  VisitCalm(visit'[v], revenue'[v], admitted'[v], v \in shortened', Adds)
    <3>1. old.status \in Modifiable /\ There(v)
      BY <2>1, <2>8 DEF VisitFound, There, old, Modifiable
    <3>2. VisitCalm(old, revenue[v], admitted[v], v \in shortened, Adds) /\ revenue[v] = << >>
      BY <1>5, <2>8, <3>1 DEF VisitCalm, Modifiable
    <3> QED BY <1>1, <2>1, <2>2, <2>4, <2>6, <3>1, <3>2 DEF VisitCalm, Settable, Modifiable
  <2>9. ASSUME TotalsBut(visit, shortened, calls[c])
        PROVE  TotalRight(visit'[v], v \in shortened')
    <3>1. TotalRight(old, v \in shortened)
      BY <1>5, <2>1, <2>9 DEF Editing
    <3>2. There(v) => old.status \notin {"none", "deleted"}
      BY DEF There, old
    <3> QED BY <2>1, <2>4, <2>6, <3>1, <3>2 DEF TotalRight
  <2> QED BY <1>3, <2>5, <2>7, <2>8, <2>9
<1>8. CASE WriteTotal(c)
  <2>1. /\ calls[c].stage = "write_total" /\ admitted' = admitted /\ shortened' = shortened \cup {v}
        /\ WriteVisit(v, [old EXCEPT !.total = saw])
    BY <1>8 DEF WriteTotal, At, old, saw
  <2>2. saw \in Nat
    BY <2>1 DEF SalonCall, saw
  <2>3. PICK row : row = [old EXCEPT !.total = saw]
    OBVIOUS
  <2>4. /\ row.status = old.status /\ row.total = saw /\ row.services = old.services /\ row.goods = old.goods
        /\ row.used = old.used
    BY <1>1, <2>3 DEF VisitRows
  <2>5. BooksTyped' /\ Spared(v) /\ v \in shortened'
    BY <1>1, <2>1, <2>3 DEF Spared, WriteVisit, VisitsTyped, BooksTyped
  <2>6. visit'[v] = IF There(v) THEN row ELSE old
    BY <1>1, <2>1, <2>3 DEF WriteVisit, VisitsTyped, old
  <2>7. VisitBooked(visit'[v], commission'[v], revenue'[v])
    BY <1>1, <1>4, <2>4, <2>6 DEF VisitBooked
  <2>8. ASSUME VisitsCalm, VisitFound(calls[c], old, Adds)
        PROVE  VisitCalm(visit'[v], revenue'[v], admitted'[v], v \in shortened', Adds)
    <3>1. Editable(old, Adds) /\ old.status # "none"
      BY <2>1, <2>8 DEF VisitFound, Editable, Modifiable
    <3>2. VisitCalm(old, revenue[v], admitted[v], v \in shortened, Adds)
      BY <1>5, <2>8
    <3>3. revenue[v] = << >> \/ Adds
      BY <3>1, <3>2 DEF VisitCalm, Editable, Modifiable
    <3> QED BY <1>1, <2>1, <2>4, <2>6, <3>1, <3>2, <3>3 DEF VisitCalm
  <2>9. ASSUME VisitFound(calls[c], old, Adds)
        PROVE  TotalRight(visit'[v], v \in shortened')
    <3>1. saw = ComputeTotal(old.services, old.goods) /\ There(v)
      BY <2>1, <2>9 DEF VisitFound, Editable, Modifiable, There, old, saw
    <3> QED BY <2>2, <2>4, <2>5, <2>6, <3>1 DEF TotalRight
  <2> QED BY <1>3, <2>5, <2>7, <2>8, <2>9
<1> QED BY <1>6, <1>7, <1>8

\* A new booking, and a completed one.
LEMMA SalonBooks ==
    ASSUME Shape, VisitsTyped, BooksTyped, Booked, scenario' = scenario, NEW c \in Callers, SalonCall(calls[c]),
           WriteBooking(c)
    PROVE  Keeps(c)
<1> DEFINE v == calls[c].on
           q == Wish[v]
<1>1. v \in Visits
  BY DEF WriteBooking, At, SalonCall, VisitStages, SalonStages
<1>2. /\ calls[c].stage = "write_visit" /\ Return(c)
      /\ UNCHANGED <<client, commission, revenue, admitted, shortened>>
  BY Zenon DEF WriteBooking, At, books
<1>3. \A r, adds : VisitFound(calls'[c], r, adds)
  BY <1>2, Returned, VisitUnfound
<1>4. PICK total, off : /\ total = ComputeTotal(q.services, q.goods)
                        /\ off = IF q.code = "none" THEN 0 ELSE (total * Off) \div 100
  OBVIOUS
<1>5. PICK row : row = [NoVisit EXCEPT !.status = "SCHEDULED", !.stylist = q.stylist, !.services = q.services,
                                       !.goods = q.goods, !.off = off, !.total = total - off]
  OBVIOUS
<1>6. visit' = visit \/ (visit[v].status = "none" /\ visit' = [visit EXCEPT ![v] = row])
  BY <1>4, <1>5, Zenon DEF WriteBooking
<1>7. CASE visit' = visit
  BY <1>2, <1>3, <1>7, BooksRead DEF Keeps, BooksTyped, Editing
<1>8. CASE visit[v].status = "none" /\ visit' = [visit EXCEPT ![v] = row]
  <2>1. /\ row.status = "SCHEDULED" /\ row.services = q.services /\ row.goods = q.goods
        /\ row.off = off /\ row.total = total - off
    BY <1>5 DEF NoVisit
  <2>2. Spared(v) /\ visit'[v] = row /\ BooksTyped'
    BY <1>1, <1>2, <1>8 DEF Spared, VisitsTyped, BooksTyped
  <2>3. revenue[v] = << >> /\ VisitBooked(row, commission[v], revenue[v])
    BY <1>1, <1>8, <2>1 DEF Booked, VisitBooked
  <2>4. VisitsCalm => v \notin shortened /\ VisitCalm(row, revenue[v], admitted[v], v \in shortened, Adds)
    <3>1. VisitsCalm => VisitCalm(visit[v], revenue[v], admitted[v], v \in shortened, Adds)
      BY <1>1 DEF VisitsCalm
    <3> QED BY <1>8, <2>1, <2>3, <3>1 DEF VisitCalm
  <2>5. v \notin shortened => TotalRight(row, v \in shortened)
    BY <1>4, <2>1 DEF TotalRight
  <2>6. calls[c].stage \notin Editing
    BY <1>2 DEF Editing
  <2> QED BY <1>1, <1>2, <1>3, <2>2, <2>3, <2>4, <2>5, <2>6, OneVisit DEF Keeps
<1> QED BY <1>6, <1>7, <1>8

LEMMA SalonCompletes ==
    ASSUME Shape, VisitsTyped, BooksTyped, Booked, scenario' = scenario, NEW c \in Callers, SalonCall(calls[c]),
           WriteCompletion(c)
    PROVE  Keeps(c)
<1> DEFINE v == calls[c].on
           saw == calls[c].saw
           old == visit[v]
<1>1. v \in Visits /\ saw \in VisitRows /\ old \in VisitRows /\ calls[c].stage = "complete_visit"
  BY DEF WriteCompletion, At, SalonCall, VisitStages, SalonStages, VisitsTyped
<1>2. UNCHANGED <<client, admitted, shortened>>
  BY DEF WriteCompletion
<1>3. PICK com : com = Commission(saw)
  OBVIOUS
<1>4. com \in Nat /\ saw.total \in Nat
  <2>1. PICK sum : sum = SumOf(saw.services)
    OBVIOUS
  <2>2. sum \in Nat /\ Rate \in Nat /\ saw.total \in Nat
    BY <1>1, <2>1, SumOfIsNat, SalonAssumption DEF VisitRows
  <2>3. (sum * Rate) \div 100 \in Nat
    BY <2>2
  <2> QED BY <1>3, <2>1, <2>2, <2>3 DEF Commission
<1>5. \/ Return(c) /\ UNCHANGED <<visit, commission, revenue>>
      \/ /\ There(v) /\ commission[v] = -1
         /\ Continue(c, [stage |-> "low_stock", on |-> v, saw |-> saw.goods])
         /\ visit' = [visit EXCEPT ![v].status = "COMPLETED"]
         /\ commission' = [commission EXCEPT ![v] = com]
         /\ revenue' = [revenue EXCEPT ![v] = Append(@, saw.total)]
  BY <1>3, Zenon DEF WriteCompletion, books
<1>6. calls'[c].stage \in {"idle", "low_stock"}
  BY <1>5, Returned, Continued
<1>7. \A r, adds : VisitFound(calls'[c], r, adds)
  BY <1>6, VisitUnfound
<1>8. CASE UNCHANGED <<visit, commission, revenue>>
  BY <1>1, <1>2, <1>7, <1>8, BooksRead DEF Keeps, BooksTyped, Editing
<1>9. CASE /\ There(v) /\ commission[v] = -1
           /\ visit' = [visit EXCEPT ![v].status = "COMPLETED"]
           /\ commission' = [commission EXCEPT ![v] = com]
           /\ revenue' = [revenue EXCEPT ![v] = Append(@, saw.total)]
  <2>1. PICK row : row = [old EXCEPT !.status = "COMPLETED"]
    OBVIOUS
  <2>2. /\ row.status = "COMPLETED" /\ row.total = old.total /\ row.services = old.services /\ row.goods = old.goods
        /\ row.off = old.off /\ row.used = old.used
    BY <1>1, <2>1 DEF VisitRows
  <2>3. old.status \notin {"none", "deleted"}
    BY <1>9 DEF There
  <2>4. revenue[v] = << >>
    BY <1>1, <1>9, <2>3 DEF Booked, VisitBooked
  <2>5. Append(revenue[v], saw.total) = <<saw.total>> /\ <<saw.total>> \in Seq(Nat) /\ Len(<<saw.total>>) = 1
    BY <1>4, <2>4
  <2>6. Spared(v) /\ visit'[v] = row /\ commission'[v] = com /\ revenue'[v] = <<saw.total>>
    BY <1>1, <1>2, <1>9, <2>1, <2>5 DEF Spared, VisitsTyped, BooksTyped
  <2>7. BooksTyped'
    BY <1>1, <1>2, <1>4, <1>9, <2>5 DEF BooksTyped
  <2>8. VisitBooked(row, com, <<saw.total>>)
    BY <1>4, <2>2, <2>5 DEF VisitBooked
  <2>9. ASSUME VisitsCalm, VisitFound(calls[c], old, Adds)
        PROVE  VisitCalm(row, <<saw.total>>, admitted[v], v \in shortened, Adds)
    <3>1. saw = old
      BY <1>1, <2>9 DEF VisitFound
    <3>2. VisitCalm(old, revenue[v], admitted[v], v \in shortened, Adds)
      BY <1>1, <2>9 DEF VisitsCalm
    <3> QED BY <2>2, <2>3, <3>1, <3>2 DEF VisitCalm
  <2>10. TotalsBut(visit, shortened, calls[c]) => TotalRight(row, v \in shortened)
    <3>1. TotalsBut(visit, shortened, calls[c]) => TotalRight(old, v \in shortened)
      BY <1>1 DEF TotalsBut, Editing
    <3> QED BY <2>2, <2>3, <3>1 DEF TotalRight
  <2>11. calls[c].stage \notin Editing
    BY <1>1 DEF Editing
  <2> HIDE DEF old, saw
  <2> QED BY <1>1, <1>2, <1>7, <2>6, <2>7, <2>8, <2>9, <2>10, <2>11, OneVisit DEF Keeps, old
<1> QED BY <1>5, <1>8, <1>9

\* What a handler has found when it begins.
LEMMA SalonBegins ==
    ASSUME Shape, VisitsTyped, BooksTyped, Booked, scenario' = scenario, NEW c \in Callers, Ready(c), SalonRequest(c)
    PROVE  Keeps(c)
<1>0. calls[c].stage \notin Editing
  BY DEF Ready, At, Editing
<1>1. ASSUME UNCHANGED <<visit, client, commission, revenue, admitted, shortened>>,
             VisitFound(calls'[c], visit'[calls'[c].on], Adds)
      PROVE  Keeps(c)
  BY <1>0, <1>1, BooksRead DEF Keeps, BooksTyped
<1>2. ASSUME NEW x \in Visits, Create(c, x) \/ Reserve(c, x) \/ VerifyReservationAnywhere(c, x)
      PROVE  Keeps(c)
  <2>1. calls'[c].stage \in {"find_client", "verify_found"} /\ UNCHANGED <<visit, client, commission, revenue, admitted, shortened>>
    BY <1>2, Begun DEF Create, Reserve, VerifyReservationAnywhere, salon
  <2>2. VisitFound(calls'[c], visit'[calls'[c].on], Adds)
    BY <2>1, VisitUnfound
  <2> QED BY <1>1, <2>1, <2>2
<1>3. ASSUME NEW x \in Visits, VerifyReservation(c, x)
      PROVE  Keeps(c)
  <2>1. /\ calls'[c].stage = "use_code" /\ calls'[c].on = x /\ There(x) /\ ~ visit[x].used
        /\ UNCHANGED <<visit, client, commission, revenue, admitted, shortened>>
    BY <1>3, Begun DEF VerifyReservation, salon
  <2> QED BY <1>1, <2>1 DEF VisitFound, There
<1>4. ASSUME NEW x \in Visits, NEW status \in VisitStatuses, SetVisit(c, x, status)
      PROVE  Keeps(c)
  <2>1. /\ calls'[c].stage = "set_visit" /\ calls'[c].on = x /\ visit[x].status \in Modifiable
        /\ UNCHANGED <<visit, client, commission, revenue, admitted, shortened>>
    BY <1>4, Begun DEF SetVisit, salon
  <2> QED BY <1>1, <2>1 DEF VisitFound
<1>5. ASSUME NEW x \in Visits, NEW new, EditBooking(c, x, new) \/ AddInventoryItem(c, x, new)
      PROVE  Keeps(c)
  <2>1. /\ calls'[c].stage \in {"replace_services", "add_goods"} /\ calls'[c].on = x /\ visit[x].status \in Modifiable
        /\ UNCHANGED <<visit, client, commission, revenue, admitted, shortened>>
    BY <1>5, Begun DEF EditBooking, AddInventoryItem, salon
  <2> QED BY <1>1, <2>1 DEF VisitFound
<1>6. ASSUME NEW x \in Visits, NEW s \in Menu, AddServiceToCompletedBooking(c, x, s)
      PROVE  Keeps(c)
  <2>1. /\ calls'[c].stage = "add_service" /\ calls'[c].on = x /\ visit[x].status = "COMPLETED" /\ Adds
        /\ UNCHANGED <<visit, client, commission, revenue, admitted, shortened>>
    BY <1>6, Begun DEF AddServiceToCompletedBooking, salon, Begin, Adds
  <2> QED BY <1>1, <2>1 DEF VisitFound, Editable
<1>7. ASSUME NEW x \in Visits, Complete(c, x)
      PROVE  Keeps(c)
  <2>1. /\ calls'[c].stage = "recipes" /\ calls'[c].on = x /\ calls'[c].saw = visit[x] /\ visit[x].status \in Modifiable
        /\ UNCHANGED <<visit, client, commission, revenue, admitted, shortened>>
    BY <1>7, Begun DEF Complete, salon
  <2> QED BY <1>1, <2>1 DEF VisitFound
<1>8. ASSUME NEW x \in Visits, DeleteBooking(c, x)
      PROVE  Keeps(c)
  <2>1. /\ There(x) /\ calls' = calls /\ UNCHANGED <<client, revenue, admitted, shortened>>
        /\ visit' = [visit EXCEPT ![x].status = "deleted"] /\ commission' = [commission EXCEPT ![x] = -1]
    BY <1>8 DEF DeleteBooking, Once
  <2>2. PICK row : row = [visit[x] EXCEPT !.status = "deleted"]
    OBVIOUS
  <2>3. row.status = "deleted" /\ row.used = visit[x].used
    BY <2>2 DEF VisitsTyped, VisitRows
  <2>4. Spared(x) /\ visit'[x] = row /\ commission'[x] = -1
    BY <2>1, <2>2 DEF Spared, VisitsTyped, BooksTyped
  <2>5. BooksTyped'
    BY <2>1 DEF BooksTyped
  <2>6. VisitBooked(row, -1, revenue[x])
    BY <2>3 DEF Booked, VisitBooked
  <2>7. VisitsCalm => VisitCalm(row, revenue[x], admitted[x], x \in shortened, Adds)
    BY <2>1, <2>3 DEF VisitsCalm, VisitCalm, There
  <2>8. TotalRight(row, x \in shortened)
    BY <2>3 DEF TotalRight
  <2>9. \A r, adds : VisitFound(calls'[c], r, adds)
    <3>1. calls'[c].stage = "idle"
      BY <2>1 DEF Ready, At
    <3> QED BY <3>1, VisitUnfound
  <2> QED BY <1>0, <2>1, <2>4, <2>5, <2>6, <2>7, <2>8, <2>9, OneVisit DEF Keeps
<1> QED BY <1>2, <1>3, <1>4, <1>5, <1>6, <1>7, <1>8 DEF SalonRequest, DeskRequest, ServingRequest

-----------------------------------------------------------------------------
(* Where the handlers of other parts come from.                            *)

LEMMA OthersFrom ==
    ASSUME NEW c \in Callers,
           \/ InventoryNext(c) \/ ProcurementNext(c) \/ ShopNext(c) \/ PromotionsNext(c)
           \/ CatalogueNext(c) \/ TakingsNext(c)
    PROVE  calls[c].stage \notin SalonStages
<1>1. CASE Ready(c)
  BY <1>1, SalonApart DEF Ready, At
<1>2. CASE InventoryStep(c)
  <2>1. calls[c].stage \in InventoryStages
    <3>1. CASE WriteAllocated(c) \/ CheckLowStock(c) \/ OpenAlert(c) \/ WriteEscalated(c) \/ WriteSold(c)
      BY <3>1, Zenon, InventoryStagesAre DEF WriteAllocated, CheckLowStock, OpenAlert, WriteEscalated, WriteSold, At
    <3>2. CASE WriteAdjustmentApproval(c) \/ ApplyAdjustment(c) \/ WriteAdjustment(c) \/ FinishAdjustment(c)
      BY <3>2, Zenon, InventoryStagesAre DEF WriteAdjustmentApproval, ApplyAdjustment, WriteAdjustment, FinishAdjustment, At
    <3>3. CASE WriteTransferApproval(c) \/ RecheckTransfer(c) \/ WriteTransfer(c) \/ WriteRejection(c) \/ FinishRejection(c)
      BY <3>3, Zenon, InventoryStagesAre DEF WriteTransferApproval, RecheckTransfer, WriteTransfer, WriteRejection, FinishRejection, At
    <3> QED BY <1>2, <3>1, <3>2, <3>3 DEF InventoryStep
  <2> QED BY <2>1, SalonApart
<1>3. CASE ProcurementStep(c)
  <2>1. calls[c].stage \in ProcurementStages
    <3>1. CASE WriteEdited(c) \/ WriteRemoved(c) \/ WriteSubmitted(c) \/ WriteOrderApproval(c) \/ WriteUnderReview(c) \/ WriteOrderApproved(c)
      BY <3>1, Zenon, ProcurementStagesAre
         DEF WriteEdited, WriteRemoved, WriteSubmitted, WriteOrderApproval, WriteUnderReview, WriteOrderApproved, At
    <3>2. CASE ConvertToPurchase(c) \/ WriteOrderRejection(c) \/ WriteOrderRejected(c) \/ CountDelivered(c)
      BY <3>2, Zenon, ProcurementStagesAre DEF ConvertToPurchase, WriteOrderRejection, WriteOrderRejected, CountDelivered, At
    <3>3. CASE WriteDelivery(c) \/ JudgeReview(c) \/ WriteAcceptance(c) \/ WritePayment(c)
      BY <3>3, Zenon, ProcurementStagesAre DEF WriteDelivery, JudgeReview, WriteAcceptance, WritePayment, At
    <3> QED BY <1>3, <3>1, <3>2, <3>3 DEF ProcurementStep
  <2> QED BY <2>1, SalonApart
<1>4. CASE ShopStep(c)
  <2>1. calls[c].stage \in ShopStages
    <3>1. CASE PlaceOrder(c) \/ WriteOrderStatus(c) \/ KeepCopy(c) \/ DropCopies(c) \/ UploadFirst(c) \/ CreateProduct(c)
      BY <3>1, Zenon, ShopStagesAre DEF PlaceOrder, WriteOrderStatus, KeepCopy, DropCopies, UploadFirst, CreateProduct, At
    <3>2. CASE RemoveAssets(c) \/ RemoveRows(c) \/ UploadPictures(c) \/ CreateRows(c) \/ WriteProduct(c)
      BY <3>2, Zenon, ShopStagesAre DEF RemoveAssets, RemoveRows, UploadPictures, CreateRows, WriteProduct, At
    <3>3. CASE WriteProductStatus(c) \/ DeleteAssets(c) \/ DeleteProduct(c) \/ WriteKind(c)
      BY <3>3, Zenon, ShopStagesAre DEF WriteProductStatus, DeleteAssets, DeleteProduct, WriteKind, At
    <3> QED BY <1>4, <3>1, <3>2, <3>3 DEF ShopStep, AssortmentStep
  <2> QED BY <2>1, SalonApart
<1>5. CASE PromotionsStep(c)
  <2>1. calls[c].stage \in PromotionsStages
    <3>1. CASE WriteCode(c) \/ WriteCodeUpdate(c) \/ LookAtCampaign(c) \/ CreditBonus(c) \/ LinkReferral(c) \/ ProcessReward(c)
      BY <3>1, Zenon, PromotionsStagesAre DEF WriteCode, WriteCodeUpdate, LookAtCampaign, CreditBonus, LinkReferral, ProcessReward, At
    <3>2. CASE ReadSettings(c) \/ LookAgain(c) \/ CreditReward(c) \/ MarkFailed(c) \/ WriteCampaign(c) \/ WriteCampaignDeletion(c)
      BY <3>2, Zenon, PromotionsStagesAre DEF ReadSettings, LookAgain, CreditReward, MarkFailed, WriteCampaign, WriteCampaignDeletion, At
    <3> QED BY <1>5, <3>1, <3>2 DEF PromotionsStep
  <2> QED BY <2>1, SalonApart
<1>6. CASE CatalogueStep(c)
  <2>1. calls[c].stage \in CatalogueStages
    <3>1. CASE UploadImage(c) \/ DeleteImage(c)
      BY <3>1, Zenon DEF UploadImage, DeleteImage, At, CatalogueStages
    <3>2. ASSUME calls[c].stage \in PlainStages PROVE calls[c].stage \in CatalogueStages
      BY <3>2 DEF CatalogueStages
    <3>3. CASE KeepPage(c) \/ DropPages(c) \/ InsertService(c) \/ WriteServiceRow(c) \/ WriteServiceStatus(c) \/ DeleteService(c)
      BY <3>2, <3>3, Zenon, PlainStagesAre DEF KeepPage, DropPages, InsertService, WriteServiceRow, WriteServiceStatus, DeleteService, At
    <3>4. CASE InsertCategory(c) \/ WriteCategory(c) \/ DeleteCategory(c) \/ WriteOffers(c) \/ ReadOffer(c) \/ WriteOffer(c) \/ WriteLocation(c)
      BY <3>2, <3>4, Zenon, PlainStagesAre
         DEF InsertCategory, WriteCategory, DeleteCategory, WriteOffers, ReadOffer, WriteOffer, WriteLocation, At
    <3> QED BY <1>6, <3>1, <3>3, <3>4 DEF CatalogueStep
  <2> QED BY <2>1, SalonApart
<1>7. CASE TakingsStep(c)
  <2>1. calls[c].stage \in TakingsStages
    BY <1>7, Zenon, TakingsStagesAre
       DEF TakingsStep, WriteBookingStatus, WriteUsedBooking, ReadTakings, WriteCount, WriteDeadline, At
  <2> QED BY <2>1, SalonApart
<1> QED BY <1>1, <1>2, <1>3, <1>4, <1>5, <1>6, <1>7
        DEF InventoryNext, ProcurementNext, ShopNext, PromotionsNext, CatalogueNext, TakingsNext

-----------------------------------------------------------------------------
(* The inductive invariant for salon bookings.                             *)

\* An idle handler has found nothing.
LEMMA IdleFinds ==
    ASSUME NEW call, call.stage = "idle" \/ call.stage \notin SalonStages
    PROVE  call.stage \notin Editing /\ \A row, adds : VisitFound(call, row, adds)
<1>1. call.stage \notin SalonStages
  BY SalonApart
<1>2. /\ call.stage \notin Editing
      /\ call.stage \notin {"set_visit", "replace_services", "replace_goods", "details", "add_goods",
             "add_service", "recompute", "write_total", "recipes", "complete_visit", "use_code"}
  BY <1>1, SalonStagesAre DEF Editing
<1> QED BY <1>2, VisitUnfound

LEMMA SalonSalon ==
    ASSUME SignedInv, StockInv, SalonInv, NEW c \in Callers, SalonNext(c)
    PROVE  SalonInv'
<1>1. Shape /\ Lone /\ VisitsTyped /\ SalonCall(calls[c]) /\ BooksTyped /\ Booked
  BY DEF SignedInv, Handled, StockInv, StockTyped, SalonInv
<1>2. Acts(c, SalonStages)
  BY <1>1, SalonActs
<1>3. Keeps(c)
  <2>1. scenario' = scenario
    BY <1>2 DEF Acts
  <2>2. CASE SalonStep(c)
    BY <1>1, <2>1, <2>2, SalonReads, SalonEdits, SalonSettles, SalonBooks, SalonCompletes DEF SalonStep
  <2>3. CASE Ready(c) /\ SalonRequest(c)
    BY <1>1, <2>1, <2>3, SalonBegins
  <2> QED BY <2>2, <2>3 DEF SalonNext
<1>4. crashes' \in Nat /\ (crashes' = 0 => crashes = 0)
  BY <1>2 DEF Acts, SalonInv
<1>5. ASSUME ~ overlapped'
      PROVE  SalonCalm'
  <2>1. SalonCalm /\ \A d \in Callers \ {c} : calls[d].stage = "idle" /\ calls'[d].stage = "idle"
    BY <1>1, <1>2, <1>5, Alone DEF SalonInv
  <2>2. VisitsCalm /\ VisitFound(calls[c], visit[calls[c].on], Adds)
    BY <2>1 DEF SalonCalm
  <2>3. /\ VisitsCalm' /\ VisitFound(calls'[c], visit'[calls'[c].on], Adds)
        /\ TotalsBut(visit, shortened, calls[c]) => TotalsBut(visit', shortened', calls'[c])
    BY <1>3, <2>2 DEF Keeps
  <2>4. \A d \in Callers : VisitFound(calls'[d], visit'[calls'[d].on], Adds')
    <3>1. Adds' = Adds
      BY <1>2 DEF Acts, Adds
    <3> QED BY <2>1, <2>3, <3>1, IdleFinds
  <2>5. ASSUME crashes' = 0
        PROVE  TotalsRight'
    <3>1. TotalsRight
      BY <1>4, <2>1, <2>5 DEF SalonCalm
    <3>2. \A d \in Callers \ {c} : calls[d].stage \notin Editing
      BY <2>1, IdleFinds
    <3>3. TotalsBut(visit, shortened, calls[c])
      BY <3>1, <3>2 DEF TotalsRight, TotalsBut
    <3>4. TotalsBut(visit', shortened', calls'[c])
      BY <2>3, <3>3
    <3> QED BY <3>4 DEF TotalsRight, TotalsBut
  <2> QED BY <2>3, <2>4, <2>5 DEF SalonCalm
<1> QED BY <1>3, <1>4, <1>5 DEF SalonInv, Keeps

LEMMA SalonElsewhere ==
    ASSUME SignedInv, SalonInv, [Next]_vars, ~ \E c \in Callers : SalonNext(c)
    PROVE  SalonInv'
<1>1. Shape /\ Routed /\ Lone /\ BooksTyped /\ Booked /\ crashes \in Nat
  BY DEF SignedInv, Handled, SalonInv
<1>2. ASSUME UNCHANGED salon
      PROVE  BooksTyped' /\ Booked'
  BY <1>1, <1>2 DEF BooksTyped, Booked, salon
<1>3. ASSUME UNCHANGED salon, UNCHANGED handlers
      PROVE  SalonInv'
  <2>1. SalonCalm => SalonCalm'
    <3>1. visit' = visit /\ calls' = calls /\ Adds' = Adds /\ crashes' = crashes /\ (VisitsCalm => VisitsCalm')
          /\ (TotalsRight => TotalsRight')
      BY <1>3 DEF salon, handlers, Adds, VisitsCalm, TotalsRight
    <3> QED BY <3>1 DEF SalonCalm
  <2> QED BY <1>2, <1>3, <2>1 DEF SalonInv, handlers
<1>4. ASSUME NEW c \in Callers, NEW S, Acts(c, S), UNCHANGED salon, \A s \in S : s \notin SalonStages,
             calls[c].stage \notin SalonStages \/ crashes' # 0
      PROVE  SalonInv'
  <2>1. crashes' \in Nat /\ (crashes' = 0 => crashes = 0) /\ scenario' = scenario
    BY <1>1, <1>4 DEF Acts
  <2>2. ASSUME ~ overlapped'
        PROVE  SalonCalm'
    <3>1. SalonCalm /\ \A d \in Callers \ {c} : calls[d].stage = "idle" /\ calls'[d].stage = "idle"
      BY <1>1, <1>4, <2>2, Alone DEF SalonInv
    <3>2. calls'[c].stage \notin SalonStages
      BY <1>4, SalonApart DEF Acts
    <3>3. \A d \in Callers : VisitFound(calls'[d], visit'[calls'[d].on], Adds')
      BY <3>1, <3>2, IdleFinds
    <3>4. VisitsCalm'
      BY <1>4, <2>1, <3>1 DEF SalonCalm, VisitsCalm, salon, Adds
    <3>5. ASSUME crashes' = 0
          PROVE  TotalsRight'
      <4>1. \A d \in Callers : calls[d].stage \notin Editing
        BY <1>4, <3>1, <3>5, IdleFinds
      <4>2. TotalsRight
        BY <2>1, <3>1, <3>5 DEF SalonCalm
      <4> QED BY <1>4, <4>1, <4>2 DEF TotalsRight, salon
    <3> QED BY <3>3, <3>4, <3>5 DEF SalonCalm
  <2> QED BY <1>2, <1>4, <2>1, <2>2 DEF SalonInv
<1>5. /\ \A s \in InventoryStages : s \notin SalonStages
      /\ \A s \in ProcurementStages : s \notin SalonStages
      /\ \A s \in ShopStages : s \notin SalonStages
      /\ \A s \in PromotionsStages : s \notin SalonStages
      /\ \A s \in CatalogueStages : s \notin SalonStages
      /\ \A s \in TakingsStages : s \notin SalonStages
  BY SalonApart
<1>6. ASSUME NEW c \in Callers, InventoryNext(c) \/ ProcurementNext(c) \/ ShopNext(c)
      PROVE  SalonInv'
  <2>1. UNCHANGED salon /\ calls[c].stage \notin SalonStages
    BY <1>6, OthersFrom DEF InventoryNext, ProcurementNext, ShopNext
  <2> QED BY <1>1, <1>4, <1>5, <1>6, <2>1, InventoryActs, ProcurementActs, ShopActs
<1>7. ASSUME NEW c \in Callers, PromotionsNext(c) \/ CatalogueNext(c) \/ TakingsNext(c)
      PROVE  SalonInv'
  <2>1. UNCHANGED salon /\ calls[c].stage \notin SalonStages
    BY <1>7, OthersFrom DEF PromotionsNext, CatalogueNext, TakingsNext
  <2> QED BY <1>1, <1>4, <1>5, <1>7, <2>1, PromotionsActs, CatalogueActs, TakingsActs
<1>8. ASSUME NEW c \in Callers, Dies(c)
      PROVE  SalonInv'
  <2>1. UNCHANGED salon /\ crashes' = crashes + 1
    BY <1>8 DEF Dies, Crash
  <2>2. crashes' # 0
    BY <1>1, <2>1
  <2> QED BY <1>1, <1>4, <1>8, <2>1, <2>2, DiesActs
<1>9. CASE UNCHANGED vars
  BY <1>3, <1>9 DEF vars
<1>10. CASE SettingsExpire /\ UNCHANGED <<approval, inventory, procurement, shop, salon, catalogue, takings>>
  BY <1>3, <1>10 DEF SettingsExpire
<1>11. CASE PageExpires /\ UNCHANGED <<approval, inventory, procurement, shop, promotions, salon, takings>>
  BY <1>3, <1>11 DEF PageExpires
<1>12. CASE TimePasses /\ UNCHANGED <<approval, inventory, procurement, shop, promotions, salon, catalogue>>
  BY <1>3, <1>12 DEF TimePasses
<1>13. CASE CopyExpires /\ UNCHANGED <<approval, inventory, procurement, purse, entries, bought, promotions, salon, catalogue, takings>>
  BY <1>3, <1>13 DEF CopyExpires
<1> QED BY <1>6, <1>7, <1>8, <1>9, <1>10, <1>11, <1>12, <1>13 DEF Next

LEMMA SalonAtFirst == Init => SalonInv
<1> SUFFICES ASSUME Init PROVE SalonInv
  OBVIOUS
<1>1. /\ \A v \in Visits : commission[v] = -1 /\ revenue[v] = << >> /\ admitted[v] = 0
      /\ shortened = {} /\ crashes = 0
      /\ \A c \in Callers : calls[c].stage = "idle"
  BY DEF Init, SalonInit, HandlersInit, Idle
<1>2. BooksTyped
  <2>1. client \in [Phones -> {"none", "walk-in", "linked"}]
    <3>1. PICK met : met = [p \in Phones |-> \E v \in Standing : Wish[v].phone = p]
      OBVIOUS
    <3>2. client = [p \in Phones |-> IF met[p] THEN "walk-in" ELSE "none"]
      BY <3>1 DEF Init, SalonInit
    <3> QED BY <3>2
  <2>2. /\ commission = [v \in Visits |-> -1] /\ revenue = [v \in Visits |-> << >>]
        /\ admitted = [v \in Visits |-> 0]
    BY DEF Init, SalonInit
  <2>3. << >> \in Seq(Nat)
    OBVIOUS
  <2> QED BY <2>1, <2>2, <2>3 DEF BooksTyped
<1>3. Booked
  BY <1>1 DEF Booked, VisitBooked
<1>4. ASSUME NEW v \in Visits
      PROVE  visit[v].status \in {"none", "SCHEDULED"} /\ TotalRight(visit[v], v \in shortened)
  <2>1. CASE v \notin Standing
    BY <1>1, <2>1 DEF Init, SalonInit, NoVisit, TotalRight
  <2>2. CASE v \in Standing
    <3>1. PICK total : total = ComputeTotal(Wish[v].services, Wish[v].goods)
      OBVIOUS
    <3>2. total \in Nat
      <4>1. Wish[v].services \in Seq(Menu) /\ Wish[v].goods \in Seq(Lines)
        BY SalonAssumption
      <4> QED BY <3>1, <4>1, TotalIsNat
    <3>3. /\ visit[v].status = "SCHEDULED" /\ visit[v].total = total /\ visit[v].off = 0
          /\ visit[v].services = Wish[v].services /\ visit[v].goods = Wish[v].goods
      BY <2>2, <3>1 DEF Init, SalonInit, NoVisit
    <3> QED BY <1>1, <3>1, <3>2, <3>3 DEF TotalRight
  <2> QED BY <2>1, <2>2
<1>5. SalonCalm
  <2>1. VisitsCalm
    BY <1>1, <1>4 DEF VisitsCalm, VisitCalm
  <2>2. \A c \in Callers : VisitFound(calls[c], visit[calls[c].on], Adds)
    BY <1>1, IdleFinds
  <2>3. TotalsRight
    BY <1>4 DEF TotalsRight
  <2> QED BY <2>1, <2>2, <2>3 DEF SalonCalm
<1> QED BY <1>1, <1>2, <1>3, <1>5 DEF SalonInv

\* A booking is completed once, its revenue and the stylist's commission come with each other, the
\* books have the booking's total, totals are those of the lines, and a reservation admits once, as
\* long as handlers do not overlap (the first two whoever overlaps and whoever dies): for any number
\* of bookings, services, goods and handlers.
THEOREM VisitsEarnOnce == Spec => []SalonKept
<1>1. SignedInv /\ [Next]_vars => SignedInv'
  BY HandledStays, SignedInventory, SignedProcurement, SignedElsewhere DEF SignedInv
<1>2. SignedInv /\ StockInv /\ [Next]_vars => StockInv'
  BY StockInventory, StockProcurement, StockSalon, StockElsewhere
<1>3. SignedInv /\ StockInv /\ SalonInv /\ [Next]_vars => SalonInv'
  BY SalonSalon, SalonElsewhere
<1>4. SignedInv /\ StockInv /\ SalonInv => SalonKept
  <2> SUFFICES ASSUME SignedInv, StockInv, SalonInv PROVE SalonKept
    OBVIOUS
  <2>1. BooksTyped /\ Booked /\ VisitsTyped /\ crashes \in Nat
    BY DEF StockInv, StockTyped, SalonInv
  <2>2. SalonTypeOK /\ CompletedOnce
    <3>1. \A v \in Visits : commission[v] \in Nat \cup {-1} /\ admitted[v] \in Nat
      BY <2>1 DEF BooksTyped
    <3>2. \A v \in Visits : commission[v] >= -1
      BY <3>1
    <3>3. \A v \in Visits : Len(revenue[v]) <= 1
      BY <2>1 DEF Booked, VisitBooked
    <3> QED BY <2>1, <3>1, <3>2, <3>3 DEF SalonTypeOK, BooksTyped, VisitsTyped, CompletedOnce
  <2>3. \A v \in Visits : /\ commission[v] >= 0 => revenue[v] # << >>
                          /\ revenue[v] # << >> /\ There(v) => commission[v] >= 0
    BY <2>1 DEF Booked, VisitBooked, There
  <2>4. CASE overlapped
    BY <2>2, <2>3, <2>4 DEF SalonKept, EarnedTogether, RevenueIsTotal, TotalIsLines, AdmittedOnce
  <2>5. CASE SalonCalm
    <3>1. \A v \in Visits : VisitCalm(visit[v], revenue[v], admitted[v], v \in shortened, Adds)
      BY <2>5 DEF SalonCalm, VisitsCalm
    <3>2. EarnedTogether /\ RevenueIsTotal /\ AdmittedOnce
      BY <2>3, <3>1 DEF EarnedTogether, RevenueIsTotal, AdmittedOnce, VisitCalm, There, Adds
    <3>3. TotalIsLines
      <4>1. ASSUME crashes = 0, Quiet, NEW v \in Visits
            PROVE  TotalRight(visit[v], v \in shortened)
        BY <2>5, <4>1 DEF SalonCalm, TotalsRight, Quiet, At, Editing
      <4>2. crashes > 0 \/ crashes = 0
        BY <2>1
      <4> QED BY <4>1, <4>2 DEF TotalIsLines, TotalRight, There
    <3> QED BY <2>2, <3>2, <3>3 DEF SalonKept
  <2> QED BY <2>4, <2>5 DEF SalonInv
<1> QED BY <1>1, <1>2, <1>3, <1>4, SignedAtFirst, StockAtFirst, SalonAtFirst, PTL DEF Spec

-----------------------------------------------------------------------------
(* Takings: the rows, what a count says, and what its handlers remember.   *)

BookingStatuses == {"progress", "done", "cancelled"}

\* What a row says of when it was done.  If it was done and is so no longer, it was rewritten.
RowDated(i) ==
    /\ income[i].at = {} \/ \E t \in 0..clock : income[i].at = {t}
    /\ income[i].touched <= clock
    /\ income[i].at # {} /\ income[i].status # "done" => i \in rewritten

TakingsTables ==
    /\ clock \in 0..LastHalfDay /\ income \in [Incomes -> IncomeRows] /\ (\A i \in Incomes : RowDated(i))
    /\ records \subseteq Incomes \X Nat /\ access \in [Accountants -> SUBSET Houses]
    /\ deadlines \in Seq(0..2) /\ count \in [Houses \X Days -> SUBSET CountRows] /\ rewritten \subseteq Incomes

\* A count is of a day that is over, and says what that day's rows say, but for those rewritten.
Excused(b) == \E i \in rewritten : House[i] = b
CountHolds(row, b, d) ==
    /\ d < DayOf(clock)
    /\ Excused(b) \/ (row.expected = ExpectedCash(b, d) /\ row.of = TakenOn(b, d))
    /\ \A i \in row.of : House[i] = b /\ (i \in rewritten \/ (income[i].status = "done" /\ DoneOn(i) = d))
CountsHold == \A b \in Houses, d \in Days : \A row \in count[<<b, d>>] : CountHolds(row, b, d)

\* Who is in the books is in them once, with the amount.
InTheBooks(i) == \A r \in records : r[1] = i => income[i].status = "done" /\ r = <<i, income[i].amount>>
Recorded(i)   == income[i].status = "done" => <<i, income[i].amount>> \in records
BooksRight == \A i \in Incomes \ (Bookings \cup rewritten) : InTheBooks(i) /\ Recorded(i)

TakingsCall(call) ==
    LET on == call.on  saw == call.saw IN
    /\ call.stage = "write_booking_status" => on \in Bookings /\ saw \in BookingStatuses
    /\ call.stage = "write_used_booking" => on \in Bookings
    /\ call.stage = "read_takings" => \E b \in Houses, d \in Days : on = <<b, d>> /\ d < DayOf(clock) /\ saw \in {0, 1}
    /\ call.stage = "write_count" => \E b \in Houses, d \in Days : on = <<b, d>> /\ saw \in CountRows /\ CountHolds(saw, b, d)
    /\ call.stage = "write_deadline" => on \in {0} \cup DOMAIN deadlines /\ saw \in 0..2

\* Until two handlers overlap: who is about to make the first deadline finds none.
FirstDeadline(call) == call.stage = "write_deadline" /\ call.on = 0 => deadlines = << >>
DeadlineCalm == overlapped \/ (Len(deadlines) <= 1 /\ \A c \in Callers : FirstDeadline(calls[c]))

\* The inductive invariant for takings.
TakingsInv == TakingsTables /\ CountsHold /\ BooksRight /\ (\A c \in Callers : TakingsCall(calls[c])) /\ DeadlineCalm

-----------------------------------------------------------------------------
(* Takings: half days, and sums over the rows.                             *)

LEMMA DaysGrow ==
    /\ \A s, t \in Nat : s <= t => DayOf(s) <= DayOf(t)
    /\ \A t \in Nat : DayOf(t) \in Nat
BY DEF DayOf

Amounts == [i \in Incomes |-> income[i].amount]

\* What is counted can be counted, and a part is no more than the whole.
LEMMA SumsAre ==
    ASSUME income \in [Incomes -> IncomeRows], NEW S \in SUBSET Incomes, NEW T \in SUBSET S
    PROVE  Sum(S) \in Nat /\ Sum(T) \in Nat /\ Sum(T) <= Sum(S)
<1>1. IsFiniteSet(Incomes \X (1..2))
  <2>0. 1 \in Int /\ 2 \in Int
    OBVIOUS
  <2>1. IsFiniteSet(1..2)
    BY <2>0, FS_Interval, Zenon
  <2> QED BY <2>1, TakingsAssumption, FS_Product
<1>2. Units(S, Amounts) \subseteq Incomes \X (1..2) /\ Units(T, Amounts) \subseteq Units(S, Amounts)
  <2>1. \A i \in Incomes : Amounts[i] \in 1..2
    BY DEF Amounts, IncomeRows
  <2>2. ASSUME NEW i \in S, NEW x \in {i} \X (1..Amounts[i])
        PROVE  x \in Incomes \X (1..2)
    <3>1. \A n \in 1..Amounts[i] : n \in 1..2
      BY <2>1
    <3> QED BY <2>2, <3>1
  <2> QED BY <2>2 DEF Units
<1>3. IsFiniteSet(Units(S, Amounts)) /\ IsFiniteSet(Units(T, Amounts))
  BY <1>1, <1>2, FS_Subset
<1>4. Cardinality(Units(S, Amounts)) \in Nat /\ Cardinality(Units(T, Amounts)) \in Nat
  BY <1>3, FS_CardinalityType
<1>5. Cardinality(Units(T, Amounts)) <= Cardinality(Units(S, Amounts))
  BY <1>2, <1>3, FS_Subset
<1> QED BY <1>4, <1>5 DEF Sum, SumOver, Amounts

\* A sum is over the amounts of its rows.
LEMMA SameSum ==
    ASSUME NEW S \in SUBSET Incomes, \A i \in S : income'[i].amount = income[i].amount
    PROVE  Sum(S)' = Sum(S)
<1>1. \A i \in S : Amounts'[i] = Amounts[i]
  BY DEF Amounts
<1>2. Units(S, Amounts') = Units(S, Amounts)
  BY <1>1 DEF Units
<1> QED BY <1>2 DEF Sum, SumOver, Amounts

\* The day that a row says.
DateOf(row) == IF row.at # {} THEN DayOf(CHOOSE t \in row.at : TRUE) ELSE DayOf(row.touched)

LEMMA DatesAre ==
    ASSUME NEW i
    PROVE  DoneOn(i) = DateOf(income[i]) /\ DoneOn(i)' = DateOf(income'[i])
BY Zenon DEF DoneOn, DateOf

\* What one row becomes changes no count but those it excuses.
LEMMA CountsOutlive ==
    ASSUME NEW i \in Incomes, \A j \in Incomes \ {i} : income'[j] = income[j], clock' = clock, rewritten \subseteq rewritten',
           \/ i \in rewritten'
           \/ income[i].status # "done" /\ (income'[i].status = "done" => DoneOn(i)' = DayOf(clock)),
           NEW row \in CountRows, NEW b \in Houses, NEW d \in Days, CountHolds(row, b, d)
    PROVE  CountHolds(row, b, d)'
<1>1. ASSUME NEW j \in Incomes \ {i}
      PROVE  income'[j] = income[j] /\ DoneOn(j)' = DoneOn(j)
  BY <1>1, DatesAre
<1>2. \A j \in row.of : j \in Incomes
  BY DEF CountRows
<1>3. ASSUME NEW j \in row.of
      PROVE  House[j] = b /\ (j \in rewritten' \/ (income'[j].status = "done" /\ DoneOn(j)' = d))
  <2>1. House[j] = b /\ (j \in rewritten \/ (income[j].status = "done" /\ DoneOn(j) = d))
    BY <1>3 DEF CountHolds
  <2>2. CASE j = i
    BY <2>1, <2>2
  <2>3. CASE j # i
    BY <1>1, <1>2, <1>3, <2>1, <2>3
  <2> QED BY <2>2, <2>3
<1>4. Excused(b)' \/ (row.expected = ExpectedCash(b, d)' /\ row.of = TakenOn(b, d)')
  <2>1. CASE Excused(b) \/ (i \in rewritten' /\ House[i] = b)
    BY <2>1 DEF Excused
  <2>2. CASE ~Excused(b) /\ ~(i \in rewritten' /\ House[i] = b)
    <3>1. d < DayOf(clock) /\ row.expected = ExpectedCash(b, d) /\ row.of = TakenOn(b, d)
      BY <2>2 DEF CountHolds
    <3>2. i \notin TakenOn(b, d) /\ i \notin TakenOn(b, d)'
      <4>1. CASE House[i] # b
        BY <4>1 DEF TakenOn
      <4>2. CASE House[i] = b
        <5>1. income[i].status # "done" /\ (income'[i].status = "done" => DoneOn(i)' = DayOf(clock))
          BY <2>2, <4>2
        <5>2. DayOf(clock) # d
          BY <3>1 DEF Days
        <5> QED BY <5>1, <5>2 DEF TakenOn
      <4> QED BY <4>1, <4>2
    <3>3. TakenOn(b, d)' = TakenOn(b, d)
      BY <1>1, <3>2 DEF TakenOn
    <3>4. PICK these \in SUBSET Incomes : these = TakenOn(b, d)
      BY DEF TakenOn
    <3>5. Sum(these)' = Sum(these) /\ Sum(these \cap FromWallet)' = Sum(these \cap FromWallet)
      BY <1>1, <3>2, <3>4, SameSum
    <3> QED BY <3>1, <3>3, <3>4, <3>5 DEF ExpectedCash
  <2> QED BY <2>1, <2>2
<1> QED BY <1>3, <1>4 DEF CountHolds

-----------------------------------------------------------------------------
(* Takings: what a step has to show.                                       *)

LEMMA TakesNoPart ==
    ASSUME NEW call, call.stage \notin TakingsStages
    PROVE  TakingsCall(call) /\ TakingsCall(call)'
BY DEF TakingsCall, TakingsStages

\* What others remember stays true.
LEMMA OthersRemember ==
    ASSUME clock' = clock, DOMAIN deadlines \subseteq DOMAIN deadlines',
           \A row \in CountRows : \A b \in Houses, d \in Days : CountHolds(row, b, d) => CountHolds(row, b, d)',
           NEW call, TakingsCall(call)
    PROVE  TakingsCall(call)'
<1>1. call.stage = "write_count" =>
          \E b \in Houses, d \in Days : call.on = <<b, d>> /\ call.saw \in CountRows /\ CountHolds(call.saw, b, d)'
  <2> SUFFICES ASSUME call.stage = "write_count"
               PROVE  \E b \in Houses, d \in Days : call.on = <<b, d>> /\ call.saw \in CountRows /\ CountHolds(call.saw, b, d)'
    OBVIOUS
  <2>1. PICK b \in Houses, d \in Days : call.on = <<b, d>> /\ call.saw \in CountRows /\ CountHolds(call.saw, b, d)
    BY DEF TakingsCall
  <2>2. PICK row \in CountRows : row = call.saw
    BY <2>1
  <2>3. CountHolds(row, b, d)'
    BY <2>1, <2>2
  <2> QED BY <2>1, <2>2, <2>3
<1>2. call.stage = "read_takings" => \E b \in Houses, d \in Days : call.on = <<b, d>> /\ d < DayOf(clock)' /\ call.saw \in {0, 1}
  BY DEF TakingsCall
<1> QED BY <1>1, <1>2 DEF TakingsCall

LEMMA DeadlineStays ==
    ASSUME Lone, DeadlineCalm, NEW c \in Callers, NEW S, Acts(c, S),
           ~overlapped => Len(deadlines') <= 1 /\ FirstDeadline(calls[c])'
    PROVE  DeadlineCalm'
<1>1. CASE overlapped'
  BY <1>1 DEF DeadlineCalm
<1>2. CASE ~overlapped'
  <2>1. ~overlapped /\ \A d \in Callers \ {c} : calls[d].stage = "idle" /\ calls'[d].stage = "idle"
    BY <1>2, Alone
  <2>2. \A d \in Callers : FirstDeadline(calls[d])'
    BY <2>1 DEF FirstDeadline
  <2> QED BY <2>1, <2>2 DEF DeadlineCalm
<1> QED BY <1>1, <1>2

\* One row changes, and c is through.
LEMMA RowChanges ==
    ASSUME Lone, TakingsInv, NEW c \in Callers, NEW S, Acts(c, S), calls'[c].stage = "idle",
           NEW i \in Incomes, NEW row \in IncomeRows, income' = [income EXCEPT ![i] = row],
           UNCHANGED <<clock, access, deadlines, count>>, rewritten \subseteq rewritten', rewritten' \subseteq Incomes,
           row.at = {} \/ \E t \in 0..clock : row.at = {t}, row.touched <= clock, row.at # {} /\ row.status # "done" => i \in rewritten',
           \/ i \in rewritten'
           \/ income[i].status # "done" /\ (row.status = "done" => DateOf(row) = DayOf(clock)),
           records \subseteq records', records' \subseteq Incomes \X Nat, \A r \in records' \ records : r[1] = i,
           i \in Bookings \cup rewritten' \/ (InTheBooks(i)' /\ Recorded(i)')
    PROVE  TakingsInv'
<1>1. income \in [Incomes -> IncomeRows] /\ income' \in [Incomes -> IncomeRows]
      /\ income'[i] = row /\ \A j \in Incomes \ {i} : income'[j] = income[j]
  BY DEF TakingsInv, TakingsTables
<1>2. TakingsTables'
  <2>1. ASSUME NEW j \in Incomes
        PROVE  RowDated(j)'
    <3>1. RowDated(j)
      BY DEF TakingsInv, TakingsTables
    <3>2. CASE j = i
      BY <1>1, <3>2 DEF RowDated
    <3>3. CASE j # i
      BY <1>1, <3>1, <3>3 DEF RowDated
    <3> QED BY <3>2, <3>3
  <2> QED BY <1>1, <2>1 DEF TakingsInv, TakingsTables
<1>3. \A r \in CountRows : \A b \in Houses, d \in Days : CountHolds(r, b, d) => CountHolds(r, b, d)'
  <2>1. \/ i \in rewritten'
        \/ income[i].status # "done" /\ (income'[i].status = "done" => DoneOn(i)' = DayOf(clock))
    BY <1>1, DatesAre
  <2> QED BY <1>1, <2>1, CountsOutlive
<1>4. CountsHold'
  <2>1. \A b \in Houses, d \in Days : count[<<b, d>>] \subseteq CountRows
    BY DEF TakingsInv, TakingsTables
  <2> QED BY <1>3, <2>1 DEF TakingsInv, CountsHold
<1>5. BooksRight'
  <2> SUFFICES ASSUME NEW j \in Incomes \ (Bookings \cup rewritten')
               PROVE  InTheBooks(j)' /\ Recorded(j)'
    BY DEF BooksRight, Bookings
  <2>1. CASE j = i
    BY <2>1
  <2>2. CASE j # i
    <3>1. InTheBooks(j) /\ Recorded(j)
      BY DEF TakingsInv, BooksRight
    <3> QED BY <1>1, <2>2, <3>1 DEF InTheBooks, Recorded
  <2> QED BY <2>1, <2>2
<1>6. ASSUME NEW d \in Callers
      PROVE  TakingsCall(calls[d])'
  <2>1. CASE d = c
    BY <2>1, TakesNoPart DEF TakingsCall
  <2>2. CASE d # c
    <3>1. PICK call : call = calls[d] /\ call = calls'[d]
      BY <2>2 DEF Acts
    <3>2. TakingsCall(call)
      BY <3>1 DEF TakingsInv
    <3>3. TakingsCall(call)'
      BY <1>3, <3>2, OthersRemember
    <3> QED BY <3>1, <3>3
  <2> QED BY <2>1, <2>2
<1>7. DeadlineCalm'
  <2>1. ~overlapped => Len(deadlines') <= 1 /\ FirstDeadline(calls[c])'
    BY DEF TakingsInv, DeadlineCalm, FirstDeadline
  <2> QED BY <2>1, DeadlineStays DEF TakingsInv
<1> QED BY <1>2, <1>4, <1>5, <1>6, <1>7 DEF TakingsInv

-----------------------------------------------------------------------------
(* Takings: the steps.                                                     *)

LEMMA EarnKeeps ==
    ASSUME Lone, TakingsInv, NEW c \in Callers, NEW S, Acts(c, S), At(c, "idle"), NEW i \in Incomes, Earn(c, i)
    PROVE  TakingsInv'
<1>1. income[i] \in IncomeRows /\ clock \in 0..LastHalfDay /\ clock \in Nat /\ records \subseteq Incomes \X Nat /\ rewritten \subseteq Incomes
  BY TakingsAssumption DEF TakingsInv, TakingsTables
<1>2. PICK row : row = [income[i] EXCEPT !.status = "done", !.at = {clock}, !.touched = clock]
  OBVIOUS
<1>3. /\ row \in IncomeRows /\ row.status = "done" /\ row.at = {clock} /\ row.touched = clock /\ row.amount = income[i].amount
      /\ row.amount \in Nat
  <2>1. clock \in 0..LastHalfDay /\ {clock} \in SUBSET (0..LastHalfDay)
    BY <1>1
  <2>2. row \in IncomeRows
    BY <1>1, <1>2, <2>1 DEF IncomeRows
  <2>3. row.status = "done" /\ row.at = {clock} /\ row.touched = clock /\ row.amount = income[i].amount
    BY <1>1, <1>2 DEF IncomeRows
  <2>4. row.amount \in 1..2
    BY <2>2 DEF IncomeRows
  <2> QED BY <2>2, <2>3, <2>4
<1>4. /\ income[i].status # "done" /\ UNCHANGED <<clock, access, deadlines, count, rewritten>> /\ calls' = calls
      /\ income' = [income EXCEPT ![i] = row]
      /\ records' = IF i \in Bookings THEN records ELSE records \cup {<<i, income[i].amount>>}
  BY <1>2 DEF Earn, Once
<1>5. DateOf(row) = DayOf(clock)
  BY <1>3 DEF DateOf
<1>6. calls'[c].stage = "idle"
  BY <1>4 DEF At
<1>7. /\ records \subseteq records' /\ records' \subseteq Incomes \X Nat /\ \A r \in records' \ records : r[1] = i
  BY <1>1, <1>3, <1>4
<1>8. i \in Bookings \cup rewritten' \/ (InTheBooks(i)' /\ Recorded(i)')
  <2> SUFFICES ASSUME i \notin Bookings, i \notin rewritten
               PROVE  InTheBooks(i)' /\ Recorded(i)'
    BY <1>4
  <2>1. \A r \in records : r[1] # i
    BY <1>4 DEF TakingsInv, BooksRight, InTheBooks
  <2>2. income'[i].status = "done" /\ income'[i].amount = income[i].amount
    BY <1>3, <1>4 DEF TakingsInv, TakingsTables
  <2>3. records' = records \cup {<<i, income'[i].amount>>}
    BY <1>4, <2>2
  <2> QED BY <2>1, <2>2, <2>3 DEF InTheBooks, Recorded
<1>9. (row.at = {} \/ \E t \in 0..clock : row.at = {t}) /\ row.touched <= clock
  BY <1>1, <1>3
<1>10. \/ i \in rewritten'
       \/ income[i].status # "done" /\ (row.status = "done" => DateOf(row) = DayOf(clock))
  BY <1>4, <1>5
<1>11. /\ UNCHANGED <<clock, access, deadlines, count>> /\ rewritten \subseteq rewritten' /\ rewritten' \subseteq Incomes
       /\ row.at # {} /\ row.status # "done" => i \in rewritten'
  BY <1>1, <1>3, <1>4
<1> QED BY <1>3, <1>4, <1>6, <1>7, <1>8, <1>9, <1>10, <1>11, RowChanges

LEMMA AddToVisitKeeps ==
    ASSUME Lone, TakingsInv, NEW c \in Callers, NEW S, Acts(c, S), At(c, "idle"), NEW i \in Incomes, AddToVisit(c, i)
    PROVE  TakingsInv'
<1>1. income[i] \in IncomeRows /\ rewritten \subseteq Incomes /\ RowDated(i) /\ records \subseteq Incomes \X Nat
  BY DEF TakingsInv, TakingsTables
<1>2. PICK row : row = [income[i] EXCEPT !.amount = 2]
  OBVIOUS
<1>3. row \in IncomeRows /\ row.at = income[i].at /\ row.touched = income[i].touched
  BY <1>1, <1>2 DEF IncomeRows
<1>4. /\ UNCHANGED <<clock, records, access, deadlines, count>> /\ calls' = calls /\ rewritten' = rewritten \cup {i}
      /\ income' = [income EXCEPT ![i] = row]
  BY <1>2 DEF AddToVisit, Once
<1>5. calls'[c].stage = "idle" /\ i \in rewritten'
  BY <1>4 DEF At
<1>6. /\ records \subseteq records' /\ records' \subseteq Incomes \X Nat /\ (\A r \in records' \ records : r[1] = i)
      /\ UNCHANGED <<clock, access, deadlines, count>>
  BY <1>1, <1>4
<1>7. row.at = {} \/ \E t \in 0..clock : row.at = {t}
  BY <1>1, <1>3 DEF RowDated
<1>8. row.touched <= clock
  BY <1>1, <1>3 DEF RowDated
<1>9. rewritten \subseteq rewritten' /\ rewritten' \subseteq Incomes /\ i \in Bookings \cup rewritten'
  BY <1>1, <1>4
<1> QED BY <1>3, <1>4, <1>5, <1>6, <1>7, <1>8, <1>9, RowChanges

LEMMA DeleteVisitKeeps ==
    ASSUME Lone, TakingsInv, NEW c \in Callers, NEW S, Acts(c, S), At(c, "idle"), NEW i \in Incomes, DeleteVisit(c, i)
    PROVE  TakingsInv'
<1>1. /\ income[i] \in IncomeRows /\ rewritten \subseteq Incomes /\ RowDated(i) /\ records \subseteq Incomes \X Nat
      /\ i \in Bookings \/ i \in rewritten \/ (InTheBooks(i) /\ Recorded(i))
  BY DEF TakingsInv, TakingsTables, BooksRight
<1>2. PICK row : row = [income[i] EXCEPT !.status = "deleted"]
  OBVIOUS
<1>3. row \in IncomeRows /\ row.status = "deleted" /\ row.at = income[i].at /\ row.touched = income[i].touched
  BY <1>1, <1>2 DEF IncomeRows
<1>4. /\ UNCHANGED <<clock, records, access, deadlines, count>> /\ calls' = calls
      /\ rewritten' = IF income[i].status = "done" THEN rewritten \cup {i} ELSE rewritten
      /\ income' = [income EXCEPT ![i] = row]
  BY <1>2 DEF DeleteVisit, Once, Rewritten
<1>5. calls'[c].stage = "idle" /\ rewritten \subseteq rewritten' /\ rewritten' \subseteq Incomes
  BY <1>1, <1>4 DEF At
<1>6. /\ records \subseteq records' /\ records' \subseteq Incomes \X Nat /\ (\A r \in records' \ records : r[1] = i)
      /\ UNCHANGED <<clock, access, deadlines, count>>
  BY <1>1, <1>4
<1>7. row.at = {} \/ \E t \in 0..clock : row.at = {t}
  BY <1>1, <1>3 DEF RowDated
<1>8. row.touched <= clock /\ (row.at # {} /\ row.status # "done" => i \in rewritten')
  BY <1>1, <1>3, <1>4 DEF RowDated
<1>9. \/ i \in rewritten'
      \/ income[i].status # "done" /\ (row.status = "done" => DateOf(row) = DayOf(clock))
  BY <1>3, <1>4
<1>10. i \in Bookings \cup rewritten' \/ (InTheBooks(i)' /\ Recorded(i)')
  <2> SUFFICES ASSUME i \notin Bookings, i \notin rewritten'
               PROVE  InTheBooks(i)' /\ Recorded(i)'
    OBVIOUS
  <2>1. income[i].status # "done" /\ InTheBooks(i) /\ Recorded(i) /\ records' = records
    BY <1>1, <1>4, <1>5
  <2>2. income'[i].status = "deleted" /\ income'[i].amount = income[i].amount
    BY <1>1, <1>2, <1>4 DEF TakingsInv, TakingsTables, IncomeRows
  <2> QED BY <2>1, <2>2 DEF InTheBooks, Recorded
<1> QED BY <1>3, <1>4, <1>5, <1>6, <1>7, <1>8, <1>9, <1>10, RowChanges

LEMMA WriteBookingStatusKeeps ==
    ASSUME Lone, Shape, TakingsInv, NEW c \in Callers, NEW S, Acts(c, S), WriteBookingStatus(c)
    PROVE  TakingsInv'
<1>0. PICK i \in Incomes : i = calls[c].on /\ i \in Bookings
  BY DEF WriteBookingStatus, At, TakingsInv, TakingsCall, Bookings
<1>1. PICK status \in BookingStatuses : status = calls[c].saw
  BY DEF WriteBookingStatus, At, TakingsInv, TakingsCall
<1>2. /\ income[i] \in IncomeRows /\ clock \in 0..LastHalfDay /\ clock \in Nat /\ rewritten \subseteq Incomes /\ RowDated(i)
      /\ records \subseteq Incomes \X Nat
  BY TakingsAssumption DEF TakingsInv, TakingsTables
<1>3. PICK row : row = [income[i] EXCEPT !.status = status, !.touched = clock]
  OBVIOUS
<1>4. row \in IncomeRows /\ row.status = status /\ row.at = income[i].at /\ row.touched = clock
  BY <1>1, <1>2, <1>3 DEF IncomeRows, BookingStatuses
<1>5. /\ UNCHANGED <<clock, records, access, deadlines, count>> /\ Return(c)
      /\ rewritten' = IF income[i].status = "done" THEN rewritten \cup {i} ELSE rewritten
      /\ income' = [income EXCEPT ![i] = row]
  BY <1>0, <1>1, <1>3 DEF WriteBookingStatus, Rewritten
<1>6. calls'[c].stage = "idle"
  BY <1>5 DEF Return, Continue, Shape, Idle
<1>7. income[i].status = "done" => i \in rewritten'
  BY <1>5
<1>8. income[i].at # {} => i \in rewritten'
  BY <1>2, <1>5, <1>7 DEF RowDated
<1>9. income[i].at = {} => DateOf(row) = DayOf(clock)
  BY <1>4 DEF DateOf
<1>10. rewritten \subseteq rewritten' /\ rewritten' \subseteq Incomes
  BY <1>2, <1>5
<1>11. /\ records \subseteq records' /\ records' \subseteq Incomes \X Nat /\ (\A r \in records' \ records : r[1] = i)
       /\ UNCHANGED <<clock, access, deadlines, count>>
  BY <1>2, <1>5
<1>12. row.at = {} \/ \E t \in 0..clock : row.at = {t}
  BY <1>2, <1>4 DEF RowDated
<1>13. row.touched <= clock /\ (row.at # {} /\ row.status # "done" => i \in rewritten')
  BY <1>2, <1>4, <1>8
<1>14. \/ i \in rewritten'
       \/ income[i].status # "done" /\ (row.status = "done" => DateOf(row) = DayOf(clock))
  BY <1>7, <1>8, <1>9
<1>15. i \in Bookings \cup rewritten'
  BY <1>0
<1> QED BY <1>4, <1>5, <1>6, <1>10, <1>11, <1>12, <1>13, <1>14, <1>15, RowChanges

LEMMA WriteUsedBookingKeeps ==
    ASSUME Lone, Shape, TakingsInv, NEW c \in Callers, NEW S, Acts(c, S), WriteUsedBooking(c)
    PROVE  TakingsInv'
<1>0. PICK i \in Incomes : i = calls[c].on /\ i \in Bookings
  BY DEF WriteUsedBooking, At, TakingsInv, TakingsCall, Bookings
<1>2. /\ income[i] \in IncomeRows /\ clock \in 0..LastHalfDay /\ clock \in Nat /\ rewritten \subseteq Incomes /\ RowDated(i)
      /\ records \subseteq Incomes \X Nat
  BY TakingsAssumption DEF TakingsInv, TakingsTables
<1>3. PICK row : row = [income[i] EXCEPT !.used = TRUE, !.touched = clock,
                                         !.status = IF Source[i] = "WALK_IN" THEN "done" ELSE "progress",
                                         !.at = IF Source[i] = "WALK_IN" THEN {clock} ELSE income[i].at]
  OBVIOUS
<1>4. /\ row \in IncomeRows /\ row.touched = clock
      /\ row.at = (IF Source[i] = "WALK_IN" THEN {clock} ELSE income[i].at)
      /\ row.status = (IF Source[i] = "WALK_IN" THEN "done" ELSE "progress")
  <2>1. {clock} \in SUBSET (0..LastHalfDay)
    BY <1>2
  <2> QED BY <1>2, <1>3, <2>1 DEF IncomeRows
<1>5. /\ UNCHANGED <<clock, records, access, deadlines, count>> /\ Return(c)
      /\ rewritten' = IF income[i].status = "done" THEN rewritten \cup {i} ELSE rewritten
      /\ income' = [income EXCEPT ![i] = row]
  BY <1>0, <1>3 DEF WriteUsedBooking, Rewritten
<1>6. calls'[c].stage = "idle"
  BY <1>5 DEF Return, Continue, Shape, Idle
<1>7. income[i].status = "done" => i \in rewritten'
  BY <1>5
<1>8. income[i].at # {} /\ Source[i] # "WALK_IN" => i \in rewritten'
  BY <1>2, <1>5, <1>7 DEF RowDated
<1>9. row.status = "done" => DateOf(row) = DayOf(clock)
  <2>1. CASE Source[i] = "WALK_IN"
    <3>1. row.at = {clock}
      BY <1>4, <2>1
    <3> QED BY <3>1 DEF DateOf
  <2>2. CASE Source[i] # "WALK_IN"
    BY <1>4, <2>2
  <2> QED BY <2>1, <2>2
<1>10. rewritten \subseteq rewritten' /\ rewritten' \subseteq Incomes
  BY <1>2, <1>5
<1>11. /\ row.at = {} \/ \E t \in 0..clock : row.at = {t}
       /\ row.at # {} /\ row.status # "done" => i \in rewritten'
  <2>1. CASE Source[i] = "WALK_IN"
    BY <1>2, <1>4, <2>1
  <2>2. CASE Source[i] # "WALK_IN"
    BY <1>2, <1>4, <1>8, <2>2 DEF RowDated
  <2> QED BY <2>1, <2>2
<1>12. /\ records \subseteq records' /\ records' \subseteq Incomes \X Nat /\ (\A r \in records' \ records : r[1] = i)
       /\ UNCHANGED <<clock, access, deadlines, count>>
  BY <1>2, <1>5
<1>13. row.touched <= clock
  BY <1>2, <1>4
<1>14. \/ i \in rewritten'
       \/ income[i].status # "done" /\ (row.status = "done" => DateOf(row) = DayOf(clock))
  BY <1>7, <1>9
<1>15. i \in Bookings \cup rewritten'
  BY <1>0
<1> QED BY <1>4, <1>5, <1>6, <1>10, <1>11, <1>12, <1>13, <1>14, <1>15, RowChanges

\* What is counted are rows and days.
LEMMA RowsSay ==
    ASSUME clock' = clock, income' = income, rewritten' = rewritten, NEW row, NEW b, NEW d, CountHolds(row, b, d)
    PROVE  CountHolds(row, b, d)'
<1>1. \A i : DoneOn(i)' = DoneOn(i)
  BY DatesAre
<1>2. \A e, f : TakenOn(e, f)' = TakenOn(e, f)
  BY <1>1 DEF TakenOn
<1>3. \A these : Sum(these)' = Sum(these)
  BY DEF Sum
<1>4. \A e, f : ExpectedCash(e, f)' = ExpectedCash(e, f)
  BY <1>2, <1>3 DEF ExpectedCash
<1> QED BY <1>1, <1>2, <1>4 DEF CountHolds, Excused

\* The rows stay as they are.
LEMMA RowsStay ==
    ASSUME Lone, TakingsInv, NEW c \in Callers, NEW S, Acts(c, S), UNCHANGED <<clock, income, records, rewritten>>,
           access' \in [Accountants -> SUBSET Houses],
           deadlines' \in Seq(0..2), DOMAIN deadlines \subseteq DOMAIN deadlines',
           count' \in [Houses \X Days -> SUBSET CountRows],
           \A b \in Houses, d \in Days : \A row \in count'[<<b, d>>] : row \in count[<<b, d>>] \/ CountHolds(row, b, d),
           TakingsCall(calls[c])',
           ~overlapped => Len(deadlines') <= 1 /\ FirstDeadline(calls[c])'
    PROVE  TakingsInv'
<1>1. \A row, b, d : CountHolds(row, b, d) => CountHolds(row, b, d)'
  BY RowsSay
<1>2. TakingsTables' /\ BooksRight'
  BY DEF TakingsInv, TakingsTables, RowDated, BooksRight, InTheBooks, Recorded
<1>3. CountsHold'
  BY <1>1 DEF TakingsInv, CountsHold
<1>4. ASSUME NEW d \in Callers \ {c}
      PROVE  TakingsCall(calls[d])'
  <2>1. PICK call : call = calls[d] /\ call = calls'[d]
    BY DEF Acts
  <2>2. TakingsCall(call)
    BY <2>1 DEF TakingsInv
  <2>3. TakingsCall(call)'
    BY <1>1, <2>2, OthersRemember
  <2> QED BY <2>1, <2>3
<1>5. DeadlineCalm'
  BY DeadlineStays DEF TakingsInv
<1> QED BY <1>2, <1>3, <1>4, <1>5 DEF TakingsInv

\* Nothing changes but what c remembers.
LEMMA RemembersMore ==
    ASSUME Lone, TakingsInv, NEW c \in Callers, NEW S, Acts(c, S), UNCHANGED takings,
           TakingsCall(calls[c])', ~overlapped => FirstDeadline(calls[c])'
    PROVE  TakingsInv'
<1>1. /\ UNCHANGED <<clock, income, records, rewritten>> /\ access' = access /\ deadlines' = deadlines /\ count' = count
  BY DEF takings
<1>2. /\ access \in [Accountants -> SUBSET Houses] /\ deadlines \in Seq(0..2)
      /\ count \in [Houses \X Days -> SUBSET CountRows]
  BY DEF TakingsInv, TakingsTables
<1>3. ~overlapped => Len(deadlines') <= 1
  BY <1>1 DEF TakingsInv, DeadlineCalm
<1> QED BY <1>1, <1>2, <1>3, RowsStay

LEMMA WriteCountKeeps ==
    ASSUME Lone, Shape, TakingsInv, NEW c \in Callers, NEW S, Acts(c, S), WriteCount(c)
    PROVE  TakingsInv'
<1>1. PICK b \in Houses, d \in Days : calls[c].on = <<b, d>> /\ calls[c].saw \in CountRows /\ CountHolds(calls[c].saw, b, d)
  BY DEF WriteCount, At, TakingsInv, TakingsCall
<1>2. PICK row \in CountRows : row = calls[c].saw
  BY <1>1
<1>3. CountHolds(row, b, d)
  BY <1>1, <1>2
<1>4. /\ UNCHANGED <<clock, income, records, access, deadlines, rewritten>> /\ Return(c)
      /\ count' = [count EXCEPT ![<<b, d>>] = {row}]
  BY <1>1, <1>2 DEF WriteCount
<1>5. calls'[c].stage = "idle"
  BY <1>4 DEF Return, Continue, Shape, Idle
<1>6. count \in [Houses \X Days -> SUBSET CountRows] /\ access \in [Accountants -> SUBSET Houses] /\ deadlines \in Seq(0..2)
  BY DEF TakingsInv, TakingsTables
<1>7. count' \in [Houses \X Days -> SUBSET CountRows]
  BY <1>4, <1>6
<1>8. ASSUME NEW e \in Houses, NEW f \in Days, NEW r \in count'[<<e, f>>]
      PROVE  r \in count[<<e, f>>] \/ CountHolds(r, e, f)
  <2>1. CASE e = b /\ f = d
    <3>1. count'[<<e, f>>] = {row}
      BY <1>4, <1>6, <2>1
    <3> QED BY <1>3, <1>8, <2>1, <3>1
  <2>2. CASE ~(e = b /\ f = d)
    <3>1. count'[<<e, f>>] = count[<<e, f>>]
      BY <1>4, <1>6, <2>2
    <3> QED BY <1>8, <3>1
  <2> QED BY <2>1, <2>2
<1>9. TakingsCall(calls[c])' /\ FirstDeadline(calls[c])'
  BY <1>5 DEF TakingsCall, FirstDeadline
<1>10. UNCHANGED <<clock, income, records, rewritten>> /\ access' = access /\ deadlines' = deadlines
  BY <1>4
<1>11. ~overlapped => Len(deadlines') <= 1
  BY <1>10 DEF TakingsInv, DeadlineCalm
<1> QED BY <1>6, <1>7, <1>8, <1>9, <1>10, <1>11, RowsStay

LEMMA SetFinanceBranchesKeeps ==
    ASSUME Lone, TakingsInv, NEW c \in Callers, NEW S, Acts(c, S), At(c, "idle"), NEW m \in Accountants,
           SetFinanceBranches(c, m, Houses)
    PROVE  TakingsInv'
<1>1. /\ UNCHANGED <<clock, income, records, rewritten>> /\ deadlines' = deadlines /\ count' = count /\ calls' = calls
      /\ access' = [access EXCEPT ![m] = Houses]
  BY DEF SetFinanceBranches, Once
<1>2. /\ access \in [Accountants -> SUBSET Houses] /\ deadlines \in Seq(0..2)
      /\ count \in [Houses \X Days -> SUBSET CountRows]
  BY DEF TakingsInv, TakingsTables
<1>3. access' \in [Accountants -> SUBSET Houses]
  BY <1>1, <1>2
<1>4. TakingsCall(calls[c])' /\ FirstDeadline(calls[c])'
  BY <1>1 DEF At, TakingsCall, FirstDeadline
<1>5. ~overlapped => Len(deadlines') <= 1
  BY <1>1 DEF TakingsInv, DeadlineCalm
<1> QED BY <1>1, <1>2, <1>3, <1>4, <1>5, RowsStay

LEMMA WriteDeadlineKeeps ==
    ASSUME Lone, Shape, TakingsInv, NEW c \in Callers, NEW S, Acts(c, S), WriteDeadline(c)
    PROVE  TakingsInv'
<1>1. PICK n \in {0} \cup DOMAIN deadlines, limit \in 0..2 : n = calls[c].on /\ limit = calls[c].saw
  BY DEF WriteDeadline, At, TakingsInv, TakingsCall
<1>2. /\ UNCHANGED <<clock, income, records, access, count, rewritten>> /\ Return(c)
      /\ deadlines' = IF n = 0 THEN Append(deadlines, limit) ELSE [deadlines EXCEPT ![n] = limit]
  BY <1>1 DEF WriteDeadline
<1>3. calls'[c].stage = "idle"
  BY <1>2 DEF Return, Continue, Shape, Idle
<1>4. deadlines \in Seq(0..2) /\ access \in [Accountants -> SUBSET Houses] /\ count \in [Houses \X Days -> SUBSET CountRows]
  BY DEF TakingsInv, TakingsTables
<1>5. ~overlapped => Len(deadlines) <= 1 /\ (n = 0 => deadlines = << >>)
  BY <1>1 DEF WriteDeadline, At, TakingsInv, DeadlineCalm, FirstDeadline
<1>6. deadlines' \in Seq(0..2) /\ DOMAIN deadlines \subseteq DOMAIN deadlines' /\ (~overlapped => Len(deadlines') <= 1)
  <2>1. CASE n = 0
    <3>1. deadlines' = Append(deadlines, limit)
      BY <1>2, <2>1
    <3>2. deadlines' \in Seq(0..2) /\ Len(deadlines') = Len(deadlines) + 1 /\ Len(deadlines) \in Nat
      BY <1>4, <3>1
    <3>3. DOMAIN deadlines = 1..Len(deadlines) /\ DOMAIN deadlines' = 1..Len(deadlines')
      BY <1>4, <3>2
    <3>4. deadlines = << >> => Len(deadlines) = 0
      OBVIOUS
    <3> QED BY <1>5, <2>1, <3>2, <3>3, <3>4
  <2>2. CASE n # 0
    <3>1. n \in DOMAIN deadlines /\ deadlines' = [deadlines EXCEPT ![n] = limit]
      BY <1>1, <1>2, <2>2
    <3>2. deadlines' \in Seq(0..2) /\ Len(deadlines') = Len(deadlines) /\ DOMAIN deadlines' = DOMAIN deadlines
      BY <1>4, <3>1
    <3> QED BY <1>5, <3>2
  <2> QED BY <2>1, <2>2
<1>7. TakingsCall(calls[c])' /\ FirstDeadline(calls[c])'
  BY <1>3 DEF TakingsCall, FirstDeadline
<1>8. UNCHANGED <<clock, income, records, rewritten>> /\ access' = access /\ count' = count
  BY <1>2
<1> QED BY <1>4, <1>6, <1>7, <1>8, RowsStay

-----------------------------------------------------------------------------
(* Takings: a handler of theirs.                                           *)

\* The day is over that a count is begun for.
LEMMA SubmitCountKeeps ==
    ASSUME Lone, Shape, TakingsInv, NEW c \in Callers, NEW S, Acts(c, S), NEW m \in Accountants,
           NEW b \in Houses, NEW d \in Days, NEW counted \in {0, 1}, SubmitCount(c, m, b, d, counted)
    PROVE  TakingsInv'
<1>1. UNCHANGED takings /\ clock \in Nat
  BY TakingsAssumption DEF SubmitCount, TakingsInv, TakingsTables
<1>2. d < DayOf(clock)
  <2>1. d = DayOf(clock) - 1
    BY DEF SubmitCount, InWindow
  <2>2. DayOf(clock) \in Nat
    BY <1>1, DaysGrow
  <2> QED BY <2>1, <2>2
<1>3. calls'[c] = [stage |-> "read_takings", on |-> <<b, d>>, saw |-> counted]
  BY DEF SubmitCount, Begin, Shape
<1>4. calls'[c].stage = "read_takings" /\ calls'[c].on = <<b, d>> /\ calls'[c].saw = counted
  BY <1>3, Selects
<1>5. clock' = clock
  BY <1>1 DEF takings
<1>6. TakingsCall(calls[c])' /\ FirstDeadline(calls[c])'
  BY <1>2, <1>4, <1>5 DEF TakingsCall, FirstDeadline
<1> QED BY <1>1, <1>6, RemembersMore

\* What is read is what the rows say.
LEMMA ReadTakingsKeeps ==
    ASSUME Lone, Shape, TakingsInv, NEW c \in Callers, NEW S, Acts(c, S), ReadTakings(c)
    PROVE  TakingsInv'
<1>1. PICK b \in Houses, d \in Days : calls[c].on = <<b, d>> /\ d < DayOf(clock) /\ calls[c].saw \in {0, 1}
  BY DEF ReadTakings, At, TakingsInv, TakingsCall
<1>2. PICK row : row = [expected |-> ExpectedCash(b, d), total |-> Sum(TakenOn(b, d)), counted |-> calls[c].saw,
                        of |-> TakenOn(b, d)]
  OBVIOUS
<1>3. UNCHANGED takings /\ Goto(c, "write_count", row)
  BY <1>1, <1>2 DEF ReadTakings
<1>4. PICK these \in SUBSET Incomes : these = TakenOn(b, d)
  BY DEF TakenOn
<1>5. Sum(these) \in Nat /\ ExpectedCash(b, d) \in Nat
  <2>1. income \in [Incomes -> IncomeRows] /\ these \cap FromWallet \in SUBSET these
    BY DEF TakingsInv, TakingsTables
  <2>2. Sum(these) \in Nat /\ Sum(these \cap FromWallet) \in Nat /\ Sum(these \cap FromWallet) <= Sum(these)
    BY <2>1, SumsAre
  <2>3. Sum(these) - Sum(these \cap FromWallet) \in Nat
    BY <2>2
  <2> QED BY <1>4, <2>2, <2>3 DEF ExpectedCash
<1>6. row \in CountRows /\ row.expected = ExpectedCash(b, d) /\ row.of = these
  <2>1. calls[c].saw \in Nat
    BY <1>1
  <2> QED BY <1>2, <1>4, <1>5, <2>1 DEF CountRows
<1>7. CountHolds(row, b, d)
  <2>1. \A i \in these : House[i] = b /\ income[i].status = "done" /\ DoneOn(i) = d
    BY <1>4 DEF TakenOn
  <2> QED BY <1>1, <1>4, <1>6, <2>1 DEF CountHolds
<1>8. calls'[c].stage = "write_count" /\ calls'[c].on = <<b, d>> /\ calls'[c].saw = row
  <2>1. calls'[c] = [stage |-> "write_count", on |-> calls[c].on, saw |-> row]
    BY <1>3 DEF Goto, Continue, Shape
  <2> QED BY <1>1, <2>1, Selects
<1>9. CountHolds(row, b, d)'
  <2>1. income' = income /\ clock' = clock /\ rewritten' = rewritten
    BY <1>3 DEF takings
  <2> QED BY <1>7, <2>1, RowsSay
<1>10. TakingsCall(calls[c])' /\ FirstDeadline(calls[c])'
  BY <1>6, <1>8, <1>9 DEF TakingsCall, FirstDeadline
<1> QED BY <1>3, <1>10, RemembersMore

LEMMA TakingsSteps ==
    ASSUME Lone, Shape, TakingsInv, NEW c \in Callers, Acts(c, TakingsStages), TakingsStep(c)
    PROVE  TakingsInv'
BY WriteBookingStatusKeeps, WriteUsedBookingKeeps, ReadTakingsKeeps, WriteCountKeeps, WriteDeadlineKeeps DEF TakingsStep

LEMMA TakingsRequests ==
    ASSUME Lone, Shape, TakingsInv, NEW c \in Callers, Acts(c, TakingsStages), Ready(c), TakingsRequest(c)
    PROVE  TakingsInv'
<1>0. At(c, "idle")
  BY DEF Ready
<1>1. ASSUME NEW i \in Incomes, NEW status \in {"progress", "done", "cancelled"}, SetBookingStatus(c, i, status)
      PROVE  TakingsInv'
  <2>1. UNCHANGED takings /\ i \in Bookings
    BY <1>1 DEF SetBookingStatus
  <2>2. calls'[c] = [stage |-> "write_booking_status", on |-> i, saw |-> status]
    BY <1>1 DEF SetBookingStatus, Begin, Shape
  <2>3. calls'[c].stage = "write_booking_status" /\ calls'[c].on = i /\ calls'[c].saw = status
    BY <2>2, Selects
  <2>4. TakingsCall(calls[c])' /\ FirstDeadline(calls[c])'
    BY <1>1, <2>1, <2>3 DEF TakingsCall, FirstDeadline, BookingStatuses, Bookings
  <2> QED BY <2>1, <2>4, RemembersMore
<1>2. ASSUME NEW i \in Incomes, ShowReservation(c, i)
      PROVE  TakingsInv'
  <2>1. UNCHANGED takings /\ i \in Bookings
    BY <1>2 DEF ShowReservation
  <2>2. calls'[c] = [stage |-> "write_used_booking", on |-> i, saw |-> 0]
    BY <1>2 DEF ShowReservation, Begin, Shape
  <2>3. calls'[c].stage = "write_used_booking" /\ calls'[c].on = i
    BY <2>2, Selects
  <2>4. TakingsCall(calls[c])' /\ FirstDeadline(calls[c])'
    BY <2>1, <2>3 DEF TakingsCall, FirstDeadline, Bookings
  <2> QED BY <2>1, <2>4, RemembersMore
<1>3. ASSUME NEW limit \in {0, 2}, SetDeadline(c, limit)
      PROVE  TakingsInv'
  <2>1. UNCHANGED takings /\ deadlines \in Seq(0..2)
    BY <1>3 DEF SetDeadline, TakingsInv, TakingsTables
  <2>2. PICK n \in {0} \cup DOMAIN deadlines :
            (n = 0 => deadlines = << >>) /\ Begin(c, "access", "write_deadline", n, limit)
    <3>1. \A n \in DOMAIN deadlines : n # 0
      BY <2>1
    <3> QED BY <1>3, <3>1 DEF SetDeadline
  <2>3. calls'[c] = [stage |-> "write_deadline", on |-> n, saw |-> limit]
    BY <2>2 DEF Begin, Shape
  <2>4. calls'[c].stage = "write_deadline" /\ calls'[c].on = n /\ calls'[c].saw = limit
    BY <2>3, Selects
  <2>5. deadlines' = deadlines /\ limit \in 0..2
    BY <2>1 DEF takings
  <2>6. TakingsCall(calls[c])' /\ FirstDeadline(calls[c])'
    BY <2>2, <2>4, <2>5 DEF TakingsCall, FirstDeadline
  <2> QED BY <2>1, <2>6, RemembersMore
<1>4. CASE BookingStatusRequest(c) \/ ReservationRequest(c)
  BY <1>1, <1>2, <1>4 DEF BookingStatusRequest, ReservationRequest
<1>5. CASE \E i \in Incomes : Earn(c, i) \/ AddToVisit(c, i) \/ DeleteVisit(c, i)
  BY <1>0, <1>5, EarnKeeps, AddToVisitKeeps, DeleteVisitKeeps
<1>6. CASE \E m \in Accountants, b \in Houses, d \in Days, counted \in {0, 1} : SubmitCount(c, m, b, d, counted)
  BY <1>6, SubmitCountKeeps
<1>7. CASE \/ \E m \in Accountants : SetFinanceBranches(c, m, Houses)
           \/ \E limit \in {0, 2} : SetDeadline(c, limit)
  BY <1>0, <1>3, <1>7, SetFinanceBranchesKeeps
<1> QED BY <1>4, <1>5, <1>6, <1>7 DEF TakingsRequest

-----------------------------------------------------------------------------
(* The inductive invariant for takings.                                    *)

LEMMA TakingsApart ==
    /\ "idle" \notin TakingsStages
    /\ \A s \in InventoryStages : s \notin TakingsStages
    /\ \A s \in ProcurementStages : s \notin TakingsStages
    /\ \A s \in ShopStages : s \notin TakingsStages
    /\ \A s \in PromotionsStages : s \notin TakingsStages
    /\ \A s \in SalonStages : s \notin TakingsStages
    /\ \A s \in CatalogueStages : s \notin TakingsStages
BY DEF InventoryStages, ProcurementStages, ShopStages, PromotionsStages, SalonStages, PlainStages, CatalogueStages, TakingsStages

LEMMA TakingsTakings ==
    ASSUME Handled, TakingsInv, NEW c \in Callers, TakingsNext(c)
    PROVE  TakingsInv'
<1>1. Shape /\ Lone /\ Acts(c, TakingsStages)
  BY TakingsActs DEF Handled
<1> QED BY <1>1, TakingsSteps, TakingsRequests DEF TakingsNext

\* Half a day passes: the days that are over stay over.
LEMMA TimeKeeps ==
    ASSUME TakingsInv, TimePasses
    PROVE  TakingsInv'
<1>1. /\ clock \in Nat /\ clock \in 0..LastHalfDay /\ clock < LastHalfDay /\ clock' = clock + 1 /\ LastHalfDay \in Nat
      /\ UNCHANGED <<handlers, income, records, access, deadlines, count, rewritten>>
  BY TakingsAssumption DEF TimePasses, TakingsInv, TakingsTables
<1>2. DayOf(clock) <= DayOf(clock') /\ DayOf(clock) \in Nat /\ DayOf(clock') \in Nat
  BY <1>1, DaysGrow
<1>3. \A d \in Days : d < DayOf(clock) => d < DayOf(clock')
  BY <1>1, <1>2 DEF Days
<1>4. TakingsTables'
  <2>1. ASSUME NEW i \in Incomes
        PROVE  RowDated(i)'
    <3>1. RowDated(i) /\ income[i] \in IncomeRows /\ income' = income /\ rewritten' = rewritten
      BY <1>1 DEF TakingsInv, TakingsTables
    <3>2. income[i].touched \in Nat
      BY <1>1, <3>1 DEF IncomeRows
    <3>3. income[i].touched <= clock'
      BY <1>1, <3>1, <3>2 DEF RowDated
    <3>4. \A t \in 0..clock : t \in 0..clock'
      BY <1>1
    <3> QED BY <3>1, <3>3, <3>4 DEF RowDated
  <2>2. clock' \in 0..LastHalfDay
    BY <1>1
  <2> QED BY <1>1, <2>1, <2>2 DEF TakingsInv, TakingsTables
<1>5. ASSUME NEW row, NEW b \in Houses, NEW d \in Days, CountHolds(row, b, d)
      PROVE  CountHolds(row, b, d)'
  <2>1. \A i : DoneOn(i)' = DoneOn(i)
    BY <1>1, DatesAre
  <2>2. TakenOn(b, d)' = TakenOn(b, d)
    BY <1>1, <2>1 DEF TakenOn
  <2>3. \A these : Sum(these)' = Sum(these)
    BY <1>1 DEF Sum
  <2>4. ExpectedCash(b, d)' = ExpectedCash(b, d)
    BY <2>2, <2>3 DEF ExpectedCash
  <2> QED BY <1>1, <1>3, <1>5, <2>1, <2>2, <2>4 DEF CountHolds, Excused
<1>6. CountsHold' /\ BooksRight'
  BY <1>1, <1>5 DEF TakingsInv, CountsHold, BooksRight, InTheBooks, Recorded
<1>7. ASSUME NEW c \in Callers
      PROVE  TakingsCall(calls[c])'
  <2>1. PICK call : call = calls[c] /\ call = calls'[c]
    BY <1>1 DEF handlers
  <2>2. TakingsCall(call)
    BY <2>1 DEF TakingsInv
  <2>3. call.stage = "write_count" =>
            \E b \in Houses, d \in Days : call.on = <<b, d>> /\ call.saw \in CountRows /\ CountHolds(call.saw, b, d)'
    <3> SUFFICES ASSUME call.stage = "write_count"
                 PROVE  \E b \in Houses, d \in Days : call.on = <<b, d>> /\ call.saw \in CountRows /\ CountHolds(call.saw, b, d)'
      OBVIOUS
    <3>1. PICK b \in Houses, d \in Days : call.on = <<b, d>> /\ call.saw \in CountRows /\ CountHolds(call.saw, b, d)
      BY <2>2 DEF TakingsCall
    <3>2. PICK row : row = call.saw
      OBVIOUS
    <3>3. CountHolds(row, b, d)'
      BY <1>5, <3>1, <3>2
    <3> QED BY <3>1, <3>2, <3>3
  <2>4. call.stage = "read_takings" =>
            \E b \in Houses, d \in Days : call.on = <<b, d>> /\ d < DayOf(clock)' /\ call.saw \in {0, 1}
    BY <1>3, <2>2 DEF TakingsCall
  <2>5. TakingsCall(call)'
    BY <1>1, <2>2, <2>3, <2>4 DEF TakingsCall
  <2> QED BY <2>1, <2>5
<1>8. DeadlineCalm'
  BY <1>1 DEF TakingsInv, DeadlineCalm, FirstDeadline, handlers
<1> QED BY <1>4, <1>6, <1>7, <1>8 DEF TakingsInv

LEMMA TakingsElsewhere ==
    ASSUME Handled, TakingsInv, [Next]_vars, ~ \E c \in Callers : TakingsNext(c)
    PROVE  TakingsInv'
<1>1. Shape /\ Routed /\ Lone
  BY DEF Handled
<1>2. ASSUME UNCHANGED takings, UNCHANGED handlers
      PROVE  TakingsInv'
  <2>1. \A row, b, d : CountHolds(row, b, d) => CountHolds(row, b, d)'
    BY <1>2, RowsSay DEF takings
  <2>2. CountsHold' /\ TakingsTables' /\ BooksRight'
    BY <1>2, <2>1 DEF TakingsInv, CountsHold, TakingsTables, RowDated, BooksRight, InTheBooks, Recorded, takings
  <2>3. ASSUME NEW c \in Callers
        PROVE  TakingsCall(calls[c])'
    <3>1. PICK call : call = calls[c] /\ call = calls'[c]
      BY <1>2 DEF handlers
    <3>2. TakingsCall(call)
      BY <3>1 DEF TakingsInv
    <3>3. TakingsCall(call)'
      BY <1>2, <2>1, <3>2, OthersRemember DEF takings
    <3> QED BY <3>1, <3>3
  <2>4. DeadlineCalm'
    BY <1>2 DEF TakingsInv, DeadlineCalm, FirstDeadline, takings, handlers
  <2> QED BY <2>2, <2>3, <2>4 DEF TakingsInv
<1>3. ASSUME NEW c \in Callers, NEW S, Acts(c, S), UNCHANGED takings, \A s \in S : s \notin TakingsStages
      PROVE  TakingsInv'
  <2>1. calls'[c].stage \notin TakingsStages
    BY <1>3, TakingsApart DEF Acts
  <2>2. TakingsCall(calls[c])' /\ FirstDeadline(calls[c])'
    BY <2>1 DEF TakingsCall, FirstDeadline, TakingsStages
  <2> QED BY <1>1, <1>3, <2>2, RemembersMore
<1>4. ASSUME NEW c \in Callers, InventoryNext(c) \/ ProcurementNext(c) \/ ShopNext(c)
      PROVE  TakingsInv'
  <2>1. UNCHANGED takings
    BY <1>4 DEF InventoryNext, ProcurementNext, ShopNext
  <2> QED BY <1>1, <1>3, <1>4, <2>1, TakingsApart, InventoryActs, ProcurementActs, ShopActs
<1>5. ASSUME NEW c \in Callers, PromotionsNext(c) \/ SalonNext(c) \/ CatalogueNext(c)
      PROVE  TakingsInv'
  <2>1. UNCHANGED takings
    BY <1>5 DEF PromotionsNext, SalonNext, CatalogueNext
  <2> QED BY <1>1, <1>3, <1>5, <2>1, TakingsApart, PromotionsActs, SalonActs, CatalogueActs
<1>6. ASSUME NEW c \in Callers, Dies(c)
      PROVE  TakingsInv'
  <2>1. UNCHANGED takings
    BY <1>6 DEF Dies
  <2> QED BY <1>1, <1>3, <1>6, <2>1, DiesActs
<1>7. CASE UNCHANGED vars
  BY <1>2, <1>7 DEF vars
<1>8. CASE SettingsExpire /\ UNCHANGED <<approval, inventory, procurement, shop, salon, catalogue, takings>>
  BY <1>2, <1>8 DEF SettingsExpire
<1>9. CASE PageExpires /\ UNCHANGED <<approval, inventory, procurement, shop, promotions, salon, takings>>
  BY <1>2, <1>9 DEF PageExpires
<1>10. CASE TimePasses
  BY <1>10, TimeKeeps
<1>11. CASE CopyExpires /\ UNCHANGED <<approval, inventory, procurement, purse, entries, bought, promotions, salon, catalogue, takings>>
  BY <1>2, <1>11 DEF CopyExpires
<1> QED BY <1>4, <1>5, <1>6, <1>7, <1>8, <1>9, <1>10, <1>11 DEF Next

LEMMA TakingsAtFirst == Init => TakingsInv
<1> SUFFICES ASSUME Init PROVE TakingsInv
  OBVIOUS
<1>1. /\ clock = 0 /\ records = {} /\ deadlines = << >> /\ rewritten = {}
      /\ access = [m \in Accountants |-> {}] /\ count = [k \in Houses \X Days |-> {}]
      /\ \A c \in Callers : calls[c].stage = "idle"
  BY DEF Init, TakingsInit, HandlersInit, Idle
<1>2. PICK row : row = [status |-> "open", at |-> {}, touched |-> 0, used |-> FALSE, amount |-> 1]
  OBVIOUS
<1>3. 0 \in 0..LastHalfDay
  BY TakingsAssumption
<1>4. row \in IncomeRows /\ row.status = "open" /\ row.at = {} /\ row.touched = 0
  BY <1>2, <1>3 DEF IncomeRows
<1>5. income = [i \in Incomes |-> row]
  BY <1>2 DEF Init, TakingsInit
<1>6. TakingsTables
  <2>1. \A i \in Incomes : RowDated(i)
    BY <1>1, <1>4, <1>5 DEF RowDated
  <2>2. << >> \in Seq(0..2)
    OBVIOUS
  <2> QED BY <1>1, <1>3, <1>4, <1>5, <2>1, <2>2 DEF TakingsTables
<1>7. CountsHold /\ BooksRight
  BY <1>1, <1>4, <1>5 DEF CountsHold, BooksRight, InTheBooks, Recorded
<1>8. DeadlineCalm /\ \A c \in Callers : TakingsCall(calls[c])
  BY <1>1 DEF DeadlineCalm, FirstDeadline, TakingsCall
<1> QED BY <1>6, <1>7, <1>8 DEF TakingsInv

\* What a day's cash was held against stays what the day's rows say, no income is in the counts of two
\* days, and visits and sales are in the books once with their amounts, but for rows changed after they
\* were done; the deadline is one, until two handlers overlap: for any number of branches, days,
\* incomes and handlers.
THEOREM TakingsAgree == Spec => []TakingsKept
<1>1. Handled /\ [Next]_vars => Handled'
  BY HandledStays
<1>2. Handled /\ TakingsInv /\ [Next]_vars => TakingsInv'
  BY TakingsTakings, TakingsElsewhere
<1>3. TakingsInv => TakingsKept
  <2> SUFFICES ASSUME TakingsInv PROVE TakingsKept
    OBVIOUS
  <2>1. TakingsTables /\ CountsHold /\ BooksRight /\ DeadlineCalm
    BY DEF TakingsInv
  <2>2. TakingsTypeOK
    <3>1. \A n \in DOMAIN deadlines : deadlines[n] \in 0..2
      BY <2>1 DEF TakingsTables
    <3> QED BY <2>1, <3>1 DEF TakingsTables, TakingsTypeOK
  <2>3. CountsStillHold
    <3> SUFFICES ASSUME NEW b \in Houses, NEW d \in Days, NEW row \in count[<<b, d>>]
                 PROVE  \/ row.expected = ExpectedCash(b, d) /\ row.of = TakenOn(b, d)
                        \/ \E i \in rewritten : House[i] = b
      BY DEF CountsStillHold
    <3>1. CountHolds(row, b, d)
      BY <2>1 DEF CountsHold
    <3> QED BY <3>1 DEF CountHolds, Excused
  <2>4. CountedOnce
    <3> SUFFICES ASSUME NEW i \in Incomes \ rewritten
                 PROVE  Cardinality({k \in Houses \X Days : \E row \in count[k] : i \in row.of}) <= 1
      BY DEF CountedOnce
    <3>1. PICK K : K = {k \in Houses \X Days : \E row \in count[k] : i \in row.of}
      OBVIOUS
    <3>2. PICK one : one = <<House[i], DoneOn(i)>>
      OBVIOUS
    <3>3. ASSUME NEW k \in K
          PROVE  k = one
      <4>1. PICK b \in Houses, d \in Days : k = <<b, d>>
        BY <3>1, <3>3
      <4>2. PICK row \in count[<<b, d>>] : i \in row.of
        BY <3>1, <3>3, <4>1
      <4>3. CountHolds(row, b, d)
        BY <2>1, <4>2 DEF CountsHold
      <4> QED BY <3>2, <4>1, <4>2, <4>3 DEF CountHolds
    <3>4. K \in SUBSET {one}
      BY <3>3
    <3>5. IsFiniteSet({one}) /\ Cardinality({one}) = 1
      BY FS_Singleton
    <3>6. Cardinality(K) <= 1
      BY <3>4, <3>5, FS_Subset
    <3> QED BY <3>1, <3>6
  <2>5. RecordsAgree
    <3> SUFFICES ASSUME NEW i \in Incomes \ (Bookings \cup rewritten)
                 PROVE  {r \in records : r[1] = i} =
                            IF income[i].status = "done" THEN {<<i, income[i].amount>>} ELSE {}
      BY DEF RecordsAgree
    <3>1. InTheBooks(i) /\ Recorded(i)
      BY <2>1 DEF BooksRight
    <3>2. <<i, income[i].amount>>[1] = i
      OBVIOUS
    <3> QED BY <3>1, <3>2 DEF InTheBooks, Recorded
  <2>6. OneDeadline
    BY <2>1 DEF DeadlineCalm, OneDeadline
  <2> QED BY <2>2, <2>3, <2>4, <2>5, <2>6 DEF TakingsKept
<1>4. Init => Handled
  BY SignedAtFirst DEF SignedInv
<1> QED BY <1>1, <1>2, <1>3, <1>4, TakingsAtFirst, PTL DEF Spec

-----------------------------------------------------------------------------
(* The shop: goods, orders and money.                                      *)

EditStages == {"remove_assets", "remove_rows", "upload_pictures", "create_rows", "write_product"}
Creating(call) == call.stage \in {"upload_first", "create_product"}

ShopCall(call) ==
    LET on == call.on  saw == call.saw IN
    /\ call.stage = "place_order" => on \in Orders
    /\ call.stage = "update_order" => on \in Orders /\ saw \in OrderStatuses /\ bought[on] # "none"
    /\ Creating(call) => on \in Products /\ saw.in \in Kinds /\ saw.name \in Titles /\ product[on].is = "new"
    /\ call.stage \in EditStages => on \in Products /\ saw.form \in EditForms
    /\ call.stage = "write_product_status" => on \in Products /\ saw \in BOOLEAN
    /\ call.stage \in {"delete_assets", "delete_product"} => on \in Products

\* A new product is made by one.
OneCreator == \A c, d \in Callers : Creating(calls[c]) /\ Creating(calls[d]) /\ calls[c].on = calls[d].on => c = d

ShopTables ==
    /\ product \in [Products -> ProductRows] /\ shelf \in [Products -> Int] /\ stocked \in [Products -> Int]
    /\ purse \in [Customers -> Int] /\ entries \subseteq References /\ bought \in [Orders -> OrderStatuses \cup {"none"}]

\* What was there, also before a product is: nobody has ordered it yet.
GoodsRight ==
    \A p \in Products :
        product[p].is # "gone" => shelf[p] >= 0 /\ shelf[p] + SumOver(SoldOf(p), Quantities) = stocked[p]

Paid(o) == <<"SHOP", o>> \in entries
Refunded(o) == <<"REFUND-SHOP", o>> \in entries
OrdersRight ==
    \A o \in Orders : /\ (bought[o] = "none") <=> ~Paid(o)
                      /\ Refunded(o) => Paid(o)
                      /\ Paid(o) => product[Goods[o].product].is # "new"

\* Until two handlers overlap: a refunded order is cancelled, and none that is cancelled is moved on.
Movable(call) == call.stage = "update_order" => bought[call.on] # "CANCELLED"
OrdersCalm ==
    overlapped \/ ((\A o \in Orders : Refunded(o) => bought[o] = "CANCELLED") /\ \A c \in Callers : Movable(calls[c]))

\* The inductive invariant for the shop.
ShopInv == ShopTables /\ GoodsRight /\ OrdersRight /\ OneCreator /\ (\A c \in Callers : ShopCall(calls[c])) /\ OrdersCalm

LEMMA GoodIs ==
    ASSUME NEW o \in Orders
    PROVE  Goods[o].product \in Products /\ Goods[o].quantity \in Nat /\ Goods[o].total \in Nat /\ Goods[o].customer \in Customers
BY ShopAssumption

\* The sum over one order more.
LEMMA SumWith ==
    ASSUME NEW S, IsFiniteSet(S), NEW x, x \notin S, NEW w, \A y \in S \cup {x} : w[y] \in Nat
    PROVE  SumOver(S \cup {x}, w) = SumOver(S, w) + w[x]
<1>1. PICK one \in Int, n \in Int : one = 1 /\ n = w[x] /\ n >= 0
  OBVIOUS
<1>2. IsFiniteSet(1..n) /\ Cardinality(1..n) = n
  <2>1. IsFiniteSet(one..n) /\ Cardinality(one..n) = IF one > n THEN 0 ELSE n - one + 1
    BY <1>1, FS_Interval
  <2> QED BY <1>1, <2>1
<1>3. IsFiniteSet({x} \X (1..n)) /\ Cardinality({x} \X (1..n)) = n
  <2>1. IsFiniteSet({x}) /\ Cardinality({x}) = 1
    BY FS_Singleton
  <2>2. IsFiniteSet({x} \X (1..n)) /\ Cardinality({x} \X (1..n)) = Cardinality({x}) * Cardinality(1..n)
    BY <1>2, <2>1, FS_Product
  <2> QED BY <1>2, <2>1, <2>2
<1>4. IsFiniteSet(Units(S, w)) /\ Cardinality(Units(S, w)) \in Nat
  <2>1. \A y \in S : w[y] \in Int
    OBVIOUS
  <2> QED BY <2>1, SumIsNat DEF SumOver
<1>5. Units(S, w) \cap ({x} \X (1..n)) = {} /\ Units(S \cup {x}, w) = Units(S, w) \cup ({x} \X (1..n))
  BY <1>1 DEF Units
<1>6. PICK U, V : U = Units(S, w) /\ V = {x} \X (1..n)
  OBVIOUS
<1>7. Cardinality(U \cup V) = Cardinality(U) + Cardinality(V) - Cardinality({})
  BY <1>3, <1>4, <1>5, <1>6, FS_Union
<1>8. Cardinality({}) = 0
  BY FS_EmptySet
<1>9. Units(S \cup {x}, w) = U \cup V
  BY <1>5, <1>6
<1>10. Cardinality(U) \in Nat /\ Cardinality(V) = n
  BY <1>3, <1>4, <1>6
<1>11. Cardinality(U \cup V) = Cardinality(U) + n
  BY <1>1, <1>7, <1>8, <1>10
<1> QED BY <1>1, <1>6, <1>9, <1>11 DEF SumOver

\* What is sold of a product, with an order more and with one less.
LEMMA Sold ==
    ASSUME NEW S \in SUBSET Orders, NEW o \in Orders
    PROVE  /\ SumOver(S, Quantities) \in Nat
           /\ o \notin S => SumOver(S \cup {o}, Quantities) = SumOver(S, Quantities) + Goods[o].quantity
           /\ o \in S => SumOver(S, Quantities) = SumOver(S \ {o}, Quantities) + Goods[o].quantity
<1>1. /\ \A x \in Orders : Quantities[x] \in Nat
      /\ Quantities[o] = Goods[o].quantity
  BY GoodIs DEF Quantities
<1>2. IsFiniteSet(S) /\ IsFiniteSet(S \ {o})
  BY ShopAssumption, FS_Subset
<1>3. SumOver(S, Quantities) \in Nat
  <2>1. \A x \in S : Quantities[x] \in Int
    BY <1>1
  <2> QED BY <1>2, <2>1, SumIsNat
<1>4. ASSUME o \notin S
      PROVE  SumOver(S \cup {o}, Quantities) = SumOver(S, Quantities) + Goods[o].quantity
  <2>1. \A x \in S \cup {o} : Quantities[x] \in Nat
    BY <1>1
  <2> QED BY <1>1, <1>2, <1>4, <2>1, SumWith
<1>5. ASSUME o \in S
      PROVE  SumOver(S, Quantities) = SumOver(S \ {o}, Quantities) + Goods[o].quantity
  <2>1. PICK T : T = S \ {o}
    OBVIOUS
  <2>2. o \notin T /\ IsFiniteSet(T) /\ \A x \in T \cup {o} : Quantities[x] \in Nat
    BY <1>1, <1>2, <2>1
  <2>3. SumOver(T \cup {o}, Quantities) = SumOver(T, Quantities) + Quantities[o]
    BY <2>2, SumWith
  <2>4. S = T \cup {o}
    BY <1>5, <2>1
  <2> QED BY <1>1, <2>1, <2>3, <2>4
<1> QED BY <1>3, <1>4, <1>5

LEMMA SoldIsNat ==
    ASSUME NEW p
    PROVE  SoldOf(p) \in SUBSET Orders /\ SumOver(SoldOf(p), Quantities) \in Nat
<1>1. SoldOf(p) \in SUBSET Orders
  BY DEF SoldOf
<1>2. IsFiniteSet(SoldOf(p))
  BY <1>1, ShopAssumption, FS_Subset
<1>3. \A o \in SoldOf(p) : Quantities[o] \in Int
  BY <1>1, GoodIs DEF Quantities
<1> QED BY <1>1, <1>2, <1>3, SumIsNat

LEMMA ShopCallLasts ==
    ASSUME NEW call, ShopCall(call), \A o \in Orders : bought[o] # "none" => bought'[o] # "none",
           Creating(call) => product'[call.on].is = "new"
    PROVE  ShopCall(call)'
BY DEF ShopCall, Creating

LEMMA NoShopCall ==
    ASSUME NEW call, call.stage \notin ShopStages \/ call.stage \in {"idle", "keep_copy", "drop_copies", "write_kind", "create_kind"}
    PROVE  ShopCall(call) /\ ShopCall(call)' /\ ~Creating(call) /\ Movable(call) /\ Movable(call)'
BY DEF ShopCall, Creating, Movable, EditStages, ShopStages

\* What a step of c has to show.
LEMMA ShopMoves ==
    ASSUME Lone, ShopInv, NEW c \in Callers, NEW S, Acts(c, S), ShopTables', GoodsRight', OrdersRight',
           \A o \in Orders : bought[o] # "none" => bought'[o] # "none",
           \A p \in Products : product[p].is = "new" =>
               product'[p].is = "new" \/ (Creating(calls[c]) /\ calls[c].on = p /\ ~Creating(calls'[c])),
           ShopCall(calls[c])',
           Creating(calls'[c]) => \A d \in Callers \ {c} : ~(Creating(calls[d]) /\ calls[d].on = calls'[c].on),
           ~overlapped => (\A o \in Orders : Refunded(o)' => bought'[o] = "CANCELLED") /\ Movable(calls[c])'
    PROVE  ShopInv'
<1>1. \A d \in Callers \ {c} : calls'[d] = calls[d]
  BY DEF Acts
<1>2. OneCreator'
  BY <1>1 DEF ShopInv, OneCreator, Creating
<1>3. ASSUME NEW d \in Callers
      PROVE  ShopCall(calls[d])'
  <2>1. CASE d = c
    BY <2>1
  <2>2. CASE d # c
    <3>1. PICK call : call = calls[d] /\ call = calls'[d]
      BY <1>1, <2>2
    <3>2. ShopCall(call)
      BY <3>1 DEF ShopInv
    <3>3. ASSUME Creating(call)
          PROVE  product'[call.on].is = "new"
      <4>1. call.on \in Products /\ product[call.on].is = "new"
        BY <3>2, <3>3 DEF ShopCall
      <4>2. ~(Creating(calls[c]) /\ calls[c].on = call.on)
        BY <2>2, <3>1, <3>3 DEF ShopInv, OneCreator
      <4> QED BY <4>1, <4>2
    <3>4. ShopCall(call)'
      BY <3>2, <3>3, ShopCallLasts
    <3> QED BY <3>1, <3>4
  <2> QED BY <2>1, <2>2
<1>4. OrdersCalm'
  <2>1. CASE overlapped'
    BY <2>1 DEF OrdersCalm
  <2>2. CASE ~overlapped'
    <3>1. ~overlapped /\ \A d \in Callers \ {c} : calls[d].stage = "idle" /\ calls'[d].stage = "idle"
      BY <2>2, Alone
    <3>2. \A d \in Callers : Movable(calls[d])'
      BY <3>1 DEF Movable
    <3> QED BY <3>1, <3>2 DEF OrdersCalm
  <2> QED BY <2>1, <2>2
<1> QED BY <1>2, <1>3, <1>4 DEF ShopInv

\* c looks, or changes what no order is about.
LEMMA ShopLooks ==
    ASSUME Lone, ShopInv, NEW c \in Callers, NEW S, Acts(c, S),
           UNCHANGED <<product, shelf, stocked, purse, entries, bought>>,
           ShopCall(calls[c])',
           Creating(calls'[c]) => \A d \in Callers \ {c} : ~(Creating(calls[d]) /\ calls[d].on = calls'[c].on),
           ~overlapped => Movable(calls[c])'
    PROVE  ShopInv'
<1>1. product' = product /\ shelf' = shelf /\ stocked' = stocked /\ purse' = purse /\ entries' = entries /\ bought' = bought
  OBVIOUS
<1>2. ShopTables'
  BY <1>1 DEF ShopInv, ShopTables
<1>3. \A p : SoldOf(p)' = SoldOf(p)
  BY <1>1 DEF SoldOf
<1>4. GoodsRight'
  BY <1>1, <1>3 DEF ShopInv, GoodsRight
<1>5. OrdersRight' /\ \A o : Refunded(o)' <=> Refunded(o)
  BY <1>1 DEF ShopInv, OrdersRight, Paid, Refunded
<1>6. ~overlapped => \A o \in Orders : Refunded(o)' => bought'[o] = "CANCELLED"
  BY <1>1, <1>5 DEF ShopInv, OrdersCalm
<1> QED BY <1>1, <1>2, <1>4, <1>5, <1>6, ShopMoves

\* A product's row changes, and perhaps what is on its shelf; a new one is made by its creator.
LEMMA ProductMoves ==
    ASSUME Lone, ShopInv, NEW c \in Callers, NEW S, Acts(c, S), NEW p \in Products, NEW row \in ProductRows, NEW anew \in Nat,
           product' = [product EXCEPT ![p] = row], row.is # "new",
           \/ shelf' = shelf /\ stocked' = stocked
           \/ /\ shelf' = [shelf EXCEPT ![p] = anew] /\ stocked' = [stocked EXCEPT ![p] = @ + anew - shelf[p]]
              /\ product[p].is = "there",
           UNCHANGED <<purse, entries, bought>>,
           product[p].is = "there" \/ (Creating(calls[c]) /\ calls[c].on = p),
           calls'[c].stage \in {"idle", "drop_copies"}
    PROVE  ShopInv'
<1>1. /\ purse' = purse /\ entries' = entries /\ bought' = bought
      /\ product \in [Products -> ProductRows] /\ shelf \in [Products -> Int] /\ stocked \in [Products -> Int]
  BY DEF ShopInv, ShopTables
<1>2. product'[p] = row /\ \A q \in Products \ {p} : product'[q] = product[q]
  BY <1>1
<1>3. ShopTables'
  <2>1. \A q \in Products : stocked[q] + anew - shelf[q] \in Int
    BY <1>1
  <2>2. shelf' \in [Products -> Int] /\ stocked' \in [Products -> Int]
    BY <1>1, <2>1
  <2>3. product' \in [Products -> ProductRows]
    BY <1>1
  <2> QED BY <1>1, <2>2, <2>3 DEF ShopInv, ShopTables
<1>4. \A q : SoldOf(q)' = SoldOf(q)
  BY <1>1 DEF SoldOf
<1>5. product[p].is # "gone"
  BY DEF ShopInv, ShopCall
<1>6. GoodsRight'
  <2> SUFFICES ASSUME NEW q \in Products, product'[q].is # "gone"
               PROVE  shelf'[q] >= 0 /\ shelf'[q] + SumOver(SoldOf(q)', Quantities) = stocked'[q]
    BY DEF GoodsRight, Quantities
  <2>1. product[q].is # "gone"
    BY <1>2, <1>5
  <2>2. PICK sold \in Nat : sold = SumOver(SoldOf(q), Quantities)
    BY SoldIsNat
  <2>3. shelf[q] >= 0 /\ shelf[q] + sold = stocked[q] /\ shelf[q] \in Int /\ stocked[q] \in Int
    BY <1>1, <2>1, <2>2 DEF ShopInv, GoodsRight
  <2>4. shelf'[q] >= 0 /\ shelf'[q] + sold = stocked'[q]
    <3>1. CASE shelf'[q] = shelf[q] /\ stocked'[q] = stocked[q]
      BY <2>3, <3>1
    <3>2. CASE shelf'[q] = anew /\ stocked'[q] = stocked[q] + anew - shelf[q]
      BY <2>3, <3>2
    <3> QED BY <1>1, <3>1, <3>2
  <2> QED BY <1>4, <2>2, <2>4
<1>7. OrdersRight'
  BY <1>1, <1>2, GoodIs DEF ShopInv, OrdersRight, Paid, Refunded
<1>8. ~overlapped => \A o \in Orders : Refunded(o)' => bought'[o] = "CANCELLED"
  BY <1>1 DEF ShopInv, OrdersCalm, Refunded
<1>9. PICK call : call = calls'[c] /\ call.stage \in {"idle", "drop_copies"}
  OBVIOUS
<1>10. ShopCall(calls[c])' /\ Movable(calls[c])' /\ ~Creating(calls'[c])
  BY <1>9, NoShopCall
<1>11. \A q \in Products : product[q].is = "new" =>
           product'[q].is = "new" \/ (Creating(calls[c]) /\ calls[c].on = q /\ ~Creating(calls'[c]))
  BY <1>2, <1>10
<1> QED BY <1>1, <1>3, <1>6, <1>7, <1>8, <1>10, <1>11, ShopMoves

-----------------------------------------------------------------------------
(* The shop: orders.                                                       *)

\* c is through, or about to drop the copies that are shown: no order is.
LEMMA ShopDone ==
    ASSUME Lone, ShopInv, NEW c \in Callers, NEW S, Acts(c, S),
           UNCHANGED <<product, shelf, stocked, purse, entries, bought>>,
           calls'[c].stage \in {"idle", "keep_copy", "drop_copies", "write_kind", "create_kind"}
    PROVE  ShopInv'
<1>1. PICK call : call = calls'[c]
  OBVIOUS
<1>2. ShopCall(call)' /\ Movable(call)' /\ ~Creating(call)
  BY <1>1, NoShopCall
<1> QED BY <1>1, <1>2, ShopLooks

\* One order is paid, or paid back.
LEMMA EntryPosted ==
    ASSUME NEW what \in {"SHOP", "REFUND-SHOP"}, NEW o \in Orders, entries' = entries \cup {<<what, o>>}
    PROVE  \A x \in Orders : /\ Paid(x)' <=> Paid(x) \/ (what = "SHOP" /\ x = o)
                             /\ Refunded(x)' <=> Refunded(x) \/ (what = "REFUND-SHOP" /\ x = o)
BY DEF Paid, Refunded

LEMMA SoldAre ==
    ASSUME NEW p
    PROVE  /\ SoldOf(p) = {o \in Orders : Goods[o].product = p /\ Paid(o) /\ ~Refunded(o)}
           /\ SoldOf(p)' = {o \in Orders : Goods[o].product = p /\ Paid(o)' /\ ~Refunded(o)'}
BY DEF SoldOf, Paid, Refunded

LEMMA PlaceOrderKeeps ==
    ASSUME Lone, Shape, ShopInv, NEW c \in Callers, NEW S, Acts(c, S), PlaceOrder(c)
    PROVE  ShopInv'
<1>1. PICK o \in Orders : o = calls[c].on
  BY DEF PlaceOrder, At, ShopInv, ShopCall
<1>2. PICK p \in Products, u \in Customers, n \in Nat, price \in Nat :
          p = Goods[o].product /\ u = Goods[o].customer /\ n = Goods[o].quantity /\ price = Goods[o].total
  BY GoodIs
<1>3. CASE bought[o] = "none" /\ ProductThere(p) /\ shelf[p] >= n /\ purse[u] >= price
  <2>1. /\ calls'[c].stage = "drop_copies"
        /\ shelf' = [shelf EXCEPT ![p] = @ - n] /\ purse' = [purse EXCEPT ![u] = @ - price]
        /\ entries' = entries \cup {<<"SHOP", o>>} /\ bought' = [bought EXCEPT ![o] = "CONFIRMED"]
        /\ product' = product /\ stocked' = stocked
    BY <1>1, <1>2, <1>3 DEF PlaceOrder, Goto, Continue, Shape
  <2>2. /\ shelf \in [Products -> Int] /\ purse \in [Customers -> Int] /\ entries \subseteq References
        /\ bought \in [Orders -> OrderStatuses \cup {"none"}] /\ stocked \in [Products -> Int]
        /\ product \in [Products -> ProductRows]
    BY DEF ShopInv, ShopTables
  <2>3. ~Paid(o) /\ ~Refunded(o) /\ product[p].is = "there"
    BY <1>3 DEF ShopInv, OrdersRight, ProductThere
  <2>4. \A x \in Orders : (Paid(x)' <=> Paid(x) \/ x = o) /\ (Refunded(x)' <=> Refunded(x))
    BY <2>1, EntryPosted
  <2>5. ShopTables'
    <3>1. shelf' \in [Products -> Int]
      BY <2>1, <2>2
    <3>2. purse' \in [Customers -> Int]
      BY <2>1, <2>2
    <3>3. entries' \subseteq References
      BY <2>1, <2>2 DEF References
    <3>4. bought' \in [Orders -> OrderStatuses \cup {"none"}]
      BY <2>1, <2>2 DEF OrderStatuses
    <3> QED BY <2>1, <2>2, <3>1, <3>2, <3>3, <3>4 DEF ShopTables
  <2>6. OrdersRight'
    <3>1. \A x \in Orders : bought'[x] = IF x = o THEN "CONFIRMED" ELSE bought[x]
      BY <2>1, <2>2
    <3> QED BY <1>2, <2>1, <2>3, <2>4, <3>1 DEF ShopInv, OrdersRight
  <2>7. GoodsRight'
    <3> SUFFICES ASSUME NEW q \in Products, product[q].is # "gone"
                 PROVE  shelf'[q] >= 0 /\ shelf'[q] + SumOver(SoldOf(q)', Quantities) = stocked[q]
      BY <2>1 DEF GoodsRight, Quantities
    <3>1. PICK sold \in Nat, T \in SUBSET Orders : T = SoldOf(q) /\ sold = SumOver(T, Quantities)
      BY SoldIsNat
    <3>2. shelf[q] >= 0 /\ shelf[q] + sold = stocked[q] /\ shelf[q] \in Int /\ stocked[q] \in Int
      BY <2>2, <3>1 DEF ShopInv, GoodsRight
    <3>3. CASE q = p
      <4>1. SoldOf(q)' = T \cup {o} /\ o \notin T
        BY <1>2, <2>3, <2>4, <3>1, <3>3, SoldAre
      <4>2. SumOver(T \cup {o}, Quantities) = sold + n
        BY <1>2, <3>1, <4>1, Sold
      <4>3. shelf'[q] = shelf[q] - n /\ shelf[q] >= n
        BY <1>3, <2>1, <2>2, <3>3
      <4> QED BY <3>2, <4>1, <4>2, <4>3
    <3>4. CASE q # p
      <4>1. SoldOf(q)' = T
        BY <1>2, <2>4, <3>1, <3>4, SoldAre
      <4>2. shelf'[q] = shelf[q]
        BY <2>1, <2>2, <3>4
      <4> QED BY <3>1, <3>2, <4>1, <4>2
    <3> QED BY <3>3, <3>4
  <2>8. \A x \in Orders : bought[x] # "none" => bought'[x] # "none"
    BY <2>1, <2>2
  <2>9. ~overlapped => \A x \in Orders : Refunded(x)' => bought'[x] = "CANCELLED"
    BY <2>1, <2>2, <2>3, <2>4 DEF ShopInv, OrdersCalm
  <2>10. PICK call : call = calls'[c] /\ call.stage = "drop_copies"
    BY <2>1
  <2>11. ShopCall(calls[c])' /\ Movable(calls[c])' /\ ~Creating(calls'[c])
    BY <2>10, NoShopCall
  <2> QED BY <2>1, <2>5, <2>6, <2>7, <2>8, <2>9, <2>11, ShopMoves
<1>4. CASE ~(bought[o] = "none" /\ ProductThere(p) /\ shelf[p] >= n /\ purse[u] >= price)
  <2>1. Return(c) /\ UNCHANGED shop
    BY <1>1, <1>2, <1>4 DEF PlaceOrder
  <2>2. calls'[c].stage = "idle"
    BY <2>1 DEF Return, Continue, Shape, Idle
  <2> QED BY <2>1, <2>2, ShopDone DEF shop, assortment
<1> QED BY <1>3, <1>4

\* Only the status of an order changes, to one that is not cancelled.
LEMMA StatusKeeps ==
    ASSUME Lone, Shape, ShopInv, NEW c \in Callers, NEW S, Acts(c, S), At(c, "update_order"), Return(c),
           NEW o \in Orders, o = calls[c].on, NEW status \in OrderStatuses,
           bought' = [bought EXCEPT ![o] = status], UNCHANGED <<assortment, purse, entries>>
    PROVE  ShopInv'
<1>1. /\ product' = product /\ shelf' = shelf /\ stocked' = stocked /\ purse' = purse /\ entries' = entries
      /\ bought \in [Orders -> OrderStatuses \cup {"none"}] /\ bought[o] # "none" /\ status # "none"
  BY DEF assortment, ShopInv, ShopTables, ShopCall, At, OrderStatuses
<1>2. ShopTables'
  BY <1>1 DEF ShopInv, ShopTables
<1>3. \A p : SoldOf(p)' = SoldOf(p)
  BY <1>1 DEF SoldOf
<1>4. GoodsRight'
  BY <1>1, <1>3 DEF ShopInv, GoodsRight
<1>5. \A x : (Paid(x)' <=> Paid(x)) /\ (Refunded(x)' <=> Refunded(x))
  BY <1>1 DEF Paid, Refunded
<1>6. \A x \in Orders : bought'[x] = IF x = o THEN status ELSE bought[x]
  BY <1>1
<1>7. OrdersRight'
  BY <1>1, <1>5, <1>6 DEF ShopInv, OrdersRight
<1>8. ~overlapped => \A x \in Orders : Refunded(x)' => bought'[x] = "CANCELLED"
  BY <1>5, <1>6 DEF ShopInv, OrdersCalm, Movable, At
<1>9. PICK call : call = calls'[c] /\ call.stage = "idle"
  BY DEF Return, Continue, Shape, Idle
<1>10. ShopCall(calls[c])' /\ Movable(calls[c])' /\ ~Creating(calls'[c])
  BY <1>9, NoShopCall
<1> QED BY <1>1, <1>2, <1>4, <1>6, <1>7, <1>8, <1>10, ShopMoves

LEMMA CancellationKeeps ==
    ASSUME Lone, Shape, ShopInv, NEW c \in Callers, NEW S, Acts(c, S), At(c, "update_order"), Goto(c, "drop_copies", Products),
           NEW o \in Orders, o = calls[c].on, ~Refunded(o),
           bought' = [bought EXCEPT ![o] = "CANCELLED"], shelf' = Restocked(Goods[o]),
           purse' = [purse EXCEPT ![Goods[o].customer] = @ + Goods[o].total],
           entries' = entries \cup {<<"REFUND-SHOP", o>>}, product' = product, stocked' = stocked
    PROVE  ShopInv'
<1>1. PICK p \in Products, u \in Customers, n \in Nat, price \in Nat :
          p = Goods[o].product /\ u = Goods[o].customer /\ n = Goods[o].quantity /\ price = Goods[o].total
  BY GoodIs
<1>2. /\ shelf \in [Products -> Int] /\ purse \in [Customers -> Int] /\ entries \subseteq References
      /\ bought \in [Orders -> OrderStatuses \cup {"none"}] /\ stocked \in [Products -> Int]
      /\ product \in [Products -> ProductRows]
  BY DEF ShopInv, ShopTables
<1>3. Paid(o) /\ bought[o] # "none" /\ product[p].is # "new"
  BY <1>1 DEF ShopInv, ShopCall, At, OrdersRight
<1>4. \A x \in Orders : (Paid(x)' <=> Paid(x)) /\ (Refunded(x)' <=> Refunded(x) \/ x = o)
  BY EntryPosted
<1>5. shelf' = IF ProductThere(p) THEN [shelf EXCEPT ![p] = @ + n] ELSE shelf
  BY <1>1 DEF Restocked
<1>6. ShopTables'
  <2>1. shelf' \in [Products -> Int]
    BY <1>2, <1>5
  <2>2. purse' \in [Customers -> Int]
    BY <1>1, <1>2
  <2>3. entries' \subseteq References
    BY <1>2 DEF References
  <2>4. bought' \in [Orders -> OrderStatuses \cup {"none"}]
    BY <1>2 DEF OrderStatuses
  <2> QED BY <1>2, <2>1, <2>2, <2>3, <2>4 DEF ShopTables
<1>7. \A x \in Orders : bought'[x] = IF x = o THEN "CANCELLED" ELSE bought[x]
  BY <1>2
<1>8. OrdersRight'
  BY <1>3, <1>4, <1>7 DEF ShopInv, OrdersRight
<1>9. GoodsRight'
  <2> SUFFICES ASSUME NEW q \in Products, product[q].is # "gone"
               PROVE  shelf'[q] >= 0 /\ shelf'[q] + SumOver(SoldOf(q)', Quantities) = stocked[q]
    BY DEF GoodsRight, Quantities
  <2>1. PICK sold \in Nat, T \in SUBSET Orders : T = SoldOf(q) /\ sold = SumOver(T, Quantities)
    BY SoldIsNat
  <2>2. shelf[q] >= 0 /\ shelf[q] + sold = stocked[q] /\ shelf[q] \in Int /\ stocked[q] \in Int
    BY <1>2, <2>1 DEF ShopInv, GoodsRight
  <2>3. CASE q = p
    <3>1. SoldOf(q)' = T \ {o} /\ o \in T
      BY <1>1, <1>3, <1>4, <2>1, <2>3, SoldAre
    <3>2. sold = SumOver(T \ {o}, Quantities) + n
      BY <1>1, <2>1, <3>1, Sold
    <3>3. SumOver(T \ {o}, Quantities) \in Nat
      BY <2>1, Sold
    <3>4. ProductThere(p)
      BY <1>2, <1>3, <2>3 DEF ProductThere, ProductRows
    <3>5. shelf'[q] = shelf[q] + n
      BY <1>2, <1>5, <2>3, <3>4
    <3> QED BY <2>2, <3>1, <3>2, <3>3, <3>5
  <2>4. CASE q # p
    <3>a. \A x \in Orders : Goods[x].product = q => (Paid(x)' <=> Paid(x)) /\ (Refunded(x)' <=> Refunded(x))
      BY <1>1, <1>4, <2>4
    <3>b. /\ SoldOf(q) = {x \in Orders : Goods[x].product = q /\ Paid(x) /\ ~Refunded(x)}
          /\ SoldOf(q)' = {x \in Orders : Goods[x].product = q /\ Paid(x)' /\ ~Refunded(x)'}
      BY SoldAre
    <3>1. SoldOf(q)' = T
      BY <2>1, <3>a, <3>b
    <3>2. shelf'[q] = shelf[q]
      BY <1>2, <1>5, <2>4
    <3> QED BY <2>1, <2>2, <3>1, <3>2
  <2> QED BY <2>3, <2>4
<1>10. ~overlapped => \A x \in Orders : Refunded(x)' => bought'[x] = "CANCELLED"
  BY <1>4, <1>7 DEF ShopInv, OrdersCalm
<1>11. PICK call : call = calls'[c] /\ call.stage = "drop_copies"
  BY DEF Goto, Continue, Shape
<1>12. ShopCall(calls[c])' /\ Movable(calls[c])' /\ ~Creating(calls'[c])
  BY <1>11, NoShopCall
<1> QED BY <1>6, <1>7, <1>8, <1>9, <1>10, <1>12, ShopMoves

LEMMA WriteOrderStatusKeeps ==
    ASSUME Lone, Shape, ShopInv, NEW c \in Callers, NEW S, Acts(c, S), WriteOrderStatus(c)
    PROVE  ShopInv'
<1>1. PICK o \in Orders, status \in OrderStatuses : o = calls[c].on /\ status = calls[c].saw
  BY DEF WriteOrderStatus, At, ShopInv, ShopCall
<1>2. CASE status # "CANCELLED"
  BY <1>1, <1>2, StatusKeeps DEF WriteOrderStatus
<1>3. CASE status = "CANCELLED" /\ Refunded(o)
  <2>1. Return(c) /\ UNCHANGED shop
    BY <1>1, <1>3 DEF WriteOrderStatus, Refunded
  <2>2. calls'[c].stage = "idle"
    BY <2>1 DEF Return, Continue, Shape, Idle
  <2> QED BY <2>1, <2>2, ShopDone DEF shop, assortment
<1>4. CASE status = "CANCELLED" /\ ~Refunded(o)
  BY <1>1, <1>4, CancellationKeeps DEF WriteOrderStatus, Refunded
<1> QED BY <1>2, <1>3, <1>4

-----------------------------------------------------------------------------
(* The shop: products.                                                     *)

LEMMA CreateProductKeeps ==
    ASSUME Lone, Shape, ShopInv, NEW c \in Callers, NEW S, Acts(c, S), CreateProduct(c), UNCHANGED <<purse, entries, bought>>
    PROVE  ShopInv'
<1>1. PICK p \in Products, k \in Kinds, name \in Titles : p = calls[c].on /\ k = calls[c].saw.in /\ name = calls[c].saw.name
  BY DEF CreateProduct, At, ShopInv, ShopCall, Creating
<1>2. CASE KindThere(k)
  <2>1. PICK row : row = [is |-> "there", in |-> k, name |-> name, active |-> TRUE]
    OBVIOUS
  <2>2. row \in ProductRows /\ row.is = "there"
    BY <2>1 DEF ProductRows
  <2>3. /\ product' = [product EXCEPT ![p] = row] /\ shelf' = shelf /\ stocked' = stocked
        /\ Goto(c, "drop_copies", {p})
    BY <1>1, <1>2, <2>1 DEF CreateProduct
  <2>4. calls'[c].stage = "drop_copies"
    BY <2>3 DEF Goto, Continue, Shape
  <2>5. Creating(calls[c]) /\ calls[c].on = p
    BY <1>1 DEF CreateProduct, At, Creating
  <2>6. PICK anew \in Nat : anew = 0
    OBVIOUS
  <2> QED BY <2>2, <2>3, <2>4, <2>5, <2>6, ProductMoves
<1>3. CASE ~KindThere(k)
  <2>1. Return(c) /\ UNCHANGED assortment
    BY <1>1, <1>3 DEF CreateProduct
  <2>2. calls'[c].stage = "idle"
    BY <2>1 DEF Return, Continue, Shape, Idle
  <2> QED BY <2>1, <2>2, ShopDone DEF assortment
<1> QED BY <1>2, <1>3

LEMMA GivenIs ==
    ASSUME NEW T, NEW field \in SUBSET T, NEW old \in T
    PROVE  Given(field, old) \in T
BY DEF Given

LEMMA WriteProductKeeps ==
    ASSUME Lone, Shape, ShopInv, NEW c \in Callers, NEW S, Acts(c, S), WriteProduct(c), UNCHANGED <<purse, entries, bought>>
    PROVE  ShopInv'
<1>1. PICK p \in Products, form \in EditForms : p = calls[c].on /\ form = calls[c].saw.form
  BY DEF WriteProduct, At, ShopInv, ShopCall, EditStages
<1>2. product[p] \in ProductRows /\ shelf[p] \in Int
  BY DEF ShopInv, ShopTables
<1>3. CASE ProductThere(p) /\ KindThere(Given(form.in, product[p].in))
  <2>0. product[p].is = "there"
    BY <1>3 DEF ProductThere
  <2>1. /\ form.in \in SUBSET Kinds /\ form.name \in SUBSET Titles /\ form.stock \in SUBSET Nat
        /\ product[p].in \in Kinds /\ product[p].name \in Titles /\ shelf[p] \in Nat
    <3>1. shelf[p] >= 0
      BY <2>0 DEF ShopInv, GoodsRight
    <3> QED BY <1>2, <3>1 DEF EditForms, ProductRows
  <2>2. PICK into \in Kinds, name \in Titles, anew \in Nat :
            into = Given(form.in, product[p].in) /\ name = Given(form.name, product[p].name) /\ anew = Given(form.stock, shelf[p])
    BY <2>1, GivenIs
  <2>3. PICK row : row = [product[p] EXCEPT !.in = into, !.name = name]
    OBVIOUS
  <2>4. row \in ProductRows /\ row.is = "there"
    BY <1>2, <2>0, <2>3 DEF ProductRows
  <2>5. product' = [product EXCEPT ![p].in = into, ![p].name = Given(form.name, @)]
    BY <1>1, <1>3, <2>2 DEF WriteProduct
  <2>6. product' = [product EXCEPT ![p] = row]
    BY <1>2, <2>2, <2>3, <2>5, Zenon DEF ProductRows, ShopInv, ShopTables
  <2>7. /\ shelf' = [shelf EXCEPT ![p] = anew] /\ stocked' = [stocked EXCEPT ![p] = @ + anew - shelf[p]]
        /\ Goto(c, "drop_copies", {p})
    BY <1>1, <1>3, <2>2, Zenon DEF WriteProduct
  <2>8. calls'[c].stage = "drop_copies"
    BY <2>7 DEF Goto, Continue, Shape
  <2> QED BY <2>0, <2>4, <2>6, <2>7, <2>8, ProductMoves
<1>4. CASE ~(ProductThere(p) /\ KindThere(Given(form.in, product[p].in)))
  <2>1. Return(c) /\ UNCHANGED assortment
    BY <1>1, <1>4 DEF WriteProduct
  <2>2. calls'[c].stage = "idle"
    BY <2>1 DEF Return, Continue, Shape, Idle
  <2> QED BY <2>1, <2>2, ShopDone DEF assortment
<1> QED BY <1>3, <1>4

LEMMA WriteProductStatusKeeps ==
    ASSUME Lone, Shape, ShopInv, NEW c \in Callers, NEW S, Acts(c, S), WriteProductStatus(c), UNCHANGED <<purse, entries, bought>>
    PROVE  ShopInv'
<1>1. PICK p \in Products, active \in BOOLEAN : p = calls[c].on /\ active = calls[c].saw
  BY DEF WriteProductStatus, At, ShopInv, ShopCall
<1>2. product[p] \in ProductRows
  BY DEF ShopInv, ShopTables
<1>3. CASE ProductThere(p)
  <2>1. PICK row : row = [product[p] EXCEPT !.active = active]
    OBVIOUS
  <2>2. row \in ProductRows /\ row.is = "there" /\ product[p].is = "there"
    BY <1>2, <1>3, <2>1 DEF ProductRows, ProductThere
  <2>3. /\ product' = [product EXCEPT ![p] = row] /\ shelf' = shelf /\ stocked' = stocked
        /\ Goto(c, "drop_copies", {p})
    BY <1>1, <1>3, <2>1 DEF WriteProductStatus
  <2>4. calls'[c].stage = "drop_copies"
    BY <2>3 DEF Goto, Continue, Shape
  <2>5. PICK anew \in Nat : anew = 0
    OBVIOUS
  <2> QED BY <2>2, <2>3, <2>4, <2>5, ProductMoves
<1>4. CASE ~ProductThere(p)
  <2>1. Return(c) /\ UNCHANGED assortment
    BY <1>1, <1>4 DEF WriteProductStatus
  <2>2. calls'[c].stage = "idle"
    BY <2>1 DEF Return, Continue, Shape, Idle
  <2> QED BY <2>1, <2>2, ShopDone DEF assortment
<1> QED BY <1>3, <1>4

LEMMA DeleteProductKeeps ==
    ASSUME Lone, Shape, ShopInv, NEW c \in Callers, NEW S, Acts(c, S), DeleteProduct(c), UNCHANGED <<purse, entries, bought>>
    PROVE  ShopInv'
<1>1. PICK p \in Products : p = calls[c].on
  BY DEF DeleteProduct, At, ShopInv, ShopCall
<1>2. product[p] \in ProductRows
  BY DEF ShopInv, ShopTables
<1>3. CASE ProductThere(p)
  <2>1. PICK row : row = [product[p] EXCEPT !.is = "gone"]
    OBVIOUS
  <2>2. row \in ProductRows /\ row.is = "gone" /\ product[p].is = "there"
    BY <1>2, <1>3, <2>1 DEF ProductRows, ProductThere
  <2>3. /\ product' = [product EXCEPT ![p] = row] /\ shelf' = shelf /\ stocked' = stocked
        /\ Goto(c, "drop_copies", {p})
    BY <1>1, <1>3, <2>1 DEF DeleteProduct
  <2>4. calls'[c].stage = "drop_copies"
    BY <2>3 DEF Goto, Continue, Shape
  <2>5. PICK anew \in Nat : anew = 0
    OBVIOUS
  <2> QED BY <2>2, <2>3, <2>4, <2>5, ProductMoves
<1>4. CASE ~ProductThere(p)
  <2>1. Return(c) /\ UNCHANGED assortment
    BY <1>1, <1>4 DEF DeleteProduct
  <2>2. calls'[c].stage = "idle"
    BY <2>1 DEF Return, Continue, Shape, Idle
  <2> QED BY <2>1, <2>2, ShopDone DEF assortment
<1> QED BY <1>3, <1>4

\* c goes on with the same product and the same form.
LEMMA GoesOn ==
    ASSUME Lone, Shape, ShopInv, NEW c \in Callers, NEW S, Acts(c, S), UNCHANGED <<product, shelf, stocked, purse, entries, bought>>,
           NEW stage, Goto(c, stage, calls[c].saw),
           \/ calls[c].stage \in EditStages /\ stage \in EditStages
           \/ calls[c].stage = "upload_first" /\ stage = "create_product"
    PROVE  ShopInv'
<1>1. PICK call : call = [stage |-> stage, on |-> calls[c].on, saw |-> calls[c].saw]
  OBVIOUS
<1>2. calls'[c] = call /\ call.stage = stage /\ call.on = calls[c].on /\ call.saw = calls[c].saw
  <2>1. calls'[c] = call
    BY <1>1 DEF Goto, Continue, Shape
  <2> QED BY <1>1, <2>1
<1>3. ShopCall(calls[c])
  BY DEF ShopInv
<1>4. ShopCall(call)
  BY <1>2, <1>3 DEF ShopCall, Creating, EditStages
<1>5. ShopCall(call)'
  <2>1. Creating(call) => call.on \in Products /\ product[call.on].is = "new"
    BY <1>4 DEF ShopCall
  <2> QED BY <1>4, <2>1, ShopCallLasts
<1>6. Movable(call)'
  BY <1>2 DEF Movable, EditStages
<1>7. Creating(call) => Creating(calls[c]) /\ calls[c].on = call.on
  BY <1>2 DEF Creating, EditStages
<1>8. Creating(call) => \A d \in Callers \ {c} : ~(Creating(calls[d]) /\ calls[d].on = call.on)
  BY <1>7 DEF ShopInv, OneCreator
<1> QED BY <1>2, <1>5, <1>6, <1>8, ShopLooks

-----------------------------------------------------------------------------
(* The shop: its handlers, and those of others.                            *)

LEMMA ShopSteps ==
    ASSUME Lone, Shape, ShopInv, NEW c \in Callers, Acts(c, ShopStages), ShopStep(c)
    PROVE  ShopInv'
<1>1. CASE PlaceOrder(c) \/ WriteOrderStatus(c)
  BY <1>1, PlaceOrderKeeps, WriteOrderStatusKeeps
<1>2. CASE AssortmentStep(c) /\ UNCHANGED <<purse, entries, bought>>
  <2>1. CASE CreateProduct(c) \/ WriteProduct(c) \/ WriteProductStatus(c) \/ DeleteProduct(c)
    BY <1>2, <2>1, CreateProductKeeps, WriteProductKeeps, WriteProductStatusKeeps, DeleteProductKeeps
  <2>2. CASE KeepCopy(c) \/ DropCopies(c)
    <3>1. UNCHANGED <<product, shelf, stocked>> /\ Return(c)
      BY <2>2 DEF KeepCopy, DropCopies
    <3>2. calls'[c].stage = "idle"
      BY <3>1 DEF Return, Continue, Shape, Idle
    <3> QED BY <1>2, <3>1, <3>2, ShopDone
  <2>3. CASE WriteKind(c)
    <3>1. UNCHANGED <<product, shelf, stocked>> /\ (Return(c) \/ Goto(c, "drop_copies", Products))
      BY <2>3 DEF WriteKind, assortment
    <3>2. calls'[c].stage \in {"idle", "drop_copies"}
      BY <3>1 DEF Return, Goto, Continue, Shape, Idle
    <3> QED BY <1>2, <3>1, <3>2, ShopDone
  <2>4. CASE UploadFirst(c)
    BY <1>2, <2>4, GoesOn DEF UploadFirst, At
  <2>5. CASE RemoveAssets(c)
    BY <1>2, <2>5, GoesOn DEF RemoveAssets, At, EditStages
  <2>6. CASE RemoveRows(c)
    BY <1>2, <2>6, GoesOn DEF RemoveRows, AddOrWrite, At, EditStages
  <2>7. CASE UploadPictures(c)
    BY <1>2, <2>7, GoesOn DEF UploadPictures, At, EditStages
  <2>8. CASE CreateRows(c)
    <3>1. CASE Return(c) /\ UNCHANGED assortment
      <4>1. calls'[c].stage = "idle"
        BY <3>1 DEF Return, Continue, Shape, Idle
      <4> QED BY <1>2, <3>1, <4>1, ShopDone DEF assortment
    <3>2. CASE Goto(c, "write_product", calls[c].saw) /\ UNCHANGED <<product, shelf, stocked>>
      BY <1>2, <2>8, <3>2, GoesOn DEF CreateRows, At, EditStages
    <3> QED BY <2>8, <3>1, <3>2 DEF CreateRows
  <2>9. CASE DeleteAssets(c)
    <3>1. UNCHANGED <<product, shelf, stocked>> /\ calls[c].on \in Products
      BY <2>9 DEF DeleteAssets, At, ShopInv, ShopCall
    <3>2. calls'[c] = [stage |-> "delete_product", on |-> calls[c].on, saw |-> 0]
      BY <2>9 DEF DeleteAssets, Goto, Continue, Shape
    <3>3. calls'[c].stage = "delete_product" /\ calls'[c].on = calls[c].on
      BY <3>2, Selects
    <3>4. ShopCall(calls[c])' /\ Movable(calls[c])' /\ ~Creating(calls'[c])
      BY <3>1, <3>3 DEF ShopCall, Movable, Creating, EditStages
    <3> QED BY <1>2, <3>1, <3>4, ShopLooks
  <2> QED BY <1>2, <2>1, <2>2, <2>3, <2>4, <2>5, <2>6, <2>7, <2>8, <2>9 DEF AssortmentStep
<1> QED BY <1>1, <1>2 DEF ShopStep

\* A handler starts, and remembers what it may.
LEMMA ShopBegins ==
    ASSUME Lone, Shape, ShopInv, NEW c \in Callers, Acts(c, ShopStages), UNCHANGED shop,
           NEW op, NEW stage, NEW on, NEW saw, Begin(c, op, stage, on, saw),
           \A call : call.stage = stage /\ call.on = on /\ call.saw = saw => ShopCall(call) /\ Movable(call),
           stage \in {"upload_first", "create_product"} => ~ \E d \in Callers : calls[d].on = on
    PROVE  ShopInv'
<1>1. calls'[c] = [stage |-> stage, on |-> on, saw |-> saw]
  BY DEF Begin, Shape
<1>2. PICK call : call = calls'[c] /\ call.stage = stage /\ call.on = on /\ call.saw = saw
  BY <1>1, Selects
<1>3. ShopCall(call) /\ Movable(call)
  BY <1>2
<1>4. product' = product /\ bought' = bought /\ UNCHANGED <<product, shelf, stocked, purse, entries, bought>>
  BY DEF shop, assortment
<1>5. ShopCall(call)' /\ Movable(call)'
  BY <1>3, <1>4 DEF ShopCall, Movable, Creating
<1>6. Creating(call) => \A d \in Callers \ {c} : ~(Creating(calls[d]) /\ calls[d].on = call.on)
  BY <1>2 DEF Creating
<1> QED BY <1>2, <1>4, <1>5, <1>6, ShopLooks

LEMMA ShopRequests ==
    ASSUME Lone, Shape, ShopInv, NEW c \in Callers, Acts(c, ShopStages), Ready(c), ShopRequest(c)
    PROVE  ShopInv'
<1>1. ASSUME NEW o \in Orders, Checkout(c, o)
      PROVE  ShopInv'
  <2>1. UNCHANGED shop /\ Begin(c, "shop", "place_order", o, 0)
    BY <1>1 DEF Checkout
  <2>2. \A call : call.stage = "place_order" /\ call.on = o /\ call.saw = 0 => ShopCall(call) /\ Movable(call)
    BY DEF ShopCall, Movable, Creating, EditStages
  <2> QED BY <2>1, <2>2, ShopBegins
<1>2. ASSUME NEW o \in Orders, NEW status \in OrderStatuses, UpdateOrderStatus(c, o, status)
      PROVE  ShopInv'
  <2>1. UNCHANGED shop /\ Begin(c, "shop", "update_order", o, status) /\ bought[o] \notin {"none", "CANCELLED"}
    BY <1>2 DEF UpdateOrderStatus
  <2>2. \A call : call.stage = "update_order" /\ call.on = o /\ call.saw = status => ShopCall(call) /\ Movable(call)
    BY <2>1 DEF ShopCall, Movable, Creating, EditStages
  <2> QED BY <2>1, <2>2, ShopBegins
<1>3. ASSUME UNCHANGED shop, NEW op, NEW stage \in {"keep_copy", "write_kind", "create_kind"}, NEW on, NEW saw,
             Begin(c, op, stage, on, saw)
      PROVE  ShopInv'
  <2>1. calls'[c] = [stage |-> stage, on |-> on, saw |-> saw]
    BY <1>3 DEF Begin, Shape
  <2>2. calls'[c].stage = stage
    BY <2>1, Selects
  <2> QED BY <1>3, <2>2, ShopDone DEF shop, assortment
<1>4. ASSUME UNCHANGED shop, NEW w \in Windows, Look(c, w)
      PROVE  ShopInv'
  BY <1>3, <1>4 DEF Look
<1>5. ASSUME UNCHANGED shop, NEW k \in Kinds, NEW name, ChangeKind(c, k, name)
      PROVE  ShopInv'
  BY <1>3, <1>5 DEF ChangeKind
<1>6. ASSUME UNCHANGED shop, NEW p \in Products, NEW k \in Kinds, NEW name \in Titles, AddProduct(c, p, k, name, 1)
      PROVE  ShopInv'
  <2>1. /\ Begin(c, "add_product", "upload_first", p, [in |-> k, name |-> name, add |-> 1])
        /\ product[p].is = "new" /\ ~ \E d \in Callers : calls[d].on = p
    BY <1>6 DEF AddProduct
  <2>2. PICK saw : saw = [in |-> k, name |-> name, add |-> 1]
    OBVIOUS
  <2>3. saw.in = k /\ saw.name = name
    BY <2>2
  <2>4. \A call : call.stage = "upload_first" /\ call.on = p /\ call.saw = saw => ShopCall(call) /\ Movable(call)
    BY <2>1, <2>3 DEF ShopCall, Movable, Creating, EditStages
  <2> QED BY <1>6, <2>1, <2>2, <2>4, ShopBegins
<1>7. ASSUME UNCHANGED shop, NEW p \in Products, NEW form \in Edits, EditProduct(c, p, form)
      PROVE  ShopInv'
  <2>1. PICK stage \in {"remove_assets", "upload_pictures", "write_product"} :
            Begin(c, "edit_product", stage, p, [form |-> form, had |-> pictures[p]])
    BY <1>7 DEF EditProduct, AddOrWrite
  <2>2. PICK saw : saw = [form |-> form, had |-> pictures[p]]
    OBVIOUS
  <2>3. saw.form = form /\ form \in EditForms
    BY <2>2, ShopAssumption
  <2>4. \A call : call.stage = stage /\ call.on = p /\ call.saw = saw => ShopCall(call) /\ Movable(call)
    BY <2>3 DEF ShopCall, Movable, Creating, EditStages
  <2> QED BY <1>7, <2>1, <2>2, <2>4, ShopBegins
<1>8. ASSUME UNCHANGED shop, NEW p \in Products, NEW active \in BOOLEAN, SetProductStatus(c, p, active)
      PROVE  ShopInv'
  <2>1. Begin(c, "edit_product", "write_product_status", p, active)
    BY <1>8 DEF SetProductStatus
  <2>2. \A call : call.stage = "write_product_status" /\ call.on = p /\ call.saw = active => ShopCall(call) /\ Movable(call)
    BY DEF ShopCall, Movable, Creating, EditStages
  <2> QED BY <1>8, <2>1, <2>2, ShopBegins
<1>9. ASSUME UNCHANGED shop, NEW p \in Products, RemoveProduct(c, p)
      PROVE  ShopInv'
  <2>1. Begin(c, "remove_product", "delete_assets", p, pictures[p])
    BY <1>9 DEF RemoveProduct
  <2>2. \A call : call.stage = "delete_assets" /\ call.on = p /\ call.saw = pictures[p] => ShopCall(call) /\ Movable(call)
    BY DEF ShopCall, Movable, Creating, EditStages
  <2> QED BY <1>9, <2>1, <2>2, ShopBegins
<1>10. ASSUME AssortmentRequest(c), UNCHANGED <<purse, entries, bought>>
       PROVE  ShopInv'
  <2>1. UNCHANGED assortment
    BY <1>10 DEF AssortmentRequest, ProductsRequest, KindsRequest, Look, AddProduct, EditProduct, SetProductStatus,
                 RemoveProduct, ChangeKind
  <2>2. UNCHANGED shop
    BY <1>10, <2>1 DEF shop
  <2>3. CASE \E w \in Windows : Look(c, w)
    BY <1>4, <2>2, <2>3
  <2>4. CASE KindsRequest(c)
    BY <1>5, <2>2, <2>4 DEF KindsRequest
  <2>5. CASE ProductsRequest(c)
    BY <1>6, <1>7, <1>8, <1>9, <2>2, <2>5 DEF ProductsRequest
  <2> QED BY <1>10, <2>3, <2>4, <2>5 DEF AssortmentRequest
<1> QED BY <1>1, <1>2, <1>10 DEF ShopRequest, OrderRequest

LEMMA ShopApart ==
    /\ "idle" \notin ShopStages
    /\ \A s \in InventoryStages : s \notin ShopStages
    /\ \A s \in ProcurementStages : s \notin ShopStages
    /\ \A s \in PromotionsStages : s \notin ShopStages
    /\ \A s \in SalonStages : s \notin ShopStages
    /\ \A s \in CatalogueStages : s \notin ShopStages
    /\ \A s \in TakingsStages : s \notin ShopStages
BY DEF InventoryStages, ProcurementStages, ShopStages, PromotionsStages, SalonStages, PlainStages, CatalogueStages, TakingsStages

LEMMA ShopShop ==
    ASSUME Handled, ShopInv, NEW c \in Callers, ShopNext(c)
    PROVE  ShopInv'
<1>1. Shape /\ Lone /\ Acts(c, ShopStages)
  BY ShopActs DEF Handled
<1> QED BY <1>1, ShopSteps, ShopRequests DEF ShopNext

LEMMA ShopElsewhere ==
    ASSUME Handled, ShopInv, [Next]_vars, ~ \E c \in Callers : ShopNext(c)
    PROVE  ShopInv'
<1>1. Shape /\ Routed /\ Lone
  BY DEF Handled
<1>2. ASSUME UNCHANGED <<product, shelf, stocked, purse, entries, bought>>, UNCHANGED handlers
      PROVE  ShopInv'
  BY <1>2 DEF ShopInv, ShopTables, GoodsRight, SoldOf, OrdersRight, OneCreator, ShopCall, OrdersCalm, Creating, Paid, Refunded,
              Movable, handlers
<1>3. ASSUME NEW c \in Callers, NEW S, Acts(c, S), UNCHANGED shop, \A s \in S : s \notin ShopStages
      PROVE  ShopInv'
  <2>1. PICK call : call = calls'[c] /\ call.stage \notin ShopStages
    BY <1>3, ShopApart DEF Acts
  <2>2. ShopCall(call)' /\ Movable(call)' /\ ~Creating(call)
    BY <2>1, NoShopCall
  <2> QED BY <1>1, <1>3, <2>1, <2>2, ShopLooks DEF shop, assortment
<1>4. ASSUME NEW c \in Callers, InventoryNext(c) \/ ProcurementNext(c) \/ TakingsNext(c)
      PROVE  ShopInv'
  <2>1. UNCHANGED shop
    BY <1>4 DEF InventoryNext, ProcurementNext, TakingsNext
  <2> QED BY <1>1, <1>3, <1>4, <2>1, ShopApart, InventoryActs, ProcurementActs, TakingsActs
<1>5. ASSUME NEW c \in Callers, PromotionsNext(c) \/ SalonNext(c) \/ CatalogueNext(c)
      PROVE  ShopInv'
  <2>1. UNCHANGED shop
    BY <1>5 DEF PromotionsNext, SalonNext, CatalogueNext
  <2> QED BY <1>1, <1>3, <1>5, <2>1, ShopApart, PromotionsActs, SalonActs, CatalogueActs
<1>6. ASSUME NEW c \in Callers, Dies(c)
      PROVE  ShopInv'
  <2>1. UNCHANGED shop
    BY <1>6 DEF Dies
  <2> QED BY <1>1, <1>3, <1>6, <2>1, DiesActs
<1>7. CASE UNCHANGED vars
  BY <1>2, <1>7 DEF vars, shop, assortment
<1>8. CASE SettingsExpire /\ UNCHANGED <<approval, inventory, procurement, shop, salon, catalogue, takings>>
  BY <1>2, <1>8 DEF SettingsExpire, shop, assortment
<1>9. CASE PageExpires /\ UNCHANGED <<approval, inventory, procurement, shop, promotions, salon, takings>>
  BY <1>2, <1>9 DEF PageExpires, shop, assortment
<1>10. CASE TimePasses /\ UNCHANGED <<approval, inventory, procurement, shop, promotions, salon, catalogue>>
  BY <1>2, <1>10 DEF TimePasses, shop, assortment
<1>11. CASE CopyExpires /\ UNCHANGED <<approval, inventory, procurement, purse, entries, bought, promotions, salon, catalogue, takings>>
  <2>1. UNCHANGED <<product, shelf, stocked>> /\ UNCHANGED handlers
    BY <1>11 DEF CopyExpires
  <2> QED BY <1>2, <1>11, <2>1
<1> QED BY <1>4, <1>5, <1>6, <1>7, <1>8, <1>9, <1>10, <1>11 DEF Next

LEMMA ShopAtFirst == Init => ShopInv
<1> SUFFICES ASSUME Init PROVE ShopInv
  OBVIOUS
<1>1. /\ shelf = ShopStock /\ stocked = ShopStock /\ purse = Savings /\ entries = {}
      /\ bought = [o \in Orders |-> "none"] /\ \A c \in Callers : calls[c].stage = "idle"
  BY DEF Init, ShopInit, AssortmentInit, HandlersInit, Idle
<1>2. product \in [Products -> ProductRows]
  <2>1. ASSUME NEW p \in Products
        PROVE  \A is \in {"new", "there"} : [is |-> is, in |-> FirstKind, name |-> TitleOf[p], active |-> TRUE] \in ProductRows
    BY ShopAssumption DEF ProductRows
  <2> QED BY <2>1 DEF Init, ShopInit, AssortmentInit
<1>3. ShopTables
  <2>1. shelf \in [Products -> Int] /\ stocked \in [Products -> Int] /\ purse \in [Customers -> Int]
    BY <1>1, ShopAssumption
  <2> QED BY <1>1, <1>2, <2>1 DEF ShopTables
<1>4. GoodsRight
  <2> SUFFICES ASSUME NEW p \in Products
               PROVE  shelf[p] >= 0 /\ shelf[p] + SumOver(SoldOf(p), Quantities) = stocked[p]
    BY DEF GoodsRight
  <2>1. SoldOf(p) = {}
    BY <1>1 DEF SoldOf
  <2>2. Units({}, Quantities) = {}
    BY DEF Units
  <2>3. SumOver(SoldOf(p), Quantities) = 0
    BY <2>1, <2>2, FS_EmptySet DEF SumOver
  <2>4. shelf[p] \in Nat /\ stocked[p] = shelf[p]
    BY <1>1, ShopAssumption
  <2> QED BY <2>3, <2>4
<1>5. OrdersRight /\ OneCreator /\ OrdersCalm /\ \A c \in Callers : ShopCall(calls[c])
  BY <1>1 DEF OrdersRight, Paid, Refunded, OneCreator, Creating, OrdersCalm, Movable, ShopCall, EditStages
<1> QED BY <1>3, <1>4, <1>5 DEF ShopInv

\* A wallet changes by posting, and a reference is posted once.
LEMMA StepOfKept ==
    ASSUME Handled, ShopInv, [Next]_vars
    PROVE  [Kept!Next]_(Kept!ledger)
<1>1. ASSUME UNCHANGED <<purse, entries>>
      PROVE  [Kept!Next]_(Kept!ledger)
  BY <1>1 DEF Kept!ledger
<1>2. ASSUME NEW c \in Callers, PlaceOrder(c)
      PROVE  [Kept!Next]_(Kept!ledger)
  <2>1. PICK o \in Orders : o = calls[c].on
    BY <1>2 DEF PlaceOrder, At, ShopInv, ShopCall
  <2>2. CASE UNCHANGED shop
    BY <1>1, <2>2 DEF shop
  <2>3. CASE ~ UNCHANGED shop
    <3>1. PICK u \in Customers, price \in Nat : u = Goods[o].customer /\ price = Goods[o].total
      BY GoodIs
    <3>2. /\ bought[o] = "none" /\ entries' = entries \cup {<<"SHOP", o>>}
          /\ purse' = [purse EXCEPT ![u] = @ - price]
      BY <1>2, <2>1, <2>3, <3>1 DEF PlaceOrder
    <3>3. PICK r \in References : r = <<"SHOP", o>>
      BY DEF References
    <3>4. Payer[r] = u /\ Signed[r] = -price /\ r \notin entries
      BY <3>1, <3>2, <3>3 DEF Payer, Signed, ShopInv, OrdersRight, Paid
    <3>5. purse[u] \in Int /\ purse[u] - price = purse[u] + (-price)
      BY DEF ShopInv, ShopTables
    <3>6. Kept!Post(r)
      BY <3>2, <3>3, <3>4, <3>5 DEF Kept!Post
    <3> QED BY <3>6 DEF Kept!Next
  <2> QED BY <2>2, <2>3
<1>3. ASSUME NEW c \in Callers, WriteOrderStatus(c)
      PROVE  [Kept!Next]_(Kept!ledger)
  <2>1. PICK o \in Orders : o = calls[c].on
    BY <1>3 DEF WriteOrderStatus, At, ShopInv, ShopCall
  <2>2. CASE UNCHANGED <<purse, entries>>
    BY <1>1, <2>2
  <2>3. CASE ~ UNCHANGED <<purse, entries>>
    <3>1. PICK u \in Customers, price \in Nat : u = Goods[o].customer /\ price = Goods[o].total
      BY GoodIs
    <3>2. /\ <<"REFUND-SHOP", o>> \notin entries /\ entries' = entries \cup {<<"REFUND-SHOP", o>>}
          /\ purse' = [purse EXCEPT ![u] = @ + price]
      BY <1>3, <2>1, <2>3, <3>1 DEF WriteOrderStatus, shop
    <3>3. PICK r \in References : r = <<"REFUND-SHOP", o>>
      BY DEF References
    <3>4. Payer[r] = u /\ Signed[r] = price /\ r \notin entries
      BY <3>1, <3>2, <3>3 DEF Payer, Signed
    <3>5. Kept!Post(r)
      BY <3>2, <3>3, <3>4 DEF Kept!Post
    <3> QED BY <3>5 DEF Kept!Next
  <2> QED BY <2>2, <2>3
<1>4. ASSUME NEW c \in Callers, ShopNext(c)
      PROVE  [Kept!Next]_(Kept!ledger)
  <2>1. CASE ShopStep(c)
    BY <1>1, <1>2, <1>3, <2>1 DEF ShopStep
  <2>2. CASE ShopRequest(c)
    <3>1. UNCHANGED <<purse, entries>>
      BY <2>2 DEF ShopRequest, OrderRequest, Checkout, UpdateOrderStatus, shop
    <3> QED BY <1>1, <3>1
  <2> QED BY <1>4, <2>1, <2>2 DEF ShopNext
<1>5. ASSUME NEW c \in Callers, InventoryNext(c) \/ ProcurementNext(c) \/ PromotionsNext(c) \/ SalonNext(c) \/ CatalogueNext(c) \/ TakingsNext(c) \/ Dies(c)
      PROVE  UNCHANGED shop
  BY <1>5 DEF InventoryNext, ProcurementNext, PromotionsNext, SalonNext, CatalogueNext, TakingsNext, Dies
<1>6. CASE UNCHANGED vars
  BY <1>1, <1>6 DEF vars, shop
<1>7. CASE UNCHANGED shop
  BY <1>1, <1>7 DEF shop
<1>8. CASE UNCHANGED <<purse, entries, bought>>
  BY <1>1, <1>8
<1> QED BY <1>4, <1>5, <1>6, <1>7, <1>8 DEF Next

\* Shop implements Ledger: a wallet changes only by posting an order's price or its refund, each at
\* most once.  What a product has on the shelf and in orders not refunded is what it had and what was
\* corrected, whoever overlaps and whoever dies; and what is delivered was not refunded, until two
\* handlers overlap: for any number of products, orders, customers and handlers.
THEOREM ShopImplementsLedger == Spec => ShopKept
<1>1. Handled /\ [Next]_vars => Handled'
  BY HandledStays
<1>2. Handled /\ ShopInv /\ [Next]_vars => ShopInv'
  BY ShopShop, ShopElsewhere
<1>3. ShopInv => ShopTypeOK /\ GoodsAreKept /\ DeliveredIsPaid
  <2> SUFFICES ASSUME ShopInv PROVE ShopTypeOK /\ GoodsAreKept /\ DeliveredIsPaid
    OBVIOUS
  <2>1. ShopTypeOK
    BY DEF ShopInv, ShopTables, ShopTypeOK
  <2>2. GoodsAreKept
    BY DEF ShopInv, GoodsRight, GoodsAreKept, ProductThere
  <2>3. DeliveredIsPaid
    <3>1. ASSUME ~overlapped, NEW o \in Orders, bought[o] = "DELIVERED"
          PROVE  <<"REFUND-SHOP", o>> \notin entries
      BY <3>1 DEF ShopInv, OrdersCalm, Refunded
    <3> QED BY <3>1 DEF DeliveredIsPaid
  <2> QED BY <2>1, <2>2, <2>3
<1>4. Init => Handled
  BY SignedAtFirst DEF SignedInv
<1>5. Init => Kept!Init
  BY DEF Init, ShopInit, Kept!Init
<1>6. Handled /\ ShopInv /\ [Next]_vars => [Kept!Next]_(Kept!ledger)
  BY StepOfKept
<1> QED BY <1>1, <1>2, <1>3, <1>4, <1>5, <1>6, ShopAtFirst, PTL DEF Spec, ShopKept, WalletsFollowOrders, Kept!Spec
===============================================================================
