----------------------------- MODULE OfficeProofs -----------------------------
(***************************************************************************)
(* Proofs about the office: refresh tokens do not fork, whoever overlaps   *)
(* and dies, and belong to the account's session (SessionsAreKept); who    *)
(* may do what is judged by present rights (RightsAreKept); reset links,   *)
(* PINs, numbers and addresses count once (CredentialsAreKept).            *)
(*                                                                         *)
(* First where the handlers of each part can be and where they go on; then *)
(* what each part does to the tables of accounts; then the invariants.     *)
(***************************************************************************)
EXTENDS Office, TLAPS, FiniteSetTheorems

-----------------------------------------------------------------------------
(* The handlers: what a step of one does to all.                           *)

\* calls is a function on Callers.
Shape ==
    /\ DOMAIN calls = Callers
    /\ calls = [c \in Callers |-> calls[c]]

\* What a step of handler c does to the handlers, whatever else it does: c goes on to one of stages.
Acts(c, stages) ==
    /\ Shape'
    /\ \A d \in Callers \ {c} : calls'[d] = calls[d]
    /\ calls'[c].stage \in stages \cup {"idle"}
    /\ \/ overlapped' = overlapped /\ Busy(c)
       \/ overlapped' = (overlapped \/ ~Quiet)
    /\ scenario' = scenario
    /\ crashes' = crashes \/ (crashes' = crashes + 1 /\ calls'[c].stage = "idle")

LEMMA Begins ==
    ASSUME Shape, NEW c \in Callers, NEW S, NEW op, NEW stage, NEW on, NEW saw,
           Begin(c, op, stage, on, saw), stage \in S
    PROVE  Acts(c, S)
BY DEF Shape, Acts, Begin, Quiet, Busy, At, Ready

LEMMA Onces ==
    ASSUME Shape, NEW c \in Callers, NEW S, NEW op, Once(c, op)
    PROVE  Acts(c, S)
BY DEF Shape, Acts, Once, Quiet, Busy, At, Ready

LEMMA Continues ==
    ASSUME Shape, NEW c \in Callers, NEW S, Busy(c), NEW stage, NEW on, NEW saw, stage \in S,
           Continue(c, [stage |-> stage, on |-> on, saw |-> saw])
    PROVE  Acts(c, S)
BY DEF Shape, Acts, Continue, Quiet, Busy, At

LEMMA Selects ==
    ASSUME NEW stage, NEW on, NEW saw, NEW r, r = [stage |-> stage, on |-> on, saw |-> saw]
    PROVE  r.stage = stage /\ r.on = on /\ r.saw = saw
OBVIOUS

\* Where a handler is that starts, that goes on, or that goes on with something else.
LEMMA Starts ==
    ASSUME Shape, NEW c \in Callers, NEW op, NEW stage, NEW on, NEW saw, Begin(c, op, stage, on, saw)
    PROVE  calls'[c].stage = stage /\ calls'[c].on = on /\ calls'[c].saw = saw /\ op \in scenario
<1>1. calls'[c] = [stage |-> stage, on |-> on, saw |-> saw] /\ op \in scenario
  BY DEF Begin, Shape
<1> QED BY <1>1, Selects

LEMMA Gone ==
    ASSUME Shape, NEW c \in Callers, NEW stage, NEW saw, Goto(c, stage, saw)
    PROVE  calls'[c].stage = stage /\ calls'[c].on = calls[c].on /\ calls'[c].saw = saw
<1>1. calls'[c] = [stage |-> stage, on |-> calls[c].on, saw |-> saw]
  BY DEF Goto, Continue, Shape
<1> QED BY <1>1, Selects

LEMMA Continued ==
    ASSUME Shape, NEW c \in Callers, NEW stage, NEW on, NEW saw,
           Continue(c, [stage |-> stage, on |-> on, saw |-> saw])
    PROVE  calls'[c].stage = stage /\ calls'[c].on = on /\ calls'[c].saw = saw
<1>1. calls'[c] = [stage |-> stage, on |-> on, saw |-> saw]
  BY DEF Continue, Shape
<1> QED BY <1>1, Selects

LEMMA Returned ==
    ASSUME Shape, NEW c \in Callers, Return(c)
    PROVE  calls'[c] = Idle /\ calls'[c].stage = "idle"
BY DEF Return, Continue, Shape, Idle

LEMMA Goes ==
    ASSUME Shape, NEW c \in Callers, NEW S, Busy(c), NEW stage, NEW saw, Goto(c, stage, saw), stage \in S
    PROVE  Acts(c, S)
BY Continues DEF Goto

LEMMA Returns ==
    ASSUME Shape, NEW c \in Callers, NEW S, Busy(c), Return(c)
    PROVE  Acts(c, S)
BY DEF Shape, Acts, Return, Continue, Quiet, Busy, At, Idle

LEMMA DiesActs ==
    ASSUME Shape, NEW c \in Callers, Dies(c)
    PROVE  Acts(c, {})
<1>1. /\ calls' = [calls EXCEPT ![c] = Idle] /\ overlapped' = overlapped /\ Busy(c)
      /\ scenario' = scenario /\ crashes' = crashes + 1
  BY DEF Dies, Crash
<1> QED BY <1>1 DEF Shape, Acts, Idle

LEMMA ActsWithin ==
    ASSUME NEW c \in Callers, NEW S, NEW T, S \subseteq T, Acts(c, S)
    PROVE  Acts(c, T)
BY DEF Acts

-----------------------------------------------------------------------------
(* Where the handlers of each part can be.                                 *)

AccountsStages == {"drop_profile", "forget", "issue", "link", "mail_code", "refresh", "register",
    "resend", "rotate", "signed_in", "verified"}
RolesStages == {"add_role", "assign_role", "create_admin", "drop_permissions", "drop_then_log",
    "judge", "load_permissions", "load_profile", "log", "remove_role"}
CredentialsStages == {"count_failure", "create_address", "delete_address", "lock",
    "lock_in_Redis", "make_default", "new_password", "phone_verified", "store_pin", "unlock",
    "write_phone", "write_reset"}
StaffStages == {"claim", "create_member", "create_user", "delete_branch", "delete_row",
    "drop_copies", "drop_copy", "fill", "greet", "link_account", "open_row", "restore",
    "set_up_linked", "write_branch", "write_details", "write_position", "write_row",
    "write_status", "write_transfer"}
HiringStages == {"approve", "assign_commission", "backfill", "check_member", "cooldown",
    "create_employee", "drop_postings", "employ", "look_up", "offer", "other_applications",
    "record_attempt", "respond", "set_compensation", "set_pay", "set_up_employee", "show",
    "spend_otp", "submit", "write_applicant_otp", "write_application", "write_draft", "write_pay",
    "write_posting"}
OnboardingStages == {"add_document", "ask_service", "complete_policy", "complete_visit",
    "count_documents", "delete_document", "mark_submitted", "mark_visit", "reset_item", "retire",
    "write_acknowledgment", "write_cancelled_visit", "write_directive", "write_request",
    "write_result", "write_review", "write_submitted"}
VerificationStages == {"ask_for_session", "bring_online", "cancel_lift", "delete_video", "end_lift",
    "enqueue_photo", "index_all", "index_release", "leave_index", "put_on_index", "release", "schedule_lift", "take_off_index",
    "take_suspended_off", "write_approval", "write_availability", "write_kyc", "write_lift",
    "write_location", "write_no_show", "write_offered", "write_on_job", "write_profile",
    "write_reinstatement", "write_rejection", "write_release",
    "write_session", "write_submission", "write_suspension", "write_verdict", "write_video"}
CampaignsStages == {"campaign", "consent", "detect", "finish", "give", "record", "remember",
    "templates", "write_template"}

LEMMA AccountsStagesAre ==
    "drop_profile" \in AccountsStages /\ "forget" \in AccountsStages /\
    "issue" \in AccountsStages /\ "link" \in AccountsStages /\ "mail_code" \in AccountsStages /\
    "refresh" \in AccountsStages /\ "register" \in AccountsStages /\
    "resend" \in AccountsStages /\ "rotate" \in AccountsStages /\
    "signed_in" \in AccountsStages /\ "verified" \in AccountsStages
BY DEF AccountsStages

LEMMA RolesStagesAre ==
    "add_role" \in RolesStages /\ "assign_role" \in RolesStages /\
    "create_admin" \in RolesStages /\ "drop_permissions" \in RolesStages /\
    "drop_then_log" \in RolesStages /\ "judge" \in RolesStages /\
    "load_permissions" \in RolesStages /\ "load_profile" \in RolesStages /\
    "log" \in RolesStages /\ "remove_role" \in RolesStages
BY DEF RolesStages

LEMMA CredentialsStagesAre ==
    "count_failure" \in CredentialsStages /\ "create_address" \in CredentialsStages /\
    "delete_address" \in CredentialsStages /\ "lock" \in CredentialsStages /\
    "lock_in_Redis" \in CredentialsStages /\ "make_default" \in CredentialsStages /\
    "new_password" \in CredentialsStages /\ "phone_verified" \in CredentialsStages /\
    "store_pin" \in CredentialsStages /\ "unlock" \in CredentialsStages /\
    "write_phone" \in CredentialsStages /\ "write_reset" \in CredentialsStages
BY DEF CredentialsStages

LEMMA StaffStagesAre ==
    "claim" \in StaffStages /\ "create_member" \in StaffStages /\
    "create_user" \in StaffStages /\ "delete_branch" \in StaffStages /\
    "delete_row" \in StaffStages /\ "drop_copies" \in StaffStages /\
    "drop_copy" \in StaffStages /\ "fill" \in StaffStages /\ "greet" \in StaffStages /\
    "link_account" \in StaffStages /\ "open_row" \in StaffStages /\ "restore" \in StaffStages /\
    "set_up_linked" \in StaffStages /\ "write_branch" \in StaffStages /\
    "write_details" \in StaffStages /\ "write_position" \in StaffStages /\
    "write_row" \in StaffStages /\ "write_status" \in StaffStages /\
    "write_transfer" \in StaffStages
BY DEF StaffStages

LEMMA HiringStagesAre ==
    "approve" \in HiringStages /\ "assign_commission" \in HiringStages /\
    "backfill" \in HiringStages /\ "check_member" \in HiringStages /\
    "cooldown" \in HiringStages /\ "create_employee" \in HiringStages /\
    "drop_postings" \in HiringStages /\ "employ" \in HiringStages /\
    "look_up" \in HiringStages /\ "offer" \in HiringStages /\
    "other_applications" \in HiringStages /\ "record_attempt" \in HiringStages /\
    "respond" \in HiringStages /\ "set_compensation" \in HiringStages /\
    "set_pay" \in HiringStages /\ "set_up_employee" \in HiringStages /\
    "show" \in HiringStages /\ "spend_otp" \in HiringStages /\ "submit" \in HiringStages /\
    "write_applicant_otp" \in HiringStages /\ "write_application" \in HiringStages /\
    "write_draft" \in HiringStages /\ "write_pay" \in HiringStages /\
    "write_posting" \in HiringStages
BY DEF HiringStages

LEMMA OnboardingStagesAre ==
    "add_document" \in OnboardingStages /\ "ask_service" \in OnboardingStages /\
    "complete_policy" \in OnboardingStages /\ "complete_visit" \in OnboardingStages /\
    "count_documents" \in OnboardingStages /\ "delete_document" \in OnboardingStages /\
    "mark_submitted" \in OnboardingStages /\ "mark_visit" \in OnboardingStages /\
    "reset_item" \in OnboardingStages /\ "retire" \in OnboardingStages /\
    "write_acknowledgment" \in OnboardingStages /\
    "write_cancelled_visit" \in OnboardingStages /\ "write_directive" \in OnboardingStages /\
    "write_request" \in OnboardingStages /\ "write_result" \in OnboardingStages /\
    "write_review" \in OnboardingStages /\ "write_submitted" \in OnboardingStages
BY DEF OnboardingStages

LEMMA VerificationStagesAre ==
    "ask_for_session" \in VerificationStages /\ "cancel_lift" \in VerificationStages /\
    "delete_video" \in VerificationStages /\ "end_lift" \in VerificationStages /\
    "enqueue_photo" \in VerificationStages /\ "index_all" \in VerificationStages /\
    "put_on_index" \in VerificationStages /\ "schedule_lift" \in VerificationStages /\
    "take_off_index" \in VerificationStages /\ "take_suspended_off" \in VerificationStages /\
    "write_approval" \in VerificationStages /\ "write_availability" \in VerificationStages /\
    "write_kyc" \in VerificationStages /\ "write_lift" \in VerificationStages /\
    "write_location" \in VerificationStages /\ "write_no_show" \in VerificationStages /\
    "write_profile" \in VerificationStages /\ "write_reinstatement" \in VerificationStages /\
    "write_rejection" \in VerificationStages /\ "write_session" \in VerificationStages /\
    "write_submission" \in VerificationStages /\ "write_suspension" \in VerificationStages /\
    "write_verdict" \in VerificationStages /\ "write_video" \in VerificationStages /\
    "bring_online" \in VerificationStages /\ "index_release" \in VerificationStages /\
    "leave_index" \in VerificationStages /\ "release" \in VerificationStages /\
    "write_offered" \in VerificationStages /\ "write_on_job" \in VerificationStages /\
    "write_release" \in VerificationStages
BY DEF VerificationStages

LEMMA CampaignsStagesAre ==
    "campaign" \in CampaignsStages /\ "consent" \in CampaignsStages /\
    "detect" \in CampaignsStages /\ "finish" \in CampaignsStages /\ "give" \in CampaignsStages /\
    "record" \in CampaignsStages /\ "remember" \in CampaignsStages /\
    "templates" \in CampaignsStages /\ "write_template" \in CampaignsStages
BY DEF CampaignsStages

(* Where a handler goes on, but for the steps that make or enter an       *)
(* an account.                                                             *)

RolesGoes == (RolesStages \ {"assign_role", "create_admin", "load_profile"}) \cup {"drop_profile"}
CredentialsGoes == (CredentialsStages \ {"store_pin", "unlock"}) \cup {"drop_profile"}
StaffGoes == (StaffStages \ {"create_user"}) \cup {"set_pay"}
HiringGoes == HiringStages \ {"create_employee"}

LEMMA RolesGoesAre ==
    "add_role" \in RolesGoes /\ "drop_permissions" \in RolesGoes /\
    "drop_profile" \in RolesGoes /\ "drop_then_log" \in RolesGoes /\ "judge" \in RolesGoes /\
    "load_permissions" \in RolesGoes /\ "log" \in RolesGoes /\ "remove_role" \in RolesGoes
BY DEF RolesGoes, RolesStages

LEMMA CredentialsGoesAre ==
    "count_failure" \in CredentialsGoes /\ "create_address" \in CredentialsGoes /\
    "delete_address" \in CredentialsGoes /\ "drop_profile" \in CredentialsGoes /\
    "lock" \in CredentialsGoes /\ "lock_in_Redis" \in CredentialsGoes /\
    "make_default" \in CredentialsGoes /\ "new_password" \in CredentialsGoes /\
    "phone_verified" \in CredentialsGoes /\ "write_phone" \in CredentialsGoes /\
    "write_reset" \in CredentialsGoes
BY DEF CredentialsGoes, CredentialsStages

LEMMA StaffGoesAre ==
    "claim" \in StaffGoes /\ "create_member" \in StaffGoes /\ "delete_branch" \in StaffGoes /\
    "delete_row" \in StaffGoes /\ "drop_copies" \in StaffGoes /\ "drop_copy" \in StaffGoes /\
    "fill" \in StaffGoes /\ "greet" \in StaffGoes /\ "link_account" \in StaffGoes /\
    "open_row" \in StaffGoes /\ "restore" \in StaffGoes /\ "set_pay" \in StaffGoes /\
    "set_up_linked" \in StaffGoes /\ "write_branch" \in StaffGoes /\
    "write_details" \in StaffGoes /\ "write_position" \in StaffGoes /\
    "write_row" \in StaffGoes /\ "write_status" \in StaffGoes /\ "write_transfer" \in StaffGoes
BY DEF StaffGoes, StaffStages

LEMMA HiringGoesAre ==
    "approve" \in HiringGoes /\ "assign_commission" \in HiringGoes /\
    "backfill" \in HiringGoes /\ "check_member" \in HiringGoes /\ "cooldown" \in HiringGoes /\
    "drop_postings" \in HiringGoes /\ "employ" \in HiringGoes /\ "look_up" \in HiringGoes /\
    "offer" \in HiringGoes /\ "other_applications" \in HiringGoes /\
    "record_attempt" \in HiringGoes /\ "respond" \in HiringGoes /\
    "set_compensation" \in HiringGoes /\ "set_pay" \in HiringGoes /\
    "set_up_employee" \in HiringGoes /\ "show" \in HiringGoes /\ "spend_otp" \in HiringGoes /\
    "submit" \in HiringGoes /\ "write_applicant_otp" \in HiringGoes /\
    "write_application" \in HiringGoes /\ "write_draft" \in HiringGoes /\
    "write_pay" \in HiringGoes /\ "write_posting" \in HiringGoes
BY DEF HiringGoes, HiringStages

\* A handler of the register knows where it goes on.
Writes == {"write_status", "write_transfer", "write_position"}
Found == {"write_details", "write_status", "restore", "open_row", "write_row", "delete_row"}

RoutedCall(call) ==
    LET saw == call.saw IN
    /\ call.stage = "fill" => saw.then \in Found \cup {"return", "set_pay"}
    /\ call.stage = "fill" /\ saw.then = "open_row" => saw.args.write \in Writes
    /\ call.stage = "open_row" => saw.args.write \in Writes
    /\ call.stage = "drop_copy" => saw.then \in {"done", "return", "set_pay"}
    /\ call.stage = "create_member" => saw.then \in {"return", "set_pay"}

RoutedStages == {"fill", "open_row", "drop_copy", "create_member"}

Routed == \A c \in Callers : RoutedCall(calls[c])

LEMMA AccountsActs ==
    ASSUME Shape, NEW c \in Callers, AccountsNext(c)
    PROVE  Acts(c, AccountsStages)
<1>1. CASE Busy(c) /\ AccountsStep(c)
  <2> USE <1>1, Goes, Returns, AccountsStagesAre
  <2>1. CASE Rotate(c) \/ Forget(c) \/ Issue(c) \/ CreateAccount(c)
    BY <2>1 DEF Rotate, Forget, Issue, CreateAccount
  <2>2. CASE MailCode(c) \/ WriteOtp(c) \/ WriteVerified(c)
    BY <2>2 DEF MailCode, WriteOtp, WriteVerified
  <2>3. CASE LinkGoogle(c) \/ CheckStatus(c)
    BY <2>3 DEF LinkGoogle, CheckStatus
  <2>4. CASE SpendToken(c) \/ DropProfile(c)
    BY <2>4 DEF SpendToken, DropProfile
  <2> QED BY <2>1, <2>2, <2>3, <2>4 DEF AccountsStep
<1>2. CASE Ready(c) /\ AccountsRequest(c)
  BY <1>2, Begins, AccountsStagesAre
     DEF AccountsRequest, SignUpRequest, OtpRequest, SignInRequest, Register, ResendOtp, VerifyOtp, Login,
         GoogleSignIn, RefreshToken, DeleteAdminUser, UpdateUserStatus
<1> QED BY <1>1, <1>2 DEF AccountsNext

RolesAsks == {"assign_role", "create_admin", "judge", "load_profile"}

LEMMA RolesActs ==
    ASSUME Shape, NEW c \in Callers, RolesNext(c)
    PROVE  \/ Acts(c, RolesGoes)
           \/ Acts(c, RolesAsks) /\ (AdminUserRequest(c) \/ \E u \in Users, s \in 0..secrets : Request(c, u, s))
<1> USE RolesGoesAre
<1>1. CASE Busy(c) /\ RolesStep(c)
  <2> USE <1>1, Goes, Returns
  <2>1. CASE DropPermissions(c) \/ DeleteRole(c) \/ InsertAdmin(c) \/ WriteRole(c)
    BY <2>1 DEF DropPermissions, DeleteRole, InsertAdmin, WriteRole
  <2>2. CASE DropThenLog(c) \/ LogAssignment(c) \/ InsertUserRole(c) \/ CacheProfile(c)
    BY <2>2 DEF DropThenLog, LogAssignment, InsertUserRole, CacheProfile
  <2>3. CASE Judge(c) \/ CachePermissions(c)
    <3>1. Return(c) \/ \E saw : Goto(c, "load_permissions", saw)
      BY <2>3, Zenon DEF Judge, CachePermissions, Judged
    <3> QED BY <3>1
  <2> QED BY <2>1, <2>2, <2>3 DEF RolesStep
<1>2. CASE Ready(c) /\ (RoleRequest(c) \/ GrantRequest(c) \/ \E u \in Users : RemoveStaffRole(c, u))
  BY <1>2, Begins, Onces
     DEF RoleRequest, GrantRequest, CreateRole, SetActive, SetPermissions, RemoveRole, RemoveStaffRole, AddUserRole,
         RemoveUserRole
<1>3. CASE Ready(c) /\ AdminUserRequest(c)
  BY <1>3, Begins DEF AdminUserRequest, CreateAdminUser, AssignAdminRole, RolesAsks
<1>4. CASE Ready(c) /\ \E u \in Users, s \in 0..secrets : Request(c, u, s)
  BY <1>4, Begins DEF Request, RolesAsks
<1> QED BY <1>1, <1>2, <1>3, <1>4 DEF RolesNext, RolesRequest

CredentialsPins == {"rotate", "store_pin", "unlock"}

Pins(c) ==
    \/ StorePin(c) \/ ClearPinLock(c)
    \/ \E u \in Users : SetPin(c, u) \/ \E then : RightPin(c, u, then)

LEMMA CredentialsActs ==
    ASSUME Shape, NEW c \in Callers, CredentialsNext(c)
    PROVE  Acts(c, CredentialsGoes) \/ (Acts(c, CredentialsPins) /\ Pins(c))
<1> USE CredentialsGoesAre
<1>1. CASE Busy(c) /\ CredentialsStep(c)
  <2> USE <1>1, Goes, Returns
  <2>1. CASE WriteReset(c) \/ WritePassword(c)
    BY <2>1 DEF WriteReset, WritePassword
  <2>2. CASE CountFailure(c) \/ LockPin(c) \/ LockInRedis(c)
    BY <2>2 DEF CountFailure, CountFailureUpTo, LockPin, LockInRedis
  <2>3. CASE WritePhone(c) \/ WritePhoneProof(c) \/ WriteDefault(c)
    BY <2>3 DEF WritePhone, WritePhoneProof, WriteDefault
  <2>4. CASE \E a \in Addresses : InsertAddress(c, a) \/ WriteDeletion(c, a)
    BY <2>4 DEF InsertAddress, WriteDeletion
  <2>5. CASE StorePin(c) \/ ClearPinLock(c)
    BY <2>5 DEF StorePin, ClearPinLock, Pins, CredentialsPins
  <2> QED BY <2>1, <2>2, <2>3, <2>4, <2>5 DEF CredentialsStep
<1>2. CASE Ready(c) /\ CredentialsRequest(c)
  <2> USE <1>2, Begins, Onces
  <2>1. CASE PasswordRequest(c) \/ PhoneRequest(c) \/ \E u \in Users : SetPassword(c, u)
    BY <2>1 DEF PasswordRequest, PhoneRequest, ForgotPassword, ResetPassword, SetPassword, RequestPhone, VerifyPhone
  <2>2. CASE AddressRequest(c)
    BY <2>2 DEF AddressRequest, CreateAddress, MakeDefault, UpdateAddress, DeleteAddress
  <2>3. CASE PinRequest(c)
    BY <2>3 DEF PinRequest, SetPin, RightPin, WrongPin, Pins, CredentialsPins
  <2> QED BY <2>1, <2>2, <2>3 DEF CredentialsRequest
<1> QED BY <1>1, <1>2 DEF CredentialsNext

LinkGoes == {"create_user", "link_account"}

LEMMA WroteActs ==
    ASSUME Shape, NEW c \in Callers, Busy(c), NEW s, NEW then, NEW args, Wrote(c, s, then, args)
    PROVE  Acts(c, StaffGoes)
BY Continues, StaffGoesAre DEF Wrote

LEMMA StaffActs ==
    ASSUME Shape, Routed, NEW c \in Callers, StaffNext(c)
    PROVE  Acts(c, StaffGoes) \/ (Acts(c, LinkGoes) /\ LinkRequest(c))
<1> USE StaffGoesAre
<1>0. Found \cup Writes \cup {"set_pay"} \subseteq StaffGoes
  BY DEF Found, Writes
<1>1. CASE Busy(c) /\ StaffStep(c)
  <2> USE <1>1, Goes, Returns, WroteActs
  <2>1. CASE Fill(c)
    <3>1. calls[c].saw.then \in Found \cup {"return", "set_pay"}
      BY <2>1 DEF Fill, Routed, RoutedCall, At
    <3>2. Return(c) \/ (calls[c].saw.then # "return" /\ \E w : Goto(c, calls[c].saw.then, w))
      BY <2>1, Zenon DEF Fill
    <3> QED BY <3>1, <3>2, <1>0
  <2>2. CASE DropCopy(c)
    <3>1. Return(c) \/ \E w : Goto(c, "fill", w)
      BY <2>2, Zenon DEF DropCopy
    <3> QED BY <3>1
  <2>3. CASE ReadOpen(c)
    <3>1. calls[c].saw.args.write \in Writes
      BY <2>3 DEF ReadOpen, Routed, RoutedCall, At
    <3>2. \E w : Goto(c, calls[c].saw.args.write, w)
      BY <2>3, Zenon DEF ReadOpen
    <3> QED BY <3>1, <3>2, <1>0
  <2>4. CASE WriteDetails(c) \/ WriteStatus(c) \/ WriteRestored(c) \/ WriteTransfer(c)
    <3>1. Return(c) \/ \E s, then, args : Wrote(c, s, then, args)
      BY <2>4, Zenon DEF WriteDetails, WriteStatus, WriteRestored, WriteTransfer
    <3> QED BY <3>1
  <2>5. CASE WritePosition(c) \/ WriteRow(c) \/ DeleteRow(c)
    <3>1. Return(c) \/ \E s, then, args : Wrote(c, s, then, args)
      BY <2>5, Zenon DEF WritePosition, WriteRow, DeleteRow
    <3> QED BY <3>1
  <2>6. CASE WriteBranch(c) \/ DropCopies(c) \/ RemoveBranch(c)
    BY <2>6 DEF WriteBranch, DropCopies, RemoveBranch
  <2>7. CASE CreateLinkedUser(c) \/ WriteLink(c) \/ SetUpLinked(c)
    <3>1. \/ Return(c) \/ \E s, then, args : Wrote(c, s, then, args)
          \/ \E w : Goto(c, "link_account", w) \/ Goto(c, "set_up_linked", w)
      BY <2>7, Zenon DEF CreateLinkedUser, CreateUser, WriteLink, SetUpLinked
    <3> QED BY <3>1
  <2>8. CASE \E s \in Members : Claim(c, s) \/ \E day \in Days : InsertMember(c, s, day)
    <3>1. \/ Return(c) \/ \E s, then, args : Wrote(c, s, then, args)
          \/ \E w : Goto(c, "greet", w) \/ Goto(c, "claim", w)
      BY <2>8, Zenon DEF Claim, InsertMember
    <3> QED BY <3>1
  <2>9. CASE \E queued \in BOOLEAN : Greet(c, queued)
    <3>1. Return(c) \/ \E w : Goto(c, "claim", w)
      BY <2>9, Zenon DEF Greet
    <3> QED BY <3>1
  <2> QED BY <2>1, <2>2, <2>3, <2>4, <2>5, <2>6, <2>7, <2>8, <2>9 DEF StaffStep
<1>2. CASE Ready(c) /\ StaffRequest(c)
  <2> USE <1>2, <1>0, Begins, Onces
  <2>1. ASSUME NEW op, NEW s, NEW next, next \in Found \cup {"return"}, NEW args, Look(c, op, s, next, args),
               next # "return" \/ copy[s] = NoMember
        PROVE  Acts(c, StaffGoes)
    <3>1. \/ copy[s] # NoMember /\ \E w : Begin(c, op, next, s, w)
          \/ \E w : Begin(c, op, "fill", s, w)
      BY <2>1, Zenon DEF Look
    <3> QED BY <2>1, <3>1
  <2>2. CASE SendBirthdayEmails(c) \/ CreationRequest(c) \/ BranchRequest(c)
    BY <2>2 DEF SendBirthdayEmails, CreationRequest, BranchRequest, CreateMember, CreateBranch, DeleteBranch, UpdateBranch
  <2>3. CASE LinkRequest(c)
    BY <2>3 DEF LinkRequest, LinkUserAccount, LinkGoes
  <2>4. CASE EmployeeRequest(c) \/ ArchiveRequest(c)
    <3>0. /\ "return" \in Found \cup {"return"} /\ "write_details" \in Found \cup {"return"} /\ "write_details" # "return"
          /\ "open_row" \in Found \cup {"return"} /\ "open_row" # "return" /\ "restore" \in Found \cup {"return"}
          /\ "write_status" \in Found \cup {"return"} /\ "write_status" # "return" /\ "restore" # "return"
      BY DEF Found
    <3>1. ASSUME NEW s \in Members, NEW status, NEW day, UpdateMemberStatus(c, s, status, day)
          PROVE  \E next \in Found \cup {"return"} : next # "return" /\ \E op, args : Look(c, op, s, next, args)
      <4> DEFINE next == IF status \in Left THEN "open_row" ELSE "write_status"
      <4>1. next \in Found \cup {"return"} /\ next # "return"
        BY <3>0
      <4>2. \E op, args : Look(c, op, s, next, args)
        BY <3>1, Zenon DEF UpdateMemberStatus
      <4> HIDE DEF next
      <4> QED BY <4>1, <4>2
    <3>2. ASSUME NEW s \in Members, FindOne(c, s)
          PROVE  copy[s] = NoMember /\ \E op, args : Look(c, op, s, "return", args)
      BY <3>2, Zenon DEF FindOne
    <3>3. ASSUME NEW s \in Members, NEW b, NEW day, TransferBranch(c, s, b, day)
          PROVE  \E op, args : Look(c, op, s, "open_row", args)
      BY <3>3, Zenon DEF TransferBranch
    <3>4. ASSUME NEW s \in Members, NEW b, NEW status, NEW e, UpdateMember(c, s, b, status, e)
          PROVE  \E op, args : Look(c, op, s, "write_details", args)
      BY <3>4, Zenon DEF UpdateMember
    <3>5. ASSUME NEW s \in Members, Restore(c, s)
          PROVE  \E op, args : Look(c, op, s, "restore", args)
      BY <3>5, Zenon DEF Restore
    <3>6. PICK s \in Members :
             \/ FindOne(c, s) \/ Restore(c, s)
             \/ \E status, day : UpdateMemberStatus(c, s, status, day)
             \/ \E b, day : TransferBranch(c, s, b, day)
             \/ \E b, status, e : UpdateMember(c, s, b, status, e)
      BY <2>4, Zenon DEF EmployeeRequest, ArchiveRequest
    <3>7. CASE FindOne(c, s)
      BY <2>1, <3>0, <3>2, <3>7
    <3>8. CASE Restore(c, s)
      BY <2>1, <3>0, <3>5, <3>8
    <3>9. CASE \E status, day : UpdateMemberStatus(c, s, status, day)
      BY <2>1, <3>1, <3>9
    <3>10. CASE \E b, day : TransferBranch(c, s, b, day)
      BY <2>1, <3>0, <3>3, <3>10
    <3>11. CASE \E b, status, e : UpdateMember(c, s, b, status, e)
      BY <2>1, <3>0, <3>4, <3>11
    <3> QED BY <3>6, <3>7, <3>8, <3>9, <3>10, <3>11, Zenon
  <2>5. CASE HistoryRequest(c)
    <3>0. "open_row" \in Found /\ "write_row" \in Found /\ "delete_row" \in Found
      BY DEF Found
    <3>1. PICK s \in Members : (\E b, day, end : AddHistory(c, s, b, day, end))
                               \/ (\E row : RemoveHistory(c, s, row)) \/ \E row, new : UpdateHistory(c, s, row, new)
      BY <2>5, Zenon DEF HistoryRequest
    <3>2. CASE \E b, day, end : AddHistory(c, s, b, day, end)
      <4>1. \E op, args : Look(c, op, s, "open_row", args)
        BY <3>2, Zenon DEF AddHistory
      <4> QED BY <2>1, <3>0, <4>1 DEF Found
    <3>3. CASE \E row : RemoveHistory(c, s, row)
      <4>1. \E op, args : Look(c, op, s, "delete_row", args)
        BY <3>3, Zenon DEF RemoveHistory
      <4> QED BY <2>1, <3>0, <4>1 DEF Found
    <3>4. CASE \E row, new : UpdateHistory(c, s, row, new)
      <4>1. \E op, args : Look(c, op, s, "write_row", args)
        BY <3>4, Zenon DEF UpdateHistory
      <4> QED BY <2>1, <3>0, <4>1 DEF Found
    <3> QED BY <3>1, <3>2, <3>3, <3>4
  <2> QED BY <2>2, <2>3, <2>4, <2>5 DEF StaffRequest
<1> QED BY <1>1, <1>2 DEF StaffNext

FindGoes == {"check_member", "create_employee"}
RegisterGoes == {"create_member", "drop_copy"}

LEMMA HiringActs ==
    ASSUME Shape, NEW c \in Callers, HiringNext(c)
    PROVE  Acts(c, HiringGoes) \/ (Acts(c, FindGoes) /\ FindAccount(c))
           \/ (Acts(c, RegisterGoes) /\ (CheckMember(c) \/ WriteCompensation(c)))
<1> USE HiringGoesAre
<1>1. CASE Busy(c) /\ HiringStep(c)
  <2> USE <1>1, Goes, Returns, Continues
  <2>1. CASE CheckCooldown(c) \/ RecordAttempt(c) \/ \E confirmed \in BOOLEAN : LookUp(c, confirmed)
    BY <2>1 DEF CheckCooldown, RecordAttempt, LookUp
  <2>2. CASE \E a \in Applications : WriteDraft(c, a) \/ WriteSubmission(c, a)
    BY <2>2, Zenon DEF WriteDraft, WriteSubmission
  <2>3. CASE WriteApplicantOtp(c) \/ SpendOtp(c) \/ WriteApplication(c) \/ WriteApproval(c) \/ WriteOffer(c) \/ WriteResponse(c)
    BY <2>3, Zenon DEF WriteApplicantOtp, SpendOtp, WriteApplication, WriteApproval, WriteOffer, WriteResponse
  <2>4. CASE \E s \in Members : JudgeOther(c, s) \/ LookAgain(c, s)
    <3>1. Return(c) \/ \E w : \E stage \in {"other_applications", "backfill", "write_pay"} : Goto(c, stage, w)
      BY <2>4, Zenon DEF JudgeOther, LookAgain, BackfillDone
    <3> QED BY <3>1
  <2>5. CASE FindAccount(c)
    <3>1. Return(c) \/ \E w : \E stage \in FindGoes : Goto(c, stage, w)
      BY <2>5, Zenon DEF FindAccount, FindGoes
    <3> QED BY <2>5, <3>1
  <2>9. CASE CreateEmployee(c)
    <3>1. Return(c) \/ \E w : Goto(c, "check_member", w)
      BY <2>9, Zenon DEF CreateEmployee, CreateUser
    <3> QED BY <3>1
  <2>6. CASE SetPay(c) \/ Employ(c) \/ SetUpEmployee(c)
    <3>1. \/ Return(c) \/ \E w : \E stage \in {"employ", "set_up_employee"} : Goto(c, stage, w)
      BY <2>6, Zenon DEF SetPay, Employ, SetUpEmployee
    <3> QED BY <3>1
  <2>7. CASE WriteCommission(c) \/ WriteBackfill(c)
    <3>1. Return(c) \/ \E w : Goto(c, "backfill", w)
      BY <2>7, Zenon DEF WriteCommission, WriteBackfill, BackfillDone
    <3> QED BY <3>1
  <2>10. CASE CheckMember(c) \/ WriteCompensation(c)
    <3>1. \/ Return(c)
          \/ \E on, w : \E stage \in RegisterGoes : Continue(c, [stage |-> stage, on |-> on, saw |-> w])
      BY <2>10, Zenon DEF CheckMember, WriteCompensation, Wrote, RegisterGoes
    <3> QED BY <2>10, <3>1
  <2>8. CASE WritePosting(c) \/ DropPostings(c) \/ Show(c)
    BY <2>8 DEF WritePosting, DropPostings, Show
  <2> QED BY <2>1, <2>2, <2>3, <2>4, <2>5, <2>6, <2>7, <2>8, <2>9, <2>10 DEF HiringStep
<1>2. CASE Ready(c) /\ HiringRequest(c)
  <2> USE <1>2, Begins
  <2>1. CASE ApplicantRequest(c)
    BY <2>1 DEF ApplicantRequest, VerifyNin, Submit, RequestApplicantOtp, VerifyApplicantOtp, RespondToOffer
  <2>2. CASE SelectionRequest(c) \/ OfferRequest(c)
    <3>1. \E op, on, saw : \E stage \in HiringGoes : Begin(c, op, stage, on, saw)
      BY <2>2 DEF SelectionRequest, ScheduleInterview, RecordEmploymentApproval, UpdateStatus, RecordInterviewOutcome,
                  OfferRequest, GenerateOfferLetter, ConvertToStaff, RunCompensationBackfill
    <3> QED BY <3>1
  <2>3. CASE PostingRequest(c)
    BY <2>3 DEF PostingRequest, CreatePosting, UpdatePosting, ClosePosting, TogglePosting, RemovePosting, FindOnePublic, Mutate
  <2>4. CASE \E s \in Members : SetCompensation(c, s) \/ AssignCompensation(c, s)
    BY <2>4 DEF SetCompensation, AssignCompensation
  <2> QED BY <2>1, <2>2, <2>3, <2>4 DEF HiringRequest
<1> QED BY <1>1, <1>2 DEF HiringNext

LEMMA OnboardingActs ==
    ASSUME Shape, NEW c \in Callers, OnboardingNext(c)
    PROVE  Acts(c, OnboardingStages)
<1> USE OnboardingStagesAre
<1>1. CASE Busy(c) /\ OnboardingStep(c)
  <2> USE <1>1, Goes, Returns
  <2>1. CASE MarkOnboardingSubmitted(c) \/ WriteReview(c) \/ WriteRequest(c) \/ ResetItem(c)
    BY <2>1, Zenon DEF MarkOnboardingSubmitted, WriteReview, WriteRequest, ResetItem
  <2>2. CASE AskService(c) \/ WriteVisitAsked(c) \/ MarkVisit(c) \/ WriteCancellation(c)
    <3>1. Return(c) \/ \E w : \E stage \in {"write_submitted", "mark_visit", "reset_item"} : Goto(c, stage, w)
      BY <2>2, Zenon DEF AskService, WriteVisitAsked, MarkVisit, WriteCancellation
    <3> QED BY <3>1
  <2>3. CASE WriteResult(c) \/ CompleteVisit(c) \/ Retire(c) \/ AddDocument(c)
    <3>1. Return(c) \/ \E w : \E stage \in {"complete_visit", "add_document"} : Goto(c, stage, w)
      BY <2>3, Zenon DEF WriteResult, CompleteVisit, Retire, AddDocument
    <3> QED BY <3>1
  <2>4. CASE DeleteDocument(c) \/ WriteAcknowledgment(c) \/ CountDocuments(c) \/ CompletePolicy(c) \/ WriteDirective(c)
    <3>1. Return(c) \/ \E w : \E stage \in {"count_documents", "complete_policy"} : Goto(c, stage, w)
      BY <2>4, Zenon DEF DeleteDocument, WriteAcknowledgment, CountDocuments, CompletePolicy, WriteDirective
    <3> QED BY <3>1
  <2> QED BY <2>1, <2>2, <2>3, <2>4 DEF OnboardingStep
<1>2. CASE Ready(c) /\ OnboardingRequest(c)
  <2> USE <1>2, Begins, Onces
  <2>1. CASE MemberRequest(c)
    BY <2>1 DEF MemberRequest, FormRequest, SubmitVisit, SubmitItem, AcknowledgeDocument, UpdateDirectiveStatus
  <2>2. CASE OnboardingAdminRequest(c)
    BY <2>2 DEF OnboardingAdminRequest, ReviewRequest, AddressVisitRequest, DirectiveRequest, UpdateOnboardingItem,
                RequestVerification, CancelVerification, DeleteDirective, CreateDirective, CreateDocument, SetTypeActive,
                RemoveDocument
  <2>3. CASE \E i \in Checks, result \in {"SUBMITTED", "VERIFIED", "REJECTED"} : HandleWebhook(c, i, result)
    BY <2>3 DEF HandleWebhook
  <2> QED BY <2>1, <2>2, <2>3 DEF OnboardingRequest
<1> QED BY <1>1, <1>2 DEF OnboardingNext

LEMMA VerificationActs ==
    ASSUME Shape, NEW c \in Callers, VerificationNext(c)
    PROVE  Acts(c, VerificationStages)
<1> USE VerificationStagesAre
<1>1. CASE Busy(c) /\ VerificationStep(c)
  <2> USE <1>1, Goes, Returns
  <2>1. CASE AskForSession(c) \/ WriteSession(c) \/ WriteKyc(c) \/ EnqueueProfilePhoto(c) \/ WriteVerdict(c)
    BY <2>1 DEF AskForSession, WriteSession, WriteKyc, EnqueueProfilePhoto, WriteVerdict
  <2>2. CASE WriteProfile(c) \/ WriteProfileSubmission(c) \/ WriteVideo(c) \/ WriteProfileApproval(c)
    BY <2>2 DEF WriteProfile, WriteProfileSubmission, WriteVideo, WriteProfileApproval
  <2>3. CASE WriteProfileRejection(c) \/ DeleteVideo(c) \/ TakeOffIndex(c) \/ WriteAvailability(c)
    BY <2>3 DEF WriteProfileRejection, DeleteVideo, TakeOffIndex, WriteAvailability
  <2>4. CASE PutOnIndex(c) \/ WriteLocation(c) \/ IndexAll(c) \/ WriteNoShow(c) \/ WriteSuspension(c)
    BY <2>4 DEF PutOnIndex, WriteLocation, IndexAll, WriteNoShow, WriteSuspension
  <2>5. CASE TakeSuspendedOff(c) \/ ScheduleProbationLift(c) \/ WriteReinstatement(c)
    BY <2>5 DEF TakeSuspendedOff, ScheduleProbationLift, WriteReinstatement, CancelsOffers
  <2>6. CASE CancelProbationJob(c) \/ WriteLift(c) \/ EndLift(c)
    BY <2>6 DEF CancelProbationJob, WriteLift, EndLift
  <2>7. CASE ReadOffered(c) \/ WriteRelease(c) \/ IndexRelease(c)
    <3>1. Return(c) \/ \E w : \E stage \in {"write_release", "index_release", "write_on_job", "take_off_index", "schedule_lift"} :
                                Goto(c, stage, w)
      BY <2>7, Zenon DEF ReadOffered, WriteRelease, IndexRelease, GoOn
    <3> QED BY <3>1
  <2>8. CASE WriteOffered(c) \/ BringOnline(c) \/ WriteOnJob(c) \/ LeaveIndex(c)
    BY <2>8 DEF WriteOffered, BringOnline, WriteOnJob, LeaveIndex
  <2> QED BY <2>1, <2>2, <2>3, <2>4, <2>5, <2>6, <2>7, <2>8 DEF VerificationStep
<1>2. CASE Ready(c) /\ VerificationRequest(c)
  <2> USE <1>2, Begins, Onces
  <2>1. CASE BeauticianRequest(c) \/ KycRequest(c)
    BY <2>1 DEF BeauticianRequest, KycRequest, UpdateProfile, SubmitForReview, UpdateAvailability, UpdateLocation,
                InitiateSession, RequestUpload, ConfirmUpload
  <2>2. CASE BeauticianAdminRequest(c)
    BY <2>2 DEF BeauticianAdminRequest, JudgmentRequest, JudgeKyc, ApproveProfile, RejectProfile, UpdateAvailability,
                UpdateDispatchSuspension, ReinstateDispatch, UpdateBeautician, UpdateSettings
  <2>3. CASE \E i \in Sessions, result \in KycStatuses \ {"PENDING"} : ApplyWebhookUpdate(c, i, result)
    BY <2>3 DEF ApplyWebhookUpdate
  <2>4. CASE \/ \E w \in Beauticians : RecordNoShow(c, w) \/ LiftDispatchSuspensionFromJob(c, w) \/ LiftTooEarly(c, w)
             \/ ReconcileFromPostgres(c)
    BY <2>4 DEF RecordNoShow, LiftDispatchSuspensionFromJob, LiftTooEarly, ReconcileFromPostgres
  <2>5. CASE JobRequest(c)
    <3> PICK w \in Beauticians : \/ OfferJob(c, w) \/ ReleaseBeautician(c, w) \/ AcceptJob(c, w) \/ ForceAssign(c, w)
                                \/ ReleaseBeauticianIfIdle(c, w)
      BY <2>5 DEF JobRequest
    <3>1. Once(c, "job") \/ \E saw : \E stage \in {"release", "write_offered", "write_on_job", "bring_online"} :
                               Begin(c, "job", stage, w, saw)
      BY Zenon DEF OfferJob, ReleaseBeautician, AcceptJob, ForceAssign, ReleaseBeauticianIfIdle
    <3> QED BY <3>1
  <2> QED BY <2>1, <2>2, <2>3, <2>4, <2>5 DEF VerificationRequest
<1> QED BY <1>1, <1>2 DEF VerificationNext

LEMMA CampaignsActs ==
    ASSUME Shape, NEW c \in Callers, CampaignsNext(c)
    PROVE  Acts(c, CampaignsStages)
<1> USE CampaignsStagesAre
<1>1. CASE Busy(c) /\ CampaignsStep(c)
  <2> USE <1>1, Goes, Returns
  <2>1. CASE NoteTransition(c) \/ RememberLifecycle(c) \/ NextBatch(c) \/ EndRun(c)
    <3>1. \/ Return(c) \/ \E w : \E stage \in {"remember", "detect"} : Goto(c, stage, w)
          \/ \E on, w : Continue(c, [stage |-> "detect", on |-> on, saw |-> w])
      BY <2>1, Zenon DEF NoteTransition, RememberLifecycle, NextBatch, EndRun
    <3> QED BY <3>1, Continues
  <2>2. CASE HandleTransition(c) \/ ConsiderTemplate(c) \/ handleSequence(c) \/ canSend(c)
    <3>1. \E w : \E stage \in {"templates", "consent", "record", "finish", "give"} : Goto(c, stage, w)
      BY <2>2, Zenon DEF HandleTransition, ConsiderTemplate, handleSequence, canSend, Settle
    <3> QED BY <3>1
  <2>3. CASE Give(c) \/ RecordTemplate(c) \/ RecordStep(c) \/ FinishTransition(c) \/ WriteTemplate(c)
    <3>1. Return(c) \/ \E w : \E stage \in {"templates", "record", "finish", "campaign"} : Goto(c, stage, w)
      BY <2>3, Zenon DEF Give, RecordTemplate, RecordStep, Stop, FinishTransition, WriteTemplate
    <3> QED BY <3>1
  <2> QED BY <2>1, <2>2, <2>3 DEF CampaignsStep
<1>2. CASE Ready(c) /\ CampaignsRequest(c)
  <2>1. (\E op : Once(c, op)) \/ \E op, on, saw : \E stage \in {"detect", "campaign", "write_template"} : Begin(c, op, stage, on, saw)
    BY <1>2, Zenon
       DEF CampaignsRequest, detectLifecycleTransitions, processPendingTransitions, unsubscribe, Come, createTemplate,
           updateTemplate, removeTemplate, createSequence, updateSteps, updateSequence, removeSequence
  <2> QED BY <2>1, Begins, Onces
<1> QED BY <1>1, <1>2 DEF CampaignsNext

-----------------------------------------------------------------------------
(* The handlers of the register know where they go on.                     *)

LEMMA RoutedApart ==
    ASSUME Routed, NEW c \in Callers, NEW S, S \cap RoutedStages = {}, Acts(c, S)
    PROVE  RoutedCall(calls'[c])
<1>1. calls'[c].stage \notin RoutedStages
  BY DEF Acts, RoutedStages
<1> QED BY <1>1 DEF RoutedCall, RoutedStages

LEMMA Unrouted ==
    ASSUME NEW call, call.stage \notin RoutedStages
    PROVE  RoutedCall(call)
BY DEF RoutedCall, RoutedStages

LEMMA WroteRouted ==
    ASSUME Shape, NEW c \in Callers, NEW s, NEW then \in {"done", "return", "set_pay"}, NEW args, Wrote(c, s, then, args)
    PROVE  RoutedCall(calls'[c])
<1>1. calls'[c].stage = "drop_copy" /\ calls'[c].saw = [then |-> then, args |-> args]
  BY Continued DEF Wrote
<1> QED BY <1>1 DEF RoutedCall

LEMMA LookRouted ==
    ASSUME Shape, NEW c \in Callers, NEW op, NEW s, NEW next, NEW args, Look(c, op, s, next, args),
           next \in Found \/ (next = "return" /\ copy[s] = NoMember), next = "open_row" => args.write \in Writes
    PROVE  RoutedCall(calls'[c])
<1>1. CASE copy[s] # NoMember /\ Begin(c, op, next, s, [row |-> copy[s], args |-> args])
  <2>1. calls'[c].stage = next /\ calls'[c].saw = [row |-> copy[s], args |-> args]
    BY <1>1, Starts
  <2>2. next \in Found
    BY <1>1
  <2> QED BY <2>1, <2>2 DEF RoutedCall, Found
<1>2. CASE Begin(c, op, "fill", s, [row |-> staff[s], then |-> next, args |-> args])
  <2>1. calls'[c].stage = "fill" /\ calls'[c].saw = [row |-> staff[s], then |-> next, args |-> args]
    BY <1>2, Starts
  <2> QED BY <2>1 DEF RoutedCall
<1> QED BY <1>1, <1>2, Zenon DEF Look

LEMMA StaffStepRoutes ==
    ASSUME Shape, Routed, NEW c \in Callers, StaffStep(c)
    PROVE  RoutedCall(calls'[c])
<1>0. RoutedCall(calls[c]) /\ \A s : Return(c) => RoutedCall(calls'[c])
  BY Returned, Unrouted DEF Routed, RoutedStages
<1>1. CASE Fill(c)
  <2> DEFINE then == calls[c].saw.then  args == calls[c].saw.args
  <2>1. then \in Found \cup {"return", "set_pay"} /\ (then = "open_row" => args.write \in Writes)
    BY <1>0, <1>1 DEF Fill, RoutedCall, At
  <2>2. Return(c) \/ (then # "return" /\ Goto(c, then, [row |-> calls[c].saw.row, args |-> args]))
    BY <1>1, Zenon DEF Fill
  <2> HIDE DEF then, args
  <2>3. ASSUME then # "return", Goto(c, then, [row |-> calls[c].saw.row, args |-> args])
        PROVE  RoutedCall(calls'[c])
    <3>1. calls'[c].stage = then /\ calls'[c].saw = [row |-> calls[c].saw.row, args |-> args]
      BY <2>3, Gone
    <3> QED BY <2>1, <2>3, <3>1 DEF RoutedCall, Found
  <2> QED BY <1>0, <2>2, <2>3
<1>2. CASE DropCopy(c)
  <2> DEFINE s == calls[c].on  then == calls[c].saw.then  args == calls[c].saw.args
  <2>1. then \in {"done", "return", "set_pay"}
    BY <1>0, <1>2 DEF DropCopy, RoutedCall, At
  <2>2. Return(c) \/ (then # "done" /\ Goto(c, "fill", [row |-> staff[s], then |-> then, args |-> args]))
    BY <1>2, Zenon DEF DropCopy
  <2> HIDE DEF then, args, s
  <2>3. ASSUME then # "done", Goto(c, "fill", [row |-> staff[s], then |-> then, args |-> args])
        PROVE  RoutedCall(calls'[c])
    <3>1. calls'[c].stage = "fill" /\ calls'[c].saw = [row |-> staff[s], then |-> then, args |-> args]
      BY <2>3, Gone
    <3> QED BY <2>1, <2>3, <3>1 DEF RoutedCall
  <2> QED BY <1>0, <2>2, <2>3
<1>3. CASE ReadOpen(c)
  <2>1. calls[c].saw.args.write \in Writes
    BY <1>0, <1>3 DEF ReadOpen, RoutedCall, At
  <2>2. \E w : Goto(c, calls[c].saw.args.write, w)
    BY <1>3, Zenon DEF ReadOpen
  <2> QED BY <2>1, <2>2, Gone, Unrouted DEF Writes, RoutedStages
<1>4. CASE WriteDetails(c) \/ WriteStatus(c) \/ WriteRestored(c) \/ WriteTransfer(c)
  <2>1. Return(c) \/ \E s, args : Wrote(c, s, "return", args)
    BY <1>4, Zenon DEF WriteDetails, WriteStatus, WriteRestored, WriteTransfer
  <2> QED BY <1>0, <2>1, WroteRouted
<1>5. CASE WritePosition(c) \/ WriteRow(c) \/ DeleteRow(c) \/ SetUpLinked(c)
  <2>1. Return(c) \/ \E s, args : Wrote(c, s, "done", args)
    BY <1>5, Zenon DEF WritePosition, WriteRow, DeleteRow, SetUpLinked
  <2> QED BY <1>0, <2>1, WroteRouted
<1>6. CASE \E s \in Members : Claim(c, s) \/ \E day \in Days : InsertMember(c, s, day)
  <2>1. \/ Return(c) \/ \E w : Goto(c, "greet", w) \/ Goto(c, "claim", w)
        \/ At(c, "create_member") /\ \E s, args : Wrote(c, s, calls[c].saw.then, args)
    BY <1>6, Zenon DEF Claim, InsertMember
  <2>2. ASSUME At(c, "create_member"), NEW s, NEW args, Wrote(c, s, calls[c].saw.then, args)
        PROVE  RoutedCall(calls'[c])
    <3>1. calls[c].saw.then \in {"return", "set_pay"}
      BY <1>0, <2>2 DEF RoutedCall, At
    <3> QED BY <2>2, <3>1, WroteRouted
  <2> QED BY <1>0, <2>1, <2>2, Gone, Unrouted DEF RoutedStages
<1>7. CASE CreateLinkedUser(c) \/ WriteLink(c) \/ \E queued \in BOOLEAN : Greet(c, queued)
  <2>1. \/ Return(c) \/ \E w : Goto(c, "link_account", w) \/ Goto(c, "set_up_linked", w) \/ Goto(c, "claim", w)
    BY <1>7, Zenon DEF CreateLinkedUser, CreateUser, WriteLink, Greet
  <2> QED BY <1>0, <2>1, Gone, Unrouted DEF RoutedStages
<1>8. CASE WriteBranch(c) \/ DropCopies(c) \/ RemoveBranch(c)
  <2>1. Return(c) \/ \E w : Goto(c, "drop_copies", w)
    BY <1>8, Zenon DEF WriteBranch, DropCopies, RemoveBranch
  <2> QED BY <1>0, <2>1, Gone, Unrouted DEF RoutedStages
<1> QED BY <1>1, <1>2, <1>3, <1>4, <1>5, <1>6, <1>7, <1>8 DEF StaffStep

LEMMA StaffRequestRoutes ==
    ASSUME Shape, Routed, NEW c \in Callers, StaffRequest(c)
    PROVE  RoutedCall(calls'[c])
<1>0. "return" \notin Found /\ "open_row" \in Found /\ "write_status" \in Found /\ "write_details" \in Found
      /\ "restore" \in Found /\ "write_row" \in Found /\ "delete_row" \in Found
  BY DEF Found
<1>1. ASSUME NEW s \in Members, NEW status, NEW day, UpdateMemberStatus(c, s, status, day)
      PROVE  RoutedCall(calls'[c])
  <2> DEFINE next == IF status \in Left THEN "open_row" ELSE "write_status"
             args == [write |-> "write_status", status |-> status, day |-> day]
  <2>1. Look(c, "leave", s, next, args)
    BY <1>1, Zenon DEF UpdateMemberStatus
  <2>2. next \in Found /\ args.write \in Writes
    BY <1>0 DEF Writes
  <2> HIDE DEF next, args
  <2> QED BY <2>1, <2>2, LookRouted
<1>2. ASSUME NEW s \in Members, FindOne(c, s)
      PROVE  RoutedCall(calls'[c])
  BY <1>0, <1>2, LookRouted DEF FindOne
<1>3. ASSUME NEW s \in Members, NEW b, NEW day, TransferBranch(c, s, b, day)
      PROVE  RoutedCall(calls'[c])
  <2> DEFINE args == [write |-> "write_transfer", to |-> b, day |-> day]
  <2>1. Look(c, "transfer", s, "open_row", args)
    BY <1>3, Zenon DEF TransferBranch
  <2>2. args.write \in Writes
    BY DEF Writes
  <2> HIDE DEF args
  <2> QED BY <1>0, <2>1, <2>2, LookRouted
<1>4. ASSUME NEW s \in Members, NEW b, NEW status, NEW e, UpdateMember(c, s, b, status, e)
      PROVE  RoutedCall(calls'[c])
  <2>1. \E args : Look(c, "details", s, "write_details", args)
    BY <1>4, Zenon DEF UpdateMember
  <2> QED BY <1>0, <2>1, LookRouted
<1>5. ASSUME NEW s \in Members, Restore(c, s)
      PROVE  RoutedCall(calls'[c])
  BY <1>0, <1>5, LookRouted DEF Restore
<1>6. ASSUME NEW s \in Members, NEW b, NEW day, NEW end, AddHistory(c, s, b, day, end)
      PROVE  RoutedCall(calls'[c])
  <2> DEFINE args == [write |-> "write_position", to |-> b, day |-> day, end |-> end]
  <2>1. Look(c, "history", s, "open_row", args)
    BY <1>6, Zenon DEF AddHistory
  <2>2. args.write \in Writes
    BY DEF Writes
  <2> HIDE DEF args
  <2> QED BY <1>0, <2>1, <2>2, LookRouted
<1>7. ASSUME NEW s \in Members, NEW row, NEW new, RemoveHistory(c, s, row) \/ UpdateHistory(c, s, row, new)
      PROVE  RoutedCall(calls'[c])
  <2>1. \E args : Look(c, "history", s, "delete_row", args) \/ Look(c, "history", s, "write_row", args)
    BY <1>7, Zenon DEF RemoveHistory, UpdateHistory
  <2> QED BY <1>0, <2>1, LookRouted
<1>8. CASE EmployeeRequest(c) \/ ArchiveRequest(c)
  <2>1. PICK s \in Members :
           \/ FindOne(c, s) \/ Restore(c, s)
           \/ \E status, day : UpdateMemberStatus(c, s, status, day)
           \/ \E b, day : TransferBranch(c, s, b, day)
           \/ \E b, status, e : UpdateMember(c, s, b, status, e)
    BY <1>8, Zenon DEF EmployeeRequest, ArchiveRequest
  <2> QED BY <1>1, <1>2, <1>3, <1>4, <1>5, <2>1, Zenon
<1>9. CASE HistoryRequest(c)
  <2>1. PICK s \in Members : (\E b, day, end : AddHistory(c, s, b, day, end))
                             \/ (\E row : RemoveHistory(c, s, row)) \/ \E row, new : UpdateHistory(c, s, row, new)
    BY <1>9, Zenon DEF HistoryRequest
  <2> QED BY <1>6, <1>7, <2>1, Zenon
<1>10. CASE CreationRequest(c)
  <2>1. PICK b, e : Begin(c, "hire", "create_member", b, [email |-> e, user |-> "none", then |-> "return", args |-> 0])
    BY <1>10, Zenon DEF CreationRequest, CreateMember
  <2>2. calls'[c].stage = "create_member" /\ calls'[c].saw = [email |-> e, user |-> "none", then |-> "return", args |-> 0]
    BY <2>1, Starts
  <2> QED BY <2>2 DEF RoutedCall
<1>11. CASE SendBirthdayEmails(c) \/ BranchRequest(c) \/ LinkRequest(c)
  <2>1. \/ calls' = calls
        \/ \E op, on, w : \E stage \in {"claim", "write_branch", "delete_branch", "link_account", "create_user"} :
              Begin(c, op, stage, on, w)
    BY <1>11 DEF SendBirthdayEmails, BranchRequest, LinkRequest, LinkUserAccount, CreateBranch, UpdateBranch, DeleteBranch, Once
  <2>2. RoutedCall(calls[c])
    BY DEF Routed
  <2> QED BY <2>1, <2>2, Starts, Unrouted DEF RoutedStages
<1> QED BY <1>8, <1>9, <1>10, <1>11 DEF StaffRequest

LEMMA HiringRoutes ==
    ASSUME Shape, Routed, NEW c \in Callers, HiringNext(c)
    PROVE  RoutedCall(calls'[c])
<1>1. CASE CheckMember(c)
  <2>1. Return(c) \/ \E on, e, u, a : Continue(c, [stage |-> "create_member", on |-> on,
                                          saw |-> [email |-> e, user |-> u, then |-> "set_pay", args |-> a]])
    BY <1>1, Zenon DEF CheckMember
  <2>2. ASSUME NEW on, NEW e, NEW u, NEW a,
               Continue(c, [stage |-> "create_member", on |-> on,
                            saw |-> [email |-> e, user |-> u, then |-> "set_pay", args |-> a]])
        PROVE  RoutedCall(calls'[c])
    <3>1. calls'[c].stage = "create_member" /\ calls'[c].saw = [email |-> e, user |-> u, then |-> "set_pay", args |-> a]
      BY <2>2, Continued
    <3> QED BY <3>1 DEF RoutedCall
  <2> QED BY <2>1, <2>2, Returned, Unrouted DEF RoutedStages
<1>2. CASE WriteCompensation(c)
  <2>1. \E s, args : Wrote(c, s, "done", args)
    BY <1>2, Zenon DEF WriteCompensation
  <2> QED BY <2>1, WroteRouted
<1>3. HiringGoes \cap RoutedStages = {} /\ FindGoes \cap RoutedStages = {}
  BY DEF HiringGoes, HiringStages, FindGoes, RoutedStages
<1> QED BY <1>1, <1>2, <1>3, HiringActs, RoutedApart

-----------------------------------------------------------------------------
(* The handlers, as every part leaves them.                                *)

\* One handler at a time, unless two have overlapped.
Lone == overlapped \/ \A c, d \in Callers : Busy(c) /\ Busy(d) => c = d

Handled == Shape /\ Routed /\ Lone

LEMMA LoneStays ==
    ASSUME Lone, NEW c \in Callers, NEW S, Acts(c, S)
    PROVE  Lone'
<1> SUFFICES ASSUME ~ overlapped', NEW d \in Callers, NEW e \in Callers, calls'[d].stage # "idle", calls'[e].stage # "idle"
             PROVE  d = e
  BY DEF Lone, Busy, At
<1>1. CASE overlapped' = (overlapped \/ ~Quiet)
  BY <1>1 DEF Acts, Quiet, At
<1>2. CASE overlapped' = overlapped /\ Busy(c)
  BY <1>2 DEF Acts, Lone, Busy, At
<1> QED BY <1>1, <1>2 DEF Acts

\* Unless two handlers overlap, nobody but c is in the middle of anything.
LEMMA Alone ==
    ASSUME Lone, NEW c \in Callers, NEW S, Acts(c, S), ~ overlapped'
    PROVE  ~ overlapped /\ \A d \in Callers \ {c} : calls[d].stage = "idle" /\ calls'[d].stage = "idle"
<1>1. \A d \in Callers \ {c} : calls'[d] = calls[d]
  BY DEF Acts
<1>2. CASE overlapped' = overlapped /\ Busy(c)
  BY <1>1, <1>2 DEF Lone, Busy, At
<1>3. CASE overlapped' = (overlapped \/ ~Quiet)
  BY <1>1, <1>3 DEF Quiet, At
<1> QED BY <1>2, <1>3 DEF Acts

AllStages ==
    AccountsStages \cup RolesStages \cup CredentialsStages \cup StaffStages \cup HiringStages \cup OnboardingStages
        \cup VerificationStages \cup CampaignsStages

\* Somebody's step, and what time does.
LEMMA SomebodyActs ==
    ASSUME Shape, Routed, NEW c \in Callers,
           AccountsNext(c) \/ RolesNext(c) \/ CredentialsNext(c) \/ StaffNext(c) \/ HiringNext(c) \/ OnboardingNext(c)
           \/ VerificationNext(c) \/ CampaignsNext(c) \/ Dies(c)
    PROVE  \E S : Acts(c, S) /\ RoutedCall(calls'[c])
<1>1. /\ AccountsStages \cap RoutedStages = {} /\ RolesGoes \cap RoutedStages = {} /\ RolesAsks \cap RoutedStages = {}
      /\ CredentialsGoes \cap RoutedStages = {} /\ CredentialsPins \cap RoutedStages = {}
  BY DEF AccountsStages, RolesGoes, RolesStages, RolesAsks, CredentialsGoes, CredentialsStages, CredentialsPins, RoutedStages
<1>2. /\ OnboardingStages \cap RoutedStages = {} /\ VerificationStages \cap RoutedStages = {}
      /\ CampaignsStages \cap RoutedStages = {} /\ {} \cap RoutedStages = {}
  BY DEF OnboardingStages, VerificationStages, CampaignsStages, RoutedStages
<1>3. CASE AccountsNext(c) \/ RolesNext(c) \/ CredentialsNext(c)
  BY <1>1, <1>3, AccountsActs, RolesActs, CredentialsActs, RoutedApart
<1>4. CASE StaffNext(c)
  BY <1>4, StaffActs, StaffStepRoutes, StaffRequestRoutes DEF StaffNext
<1>5. CASE HiringNext(c)
  BY <1>5, HiringActs, HiringRoutes
<1>6. CASE OnboardingNext(c) \/ VerificationNext(c) \/ CampaignsNext(c) \/ Dies(c)
  BY <1>2, <1>6, OnboardingActs, VerificationActs, CampaignsActs, DiesActs, RoutedApart
<1> QED BY <1>3, <1>4, <1>5, <1>6

LEMMA TimeWaits ==
    ASSUME Time
    PROVE  UNCHANGED handlers
BY Zenon DEF Time, ProfileExpires, PermissionsExpire, LockExpires, CopyExpires, VerificationTime, HourPasses,
            ApplyPhoto, UploadVideo, CampaignsTime, CooldownEnds

LEMMA HandledStays ==
    ASSUME Handled, [Next]_vars
    PROVE  Handled'
<1>1. ASSUME NEW c \in Callers, NEW S, Acts(c, S), RoutedCall(calls'[c])
      PROVE  Handled'
  <2>1. Shape' /\ Lone'
    BY <1>1, LoneStays DEF Handled, Acts
  <2>2. \A d \in Callers : RoutedCall(calls'[d])
    BY <1>1 DEF Handled, Routed, Acts
  <2> QED BY <2>1, <2>2 DEF Handled, Routed
<1>2. ASSUME UNCHANGED handlers
      PROVE  Handled'
  BY <1>2 DEF handlers, Handled, Shape, Routed, Lone, Busy, At
<1>3. CASE UNCHANGED vars
  BY <1>2, <1>3 DEF vars
<1>4. CASE Time
  BY <1>2, <1>4, TimeWaits
<1>5. ASSUME NEW c \in Callers,
             AccountsNext(c) \/ RolesNext(c) \/ CredentialsNext(c) \/ StaffNext(c) \/ HiringNext(c) \/ OnboardingNext(c)
             \/ VerificationNext(c) \/ CampaignsNext(c) \/ Dies(c)
      PROVE  Handled'
  BY <1>1, <1>5, SomebodyActs DEF Handled
<1> QED BY <1>3, <1>4, <1>5 DEF Next

LEMMA HandledInit ==
    ASSUME HandlersInit
    PROVE  Handled
BY DEF HandlersInit, Handled, Shape, Routed, RoutedCall, Lone, Busy, At, Idle
-----------------------------------------------------------------------------
(* What handlers carry that make an account or enter one.                  *)

EnteringStages == {"forget", "issue", "link", "mail_code", "refresh", "register", "resend", "rotate", "signed_in",
                   "store_pin", "unlock", "verified"}
MakingStages == {"assign_role", "create_admin", "create_employee", "create_user", "load_profile"}

\* To enter: whose account, and with which secrets.  To make: what the row will say.
EntersCall(call) ==
    LET saw == call.saw IN
    /\ call.stage \in EnteringStages => call.on \in Users
    /\ call.stage \in {"forget", "issue"} => saw.session \in Nat /\ saw.from \in Nat
    /\ call.stage = "mail_code" => saw.code \in Nat
    /\ call.stage = "refresh" => saw \in TokenRows /\ saw.user = call.on
    /\ call.stage = "register" => saw \in {"USER", "BEAUTICIAN"}
MakesCall(call) ==
    LET saw == call.saw IN
    /\ call.stage = "create_admin" => saw \in AdminRoles
    /\ call.stage = "assign_role" => saw.role \in AdminRoles /\ saw.kind \in {"ADMIN", "STAFF", "same"}
    /\ call.stage \in {"create_user", "create_employee"} => saw.verified \in BOOLEAN
    /\ call.stage = "load_profile" => saw.row \in Profiles

SessionCall(call) == EntersCall(call) /\ MakesCall(call)

Tables ==
    /\ AccountsTypeOK
    /\ profile = [u \in Users |-> profile[u]]
    /\ \A u \in Users : account[u].role = "none" => account[u].session = 0

\* The handler is about to issue a token.
Issues(call) == call.stage \in {"forget", "issue"}

\* A line of tokens goes on from one token: nobody who is about to issue one has the same one
\* behind it, and what was spent is gone.
LineInv ==
    /\ tokens \subseteq issued
    /\ \A t \in issued : t.id \in 1..secrets /\ t.from \in 0..secrets
    /\ \A s, t \in issued : s.id = t.id => s = t
    /\ \A s, t \in issued : s.from = t.from /\ s.from # 0 => s = t
    /\ \A s \in issued, t \in tokens : s.from # t.id
    /\ \A c \in Callers : Issues(calls[c]) /\ calls[c].saw.from # 0 =>
          /\ calls[c].saw.from \in 1..secrets
          /\ \A t \in issued : t.from # calls[c].saw.from
          /\ \A t \in tokens : t.id # calls[c].saw.from
          /\ \A d \in Callers \ {c} : Issues(calls[d]) => calls[d].saw.from # calls[c].saw.from

\* Unless two handlers overlapped: tokens are of the session, and so is the one to be issued.
SessionCalm ==
    \/ overlapped
    \/ /\ \A t \in tokens : t.session = account[t.user].session
       /\ \A c \in Callers : Issues(calls[c]) => calls[c].saw.session = account[calls[c].on].session

SessionsInv == Handled /\ Tables /\ (\A c \in Callers : SessionCall(calls[c])) /\ LineInv /\ SessionCalm

\* Rows of an account that stays the account it was, or is new.
SameSession(old, new) == new \in AccountRows /\ new.session = old.session /\ (new.role = "none" => old.role = "none")

\* A step of c that touches accounts, but no session of theirs.
Apart(c) ==
    /\ account' = [u \in Users |-> account'[u]] /\ \A u \in Users : SameSession(account[u], account'[u])
    /\ profile' = [u \in Users |-> profile'[u]] /\ \A u \in Users : profile'[u] \in Profiles \cup {NoProfile}
    /\ UNCHANGED <<tokens, issued>>
    /\ mailed' \subseteq Nat \X Users
    /\ secrets' \in {secrets, secrets + 1}
    /\ SessionCall(calls'[c]) /\ ~Issues(calls'[c])

LEMMA ApartKeeps ==
    ASSUME SessionsInv, NEW c \in Callers, NEW S, Acts(c, S), Apart(c), Handled'
    PROVE  SessionsInv'
<1>1. secrets \in Nat /\ account \in [Users -> AccountRows] /\ tokens \subseteq TokenRows /\ issued \subseteq TokenRows
  BY DEF SessionsInv, Tables, AccountsTypeOK
<1>2. Tables'
  <2>1. account' \in [Users -> AccountRows]
    BY DEF Apart, SameSession
  <2>2. secrets' \in Nat
    BY <1>1 DEF Apart
  <2>3. \A u \in Users : account'[u].role = "none" => account'[u].session = 0
    BY DEF Apart, SameSession, SessionsInv, Tables
  <2> QED BY <1>1, <2>1, <2>2, <2>3 DEF Apart, Tables, AccountsTypeOK
<1>3. \A d \in Callers : SessionCall(calls'[d])
  <2>1. ASSUME NEW d \in Callers \ {c}
        PROVE  SessionCall(calls'[d])
    <3>1. calls'[d] = calls[d] /\ SessionCall(calls[d])
      BY DEF Acts, SessionsInv
    <3> QED BY <3>1
  <2> QED BY <2>1 DEF Apart, SessionCall, EntersCall, MakesCall
<1>4. \A d \in Callers \ {c} : calls'[d] = calls[d]
  BY DEF Acts
<1>5. LineInv'
  <2>1. \A d \in Callers : Issues(calls'[d]) => d # c /\ calls'[d] = calls[d]
    BY <1>4 DEF Apart
  <2>2. \A n \in 0..secrets : n \in 0..secrets'
    BY <1>1 DEF Apart
  <2>3. \A n \in 1..secrets : n \in 1..secrets'
    BY <1>1 DEF Apart
  <2> QED BY <2>1, <2>2, <2>3 DEF SessionsInv, LineInv, Apart
<1>6. SessionCalm'
  <2> SUFFICES ASSUME ~overlapped'
               PROVE  SessionCalm'
    BY DEF SessionCalm
  <2>1. ~overlapped /\ \A d \in Callers \ {c} : calls'[d].stage = "idle"
    BY Alone DEF SessionsInv, Handled
  <2>2. \A d \in Callers : ~Issues(calls'[d])
    BY <2>1 DEF Issues, Apart
  <2>3. \A t \in tokens : t.user \in Users /\ t.session = account[t.user].session
    BY <1>1, <2>1 DEF SessionsInv, SessionCalm, TokenRows
  <2> QED BY <2>2, <2>3 DEF SessionCalm, Apart, SameSession
<1> QED BY <1>2, <1>3, <1>5, <1>6 DEF SessionsInv

-----------------------------------------------------------------------------
(* What changes of a row.                                                  *)

LEMMA NewRows ==
    ASSUME NEW role \in {"USER", "ADMIN", "STAFF", "BEAUTICIAN"}, NEW active \in BOOLEAN, NEW verified \in BOOLEAN,
           NEW password \in BOOLEAN, NEW google \in BOOLEAN, NEW otp \in Nat, NEW r \in AdminRoles \cup {"none"},
           NEW row,
           row = [NoAccount EXCEPT !.role = role, !.active = active, !.verified = verified, !.password = password,
                                   !.google = google, !.otp = otp, !.adminRole = r]
    PROVE  row \in AccountRows /\ row.session = 0 /\ row.role = role
BY ZenonT(30) DEF NoAccount, AccountRows

LEMMA SameRow ==
    ASSUME NEW old \in AccountRows
    PROVE  /\ SameSession(old, old)
           /\ \A b \in BOOLEAN : /\ SameSession(old, [old EXCEPT !.active = b])
                                 /\ SameSession(old, [old EXCEPT !.password = b])
                                 /\ SameSession(old, [old EXCEPT !.google = b])
           /\ \A n \in Nat : SameSession(old, [old EXCEPT !.otp = n])
           /\ SameSession(old, [old EXCEPT !.verified = TRUE, !.otp = 0])
           /\ SameSession(old, [old EXCEPT !.adminRole = "none"])
           /\ \A r \in AdminRoles : SameSession(old, [old EXCEPT !.adminRole = r])
           /\ SameSession(old, [old EXCEPT !.adminRole = "none", !.role = "STAFF"])
           /\ \A r \in AdminRoles, role \in {"ADMIN", "STAFF"} : SameSession(old, [old EXCEPT !.adminRole = r, !.role = role])
BY ZenonT(30) DEF SameSession, AccountRows

LEMMA OneRow ==
    ASSUME account \in [Users -> AccountRows], NEW u, NEW row, u \in Users => SameSession(account[u], row),
           account' = [account EXCEPT ![u] = row]
    PROVE  account' = [v \in Users |-> account'[v]] /\ \A v \in Users : SameSession(account[v], account'[v])
<1>1. \A v \in Users : account'[v] = IF v = u THEN row ELSE account[v]
  OBVIOUS
<1>2. \A v \in Users : account[v] \in AccountRows
  OBVIOUS
<1>3. account' = [v \in Users |-> account'[v]]
  OBVIOUS
<1> QED BY <1>1, <1>2, <1>3, SameRow, Zenon

LEMMA NoRow ==
    ASSUME account \in [Users -> AccountRows], account' = account
    PROVE  account' = [v \in Users |-> account'[v]] /\ \A v \in Users : SameSession(account[v], account'[v])
<1>1. \A v \in Users : account[v] \in AccountRows
  OBVIOUS
<1> QED BY <1>1, SameRow, Zenon

\* A profile that is dropped, cached, or left.
LEMMA OneProfile ==
    ASSUME profile = [u \in Users |-> profile[u]], \A u \in Users : profile[u] \in Profiles \cup {NoProfile},
           NEW u, NEW row \in Profiles \cup {NoProfile}, profile' = [profile EXCEPT ![u] = row] \/ profile' = profile
    PROVE  profile' = [v \in Users |-> profile'[v]] /\ \A v \in Users : profile'[v] \in Profiles \cup {NoProfile}
<1>1. CASE profile' = [profile EXCEPT ![u] = row]
  <2>1. \A v \in Users : profile'[v] = IF v = u THEN row ELSE profile[v]
    BY <1>1
  <2>2. profile' = [v \in Users |-> profile'[v]]
    BY <1>1
  <2> QED BY <2>1, <2>2
<1>2. CASE profile' = profile
  BY <1>2
<1> QED BY <1>1, <1>2

\* The parts of a step of c that touches no session.
ApartButRows(c) ==
    /\ profile' = [u \in Users |-> profile'[u]] /\ \A u \in Users : profile'[u] \in Profiles \cup {NoProfile}
    /\ UNCHANGED <<tokens, issued>>
    /\ mailed' \subseteq Nat \X Users
    /\ secrets' \in {secrets, secrets + 1}
    /\ SessionCall(calls'[c]) /\ ~Issues(calls'[c])

LEMMA RowsApart ==
    ASSUME SessionsInv, NEW c \in Callers, ApartButRows(c),
           account' = account \/ \E u, row : (u \in Users => SameSession(account[u], row)) /\ account' = [account EXCEPT ![u] = row]
    PROVE  Apart(c)
BY OneRow, NoRow DEF SessionsInv, Tables, AccountsTypeOK, Apart, ApartButRows

\* Only a row is written, or nothing.
LEMMA OnlyRows ==
    ASSUME SessionsInv, NEW c \in Callers, UNCHANGED <<tokens, profile, issued, mailed>>, secrets' \in {secrets, secrets + 1},
           SessionCall(calls'[c]), ~Issues(calls'[c])
    PROVE  ApartButRows(c)
BY DEF SessionsInv, Tables, AccountsTypeOK, ApartButRows

LEMMA SomewhereElse ==
    ASSUME NEW c \in Callers, NEW S, S \cap (EnteringStages \cup MakingStages) = {}, Acts(c, S)
    PROVE  SessionCall(calls'[c]) /\ ~Issues(calls'[c])
<1>1. calls'[c].stage \notin EnteringStages \cup MakingStages
  BY DEF Acts, EnteringStages, MakingStages
<1> QED BY <1>1 DEF SessionCall, EntersCall, MakesCall, EnteringStages, MakingStages, Issues

LEMMA SomethingElse ==
    ASSUME NEW call, call.stage \notin EnteringStages \cup MakingStages
    PROVE  SessionCall(call) /\ ~Issues(call)
BY DEF SessionCall, EntersCall, MakesCall, EnteringStages, MakingStages, Issues

LEMMA IdleCall ==
    ASSUME Shape, NEW c \in Callers, Return(c)
    PROVE  SessionCall(calls'[c]) /\ ~Issues(calls'[c])
BY Returned, SomethingElse DEF EnteringStages, MakingStages

-----------------------------------------------------------------------------
(* Accounts: the steps that touch no session.                              *)

LEMMA GoesOn ==
    ASSUME Shape, NEW c \in Callers, NEW stage, NEW saw, Goto(c, stage, saw),
           EntersCall([stage |-> stage, on |-> calls[c].on, saw |-> saw]),
           stage \notin MakingStages, stage \notin {"forget", "issue"}
    PROVE  SessionCall(calls'[c]) /\ ~Issues(calls'[c])
<1>1. calls'[c] = [stage |-> stage, on |-> calls[c].on, saw |-> saw] /\ calls'[c].stage = stage
  BY Gone DEF Goto, Continue, Shape
<1>2. MakesCall(calls'[c]) /\ ~Issues(calls'[c])
  BY <1>1 DEF MakesCall, MakingStages, Issues
<1> QED BY <1>1, <1>2 DEF SessionCall

LEMMA Enters ==
    ASSUME NEW on \in Users, NEW saw
    PROVE  /\ \A stage \in {"rotate", "resend", "verified", "link", "signed_in", "store_pin", "unlock"} :
                 EntersCall([stage |-> stage, on |-> on, saw |-> saw])
           /\ saw \in {"USER", "BEAUTICIAN"} => EntersCall([stage |-> "register", on |-> on, saw |-> saw])
           /\ saw \in TokenRows /\ saw.user = on => EntersCall([stage |-> "refresh", on |-> on, saw |-> saw])
           /\ saw.code \in Nat => EntersCall([stage |-> "mail_code", on |-> on, saw |-> saw])
           /\ saw.session \in Nat /\ saw.from \in Nat =>
                 /\ EntersCall([stage |-> "forget", on |-> on, saw |-> saw])
                 /\ EntersCall([stage |-> "issue", on |-> on, saw |-> saw])
BY DEF EntersCall, EnteringStages

\* A handler that starts to enter an account.
LEMMA StartsEntering ==
    ASSUME Shape, NEW c \in Callers, NEW op, NEW stage, NEW on, NEW saw, Begin(c, op, stage, on, saw),
           EntersCall([stage |-> stage, on |-> on, saw |-> saw]),
           stage \notin MakingStages, stage \notin {"forget", "issue"}
    PROVE  SessionCall(calls'[c]) /\ ~Issues(calls'[c])
<1>1. calls'[c] = [stage |-> stage, on |-> on, saw |-> saw] /\ calls'[c].stage = stage
  BY Starts DEF Begin, Shape
<1>2. MakesCall(calls'[c]) /\ ~Issues(calls'[c])
  BY <1>1 DEF MakesCall, MakingStages, Issues
<1> QED BY <1>1, <1>2 DEF SessionCall

LEMMA NewUser ==
    ASSUME NEW role \in {"USER", "BEAUTICIAN"}, NEW otp \in Nat,
           NEW row, row = [NoAccount EXCEPT !.role = role, !.active = TRUE, !.password = TRUE, !.otp = otp]
    PROVE  row \in AccountRows /\ row.session = 0 /\ row.role # "none"
BY DEF NoAccount, AccountRows

LEMMA CreateAccountApart ==
    ASSUME SessionsInv, NEW c \in Callers, CreateAccount(c)
    PROVE  Apart(c)
<1> DEFINE u == calls[c].on  role == calls[c].saw
           row == [NoAccount EXCEPT !.role = role, !.active = TRUE, !.password = TRUE, !.otp = New]
<1>1. Shape /\ secrets \in Nat /\ u \in Users /\ role \in {"USER", "BEAUTICIAN"} /\ account[u] \in AccountRows
  BY DEF SessionsInv, Handled, Tables, AccountsTypeOK, SessionCall, EntersCall, EnteringStages, CreateAccount, At
<1>2. row \in AccountRows /\ row.session = 0 /\ row.role # "none"
  <2>1. New \in Nat
    BY <1>1 DEF New
  <2> HIDE DEF role
  <2> QED BY <1>1, <2>1, NewUser
<1>3. ~HasAccount(u) => SameSession(account[u], row)
  BY <1>1, <1>2 DEF SessionsInv, Tables, SameSession, HasAccount
<1>4. \/ Return(c) /\ UNCHANGED <<account, secrets>>
      \/ /\ ~HasAccount(u) /\ account' = [account EXCEPT ![u] = row]
         /\ secrets' = New /\ Goto(c, "mail_code", [code |-> New, then |-> "rotate"])
  BY Zenon DEF CreateAccount
<1>5. UNCHANGED <<tokens, profile, issued, mailed>>
  BY DEF CreateAccount
<1>6. SessionCall(calls'[c]) /\ ~Issues(calls'[c])
  <2>1. CASE Return(c)
    BY <1>1, <2>1, IdleCall
  <2>2. CASE Goto(c, "mail_code", [code |-> New, then |-> "rotate"])
    <3>1. EntersCall([stage |-> "mail_code", on |-> u, saw |-> [code |-> New, then |-> "rotate"]])
      BY <1>1 DEF EntersCall, EnteringStages, New
    <3> QED BY <1>1, <2>2, <3>1, GoesOn DEF MakingStages
  <2> QED BY <1>4, <2>1, <2>2
<1>7. secrets' \in {secrets, secrets + 1}
  BY <1>4 DEF New
<1> HIDE DEF row, u, role
<1> QED BY <1>3, <1>4, <1>5, <1>6, <1>7, OnlyRows, RowsApart

LEMMA MailCodeApart ==
    ASSUME SessionsInv, NEW c \in Callers, MailCode(c)
    PROVE  Apart(c)
<1> DEFINE u == calls[c].on  code == calls[c].saw.code
<1>1. Shape /\ secrets \in Nat /\ u \in Users /\ code \in Nat /\ mailed \subseteq Nat \X Users
  BY DEF SessionsInv, Handled, Tables, AccountsTypeOK, SessionCall, EntersCall, EnteringStages, MailCode, At
<1>2. mailed' = mailed \cup {<<code, u>>} /\ UNCHANGED <<account, tokens, profile, secrets, issued>>
  BY DEF MailCode
<1>3. mailed' \subseteq Nat \X Users
  BY <1>1, <1>2
<1>4. Return(c) \/ Goto(c, "rotate", 0)
  BY DEF MailCode
<1>5. SessionCall(calls'[c]) /\ ~Issues(calls'[c])
  BY <1>1, <1>4, IdleCall, GoesOn, Enters DEF MakingStages
<1>6. ApartButRows(c)
  BY <1>2, <1>3, <1>5 DEF SessionsInv, Tables, AccountsTypeOK, ApartButRows
<1> QED BY <1>2, <1>6, RowsApart

LEMMA WriteOtpApart ==
    ASSUME SessionsInv, NEW c \in Callers, WriteOtp(c)
    PROVE  Apart(c)
<1> DEFINE u == calls[c].on
<1>1. Shape /\ secrets \in Nat /\ u \in Users /\ account[u] \in AccountRows
  BY DEF SessionsInv, Handled, Tables, AccountsTypeOK, SessionCall, EntersCall, EnteringStages, WriteOtp, At
<1>2. /\ account' = [account EXCEPT ![u] = [account[u] EXCEPT !.otp = New]] /\ secrets' = secrets + 1
      /\ Goto(c, "mail_code", [code |-> New, then |-> "return"]) /\ UNCHANGED <<tokens, profile, issued, mailed>>
  BY SMTT(30) DEF WriteOtp, New
<1>3. SameSession(account[u], [account[u] EXCEPT !.otp = New])
  <2>1. New \in Nat
    BY <1>1 DEF New
  <2> QED BY <1>1, <2>1, SameRow, Zenon
<1>4. EntersCall([stage |-> "mail_code", on |-> u, saw |-> [code |-> New, then |-> "return"]])
  BY <1>1 DEF EntersCall, EnteringStages, New
<1>5. SessionCall(calls'[c]) /\ ~Issues(calls'[c])
  BY <1>1, <1>2, <1>4, GoesOn DEF MakingStages
<1> QED BY <1>2, <1>3, <1>5, OnlyRows, RowsApart

LEMMA WriteVerifiedApart ==
    ASSUME SessionsInv, NEW c \in Callers, WriteVerified(c)
    PROVE  Apart(c)
<1> DEFINE u == calls[c].on
<1>1. Shape /\ u \in Users /\ account[u] \in AccountRows
  BY DEF SessionsInv, Handled, Tables, AccountsTypeOK, SessionCall, EntersCall, EnteringStages, WriteVerified, At
<1>2. /\ account' = [account EXCEPT ![u] = [account[u] EXCEPT !.verified = TRUE, !.otp = 0]]
      /\ Goto(c, "rotate", 0) /\ UNCHANGED <<tokens, profile, secrets, issued, mailed>>
  BY DEF WriteVerified
<1>3. SameSession(account[u], [account[u] EXCEPT !.verified = TRUE, !.otp = 0])
  BY <1>1, SameRow, Zenon
<1>4. SessionCall(calls'[c]) /\ ~Issues(calls'[c])
  BY <1>1, <1>2, Enters, GoesOn DEF MakingStages
<1> QED BY <1>2, <1>3, <1>4, OnlyRows, RowsApart

LEMMA LinkGoogleApart ==
    ASSUME SessionsInv, NEW c \in Callers, LinkGoogle(c)
    PROVE  Apart(c)
<1> DEFINE u == calls[c].on
           row == [NoAccount EXCEPT !.role = "USER", !.active = TRUE, !.verified = TRUE, !.google = TRUE]
<1>1. Shape /\ u \in Users /\ account[u] \in AccountRows
  BY DEF SessionsInv, Handled, Tables, AccountsTypeOK, SessionCall, EntersCall, EnteringStages, LinkGoogle, At
<1>2. row \in AccountRows /\ row.session = 0 /\ row.role # "none"
  BY DEF NoAccount, AccountRows
<1>3. ~HasAccount(u) => SameSession(account[u], row)
  BY <1>1, <1>2 DEF SessionsInv, Tables, SameSession, HasAccount
<1>4. SameSession(account[u], [account[u] EXCEPT !.google = TRUE])
  BY <1>1, SameRow, Zenon
<1>5. UNCHANGED <<tokens, profile, secrets, issued, mailed>>
  BY DEF LinkGoogle
<1>6. \/ Return(c) /\ UNCHANGED account
      \/ ~HasAccount(u) /\ account' = [account EXCEPT ![u] = row] /\ Goto(c, "rotate", 0)
      \/ account' = [account EXCEPT ![u] = [account[u] EXCEPT !.google = TRUE]] /\ Goto(c, "signed_in", account[u])
  BY DEF LinkGoogle
<1>7. SessionCall(calls'[c]) /\ ~Issues(calls'[c])
  <2>1. CASE Return(c)
    BY <1>1, <2>1, IdleCall
  <2>2. CASE Goto(c, "rotate", 0)
    BY <1>1, <2>2, Enters, GoesOn DEF MakingStages
  <2>3. CASE Goto(c, "signed_in", account[u])
    <3>1. EntersCall([stage |-> "signed_in", on |-> u, saw |-> account[u]])
      BY <1>1, Enters
    <3> QED BY <1>1, <2>3, <3>1, GoesOn DEF MakingStages
  <2> QED BY <1>6, <2>1, <2>2, <2>3
<1> HIDE DEF row
<1>8. account' = account \/ \E r : SameSession(account[u], r) /\ account' = [account EXCEPT ![u] = r]
  BY <1>3, <1>4, <1>6
<1> QED BY <1>5, <1>7, <1>8, OnlyRows, RowsApart

LEMMA CheckStatusApart ==
    ASSUME SessionsInv, NEW c \in Callers, CheckStatus(c)
    PROVE  Apart(c)
<1>1. Shape /\ calls[c].on \in Users
  BY DEF SessionsInv, Handled, SessionCall, EntersCall, EnteringStages, CheckStatus, At
<1>2. (Return(c) \/ Goto(c, "rotate", 0)) /\ UNCHANGED accounts
  BY DEF CheckStatus
<1>3. SessionCall(calls'[c]) /\ ~Issues(calls'[c])
  BY <1>1, <1>2, IdleCall, Enters, GoesOn DEF MakingStages
<1> QED BY <1>2, <1>3, OnlyRows, RowsApart DEF accounts

LEMMA DropProfileApart ==
    ASSUME SessionsInv, NEW c \in Callers, DropProfile(c)
    PROVE  Apart(c)
<1>1. /\ Shape /\ profile = [u \in Users |-> profile[u]] /\ \A u \in Users : profile[u] \in Profiles \cup {NoProfile}
      /\ mailed \subseteq Nat \X Users
  BY DEF SessionsInv, Handled, Tables, AccountsTypeOK
<1>2. Return(c) /\ profile' = [profile EXCEPT ![calls[c].on] = NoProfile] /\ UNCHANGED <<account, tokens, secrets, issued, mailed>>
  BY DEF DropProfile
<1>3. SessionCall(calls'[c]) /\ ~Issues(calls'[c])
  BY <1>1, <1>2, IdleCall
<1>4. ApartButRows(c)
  BY <1>1, <1>2, <1>3, OneProfile DEF ApartButRows
<1> QED BY <1>2, <1>4, RowsApart

LEMMA RequestsApart ==
    ASSUME SessionsInv, NEW c \in Callers, AccountsRequest(c), \A u \in Users : ~DeleteAdminUser(c, u)
    PROVE  Apart(c)
<1>0. Shape /\ account \in [Users -> AccountRows] /\ tokens \subseteq TokenRows
  BY DEF SessionsInv, Handled, Tables, AccountsTypeOK
<1>1. ASSUME NEW u \in Users, NEW op, NEW stage \in {"register", "resend", "verified", "rotate", "signed_in", "link"}, NEW saw,
             Begin(c, op, stage, u, saw), stage = "register" => saw \in {"USER", "BEAUTICIAN"}, UNCHANGED accounts
      PROVE  Apart(c)
  <2>1. SessionCall(calls'[c]) /\ ~Issues(calls'[c])
    BY <1>0, <1>1, Enters, StartsEntering DEF MakingStages
  <2> QED BY <1>1, <2>1, OnlyRows, RowsApart DEF accounts
<1>2. ASSUME SignUpRequest(c) \/ OtpRequest(c)
      PROVE  Apart(c)
  BY <1>1, <1>2 DEF SignUpRequest, OtpRequest, Register, ResendOtp, VerifyOtp
<1>3. ASSUME SignInRequest(c)
      PROVE  Apart(c)
  <2>1. CASE \E u \in Users : Login(c, u) \/ GoogleSignIn(c, u)
    BY <1>1, <2>1 DEF Login, GoogleSignIn
  <2>2. ASSUME NEW t \in tokens, RefreshToken(c, t)
        PROVE  Apart(c)
    <3>1. t \in TokenRows /\ t.user \in Users
      BY <1>0 DEF TokenRows
    <3>2. Begin(c, "refresh", "refresh", t.user, t) /\ UNCHANGED accounts
      BY <2>2 DEF RefreshToken
    <3>3. SessionCall(calls'[c]) /\ ~Issues(calls'[c])
      BY <1>0, <3>1, <3>2, Enters, StartsEntering DEF MakingStages
    <3> QED BY <3>2, <3>3, OnlyRows, RowsApart DEF accounts
  <2> QED BY <1>3, <2>1, <2>2 DEF SignInRequest
<1>4. ASSUME NEW u \in Users, NEW active \in BOOLEAN, UpdateUserStatus(c, u, active)
      PROVE  Apart(c)
  <2>1. /\ Begin(c, "status", "drop_profile", u, 0) /\ UNCHANGED <<tokens, profile, secrets, issued, mailed>>
        /\ account' = [account EXCEPT ![u] = [account[u] EXCEPT !.active = active]]
    BY <1>4, SMTT(30) DEF UpdateUserStatus
  <2>2. SameSession(account[u], [account[u] EXCEPT !.active = active])
    BY <1>0, SameRow, Zenon
  <2>3. SessionCall(calls'[c]) /\ ~Issues(calls'[c])
    BY <1>0, <2>1, Starts, SomethingElse DEF EnteringStages, MakingStages
  <2> QED BY <2>1, <2>2, <2>3, OnlyRows, RowsApart
<1> QED BY <1>2, <1>3, <1>4 DEF AccountsRequest

-----------------------------------------------------------------------------
(* Accounts: the steps that begin a session, end one, or issue a token.    *)

LEMMA OthersCalls ==
    ASSUME SessionsInv, NEW c \in Callers, NEW S, Acts(c, S), SessionCall(calls'[c])
    PROVE  (\A d \in Callers \ {c} : calls'[d] = calls[d]) /\ \A d \in Callers : SessionCall(calls'[d])
<1>1. \A d \in Callers \ {c} : calls'[d] = calls[d]
  BY DEF Acts
<1>2. ASSUME NEW d \in Callers \ {c}
      PROVE  SessionCall(calls'[d])
  BY <1>1, <1>2 DEF SessionsInv
<1> QED BY <1>1, <1>2

LEMMA TokenRow ==
    ASSUME SessionsInv, NEW t \in issued
    PROVE  t.id \in 1..secrets /\ t.from \in 0..secrets /\ t.user \in Users /\ t.session \in Nat
<1>1. t \in TokenRows
  BY DEF SessionsInv, Tables, AccountsTypeOK
<1> QED BY <1>1 DEF SessionsInv, LineInv, TokenRows

LEMMA RotateKeeps ==
    ASSUME SessionsInv, NEW c \in Callers, Rotate(c), Acts(c, AccountsStages), Handled'
    PROVE  SessionsInv'
<1> DEFINE u == calls[c].on
<1>1. Shape /\ u \in Users /\ account \in [Users -> AccountRows] /\ secrets \in Nat /\ tokens \subseteq issued
  BY DEF SessionsInv, Handled, LineInv, Tables, AccountsTypeOK, SessionCall, EntersCall, EnteringStages, Rotate, At
<1>2. CASE ~HasAccount(u)
  <2>1. Return(c) /\ UNCHANGED <<account, tokens, profile, secrets, issued, mailed>>
    BY <1>2 DEF Rotate
  <2>2. SessionCall(calls'[c]) /\ ~Issues(calls'[c])
    BY <1>1, <2>1, IdleCall
  <2> QED BY <2>1, <2>2, OnlyRows, RowsApart, ApartKeeps
<1>3. CASE HasAccount(u)
  <2>1. /\ account' = [account EXCEPT ![u] = [account[u] EXCEPT !.session = New]] /\ secrets' = secrets + 1
        /\ tokens' = {t \in tokens : t.user # u} /\ UNCHANGED <<profile, issued, mailed>>
        /\ Goto(c, "forget", [session |-> New, from |-> 0])
    BY <1>3 DEF Rotate, New
  <2>2. calls'[c] = [stage |-> "forget", on |-> u, saw |-> [session |-> secrets + 1, from |-> 0]]
    BY <1>1, <2>1 DEF Goto, Continue, Shape, New
  <2>3. calls'[c].stage = "forget" /\ calls'[c].on = u /\ calls'[c].saw.session = secrets + 1 /\ calls'[c].saw.from = 0
    BY <2>2
  <2>4. SessionCall(calls'[c])
    BY <1>1, <2>3 DEF SessionCall, EntersCall, MakesCall, EnteringStages
  <2>5. (\A d \in Callers \ {c} : calls'[d] = calls[d]) /\ \A d \in Callers : SessionCall(calls'[d])
    BY <2>4, OthersCalls
  <2>6. account[u] \in AccountRows /\ New \in Nat
    BY <1>1 DEF New
  <2>7. [account[u] EXCEPT !.session = New] \in AccountRows
    BY <2>6 DEF AccountRows
  <2>8. \A v \in Users : account'[v] = IF v = u THEN [account[u] EXCEPT !.session = New] ELSE account[v]
    BY <1>1, <2>1
  <2>9. account'[u].session = secrets + 1 /\ account'[u].role = account[u].role
    BY <1>1, <2>6, <2>8 DEF AccountRows, New
  <2>10. Tables'
    <3>1. account' \in [Users -> AccountRows]
      BY <1>1, <2>1, <2>7
    <3>2. \A v \in Users : account'[v].role = "none" => account'[v].session = 0
      BY <1>3, <2>8, <2>9 DEF HasAccount, SessionsInv, Tables
    <3> QED BY <1>1, <2>1, <3>1, <3>2 DEF SessionsInv, Tables, AccountsTypeOK
  <2>11. LineInv'
    <3>1. \A d \in Callers : Issues(calls'[d]) /\ calls'[d].saw.from # 0 => d # c /\ calls'[d] = calls[d]
      BY <2>3, <2>5
    <3>2. ASSUME NEW d \in Callers, Issues(calls'[d]), calls'[d].saw.from # 0
          PROVE  /\ calls'[d].saw.from \in 1..secrets' /\ \A t \in issued : t.from # calls'[d].saw.from
                 /\ \A t \in tokens' : t.id # calls'[d].saw.from
                 /\ \A e \in Callers \ {d} : Issues(calls'[e]) => calls'[e].saw.from # calls'[d].saw.from
      <4>1. calls'[d] = calls[d] /\ d # c
        BY <3>1, <3>2
      <4> QED BY <1>1, <2>1, <2>3, <2>5, <3>2, <4>1 DEF SessionsInv, LineInv
    <3>3. \A t \in issued : t.id \in 1..secrets' /\ t.from \in 0..secrets'
      BY <1>1, <2>1 DEF SessionsInv, LineInv
    <3> QED BY <2>1, <3>2, <3>3 DEF SessionsInv, LineInv
  <2>12. SessionCalm'
    <3> SUFFICES ASSUME ~overlapped'
                 PROVE  SessionCalm'
      BY DEF SessionCalm
    <3>1. ~overlapped /\ \A d \in Callers \ {c} : calls'[d].stage = "idle"
      BY Alone DEF SessionsInv, Handled
    <3>2. \A d \in Callers : Issues(calls'[d]) => calls'[d].saw.session = account'[calls'[d].on].session
      BY <2>3, <2>9, <3>1 DEF Issues
    <3>3. \A t \in tokens' : t.session = account'[t.user].session
      BY <1>1, <2>1, <2>8, <3>1, TokenRow DEF SessionsInv, SessionCalm
    <3> QED BY <3>2, <3>3 DEF SessionCalm
  <2> QED BY <2>5, <2>10, <2>11, <2>12 DEF SessionsInv
<1> QED BY <1>2, <1>3

LEMMA ForgetKeeps ==
    ASSUME SessionsInv, NEW c \in Callers, Forget(c), Acts(c, AccountsStages), Handled'
    PROVE  SessionsInv'
<1>1. Shape /\ SessionCall(calls[c]) /\ calls[c].stage = "forget"
  BY DEF SessionsInv, Handled, Forget, At
<1>2. /\ profile' = [profile EXCEPT ![calls[c].on] = NoProfile] /\ UNCHANGED <<account, tokens, secrets, issued, mailed>>
      /\ Goto(c, "issue", calls[c].saw)
  BY DEF Forget
<1>3. calls'[c].stage = "issue" /\ calls'[c].on = calls[c].on /\ calls'[c].saw = calls[c].saw
  BY <1>1, <1>2, Gone
<1>4. SessionCall(calls'[c])
  BY <1>1, <1>3 DEF SessionCall, EntersCall, MakesCall, EnteringStages
<1>5. (\A d \in Callers \ {c} : calls'[d] = calls[d]) /\ \A d \in Callers : SessionCall(calls'[d])
  BY <1>4, OthersCalls
<1>6. \A d \in Callers : /\ Issues(calls'[d]) = Issues(calls[d]) /\ calls'[d].on = calls[d].on
                         /\ calls'[d].saw = calls[d].saw
  BY <1>1, <1>3, <1>5 DEF Issues
<1>7. Tables'
  BY <1>2, OneProfile DEF SessionsInv, Tables, AccountsTypeOK
<1>8. LineInv'
  BY <1>2, <1>6 DEF SessionsInv, LineInv
<1>9. SessionCalm'
  <2>1. overlapped => overlapped'
    BY DEF Acts
  <2> QED BY <1>2, <1>6, <2>1 DEF SessionsInv, SessionCalm
<1> QED BY <1>5, <1>7, <1>8, <1>9 DEF SessionsInv

LEMMA IssueKeeps ==
    ASSUME SessionsInv, NEW c \in Callers, Issue(c), Acts(c, AccountsStages), Handled'
    PROVE  SessionsInv'
<1> DEFINE from == calls[c].saw.from
           token == [id |-> New, from |-> from, user |-> calls[c].on, session |-> calls[c].saw.session]
<1>1. Shape /\ SessionCall(calls[c]) /\ calls[c].stage = "issue" /\ secrets \in Nat /\ tokens \subseteq issued
  BY DEF SessionsInv, Handled, LineInv, Issue, At, Tables, AccountsTypeOK
<1>2. /\ tokens' = tokens \cup {token} /\ issued' = issued \cup {token} /\ secrets' = secrets + 1
      /\ Return(c) /\ UNCHANGED <<account, profile, mailed>>
  BY DEF Issue, New
<1>3. SessionCall(calls'[c]) /\ ~Issues(calls'[c])
  BY <1>1, <1>2, IdleCall
<1>4. (\A d \in Callers \ {c} : calls'[d] = calls[d]) /\ \A d \in Callers : SessionCall(calls'[d])
  BY <1>3, OthersCalls
<1>5. /\ token.id = secrets + 1 /\ token.from = from /\ token.user = calls[c].on /\ token.session = calls[c].saw.session
      /\ token.user \in Users /\ token.session \in Nat /\ token.from \in Nat
  BY <1>1 DEF SessionCall, EntersCall, EnteringStages, New
<1>6. Issues(calls[c])
  BY <1>1 DEF Issues
<1>7. from # 0 => from \in 1..secrets /\ (\A t \in issued : t.from # from) /\ \A t \in tokens : t.id # from
  BY <1>6 DEF SessionsInv, LineInv
<1>8. token \in TokenRows
  BY <1>1, <1>5 DEF TokenRows, New
<1>9. Tables'
  BY <1>1, <1>2, <1>8 DEF SessionsInv, Tables, AccountsTypeOK
<1> HIDE DEF token
<1>10. LineInv'
  <2>1. \A t \in issued' : t.id \in 1..secrets' /\ t.from \in 0..secrets'
    BY <1>1, <1>2, <1>5, <1>7 DEF SessionsInv, LineInv
  <2>2. \A s, t \in issued' : s.id = t.id => s = t
    BY <1>1, <1>2, <1>5 DEF SessionsInv, LineInv
  <2>3. \A s, t \in issued' : s.from = t.from /\ s.from # 0 => s = t
    BY <1>2, <1>5, <1>7 DEF SessionsInv, LineInv
  <2>4. \A s \in issued', t \in tokens' : s.from # t.id
    <3>1. \A s \in issued, t \in tokens : s.from # t.id
      BY DEF SessionsInv, LineInv
    <3>2. \A s \in issued : s.from # token.id
      BY <1>1, <1>5 DEF SessionsInv, LineInv
    <3>3. \A t \in tokens : token.from # t.id /\ t.id \in 1..secrets
      BY <1>1, <1>5, <1>7 DEF SessionsInv, LineInv
    <3>4. token.from # token.id
      BY <1>1, <1>5, <1>7
    <3> QED BY <1>2, <3>1, <3>2, <3>3, <3>4
  <2>5. ASSUME NEW d \in Callers, Issues(calls'[d]), calls'[d].saw.from # 0
        PROVE  /\ calls'[d].saw.from \in 1..secrets' /\ \A t \in issued' : t.from # calls'[d].saw.from
               /\ \A t \in tokens' : t.id # calls'[d].saw.from
               /\ \A e \in Callers \ {d} : Issues(calls'[e]) => calls'[e].saw.from # calls'[d].saw.from
    <3> DEFINE f == calls[d].saw.from
    <3>1. calls'[d] = calls[d] /\ d # c
      BY <1>3, <1>4, <2>5
    <3>2. /\ f \in 1..secrets /\ (\A t \in issued : t.from # f) /\ (\A t \in tokens : t.id # f)
          /\ \A e \in Callers \ {d} : Issues(calls[e]) => calls[e].saw.from # f
      BY <2>5, <3>1 DEF SessionsInv, LineInv
    <3>3. from # f
      BY <1>6, <3>1, <3>2
    <3>4. \A e \in Callers \ {d} : Issues(calls'[e]) => calls'[e] = calls[e]
      BY <1>3, <1>4
    <3> HIDE DEF f, from
    <3>5. (\A t \in issued' : t.from # f) /\ \A t \in tokens' : t.id # f
      BY <1>1, <1>2, <1>5, <3>2, <3>3
    <3>6. \A e \in Callers \ {d} : Issues(calls'[e]) => calls'[e].saw.from # f
      BY <3>2, <3>4
    <3>7. f \in 1..secrets'
      BY <1>1, <1>2, <3>2
    <3> QED BY <3>1, <3>5, <3>6, <3>7 DEF f
  <2>6. tokens' \subseteq issued'
    BY <1>1, <1>2
  <2> QED BY <2>1, <2>2, <2>3, <2>4, <2>5, <2>6 DEF LineInv
<1>11. SessionCalm'
  <2> SUFFICES ASSUME ~overlapped'
               PROVE  SessionCalm'
    BY DEF SessionCalm
  <2>1. ~overlapped /\ \A d \in Callers \ {c} : calls'[d].stage = "idle"
    BY Alone DEF SessionsInv, Handled
  <2>2. \A d \in Callers : ~Issues(calls'[d])
    BY <1>3, <2>1 DEF Issues
  <2>3. (\A t \in tokens : t.session = account[t.user].session) /\ calls[c].saw.session = account[calls[c].on].session
    BY <1>6, <2>1 DEF SessionsInv, SessionCalm
  <2> QED BY <1>2, <1>5, <2>2, <2>3 DEF SessionCalm
<1> QED BY <1>4, <1>9, <1>10, <1>11 DEF SessionsInv

LEMMA SpendTokenKeeps ==
    ASSUME SessionsInv, NEW c \in Callers, SpendToken(c), Acts(c, AccountsStages), Handled'
    PROVE  SessionsInv'
<1> DEFINE t == calls[c].saw
<1>1. Shape /\ SessionCall(calls[c]) /\ calls[c].stage = "refresh" /\ secrets \in Nat /\ tokens \subseteq issued
      /\ calls[c].on \in Users /\ t.user = calls[c].on
  BY DEF SessionsInv, Handled, LineInv, SpendToken, At, Tables, AccountsTypeOK, SessionCall, EntersCall, EnteringStages
<1>2. CASE t \notin tokens
  <2>1. Return(c) /\ UNCHANGED <<account, tokens, profile, secrets, issued, mailed>>
    BY <1>2 DEF SpendToken
  <2>2. SessionCall(calls'[c]) /\ ~Issues(calls'[c])
    BY <1>1, <2>1, IdleCall
  <2> QED BY <2>1, <2>2, OnlyRows, RowsApart, ApartKeeps
<1>3. CASE t \in tokens
  <2>1. /\ tokens' = tokens \ {t} /\ UNCHANGED <<account, profile, secrets, issued, mailed>>
        /\ Goto(c, "issue", [session |-> t.session, from |-> t.id])
    BY <1>3 DEF SpendToken
  <2>2. calls'[c].stage = "issue" /\ calls'[c].on = calls[c].on /\ calls'[c].saw = [session |-> t.session, from |-> t.id]
    BY <1>1, <2>1, Gone
  <2>3. calls'[c].saw.session = t.session /\ calls'[c].saw.from = t.id
    BY <2>2
  <2>4. t.id \in 1..secrets /\ t.session \in Nat
    BY <1>1, <1>3, TokenRow
  <2>5. SessionCall(calls'[c])
    BY <1>1, <2>2, <2>3, <2>4 DEF SessionCall, EntersCall, MakesCall, EnteringStages
  <2>6. (\A d \in Callers \ {c} : calls'[d] = calls[d]) /\ \A d \in Callers : SessionCall(calls'[d])
    BY <2>5, OthersCalls
  <2>7. Tables'
    BY <1>1, <2>1 DEF SessionsInv, Tables, AccountsTypeOK
  <2>8. LineInv'
    <3>1. (\A s \in issued : s.from # t.id) /\ \A s \in tokens' : s.id # t.id
      BY <1>1, <1>3, <2>1 DEF SessionsInv, LineInv
    <3>2. \A d \in Callers \ {c} : Issues(calls[d]) => calls[d].saw.from # t.id
      BY <1>3, <2>4 DEF SessionsInv, LineInv
    <3>3. ASSUME NEW d \in Callers, Issues(calls'[d]), calls'[d].saw.from # 0
          PROVE  /\ calls'[d].saw.from \in 1..secrets' /\ \A s \in issued' : s.from # calls'[d].saw.from
                 /\ \A s \in tokens' : s.id # calls'[d].saw.from
                 /\ \A e \in Callers \ {d} : Issues(calls'[e]) => calls'[e].saw.from # calls'[d].saw.from
      <4>1. CASE d = c
        BY <2>1, <2>3, <2>4, <2>6, <3>1, <3>2, <4>1
      <4>2. CASE d # c
        <5> DEFINE f == calls[d].saw.from
        <5>1. calls'[d] = calls[d]
          BY <2>6, <4>2
        <5>2. /\ f \in 1..secrets /\ (\A s \in issued : s.from # f) /\ (\A s \in tokens : s.id # f)
              /\ \A e \in Callers \ {d} : Issues(calls[e]) => calls[e].saw.from # f
          BY <3>3, <5>1 DEF SessionsInv, LineInv
        <5>3. f # t.id
          BY <1>3, <5>2
        <5> HIDE DEF f
        <5>4. ASSUME NEW e \in Callers \ {d}, Issues(calls'[e])
              PROVE  calls'[e].saw.from # f
          BY <2>3, <2>6, <5>2, <5>3, <5>4
        <5> QED BY <2>1, <5>1, <5>2, <5>4 DEF f
      <4> QED BY <4>1, <4>2
    <3> QED BY <1>1, <2>1, <3>3 DEF SessionsInv, LineInv
  <2>9. SessionCalm'
    <3> SUFFICES ASSUME ~overlapped'
                 PROVE  SessionCalm'
      BY DEF SessionCalm
    <3>1. ~overlapped /\ \A d \in Callers \ {c} : calls'[d].stage = "idle"
      BY Alone DEF SessionsInv, Handled
    <3>2. \A s \in tokens : s.session = account[s.user].session
      BY <3>1 DEF SessionsInv, SessionCalm
    <3> QED BY <1>1, <1>3, <2>1, <2>2, <2>3, <3>1, <3>2 DEF SessionCalm, Issues
  <2> QED BY <2>6, <2>7, <2>8, <2>9 DEF SessionsInv
<1> QED BY <1>2, <1>3

LEMMA DeleteAdminUserKeeps ==
    ASSUME SessionsInv, NEW c \in Callers, NEW u \in Users, DeleteAdminUser(c, u), Acts(c, AccountsStages), Handled'
    PROVE  SessionsInv'
<1>1. Shape /\ account \in [Users -> AccountRows] /\ tokens \subseteq issued
  BY DEF SessionsInv, Handled, LineInv, Tables, AccountsTypeOK
<1>2. /\ account' = [account EXCEPT ![u] = NoAccount] /\ tokens' = {t \in tokens : t.user # u}
      /\ UNCHANGED <<profile, secrets, issued, mailed>> /\ Begin(c, "delete_user", "drop_profile", u, 0)
  BY DEF DeleteAdminUser
<1>3. calls'[c].stage = "drop_profile"
  BY <1>1, <1>2, Starts
<1>4. SessionCall(calls'[c]) /\ ~Issues(calls'[c])
  BY <1>3, SomethingElse DEF EnteringStages, MakingStages
<1>5. (\A d \in Callers \ {c} : calls'[d] = calls[d]) /\ \A d \in Callers : SessionCall(calls'[d])
  BY <1>4, OthersCalls
<1>6. NoAccount \in AccountRows /\ NoAccount.session = 0
  BY DEF NoAccount, AccountRows
<1>7. \A v \in Users : account'[v] = IF v = u THEN NoAccount ELSE account[v]
  BY <1>1, <1>2
<1>8. Tables'
  <2>1. account' \in [Users -> AccountRows]
    BY <1>1, <1>2, <1>6
  <2> QED BY <1>2, <1>6, <1>7, <2>1 DEF SessionsInv, Tables, AccountsTypeOK
<1>9. LineInv'
  <2>1. \A d \in Callers : Issues(calls'[d]) => d # c /\ calls'[d] = calls[d]
    BY <1>4, <1>5
  <2>2. ASSUME NEW d \in Callers, Issues(calls'[d]), calls'[d].saw.from # 0
        PROVE  /\ calls'[d].saw.from \in 1..secrets' /\ \A t \in issued' : t.from # calls'[d].saw.from
               /\ \A t \in tokens' : t.id # calls'[d].saw.from
               /\ \A e \in Callers \ {d} : Issues(calls'[e]) => calls'[e].saw.from # calls'[d].saw.from
    <3>1. calls'[d] = calls[d] /\ \A e \in Callers : Issues(calls'[e]) => calls'[e] = calls[e]
      BY <2>1, <2>2
    <3> QED BY <1>2, <2>2, <3>1 DEF SessionsInv, LineInv
  <2> QED BY <1>2, <2>2 DEF SessionsInv, LineInv
<1>10. SessionCalm'
  <2> SUFFICES ASSUME ~overlapped'
               PROVE  SessionCalm'
    BY DEF SessionCalm
  <2>1. ~overlapped /\ \A d \in Callers \ {c} : calls'[d].stage = "idle"
    BY Alone DEF SessionsInv, Handled
  <2>2. \A d \in Callers : ~Issues(calls'[d])
    BY <1>4, <2>1 DEF Issues
  <2>3. \A t \in tokens : t.user \in Users /\ t.session = account[t.user].session
    BY <1>1, <2>1, TokenRow DEF SessionsInv, SessionCalm
  <2> QED BY <1>2, <1>7, <2>2, <2>3 DEF SessionCalm
<1> QED BY <1>5, <1>8, <1>9, <1>10 DEF SessionsInv

LEMMA AccountsKeeps ==
    ASSUME SessionsInv, NEW c \in Callers, AccountsNext(c), Handled'
    PROVE  SessionsInv'
<1>1. Acts(c, AccountsStages)
  BY AccountsActs DEF SessionsInv, Handled
<1>2. CASE AccountsStep(c)
  BY <1>1, <1>2, RotateKeeps, ForgetKeeps, IssueKeeps, SpendTokenKeeps, ApartKeeps, CreateAccountApart, MailCodeApart,
     WriteOtpApart, WriteVerifiedApart, LinkGoogleApart, CheckStatusApart, DropProfileApart DEF AccountsStep
<1>3. CASE AccountsRequest(c)
  BY <1>1, <1>3, RequestsApart, ApartKeeps, DeleteAdminUserKeeps
<1> QED BY <1>2, <1>3 DEF AccountsNext

-----------------------------------------------------------------------------
(* What the other parts do to accounts.                                    *)

\* Where a part goes on, it neither makes an account nor enters one.
LEMMA PartsElsewhere ==
    /\ RolesGoes \cap (EnteringStages \cup MakingStages) = {}
    /\ CredentialsGoes \cap (EnteringStages \cup MakingStages) = {}
    /\ StaffGoes \cap (EnteringStages \cup MakingStages) = {}
    /\ HiringGoes \cap (EnteringStages \cup MakingStages) = {}
    /\ RegisterGoes \cap (EnteringStages \cup MakingStages) = {}
    /\ OnboardingStages \cap (EnteringStages \cup MakingStages) = {}
    /\ VerificationStages \cap (EnteringStages \cup MakingStages) = {}
    /\ CampaignsStages \cap (EnteringStages \cup MakingStages) = {}
BY DEF RolesGoes, RolesStages, CredentialsGoes, CredentialsStages, StaffGoes, StaffStages, HiringGoes, HiringStages,
       RegisterGoes, OnboardingStages, VerificationStages, CampaignsStages, EnteringStages, MakingStages

LEMMA AccountsLeft ==
    ASSUME SessionsInv, NEW c \in Callers, UNCHANGED <<account, tokens, profile, issued, mailed>>,
           secrets' \in {secrets, secrets + 1}, SessionCall(calls'[c]), ~Issues(calls'[c])
    PROVE  Apart(c)
BY OnlyRows, RowsApart

\* A handler that goes on to make an account.
LEMMA StartsMaking ==
    ASSUME Shape, NEW c \in Callers, NEW op, NEW stage \in MakingStages, NEW on, NEW saw, Begin(c, op, stage, on, saw),
           MakesCall([stage |-> stage, on |-> on, saw |-> saw])
    PROVE  SessionCall(calls'[c]) /\ ~Issues(calls'[c])
<1>1. calls'[c] = [stage |-> stage, on |-> on, saw |-> saw] /\ calls'[c].stage = stage
  BY Starts DEF Begin, Shape
<1>2. EntersCall(calls'[c]) /\ ~Issues(calls'[c])
  BY <1>1 DEF EntersCall, EnteringStages, MakingStages, Issues
<1> QED BY <1>1, <1>2 DEF SessionCall

LEMMA ProfileTyped ==
    ASSUME SessionsInv, NEW u \in Users, HasAccount(u)
    PROVE  ProfileOf(u) \in Profiles
<1>1. account[u] \in AccountRows /\ account[u].role # "none"
  BY DEF SessionsInv, Tables, AccountsTypeOK, HasAccount
<1> QED BY <1>1 DEF ProfileOf, Profiles, AccountRows

LEMMA AsksApart ==
    ASSUME SessionsInv, NEW c \in Callers, AdminUserRequest(c) \/ \E u \in Users, s \in 0..secrets : Request(c, u, s)
    PROVE  Apart(c)
<1>0. Shape /\ \A u \in Users : profile[u] \in Profiles \cup {NoProfile}
  BY DEF SessionsInv, Handled, Tables, AccountsTypeOK
<1>1. ASSUME NEW u \in Users, NEW r \in AdminRoles, CreateAdminUser(c, u, r)
      PROVE  Apart(c)
  <2>1. Begin(c, "admins", "create_admin", u, r) /\ UNCHANGED accounts
    BY <1>1 DEF CreateAdminUser
  <2>2. MakesCall([stage |-> "create_admin", on |-> u, saw |-> r])
    BY DEF MakesCall
  <2>3. SessionCall(calls'[c]) /\ ~Issues(calls'[c])
    BY <1>0, <2>1, <2>2, StartsMaking DEF MakingStages
  <2> QED BY <2>1, <2>3, AccountsLeft DEF accounts
<1>2. ASSUME NEW u \in Users, NEW r \in AdminRoles, NEW by \in {"users", "staff", "portal"}, AssignAdminRole(c, u, r, by)
      PROVE  Apart(c)
  <2> DEFINE kind == IF by = "portal" THEN "ADMIN" ELSE IF by = "staff" THEN "STAFF" ELSE "same"
  <2>1. Begin(c, IF by = "users" THEN "grants" ELSE "staff_role", "assign_role", u, [role |-> r, kind |-> kind])
        /\ UNCHANGED accounts
    BY <1>2 DEF AssignAdminRole
  <2>2. kind \in {"ADMIN", "STAFF", "same"}
    OBVIOUS
  <2> HIDE DEF kind
  <2>3. MakesCall([stage |-> "assign_role", on |-> u, saw |-> [role |-> r, kind |-> kind]])
    BY <2>2 DEF MakesCall
  <2>4. SessionCall(calls'[c]) /\ ~Issues(calls'[c])
    BY <1>0, <2>1, <2>3, StartsMaking DEF MakingStages
  <2> QED BY <2>1, <2>4, AccountsLeft DEF accounts
<1>3. ASSUME NEW u \in Users, NEW s \in 0..secrets, Request(c, u, s)
      PROVE  Apart(c)
  <2>1. UNCHANGED accounts /\ HasAccount(u)
    BY <1>3 DEF Request
  <2>2. \/ \E w : Begin(c, "request", "judge", u, w)
        \/ Begin(c, "request", "load_profile", u, [row |-> ProfileOf(u), session |-> s, load |-> {}])
    BY <1>3, Zenon DEF Request
  <2>3. MakesCall([stage |-> "load_profile", on |-> u, saw |-> [row |-> ProfileOf(u), session |-> s, load |-> {}]])
    BY <2>1, ProfileTyped DEF MakesCall
  <2>4. SessionCall(calls'[c]) /\ ~Issues(calls'[c])
    <3>1. ASSUME NEW w, Begin(c, "request", "judge", u, w)
          PROVE  SessionCall(calls'[c]) /\ ~Issues(calls'[c])
      BY <1>0, <3>1, Starts, SomethingElse DEF EnteringStages, MakingStages
    <3>2. CASE Begin(c, "request", "load_profile", u, [row |-> ProfileOf(u), session |-> s, load |-> {}])
      BY <1>0, <2>3, <3>2, StartsMaking DEF MakingStages
    <3> QED BY <2>2, <3>1, <3>2
  <2> QED BY <2>1, <2>4, AccountsLeft DEF accounts
<1> QED BY <1>1, <1>2, <1>3 DEF AdminUserRequest

LEMMA DeleteRoleApart ==
    ASSUME SessionsInv, NEW c \in Callers, DeleteRole(c), SessionCall(calls'[c]), ~Issues(calls'[c])
    PROVE  Apart(c)
<1>1. account \in [Users -> AccountRows]
  BY DEF SessionsInv, Tables, AccountsTypeOK
<1>2. /\ UNCHANGED <<tokens, profile, secrets, issued, mailed>>
      /\ account' = [u \in Users |-> IF account[u].adminRole = calls[c].on
                                     THEN [account[u] EXCEPT !.adminRole = "none"] ELSE account[u]]
  BY SMTT(30) DEF DeleteRole
<1>3. \A u \in Users : SameSession(account[u], account'[u])
  BY <1>1, <1>2, SameRow, Zenon
<1>4. account' = [u \in Users |-> account'[u]]
  BY <1>2
<1>5. ApartButRows(c)
  BY <1>2, OnlyRows
<1> QED BY <1>3, <1>4, <1>5 DEF Apart, ApartButRows

LEMMA RolesWriteApart ==
    ASSUME SessionsInv, NEW c \in Callers, SessionCall(calls'[c]), ~Issues(calls'[c]),
           InsertAdmin(c) \/ WriteRole(c) \/ \E u \in Users : RemoveStaffRole(c, u)
    PROVE  Apart(c)
<1>0. Shape /\ SessionCall(calls[c]) /\ account \in [Users -> AccountRows]
  BY DEF SessionsInv, Handled, Tables, AccountsTypeOK
<1>1. CASE InsertAdmin(c)
  <2> DEFINE u == calls[c].on
             row == [NoAccount EXCEPT !.role = "ADMIN", !.active = TRUE, !.verified = TRUE, !.password = TRUE,
                                      !.adminRole = calls[c].saw]
  <2>1. calls[c].saw \in AdminRoles
    BY <1>0, <1>1 DEF InsertAdmin, At, SessionCall, MakesCall
  <2>2. row \in AccountRows /\ row.session = 0 /\ row.role # "none"
    BY <2>1 DEF NoAccount, AccountRows
  <2>3. u \in Users /\ ~HasAccount(u) => SameSession(account[u], row)
    BY <2>2 DEF SessionsInv, Tables, SameSession, HasAccount
  <2>4. /\ account' = account \/ (~HasAccount(u) /\ account' = [account EXCEPT ![u] = row])
        /\ UNCHANGED <<tokens, profile, secrets, issued, mailed>>
    BY <1>1 DEF InsertAdmin
  <2> HIDE DEF row
  <2> QED BY <2>3, <2>4, OnlyRows, RowsApart
<1>2. CASE WriteRole(c)
  <2> DEFINE u == calls[c].on  r == calls[c].saw.role  kind == calls[c].saw.kind
  <2>1. r \in AdminRoles /\ kind \in {"ADMIN", "STAFF", "same"}
    BY <1>0, <1>2 DEF WriteRole, At, SessionCall, MakesCall
  <2>2. /\ UNCHANGED <<tokens, profile, secrets, issued, mailed>>
        /\ \/ account' = account
           \/ account' = [account EXCEPT ![u] = [account[u] EXCEPT !.adminRole = r, !.role = IF kind = "same" THEN @ ELSE kind]]
    BY <1>2 DEF WriteRole
  <2>3. u \in Users =>
           SameSession(account[u], [account[u] EXCEPT !.adminRole = r, !.role = IF kind = "same" THEN @ ELSE kind])
    <3> SUFFICES ASSUME u \in Users
                 PROVE  SameSession(account[u], [account[u] EXCEPT !.adminRole = r, !.role = IF kind = "same" THEN @ ELSE kind])
      OBVIOUS
    <3>1. account[u] \in AccountRows
      BY <1>0
    <3> QED BY <2>1, <3>1 DEF SameSession, AccountRows
  <2> QED BY <2>2, <2>3, OnlyRows, RowsApart
<1>3. ASSUME NEW u \in Users, RemoveStaffRole(c, u)
      PROVE  Apart(c)
  <2>1. /\ UNCHANGED <<tokens, profile, secrets, issued, mailed>>
        /\ account' = [account EXCEPT ![u] = [account[u] EXCEPT !.adminRole = "none", !.role = "STAFF"]]
    BY <1>3, Zenon DEF RemoveStaffRole
  <2>2. SameSession(account[u], [account[u] EXCEPT !.adminRole = "none", !.role = "STAFF"])
    BY <1>0, SameRow, Zenon
  <2> QED BY <2>1, <2>2, OnlyRows, RowsApart
<1> QED BY <1>1, <1>2, <1>3

LEMMA RolesProfileApart ==
    ASSUME SessionsInv, NEW c \in Callers, SessionCall(calls'[c]), ~Issues(calls'[c]), DropThenLog(c) \/ CacheProfile(c)
    PROVE  Apart(c)
<1>0. /\ profile = [u \in Users |-> profile[u]] /\ \A u \in Users : profile[u] \in Profiles \cup {NoProfile}
      /\ mailed \subseteq Nat \X Users /\ SessionCall(calls[c])
  BY DEF SessionsInv, Tables, AccountsTypeOK
<1>1. UNCHANGED <<account, tokens, secrets, issued, mailed>>
  BY DEF DropThenLog, CacheProfile
<1>2. \E row \in Profiles \cup {NoProfile} : profile' = [profile EXCEPT ![calls[c].on] = row]
  <2>1. CASE DropThenLog(c)
    BY <2>1 DEF DropThenLog
  <2>2. CASE CacheProfile(c)
    <3>1. calls[c].saw.row \in Profiles
      BY <1>0, <2>2 DEF CacheProfile, At, SessionCall, MakesCall
    <3> QED BY <2>2, <3>1 DEF CacheProfile
  <2> QED BY <2>1, <2>2
<1>3. profile' = [u \in Users |-> profile'[u]] /\ \A u \in Users : profile'[u] \in Profiles \cup {NoProfile}
  BY <1>0, <1>2, OneProfile
<1>4. ApartButRows(c)
  BY <1>0, <1>1, <1>3 DEF ApartButRows
<1> QED BY <1>1, <1>4, RowsApart

LEMMA RolesKeeps ==
    ASSUME SessionsInv, NEW c \in Callers, RolesNext(c), Handled'
    PROVE  SessionsInv'
<1>1. CASE Acts(c, RolesGoes)
  <2>1. SessionCall(calls'[c]) /\ ~Issues(calls'[c])
    BY <1>1, SomewhereElse, PartsElsewhere
  <2>2. \/ UNCHANGED accounts \/ DeleteRole(c) \/ InsertAdmin(c) \/ WriteRole(c) \/ (\E u \in Users : RemoveStaffRole(c, u))
        \/ DropThenLog(c) \/ CacheProfile(c)
    BY Zenon DEF RolesNext, RolesStep, RolesRequest, RoleRequest, GrantRequest, AdminUserRequest, DropPermissions, LogAssignment,
           InsertUserRole, Judge, CachePermissions, CreateRole, SetActive, SetPermissions, RemoveRole, CreateAdminUser,
           AssignAdminRole, AddUserRole, RemoveUserRole, Request
  <2>3. Apart(c)
    BY <2>1, <2>2, AccountsLeft, DeleteRoleApart, RolesWriteApart, RolesProfileApart DEF accounts
  <2> QED BY <1>1, <2>3, ApartKeeps
<1>2. CASE Acts(c, RolesAsks) /\ (AdminUserRequest(c) \/ \E u \in Users, s \in 0..secrets : Request(c, u, s))
  BY <1>2, AsksApart, ApartKeeps
<1> QED BY <1>1, <1>2, RolesActs DEF SessionsInv, Handled

LEMMA CredentialsKeeps ==
    ASSUME SessionsInv, NEW c \in Callers, CredentialsNext(c), Handled'
    PROVE  SessionsInv'
<1>0. Shape /\ SessionCall(calls[c]) /\ account \in [Users -> AccountRows]
  BY DEF SessionsInv, Handled, Tables, AccountsTypeOK
<1>1. CASE Acts(c, CredentialsGoes)
  <2>1. SessionCall(calls'[c]) /\ ~Issues(calls'[c])
    BY <1>1, SomewhereElse, PartsElsewhere
  <2>2. \/ UNCHANGED accounts
        \/ UNCHANGED <<account, tokens, profile, issued, mailed>> /\ secrets' = New
        \/ WritePassword(c) \/ \E u \in Users : SetPassword(c, u)
    <3>1. CASE CredentialsStep(c)
      <4>1. CASE WriteReset(c) \/ WritePhone(c)
        BY <4>1 DEF WriteReset, WritePhone, OnlyAccount, accounts
      <4> QED BY <3>1, <4>1, Zenon
         DEF CredentialsStep, StorePin, ClearPinLock, CountFailure, CountFailureUpTo, LockPin, LockInRedis, WritePhoneProof,
             WriteDefault, InsertAddress, WriteDeletion, OnlyAddresses
    <3>2. CASE CredentialsRequest(c)
      BY <3>2, Zenon
         DEF CredentialsRequest, PasswordRequest, PinRequest, PhoneRequest, AddressRequest, ForgotPassword, ResetPassword,
             SetPin, RightPin, WrongPin, RequestPhone, VerifyPhone, CreateAddress, MakeDefault, UpdateAddress, DeleteAddress,
             OnlyAddresses
    <3> QED BY <3>1, <3>2 DEF CredentialsNext
  <2>3. CASE WritePassword(c)
    <3> DEFINE u == calls[c].on
    <3>1. /\ UNCHANGED <<tokens, profile, secrets, issued, mailed>>
          /\ account' = [account EXCEPT ![u] = [account[u] EXCEPT !.password = HasAccount(u)]]
      BY <2>3, SMTT(30) DEF WritePassword, OnlyAccount
    <3>2. u \in Users => SameSession(account[u], [account[u] EXCEPT !.password = HasAccount(u)])
      <4>1. HasAccount(u) \in BOOLEAN
        BY DEF HasAccount
      <4> QED BY <1>0, <4>1, SameRow, Zenon
    <3>3. Apart(c)
      BY <2>1, <3>1, <3>2, OnlyRows, RowsApart
    <3> QED BY <1>1, <3>3, ApartKeeps
  <2>4. ASSUME NEW u \in Users, SetPassword(c, u)
        PROVE  SessionsInv'
    <3>1. /\ UNCHANGED <<tokens, profile, secrets, issued, mailed>>
          /\ account' = [account EXCEPT ![u] = [account[u] EXCEPT !.password = TRUE]]
      BY <2>4, SMTT(30) DEF SetPassword, OnlyAccount
    <3>2. SameSession(account[u], [account[u] EXCEPT !.password = TRUE])
      BY <1>0, SameRow, Zenon
    <3>3. Apart(c)
      BY <2>1, <3>1, <3>2, OnlyRows, RowsApart
    <3> QED BY <1>1, <3>3, ApartKeeps
  <2>5. CASE UNCHANGED accounts \/ (UNCHANGED <<account, tokens, profile, issued, mailed>> /\ secrets' = New)
    BY <1>1, <2>1, <2>5, AccountsLeft, ApartKeeps DEF accounts, New
  <2> QED BY <2>2, <2>3, <2>4, <2>5
<1>2. CASE Acts(c, CredentialsPins) /\ Pins(c)
  <2>1. UNCHANGED accounts
    BY <1>2, Zenon DEF Pins, StorePin, ClearPinLock, SetPin, RightPin
  <2>2. SessionCall(calls'[c]) /\ ~Issues(calls'[c])
    <3>1. CASE StorePin(c)
      <4>1. calls[c].on \in Users /\ Goto(c, "unlock", calls[c].saw)
        BY <1>0, <3>1 DEF StorePin, At, SessionCall, EntersCall, EnteringStages
      <4>2. EntersCall([stage |-> "unlock", on |-> calls[c].on, saw |-> calls[c].saw])
        BY <4>1, Enters
      <4> QED BY <1>0, <4>1, <4>2, GoesOn DEF MakingStages
    <3>2. CASE ClearPinLock(c)
      <4>1. calls[c].on \in Users /\ (Goto(c, "rotate", 0) \/ Return(c))
        BY <1>0, <3>2 DEF ClearPinLock, At, SessionCall, EntersCall, EnteringStages
      <4> QED BY <1>0, <4>1, GoesOn, Enters, IdleCall DEF MakingStages
    <3>3. ASSUME NEW u \in Users, SetPin(c, u) \/ \E then : RightPin(c, u, then)
          PROVE  SessionCall(calls'[c]) /\ ~Issues(calls'[c])
      <4>1. PICK w : Begin(c, "pin", "store_pin", u, w)
        BY <3>3, Zenon DEF SetPin, RightPin
      <4>2. EntersCall([stage |-> "store_pin", on |-> u, saw |-> w])
        BY Enters
      <4> QED BY <1>0, <4>1, <4>2, StartsEntering DEF MakingStages
    <3> QED BY <1>2, <3>1, <3>2, <3>3 DEF Pins
  <2>3. Apart(c)
    BY <2>1, <2>2, AccountsLeft DEF accounts
  <2> QED BY <1>2, <2>3, ApartKeeps
<1> QED BY <1>1, <1>2, CredentialsActs DEF SessionsInv, Handled

\* An account for a member of staff, who has none.
LEMMA CreateUserApart ==
    ASSUME SessionsInv, NEW c \in Callers, NEW next, CreateUser(c, next), calls[c].saw.verified \in BOOLEAN,
           SessionCall(calls'[c]), ~Issues(calls'[c])
    PROVE  Apart(c)
<1> DEFINE u == calls[c].saw.user
           row == [NoAccount EXCEPT !.role = "STAFF", !.active = TRUE, !.password = TRUE, !.verified = calls[c].saw.verified]
<1>1. row \in AccountRows /\ row.session = 0 /\ row.role # "none"
  BY DEF NoAccount, AccountRows
<1>2. /\ UNCHANGED <<tokens, profile, secrets, issued, mailed>>
      /\ account' = account \/ (~HasAccount(u) /\ account' = [account EXCEPT ![u] = row])
  BY DEF CreateUser
<1> HIDE DEF row
<1>3. u \in Users /\ ~HasAccount(u) => SameSession(account[u], row)
  BY <1>1 DEF SessionsInv, Tables, SameSession, HasAccount
<1> QED BY <1>2, <1>3, OnlyRows, RowsApart

\* What the register's handlers do to accounts, roles and credentials: nothing, but for the
\* account that is linked to a member.
LEMMA StaffAway ==
    ASSUME NEW c \in Callers, StaffNext(c)
    PROVE  UNCHANGED Elsewhere \/ CreateLinkedUser(c) \/ SetUpLinked(c)
<1>1. CASE StaffStep(c)
  <2>1. CASE \/ Fill(c) \/ DropCopy(c) \/ ReadOpen(c) \/ WriteDetails(c) \/ WriteStatus(c) \/ WriteRestored(c)
             \/ WriteTransfer(c) \/ WritePosition(c)
    BY <2>1, Zenon DEF Fill, DropCopy, ReadOpen, WriteDetails, WriteStatus, WriteRestored, WriteTransfer, WritePosition, Elsewhere
  <2>2. CASE \/ WriteRow(c) \/ DeleteRow(c) \/ WriteBranch(c) \/ DropCopies(c) \/ RemoveBranch(c) \/ WriteLink(c)
             \/ (\E s \in Members : Claim(c, s) \/ \E day \in Days : InsertMember(c, s, day))
             \/ \E queued \in BOOLEAN : Greet(c, queued)
    BY <2>2, Zenon DEF WriteRow, DeleteRow, WriteBranch, DropCopies, RemoveBranch, WriteLink, Claim, InsertMember, Greet, Elsewhere
  <2> QED BY <1>1, <2>1, <2>2 DEF StaffStep
<1>2. CASE StaffRequest(c)
  <2>1. CASE SendBirthdayEmails(c) \/ CreationRequest(c) \/ BranchRequest(c) \/ LinkRequest(c)
    BY <2>1, Zenon DEF SendBirthdayEmails, CreationRequest, CreateMember, BranchRequest, CreateBranch, UpdateBranch, DeleteBranch,
               LinkRequest, LinkUserAccount, Elsewhere
  <2>2. CASE EmployeeRequest(c) \/ ArchiveRequest(c) \/ HistoryRequest(c)
    <3>1. \E op, s, next, args : Look(c, op, s, next, args)
      <4>1. CASE EmployeeRequest(c)
        <5>1. PICK s \in Members : \/ FindOne(c, s)
                                   \/ \E status \in AtWork \cup Left, day \in Days : UpdateMemberStatus(c, s, status, day)
                                   \/ \E b \in Branches, day \in Days : TransferBranch(c, s, b, day)
                                   \/ \E b \in Branches, status \in AtWork \cup Left : UpdateMember(c, s, b, status, staff[s].email)
          BY <4>1, Zenon DEF EmployeeRequest
        <5>2. CASE FindOne(c, s)
          BY <5>2, Zenon DEF FindOne
        <5>3. CASE \E status \in AtWork \cup Left, day \in Days : UpdateMemberStatus(c, s, status, day)
          BY <5>3, Zenon DEF UpdateMemberStatus
        <5>4. CASE \E b \in Branches, day \in Days : TransferBranch(c, s, b, day)
          BY <5>4, Zenon DEF TransferBranch
        <5>5. CASE \E b \in Branches, status \in AtWork \cup Left : UpdateMember(c, s, b, status, staff[s].email)
          BY <5>5, Zenon DEF UpdateMember
        <5> QED BY <5>1, <5>2, <5>3, <5>4, <5>5, Zenon
      <4>2. CASE ArchiveRequest(c)
        BY <4>2, Zenon DEF ArchiveRequest, Restore, UpdateMemberStatus
      <4>3. CASE HistoryRequest(c)
        <5>1. PICK s, b, day, end, new, row : \/ AddHistory(c, s, b, day, end)
                                              \/ RemoveHistory(c, s, row)
                                              \/ UpdateHistory(c, s, row, new)
          BY <4>3, Zenon DEF HistoryRequest
        <5>2. CASE AddHistory(c, s, b, day, end)
          BY <5>2, Zenon DEF AddHistory
        <5>3. CASE RemoveHistory(c, s, row)
          BY <5>3, Zenon DEF RemoveHistory
        <5>4. CASE UpdateHistory(c, s, row, new)
          BY <5>4, Zenon DEF UpdateHistory
        <5> QED BY <5>1, <5>2, <5>3, <5>4, Zenon
      <4> QED BY <2>2, <4>1, <4>2, <4>3, Zenon
    <3> QED BY <3>1, Zenon DEF Look, Elsewhere
  <2> QED BY <1>2, <2>1, <2>2 DEF StaffRequest
<1> QED BY <1>1, <1>2 DEF StaffNext

LEMMA StaffKeeps ==
    ASSUME SessionsInv, NEW c \in Callers, StaffNext(c), Handled'
    PROVE  SessionsInv'
<1>0. Shape /\ SessionCall(calls[c])
  BY DEF SessionsInv, Handled
<1>1. CASE Acts(c, StaffGoes)
  <2>1. SessionCall(calls'[c]) /\ ~Issues(calls'[c])
    BY <1>1, SomewhereElse, PartsElsewhere
  <2>2. CASE UNCHANGED Elsewhere
    BY <1>1, <2>1, <2>2, AccountsLeft, ApartKeeps DEF Elsewhere, accounts
  <2>3. CASE CreateLinkedUser(c)
    <3>1. CreateUser(c, "link_account") /\ calls[c].saw.verified \in BOOLEAN
      BY <1>0, <2>3 DEF CreateLinkedUser, At, SessionCall, MakesCall
    <3>2. Apart(c)
      BY <2>1, <3>1, CreateUserApart
    <3> QED BY <1>1, <3>2, ApartKeeps
  <2>4. CASE SetUpLinked(c)
    <3>1. UNCHANGED <<account, tokens, profile, issued, mailed>> /\ secrets' = secrets + 1
      BY <2>4 DEF SetUpLinked, OnlyAccount, New
    <3> QED BY <1>1, <2>1, <3>1, AccountsLeft, ApartKeeps
  <2> QED BY <2>2, <2>3, <2>4, StaffAway
<1>2. CASE Acts(c, LinkGoes) /\ LinkRequest(c)
  <2>1. PICK s, u : LinkUserAccount(c, s, u)
    BY <1>2 DEF LinkRequest
  <2>2. UNCHANGED accounts
    BY <2>1, Zenon DEF LinkUserAccount, Elsewhere
  <2>3. \/ Begin(c, "link", "link_account", s, [user |-> u, verified |-> FALSE])
        \/ Begin(c, "link", "create_user", s, [user |-> u, verified |-> FALSE])
    BY <2>1 DEF LinkUserAccount
  <2>4. MakesCall([stage |-> "create_user", on |-> s, saw |-> [user |-> u, verified |-> FALSE]])
    BY DEF MakesCall
  <2>5. SessionCall(calls'[c]) /\ ~Issues(calls'[c])
    <3>1. CASE Begin(c, "link", "link_account", s, [user |-> u, verified |-> FALSE])
      BY <1>0, <3>1, Starts, SomethingElse DEF EnteringStages, MakingStages
    <3>2. CASE Begin(c, "link", "create_user", s, [user |-> u, verified |-> FALSE])
      BY <1>0, <2>4, <3>2, StartsMaking DEF MakingStages
    <3> QED BY <2>3, <3>1, <3>2
  <2> QED BY <1>2, <2>2, <2>5, AccountsLeft, ApartKeeps DEF accounts
<1> QED BY <1>1, <1>2, StaffActs DEF SessionsInv, Handled

\* The same for applications: but for the account of who is hired, and new secrets.
LEMMA HiringAway ==
    ASSUME NEW c \in Callers, HiringNext(c)
    PROVE  \/ UNCHANGED Elsewhere \/ CreateEmployee(c) \/ SetUpEmployee(c)
           \/ WriteApplicantOtp(c) \/ \E a \in Applications : WriteSubmission(c, a)
<1>1. CASE HiringStep(c)
  <2>1. CASE \/ CheckCooldown(c) \/ RecordAttempt(c) \/ (\E confirmed \in BOOLEAN : LookUp(c, confirmed))
             \/ (\E a \in Applications : WriteDraft(c, a)) \/ SpendOtp(c) \/ WriteApplication(c) \/ WriteApproval(c)
             \/ WriteOffer(c) \/ WriteResponse(c)
    BY <2>1, Zenon DEF CheckCooldown, RecordAttempt, LookUp, WriteDraft, SpendOtp, WriteApplication, WriteApproval, WriteOffer,
                 WriteResponse, OnlyApplication, Others, Elsewhere
  <2>2. CASE \/ (\E s \in Members : JudgeOther(c, s) \/ LookAgain(c, s)) \/ FindAccount(c) \/ CheckMember(c) \/ SetPay(c)
             \/ Employ(c)
    BY <2>2, Zenon DEF JudgeOther, LookAgain, FindAccount, CheckMember, SetPay, Employ, StaffButPay, Others, Elsewhere
  <2>3. CASE WriteCompensation(c) \/ WriteCommission(c) \/ WriteBackfill(c) \/ WritePosting(c) \/ DropPostings(c) \/ Show(c)
    BY <2>3, Zenon DEF WriteCompensation, WriteCommission, WriteBackfill, WritePosting, DropPostings, Show, StaffButPay, Others,
                 Elsewhere
  <2> QED BY <1>1, <2>1, <2>2, <2>3 DEF HiringStep
<1>2. CASE HiringRequest(c)
  <2>1. CASE ApplicantRequest(c)
    BY <2>1, Zenon DEF ApplicantRequest, VerifyNin, Submit, RequestApplicantOtp, VerifyApplicantOtp, RespondToOffer,
               OnlyApplication, Others, Elsewhere
  <2>2. CASE SelectionRequest(c) \/ OfferRequest(c)
    BY <2>2, Zenon DEF SelectionRequest, ScheduleInterview, RecordEmploymentApproval, UpdateStatus, RecordInterviewOutcome,
               OfferRequest, GenerateOfferLetter, ConvertToStaff, RunCompensationBackfill, OnlyApplication, StaffButPay, Others,
               Elsewhere
  <2>3. CASE PostingRequest(c) \/ \E s \in Members : SetCompensation(c, s) \/ AssignCompensation(c, s)
    BY <2>3, Zenon DEF PostingRequest, CreatePosting, UpdatePosting, ClosePosting, TogglePosting, RemovePosting, FindOnePublic,
               Mutate, SetCompensation, AssignCompensation, OnlyApplication, Others, Elsewhere
  <2> QED BY <1>2, <2>1, <2>2, <2>3 DEF HiringRequest
<1> QED BY <1>1, <1>2 DEF HiringNext

LEMMA HiringKeeps ==
    ASSUME SessionsInv, NEW c \in Callers, HiringNext(c), Handled'
    PROVE  SessionsInv'
<1>0. Shape /\ SessionCall(calls[c])
  BY DEF SessionsInv, Handled
<1>1. CASE Acts(c, HiringGoes)
  <2>1. SessionCall(calls'[c]) /\ ~Issues(calls'[c])
    BY <1>1, SomewhereElse, PartsElsewhere
  <2>2. CASE UNCHANGED Elsewhere
    BY <1>1, <2>1, <2>2, AccountsLeft, ApartKeeps DEF Elsewhere, accounts
  <2>3. CASE CreateEmployee(c)
    <3>1. CreateUser(c, "check_member") /\ calls[c].saw.verified \in BOOLEAN
      BY <1>0, <2>3 DEF CreateEmployee, At, SessionCall, MakesCall
    <3>2. Apart(c)
      BY <2>1, <3>1, CreateUserApart
    <3> QED BY <1>1, <3>2, ApartKeeps
  <2>4. CASE SetUpEmployee(c) \/ WriteApplicantOtp(c) \/ \E a \in Applications : WriteSubmission(c, a)
    <3>1. UNCHANGED <<account, tokens, profile, issued, mailed>> /\ secrets' = New
      BY <2>4, Zenon DEF SetUpEmployee, WriteApplicantOtp, WriteSubmission, OnlyAccount
    <3> QED BY <1>1, <2>1, <3>1, AccountsLeft, ApartKeeps DEF New
  <2> QED BY <2>2, <2>3, <2>4, HiringAway
<1>2. CASE Acts(c, FindGoes) /\ FindAccount(c)
  <2>1. UNCHANGED accounts
    BY <1>2, Zenon DEF FindAccount, Others
  <2>2. \/ Return(c) \/ \E w : Goto(c, "check_member", w)
        \/ \E b, u : Goto(c, "create_employee", [branch |-> b, user |-> u, verified |-> TRUE])
    BY <1>2, Zenon DEF FindAccount
  <2>3. ASSUME NEW b, NEW u, Goto(c, "create_employee", [branch |-> b, user |-> u, verified |-> TRUE])
        PROVE  SessionCall(calls'[c]) /\ ~Issues(calls'[c])
    <3>1. calls'[c].stage = "create_employee" /\ calls'[c].saw = [branch |-> b, user |-> u, verified |-> TRUE]
      BY <1>0, <2>3, Gone
    <3> QED BY <3>1 DEF SessionCall, EntersCall, MakesCall, EnteringStages, Issues
  <2>4. ASSUME NEW w, Goto(c, "check_member", w)
        PROVE  SessionCall(calls'[c]) /\ ~Issues(calls'[c])
    BY <1>0, <2>4, Gone, SomethingElse DEF EnteringStages, MakingStages
  <2>5. SessionCall(calls'[c]) /\ ~Issues(calls'[c])
    BY <1>0, <2>2, <2>3, <2>4, IdleCall
  <2> QED BY <1>2, <2>1, <2>5, AccountsLeft, ApartKeeps DEF accounts
<1>3. CASE Acts(c, RegisterGoes) /\ (CheckMember(c) \/ WriteCompensation(c))
  <2>1. UNCHANGED accounts
    BY <1>3, Zenon DEF CheckMember, WriteCompensation, StaffButPay, Others, Elsewhere
  <2>2. SessionCall(calls'[c]) /\ ~Issues(calls'[c])
    BY <1>3, SomewhereElse, PartsElsewhere
  <2> QED BY <1>3, <2>1, <2>2, AccountsLeft, ApartKeeps DEF accounts
<1> QED BY <1>1, <1>2, <1>3, HiringActs DEF SessionsInv, Handled

LEMMA OnboardingAway ==
    ASSUME NEW c \in Callers, OnboardingNext(c)
    PROVE  UNCHANGED <<accounts, roles, credentials>>
<1>1. CASE OnboardingStep(c)
  <2>1. CASE MarkOnboardingSubmitted(c) \/ WriteReview(c) \/ ResetItem(c) \/ MarkVisit(c) \/ CompleteVisit(c) \/ CompletePolicy(c)
    BY <2>1, Zenon DEF MarkOnboardingSubmitted, WriteReview, ResetItem, MarkVisit, CompleteVisit, CompletePolicy, WroteItem, Offices,
               Elsewhere
  <2>2. CASE WriteRequest(c) \/ AskService(c) \/ WriteVisitAsked(c) \/ WriteCancellation(c) \/ WriteResult(c) \/ Retire(c) \/ AddDocument(c)
    BY <2>2, Zenon DEF WriteRequest, AskService, WriteVisitAsked, WriteCancellation, WriteResult, Retire, AddDocument, Offices
  <2>3. CASE DeleteDocument(c) \/ WriteAcknowledgment(c) \/ CountDocuments(c) \/ WriteDirective(c)
    BY <2>3, Zenon DEF DeleteDocument, WriteAcknowledgment, CountDocuments, WriteDirective, Offices
  <2> QED BY <1>1, <2>1, <2>2, <2>3 DEF OnboardingStep
<1>2. CASE OnboardingRequest(c)
  BY <1>2, Zenon DEF OnboardingRequest, MemberRequest, FormRequest, SubmitVisit, SubmitItem, AcknowledgeDocument, UpdateDirectiveStatus,
             OnboardingAdminRequest, ReviewRequest, AddressVisitRequest, DirectiveRequest, UpdateOnboardingItem, RequestVerification,
             CancelVerification, DeleteDirective, CreateDirective, CreateDocument, SetTypeActive, RemoveDocument, HandleWebhook, Offices
<1> QED BY <1>1, <1>2 DEF OnboardingNext

LEMMA PartsKeep ==
    ASSUME SessionsInv, NEW c \in Callers, OnboardingNext(c) \/ VerificationNext(c) \/ CampaignsNext(c) \/ Dies(c), Handled'
    PROVE  SessionsInv'
<1>1. UNCHANGED accounts
  BY OnboardingAway, Zenon DEF VerificationNext, CampaignsNext, Dies
<1>2. Shape
  BY DEF SessionsInv, Handled
<1>3. PICK S : Acts(c, S) /\ S \cap (EnteringStages \cup MakingStages) = {}
  BY <1>2, OnboardingActs, VerificationActs, CampaignsActs, DiesActs, PartsElsewhere
<1>4. Apart(c)
  BY <1>1, <1>3, SomewhereElse, AccountsLeft DEF accounts
<1> QED BY <1>3, <1>4, ApartKeeps

-----------------------------------------------------------------------------
(* Time.                                                                   *)

LEMMA TimeKeeps ==
    ASSUME SessionsInv, Time, Handled'
    PROVE  SessionsInv'
<1>1. UNCHANGED handlers
  BY TimeWaits
<1>2. UNCHANGED <<account, tokens, secrets, issued, mailed>> /\ (profile' = profile \/ \E u : profile' = [profile EXCEPT ![u] = NoProfile])
  <2>1. CASE \E u \in Users : ProfileExpires(u)
    BY <2>1 DEF ProfileExpires
  <2>2. CASE \/ (\E r \in AdminRoles : PermissionsExpire(r)) \/ (\E u \in Users : LockExpires(u))
             \/ (\E s \in Members : CopyExpires(s)) \/ \E n \in Nins : CooldownEnds(n)
    BY <2>2, Zenon DEF PermissionsExpire, LockExpires, CopyExpires, CooldownEnds, Others, Elsewhere, accounts
  <2> QED BY <2>1, <2>2, Zenon DEF Time, accounts
<1>3. Tables'
  BY <1>2, OneProfile DEF SessionsInv, Tables, AccountsTypeOK
<1>4. calls' = calls /\ overlapped' = overlapped
  BY <1>1 DEF handlers
<1>5. LineInv' /\ SessionCalm'
  BY <1>2, <1>4 DEF SessionsInv, LineInv, SessionCalm
<1>6. \A c \in Callers : SessionCall(calls'[c])
  BY <1>4 DEF SessionsInv
<1> QED BY <1>3, <1>5, <1>6 DEF SessionsInv

-----------------------------------------------------------------------------
(* The theorem.                                                            *)

LEMMA SessionsInit ==
    ASSUME Init
    PROVE  SessionsInv
<1>1. Handled
  BY HandledInit DEF Init
<1>2. /\ \A c \in Callers : calls[c].stage = "idle"
      /\ tokens = {} /\ issued = {} /\ mailed = {} /\ secrets = 0 /\ profile = [u \in Users |-> NoProfile]
  BY DEF Init, HandlersInit, Idle, AccountsInit
<1>3. \A c \in Callers : SessionCall(calls[c]) /\ ~Issues(calls[c])
  BY <1>2, SomethingElse DEF EnteringStages, MakingStages
<1>4. Tables
  <2> DEFINE row == [NoAccount EXCEPT !.role = "ADMIN", !.active = TRUE, !.verified = TRUE, !.password = TRUE,
                                      !.adminRole = FirstRole]
  <2>1. FirstRole \in AdminRoles
    BY AccountsAssumption DEF FirstRole
  <2>2. row \in AccountRows /\ row.session = 0 /\ NoAccount \in AccountRows /\ NoAccount.session = 0
    BY <2>1 DEF NoAccount, AccountRows
  <2>3. account = [u \in Users |-> IF u \in Known THEN row ELSE NoAccount]
    BY DEF Init, AccountsInit
  <2> HIDE DEF row
  <2>4. account \in [Users -> AccountRows] /\ \A u \in Users : account[u].session = 0
    BY <2>2, <2>3
  <2> QED BY <1>2, <2>4 DEF Tables, AccountsTypeOK
<1>5. LineInv /\ SessionCalm
  BY <1>2, <1>3 DEF LineInv, SessionCalm
<1> QED BY <1>1, <1>3, <1>4, <1>5 DEF SessionsInv

LEMMA SessionsStep ==
    ASSUME SessionsInv, [Next]_vars
    PROVE  SessionsInv'
<1>1. Handled'
  BY HandledStays DEF SessionsInv
<1>2. ASSUME NEW c \in Callers,
             AccountsNext(c) \/ RolesNext(c) \/ CredentialsNext(c) \/ StaffNext(c) \/ HiringNext(c)
      PROVE  SessionsInv'
  BY <1>1, <1>2, AccountsKeeps, RolesKeeps, CredentialsKeeps, StaffKeeps, HiringKeeps
<1>3. ASSUME NEW c \in Callers, OnboardingNext(c) \/ VerificationNext(c) \/ CampaignsNext(c) \/ Dies(c)
      PROVE  SessionsInv'
  BY <1>1, <1>3, PartsKeep
<1>4. CASE Time
  BY <1>1, <1>4, TimeKeeps
<1>5. CASE UNCHANGED vars
  <2>1. UNCHANGED <<calls, overlapped, account, tokens, profile, secrets, issued, mailed>>
    BY <1>5, Zenon DEF vars, handlers, accounts
  <2>2. Tables' /\ LineInv' /\ SessionCalm'
    BY <2>1 DEF SessionsInv, Tables, AccountsTypeOK, LineInv, SessionCalm
  <2> QED BY <1>1, <2>1, <2>2 DEF SessionsInv
<1> QED BY <1>2, <1>3, <1>4, <1>5 DEF Next

\* A refresh token is good for one successor, and is of the session that its account has, unless
\* two handlers overlapped: the accounts of AuthService and TokenService, with everything else of
\* the office going on, whoever dies in between.
THEOREM SessionsAreKept == Spec => []SessionsKept
<1>1. SessionsInv => SessionsKept
  <2>1. SessionsInv => AccountsTypeOK /\ TokensDontFork
    BY DEF SessionsInv, Tables, LineInv, TokensDontFork
  <2>2. SessionsInv => TokensAreOfTheSession
    BY DEF SessionsInv, SessionCalm, TokensAreOfTheSession
  <2> QED BY <2>1, <2>2 DEF SessionsKept
<1> QED BY <1>1, SessionsInit, SessionsStep, PTL DEF Spec
-----------------------------------------------------------------------------
(* Where a handler stands when it takes a step.                            *)

\* Where handler c stands that takes a step: at a stage of the part, or nowhere yet.
Stands(c, stages) == calls[c].stage \in stages \cup {"idle"}

LEMMA AccountsStands ==
    ASSUME NEW c \in Callers, AccountsNext(c)
    PROVE  Stands(c, AccountsStages)
<1>1. CASE Ready(c)
  BY <1>1 DEF Ready, Stands, At
<1>2. CASE AccountsStep(c)
  <2> USE AccountsStagesAre
  <2>1. CASE Rotate(c) \/ Forget(c) \/ Issue(c) \/ CreateAccount(c) \/ MailCode(c) \/ WriteOtp(c)
    BY <2>1, Zenon DEF Rotate, Forget, Issue, CreateAccount, MailCode, WriteOtp, Stands, At
  <2>2. CASE WriteVerified(c) \/ LinkGoogle(c) \/ CheckStatus(c) \/ SpendToken(c) \/ DropProfile(c)
    BY <2>2, Zenon DEF WriteVerified, LinkGoogle, CheckStatus, SpendToken, DropProfile, Stands, At
  <2> QED BY <1>2, <2>1, <2>2 DEF AccountsStep
<1> QED BY <1>1, <1>2 DEF AccountsNext

LEMMA RolesStands ==
    ASSUME NEW c \in Callers, RolesNext(c)
    PROVE  Stands(c, RolesStages)
<1>1. CASE Ready(c)
  BY <1>1 DEF Ready, Stands, At
<1>2. CASE RolesStep(c)
  <2> USE RolesStagesAre
  <2>1. CASE DropPermissions(c) \/ DeleteRole(c) \/ InsertAdmin(c) \/ WriteRole(c) \/ DropThenLog(c) \/ LogAssignment(c)
    BY <2>1, Zenon DEF DropPermissions, DeleteRole, InsertAdmin, WriteRole, DropThenLog, LogAssignment, Stands, At
  <2>2. CASE InsertUserRole(c) \/ CacheProfile(c) \/ Judge(c) \/ CachePermissions(c)
    BY <2>2, Zenon DEF InsertUserRole, CacheProfile, Judge, CachePermissions, Stands, At
  <2> QED BY <1>2, <2>1, <2>2 DEF RolesStep
<1> QED BY <1>1, <1>2 DEF RolesNext

LEMMA CredentialsStands ==
    ASSUME NEW c \in Callers, CredentialsNext(c)
    PROVE  Stands(c, CredentialsStages)
<1>1. CASE Ready(c)
  BY <1>1 DEF Ready, Stands, At
<1>2. CASE CredentialsStep(c)
  <2> USE CredentialsStagesAre
  <2>1. CASE WriteReset(c) \/ WritePassword(c) \/ StorePin(c) \/ ClearPinLock(c) \/ CountFailure(c) \/ LockPin(c)
    BY <2>1, Zenon DEF WriteReset, WritePassword, StorePin, ClearPinLock, CountFailure, LockPin, CountFailureUpTo, Stands, At
  <2>2. CASE LockInRedis(c) \/ WritePhone(c) \/ WritePhoneProof(c) \/ WriteDefault(c)
         \/ (\E a \in Addresses : InsertAddress(c, a) \/ WriteDeletion(c, a))
    BY <2>2, Zenon DEF LockInRedis, WritePhone, WritePhoneProof, WriteDefault, InsertAddress, WriteDeletion, Stands, At
  <2> QED BY <1>2, <2>1, <2>2 DEF CredentialsStep
<1> QED BY <1>1, <1>2 DEF CredentialsNext

LEMMA StaffStands ==
    ASSUME NEW c \in Callers, StaffNext(c)
    PROVE  Stands(c, StaffStages)
<1>1. CASE Ready(c)
  BY <1>1 DEF Ready, Stands, At
<1>2. CASE StaffStep(c)
  <2> USE StaffStagesAre
  <2>1. CASE Fill(c) \/ DropCopy(c) \/ ReadOpen(c) \/ WriteDetails(c) \/ WriteStatus(c) \/ WriteRestored(c)
    BY <2>1, Zenon DEF Fill, DropCopy, ReadOpen, WriteDetails, WriteStatus, WriteRestored, Stands, At
  <2>2. CASE WriteTransfer(c) \/ WritePosition(c) \/ WriteRow(c) \/ DeleteRow(c) \/ WriteBranch(c) \/ DropCopies(c)
    BY <2>2, Zenon DEF WriteTransfer, WritePosition, WriteRow, DeleteRow, WriteBranch, DropCopies, Stands, At
  <2>3. CASE RemoveBranch(c) \/ CreateLinkedUser(c) \/ WriteLink(c) \/ SetUpLinked(c) \/ (\E s \in Members : Claim(c, s)
         \/ \E day \in Days : InsertMember(c, s, day)) \/ (\E queued \in BOOLEAN : Greet(c, queued))
    BY <2>3, Zenon DEF RemoveBranch, CreateLinkedUser, WriteLink, SetUpLinked, Claim, InsertMember, Greet, Stands, At
  <2> QED BY <1>2, <2>1, <2>2, <2>3 DEF StaffStep
<1> QED BY <1>1, <1>2 DEF StaffNext

LEMMA HiringStands ==
    ASSUME NEW c \in Callers, HiringNext(c)
    PROVE  Stands(c, HiringStages)
<1>1. CASE Ready(c)
  BY <1>1 DEF Ready, Stands, At
<1>2. CASE HiringStep(c)
  <2> USE HiringStagesAre
  <2>1. CASE CheckCooldown(c) \/ RecordAttempt(c) \/ (\E confirmed \in BOOLEAN : LookUp(c, confirmed))
         \/ (\E a \in Applications : WriteDraft(c, a) \/ WriteSubmission(c, a)) \/ WriteApplicantOtp(c) \/ SpendOtp(c)
    BY <2>1, Zenon DEF CheckCooldown, RecordAttempt, LookUp, WriteDraft, WriteSubmission, WriteApplicantOtp, SpendOtp,
           Stands, At
  <2>2. CASE WriteApplication(c) \/ WriteApproval(c) \/ WriteOffer(c) \/ WriteResponse(c)
         \/ (\E s \in Members : JudgeOther(c, s) \/ LookAgain(c, s)) \/ FindAccount(c)
    BY <2>2, Zenon DEF WriteApplication, WriteApproval, WriteOffer, WriteResponse, JudgeOther, LookAgain, FindAccount,
           Stands, At
  <2>3. CASE CreateEmployee(c) \/ CheckMember(c) \/ SetPay(c) \/ Employ(c) \/ SetUpEmployee(c) \/ WriteCompensation(c)
    BY <2>3, Zenon DEF CreateEmployee, CheckMember, SetPay, Employ, SetUpEmployee, WriteCompensation, Stands, At
  <2>4. CASE WriteCommission(c) \/ WriteBackfill(c) \/ WritePosting(c) \/ DropPostings(c) \/ Show(c)
    BY <2>4, Zenon DEF WriteCommission, WriteBackfill, WritePosting, DropPostings, Show, Stands, At
  <2> QED BY <1>2, <2>1, <2>2, <2>3, <2>4 DEF HiringStep
<1> QED BY <1>1, <1>2 DEF HiringNext

LEMMA OnboardingStands ==
    ASSUME NEW c \in Callers, OnboardingNext(c)
    PROVE  Stands(c, OnboardingStages)
<1>1. CASE Ready(c)
  BY <1>1 DEF Ready, Stands, At
<1>2. CASE OnboardingStep(c)
  <2> USE OnboardingStagesAre
  <2>1. CASE MarkOnboardingSubmitted(c) \/ WriteReview(c) \/ WriteRequest(c) \/ ResetItem(c) \/ AskService(c)
         \/ WriteVisitAsked(c)
    BY <2>1, Zenon DEF MarkOnboardingSubmitted, WriteReview, WriteRequest, ResetItem, AskService, WriteVisitAsked, Stands, At
  <2>2. CASE MarkVisit(c) \/ WriteCancellation(c) \/ WriteResult(c) \/ CompleteVisit(c) \/ Retire(c) \/ AddDocument(c)
    BY <2>2, Zenon DEF MarkVisit, WriteCancellation, WriteResult, CompleteVisit, Retire, AddDocument, Stands, At
  <2>3. CASE DeleteDocument(c) \/ WriteAcknowledgment(c) \/ CountDocuments(c) \/ CompletePolicy(c) \/ WriteDirective(c)
    BY <2>3, Zenon DEF DeleteDocument, WriteAcknowledgment, CountDocuments, CompletePolicy, WriteDirective, Stands, At
  <2> QED BY <1>2, <2>1, <2>2, <2>3 DEF OnboardingStep
<1> QED BY <1>1, <1>2 DEF OnboardingNext

LEMMA VerificationStands ==
    ASSUME NEW c \in Callers, VerificationNext(c)
    PROVE  Stands(c, VerificationStages)
<1>1. CASE Ready(c)
  BY <1>1 DEF Ready, Stands, At
<1>2. CASE VerificationStep(c)
  <2> USE VerificationStagesAre
  <2>1. CASE AskForSession(c) \/ WriteSession(c) \/ WriteKyc(c) \/ EnqueueProfilePhoto(c) \/ WriteVerdict(c) \/ WriteProfile(c)
    BY <2>1, Zenon DEF AskForSession, WriteSession, WriteKyc, EnqueueProfilePhoto, WriteVerdict, WriteProfile, Stands, At
  <2>2. CASE WriteProfileSubmission(c) \/ WriteVideo(c) \/ WriteProfileApproval(c) \/ WriteProfileRejection(c)
         \/ DeleteVideo(c) \/ TakeOffIndex(c)
    BY <2>2, Zenon DEF WriteProfileSubmission, WriteVideo, WriteProfileApproval, WriteProfileRejection, DeleteVideo,
           TakeOffIndex, Stands, At
  <2>3. CASE WriteAvailability(c) \/ PutOnIndex(c) \/ WriteLocation(c) \/ IndexAll(c) \/ WriteNoShow(c) \/ WriteSuspension(c)
    BY <2>3, Zenon DEF WriteAvailability, PutOnIndex, WriteLocation, IndexAll, WriteNoShow, WriteSuspension, Stands, At
  <2>4. CASE TakeSuspendedOff(c) \/ ScheduleProbationLift(c) \/ WriteReinstatement(c) \/ CancelProbationJob(c)
         \/ WriteLift(c) \/ EndLift(c)
    BY <2>4, Zenon DEF TakeSuspendedOff, ScheduleProbationLift, WriteReinstatement, CancelProbationJob, WriteLift, EndLift,
           Stands, At
  <2>5. CASE ReadOffered(c) \/ WriteRelease(c) \/ IndexRelease(c) \/ WriteOffered(c) \/ BringOnline(c) \/ WriteOnJob(c)
         \/ LeaveIndex(c)
    BY <2>5, Zenon DEF ReadOffered, WriteRelease, IndexRelease, WriteOffered, BringOnline, WriteOnJob, LeaveIndex, Stands, At
  <2> QED BY <1>2, <2>1, <2>2, <2>3, <2>4, <2>5 DEF VerificationStep
<1> QED BY <1>1, <1>2 DEF VerificationNext

LEMMA CampaignsStands ==
    ASSUME NEW c \in Callers, CampaignsNext(c)
    PROVE  Stands(c, CampaignsStages)
<1>1. CASE Ready(c)
  BY <1>1 DEF Ready, Stands, At
<1>2. CASE CampaignsStep(c)
  <2> USE CampaignsStagesAre
  <2>1. CASE NoteTransition(c) \/ RememberLifecycle(c) \/ NextBatch(c) \/ EndRun(c) \/ HandleTransition(c)
         \/ ConsiderTemplate(c)
    BY <2>1, Zenon DEF NoteTransition, RememberLifecycle, NextBatch, EndRun, HandleTransition, ConsiderTemplate, Stands, At
  <2>2. CASE handleSequence(c) \/ canSend(c) \/ Give(c) \/ RecordTemplate(c) \/ RecordStep(c) \/ FinishTransition(c)
    BY <2>2, Zenon DEF handleSequence, canSend, Give, RecordTemplate, RecordStep, Stop, FinishTransition, Stands, At
  <2>3. CASE WriteTemplate(c)
    BY <2>3, Zenon DEF WriteTemplate, Stands, At
  <2> QED BY <1>2, <2>1, <2>2, <2>3 DEF CampaignsStep
<1> QED BY <1>1, <1>2 DEF CampaignsNext

-----------------------------------------------------------------------------
(* Rights.  What holds of the two caches and of the audit log while        *)
(* handlers come one after the other: a copy is either true, or the one    *)
(* handler that runs is about to drop it.                                  *)

\* What handlers of roles carry.
OnUsers == {"add_role", "assign_role", "drop_then_log", "judge", "load_permissions", "load_profile", "log"}
Logging == {"drop_then_log", "log"}
Dropping == {"drop_profile", "forget", "drop_then_log"}

RightsCall(call) ==
    LET saw == call.saw IN
    /\ call.stage \in OnUsers => call.on \in Users
    /\ call.stage \in Logging => saw \in AdminRoles
    /\ call.stage = "add_role" => saw.role \in AdminRoles
    /\ call.stage = "judge" => saw.row \in Profiles
    /\ call.stage = "load_permissions" => /\ DOMAIN saw.load \subseteq AdminRoles
                                          /\ \A r \in DOMAIN saw.load : saw.load[r] \in SUBSET Permissions

CopyTrue(u)  == profile[u] = NoProfile \/ (HasAccount(u) /\ profile[u] = ProfileOf(u))
GrantTrue(r) == granted[r] = NotCached \/ granted[r] = Grants(r)
AuditTrue(u) == audit[u] = "none" \/ account[u].adminRole = audit[u] \/ account[u].adminRole = "none"

\* What a handler read still holds: the profile of a request, its permissions, the role assigned.
Informed(c) ==
    LET on == calls[c].on  saw == calls[c].saw IN
    /\ calls[c].stage \in {"judge", "load_profile"} => HasAccount(on) /\ saw.row = ProfileOf(on)
    /\ At(c, "load_permissions") =>
          /\ saw.cached \cup UNION {saw.load[r] : r \in DOMAIN saw.load} = Rights(on, saw.session)
          /\ \A r \in DOMAIN saw.load : saw.load[r] = Grants(r)
    /\ At(c, "assign_role") => saw.kind = "same"
    /\ calls[c].stage \in Logging => saw = account[on].adminRole

\* The same with nobody but c in the middle of anything.
CopiesTrue(c) == \A u \in Users : CopyTrue(u) \/ (calls[c].stage \in Dropping /\ calls[c].on = u)
GrantsTrue(c) == \A r \in AdminRoles : GrantTrue(r) \/ (At(c, "drop_permissions") /\ calls[c].on = r)
LogTrue(c)    == \A u \in Users : AuditTrue(u) \/ (calls[c].stage \in Logging /\ calls[c].on = u)
Sound(c)      == ~misjudged /\ CopiesTrue(c) /\ GrantsTrue(c) /\ LogTrue(c) /\ Informed(c)
Unheld(c)     == stripped = {} /\ (At(c, "remove_role") => Holders(calls[c].on) = {})

RemovalCalm ==
    overlapped \/ (stripped = {} /\ \A c \in Callers : At(c, "remove_role") => Holders(calls[c].on) = {})

RightsCalm ==
    \/ overlapped \/ crashes > 0 \/ "staff_role" \in scenario
    \/ /\ ~misjudged
       /\ \A u \in Users : CopyTrue(u) \/ \E c \in Callers : calls[c].stage \in Dropping /\ calls[c].on = u
       /\ \A r \in AdminRoles : GrantTrue(r) \/ \E c \in Callers : At(c, "drop_permissions") /\ calls[c].on = r
       /\ \A u \in Users : AuditTrue(u) \/ \E c \in Callers : calls[c].stage \in Logging /\ calls[c].on = u
       /\ \A c \in Callers : Informed(c)

RightsInv == RolesTypeOK /\ crashes \in Nat /\ (\A c \in Callers : RightsCall(calls[c])) /\ RemovalCalm /\ RightsCalm

\* What a step of c has to show.
RightsGoOn(c) ==
    /\ RolesTypeOK' /\ RightsCall(calls'[c])
    /\ Unheld(c) => Unheld(c)'
    /\ Unheld(c) /\ Sound(c) /\ "staff_role" \notin scenario => Sound(c)'

LEMMA IdleInformed ==
    ASSUME NEW call, call.stage \notin OnUsers
    PROVE  RightsCall(call)
BY DEF RightsCall, OnUsers, Logging

LEMMA SoundBefore ==
    ASSUME RightsInv, NEW c \in Callers, ~overlapped, \A d \in Callers \ {c} : calls[d].stage = "idle"
    PROVE  Unheld(c) /\ (crashes = 0 /\ "staff_role" \notin scenario => Sound(c))
<1>1. Unheld(c)
  BY DEF RightsInv, RemovalCalm, Unheld
<1>2. ASSUME crashes = 0, "staff_role" \notin scenario
      PROVE  Sound(c)
  <2>1. \A d \in Callers \ {c} : calls[d].stage \notin Dropping /\ calls[d].stage \notin Logging /\ ~At(d, "drop_permissions")
    BY DEF Dropping, Logging, At
  <2> QED BY <1>2, <2>1 DEF RightsInv, RightsCalm, Sound, CopiesTrue, GrantsTrue, LogTrue
<1> QED BY <1>1, <1>2

LEMMA SoundAfter ==
    ASSUME NEW c \in Callers, Sound(c)', \A d \in Callers \ {c} : calls'[d].stage = "idle"
    PROVE  RightsCalm'
<1>1. \A d \in Callers \ {c} : Informed(d)'
  BY DEF Informed, Logging, At
<1> QED BY <1>1 DEF Sound, CopiesTrue, GrantsTrue, LogTrue, RightsCalm

LEMMA RightsStay ==
    ASSUME SessionsInv, RightsInv, NEW c \in Callers, NEW S, Acts(c, S), RightsGoOn(c)
    PROVE  RightsInv'
<1>1. Lone /\ crashes \in Nat
  BY DEF SessionsInv, Handled, RightsInv
<1>2. \A d \in Callers : RightsCall(calls'[d])
  <2>1. \A d \in Callers \ {c} : RightsCall(calls[d]) /\ calls'[d] = calls[d]
    BY DEF RightsInv, Acts
  <2> QED BY <2>1 DEF RightsGoOn
<1>3. CASE overlapped'
  BY <1>1, <1>2, <1>3 DEF RightsInv, RemovalCalm, RightsCalm, RightsGoOn, Acts
<1>4. CASE ~overlapped'
  <2>1. ~overlapped /\ \A d \in Callers \ {c} : calls[d].stage = "idle" /\ calls'[d].stage = "idle"
    BY <1>1, <1>4, Alone
  <2>2. Unheld(c) /\ (crashes = 0 /\ "staff_role" \notin scenario => Sound(c))
    BY <2>1, SoundBefore
  <2>3. Unheld(c)' /\ (crashes = 0 /\ "staff_role" \notin scenario => Sound(c)')
    BY <2>2 DEF RightsGoOn
  <2>4. RemovalCalm'
    BY <2>1, <2>3 DEF RemovalCalm, Unheld, At
  <2>5. RightsCalm'
    <3>1. CASE crashes' = 0 /\ "staff_role" \notin scenario
      <4>1. crashes = 0
        BY <1>1, <3>1 DEF Acts
      <4>2. Sound(c)'
        BY <2>3, <3>1, <4>1
      <4> QED BY <2>1, <4>2, SoundAfter
    <3>2. CASE ~(crashes' = 0 /\ "staff_role" \notin scenario)
      BY <1>1, <3>2 DEF Acts, RightsCalm
    <3> QED BY <3>1, <3>2
  <2> QED BY <1>1, <1>2, <2>4, <2>5 DEF RightsInv, RightsGoOn, Acts
<1> QED BY <1>3, <1>4

-----------------------------------------------------------------------------
(* Rights: the steps of the other parts.  What they do to an account is    *)
(* followed by the drop of its copy, or is nothing that the copy shows.    *)

SameView(old, new) ==
    new.role = old.role /\ new.active = old.active /\ new.session = old.session /\ new.adminRole = old.adminRole

DropsNext(c, u) == calls'[c].stage \in {"drop_profile", "forget"} /\ calls'[c].on = u

HarmlessRow(c, u, row) ==
    /\ row.adminRole = account[u].adminRole \/ row.adminRole = "none"
    /\ SameView(account[u], row) \/ ~HasAccount(u) \/ DropsNext(c, u)

Harmless(c) ==
    /\ UNCHANGED roles
    /\ calls[c].stage \notin RolesStages /\ calls'[c].stage \notin RolesStages
    /\ \A u \in Users : HarmlessRow(c, u, account'[u])
    /\ \A u \in Users : profile'[u] = profile[u] \/ profile'[u] = NoProfile
    /\ \A u \in Users : calls[c].stage \in {"drop_profile", "forget"} /\ calls[c].on = u => profile'[u] = NoProfile

LEMMA SameCopy ==
    ASSUME NEW u \in Users, SameView(account[u], account'[u]), profile'[u] = profile[u], CopyTrue(u)
    PROVE  CopyTrue(u)'
BY DEF SameView, CopyTrue, HasAccount, ProfileOf

LEMMA HarmlessSound ==
    ASSUME NEW c \in Callers, Harmless(c), Sound(c)
    PROVE  Sound(c)'
<1>1. /\ calls[c].stage \notin {"drop_permissions", "drop_then_log", "log", "judge", "load_profile", "load_permissions", "assign_role"}
      /\ calls'[c].stage \notin {"drop_permissions", "drop_then_log", "log", "judge", "load_profile", "load_permissions", "assign_role"}
  BY DEF Harmless, RolesStages
<1>2. ~misjudged'
  BY DEF Sound, Harmless, roles
<1>3. ASSUME NEW u \in Users
      PROVE  CopyTrue(u)' \/ (calls'[c].stage \in Dropping /\ calls'[c].on = u)
  <2>1. CASE profile'[u] = NoProfile
    BY <2>1 DEF CopyTrue
  <2>2. CASE DropsNext(c, u)
    BY <2>2 DEF DropsNext, Dropping
  <2>3. CASE profile'[u] # NoProfile /\ ~DropsNext(c, u)
    <3>1. profile'[u] = profile[u] /\ ~(calls[c].stage \in Dropping /\ calls[c].on = u)
      BY <1>1, <2>3 DEF Harmless, Dropping
    <3>2. CopyTrue(u) /\ HasAccount(u)
      BY <2>3, <3>1 DEF Sound, CopiesTrue, CopyTrue
    <3>3. SameView(account[u], account'[u])
      BY <2>3, <3>2 DEF Harmless, HarmlessRow
    <3> QED BY <3>1, <3>2, <3>3, SameCopy
  <2> QED BY <2>1, <2>2, <2>3
<1>4. GrantsTrue(c)'
  BY <1>1 DEF Sound, GrantsTrue, GrantTrue, Grants, Usable, Harmless, roles, At
<1>5. LogTrue(c)'
  <2> SUFFICES ASSUME NEW u \in Users
               PROVE  AuditTrue(u)'
    BY DEF LogTrue
  <2>1. AuditTrue(u)
    BY <1>1 DEF Sound, LogTrue, Logging
  <2>2. account'[u].adminRole = account[u].adminRole \/ account'[u].adminRole = "none"
    BY DEF Harmless, HarmlessRow
  <2> QED BY <2>1, <2>2 DEF AuditTrue, Harmless, roles
<1>6. Informed(c)'
  BY <1>1 DEF Informed, Logging, At
<1>7. CopiesTrue(c)'
  BY <1>3 DEF CopiesTrue
<1> QED BY <1>2, <1>4, <1>5, <1>6, <1>7 DEF Sound

LEMMA HarmlessGoesOn ==
    ASSUME RightsInv, NEW c \in Callers, Harmless(c)
    PROVE  RightsGoOn(c)
<1>1. RolesTypeOK'
  BY DEF RightsInv, RolesTypeOK, Harmless, roles
<1>2. calls'[c].stage \notin OnUsers /\ calls'[c].stage # "remove_role"
  BY DEF Harmless, RolesStages, OnUsers
<1>3. Unheld(c) => Unheld(c)'
  BY <1>2 DEF Unheld, Harmless, roles, At
<1> QED BY <1>1, <1>2, <1>3, IdleInformed, HarmlessSound DEF RightsGoOn

\* Where the parts stand and go on is no place of roles.
LEMMA Outside ==
    /\ AccountsStages \cap RolesStages = {}
    /\ CredentialsStages \cap RolesStages = {} /\ CredentialsGoes \cap RolesStages = {} /\ CredentialsPins \cap RolesStages = {}
    /\ StaffStages \cap RolesStages = {} /\ StaffGoes \cap RolesStages = {} /\ LinkGoes \cap RolesStages = {}
    /\ HiringStages \cap RolesStages = {} /\ HiringGoes \cap RolesStages = {} /\ FindGoes \cap RolesStages = {}
    /\ RegisterGoes \cap RolesStages = {}
    /\ OnboardingStages \cap RolesStages = {} /\ VerificationStages \cap RolesStages = {} /\ CampaignsStages \cap RolesStages = {}
    /\ {} \cap RolesStages = {} /\ "idle" \notin RolesStages
<1>1. /\ AccountsStages \cap RolesStages = {} /\ CredentialsStages \cap RolesStages = {} /\ CredentialsGoes \cap RolesStages = {}
      /\ CredentialsPins \cap RolesStages = {} /\ "idle" \notin RolesStages
  BY DEF AccountsStages, CredentialsStages, CredentialsGoes, CredentialsPins, RolesStages
<1>2. /\ StaffStages \cap RolesStages = {} /\ StaffGoes \cap RolesStages = {} /\ LinkGoes \cap RolesStages = {}
  BY DEF StaffStages, StaffGoes, LinkGoes, RolesStages
<1>3. /\ HiringStages \cap RolesStages = {} /\ HiringGoes \cap RolesStages = {} /\ FindGoes \cap RolesStages = {}
      /\ RegisterGoes \cap RolesStages = {}
  BY DEF HiringStages, HiringGoes, FindGoes, RegisterGoes, RolesStages
<1>4. OnboardingStages \cap RolesStages = {} /\ VerificationStages \cap RolesStages = {} /\ CampaignsStages \cap RolesStages = {}
  BY DEF OnboardingStages, VerificationStages, CampaignsStages, RolesStages
<1> QED BY <1>1, <1>2, <1>3, <1>4

\* One row is written, in another part, and no copy: what has to be shown of the row.
LEMMA OneRowHarmless ==
    ASSUME SessionsInv, NEW c \in Callers, UNCHANGED roles, calls[c].stage \notin RolesStages, calls'[c].stage \notin RolesStages,
           calls[c].stage \notin {"drop_profile", "forget"}, profile' = profile,
           account' = account \/ \E u, row : (u \in Users => HarmlessRow(c, u, row)) /\ account' = [account EXCEPT ![u] = row]
    PROVE  Harmless(c)
<1>1. account \in [Users -> AccountRows]
  BY DEF SessionsInv, Tables, AccountsTypeOK
<1>2. \A u \in Users : HarmlessRow(c, u, account[u])
  BY DEF HarmlessRow, SameView
<1>3. \A u \in Users : HarmlessRow(c, u, account'[u])
  <2>1. CASE account' = account
    BY <1>2, <2>1
  <2>2. ASSUME NEW v, NEW row, v \in Users => HarmlessRow(c, v, row), account' = [account EXCEPT ![v] = row]
        PROVE  \A u \in Users : HarmlessRow(c, u, account'[u])
    <3>1. \A u \in Users : account'[u] = IF u = v THEN row ELSE account[u]
      BY <1>1, <2>2
    <3> QED BY <1>2, <2>2, <3>1
  <2> QED BY <2>1, <2>2
<1> QED BY <1>3 DEF Harmless

LEMMA HarmlessRows ==
    ASSUME SessionsInv, NEW c \in Callers, NEW u \in Users
    PROVE  /\ \A b \in BOOLEAN : HarmlessRow(c, u, [account[u] EXCEPT !.password = b]) /\ HarmlessRow(c, u, [account[u] EXCEPT !.google = b])
           /\ \A n \in Nat : HarmlessRow(c, u, [account[u] EXCEPT !.otp = n])
           /\ HarmlessRow(c, u, [account[u] EXCEPT !.verified = TRUE, !.otp = 0])
           /\ DropsNext(c, u) => /\ \A n \in Nat : HarmlessRow(c, u, [account[u] EXCEPT !.session = n])
                                 /\ \A b \in BOOLEAN : HarmlessRow(c, u, [account[u] EXCEPT !.active = b])
                                 /\ HarmlessRow(c, u, NoAccount)
           /\ ~HasAccount(u) => \A row : row.adminRole = "none" => HarmlessRow(c, u, row)
<1>1. account[u] \in AccountRows
  BY DEF SessionsInv, Tables, AccountsTypeOK
<1>2. NoAccount.adminRole = "none"
  BY DEF NoAccount
<1>3. /\ \A b \in BOOLEAN : SameView(account[u], [account[u] EXCEPT !.password = b]) /\ SameView(account[u], [account[u] EXCEPT !.google = b])
      /\ \A n \in Nat : SameView(account[u], [account[u] EXCEPT !.otp = n])
      /\ SameView(account[u], [account[u] EXCEPT !.verified = TRUE, !.otp = 0])
  BY <1>1 DEF AccountRows, SameView
<1>4. /\ \A n \in Nat : [account[u] EXCEPT !.session = n].adminRole = account[u].adminRole
      /\ \A b \in BOOLEAN : [account[u] EXCEPT !.active = b].adminRole = account[u].adminRole
  BY <1>1 DEF AccountRows
<1> QED BY <1>2, <1>3, <1>4 DEF HarmlessRow, SameView

\* The parts of a step of accounts.
LEMMA AccountsOutside ==
    ASSUME SessionsInv, NEW c \in Callers, AccountsNext(c)
    PROVE  UNCHANGED roles /\ calls[c].stage \notin RolesStages /\ calls'[c].stage \notin RolesStages
<1>1. UNCHANGED roles
  BY DEF AccountsNext
<1>2. Acts(c, AccountsStages) /\ Stands(c, AccountsStages)
  BY AccountsActs, AccountsStands DEF SessionsInv, Handled
<1> QED BY <1>1, <1>2, Outside DEF Acts, Stands

LEMMA SignInHarmless ==
    ASSUME SessionsInv, NEW c \in Callers, AccountsNext(c),
           Rotate(c) \/ Forget(c) \/ Issue(c) \/ MailCode(c) \/ CheckStatus(c) \/ SpendToken(c) \/ DropProfile(c)
    PROVE  Harmless(c)
<1> DEFINE u == calls[c].on
<1>0. UNCHANGED roles /\ calls[c].stage \notin RolesStages /\ calls'[c].stage \notin RolesStages
  BY AccountsOutside
<1>1. /\ Shape /\ SessionCall(calls[c]) /\ account \in [Users -> AccountRows] /\ profile = [v \in Users |-> profile[v]]
      /\ secrets \in Nat
  BY DEF SessionsInv, Handled, Tables, AccountsTypeOK
<1>2. CASE Rotate(c)
  <2>1. calls[c].stage = "rotate" /\ profile' = profile /\ u \in Users
    BY <1>1, <1>2 DEF Rotate, At, SessionCall, EntersCall, EnteringStages
  <2>2. \/ account' = account
        \/ /\ account' = [account EXCEPT ![u] = [account[u] EXCEPT !.session = New]]
           /\ Goto(c, "forget", [session |-> New, from |-> 0])
    BY <1>2 DEF Rotate
  <2>3. Goto(c, "forget", [session |-> New, from |-> 0]) => DropsNext(c, u)
    BY <1>1, Gone DEF DropsNext
  <2>4. DropsNext(c, u) => HarmlessRow(c, u, [account[u] EXCEPT !.session = New])
    <3>1. New \in Nat
      BY <1>1 DEF New
    <3> QED BY <2>1, <3>1, HarmlessRows
  <2> QED BY <1>0, <2>1, <2>2, <2>3, <2>4, OneRowHarmless
<1>3. CASE Forget(c) \/ DropProfile(c)
  <2>1. account' = account /\ profile' = [profile EXCEPT ![u] = NoProfile]
    BY <1>3 DEF Forget, DropProfile
  <2>2. \A v \in Users : profile'[v] = IF v = u THEN NoProfile ELSE profile[v]
    BY <1>1, <2>1
  <2>3. \A v \in Users : HarmlessRow(c, v, account'[v])
    BY <2>1 DEF HarmlessRow, SameView
  <2> QED BY <1>0, <2>2, <2>3 DEF Harmless
<1>4. CASE Issue(c) \/ MailCode(c) \/ CheckStatus(c) \/ SpendToken(c)
  <2>1. account' = account /\ profile' = profile /\ calls[c].stage \notin {"drop_profile", "forget"}
    BY <1>4 DEF Issue, MailCode, CheckStatus, SpendToken, At, accounts
  <2> QED BY <1>0, <2>1, OneRowHarmless
<1> QED BY <1>2, <1>3, <1>4

LEMMA SignUpHarmless ==
    ASSUME SessionsInv, NEW c \in Callers, AccountsNext(c),
           CreateAccount(c) \/ WriteOtp(c) \/ WriteVerified(c) \/ LinkGoogle(c)
    PROVE  Harmless(c)
<1> DEFINE u == calls[c].on
<1>0. UNCHANGED roles /\ calls[c].stage \notin RolesStages /\ calls'[c].stage \notin RolesStages
  BY AccountsOutside
<1>1. u \in Users /\ profile' = profile /\ calls[c].stage \notin {"drop_profile", "forget"} /\ secrets \in Nat
  <2>1. SessionCall(calls[c]) /\ secrets \in Nat
    BY DEF SessionsInv, Tables, AccountsTypeOK
  <2>2. calls[c].stage \in {"register", "resend", "verified", "link"} /\ profile' = profile
    BY DEF CreateAccount, WriteOtp, WriteVerified, LinkGoogle, At
  <2> QED BY <2>1, <2>2 DEF SessionCall, EntersCall, EnteringStages
<1>2. CASE CreateAccount(c)
  <2> DEFINE row == [NoAccount EXCEPT !.role = calls[c].saw, !.active = TRUE, !.password = TRUE, !.otp = New]
  <2>1. row.adminRole = "none"
    BY DEF NoAccount
  <2>2. account' = account \/ (~HasAccount(u) /\ account' = [account EXCEPT ![u] = row])
    BY <1>2, Zenon DEF CreateAccount
  <2> HIDE DEF row
  <2>3. ~HasAccount(u) => HarmlessRow(c, u, row)
    BY <1>1, <2>1, HarmlessRows
  <2> QED BY <1>0, <1>1, <2>2, <2>3, OneRowHarmless
<1>3. CASE WriteOtp(c)
  <2>1. account' = [account EXCEPT ![u] = [account[u] EXCEPT !.otp = New]]
    BY <1>3, SMTT(30) DEF WriteOtp
  <2>2. HarmlessRow(c, u, [account[u] EXCEPT !.otp = New])
    <3>1. New \in Nat
      BY <1>1 DEF New
    <3> QED BY <1>1, <3>1, HarmlessRows
  <2> QED BY <1>0, <1>1, <2>1, <2>2, OneRowHarmless
<1>4. CASE WriteVerified(c)
  <2>1. /\ account' = [account EXCEPT ![u] = [account[u] EXCEPT !.verified = TRUE, !.otp = 0]]
        /\ Goto(c, "rotate", 0) /\ UNCHANGED <<tokens, profile, secrets, issued, mailed>>
    BY <1>4 DEF WriteVerified
  <2> QED BY <1>0, <1>1, <2>1, HarmlessRows, OneRowHarmless
<1>5. CASE LinkGoogle(c)
  <2> DEFINE row == [NoAccount EXCEPT !.role = "USER", !.active = TRUE, !.verified = TRUE, !.google = TRUE]
  <2>1. row.adminRole = "none"
    BY DEF NoAccount
  <2>2. \/ UNCHANGED account
        \/ ~HasAccount(u) /\ account' = [account EXCEPT ![u] = row]
        \/ account' = [account EXCEPT ![u] = [account[u] EXCEPT !.google = TRUE]]
    BY <1>5 DEF LinkGoogle
  <2> HIDE DEF row
  <2>3. ~HasAccount(u) => HarmlessRow(c, u, row)
    BY <1>1, <2>1, HarmlessRows
  <2>4. HarmlessRow(c, u, [account[u] EXCEPT !.google = TRUE])
    BY <1>1, HarmlessRows
  <2> QED BY <1>0, <1>1, <2>2, <2>3, <2>4, OneRowHarmless
<1> QED BY <1>2, <1>3, <1>4, <1>5

LEMMA AccountsRequestHarmless ==
    ASSUME SessionsInv, NEW c \in Callers, AccountsNext(c), AccountsRequest(c), Ready(c)
    PROVE  Harmless(c)
<1>0. /\ UNCHANGED roles /\ calls[c].stage \notin RolesStages /\ calls'[c].stage \notin RolesStages
      /\ Shape /\ calls[c].stage \notin {"drop_profile", "forget"}
  BY AccountsOutside DEF SessionsInv, Handled, Ready, At
<1>1. CASE SignUpRequest(c) \/ OtpRequest(c) \/ SignInRequest(c)
  <2>1. UNCHANGED accounts
    BY <1>1, Zenon DEF SignUpRequest, OtpRequest, SignInRequest, Register, ResendOtp, VerifyOtp, Login, GoogleSignIn, RefreshToken
  <2> QED BY <1>0, <2>1, OneRowHarmless DEF accounts
<1>2. ASSUME NEW u \in Users, DeleteAdminUser(c, u)
      PROVE  Harmless(c)
  <2>1. Begin(c, "delete_user", "drop_profile", u, 0) /\ profile' = profile /\ account' = [account EXCEPT ![u] = NoAccount]
    BY <1>2, Zenon DEF DeleteAdminUser
  <2>2. DropsNext(c, u)
    BY <1>0, <2>1, Starts DEF DropsNext
  <2> QED BY <1>0, <2>1, <2>2, HarmlessRows, OneRowHarmless
<1>3. ASSUME NEW u \in Users, NEW active \in BOOLEAN, UpdateUserStatus(c, u, active)
      PROVE  Harmless(c)
  <2>1. /\ Begin(c, "status", "drop_profile", u, 0) /\ profile' = profile
        /\ account' = [account EXCEPT ![u] = [account[u] EXCEPT !.active = active]]
    BY <1>3, SMTT(30) DEF UpdateUserStatus
  <2>2. DropsNext(c, u)
    BY <1>0, <2>1, Starts DEF DropsNext
  <2>3. HarmlessRow(c, u, [account[u] EXCEPT !.active = active])
    BY <2>2, HarmlessRows
  <2> QED BY <1>0, <2>1, <2>3, OneRowHarmless
<1> QED BY <1>1, <1>2, <1>3 DEF AccountsRequest

LEMMA AccountsHarmless ==
    ASSUME SessionsInv, NEW c \in Callers, AccountsNext(c)
    PROVE  Harmless(c)
<1>1. CASE AccountsStep(c)
  BY <1>1, SignInHarmless, SignUpHarmless DEF AccountsStep
<1>2. CASE Ready(c) /\ AccountsRequest(c)
  BY <1>2, AccountsRequestHarmless
<1> QED BY <1>1, <1>2 DEF AccountsNext

LEMMA CredentialsHarmless ==
    ASSUME SessionsInv, NEW c \in Callers, CredentialsNext(c)
    PROVE  Harmless(c)
<1>1. calls[c].stage \in CredentialsStages \cup {"idle"} /\ calls'[c].stage \notin RolesStages /\ SessionCall(calls[c])
  BY CredentialsActs, CredentialsStands, Outside DEF SessionsInv, Handled, Acts, Stands
<1>2. calls[c].stage \notin RolesStages /\ calls[c].stage \notin {"drop_profile", "forget"}
  <2>1. "drop_profile" \notin CredentialsStages /\ "forget" \notin CredentialsStages
    BY DEF CredentialsStages
  <2> QED BY <1>1, <2>1, Outside
<1>3. \/ UNCHANGED <<account, profile, roles>> \/ WritePassword(c) \/ \E u \in Users : SetPassword(c, u)
  <2>1. CASE CredentialsStep(c)
    <3>1. CASE WriteReset(c) \/ WritePhone(c)
      BY <3>1, Zenon DEF WriteReset, WritePhone, OnlyAccount
    <3>2. UNCHANGED <<accounts, roles>> \/ WriteReset(c) \/ WritePhone(c) \/ WritePassword(c)
      BY <2>1, Zenon
         DEF CredentialsStep, StorePin, ClearPinLock, CountFailure, CountFailureUpTo, LockPin, LockInRedis, WritePhoneProof,
             WriteDefault, InsertAddress, WriteDeletion, OnlyAddresses
    <3> QED BY <3>1, <3>2 DEF accounts
  <2>2. CASE CredentialsRequest(c)
    <3>1. UNCHANGED <<accounts, roles>> \/ \E u \in Users : SetPassword(c, u)
      BY <2>2, Zenon
         DEF CredentialsRequest, PasswordRequest, PinRequest, PhoneRequest, AddressRequest, ForgotPassword, ResetPassword,
             SetPin, RightPin, WrongPin, RequestPhone, VerifyPhone, CreateAddress, MakeDefault, UpdateAddress, DeleteAddress,
             OnlyAddresses
    <3> QED BY <3>1 DEF accounts
  <2> QED BY <2>1, <2>2 DEF CredentialsNext
<1>4. CASE UNCHANGED <<account, profile, roles>>
  BY <1>1, <1>2, <1>4, OneRowHarmless
<1>5. ASSUME NEW u, NEW b \in BOOLEAN, UNCHANGED <<profile, roles>>,
             account' = [account EXCEPT ![u] = [account[u] EXCEPT !.password = b]]
      PROVE  Harmless(c)
  <2>1. u \in Users => HarmlessRow(c, u, [account[u] EXCEPT !.password = b])
    BY HarmlessRows
  <2> QED BY <1>1, <1>2, <1>5, <2>1, OneRowHarmless
<1>6. CASE WritePassword(c)
  <2> DEFINE u == calls[c].on
  <2>1. UNCHANGED <<profile, roles>> /\ account' = [account EXCEPT ![u] = [account[u] EXCEPT !.password = HasAccount(u)]]
    BY <1>6, SMTT(30) DEF WritePassword, OnlyAccount
  <2>2. HasAccount(u) \in BOOLEAN
    BY DEF HasAccount
  <2> QED BY <1>5, <2>1, <2>2
<1>7. ASSUME NEW u \in Users, SetPassword(c, u)
      PROVE  Harmless(c)
  <2>1. UNCHANGED <<profile, roles>> /\ account' = [account EXCEPT ![u] = [account[u] EXCEPT !.password = TRUE]]
    BY <1>7, SMTT(30) DEF SetPassword, OnlyAccount
  <2> QED BY <1>5, <2>1
<1> QED BY <1>3, <1>4, <1>6, <1>7

LEMMA CreateUserHarmless ==
    ASSUME SessionsInv, NEW c \in Callers, NEW next, CreateUser(c, next), calls[c].stage \notin {"drop_profile", "forget"},
           calls[c].stage \notin RolesStages, calls'[c].stage \notin RolesStages
    PROVE  Harmless(c)
<1> DEFINE u == calls[c].saw.user
           row == [NoAccount EXCEPT !.role = "STAFF", !.active = TRUE, !.password = TRUE, !.verified = calls[c].saw.verified]
<1>1. row.adminRole = "none"
  BY DEF NoAccount
<1>2. account' = account \/ (~HasAccount(u) /\ account' = [account EXCEPT ![u] = row])
  BY Zenon DEF CreateUser
<1>3. UNCHANGED <<profile, roles>>
  BY Zenon DEF CreateUser
<1> HIDE DEF row
<1>4. u \in Users /\ ~HasAccount(u) => HarmlessRow(c, u, row)
  BY <1>1, HarmlessRows
<1> QED BY <1>2, <1>3, <1>4, OneRowHarmless

\* The register and the applications: but for a new account, they leave accounts and roles alone.
LEMMA EmployersHarmless ==
    ASSUME SessionsInv, NEW c \in Callers, StaffNext(c) \/ HiringNext(c)
    PROVE  Harmless(c)
<1>1. calls[c].stage \in StaffStages \cup HiringStages \cup {"idle"} /\ calls'[c].stage \notin RolesStages
  BY StaffActs, StaffStands, HiringActs, HiringStands, Outside DEF SessionsInv, Handled, Acts, Stands
<1>2. calls[c].stage \notin RolesStages /\ calls[c].stage \notin {"drop_profile", "forget"}
  <2>1. "drop_profile" \notin StaffStages \cup HiringStages /\ "forget" \notin StaffStages \cup HiringStages
    BY DEF StaffStages, HiringStages
  <2> QED BY <1>1, <2>1, Outside
<1>3. ASSUME UNCHANGED <<account, profile, roles>>
      PROVE  Harmless(c)
  BY <1>1, <1>2, <1>3, OneRowHarmless
<1>4. CASE UNCHANGED Elsewhere
  BY <1>3, <1>4 DEF Elsewhere, accounts
<1>5. CASE CreateLinkedUser(c) \/ CreateEmployee(c)
  BY <1>1, <1>2, <1>5, CreateUserHarmless DEF CreateLinkedUser, CreateEmployee
<1>6. CASE SetUpLinked(c) \/ SetUpEmployee(c) \/ WriteApplicantOtp(c) \/ \E a \in Applications : WriteSubmission(c, a)
  <2>1. UNCHANGED <<account, profile, roles>>
    BY <1>6, Zenon DEF SetUpLinked, SetUpEmployee, WriteApplicantOtp, WriteSubmission, OnlyAccount
  <2> QED BY <1>3, <2>1
<1> QED BY <1>4, <1>5, <1>6, StaffAway, HiringAway

LEMMA PartsHarmless ==
    ASSUME SessionsInv, NEW c \in Callers, OnboardingNext(c) \/ VerificationNext(c) \/ CampaignsNext(c)
    PROVE  Harmless(c)
<1>1. UNCHANGED <<accounts, roles>>
  BY OnboardingAway, Zenon DEF VerificationNext, CampaignsNext
<1>2. /\ calls[c].stage \in OnboardingStages \cup VerificationStages \cup CampaignsStages \cup {"idle"}
      /\ calls'[c].stage \notin RolesStages
  BY OnboardingActs, OnboardingStands, VerificationActs, VerificationStands, CampaignsActs, CampaignsStands, Outside
     DEF SessionsInv, Handled, Acts, Stands
<1>3. calls[c].stage \notin RolesStages /\ calls[c].stage \notin {"drop_profile", "forget"}
  <2>1. {"drop_profile", "forget"} \cap (OnboardingStages \cup VerificationStages \cup CampaignsStages) = {}
    BY DEF OnboardingStages, VerificationStages, CampaignsStages
  <2> QED BY <1>2, <2>1, Outside
<1> QED BY <1>1, <1>2, <1>3, OneRowHarmless DEF accounts

LEMMA OthersKeepRights ==
    ASSUME SessionsInv, RightsInv, NEW c \in Callers,
           \/ AccountsNext(c) \/ CredentialsNext(c) \/ StaffNext(c) \/ HiringNext(c)
           \/ OnboardingNext(c) \/ VerificationNext(c) \/ CampaignsNext(c)
    PROVE  RightsInv'
<1>1. Harmless(c)
  BY AccountsHarmless, CredentialsHarmless, EmployersHarmless, PartsHarmless
<1>2. PICK S : Acts(c, S)
  BY SomebodyActs DEF SessionsInv, Handled
<1> QED BY <1>1, <1>2, HarmlessGoesOn, RightsStay

\* Who dies has taken no step: nothing is different but that nobody waits any longer, and what
\* holds only while nobody dies holds no more.
LEMMA DeathKeepsRights ==
    ASSUME SessionsInv, RightsInv, NEW c \in Callers, Dies(c)
    PROVE  RightsInv'
<1>1. UNCHANGED <<account, profile, roles>> /\ Shape
  BY Zenon DEF Dies, accounts, SessionsInv, Handled
<1>2. Acts(c, {}) /\ crashes' = crashes + 1 /\ overlapped' = overlapped /\ calls'[c].stage = "idle"
  BY <1>1, DiesActs DEF Dies, Crash, Acts
<1>3. \A d \in Callers : RightsCall(calls'[d])
  <2>1. \A d \in Callers \ {c} : RightsCall(calls[d]) /\ calls'[d] = calls[d]
    BY <1>2 DEF RightsInv, Acts
  <2>2. RightsCall(calls'[c])
    BY <1>2, IdleInformed DEF OnUsers
  <2> QED BY <2>1, <2>2
<1>4. RolesTypeOK' /\ crashes' \in Nat /\ crashes' > 0
  BY <1>1, <1>2 DEF RightsInv, RolesTypeOK, roles
<1>5. RemovalCalm'
  <2>1. \A d \in Callers \ {c} : calls'[d] = calls[d]
    BY <1>2 DEF Acts
  <2> QED BY <1>1, <1>2, <2>1 DEF RightsInv, RemovalCalm, Holders, roles, At
<1> QED BY <1>3, <1>4, <1>5 DEF RightsInv, RightsCalm

LEMMA TimeKeepsRights ==
    ASSUME SessionsInv, RightsInv, Time
    PROVE  RightsInv'
<1>1. UNCHANGED handlers
  BY TimeWaits
<1>2. UNCHANGED <<account, adminRole, second, audit, misjudged, stripped>>
  <2>1. CASE \/ (\E u \in Users : ProfileExpires(u) /\ UNCHANGED roles) \/ (\E r \in AdminRoles : PermissionsExpire(r))
             \/ (\E u \in Users : LockExpires(u)) \/ (\E s \in Members : CopyExpires(s)) \/ \E n \in Nins : CooldownEnds(n)
    BY <2>1, Zenon DEF ProfileExpires, PermissionsExpire, LockExpires, CopyExpires, CooldownEnds, Others, Elsewhere, accounts, roles
  <2> QED BY <2>1, Zenon DEF Time, accounts, roles
<1>3. /\ profile' = profile \/ \E u : profile' = [profile EXCEPT ![u] = NoProfile]
      /\ granted' = granted \/ \E r : granted' = [granted EXCEPT ![r] = NotCached]
  <2>1. CASE (\E u \in Users : ProfileExpires(u) /\ UNCHANGED roles) \/ (\E r \in AdminRoles : PermissionsExpire(r))
    BY <2>1, Zenon DEF ProfileExpires, PermissionsExpire, accounts, roles
  <2>2. CASE (\E u \in Users : LockExpires(u)) \/ (\E s \in Members : CopyExpires(s)) \/ \E n \in Nins : CooldownEnds(n)
    BY <2>2, Zenon DEF LockExpires, CopyExpires, CooldownEnds, Others, Elsewhere, accounts, roles
  <2> QED BY <2>1, <2>2, Zenon DEF Time, accounts, roles
<1>4. \A u \in Users : profile'[u] = profile[u] \/ profile'[u] = NoProfile
  BY <1>3 DEF SessionsInv, Tables
<1>5. \A r \in AdminRoles : granted'[r] = granted[r] \/ granted'[r] = NotCached
  BY <1>3 DEF RightsInv, RolesTypeOK
<1>6. RolesTypeOK'
  BY <1>2, <1>3 DEF RightsInv, RolesTypeOK
<1>7. UNCHANGED <<calls, overlapped, crashes, scenario>>
  BY <1>1 DEF handlers
<1>8. RemovalCalm' /\ \A c \in Callers : RightsCall(calls'[c])
  BY <1>2, <1>7 DEF RightsInv, RemovalCalm, Holders, At
<1>9. RightsCalm'
  <2>1. \A u \in Users : CopyTrue(u) => CopyTrue(u)'
    BY <1>2, <1>4 DEF CopyTrue, HasAccount, ProfileOf
  <2>2. \A r \in AdminRoles : GrantTrue(r) => GrantTrue(r)'
    BY <1>2, <1>5 DEF GrantTrue, Grants, Usable
  <2>3. \A c \in Callers : Informed(c) => Informed(c)'
    BY <1>2, <1>7 DEF Informed, At, HasAccount, ProfileOf, Rights, Grants, Usable, Holders
  <2>4. \A u \in Users : AuditTrue(u) => AuditTrue(u)'
    BY <1>2 DEF AuditTrue
  <2> QED BY <1>2, <1>7, <2>1, <2>2, <2>3, <2>4 DEF RightsInv, RightsCalm, At
<1> QED BY <1>6, <1>7, <1>8, <1>9 DEF RightsInv

-----------------------------------------------------------------------------
(* Rights: the steps of roles.                                             *)

Knowing == {"assign_role", "judge", "load_permissions", "load_profile"} \cup Logging

LEMMA CopiesStay ==
    ASSUME NEW c \in Callers, UNCHANGED <<account, profile>>, CopiesTrue(c),
           calls[c].stage \notin Dropping \/ (calls'[c].stage \in Dropping /\ calls'[c].on = calls[c].on)
    PROVE  CopiesTrue(c)'
BY DEF CopiesTrue, CopyTrue, HasAccount, ProfileOf

LEMMA GrantsStay ==
    ASSUME NEW c \in Callers, UNCHANGED <<adminRole, granted>>, GrantsTrue(c), ~At(c, "drop_permissions")
    PROVE  GrantsTrue(c)'
BY DEF GrantsTrue, GrantTrue, Grants, Usable

LEMMA LogStays ==
    ASSUME NEW c \in Callers, UNCHANGED <<account, audit>>, LogTrue(c),
           calls[c].stage \notin Logging \/ (calls'[c].stage \in Logging /\ calls'[c].on = calls[c].on)
    PROVE  LogTrue(c)'
BY DEF LogTrue, AuditTrue

LEMMA KnowsNothing ==
    ASSUME NEW c \in Callers, calls'[c].stage \notin Knowing
    PROVE  Informed(c)'
BY DEF Informed, Knowing, Logging, At

\* A request that writes nothing yet.
LEMMA AsksRights ==
    ASSUME RightsInv, NEW c \in Callers, Ready(c), UNCHANGED <<account, profile, roles>>, RightsCall(calls'[c]),
           calls'[c].stage = "remove_role" => Holders(calls'[c].on) = {},
           Sound(c) /\ "staff_role" \notin scenario => Informed(c)'
    PROVE  RightsGoOn(c)
<1>1. calls[c].stage = "idle" /\ UNCHANGED <<account, profile, adminRole, second, granted, audit, misjudged, stripped>>
  BY Zenon DEF Ready, At, roles
<1>2. RolesTypeOK'
  BY <1>1 DEF RightsInv, RolesTypeOK
<1>3. Unheld(c) => Unheld(c)'
  BY <1>1 DEF Unheld, Holders, At
<1>4. Sound(c) /\ "staff_role" \notin scenario => Sound(c)'
  BY <1>1, CopiesStay, GrantsStay, LogStays DEF Sound, Dropping, Logging, At
<1> QED BY <1>2, <1>3, <1>4 DEF RightsGoOn

LEMMA RoleRequestsGoOn ==
    ASSUME SessionsInv, RightsInv, NEW c \in Callers, Ready(c), RoleRequest(c)
    PROVE  RightsGoOn(c)
<1>0. Shape /\ calls[c].stage = "idle" /\ RolesTypeOK
  BY DEF SessionsInv, Handled, RightsInv, Ready, At
<1>1. ASSUME NEW r \in AdminRoles, NEW row \in RoleRows, adminRole' = [adminRole EXCEPT ![r] = row],
             UNCHANGED <<accounts, second, granted, audit, misjudged, stripped>>,
             \/ calls'[c].stage = "drop_permissions" /\ calls'[c].on = r
             \/ calls'[c].stage = "idle" /\ ~adminRole[r].there /\ row.grants = {}
      PROVE  RightsGoOn(c)
  <2>1. RolesTypeOK'
    BY <1>0, <1>1 DEF RolesTypeOK
  <2>2. RightsCall(calls'[c]) /\ calls'[c].stage \notin Knowing /\ (Unheld(c) => Unheld(c)')
    BY <1>1, IdleInformed DEF OnUsers, Knowing, Logging, Unheld, At
  <2>3. ASSUME Sound(c)
        PROVE  Sound(c)'
    <3>1. CopiesTrue(c)' /\ LogTrue(c)'
      BY <1>0, <1>1, <2>3, CopiesStay, LogStays DEF Sound, Dropping, Logging, accounts
    <3>2. ASSUME NEW q \in AdminRoles
          PROVE  GrantTrue(q)' \/ (calls'[c].stage = "drop_permissions" /\ calls'[c].on = q)
      <4>1. GrantTrue(q)
        BY <1>0, <2>3 DEF Sound, GrantsTrue, At
      <4>2. CASE q # r
        BY <1>0, <1>1, <4>1, <4>2 DEF GrantTrue, Grants, Usable, RolesTypeOK
      <4>3. CASE q = r /\ ~adminRole[r].there /\ row.grants = {}
        BY <1>0, <1>1, <4>1, <4>3 DEF GrantTrue, Grants, Usable, RolesTypeOK
      <4> QED BY <1>1, <4>2, <4>3
    <3>3. GrantsTrue(c)'
      BY <3>2 DEF GrantsTrue, At
    <3>4. ~misjudged'
      BY <1>1, <2>3 DEF Sound
    <3> QED BY <2>2, <3>1, <3>3, <3>4, KnowsNothing DEF Sound
  <2> QED BY <2>1, <2>2, <2>3 DEF RightsGoOn
<1>2. ASSUME NEW r \in AdminRoles, CreateRole(c, r)
      PROVE  RightsGoOn(c)
  <2>1. /\ ~adminRole[r].there /\ calls' = calls
        /\ adminRole' = [adminRole EXCEPT ![r] = [there |-> TRUE, active |-> TRUE, grants |-> {}]]
        /\ UNCHANGED <<accounts, second, granted, audit, misjudged, stripped>>
    BY <1>2, Zenon DEF CreateRole, Once
  <2>2. [there |-> TRUE, active |-> TRUE, grants |-> {}] \in RoleRows
    BY DEF RoleRows
  <2> QED BY <1>0, <1>1, <2>1, <2>2
<1>3. ASSUME NEW r \in AdminRoles, NEW active \in BOOLEAN, SetActive(c, r, active)
      PROVE  RightsGoOn(c)
  <2>1. /\ Begin(c, "roles", "drop_permissions", r, 0) /\ adminRole' = [adminRole EXCEPT ![r] = [adminRole[r] EXCEPT !.active = active]]
        /\ UNCHANGED <<accounts, second, granted, audit, misjudged, stripped>>
    BY <1>3, SMTT(30) DEF SetActive
  <2>2. [adminRole[r] EXCEPT !.active = active] \in RoleRows
    BY <1>0 DEF RoleRows, RolesTypeOK
  <2>3. calls'[c].stage = "drop_permissions" /\ calls'[c].on = r
    BY <1>0, <2>1, Starts
  <2> QED BY <1>1, <2>1, <2>2, <2>3
<1>4. ASSUME NEW r \in AdminRoles, NEW ps \in SUBSET Permissions, SetPermissions(c, r, ps)
      PROVE  RightsGoOn(c)
  <2>1. /\ Begin(c, "roles", "drop_permissions", r, 0) /\ adminRole' = [adminRole EXCEPT ![r] = [adminRole[r] EXCEPT !.grants = ps]]
        /\ UNCHANGED <<accounts, second, granted, audit, misjudged, stripped>>
    BY <1>4, SMTT(30) DEF SetPermissions
  <2>2. [adminRole[r] EXCEPT !.grants = ps] \in RoleRows
    BY <1>0 DEF RoleRows, RolesTypeOK
  <2>3. calls'[c].stage = "drop_permissions" /\ calls'[c].on = r
    BY <1>0, <2>1, Starts
  <2> QED BY <1>1, <2>1, <2>2, <2>3
<1>5. ASSUME NEW r \in AdminRoles, RemoveRole(c, r)
      PROVE  RightsGoOn(c)
  <2>1. Begin(c, "roles", "remove_role", r, 0) /\ UNCHANGED <<accounts, roles>> /\ Holders(r) = {}
    BY <1>5, Zenon DEF RemoveRole
  <2>2. calls'[c].stage = "remove_role" /\ calls'[c].on = r
    BY <1>0, <2>1, Starts
  <2>3. RightsCall(calls'[c]) /\ calls'[c].stage \notin Knowing
    BY <2>2, IdleInformed DEF OnUsers, Knowing, Logging
  <2> QED BY <2>1, <2>2, <2>3, KnowsNothing, AsksRights DEF accounts
<1> QED BY <1>2, <1>3, <1>4, <1>5 DEF RoleRequest

LEMMA GrantRequestsGoOn ==
    ASSUME SessionsInv, RightsInv, NEW c \in Callers, Ready(c), GrantRequest(c)
    PROVE  RightsGoOn(c)
<1>0. Shape /\ calls[c].stage = "idle" /\ RolesTypeOK
  BY DEF SessionsInv, Handled, RightsInv, Ready, At
<1>1. ASSUME NEW u \in Users, NEW r \in AdminRoles, RemoveUserRole(c, u, r)
      PROVE  RightsGoOn(c)
  <2>1. /\ Begin(c, "grants", "drop_profile", u, 0) /\ second' = [second EXCEPT ![u] = second[u] \ {r}]
        /\ UNCHANGED <<account, profile, adminRole, granted, audit, misjudged, stripped>>
    BY <1>1, SMTT(30) DEF RemoveUserRole, accounts
  <2>2. calls'[c].stage = "drop_profile"
    BY <1>0, <2>1, Starts
  <2>3. RolesTypeOK'
    BY <1>0, <2>1 DEF RolesTypeOK
  <2>4. RightsCall(calls'[c]) /\ calls'[c].stage \notin Knowing /\ (Unheld(c) => Unheld(c)')
    BY <2>1, <2>2, IdleInformed DEF OnUsers, Knowing, Logging, Unheld, At
  <2>5. Sound(c) => Sound(c)'
    BY <1>0, <2>1, <2>4, CopiesStay, GrantsStay, LogStays, KnowsNothing DEF Sound, Dropping, Logging, At
  <2> QED BY <2>3, <2>4, <2>5 DEF RightsGoOn
<1>2. ASSUME NEW u \in Users, NEW r \in AdminRoles, NEW op, AddUserRole(c, u, r, op)
      PROVE  RightsGoOn(c)
  <2>1. Begin(c, op, "add_role", u, [role |-> r, drop |-> op = "grants"]) /\ UNCHANGED <<accounts, roles>>
    BY <1>2, Zenon DEF AddUserRole
  <2>2. calls'[c].stage = "add_role" /\ calls'[c].on = u /\ calls'[c].saw.role = r
    BY <1>0, <2>1, Starts
  <2>3. RightsCall(calls'[c]) /\ calls'[c].stage \notin Knowing
    BY <2>2 DEF RightsCall, Knowing, Logging
  <2> QED BY <2>1, <2>2, <2>3, KnowsNothing, AsksRights DEF accounts
<1> QED BY <1>1, <1>2 DEF GrantRequest

LEMMA AdminUserRequestsGoOn ==
    ASSUME SessionsInv, RightsInv, NEW c \in Callers, Ready(c), AdminUserRequest(c) \/ \E u \in Users : RemoveStaffRole(c, u)
    PROVE  RightsGoOn(c)
<1>0. Shape /\ calls[c].stage = "idle" /\ RolesTypeOK
  BY DEF SessionsInv, Handled, RightsInv, Ready, At
<1>1. ASSUME NEW u \in Users, NEW r \in AdminRoles, CreateAdminUser(c, u, r)
      PROVE  RightsGoOn(c)
  <2>1. Begin(c, "admins", "create_admin", u, r) /\ UNCHANGED <<accounts, roles>>
    BY <1>1, Zenon DEF CreateAdminUser
  <2>2. calls'[c].stage = "create_admin"
    BY <1>0, <2>1, Starts
  <2>3. RightsCall(calls'[c]) /\ calls'[c].stage \notin Knowing
    BY <2>2, IdleInformed DEF OnUsers, Knowing, Logging
  <2> QED BY <2>1, <2>2, <2>3, KnowsNothing, AsksRights DEF accounts
<1>2. ASSUME NEW u \in Users, NEW r \in AdminRoles, NEW by \in {"users", "staff", "portal"}, AssignAdminRole(c, u, r, by)
      PROVE  RightsGoOn(c)
  <2> DEFINE kind == IF by = "portal" THEN "ADMIN" ELSE IF by = "staff" THEN "STAFF" ELSE "same"
             op == IF by = "users" THEN "grants" ELSE "staff_role"
  <2>1. Begin(c, op, "assign_role", u, [role |-> r, kind |-> kind]) /\ UNCHANGED <<accounts, roles>>
    BY <1>2, Zenon DEF AssignAdminRole
  <2>2. kind = "same" \/ op = "staff_role"
    BY <1>2
  <2> HIDE DEF kind, op
  <2>3. calls'[c].stage = "assign_role" /\ calls'[c].on = u /\ calls'[c].saw = [role |-> r, kind |-> kind] /\ op \in scenario
    BY <1>0, <2>1, Starts
  <2>4. RightsCall(calls'[c])
    BY <2>3 DEF RightsCall, Logging
  <2>5. "staff_role" \notin scenario => Informed(c)'
    BY <2>2, <2>3 DEF Informed, Logging, At
  <2> QED BY <2>1, <2>3, <2>4, <2>5, AsksRights DEF accounts
<1>3. ASSUME NEW u \in Users, RemoveStaffRole(c, u)
      PROVE  RightsGoOn(c)
  <2>1. "staff_role" \in scenario /\ calls' = calls /\ UNCHANGED roles
    BY <1>3, Zenon DEF RemoveStaffRole, Once
  <2>2. RolesTypeOK' /\ RightsCall(calls'[c]) /\ (Unheld(c) => Unheld(c)')
    BY <1>0, <2>1 DEF RightsInv, RolesTypeOK, Unheld, At, roles
  <2> QED BY <2>1, <2>2 DEF RightsGoOn
<1> QED BY <1>1, <1>2, <1>3 DEF AdminUserRequest

LEMMA RequestGoesOn ==
    ASSUME SessionsInv, RightsInv, NEW c \in Callers, Ready(c), NEW u \in Users, NEW s \in 0..secrets, Request(c, u, s)
    PROVE  RightsGoOn(c)
<1>0. Shape /\ calls[c].stage = "idle"
  BY DEF SessionsInv, Handled, Ready, At
<1>1. HasAccount(u) /\ UNCHANGED <<accounts, roles>>
  BY Zenon DEF Request
<1>2. \/ profile[u] # NoProfile /\ Begin(c, "request", "judge", u, [row |-> profile[u], session |-> s, load |-> {}])
      \/ Begin(c, "request", "load_profile", u, [row |-> ProfileOf(u), session |-> s, load |-> {}])
  BY Zenon DEF Request
<1>3. /\ calls'[c].stage \in {"judge", "load_profile"} /\ calls'[c].on = u
      /\ calls'[c].saw.row = ProfileOf(u) \/ (profile[u] # NoProfile /\ calls'[c].saw.row = profile[u])
  BY <1>0, <1>2, Starts
<1>4. RightsCall(calls'[c])
  <2>1. ProfileOf(u) \in Profiles /\ (profile[u] # NoProfile => profile[u] \in Profiles)
    BY <1>1, ProfileTyped DEF SessionsInv, Tables, AccountsTypeOK
  <2> QED BY <1>3, <2>1 DEF RightsCall, Logging
<1>5. Sound(c) => calls'[c].saw.row = ProfileOf(u)
  BY <1>0, <1>3 DEF Sound, CopiesTrue, CopyTrue, Dropping
<1>6. Sound(c) => Informed(c)'
  BY <1>1, <1>3, <1>5 DEF Informed, Logging, At, HasAccount, ProfileOf, accounts
<1> QED BY <1>1, <1>3, <1>4, <1>6, AsksRights DEF accounts

LEMMA DropPermissionsGoesOn ==
    ASSUME SessionsInv, RightsInv, NEW c \in Callers, DropPermissions(c)
    PROVE  RightsGoOn(c)
<1>0. Shape /\ calls[c].stage = "drop_permissions" /\ RolesTypeOK
  BY DEF SessionsInv, Handled, RightsInv, DropPermissions, At
<1>1. /\ Return(c) /\ granted' = [granted EXCEPT ![calls[c].on] = NotCached]
      /\ UNCHANGED <<account, profile, adminRole, second, audit, misjudged, stripped>>
  BY DEF DropPermissions, accounts
<1>2. calls'[c].stage = "idle"
  BY <1>0, <1>1, Returned
<1>3. RightsCall(calls'[c]) /\ calls'[c].stage \notin Knowing
  BY <1>2, IdleInformed DEF OnUsers, Knowing, Logging
<1>4. RolesTypeOK' /\ (Unheld(c) => Unheld(c)')
  BY <1>0, <1>1, <1>2 DEF RolesTypeOK, Unheld, At
<1>5. GrantsTrue(c) => GrantsTrue(c)'
  BY <1>0, <1>1 DEF GrantsTrue, GrantTrue, Grants, Usable, At, RolesTypeOK
<1>6. Sound(c) => Sound(c)'
  BY <1>0, <1>1, <1>3, <1>5, CopiesStay, LogStays, KnowsNothing DEF Sound, Dropping, Logging
<1> QED BY <1>3, <1>4, <1>6 DEF RightsGoOn

LEMMA DeleteRoleGoesOn ==
    ASSUME SessionsInv, RightsInv, NEW c \in Callers, DeleteRole(c)
    PROVE  RightsGoOn(c)
<1> DEFINE r == calls[c].on
           gone == [there |-> FALSE, active |-> FALSE, grants |-> {}]
<1>0. /\ Shape /\ calls[c].stage = "remove_role" /\ RolesTypeOK /\ account \in [Users -> AccountRows]
      /\ profile = [u \in Users |-> profile[u]]
  BY DEF SessionsInv, Handled, Tables, AccountsTypeOK, RightsInv, DeleteRole, At
<1>1. /\ Goto(c, "drop_permissions", 0) /\ adminRole' = [adminRole EXCEPT ![r] = gone]
      /\ account' = [u \in Users |-> IF account[u].adminRole = r THEN [account[u] EXCEPT !.adminRole = "none"] ELSE account[u]]
      /\ second' = [u \in Users |-> second[u] \ {r}] /\ stripped' = stripped \cup Holders(r)
      /\ UNCHANGED <<profile, granted, audit, misjudged>>
  BY SMTT(30) DEF DeleteRole
<1>2. calls'[c].stage = "drop_permissions" /\ calls'[c].on = r
  BY <1>0, <1>1, Gone
<1>3. RightsCall(calls'[c]) /\ calls'[c].stage \notin Knowing
  BY <1>2, IdleInformed DEF OnUsers, Knowing, Logging
<1>4. RolesTypeOK'
  <2>1. gone \in RoleRows
    BY DEF RoleRows
  <2> HIDE DEF gone
  <2>2. Holders(r) \subseteq Users
    BY DEF Holders
  <2> QED BY <1>0, <1>1, <2>1, <2>2 DEF RolesTypeOK
<1>5. Unheld(c) => Holders(r) = {}
  BY <1>0 DEF Unheld, At
<1>6. Unheld(c) => Unheld(c)'
  <2>1. Unheld(c) => stripped' = {}
    BY <1>1, <1>5 DEF Unheld
  <2> QED BY <1>2, <2>1 DEF Unheld, At
<1>7. \A u \in Users : \/ account'[u] = account[u]
                       \/ account[u].adminRole = r /\ account'[u] = [account[u] EXCEPT !.adminRole = "none"]
  BY <1>0, <1>1
<1>8. ASSUME Unheld(c), Sound(c)
      PROVE  Sound(c)'
  <2>1. account' = account
    <3>1. \A u \in Users : account[u].adminRole # r
      BY <1>5, <1>8 DEF Holders
    <3>2. \A u \in Users : account'[u] = account[u]
      BY <1>7, <3>1
    <3>3. account' = [u \in Users |-> account'[u]]
      BY <1>1
    <3> QED BY <1>0, <3>2, <3>3
  <2>2. ASSUME NEW q \in AdminRoles
        PROVE  GrantTrue(q)' \/ calls'[c].on = q
    <3>1. GrantTrue(q)
      BY <1>0, <1>8 DEF Sound, GrantsTrue, At
    <3> HIDE DEF gone
    <3>2. q # r => adminRole'[q] = adminRole[q]
      BY <1>1
    <3> QED BY <1>1, <1>2, <3>1, <3>2 DEF GrantTrue, Grants, Usable
  <2>3. GrantsTrue(c)'
    BY <1>2, <2>2 DEF GrantsTrue, At
  <2>4. CopiesTrue(c)' /\ LogTrue(c)'
    BY <1>0, <1>1, <1>8, <2>1, CopiesStay, LogStays DEF Sound, Dropping, Logging
  <2>5. ~misjudged'
    BY <1>1, <1>8 DEF Sound
  <2> QED BY <1>3, <2>3, <2>4, <2>5, KnowsNothing DEF Sound
<1> QED BY <1>3, <1>4, <1>6, <1>8 DEF RightsGoOn

LEMMA InsertAdminGoesOn ==
    ASSUME SessionsInv, RightsInv, NEW c \in Callers, InsertAdmin(c)
    PROVE  RightsGoOn(c)
<1> DEFINE u == calls[c].on
           row == [NoAccount EXCEPT !.role = "ADMIN", !.active = TRUE, !.verified = TRUE, !.password = TRUE,
                                    !.adminRole = calls[c].saw]
<1>0. Shape /\ calls[c].stage = "create_admin" /\ RolesTypeOK /\ account \in [Users -> AccountRows]
  BY DEF SessionsInv, Handled, Tables, AccountsTypeOK, RightsInv, InsertAdmin, At
<1>1. Return(c) /\ UNCHANGED <<profile, adminRole, second, granted, misjudged, stripped>>
  BY DEF InsertAdmin
<1>2. \/ UNCHANGED <<account, audit>>
      \/ ~HasAccount(u) /\ account' = [account EXCEPT ![u] = row] /\ audit' = [audit EXCEPT ![u] = "none"]
  BY Zenon DEF InsertAdmin
<1>3. calls'[c].stage = "idle"
  BY <1>0, <1>1, Returned
<1>4. RightsCall(calls'[c]) /\ calls'[c].stage \notin Knowing /\ (Unheld(c) => Unheld(c)')
  BY <1>1, <1>3, IdleInformed DEF OnUsers, Knowing, Logging, Unheld, At
<1>5. RolesTypeOK'
  BY <1>0, <1>1, <1>2 DEF RolesTypeOK
<1> HIDE DEF row
<1>6. ASSUME Sound(c)
      PROVE  Sound(c)'
  <2>1. \A v \in Users : CopyTrue(v) /\ AuditTrue(v)
    BY <1>0, <1>6 DEF Sound, CopiesTrue, LogTrue, Dropping, Logging
  <2>2. ASSUME NEW v \in Users
        PROVE  CopyTrue(v)' /\ AuditTrue(v)'
    <3>1. CASE v = u /\ ~HasAccount(u) /\ audit' = [audit EXCEPT ![u] = "none"]
      <4>1. profile'[v] = NoProfile /\ audit'[v] = "none"
        BY <1>0, <1>1, <2>1, <3>1 DEF CopyTrue, RolesTypeOK
      <4> QED BY <4>1 DEF CopyTrue, AuditTrue
    <3>2. CASE account'[v] = account[v] /\ audit'[v] = audit[v]
      BY <1>1, <2>1, <3>2 DEF CopyTrue, AuditTrue, HasAccount, ProfileOf
    <3> QED BY <1>0, <1>2, <3>1, <3>2 DEF RolesTypeOK
  <2>3. GrantsTrue(c)' /\ ~misjudged'
    BY <1>0, <1>1, <1>6, GrantsStay DEF Sound, At
  <2> QED BY <1>4, <2>2, <2>3, KnowsNothing DEF Sound, CopiesTrue, LogTrue
<1> QED BY <1>4, <1>5, <1>6 DEF RightsGoOn

LEMMA WriteRoleGoesOn ==
    ASSUME SessionsInv, RightsInv, NEW c \in Callers, WriteRole(c)
    PROVE  RightsGoOn(c)
<1> DEFINE u == calls[c].on  r == calls[c].saw.role  kind == calls[c].saw.kind
           row == [account[u] EXCEPT !.adminRole = r, !.role = IF kind = "same" THEN @ ELSE kind]
<1>0. Shape /\ calls[c].stage = "assign_role" /\ RolesTypeOK /\ account \in [Users -> AccountRows] /\ u \in Users /\ r \in AdminRoles
  BY DEF SessionsInv, Handled, Tables, AccountsTypeOK, RightsInv, WriteRole, At, RightsCall, OnUsers, SessionCall, MakesCall
<1>1. UNCHANGED <<profile, roles>>
  BY DEF WriteRole
<1>2. \/ Return(c) /\ UNCHANGED account
      \/ account' = [account EXCEPT ![u] = row] /\ Goto(c, IF kind = "same" THEN "drop_then_log" ELSE "log", r)
  BY DEF WriteRole
<1>3. \/ calls'[c].stage = "idle" /\ UNCHANGED account
      \/ /\ account' = [account EXCEPT ![u] = row]
         /\ calls'[c].stage = IF kind = "same" THEN "drop_then_log" ELSE "log"
         /\ calls'[c].on = u /\ calls'[c].saw = r
  BY <1>0, <1>2, Returned, Gone
<1>4. RightsCall(calls'[c]) /\ RolesTypeOK' /\ (Unheld(c) => Unheld(c)')
  <2>1. RightsCall(calls'[c])
    BY <1>0, <1>3 DEF RightsCall, OnUsers, Logging
  <2> QED BY <1>0, <1>1, <1>3, <2>1 DEF RolesTypeOK, Unheld, At, roles
<1>5. row.adminRole = r
  BY <1>0 DEF AccountRows
<1> HIDE DEF row
<1>6. ASSUME Sound(c)
      PROVE  Sound(c)'
  <2>1. kind = "same" /\ GrantsTrue(c)' /\ ~misjudged'
    BY <1>0, <1>1, <1>6, GrantsStay DEF Sound, Informed, At, roles
  <2>2. CASE calls'[c].stage = "idle" /\ UNCHANGED account
    <3>1. Informed(c)'
      BY <2>2, KnowsNothing DEF Knowing, Logging
    <3> QED BY <1>0, <1>1, <1>6, <2>1, <2>2, <3>1, CopiesStay, LogStays DEF Sound, Dropping, Logging, roles
  <2>3. CASE /\ account' = [account EXCEPT ![u] = row] /\ calls'[c].stage = "drop_then_log"
             /\ calls'[c].on = u /\ calls'[c].saw = r
    <3>1. \A v \in Users \ {u} : CopyTrue(v) /\ AuditTrue(v) /\ account'[v] = account[v]
      BY <1>0, <1>6, <2>3 DEF Sound, CopiesTrue, LogTrue, Dropping, Logging
    <3>2. \A v \in Users \ {u} : CopyTrue(v)' /\ AuditTrue(v)'
      BY <1>1, <3>1 DEF CopyTrue, AuditTrue, HasAccount, ProfileOf, roles
    <3>3. CopiesTrue(c)' /\ LogTrue(c)'
      BY <2>3, <3>2 DEF CopiesTrue, LogTrue, Dropping, Logging
    <3>4. Informed(c)'
      BY <1>0, <1>5, <2>3 DEF Informed, Logging, At
    <3> QED BY <2>1, <3>3, <3>4 DEF Sound
  <2> QED BY <1>3, <2>1, <2>2, <2>3
<1> QED BY <1>4, <1>6 DEF RightsGoOn

LEMMA DropThenLogGoesOn ==
    ASSUME SessionsInv, RightsInv, NEW c \in Callers, DropThenLog(c)
    PROVE  RightsGoOn(c)
<1> DEFINE u == calls[c].on
<1>0. /\ Shape /\ calls[c].stage = "drop_then_log" /\ RolesTypeOK /\ profile = [v \in Users |-> profile[v]]
      /\ u \in Users /\ calls[c].saw \in AdminRoles
  BY DEF SessionsInv, Handled, Tables, RightsInv, DropThenLog, At, RightsCall, OnUsers, Logging
<1>1. Goto(c, "log", calls[c].saw) /\ profile' = [profile EXCEPT ![u] = NoProfile] /\ UNCHANGED <<account, roles>>
  BY DEF DropThenLog
<1>2. calls'[c].stage = "log" /\ calls'[c].on = u /\ calls'[c].saw = calls[c].saw
  BY <1>0, <1>1, Gone
<1>3. RightsCall(calls'[c]) /\ RolesTypeOK' /\ (Unheld(c) => Unheld(c)')
  <2>1. RightsCall(calls'[c])
    BY <1>0, <1>2 DEF RightsCall, OnUsers, Logging
  <2> QED BY <1>0, <1>1, <1>2, <2>1 DEF RolesTypeOK, Unheld, At, roles
<1>4. ASSUME Sound(c)
      PROVE  Sound(c)'
  <2>1. \A v \in Users : CopyTrue(v)'
    BY <1>0, <1>1, <1>4 DEF Sound, CopiesTrue, CopyTrue, HasAccount, ProfileOf
  <2>2. GrantsTrue(c)' /\ LogTrue(c)' /\ ~misjudged'
    BY <1>0, <1>1, <1>2, <1>4, GrantsStay, LogStays DEF Sound, Logging, At, roles
  <2>3. Informed(c)'
    BY <1>0, <1>1, <1>2, <1>4 DEF Sound, Informed, Logging, At
  <2> QED BY <2>1, <2>2, <2>3 DEF Sound, CopiesTrue
<1> QED BY <1>3, <1>4 DEF RightsGoOn

LEMMA LogAssignmentGoesOn ==
    ASSUME SessionsInv, RightsInv, NEW c \in Callers, LogAssignment(c)
    PROVE  RightsGoOn(c)
<1> DEFINE u == calls[c].on  r == calls[c].saw
<1>0. Shape /\ calls[c].stage = "log" /\ RolesTypeOK /\ u \in Users /\ r \in AdminRoles
  BY DEF SessionsInv, Handled, RightsInv, LogAssignment, At, RightsCall, OnUsers, Logging
<1>1. /\ Return(c) /\ audit' = [audit EXCEPT ![u] = r]
      /\ UNCHANGED <<account, profile, adminRole, second, granted, misjudged, stripped>>
  BY DEF LogAssignment, accounts
<1>2. calls'[c].stage = "idle"
  BY <1>0, <1>1, Returned
<1>3. RightsCall(calls'[c]) /\ calls'[c].stage \notin Knowing /\ (Unheld(c) => Unheld(c)')
  BY <1>1, <1>2, IdleInformed DEF OnUsers, Knowing, Logging, Unheld, At
<1>4. RolesTypeOK'
  BY <1>0, <1>1 DEF RolesTypeOK
<1>5. Sound(c) => LogTrue(c)'
  BY <1>0, <1>1 DEF Sound, LogTrue, AuditTrue, Informed, Logging, RolesTypeOK
<1>6. Sound(c) => Sound(c)'
  BY <1>0, <1>1, <1>3, <1>5, CopiesStay, GrantsStay, KnowsNothing DEF Sound, Dropping, At
<1> QED BY <1>3, <1>4, <1>6 DEF RightsGoOn

LEMMA InsertUserRoleGoesOn ==
    ASSUME SessionsInv, RightsInv, NEW c \in Callers, InsertUserRole(c)
    PROVE  RightsGoOn(c)
<1> DEFINE u == calls[c].on  r == calls[c].saw.role
<1>0. Shape /\ calls[c].stage = "add_role" /\ RolesTypeOK /\ r \in AdminRoles
  BY DEF SessionsInv, Handled, RightsInv, InsertUserRole, At, RightsCall
<1>1. /\ Return(c) \/ Goto(c, "drop_profile", 0)
      /\ second' = second \/ second' = [second EXCEPT ![u] = second[u] \cup {r}]
      /\ UNCHANGED <<account, profile, adminRole, granted, audit, misjudged, stripped>>
  BY DEF InsertUserRole, accounts
<1>2. calls'[c].stage \in {"idle", "drop_profile"}
  BY <1>0, <1>1, Returned, Gone
<1>3. RightsCall(calls'[c]) /\ calls'[c].stage \notin Knowing /\ (Unheld(c) => Unheld(c)')
  BY <1>1, <1>2, IdleInformed DEF OnUsers, Knowing, Logging, Unheld, At
<1>4. RolesTypeOK'
  BY <1>0, <1>1 DEF RolesTypeOK
<1>5. Sound(c) => Sound(c)'
  BY <1>0, <1>1, <1>3, CopiesStay, GrantsStay, LogStays, KnowsNothing DEF Sound, Dropping, Logging, At
<1> QED BY <1>3, <1>4, <1>5 DEF RightsGoOn

-----------------------------------------------------------------------------
(* Rights: how a request is judged.                                        *)

HeldBy(row, u) == ({row.adminRole} \ {"none"}) \cup second[u]

\* The roles of the row of an account, and its further roles, are the roles that it holds.
LEMMA RightsOfHeld ==
    ASSUME SessionsInv, RightsInv, NEW u \in Users, NEW s
    PROVE  /\ HeldBy(ProfileOf(u), u) \subseteq AdminRoles
           /\ HasAccount(u) /\ account[u].active /\ account[u].session = s /\ s # 0 =>
                 Rights(u, s) = UNION {Grants(r) : r \in HeldBy(ProfileOf(u), u)}
           /\ account[u].active = FALSE \/ account[u].session # s \/ s = 0 => Rights(u, s) = {}
<1>1. account[u] \in AccountRows /\ second[u] \subseteq AdminRoles
  BY DEF SessionsInv, Tables, AccountsTypeOK, RightsInv, RolesTypeOK
<1>2. account[u].adminRole \in {"none"} \cup AdminRoles /\ "none" \notin AdminRoles
  BY <1>1, AccountsAssumption DEF AccountRows
<1>3. HeldBy(ProfileOf(u), u) = {q \in AdminRoles : u \in Holders(q)}
  BY <1>1, <1>2 DEF HeldBy, ProfileOf, Holders
<1>4. HasAccount(u) /\ account[u].active /\ account[u].session = s /\ s # 0 =>
         Rights(u, s) = UNION {Grants(r) : r \in HeldBy(ProfileOf(u), u)}
  BY <1>3 DEF Rights
<1>5. account[u].active = FALSE \/ account[u].session # s \/ s = 0 => Rights(u, s) = {}
  BY DEF Rights
<1> QED BY <1>3, <1>4, <1>5

LEMMA CacheProfileGoesOn ==
    ASSUME SessionsInv, RightsInv, NEW c \in Callers, CacheProfile(c)
    PROVE  RightsGoOn(c)
<1> DEFINE u == calls[c].on
<1>0. /\ Shape /\ calls[c].stage = "load_profile" /\ RolesTypeOK /\ profile = [v \in Users |-> profile[v]] /\ u \in Users
  BY DEF SessionsInv, Handled, Tables, RightsInv, CacheProfile, At, RightsCall, OnUsers
<1>1. Goto(c, "judge", calls[c].saw) /\ profile' = [profile EXCEPT ![u] = calls[c].saw.row] /\ UNCHANGED <<account, roles>>
  BY DEF CacheProfile
<1>2. calls'[c].stage = "judge" /\ calls'[c].on = u /\ calls'[c].saw = calls[c].saw
  BY <1>0, <1>1, Gone
<1>3. RightsCall(calls'[c]) /\ RolesTypeOK' /\ (Unheld(c) => Unheld(c)')
  <2>1. RightsCall(calls'[c])
    <3>1. calls[c].saw.row \in Profiles
      BY <1>0 DEF SessionsInv, SessionCall, MakesCall
    <3> QED BY <1>0, <1>2, <3>1 DEF RightsCall, Logging
  <2> QED BY <1>0, <1>1, <1>2, <2>1 DEF RolesTypeOK, Unheld, At, roles
<1>4. ASSUME Sound(c)
      PROVE  Sound(c)'
  <2>1. HasAccount(u) /\ calls[c].saw.row = ProfileOf(u)
    BY <1>0, <1>4 DEF Sound, Informed
  <2>2. \A v \in Users : CopyTrue(v)'
    BY <1>0, <1>1, <1>4, <2>1 DEF Sound, CopiesTrue, CopyTrue, HasAccount, ProfileOf, Dropping
  <2>3. GrantsTrue(c)' /\ LogTrue(c)' /\ ~misjudged'
    BY <1>0, <1>1, <1>4, GrantsStay, LogStays DEF Sound, Logging, At, roles
  <2>4. Informed(c)'
    BY <1>1, <1>2, <2>1 DEF Informed, Logging, At, HasAccount, ProfileOf
  <2> QED BY <2>2, <2>3, <2>4 DEF Sound, CopiesTrue
<1> QED BY <1>3, <1>4 DEF RightsGoOn

\* Of the roles held, those cached and those read grant together what all of them grant.
LEMMA GrantedTogether ==
    ASSUME NEW held, NEW cached \in SUBSET held, NEW load, DOMAIN load = held \ cached,
           \A r \in cached : granted[r] = Grants(r), \A r \in held \ cached : load[r] = Grants(r)
    PROVE  (UNION {granted[r] : r \in cached}) \cup (UNION {load[r] : r \in DOMAIN load}) = UNION {Grants(r) : r \in held}
<1> DEFINE left == (UNION {granted[r] : r \in cached}) \cup (UNION {load[r] : r \in DOMAIN load})
<1>1. ASSUME NEW p \in left
      PROVE  \E r \in held : p \in Grants(r)
  <2>1. CASE \E r \in cached : p \in granted[r]
    BY <2>1
  <2>2. CASE \E r \in DOMAIN load : p \in load[r]
    BY <2>2
  <2> QED BY <1>1, <2>1, <2>2
<1>2. ASSUME NEW r \in held, NEW p \in Grants(r)
      PROVE  p \in left
  <2>1. CASE r \in cached
    BY <1>2, <2>1
  <2>2. CASE r \notin cached
    BY <1>2, <2>2
  <2> QED BY <2>1, <2>2
<1> QED BY <1>1, <1>2

LEMMA JudgeGoesOn ==
    ASSUME SessionsInv, RightsInv, NEW c \in Callers, Judge(c)
    PROVE  RightsGoOn(c)
<1> DEFINE u == calls[c].on  row == calls[c].saw.row  s == calls[c].saw.session
           held == HeldBy(row, u)
           cached == {r \in held : granted[r] # NotCached}
           load == [r \in held \ cached |-> Grants(r)]
           allowed == UNION {granted[r] : r \in cached}
<1>0. Shape /\ calls[c].stage = "judge" /\ RolesTypeOK /\ u \in Users /\ row \in Profiles
  BY DEF SessionsInv, Handled, RightsInv, Judge, At, RightsCall, OnUsers
<1>1. UNCHANGED <<account, profile, adminRole, second, granted, audit, stripped>>
  BY Zenon DEF Judge, accounts
<1>2. \/ /\ ~row.active \/ row.session = 0 \/ row.session # s
         /\ Judged(c, u, s, {})
      \/ /\ row.active /\ row.session # 0 /\ row.session = s /\ cached = held
         /\ Judged(c, u, s, UNION {granted[r] : r \in held})
      \/ /\ row.active /\ row.session # 0 /\ row.session = s /\ UNCHANGED misjudged
         /\ Goto(c, "load_permissions", [session |-> s, cached |-> allowed, load |-> load])
  BY Zenon DEF Judge, HeldBy
<1>3. held \subseteq AdminRoles
  BY <1>0 DEF HeldBy, Profiles, RolesTypeOK
<1>4. DOMAIN load = held \ cached /\ \A r \in held \ cached : load[r] = Grants(r)
  OBVIOUS
<1>5. cached \subseteq held /\ \A r \in cached : granted[r] # NotCached
  OBVIOUS
<1> HIDE DEF load, allowed, cached, held
<1>6. \/ calls'[c].stage = "idle"
      \/ calls'[c].stage = "load_permissions" /\ calls'[c].on = u
         /\ calls'[c].saw = [session |-> s, cached |-> allowed, load |-> load]
  BY <1>0, <1>2, Returned, Gone DEF Judged
<1>7. RolesTypeOK'
  <2>1. misjudged' \in BOOLEAN
    BY <1>0, <1>2 DEF Judged, RolesTypeOK
  <2> QED BY <1>0, <1>1, <2>1 DEF RolesTypeOK
<1>8. RightsCall(calls'[c]) /\ (Unheld(c) => Unheld(c)')
  <2>1. CASE calls'[c].stage = "idle"
    BY <1>1, <2>1, IdleInformed DEF OnUsers, Unheld, At
  <2>2. CASE calls'[c].stage = "load_permissions" /\ calls'[c].on = u /\ calls'[c].saw.load = load
    <3>1. \A r \in AdminRoles : Grants(r) \in SUBSET Permissions
      BY <1>0 DEF Grants, RolesTypeOK, RoleRows
    <3>2. DOMAIN load \subseteq AdminRoles /\ \A r \in DOMAIN load : load[r] \in SUBSET Permissions
      BY <1>3, <1>4, <3>1
    <3> QED BY <1>0, <1>1, <2>2, <3>2 DEF RightsCall, Logging, Unheld, At
  <2> QED BY <1>6, <2>1, <2>2
<1>9. ASSUME Sound(c)
      PROVE  Sound(c)'
  <2>1. HasAccount(u) /\ row = ProfileOf(u) /\ \A r \in AdminRoles : GrantTrue(r)
    BY <1>0, <1>9 DEF Sound, Informed, GrantsTrue, At
  <2>2. /\ row.active = account[u].active /\ row.session = account[u].session
        /\ account[u].active \in BOOLEAN
    <3>1. account[u] \in AccountRows
      BY <1>0 DEF SessionsInv, Tables, AccountsTypeOK
    <3> QED BY <2>1, <3>1 DEF ProfileOf, AccountRows
  <2>3. \A r \in cached : granted[r] = Grants(r)
    BY <1>3, <1>5, <2>1 DEF GrantTrue
  <2>4. row.active /\ row.session # 0 /\ row.session = s => Rights(u, s) = UNION {Grants(r) : r \in held}
    BY <1>0, <2>1, <2>2, RightsOfHeld DEF held
  <2>5. CASE Judged(c, u, s, {}) /\ (~row.active \/ row.session = 0 \/ row.session # s)
    <3>1. Rights(u, s) = {}
      BY <1>0, <2>2, <2>5, RightsOfHeld
    <3>2. ~misjudged' /\ calls'[c].stage = "idle"
      BY <1>0, <1>9, <2>5, <3>1, Returned DEF Judged, Sound
    <3>3. Informed(c)'
      BY <3>2, KnowsNothing DEF Knowing, Logging
    <3> QED BY <1>0, <1>1, <1>9, <3>2, <3>3, CopiesStay, GrantsStay, LogStays DEF Sound, Dropping, Logging, At
  <2>6. CASE Judged(c, u, s, UNION {granted[r] : r \in held}) /\ row.active /\ row.session # 0 /\ row.session = s /\ cached = held
    <3>1. (UNION {granted[r] : r \in held}) = UNION {Grants(r) : r \in held}
      BY <2>3, <2>6
    <3>2. ~misjudged' /\ calls'[c].stage = "idle"
      BY <1>0, <1>9, <2>4, <2>6, <3>1, Returned DEF Judged, Sound
    <3>3. Informed(c)'
      BY <3>2, KnowsNothing DEF Knowing, Logging
    <3> QED BY <1>0, <1>1, <1>9, <3>2, <3>3, CopiesStay, GrantsStay, LogStays DEF Sound, Dropping, Logging, At
  <2>7. CASE /\ row.active /\ row.session # 0 /\ row.session = s /\ UNCHANGED misjudged
             /\ Goto(c, "load_permissions", [session |-> s, cached |-> allowed, load |-> load])
    <3>1. /\ calls'[c].stage = "load_permissions" /\ calls'[c].on = u
          /\ calls'[c].saw = [session |-> s, cached |-> allowed, load |-> load]
      BY <1>0, <2>7, Gone
    <3>2. allowed \cup (UNION {load[r] : r \in DOMAIN load}) = UNION {Grants(r) : r \in held}
      BY <1>4, <1>5, <2>3, GrantedTogether DEF allowed
    <3>3. (\A v, x : Rights(v, x)' = Rights(v, x)) /\ \A r : Grants(r)' = Grants(r)
      BY <1>1 DEF Rights, Grants, Usable, Holders, HasAccount
    <3>4. Informed(c)'
      <4>1. /\ calls'[c].saw.session = s /\ calls'[c].saw.cached = allowed /\ calls'[c].saw.load = load
        BY <3>1
      <4>2. allowed \cup (UNION {load[r] : r \in DOMAIN load}) = Rights(u, s) /\ \A r \in DOMAIN load : load[r] = Grants(r)
        BY <1>4, <2>4, <2>7, <3>2
      <4>3. /\ calls'[c].saw.cached \cup UNION {calls'[c].saw.load[r] : r \in DOMAIN calls'[c].saw.load}
                  = Rights(calls'[c].on, calls'[c].saw.session)
            /\ \A r \in DOMAIN calls'[c].saw.load : calls'[c].saw.load[r] = Grants(r)
        BY <3>1, <4>1, <4>2
      <4> QED BY <3>1, <3>3, <4>3 DEF Informed, Logging, At
    <3> QED BY <1>0, <1>1, <1>9, <2>7, <3>4, CopiesStay, GrantsStay, LogStays DEF Sound, Dropping, Logging, At
  <2> QED BY <1>2, <2>5, <2>6, <2>7
<1> QED BY <1>7, <1>8, <1>9 DEF RightsGoOn

LEMMA CachePermissionsGoesOn ==
    ASSUME SessionsInv, RightsInv, NEW c \in Callers, CachePermissions(c)
    PROVE  RightsGoOn(c)
<1> DEFINE u == calls[c].on  saw == calls[c].saw  loaded == DOMAIN saw.load
<1>0. /\ Shape /\ calls[c].stage = "load_permissions" /\ RolesTypeOK /\ u \in Users
      /\ loaded \subseteq AdminRoles /\ \A r \in loaded : saw.load[r] \in SUBSET Permissions
  BY DEF SessionsInv, Handled, RightsInv, CachePermissions, At, RightsCall, OnUsers
<1>1. /\ UNCHANGED <<account, profile, adminRole, second, audit, stripped>>
      /\ granted' = [r \in AdminRoles |-> IF r \in loaded THEN saw.load[r] ELSE granted[r]]
      /\ Return(c) /\ misjudged' = (misjudged \/ saw.cached \cup UNION {saw.load[r] : r \in loaded} # Rights(u, saw.session))
  BY Zenon DEF CachePermissions, Judged, accounts
<1>2. calls'[c].stage = "idle"
  BY <1>0, <1>1, Returned
<1>3. RightsCall(calls'[c]) /\ calls'[c].stage \notin Knowing /\ (Unheld(c) => Unheld(c)')
  BY <1>1, <1>2, IdleInformed DEF OnUsers, Knowing, Logging, Unheld, At
<1>4. RolesTypeOK'
  <2>1. granted' \in [AdminRoles -> (SUBSET Permissions) \cup {NotCached}]
    BY <1>0, <1>1 DEF RolesTypeOK
  <2> QED BY <1>0, <1>1, <2>1 DEF RolesTypeOK
<1>5. ASSUME Sound(c)
      PROVE  Sound(c)'
  <2>1. ~misjudged'
    BY <1>0, <1>1, <1>5 DEF Sound, Informed, At
  <2>2. \A r \in loaded : saw.load[r] = Grants(r)
    BY <1>0, <1>5 DEF Sound, Informed, At
  <2>3. \A r \in AdminRoles : GrantTrue(r)
    BY <1>0, <1>5 DEF Sound, GrantsTrue, At
  <2>4. \A r \in AdminRoles : GrantTrue(r)'
    BY <1>1, <2>2, <2>3 DEF GrantTrue, Grants, Usable
  <2> QED BY <1>0, <1>1, <1>3, <1>5, <2>1, <2>4, CopiesStay, LogStays, KnowsNothing DEF Sound, GrantsTrue, Dropping, Logging
<1> QED BY <1>3, <1>4, <1>5 DEF RightsGoOn

-----------------------------------------------------------------------------
(* The theorem about rights.                                               *)

LEMMA RolesKeepRights ==
    ASSUME SessionsInv, RightsInv, NEW c \in Callers, RolesNext(c)
    PROVE  RightsInv'
<1>1. PICK S : Acts(c, S)
  BY SomebodyActs DEF SessionsInv, Handled
<1>2. RightsGoOn(c)
  <2>1. CASE RolesStep(c)
    BY <2>1, DropPermissionsGoesOn, DeleteRoleGoesOn, InsertAdminGoesOn, WriteRoleGoesOn, DropThenLogGoesOn,
       LogAssignmentGoesOn, InsertUserRoleGoesOn, CacheProfileGoesOn, JudgeGoesOn, CachePermissionsGoesOn DEF RolesStep
  <2>2. CASE Ready(c) /\ RolesRequest(c)
    BY <2>2, RoleRequestsGoOn, GrantRequestsGoOn, AdminUserRequestsGoOn, RequestGoesOn DEF RolesRequest
  <2> QED BY <2>1, <2>2 DEF RolesNext
<1> QED BY <1>1, <1>2, RightsStay

LEMMA RightsInit ==
    ASSUME Init
    PROVE  RightsInv
<1>1. /\ \A c \in Callers : calls[c].stage = "idle"
      /\ crashes = 0 /\ profile = [u \in Users |-> NoProfile]
  BY DEF Init, HandlersInit, Idle, AccountsInit
<1>2. RolesInit /\ SessionsInv /\ FirstRole \in AdminRoles
  BY SessionsInit, AccountsAssumption DEF Init, FirstRole
<1>3. RolesTypeOK
  <2>1. \A u \in Users : account[u].adminRole \in {"none"} \cup AdminRoles
    BY <1>2 DEF SessionsInv, Tables, AccountsTypeOK, AccountRows
  <2> QED BY <1>2, <2>1 DEF RolesInit, RolesTypeOK, RoleRows, NotCached
<1>4. \A c \in Callers : RightsCall(calls[c]) /\ Informed(c)
  BY <1>1, IdleInformed DEF OnUsers, Informed, Logging, At
<1>5. RemovalCalm /\ RightsCalm
  BY <1>1, <1>2, <1>4 DEF RolesInit, RemovalCalm, RightsCalm, CopyTrue, GrantTrue, AuditTrue, At
<1> QED BY <1>1, <1>3, <1>4, <1>5 DEF RightsInv

LEMMA RightsStep ==
    ASSUME SessionsInv, RightsInv, [Next]_vars
    PROVE  RightsInv'
<1>1. ASSUME NEW c \in Callers,
             AccountsNext(c) \/ CredentialsNext(c) \/ StaffNext(c) \/ HiringNext(c) \/ OnboardingNext(c)
             \/ VerificationNext(c) \/ CampaignsNext(c)
      PROVE  RightsInv'
  BY <1>1, OthersKeepRights
<1>2. ASSUME NEW c \in Callers, RolesNext(c) \/ Dies(c)
      PROVE  RightsInv'
  BY <1>2, RolesKeepRights, DeathKeepsRights
<1>3. CASE Time
  BY <1>3, TimeKeepsRights
<1>4. CASE UNCHANGED vars
  <2>1. UNCHANGED <<calls, scenario, crashes, overlapped, account, profile, adminRole, second, granted, audit, misjudged, stripped>>
    BY <1>4, Zenon DEF vars, handlers, accounts, roles
  <2>2. RolesTypeOK' /\ RemovalCalm' /\ \A c \in Callers : RightsCall(calls'[c])
    BY <2>1 DEF RightsInv, RolesTypeOK, RemovalCalm, Holders, At
  <2>3. \A c \in Callers : Informed(c) => Informed(c)'
    BY <2>1 DEF Informed, At, HasAccount, ProfileOf, Rights, Grants, Usable, Holders
  <2>4. RightsCalm'
    BY <2>1, <2>3 DEF RightsInv, RightsCalm, CopyTrue, GrantTrue, AuditTrue, HasAccount, ProfileOf, Grants, Usable, At
  <2> QED BY <2>1, <2>2, <2>4 DEF RightsInv
<1> QED BY <1>1, <1>2, <1>3, <1>4 DEF Next

\* A request is judged by the rights its user has then, whatever the two caches hold; nobody loses a
\* role that is deleted; the audit log of RolesService tells the role that an account has: while
\* handlers come one after the other (and, of the first and the last, none dies and no role is given
\* to staff).
THEOREM RightsAreKept == Spec => []RightsKept
<1>1. RightsInv => RightsKept
  <2>1. RightsInv => JudgedByPresentRights
    BY DEF RightsInv, RightsCalm, JudgedByPresentRights
  <2>2. RightsInv => NobodyLosesRole
    BY DEF RightsInv, RemovalCalm, NobodyLosesRole
  <2>3. RightsInv => AuditTellsRole
    <3> SUFFICES ASSUME RightsInv, Quiet, ~overlapped, crashes = 0, "staff_role" \notin scenario
                 PROVE  \A u \in Users : audit[u] # "none" => account[u].adminRole \in {audit[u], "none"}
      BY DEF AuditTellsRole
    <3>1. \A c \in Callers : calls[c].stage \notin Logging
      BY DEF Quiet, At, Logging
    <3>2. \A u \in Users : AuditTrue(u)
      BY <3>1 DEF RightsInv, RightsCalm
    <3> QED BY <3>2 DEF AuditTrue
  <2> QED BY <2>1, <2>2, <2>3 DEF RightsKept, RightsInv
<1>2. Init => SessionsInv /\ RightsInv
  BY SessionsInit, RightsInit
<1>3. SessionsInv /\ RightsInv /\ [Next]_vars => (SessionsInv /\ RightsInv)'
  BY SessionsStep, RightsStep
<1> QED BY <1>1, <1>2, <1>3, PTL DEF Spec
-----------------------------------------------------------------------------
(* Credentials.  What holds of reset links, PINs, numbers and addresses    *)
(* while handlers come one after the other, also when one dies.            *)

\* What handlers of credentials carry.
OfUsers == {"write_reset", "new_password", "store_pin", "unlock", "count_failure", "lock", "lock_in_Redis", "write_phone",
            "phone_verified", "create_address"}

CredCall(call) ==
    LET saw == call.saw IN
    /\ call.stage \in OfUsers => call.on \in Users
    /\ call.stage \in {"new_password", "count_failure"} => saw \in Nat
    /\ call.stage = "write_phone" => saw \in Phones
    /\ call.stage = "phone_verified" => saw \in {"none"} \cup Phones
    /\ call.stage = "create_address" => saw.default \in BOOLEAN
    /\ call.stage \in {"make_default", "delete_address"} => call.on \in Addresses

\* An address that is there is somebody's.
Owned == \A a \in Addresses : address[a].there => address[a].user \in Users

\* A reset link is used once, nobody else has it, and none that is used is anybody's.
ResetsRight ==
    /\ \A t \in DOMAIN resets : t \in 1..secrets /\ resets[t] = 1
    /\ \A u \in Users : reset[u] \in 0..secrets /\ reset[u] \notin DOMAIN resets
    /\ \A u, v \in Users : reset[u] = reset[v] /\ reset[u] # 0 => u = v

PhonesRight == \A u \in Users : phone[u].verified => phone[u].number = proved[u]

AddressesRight ==
    /\ \A a, b \in Addresses :
          (address[a].user = address[b].user /\ address[a].there /\ address[b].there /\ address[a].default /\ address[b].default) => a = b
    /\ \A a \in Addresses :
          (address[a].there /\ address[a].user \notin declined)
             => \E b \in Addresses : address[b].user = address[a].user /\ address[b].there /\ address[b].default

\* Wrong PINs are judged up to the limit, and counted: but for one that is being counted. At the
\* limit the lock is shut, or is about to be. Who dies has one not counted, or not locked, to its name.
PinRight(u, judged, locking) ==
    /\ guesses[u] <= MaxFails + crashes
    /\ guesses[u] <= pin[u].failed + crashes \/ (judged /\ guesses[u] <= pin[u].failed + crashes + 1)
    /\ guesses[u] <= MaxFails - 1 + crashes \/ PinLocked(u) \/ judged \/ locking
Judges(c, u) == At(c, "count_failure") /\ calls[c].on = u
Locks(c, u)  == calls[c].stage \in {"lock", "lock_in_Redis"} /\ calls[c].on = u

\* What a handler read still holds.
Recalls(c) ==
    LET on == calls[c].on  saw == calls[c].saw IN
    /\ At(c, "new_password") => reset[on] = saw /\ saw # 0
    /\ At(c, "count_failure") => saw = pin[on].failed
    /\ At(c, "unlock") => guesses[on] = 0
    /\ At(c, "phone_verified") => saw = phone[on].number
    /\ At(c, "create_address") => /\ saw.clear = IF saw.default THEN Defaults(on) ELSE {}
                                  /\ saw.default \/ Live(on) # {} \/ on \in declined
    /\ At(c, "make_default") => address[on].there /\ saw = Defaults(address[on].user) \ {on}
    /\ At(c, "delete_address") => address[on].there /\ saw = address[on].default

CredCalm ==
    \/ overlapped
    \/ /\ ResetsRight /\ PhonesRight /\ AddressesRight
       /\ \A u \in Users : PinRight(u, \E c \in Callers : Judges(c, u), \E c \in Callers : Locks(c, u))
       /\ \A c \in Callers : Recalls(c)

CredInv == CredentialsTypeOK /\ Owned /\ crashes \in Nat /\ (\A c \in Callers : CredCall(calls[c])) /\ CredCalm

\* The same with nobody but c in the middle of anything, and what a step of c has to show.
PinsRight(c) == \A u \in Users : PinRight(u, Judges(c, u), Locks(c, u))
Sturdy(c)    == ResetsRight /\ PhonesRight /\ AddressesRight /\ PinsRight(c) /\ Recalls(c)

ProofsGoOn(c) ==
    /\ CredentialsTypeOK' /\ Owned' /\ CredCall(calls'[c])
    /\ Sturdy(c) => Sturdy(c)'

LEMMA RecallsNothing ==
    ASSUME NEW call, call.stage \notin CredentialsStages
    PROVE  CredCall(call)
BY DEF CredCall, OfUsers, CredentialsStages

LEMMA SturdyBefore ==
    ASSUME CredInv, NEW c \in Callers, ~overlapped, \A d \in Callers \ {c} : calls[d].stage = "idle"
    PROVE  Sturdy(c)
<1>1. \A u : (\E d \in Callers : Judges(d, u)) => Judges(c, u)
  BY DEF Judges, At
<1>2. \A u : (\E d \in Callers : Locks(d, u)) => Locks(c, u)
  BY DEF Locks
<1> QED BY <1>1, <1>2 DEF CredInv, CredCalm, Sturdy, PinsRight, PinRight

LEMMA SturdyAfter ==
    ASSUME NEW c \in Callers, Sturdy(c)', \A d \in Callers \ {c} : calls'[d].stage = "idle"
    PROVE  CredCalm'
<1>1. \A d \in Callers \ {c} : Recalls(d)'
  BY DEF Recalls, At
<1> QED BY <1>1 DEF Sturdy, PinsRight, PinRight, CredCalm

LEMMA ProofsStay ==
    ASSUME SessionsInv, CredInv, NEW c \in Callers, NEW S, Acts(c, S), ProofsGoOn(c)
    PROVE  CredInv'
<1>1. Lone /\ crashes' \in Nat
  BY DEF SessionsInv, Handled, CredInv, Acts
<1>2. \A d \in Callers : CredCall(calls'[d])
  <2>1. \A d \in Callers \ {c} : CredCall(calls[d]) /\ calls'[d] = calls[d]
    BY DEF CredInv, Acts
  <2> QED BY <2>1 DEF ProofsGoOn
<1>3. CredCalm'
  <2>1. CASE overlapped'
    BY <2>1 DEF CredCalm
  <2>2. CASE ~overlapped'
    <3>1. ~overlapped /\ \A d \in Callers \ {c} : calls[d].stage = "idle" /\ calls'[d].stage = "idle"
      BY <1>1, <2>2, Alone
    <3>2. Sturdy(c)'
      BY <3>1, SturdyBefore DEF ProofsGoOn
    <3> QED BY <3>1, <3>2, SturdyAfter
  <2> QED BY <2>1, <2>2
<1> QED BY <1>1, <1>2, <1>3 DEF CredInv, ProofsGoOn

\* Secrets are drawn, and one may be a new reset link.
LEMMA SecretsGrow ==
    ASSUME ResetsRight, secrets \in Nat, reset \in [Users -> Nat], resets' = resets,
           \/ reset' = reset /\ secrets' \in {secrets, secrets + 1}
           \/ secrets' = secrets + 1 /\ \E u : reset' = [reset EXCEPT ![u] = secrets + 1]
    PROVE  ResetsRight' /\ reset' \in [Users -> Nat]
<1>1. CASE reset' = reset /\ secrets' \in {secrets, secrets + 1}
  BY <1>1 DEF ResetsRight
<1>2. ASSUME secrets' = secrets + 1, NEW u, reset' = [reset EXCEPT ![u] = secrets + 1]
      PROVE  ResetsRight' /\ reset' \in [Users -> Nat]
  <2>1. \A v \in Users : reset'[v] = IF v = u THEN secrets + 1 ELSE reset[v]
    BY <1>2
  <2>2. secrets + 1 \notin DOMAIN resets /\ \A v \in Users : reset[v] # secrets + 1
    BY DEF ResetsRight
  <2>3. reset' \in [Users -> Nat]
    <3>1. reset' = [v \in Users |-> reset'[v]] /\ \A v \in Users : reset[v] \in Nat
      BY <1>2
    <3>2. \A v \in Users : reset'[v] \in Nat
      BY <2>1, <3>1
    <3> QED BY <3>1, <3>2
  <2> QED BY <1>2, <2>1, <2>2, <2>3 DEF ResetsRight
<1> QED BY <1>1, <1>2

-----------------------------------------------------------------------------
(* Credentials: the steps of the other parts.                              *)

\* Where a wrong PIN is being counted, or the lock shut.
Pinning == {"count_failure", "lock", "lock_in_Redis"}

Unhurt(c) ==
    /\ UNCHANGED <<pin, phone, address, resets, guesses, proved, declined>>
    /\ \/ reset' = reset /\ secrets' \in {secrets, secrets + 1}
       \/ secrets' = secrets + 1 /\ \E u : reset' = [reset EXCEPT ![u] = secrets + 1]
    /\ calls[c].stage \notin Pinning /\ calls'[c].stage \notin CredentialsStages

LEMMA PinsStay ==
    ASSUME CredInv, NEW c \in Callers, NEW S, Acts(c, S), UNCHANGED <<pin, guesses>>, calls[c].stage \notin Pinning, PinsRight(c)
    PROVE  PinsRight(c)'
<1> SUFFICES ASSUME NEW u \in Users
             PROVE  PinRight(u, Judges(c, u), Locks(c, u))'
  BY DEF PinsRight
<1>1. ~Judges(c, u) /\ ~Locks(c, u)
  BY DEF Judges, Locks, Pinning, At
<1>2. /\ guesses[u] <= MaxFails + crashes /\ guesses[u] <= pin[u].failed + crashes
      /\ guesses[u] <= MaxFails - 1 + crashes \/ PinLocked(u)
  BY <1>1 DEF PinsRight, PinRight
<1>3. guesses[u] \in Nat /\ pin[u].failed \in Nat /\ MaxFails \in Nat /\ crashes \in Nat /\ crashes' \in {crashes, crashes + 1}
  BY CredentialsAssumption DEF CredInv, CredentialsTypeOK, PinRows, Acts
<1> QED BY <1>2, <1>3 DEF PinRight, PinLocked

LEMMA UnhurtGoesOn ==
    ASSUME SessionsInv, CredInv, NEW c \in Callers, NEW S, Acts(c, S), Unhurt(c)
    PROVE  ProofsGoOn(c)
<1>1. secrets \in Nat /\ CredentialsTypeOK /\ crashes \in Nat /\ crashes' \in {crashes, crashes + 1}
  BY DEF SessionsInv, Tables, AccountsTypeOK, CredInv, Acts
<1>2. reset' \in [Users -> Nat] /\ (ResetsRight => ResetsRight')
  BY <1>1, SecretsGrow DEF Unhurt, CredentialsTypeOK
<1>3. CredentialsTypeOK' /\ Owned' /\ CredCall(calls'[c])
  BY <1>1, <1>2, RecallsNothing DEF Unhurt, CredentialsTypeOK, CredInv, Owned
<1>4. ASSUME Sturdy(c)
      PROVE  Sturdy(c)'
  <2>1. ResetsRight' /\ PhonesRight' /\ AddressesRight'
    BY <1>2, <1>4 DEF Sturdy, Unhurt, PhonesRight, AddressesRight, Live, Defaults
  <2>2. Recalls(c)'
    BY DEF Unhurt, Recalls, CredentialsStages, At
  <2>3. PinsRight(c)'
    BY <1>4, PinsStay DEF Sturdy, Unhurt
  <2> QED BY <2>1, <2>2, <2>3 DEF Sturdy
<1> QED BY <1>3, <1>4 DEF ProofsGoOn

\* Where the other parts stand and go on is no place of credentials.
LEMMA OutsideOfProofs ==
    /\ AccountsStages \cap CredentialsStages = {} /\ RolesStages \cap CredentialsStages = {}
    /\ RolesGoes \cap CredentialsStages = {} /\ RolesAsks \cap CredentialsStages = {}
    /\ StaffStages \cap CredentialsStages = {} /\ StaffGoes \cap CredentialsStages = {} /\ LinkGoes \cap CredentialsStages = {}
    /\ HiringStages \cap CredentialsStages = {} /\ HiringGoes \cap CredentialsStages = {} /\ FindGoes \cap CredentialsStages = {}
    /\ RegisterGoes \cap CredentialsStages = {}
    /\ OnboardingStages \cap CredentialsStages = {} /\ VerificationStages \cap CredentialsStages = {}
    /\ CampaignsStages \cap CredentialsStages = {} /\ {} \cap CredentialsStages = {} /\ "idle" \notin CredentialsStages
<1>1. AccountsStages \cap CredentialsStages = {} /\ RolesStages \cap CredentialsStages = {} /\ "idle" \notin CredentialsStages
  BY DEF AccountsStages, RolesStages, CredentialsStages
<1>2. RolesGoes \cap CredentialsStages = {} /\ RolesAsks \cap CredentialsStages = {}
  BY DEF RolesGoes, RolesAsks, RolesStages, CredentialsStages
<1>3. /\ StaffStages \cap CredentialsStages = {} /\ StaffGoes \cap CredentialsStages = {} /\ LinkGoes \cap CredentialsStages = {}
  BY DEF StaffStages, StaffGoes, LinkGoes, CredentialsStages
<1>4. /\ HiringStages \cap CredentialsStages = {} /\ HiringGoes \cap CredentialsStages = {} /\ FindGoes \cap CredentialsStages = {}
      /\ RegisterGoes \cap CredentialsStages = {}
  BY DEF HiringStages, HiringGoes, FindGoes, RegisterGoes, CredentialsStages
<1>5. /\ OnboardingStages \cap CredentialsStages = {} /\ VerificationStages \cap CredentialsStages = {}
      /\ CampaignsStages \cap CredentialsStages = {}
  BY DEF OnboardingStages, VerificationStages, CampaignsStages, CredentialsStages
<1> QED BY <1>1, <1>2, <1>3, <1>4, <1>5

LEMMA ElsewhereInProofs ==
    ASSUME SessionsInv, NEW c \in Callers,
           \/ AccountsNext(c) \/ RolesNext(c) \/ StaffNext(c) \/ HiringNext(c) \/ OnboardingNext(c) \/ VerificationNext(c)
           \/ CampaignsNext(c)
    PROVE  calls[c].stage \notin Pinning /\ calls'[c].stage \notin CredentialsStages
<1>0. Pinning \subseteq CredentialsStages
  BY DEF Pinning, CredentialsStages
<1>1. CASE AccountsNext(c)
  BY <1>0, <1>1, AccountsActs, AccountsStands, OutsideOfProofs DEF SessionsInv, Handled, Acts, Stands
<1>2. CASE RolesNext(c)
  BY <1>0, <1>2, RolesActs, RolesStands, OutsideOfProofs DEF SessionsInv, Handled, Acts, Stands
<1>3. CASE StaffNext(c) \/ HiringNext(c)
  BY <1>0, <1>3, StaffActs, StaffStands, HiringActs, HiringStands, OutsideOfProofs DEF SessionsInv, Handled, Acts, Stands
<1>4. CASE OnboardingNext(c) \/ VerificationNext(c) \/ CampaignsNext(c)
  BY <1>0, <1>4, OnboardingActs, OnboardingStands, VerificationActs, VerificationStands, CampaignsActs, CampaignsStands, OutsideOfProofs
     DEF SessionsInv, Handled, Acts, Stands
<1> QED BY <1>1, <1>2, <1>3, <1>4

\* What accounts draw of secrets.
LEMMA AccountsDraw ==
    ASSUME NEW c \in Callers, AccountsNext(c)
    PROVE  secrets' \in {secrets, secrets + 1} /\ UNCHANGED credentials
<1>1. UNCHANGED credentials
  BY DEF AccountsNext
<1>2. CASE AccountsStep(c)
  <2>1. CASE Rotate(c) \/ CreateAccount(c)
    <3>1. secrets' = New \/ secrets' = secrets
      BY <2>1 DEF Rotate, CreateAccount
    <3> QED BY <1>1, <3>1 DEF New
  <2>2. CASE Issue(c) \/ WriteOtp(c)
    <3>1. secrets' = New
      BY <2>2 DEF Issue, WriteOtp
    <3> QED BY <1>1, <3>1 DEF New
  <2>3. CASE Forget(c) \/ MailCode(c) \/ WriteVerified(c) \/ LinkGoogle(c) \/ CheckStatus(c) \/ SpendToken(c) \/ DropProfile(c)
    <3>1. secrets' = secrets
      BY <2>3 DEF Forget, MailCode, WriteVerified, LinkGoogle, CheckStatus, SpendToken, DropProfile, accounts
    <3> QED BY <1>1, <3>1
  <2> QED BY <1>2, <2>1, <2>2, <2>3 DEF AccountsStep
<1>3. CASE AccountsRequest(c)
  <2>1. secrets' = secrets
    BY <1>3, Zenon
       DEF AccountsRequest, SignUpRequest, OtpRequest, SignInRequest, Register, ResendOtp, VerifyOtp, Login, GoogleSignIn,
           RefreshToken, DeleteAdminUser, UpdateUserStatus, accounts
  <2> QED BY <1>1, <2>1
<1> QED BY <1>1, <1>2, <1>3 DEF AccountsNext

LEMMA RolesDraw ==
    ASSUME NEW c \in Callers, RolesNext(c)
    PROVE  secrets' = secrets /\ UNCHANGED credentials
<1>1. UNCHANGED credentials
  BY DEF RolesNext
<1>2. CASE RolesStep(c)
  <2>1. CASE DropPermissions(c) \/ DeleteRole(c) \/ InsertAdmin(c) \/ WriteRole(c) \/ DropThenLog(c)
    BY <1>1, <2>1, Zenon DEF DropPermissions, DeleteRole, InsertAdmin, WriteRole, DropThenLog, accounts
  <2>2. CASE LogAssignment(c) \/ InsertUserRole(c) \/ CacheProfile(c) \/ Judge(c) \/ CachePermissions(c)
    BY <1>1, <2>2, Zenon DEF LogAssignment, InsertUserRole, CacheProfile, Judge, CachePermissions, accounts
  <2> QED BY <1>2, <2>1, <2>2 DEF RolesStep
<1>3. CASE RolesRequest(c)
  <2>1. CASE RoleRequest(c) \/ GrantRequest(c) \/ AdminUserRequest(c)
    BY <1>1, <2>1, Zenon
       DEF RoleRequest, GrantRequest, AdminUserRequest, CreateRole, SetActive, SetPermissions, RemoveRole, AddUserRole,
           RemoveUserRole, CreateAdminUser, AssignAdminRole, accounts
  <2>2. CASE (\E u \in Users : RemoveStaffRole(c, u)) \/ \E u \in Users, s \in 0..secrets : Request(c, u, s)
    BY <1>1, <2>2, Zenon DEF RemoveStaffRole, Request, accounts
  <2> QED BY <1>3, <2>1, <2>2 DEF RolesRequest
<1> QED BY <1>1, <1>2, <1>3 DEF RolesNext

LEMMA EmployersDraw ==
    ASSUME NEW c \in Callers, StaffNext(c) \/ HiringNext(c)
    PROVE  /\ UNCHANGED <<pin, phone, address, resets, guesses, proved, declined>>
           /\ \/ reset' = reset /\ secrets' \in {secrets, secrets + 1}
              \/ secrets' = secrets + 1 /\ \E u : reset' = [reset EXCEPT ![u] = secrets + 1]
<1>1. CASE UNCHANGED Elsewhere
  BY <1>1 DEF Elsewhere, accounts, credentials
<1>2. CASE CreateLinkedUser(c) \/ CreateEmployee(c)
  <2>1. UNCHANGED credentials /\ secrets' = secrets
    BY <1>2, Zenon DEF CreateLinkedUser, CreateEmployee, CreateUser
  <2> QED BY <2>1 DEF credentials
<1>3. CASE SetUpLinked(c) \/ SetUpEmployee(c)
  <2>1. /\ UNCHANGED <<pin, phone, address, resets, guesses, proved, declined>>
        /\ secrets' = New /\ \E u : reset' = [reset EXCEPT ![u] = New]
    BY <1>3, Zenon DEF SetUpLinked, SetUpEmployee
  <2> QED BY <2>1 DEF New
<1>4. CASE WriteApplicantOtp(c) \/ \E a \in Applications : WriteSubmission(c, a)
  <2>1. UNCHANGED credentials /\ secrets' = New
    BY <1>4, Zenon DEF WriteApplicantOtp, WriteSubmission
  <2> QED BY <2>1 DEF New, credentials
<1> QED BY <1>1, <1>2, <1>3, <1>4, StaffAway, HiringAway

LEMMA OthersKeepProofs ==
    ASSUME SessionsInv, CredInv, NEW c \in Callers,
           \/ AccountsNext(c) \/ RolesNext(c) \/ StaffNext(c) \/ HiringNext(c) \/ OnboardingNext(c) \/ VerificationNext(c)
           \/ CampaignsNext(c)
    PROVE  CredInv'
<1>1. PICK S : Acts(c, S)
  BY SomebodyActs DEF SessionsInv, Handled
<1>2. Unhurt(c)
  <2>1. CASE AccountsNext(c) \/ RolesNext(c)
    BY <2>1, AccountsDraw, RolesDraw, ElsewhereInProofs DEF Unhurt, credentials
  <2>2. CASE StaffNext(c) \/ HiringNext(c)
    BY <2>2, EmployersDraw, ElsewhereInProofs DEF Unhurt
  <2>3. CASE OnboardingNext(c) \/ VerificationNext(c) \/ CampaignsNext(c)
    <3>1. UNCHANGED credentials /\ UNCHANGED accounts
      BY <2>3, OnboardingAway, Zenon DEF VerificationNext, CampaignsNext
    <3> QED BY <2>3, <3>1, ElsewhereInProofs DEF Unhurt, credentials, accounts
  <2> QED BY <2>1, <2>2, <2>3
<1> QED BY <1>1, <1>2, UnhurtGoesOn, ProofsStay

\* Who dies has one wrong PIN to its name.
LEMMA DeathKeepsProofs ==
    ASSUME SessionsInv, CredInv, NEW c \in Callers, Dies(c)
    PROVE  CredInv'
<1>1. UNCHANGED <<accounts, credentials>> /\ Shape
  BY Zenon DEF Dies, SessionsInv, Handled
<1>2. Acts(c, {}) /\ crashes' = crashes + 1 /\ calls'[c].stage = "idle"
  BY <1>1, DiesActs DEF Dies, Crash, Acts
<1>3. CredentialsTypeOK' /\ Owned'
  BY <1>1 DEF CredInv, CredentialsTypeOK, Owned, credentials
<1>4. CredCall(calls'[c])
  BY <1>2, RecallsNothing, OutsideOfProofs
<1>5. ASSUME Sturdy(c)
      PROVE  Sturdy(c)'
  <2>1. ResetsRight' /\ PhonesRight' /\ AddressesRight'
    BY <1>1, <1>5 DEF Sturdy, credentials, accounts, ResetsRight, PhonesRight, AddressesRight, Live, Defaults
  <2>2. Recalls(c)'
    BY <1>2 DEF Recalls, At
  <2>3. PinsRight(c)'
    <3> SUFFICES ASSUME NEW u \in Users
                 PROVE  PinRight(u, Judges(c, u), Locks(c, u))'
      BY DEF PinsRight
    <3>1. guesses[u] <= MaxFails + crashes /\ guesses[u] <= pin[u].failed + crashes + 1
      <4>1. guesses[u] \in Nat /\ pin[u].failed \in Nat /\ crashes \in Nat
        BY DEF CredInv, CredentialsTypeOK, PinRows
      <4> QED BY <1>5, <4>1 DEF Sturdy, PinsRight, PinRight
    <3>2. guesses[u] \in Nat /\ pin[u].failed \in Nat /\ MaxFails \in Nat /\ crashes \in Nat
      BY CredentialsAssumption DEF CredInv, CredentialsTypeOK, PinRows
    <3>3. UNCHANGED <<guesses, pin>>
      BY <1>1 DEF credentials
    <3> QED BY <1>2, <3>1, <3>2, <3>3 DEF PinRight
  <2> QED BY <2>1, <2>2, <2>3 DEF Sturdy
<1> QED BY <1>2, <1>3, <1>4, <1>5, ProofsStay DEF ProofsGoOn

\* Half an hour after it shut, the lock opens, and wrong PINs are counted anew.
LEMMA TimeKeepsProofs ==
    ASSUME SessionsInv, CredInv, Time
    PROVE  CredInv'
<1>1. UNCHANGED <<calls, overlapped, crashes>>
  BY TimeWaits DEF handlers
<1>2. UNCHANGED secrets /\ (UNCHANGED credentials \/ \E u \in Users : LockExpires(u))
  <2>1. CASE \/ (\E u \in Users : ProfileExpires(u) /\ UNCHANGED credentials)
             \/ (\E r \in AdminRoles : PermissionsExpire(r) /\ UNCHANGED credentials)
             \/ (\E s \in Members : CopyExpires(s)) \/ \E n \in Nins : CooldownEnds(n)
    BY <2>1, Zenon DEF ProfileExpires, PermissionsExpire, CopyExpires, CooldownEnds, Others, Elsewhere, accounts
  <2>2. CASE \E u \in Users : LockExpires(u)
    <3>1. UNCHANGED accounts
      BY <2>2, Zenon DEF LockExpires
    <3> QED BY <2>2, <3>1 DEF accounts
  <2> QED BY <2>1, <2>2, Zenon DEF Time, accounts
<1>3. ASSUME UNCHANGED <<reset, phone, address, resets, proved, declined>>, CredentialsTypeOK',
             \A u \in Users : \/ guesses'[u] = guesses[u] /\ pin'[u] = pin[u]
                              \/ guesses'[u] = 0 /\ pin'[u].failed = pin[u].failed
      PROVE  CredInv'
  <2>1. Owned' /\ (\A c \in Callers : CredCall(calls'[c])) /\ crashes' \in Nat
    BY <1>1, <1>3 DEF CredInv, Owned
  <2>2. ASSUME ~overlapped
        PROVE  CredCalm'
    <3>1. ResetsRight' /\ PhonesRight' /\ AddressesRight'
      BY <1>1, <1>2, <1>3, <2>2 DEF CredInv, CredCalm, ResetsRight, PhonesRight, AddressesRight, Live, Defaults
    <3>2. ASSUME NEW u \in Users
          PROVE  PinRight(u, \E c \in Callers : Judges(c, u), \E c \in Callers : Locks(c, u))'
      <4>1. PinRight(u, \E c \in Callers : Judges(c, u), \E c \in Callers : Locks(c, u))
        BY <2>2 DEF CredInv, CredCalm
      <4>2. pin[u].failed \in Nat /\ MaxFails \in Nat \ {0} /\ crashes \in Nat
        BY CredentialsAssumption DEF CredInv, CredentialsTypeOK, PinRows
      <4>3. CASE guesses'[u] = guesses[u] /\ pin'[u] = pin[u]
        BY <1>1, <4>1, <4>3 DEF PinRight, PinLocked, Judges, Locks, At
      <4>4. CASE guesses'[u] = 0 /\ pin'[u].failed = pin[u].failed
        BY <1>1, <4>2, <4>4 DEF PinRight
      <4> QED BY <1>3, <4>3, <4>4
    <3>3. \A c \in Callers : Recalls(c)'
      <4>1. \A c \in Callers : calls[c].stage = "unlock" => calls[c].on \in Users
        BY DEF CredInv, CredCall, OfUsers
      <4>2. \A c \in Callers : calls[c].stage = "count_failure" => calls[c].on \in Users
        BY DEF CredInv, CredCall, OfUsers
      <4> QED BY <1>1, <1>3, <2>2, <4>1, <4>2 DEF CredInv, CredCalm, Recalls, At, Live, Defaults
    <3> QED BY <3>1, <3>2, <3>3 DEF CredCalm
  <2> QED BY <1>1, <1>3, <2>1, <2>2 DEF CredInv, CredCalm
<1>4. CASE UNCHANGED credentials
  BY <1>3, <1>4 DEF credentials, CredInv, CredentialsTypeOK
<1>5. ASSUME NEW v \in Users, LockExpires(v)
      PROVE  CredInv'
  <2>1. /\ UNCHANGED <<reset, phone, address, resets, proved, declined>> /\ guesses' = [guesses EXCEPT ![v] = 0]
        /\ pin' = [pin EXCEPT ![v] = [pin[v] EXCEPT !.locked = FALSE, !.lock = FALSE]]
    BY <1>5 DEF LockExpires
  <2>2. CredentialsTypeOK /\ [pin[v] EXCEPT !.locked = FALSE, !.lock = FALSE] \in PinRows
    BY DEF CredInv, CredentialsTypeOK, PinRows
  <2>3. CredentialsTypeOK'
    BY <2>1, <2>2 DEF CredentialsTypeOK
  <2>4. [pin[v] EXCEPT !.locked = FALSE, !.lock = FALSE].failed = pin[v].failed
    BY DEF CredInv, CredentialsTypeOK, PinRows
  <2>5. \A u \in Users : \/ guesses'[u] = guesses[u] /\ pin'[u] = pin[u]
                         \/ guesses'[u] = 0 /\ pin'[u].failed = pin[u].failed
    BY <2>1, <2>2, <2>4 DEF CredentialsTypeOK
  <2> QED BY <1>3, <2>1, <2>3, <2>5
<1> QED BY <1>2, <1>4, <1>5

-----------------------------------------------------------------------------
(* Credentials: requests.                                                  *)

LEMMA AskGoesOn ==
    ASSUME SessionsInv, CredInv, NEW c \in Callers, NEW S, Acts(c, S), calls[c].stage = "idle",
           UNCHANGED <<secrets, reset, pin, phone, address, resets, guesses, proved>>,
           declined \subseteq declined', declined' \subseteq Users,
           CredCall(calls'[c]), Sturdy(c) => Recalls(c)'
    PROVE  ProofsGoOn(c)
<1>1. CredentialsTypeOK' /\ Owned'
  BY DEF CredInv, CredentialsTypeOK, Owned
<1>2. ASSUME Sturdy(c)
      PROVE  Sturdy(c)'
  <2>1. ResetsRight' /\ PhonesRight' /\ AddressesRight'
    BY <1>2 DEF Sturdy, ResetsRight, PhonesRight, AddressesRight, Live, Defaults
  <2>2. PinsRight(c)'
    BY <1>2, PinsStay DEF Sturdy, Pinning
  <2> QED BY <1>2, <2>1, <2>2 DEF Sturdy
<1> QED BY <1>1, <1>2 DEF ProofsGoOn

LEMMA PasswordRequestsGoOn ==
    ASSUME SessionsInv, CredInv, NEW c \in Callers, NEW S, Acts(c, S), Ready(c), NEW u \in Users,
           ForgotPassword(c, u) \/ ResetPassword(c, u, reset[u]) \/ SetPassword(c, u)
    PROVE  ProofsGoOn(c)
<1>1. Shape /\ calls[c].stage = "idle" /\ reset[u] \in Nat /\ declined \subseteq Users
  BY DEF SessionsInv, Handled, Ready, At, CredInv, CredentialsTypeOK
<1>2. UNCHANGED <<secrets, reset, pin, phone, address, resets, guesses, proved, declined>>
  <2>1. CASE ForgotPassword(c, u) \/ ResetPassword(c, u, reset[u])
    BY <2>1, Zenon DEF ForgotPassword, ResetPassword, accounts, credentials
  <2>2. CASE SetPassword(c, u)
    BY <2>2, Zenon DEF SetPassword, credentials
  <2> QED BY <2>1, <2>2
<1>3. CASE ForgotPassword(c, u)
  <2>1. calls'[c].stage = "write_reset" /\ calls'[c].on = u
    BY <1>1, <1>3, Starts DEF ForgotPassword
  <2>2. CredCall(calls'[c]) /\ Recalls(c)'
    BY <2>1 DEF CredCall, OfUsers, Recalls, At
  <2> QED BY <1>1, <1>2, <2>2, AskGoesOn
<1>4. CASE ResetPassword(c, u, reset[u])
  <2>1. calls'[c].stage = "new_password" /\ calls'[c].on = u /\ calls'[c].saw = reset[u] /\ reset[u] # 0
    BY <1>1, <1>4, Starts DEF ResetPassword
  <2>2. CredCall(calls'[c]) /\ Recalls(c)'
    BY <1>1, <1>2, <2>1 DEF CredCall, OfUsers, Recalls, At
  <2> QED BY <1>1, <1>2, <2>2, AskGoesOn
<1>5. CASE SetPassword(c, u)
  <2>1. calls'[c].stage = "idle"
    BY <1>1, <1>5 DEF SetPassword, Once
  <2>2. CredCall(calls'[c]) /\ Recalls(c)'
    BY <2>1 DEF CredCall, OfUsers, Recalls, At
  <2> QED BY <1>1, <1>2, <2>2, AskGoesOn
<1> QED BY <1>3, <1>4, <1>5

LEMMA PinRequestsGoOn ==
    ASSUME SessionsInv, CredInv, NEW c \in Callers, NEW S, Acts(c, S), Ready(c), NEW u \in Users, NEW then,
           SetPin(c, u) \/ RightPin(c, u, then)
    PROVE  ProofsGoOn(c)
<1>1. Shape /\ calls[c].stage = "idle" /\ declined \subseteq Users
  BY DEF SessionsInv, Handled, Ready, At, CredInv, CredentialsTypeOK
<1>2. UNCHANGED <<secrets, reset, pin, phone, address, resets, guesses, proved, declined>>
  BY Zenon DEF SetPin, RightPin, accounts, credentials
<1>3. \E w : Begin(c, "pin", "store_pin", u, w)
  BY Zenon DEF SetPin, RightPin
<1>4. calls'[c].stage = "store_pin" /\ calls'[c].on = u
  BY <1>1, <1>3, Starts
<1>5. CredCall(calls'[c]) /\ Recalls(c)'
  BY <1>4 DEF CredCall, OfUsers, Recalls, At
<1> QED BY <1>1, <1>2, <1>5, AskGoesOn

\* A wrong PIN is judged while the lock is open, so there were fewer than allowed.
LEMMA WrongPinGoesOn ==
    ASSUME SessionsInv, CredInv, NEW c \in Callers, NEW S, Acts(c, S), Ready(c), NEW u \in Users, WrongPin(c, u)
    PROVE  ProofsGoOn(c)
<1>1. /\ Shape /\ calls[c].stage = "idle" /\ CredentialsTypeOK /\ crashes \in Nat /\ crashes' \in {crashes, crashes + 1}
      /\ MaxFails \in Nat \ {0} /\ \A v \in Users : guesses[v] \in Nat /\ pin[v].failed \in Nat
  BY CredentialsAssumption DEF SessionsInv, Handled, Ready, At, CredInv, CredentialsTypeOK, PinRows, Acts
<1>2. /\ UNCHANGED <<secrets, reset, pin, phone, address, resets, proved, declined>> /\ ~PinLocked(u)
      /\ guesses' = [guesses EXCEPT ![u] = guesses[u] + 1]
  BY DEF WrongPin, accounts
<1>3. calls'[c].stage = "count_failure" /\ calls'[c].on = u /\ calls'[c].saw = pin[u].failed
  BY <1>1, Starts DEF WrongPin
<1>4. \A v \in Users : guesses'[v] = IF v = u THEN guesses[u] + 1 ELSE guesses[v]
  BY <1>1, <1>2 DEF CredentialsTypeOK
<1>5. CredentialsTypeOK' /\ Owned' /\ CredCall(calls'[c])
  <2>1. guesses' \in [Users -> Nat]
    BY <1>1, <1>2 DEF CredentialsTypeOK
  <2> QED BY <1>1, <1>2, <1>3, <2>1 DEF CredInv, CredentialsTypeOK, Owned, CredCall, OfUsers
<1>6. ASSUME Sturdy(c)
      PROVE  Sturdy(c)'
  <2>1. ResetsRight' /\ PhonesRight' /\ AddressesRight'
    BY <1>2, <1>6 DEF Sturdy, ResetsRight, PhonesRight, AddressesRight, Live, Defaults
  <2>2. Recalls(c)'
    BY <1>2, <1>3 DEF Recalls, At
  <2>3. ASSUME NEW v \in Users
        PROVE  PinRight(v, Judges(c, v), Locks(c, v))'
    <3>1. ~Judges(c, v) /\ ~Locks(c, v)
      BY <1>1 DEF Judges, Locks, At
    <3>2. /\ guesses[v] <= MaxFails + crashes /\ guesses[v] <= pin[v].failed + crashes
          /\ guesses[v] <= MaxFails - 1 + crashes \/ PinLocked(v)
      BY <1>6, <3>1 DEF Sturdy, PinsRight, PinRight
    <3>3. CASE v = u
      <4>1. Judges(c, v)'
        BY <1>3, <3>3 DEF Judges, At
      <4>2. guesses'[v] = guesses[v] + 1 /\ guesses[v] <= MaxFails - 1 + crashes
        BY <1>2, <1>4, <3>2, <3>3
      <4> QED BY <1>1, <1>2, <3>2, <4>1, <4>2 DEF PinRight
    <3>4. CASE v # u
      BY <1>1, <1>2, <1>4, <3>2, <3>4 DEF PinRight, PinLocked
    <3> QED BY <3>3, <3>4
  <2> QED BY <2>1, <2>2, <2>3 DEF Sturdy, PinsRight
<1> QED BY <1>5, <1>6 DEF ProofsGoOn

LEMMA PhoneRequestsGoOn ==
    ASSUME SessionsInv, CredInv, NEW c \in Callers, NEW S, Acts(c, S), Ready(c), NEW u \in Users,
           VerifyPhone(c, u) \/ \E n \in Phones : RequestPhone(c, u, n)
    PROVE  ProofsGoOn(c)
<1>1. Shape /\ calls[c].stage = "idle" /\ declined \subseteq Users /\ phone[u].number \in {"none"} \cup Phones
  BY DEF SessionsInv, Handled, Ready, At, CredInv, CredentialsTypeOK, PhoneRows
<1>2. UNCHANGED <<secrets, reset, pin, phone, address, resets, guesses, proved, declined>>
  BY Zenon DEF VerifyPhone, RequestPhone, accounts, credentials
<1>3. CASE VerifyPhone(c, u)
  <2>1. calls'[c].stage = "phone_verified" /\ calls'[c].on = u /\ calls'[c].saw = phone[u].number
    BY <1>1, <1>3, Starts DEF VerifyPhone
  <2>2. CredCall(calls'[c]) /\ Recalls(c)'
    BY <1>1, <1>2, <2>1 DEF CredCall, OfUsers, Recalls, At
  <2> QED BY <1>1, <1>2, <2>2, AskGoesOn
<1>4. ASSUME NEW n \in Phones, RequestPhone(c, u, n)
      PROVE  ProofsGoOn(c)
  <2>1. calls'[c].stage = "write_phone" /\ calls'[c].on = u /\ calls'[c].saw = n
    BY <1>1, <1>4, Starts DEF RequestPhone
  <2>2. CredCall(calls'[c]) /\ Recalls(c)'
    BY <2>1 DEF CredCall, OfUsers, Recalls, At
  <2> QED BY <1>1, <1>2, <2>2, AskGoesOn
<1> QED BY <1>3, <1>4

LEMMA AddressRequestsGoOn ==
    ASSUME SessionsInv, CredInv, NEW c \in Callers, NEW S, Acts(c, S), Ready(c),
           \/ \E u \in Users, default \in {"yes", "no", "unset"} : CreateAddress(c, u, default)
           \/ \E a \in Addresses : MakeDefault(c, a) \/ DeleteAddress(c, a)
    PROVE  ProofsGoOn(c)
<1>1. Shape /\ calls[c].stage = "idle" /\ declined \subseteq Users /\ \A a \in Addresses : address[a] \in AddressRows
  BY DEF SessionsInv, Handled, Ready, At, CredInv, CredentialsTypeOK
<1>2. UNCHANGED <<secrets, reset, pin, phone, address, resets, guesses, proved>>
  BY Zenon DEF CreateAddress, MakeDefault, DeleteAddress, OnlyAddresses, accounts
<1>3. ASSUME NEW u \in Users, NEW default \in {"yes", "no", "unset"}, CreateAddress(c, u, default)
      PROVE  ProofsGoOn(c)
  <2> DEFINE main == IF default = "unset" THEN Live(u) = {} ELSE default = "yes"
             clear == IF main THEN Defaults(u) ELSE {}
  <2>1. /\ Begin(c, "address", "create_address", u, [default |-> main, clear |-> clear])
        /\ declined' = IF default = "no" THEN declined \cup {u} ELSE declined
    BY <1>3, Zenon DEF CreateAddress
  <2>2. main \in BOOLEAN /\ (main \/ Live(u) # {} \/ u \in declined')
    BY <2>1
  <2>3. clear = IF main THEN Defaults(u) ELSE {}
    OBVIOUS
  <2> HIDE DEF main, clear
  <2>4. /\ calls'[c].stage = "create_address" /\ calls'[c].on = u
        /\ calls'[c].saw.default = main /\ calls'[c].saw.clear = clear
    <3>1. calls'[c].stage = "create_address" /\ calls'[c].on = u /\ calls'[c].saw = [default |-> main, clear |-> clear]
      BY <1>1, <2>1, Starts
    <3> QED BY <3>1
  <2>5. CredCall(calls'[c])
    BY <2>2, <2>4 DEF CredCall, OfUsers
  <2>6. Recalls(c)'
    BY <1>2, <2>2, <2>3, <2>4 DEF Recalls, At, Live, Defaults
  <2>7. declined \subseteq declined' /\ declined' \subseteq Users
    BY <1>1, <2>1
  <2> QED BY <1>1, <1>2, <2>5, <2>6, <2>7, AskGoesOn
<1>4. ASSUME NEW a \in Addresses, MakeDefault(c, a) \/ DeleteAddress(c, a)
      PROVE  ProofsGoOn(c)
  <2>1. declined' = declined /\ address[a].there
    BY <1>4, Zenon DEF MakeDefault, DeleteAddress
  <2>2. \/ /\ calls'[c].stage = "make_default" /\ calls'[c].on = a
           /\ calls'[c].saw = Defaults(address[a].user) \ {a}
        \/ calls'[c].stage = "delete_address" /\ calls'[c].on = a /\ calls'[c].saw = address[a].default
    <3>1. CASE MakeDefault(c, a)
      BY <1>1, <3>1, Starts DEF MakeDefault
    <3>2. CASE DeleteAddress(c, a)
      BY <1>1, <3>2, Starts DEF DeleteAddress
    <3> QED BY <1>4, <3>1, <3>2
  <2>3. CredCall(calls'[c])
    BY <2>2 DEF CredCall, OfUsers
  <2>4. Recalls(c)'
    BY <1>2, <2>1, <2>2 DEF Recalls, At, Live, Defaults
  <2> QED BY <1>1, <1>2, <2>1, <2>3, <2>4, AskGoesOn
<1> QED BY <1>3, <1>4

-----------------------------------------------------------------------------
(* Credentials: the steps on passwords, PINs and numbers.                  *)

LEMMA WriteResetGoesOn ==
    ASSUME SessionsInv, CredInv, NEW c \in Callers, NEW S, Acts(c, S), WriteReset(c)
    PROVE  ProofsGoOn(c)
<1>1. Shape /\ calls[c].stage = "write_reset"
  BY DEF SessionsInv, Handled, WriteReset, At
<1>2. calls'[c].stage = "idle" /\ UNCHANGED <<pin, phone, address, resets, guesses, proved, declined>>
  BY <1>1, Returned DEF WriteReset
<1>3. \/ reset' = reset /\ secrets' = secrets
      \/ secrets' = New /\ \E u : reset' = [reset EXCEPT ![u] = New]
  BY Zenon DEF WriteReset
<1>4. calls[c].stage \notin Pinning /\ calls'[c].stage \notin CredentialsStages
  BY <1>1, <1>2, OutsideOfProofs DEF Pinning
<1> QED BY <1>2, <1>3, <1>4, UnhurtGoesOn DEF Unhurt, New

\* The link is gone with its use, and nobody else had it.
LEMMA WritePasswordGoesOn ==
    ASSUME SessionsInv, CredInv, NEW c \in Callers, NEW S, Acts(c, S), WritePassword(c)
    PROVE  ProofsGoOn(c)
<1> DEFINE u == calls[c].on  token == calls[c].saw
<1>1. /\ Shape /\ calls[c].stage = "new_password" /\ u \in Users /\ token \in Nat /\ CredentialsTypeOK /\ secrets \in Nat
  BY DEF SessionsInv, Handled, Tables, AccountsTypeOK, WritePassword, At, CredInv, CredCall, OfUsers
<1>2. /\ UNCHANGED <<secrets, pin, phone, address, guesses, proved, declined>> /\ reset' = [reset EXCEPT ![u] = 0]
      /\ resets' = [t \in DOMAIN resets \cup {token} |-> Used(t) + IF t = token THEN 1 ELSE 0]
  BY Zenon DEF WritePassword
<1>3. calls'[c].stage = "idle"
  BY <1>1, Returned DEF WritePassword
<1>4. CredentialsTypeOK' /\ Owned' /\ CredCall(calls'[c])
  <2>1. reset' \in [Users -> Nat] /\ DOMAIN resets' = DOMAIN resets \cup {token}
    BY <1>1, <1>2 DEF CredentialsTypeOK
  <2>2. CredentialsTypeOK'
    BY <1>1, <1>2, <2>1 DEF CredentialsTypeOK
  <2> QED BY <1>2, <1>3, <2>2, RecallsNothing, OutsideOfProofs DEF CredInv, Owned
<1>5. ASSUME Sturdy(c)
      PROVE  Sturdy(c)'
  <2>1. reset[u] = token /\ token # 0 /\ ResetsRight
    BY <1>1, <1>5 DEF Sturdy, Recalls, At
  <2>2. token \notin DOMAIN resets /\ token \in 1..secrets
    BY <1>1, <2>1 DEF ResetsRight
  <2>3. DOMAIN resets' = DOMAIN resets \cup {token} /\ \A t \in DOMAIN resets' : resets'[t] = 1
    <3>1. DOMAIN resets' = DOMAIN resets \cup {token}
      BY <1>2
    <3>2. \A t \in DOMAIN resets' : resets'[t] = Used(t) + IF t = token THEN 1 ELSE 0
      BY <1>2
    <3>3. Used(token) = 0 /\ \A t \in DOMAIN resets : Used(t) = 1
      BY <2>1, <2>2 DEF Used, ResetsRight
    <3> QED BY <2>2, <3>1, <3>2, <3>3
  <2>4. \A v \in Users : reset'[v] = IF v = u THEN 0 ELSE reset[v]
    BY <1>1, <1>2 DEF CredentialsTypeOK
  <2>5. ResetsRight'
    BY <1>1, <1>2, <2>1, <2>2, <2>3, <2>4 DEF ResetsRight
  <2>6. PinsRight(c)'
    BY <1>1, <1>2, <1>5, PinsStay DEF Sturdy, Pinning
  <2>7. PhonesRight' /\ AddressesRight' /\ Recalls(c)'
    BY <1>2, <1>3, <1>5 DEF Sturdy, PhonesRight, AddressesRight, Live, Defaults, Recalls, At
  <2> QED BY <2>5, <2>6, <2>7 DEF Sturdy
<1> QED BY <1>4, <1>5 DEF ProofsGoOn

\* What steps on a PIN leave alone.
LEMMA PinStepGoesOn ==
    ASSUME SessionsInv, CredInv, NEW c \in Callers, NEW S, Acts(c, S), NEW u \in Users, NEW row \in PinRows,
           UNCHANGED <<secrets, reset, phone, address, resets, proved, declined>>,
           pin' = [pin EXCEPT ![u] = row],
           guesses' = guesses \/ guesses' = [guesses EXCEPT ![u] = 0],
           calls[c].stage \in OfUsers /\ calls[c].on = u, CredCall(calls'[c]),
           Sturdy(c) => /\ Recalls(c)'
                        /\ PinRight(u, Judges(c, u), Locks(c, u))'
    PROVE  ProofsGoOn(c)
<1>1. /\ CredentialsTypeOK /\ crashes \in Nat /\ crashes' \in {crashes, crashes + 1}
      /\ MaxFails \in Nat \ {0} /\ \A v \in Users : guesses[v] \in Nat /\ pin[v].failed \in Nat
  BY CredentialsAssumption DEF CredInv, CredentialsTypeOK, PinRows, Acts
<1>2. \A v \in Users \ {u} : pin'[v] = pin[v] /\ guesses'[v] = guesses[v]
  BY <1>1 DEF CredentialsTypeOK
<1>3. CredentialsTypeOK' /\ Owned'
  BY <1>1 DEF CredInv, CredentialsTypeOK, Owned
<1>4. ASSUME Sturdy(c)
      PROVE  Sturdy(c)'
  <2>1. ResetsRight' /\ PhonesRight' /\ AddressesRight'
    BY <1>4 DEF Sturdy, ResetsRight, PhonesRight, AddressesRight, Live, Defaults
  <2>2. ASSUME NEW v \in Users \ {u}
        PROVE  PinRight(v, Judges(c, v), Locks(c, v))'
    <3>1. ~Judges(c, v) /\ ~Locks(c, v)
      BY DEF Judges, Locks, At
    <3>2. /\ guesses[v] <= MaxFails + crashes /\ guesses[v] <= pin[v].failed + crashes
          /\ guesses[v] <= MaxFails - 1 + crashes \/ PinLocked(v)
      BY <1>4, <3>1 DEF Sturdy, PinsRight, PinRight
    <3> QED BY <1>1, <1>2, <3>2 DEF PinRight, PinLocked
  <2> QED BY <1>4, <2>1, <2>2 DEF Sturdy, PinsRight
<1> QED BY <1>3, <1>4 DEF ProofsGoOn

LEMMA NoneJudged ==
    ASSUME NEW died \in Nat
    PROVE  0 <= MaxFails + died /\ 0 <= MaxFails - 1 + died /\ \A failed \in Nat : 0 <= failed + died
BY CredentialsAssumption

LEMMA StorePinGoesOn ==
    ASSUME SessionsInv, CredInv, NEW c \in Callers, NEW S, Acts(c, S), StorePin(c)
    PROVE  ProofsGoOn(c)
<1>0. PICK u \in Users : u = calls[c].on
  BY DEF CredInv, CredCall, OfUsers, At, StorePin
<1> DEFINE row == [pin[u] EXCEPT !.set = TRUE, !.failed = 0, !.locked = FALSE]
<1>1. /\ Shape /\ calls[c].stage = "store_pin" /\ u = calls[c].on /\ CredentialsTypeOK /\ pin[u] \in PinRows
      /\ crashes' \in Nat /\ MaxFails \in Nat \ {0}
  BY <1>0, CredentialsAssumption DEF SessionsInv, Handled, StorePin, At, CredInv, CredCall, OfUsers, CredentialsTypeOK, Acts
<1>2. /\ Goto(c, "unlock", calls[c].saw) /\ pin' = [pin EXCEPT ![u] = [pin[u] EXCEPT !.set = TRUE, !.failed = 0, !.locked = FALSE]]
      /\ guesses' = [guesses EXCEPT ![u] = 0]
      /\ UNCHANGED <<secrets, reset, phone, address, resets, proved, declined>>
  BY <1>0 DEF StorePin, accounts
<1>3. calls'[c].stage = "unlock" /\ calls'[c].on = u
  BY <1>1, <1>2, Gone
<1>4. row \in PinRows /\ row.failed = 0
  BY <1>1 DEF PinRows
<1>5. guesses'[u] = 0 /\ pin'[u].failed = 0
  BY <1>1, <1>2, <1>4 DEF CredentialsTypeOK
<1>6. PinRight(u, Judges(c, u), Locks(c, u))'
  BY <1>1, <1>5, NoneJudged DEF PinRight
<1>7. Recalls(c)' /\ CredCall(calls'[c])
  BY <1>1, <1>3, <1>5 DEF Recalls, CredCall, OfUsers, At
<1> HIDE DEF row
<1>8. pin' = [pin EXCEPT ![u] = row]
  BY <1>2 DEF row
<1> QED BY <1>1, <1>2, <1>4, <1>6, <1>7, <1>8, PinStepGoesOn DEF OfUsers

LEMMA ClearPinLockGoesOn ==
    ASSUME SessionsInv, CredInv, NEW c \in Callers, NEW S, Acts(c, S), ClearPinLock(c)
    PROVE  ProofsGoOn(c)
<1>0. PICK u \in Users : u = calls[c].on
  BY DEF CredInv, CredCall, OfUsers, At, ClearPinLock
<1> DEFINE row == [pin[u] EXCEPT !.lock = FALSE]
<1>1. /\ Shape /\ calls[c].stage = "unlock" /\ u = calls[c].on /\ CredentialsTypeOK /\ pin[u] \in PinRows
      /\ crashes' \in Nat /\ MaxFails \in Nat \ {0}
  BY <1>0, CredentialsAssumption DEF SessionsInv, Handled, ClearPinLock, At, CredInv, CredCall, OfUsers, CredentialsTypeOK, Acts
<1>2. /\ pin' = [pin EXCEPT ![u] = [pin[u] EXCEPT !.lock = FALSE]] /\ (Goto(c, "rotate", 0) \/ Return(c))
      /\ UNCHANGED <<secrets, reset, phone, address, resets, guesses, proved, declined>>
  BY <1>0 DEF ClearPinLock, accounts
<1>3. calls'[c].stage \in {"rotate", "idle"}
  BY <1>1, <1>2, Gone, Returned
<1>4. row \in PinRows /\ row.failed = pin[u].failed /\ pin[u].failed \in Nat
  BY <1>1 DEF PinRows
<1>5. pin'[u].failed \in Nat
  BY <1>1, <1>2, <1>4 DEF CredentialsTypeOK
<1>6. Sturdy(c) => PinRight(u, Judges(c, u), Locks(c, u))'
  <2>1. Sturdy(c) => guesses[u] = 0
    BY <1>1 DEF Sturdy, Recalls, At
  <2> QED BY <1>1, <1>2, <1>5, <2>1 DEF PinRight
<1>7. Recalls(c)' /\ CredCall(calls'[c])
  BY <1>3 DEF Recalls, CredCall, OfUsers, At
<1> HIDE DEF row
<1>8. pin' = [pin EXCEPT ![u] = row]
  BY <1>2 DEF row
<1> QED BY <1>1, <1>2, <1>4, <1>6, <1>7, <1>8, PinStepGoesOn DEF OfUsers

\* The failure is counted, and with the last that is allowed the lock is to be shut.
LEMMA CountFailureGoesOn ==
    ASSUME SessionsInv, CredInv, NEW c \in Callers, NEW S, Acts(c, S), CountFailure(c)
    PROVE  ProofsGoOn(c)
<1>0. PICK u \in Users : u = calls[c].on
  BY DEF CredInv, CredCall, OfUsers, At, CountFailure, CountFailureUpTo
<1> DEFINE failed == calls[c].saw + 1  row == [pin[u] EXCEPT !.failed = failed]
<1>1. /\ Shape /\ calls[c].stage = "count_failure" /\ u = calls[c].on /\ CredentialsTypeOK /\ pin[u] \in PinRows /\ calls[c].saw \in Nat
      /\ guesses[u] \in Nat /\ crashes \in Nat /\ crashes' \in {crashes, crashes + 1} /\ MaxFails \in Nat \ {0}
  BY <1>0, CredentialsAssumption
     DEF SessionsInv, Handled, CountFailure, CountFailureUpTo, At, CredInv, CredCall, OfUsers, CredentialsTypeOK, Acts
<1>2. /\ pin' = [pin EXCEPT ![u] = [pin[u] EXCEPT !.failed = failed]]
      /\ UNCHANGED <<secrets, reset, phone, address, resets, guesses, proved, declined>>
  BY <1>0 DEF CountFailure, CountFailureUpTo, accounts
<1>3. (failed >= MaxFails /\ Goto(c, "lock", 0)) \/ (~(failed >= MaxFails) /\ Return(c))
  BY Zenon DEF CountFailure, CountFailureUpTo
<1>4. (failed >= MaxFails /\ calls'[c].stage = "lock" /\ calls'[c].on = u) \/ (~(failed >= MaxFails) /\ calls'[c].stage = "idle")
  BY <1>1, <1>3, Gone, Returned
<1>5. row \in PinRows /\ row.failed = failed
  BY <1>1 DEF PinRows
<1>6. pin'[u].failed = failed
  BY <1>1, <1>2, <1>5 DEF CredentialsTypeOK
<1>7. Recalls(c)' /\ CredCall(calls'[c])
  BY <1>1, <1>4 DEF Recalls, CredCall, OfUsers, At
<1>8. Sturdy(c) => PinRight(u, Judges(c, u), Locks(c, u))'
  <2>1. Sturdy(c) => /\ calls[c].saw = pin[u].failed /\ guesses[u] <= MaxFails + crashes
                     /\ guesses[u] <= pin[u].failed + crashes + 1
    BY <1>1 DEF Sturdy, Recalls, At, PinsRight, PinRight, PinRows
  <2>2. failed >= MaxFails => Locks(c, u)'
    BY <1>4 DEF Locks
  <2> QED BY <1>1, <1>2, <1>6, <2>1, <2>2 DEF PinRight
<1> HIDE DEF row
<1>9. pin' = [pin EXCEPT ![u] = row]
  BY <1>2 DEF row
<1> QED BY <1>1, <1>2, <1>5, <1>7, <1>8, <1>9, PinStepGoesOn DEF OfUsers

LEMMA LocksGoOn ==
    ASSUME SessionsInv, CredInv, NEW c \in Callers, NEW S, Acts(c, S), LockPin(c) \/ LockInRedis(c)
    PROVE  ProofsGoOn(c)
<1>0. PICK u \in Users : u = calls[c].on
  BY DEF CredInv, CredCall, OfUsers, At, LockPin, LockInRedis
<1>1. /\ Shape /\ calls[c].stage \in {"lock", "lock_in_Redis"} /\ u = calls[c].on /\ CredentialsTypeOK /\ pin[u] \in PinRows
      /\ guesses[u] \in Nat /\ crashes \in Nat /\ crashes' \in {crashes, crashes + 1} /\ MaxFails \in Nat \ {0}
  BY <1>0, CredentialsAssumption DEF SessionsInv, Handled, LockPin, LockInRedis, At, CredInv, CredCall, OfUsers, CredentialsTypeOK, Acts
<1>2. ASSUME NEW row \in PinRows, row.failed = pin[u].failed, row.locked \/ row.lock, pin' = [pin EXCEPT ![u] = row],
             UNCHANGED <<secrets, reset, phone, address, resets, guesses, proved, declined>>,
             calls'[c].stage \in {"lock_in_Redis", "idle"}, calls'[c].stage = "lock_in_Redis" => calls'[c].on = u
      PROVE  ProofsGoOn(c)
  <2>1. pin'[u] = row /\ row.failed \in Nat
    BY <1>1, <1>2 DEF CredentialsTypeOK, PinRows
  <2>2. Sturdy(c) => PinRight(u, Judges(c, u), Locks(c, u))'
    <3>1. Sturdy(c) => guesses[u] <= MaxFails + crashes /\ guesses[u] <= pin[u].failed + crashes
      BY <1>1 DEF Sturdy, PinsRight, PinRight, Judges, At
    <3>2. PinLocked(u)'
      BY <1>2, <2>1 DEF PinLocked
    <3> QED BY <1>1, <1>2, <2>1, <3>1, <3>2 DEF PinRight
  <2>3. Recalls(c)' /\ CredCall(calls'[c])
    BY <1>1, <1>2 DEF Recalls, CredCall, OfUsers, At
  <2> QED BY <1>1, <1>2, <2>2, <2>3, PinStepGoesOn DEF OfUsers
<1>3. CASE LockPin(c)
  <2>1. /\ Goto(c, "lock_in_Redis", 0) /\ pin' = [pin EXCEPT ![u] = [pin[u] EXCEPT !.locked = TRUE]]
        /\ UNCHANGED <<secrets, reset, phone, address, resets, guesses, proved, declined>>
    BY <1>0, <1>3 DEF LockPin, accounts
  <2>2. calls'[c].stage = "lock_in_Redis" /\ calls'[c].on = u
    BY <1>1, <2>1, Gone
  <2>3. [pin[u] EXCEPT !.locked = TRUE] \in PinRows /\ [pin[u] EXCEPT !.locked = TRUE].failed = pin[u].failed
        /\ [pin[u] EXCEPT !.locked = TRUE].locked
    BY <1>1 DEF PinRows
  <2> QED BY <1>2, <2>1, <2>2, <2>3
<1>4. CASE LockInRedis(c)
  <2>1. /\ Return(c) /\ pin' = [pin EXCEPT ![u] = [pin[u] EXCEPT !.lock = TRUE]]
        /\ UNCHANGED <<secrets, reset, phone, address, resets, guesses, proved, declined>>
    BY <1>0, <1>4 DEF LockInRedis, accounts
  <2>2. calls'[c].stage = "idle"
    BY <1>1, <2>1, Returned
  <2>3. [pin[u] EXCEPT !.lock = TRUE] \in PinRows /\ [pin[u] EXCEPT !.lock = TRUE].failed = pin[u].failed
        /\ [pin[u] EXCEPT !.lock = TRUE].lock
    BY <1>1 DEF PinRows
  <2> QED BY <1>2, <2>1, <2>2, <2>3
<1> QED BY <1>3, <1>4

LEMMA PhonesGoOn ==
    ASSUME SessionsInv, CredInv, NEW c \in Callers, NEW S, Acts(c, S), WritePhone(c) \/ WritePhoneProof(c)
    PROVE  ProofsGoOn(c)
<1> DEFINE u == calls[c].on
<1>1. /\ Shape /\ calls[c].stage \in {"write_phone", "phone_verified"} /\ u \in Users /\ CredentialsTypeOK /\ phone[u] \in PhoneRows
      /\ secrets \in Nat
  BY DEF SessionsInv, Handled, Tables, AccountsTypeOK, WritePhone, WritePhoneProof, At, CredInv, CredCall, OfUsers, CredentialsTypeOK
<1>2. ASSUME UNCHANGED <<reset, pin, address, resets, guesses, declined>>, secrets' \in {secrets, secrets + 1},
             phone' \in [Users -> PhoneRows], proved' \in [Users -> {"none"} \cup Phones], Sturdy(c) => PhonesRight',
             calls'[c].stage \in {"idle", "drop_profile"}
      PROVE  ProofsGoOn(c)
  <2>1. CredentialsTypeOK' /\ Owned' /\ CredCall(calls'[c]) /\ Recalls(c)'
    BY <1>1, <1>2 DEF CredInv, CredentialsTypeOK, Owned, CredCall, OfUsers, Recalls, At
  <2>2. ASSUME Sturdy(c)
        PROVE  Sturdy(c)'
    <3>1. ResetsRight'
      BY <1>1, <1>2, <2>2, SecretsGrow DEF Sturdy, CredentialsTypeOK
    <3>2. AddressesRight'
      BY <1>2, <2>2 DEF Sturdy, AddressesRight, Live, Defaults
    <3>3. PinsRight(c)'
      BY <1>1, <1>2, <2>2, PinsStay DEF Sturdy, Pinning
    <3> QED BY <1>2, <2>1, <2>2, <3>1, <3>2, <3>3 DEF Sturdy
  <2> QED BY <2>1, <2>2 DEF ProofsGoOn
<1>3. CASE WritePhone(c)
  <2> DEFINE row == [number |-> calls[c].saw, verified |-> FALSE, code |-> New]
  <2>1. /\ Return(c) /\ UNCHANGED <<reset, pin, address, resets, guesses, proved, declined>>
        /\ \/ phone' = phone /\ secrets' = secrets
           \/ phone' = [phone EXCEPT ![u] = row] /\ secrets' = New
    BY <1>3, Zenon DEF WritePhone
  <2>2. calls'[c].stage = "idle"
    BY <1>1, <2>1, Returned
  <2>3. row \in PhoneRows /\ row.verified = FALSE
    <3>1. calls[c].saw \in Phones
      BY <1>3 DEF WritePhone, At, CredInv, CredCall
    <3> QED BY <1>1, <3>1 DEF PhoneRows, New
  <2> HIDE DEF row
  <2>4. phone' \in [Users -> PhoneRows] /\ secrets' \in {secrets, secrets + 1} /\ proved' \in [Users -> {"none"} \cup Phones]
    BY <1>1, <2>1, <2>3 DEF CredentialsTypeOK, New
  <2>5. Sturdy(c) => PhonesRight'
    <3>1. \A v \in Users : phone'[v] = phone[v] \/ phone'[v].verified = FALSE
      BY <1>1, <2>1, <2>3 DEF CredentialsTypeOK
    <3> QED BY <2>1, <3>1 DEF Sturdy, PhonesRight
  <2> QED BY <1>2, <2>1, <2>2, <2>4, <2>5
<1>4. CASE WritePhoneProof(c)
  <2> DEFINE row == [phone[u] EXCEPT !.verified = TRUE, !.code = 0]
  <2>1. /\ Goto(c, "drop_profile", 0) /\ phone' = [phone EXCEPT ![u] = [phone[u] EXCEPT !.verified = TRUE, !.code = 0]]
        /\ proved' = [proved EXCEPT ![u] = calls[c].saw]
        /\ UNCHANGED <<secrets, reset, pin, address, resets, guesses, declined>>
    BY <1>4 DEF WritePhoneProof, accounts
  <2>2. calls'[c].stage = "drop_profile"
    BY <1>1, <2>1, Gone
  <2>3. row \in PhoneRows /\ row.number = phone[u].number
    BY <1>1 DEF PhoneRows
  <2>4. calls[c].saw \in {"none"} \cup Phones /\ (Sturdy(c) => calls[c].saw = phone[u].number)
    BY <1>4 DEF WritePhoneProof, At, CredInv, CredCall, Sturdy, Recalls
  <2>5. phone' = [phone EXCEPT ![u] = row]
    BY <2>1
  <2> HIDE DEF row
  <2>6. phone' \in [Users -> PhoneRows] /\ proved' \in [Users -> {"none"} \cup Phones]
    BY <1>1, <2>1, <2>3, <2>4, <2>5 DEF CredentialsTypeOK
  <2>7. Sturdy(c) => PhonesRight'
    <3>1. \A v \in Users : /\ phone'[v] = IF v = u THEN row ELSE phone[v]
                           /\ proved'[v] = IF v = u THEN calls[c].saw ELSE proved[v]
      BY <1>1, <2>1, <2>5 DEF CredentialsTypeOK
    <3> QED BY <2>3, <2>4, <3>1 DEF Sturdy, PhonesRight
  <2> QED BY <1>2, <2>1, <2>2, <2>6, <2>7
<1> QED BY <1>3, <1>4

-----------------------------------------------------------------------------
(* Credentials: the steps on addresses.                                    *)

\* A step that changes addresses alone.
LEMMA AddressStepGoesOn ==
    ASSUME SessionsInv, CredInv, NEW c \in Callers, NEW S, Acts(c, S), calls[c].stage \notin Pinning,
           UNCHANGED <<secrets, reset, pin, phone, resets, guesses, proved>>,
           declined' \subseteq Users, address' \in [Addresses -> AddressRows], Owned',
           calls'[c].stage = "idle", Sturdy(c) => AddressesRight'
    PROVE  ProofsGoOn(c)
<1>1. CredentialsTypeOK' /\ CredCall(calls'[c]) /\ Recalls(c)'
  BY RecallsNothing, OutsideOfProofs DEF CredInv, CredentialsTypeOK, Recalls, At
<1>2. ASSUME Sturdy(c)
      PROVE  ResetsRight' /\ PhonesRight' /\ PinsRight(c)'
  BY <1>2, PinsStay DEF Sturdy, ResetsRight, PhonesRight
<1> QED BY <1>1, <1>2 DEF ProofsGoOn, Sturdy

LEMMA DefaultsAre ==
    ASSUME NEW u
    PROVE  /\ Live(u) = {a \in Addresses : address[a].user = u /\ address[a].there}
           /\ Defaults(u) = {a \in Addresses : address[a].user = u /\ address[a].there /\ address[a].default}
BY DEF Live, Defaults

\* A new address is the only default one of its user, or is not the default.
LEMMA InsertAddressGoesOn ==
    ASSUME SessionsInv, CredInv, NEW c \in Callers, NEW S, Acts(c, S), NEW a \in Addresses, InsertAddress(c, a)
    PROVE  ProofsGoOn(c)
<1>0. PICK u \in Users : u = calls[c].on
  BY DEF InsertAddress, At, CredInv, CredCall, OfUsers
<1>1. PICK main \in BOOLEAN : main = calls[c].saw.default
  BY DEF InsertAddress, At, CredInv, CredCall
<1>2. PICK clear : clear = calls[c].saw.clear
  OBVIOUS
<1>3. /\ Shape /\ calls[c].stage = "create_address" /\ declined \subseteq Users /\ address[a].user = "none" /\ Owned
      /\ \A b \in Addresses : address[b] \in AddressRows
  BY DEF SessionsInv, Handled, InsertAddress, At, CredInv, CredentialsTypeOK
<1>4. /\ UNCHANGED <<secrets, reset, pin, phone, resets, guesses, proved, declined>> /\ Return(c)
      /\ address' = [b \in Addresses |->
            IF b = a THEN [user |-> u, there |-> TRUE, default |-> main]
            ELSE IF b \in clear THEN [address[b] EXCEPT !.default = FALSE] ELSE address[b]]
  BY <1>0, <1>1, <1>2 DEF InsertAddress, OnlyAddresses, accounts
<1>5. calls'[c].stage = "idle" /\ calls[c].stage \notin Pinning
  BY <1>3, <1>4, Returned DEF Pinning
<1>6. "none" \notin Users
  BY AccountsAssumption
<1>7. \A b \in Addresses : address'[b] \in AddressRows
  BY <1>3, <1>4 DEF AddressRows
<1>8. /\ address'[a].user = u /\ address'[a].there /\ address'[a].default = main
      /\ \A b \in Addresses \ {a} : /\ address'[b].user = address[b].user /\ address'[b].there = address[b].there
                                    /\ address'[b].default <=> (address[b].default /\ b \notin clear)
  BY <1>3, <1>4 DEF AddressRows
<1>9. address' \in [Addresses -> AddressRows] /\ Owned'
  BY <1>3, <1>4, <1>7, <1>8 DEF Owned
<1>10. ASSUME Sturdy(c)
       PROVE  AddressesRight'
  <2>1. AddressesRight /\ clear = (IF main THEN Defaults(u) ELSE {}) /\ (main \/ Live(u) # {} \/ u \in declined)
    BY <1>0, <1>1, <1>2, <1>3, <1>10 DEF Sturdy, Recalls, At
  <2>2. a \notin Live(u)
    BY <1>3, <1>6 DEF Live
  <2>3. \A b \in Addresses : b \in clear => main /\ b \in Defaults(u)
    BY <2>1
  <2>4. ASSUME NEW x \in Addresses, NEW y \in Addresses, address'[x].user = address'[y].user, address'[x].there, address'[y].there,
               address'[x].default, address'[y].default
        PROVE  x = y
    <3>1. ASSUME NEW z \in Addresses \ {a}, address'[z].user = u, address'[z].there, address'[z].default, main
          PROVE  FALSE
      <4>1. address[z].user = u /\ address[z].there /\ address[z].default /\ z \notin clear
        BY <1>8, <3>1
      <4>2. z \in Defaults(u)
        BY <4>1, DefaultsAre
      <4> QED BY <2>1, <3>1, <4>1, <4>2
    <3>2. CASE x = a \/ y = a
      BY <1>8, <2>4, <3>1, <3>2
    <3>3. CASE x # a /\ y # a
      BY <1>8, <2>1, <2>4, <3>3 DEF AddressesRight
    <3> QED BY <3>2, <3>3
  <2>5. ASSUME NEW x \in Addresses, address'[x].there, address'[x].user \notin declined'
        PROVE  \E b \in Addresses : address'[b].user = address'[x].user /\ address'[b].there /\ address'[b].default
    <3>1. CASE address'[x].user = u /\ main
      BY <1>8, <3>1
    <3>2. CASE ~(address'[x].user = u /\ main)
      <4>1. PICK d \in Addresses : address[d].user = address'[x].user /\ address[d].there /\ address[d].default
        <5>1. CASE x = a
          <6>1. PICK y \in Live(u) : TRUE
            BY <1>4, <1>8, <2>1, <2>5, <3>2, <5>1
          <6>2. y \in Addresses /\ address[y].there /\ address[y].user = u
            BY <6>1, DefaultsAre
          <6> QED BY <1>4, <1>8, <2>1, <2>5, <5>1, <6>2 DEF AddressesRight
        <5>2. CASE x # a
          BY <1>4, <1>8, <2>1, <2>5, <5>2 DEF AddressesRight
        <5> QED BY <5>1, <5>2
      <4>2. d # a /\ d \notin clear
        <5>1. d # a
          BY <1>0, <1>3, <1>6, <2>1, <4>1 DEF Owned
        <5>2. ASSUME d \in clear
              PROVE  FALSE
          BY <2>3, <3>2, <4>1, <5>2, DefaultsAre
        <5> QED BY <5>1, <5>2
      <4> QED BY <1>8, <4>1, <4>2
    <3> QED BY <3>1, <3>2
  <2> QED BY <2>4, <2>5 DEF AddressesRight
<1> QED BY <1>3, <1>4, <1>5, <1>9, <1>10, AddressStepGoesOn

LEMMA WriteDefaultGoesOn ==
    ASSUME SessionsInv, CredInv, NEW c \in Callers, NEW S, Acts(c, S), WriteDefault(c)
    PROVE  ProofsGoOn(c)
<1>0. PICK a \in Addresses : a = calls[c].on
  BY DEF WriteDefault, At, CredInv, CredCall
<1>1. PICK clear : clear = calls[c].saw
  OBVIOUS
<1>3. /\ Shape /\ calls[c].stage = "make_default" /\ declined \subseteq Users /\ Owned
      /\ \A b \in Addresses : address[b] \in AddressRows
  BY DEF SessionsInv, Handled, WriteDefault, At, CredInv, CredentialsTypeOK
<1>4. /\ UNCHANGED <<secrets, reset, pin, phone, resets, guesses, proved, declined>> /\ Return(c)
      /\ address' = [b \in Addresses |->
            IF b = a THEN [address[b] EXCEPT !.default = TRUE]
            ELSE IF b \in clear THEN [address[b] EXCEPT !.default = FALSE] ELSE address[b]]
  BY <1>0, <1>1 DEF WriteDefault, OnlyAddresses, accounts
<1>5. calls'[c].stage = "idle" /\ calls[c].stage \notin Pinning
  BY <1>3, <1>4, Returned DEF Pinning
<1>7. \A b \in Addresses : address'[b] \in AddressRows
  BY <1>3, <1>4 DEF AddressRows
<1>8. /\ \A b \in Addresses : address'[b].user = address[b].user /\ address'[b].there = address[b].there
      /\ address'[a].default
      /\ \A b \in Addresses \ {a} : address'[b].default <=> (address[b].default /\ b \notin clear)
  BY <1>3, <1>4 DEF AddressRows
<1>9. address' \in [Addresses -> AddressRows] /\ Owned'
  BY <1>3, <1>4, <1>7, <1>8 DEF Owned
<1>10. ASSUME Sturdy(c)
       PROVE  AddressesRight'
  <2>1. AddressesRight /\ clear = Defaults(address[a].user) \ {a} /\ address[a].there
    BY <1>0, <1>1, <1>3, <1>10 DEF Sturdy, Recalls, At
  <2>2. ASSUME NEW z \in Addresses \ {a}, address'[z].user = address'[a].user, address'[z].there, address'[z].default
        PROVE  FALSE
    <3>1. address[z].user = address[a].user /\ address[z].there /\ address[z].default /\ z \notin clear
      BY <1>8, <2>2
    <3>2. z \in Defaults(address[a].user)
      BY <3>1, DefaultsAre
    <3> QED BY <2>1, <3>1, <3>2
  <2>3. \A z \in Addresses : z \in clear => address[z].user = address[a].user
    BY <2>1, DefaultsAre
  <2>4. ASSUME NEW x \in Addresses, NEW y \in Addresses, address'[x].user = address'[y].user, address'[x].there, address'[y].there,
               address'[x].default, address'[y].default
        PROVE  x = y
    <3>1. CASE x = a \/ y = a
      BY <1>8, <2>2, <2>4, <3>1
    <3>2. CASE x # a /\ y # a
      BY <1>8, <2>1, <2>4, <3>2 DEF AddressesRight
    <3> QED BY <3>1, <3>2
  <2>5. ASSUME NEW x \in Addresses, address'[x].there, address'[x].user \notin declined'
        PROVE  \E b \in Addresses : address'[b].user = address'[x].user /\ address'[b].there /\ address'[b].default
    <3>1. CASE address'[x].user = address[a].user
      BY <1>8, <2>1, <3>1
    <3>2. CASE address'[x].user # address[a].user
      <4>1. PICK d \in Addresses : address[d].user = address'[x].user /\ address[d].there /\ address[d].default
        BY <1>4, <1>8, <2>1, <2>5 DEF AddressesRight
      <4>2. d # a /\ d \notin clear
        BY <2>3, <3>2, <4>1
      <4> QED BY <1>8, <4>1, <4>2
    <3> QED BY <3>1, <3>2
  <2> QED BY <2>4, <2>5 DEF AddressesRight
<1> QED BY <1>3, <1>4, <1>5, <1>9, <1>10, AddressStepGoesOn

\* Who says of an address that it is not the default is among those who declined.
LEMMA UpdateAddressGoesOn ==
    ASSUME SessionsInv, CredInv, NEW c \in Callers, NEW S, Acts(c, S), Ready(c), NEW a \in Addresses, UpdateAddress(c, a)
    PROVE  ProofsGoOn(c)
<1>1. /\ Shape /\ calls[c].stage = "idle" /\ declined \subseteq Users /\ Owned
      /\ \A b \in Addresses : address[b] \in AddressRows
  BY DEF SessionsInv, Handled, Ready, At, CredInv, CredentialsTypeOK
<1>2. /\ address[a].there /\ Once(c, "address") /\ declined' = declined \cup {address[a].user}
      /\ UNCHANGED <<secrets, reset, pin, phone, resets, guesses, proved>>
      /\ address' = [address EXCEPT ![a] = [address[a] EXCEPT !.default = FALSE]]
  BY DEF UpdateAddress, OnlyAddresses, accounts
<1>3. calls'[c].stage = "idle" /\ calls[c].stage \notin Pinning
  BY <1>1, <1>2 DEF Once, Pinning
<1>4. [address[a] EXCEPT !.default = FALSE] \in AddressRows
  BY <1>1 DEF AddressRows
<1>5. address' \in [Addresses -> AddressRows]
  BY <1>1, <1>2, <1>4 DEF CredInv, CredentialsTypeOK
<1>6. \A b \in Addresses : /\ address'[b].user = address[b].user /\ address'[b].there = address[b].there
                           /\ address'[b].default <=> (address[b].default /\ b # a)
  BY <1>1, <1>2 DEF CredInv, CredentialsTypeOK, AddressRows
<1>7. Owned' /\ declined' \subseteq Users
  BY <1>1, <1>2, <1>6 DEF Owned
<1>8. ASSUME Sturdy(c)
      PROVE  AddressesRight'
  <2>1. AddressesRight
    BY <1>8 DEF Sturdy
  <2>2. ASSUME NEW x \in Addresses, address'[x].there, address'[x].user \notin declined'
        PROVE  \E b \in Addresses : address'[b].user = address'[x].user /\ address'[b].there /\ address'[b].default
    <3>1. PICK d \in Addresses : address[d].user = address'[x].user /\ address[d].there /\ address[d].default
      BY <1>2, <1>6, <2>1, <2>2 DEF AddressesRight
    <3>2. d # a
      BY <1>2, <1>6, <2>2, <3>1
    <3> QED BY <1>6, <3>1, <3>2
  <2>3. \A x, y \in Addresses : address'[x].user = address'[y].user /\ address'[x].there /\ address'[y].there
                                /\ address'[x].default /\ address'[y].default => x = y
    BY <1>6, <2>1 DEF AddressesRight
  <2> QED BY <2>2, <2>3 DEF AddressesRight
<1> QED BY <1>1, <1>2, <1>3, <1>5, <1>7, <1>8, AddressStepGoesOn

\* The default's place is taken by one of those that are left, of which none was the default.
LEMMA WriteDeletionGoesOn ==
    ASSUME SessionsInv, CredInv, NEW c \in Callers, NEW S, Acts(c, S), NEW b \in Addresses, WriteDeletion(c, b)
    PROVE  ProofsGoOn(c)
<1>0. PICK a \in Addresses : a = calls[c].on
  BY DEF WriteDeletion, At, CredInv, CredCall
<1>1. PICK left : left = Live(address[a].user) \ {a}
  OBVIOUS
<1>2. PICK heir \in BOOLEAN : heir <=> (calls[c].saw /\ left # {})
  OBVIOUS
<1>3. /\ Shape /\ calls[c].stage = "delete_address" /\ declined \subseteq Users /\ Owned
      /\ \A x \in Addresses : address[x] \in AddressRows
      /\ address = [x \in Addresses |-> address[x]]
  BY DEF SessionsInv, Handled, WriteDeletion, At, CredInv, CredentialsTypeOK
<1>4. UNCHANGED <<secrets, reset, pin, phone, resets, guesses, proved, declined>> /\ Return(c)
  BY DEF WriteDeletion, OnlyAddresses, accounts
<1>5. \/ /\ heir /\ b \in left
         /\ address' = [address EXCEPT ![a].there = FALSE, ![a].default = FALSE, ![b].default = TRUE]
      \/ ~heir /\ address' = [address EXCEPT ![a].there = FALSE, ![a].default = FALSE]
  BY <1>0, <1>1, <1>2, Zenon DEF WriteDeletion
<1>6. calls'[c].stage = "idle" /\ calls[c].stage \notin Pinning
  BY <1>3, <1>4, Returned DEF Pinning
<1>7. heir => b # a
  BY <1>1, <1>5
<1>8. /\ DOMAIN address' = Addresses /\ \A x \in Addresses : address'[x].user = address[x].user
      /\ ~address'[a].there /\ ~address'[a].default /\ address'[a] \in AddressRows
      /\ heir => address'[b] \in AddressRows /\ address'[b].there = address[b].there /\ address'[b].default
      /\ \A x \in Addresses \ {a} : (heir /\ x = b) \/ address'[x] = address[x]
      /\ address' = [x \in Addresses |-> address'[x]]
  <2>1. CASE /\ heir /\ b \in left
             /\ address' = [address EXCEPT ![a].there = FALSE, ![a].default = FALSE, ![b].default = TRUE]
    <3>1. address' = [x \in Addresses |-> IF x = a THEN [address[a] EXCEPT !.there = FALSE, !.default = FALSE]
                                          ELSE IF x = b THEN [address[b] EXCEPT !.default = TRUE] ELSE address[x]]
      BY <1>3, <1>7, <2>1
    <3>2. /\ address'[a] = [address[a] EXCEPT !.there = FALSE, !.default = FALSE]
          /\ address'[b] = [address[b] EXCEPT !.default = TRUE]
          /\ \A x \in Addresses \ {a, b} : address'[x] = address[x]
          /\ DOMAIN address' = Addresses
      BY <1>7, <2>1, <3>1
    <3>3. /\ address'[a] \in AddressRows /\ address'[a].user = address[a].user /\ ~address'[a].there /\ ~address'[a].default
          /\ address'[b] \in AddressRows /\ address'[b].user = address[b].user /\ address'[b].there = address[b].there
          /\ address'[b].default
      BY <1>3, <3>2 DEF AddressRows
    <3>4. address' = [x \in Addresses |-> address'[x]]
      BY <2>1, <1>3
    <3> QED BY <2>1, <3>2, <3>3, <3>4
  <2>2. CASE ~heir /\ address' = [address EXCEPT ![a].there = FALSE, ![a].default = FALSE]
    <3>1. address' = [x \in Addresses |-> IF x = a THEN [address[a] EXCEPT !.there = FALSE, !.default = FALSE] ELSE address[x]]
      BY <1>3, <2>2
    <3>2. /\ address'[a] = [address[a] EXCEPT !.there = FALSE, !.default = FALSE]
          /\ \A x \in Addresses \ {a} : address'[x] = address[x]
          /\ DOMAIN address' = Addresses
      BY <3>1
    <3>3. /\ address'[a] \in AddressRows /\ address'[a].user = address[a].user /\ ~address'[a].there /\ ~address'[a].default
      BY <1>3, <3>2 DEF AddressRows
    <3>4. address' = [x \in Addresses |-> address'[x]]
      BY <2>2, <1>3
    <3> QED BY <2>2, <3>2, <3>3, <3>4
  <2> QED BY <1>5, <2>1, <2>2
<1>9. address' \in [Addresses -> AddressRows] /\ Owned'
  <2>1. \A x \in Addresses : address'[x] \in AddressRows
    BY <1>3, <1>8
  <2>2. ASSUME NEW x \in Addresses, address'[x].there
        PROVE  address'[x].user \in Users
    BY <1>3, <1>8, <2>2 DEF Owned
  <2> QED BY <1>8, <2>1, <2>2 DEF Owned
<1>10. ASSUME Sturdy(c)
       PROVE  AddressesRight'
  <2>1. AddressesRight /\ address[a].there /\ (calls[c].saw <=> address[a].default)
    <3>1. AddressesRight /\ address[a].there /\ calls[c].saw = address[a].default
      BY <1>0, <1>3, <1>10 DEF Sturdy, Recalls, At
    <3> QED BY <3>1
  <2>2. ASSUME heir, NEW x \in Addresses \ {a}, address[x].user = address[a].user, address[x].there
        PROVE  ~address[x].default
    BY <1>2, <2>1, <2>2 DEF AddressesRight
  <2>3. heir => address[b].user = address[a].user /\ address[b].there
    BY <1>1, <1>5, DefaultsAre
  <2>4. ASSUME NEW x \in Addresses, NEW y \in Addresses, address'[x].user = address'[y].user, address'[x].there, address'[y].there,
               address'[x].default, address'[y].default
        PROVE  x = y
    <3>1. x # a /\ y # a
      BY <1>8, <2>4
    <3>2. CASE heir /\ (x = b \/ y = b)
      BY <1>8, <2>2, <2>3, <2>4, <3>1, <3>2
    <3>3. CASE ~(heir /\ (x = b \/ y = b))
      <4>1. address'[x] = address[x] /\ address'[y] = address[y]
        BY <1>8, <3>1, <3>3
      <4> QED BY <2>1, <2>4, <4>1 DEF AddressesRight
    <3> QED BY <3>2, <3>3
  <2>5. ASSUME NEW x \in Addresses, address'[x].there, address'[x].user \notin declined'
        PROVE  \E y \in Addresses : address'[y].user = address'[x].user /\ address'[y].there /\ address'[y].default
    <3>1. x # a /\ address'[x].user = address[x].user /\ address[x].there
      BY <1>8, <2>3, <2>5
    <3>2. CASE heir /\ address[x].user = address[a].user
      BY <1>8, <2>3, <3>1, <3>2
    <3>3. CASE ~(heir /\ address[x].user = address[a].user)
      <4>1. PICK d \in Addresses : address[d].user = address[x].user /\ address[d].there /\ address[d].default
        BY <1>4, <2>1, <2>5, <3>1 DEF AddressesRight
      <4>2. ASSUME d = a
            PROVE  FALSE
        <5>1. x \in left
          BY <1>1, <3>1, <4>1, <4>2, DefaultsAre
        <5> QED BY <1>2, <2>1, <3>3, <4>1, <4>2, <5>1
      <4>3. address'[d] = address[d] \/ (heir /\ d = b)
        BY <1>8, <4>2
      <4> QED BY <1>8, <3>1, <4>1, <4>3
    <3> QED BY <3>2, <3>3
  <2> QED BY <2>4, <2>5 DEF AddressesRight
<1> QED BY <1>3, <1>4, <1>6, <1>9, <1>10, AddressStepGoesOn

-----------------------------------------------------------------------------
(* The theorem about credentials.                                          *)

LEMMA CredentialsStepGoesOn ==
    ASSUME SessionsInv, CredInv, NEW c \in Callers, NEW S, Acts(c, S), CredentialsStep(c)
    PROVE  ProofsGoOn(c)
<1>1. CASE \/ WriteReset(c) \/ WritePassword(c) \/ StorePin(c) \/ ClearPinLock(c) \/ CountFailure(c)
           \/ LockPin(c) \/ LockInRedis(c)
  BY <1>1, WriteResetGoesOn, WritePasswordGoesOn, StorePinGoesOn, ClearPinLockGoesOn, CountFailureGoesOn, LocksGoOn
<1>2. CASE WritePhone(c) \/ WritePhoneProof(c) \/ WriteDefault(c)
  BY <1>2, PhonesGoOn, WriteDefaultGoesOn
<1>3. CASE \E a \in Addresses : InsertAddress(c, a) \/ WriteDeletion(c, a)
  BY <1>3, InsertAddressGoesOn, WriteDeletionGoesOn
<1> QED BY <1>1, <1>2, <1>3, Zenon DEF CredentialsStep

LEMMA CredentialsRequestGoesOn ==
    ASSUME SessionsInv, CredInv, NEW c \in Callers, NEW S, Acts(c, S), Ready(c), CredentialsRequest(c)
    PROVE  ProofsGoOn(c)
<1>1. CASE PasswordRequest(c) \/ \E u \in Users : SetPassword(c, u)
  BY <1>1, PasswordRequestsGoOn DEF PasswordRequest
<1>2. CASE PinRequest(c)
  BY <1>2, PinRequestsGoOn, WrongPinGoesOn DEF PinRequest
<1>3. CASE PhoneRequest(c)
  BY <1>3, PhoneRequestsGoOn DEF PhoneRequest
<1>4. CASE AddressRequest(c)
  BY <1>4, AddressRequestsGoOn, UpdateAddressGoesOn DEF AddressRequest
<1> QED BY <1>1, <1>2, <1>3, <1>4, Zenon DEF CredentialsRequest

LEMMA CredentialsKeepProofs ==
    ASSUME SessionsInv, CredInv, NEW c \in Callers, CredentialsNext(c)
    PROVE  CredInv'
<1>1. PICK S : Acts(c, S)
  BY SomebodyActs DEF SessionsInv, Handled
<1>2. ProofsGoOn(c)
  BY <1>1, CredentialsStepGoesOn, CredentialsRequestGoesOn DEF CredentialsNext
<1> QED BY <1>1, <1>2, ProofsStay

LEMMA CredInit ==
    ASSUME Init
    PROVE  CredInv
<1>1. (\A c \in Callers : calls[c].stage = "idle") /\ crashes = 0 /\ CredentialsInit /\ secrets \in Nat
  BY SessionsInit DEF Init, HandlersInit, Idle, SessionsInv, Tables, AccountsTypeOK
<1>2. CredentialsTypeOK /\ Owned
  <2>1. resets = <<>> /\ DOMAIN resets \subseteq Nat
    BY <1>1 DEF CredentialsInit
  <2>2. /\ pin \in [Users -> PinRows] /\ phone \in [Users -> PhoneRows] /\ address \in [Addresses -> AddressRows]
    BY <1>1 DEF CredentialsInit, PinRows, PhoneRows, AddressRows
  <2> QED BY <1>1, <2>1, <2>2 DEF CredentialsInit, CredentialsTypeOK, Owned
<1>3. \A c \in Callers : CredCall(calls[c]) /\ Recalls(c)
  BY <1>1, RecallsNothing, OutsideOfProofs DEF Recalls, At
<1>4. ResetsRight /\ PhonesRight /\ AddressesRight
  <2>1. DOMAIN resets = {}
    BY <1>1 DEF CredentialsInit
  <2>2. /\ \A u \in Users : reset[u] = 0 /\ ~phone[u].verified
        /\ \A a \in Addresses : ~address[a].there
    BY <1>1 DEF CredentialsInit
  <2> QED BY <1>1, <2>1, <2>2 DEF ResetsRight, PhonesRight, AddressesRight
<1>5. \A u \in Users : PinRight(u, \E c \in Callers : Judges(c, u), \E c \in Callers : Locks(c, u))
  <2> SUFFICES ASSUME NEW u \in Users
               PROVE  PinRight(u, \E c \in Callers : Judges(c, u), \E c \in Callers : Locks(c, u))
    OBVIOUS
  <2>1. guesses[u] = 0 /\ pin[u].failed = 0
    BY <1>1 DEF CredentialsInit
  <2> QED BY <1>1, <2>1, NoneJudged DEF PinRight
<1> QED BY <1>1, <1>2, <1>3, <1>4, <1>5 DEF CredInv, CredCalm

LEMMA CredStep ==
    ASSUME SessionsInv, CredInv, [Next]_vars
    PROVE  CredInv'
<1>1. ASSUME NEW c \in Callers,
             \/ AccountsNext(c) \/ RolesNext(c) \/ StaffNext(c) \/ HiringNext(c) \/ OnboardingNext(c) \/ VerificationNext(c)
             \/ CampaignsNext(c)
      PROVE  CredInv'
  BY <1>1, OthersKeepProofs
<1>2. ASSUME NEW c \in Callers, CredentialsNext(c) \/ Dies(c)
      PROVE  CredInv'
  BY <1>2, CredentialsKeepProofs, DeathKeepsProofs
<1>3. CASE Time
  BY <1>3, TimeKeepsProofs
<1>4. CASE UNCHANGED vars
  <2>1. UNCHANGED <<calls, crashes, overlapped, secrets, reset, pin, phone, address, resets, guesses, proved, declined>>
    BY <1>4, Zenon DEF vars, handlers, accounts, credentials
  <2>2. /\ CredentialsTypeOK' /\ Owned' /\ \A c \in Callers : CredCall(calls'[c])
    BY <2>1 DEF CredInv, CredentialsTypeOK, Owned
  <2>3. CredCalm \/ overlapped
    BY DEF CredInv
  <2>4. ASSUME ~overlapped
        PROVE  CredCalm'
    <3>1. ResetsRight' /\ PhonesRight' /\ AddressesRight'
      BY <2>1, <2>3, <2>4 DEF CredCalm, ResetsRight, PhonesRight, AddressesRight
    <3>2. \A u \in Users : PinRight(u, \E c \in Callers : Judges(c, u), \E c \in Callers : Locks(c, u))'
      BY <2>1, <2>3, <2>4 DEF CredCalm, PinRight, PinLocked, Judges, Locks, At
    <3>3. \A c \in Callers : Recalls(c)'
      BY <2>1, <2>3, <2>4 DEF CredCalm, Recalls, At, Defaults, Live
    <3> QED BY <3>1, <3>2, <3>3 DEF CredCalm
  <2>5. CredCalm'
    BY <2>1, <2>4 DEF CredCalm
  <2> QED BY <2>1, <2>2, <2>5 DEF CredInv
<1> QED BY <1>1, <1>2, <1>3, <1>4 DEF Next

LEMMA DefaultsRight ==
    ASSUME AddressesRight, Owned, NEW u \in Users
    PROVE  Cardinality(Defaults(u)) <= 1 /\ (Live(u) # {} => Defaults(u) # {} \/ u \in declined)
<1>1. \A a, b \in Defaults(u) : a = b
  BY DEF AddressesRight, Defaults, Live
<1>2. Cardinality(Defaults(u)) <= 1
  <2>1. CASE Defaults(u) = {}
    BY <2>1, FS_EmptySet
  <2>2. CASE Defaults(u) # {}
    <3>1. PICK a : Defaults(u) = {a}
      BY <1>1, <2>2
    <3>2. Cardinality({a}) = 1
      BY FS_Singleton
    <3> QED BY <3>1, <3>2
  <2> QED BY <2>1, <2>2
<1>3. Live(u) # {} => Defaults(u) # {} \/ u \in declined
  BY DefaultsAre DEF AddressesRight
<1> QED BY <1>2, <1>3

\* A reset link is used once; before the lock shuts no more wrong PINs are judged than allowed; a
\* number that counts as verified is the one whose code was entered; a user has one default address,
\* and hands it on: while handlers of AuthService and UserService come one after the other, whoever
\* of them dies (who dies has one wrong PIN that was not counted).
THEOREM CredentialsAreKept == Spec => []CredentialsKept
<1>1. CredInv => CredentialsKept
  <2> SUFFICES ASSUME CredInv
               PROVE  CredentialsKept
    OBVIOUS
  <2>1. CASE overlapped
    BY <2>1 DEF CredInv, CredentialsKept, ResetOnce, PinLocksInTime, VerifiedNumberWasProved, OneDefaultAddress, DefaultIsHandedOn
  <2>2. CASE ~overlapped
    <3>1. ResetOnce /\ PinLocksInTime /\ VerifiedNumberWasProved
      BY <2>2 DEF CredInv, CredCalm, ResetsRight, PhonesRight, PinRight, ResetOnce, PinLocksInTime, VerifiedNumberWasProved
    <3>2. OneDefaultAddress /\ DefaultIsHandedOn
      BY <2>2, DefaultsRight DEF CredInv, CredCalm, OneDefaultAddress, DefaultIsHandedOn
    <3> QED BY <3>1, <3>2 DEF CredInv, CredentialsKept
  <2> QED BY <2>1, <2>2
<1>2. Init => SessionsInv /\ CredInv
  BY SessionsInit, CredInit
<1>3. SessionsInv /\ CredInv /\ [Next]_vars => (SessionsInv /\ CredInv)'
  BY SessionsStep, CredStep
<1> QED BY <1>1, <1>2, <1>3, PTL DEF Spec
===============================================================================
