----------------------------- MODULE Verification -----------------------------
(***************************************************************************)
(* How a beautician comes to be offered jobs: the identity check (KYC),    *)
(* made by an outside service that reports by webhook; the profile, its    *)
(* video and their review; the suspension from dispatch, which a delayed   *)
(* job lifts; their availability, which offers and jobs change too; and    *)
(* the index of those who are online, in Redis, where the search for       *)
(* candidates looks first.                                                 *)
(*                                                                         *)
(* Statuses are checked when they are read; the review's are checked again *)
(* by the statement that writes them, the others are written by id.        *)
(* Of offers and jobs, which are in Dispatch, there is what they write     *)
(* here, for one job of a beautician at a time.  The parts of a profile    *)
(* are all one; places, ratings, assigned services and messages are left   *)
(* out.                                                                    *)
(***************************************************************************)
EXTENDS Handlers

CONSTANTS
    Beauticians,
    Sessions,       \* bound: sessions of the identity service
    Videos,         \* bound: keys given out for videos
    LastHour,       \* bound: the clock stops here
    NoShowThreshold,
    ProfilesBegun   \* ProfilesBegun[s]: what a profile may be at the start of scenario s

VARIABLES
    beautician,        \* beautician[w]: the row
    autoApprove,    \* the setting: what the service verified needs no admin
    session,        \* session[i]: whose it is, and what was found
    photoJobs,      \* profile photos to be fetched
    shelf,          \* shelf[v]: the video in the object store
    lift,           \* lift[w]: the delayed job's time; 0: none
    hour,
    index,          \* the index of those online
    noShows,        \* noShows[w]: the counter in Redis
    byAdmin,        \* history: whom an admin has declared verified
    byReport,       \* history: whom a report declared verified while the setting was on
    approved,       \* history: whose profile was ever approved
    unseen,         \* history: a profile was approved with a video the admin had not seen
    early,          \* history: the job lifted a suspension that an admin had changed
    unlifted,       \* history: whose job came too early, and is gone
    returned,       \* history: back from a suspension or a job, and not put on the index since
    astray          \* history: put on the index while suspended, or left on it by a no-show

verification == <<beautician, autoApprove, session, photoJobs, shelf, lift, hour, index, noShows,
                  byAdmin, byReport, approved, unseen, early, unlifted, returned, astray>>
identity  == <<autoApprove, session, photoJobs, byAdmin, byReport>>
review    == <<shelf, approved, unseen>>
probation == <<lift, hour, early, unlifted>>
presence  == <<index, noShows, returned, astray>>

KycStatuses == {"PENDING", "IN_PROGRESS", "VERIFIED", "REJECTED", "NEEDS_REVIEW"}
ReviewStatuses == {"NOT_SUBMITTED", "AWAITING_VIDEO", "PENDING_REVIEW", "APPROVED", "REJECTED"}
\* available is the row's availabilityStatus; job: a booking of hers is under way.
BeauticianProfiles == [kyc : KycStatuses, filled : BOOLEAN, photo : BOOLEAN, review : ReviewStatuses,
             video : Videos \cup {0}, active : BOOLEAN,
             available : {"OFFLINE", "ONLINE", "OFFERED", "ON_JOB"}, job : BOOLEAN,
             suspended : BOOLEAN, until : 0..LastHour]

VerificationTypeOK ==
    /\ beautician \in [Beauticians -> BeauticianProfiles]
    /\ session \in [Sessions -> [of : Beauticians \cup {"nobody"}, found : {"open", "VERIFIED", "REJECTED"}]]
    /\ shelf \in [Videos -> [of : Beauticians \cup {"nobody"}, state : {"none", "issued", "stored", "deleted"}]]
    /\ lift \in [Beauticians -> 0..LastHour] /\ hour \in 0..LastHour
    /\ photoJobs \cup index \cup byAdmin \cup byReport \cup approved \subseteq Beauticians
    /\ unlifted \cup returned \cup astray \subseteq Beauticians

VerificationInit ==
    /\ beautician \in [Beauticians -> ProfilesBegun[scenario]]
    /\ autoApprove \in IF "kyc_settings" \in scenario THEN BOOLEAN ELSE {TRUE}
    /\ byReport = {}
    /\ session = [i \in Sessions |-> [of |-> "nobody", found |-> "open"]] /\ photoJobs = {}
    /\ shelf = [v \in Videos |->
          IF \E w \in Beauticians : beautician[w].video = v
          THEN [of |-> CHOOSE w \in Beauticians : beautician[w].video = v, state |-> "stored"]
          ELSE [of |-> "nobody", state |-> "none"]]
    /\ lift = [w \in Beauticians |-> 0] /\ hour = 0
    /\ index = {w \in Beauticians : beautician[w].available = "ONLINE"}
    /\ noShows = [w \in Beauticians |-> 0]
    /\ byAdmin = {w \in Beauticians : beautician[w].kyc = "VERIFIED"}
    /\ approved = {w \in Beauticians : beautician[w].review = "APPROVED"}
    /\ unseen = FALSE /\ early = FALSE
    /\ unlifted = {} /\ returned = {} /\ astray = {}

First(S) == {CHOOSE x \in S : \A y \in S : x <= y}

-----------------------------------------------------------------------------
(* Identity.                                                               *)

InitiateSession(c, w) ==
    /\ beautician[w].kyc # "VERIFIED"
    /\ Begin(c, "kyc", "ask_for_session", w, 0) /\ UNCHANGED verification

\* The service's answer may be an error, or get lost.
AskForSession(c) ==
    LET free == {i \in Sessions : session[i].of = "nobody"} IN
    /\ At(c, "ask_for_session") /\ free # {}
    /\ \E i \in First(free) : session' = [session EXCEPT ![i].of = calls[c].on]
    /\ Goto(c, "write_session", 0) \/ Return(c)
    /\ UNCHANGED <<beautician, autoApprove, photoJobs, byAdmin, byReport, review, probation, presence>>

\* Whatever the status is by now.
WriteSession(c) ==
    /\ At(c, "write_session") /\ Return(c)
    /\ beautician' = [beautician EXCEPT ![calls[c].on].kyc = "IN_PROGRESS"]
    /\ UNCHANGED <<identity, review, probation, presence>>

\* What the service finds in a session it finds once; it may say so often, and late.  A status
\* that is not known counts as one that needs a review.
Finds(i, result) ==
    \/ result \in {"IN_PROGRESS", "NEEDS_REVIEW"} /\ UNCHANGED session
    \/ /\ result \in {"VERIFIED", "REJECTED"} /\ session[i].found \in {"open", result}
       /\ session' = [session EXCEPT ![i].found = result]

mapWebhookStatus(result) == IF result = "VERIFIED" /\ ~autoApprove THEN "NEEDS_REVIEW" ELSE result

\* Reports name the beautician, not the session that is under way.
ApplyWebhookUpdate(c, i, result) ==
    /\ session[i].of # "nobody" /\ Finds(i, result)
    /\ Begin(c, "kyc_report", "write_kyc", session[i].of, mapWebhookStatus(result))
    /\ byReport' = IF mapWebhookStatus(result) = "VERIFIED" THEN byReport \cup {session[i].of} ELSE byReport
    /\ UNCHANGED <<beautician, autoApprove, photoJobs, byAdmin, review, probation, presence>>

\* Over any other status.  A report that has a picture is followed by a job.
WriteKyc(c) ==
    /\ At(c, "write_kyc")
    /\ beautician' = [beautician EXCEPT ![calls[c].on].kyc = calls[c].saw]
    /\ Return(c) \/ Goto(c, "enqueue_photo", 0)
    /\ UNCHANGED <<identity, review, probation, presence>>

\* A queue that refuses it is not told to the service.
EnqueueProfilePhoto(c) ==
    /\ At(c, "enqueue_photo") /\ Return(c)
    /\ photoJobs' \in {photoJobs, photoJobs \cup {calls[c].on}}
    /\ UNCHANGED <<beautician, autoApprove, session, byAdmin, byReport, review, probation, presence>>

\* After three attempts the job is given up.
ApplyPhoto(w) ==
    /\ w \in photoJobs /\ photoJobs' = photoJobs \ {w}
    /\ \E fetched \in BOOLEAN : beautician' = [beautician EXCEPT ![w].photo = @ \/ fetched]
    /\ UNCHANGED <<handlers, autoApprove, session, byAdmin, byReport, review, probation, presence>>

JudgeKyc(c, w, verdict) == Begin(c, "kyc_review", "write_verdict", w, verdict) /\ UNCHANGED verification

\* An admin's word stands whatever the status was.
WriteVerdict(c) ==
    LET w == calls[c].on IN
    /\ At(c, "write_verdict") /\ Return(c)
    /\ beautician' = [beautician EXCEPT ![w].kyc = calls[c].saw]
    /\ byAdmin' = IF calls[c].saw = "VERIFIED" THEN byAdmin \cup {w} ELSE byAdmin
    /\ UNCHANGED <<autoApprove, session, photoJobs, byReport, review, probation, presence>>

UpdateSettings(c) ==
    /\ Once(c, "kyc_settings") /\ autoApprove' = ~autoApprove
    /\ UNCHANGED <<beautician, session, photoJobs, byAdmin, byReport, review, probation, presence>>

-----------------------------------------------------------------------------
(* The profile and its review.                                             *)

Editable(w) == beautician[w].kyc = "VERIFIED" /\ beautician[w].review \in {"NOT_SUBMITTED", "REJECTED"}

\* It may as well empty what was filled in.
UpdateProfile(c, w) ==
    /\ Editable(w) /\ \E filled \in BOOLEAN : Begin(c, "profile", "write_profile", w, filled)
    /\ UNCHANGED verification

\* By id, also when the profile has been handed in by now.
WriteProfile(c) ==
    /\ At(c, "write_profile") /\ Return(c)
    /\ beautician' = [beautician EXCEPT ![calls[c].on].filled = calls[c].saw]
    /\ UNCHANGED <<identity, review, probation, presence>>

SubmitForReview(c, w) ==
    /\ Editable(w) /\ beautician[w].filled /\ beautician[w].photo
    /\ Begin(c, "profile", "write_submission", w, 0) /\ UNCHANGED verification

\* By a statement that checks the status again; the second of two changes nothing.
WriteProfileSubmission(c) ==
    LET w == calls[c].on IN
    /\ At(c, "write_submission") /\ Return(c)
    /\ beautician' = IF Editable(w) THEN [beautician EXCEPT ![w].review = "AWAITING_VIDEO", ![w].video = 0] ELSE beautician
    /\ UNCHANGED <<identity, review, probation, presence>>

CanSubmitVideo(w) == beautician[w].kyc = "VERIFIED" /\ beautician[w].review = "AWAITING_VIDEO"

RequestUpload(c, w) ==
    LET free == {v \in Videos : shelf[v].of = "nobody"} IN
    /\ CanSubmitVideo(w) /\ free # {} /\ Once(c, "video")
    /\ \E v \in First(free) : shelf' = [shelf EXCEPT ![v] = [of |-> w, state |-> "issued"]]
    /\ UNCHANGED <<beautician, identity, approved, unseen, probation, presence>>

\* The app puts the video into the object store, past the server.
UploadVideo(v) ==
    /\ shelf[v].state = "issued" /\ shelf' = [shelf EXCEPT ![v].state = "stored"]
    /\ UNCHANGED <<handlers, beautician, identity, approved, unseen, probation, presence>>

ConfirmUpload(c, w, v) ==
    /\ CanSubmitVideo(w) /\ shelf[v] = [of |-> w, state |-> "stored"]
    /\ Begin(c, "video", "write_video", w, v) /\ UNCHANGED verification

\* Faulty variant of WriteVideo: the statement does not check the status again.
WriteVideoAnyway(c) ==
    LET w == calls[c].on IN
    /\ At(c, "write_video") /\ Return(c)
    /\ beautician' = [beautician EXCEPT ![w].review = "PENDING_REVIEW", ![w].video = calls[c].saw]
    /\ UNCHANGED <<identity, review, probation, presence>>

WriteVideo(c) ==
    LET w == calls[c].on IN
    /\ At(c, "write_video") /\ Return(c)
    /\ beautician' = IF CanSubmitVideo(w)
                  THEN [beautician EXCEPT ![w].review = "PENDING_REVIEW", ![w].video = calls[c].saw]
                  ELSE beautician
    /\ UNCHANGED <<identity, review, probation, presence>>

ApproveProfile(c, w) ==
    /\ beautician[w].review = "PENDING_REVIEW" /\ beautician[w].kyc = "VERIFIED"
    /\ Begin(c, "profile_review", "write_approval", w, beautician[w].video) /\ UNCHANGED verification

\* The status is checked again, the video is not.
WriteProfileApproval(c) ==
    LET w == calls[c].on IN
    /\ At(c, "write_approval") /\ Return(c)
    /\ IF beautician[w].review = "PENDING_REVIEW" /\ beautician[w].kyc = "VERIFIED"
       THEN /\ beautician' = [beautician EXCEPT ![w].review = "APPROVED"]
            /\ approved' = approved \cup {w} /\ unseen' = (unseen \/ beautician[w].video # calls[c].saw)
       ELSE UNCHANGED <<beautician, approved, unseen>>
    /\ UNCHANGED <<identity, shelf, probation, presence>>

RejectProfile(c, w, scope) ==
    /\ beautician[w].review = "PENDING_REVIEW"
    /\ Begin(c, "profile_review", "write_rejection", w, <<beautician[w].video, scope>>) /\ UNCHANGED verification

WriteProfileRejection(c) ==
    LET w == calls[c].on  next == IF calls[c].saw[2] = "VIDEO_ONLY" THEN "AWAITING_VIDEO" ELSE "REJECTED" IN
    /\ At(c, "write_rejection")
    /\ IF beautician[w].review = "PENDING_REVIEW"
       THEN beautician' = [beautician EXCEPT ![w].review = next, ![w].video = 0] /\ Goto(c, "delete_video", calls[c].saw[1])
       ELSE UNCHANGED beautician /\ Return(c)
    /\ UNCHANGED <<identity, review, probation, presence>>

\* The video that was read first.
DeleteVideo(c) ==
    /\ At(c, "delete_video") /\ Return(c)
    /\ shelf' = [shelf EXCEPT ![calls[c].saw].state = "deleted"]
    /\ UNCHANGED <<beautician, identity, approved, unseen, probation, presence>>

-----------------------------------------------------------------------------
(* Availability and the index.                                             *)

Fit(w) ==
    /\ beautician[w].active /\ ~beautician[w].suspended
    /\ beautician[w].kyc = "VERIFIED" /\ beautician[w].review = "APPROVED"

MayBeOffered(w) == Fit(w) /\ beautician[w].available = "ONLINE"

Available(w, status) == [beautician EXCEPT ![w].available = status]

\* upsertOnline and remove.
PutOn(ws) ==
    /\ index' = index \cup ws /\ returned' = returned \ ws
    /\ astray' = {w \in astray \cup ws : w \in ws => beautician[w].suspended} /\ UNCHANGED noShows
TakeOff(w) == index' = index \ {w} /\ astray' = astray \ {w} /\ UNCHANGED <<noShows, returned>>

\* Where the handler that cancelled it goes on.
GoOn(c, next) ==
    \/ next.stage = "none" /\ Return(c)
    \/ \E stage \in {"write_on_job", "take_off_index", "schedule_lift"} : next.stage = stage /\ Goto(c, stage, next.saw)

Then(stage, saw) == [stage |-> stage, saw |-> saw]

\* cancelBeauticianPendingOffers, between steps of others: it comes to something when she has an
\* offer whose time is not over.
CancelsOffers(c, w, next, saw) == beautician[w].available = "OFFERED" /\ Goto(c, "release", Then(next, saw))

\* releaseBeauticianToOnline: it reads whether she has an offer and a job ...
ReadOffered(c) ==
    LET w == calls[c].on IN
    /\ At(c, "release")
    /\ IF beautician[w].available = "OFFERED"
       THEN Goto(c, "write_release", <<beautician[w].job, calls[c].saw>>)
       ELSE GoOn(c, calls[c].saw)
    /\ UNCHANGED verification

\* ... writes only when she still has the offer ...
WriteRelease(c) ==
    LET w == calls[c].on IN
    /\ At(c, "write_release")
    /\ IF beautician[w].available = "OFFERED"
       THEN /\ beautician' = Available(w, IF calls[c].saw[1] THEN "ON_JOB" ELSE "ONLINE")
            /\ Goto(c, "index_release", calls[c].saw)
       ELSE UNCHANGED beautician /\ GoOn(c, calls[c].saw[2])
    /\ UNCHANGED <<identity, review, probation, presence>>

\* ... and tells the index, be she suspended or not.
IndexRelease(c) ==
    LET w == calls[c].on IN
    /\ At(c, "index_release") /\ GoOn(c, calls[c].saw[2])
    /\ IF calls[c].saw[1] THEN TakeOff(w) ELSE PutOn({w})
    /\ UNCHANGED <<beautician, identity, review, probation>>

\* An offer is declined, runs out or is withdrawn.
ReleaseBeautician(c, w) ==
    /\ beautician[w].available = "OFFERED" /\ Begin(c, "job", "release", w, Then("none", 0))
    /\ UNCHANGED verification

\* A pass of matching offers her a job, or a second one while she is at one.
OfferJob(c, w) ==
    /\ MayBeOffered(w) \/ (Fit(w) /\ beautician[w].available = "ON_JOB" /\ beautician[w].job)
    /\ Begin(c, "job", "write_offered", w, 0) /\ UNCHANGED verification

WriteOffered(c) ==
    /\ At(c, "write_offered") /\ Goto(c, "leave_index", 0)
    /\ beautician' = Available(calls[c].on, "OFFERED")
    /\ UNCHANGED <<identity, review, probation, presence>>

AcceptJob(c, w) ==
    /\ beautician[w].available = "OFFERED" /\ Begin(c, "job", "write_on_job", w, 0)
    /\ UNCHANGED verification

\* An admin's word makes her ONLINE first, outside the index, or cancels the offer she has.
ForceAssign(c, w) ==
    /\ Fit(w) /\ beautician[w].available # "ON_JOB"
    /\ CASE beautician[w].available = "OFFLINE" -> Begin(c, "job", "bring_online", w, 0)
         [] beautician[w].available = "OFFERED" -> Begin(c, "job", "release", w, Then("write_on_job", 0))
         [] OTHER -> Begin(c, "job", "write_on_job", w, 0)
    /\ UNCHANGED verification

BringOnline(c) ==
    /\ At(c, "bring_online") /\ Goto(c, "write_on_job", 0)
    /\ beautician' = Available(calls[c].on, "ONLINE")
    /\ UNCHANGED <<identity, review, probation, presence>>

\* By id, in the transaction that assigns the booking.
WriteOnJob(c) ==
    /\ At(c, "write_on_job") /\ Goto(c, "leave_index", 0)
    /\ beautician' = [Available(calls[c].on, "ON_JOB") EXCEPT ![calls[c].on].job = TRUE]
    /\ UNCHANGED <<identity, review, probation, presence>>

LeaveIndex(c) ==
    /\ At(c, "leave_index") /\ Return(c) /\ TakeOff(calls[c].on)
    /\ UNCHANGED <<beautician, identity, review, probation>>

\* Her last job is over: she is ONLINE, whatever she was, and the index is not told.
ReleaseBeauticianIfIdle(c, w) ==
    /\ beautician[w].job /\ Once(c, "job")
    /\ beautician' = [Available(w, "ONLINE") EXCEPT ![w].job = FALSE]
    /\ returned' = returned \cup ({w} \ index)
    /\ UNCHANGED <<identity, review, probation, index, noShows, astray>>

\* By the beautician, who must be fully verified, or by an admin, for whom being active will do.
UpdateAvailability(c, w, online, admin) ==
    LET now == beautician[w].available IN
    /\ online => ~beautician[w].suspended /\ beautician[w].active /\ now \notin {"OFFERED", "ON_JOB"}
    /\ admin \/ (beautician[w].active /\ beautician[w].kyc = "VERIFIED" /\ beautician[w].review = "APPROVED")
    /\ admin => now # (IF online THEN "ONLINE" ELSE "OFFLINE")
    /\ \/ Begin(c, "availability", IF online THEN "write_availability" ELSE "take_off_index", w, online)
       \/ now = "OFFERED" /\ Begin(c, "availability", "release", w, Then("take_off_index", FALSE))
    /\ UNCHANGED verification

TakeOffIndex(c) ==
    /\ At(c, "take_off_index") /\ Goto(c, "write_availability", FALSE) /\ TakeOff(calls[c].on)
    /\ UNCHANGED <<beautician, identity, review, probation>>

WriteAvailability(c) ==
    /\ At(c, "write_availability")
    /\ beautician' = Available(calls[c].on, IF calls[c].saw THEN "ONLINE" ELSE "OFFLINE")
    /\ IF calls[c].saw THEN Goto(c, "put_on_index", 0) ELSE Return(c)
    /\ UNCHANGED <<identity, review, probation, presence>>

\* A pass of matching for those who wait is started after it.
PutOnIndex(c) ==
    /\ At(c, "put_on_index") /\ Return(c) /\ PutOn({calls[c].on})
    /\ UNCHANGED <<beautician, identity, review, probation>>

\* Whether the beautician is suspended is read first, whether online with the write.
UpdateLocation(c, w) ==
    /\ Begin(c, "location", "write_location", w, beautician[w].suspended) /\ UNCHANGED verification

WriteLocation(c) ==
    /\ At(c, "write_location")
    /\ IF beautician[calls[c].on].available = "ONLINE" /\ ~calls[c].saw THEN Goto(c, "put_on_index", 0) ELSE Return(c)
    /\ UNCHANGED verification

\* When the process starts.  Who should not be in the index is not taken off it.
ReconcileFromPostgres(c) ==
    /\ Begin(c, "restart", "index_all", "all", {w \in Beauticians : MayBeOffered(w)})
    /\ UNCHANGED verification

IndexAll(c) ==
    /\ At(c, "index_all") /\ Return(c) /\ PutOn(calls[c].saw)
    /\ UNCHANGED <<beautician, identity, review, probation>>

\* The account is switched on or off; availability and index stay as they are.
UpdateBeautician(c, w, active) ==
    /\ Once(c, "active") /\ beautician' = [beautician EXCEPT ![w].active = active]
    /\ UNCHANGED <<identity, review, probation, presence>>

RecordNoShow(c, w) ==
    /\ noShows[w] < NoShowThreshold        \* bound of the counter
    /\ noShows' = [noShows EXCEPT ![w] = @ + 1]
    /\ IF noShows[w] + 1 < NoShowThreshold THEN Once(c, "no-show")
       ELSE Begin(c, "no-show", "write_no_show", w, 0)
    /\ UNCHANGED <<beautician, identity, review, probation, index, returned, astray>>

\* Off the index they are not taken.
WriteNoShow(c) ==
    LET w == calls[c].on IN
    /\ At(c, "write_no_show") /\ Return(c)
    /\ beautician' = [Available(w, "OFFLINE") EXCEPT ![w].active = FALSE]
    /\ astray' = astray \cup ({w} \cap index)
    /\ UNCHANGED <<identity, review, probation, index, noShows, returned>>

-----------------------------------------------------------------------------
(* Suspension from dispatch, for good (until = 0) or for a time.           *)

Suspended(w, until) == beautician[w].suspended /\ beautician[w].until = until

\* Also over the same suspension, when the reason is another.
UpdateDispatchSuspension(c, w, until) ==
    /\ until = 0 \/ until > hour
    /\ Begin(c, "suspend", "write_suspension", w, until) /\ UNCHANGED verification

WriteSuspension(c) ==
    /\ At(c, "write_suspension") /\ Goto(c, "take_suspended_off", calls[c].saw)
    /\ beautician' = [beautician EXCEPT ![calls[c].on].suspended = TRUE, ![calls[c].on].until = calls[c].saw]
    /\ UNCHANGED <<identity, review, probation, presence>>

\* Off the index before the offers are cancelled, which may put her on it again.
TakeSuspendedOff(c) ==
    LET w == calls[c].on IN
    /\ At(c, "take_suspended_off") /\ TakeOff(w)
    /\ Goto(c, "schedule_lift", calls[c].saw) \/ CancelsOffers(c, w, "schedule_lift", calls[c].saw)
    /\ UNCHANGED <<beautician, identity, review, probation>>

\* A job that runs can neither be removed nor be added again under the same id.
Lifting(w) == \E c \in Callers : calls[c].stage \in {"write_lift", "end_lift"} /\ calls[c].on = w

Schedule(w, until) ==
    /\ lift' = IF Lifting(w) THEN lift ELSE [lift EXCEPT ![w] = until]
    /\ unlifted' = IF Lifting(w) THEN unlifted ELSE unlifted \ {w}

\* The old job is removed; for a suspension without an end that is all.
ScheduleProbationLift(c) ==
    /\ At(c, "schedule_lift") /\ Return(c) /\ Schedule(calls[c].on, calls[c].saw)
    /\ UNCHANGED <<beautician, identity, review, hour, early, presence>>

ReinstateDispatch(c, w) ==
    /\ Begin(c, "suspend", IF beautician[w].suspended THEN "write_reinstatement" ELSE "cancel_lift", w, 0)
    /\ UNCHANGED verification

\* The index is left as it is.
Reinstate(w) ==
    /\ beautician' = [beautician EXCEPT ![w].suspended = FALSE, ![w].until = 0]
    /\ returned' = returned \cup ({w} \ index) /\ UNCHANGED <<index, noShows, astray>>

WriteReinstatement(c) ==
    /\ At(c, "write_reinstatement") /\ Goto(c, "cancel_lift", 0) /\ Reinstate(calls[c].on)
    /\ UNCHANGED <<identity, review, probation>>

CancelProbationJob(c) ==
    /\ At(c, "cancel_lift") /\ Return(c) /\ Schedule(calls[c].on, 0)
    /\ UNCHANGED <<beautician, identity, review, hour, early, presence>>

\* The delayed job, when its time has come: not for a suspension that ends at another time.
LiftDispatchSuspensionFromJob(c, w) ==
    /\ lift[w] # 0 /\ lift[w] <= hour /\ ~Lifting(w)
    /\ Begin(c, "lift", IF Suspended(w, lift[w]) THEN "write_lift" ELSE "end_lift", w, lift[w])
    /\ UNCHANGED verification

\* By the clock of the process it came too early.  Scheduling itself again is to no effect: the
\* old job, under the same id, is the one that runs.
LiftTooEarly(c, w) ==
    /\ lift[w] > hour /\ ~Lifting(w) /\ Begin(c, "lift", "end_lift", w, lift[w])
    /\ unlifted' = IF Suspended(w, lift[w]) THEN unlifted \cup {w} ELSE unlifted
    /\ UNCHANGED <<beautician, identity, review, lift, hour, early, presence>>

\* By id: what an admin has set since the status was read is lifted as well.
WriteLift(c) ==
    LET w == calls[c].on IN
    /\ At(c, "write_lift") /\ Goto(c, "end_lift", 0) /\ Reinstate(w)
    /\ early' = (early \/ (beautician[w].suspended /\ beautician[w].until # calls[c].saw))
    /\ UNCHANGED <<identity, review, lift, hour, unlifted>>

EndLift(c) ==
    /\ At(c, "end_lift") /\ Return(c)
    /\ lift' = [lift EXCEPT ![calls[c].on] = 0]
    /\ UNCHANGED <<beautician, identity, review, hour, early, unlifted, presence>>

HourPasses ==
    /\ "lift" \in scenario /\ hour < LastHour /\ hour' = hour + 1
    /\ UNCHANGED <<handlers, beautician, identity, review, lift, early, unlifted, presence>>

VerificationTime ==
    HourPasses \/ (\E w \in Beauticians : ApplyPhoto(w)) \/ (\E v \in Videos : UploadVideo(v))

VerificationStep(c) ==
    \/ AskForSession(c) \/ WriteSession(c) \/ WriteKyc(c) \/ EnqueueProfilePhoto(c) \/ WriteVerdict(c)
    \/ WriteProfile(c) \/ WriteProfileSubmission(c) \/ WriteVideo(c) \/ WriteProfileApproval(c) \/ WriteProfileRejection(c) \/ DeleteVideo(c)
    \/ ReadOffered(c) \/ WriteRelease(c) \/ IndexRelease(c)
    \/ WriteOffered(c) \/ BringOnline(c) \/ WriteOnJob(c) \/ LeaveIndex(c)
    \/ TakeOffIndex(c) \/ WriteAvailability(c) \/ PutOnIndex(c) \/ WriteLocation(c) \/ IndexAll(c) \/ WriteNoShow(c)
    \/ WriteSuspension(c) \/ TakeSuspendedOff(c) \/ ScheduleProbationLift(c) \/ WriteReinstatement(c)
    \/ CancelProbationJob(c) \/ WriteLift(c) \/ EndLift(c)

BeauticianRequest(c) ==
    \E w \in Beauticians :
        \/ UpdateProfile(c, w) \/ SubmitForReview(c, w)
        \/ \E online \in BOOLEAN : UpdateAvailability(c, w, online, FALSE)
        \/ UpdateLocation(c, w)

JobRequest(c) ==
    \E w \in Beauticians :
        OfferJob(c, w) \/ ReleaseBeautician(c, w) \/ AcceptJob(c, w) \/ ForceAssign(c, w) \/ ReleaseBeauticianIfIdle(c, w)

KycRequest(c) ==
    \E w \in Beauticians :
        \/ InitiateSession(c, w) \/ RequestUpload(c, w)
        \/ \E v \in Videos : ConfirmUpload(c, w, v)

JudgmentRequest(c) ==
    \E w \in Beauticians :
        \/ \E verdict \in {"VERIFIED", "REJECTED"} : JudgeKyc(c, w, verdict)
        \/ ApproveProfile(c, w) \/ \E scope \in {"FULL", "VIDEO_ONLY"} : RejectProfile(c, w, scope)

BeauticianAdminRequest(c) ==
    \/ JudgmentRequest(c)
    \/ \E w \in Beauticians :
          \/ \E online \in BOOLEAN : UpdateAvailability(c, w, online, TRUE)
          \/ \E until \in 0..LastHour : UpdateDispatchSuspension(c, w, until)
          \/ ReinstateDispatch(c, w)
          \/ \E active \in BOOLEAN : UpdateBeautician(c, w, active)
    \/ UpdateSettings(c)

VerificationRequest(c) ==
    \/ BeauticianRequest(c) \/ KycRequest(c) \/ BeauticianAdminRequest(c) \/ JobRequest(c)
    \/ \E i \in Sessions, result \in KycStatuses \ {"PENDING"} : ApplyWebhookUpdate(c, i, result)
    \/ \E w \in Beauticians : RecordNoShow(c, w) \/ LiftDispatchSuspensionFromJob(c, w) \/ LiftTooEarly(c, w)
    \/ ReconcileFromPostgres(c)

-----------------------------------------------------------------------------
(* Properties                                                              *)

\* Verified is only whom a report of the service on a session of theirs found to be so while the
\* setting made that enough, or whom an admin declared so.
VerifiedByJudgement ==
    \A w \in Beauticians : beautician[w].kyc = "VERIFIED" =>
        w \in byAdmin \/ (w \in byReport /\ \E i \in Sessions : session[i].of = w /\ session[i].found = "VERIFIED")

\* With the setting off, a report alone verifies nobody, unless the setting is changed meanwhile.
AutoApproval ==
    \A c \in Callers : At(c, "write_kyc") /\ calls[c].saw = "VERIFIED" => autoApprove \/ overlapped

\* An approved profile stays approved, whatever else was under way.
ApprovedStays == \A w \in approved : beautician[w].review = "APPROVED"

\* What was handed in has a photo; it is complete, and the admin who approves it has seen the
\* video, unless a change of the profile, or another video, overlapped.
ApprovedOnSight ==
    /\ \A w \in Beauticians : beautician[w].review \notin {"NOT_SUBMITTED", "REJECTED"} =>
          beautician[w].photo /\ (overlapped \/ beautician[w].filled)
    /\ overlapped \/ ~unseen

\* A profile under review or approved has a video, which is there, unless its key was handed in
\* twice at once; before that it has none.
VideoThere ==
    \A w \in Beauticians : LET v == beautician[w].video IN
        IF beautician[w].review \in {"PENDING_REVIEW", "APPROVED"}
        THEN v # 0 /\ shelf[v].of = w /\ (overlapped \/ shelf[v].state = "stored")
        ELSE v = 0

\* A suspension for a time has its job, and a job its suspension, unless handlers overlap or die,
\* or the job came too early.
SuspensionEnds ==
    overlapped \/ crashes > 0 \/ ~Quiet \/
    \A w \in Beauticians \ unlifted : lift[w] = IF beautician[w].suspended THEN beautician[w].until ELSE 0

\* It is not lifted before the time an admin set last, unless that is being changed: then the job
\* may lift what was extended.
SuspensionHolds == overlapped \/ ~early

\* Who is in the index is online and not suspended, unless the index was not told (a no-show) or
\* told before an offer was cancelled (a suspension).  Who may be offered jobs is in it, unless a
\* suspension was lifted or a job ended: the index learns of that with the next place reported.
IndexTrue ==
    overlapped \/ crashes > 0 \/ ~Quiet \/
    \A w \in Beauticians : /\ w \in index \ astray => beautician[w].available = "ONLINE" /\ ~beautician[w].suspended
                           /\ MayBeOffered(w) => w \in index \cup returned

\* Nobody is offered jobs without having been found fit, and the suspended are left out.
VerificationKept ==
    /\ VerificationTypeOK
    /\ VerifiedByJudgement /\ AutoApproval /\ ApprovedStays /\ ApprovedOnSight /\ VideoThere
    /\ SuspensionEnds /\ SuspensionHolds /\ IndexTrue
===============================================================================
