-------------------------------- MODULE Hiring --------------------------------
(***************************************************************************)
(* From an application to a member of staff: the check of the national     *)
(* identity number (NIN), the submission, the selection, the approval, the *)
(* offer and its answer, and the conversion, which makes a user account, a *)
(* member of staff and its pay, one after the other.  And the backfill of  *)
(* pay for those who were hired before the conversion set it.              *)
(***************************************************************************)
EXTENDS Staff

CONSTANTS
    Applications,   \* ids of applications
    Nins,           \* persons, by their NIN
    Begun           \* Begun[s]: what the table of applications may be at the start of scenario s

VARIABLES
    application,    \* application[a]: the row, its approval and its offer letter
    attempted,      \* NINs looked up within the cooldown
    posting,        \* the job posting's status
    shown,          \* the posting is in the public cache
    lookups,        \* lookups[n], history: paid lookups of NIN n for applications in this cooldown
    logins          \* logins[k], history: how often code k let an applicant in

hiring == <<application, attempted, posting, shown, lookups, logins>>

Selection == {"SUBMITTED", "UNDER_REVIEW", "SHORTLISTED", "INTERVIEW_SCHEDULED", "INTERVIEW_COMPLETED"}
Statuses  == Selection \cup {"DRAFT", "OFFER_EXTENDED", "EMPLOYED", "NOT_SELECTED"}
ApplicationRows == [status : Statuses, nin : Nins, own : BOOLEAN, verified : BOOLEAN,
                    email : Users \cup {"none"}, otp : Nat, outcome : {"none", "PASS", "FAIL", "HOLD"},
                    approved : BOOLEAN, offer : {"none", "SENT", "ACCEPTED", "DECLINED"},
                    staff : Members \cup {"none"}]
NoApplication == [status |-> "none"]

HiringTypeOK ==
    /\ \A a \in Applications : application[a] \in ApplicationRows \cup {NoApplication}
    /\ attempted \subseteq Nins /\ posting \in {"none", "DRAFT", "PUBLISHED", "CLOSED"}
    /\ shown \in BOOLEAN
    /\ lookups \in [Nins -> Nat] /\ DOMAIN logins \subseteq Nat

HiringInit ==
    /\ application \in Begun[scenario]
    /\ attempted = {} /\ posting = "PUBLISHED" /\ shown = FALSE
    /\ lookups = [n \in Nins |-> 0] /\ logins = <<>>

\* A first row: the fields that its writer does not give.
Fresh(n, own) == [status |-> "DRAFT", nin |-> n, own |-> own, verified |-> FALSE, email |-> "none", otp |-> 0,
                  outcome |-> "none", approved |-> FALSE, offer |-> "none", staff |-> "none"]

Filed == {a \in Applications : application[a] # NoApplication}
Of(n) == {a \in Filed : application[a].nin = n}
Active(n) == {a \in Of(n) : application[a].status \notin {"DRAFT", "NOT_SELECTED"}}
Proven(n) == {a \in Of(n) : application[a].verified}
Others == <<accounts, roles, credentials, register>>

-----------------------------------------------------------------------------
(* The NIN.  A draft of the same NIN and name answers at once, for good or *)
(* ill.  Else a NIN that is verified already answers for its name.  Else   *)
(* it is looked up, once in a cooldown.  The public form POST /nin/verify  *)
(* looks up whatever it is given, keeps nothing and knows no cooldown: it  *)
(* changes no state, and is left out.                                      *)

VerifyNin(c, n, own) ==
    LET draft == {a \in Of(n) : application[a].status = "DRAFT" /\ application[a].own = own} IN
    /\ draft = {}
    /\ \/ Proven(n) = {} /\ Begin(c, "nin", "cooldown", n, own)
       \/ /\ \E a \in Proven(n) : application[a].own = own
          /\ Begin(c, "nin", "write_draft", n, [own |-> own, verified |-> TRUE])
    /\ UNCHANGED <<Others, hiring>>

CheckCooldown(c) ==
    /\ At(c, "cooldown")
    /\ IF calls[c].on \in attempted THEN Return(c) ELSE Goto(c, "record_attempt", calls[c].saw)
    /\ UNCHANGED <<Others, hiring>>

RecordAttempt(c) ==
    /\ At(c, "record_attempt") /\ Goto(c, "look_up", calls[c].saw)
    /\ attempted' = attempted \cup {calls[c].on}
    /\ UNCHANGED <<Others, application, posting, shown, lookups, logins>>

\* The registry confirms only the holder's own name; it may not answer.
LookUp(c, confirmed) ==
    /\ At(c, "look_up") /\ (confirmed => calls[c].saw)
    /\ Goto(c, "write_draft", [own |-> calls[c].saw, verified |-> confirmed])
    /\ lookups' = [lookups EXCEPT ![calls[c].on] = @ + 1]
    /\ UNCHANGED <<Others, application, attempted, posting, shown, logins>>

WriteDraft(c, a) ==
    /\ At(c, "write_draft") /\ a \notin Filed /\ Return(c)
    /\ application' = [application EXCEPT ![a] =
            [Fresh(calls[c].on, calls[c].saw.own) EXCEPT !.verified = calls[c].saw.verified]]
    /\ UNCHANGED <<Others, attempted, posting, shown, lookups, logins>>

\* No request lasts as long as the cooldown.
CooldownEnds(n) ==
    /\ "nin" \in scenario /\ n \in attempted /\ \A c \in Callers : ~At(c, "look_up")
    /\ attempted' = attempted \ {n} /\ lookups' = [lookups EXCEPT ![n] = 0]
    /\ UNCHANGED <<handlers, Others, application, posting, shown, logins>>

-----------------------------------------------------------------------------
(* The submission, and the applicant's sign-in with a code.                *)

\* d: a draft of this NIN, or "new".  A new application of a NIN that was verified counts as
\* verified, whatever the name.
Submit(c, n, own, e, d) ==
    /\ Active(n) = {}
    /\ d # "new" => d \in Of(n) /\ application[d].status = "DRAFT"
    /\ Begin(c, "submit", "submit", d,
             [nin |-> n, own |-> own, email |-> e,
              verified |-> IF d = "new" THEN Proven(n) # {} ELSE application[d].verified])
    /\ UNCHANGED <<Others, hiring>>

WriteSubmission(c, a) ==
    LET d == calls[c].on  saw == calls[c].saw
        row == IF d = "new" THEN Fresh(saw.nin, saw.own) ELSE application[d] IN
    /\ At(c, "submit") /\ Return(c)
    /\ IF d = "new" THEN a \notin Filed ELSE a = d
    /\ application' = [application EXCEPT ![a] =
            [row EXCEPT !.status = "SUBMITTED", !.own = saw.own, !.email = saw.email,
                        !.verified = saw.verified, !.otp = New]]
    /\ secrets' = New
    /\ OnlyAccount
    /\ UNCHANGED <<account, credentials, register, attempted, posting, shown, lookups, logins>>

RequestApplicantOtp(c, a) ==
    /\ a \in Filed /\ application[a].email # "none"
    /\ Begin(c, "applicant", "write_applicant_otp", a, 0)
    /\ UNCHANGED <<Others, hiring>>

WriteApplicantOtp(c) ==
    /\ At(c, "write_applicant_otp") /\ Return(c)
    /\ application' = [application EXCEPT ![calls[c].on].otp = New] /\ secrets' = New
    /\ OnlyAccount
    /\ UNCHANGED <<account, credentials, register, attempted, posting, shown, lookups, logins>>

VerifyApplicantOtp(c, a) ==
    /\ a \in Filed /\ application[a].otp # 0
    /\ Begin(c, "applicant", "spend_otp", a, application[a].otp)
    /\ UNCHANGED <<Others, hiring>>

LetIn(k) == [j \in DOMAIN logins \cup {k} |->
                (IF j \in DOMAIN logins THEN logins[j] ELSE 0) + IF j = k THEN 1 ELSE 0]

SpendOtp(c) ==
    /\ At(c, "spend_otp") /\ Return(c)
    /\ application' = [application EXCEPT ![calls[c].on].otp = 0]
    /\ logins' = LetIn(calls[c].saw)
    /\ UNCHANGED <<Others, attempted, posting, shown, lookups>>

-----------------------------------------------------------------------------
(* The selection: each step checks the row it read, and writes by id.      *)

TransitionsOf(employed) ==
    [DRAFT |-> {"SUBMITTED"}, SUBMITTED |-> {"UNDER_REVIEW", "NOT_SELECTED"},
     UNDER_REVIEW |-> {"SHORTLISTED", "NOT_SELECTED"}, SHORTLISTED |-> {"NOT_SELECTED"},
     INTERVIEW_SCHEDULED |-> {"NOT_SELECTED"}, INTERVIEW_COMPLETED |-> {"NOT_SELECTED"},
     OFFER_EXTENDED |-> {"NOT_SELECTED"}, EMPLOYED |-> employed, NOT_SELECTED |-> {}]

\* Faulty variant of ALLOWED_STATUS_TRANSITIONS: who is employed may be turned down.
TransitionsFromEmployed == TransitionsOf({"NOT_SELECTED"})

ALLOWED_STATUS_TRANSITIONS == TransitionsOf({})

OnlyApplication == UNCHANGED <<Others, attempted, posting, shown, lookups, logins>>

UpdateStatus(c, a, status) ==
    /\ a \in Filed /\ status \in ALLOWED_STATUS_TRANSITIONS[application[a].status]
    /\ Begin(c, "selection", "write_application", a, [status |-> status, outcome |-> "same"])
    /\ UNCHANGED <<Others, hiring>>

ScheduleInterview(c, a) ==
    /\ a \in Filed /\ application[a].status \in {"SHORTLISTED", "INTERVIEW_SCHEDULED"}
    /\ Begin(c, "selection", "write_application", a, [status |-> "INTERVIEW_SCHEDULED", outcome |-> "same"])
    /\ UNCHANGED <<Others, hiring>>

RecordInterviewOutcome(c, a, outcome) ==
    LET next == CASE outcome = "FAIL" -> "NOT_SELECTED" [] outcome = "PASS" -> "INTERVIEW_COMPLETED"
                  [] OTHER -> "INTERVIEW_SCHEDULED" IN
    /\ a \in Filed /\ application[a].status = "INTERVIEW_SCHEDULED"
    /\ Begin(c, "selection", "write_application", a, [status |-> next, outcome |-> outcome])
    /\ UNCHANGED <<Others, hiring>>

WriteApplication(c) ==
    LET new == calls[c].saw IN
    /\ At(c, "write_application") /\ Return(c)
    /\ application' = [application EXCEPT ![calls[c].on].status = new.status,
                           ![calls[c].on].outcome = IF new.outcome = "same" THEN @ ELSE new.outcome]
    /\ OnlyApplication

\* The status is not looked at here, nor where the offer is made.
RecordEmploymentApproval(c, a) ==
    /\ a \in Filed /\ application[a].outcome = "PASS" /\ ~application[a].approved
    /\ Begin(c, "offer", "approve", a, 0)
    /\ UNCHANGED <<Others, hiring>>

WriteApproval(c) ==
    /\ At(c, "approve") /\ Return(c)
    /\ application' = [application EXCEPT ![calls[c].on].approved = TRUE]
    /\ OnlyApplication

GenerateOfferLetter(c, a) ==
    /\ a \in Filed /\ application[a].approved /\ application[a].offer = "none"
    /\ Begin(c, "offer", "offer", a, 0)
    /\ UNCHANGED <<Others, hiring>>

\* One letter for an application: a second fails, and the transaction with it.
WriteOffer(c) ==
    /\ At(c, "offer") /\ Return(c)
    /\ application' = IF application[calls[c].on].offer # "none" THEN application
            ELSE [application EXCEPT ![calls[c].on].offer = "SENT", ![calls[c].on].status = "OFFER_EXTENDED"]
    /\ OnlyApplication

RespondToOffer(c, a, response) ==
    /\ a \in Filed /\ application[a].offer = "SENT"
    /\ Begin(c, "offer", "respond", a, response)
    /\ UNCHANGED <<Others, hiring>>

WriteResponse(c) ==
    LET response == calls[c].saw IN
    /\ At(c, "respond") /\ Return(c)
    /\ application' = [application EXCEPT ![calls[c].on].offer = response,
            ![calls[c].on].status = IF response = "DECLINED" THEN "NOT_SELECTED" ELSE @]
    /\ OnlyApplication

-----------------------------------------------------------------------------
(* The conversion of an application into a member of staff.                *)

\* The pay in the offer letter, and no base pay but a commission.  A pay an administrator sets is 2.
Offered == 1
OnCommission == 3
Unpaid == {0, OnCommission}     \* without a base pay
Hired == {a \in Filed : application[a].staff # "none"}

\* Faulty variant of ConvertToStaff: an offer that is not answered will do.
ConvertUnanswered(c, a, b) ==
    /\ a \in Filed /\ application[a].status # "EMPLOYED" /\ application[a].approved
    /\ application[a].offer \in {"SENT", "ACCEPTED"}
    /\ Begin(c, "convert", "other_applications", a,
             [branch |-> b, left |-> {application[o].staff : o \in (Of(application[a].nin) \cap Hired) \ {a}}])
    /\ UNCHANGED <<Others, hiring>>

ConvertToStaff(c, a, b) ==
    /\ a \in Filed /\ application[a].status # "EMPLOYED" /\ application[a].approved
    /\ application[a].offer = "ACCEPTED"
    /\ Begin(c, "convert", "other_applications", a,
             [branch |-> b, left |-> {application[o].staff : o \in (Of(application[a].nin) \cap Hired) \ {a}}])
    /\ UNCHANGED <<Others, hiring>>

\* One after the other: a member who is the same person and at work ends the conversion.
JudgeOther(c, s) ==
    LET saw == calls[c].saw IN
    /\ At(c, "other_applications") /\ s \in saw.left
    /\ copy' = [copy EXCEPT ![s] = Seen(s)]
    /\ IF Seen(s).status \in AtWork THEN Return(c) ELSE Goto(c, "other_applications", [saw EXCEPT !.left = @ \ {s}])
    /\ UNCHANGED <<Elsewhere, staff, branch, history, codes, greeted, greetings, revived, reopened, hiring>>

\* The account of the applicant's email, which may be there already, or another member's.  One
\* that is there is granted the kind STAFF besides its own, in a table of its own that no check
\* here reads: left out.
FindAccount(c) ==
    LET saw == calls[c].saw  u == application[calls[c].on].email
        next == [branch |-> saw.branch, user |-> u, verified |-> TRUE] IN
    /\ At(c, "other_applications") /\ saw.left = {}
    /\ IF HasAccount(u)
       THEN IF u \in UsersBut("nobody") THEN Return(c) ELSE Goto(c, "check_member", next)
       ELSE Goto(c, "create_employee", next)
    /\ UNCHANGED <<Others, hiring>>

CreateEmployee(c) == At(c, "create_employee") /\ CreateUser(c, "check_member") /\ UNCHANGED hiring

\* See CreateMember.
CheckMember(c) ==
    LET saw == calls[c].saw IN
    /\ At(c, "check_member")
    /\ IF saw.user \in EmailsBut("nobody") \/ ~Serves(saw.branch)
       THEN Return(c)
       ELSE Continue(c, [stage |-> "create_member", on |-> saw.branch,
                         saw |-> [email |-> saw.user, user |-> saw.user, then |-> "set_pay", args |-> calls[c].on]])
    /\ UNCHANGED <<Others, hiring>>

StaffButPay == UNCHANGED <<Elsewhere, branch, history, codes, greeted, greetings, revived, reopened>>

\* The pay of the offer letter.  The copy that was made for the answer of the step before stays.
SetPay(c) ==
    /\ At(c, "set_pay") /\ Goto(c, "employ", calls[c].saw)
    /\ staff' = [staff EXCEPT ![calls[c].on].pay = Offered]
    /\ UNCHANGED copy /\ StaffButPay /\ UNCHANGED hiring

Employ(c) ==
    LET a == calls[c].saw.args IN
    /\ At(c, "employ") /\ Goto(c, "set_up_employee", application[a].email)
    /\ application' = [application EXCEPT ![a].status = "EMPLOYED", ![a].staff = calls[c].on]
    /\ UNCHANGED <<Others, attempted, posting, shown, lookups, logins>>

SetUpEmployee(c) ==
    /\ At(c, "set_up_employee") /\ Return(c)
    /\ reset' = [reset EXCEPT ![calls[c].saw] = New] /\ secrets' = New
    /\ OnlyAccount
    /\ UNCHANGED <<account, pin, phone, address, resets, guesses, proved, declined, register, hiring>>

-----------------------------------------------------------------------------
(* Pay.                                                                    *)

SetCompensation(c, s) ==
    /\ IsMember(s) /\ Begin(c, "pay", "set_compensation", s, 0)
    /\ UNCHANGED <<Others, hiring>>

WriteCompensation(c) ==
    /\ At(c, "set_compensation") /\ Wrote(c, calls[c].on, "done", 0)
    /\ staff' = [staff EXCEPT ![calls[c].on].pay = 2]
    /\ UNCHANGED copy /\ StaffButPay /\ UNCHANGED hiring

\* A member on commission has no base pay.  The copy is not dropped.
AssignCompensation(c, s) ==
    /\ IsMember(s) /\ Begin(c, "commission", "assign_commission", s, 0)
    /\ UNCHANGED <<Others, hiring>>

WriteCommission(c) ==
    /\ At(c, "assign_commission") /\ Return(c)
    /\ staff' = [staff EXCEPT ![calls[c].on].pay = OnCommission]
    /\ UNCHANGED copy /\ StaffButPay /\ UNCHANGED hiring

\* The members it will give the pay of their offer letters: hired, and without a base pay by what
\* findOne returns, which caches it; be they on commission.
RunCompensationBackfill(c) ==
    LET candidates == {application[a].staff : a \in {x \in Hired : application[x].offer = "ACCEPTED"}}
        plan == {s \in candidates : Seen(s).pay \in Unpaid} IN
    /\ plan # {} /\ Begin(c, "backfill", "backfill", "pay", [left |-> plan])
    /\ copy' = [s \in Members |-> IF s \in candidates THEN Seen(s) ELSE copy[s]]
    /\ UNCHANGED staff /\ StaffButPay /\ UNCHANGED hiring

BackfillDone(c, left) == IF left = {} THEN Return(c) ELSE Goto(c, "backfill", [left |-> left])

\* Each is looked up again before the write.
LookAgain(c, s) ==
    LET left == calls[c].saw.left \ {s} IN
    /\ At(c, "backfill") /\ s \in calls[c].saw.left
    /\ copy' = [copy EXCEPT ![s] = Seen(s)]
    /\ IF Seen(s).pay \notin Unpaid THEN BackfillDone(c, left) ELSE Goto(c, "write_pay", [left |-> left, who |-> s])
    /\ UNCHANGED staff /\ StaffButPay /\ UNCHANGED hiring

WriteBackfill(c) ==
    LET s == calls[c].saw.who IN
    /\ At(c, "write_pay") /\ BackfillDone(c, calls[c].saw.left)
    /\ staff' = [staff EXCEPT ![s].pay = Offered]
    /\ UNCHANGED copy /\ StaffButPay
    /\ UNCHANGED <<application, attempted, posting, shown, lookups, logins>>

-----------------------------------------------------------------------------
(* The job posting, and its copy in the public cache.                      *)

Mutate(c, to) == Begin(c, "posting", "write_posting", "posting", to) /\ UNCHANGED <<Others, hiring>>

CreatePosting(c, active) == posting = "none" /\ Mutate(c, [new |-> TRUE, status |-> IF active THEN "PUBLISHED" ELSE "DRAFT"])

\* A posting that is closed may be active again.
UpdatePosting(c, active) ==
    posting # "none" /\ Mutate(c, [new |-> FALSE, status |-> IF active THEN "PUBLISHED" ELSE "DRAFT"])

TogglePosting(c) ==
    /\ posting \in {"DRAFT", "PUBLISHED"}
    /\ Mutate(c, [new |-> FALSE, status |-> IF posting = "PUBLISHED" THEN "DRAFT" ELSE "PUBLISHED"])

RemovePosting(c) == posting # "none" /\ Mutate(c, [new |-> FALSE, status |-> "none"])

\* Every application is one for this posting.
ClosePosting(c, override) ==
    /\ posting \in {"DRAFT", "PUBLISHED"}
    /\ override \/ \A a \in Filed : application[a].status \in {"EMPLOYED", "NOT_SELECTED"}
    /\ Mutate(c, [new |-> FALSE, status |-> "CLOSED"])

WritePosting(c) ==
    LET to == calls[c].saw IN
    /\ At(c, "write_posting")
    /\ IF posting = "none" /\ ~to.new
       THEN Return(c) /\ UNCHANGED posting
       ELSE posting' = to.status /\ Goto(c, "drop_postings", 0)
    /\ UNCHANGED <<Others, application, attempted, shown, lookups, logins>>

DropPostings(c) ==
    /\ At(c, "drop_postings") /\ Return(c) /\ shown' = FALSE
    /\ UNCHANGED <<Others, application, attempted, posting, lookups, logins>>

FindOnePublic(c) ==
    /\ ~shown /\ posting = "PUBLISHED"
    /\ Begin(c, "posting", "show", "posting", 0)
    /\ UNCHANGED <<Others, hiring>>

Show(c) ==
    /\ At(c, "show") /\ Return(c) /\ shown' = TRUE
    /\ UNCHANGED <<Others, application, attempted, posting, lookups, logins>>

-----------------------------------------------------------------------------

HiringStep(c) ==
    \/ CheckCooldown(c) \/ RecordAttempt(c) \/ \E confirmed \in BOOLEAN : LookUp(c, confirmed)
    \/ \E a \in Applications : WriteDraft(c, a) \/ WriteSubmission(c, a)
    \/ WriteApplicantOtp(c) \/ SpendOtp(c) \/ WriteApplication(c) \/ WriteApproval(c) \/ WriteOffer(c)
    \/ WriteResponse(c)
    \/ \E s \in Members : JudgeOther(c, s) \/ LookAgain(c, s)
    \/ FindAccount(c) \/ CreateEmployee(c) \/ CheckMember(c) \/ SetPay(c) \/ Employ(c) \/ SetUpEmployee(c)
    \/ WriteCompensation(c) \/ WriteCommission(c) \/ WriteBackfill(c)
    \/ WritePosting(c) \/ DropPostings(c) \/ Show(c)

ApplicantRequest(c) ==
    \/ \E n \in Nins, own \in BOOLEAN :
          \/ VerifyNin(c, n, own)
          \/ \E e \in Users, d \in Applications \cup {"new"} : Submit(c, n, own, e, d)
    \/ \E a \in Applications :
          \/ RequestApplicantOtp(c, a) \/ VerifyApplicantOtp(c, a)
          \/ \E response \in {"ACCEPTED", "DECLINED"} : RespondToOffer(c, a, response)

SelectionRequest(c) ==
    \E a \in Applications :
        \/ ScheduleInterview(c, a) \/ RecordEmploymentApproval(c, a)
        \/ \E status \in Statuses : UpdateStatus(c, a, status)
        \/ \E outcome \in {"PASS", "FAIL", "HOLD"} : RecordInterviewOutcome(c, a, outcome)

OfferRequest(c) ==
    \/ \E a \in Applications : GenerateOfferLetter(c, a) \/ \E b \in Branches : ConvertToStaff(c, a, b)
    \/ RunCompensationBackfill(c)

PostingRequest(c) ==
    \/ \E active \in BOOLEAN : CreatePosting(c, active) \/ UpdatePosting(c, active) \/ ClosePosting(c, active)
    \/ TogglePosting(c) \/ RemovePosting(c) \/ FindOnePublic(c)

HiringRequest(c) ==
    \/ ApplicantRequest(c) \/ SelectionRequest(c) \/ OfferRequest(c) \/ PostingRequest(c)
    \/ \E s \in Members : SetCompensation(c, s) \/ AssignCompensation(c, s)

-----------------------------------------------------------------------------

\* For applications a NIN is looked up, which is paid for, at most once in a cooldown, whoever
\* applies and whatever name is given; two requests at the same moment may both find no attempt
\* recorded.  (The public form is not held back: see above.)
OneLookupPerCooldown == \A n \in Nins : lookups[n] <= 1 \/ overlapped

\* A person has one application at most in the selection that was submitted, not counting drafts
\* that an administrator puts there, without an email.  An offer made on an application that had
\* not been selected is beyond it, and two submissions may overlap.
OneInSelection ==
    \A n \in Nins :
        \/ Cardinality({a \in Of(n) : application[a].status \in Selection /\ application[a].email # "none"}) <= 1
        \/ overlapped

\* An applicant's code lets in once, unless it is tried twice at the same moment.
LoginOnce == \A k \in DOMAIN logins : logins[k] <= 1 \/ overlapped

\* Who is employed by way of an application passed the interview, was approved and accepted the
\* offer, whatever order the steps of the selection came in.
EmployedSignedOff ==
    \A a \in Filed : application[a].status = "EMPLOYED" =>
        \/ application[a].outcome = "PASS" /\ application[a].approved /\ application[a].offer = "ACCEPTED"
        \/ overlapped

\* Who is employed stays so in the application, unless another step had read it before.
EmployedIsFinal ==
    [][\A a \in Filed : application[a].status = "EMPLOYED" => application'[a].status = "EMPLOYED" \/ overlapped]_hiring

\* A person is at work under one staff record, however many applications, emails and returns it
\* took: unless two conversions overlap, one who had left was made active again beside the new
\* record, or the copy of the old record is wrong after a crash.
OnePersonOneStaff ==
    \A n \in Nins :
        \/ Cardinality({a \in Of(n) \cap Hired : staff[application[a].staff].status \in AtWork}) <= 1
        \/ overlapped \/ revived \/ crashes > 0

\* Whoever is employed, but for those on board before, has a record with the applicant's account
\* and a base pay or a commission: a conversion that dies on the way never leaves the application
\* EMPLOYED.
HiredIsWhole ==
    \A a \in Hired : LET s == application[a].staff IN s \notin OnBoard =>
        staff[s].user = application[a].email /\ HasAccount(staff[s].user) /\ staff[s].pay # 0

\* The public copy of a posting is there only for one that is published, once handlers are through.
ShownIsPublished == Quiet /\ shown => posting = "PUBLISHED" \/ overlapped \/ crashes > 0

\* An application leads to one hire, of a person who was looked up, signed off and set up, and
\* what the public sees is what is published (ApplicationService, JobsService).
HiringKept ==
    /\ HiringTypeOK
    /\ OneLookupPerCooldown /\ LoginOnce /\ OneInSelection /\ EmployedSignedOff
    /\ OnePersonOneStaff /\ HiredIsWhole /\ ShownIsPublished
===============================================================================
