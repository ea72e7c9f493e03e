------------------------------ MODULE Onboarding ------------------------------
(***************************************************************************)
(* A member's onboarding: the checklist, whose items the member submits    *)
(* and an admin completes; the visit to the member's home, made by an      *)
(* outside service that reports by webhook, late and in any order; the     *)
(* company's documents, which everybody acknowledges; and directives.      *)
(*                                                                         *)
(* Everything is read first and written by id later.  Files, texts, mails  *)
(* and announcements are left out.                                         *)
(***************************************************************************)
EXTENDS Hiring

CONSTANTS
    Forms,          \* items that a member submits: "FORM" for the texts, "PHOTO"
    Checks,         \* bound: verifications that the outside service makes
    DocumentTypes,
    Documents,      \* bound: rows of company documents
    Directives

VARIABLES
    item,       \* item[s][t]: the checklist's row
    home,       \* home[s]: the address verification's row; id = 0: none at the service yet
    check,      \* check[i]: the verification at the service: of whom, and what it found
    document,   \* document[d]: a version of the company document
    inUse,      \* the types of documents that are active
    agreed,     \* the acknowledgments, <<member, document>>
    directive,  \* directive[k]: for whom, and how far it is
    stopped,    \* history: verifications whose request was cancelled
    mayLack,    \* mayLack[s], history: documents that came after s's acknowledgments sufficed
    byHand,     \* history: items that an admin completed
    deleted,    \* history: a document in force was deleted
    promised    \* history: all acknowledgments ever made

onboarding == <<item, home, check, document, inUse, agreed, directive,
                stopped, mayLack, byHand, deleted, promised>>
checklist  == <<item, byHand>>
visits     == <<home, check, stopped>>
papers     == <<document, inUse, agreed, mayLack, deleted, promised>>
Offices    == <<accounts, roles, credentials, register, hiring>>

ItemTypes == Forms \cup {"POLICY", "VISIT"}
Untouched == [status |-> "NOT_STARTED", done |-> FALSE]
NoRequest == [status |-> "none", id |-> 0]
NoDocument == [type |-> "none", there |-> FALSE, version |-> 0, active |-> FALSE]
AddressStatuses == {"none", "REQUESTED", "SUBMITTED", "VERIFIED", "REJECTED", "CANCELLED"}
RESUBMITTABLE_STATUSES == {"REQUESTED", "REJECTED"}     \* FAILED is treated like REJECTED
Nobody == [staff |-> "nobody", rank |-> 0, back |-> FALSE]

OnboardingTypeOK ==
    /\ item \in [Members -> [ItemTypes -> [status : {"NOT_STARTED", "SUBMITTED", "COMPLETE"}, done : BOOLEAN]]]
    /\ home \in [Members -> [status : AddressStatuses, id : Checks \cup {0}]]
    /\ document \in [Documents -> [type : DocumentTypes \cup {"none"}, there : BOOLEAN, version : Nat, active : BOOLEAN]]
    /\ agreed \subseteq Members \X Documents /\ \A k \in Directives : directive[k].rank \in 0..3

OnboardingInit ==
    /\ item = [s \in Members |-> [t \in ItemTypes |-> Untouched]]
    /\ home = [s \in Members |-> NoRequest]
    /\ check = [i \in Checks |-> [staff |-> "nobody", found |-> "open"]]
    /\ document = [d \in Documents |-> NoDocument] /\ inUse = DocumentTypes
    /\ agreed = {} /\ directive = [k \in Directives |-> Nobody]
    /\ stopped = {} /\ mayLack = [s \in Members |-> {}] /\ byHand = {} /\ deleted = FALSE /\ promised = {}

-----------------------------------------------------------------------------
(* The checklist.                                                          *)

SetItem(s, t, status, done) == item' = [item EXCEPT ![s][t] = [status |-> status, done |-> done]]

RegisterButCopy == <<staff, branch, history, codes, greeted, greetings, revived, reopened>>
WroteItem(s) == copy' = [copy EXCEPT ![s] = NoMember] /\ UNCHANGED <<Elsewhere, hiring, RegisterButCopy>>

\* The texts or the photo are written to the member's record first.
SubmitItem(c, s, t) ==
    /\ IsMember(s) /\ Begin(c, "submit_item", "mark_submitted", <<s, t>>, 0)
    /\ UNCHANGED <<Offices, onboarding>>

\* "Always overwrites to SUBMITTED": the status only.  What was complete stays complete.
MarkOnboardingSubmitted(c) ==
    LET s == calls[c].on[1]  t == calls[c].on[2] IN
    /\ At(c, "mark_submitted") /\ Return(c)
    /\ SetItem(s, t, "SUBMITTED", item[s][t].done) /\ WroteItem(s)
    /\ UNCHANGED <<byHand, visits, papers, directive>>

\* Whatever was submitted, or nothing.
UpdateOnboardingItem(c, s, t, done) ==
    /\ IsMember(s) /\ (t = "VISIT" => home[s] # NoRequest)
    /\ Begin(c, "review_item", "write_review", <<s, t>>, done)
    /\ UNCHANGED <<Offices, onboarding>>

WriteReview(c) ==
    LET s == calls[c].on[1]  t == calls[c].on[2]  done == calls[c].saw IN
    /\ At(c, "write_review") /\ Return(c)
    /\ SetItem(s, t, IF done THEN "COMPLETE" ELSE "NOT_STARTED", done)
    /\ byHand' = IF done THEN byHand \cup {<<s, t>>} ELSE byHand \ {<<s, t>>}
    /\ WroteItem(s)
    /\ UNCHANGED <<visits, papers, directive>>

-----------------------------------------------------------------------------
(* The visit to the address.                                               *)

RequestVerification(c, s) ==
    /\ IsMember(s) /\ Begin(c, "visit", "write_request", s, 0)
    /\ UNCHANGED <<Offices, onboarding>>

\* Whatever there was is cleared, the service's id as well.
WriteRequest(c) ==
    LET s == calls[c].on IN
    /\ At(c, "write_request") /\ Goto(c, "reset_item", 0)
    /\ home' = [home EXCEPT ![s] = [status |-> "REQUESTED", id |-> 0]]
    /\ UNCHANGED <<Offices, checklist, check, stopped, papers, directive>>

ResetItem(c) ==
    LET s == calls[c].on IN
    /\ At(c, "reset_item") /\ Return(c)
    /\ SetItem(s, "VISIT", "NOT_STARTED", FALSE) /\ byHand' = byHand \ {<<s, "VISIT">>}
    /\ UNCHANGED <<Offices, visits, papers, directive>>

SubmitVisit(c, s) ==
    /\ IsMember(s) /\ home[s].status \in RESUBMITTABLE_STATUSES
    /\ Begin(c, "visit", "ask_service", s, 0)
    /\ UNCHANGED <<Offices, onboarding>>

\* The service takes the order; its answer may get lost, and the handler throws.
AskService(c) ==
    LET free == {i \in Checks : check[i].staff = "nobody"} IN
    /\ At(c, "ask_service") /\ free # {}
    /\ \E i \in {CHOOSE j \in free : \A k \in free : j <= k} :
          /\ check' = [check EXCEPT ![i].staff = calls[c].on]
          /\ \/ Goto(c, "write_submitted", i)
             \/ Return(c)
    /\ UNCHANGED <<Offices, checklist, home, stopped, papers, directive>>

WriteVisitAsked(c) ==
    LET s == calls[c].on IN
    /\ At(c, "write_submitted") /\ Goto(c, "mark_visit", 0)
    /\ home' = [home EXCEPT ![s] = [status |-> "SUBMITTED", id |-> calls[c].saw]]
    /\ UNCHANGED <<Offices, checklist, check, stopped, papers, directive>>

MarkVisit(c) ==
    LET s == calls[c].on IN
    /\ At(c, "mark_visit") /\ Return(c)
    /\ SetItem(s, "VISIT", "SUBMITTED", item[s]["VISIT"].done)
    /\ UNCHANGED <<Offices, byHand, visits, papers, directive>>

CancelVerification(c, s) ==
    /\ home[s].status \in {"REQUESTED", "SUBMITTED"}
    /\ Begin(c, "visit", "write_cancelled_visit", s, 0)
    /\ UNCHANGED <<Offices, onboarding>>

WriteCancellation(c) ==
    LET s == calls[c].on IN
    /\ At(c, "write_cancelled_visit") /\ Goto(c, "reset_item", 0)
    /\ home' = [home EXCEPT ![s].status = "CANCELLED"]
    /\ stopped' = stopped \cup ({home[s].id} \ {0})
    /\ UNCHANGED <<Offices, checklist, check, papers, directive>>

\* What the field agent finds; before that the service reports "in progress", late perhaps.
Report(i, result) ==
    \/ result = "SUBMITTED" /\ UNCHANGED check
    \/ /\ result \in {"VERIFIED", "REJECTED"} /\ check[i].found \in {"open", result}
       /\ check' = [check EXCEPT ![i].found = result]

Reported(i) == {s \in Members : home[s].id = i}

\* Reports are found by the service's id; a cancelled request is not taken up again.
HandleWebhook(c, i, result) ==
    /\ check[i].staff # "nobody" /\ Report(i, result)
    /\ \E s \in Reported(i) : /\ home[s].status # "CANCELLED"
                              /\ Begin(c, "report", "write_result", s, <<i, result>>)
    /\ UNCHANGED <<Offices, checklist, home, stopped, papers, directive>>

\* By the row's id, whatever it is by now: also over VERIFIED, if a report comes late.
WriteResult(c) ==
    LET s == calls[c].on  result == calls[c].saw[2] IN
    /\ At(c, "write_result")
    /\ home' = [home EXCEPT ![s].status = result]
    /\ IF result = "VERIFIED" THEN Goto(c, "complete_visit", 0) ELSE Return(c)
    /\ UNCHANGED <<Offices, checklist, check, stopped, papers, directive>>

CompleteVisit(c) ==
    LET s == calls[c].on IN
    /\ At(c, "complete_visit") /\ Return(c)
    /\ IF item[s]["VISIT"].done THEN UNCHANGED item ELSE SetItem(s, "VISIT", "COMPLETE", TRUE)
    /\ UNCHANGED <<Offices, byHand, visits, papers, directive>>

-----------------------------------------------------------------------------
(* The company's documents.                                                *)

Current == {d \in Documents : document[d].there /\ document[d].active}
InForce(y) == {d \in Current : document[d].type = y}

\* Of several that are active, the one with the highest version is taken for the current one.
CreateDocument(c, y) ==
    LET latest == {d \in InForce(y) : \A e \in InForce(y) : document[e].version <= document[d].version} IN
    /\ y \in inUse
    /\ \/ InForce(y) = {} /\ Begin(c, "document", "add_document", "new", <<y, 1>>)
       \/ \E d \in latest : Begin(c, "document", "retire", d, <<y, document[d].version + 1>>)
    /\ UNCHANGED <<Offices, onboarding>>

Retire(c) ==
    /\ At(c, "retire") /\ Goto(c, "add_document", calls[c].saw)
    /\ document' = [document EXCEPT ![calls[c].on].active = FALSE]
    /\ UNCHANGED <<Offices, checklist, visits, inUse, agreed, mayLack, deleted, promised, directive>>

AddDocument(c) ==
    LET free == {d \in Documents : document[d].version = 0} IN
    /\ At(c, "add_document") /\ Return(c) /\ free # {}
    /\ \E d \in {CHOOSE e \in free : \A f \in free : e <= f} :
          /\ document' = [document EXCEPT ![d] = [type |-> calls[c].saw[1], there |-> TRUE,
                                                        version |-> calls[c].saw[2], active |-> TRUE]]
          /\ mayLack' = [s \in Members |-> mayLack[s] \cup {d}]
    /\ UNCHANGED <<Offices, checklist, visits, inUse, agreed, deleted, promised, directive>>

\* Only one that nobody has acknowledged: counted first.
RemoveDocument(c, d) ==
    /\ document[d].there /\ ~\E s \in Members : <<s, d>> \in agreed
    /\ Begin(c, "document", "delete_document", d, 0)
    /\ UNCHANGED <<Offices, onboarding>>

\* Acknowledgments go with it.
DeleteDocument(c) ==
    LET d == calls[c].on IN
    /\ At(c, "delete_document") /\ Return(c)
    /\ document' = [document EXCEPT ![d].there = FALSE]
    /\ agreed' = {a \in agreed : a[2] # d} /\ deleted' = (deleted \/ document[d].active)
    /\ UNCHANGED <<Offices, checklist, visits, inUse, mayLack, promised, directive>>

\* A type is switched on and off; its documents stay as they are.
SetTypeActive(c, y, active) ==
    /\ Once(c, "document") /\ inUse' = IF active THEN inUse \cup {y} ELSE inUse \ {y}
    /\ UNCHANGED <<Offices, checklist, visits, document, agreed, mayLack, deleted, promised, directive>>

AcknowledgeDocument(c, s, d) ==
    /\ IsMember(s) /\ d \in Current /\ <<s, d>> \notin agreed
    /\ Begin(c, "acknowledge", "write_acknowledgment", <<s, d>>, 0)
    /\ UNCHANGED <<Offices, onboarding>>

\* Unique: the second of two fails, and one of a document that is gone.
WriteAcknowledgment(c) ==
    LET a == calls[c].on IN
    /\ At(c, "write_acknowledgment")
    /\ IF a \in agreed \/ ~document[a[2]].there
       THEN Return(c) /\ UNCHANGED <<agreed, promised>>
       ELSE /\ agreed' = agreed \cup {a} /\ promised' = promised \cup {a}
            /\ Goto(c, "count_documents", 0)
    /\ UNCHANGED <<Offices, checklist, visits, document, inUse, mayLack, deleted, directive>>

Unread(s) == {d \in Current : <<s, d>> \notin agreed}

\* Faulty variant of CountDocuments: the document just acknowledged is enough.
CountNone(c) ==
    /\ At(c, "count_documents") /\ Goto(c, "complete_policy", 0)
    /\ UNCHANGED <<Offices, onboarding>>

CountDocuments(c) ==
    LET s == calls[c].on[1] IN
    /\ At(c, "count_documents")
    /\ IF Current = {} \/ Unread(s) # {} THEN Return(c) ELSE Goto(c, "complete_policy", 0)
    /\ UNCHANGED <<Offices, onboarding>>

\* Completed by nobody.  Documents that come later do not reopen it.
CompletePolicy(c) ==
    LET s == calls[c].on[1] IN
    /\ At(c, "complete_policy") /\ Return(c)
    /\ IF item[s]["POLICY"].done THEN UNCHANGED <<item, mayLack>>
       ELSE /\ SetItem(s, "POLICY", item[s]["POLICY"].status, TRUE)
            /\ mayLack' = [mayLack EXCEPT ![s] = {}]
    /\ UNCHANGED <<Offices, byHand, visits, document, inUse, agreed, deleted, promised, directive>>

-----------------------------------------------------------------------------
(* Directives.                                                             *)

CreateDirective(c, k, s) ==
    /\ directive[k] = Nobody /\ IsMember(s) /\ Once(c, "directive")
    /\ directive' = [directive EXCEPT ![k] = [staff |-> s, rank |-> 1, back |-> FALSE]]
    /\ UNCHANGED <<Offices, checklist, visits, papers>>

\* Only the member it is for, and only forward.
UpdateDirectiveStatus(c, k, s, rank) ==
    /\ directive[k].staff = s /\ rank > directive[k].rank
    /\ Begin(c, "directive", "write_directive", k, rank)
    /\ UNCHANGED <<Offices, onboarding>>

WriteDirective(c) ==
    LET k == calls[c].on  rank == calls[c].saw IN
    /\ At(c, "write_directive") /\ Return(c)
    /\ directive' = IF directive[k] = Nobody THEN directive
                    ELSE [directive EXCEPT ![k].rank = rank, ![k].back = @ \/ rank < directive[k].rank]
    /\ UNCHANGED <<Offices, checklist, visits, papers>>

DeleteDirective(c, k) ==
    /\ directive[k] # Nobody /\ Once(c, "directive")
    /\ directive' = [directive EXCEPT ![k] = Nobody]
    /\ UNCHANGED <<Offices, checklist, visits, papers>>

OnboardingStep(c) ==
    \/ MarkOnboardingSubmitted(c) \/ WriteReview(c)
    \/ WriteRequest(c) \/ ResetItem(c) \/ AskService(c) \/ WriteVisitAsked(c) \/ MarkVisit(c)
    \/ WriteCancellation(c) \/ WriteResult(c) \/ CompleteVisit(c)
    \/ Retire(c) \/ AddDocument(c) \/ DeleteDocument(c)
    \/ WriteAcknowledgment(c) \/ CountDocuments(c) \/ CompletePolicy(c) \/ WriteDirective(c)

FormRequest(c) == \E s \in Members : SubmitVisit(c, s) \/ \E t \in Forms : SubmitItem(c, s, t)

MemberRequest(c) ==
    \/ FormRequest(c)
    \/ \E s \in Members :
           \/ \E d \in Documents : AcknowledgeDocument(c, s, d)
           \/ \E k \in Directives, rank \in 1..3 : UpdateDirectiveStatus(c, k, s, rank)

ReviewRequest(c) ==
    \E s \in Members, t \in ItemTypes, done \in BOOLEAN : UpdateOnboardingItem(c, s, t, done)

AddressVisitRequest(c) == \E s \in Members : RequestVerification(c, s) \/ CancelVerification(c, s)

DirectiveRequest(c) ==
    \E k \in Directives : DeleteDirective(c, k) \/ \E s \in Members : CreateDirective(c, k, s)

OnboardingAdminRequest(c) ==
    \/ ReviewRequest(c) \/ AddressVisitRequest(c) \/ DirectiveRequest(c)
    \/ \E y \in DocumentTypes :
          CreateDocument(c, y) \/ \E active \in BOOLEAN : SetTypeActive(c, y, active)
    \/ \E d \in Documents : RemoveDocument(c, d)

OnboardingRequest(c) ==
    \/ MemberRequest(c) \/ OnboardingAdminRequest(c)
    \/ \E i \in Checks, result \in {"SUBMITTED", "VERIFIED", "REJECTED"} : HandleWebhook(c, i, result)

-----------------------------------------------------------------------------
(* Properties                                                              *)

\* An address counts as verified only if the service said so of the form that was last sent:
\* not by a report about an earlier one, unless the request is renewed while a report arrives.
VerifiedWasFound ==
    overlapped \/
    \A s \in Members : home[s].status = "VERIFIED" =>
        home[s].id # 0 /\ check[home[s].id].found = "VERIFIED"

\* A request that an admin cancelled is not revived by a late report.
CancelledStaysSo ==
    overlapped \/
    \A s \in Members : home[s].id \in stopped => home[s].status = "CANCELLED"

\* The visit's item is complete only if a visit found the home, or an admin said so.
VisitIsBacked ==
    overlapped \/ crashes > 0 \/
    \A s \in Members : item[s]["VISIT"].done /\ <<s, "VISIT">> \notin byHand =>
        \E i \in Checks : check[i].staff = s /\ check[i].found = "VERIFIED"

\* One version of a company document is in force, with a number of its own, unless two are
\* made at once; the number may come again after the version in force was deleted.
OneVersion ==
    overlapped \/
    /\ \A y \in DocumentTypes : Cardinality(InForce(y)) <= 1
    /\ \A d, e \in Documents :
          ( /\ document[d].there /\ document[e].there
            /\ document[d].type = document[e].type
            /\ document[d].version = document[e].version ) =>
          d = e \/ deleted \/ crashes > 0

\* Nobody's acknowledgment is lost, unless it is given while the document is deleted.
AgreementsKept == overlapped \/ promised = agreed

\* Who has read the policies, says the list, has acknowledged what was in force at that time.
PolicyWasRead ==
    overlapped \/
    \A s \in Members : item[s]["POLICY"].done /\ <<s, "POLICY">> \notin byHand => Unread(s) \subseteq mayLack[s]

\* A directive does not go back, unless two answers to it overlap.
DirectiveForward == overlapped \/ \A k \in Directives : ~directive[k].back

\* What the checklist says was checked and read, whatever arrives late, and acknowledgments last.
OnboardingKept ==
    /\ OnboardingTypeOK
    /\ VerifiedWasFound /\ CancelledStaysSo /\ VisitIsBacked
    /\ OneVersion /\ AgreementsKept /\ PolicyWasRead /\ DirectiveForward
===============================================================================
