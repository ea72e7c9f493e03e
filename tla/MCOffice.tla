------------------------------- MODULE MCOffice -------------------------------
\* Two emails, one of which has an account; two roles, one of which is there; two members.
EXTENDS Office

CONSTANTS bob, eve

TwoCalls ==
    {{"hire", "look"}, {"details", "look"}, {"branches", "details"}, {"send"}, {"leave", "transfer"}, {"transfer", "look"}, {"detect", "send"},
     {"history", "transfer"}, {"birthday", "details"}, {"convert", "leave"}, {"convert", "hire"}, {"convert", "selection"},
     {"convert", "backfill"}, {"copies_expire", "details"}, {"send", "template"}, {"send", "sequence"}, {"detect", "come"}, {"send", "slow"}}
ThreeCalls ==
    {{"register", "otp", "sign_in"}, {"google", "sign_in", "status"}, {"sign_in", "refresh", "delete_user"},
     {"sign_in", "request", "staff_role"}, {"link", "birthday"},
     {"branches", "transfer"}, {"link", "sign_in"}, {"nin", "submit"}, {"submit", "applicant"}, {"convert"},
     {"backfill", "pay", "commission"}, {"convert", "commission"}, {"submit", "selection"}, {"posting", "submit"}, {"kyc", "kyc_report"},
     {"availability", "location", "active"}, {"no-show", "availability"}, {"suspend", "location", "availability"},
     {"suspend", "restart", "active"},
     {"job", "location"},
     {"detect"}, {"send", "unsubscribe"}, {"suspend", "lift"},
     {"sign_in", "request", "grants"}, {"roles", "grants", "admins"}, {"kyc", "kyc_report", "kyc_settings", "kyc_review"}}
FourCalls ==
    {{"sign_in", "refresh"}, {"sign_in", "request", "roles"}, {"sign_in", "request", "status"},
     {"password"}, {"pin"}, {"directive"},
     {"submit_item", "review_item", "acknowledge"}, {"phone"}, {"address"}, {"nin"}, {"offer", "convert"}, {"posting"},
     {"job", "suspend"}, {"job", "availability"}, {"profile", "video"}, {"profile_review", "kyc_review"},
     {"kyc", "kyc_report", "profile"},
     {"document", "acknowledge", "review_item"}, {"visit", "report", "review_item"}}
FiveCalls == {{"selection"}, {"video", "profile_review"}}

MCScenarios == TwoCalls \cup ThreeCalls \cup FourCalls \cup FiveCalls
MCMaxCalls == [s \in MCScenarios |->
    CASE s \in TwoCalls -> 2 [] s \in ThreeCalls -> 3 [] s \in FourCalls -> 4 [] OTHER -> 5]

\* An application on its way, at a status that the steps before lead to.
On(e, status, outcome, approval, offer) ==
    [Fresh("n1", TRUE) EXCEPT !.status = status, !.email = e, !.verified = TRUE, !.outcome = outcome,
                              !.approved = approval, !.offer = offer]

Table(x, y) == [a \in Applications |-> IF a = "a1" THEN x ELSE y]

Accepted(e) == On(e, "OFFER_EXTENDED", "PASS", TRUE, "ACCEPTED")
Employed(e, s) == [Accepted(e) EXCEPT !.status = "EMPLOYED", !.staff = s]

\* Of two accepted offers the first was made after its application had not been selected, or to
\* one who was on board before the conversion set a pay.
MCBegun == [s \in MCScenarios |->
    CASE "backfill" \in s \/ {"convert", "leave"} \subseteq s -> {Table(Employed(bob, "s1"), Accepted(eve))}
      [] "offer" \in s -> {Table(On(bob, "INTERVIEW_COMPLETED", "PASS", FALSE, "none"), NoApplication)}
      [] "convert" \in s -> {Table(Accepted(bob), Accepted(eve))}
      [] {"submit", "selection"} \subseteq s ->
            {Table(Fresh("n1", TRUE), NoApplication), Table(Fresh("n1", TRUE), On(eve, "SUBMITTED", "none", FALSE, "none"))}
      [] "selection" \in s -> {Table(On(bob, "SUBMITTED", "none", FALSE, "none"), NoApplication)}
      [] OTHER -> {Table(NoApplication, NoApplication)}]

\* A beautician who is new, who has been submitted for review, who is verified, or who is at work.
NewProfile == [kyc |-> "PENDING", filled |-> FALSE, photo |-> FALSE, review |-> "NOT_SUBMITTED", video |-> 0,
               active |-> TRUE, available |-> "OFFLINE", job |-> FALSE, suspended |-> FALSE, until |-> 0]
Verified == [NewProfile EXCEPT !.kyc = "VERIFIED", !.photo = TRUE]
Submitted == [Verified EXCEPT !.filled = TRUE, !.review = "AWAITING_VIDEO"]
AtWorkProfile == [Submitted EXCEPT !.review = "APPROVED", !.video = 1, !.available = "ONLINE"]

MCProfilesBegun == [s \in MCScenarios |->
    CASE "profile_review" \in s -> {[Submitted EXCEPT !.review = "PENDING_REVIEW", !.video = 1]}
      [] "video" \in s -> {Verified, Submitted}
      [] s \cap {"kyc", "kyc_report"} # {} -> {NewProfile}
      [] s \cap {"suspend", "availability", "job"} # {} -> {AtWorkProfile, [AtWorkProfile EXCEPT !.available = "OFFLINE"]}
      [] OTHER -> {NewProfile}]

\* A customer who has been at risk twice, in the notes of a job that died in between; letters
\* with and without a delay; and a sequence of two steps beside a template for the evening.
To(s) == [NoTransition EXCEPT !.subject = s, !.from = "ACTIVE", !.to = "AT_RISK", !.at = 1]
Letter == [NoTemplate EXCEPT !.life = "AT_RISK", !.enabled = TRUE, !.cooldown = 4]
Step(k, delay) == [template |-> k, delay |-> delay, late |-> FALSE]
NoPlan == [visited |-> [s \in Customers |-> [count |-> 1, last |-> 0]], known |-> [s \in Customers |-> "ACTIVE"],
           transition |-> [t \in Transitions |-> NoTransition], template |-> [k \in Templates |-> NoTemplate],
           sequence |-> NoSequence]
OneLetter == [NoPlan EXCEPT !.transition[1] = To("u1"), !.transition[2] = To("u1"), !.template["k1"] = Letter]
TwoLetters == [OneLetter EXCEPT !.template["k2"] = [Letter EXCEPT !.channel = "PUSH", !.delay = 2]]
ForSome == [NoPlan EXCEPT !.transition[1] = To("w1"), !.template["k1"] = [Letter EXCEPT !.audience = "USER"],
                          !.template["k2"] = [Letter EXCEPT !.channel = "PUSH", !.tier = "PREMIUM"]]
TwoSteps == [NoPlan EXCEPT !.transition[1] = To("u1"), !.template["k1"] = [Letter EXCEPT !.channel = "SMS", !.late = TRUE],
                           !.template["k2"] = [Letter EXCEPT !.life = "NEW"],
                           !.sequence = [NoSequence EXCEPT !.life = "AT_RISK", !.enabled = TRUE, !.edition = 1,
                                           !.steps = <<Step("k2", 0), Step("k2", 1)>>]]

MCMade == [s \in {"w1", "u1"} |-> 0]
MCThresholds == [newAge |-> 1, newCount |-> 1, active |-> 1, atRisk |-> 2, dormant |-> 3]
MCCampaignsBegun == [s \in MCScenarios |->
    CASE s = {"detect", "send"} -> {[NoPlan EXCEPT !.template["k1"] = Letter, !.known["w1"] = "none"]}
      [] "detect" \in s -> {NoPlan, [NoPlan EXCEPT !.visited["u1"].count = 0]}
      [] s = {"send"} -> {TwoLetters, ForSome, TwoSteps}
      [] "sequence" \in s -> {TwoSteps}
      [] s \cap {"slow", "template"} # {} -> {[TwoLetters EXCEPT !.transition[2] = NoTransition]}
      [] "unsubscribe" \in s -> {OneLetter}
      [] OTHER -> {NoPlan}]

\* The run that shows where a sequence ends.
Sequels == {{"send"}}
===============================================================================
