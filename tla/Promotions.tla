------------------------------ MODULE Promotions ------------------------------
(***************************************************************************)
(* Discount codes, the influencers who own some of them, and what a new    *)
(* account brings: a bonus by a campaign's code, or a reward for the user  *)
(* whose referral code it was, paid at the sign-up or at a deposit.        *)
(*                                                                         *)
(* Limits are checked by a plain read before the use is counted.  Rewards  *)
(* and bonuses have unique references, so a second transaction fails; what *)
(* its handler does then is another write.  Texts, the dates' windows (an  *)
(* inactive code stands for one outside its window) and the targeting by   *)
(* branch and customer (in Customers) are left out.                        *)
(***************************************************************************)
EXTENDS Handlers

CONSTANTS
    Codes,          \* discount codes
    Owner,          \* Owner[d]: the influencer whose code d is, or "house"
    Influencers,
    Newcomers,      \* users who sign up
    SignsUpWith,    \* SignsUpWith[n]: a campaign, or the user whose referral code it is
    Campaigns,
    Payees,         \* users with a wallet
    Limits,         \* maxUses that admins choose from
    RewardValue     \* what a referral or a campaign pays

VARIABLES
    code,       \* code[d]: the discount_codes row
    influencer, \* influencer[i]: "none", "active" or "inactive"
    referral,   \* referral[n]: status of n's referrals row
    campaign,   \* campaign[k]: the referral_campaign_codes row
    bonus,      \* bonus[n]: the campaign whose bonus n got (referral_campaign_code_usages)
    policy,     \* the referral_settings row
    shownPolicy,\* its copy in Redis
    reward,     \* the rewards' and bonuses' wallet transactions, by reference
    pocket,     \* pocket[u]: what they added to u's wallet
    signedUp,   \* newcomers who have signed up
    lowered     \* history: an admin set a limit below the uses, or counted them anew

promotions == <<code, influencer, referral, campaign, bonus, policy, shownPolicy, reward, pocket, signedUp, lowered>>
discounts  == <<code, influencer>>
signups    == <<referral, campaign, bonus, reward, pocket, signedUp>>
settings   == <<policy, shownPolicy>>

CodeRows == [there : BOOLEAN, active : BOOLEAN, uses : Nat, max : Limits]
NoCode(max) == [there |-> FALSE, active |-> FALSE, uses |-> 0, max |-> max]
Policies == [active : BOOLEAN, type : {"FIXED", "PERCENTAGE"}]
NoCopy   == [active |-> FALSE, type |-> "none"]
PaidFor == {"REFERRAL"} \X Newcomers \cup {"SIGNUP-CODE"} \X Newcomers

PromotionsTypeOK ==
    /\ code \in [Codes -> CodeRows] /\ campaign \in [Campaigns -> CodeRows]
    /\ influencer \in [Influencers -> {"none", "active", "inactive"}]
    /\ referral \in [Newcomers -> {"none", "PENDING", "REWARDED", "FAILED"}]
    /\ bonus \in [Newcomers -> Campaigns \cup {"none"}]
    /\ policy \in Policies /\ shownPolicy \in Policies \cup {NoCopy}
    /\ reward \subseteq PaidFor /\ pocket \in [Payees -> Nat]

PromotionsInit ==
    /\ code = [d \in Codes |-> [there |-> TRUE, active |-> TRUE, uses |-> 0, max |-> 1]]
    /\ campaign = [k \in Campaigns |-> [there |-> TRUE, active |-> TRUE, uses |-> 0, max |-> 1]]
    /\ influencer = [i \in Influencers |-> "active"]
    /\ referral = [n \in Newcomers |-> "none"] /\ bonus = [n \in Newcomers |-> "none"]
    /\ policy = [active |-> TRUE, type |-> "FIXED"] /\ shownPolicy = NoCopy
    /\ reward = {} /\ pocket = [u \in Payees |-> 0] /\ signedUp = {} /\ lowered = FALSE

-----------------------------------------------------------------------------
(* Discount codes and influencers.                                         *)

\* DiscountService.validate, the part about the code itself.
Valid(d) == code[d].there /\ code[d].active /\ code[d].uses < code[d].max

\* The use is counted in the transaction of what it is used for.
UseCode(d) == code' = [code EXCEPT ![d].uses = @ + 1]

\* Looked for by its code, then created; the code is unique, so of two one fails.  An
\* influencer's code does not ask whether the influencer is active.
CreateCode(c, d) ==
    /\ ~code[d].there /\ (Owner[d] = "house" \/ influencer[Owner[d]] # "none")
    /\ Begin(c, "codes", "create_code", d, 0)
    /\ UNCHANGED promotions

WriteCode(c) ==
    LET d == calls[c].on IN
    /\ At(c, "create_code") /\ Return(c)
    /\ code' = [code EXCEPT ![d] = IF @.there THEN @ ELSE [NoCode(@.max) EXCEPT !.there = TRUE, !.active = TRUE]]
    /\ UNCHANGED <<influencer, signups, settings, lowered>>

UpdateCode(c, d, active, max) ==
    /\ code[d].there /\ Begin(c, "codes", "update_code", d, [active |-> active, max |-> max])
    /\ UNCHANGED promotions

WriteCodeUpdate(c) ==
    LET d == calls[c].on  s == calls[c].saw IN
    /\ At(c, "update_code") /\ Return(c)
    /\ IF code[d].there
       THEN /\ code' = [code EXCEPT ![d].active = s.active, ![d].max = s.max]
            /\ lowered' = (lowered \/ s.max < code[d].uses)
       ELSE UNCHANGED <<code, lowered>>
    /\ UNCHANGED <<influencer, signups, settings>>

RemoveCode(c, d) ==
    /\ code[d].there /\ Once(c, "codes")
    /\ code' = [code EXCEPT ![d] = NoCode(@.max)]
    /\ UNCHANGED <<influencer, signups, settings, lowered>>

\* Promoted again, an influencer does not get the old codes back.
PromoteUser(c, i) ==
    /\ influencer[i] # "active" /\ Once(c, "influencers")
    /\ influencer' = [influencer EXCEPT ![i] = "active"]
    /\ UNCHANGED <<code, signups, settings, lowered>>

\* With all codes, in one transaction.
DemoteUser(c, i) ==
    /\ influencer[i] # "none" /\ Once(c, "influencers")
    /\ influencer' = [influencer EXCEPT ![i] = "inactive"]
    /\ code' = [d \in Codes |-> IF Owner[d] = i /\ code[d].there THEN [code[d] EXCEPT !.active = FALSE] ELSE code[d]]
    /\ UNCHANGED <<signups, settings, lowered>>

\* With isActive an admin closes or opens an influencer, and leaves the codes alone.
UpdateInfluencer(c, i, status) ==
    /\ influencer[i] # "none" /\ Once(c, "edit_influencer")
    /\ influencer' = [influencer EXCEPT ![i] = status]
    /\ UNCHANGED <<code, signups, settings, lowered>>

-----------------------------------------------------------------------------
(* A new account and its code.  The same handler goes on with the reward   *)
(* (nobody waits for it); a deposit's webhook looks for a reward as well.  *)

ApplySignupCode(c, n) ==
    LET k == SignsUpWith[n] IN
    /\ n \notin signedUp /\ Ready(c) /\ "sign_up" \in scenario
    /\ signedUp' = signedUp \cup {n}
    /\ IF k \in Campaigns
       THEN IF campaign[k].there
            THEN Begin(c, "sign_up", "look_at_campaign", n, 0)
            ELSE Once(c, "sign_up")
       ELSE IF k # n THEN Begin(c, "sign_up", "link", n, 0) ELSE Once(c, "sign_up")
    /\ UNCHANGED <<discounts, referral, campaign, bonus, reward, pocket, settings, lowered>>

\* The transaction's reads, plain ones.
LookAtCampaign(c) ==
    LET n == calls[c].on  k == SignsUpWith[n] IN
    /\ At(c, "look_at_campaign")
    /\ IF /\ campaign[k].there /\ campaign[k].active /\ campaign[k].uses < campaign[k].max
          /\ bonus[n] = "none" /\ n \in Payees
       THEN Goto(c, "credit_bonus", 0) ELSE Return(c)
    /\ UNCHANGED promotions

\* Its writes: the credit, the usage and the count.  They fail if the campaign is gone.
CreditBonus(c) ==
    LET n == calls[c].on  k == SignsUpWith[n] IN
    /\ At(c, "credit_bonus") /\ Return(c)
    /\ IF campaign[k].there
       THEN /\ reward' = reward \cup {<<"SIGNUP-CODE", n>>}
            /\ pocket' = [pocket EXCEPT ![n] = @ + RewardValue]
            /\ bonus' = [bonus EXCEPT ![n] = k]
            /\ campaign' = [campaign EXCEPT ![k].uses = @ + 1]
       ELSE UNCHANGED <<reward, pocket, bonus, campaign>>
    /\ UNCHANGED <<discounts, referral, signedUp, settings, lowered>>

LinkReferral(c) ==
    /\ At(c, "link") /\ Goto(c, "reward", "signup")
    /\ referral' = [referral EXCEPT ![calls[c].on] = "PENDING"]
    /\ UNCHANGED <<discounts, campaign, bonus, reward, pocket, signedUp, settings, lowered>>

\* A webhook that has credited a deposit; enough says whether it reaches the minimum.
DepositOf(c, n, enough) ==
    /\ n \in signedUp /\ Begin(c, "deposit", "reward", n, IF enough THEN "deposit" ELSE "small_deposit")
    /\ UNCHANGED promotions

ProcessReward(c) ==
    /\ At(c, "reward")
    /\ IF referral[calls[c].on] = "PENDING" THEN Goto(c, "read_settings", calls[c].saw) ELSE Return(c)
    /\ UNCHANGED promotions

\* getSettings answers from the copy; the copy is renewed later, by a write that nobody awaits
\* (here at once).
Applies(p, occasion) ==
    /\ p.active
    /\ CASE occasion = "signup" -> p.type = "FIXED"
         [] OTHER -> occasion = "deposit"

ReadSettings(c) ==
    LET p == IF shownPolicy = NoCopy THEN policy ELSE shownPolicy IN
    /\ At(c, "read_settings")
    /\ shownPolicy' = p
    /\ IF Applies(p, calls[c].saw) THEN Goto(c, "look_again", 0) ELSE Return(c)
    /\ UNCHANGED <<discounts, signups, policy, lowered>>

\* "Re-check status inside transaction": a plain read.
LookAgain(c) ==
    LET n == calls[c].on IN
    /\ At(c, "look_again")
    /\ IF referral[n] # "PENDING" THEN Return(c)
       ELSE Goto(c, IF SignsUpWith[n] \in Payees THEN "credit_reward" ELSE "mark_failed", 0)
    /\ UNCHANGED promotions

\* Faulty variant of CreditReward: the transaction has no unique reference.
CreditAnyway(c) ==
    LET n == calls[c].on IN
    /\ At(c, "credit_reward") /\ Return(c)
    /\ reward' = reward \cup {<<"REFERRAL", n>>}
    /\ pocket' = [pocket EXCEPT ![SignsUpWith[n]] = @ + RewardValue]
    /\ referral' = [referral EXCEPT ![n] = "REWARDED"]
    /\ UNCHANGED <<discounts, campaign, bonus, signedUp, settings, lowered>>

\* The reference is unique: of two that have both looked again, the later one undoes its writes.
CreditReward(c) ==
    LET n == calls[c].on IN
    /\ At(c, "credit_reward")
    /\ IF <<"REFERRAL", n>> \in reward
       THEN Goto(c, "mark_failed", 0) /\ UNCHANGED <<reward, pocket, referral>>
       ELSE /\ Return(c)
            /\ reward' = reward \cup {<<"REFERRAL", n>>}
            /\ pocket' = [pocket EXCEPT ![SignsUpWith[n]] = @ + RewardValue]
            /\ referral' = [referral EXCEPT ![n] = "REWARDED"]
    /\ UNCHANGED <<discounts, campaign, bonus, signedUp, settings, lowered>>

\* By id, whatever the status is by now: over REWARDED too.
MarkFailed(c) ==
    /\ At(c, "mark_failed") /\ Return(c)
    /\ referral' = [referral EXCEPT ![calls[c].on] = "FAILED"]
    /\ UNCHANGED <<discounts, campaign, bonus, reward, pocket, signedUp, settings, lowered>>

-----------------------------------------------------------------------------
(* The admins' settings and campaigns.                                     *)

\* The copy is dropped by a call that nobody awaits (here at once).
UpsertSettings(c, p) ==
    /\ Once(c, "settings") /\ policy' = p /\ shownPolicy' = NoCopy
    /\ UNCHANGED <<discounts, signups, lowered>>

SettingsExpire ==
    /\ shownPolicy # NoCopy /\ shownPolicy' = NoCopy
    /\ UNCHANGED <<handlers, discounts, signups, policy, lowered>>

CreateCampaign(c, k) ==
    /\ ~campaign[k].there /\ Once(c, "campaigns")
    /\ campaign' = [campaign EXCEPT ![k] = [NoCode(@.max) EXCEPT !.there = TRUE, !.active = TRUE]]
    /\ UNCHANGED <<discounts, referral, bonus, reward, pocket, signedUp, settings, lowered>>

UpdateCampaign(c, k, active, max) ==
    /\ campaign[k].there /\ Begin(c, "campaigns", "update_campaign", k, [active |-> active, max |-> max])
    /\ UNCHANGED promotions

WriteCampaign(c) ==
    LET k == calls[c].on  s == calls[c].saw IN
    /\ At(c, "update_campaign") /\ Return(c)
    /\ IF campaign[k].there
       THEN /\ campaign' = [campaign EXCEPT ![k].active = s.active, ![k].max = s.max]
            /\ lowered' = (lowered \/ s.max < campaign[k].uses)
       ELSE UNCHANGED <<campaign, lowered>>
    /\ UNCHANGED <<discounts, referral, bonus, reward, pocket, signedUp, settings>>

\* One that was never used is deleted, another only deactivated.
DeleteCampaign(c, k) ==
    /\ campaign[k].there
    /\ IF campaign[k].uses = 0 THEN Begin(c, "campaigns", "delete_campaign", k, 0)
       ELSE campaign[k].active /\ Begin(c, "campaigns", "update_campaign", k, [active |-> FALSE, max |-> campaign[k].max])
    /\ UNCHANGED promotions

\* The usages go with it.
WriteCampaignDeletion(c) ==
    LET k == calls[c].on IN
    /\ At(c, "delete_campaign") /\ Return(c)
    /\ campaign' = [campaign EXCEPT ![k] = NoCode(@.max)]
    /\ bonus' = [n \in Newcomers |-> IF bonus[n] = k THEN "none" ELSE bonus[n]]
    /\ UNCHANGED <<discounts, referral, reward, pocket, signedUp, settings, lowered>>

PromotionsStep(c) ==
    \/ WriteCode(c) \/ WriteCodeUpdate(c)
    \/ LookAtCampaign(c) \/ CreditBonus(c) \/ LinkReferral(c)
    \/ ProcessReward(c) \/ ReadSettings(c) \/ LookAgain(c) \/ CreditReward(c) \/ MarkFailed(c)
    \/ WriteCampaign(c) \/ WriteCampaignDeletion(c)

DiscountRequest(c) ==
    \E d \in Codes : \/ RemoveCode(c, d)
                     \/ \E active \in BOOLEAN, max \in Limits : UpdateCode(c, d, active, max)

InfluencerCodeRequest(c) == \E d \in Codes : CreateCode(c, d) \/ RemoveCode(c, d)

PromotionRequest(c) == \E i \in Influencers : PromoteUser(c, i) \/ DemoteUser(c, i)

InfluencerRequest(c) ==
    \E i \in Influencers : \/ DemoteUser(c, i)
                           \/ \E status \in {"active", "inactive"} : UpdateInfluencer(c, i, status)

CampaignRequest(c) ==
    \E k \in Campaigns : \/ CreateCampaign(c, k) \/ DeleteCampaign(c, k)
                         \/ \E active \in BOOLEAN, max \in Limits : UpdateCampaign(c, k, active, max)

ReferralRequest(c) == CampaignRequest(c) \/ \E p \in Policies : UpsertSettings(c, p)

PromotionsRequest(c) ==
    \/ DiscountRequest(c) \/ InfluencerCodeRequest(c) \/ PromotionRequest(c)
    \/ InfluencerRequest(c) \/ ReferralRequest(c)
    \/ \E n \in Newcomers : ApplySignupCode(c, n) \/ \E enough \in BOOLEAN : DepositOf(c, n, enough)

-----------------------------------------------------------------------------
(* Properties                                                              *)

Credited(u) == {r \in reward : u = IF r[1] = "REFERRAL" THEN SignsUpWith[r[2]] ELSE r[2]}

\* A referral is paid once, however the sign-up's own reward and the deposits' webhooks overlap:
\* a wallet has been given what its references say.
RewardsAddUp == \A u \in Payees : pocket[u] = RewardValue * Cardinality(Credited(u))

\* A referral says REWARDED if and only if its reward was paid, one handler after the other.
\* (When two overlap, the loser writes FAILED over REWARDED.)
RewardedWasPaid ==
    overlapped \/ \A n \in Newcomers : (referral[n] = "REWARDED") = (<<"REFERRAL", n>> \in reward)

\* A limit on uses holds, for discount codes and campaigns, unless two uses overlap or an admin
\* sets it below what was used.
LimitsHold ==
    overlapped \/ lowered \/
    /\ \A d \in Codes : code[d].uses <= code[d].max
    /\ \A k \in Campaigns : campaign[k].uses <= campaign[k].max

\* Who got a bonus keeps the record of it: a campaign that was used is not deleted, unless it is
\* used while it is.
BonusOnRecord ==
    overlapped \/ \A n \in Newcomers : <<"SIGNUP-CODE", n>> \in reward => bonus[n] # "none"

\* An influencer who was demoted has no code that works, unless an admin made or revived one,
\* or closed the influencer by an edit.
DemotedHasNoCode ==
    scenario \cap {"codes", "edit_influencer"} # {} \/
    \A d \in Codes : code[d].active /\ Owner[d] \in Influencers => influencer[Owner[d]] # "inactive"

\* Rewards and bonuses are paid once and on record, within limits, and end with the influencer.
PromotionsKept ==
    PromotionsTypeOK /\ RewardsAddUp /\ RewardedWasPaid /\ LimitsHold /\ BonusOnRecord /\ DemotedHasNoCode
===============================================================================
