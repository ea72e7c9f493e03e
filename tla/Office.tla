-------------------------------- MODULE Office --------------------------------
(***************************************************************************)
(* Accounts, the register of the staff, and the applications: who may sign *)
(* in, what a request may do, who works where, who is hired, and what      *)
(* those on board have submitted, read and been asked to do; which         *)
(* beauticians may be offered jobs; and the letters that customers get.    *)
(***************************************************************************)
EXTENDS Onboarding, Verification, Campaigns

vars == <<handlers, accounts, roles, credentials, register, hiring, onboarding, verification, campaigns>>

Init == HandlersInit /\ AccountsInit /\ RolesInit /\ CredentialsInit /\ StaffInit /\ HiringInit /\ OnboardingInit /\ VerificationInit /\ CampaignsInit

AccountsNext(c) == ((Busy(c) /\ AccountsStep(c)) \/ (Ready(c) /\ AccountsRequest(c))) /\ UNCHANGED <<roles, credentials, register, hiring, onboarding, verification, campaigns>>
RolesNext(c) == ((Busy(c) /\ RolesStep(c)) \/ (Ready(c) /\ RolesRequest(c))) /\ UNCHANGED <<credentials, register, hiring, onboarding, verification, campaigns>>
CredentialsNext(c) == ((Busy(c) /\ CredentialsStep(c)) \/ (Ready(c) /\ CredentialsRequest(c))) /\ UNCHANGED <<register, hiring, onboarding, verification, campaigns>>
StaffNext(c) == ((Busy(c) /\ StaffStep(c)) \/ (Ready(c) /\ StaffRequest(c))) /\ UNCHANGED <<hiring, onboarding, verification, campaigns>>
HiringNext(c) == ((Busy(c) /\ HiringStep(c)) \/ (Ready(c) /\ HiringRequest(c))) /\ UNCHANGED <<onboarding, verification, campaigns>>
OnboardingNext(c) == ((Busy(c) /\ OnboardingStep(c)) \/ (Ready(c) /\ OnboardingRequest(c))) /\ UNCHANGED <<verification, campaigns>>
VerificationNext(c) ==
    /\ (Busy(c) /\ VerificationStep(c)) \/ (Ready(c) /\ VerificationRequest(c))
    /\ UNCHANGED <<accounts, roles, credentials, register, hiring, onboarding, campaigns>>
CampaignsNext(c) ==
    /\ (Busy(c) /\ CampaignsStep(c)) \/ (Ready(c) /\ CampaignsRequest(c))
    /\ UNCHANGED <<accounts, roles, credentials, register, hiring, onboarding, verification>>
Dies(c) == Crash(c) /\ UNCHANGED <<accounts, roles, credentials, register, hiring, onboarding, verification, campaigns>>

Time ==
    \/ \E u \in Users : ProfileExpires(u) /\ UNCHANGED <<roles, credentials, register, hiring, onboarding, verification, campaigns>>
    \/ \E r \in AdminRoles : PermissionsExpire(r) /\ UNCHANGED <<credentials, register, hiring, onboarding, verification, campaigns>>
    \/ \E u \in Users : LockExpires(u) /\ UNCHANGED <<register, hiring, onboarding, verification, campaigns>>
    \/ \E s \in Members : CopyExpires(s) /\ UNCHANGED <<hiring, onboarding, verification, campaigns>>
    \/ VerificationTime /\ UNCHANGED <<accounts, roles, credentials, register, hiring, onboarding, campaigns>>
    \/ CampaignsTime /\ UNCHANGED <<accounts, roles, credentials, register, hiring, onboarding, verification>>
    \/ \E n \in Nins : CooldownEnds(n) /\ UNCHANGED <<onboarding, verification, campaigns>>

Next ==
    \/ \E c \in Callers : AccountsNext(c) \/ RolesNext(c) \/ CredentialsNext(c) \/ StaffNext(c) \/ HiringNext(c) \/ OnboardingNext(c)
                         \/ VerificationNext(c) \/ CampaignsNext(c) \/ Dies(c)
    \/ Time

Spec == Init /\ [][Next]_vars
===============================================================================
