------------------------------- MODULE Accounts -------------------------------
(***************************************************************************)
(* User accounts and their sessions: registration, sign-in with a password *)
(* or with Google, the code that verifies an email, the one session an     *)
(* account has at a time, and the refresh tokens that prolong it.          *)
(*                                                                         *)
(* Emails and Google ids are unique in the database; a user here stands    *)
(* for one email.  Secrets (sessions, codes, tokens) are numbers that have *)
(* not been used before.                                                   *)
(***************************************************************************)
EXTENDS Handlers

CONSTANTS
    Users,          \* emails that may have an account
    Known,          \* those that have one at the start
    AdminRoles      \* ids of admin roles

\* The seeds make one admin role; "none" is nobody and no role.
ASSUME AccountsAssumption == AdminRoles # {} /\ "none" \notin AdminRoles \cup Users

VARIABLES
    account,    \* account[u]: the user row
    tokens,     \* the refresh tokens in the database
    profile,    \* profile[u]: the copy of the row in Redis that requests are judged by
    secrets,    \* the last secret drawn
    issued,     \* history: every refresh token ever issued
    mailed      \* history: codes sent by mail, with the user they were sent to

accounts == <<account, tokens, profile, secrets, issued, mailed>>

AccountRows == [role : {"none", "USER", "ADMIN", "STAFF", "BEAUTICIAN"}, active : BOOLEAN,
                verified : BOOLEAN, password : BOOLEAN, google : BOOLEAN, session : Nat,
                otp : Nat, adminRole : {"none"} \cup AdminRoles]
TokenRows == [id : Nat, from : Nat, user : Users, session : Nat]
Profiles  == [role : {"USER", "ADMIN", "STAFF", "BEAUTICIAN"}, active : BOOLEAN, session : Nat,
              adminRole : {"none"} \cup AdminRoles]

NoAccount == [role |-> "none", active |-> FALSE, verified |-> FALSE, password |-> FALSE,
              google |-> FALSE, session |-> 0, otp |-> 0, adminRole |-> "none"]
NoProfile == [role |-> "none"]

\* The one admin role at the start, which those known hold.
FirstRole == CHOOSE r \in AdminRoles : TRUE

AccountsTypeOK ==
    /\ account \in [Users -> AccountRows]
    /\ tokens \subseteq TokenRows /\ issued \subseteq TokenRows
    /\ \A u \in Users : profile[u] \in Profiles \cup {NoProfile}
    /\ secrets \in Nat /\ mailed \subseteq (Nat \X Users)

AccountsInit ==
    /\ account = [u \in Users |-> IF u \in Known
            THEN [NoAccount EXCEPT !.role = "ADMIN", !.active = TRUE, !.verified = TRUE, !.password = TRUE,
                                   !.adminRole = FirstRole]
            ELSE NoAccount]
    /\ tokens = {} /\ issued = {} /\ mailed = {} /\ secrets = 0
    /\ profile = [u \in Users |-> NoProfile]

HasAccount(u) == account[u].role # "none"
New == secrets + 1

-----------------------------------------------------------------------------
(* A new session: the session id is replaced and all refresh tokens go, in *)
(* one transaction; the cached profile is dropped; a token is issued.      *)

Rotate(c) ==
    LET u == calls[c].on IN
    /\ At(c, "rotate")
    /\ IF HasAccount(u)
       THEN /\ account' = [account EXCEPT ![u].session = New]
            /\ tokens' = {t \in tokens : t.user # u}
            /\ secrets' = New
            /\ Goto(c, "forget", [session |-> New, from |-> 0])
       ELSE Return(c) /\ UNCHANGED <<account, tokens, secrets>>
    /\ UNCHANGED <<profile, issued, mailed>>

Forget(c) ==
    /\ At(c, "forget") /\ Goto(c, "issue", calls[c].saw)
    /\ profile' = [profile EXCEPT ![calls[c].on] = NoProfile]
    /\ UNCHANGED <<account, tokens, secrets, issued, mailed>>

Issue(c) ==
    LET token == [id |-> New, from |-> calls[c].saw.from, user |-> calls[c].on,
                  session |-> calls[c].saw.session] IN
    /\ At(c, "issue") /\ Return(c)
    /\ tokens' = tokens \cup {token} /\ issued' = issued \cup {token}
    /\ secrets' = New
    /\ UNCHANGED <<account, profile, mailed>>

-----------------------------------------------------------------------------
(* Registration.                                                           *)

Register(c, u, role) ==
    /\ role \in {"USER", "BEAUTICIAN"} /\ ~HasAccount(u)
    /\ Begin(c, "register", "register", u, role)
    /\ UNCHANGED accounts

\* The email is unique: of two that register with it, the second fails.
CreateAccount(c) ==
    LET u == calls[c].on IN
    /\ At(c, "register")
    /\ IF HasAccount(u)
       THEN Return(c) /\ UNCHANGED <<account, secrets>>
       ELSE /\ account' = [account EXCEPT ![u] =
                    [NoAccount EXCEPT !.role = calls[c].saw, !.active = TRUE, !.password = TRUE, !.otp = New]]
            /\ secrets' = New
            /\ Goto(c, "mail_code", [code |-> New, then |-> "rotate"])
    /\ UNCHANGED <<tokens, profile, issued, mailed>>

\* The code that was written is sent; a registration then goes on to sign in.
MailCode(c) ==
    /\ At(c, "mail_code")
    /\ mailed' = mailed \cup {<<calls[c].saw.code, calls[c].on>>}
    /\ IF calls[c].saw.then = "rotate" THEN Goto(c, "rotate", 0) ELSE Return(c)
    /\ UNCHANGED <<account, tokens, profile, secrets, issued>>

ResendOtp(c, u) ==
    /\ HasAccount(u) /\ ~account[u].verified
    /\ Begin(c, "otp", "resend", u, 0)
    /\ UNCHANGED accounts

WriteOtp(c) ==
    LET u == calls[c].on IN
    /\ At(c, "resend")
    /\ account' = [account EXCEPT ![u].otp = New]
    /\ secrets' = New
    /\ Goto(c, "mail_code", [code |-> New, then |-> "return"])
    /\ UNCHANGED <<tokens, profile, issued, mailed>>

\* The code expires ten minutes after it was written; the row keeps it.
VerifyOtp(c, u, code) ==
    /\ HasAccount(u) /\ ~account[u].verified /\ account[u].otp = code /\ code # 0
    /\ <<code, u>> \in mailed
    /\ Begin(c, "otp", "verified", u, code)
    /\ UNCHANGED accounts

WriteVerified(c) ==
    LET u == calls[c].on IN
    /\ At(c, "verified")
    /\ account' = [account EXCEPT ![u].verified = TRUE, ![u].otp = 0]
    /\ Goto(c, "rotate", 0)
    /\ UNCHANGED <<tokens, profile, secrets, issued, mailed>>

-----------------------------------------------------------------------------
(* Sign-in.                                                                *)

Login(c, u) ==
    /\ HasAccount(u) /\ account[u].active /\ account[u].verified /\ account[u].password
    /\ Begin(c, "sign_in", "rotate", u, 0)
    /\ UNCHANGED accounts

\* By Google id; else by email, which links the account; else with a new account.
GoogleSignIn(c, u) ==
    /\ Begin(c, "google", IF account[u].google THEN "signed_in" ELSE "link", u, account[u])
    /\ UNCHANGED accounts

LinkGoogle(c) ==
    LET u == calls[c].on  row == calls[c].saw IN
    /\ At(c, "link")
    /\ IF row.role = "none"
       THEN IF HasAccount(u)
            THEN Return(c) /\ UNCHANGED account
            ELSE /\ account' = [account EXCEPT ![u] = [NoAccount EXCEPT !.role = "USER", !.active = TRUE,
                                                                       !.verified = TRUE, !.google = TRUE]]
                 /\ Goto(c, "rotate", 0)
       ELSE IF HasAccount(u)
            THEN /\ account' = [account EXCEPT ![u].google = TRUE]
                 /\ Goto(c, "signed_in", account[u])
            ELSE Return(c) /\ UNCHANGED account
    /\ UNCHANGED <<tokens, profile, secrets, issued, mailed>>

CheckStatus(c) ==
    /\ At(c, "signed_in")
    /\ IF calls[c].saw.active THEN Goto(c, "rotate", 0) ELSE Return(c)
    /\ UNCHANGED accounts

RefreshToken(c, t) ==
    /\ t \in tokens /\ account[t.user].session = t.session /\ account[t.user].active
    /\ Begin(c, "refresh", "refresh", t.user, t)
    /\ UNCHANGED accounts

\* Faulty variant of SpendToken: a token that is already gone does not stop the refresh.
SpendTokenAnyway(c) ==
    LET t == calls[c].saw IN
    /\ At(c, "refresh")
    /\ tokens' = tokens \ {t}
    /\ Goto(c, "issue", [session |-> t.session, from |-> t.id])
    /\ UNCHANGED <<account, profile, secrets, issued, mailed>>

\* The token is deleted by id, which fails when it is gone.
SpendToken(c) ==
    LET t == calls[c].saw IN
    /\ At(c, "refresh")
    /\ IF t \in tokens
       THEN /\ tokens' = tokens \ {t}
            /\ Goto(c, "issue", [session |-> t.session, from |-> t.id])
       ELSE Return(c) /\ UNCHANGED tokens
    /\ UNCHANGED <<account, profile, secrets, issued, mailed>>

-----------------------------------------------------------------------------
(* Administration of accounts.                                             *)

UpdateUserStatus(c, u, active) ==
    /\ HasAccount(u) /\ account[u].active # active
    /\ Begin(c, "status", "drop_profile", u, 0)
    /\ account' = [account EXCEPT ![u].active = active]
    /\ UNCHANGED <<tokens, profile, secrets, issued, mailed>>

\* Faulty variant of DropProfile: the cached profile stays.
KeepProfile(c) ==
    /\ At(c, "drop_profile") /\ Return(c)
    /\ UNCHANGED accounts

DropProfile(c) ==
    /\ At(c, "drop_profile") /\ Return(c)
    /\ profile' = [profile EXCEPT ![calls[c].on] = NoProfile]
    /\ UNCHANGED <<account, tokens, secrets, issued, mailed>>

DeleteAdminUser(c, u) ==
    /\ account[u].role = "ADMIN"
    /\ Begin(c, "delete_user", "drop_profile", u, 0)
    /\ account' = [account EXCEPT ![u] = NoAccount]
    /\ tokens' = {t \in tokens : t.user # u}
    /\ UNCHANGED <<profile, secrets, issued, mailed>>

\* The profile expires after five minutes.
ProfileExpires(u) ==
    /\ "request" \in scenario /\ profile[u] # NoProfile
    /\ profile' = [profile EXCEPT ![u] = NoProfile]
    /\ UNCHANGED <<handlers, account, tokens, secrets, issued, mailed>>

AccountsStep(c) ==
    \/ Rotate(c) \/ Forget(c) \/ Issue(c) \/ CreateAccount(c) \/ MailCode(c) \/ WriteOtp(c)
    \/ WriteVerified(c) \/ LinkGoogle(c) \/ CheckStatus(c) \/ SpendToken(c) \/ DropProfile(c)

SignUpRequest(c) == \E u \in Users, role \in {"USER", "BEAUTICIAN"} : Register(c, u, role)

OtpRequest(c) == \E u \in Users : ResendOtp(c, u) \/ \E code \in 1..secrets : VerifyOtp(c, u, code)

SignInRequest(c) ==
    \/ \E u \in Users : Login(c, u) \/ GoogleSignIn(c, u)
    \/ \E t \in tokens : RefreshToken(c, t)

AccountsRequest(c) ==
    \/ SignUpRequest(c) \/ OtpRequest(c) \/ SignInRequest(c)
    \/ \E u \in Users : DeleteAdminUser(c, u) \/ \E active \in BOOLEAN : UpdateUserStatus(c, u, active)

-----------------------------------------------------------------------------

\* A refresh token is good for one successor, however many requests present it at once
\* and wherever they die: a session never has two lines of tokens.
TokensDontFork ==
    \A s, t \in issued : s.from = t.from /\ s.from # 0 => s = t

\* A refresh token that would still be accepted was issued for the session that the
\* account has now: whoever signs in somewhere else ends the old session for good.
TokensAreOfTheSession ==
    \A t \in tokens : overlapped \/ t.session = account[t.user].session

\* Refresh tokens do not fork (TokenService) and belong to the account's one session.
SessionsKept == AccountsTypeOK /\ TokensDontFork /\ TokensAreOfTheSession
===============================================================================
