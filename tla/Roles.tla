-------------------------------- MODULE Roles ---------------------------------
(***************************************************************************)
(* Admin roles, the permissions they grant, who holds them, and how a      *)
(* request is judged: by the cached profile of the user and the cached     *)
(* permissions of the roles, either of which is loaded when it is not      *)
(* there, and cached then.                                                 *)
(***************************************************************************)
EXTENDS Accounts

CONSTANT Permissions

VARIABLES
    adminRole,      \* adminRole[r]: the role and what it grants
    second,         \* second[u]: the roles user u holds besides the one of its account
    granted,        \* granted[r]: the cached permissions of role r
    audit,          \* audit[u]: the role that the last entry of the audit log gives user u
    misjudged,      \* history: a request was judged by other rights than the user had then
    stripped        \* history: users who lost a role because it was deleted

roles == <<adminRole, second, granted, audit, misjudged, stripped>>

RoleRows == [there : BOOLEAN, active : BOOLEAN, grants : SUBSET Permissions]
NotCached == {"not_cached"}

RolesTypeOK ==
    /\ adminRole \in [AdminRoles -> RoleRows]
    /\ second \in [Users -> SUBSET AdminRoles]
    /\ granted \in [AdminRoles -> (SUBSET Permissions) \cup {NotCached}]
    /\ audit \in [Users -> {"none"} \cup AdminRoles]
    /\ misjudged \in BOOLEAN /\ stripped \subseteq Users

RolesInit ==
    /\ adminRole = [r \in AdminRoles |-> [there |-> r = FirstRole, active |-> r = FirstRole,
                                          grants |-> IF r = FirstRole THEN Permissions ELSE {}]]
    /\ second = [u \in Users |-> {}]
    /\ granted = [r \in AdminRoles |-> NotCached]
    /\ audit = [u \in Users |-> account[u].adminRole] /\ misjudged = FALSE /\ stripped = {}

Usable(r) == adminRole[r].there /\ adminRole[r].active
Grants(r) == IF Usable(r) THEN adminRole[r].grants ELSE {}
Holders(r) == {u \in Users : account[u].adminRole = r \/ r \in second[u]}

-----------------------------------------------------------------------------
(* Roles.  What changes a role's permissions drops their cached copy next, *)
(* and then writes the audit log.                                          *)

CreateRole(c, r) ==
    /\ ~adminRole[r].there /\ Once(c, "roles")
    /\ adminRole' = [adminRole EXCEPT ![r] = [there |-> TRUE, active |-> TRUE, grants |-> {}]]
    /\ UNCHANGED <<accounts, second, granted, audit, misjudged, stripped>>

SetActive(c, r, active) ==
    /\ adminRole[r].there /\ adminRole[r].active # active
    /\ Begin(c, "roles", "drop_permissions", r, 0)
    /\ adminRole' = [adminRole EXCEPT ![r].active = active]
    /\ UNCHANGED <<accounts, second, granted, audit, misjudged, stripped>>

SetPermissions(c, r, ps) ==
    /\ adminRole[r].there /\ adminRole[r].grants # ps
    /\ Begin(c, "roles", "drop_permissions", r, 0)
    /\ adminRole' = [adminRole EXCEPT ![r].grants = ps]
    /\ UNCHANGED <<accounts, second, granted, audit, misjudged, stripped>>

DropPermissions(c) ==
    /\ At(c, "drop_permissions") /\ Return(c)
    /\ granted' = [granted EXCEPT ![calls[c].on] = NotCached]
    /\ UNCHANGED <<accounts, adminRole, second, audit, misjudged, stripped>>

RemoveRole(c, r) ==
    /\ adminRole[r].there /\ Holders(r) = {}
    /\ Begin(c, "roles", "remove_role", r, 0)
    /\ UNCHANGED <<accounts, roles>>

\* The database takes the role off whoever holds it by then.
DeleteRole(c) ==
    LET r == calls[c].on IN
    /\ At(c, "remove_role") /\ Goto(c, "drop_permissions", 0)
    /\ adminRole' = [adminRole EXCEPT ![r] = [there |-> FALSE, active |-> FALSE, grants |-> {}]]
    /\ account' = [u \in Users |-> IF account[u].adminRole = r
                                   THEN [account[u] EXCEPT !.adminRole = "none"] ELSE account[u]]
    /\ second' = [u \in Users |-> second[u] \ {r}]
    /\ stripped' = stripped \cup Holders(r)
    /\ UNCHANGED <<tokens, profile, secrets, issued, mailed, granted, audit, misjudged>>

-----------------------------------------------------------------------------
(* Who holds a role.                                                       *)

CreateAdminUser(c, u, r) ==
    /\ Usable(r) /\ ~HasAccount(u)
    /\ Begin(c, "admins", "create_admin", u, r)
    /\ UNCHANGED <<accounts, roles>>

\* The new account has an id of its own: no entry of the audit log is about it yet.
InsertAdmin(c) ==
    LET u == calls[c].on IN
    /\ At(c, "create_admin") /\ Return(c)
    /\ IF HasAccount(u) \/ ~adminRole[calls[c].saw].there
       THEN UNCHANGED <<account, audit>>
       ELSE /\ account' = [account EXCEPT ![u] = [NoAccount EXCEPT !.role = "ADMIN", !.active = TRUE, !.verified = TRUE,
                                                                   !.password = TRUE, !.adminRole = calls[c].saw]]
            /\ audit' = [audit EXCEPT ![u] = "none"]
    /\ UNCHANGED <<tokens, profile, secrets, issued, mailed, adminRole, second, granted, misjudged, stripped>>

\* The account's own role: by user administration, or for a member of staff, where the
\* cached profile is not dropped and the account's kind follows the portal login.
AssignAdminRole(c, u, r, by) ==
    /\ HasAccount(u) /\ Usable(r) /\ (by = "users" => account[u].role = "ADMIN")
    /\ Begin(c, IF by = "users" THEN "grants" ELSE "staff_role", "assign_role", u,
             [role |-> r, kind |-> IF by = "portal" THEN "ADMIN" ELSE IF by = "staff" THEN "STAFF" ELSE "same"])
    /\ UNCHANGED <<accounts, roles>>

WriteRole(c) ==
    LET u == calls[c].on  r == calls[c].saw.role  kind == calls[c].saw.kind IN
    /\ At(c, "assign_role")
    /\ IF HasAccount(u) /\ adminRole[r].there
       THEN /\ account' = [account EXCEPT ![u].adminRole = r, ![u].role = IF kind = "same" THEN @ ELSE kind]
            /\ Goto(c, IF kind = "same" THEN "drop_then_log" ELSE "log", r)
       ELSE Return(c) /\ UNCHANGED account
    /\ UNCHANGED <<tokens, profile, secrets, issued, mailed, roles>>

DropThenLog(c) ==
    /\ At(c, "drop_then_log") /\ Goto(c, "log", calls[c].saw)
    /\ profile' = [profile EXCEPT ![calls[c].on] = NoProfile]
    /\ UNCHANGED <<account, tokens, secrets, issued, mailed, roles>>

LogAssignment(c) ==
    /\ At(c, "log") /\ Return(c)
    /\ audit' = [audit EXCEPT ![calls[c].on] = calls[c].saw]
    /\ UNCHANGED <<accounts, adminRole, second, granted, misjudged, stripped>>

\* A member of staff loses the role and the portal login; nothing is logged.
RemoveStaffRole(c, u) ==
    /\ HasAccount(u) /\ account[u].adminRole # "none" /\ Once(c, "staff_role")
    /\ account' = [account EXCEPT ![u].adminRole = "none", ![u].role = "STAFF"]
    /\ UNCHANGED <<tokens, profile, secrets, issued, mailed, roles>>

\* A further role, by role administration or for a member of staff.
AddUserRole(c, u, r, op) ==
    /\ HasAccount(u) /\ adminRole[r].there /\ (op = "staff_role" => Usable(r))
    /\ account[u].adminRole # r /\ r \notin second[u]
    /\ Begin(c, op, "add_role", u, [role |-> r, drop |-> op = "grants"])
    /\ UNCHANGED <<accounts, roles>>

InsertUserRole(c) ==
    LET u == calls[c].on  r == calls[c].saw.role IN
    /\ At(c, "add_role")
    /\ IF HasAccount(u) /\ adminRole[r].there /\ r \notin second[u]
       THEN /\ second' = [second EXCEPT ![u] = @ \cup {r}]
            /\ IF calls[c].saw.drop THEN Goto(c, "drop_profile", 0) ELSE Return(c)
       ELSE Return(c) /\ UNCHANGED second
    /\ UNCHANGED <<accounts, adminRole, granted, audit, misjudged, stripped>>

RemoveUserRole(c, u, r) ==
    /\ r \in second[u]
    /\ Begin(c, "grants", "drop_profile", u, 0)
    /\ second' = [second EXCEPT ![u] = @ \ {r}]
    /\ UNCHANGED <<accounts, adminRole, granted, audit, misjudged, stripped>>

-----------------------------------------------------------------------------
(* A request of user u, with the access token of session s.                *)

ProfileOf(u) == [role |-> account[u].role, active |-> account[u].active,
                 session |-> account[u].session, adminRole |-> account[u].adminRole]

\* What a user may do: the permissions of the roles held, for the session of the moment.
Rights(u, s) ==
    IF HasAccount(u) /\ account[u].active /\ account[u].session = s /\ s # 0
    THEN UNION {Grants(r) : r \in {q \in AdminRoles : u \in Holders(q)}} ELSE {}

\* The request is over, with the rights ps.
Judged(c, u, s, ps) ==
    /\ Return(c)
    /\ misjudged' = (misjudged \/ ps # Rights(u, s))

Request(c, u, s) ==
    /\ HasAccount(u)
    /\ IF profile[u] # NoProfile
       THEN Begin(c, "request", "judge", u, [row |-> profile[u], session |-> s, load |-> {}])
       ELSE Begin(c, "request", "load_profile", u, [row |-> ProfileOf(u), session |-> s, load |-> {}])
    /\ UNCHANGED <<accounts, roles>>

CacheProfile(c) ==
    /\ At(c, "load_profile") /\ Goto(c, "judge", calls[c].saw)
    /\ profile' = [profile EXCEPT ![calls[c].on] = calls[c].saw.row]
    /\ UNCHANGED <<account, tokens, secrets, issued, mailed, roles>>

\* An account that is inactive, or whose session is another, is turned away; else the
\* permissions of each role are taken from the cache, or read from the database.
Judge(c) ==
    LET u == calls[c].on  row == calls[c].saw.row  s == calls[c].saw.session
        held == ({row.adminRole} \ {"none"}) \cup second[u]
        cached == {r \in held : granted[r] # NotCached} IN
    /\ At(c, "judge")
    /\ IF ~row.active \/ row.session = 0 \/ row.session # s
       THEN Judged(c, u, s, {})
       ELSE IF cached = held
       THEN Judged(c, u, s, UNION {granted[r] : r \in held})
       ELSE /\ Goto(c, "load_permissions",
                    [session |-> s, cached |-> UNION {granted[r] : r \in cached},
                     load |-> [r \in held \ cached |-> Grants(r)]])
            /\ UNCHANGED misjudged
    /\ UNCHANGED <<accounts, adminRole, second, granted, audit, stripped>>

CachePermissions(c) ==
    LET saw == calls[c].saw  loaded == DOMAIN saw.load IN
    /\ At(c, "load_permissions")
    /\ granted' = [r \in AdminRoles |-> IF r \in loaded THEN saw.load[r] ELSE granted[r]]
    /\ Judged(c, calls[c].on, saw.session, saw.cached \cup UNION {saw.load[r] : r \in loaded})
    /\ UNCHANGED <<accounts, adminRole, second, audit, stripped>>

PermissionsExpire(r) ==
    /\ "request" \in scenario /\ granted[r] # NotCached
    /\ granted' = [granted EXCEPT ![r] = NotCached]
    /\ UNCHANGED <<handlers, accounts, adminRole, second, audit, misjudged, stripped>>

RolesStep(c) ==
    \/ DropPermissions(c) \/ DeleteRole(c) \/ InsertAdmin(c) \/ WriteRole(c) \/ DropThenLog(c)
    \/ LogAssignment(c) \/ InsertUserRole(c) \/ CacheProfile(c) \/ Judge(c) \/ CachePermissions(c)

RoleRequest(c) ==
    \E r \in AdminRoles : \/ CreateRole(c, r) \/ RemoveRole(c, r)
                          \/ \E active \in BOOLEAN : SetActive(c, r, active)
                          \/ \E ps \in SUBSET Permissions : SetPermissions(c, r, ps)

GrantRequest(c) ==
    \E u \in Users, r \in AdminRoles :
        RemoveUserRole(c, u, r) \/ \E op \in {"grants", "staff_role"} : AddUserRole(c, u, r, op)

AdminUserRequest(c) ==
    \E u \in Users, r \in AdminRoles :
        CreateAdminUser(c, u, r) \/ \E by \in {"users", "staff", "portal"} : AssignAdminRole(c, u, r, by)

RolesRequest(c) ==
    \/ RoleRequest(c) \/ GrantRequest(c) \/ AdminUserRequest(c)
    \/ \E u \in Users : \/ RemoveStaffRole(c, u)
                        \/ "request" \in scenario /\ \E s \in 0..secrets : Request(c, u, s)

-----------------------------------------------------------------------------

\* Two caches stand between the database and a request, yet a request is judged by the
\* rights its user has at that moment: whatever takes a right away, ends a session or closes
\* an account also drops the copies.  Only a request that was served at the same time, or a
\* change that died before the drop, may put an old copy back.  (Roles given to staff are
\* not covered: there the profile is not dropped.)
JudgedByPresentRights ==
    misjudged => overlapped \/ crashes > 0 \/ "staff_role" \in scenario

\* A role is deleted only when nobody holds it, as a first or a second role, unless it is
\* given to someone while the deletion runs.
NobodyLosesRole == stripped # {} => overlapped

\* The audit log's last entry about a user names the role that the account has, once the
\* handlers are through: unless two assigned at the same time, one died between the change
\* and its entry, the role was deleted, or staff administration took it (which logs nothing).
AuditTellsRole ==
    Quiet /\ ~overlapped /\ crashes = 0 /\ "staff_role" \notin scenario =>
        \A u \in Users : audit[u] # "none" => account[u].adminRole \in {audit[u], "none"}

\* Requests are judged by rights that still hold, nobody loses a role unseen, and the audit log
\* of RolesService tells the role that an account has.
RightsKept == RolesTypeOK /\ JudgedByPresentRights /\ NobodyLosesRole /\ AuditTellsRole
===============================================================================
