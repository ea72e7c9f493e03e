-------------------------------- MODULE Staff ---------------------------------
(***************************************************************************)
(* The staff register: members, the branch and the code each has, their    *)
(* employment history, the branches, the copy of a member's record that    *)
(* Redis keeps for five minutes, birthday mails, and the login account     *)
(* that is linked to a member.                                             *)
(*                                                                         *)
(* What a handler looks up first may be the copy.  What writes drops the   *)
(* copy next, and reads the record back, which caches it again.            *)
(***************************************************************************)
EXTENDS Credentials

CONSTANTS
    Members,        \* ids of staff records
    OnBoard,        \* those that are there at the start, in the first of the branches
    Branches, FirstBranch,
    LastDay         \* bound: dates are 1..LastDay

VARIABLES
    staff,          \* staff[s]: the record
    copy,           \* copy[s]: the record in Redis
    branch,         \* branch[b]: the branch, and the last number it gave to a code
    history,        \* history[s]: rows of employment history; to = 0 in the open one
    codes,          \* the rows of the code history
    greeted,        \* greeted[s]: this year's birthday mail is marked as sent
    greetings,      \* greetings[s], history: birthday mails sent this year
    revived,        \* history: a member who had left was made active again
    reopened        \* history: a closed row of employment history was opened again

register == <<staff, copy, branch, history, codes, greeted, greetings, revived, reopened>>

Days == 1..LastDay
AtWork == {"ACTIVE", "SUSPENDED"}    \* ON_LEAVE is treated like SUSPENDED here
Left == {"EXITED", "ARCHIVED"}
Codes == Branches \X Nat
MemberRows  == [status : AtWork \cup Left, branch : Branches, code : Codes,
                email : Users \cup {"none"}, user : Users \cup {"none"}, pay : Nat]
BranchRows  == [there : BOOLEAN, active : BOOLEAN, sequence : Nat]
HistoryRows == [no : Nat, branch : Branches, from : Days, to : Days \cup {0}]
CodeRows    == [code : Codes, staff : Members, open : BOOLEAN]
NoMember    == [status |-> "none"]

StaffTypeOK ==
    /\ \A s \in Members : /\ staff[s] \in MemberRows \cup {NoMember}
                          /\ copy[s] \in MemberRows \cup {NoMember}
                          /\ history[s] \subseteq HistoryRows
    /\ branch \in [Branches -> BranchRows] /\ codes \subseteq CodeRows
    /\ greeted \in [Members -> BOOLEAN] /\ greetings \in [Members -> Nat]
    /\ revived \in BOOLEAN /\ reopened \in BOOLEAN

StaffInit ==
    /\ staff = [s \in Members |-> IF s \in OnBoard
            THEN [status |-> "ACTIVE", branch |-> FirstBranch, code |-> <<FirstBranch, 1>>,
                  email |-> "none", user |-> "none", pay |-> 0]
            ELSE NoMember]
    /\ copy = [s \in Members |-> NoMember] /\ codes = {}
    /\ branch = [b \in Branches |-> [there |-> TRUE, active |-> TRUE, sequence |-> IF b = FirstBranch THEN 1 ELSE 0]]
    /\ history = [s \in Members |-> IF s \in OnBoard
            THEN {[no |-> 1, branch |-> FirstBranch, from |-> 1, to |-> 0]} ELSE {}]
    /\ greeted = [s \in Members |-> FALSE] /\ greetings = [s \in Members |-> 0]
    /\ revived = FALSE /\ reopened = FALSE

Registered == {s \in Members : staff[s] # NoMember}
IsMember(s) == s \in Registered
EmailsBut(s) == {staff[t].email : t \in Registered \ {s}} \ {"none"}
UsersBut(s)  == {staff[t].user : t \in Registered \ {s}} \ {"none"}
Open(s) == {r \in history[s] : r.to = 0}
Last(rows) == {r \in rows : \A q \in rows : q.from <= r.from}
NextNo(s) == CHOOSE n \in 1..(Cardinality(history[s]) + 1) : \A r \in history[s] : r.no # n
Serves(b) == branch[b].there /\ branch[b].active
Elsewhere == <<accounts, roles, credentials>>

-----------------------------------------------------------------------------
(* The record, by way of its copy.                                         *)

Seen(s) == IF copy[s] # NoMember THEN copy[s] ELSE staff[s]

\* A handler of op that looks up member s first, and goes on with stage next.
Look(c, op, s, next, args) ==
    /\ IsMember(s)
    /\ IF copy[s] # NoMember
       THEN Begin(c, op, next, s, [row |-> copy[s], args |-> args])
       ELSE Begin(c, op, "fill", s, [row |-> staff[s], then |-> next, args |-> args])
    /\ UNCHANGED <<Elsewhere, register>>

Fill(c) ==
    LET saw == calls[c].saw IN
    /\ At(c, "fill")
    /\ copy' = [copy EXCEPT ![calls[c].on] = saw.row]
    /\ IF saw.then = "return" THEN Return(c)
       ELSE Goto(c, saw.then, [row |-> saw.row, args |-> saw.args])
    /\ UNCHANGED <<Elsewhere, staff, branch, history, codes, greeted, greetings, revived, reopened>>

FindOne(c, s) == Look(c, "look", s, "return", 0) /\ copy[s] = NoMember

\* After a write to member s: the copy is dropped, and the record read for the answer.
Wrote(c, s, then, args) ==
    Continue(c, [stage |-> "drop_copy", on |-> s, saw |-> [then |-> then, args |-> args]])

\* Faulty variant of DropCopy: the copy stays.
KeepCopy(c) ==
    /\ At(c, "drop_copy")
    /\ IF calls[c].saw.then \in {"done", "return"} THEN Return(c)
       ELSE Goto(c, calls[c].saw.then, [row |-> staff[calls[c].on], args |-> calls[c].saw.args])
    /\ UNCHANGED <<Elsewhere, register>>

DropCopy(c) ==
    LET s == calls[c].on IN
    /\ At(c, "drop_copy")
    /\ copy' = [copy EXCEPT ![s] = NoMember]
    /\ IF calls[c].saw.then = "done" THEN Return(c)
       ELSE Goto(c, "fill", [row |-> staff[s], then |-> calls[c].saw.then, args |-> calls[c].saw.args])
    /\ UNCHANGED <<Elsewhere, staff, branch, history, codes, greeted, greetings, revived, reopened>>

\* In a transaction: the open row of the employment history, the latest if there are more.
ReadOpen(c) ==
    LET saw == calls[c].saw IN
    /\ At(c, "open_row")
    /\ Goto(c, saw.args.write, [row |-> saw.row, args |-> saw.args, open |-> Last(Open(calls[c].on))])
    /\ UNCHANGED <<Elsewhere, register>>

\* History of s, with the rows read as open closed at day, and the new rows.
Moved(s, open, day, new) ==
    {IF \E o \in open : o.no = r.no THEN [r EXCEPT !.to = day] ELSE r : r \in history[s]} \cup new

-----------------------------------------------------------------------------
(* A new member.                                                           *)

CreateMember(c, b, e) ==
    /\ \E s \in Members : ~IsMember(s)
    /\ e \notin EmailsBut("nobody")
    /\ Serves(b)
    /\ Begin(c, "hire", "create_member", b, [email |-> e, user |-> "none", then |-> "return", args |-> 0])
    /\ UNCHANGED <<Elsewhere, register>>

\* One transaction: the branch's next number, the record, the first row of its history.  An
\* email or a user that another member has by then makes it fail, and so does a branch gone.
InsertMember(c, s, day) ==
    LET b == calls[c].on  saw == calls[c].saw  n == branch[b].sequence + 1
        free == branch[b].there /\ saw.email \notin EmailsBut(s) /\ saw.user \notin UsersBut(s) IN
    /\ At(c, "create_member") /\ ~IsMember(s)
    /\ IF free
       THEN /\ branch' = [branch EXCEPT ![b].sequence = n]
            /\ staff' = [staff EXCEPT ![s] = [status |-> "ACTIVE", branch |-> b, code |-> <<b, n>>,
                                              email |-> saw.email, user |-> saw.user, pay |-> 0]]
            /\ history' = [history EXCEPT ![s] = {[no |-> 1, branch |-> b, from |-> day, to |-> 0]}]
            /\ Wrote(c, s, saw.then, saw.args)
       ELSE Return(c) /\ UNCHANGED <<branch, staff, history>>
    /\ UNCHANGED <<Elsewhere, copy, codes, greeted, greetings, revived, reopened>>

-----------------------------------------------------------------------------
(* A member's details and status.                                          *)

\* Branch and status may be among the details; the histories are left alone then.
UpdateMember(c, s, b, status, e) ==
    /\ Serves(b) /\ e \notin EmailsBut(s)
    /\ Look(c, "details", s, "write_details", [branch |-> b, status |-> status, email |-> e])

WriteDetails(c) ==
    LET s == calls[c].on  new == calls[c].saw.args IN
    /\ At(c, "write_details")
    /\ IF new.email \in EmailsBut(s)
       THEN Return(c) /\ UNCHANGED <<staff, revived>>
       ELSE /\ staff' = [staff EXCEPT ![s].branch = new.branch, ![s].status = new.status, ![s].email = new.email]
            /\ revived' = (revived \/ (staff[s].status \in Left /\ new.status \in AtWork))
            /\ Wrote(c, s, "return", 0)
    /\ UNCHANGED <<Elsewhere, copy, branch, history, codes, greeted, greetings, reopened>>

\* Also archive(); one who leaves, leaves the position that was open.
UpdateMemberStatus(c, s, status, day) ==
    Look(c, "leave", s, IF status \in Left THEN "open_row" ELSE "write_status",
         [write |-> "write_status", status |-> status, day |-> day])

WriteStatus(c) ==
    LET s == calls[c].on  args == calls[c].saw.args IN
    /\ At(c, "write_status")
    /\ staff' = [staff EXCEPT ![s].status = args.status]
    /\ history' = IF args.status \in Left
                  THEN [history EXCEPT ![s] = Moved(s, calls[c].saw.open, args.day, {})] ELSE history
    /\ revived' = (revived \/ (staff[s].status \in Left /\ args.status \in AtWork))
    /\ Wrote(c, s, "return", 0)
    /\ UNCHANGED <<Elsewhere, copy, branch, codes, greeted, greetings, reopened>>

Restore(c, s) == Look(c, "leave", s, "restore", 0)

\* No position is opened again.
WriteRestored(c) ==
    LET s == calls[c].on IN
    /\ At(c, "restore") /\ Wrote(c, s, "return", 0)
    /\ staff' = [staff EXCEPT ![s].status = "ACTIVE"]
    /\ revived' = (revived \/ staff[s].status \in Left)
    /\ UNCHANGED <<Elsewhere, copy, branch, history, codes, greeted, greetings, reopened>>

-----------------------------------------------------------------------------
(* Transfers.                                                              *)

\* By the branch that the record looked up has; its code is the one that is closed.
TransferBranch(c, s, b, day) ==
    /\ IsMember(s) /\ Serves(b) /\ Seen(s).branch # b
    /\ Look(c, "transfer", s, "open_row", [write |-> "write_transfer", to |-> b, day |-> day])

\* The rows of the code history once the old code is closed.
CodesClosed(s, old) ==
    IF \E r \in codes : r.code = old
    THEN {IF r.code = old THEN [r EXCEPT !.open = FALSE] ELSE r : r \in codes}
    ELSE codes \cup {[code |-> old, staff |-> s, open |-> FALSE]}

\* Faulty variant of WriteTransfer: the position that was open is not closed.
WriteTransferOnly(c) ==
    LET s == calls[c].on  saw == calls[c].saw  b == saw.args.to  code == <<b, branch[b].sequence + 1>> IN
    /\ At(c, "write_transfer") /\ branch[b].there
    /\ history' = [history EXCEPT ![s] = @ \cup {[no |-> NextNo(s), branch |-> b, from |-> saw.args.day, to |-> 0]}]
    /\ codes' = CodesClosed(s, saw.row.code) \cup {[code |-> code, staff |-> s, open |-> TRUE]}
    /\ branch' = [branch EXCEPT ![b].sequence = @ + 1]
    /\ staff' = [staff EXCEPT ![s].branch = b, ![s].code = code]
    /\ Wrote(c, s, "return", 0)
    /\ UNCHANGED <<Elsewhere, copy, greeted, greetings, revived, reopened>>

WriteTransfer(c) ==
    LET s == calls[c].on  saw == calls[c].saw  b == saw.args.to  code == <<b, branch[b].sequence + 1>>
        position == [no |-> NextNo(s), branch |-> b, from |-> saw.args.day, to |-> 0] IN
    /\ At(c, "write_transfer")
    /\ IF branch[b].there
       THEN /\ history' = [history EXCEPT ![s] = Moved(s, saw.open, saw.args.day, {position})]
            /\ codes' = CodesClosed(s, saw.row.code) \cup {[code |-> code, staff |-> s, open |-> TRUE]}
            /\ branch' = [branch EXCEPT ![b].sequence = @ + 1]
            /\ staff' = [staff EXCEPT ![s].branch = b, ![s].code = code]
            /\ Wrote(c, s, "return", 0)
       ELSE Return(c) /\ UNCHANGED <<history, codes, branch, staff>>
    /\ UNCHANGED <<Elsewhere, copy, greeted, greetings, revived, reopened>>

-----------------------------------------------------------------------------
(* The employment history.                                                 *)

\* A new position from day on, until the day end, or open (0).
AddHistory(c, s, b, day, end) ==
    /\ Serves(b) /\ (end # 0 => end >= day)
    /\ Look(c, "history", s, "open_row", [write |-> "write_position", to |-> b, day |-> day, end |-> end])

WritePosition(c) ==
    LET s == calls[c].on  args == calls[c].saw.args  open == calls[c].saw.open
        position == [no |-> NextNo(s), branch |-> args.to, from |-> args.day, to |-> args.end] IN
    /\ At(c, "write_position")
    /\ IF branch[args.to].there /\ \A o \in open : args.day > o.from
       THEN /\ history' = [history EXCEPT ![s] = Moved(s, open, args.day, {position})]
            /\ staff' = [staff EXCEPT ![s].branch = args.to, ![s].status = IF args.end # 0 THEN "ACTIVE" ELSE @]
            /\ revived' = (revived \/ (args.end # 0 /\ staff[s].status \in Left))
            /\ Wrote(c, s, "done", 0)
       ELSE Return(c) /\ UNCHANGED <<history, staff, revived>>
    /\ UNCHANGED <<Elsewhere, copy, branch, codes, greeted, greetings, reopened>>

\* A row gets another branch, or other days; to = 0 opens it.
UpdateHistory(c, s, row, new) ==
    /\ row \in history[s] /\ (new.to # 0 => new.to >= new.from)
    /\ (new.branch # row.branch => Serves(new.branch))
    /\ Look(c, "history", s, "write_row", [no |-> row.no, new |-> new])

WriteRow(c) ==
    LET s == calls[c].on  args == calls[c].saw.args
        old == {r \in history[s] : r.no = args.no}
        new == [no |-> args.no, branch |-> args.new.branch, from |-> args.new.from, to |-> args.new.to] IN
    /\ At(c, "write_row")
    /\ IF old # {}
       THEN /\ history' = [history EXCEPT ![s] = (@ \ old) \cup {new}]
            /\ staff' = IF new.to = 0 THEN [staff EXCEPT ![s].branch = new.branch] ELSE staff
            /\ reopened' = (reopened \/ (new.to = 0 /\ \E r \in old : r.to # 0))
            /\ Wrote(c, s, "done", 0)
       ELSE Return(c) /\ UNCHANGED <<history, staff, reopened>>
    /\ UNCHANGED <<Elsewhere, copy, branch, codes, greeted, greetings, revived>>

RemoveHistory(c, s, row) ==
    /\ row \in history[s] /\ row.to # 0
    /\ Look(c, "history", s, "delete_row", row.no)

DeleteRow(c) ==
    LET s == calls[c].on IN
    /\ At(c, "delete_row") /\ Wrote(c, s, "done", 0)
    /\ history' = [history EXCEPT ![s] = {r \in @ : r.no # calls[c].saw.args}]
    /\ UNCHANGED <<Elsewhere, staff, copy, branch, codes, greeted, greetings, revived, reopened>>

-----------------------------------------------------------------------------
(* Branches.                                                               *)

Staffed(b) == \E s \in Registered : staff[s].branch = b /\ staff[s].status \in AtWork

CreateBranch(c, b) ==
    /\ ~branch[b].there /\ Once(c, "branches")
    /\ branch' = [branch EXCEPT ![b] = [there |-> TRUE, active |-> TRUE, sequence |-> 0]]
    /\ UNCHANGED <<Elsewhere, staff, copy, history, codes, greeted, greetings, revived, reopened>>

UpdateBranch(c, b, active) ==
    /\ branch[b].there /\ (~active => ~Staffed(b))
    /\ Begin(c, "branches", "write_branch", b, active)
    /\ UNCHANGED <<Elsewhere, register>>

WriteBranch(c) ==
    /\ At(c, "write_branch")
    /\ IF branch[calls[c].on].there
       THEN branch' = [branch EXCEPT ![calls[c].on].active = calls[c].saw] /\ Goto(c, "drop_copies", 0)
       ELSE Return(c) /\ UNCHANGED branch
    /\ UNCHANGED <<Elsewhere, staff, copy, history, codes, greeted, greetings, revived, reopened>>

DropCopies(c) ==
    /\ At(c, "drop_copies") /\ Return(c)
    /\ copy' = [s \in Members |-> NoMember]
    /\ UNCHANGED <<Elsewhere, staff, branch, history, codes, greeted, greetings, revived, reopened>>

Referenced(b) ==
    \/ \E s \in Registered : staff[s].branch = b \/ \E r \in history[s] : r.branch = b
    \/ \E r \in codes : r.code[1] = b

\* The check is for members only; the database refuses while any row refers to the branch.
DeleteBranch(c, b) ==
    /\ branch[b].there /\ ~Referenced(b)
    /\ Begin(c, "branches", "delete_branch", b, 0)
    /\ UNCHANGED <<Elsewhere, register>>

RemoveBranch(c) ==
    LET b == calls[c].on IN
    /\ At(c, "delete_branch") /\ Return(c)
    /\ branch' = IF Referenced(b) THEN branch ELSE [branch EXCEPT ![b] = [there |-> FALSE, active |-> FALSE, sequence |-> 0]]
    /\ UNCHANGED <<Elsewhere, staff, copy, history, codes, greeted, greetings, revived, reopened>>

-----------------------------------------------------------------------------
(* The birthday mails of a day, from those who have their birthday.        *)

SendBirthdayEmails(c) ==
    LET candidates == {s \in Registered : staff[s].status = "ACTIVE" /\ staff[s].email # "none"} IN
    /\ candidates # {}
    /\ Begin(c, "birthday", "claim", "cron", [left |-> candidates, were |-> greeted])
    /\ UNCHANGED <<Elsewhere, register>>

\* Marked by a conditional update; only who marks, sends.
Claim(c, s) ==
    LET saw == calls[c].saw  left == saw.left \ {s} IN
    /\ At(c, "claim") /\ s \in saw.left
    /\ IF staff[s].status = "ACTIVE" /\ ~greeted[s]
       THEN /\ greeted' = [greeted EXCEPT ![s] = TRUE]
            /\ Goto(c, "greet", [left |-> left, were |-> saw.were, who |-> s])
       ELSE /\ IF left = {} THEN Return(c) ELSE Goto(c, "claim", [left |-> left, were |-> saw.were])
            /\ UNCHANGED greeted
    /\ UNCHANGED <<Elsewhere, staff, copy, branch, history, codes, greetings, revived, reopened>>

\* When the queue does not take the mail, the mark goes back to what it was when the
\* candidates were read.
Greet(c, queued) ==
    LET saw == calls[c].saw  s == saw.who IN
    /\ At(c, "greet")
    /\ greetings' = IF queued THEN [greetings EXCEPT ![s] = @ + 1] ELSE greetings
    /\ greeted' = IF ~queued /\ greeted[s] THEN [greeted EXCEPT ![s] = saw.were[s]] ELSE greeted
    /\ IF saw.left = {} THEN Return(c) ELSE Goto(c, "claim", [left |-> saw.left, were |-> saw.were])
    /\ UNCHANGED <<Elsewhere, staff, copy, branch, history, codes, revived, reopened>>

-----------------------------------------------------------------------------
(* The login account of a member who has none.                             *)

\* By the member's email; who has none gets an address that nobody has.
LinkUserAccount(c, s, u) ==
    /\ IsMember(s) /\ staff[s].user = "none" /\ u \notin UsersBut(s)
    /\ IF staff[s].email = "none" THEN ~HasAccount(u) /\ u \notin EmailsBut(s) ELSE staff[s].email = u
    /\ Begin(c, "link", IF HasAccount(u) THEN "link_account" ELSE "create_user", s, [user |-> u, verified |-> FALSE])
    /\ UNCHANGED <<Elsewhere, register>>

CreateUser(c, next) ==
    LET u == calls[c].saw.user IN
    /\ IF HasAccount(u)
       THEN Return(c) /\ UNCHANGED account
       ELSE /\ account' = [account EXCEPT ![u] = [NoAccount EXCEPT !.role = "STAFF", !.active = TRUE,
                                        !.password = TRUE, !.verified = calls[c].saw.verified]]
            /\ Goto(c, next, calls[c].saw)
    /\ UNCHANGED <<tokens, profile, secrets, issued, mailed, roles, credentials, register>>

CreateLinkedUser(c) == At(c, "create_user") /\ CreateUser(c, "link_account")

\* A user is linked to one member only.
WriteLink(c) ==
    LET s == calls[c].on  u == calls[c].saw.user IN
    /\ At(c, "link_account")
    /\ IF u \in UsersBut(s) \/ (staff[s].email = "none" /\ u \in EmailsBut(s))
       THEN Return(c) /\ UNCHANGED staff
       ELSE /\ staff' = [staff EXCEPT ![s].user = u, ![s].email = IF @ = "none" THEN u ELSE @]
            /\ Goto(c, "set_up_linked", u)
    /\ UNCHANGED <<Elsewhere, copy, branch, history, codes, greeted, greetings, revived, reopened>>

\* The link to set a password: see WriteReset.
SetUpLinked(c) ==
    LET u == calls[c].saw IN
    /\ At(c, "set_up_linked") /\ Wrote(c, calls[c].on, "done", 0)
    /\ reset' = [reset EXCEPT ![u] = New] /\ secrets' = New
    /\ OnlyAccount /\ UNCHANGED <<account, pin, phone, address, resets, guesses, proved, declined, register>>

CopyExpires(s) ==
    /\ "copies_expire" \in scenario /\ copy[s] # NoMember
    /\ copy' = [copy EXCEPT ![s] = NoMember]
    /\ UNCHANGED <<handlers, Elsewhere, staff, branch, history, codes, greeted, greetings, revived, reopened>>

StaffStep(c) ==
    \/ Fill(c) \/ DropCopy(c) \/ ReadOpen(c) \/ WriteDetails(c) \/ WriteStatus(c) \/ WriteRestored(c)
    \/ WriteTransfer(c) \/ WritePosition(c) \/ WriteRow(c) \/ DeleteRow(c) \/ WriteBranch(c)
    \/ DropCopies(c) \/ RemoveBranch(c) \/ CreateLinkedUser(c) \/ WriteLink(c) \/ SetUpLinked(c)
    \/ \E s \in Members : Claim(c, s) \/ \E day \in Days : InsertMember(c, s, day)
    \/ \E queued \in BOOLEAN : Greet(c, queued)

CreationRequest(c) == \E b \in Branches, e \in Users \cup {"none"} : CreateMember(c, b, e)

BranchRequest(c) ==
    \E b \in Branches : \/ CreateBranch(c, b) \/ DeleteBranch(c, b)
                        \/ \E active \in BOOLEAN : UpdateBranch(c, b, active)

EmployeeRequest(c) ==
    \E s \in Members :
        \/ FindOne(c, s)
        \/ \E status \in AtWork \cup Left, day \in Days : UpdateMemberStatus(c, s, status, day)
        \/ \E b \in Branches, day \in Days : TransferBranch(c, s, b, day)
        \/ "details" \in scenario /\ IsMember(s) /\ \E b \in Branches, status \in AtWork \cup Left :
               UpdateMember(c, s, b, status, staff[s].email)

\* To archive a member is to update the status.
ArchiveRequest(c) ==
    \E s \in Members : Restore(c, s) \/ \E day \in Days : UpdateMemberStatus(c, s, "ARCHIVED", day)

LinkRequest(c) == \E s \in Members, u \in Users : LinkUserAccount(c, s, u)

HistoryRequest(c) ==
    \E s \in Members, b \in Branches, day \in Days, end \in Days \cup {0} :
        \/ AddHistory(c, s, b, day, end)
        \/ "history" \in scenario /\ \E row \in history[s] :
               \/ RemoveHistory(c, s, row)
               \/ UpdateHistory(c, s, row, [branch |-> b, from |-> day, to |-> end])

StaffRequest(c) ==
    \/ SendBirthdayEmails(c) \/ CreationRequest(c) \/ BranchRequest(c) \/ EmployeeRequest(c)
    \/ ArchiveRequest(c) \/ LinkRequest(c) \/ HistoryRequest(c)

-----------------------------------------------------------------------------

\* A member has one open position at most: whatever opens one closes the one before.  Unless
\* handlers overlap, or somebody opens a closed row again, which nothing prevents.
OneOpenHistory ==
    \A s \in Members : Cardinality(Open(s)) > 1 => overlapped \/ reopened

\* A staff code that is current in the code history is its member's code: a code that a
\* transfer has replaced is never good again.  The code to close comes from the copy in Redis:
\* after a handler that died before it dropped the copy, it may be the wrong one.
OpenCodeIsTheirs ==
    \A r \in codes : r.open => r.code = staff[r.staff].code \/ overlapped \/ crashes > 0

\* Nobody works in a branch that has been deactivated.  Unless a transfer to it was under way,
\* or one who had left is made active again, where the branch is not looked at.
DeactivatedIsEmpty ==
    \A b \in Branches : Staffed(b) => branch[b].active \/ overlapped \/ revived

\* The copy of a record that handlers look up is the record, once they are through: except for
\* the pay, which hiring and a change to commission write without dropping the copy.
CopyIsFresh ==
    \A s \in Members : Quiet /\ copy[s] # NoMember =>
        [copy[s] EXCEPT !.pay = staff[s].pay] = staff[s] \/ overlapped \/ crashes > 0

\* A member gets one birthday mail a year, however many crons run, fail and are repeated.
BirthdayOnce == \A s \in Members : greetings[s] <= 1

\* The staff register agrees with itself: one open position, the code of whom it names, empty
\* branches when closed, fresh copies in Redis, one greeting a year (StaffService).
RegisterKept ==
    StaffTypeOK /\ OneOpenHistory /\ OpenCodeIsTheirs /\ DeactivatedIsEmpty /\ CopyIsFresh /\ BirthdayOnce
===============================================================================
