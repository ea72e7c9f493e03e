----------------------------- MODULE Credentials ------------------------------
(***************************************************************************)
(* What users prove themselves with beyond the password: the link that     *)
(* sets a new password, the PIN and its lock, the verified phone number.   *)
(* And the addresses they keep, one of which is the default.               *)
(***************************************************************************)
EXTENDS Roles

CONSTANTS
    MaxFails,       \* MAX_FAILED_ATTEMPTS of the PIN
    Phones,
    Addresses       \* ids of addresses

\* One wrong PIN may be judged at least.
ASSUME CredentialsAssumption == MaxFails \in Nat \ {0}

VARIABLES
    reset,          \* reset[u]: the token of the reset link; 0 when there is none
    pin,            \* pin[u]: the PIN, its failures, and the locks in database and Redis
    phone,          \* phone[u]: the number, whether it is verified, and the code sent to it
    address,        \* address[a]: whose it is, deleted or not, the default or not
    resets,         \* history: how often each reset token was used
    guesses,        \* guesses[u], history: wrong PINs judged since the last right one or lock
    proved,         \* proved[u], history: the number whose code was entered last
    declined        \* history: users who said of an address that it is not the default

credentials == <<reset, pin, phone, address, resets, guesses, proved, declined>>

PinRows     == [set : BOOLEAN, failed : Nat, locked : BOOLEAN, lock : BOOLEAN]
PhoneRows   == [number : {"none"} \cup Phones, verified : BOOLEAN, code : Nat]
AddressRows == [user : {"none"} \cup Users, there : BOOLEAN, default : BOOLEAN]

CredentialsTypeOK ==
    /\ reset \in [Users -> Nat] /\ pin \in [Users -> PinRows] /\ phone \in [Users -> PhoneRows]
    /\ address \in [Addresses -> AddressRows]
    /\ DOMAIN resets \subseteq Nat /\ guesses \in [Users -> Nat]
    /\ proved \in [Users -> {"none"} \cup Phones] /\ declined \subseteq Users

CredentialsInit ==
    /\ reset = [u \in Users |-> 0] /\ resets = <<>>
    /\ pin = [u \in Users |-> [set |-> FALSE, failed |-> 0, locked |-> FALSE, lock |-> FALSE]]
    /\ phone = [u \in Users |-> [number |-> "none", verified |-> FALSE, code |-> 0]]
    /\ address = [a \in Addresses |-> [user |-> "none", there |-> FALSE, default |-> FALSE]]
    /\ guesses = [u \in Users |-> 0] /\ proved = [u \in Users |-> "none"] /\ declined = {}

OnlyAccount == UNCHANGED <<tokens, profile, issued, mailed, roles>>

-----------------------------------------------------------------------------
(* The password.                                                           *)

\* Also sent to those who are given an account: see Staff and Hiring.
ForgotPassword(c, u) ==
    /\ HasAccount(u)
    /\ Begin(c, "password", "write_reset", u, 0)
    /\ UNCHANGED <<accounts, roles, credentials>>

WriteReset(c) ==
    /\ At(c, "write_reset") /\ Return(c)
    /\ IF HasAccount(calls[c].on)
       THEN reset' = [reset EXCEPT ![calls[c].on] = New] /\ secrets' = New
       ELSE UNCHANGED <<reset, secrets>>
    /\ OnlyAccount /\ UNCHANGED <<account, pin, phone, address, resets, guesses, proved, declined>>

\* Until it expires, the token finds the user that has it.
ResetPassword(c, u, token) ==
    /\ token # 0 /\ reset[u] = token
    /\ Begin(c, "password", "new_password", u, token)
    /\ UNCHANGED <<accounts, roles, credentials>>

Used(token) == IF token \in DOMAIN resets THEN resets[token] ELSE 0

WritePassword(c) ==
    LET u == calls[c].on  token == calls[c].saw IN
    /\ At(c, "new_password") /\ Return(c)
    /\ account' = [account EXCEPT ![u].password = HasAccount(u)]
    /\ reset' = [reset EXCEPT ![u] = 0]
    /\ resets' = [t \in DOMAIN resets \cup {token} |-> Used(t) + IF t = token THEN 1 ELSE 0]
    /\ OnlyAccount /\ UNCHANGED <<secrets, pin, phone, address, guesses, proved, declined>>

\* One that signed up with Google sets a first password.
SetPassword(c, u) ==
    /\ HasAccount(u) /\ ~account[u].password /\ Once(c, "password")
    /\ account' = [account EXCEPT ![u].password = TRUE]
    /\ OnlyAccount /\ UNCHANGED <<secrets, credentials>>

-----------------------------------------------------------------------------
(* The PIN.  Its row is read, locks included; the answer to a wrong one is *)
(* to store the count that was read plus one, and at the limit the lock,   *)
(* in the database and then in Redis.                                      *)

PinLocked(u) == pin[u].locked \/ pin[u].lock

SetPin(c, u) ==
    /\ HasAccount(u) /\ ~pin[u].set /\ account[u].password
    /\ Begin(c, "pin", "store_pin", u, "rotate")
    /\ UNCHANGED <<accounts, roles, credentials>>

\* For the PIN's own check (then = return) or to change it (then = rotate).
RightPin(c, u, then) ==
    /\ pin[u].set /\ ~PinLocked(u)
    /\ Begin(c, "pin", "store_pin", u, then)
    /\ UNCHANGED <<accounts, roles, credentials>>

WrongPin(c, u) ==
    /\ pin[u].set /\ ~PinLocked(u)
    /\ Begin(c, "pin", "count_failure", u, pin[u].failed)
    /\ guesses' = [guesses EXCEPT ![u] = @ + 1]
    /\ UNCHANGED <<accounts, roles, reset, pin, phone, address, resets, proved, declined>>

StorePin(c) ==
    LET u == calls[c].on IN
    /\ At(c, "store_pin") /\ Goto(c, "unlock", calls[c].saw)
    /\ pin' = [pin EXCEPT ![u].set = TRUE, ![u].failed = 0, ![u].locked = FALSE]
    /\ guesses' = [guesses EXCEPT ![u] = 0]
    /\ UNCHANGED <<accounts, roles, reset, phone, address, resets, proved, declined>>

\* After a new PIN there is a new session as well.
ClearPinLock(c) ==
    /\ At(c, "unlock")
    /\ pin' = [pin EXCEPT ![calls[c].on].lock = FALSE]
    /\ IF calls[c].saw = "rotate" THEN Goto(c, "rotate", 0) ELSE Return(c)
    /\ UNCHANGED <<accounts, roles, reset, phone, address, resets, guesses, proved, declined>>

CountFailureUpTo(c, limit) ==
    LET failed == calls[c].saw + 1 IN
    /\ At(c, "count_failure")
    /\ pin' = [pin EXCEPT ![calls[c].on].failed = failed]
    /\ IF failed >= limit THEN Goto(c, "lock", 0) ELSE Return(c)
    /\ UNCHANGED <<accounts, roles, reset, phone, address, resets, guesses, proved, declined>>

\* Faulty variant of CountFailure: the lock comes one failure late.
CountFailureLate(c) == CountFailureUpTo(c, MaxFails + 1)

CountFailure(c) == CountFailureUpTo(c, MaxFails)

LockPin(c) ==
    /\ At(c, "lock") /\ Goto(c, "lock_in_Redis", 0)
    /\ pin' = [pin EXCEPT ![calls[c].on].locked = TRUE]
    /\ UNCHANGED <<accounts, roles, reset, phone, address, resets, guesses, proved, declined>>

LockInRedis(c) ==
    /\ At(c, "lock_in_Redis") /\ Return(c)
    /\ pin' = [pin EXCEPT ![calls[c].on].lock = TRUE]
    /\ UNCHANGED <<accounts, roles, reset, phone, address, resets, guesses, proved, declined>>

\* After half an hour; the count of failures stays.
LockExpires(u) ==
    /\ "pin" \in scenario /\ PinLocked(u)
    /\ pin' = [pin EXCEPT ![u].locked = FALSE, ![u].lock = FALSE]
    /\ guesses' = [guesses EXCEPT ![u] = 0]
    /\ UNCHANGED <<handlers, accounts, roles, reset, phone, address, resets, proved, declined>>

-----------------------------------------------------------------------------
(* The phone number.                                                       *)

RequestPhone(c, u, n) ==
    /\ HasAccount(u) /\ \A v \in Users \ {u} : phone[v].number # n
    /\ Begin(c, "phone", "write_phone", u, n)
    /\ UNCHANGED <<accounts, roles, credentials>>

\* Numbers are unique.  The message may not be sent; the row says nothing of it.
WritePhone(c) ==
    LET u == calls[c].on  n == calls[c].saw IN
    /\ At(c, "write_phone") /\ Return(c)
    /\ IF \A v \in Users \ {u} : phone[v].number # n
       THEN phone' = [phone EXCEPT ![u] = [number |-> n, verified |-> FALSE, code |-> New]] /\ secrets' = New
       ELSE UNCHANGED <<phone, secrets>>
    /\ OnlyAccount /\ UNCHANGED <<account, reset, pin, address, resets, guesses, proved, declined>>

VerifyPhone(c, u) ==
    /\ phone[u].code # 0
    /\ Begin(c, "phone", "phone_verified", u, phone[u].number)
    /\ UNCHANGED <<accounts, roles, credentials>>

WritePhoneProof(c) ==
    LET u == calls[c].on IN
    /\ At(c, "phone_verified") /\ Goto(c, "drop_profile", 0)
    /\ phone' = [phone EXCEPT ![u].verified = TRUE, ![u].code = 0]
    /\ proved' = [proved EXCEPT ![u] = calls[c].saw]
    /\ UNCHANGED <<accounts, roles, reset, pin, address, resets, guesses, declined>>

-----------------------------------------------------------------------------
(* Addresses.  A transaction reads the rows it is to change, and commits.  *)

Live(u)     == {a \in Addresses : address[a].user = u /\ address[a].there}
Defaults(u) == {a \in Live(u) : address[a].default}
OnlyAddresses == UNCHANGED <<accounts, roles, reset, pin, phone, resets, guesses, proved>>

\* default: TRUE, FALSE, or unset, when the first address becomes the default.
CreateAddress(c, u, default) ==
    LET main == IF default = "unset" THEN Live(u) = {} ELSE default = "yes" IN
    /\ HasAccount(u)
    /\ Begin(c, "address", "create_address", u,
             [default |-> main, clear |-> IF main THEN Defaults(u) ELSE {}])
    /\ declined' = IF default = "no" THEN declined \cup {u} ELSE declined
    /\ OnlyAddresses /\ UNCHANGED address

InsertAddress(c, a) ==
    LET u == calls[c].on  main == calls[c].saw.default IN
    /\ At(c, "create_address") /\ address[a].user = "none" /\ Return(c)
    /\ address' = [b \in Addresses |->
            IF b = a THEN [user |-> u, there |-> TRUE, default |-> main]
            ELSE IF b \in calls[c].saw.clear THEN [address[b] EXCEPT !.default = FALSE] ELSE address[b]]
    /\ OnlyAddresses /\ UNCHANGED declined

\* An update that says so, or "set default": the others' flags are cleared first.
MakeDefault(c, a) ==
    /\ address[a].there
    /\ Begin(c, "address", "make_default", a, Defaults(address[a].user) \ {a})
    /\ OnlyAddresses /\ UNCHANGED <<address, declined>>

WriteDefault(c) ==
    /\ At(c, "make_default") /\ Return(c)
    /\ address' = [b \in Addresses |->
            IF b = calls[c].on THEN [address[b] EXCEPT !.default = TRUE]
            ELSE IF b \in calls[c].saw THEN [address[b] EXCEPT !.default = FALSE] ELSE address[b]]
    /\ OnlyAddresses /\ UNCHANGED declined

UpdateAddress(c, a) ==
    /\ address[a].there /\ Once(c, "address")
    /\ address' = [address EXCEPT ![a].default = FALSE]
    /\ declined' = declined \cup {address[a].user}
    /\ OnlyAddresses

DeleteAddress(c, a) ==
    /\ address[a].there
    /\ Begin(c, "address", "delete_address", a, address[a].default)
    /\ OnlyAddresses /\ UNCHANGED <<address, declined>>

\* The default's place is taken by b, the one updated last of those that are left.
WriteDeletion(c, b) ==
    LET a == calls[c].on  left == Live(address[a].user) \ {a} IN
    /\ At(c, "delete_address") /\ Return(c)
    /\ IF calls[c].saw /\ left # {}
       THEN /\ b \in left
            /\ address' = [address EXCEPT ![a].there = FALSE, ![a].default = FALSE, ![b].default = TRUE]
       ELSE /\ b = a
            /\ address' = [address EXCEPT ![a].there = FALSE, ![a].default = FALSE]
    /\ OnlyAddresses /\ UNCHANGED declined

CredentialsStep(c) ==
    \/ WriteReset(c) \/ WritePassword(c) \/ StorePin(c) \/ ClearPinLock(c) \/ CountFailure(c)
    \/ LockPin(c) \/ LockInRedis(c) \/ WritePhone(c) \/ WritePhoneProof(c) \/ WriteDefault(c)
    \/ \E a \in Addresses : InsertAddress(c, a) \/ WriteDeletion(c, a)

PasswordRequest(c) == \E u \in Users : ForgotPassword(c, u) \/ ResetPassword(c, u, reset[u])

PinRequest(c) ==
    \E u \in Users :
        SetPin(c, u) \/ WrongPin(c, u) \/ \E then \in {"rotate", "return"} : RightPin(c, u, then)

PhoneRequest(c) == \E u \in Users : VerifyPhone(c, u) \/ \E n \in Phones : RequestPhone(c, u, n)

AddressRequest(c) ==
    \/ \E u \in Users, default \in {"yes", "no", "unset"} : CreateAddress(c, u, default)
    \/ \E a \in Addresses : MakeDefault(c, a) \/ UpdateAddress(c, a) \/ DeleteAddress(c, a)

CredentialsRequest(c) ==
    \/ PasswordRequest(c) \/ PinRequest(c) \/ PhoneRequest(c) \/ AddressRequest(c)
    \/ \E u \in Users : SetPassword(c, u)

-----------------------------------------------------------------------------

\* A reset link works once, unless it is used twice at the same time or its use dies.
ResetOnce == \A t \in DOMAIN resets : overlapped \/ resets[t] <= 1

\* Before the lock shuts, no more wrong PINs are judged than allowed: failures are not
\* lost, whatever comes in between.  Two guesses at a time read the same count, and a
\* handler that dies may not have stored its failure.
PinLocksInTime == \A u \in Users : guesses[u] <= MaxFails + crashes \/ overlapped

\* A number that counts as verified is the one its owner entered the code of, unless the
\* number was changed while a code was being checked.
VerifiedNumberWasProved ==
    \A u \in Users : phone[u].verified => phone[u].number = proved[u] \/ overlapped

\* A user has one default address at most, unless two were chosen at the same time.
OneDefaultAddress == \A u \in Users : overlapped \/ Cardinality(Defaults(u)) <= 1

\* Who has addresses has a default one: deleting the default hands it on.  Except for
\* those who said of an address that it is not the default.
DefaultIsHandedOn ==
    \A u \in Users : Live(u) # {} => Defaults(u) # {} \/ u \in declined \/ overlapped

\* What proves who a user is counts once: reset tokens, PIN guesses, codes sent to a number; and
\* of a user's addresses one is the default (AuthService, UserService).
CredentialsKept ==
    /\ CredentialsTypeOK
    /\ ResetOnce /\ PinLocksInTime /\ VerifiedNumberWasProved
    /\ OneDefaultAddress /\ DefaultIsHandedOn
===============================================================================
