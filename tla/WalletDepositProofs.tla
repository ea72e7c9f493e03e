------------------------ MODULE WalletDepositProofs ------------------------
(***************************************************************************)
(* Proofs about WalletDeposit, for every set of deposits, handlers and     *)
(* payments, every amount and every bound.                                 *)
(*                                                                         *)
(* The amount check and the credit are steps of one handler with other     *)
(* handlers in between, so "only what was paid is credited" is not         *)
(* inductive alone: the handlers that passed the check have to be part of  *)
(* the invariant.                                                          *)
(***************************************************************************)
EXTENDS WalletDeposit, FiniteSetTheorems, TLAPS

\* A handler on its way to the credit has seen the exact amount paid.
CheckedCallers ==
    \A c \in Callers :
        calls[c].stage \in {"lock", "commit"} => paid[calls[c].deposit] = "exact"

PaidInv ==
    /\ TypeOK
    /\ CheckedCallers
    /\ CreditOnlyWhatWasPaid

-----------------------------------------------------------------------------
\* Idle is not at a stage of any deposit.
LEMMA CallFacts ==
    /\ Idle \in Calls
    /\ Idle.stage = "idle"
    /\ \A call \in Calls : call.stage \in Stages /\ call.kind \in Kinds
    /\ \A call \in Calls : call.stage # "idle" => call.deposit \in Deposits
    /\ \A call \in Calls, s \in Stages \ {"idle"} :
          call.stage # "idle" => [call EXCEPT !.stage = s] \in Calls
BY DEF Calls, Idle, Stages, Kinds

\* Moving a handler that is at work to another stage keeps the type of calls and
\* its deposit; the other handlers do not move.
LEMMA GotoFacts ==
    ASSUME TypeOK, NEW c \in Callers, NEW s \in Stages \ {"idle"},
           ~At(c, "idle"), Goto(c, s)
    PROVE  /\ calls' \in [Callers -> Calls]
           /\ calls'[c].stage = s
           /\ calls'[c].deposit = calls[c].deposit
           /\ \A o \in Callers \ {c} : calls'[o] = calls[o]
<1>1. calls[c] \in Calls /\ calls[c].stage # "idle"
  BY DEF TypeOK, At
<1>2. [calls[c] EXCEPT !.stage = s] \in Calls
  BY <1>1, CallFacts
<1>3. calls' = [calls EXCEPT ![c] = [calls[c] EXCEPT !.stage = s]]
  BY DEF Goto
<1>4. calls[c].deposit = [calls[c] EXCEPT !.stage = s].deposit
      /\ [calls[c] EXCEPT !.stage = s].stage = s
  BY <1>1 DEF Calls, Idle
<1> QED BY <1>2, <1>3, <1>4 DEF TypeOK

\* A handler that returns is idle; the other handlers do not move.
LEMMA ReturnFacts ==
    ASSUME TypeOK, NEW c \in Callers, Return(c)
    PROVE  /\ calls' \in [Callers -> Calls]
           /\ calls'[c].stage = "idle"
           /\ \A o \in Callers \ {c} : calls'[o] = calls[o]
BY CallFacts DEF TypeOK, Return

\* Every variable keeps its type (Init and all handlers).
THEOREM TypeCorrect == Spec => []TypeOK
<1>1. Init => TypeOK
  BY CallFacts DEF Init, TypeOK, Statuses, Verdicts
<1>2. TypeOK /\ [Next]_vars => TypeOK'
  <2> SUFFICES ASSUME TypeOK, [Next]_vars PROVE TypeOK'
    OBVIOUS
  <2> USE CallFacts DEF TypeOK
  <2>1. ASSUME NEW d \in Deposits, InitializeDeposit(d) PROVE TypeOK'
    BY <2>1 DEF InitializeDeposit, Statuses
  <2>2. ASSUME NEW d \in Deposits, GatewayPays(d) PROVE TypeOK'
    BY <2>2 DEF GatewayPays, Verdicts
  <2>3. ASSUME NEW d \in Deposits, WebhookArrives(d) PROVE TypeOK'
    BY <2>3 DEF WebhookArrives
  <2>4. ASSUME NEW c \in Callers, NEW d \in Deposits, VerifyDeposit(c, d) PROVE TypeOK'
    <3>1. [kind |-> "verify", deposit |-> d, stage |-> "ask"] \in Calls
      BY DEF Calls, Kinds, Stages
    <3> QED BY <2>4, <3>1 DEF VerifyDeposit
  <2>5. ASSUME NEW c \in Callers, NEW d \in Deposits, HandleDepositWebhook(c, d) PROVE TypeOK'
    <3>1. [kind |-> "webhook", deposit |-> d,
           stage |-> IF paid[d] = "exact" THEN "lock" ELSE "reject"] \in Calls
      BY DEF Calls, Kinds, Stages
    <3>2. calls' \in [Callers -> Calls]
      BY <2>5, <3>1 DEF HandleDepositWebhook
    <3>3. jobs' \in [Deposits -> Nat]
      BY <2>5 DEF HandleDepositWebhook
    <3> QED BY <2>5, <3>2, <3>3 DEF HandleDepositWebhook
  <2>6. ASSUME NEW c \in Callers, GatewayAnswers(c) PROVE TypeOK'
    <3>1. calls[c] \in Calls /\ calls[c].stage # "idle"
      BY <2>6 DEF GatewayAnswers, At
    <3>2. paid[calls[c].deposit] \in Verdicts
      BY <3>1
    <3>3. Goto(c, "reject") \/ Return(c) \/ Goto(c, "lock")
      BY <2>6, <3>2 DEF GatewayAnswers, Verdicts
    <3>4. calls' \in [Callers -> Calls]
      BY <3>1, <3>3, GotoFacts, ReturnFacts DEF At, Stages
    <3> QED BY <2>6, <3>4 DEF GatewayAnswers
  <2>7. ASSUME NEW c \in Callers, MarkFailed(c) PROVE TypeOK'
    BY <2>7 DEF MarkFailed, At, Return, Statuses
  <2>8. ASSUME NEW c \in Callers, DoubleCheck(c) PROVE TypeOK'
    <3>1. calls[c] \in Calls /\ calls[c].stage # "idle"
      BY <2>8 DEF DoubleCheck, At
    <3>2. calls' \in [Callers -> Calls]
      BY <2>8, <3>1, GotoFacts, ReturnFacts DEF DoubleCheck, At, Stages
    <3>3. jobs' \in [Deposits -> Nat]
      BY <2>8, <3>1 DEF DoubleCheck
    <3> QED BY <2>8, <3>2, <3>3 DEF DoubleCheck
  <2>9. ASSUME NEW c \in Callers, CreditWallet(c) PROVE TypeOK'
    <3>1. calls[c] \in Calls /\ calls[c].deposit \in Deposits
      BY <2>9 DEF CreditWallet, At
    <3>2. balance' = balance + Amount[calls[c].deposit]
          /\ Amount[calls[c].deposit] \in Nat
      BY <2>9, <3>1, AmountAssumption DEF CreditWallet
    <3> DEFINE d == calls[c].deposit
    <3>3. status' = [status EXCEPT ![d] = "COMPLETED"]
          /\ credits' = [credits EXCEPT ![d] = credits[d] + 1]
      BY <2>9 DEF CreditWallet
    <3>4. d \in Deposits /\ credits[d] + 1 \in Nat /\ "COMPLETED" \in Statuses
      BY <3>1 DEF Statuses
    <3> HIDE DEF d
    <3>5. status' \in [Deposits -> Statuses] /\ credits' \in [Deposits -> Nat]
      BY <3>3, <3>4
    <3> QED BY <2>9, <3>2, <3>5, ReturnFacts DEF CreditWallet
  <2>10. ASSUME NEW c \in Callers, Crash(c) PROVE TypeOK'
    <3>1. calls[c] \in Calls /\ calls[c].deposit \in Deposits
      BY <2>10 DEF Crash, At
    <3> QED BY <2>10, <3>1 DEF Crash, Return
  <2>11. ASSUME NEW p \in Debits, DebitWallet(p) PROVE TypeOK'
    BY <2>11, AmountAssumption DEF DebitWallet
  <2>12. CASE UNCHANGED vars
    BY <2>12 DEF vars
  <2> QED
    BY <2>1, <2>2, <2>3, <2>4, <2>5, <2>6, <2>7, <2>8, <2>9, <2>10, <2>11, <2>12
       DEF Next, DepositRequest, Settle
<1> QED BY <1>1, <1>2, PTL DEF Spec

\* Only an exactly paid deposit is ever credited: the amount checks of
\* verifyDeposit and of the webhook processors hold up to the commit.
THEOREM OnlyPaidIsCredited == Spec => []CreditOnlyWhatWasPaid
<1>1. Init => PaidInv
  BY CallFacts DEF Init, PaidInv, TypeOK, Statuses, Verdicts, CheckedCallers,
                   CreditOnlyWhatWasPaid
<1>2. PaidInv /\ TypeOK' /\ [Next]_vars => PaidInv'
  <2> SUFFICES ASSUME PaidInv, TypeOK', [Next]_vars
               PROVE  CheckedCallers' /\ CreditOnlyWhatWasPaid'
    BY DEF PaidInv
  <2> USE CallFacts DEF PaidInv, TypeOK, CheckedCallers, CreditOnlyWhatWasPaid
  <2>1. ASSUME NEW d \in Deposits, InitializeDeposit(d)
        PROVE  CheckedCallers' /\ CreditOnlyWhatWasPaid'
    BY <2>1 DEF InitializeDeposit
  <2>2. ASSUME NEW d \in Deposits, GatewayPays(d)
        PROVE  CheckedCallers' /\ CreditOnlyWhatWasPaid'
    <3>1. \A e \in Deposits : paid[e] = "exact" => paid'[e] = "exact"
      BY <2>2 DEF GatewayPays
    <3>2. \A c \in Callers :
             calls[c].stage \in {"lock", "commit"} => calls[c].deposit \in Deposits
      BY DEF Stages
    <3> QED BY <2>2, <3>1, <3>2 DEF GatewayPays
  <2>3. ASSUME NEW d \in Deposits, WebhookArrives(d)
        PROVE  CheckedCallers' /\ CreditOnlyWhatWasPaid'
    BY <2>3 DEF WebhookArrives
  <2>4. ASSUME NEW c \in Callers, NEW d \in Deposits, VerifyDeposit(c, d)
        PROVE  CheckedCallers' /\ CreditOnlyWhatWasPaid'
    BY <2>4 DEF VerifyDeposit
  <2>5. ASSUME NEW c \in Callers, NEW d \in Deposits, HandleDepositWebhook(c, d)
        PROVE  CheckedCallers' /\ CreditOnlyWhatWasPaid'
    <3>1. UNCHANGED <<paid, credits>>
      BY <2>5 DEF HandleDepositWebhook
    <3>2. CASE status[d] = "COMPLETED"
      BY <2>5, <3>1, <3>2 DEF HandleDepositWebhook
    <3>3. CASE status[d] # "COMPLETED"
      BY <2>5, <3>1, <3>3 DEF HandleDepositWebhook
    <3> QED BY <3>2, <3>3
  <2>6. ASSUME NEW c \in Callers, GatewayAnswers(c)
        PROVE  CheckedCallers' /\ CreditOnlyWhatWasPaid'
    <3>1. calls[c] \in Calls /\ calls[c].stage # "idle" /\ calls[c].deposit \in Deposits
      BY <2>6 DEF GatewayAnswers, At
    <3>2. paid[calls[c].deposit] \in Verdicts
      BY <3>1
    <3>3. UNCHANGED <<paid, credits>>
      BY <2>6 DEF GatewayAnswers
    <3>4. CASE Goto(c, "reject")
      BY <3>1, <3>3, <3>4, GotoFacts DEF At, Stages
    <3>5. CASE Return(c)
      BY <3>3, <3>5, ReturnFacts
    <3>6. CASE Goto(c, "lock") /\ paid[calls[c].deposit] = "exact"
      BY <3>1, <3>3, <3>6, GotoFacts DEF At, Stages
    <3> QED BY <2>6, <3>2, <3>4, <3>5, <3>6 DEF GatewayAnswers, Verdicts
  <2>7. ASSUME NEW c \in Callers, MarkFailed(c)
        PROVE  CheckedCallers' /\ CreditOnlyWhatWasPaid'
    BY <2>7 DEF MarkFailed, Return
  <2>8. ASSUME NEW c \in Callers, DoubleCheck(c)
        PROVE  CheckedCallers' /\ CreditOnlyWhatWasPaid'
    <3>1. UNCHANGED <<paid, credits>> /\ ~At(c, "idle")
      BY <2>8 DEF DoubleCheck, At
    <3>2. paid[calls[c].deposit] = "exact"
      BY <2>8 DEF DoubleCheck, At
    <3>3. Return(c) \/ Goto(c, "commit")
      BY <2>8 DEF DoubleCheck
    <3> QED BY <3>1, <3>2, <3>3, GotoFacts, ReturnFacts DEF Stages
  <2>9. ASSUME NEW c \in Callers, CreditWallet(c)
        PROVE  CheckedCallers' /\ CreditOnlyWhatWasPaid'
    <3>1. paid[calls[c].deposit] = "exact"
      BY <2>9 DEF CreditWallet, At
    <3> QED BY <2>9, <3>1 DEF CreditWallet, Return
  <2>10. ASSUME NEW c \in Callers, Crash(c)
         PROVE  CheckedCallers' /\ CreditOnlyWhatWasPaid'
    BY <2>10 DEF Crash, Return
  <2>11. ASSUME NEW p \in Debits, DebitWallet(p)
         PROVE  CheckedCallers' /\ CreditOnlyWhatWasPaid'
    BY <2>11 DEF DebitWallet
  <2>12. CASE UNCHANGED vars
    BY <2>12 DEF vars
  <2> QED
    BY <2>1, <2>2, <2>3, <2>4, <2>5, <2>6, <2>7, <2>8, <2>9, <2>10, <2>11, <2>12
       DEF Next, DepositRequest, Settle
<1>3. PaidInv => CreditOnlyWhatWasPaid
  BY DEF PaidInv
<1> QED BY <1>1, <1>2, <1>3, TypeCorrect, PTL DEF Spec

\* Status and balance are written by one transaction: a COMPLETED row has been
\* credited, whatever FAILED writes by id race with it.
THEOREM CompletedHasCredit == Spec => []CompletedIsCredited
<1>1. Init => CompletedIsCredited
  BY DEF Init, CompletedIsCredited
<1>2. CompletedIsCredited /\ TypeOK /\ [Next]_vars => CompletedIsCredited'
  <2> SUFFICES ASSUME CompletedIsCredited, TypeOK, [Next]_vars
               PROVE  CompletedIsCredited'
    OBVIOUS
  <2> USE CallFacts DEF CompletedIsCredited, TypeOK
  <2>1. ASSUME NEW d \in Deposits, InitializeDeposit(d) PROVE CompletedIsCredited'
    BY <2>1 DEF InitializeDeposit
  <2>2. ASSUME NEW c \in Callers, MarkFailed(c) PROVE CompletedIsCredited'
    BY <2>2 DEF MarkFailed
  <2>3. ASSUME NEW c \in Callers, CreditWallet(c) PROVE CompletedIsCredited'
    <3>1. calls[c] \in Calls /\ calls[c].deposit \in Deposits
      BY <2>3 DEF CreditWallet, At
    <3> QED BY <2>3, <3>1 DEF CreditWallet
  <2>4. CASE UNCHANGED <<status, credits>>
    BY <2>4
  <2> QED
    BY <2>1, <2>2, <2>3, <2>4
       DEF Next, DepositRequest, Settle, vars, GatewayPays, WebhookArrives, VerifyDeposit,
           HandleDepositWebhook, GatewayAnswers, DoubleCheck, Crash, DebitWallet
<1> QED BY <1>1, <1>2, TypeCorrect, PTL DEF Spec

-----------------------------------------------------------------------------
(* The sums of Solvent.                                                    *)

\* The units of x from the m-th on, k of them.
More(x, m, k) == {x} \X ((m + 1)..(m + k))

\* They are k elements more for a set that holds the units of x up to the m-th.
LEMMA MoreUnits ==
    ASSUME NEW U, IsFiniteSet(U), NEW x, NEW m \in Nat, NEW k \in Nat,
           \A n \in Int : <<x, n>> \in U => n <= m
    PROVE  /\ IsFiniteSet(U \cup More(x, m, k))
           /\ Cardinality(U \cup More(x, m, k)) = Cardinality(U) + k
<1>1. IsFiniteSet((m + 1)..(m + k)) /\ Cardinality((m + 1)..(m + k)) = k
  BY FS_Interval
<1>2. /\ IsFiniteSet(More(x, m, k))
      /\ Cardinality(More(x, m, k)) = Cardinality({x}) * Cardinality((m + 1)..(m + k))
  BY <1>1, FS_Singleton, FS_Product DEF More
<1>3. Cardinality(More(x, m, k)) = k
  <2>1. Cardinality({x}) = 1
    BY FS_Singleton
  <2> QED BY <1>1, <1>2, <2>1
<1>4. U \cap More(x, m, k) = {}
  <2> SUFFICES ASSUME NEW t \in U, t \in More(x, m, k) PROVE FALSE
    OBVIOUS
  <2>1. PICK n \in (m + 1)..(m + k) : t = <<x, n>>
    BY DEF More
  <2> QED BY <2>1
<1>5. /\ IsFiniteSet(U \cup More(x, m, k))
      /\ Cardinality(U \cup More(x, m, k)) = Cardinality(U) + k - Cardinality({})
  BY <1>2, <1>3, <1>4, FS_Union
<1>6. Cardinality(U) \in Nat /\ Cardinality({}) = 0
  BY FS_CardinalityType, FS_EmptySet
<1> QED BY <1>5, <1>6

\* The sum grows by what one summand grows by.
LEMMA SumGrows ==
    ASSUME NEW S, NEW w \in [S -> Nat], IsFiniteSet(Units(S, w)), NEW x \in S, NEW k \in Nat,
           NEW v \in [S -> Nat], v[x] = w[x] + k, \A y \in S \ {x} : v[y] = w[y]
    PROVE  IsFiniteSet(Units(S, v)) /\ SumOver(S, v) = SumOver(S, w) + k
<1>1. w[x] \in Nat /\ \A n \in Int : <<x, n>> \in Units(S, w) => n <= w[x]
  BY DEF Units
<1>2. Units(S, v) = Units(S, w) \cup More(x, w[x], k)
  <2>1. \A t : t \in Units(S, v) <=> \E y \in S : \E n \in 1..v[y] : t = <<y, n>>
    BY DEF Units
  <2>2. \A t : t \in Units(S, w) <=> \E y \in S : \E n \in 1..w[y] : t = <<y, n>>
    BY DEF Units
  <2>3. \A n : n \in 1..v[x] <=> n \in 1..w[x] \/ n \in (w[x] + 1)..(w[x] + k)
    BY <1>1
  <2>4. \A t : t \in More(x, w[x], k) <=> \E n \in (w[x] + 1)..(w[x] + k) : t = <<x, n>>
    BY DEF More
  <2> QED BY <2>1, <2>2, <2>3, <2>4
<1> QED BY <1>1, <1>2, MoreUnits DEF SumOver

\* The sum over one more summand.
LEMMA SumExtends ==
    ASSUME NEW S, NEW D, NEW w \in [D -> Nat], IsFiniteSet(Units(S, w)), NEW x \in D, x \notin S
    PROVE  IsFiniteSet(Units(S \cup {x}, w)) /\ SumOver(S \cup {x}, w) = SumOver(S, w) + w[x]
<1>1. PICK none \in Nat : none = 0
  OBVIOUS
<1>2. w[x] \in Nat /\ \A n \in Int : <<x, n>> \in Units(S, w) => n <= none
  BY DEF Units
<1>3. Units(S \cup {x}, w) = Units(S, w) \cup More(x, none, w[x])
  BY <1>1 DEF Units, More
<1>4. /\ IsFiniteSet(Units(S, w) \cup More(x, none, w[x]))
      /\ Cardinality(Units(S, w) \cup More(x, none, w[x])) = Cardinality(Units(S, w)) + w[x]
  BY <1>2, MoreUnits
<1> QED BY <1>3, <1>4 DEF SumOver

Credited == [d \in Deposits |-> credits[d] * Amount[d]]

\* What is counted can be counted.
SolventInv ==
    /\ Solvent
    /\ IsFiniteSet(Units(Deposits, Credited)) /\ IsFiniteSet(Units(spent, Price))

\* The balance is what was credited less what was spent, and covers every debit, for any number
\* of handlers that race: increments and the conditional decrement (wallet-debit.service.ts).
THEOREM BalanceAddsUp == Spec => []Solvent
<1>1. Init => SolventInv
  <2> SUFFICES ASSUME Init PROVE SolventInv
    OBVIOUS
  <2>1. Units(Deposits, Credited) = {}
    BY AmountAssumption DEF Units, Credited, Init
  <2>2. Units(spent, Price) = {}
    BY DEF Units, Init
  <2> QED BY <2>1, <2>2, FS_EmptySet DEF SolventInv, Solvent, SumOver, Credited, Init
<1>2. SolventInv /\ TypeOK /\ TypeOK' /\ [Next]_vars => SolventInv'
  <2> SUFFICES ASSUME SolventInv, TypeOK, TypeOK', [Next]_vars PROVE SolventInv'
    OBVIOUS
  <2>1. ASSUME NEW c \in Callers, CreditWallet(c) PROVE SolventInv'
    <3> DEFINE d == calls[c].deposit
    <3>1. d \in Deposits
      BY <2>1, CallFacts DEF CreditWallet, At, TypeOK
    <3>2. /\ balance' = balance + Amount[d] /\ spent' = spent
          /\ credits' = [credits EXCEPT ![d] = credits[d] + 1]
      BY <2>1 DEF CreditWallet
    <3>3. Credited \in [Deposits -> Nat] /\ Credited' \in [Deposits -> Nat]
      BY AmountAssumption DEF Credited, TypeOK
    <3> HIDE DEF d
    <3>4. \A e \in Deposits \ {d} : Credited'[e] = Credited[e]
      BY <3>2 DEF Credited, TypeOK
    <3>5. Credited'[d] = Credited[d] + Amount[d] /\ Amount[d] \in Nat
      <4>1. Amount[d] \in Nat /\ credits[d] \in Nat /\ credits'[d] = credits[d] + 1
        BY <3>1, <3>2, AmountAssumption DEF TypeOK
      <4>2. (credits[d] + 1) * Amount[d] = credits[d] * Amount[d] + Amount[d]
        BY <4>1
      <4> QED BY <3>1, <4>1, <4>2 DEF Credited
    <3>6. /\ IsFiniteSet(Units(Deposits, Credited'))
          /\ SumOver(Deposits, Credited') = SumOver(Deposits, Credited) + Amount[d]
      BY <3>1, <3>3, <3>4, <3>5, SumGrows DEF SolventInv
    <3>7. SumOver(Deposits, Credited) \in Nat /\ SumOver(spent, Price) \in Nat
      BY FS_CardinalityType DEF SumOver, SolventInv
    <3>8. balance >= 0 /\ balance = SumOver(Deposits, Credited) - SumOver(spent, Price)
      BY DEF SolventInv, Solvent, Credited
    <3>9. /\ balance' >= 0
          /\ balance' = SumOver(Deposits, Credited') - SumOver(spent', Price)
      BY <3>2, <3>5, <3>6, <3>7, <3>8 DEF TypeOK
    <3>10. /\ IsFiniteSet(Units(Deposits, Credited'))
           /\ IsFiniteSet(Units(spent', Price))
      BY <3>2, <3>6 DEF SolventInv
    <3> QED BY <3>9, <3>10 DEF SolventInv, Solvent, Credited
  <2>2. ASSUME NEW p \in Debits, DebitWallet(p) PROVE SolventInv'
    <3>1. Price \in [Debits -> Nat] /\ p \in Debits \ spent /\ Price[p] \in Nat
      BY <2>2, AmountAssumption DEF DebitWallet
    <3>2. /\ IsFiniteSet(Units(spent \cup {p}, Price))
          /\ SumOver(spent \cup {p}, Price) = SumOver(spent, Price) + Price[p]
      BY <3>1, SumExtends DEF SolventInv
    <3>3. /\ balance >= Price[p] /\ balance' = balance - Price[p]
          /\ spent' = spent \cup {p} /\ Credited' = Credited
      BY <2>2 DEF DebitWallet, Credited
    <3>4. SumOver(Deposits, Credited) \in Nat /\ SumOver(spent, Price) \in Nat
      BY FS_CardinalityType DEF SumOver, SolventInv
    <3>5. balance >= 0 /\ balance = SumOver(Deposits, Credited) - SumOver(spent, Price)
      BY DEF SolventInv, Solvent, Credited
    <3>6. /\ balance' >= 0
          /\ balance' = SumOver(Deposits, Credited') - SumOver(spent', Price)
      BY <3>1, <3>2, <3>3, <3>4, <3>5 DEF TypeOK
    <3>7. /\ IsFiniteSet(Units(Deposits, Credited'))
          /\ IsFiniteSet(Units(spent', Price))
      BY <3>2, <3>3 DEF SolventInv
    <3> QED BY <3>6, <3>7 DEF SolventInv, Solvent, Credited
  <2>3. CASE UNCHANGED <<balance, credits, spent>>
    BY <2>3 DEF SolventInv, Solvent, Credited, Units, SumOver
  <2> QED
    BY <2>1, <2>2, <2>3
       DEF Next, DepositRequest, Settle, vars, InitializeDeposit, GatewayPays, WebhookArrives, VerifyDeposit,
           HandleDepositWebhook, GatewayAnswers, MarkFailed, DoubleCheck, Crash
<1>3. SolventInv => Solvent
  BY DEF SolventInv
<1> QED BY <1>1, <1>2, <1>3, TypeCorrect, PTL DEF Spec
=============================================================================
