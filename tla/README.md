# HairLux API: a verification development

HairLux is a NestJS back end (TypeScript, Prisma on PostgreSQL, Redis with Bull
queues) for a chain of beauty salons: customers fund a wallet, book salon or home
visits, pay from the wallet, in cash or through the Paystack and Monnify gateways;
home visits are offered to nearby beauticians until one accepts; beauticians earn and
are paid out; staff are hired, work and are paid; stock is bought, approved, moved and
sold; customers are written to.

This directory holds TLA+ models of the parts in which several actors share state, the
TLC configurations that check them, and proofs in the TLA+ proof system. `src/` in this
text is the repository; `src/src/` is its application code. `PROJECT.json` maps every
definition to the lines it models.

## How the program runs, and what makes it hard

* One or more Node processes serve requests and run Bull workers. A handler is a chain
  of `await`s: between two of them any other handler, in this or another process, may
  run. So a value read before an `await` may be stale when it is used after it.
* `prisma.$transaction` is a PostgreSQL transaction at READ COMMITTED. Its writes appear
  together, but a plain read in it locks nothing; another transaction may commit between
  the read and the write. Only three things are safe: an `updateMany` that repeats the
  condition in its WHERE, a unique index, and `SELECT ... FOR UPDATE` (used in a few places).
* Most writes go by row id and overwrite whatever the row has become. JSON metadata is
  read, changed and written back whole.
* Many operations are several writes without a transaction: a process that dies, or a write
  that fails, leaves the first of them.
* Redis holds two locks (`SET NX` with 30 s), the queues, an index of beauticians, and copies
  of rows that live for minutes and are dropped after a change. Bull delivers a job at least
  once: it retries a job that throws, and gives the job of a dead worker to another.
* Gateways and identity services deliver a webhook any number of times, late, or not at all when
  the queue refused it (the controller answers 200 anyway).
* Time matters: an offer lapses after its timeout (45 s or more), a payment intent after
  30 minutes, an unconfirmed visit is confirmed by a timer, a night's job marks absences.

## Inventory

Components, the state each keeps, its operations, and what makes it correct. `PROJECT.json`
has the same list with the files, and what is left out of each.

| Component | State | Operations | Correct when | Here |
|---|---|---|---|---|
| Wallet deposits | wallet balance, deposit rows, webhook jobs | initialize, verify, webhook, debit | the balance is what was credited less what was spent; only exactly paid deposits are credited | WalletDeposit |
| Booking payments and refunds | bookings, payment intents, balance | create, initialize, verify, webhook, cancel (customer, admin) | every booking is paid for exactly and paid back at most once | BookingPayment |
| Dispatch, job assignment | dispatch status, offers, locks, jobs, attempt counters | matching pass, expiry, retry, wake, trigger, exhaustion, force-assignment, accept, decline | one winner, bounded offers, gives up only when nobody thinks, every offer resolved | Dispatch |
| Visit lifecycle, earnings, reservations | booking status, arrival PIN, finalize job, wallets | en route, arrive, verify, complete, confirm or time out, cancel, scan | paid for what was done, once; the beautician is released; confirmed in the end | Visit, Ledger |
| Availability, KYC, profiles, suspension | profile, sessions, video, index of those online | go on and off line, identity check, submit, review, suspend, lift | only the fit are offered jobs; a suspension holds and ends | Dispatch, Verification |
| Beautician payouts | payout requests, transfers, balance, daily pool | request, process, approve, webhook, settle | the wallet pays a request once, and only for a transfer that went out; a success is settled | Payout |
| Approvals | requests, stages | submit, approve, reject, hand over | approved only with every signature | Inventory |
| Inventory, purchases, sales | stock in buckets, movements, purchases, receipts | receive, allocate, adjust, transfer, sell, deliver, review, pay | stock is what moved it, once; deliveries, payments and statuses agree | Inventory, Procurement |
| Shop | orders, products, pictures, cached pages | check out, cancel, deliver, edit the assortment | goods, money and orders agree; pages are true | Shop |
| Salon bookings | bookings, lines, commissions, revenue | book, verify, start, edit, complete, cancel, delete | completed once and in full | Salon |
| Discounts, referrals, influencers | codes, uses, rewards | validate, sign up, deposit, demote | limits hold, rewards once | Promotions |
| Catalogue and branches | services, categories, what a branch offers, cached pages | edit, patch, replace, read | rows refer, pages are true | Catalogue, Staff |
| Finance of branches | books, daily counts, deadline | earn, count, set done | a count stands for the day it was made of | Takings |
| Attendance and leave | day records, requests | clock, nightly job, correct, approve | leave honoured, no-shows seen | Attendance |
| Payroll, payslips | slips, adjustments, staff wallets | generate, approve, recalculate, correct, override | pay arrives once; published is final; figures are sound | Payroll, Payslip |
| Staff payouts | withdrawals, transfers | withdraw, settle, reverse, change account | covered, and backed by a transfer | StaffPayout |
| Authentication, users, roles | accounts, sessions, tokens, PIN, roles, cached profiles | sign in, refresh, reset, grant, judge a request | tokens do not fork; judged by present rights; a PIN locks in time | Accounts, Credentials, Roles |
| Staff, onboarding | members, history, codes, checklist, documents | hire, transfer, link, submit, verify an address, acknowledge | the register agrees with itself; the checklist with what was done | Staff, Onboarding |
| Applications and jobs | applications, offers, postings | NIN check, submit, select, convert, publish | one whole hire of one person | Hiring |
| Customer letters | transitions, templates, sequences, sends, consent | detect, send, edit, unsubscribe | letters in measure and order, none forgotten | Campaigns |
| Gateways, Redis, database | external | – | – | as their callers use them |
| In-app calls and chat, mail, SMS, push, learning, storage, statistics, audit, reports | records | single writes, reads, I/O | – | not modelled (see below) |

Interactions: a payment that books a home visit queues the first matching job; a beautician who
leaves, comes, declines or lets an offer lapse triggers a matching pass; who may be found is
decided by verification, suspension and the index; a completed visit releases its beautician and
credits her wallet; deposits, bookings, refunds, earnings, shop orders, rewards and payouts all
change `wallets.balance`; an approval moves stock or makes a purchase; sales, salon visits and
deliveries move the same stock; a salon booking uses a discount code; bookings and sales make the
day's takings; attendance makes the pay, pay the staff wallet, the staff wallet the withdrawals; an
application makes an account and a member of staff; roles and sessions decide every request.

## Modules

| Module | What it is |
|---|---|
| `WalletDeposit`, `WalletDepositProofs` | deposits by two racing handlers, and debits; its theorems |
| `Dispatch`, `DispatchProofs` | matching, offers, accepts, availability, admins; its theorems |
| `BookingPayment`, `BookingPaymentProofs` | bookings, payment intents, refunds; its theorems |
| `Payout`, `PayoutProofs` | payout requests, Paystack transfers and their settlement; its theorems |
| `Visit`, `VisitProofs` | a home visit from acceptance to payment; its theorems |
| `Ledger` | abstract: an account changes only by posting an entry under a unique reference. `Visit` and `Shop` implement it |
| `Handlers` | what the following modules share: handlers, crashes, scenarios |
| `BackOffice`, `BackOfficeProofs` | composes `Inventory`, `Procurement`, `Shop`, `Promotions`, `Salon`, `Catalogue`, `Takings`; theorems about signatures, stock, salon bookings, daily takings and shop orders |
| `People`, `PeopleProofs` | composes `Attendance`, `Payroll`, `StaffPayout`, `Payslip`; theorems about days, pay and withdrawals |
| `Office`, `OfficeProofs` | composes `Accounts`, `Roles`, `Credentials`, `Staff`, `Hiring`, `Onboarding`, `Verification`, `Campaigns`; theorems about refresh tokens, rights and credentials |
| `Sums` | sums over sets as numbers of elements, which is how they can be proved about |
| `MC...` | the instances TLC checks: values, scenarios and symmetry only |

Modules that work on the same rows extend one another, in the order above (`Procurement` and `Salon`
use `Inventory`'s stock and approvals, `Hiring` uses `Staff`'s, and so on), so
what one does to the other's rows is an action of the composition.

**One scheme.** A handler in progress is a record with a *stage*, the `await` it is at; an action
takes it from one stage to the next, with the reads and writes of that stretch of code. What it
read earlier and will still use goes with it (`saw`). Where the code reads and then writes without
repeating the condition these are two actions; where an `updateMany`, a unique index or a row lock
protects the write they are one. Definitions called `...Unchecked`, `...Again` and the like, each
under the words "Faulty variant", are not part of the models: they are bugs the code could plausibly
have, and each makes one property fail (`mutants` in `PROJECT.json`).

**Routes.** `...Request` operators say what may come in: one for each group of routes of a controller (`SignUpRequest`,
`GrantRequest`, `DeskRequest`, ...), each the operations those routes call with the inputs their DTOs admit. Routes that
only read are no step. `...Step` operators are the handlers' further steps.

**Handlers and scenarios.** The modules over `Handlers` share its variables: `calls` (what each of
two handlers is doing), `crashes`, `started`, `overlapped` (a history variable: two handlers have run
at once), and `scenario`, the set of operations a behaviour uses. `scenario` is chosen at the start
and never changes. It keeps apart what shares no rows, so that a run explores each operation with
those that touch the same rows, to the depth `MaxCalls[scenario]`, and not the product of everything.

**Overlap.** Much of this code is correct only when handlers do not overlap: it checks, and then
writes by id. The properties say so where it is so: `overlapped \/ ...` in a property means that the
code promises it one handler after the other (crashes included), and that TLC found overlapping
handlers to break it. Where a property has no such escape it holds for handlers that do overlap.
The escapes are therefore the list of what is not protected; "What the code does not keep", below, names them.

### WalletDeposit

State: the deposit's `status`, what the gateway received (`paid`), `balance`, the webhook
`jobs`, and the callers. `credits` and `spent` record what the two kinds of ledger rows say.
`verifyDeposit` and the Paystack and Monnify processors have the same shape – read the row,
learn the gateway's verdict, then a transaction that reads the status again (`DoubleCheck`)
and writes (`CreditWallet`) – and are the two kinds of caller. `MarkFailed` is the unconditional
FAILED write. `DebitWallet` is the conditional `updateMany` of `wallet-debit.service.ts`.

### BookingPayment

A *key* is the idempotency key of the app: it names at most one booking (unique index) and
at most one intent (unique reference). `create` reads, then books and debits in one
transaction (`CreateCommit`). `initializeBookingPayment` splits the price of the moment between
the wallet and the gateway (`Initialize`, `InitializeWrite`). `verifyBookingPayment` is the chain
Verify – ExpireIntent – LookUp – AskGateway – MarkNotPaid / ConfirmGatewayPayment –
CheckContext – Fulfil; a webhook job runs the same chain with attempts. `Fulfil` is the one
transaction that locks the intent's row. `RecordFailure` writes the metadata that was read at
the start over whatever is there. The two cancellations read the booking, and later write and
refund in one transaction, where the REFUND reference's unique index undoes a second one.
`price` changes by itself: it stands for services, branch prices and discounts together.

### Dispatch

State: the booking row (`status`, `assignee`, `dispatch`, `exhausted`), the `offers` table,
`availability`, the queue (`jobs`, `timers`), the two locks (`pass[b]` is the pass that
holds b's flow lock; `assignLock`), and the flows in progress. A pass goes through the
stages of `runMatchingPass`: count the live offers, prepare the attempt, search, and either
make offers (count again, insert, transition to OFFERING, schedule the expiry) or deal with
having found nobody (search later, or mark exhausted). `PassAfterTrigger` is
`continueMatching`: a trigger that finds the lock held is dropped. Expiry is a conditional
update; declines write by id; accepts take the assignment lock, check, and commit with a
conditional update of the offer but not of the booking. `tokens` are one-time keys:
the wake dedupe key and the idempotency keys of exhaustion events, which
`dispatch-state.service.ts` looks up before it writes.

Abstractions: ASSIGNED stands for the six statuses of a job in progress (Visit has them); which
eligible beauticians a search returns, and in which order, is a free choice; so is whether an empty
search is repeated (the radius and attempt counters; `MaxDelays` bounds it) or given up. A pass
is assumed to end within the 30 s of its lock. `made` in a pass keeps an offer from lapsing
before the pass that made it has ended, since offers live 45 s or longer.

### Visit and Ledger

State: the booking's `status`, what the row says of arrival and completion (`row`), the PIN in
Redis (`pin`, of the `pins` given out), the finalize `job` with its attempts, `availability`, the
beauticians' wallets (`account`), the references `posted`, and the handlers. `MarkEnRoute`, `MarkArrived`,
`VerifyArrival`, `CompleteService`, `ConfirmCompletion`, `Finalize`, `CancelBooking`,
`UpdateStatusAdmin` and `UseReservation` each begin with the read that checks the one step of
HOME_SERVICE_TRANSITIONS and go on with the writes, by id, of the code: a slow handler may take a
visit back, and does in the model. The credit of the earnings is one transaction under one
reference for each booking. That it is the only thing that changes a wallet, and at most once for each visit, is
`EarningsPostedOnce`: the refinement `LedgerOfEarnings == INSTANCE Ledger WITH ...`.
`Shop` uses `Ledger` in the same way for customers' wallets: an order's price and its refund are
the references (`WalletsFollowOrders`).

### Payout

State: the `payout_requests` rows (status, transfer reference, transfer code), the wallet's
`balance`, how often each request was taken from it (`debits`, the PAYOUT_COMPLETED ledger
rows), the transfers as Paystack knows them, the webhook `jobs` with the attempts they have
left, and the callers. `createRequest` is CreateRequest – Reserve – CreatePending, or, when
payouts are automatic, goes straight on to `initiateForUser`: CheckBalance – CheckAvailable –
StartTransfer – SendTransfer – HandleTransferOutcome, with SendFails – CancelRequest when the
call to Paystack throws, whether or not Paystack has taken the transfer. Admins begin
`processPendingRequest` and `approveTransfer`, workers `HandleTransferWebhook`. Settling is
`CompleteTransfer` (the reads of its transaction) and `DebitAndComplete` (its writes, undone as a
whole by the ledger reference's unique index), or `RejectTransfer`.

A transfer's state `waiting` stands for Paystack's pending, queued and otp; a failure of any
kind is `failed`. Paystack tells the truth about transfers, as often as it likes and in any
order, but an event is in the queue once at a time.

### The back office

* **Inventory** begins with the approval engine: `Submit`, `MayAct`, `WriteApproved`, `WriteRejected`,
  `WriteReassigned` are the parts that it and `Procurement` build their handlers from, as
  `inventory.service.ts` and `purchase-request.service.ts` call `ApprovalService`. A stock row has three buckets; each movement is recorded beside it, and
  `StockIsMovements` compares the two. Sales and transfers decrement, adjustments and allocations
  write what they computed. A sale is of the lines of its request, which are checked one by one: `Baskets`
  has some that name an item twice. **Procurement** adds requests, purchases, deliveries, their review
  and payments; only a review puts goods into the store. A delivery and a review are likewise of entries, one or
  two for a line (`OneOrTwo`), each checked alone; `repeated` remembers where that happened.
* **Shop**: an admin's change of a product is several writes and Cloudinary
  calls; cached pages are dropped after it. A checkout is one transaction with a unique
  idempotency key and conditional decrements; an admin's change of an order is a read and a write by id.
* **Promotions** and **Salon**: a use of a code or campaign is checked, and later counted; rewards
  and bonuses have unique references. Completion of a salon booking is one transaction, which
  takes the lines and the services' recipes from the stock of `Inventory`, books the revenue, and is undone as a
  whole when the commission's booking exists already.
* **Catalogue**: services, categories and their images, what a branch offers (replaced in one
  transaction, or patched item by item), and the cached pages. **Takings**: incomes of four sources
  with the time they were done, the daily count against them, and its deadline. A visit may be deleted, also a completed
  one; `rewritten` remembers whose rows were changed or deleted after they were done. Time is counted in
  half-days and passes in the one scenario in which a day is counted.

### The staff

* **Attendance**: a day has four parts; the night's job runs after it. Leave is a request, its
  approval, and one record a day, each its own write.
* **Payroll**: one period. Generation writes a slip and, under a unique reference, credits its net pay;
  recalculation and correction credit the difference. **StaffPayout**: a withdrawal locks the wallet's row
  to reserve; the gateway may refuse, lose its answer, repeat its webhook, or reverse. Its completion reads the wallet and
  compares (`CompleteTransfer`), and takes the amount later, without asking again (`DebitWallet`); only the
  transaction's unique reference keeps a second debit of the same request out. `mishaps` remembers that an answer was lost,
  or that two completions of one member stood between the comparison and the debit.
* **Payslip** is the computation of one slip as operators: `computePayslipFigures`, the split of a
  period by the transition from salary to commission, the alternating calendar, and
  `applyManualOverrides`. A handler picks a sheet of input and `PayslipSound` compares what comes
  out with what each figure should do. Amounts are chosen to divide evenly. Sheets of a month without
  workdays are among them: there an override of the base salary divides by zero and every sum it enters is
  not a number (`DividesByZero`). `SameOverrideChangesNothing` excludes just that, and `NumberButWithoutWorkdays` says
  that nothing else does it.

### The office

* **Accounts**: one row for each e-mail, its one session, refresh tokens, codes. **Roles**: roles and
  permissions, the two caches in front of them, and a request that is judged by both. A new account
  of an e-mail has a new id: the last entry of the audit log (`audit`) is not about it. **Credentials**:
  reset links, the PIN and its lock, phone numbers, addresses.
* **Staff**: members, branches, codes and history, and the copy of a record that the next handler may
  read in place of the row. **Hiring**: the application's path with its own table of transitions
  (`TransitionsOf`), and the conversion as a chain of writes in other services. **Onboarding**: checklist, address
  visit by an outside service, documents and directives.
* **Verification**: KYC sessions and webhooks, profile and video, review, suspension with its delayed job,
  and the index of those online, which is written apart from the rows. A beautician is OFFLINE, ONLINE, OFFERED or
  ON_JOB, with a `job` or without: offers, accepts, force-assignments and releases are here for what they write
  to the row and the index, each at its place among the awaits (who wins an offer is in Dispatch). Some history
  variables name the known gaps, each of which excuses one beautician and not the rest: `returned` (back from a suspension or
  a job without being put on the index), `astray` (put back on it while suspended, or left there), `unlifted` (her job
  fired too early and is gone).
* **Campaigns**: the nightly detection and the run that sends, each of which may die, or be slow so that a second one
  overlaps it; sends and step sends are rows, letters are what was really sent. `LettersInMeasure` bounds
  the letters sent twice by what the unique indexes do ensure: each costs a run that died, or that the row of the
  other stopped (`slips.stopped`).
  The clock ticks while no handler runs, except in the scenarios called "slow".

## Runs

`CHECK_DEADLOCK FALSE` is in every configuration because the systems may stop: when nobody
asks for anything more and the bounded interferences are used up, nothing is left to do.

| Run | Shows | States (distinct), about |
|---|---|---|
| `wallet` | two deposits, two handlers at a time, two webhook deliveries each, a crash, two debits: Solvent, CreditOnlyWhatWasPaid, CompletedIsCredited; and under fairness WebhookCredits | 449,000 |
| `wallet_race` | a verify call and a webhook credit one deposit twice | stops at the violation |
| `payment` | one key, two handlers of any kind, any two of a price change, a crash, a database failure, a lapse, other spending: PaidInFull, RefundedOnce | 2,181,000 |
| `payment_webhook` | a webhook worked on after the intent's lapse never books | stops at the violation |
| `dispatch` | one booking, two beauticians, two offers, two flows, one interference of any of nine kinds: OneWinner, ExhaustedHasNoLiveOffer, NoTakeover | 3,221,000 |
| `dispatch_live` | cap 1, three offers over several rounds: LiveOffersWithinCap; and under fairness every offer is resolved though nobody answers: OfferResolved | 224,000 |
| `payout` | one request for the whole balance, two transfers, two handlers, two of a lost answer, a crash, other spending: DebitBacked, CompletedIsDebited; and under fairness SuccessSettles | 268,000 |
| `visit` | one visit, two handlers, any two of a cancellation, an admin's write, a scan, a crash, a failing database, a refused job, a lapsed PIN: VisitKept, EarningsPostedOnce (refinement), and under fairness ConfirmedInTheEnd | 681,000 |
| `backoffice` | two handlers at a time, one of which may die, in the scenarios of MCBackOffice: SignedFirst, StockKept, PurchasesKept, ShopKept (with its refinement of Ledger), SalonKept, PromotionsKept, AssortmentKept, CatalogueKept, TakingsKept | 560,000 |
| `people` | two handlers, a crash, a gateway that loses answers and reverses: AttendanceKept, PayAddsUp, WithdrawalsCovered, PayslipSound, PublishedIsFinal | 776,000 |
| `office` | two handlers, a crash, caches that expire, clocks: SessionsKept, RightsKept, CredentialsKept, RegisterKept, HiringKept, EmployedIsFinal, OnboardingKept, VerificationKept, CampaignsKept | 536,000 |
| `sequels` | a transition is closed after the first step of its sequence | stops at the violation |

A property called `...Kept` is the conjunction of its module's type invariant and of a few named
statements, each with its own comment in the module; the conjunct that fails is what TLC names.

**Bounds.** Every race needs two actors on one row and, at most, one further actor or mishap. Two
callers, two beauticians or two offers are the fewest for which "both" can happen; two
deliveries and two attempts are the fewest for which a retry can meet a success. Prices are {2, 3} with
2 in the wallet, so that a booking may be payable, payable only with the gateway, or become
unpayable. One payout request with two transfers is the least for which an answer may be about a
transfer its row no longer names. `visit` has one visit; that two visits of one beautician completed at once
still release her is outside that instance, and is proved (`VisitIsKept`). In the composed runs
`MaxCalls` starts two to six handlers in a scenario: enough for the longest chain that matters there (the stages of a chain of
approvals, order – cancel – deliver, book – verify – complete with an edit beside them, an
application's five steps) with one more beside it. `LastHalfDay` 4 is two days: a day and the next one's morning,
when it is counted. `MaxPictures` 2 lets two pictures meet; `LastTick` 4 lets a cooldown of two days end;
three `Transitions` let two be open while a third is noted. The proofs
remove the bounds for the theorems below.

## Fairness

* WalletDeposit: a handler in progress goes on (Node's event loop; weak fairness of
  `Settle(c)`); a queued job is taken in the end although workers may be busy again and again
  (Bull polls; strong fairness per deposit). Customers, gateways and crashes are not fair.
* BookingPayment: the same, weak for `CallStep(c)`, strong for a worker taking a webhook job.
* Payout: weak for `CallStep(c)`, strong for some worker taking the job of a success. A call that
  waits for Paystack is answered or refused (the HTTP client's timeout). Admins, Paystack and
  webhooks are not fair.
* Dispatch: weak fairness of each pass, of the flows in progress, of the requests and
  force-assignments under way, of the queue (create jobs) and, for each offer, of the clock
  (`OfferDue`) and of its delayed job (`ExpireOffer`). Nobody has to accept, decline, come,
  go or ask: `OfferResolved` must hold for beauticians who never react.
* Visit: weak for `Handler(c)`; strong, for each booking, for the delayed job becoming due
  (`FinalizeDue`) and for some worker taking it (`Finalize`). Neither customer nor beautician has to do
  anything. `ConfirmedInTheEnd` is about a visit whose timer was set: when the queue refuses the job at
  completion, nothing confirms the visit but people, and the model shows it.
* The modules over `Handlers` have safety properties only, and no fairness.

## What the violations say

Each has an entry under `findings`, with the line it contradicts.

* `CreditedOnce` – the "lock" of `verifyDeposit` is a plain read.
* `WebhookBooks` – after 30 minutes `verifyBookingPayment` writes FAILED before it asks the gateway,
  and a FAILED intent is never confirmed or fulfilled.
* `SequenceRunsThrough` – a step that was sent counts as nothing left to wait for, so the transition is
  closed and its sequence's second step is not sent, although a comment says that it always is.

Others are not runs of their own, for want of room beside the twelve there are; the model has each of them, and the
property that would say otherwise excuses it by name, unless this list says that it is left out:

* `purchase.service.ts:242`: "each line is reviewed exactly once". A review that names a line twice credits it twice
  (`repeated` in `PurchaseAddsUp`): the check at 256 reads what earlier reviews did.
* `staff-payout.service.ts:193`: the balance is said to be checked again, at the only place a debit happens. It is a plain read
  (203), and the debit (207) asks for nothing: after a lost answer, completions of two requests of one member
  both pass and overdraw the wallet (`NotOverdrawn`).
* `payroll-engine.service.ts:489`: figures that "can never end up internally inconsistent". A month without workdays divides
  by zero (573; `NumberButWithoutWorkdays`).
* `lifecycle-campaign-send.service.ts:73`: the unique constraints "guard against ever double-sending". The letter goes before the
  row: a run that dies between them, or two that overlap, send it twice (`LettersInMeasure`).
* `dispatch-admin.service.ts:376`: the lift "no-ops" if the suspension was extended. It reads and later writes
  by id, so it lifts one extended in between (`SuspensionHolds`).
* `application.service.ts:1489`: the backfill of pay never overwrites a pay that is there; it does when the pay was set
  between its read and its write (1466; left out of the properties).

## What the code does not keep

The exceptions written into the properties, and what Dispatch and Payout take as steps without a
property, are behaviours of the code that TLC has reached. Those that contradict a comment are listed above. The others that matter most:

* **Dispatch.** A cancellation between an accept's check and its commit is overwritten; a trigger that finds the
  flow lock held is dropped; a retry removes the expiry jobs of offers that stay; a decline writes
  DECLINED by id over an accepted offer; an offer may be left with one who has gone offline.
* **Payouts.** Two admins who process one request make two transfers; two requests, each covered by the balance, exceed
  it together; a late 'failed' is written over COMPLETED.
* **Visit.** A cancelled visit does not release its beautician; a crash between the completion and the
  queue leaves a visit without a timer; a stale cancellation beside a confirmation refunds the
  customer and pays the beautician.
* **Stock and purchases.** An adjustment moves stock before its approval is written; a sale that names an item twice goes below
  zero (`product-sale.service.ts:33`); an entry of a delivery is compared with what earlier deliveries brought, so that one delivery that names
  a line twice brings more than was ordered (`purchase.service.ts:146`); sales and absolute writes lose
  each other's updates; payments of a purchase written from a stale sum are lost; an approved request whose
  handler dies has no purchase; a delivery during a review leaves FULLY_ACCEPTED beside an unreviewed line.
* **Shop and salon.** Delivered and cancelled at once, an order is refunded and DELIVERED; an added line's new total
  forgets the discount (`recomputeTotal`); two lines of one item are each compared with the whole stock.
* **Promotions.** Limits on uses are exceeded by two uses at once; the loser of two rewards writes
  FAILED over REWARDED; an influencer closed by an edit keeps the codes.
* **Catalogue and assortment.** Pages read before a change and cached after it; images orphaned by a crash; both
  ways to book switched off by two updates; a category move that does not look at names.
* **Takings.** Bookings an admin set done have no time and are done again by their code; a service added to a
  completed visit changes a counted day; so does the deletion of a completed visit (`salon-booking.service.ts:662`), whose amount
  stays in the books; two first deadlines make two rows.
* **Payroll.** Generation that overlaps itself, or a correction that dies before the credit, leaves wallet and slip apart; an approval that
  dies leaves slips DRAFT; a lost answer marks a transfer FAILED that was sent, and frees its amount; deductions
  above the pay make a wallet negative.
* **Office.** Roles given to staff do not drop the cached profile (`staff.service.ts:1300`); two PIN guesses read one
  count; a conversion that died cannot be repeated for its e-mail conflicts; a posting's public copy goes stale;
  an admin takes a draft to SUBMITTED beside another application of the same person (`application.service.ts:98`, 885);
  assigning a commission clears the pay of a member just hired (`commission-plan.service.ts:143`); an account that is
  there already is granted the kind STAFF (`application.service.ts:1338`; left out). The public form `POST /nin/verify` makes the
  paid lookup without any cooldown (`nin.controller.ts:9`): it changes no row, so `OneLookupPerCooldown` is about applications only.
* **Onboarding, verification.** A late webhook takes VERIFIED back to SUBMITTED; a new KYC session writes IN_PROGRESS
  over VERIFIED; a suspension that dies before its job is scheduled is never lifted; the lift's job that comes early asks for
  another under its own id while it still runs, so that the new one is dropped and the suspension stays
  (`dispatch-admin.service.ts:418`); a suspension takes the beautician off the index, then cancels her offer,
  which puts her back; the end of a job leaves her ONLINE and outside the index (`booking-participant.service.ts:82`), as does the end of a
  suspension; `updateProfile` may empty a profile that is under review (`beautician-profile.service.ts:37`); an
  approval of a video that was replaced meanwhile.
* **Letters.** A run that dies between letter and row sends it again; two runs overlap and the second aborts on a
  unique index; deleting a template shortens its pause.

Also noticed: `processInfluencerReward` and `incrementUsage` have no callers, `staff-operations`' check-in and
check-out no routes, and `optIn` none either, so that letters by SMS never go out.

## Proofs

Each theorem holds for every value of the constants: any number of deposits, keys, bookings,
beauticians, callers, offers, crashes and retries. They use only the named assumptions in the
modules, each of which TLC evaluates in the runs.

* **WalletDepositProofs.** `TypeCorrect`, `OnlyPaidIsCredited`, `CompletedHasCredit`, `BalanceAddsUp`. The
  inductive invariant adds what a handler knows: a caller at `lock` or `commit` works for a deposit that was paid exactly
  (the gateway's verdict never changes once given). `BalanceAddsUp` (`Solvent`) is about sums over the deposits: each
  step changes one summand, and lemmas about `SumOver` say what that does to the sum.
* **DispatchProofs.** `TypeCorrect`, `AtMostOneWinner`, `NobodyTakesOver`,
  `GivesUpOnlyWhenNobodyThinks`, `NeverAboveTheCap`. `TypeInv` adds to `TypeOK` what the records of
  flows refer to: `OffersNamed`, `PassesReady`, `AssignedHasWorker`, `CallsOnOffers`. On top of it:
  `AssignInv` is `WaitingNotWon /\ CommitsAreFirst /\ OneWinner` and gives the next two theorems.
  `CommitsAreFirst` is what makes it inductive: as long as an accept on its way to commit can still
  succeed, because its offer is still OFFERED, nobody else has won the booking – every way to
  win expires the other offers, and the commit's conditional update then fails.
  `ExhaustInv` is `PassNotExhausted /\ NobodyThinking /\ ExhaustedHasNoLiveOffer`: a pass on its way
  to give up, and an exhausted booking without a pass, have no live offer. `CapInv` is
  `RoomToInsert /\ LiveOffersWithinCap`: only the pass that holds the flow lock inserts, and what it
  counted bounds what is there.
* **BookingPaymentProofs.** `TypeInv` adds to `TypeOK` that a job being worked on has an attempt left.
  `MoneyInv` has one part per key, `Accounts` (what was taken and returned, by the booking's
  method), and one per caller, `SplitAgreed` (a handler past `CheckContext` carries the price the
  customer was asked to split, and the gateway has its part). `SplitAgreed` is needed because
  `Fulfil` uses what was checked stages ago: it says why the check is still good – the price
  may change after it, the agreed split does not.
* **PayoutProofs.** `TypeCorrect`, `DebitsBacked`, `CompletedHasDebit`. `TypeInv` adds that a job
  has one worker and an attempt left (`JobsHeld`), and that whoever asks Paystack has a reference.
  `MoneyInv` is needed because a handler settles what it was told stages ago, while the row may
  name another transfer by now: `Informed` says that what it was told is true and about its own
  request, `Account` that whatever a row names was made for it, `Told` that webhooks are true and unused
  references belong to nobody, `OneSender` that no reference is sent by two. `Kept` names what no step
  undoes – money that went out, and whom a transfer is for.
* **VisitProofs.** `TypeCorrect`; `VisitImplementsLedger`, that every step of Visit is a posting of Ledger or a
  stutter; `PaidWasDone` and `VisitIsKept`. `TypeInv` is `TypeOK` and `JobsHeld` (a job has one worker and an attempt left). `EarnedInv` is needed because what a
  handler checked may be old when it pays: what it saw – that the visit was done, or set by an
  admin – travels with it, and a row never forgets it. `CalmInv` is for the release: as long as
  nothing has failed, a beautician whose visits are all completed and paid and who is still ON_JOB is
  owed a release (`Owed`) by a handler that will find no active visit when it counts (`WillRelease`):
  of two that complete her last two visits at once, the one that counts last is that handler.

* **BackOfficeProofs.** `NothingUnsigned` (`SignedFirst`): what the code carries out was signed at every stage, however
  handlers overlap and die. First come the stages each part's handlers can be at (`...Acts`), so that a
  step of one part is seen to leave the others' rows and handlers alone; then the types of the approvals' rows and of what
  a handler remembers of them; then `SignedInv`: a handler about to write an approval remembers a row signed up
  to its stage, and the row there now has those signatures too, since no step takes a signature back.
  `StockStays` (`StockKept`): what a bucket holds is what its movements add up to, a request moves stock once, and no
  bucket falls below nothing. `StockInv` has the types – of the stock, of the salons' bookings, whose lines a
  completion takes from it, and of what their handlers remember – and, as long as no two handlers overlap, `StockCalm`:
  what the one in progress has found it still finds when it writes (`StockFound`: enough in the bucket, the sums
  it computed; `RequestFound`: the request was decided and has not moved anything yet). `SignedInv` is used in it: an
  approval written for a request without a chain decides it. `TakenIsThere` is where `overdrawn` comes in: every line of a
  sale or a booking, and a booking's recipes together, are compared with the stock, so that only an item on two lines can take more.
  `VisitsEarnOnce` (`SalonKept`), by `SalonInv`, in which StockInv's types are used. `Booked` holds whoever overlaps: the
  transaction that completes a booking is the one that writes its revenue, and it asks for the status first. `SalonCalm`
  holds until two handlers overlap: what the handler in progress has read of a booking (`VisitFound`) is what the row
  still says, and the totals are right but of the booking it is editing – which is why the theorem, like the property,
  excludes an edit that died between its writes.
  `TakingsAgree` (`TakingsKept`), by `TakingsInv`, whoever overlaps and whoever dies (but for the single deadline).
  `TakingsKept` is not inductive: a count would go wrong if its day went on. `CountHolds` adds that the
  counted day is over (`d < DayOf(clock)`), also of the count a handler is about to write, so that an income done
  from now on is done on a later day; and that an income in a count was done that day at that branch, or is rewritten, as a deleted one is.
  `RowDated` is needed for the bookings an admin set done: without a time they are of the day they were touched, and a row
  that was done and is no longer is among the rewritten, so that `RowChanges` – one row changes, and every count stands
  or is excused – covers every way to change or delete one.
  `ShopImplementsLedger` (`ShopKept`), by `ShopInv`: every step of the back office posts an order's price or its refund
  to its customer's wallet, or leaves the wallets alone. `GoodsRight` sums the orders paid and not refunded: checkout and refund move
  the same quantity off and onto the shelf, under the same condition as the posting. It needs that nobody has
  ordered a product before it is there, and so that one handler makes it (`OneCreator`), whose rows are written after it looked;
  and `OrdersRight`, that what was refunded had been paid. `OrdersCalm` is for the delivery: until two handlers overlap a
  refunded order is cancelled, and none that is cancelled is moved on.
* **PeopleProofs.** Four theorems, each for any number of members, days, slips, requests and handlers.
  * `StaffIsPaidWhatTheyHold` (`WithdrawalsCovered`), by `CoverInv`: a handler of a withdrawal stands at a step of
    that request's flow, and one about to tell the gateway is alone with it; what a row says fits what was sent; while no answer
    was lost and nothing taken back the open requests of a member fit the balance, because a request is checked and
    written under the wallet's lock (`ReservesFit`); and while completions of one member have not raced,
    whoever is about to debit is still covered (`DebitsCovered`). Either of the last two keeps the wallet from being overdrawn,
    so that it takes both mishaps.
  * `PublishedPayStays` (`PublishedIsFinal`). The property is about handlers that run one at a time, so the
    argument needs `Single`: as long as `overlapped` is false at most one handler is busy; `Phases` says what that one
    has found and still relies on.
  * `PayArrivesOnce` (`PayAddsUp`), by `PaydayInv`: each slip is settled – its wallet has its net pay under its
    reference – but for the one that the handler in progress is working on, and of that one the
    invariant says how far it has come, stage by stage. `Sound` adds that a balance is the sum of its transactions.
  * `DaysAreKept` (`AttendanceKept`), by `RecordsFit`, `LeavesInv` and `DaysInv`: each record, and one about to be
    written, is charged as its status says; a request about to be written still clashes with none; an approved leave is
    on record, or the approving handler still has its days to mark; and whom the night's job has not recorded is among
    those its sweep has yet to come to (`Behind`).
* **OfficeProofs.** Three theorems, each with every other part of the office at work beside the one it is about.
  As in the back office, `Handled` says first where the handlers of each part can be, and that they run one at a time until two overlap.
  * `SessionsAreKept` (`SessionsKept`), by `SessionsInv`: the types of the accounts' tables and of what a handler
    remembers of them, and two parts. `LineInv` holds whoever overlaps: a token has one successor, also counting the one that a
    handler is about to issue, because what a refresh spends it deletes by a conditional write, and whoever has spent it is
    the only one with that token behind it. `SessionCalm` holds until two handlers overlap: the tokens there are, and the
    one about to be issued, are of the session their account has now.
  * `RightsAreKept` (`RightsKept`), by `RightsInv`. `RightsCalm`, until two handlers overlap, one dies or staff are given
    roles: a cached profile or set of permissions is true, unless the handler in progress is about to drop it; what
    a request has read of both it still holds when it is judged (`Informed`); the audit log names an account's role,
    unless its entry is about to be written. `RemovalCalm` holds whoever dies: a role about to be deleted has no
    holder. Accounts are also written by sign-ups, staff administration and hiring: `Harmless` says what all
    those writes have in common – they leave what the cache shows of an account as it is, are about one without a
    profile, or are followed by the drop.
  * `CredentialsAreKept` (`CredentialsKept`), by `CredInv`, until two handlers overlap but whoever dies: a used reset link is
    nobody's any more and two users never have the same (`ResetsRight`); wrong PINs judged are at most those counted,
    plus the one being counted and one for each death, and at the limit the lock is shut or about to be (`PinRight`: `PinLocksInTime`
    alone is not inductive, for it says nothing of the count); a user's addresses have one default
    (`AddressesRight`); and what the handler in progress has read still holds when it writes (`Recalls`).

Assumptions: the constants' (`...Assumption`), named in the modules that declare them. They ask that numbers be numbers,
that days begin with 1, that there are finitely many incomes and orders to sum, that the goods of an order are a product's and on the shelf no fewer than none at first, that there is an admin role, as the seeds make one, that `"none"` (nobody, no role) is none of them, that
an unlocked PIN may be guessed wrong once, and that scenarios name operations; each is as TLC evaluates it in the runs.

Only model-checked: the liveness properties (`WebhookCredits`, `OfferResolved`, `SuccessSettles`, `ConfirmedInTheEnd`);
in the back office `PurchasesKept`, `PromotionsKept`, `AssortmentKept` and `CatalogueKept`; `PayslipSound`, whose figures are products and quotients that the SMT solver does not decide in
general; and in the office `RegisterKept`, `HiringKept`, `OnboardingKept`, `VerificationKept`, `CampaignsKept` and
`EmployedIsFinal`. The violation runs are counterexamples and need no proof.

## Not modelled

* **In-app calls and chat** (`comms`): a session is opened after an accept and closed after a cancellation, neither waited
  for, so an open may come after the close. The state is at the Stream service; it would be the next module.
* **Mail, SMS, push, tracking, realtime**: fan-out that no other state depends on.
* **Learning** (`lms`), site statistics, waitlist, audit trail: single writes.
* **Reports, analytics, earnings and performance screens**: reads.
* **Vendors' ledger** (`supplier`), inventory products: appended to, or single writes.
* **Candidate ranking, radius and rotation; open hours; generation of codes**: any result is allowed where they are used.
* **Storage**: transfer of files; which assets exist is in Shop and Catalogue.

## What is left

1. `comms` sessions, beside Visit and Dispatch.
2. The composition of BookingPayment, Dispatch and Visit: a paid home visit whose first search the queue refused.
3. Two payout requests at once (daily pool, available balance), and two visits in TLC's instance of Visit.
4. Theorems about the compositions: purchases in the back office, the
   register and the applications of the office. The argument of `VisitsEarnOnce` (one handler at a time, and what it found) fits them.
5. The vendors' ledger and the reports, against the rows they are summed from.
