# Mariva: a formal model of the hotel's back end

Mariva is the booking, front-desk and folio system of one hotel property: a
NestJS API over PostgreSQL (`src/apps/api`), a guest site (`src/apps/web`) and a
staff console (`src/apps/admin`). Everything the system must get right lives in
the API and its database: rooms are sold once, money is posted once, sweeps can
run twice, a day is closed once, and a request that fails half way leaves nothing
behind. These modules model that core, TLC checks them on small hotels, and TLAPS proves the
main results for every hotel.

All source paths below are relative to `src/`; `modules/` abbreviates
`apps/api/src/modules/`.

## 1. Inventory

Every request is one PostgreSQL transaction at READ COMMITTED, opened by
`apps/api/src/database/transaction-runner.ts`. Components call each other as
plain method calls inside that transaction; they share state only through
tables; they are concurrent because requests, the sweeps of the scheduler and
the gateways' callbacks are. Work that must not be undone or repeated is
registered with `afterCommit` and done once the transaction is in.

| Component | State it keeps | Operations | Talks to | What is hard | What makes it correct |
|---|---|---|---|---|---|
| State machine (`modules/booking/state-machine.ts`) | `booking.state` | `isLegalTransition`, `applyTransition` | booking service | every path of `LEGAL_TRANSITIONS` is reachable from several handlers | a state says what is charged and which room is held |
| Booking lifecycle (`modules/booking/booking.service.ts`) | `booking`, `booking_night`; hold clocks, owner, credential | hold, replace, confirm, cancel, check in, no-show, reinstate, check out, attach, presence, payment extension | counter, rooms, folio, payments | two inventory layers moved in one step; dates at their boundaries; reads that take no lock | `OwnsByState`, `RoomsByState`, `PayingGuestKeepsTheRoom` |
| Inventory counter (`modules/inventory/inventory.service.ts`) | `type_inventory(type, date, sold, total)` | reserve, release | every change to a stay, closures, sweeps | many stays over the same nights; locks in one order | `CountsTheOwners`, `NeverOverbooked`, `CyclesNeedTwoMovements` |
| Room assignment (`modules/booking/assignment.service.ts`) | `room_assignment` under an exclusion constraint | assign, move, change type, extend, shorten | counter, housekeeping | a stay has several rows, some in the past; which one is live | `InHouseHoldsTonight`, `NoTwoGuestsInOneRoom`, `HeldNightsAreBought` |
| Closures (`modules/inventory/closure.service.ts`) | rows of `room_assignment` with no booking, `total_rooms` | close, reopen | counter | races with sales of the same nights | `SellsOpenRooms` |
| Housekeeping (`modules/housekeeping`) | `room_condition` | set condition, out of order | check-in, check-out | written by the desk and by departures | `DepartedRoomAwaitsCleaning` |
| No-show sweep (`modules/booking/no-show-sweep.ts`) | none | one transaction over all missed arrivals | counter, rooms | one refusal rolls back all | `ReleasesAccepted` |
| Hold-expiry sweep (`modules/booking/hold-expiry-sweep.ts`) | none | cancels what either clock ran out on | bookings, payments | races the gateway and the guest | `EveryHoldEnds`, `PayingGuestKeepsTheRoom` |
| Business date (`modules/booking/business-date.service.ts`) | the rollover hour, a setting | current date; edit of the hour | everything dated | the date moves under a long stay, and an edit of the hour takes it back a day | `FrozenFiguresStand`, `ReconciledMoneyWasCompared` |
| Payments (`modules/payment/payment.service.ts`) | `payment` | open attempt, record success or refusal, page | bookings, folio, gateways | callbacks repeated, late, reordered, contradicting | `PaidIsPostedOnce`, `MoneyAndRoomTogether` |
| Gateway adapters (`vnpay.adapter.ts`, `paypal.adapter.ts`) | none | sign, verify, capture | payments | HTTP and signatures | not modelled |
| Folio ledger (`modules/folio/folio.service.ts`) | `folio`, append-only `folio_posting` | charge, pay, refund, reverse, policy charge, close | bookings, payments | a close races every writer; reversals of parts of a sale | `ClosedAccountsAgree`, `NoTaxOnAnUndoneSale`, `DrawerFollowsItsLine` |
| Room-charge sweep (`modules/folio/room-charge-sweep.ts`) | none | charges tonight, hourly | folio, bookings | runs many times a day; one refusal rolls back all | `NightChargedOnce`, `EveryNightIsCharged` |
| Cancellation policy (`modules/booking/cancellation-calculator.ts`) | none | charge by event and plan | folio | applied twice | `OnePolicyChargeStands` |
| Job runner and scheduler (`apps/api/src/jobs`) | advisory lock | run, check the second pass, trigger by hand | all sweeps | two doors, a rejected run, outside effects | `AskedOnce`, `EveryDueRowIsSwept` |
| Transaction runner (`apps/api/src/database/transaction-runner.ts`) | post-commit queue | run, drain | everything | a crash between commit and queue | `MessagesFollowTheMark`, `CancelledMoneyIsPaged` |
| E-invoice job, pre-arrival reminder | invoice reference; reminder mark | sweeps with an effect outside the database | job runner | the outside cannot be rolled back | `AskedOnce`, `MessagesFollowTheMark` |
| Pricing (`packages/shared/src/stay-quote.ts`, `modules/pricing`) | calendar prices, plans, promotions | quote, price of a night | bookings, folio | divisions that leave a dong over; which heads are extra; which promotion wins | `NightsSumToTheQuote`, `LinesSumToTheGrossAlways` |
| Shifts and cash book (`modules/operations`) | `shift`, `cash_book_entry`, `pending_item`, cash rows of `payment` | open, count out, pay in, record, correct, raise, clear | folio, payments | a drawer is counted while payments and reversals of its window are being written | `SignedCountsStand`, `MistakesAreUndoneOnce`, `ClearedItemsKeepTheirCredit` |
| Night audit and watchdog (`modules/reporting`) | `night_audit_snapshot` | charge, ask, freeze; page | ledger, bookings, business date | a date frozen once over a ledger and stays whose dates still move; days the process was down for | `FrozenFiguresStand`, `FrozenNightsAreCharged`, `DaysAreClosed`, `OpenDaysArePagedAbout` |
| Payment reconciliation (`modules/payment/reconciliation.*`) | `payment_reconciliation_run`, `payment_discrepancy` | take up a day, fetch, compare, file | gateways, payments, business date | date, hour, report and table are read in four statements; nights that are refused for good | `ReconciledMoneyWasCompared`, `DiscrepanciesAreReal`, `UnrecordedMoneyIsFiled` |
| Credentials and account links (`modules/auth/booking-token`, `modules/auth/guest`) | `booking_link`, `guest_user`, the credential and owner of a stay | mint, mail again, redeem, make the account, attach | bookings, Better Auth | the account is written on another connection, between two transactions | `AnswersAreAttaches`, `PoolNeverStarves` |
| Loyalty and tiers, mail queue | points, tiers; queued mail | | | points once per account; redelivery | planned (section 9) |
| Search, reports, profiles, feedback, RBAC, audit trail, configuration, web and admin | tables without a protocol of their own | | | | not modelled (section 8) |

`PROJECT.json` lists the components with their files and status, and the hazards
of the code, each at its line with the properties that would show it going
wrong.

## 2. Modules

| Module | Models | Used by |
|---|---|---|
| `BookingStates` | the transition table and the states a booking may be created in | `Stay` |
| `Stay` | the life of bookings against both layers of inventory: counter, rooms, closures, room condition, business date, no-show sweep | `MCStay`, `StayProofs` |
| `RowLocks` | the row locks every inventory transaction takes, statement by statement, and PostgreSQL's deadlock detector | `MCRowLocks`, `TransactionProofs` |
| `Funnel` | holds with their two clocks, payment attempts, gateway callbacks, the expiry sweep, the guest's own cancellation, the account link, the post-commit page and crashes | `MCFunnel`, `FunnelProofs` |
| `PaidStay` | what the funnel promises, abstractly: money and room move together | `Funnel` (refinement) |
| `Links` | booking links, the account made by following one, the attach, and the pool of connections | `MCLinks`, `LinksProofs` |
| `Tariff` | arithmetic: quote, extra persons, promotion, price of a night, tax decomposition, cancellation grid | `Folio`, `MCTariff`, `FolioProofs` |
| `MCTariff` | `Tariff` against reference definitions over bounded figures, as assumptions | `MCFolio` |
| `Folio` | the account: ledger, desk, gateway lines, policy charge, close, hourly sweep, check-out's balance | `MCFolio`, `FolioProofs` |
| `Drawer` | cash drawers under payments, reversals and the cash book, with the locks of their triggers; pending items | `MCDrawer`, `DrawerProofs` |
| `TradingDay` | the business date as a function of an instant and of the rollover hour | `NightAudit`, `Reconciliation` |
| `NightAudit` | charging, asking and freezing a day; the watchdog | `MCNightAudit`, `NightAuditProofs` |
| `Reconciliation` | the gateways' record held against the payment table, a day at a time | `MCReconciliation`, `ReconciliationProofs` |
| `JobRunner` | the advisory lock, the two passes, rollback, post-commit queue, crashes | `MCJobRunner`, `TransactionProofs` |
| `StayProofs`, `FunnelProofs`, `LinksProofs`, `FolioProofs`, `DrawerProofs`, `NightAuditProofs`, `ReconciliationProofs`, `TransactionProofs` | theorems and proofs: a module for each component, and one for the two that share what a transaction holds until it ends, `RowLocks` and `JobRunner` | |

The system is split where the code's own transactions split it. `Stay`, `Funnel`,
`Links` and `Folio` each see the booking row, but a different part of it: `Stay` the
nights and rooms, `Funnel` the clocks and the money on its way, `Links` the owner
and the address, `Folio` the account. `NightAudit`, `Drawer` and `Reconciliation`
read the ledger and the payment table from three sides: as the figures of a day,
as the cash in a drawer, and as what a gateway should know. A step of one that the
others do not read is a stutter for them.

### Stay

* `today` is the business date. `booking[b]` is the booking's state, type,
  arrival and departure; `sold` and `total` are `type_inventory`; `assignment` is
  `room_assignment`, closures included (their holder is `Closure`); `condition` is
  `room_condition`.
* `owns`, `guestRoom` and `strays` are history and are read by no guard: what the
  counter was charged for a booking, where the desk last sent the guest, and
  which irregular path the booking took (section 7).
* One action per handler: `Create`, `ReplaceHold`, `Confirm`, `Cancel`, `CheckIn`,
  `MarkNoShow`, `Reinstate`, `CheckOut` (booking service); `Assign`, `Move`,
  `ChangeType`, `ChangeTypeInto`, `Extend`, `Shorten` (assignment service);
  `Close`, `Reopen`; `SetCondition`; `NoShowSweep`; `Rollover`.
* An action is atomic because its handler locks the booking row first, the
  counter rows through the ordered locking read, and the room through the
  exclusion constraint. What those locks cost is `RowLocks`.
* The sweep's release and each handler's are guarded by the counter's CHECK
  (`Releasable`): a refused release disables the step, since the transaction is
  rolled back. `ReleasesAccepted` says it never happens to a sweep.
* A row of `room_assignment` is ended on a date (`Closed`) where the database allows
  it (`Closable`): its CHECK wants a night left in it, and its exclusion constraint
  is asked again, because the same UPDATE stretches a row that had ended earlier.

### RowLocks

A transaction is the sequence of rows it will lock (`todo`), the operation it
runs (`op`) and the rows it has (`holder`). `Program` gives each operation the
sequences its handler can produce: the booking row and then the nights in date
order (`Amendments`, of a `Movement`), two movements for a replaced hold, a type
change (`TypeChanges`) and a sweep, and any order at all for the closure's plain
`UPDATE` (`PlainUpdate`).
`DeadlockVictim` is PostgreSQL aborting one transaction of a cycle; nothing in
the code retries.

### Funnel and PaidStay

* `hold[b]` carries the state, the two clocks as time left (`ttl`, `grace`), the
  caller a hold counts against and whether its anonymous credential was given
  up; `attempt` is the payment row; `lines` counts PAYMENT lines per attempt;
  `admitted` are the requests that have read the cap and not yet inserted;
  `cancelling` are the cancellations that have checked a credential and not yet
  locked the booking; `afterCommit`, `paged`, `dropped` follow the page.
* `AskForHold`/`OpenHold` and `BeginCancelOwn`/`FinishCancelOwn` are pairs of
  steps because the code reads first, without a lock, and writes later.
* `RecordSuccess` and `RecordRefusal` are enabled for every attempt, gateway and
  transaction id at any time and any number of times: that is redelivery,
  duplication, reordering and contradiction. A report that matches no pending
  attempt changes nothing, as in `take`. `Crash` loses the queue.
* `Promised == INSTANCE PaidStay WITH ...` maps rows to the promise, and
  `MoneyAndRoomTogether == Promised!Spec` is checked and proved.

### Links

* `stay[s]` is the part of a booking the flow reads (state, contact address,
  owner, surrendered credential) and the cookie of the guest's browser; `link[l]`
  a row of `booking_link` with the address it was mailed to; `account[a]` the row
  of `guest_user`; `maker` and `answers` are history.
* A follow of an account link is a sequence of steps, `call[c].at`, each one
  statement or one transaction of `accountFromLink`: `ReadLink` (the offer),
  `FindAccount`, `CreateUser`, `VerifyAndSignIn` (Better Auth, on connections of
  its own), `BeginAttach`, `Spend`, `Attach` (one transaction) and `Answer`. `Fail`
  is a crash, a timeout or a caller who goes away at any of them: PostgreSQL rolls
  back what was open and what Better Auth wrote stays, so that a repeated follow
  starts from there.
* `Confirm` mints what `announce` mails (`Offered`), `Resend` is the desk mailing the
  account link again, `Expire` the link's own end. `RedeemStayLink`,
  `AttachProvenStay`, `SignUp`, `VerifyAddress`, `SetHoldContact` are the guest's other
  doors to the same rows.
* `InTransaction` is where a call keeps a connection between two steps. Every
  other step needs one that is free (`FreeConnection`) and gives it back. The guest
  is made an account between two transactions and not inside one, which is the
  reason that at most one connection of the pool is ever held by a call; the
  mutant of `InTransaction` opens the transaction first.

### Tariff, MCTariff and Folio

`Tariff` is the arithmetic, without state: the room under the plan's percentage
and the best promotion, the extra persons (the cheapest heads beyond the
included two), breakfast per head; the price of a night as the stay through it
less the stay through the night before; three lines from one gross price, the net
taking what the divisions leave over; the grid. Divisions of signed amounts drop
the fraction, as bigint division does (`Truncated`). `MCTariff` states what the
arithmetic is for, each as an assumption over bounded figures which TLC evaluates
at the start of the `folio` run, and section 5 proves for all of them: `NightsSumToTheQuote` (no dong is lost between the
nights, wherever a division left the odd one), `ReductionsStayWithinTheRoom`,
`ExtraPersonsAreTheCheapest` (over all choices of extra heads), `TheDeepestPromotionWins`,
`LinesSumToTheGross`, `SpentAndRemainingAreTheStay`. `Total` is the community modules'
left fold and `Ascending` a chosen order of the charges, forms the provers see into;
`PromotionRows`, `CandidateRows`, `PartyRows` and `QuoteRows` are the rows the schema's checks
admit.

`lines[s]` is the ledger of a stay's account, a line being named by its place.
`of` ties a tax line to its sale, `reverses` a reversal to its line. `Write` is
`ensureFolio` and the insert under the trigger that refuses a closed account.
Check-out is two steps, `ReadBalance` and `FinishCheckOut`, because the balance
is read on the pool before the transaction. Amounts are prices: the quote is
frozen when the stay is sold, the sweep posts `Nightly` of it in three lines, the
desk posts any of `Figures`, and the policy charge is `Penalty` over the calendar
prices of the nights. `on` is kept for the sweep's lines alone, the only place
where a line's date is read.

### Drawer

A request is a transaction of several statements: `Begin...`, then the row of the
drawer (`PutCashIn` takes it FOR SHARE, as the trigger of the payment and the cash
book does; `LockDrawer` FOR UPDATE, to count out), then the commit. `RefuseClosed`
is the trigger finding the drawer closed when the lock is granted. `tx[d]` is the
transaction of connection `d`, with the instant it began, because `now()` is that
instant and closings are compared with reversals by it. Every amount is one;
`Expected` is what a drawer should hold, `signed` the figure it was closed with,
`overtaken` the payments whose reversal was under way at the count.

### TradingDay, NightAudit and Reconciliation

`TradingDay` has the instant, the rollover hour, the date (`DateAt`) and its inverse
(`StartOf`). `MoveHour` is the edit of the setting, at any time; it may take the date
back a day, and both modules keep in `reopened` the days that were frozen or taken
up and are traded on again.

`NightAudit`: `stay` (the state of a booking, the date it is to leave on, the date read
by the request that holds its row), `agreed` (closed accounts), `line` and `correction` (the ledger
as a day's figures read it), `act` (one request at the desk, which reads the date
when it begins and writes when it commits), `snapshot`. A check-in, a check-out and a
shortening lock the row and read the date in `BeginRequest` and are written, or
refused, in a later step of `EndRequest`, so a freeze may come in between; `Extend` reads
no date, as `extendStay` reads none, and is one step. `missed` keeps the nights that
these steps add to a stay when they are frozen. `Audit(on)` is the job over
the date it is given: charge what is due, ask who is short, freeze what is
complete, all in the one transaction the job runs in, so that an account which
refuses its line (`Stuck`) disables the step, and so does a row it would charge and that
a request holds (`RowsFree`), since the sweep takes it FOR UPDATE. `SweepNight` is the hourly charge, or
one by hand for a night that was missed. `Pages` is what the watchdog pages about,
a function of the state, since it writes nothing.

`Reconciliation`: a run reads the date (`BeginRun`), then the hour (`ReadRule`), then
for each outstanding day, oldest first, the gateways' report (`Fetch`) and the table
(`Compare`); it commits with what it wrote (`Commit`) or loses it (`Abandon`). A
night may be refused after its report was asked for or once it is in hand
(`GiveUpNight`), as often as anybody likes: a gateway that does not answer, a report
or a row that cannot be read. It is left for the next run, which may be refused it
again; `run.unfinished` is what the run has paged about. `AskedAbout` is which attempts a
gateway without a window (VNPay) is asked about, by the instant they were opened at.
`Settle`, `Callback`, `OpenAttempt` and `EditHour` come between any two of them.

### JobRunner

`status[i]` says whether a row, as committed, matches a sweep's predicate:
`LATER`, `DUE`, `DONE` (swept) or `GONE` (settled otherwise). A run waits for the
advisory lock, makes its first pass, and then its second, whose residue must be
empty. `asked` counts requests made outside the database, those of rolled-back
runs left out (the port recognises a repeated one by its key), `sent` the
messages that left after the commit.

## 3. Runs

| Run | Instance | Checks | Shows |
|---|---|---|---|
| `stay` | 2 bookings, 2 rooms, 1 type, 2 nights, 1 closed or broken room, both check-in flags on | `RoomsByState`, `SellsOpenRooms`, `NeverOverbooked`, `InHouseHoldsTonight`, `NoTwoGuestsInOneRoom`, `DepartedRoomAwaitsCleaning` | the two layers of inventory and the guests agree |
| `stay_long` | 1 booking, 3 rooms, 2 types, 4 nights | `CountsTheOwners`, `ReleasesAccepted`, `OwnsByState`, `HeldNightsAreBought`, `GuestCanLeave`, `SleptNightsStayCharged` | long histories of one stay over type changes; no sweep is ever refused |
| `stay_unbought` | 2 bookings, 1 room | `NeverOverbookedAsDocumented` | **violated**: section 6 |
| `rowlocks` | 3 connections, 2 overlapping stays, 2 types, 3 nights, every operation | `CyclesNeedTwoMovements` | which operations can meet on a cycle |
| `funnel` | 1 hold, 2 attempts, 2 gateways, 2 transaction ids, `TTL` 1, `Window` 2 | `PaidIsPostedOnce`, `MoneyAndRoomTogether`, `EveryHoldEnds` | money is posted once and moves with the room, whatever arrives when; no hold lasts for ever |
| `funnel_holds` | 3 holds of 1 caller, cap 1, 2 requests past the read of it together, 1 attempt, 2 gateways | `HoldsWithinCap`, `CancelledMoneyIsPaged`, `PayingGuestKeepsTheRoom` | the cap and what concurrent requests add to it; no hold takes another's room, nor the sweep a paying guest's |
| `links` | 1 stay, 2 addresses, 2 links, 2 follows, 2 connections | `AnswersAreAttaches`, `PoolNeverStarves` | what a page says of a followed link is so, and stays so; the pool is never emptied by its own calls |
| `folio` | 1 stay of 1 night for three heads, 3 days, a promotion, service charge and tax, the desk acting on up to 5 lines; `MCTariff` | `ClosedAccountsAgree`, `NightChargedOnce`, `NoTaxOnAnUndoneSale`, `DrawerFollowsItsLine`, `OnePolicyChargeStands`, `EveryNightIsCharged` | every order of desk, gateway, sweep, stay and close; a fair sweep gets to every night of the stay |
| `drawer` | 2 desks, 1 operator, 2 drawers, 1 payment, 3 movements, 1 item, 3 instants | `SignedCountsStand`, `MistakesAreUndoneOnce`, `ClearedItemsKeepTheirCredit` | what a drawer was signed for stands, whoever was writing into it |
| `night_audit` | 1 stay of 1 night that may be extended to 2, 2 slots a day, 6 instants, 2 rollover hours, 1 edit of the hour, 1 act at the desk | `FrozenFiguresStand`, `FrozenNightsAreCharged`, `OpenDaysArePagedAbout`, `DaysAreClosed` | frozen days stand and are complete; open ones are caught up with or paged about |
| `reconciliation` | 1 attempt, 2 slots a day, 5 instants, 2 rollover hours, any number of refused nights, 1 rollback | `ReconciledMoneyWasCompared`, `DiscrepanciesAreReal`, `UnrecordedMoneyIsFiled` | a day marked as looked at was; lost money is found, or its night is refused again and again |
| `jobs` | 2 runs, 3 rows, 2 crashes | `AskedOnce`, `MessagesFollowTheMark`, `EveryDueRowIsSwept` | overlapping, rejected and aborted runs |

Every property of a passing run has a mutant in `PROJECT.json`: a bug of the kind
the code could have (a dropped guard, an off-by-one, a missing reset, an inverted
order), for which TLC finds the property violated under the run's own bounds. The
mutants stand next to the definition they replace. Each component module has a
`TypeOK` (`LocksTypeOK` in `RowLocks`); no run lists it, since it says less than the others: for
`Stay` and `JobRunner` it is a theorem.

### Bounds, and why they are enough

* **Bookings, rooms, nights.** Overbooking needs two claims on one room; a lost
  update needs two bookings on one night; a move needs a second room; a type
  change a second type; a boundary error needs a night before today, tonight
  and a night after it, which `stay_long` has for one booking, with room to
  extend. More bookings and rooms are covered by the proofs, which have no bound.
* `MaxWithdrawn` in `MCStay` limits the rooms that are closed or out of order at
  once; the booking ids, which the code never reuses, bound everything else.
* **RowLocks.** Three connections, so that a cycle may go through a transaction
  that could not close one of two by itself. `Begin` starts any program again
  after any other, so a run is not bounded in length.
* **Funnel.** `TTL` 1 and `Window` 2 make the payment window the longer one, as
  the deployed settings may; time left counts down to 0 and stays there, so time
  is unbounded. `HoldCap` and `MaxRequests` bound what one caller has in flight. The
  two runs are the two questions: two attempts on one hold contradict each other at
  two gateways (`funnel`), and a third hold gets past a cap of one only when two
  requests have read it together (`funnel_holds`). Both at once would be ten times
  the states. `HoldsWithinCap` with one hold less is violated there, so its
  allowance is used.
* **Links.** `Links`, which is finite, bounds the rows that are ever minted: two are a confirmation's
  pair, or a link and the one the desk sends after it, or one of a hold and one
  of the stay it became. Two addresses are the one named before and after, or the
  guest's and a stranger's. Two follows race over one link or over two of one
  stay; two connections are as many as the follows, which is where a pool can be
  emptied by them, and the argument for more is the same one.
* **Folio.** `MaxLines` stops the desk, never the sweep, on an account of that
  length: 5 lines hold a payment, a sale with its two tax lines and one more act,
  after which a last one may still add up to three reversals. The one figure of
  `Figures` is what the first night of the quote costs, so that an account can come
  to nothing. `BasisPoints` is 100 instead of 10,000, and the
  prices are of three digits: products of the decomposition must fit TLC's
  integers.
* **Drawer.** `LastInstant` bounds the closings and reversals that are begun: three
  are a reversal before, during and after one closing, or two closings of one
  operator with a reversal between. Movements are three because a correction of a
  correction needs them.
* **Night audit, reconciliation.** `SlotsPerDay` 2 with `Rollovers` 0 and 1 has an
  instant on either side of the hour; `LastInstant` 5 is three days, so that a day
  can be refused, caught up with and fall out of a `LookBack` of 2; 4, in
  `reconciliation`, is two that end and one that does not, which is enough for a
  backlog of two, for the day before the first, which falls out, and for an attempt
  opened too early for the day it is paid on. `Grace` is one slot. `MaxActs` bounds
  the desk, `MaxEdits` the edits of the hour in `NightAudit`, `LastDeparture` how far a
  stay is extended: by a second night, before or after that night is frozen.
  `MaxAborts` bounds the runs of reconciliation that are rolled back; the nights
  that are refused have no bound. The attempt is of a gateway that is asked about
  one attempt at a time; one that answers about a window (`Windowed`) is asked about
  every attempt, which the run has too where the bound does not bite.
* **JobRunner.** `MaxAborts` bounds crashes and thrown errors; a row comes to match
  once.

`CHECK_DEADLOCK FALSE` stands in the configurations of `Stay` and `Folio` (a calendar
that has run out with every stay over), of `Drawer`, `NightAudit` and
`Reconciliation` (the bounded clock and the ids run out) and of `Links` (no rows to
mint, nobody following): there the model stops, not the system. `Funnel`, `RowLocks`
and `JobRunner` are checked for deadlock; in `RowLocks` it shows that a victim ends
every cycle.

Symmetry is used where every constant it permutes is a model value that no
definition orders: bookings in `Stay` and `funnel_holds`; connections in `rowlocks`; desks' drawers and movements in `drawer`;
addresses and follows in `links`. The properties of those runs are safety
properties. Runs with liveness use none.

## 4. Fairness

| Spec | Assumed | Justified by |
|---|---|---|
| `Funnel` | `WF(Tick)`, `WF(Sweep)`, `WF(SendPage)` | clocks run; hold expiry is scheduled every minute; the queue is drained right after the commit. Nobody's request, guest's or gateway's, is assumed to arrive |
| `Folio` | `WF(ChargeRooms)`, `WF(FinishCheckOut)` | the sweep is hourly; a handler runs to its commit |
| `NightAudit` (`FairSpec`) | `WF(TimePasses)`, `SF(Audit(Today))`, `WF(EndRequest(s))` | clocks run; the audit is scheduled every hour over the date it is, and its FOR UPDATE is in the queue for a row until it has it, however many requests come one after the other; a handler runs to its commit or is rolled back |
| `Reconciliation` (`FairSpec`) | `WF(TimePasses)`, `WF(Sweep)` | clocks run; the sweep is scheduled every hour and runs to its commit, the rollbacks being bounded. No gateway is assumed to answer: `UnrecordedMoneyIsFiled` excepts a night that is refused again and again |
| `JobRunner` | `WF(Begin)`, `WF(Step)`, `SF(TakeLock)` per run | the cron re-fires; a run in progress proceeds; an advisory lock is granted to those who wait |

`Stay`, `RowLocks`, `Links` and `Drawer` have no liveness property and no fairness.
`PoolNeverStarves` is the safety form of "every follow gets on": while one is under
way, some step of one is enabled without anybody giving up. Its first half is of the
guards, and a theorem; its second, that the guards are `ENABLED`, is the run's.

## 5. Proofs

Proved with TLAPS for every value of the constants that the named assumptions
allow: finite sets of bookings and rooms, any calendar, any number of attempts,
gateways, callers, runs and rows, any prices and rates, any rollover hours.

**StayProofs.** `TypeCorrect` (`TypeOK`): the counters never go below zero, one
lemma per operation. `StatesOwnTheirNights` (`OwnsByState`) is not inductive
alone: a no-show must still be charged for its arrival night when the sweep gives
back the others, and a guest must have been charged from today on until a
shorten cuts the stay, so the invariant `Charged` carries `TypeOK` and what each
state has strayed from. `CounterCountsItsOwners` (`CountsTheOwners`) is by a general
step lemma about `Moved`: when the nights a step moves are the nights `owns` gains
and loses, counter and cardinality move together. `OpenRoomsAreSold`
(`SellsOpenRooms`) follows closures through every operation that rewrites
`assignment`. `NeverSoldTwice` (`NeverOverbooked`) is the consequence the hotel
cares about: claims are owners (`OwnsByState`), owners are the counter
(`CountsTheOwners`), the counter is within the total (`WithinTotal`, by the guard
`Sellable`), and the total is the open rooms (`SellsOpenRooms`).

What is given back follows from the same invariants. A booking charged for a night is
one of those its counter counts, so no release of a lost booking and no
no-show sweep, which gives back a set of such bookings a cell, takes a counter below
zero (`ReleasesGoThrough`); and every change of a guest's nights starts today or later
(`SleptNightsAreKept`).

The rooms need the longest induction. None of `RoomsByState`, `HeldNightsAreBought`,
`InHouseHoldsTonight`, `NoTwoGuestsInOneRoom` and `GuestCanLeave` is inductive: each reads the
latest row of a stay, and what a move, an extension or a departure makes of that row
depends on the rows before it. `Roomed` is `Charged` with

* `Covering`, `Apart`: every row has a night, and rows of one room come one after the
  other, closures too. This is the exclusion constraint as an order of dates, kept by
  every insert and every cut (`OneMoreRow`, `ClosedApart`, `CutApart`);
* the rows of one booking come one after the other as well, in whatever rooms, so
  that the latest is one row and comes last (`LatestLast`);
* what the state says of them: none (`HELD`, `CANCELLED`), one for exactly the stay
  (`ConfirmedRooms`), one for the arrival night (`MissedRooms`), none past today
  (`CHECKED_OUT`), and of a guest in house `GuestRows` and `GuestLatest`: within the
  stay, started by today, of the type sold where it still counts, the latest one in
  the room the guest was sent to and running to the departure. Each clause names the
  irregular paths of section 7 it does not survive.

One lemma per operation keeps it. From it come `StatesHoldTheirRooms`,
`RoomsAndCounterAgree`, `GuestsHoldTheirRoom`, `OneGuestToARoom` (two guests would hold one
room tonight, and rows of a room are apart), `DeparturesGoThrough` and
`DepartedRoomsAreDirty` (only a check-out departs, and the row it ends is the latest,
in the guest's room). The attempt to prove `GuestCanLeave` without an exception
is what showed the stretched row of an unbought guest in section 7; a TLC run
with the exclusion constraint in `Closable` then found it.

**FunnelProofs.** `Inv == Kept /\ Founded`: the rows' types, that a transaction id is
recorded only with a success, the three invariants themselves, and that no stay
an attempt names is unmade. From it follow `MoneyIsPostedOnce`, `PaidStaysAreSold`,
`WindowsAreCovered` (`WindowIsCovered`, which no run lists: `PayingGuestKeepsTheRoom` is
what it is for) and the action property `PayingGuestsKeepTheirRooms`.
`FunnelImplementsPaidStay` shows `Spec => Promised!Spec`: initial states map to
initial states, and each action to a named step of `PaidStay` or a stutter.
`CallersStayNearTheCap` (`HoldsWithinCap`) needs its own strengthening, `Budget`: the
holds that count *plus the requests on their way* are below cap plus requests,
since `OpenHold` turns one into the other.
`CancelledMoneyAlerts` (`CancelledMoneyIsPaged`) needs `Untaken`: money that was not taken has
landed on nothing yet, so that the one step which takes it decides both where it
landed and whether to page.
`HoldsRunDownAlways` is what `EveryHoldEnds` rests on, as far as single steps go: a stay
is held at most once; while it is, the attempts nobody has opened only become fewer,
its deadline grows only when they do, and then to no more than the window; a tick
lowers a deadline that is not yet zero; and a sweep takes every hold whose deadline
is zero. With finitely many attempts this is a well-founded order that the fair
`Tick` and `Sweep` go down. The tab's clock, which a guest can renew for ever, has no
part in it.

**FolioProofs.** `Inv` is the tables' types, `Sound(lines)`, `DrawerFollowsItsLine` and
`ClosedAccountsAgree`. A ledger only grows at its end and its lines look back (`of`
and `reverses` name earlier places), so every write is one of four shapes of
append: a line alone, a sale with its tax lines, the reversals of one, a policy
charge. A lemma per shape keeps `Sound`, and a lemma per action says which shape it
is. `ClosedAccountsCorrect`, `NightsCorrect`, `TaxesCorrect`, `DrawerFollowsCorrect` and
`PolicyCorrect` follow. Up to here amounts are integers and nothing else: no step of
that induction depends on what a night costs.

*The arithmetic.* `Tariff` sums with a fold, and TLA+'s fold is a `CHOOSE` of a function on
the subsets of the indices, so nothing follows of a sum before there is such a
function. `FoldExists` shows it for every length: there is no shortest list without
one (`LeastOf`, from the library's well-founded induction on the naturals; `UpTo` is
induction over a *set* of numbers, which the provers can instantiate). From it a
sum is the last of its running sums (`TotalIs`, `OneSum`), splits (`TotalSplit`) and is
not negative (`TotalNat`). The sort is the same kind of `CHOOSE`; that an order exists is
insertion (`OneMoreOrdered`). Then each of what `MCTariff` evaluates over small figures holds for
every figure, length and party:

* `NightsSumToTheQuoteAlways`: the nights telescope. That none is negative needs that what
  a plan and a promotion leave of a room rises with the room (`PlansRise`,
  `LeftoversRise`), divisions included.
* `ExtraPersonsAreTheCheapestAlways`: of k different places in a sorted list one is at k or
  later (`OneReachesFar`, a pigeonhole), and exchanging it proves the rest.
* `TheDeepestPromotionWinsAlways`: an invariant of the fold over the candidates (`BestRuns`).
* `LinesSumToTheGrossAlways`, by the oddness of a division that drops the fraction, and
  `TheNetTakesSixAtTheWorst`: with rates of at most 100% three dropped fractions come to less
  than seven dong, of whatever price ("six at the worst rates", says the file's header).
* `ReductionsStayWithinTheRoomAlways`, `SpentAndRemainingAreTheStayAlways`,
  `PenaltiesStayWithinTheStay`.

*The money on the account.* `Money` is a second invariant, proved over the first: `TypeOK`, and of every
account (`Billed`) that its lines have the signs of their types, that a swept night
stands beside both its levies and the three make its price, and that a policy
charge is no more than the nights the stay is priced for. A `Rebook` may lengthen
those nights and never shortens them, which is what keeps the last (`PricedLonger`).
It gives `TypesCorrect`; `SignsCorrect`, which says that the database's sign check never
refuses a line, so that no price stops the sweep's one transaction over all guests;
`SweptNightsCorrect`, `PenaltiesCorrect`; and, with the telescope, `SweptStaysCorrect`: whoever was
swept for every night to a date was charged the frozen quote of a stay to that
date, to the dong. No run lists these predicates, which are defined beside their
proofs. They rest on the schema's checks on rows, which `PlanAssumption`,
`MoneyAssumption` and the `...Rows` of `Tariff` state, and on rates of at most 100%.

**DrawerProofs.** `IInv` is the tables' types, that a row under way is nobody else's
(`RowsFresh`), what a request was told when it began (`Named`, `Told`), the row locks
(`Locks`: no share beside an exclusive lock), the instants (`Instants`: none is given
out twice, and none is ahead of the clock), `Overtaking`, and `MistakesAreUndoneOnce`.
`SignedCorrect` (`SignedCountsStand`) then follows each commit's effect on `Expected`:
payments and movements by the lock, reversals by their instant or by being in
`overtaken`. It needs `Payments` and `Entries` finite (`RowsAssumption`).

**NightAuditProofs.** Lemmas about the calendar, which `ReconciliationProofs` has too: a
date does not go back while the hour stands (`DateMonotone`), and an edit of the hour
moves it by at most a day (`HourMovesADay`). `IInv` of the audit is the rows' types, what a request
at the desk read (`Begun`), that a frozen day which is not in `reopened` is over
(`Past`), that what was begun on a frozen day was begun on one that is traded on
again (`Told`), that late rows are rows of frozen days, and the two invariants
themselves. What a stay covers moves with every extension and shortening
(`RequestsWriteBookings`): a night that a frozen day comes to be without was added by
`Extend` or by a check-in, and both put it in `missed`. The argument turns on `Past`: nothing is begun on such a day any more,
and an edit of the hour, which moves the date by at most a day, can only take it
back onto one by putting it in `reopened`.
`PagesCorrect` (`OpenDaysArePagedAbout`) is arithmetic over `Earliest`, and needs that a
set of dates bounded below has a least one.

**ReconciliationProofs.** `IInv` is the tables' types, `Recorded` (a success was settled),
`Started` (the days of a run were over on the hour it read first), `Comparing` (the
report in hand is what the gateway took on the day, of the attempts it is asked
about), `TakenUpDaysAreOver` (today is
none of the days taken up, or is in `reopened`) and `Accounts` (money of a day that was
compared is in what was compared, at every step of a run). `DaysCorrect` is `ReconciledMoneyWasCompared`, `RowsCorrect` the action
property `DiscrepanciesAreReal`.

**LinksProofs.** A follow is eight steps with anybody else's in between, so `Inv` says of
each `call[c].at` what was true of the rows when it was reached and still is:
`Follows` (the link it read is one for an account, mailed to the address it has, or sent
for a hold), who made the account it is about to sign in, that a link it has tested
is not spent yet, and, once attached, that link and stay say so (`Stands`).
`RowsStand` and `AccountsStand` say what no step of anybody undoes: a minted row keeps
its stay, purpose and address, a spent one stays spent, an owner stays the owner, a
credential that was given up stays given up, a confirmed stay keeps its contact, an
account is made once. `Outside` is the step of everybody else under these two,
`GetsOn` a step of a follow before its test of the link; `Spend`, `Attach` and
`Answer` have proofs of their own, on `Alone`: between the test and the commit one
follow has the row of a link, and one follow is on its way to its answer. That
a confirmation finds two rows for its two links needs `Links` finite
(`LinksAssumption`). `AnswersStand` is `AnswersAreAttaches`.
`FollowsNeverStarveEachOther` is the pool, on the same invariant: a follow keeps a
connection only from the start of its transaction to the commit, where nothing is
waited for but the row of a link, and whoever has that row can commit. So some follow
can go on whatever their number and the size of the pool. It is stated of the
guards, `CanGoOn`; the run checks that these are the steps' guards.

**TransactionProofs, of RowLocks.** `Orderly` says of every transaction of the three kinds
that keep the order (`create`, `amend`, `retype`) that what it holds comes before what it
has still to lock (`Before`: on an earlier night of the type, if it is a night of it),
and, of the first two, that all its rows are of one type; `ProgramAscends` proves it of
what the handlers lock, from `Movement`. Suppose then that a cycle of waits has none of
the other three kinds and at most one type change. Whoever holds a night that is waited for, and
does not change types, waits for a later night of the same type; and the one who
does cannot hold, of the type it waits for, a night as late as that. So the nights of that type that are
waited for go up for ever, and a hotel sells finitely many (`CyclesGoUp`).
`OrderedLocksDoNotCycle` is `CyclesNeedTwoMovements`, for any number of connections.

**TransactionProofs, of JobRunner.** `Inv` is `TypeOK`, `OneRun` (one holder of the lock),
`Asking` (a row written and not committed is still due, so nobody asked for it
before), `Queues` (a queue is what its run wrote until the commit, and done rows not
yet sent after it) and `MessagesFollowTheMark`. From it `TypeCorrect`,
`RequestsAreMadeOnce` and `MessagesFollowTheCommit`.

Every invariant of the passing runs, every action property, and the refinement are
theorems, but for one half of `PoolNeverStarves`. Only model-checked:

* all liveness (`EveryHoldEnds`, `EveryNightIsCharged`, `EveryDueRowIsSwept`,
  `DaysAreClosed`, `UnrecordedMoneyIsFiled`), which is out of the prover's reach
  (`HoldsRunDownAlways` is the part of the first that is about steps);
* the half of `PoolNeverStarves` that is stated with `ENABLED`: that `CanGoOn` is when a
  step of a follow can be taken.

## 6. Findings

One run expects a violation.

* **A no-show checked in at the desk buys nothing back** (`stay_unbought`).
  `checkIn` (`modules/booking/booking.service.ts:1442`) asks whether the state may
  become `CHECKED_IN`, which `NO_SHOW` may, and moves no inventory. The nights the
  sweep released can be sold to somebody else meanwhile. The state machine's
  table and the comment on `reinstate` say the nights are bought back or the
  transition fails.

## 7. Divergences without a run of their own

Met while modelling. The models do what the code does; where a property would
otherwise fail, it excepts the path by name (a value of `strays`, `revived`, an
account that is closed, `overtaken`, `reopened`), and says so in its comment.

**Stays, holds and money**

| Where | What the code does | Excepted in |
|---|---|---|
| `modules/booking/assignment.service.ts:399` | a type change after a late reinstatement releases nights that were never bought back | `Undrifted` |
| `modules/booking/booking.service.ts:1638` | a same-day reinstatement into another room than the one kept starts the row tomorrow | `unheld` |
| `modules/booking/booking.service.ts:1887` | a same-day check-out of such a guest closes a row before it starts, and the CHECK aborts it | `GuestCanLeave`, the arrival date |
| `modules/booking/booking.service.ts:1887`, `modules/booking/assignment.service.ts:286`, `:435`, `:724` | the row of a no-show checked in without buying its nights ended after the arrival night; check-out, a move, a type change and an early departure set its end to today whatever it was, which stretches it. If somebody was given the room meanwhile the exclusion constraint refuses, and the guest can neither leave early nor be moved | `unbought` in `GuestCanLeave` |
| `modules/booking/assignment.service.ts:715` | a move and an early departure on one day delete the row of the room slept in, and check-out dirties the other one | `dropped` |
| `modules/booking/booking.service.ts:515` | a replaced hold locks the new stay's nights and then the old one's, each in date order, so two guests who exchange stays can wait for each other; PostgreSQL ends it with an error to one of them. The header of the inventory service (`modules/inventory/inventory.service.ts:32`) says the ordering makes it unreachable | `CyclesNeedTwoMovements` names who can meet |
| `modules/booking/booking.service.ts:1077` | an attempt gives a hold past its TTL time again, after the cap stopped counting it | `revived` |
| `modules/booking/booking.service.ts:1074` | such a hold lives for a payment window, which may outlast the TTL the refusal promises | `WindowIsCovered` states the window |
| `modules/booking/booking.service.ts:2438` | a cancellation that read its credential before the stay was attached to an account goes through after | no property |
| `modules/booking/booking.service.ts:1850` | check-out reads the balance on the pool, before its transaction and with no lock on the account; a charge that commits in between leaves a checked-out guest owing money | no property |

**The account**

| Where | What the code does | Excepted in |
|---|---|---|
| `modules/folio/room-charge-sweep.ts:354` | an account at zero may be closed under a guest in house, and then every hourly run throws at it and rolls back the charges of the others | `EveryNightIsCharged` |
| `modules/folio/folio.service.ts:1319`, `:1200` | a reversal that was itself reversed still counts as one: a second policy charge may stand beside the first, and a payment row stays `REFUNDED` | `OnePolicyChargeStands`, `DrawerFollowsItsLine` read "reversed" as the code does |
| `modules/folio/folio.service.ts:1384` | the grid, applied before an early departure, prices nights the guest still sleeps and the sweep still charges | no property |
| `modules/folio/folio.service.ts:1344` | the policy charge is posted over the bare calendar prices of the nights, without the plan's percentage, the extra persons or the promotion the stay was sold with, so "the whole stay" of a non-refundable plan is not what the stay costs; `shortenStay` (`modules/booking/assignment.service.ts:670`) does the same, and counts nights by their dates where the policy counts postings | no property; `Penalty` and `NightPrice` show both |

**Drawers**

| Where | What the code does | Excepted in |
|---|---|---|
| `modules/operations/shift.service.ts:197` | a payment's reversal that began before a drawer was counted out and commits after it changes what the closed drawer should have held | `overtaken` |
| `modules/operations/shift.service.ts:586` | an item is raised against a drawer after a read of it that takes no lock, so one may be raised on a drawer that was closed meanwhile | no property |

**Days**

| Where | What the code does | Excepted in |
|---|---|---|
| `modules/reporting/night-audit.service.ts:253` | a departed stay is asked about by its `check_out_date`, which check-out (`modules/booking/booking.service.ts:1912`) leaves as booked: a guest who left a day early is reported for every night that was given back, no run can charge a departed stay, and each of those days is refused at every tick until it is too old to be closed; the comment at `:210` says "the stays that occupied this date" | `DaysAreClosed` (`Short`) |
| `modules/reporting/night-audit.job.ts:87` | an account that was closed under its guest rolls back the whole run, although "each day stands alone" | `DaysAreClosed` (`Stuck`) |
| `modules/booking/assignment.service.ts:492` | `extendStay` asks nothing of the date: a guest who stayed on past the booking and is extended afterwards has slept nights of days that are already frozen, which no run asks about again; only a run by hand that names the date charges them. The same is so of the first night of a check-in (`modules/booking/booking.service.ts:1433`) that read the date before the freeze and is written after it | `FrozenNightsAreCharged` (`missed`) |
| `modules/folio/room-charge-sweep.ts:282` | a guest who stays past the dates of the booking, and is not extended, is charged for none of those nights, and no day asks about them | `FrozenNightsAreCharged` (`Covers`) |
| `modules/folio/folio.controller.ts:199` | what the desk began before a day was frozen is written onto it afterwards; a night recovered by hand is, too | `late` |
| `modules/reporting/night-audit.job.ts` | the audit, run by hand over a date, closes the days before that date; over a date to come it freezes a day that is still being traded | `reopened` |
| `modules/booking/business-date.service.ts:134` | an edit of the rollover hour takes the date back onto a day that was frozen or reconciled, and money dated anew by it is never compared | `reopened`, `moved` |
| `modules/reporting/night-audit-watchdog.job.ts` | days before the first one ever frozen are not paged about | `OpenDaysArePagedAbout` |
| `modules/payment/reconciliation.job.ts:261` | a run reads the date and then the hour it is drawn on; an edit between the two makes it reconcile a day on another rule than it took it up by | `DiscrepanciesAreReal` (`run.first = run.hour`), `reopened` |
| `modules/payment/reconciliation.job.ts:305` | a night whose gateway never answers about it (`modules/payment/vnpay.adapter.ts:345`), or with a report or a row that cannot be read (`modules/payment/reconciliation.service.ts:826`, `:709`), is refused and paged about at every tick until it is too old, and its money is never compared | `UnrecordedMoneyIsFiled` (`run.unfinished`) |
| `modules/payment/reconciliation.job.ts:500` | a gateway that is asked about one attempt at a time is asked about the attempts opened within a day either side of the date; money of one opened earlier is in no report, and is filed as missing at a gateway that has it | `ReconciledMoneyWasCompared`, `DiscrepanciesAreReal` (`AskedAbout`) |
| `apps/api/src/jobs/job-runner.service.ts:171` | under read committed the second pass sees rows that came to match after the first, and rejects a correct sweep; the next tick picks them up | none needed |

**Links**

| Where | What the code does | Excepted in |
|---|---|---|
| `modules/booking/booking.service.ts:1128` | the announcement asks whether the credential was given up, not whether the stay has an owner: a signed-in guest's stay, with a contact address that has no account, is mailed an account link whose every follow makes the account and then ends in a conflict. The desk's resend (`modules/booking/account-link-resend.service.ts:174`) asks both | no property |
| `modules/booking/booking.service.ts:2204` | a link the desk sent for a hold, followed after the guest named another address, makes the account of the new address, as verified | `onHold` |
| `modules/auth/guest/guest-attach.service.ts:334` | a crash between the account and its verification leaves an unverified account, which the repeated follow attaches the stay to and nobody can sign in to before verifying, where the comment at `:275` says "an address this flow has already verified" | no property |
| `modules/auth/booking-token/booking-token.service.ts:582` | two account links of one stay, followed at once, are both spent: the read of the credential in the second one's `UPDATE` is of the booking as it was | none needed: both belong to one account |

## 8. Not modelled, and why

* Gateway adapters, HTTP, signatures: what they report enters `Funnel` as any
  report in any order, and `Reconciliation` as a report of what they took.
* The tables of prices, plans and restrictions: constants of `Folio`; a restriction
  only refuses, which an action that is not taken also does. Nights without a
  price are left out, in `Folio` and in `NightAudit`: the sweep sets such a night aside
  (`modules/folio/room-charge-sweep.ts:336`) and the day is refused for a guest who is
  still in house, where the model refuses it only for a guest who has left.
* Search, availability, reports, exports: reads only.
* Guest profiles, feedback, RBAC, audit triggers, other settings: single-row writes
  with no protocol of their own.
* Rate-limit windows: in-memory counters that narrow the input.
* Web, admin, shared packages: clients of the API.
* The soft share of a night that anonymous holds may take, the fee a reinstatement
  reverses, the instants that decide the free cancellation window (a choice made
  when a cancellation comes).
* Of `Links`: passwords, the cookie's own end, cancelled stays. The announcement and the
  resend are one step each, since no order of their reads changes what they mail.
  `SetHoldContact` reads its credential and locks the row in one step; a credential
  given up between the two is one more way to a contact that `onHold` covers.
* Of `Drawer`: entries that are not cash, the catalogue, lists. Of `NightAudit`: the rooms
  on sale among the figures; charges of the desk (`DESK_CHARGE`) are modelled and the
  configuration sells services only. Of `Reconciliation`: amounts that differ, the lag
  of a gateway's own report, and the resolution of a discrepancy.
* Of `Folio`: a change of the tax rates between a sale and its reversal, lists. The
  policy refund locks the account and reads the booking, the lines and the nights in
  three statements (`modules/folio/folio.service.ts:1275`, `:1309`, `:1340`), which the
  model makes one step: the lines are the locked account's, and a booking or nights
  that change between two of them give an amount the grid would have given before or
  after, which no property distinguishes. More stays than one are in the proofs only:
  the run shows `EveryNightIsCharged` of one, and not that one refused stay keeps
  the others from being charged, which section 7 reports.
* Loyalty and tiers, the mail queue: planned, below.

## 9. Plan

Done, in the order of importance: `Stay` with its proofs, `RowLocks`, `Funnel` with
`PaidStay` and its proofs, `Folio` with `Tariff` and its proofs, `JobRunner` with its
proofs, `TradingDay` with `NightAudit` and `Reconciliation` and their proofs, `Drawer` with
its proofs, `Links` with its proofs, `RowLocks` with its proofs.

Next, components:

1. `Loyalty`: points once per account, tiers as a function of the window.
2. The mail queue: a message redelivered after a crash of its worker.
3. The free cancellation window as a comparison of instants, on `TradingDay`.

Next, proofs: more abstract specifications with a refinement, as `PaidStay` is of
`Funnel`: a drawer that is signed once, a day that is frozen once, a link that is
spent once.

## 10. Running

    tlc -config MCStay.cfg MCStay
    tlapm StayProofs.tla
