# A TLA+ model of pymaker

pymaker is the Python client library of the Maker keepers: long-running
programs that watch the chain and send transactions.  This directory holds
TLA+ modules that model the parts of it where threads, tasks and a remote node
interact, and the clients of contracts that calculate or decide something from
several reads of a chain that moves on; TLC configurations that check them on small instances, and proofs
that TLAPS checks for every value of the constants.

References such as `__init__.py:743` are to files under `src/pymaker/`.

## 1. Inventory

| component | source | state | operations | what is hard |
|---|---|---|---|---|
| Transact engine | `__init__.py:446-793` | `next_nonce`, `nonce_calc`, `transaction_lock` (module globals); `nonce`, `replaced`, `gas_price`, `gas_price_last`, `tx_hashes`, `status` of each object | `transact`, `transact_async` | threads share globals; a replacement reads another object's attributes; refused sends, lost answers, late receipts |
| Recovery | `__init__.py:419-443, 796-861` | the same attributes of `RecoveredTransact` | `get_pending_transactions`, `cancel_async` | restart with transactions pending; bids outside the lock |
| AsyncCallback | `util.py:100-161` | `thread` | `trigger`, `wait` | unlocked attribute of two threads |
| Lifecycle | `lifecycle.py` | three termination flags, `_last_block_time`, the timers | `on_block`, `on_event`, `every`, `terminate`, signals, main loop, shutdown | flags against shutdown, events between wait and clear, dead watches |
| Filter threads | `__init__.py:49, 100-123` | `filter_threads` | register, alive, stop | detection of a dead thread |
| synchronize | `util.py:47-55` | a fresh event loop | gather | tasks share a thread, `transact` calls do not nest |
| Gas strategies | `gas.py` | parameters | `get_gas_price(elapsed)` | monotonicity, caps, the 12.5% rule in floats |
| Wad, Ray, Rad | `numeric.py` | an integer | arithmetic, conversion | rounding |
| ReloadableConfig | `reloadable_config.py` | cached value, mtimes, checksums | `get_config` | files that change while they are read |
| Log retrieval | `dss.py:376-444`, `auctions.py:95-129`, `__init__.py:216-241` | none | chunked queries, windows of past blocks | chunk boundaries, events between two windows, a head that is replaced |
| Vat, Vow, Jug, Pot, Spotter | `dss.py` | on chain | getters, `validate_frob`, `get_wipe_all_dart`, `past_frobs` | agreement with the contract's rules |
| Cat, Dog | `dss.py` | on chain | `can_bite` | rounding, dust, room |
| Auctions | `auctions.py` | on chain | `active_auctions`, `validate_take`, `past_*` | expiry, prices that fall |
| Order books | `oasis.py` | on chain | `get_orders`, `make`, `position` | a book that changes while it is read |
| EtherDelta, 0x | `etherdelta.py`, `zrx.py`, `zrxv2.py` | orders off chain | create, sign, fill, cancel | remaining amounts |
| Approvals, TxManager | `approval.py`, `transactional.py` | allowances on chain | `directly`, `via_tx_manager`, `execute` | check, then act |
| Savings | `dsr.py`, `dsrmanager.py` | on chain | join, exit through a proxy | order of calls |
| The rest | `sai.py`, `token.py`, `join.py`, `proxy.py`, ... | none | getters, constructors of `Transact` objects | nothing that evolves in the client |

The components meet in four places.  Every client of a contract makes
`Transact` objects and leaves their execution to the engine.  A keeper's
callbacks, started by `Lifecycle` in threads of their own through
`AsyncCallback`, are what calls the engine concurrently.  A restarted keeper
finds the pending transactions of its last life through
`get_pending_transactions`.  And the clients that decide - whether a vault can
be bitten, what a take costs, where an order belongs - do it in Wads, Rays and
Rads, from several calls of a node between which the chain moves.

What makes each component correct:

- engine: a nonce belongs to one transaction and its replacements; a replaced
  transaction falls silent; bids are high enough; what is reported is what
  happened; executions end;
- recovery: what is cancelled never happens, what is new is left alone;
- AsyncCallback: one invocation at a time; waiting is safe at any moment;
- Lifecycle: no lost event; shutdown waits for what runs; the keeper stops when
  asked, and when its block watch is dead;
- gas strategies: prices never fall, and rise enough to be accepted;
- configuration: what is returned is no older than the files;
- logs: every event of the blocks asked for, and none between two calls;
- validation (`validate_frob`, `can_bite`, `validate_take`): agrees with the
  contract as long as what was read is still true;
- enumerations (order books, auctions): what stands all the while is found;
- off-chain orders: what remains of an order shrinks, and a cancellation leaves
  nothing of it;
- amounts (balances, wipes): within what rounding loses;
- approvals: whoever got its approval function back can spend.

`PROJECT.json` lists the hazards, each at its line.

## 2. Modules

| module | what it is |
|---|---|
| `EthNode` | the node and the network as pymaker sees them: pool, blocks, receipts, faults. External: modelled from the calls made |
| `Transact` | `transact_async`, EXTENDS `EthNode` |
| `TransactProps` | its type invariant, inductive invariants, safety, refinement, fairness and progress |
| `NonceLedger` | abstract: a nonce is reserved once and used by its owner |
| `Recovery` | `get_pending_transactions` and `cancel_async`, composed with `Transact` |
| `AsyncCallback` | `trigger` and `wait` |
| `Lifecycle`, `LifecycleProps` | the keeper's threads, EXTENDS `AsyncCallback` |
| `Powers` | a number multiplied by a factor turn by turn: gas prices, decimal places |
| `FixedPoint`, `Numbers` | Wad, Ray and Rad with the rounding of Python's Decimal; a calculator on them |
| `GasPrices` | the gas price strategies, asked turn by turn |
| `ReloadableConfig` | `get_config` against files that are edited |
| `Vaults` | `validate_frob`, `get_wipe_all_dart`, `can_bite`, EXTENDS `FixedPoint` |
| `EventLog` | events in chunks of blocks: Vat and the auctions |
| `PastEvents` | events of the last blocks, asked for again and again: every other client |
| `Auctions` | `active_auctions` and `validate_take`, EXTENDS `FixedPoint` |
| `Oasis` | enumerations and positions in an order book that changes, EXTENDS `FixedPoint` |
| `OffChain` | orders of EtherDelta and of both versions of 0x, EXTENDS `FixedPoint` |
| `Savings` | balances in the Pot, EXTENDS `FixedPoint` |
| `Allowances` | approval functions of several threads, while tokens are spent |
| `MCClients` | one instance of each of the eleven models above; they share no state, and a behaviour lets one of them act |
| `MCTransact`, `MCRecovery`, `MCLifecycle` | constants of the small instances |
| `LifecycleProofs` | the keeper's invariants for any number of callbacks |
| `TransactProofs` | type correctness; a replaced transaction is silent; serial nonces do not clash; `Transact` implements `NonceLedger`; receipts, failures and bids; nonces that come from a count do not clash |
| `RecoveryProofs` | cancellations are final and spare new transactions |
| `ClientProofs` | polls, enumerations of order books, orders off the chain |
| `HelperProofs` | an approval function that returns has approved; a scan in chunks finds every event; `get_config` returns nothing older than its call |
| `NumberProofs` | gas prices; products and quotients; savings and debts |
| `VerdictProofs` | what is derived from rounded values or from several calls: what remains of an order, whether a take, a frob or a bite will succeed, which auctions stand, where an order belongs |
| `Arithmetic` | the lemmas that proofs share: induction, products, quotients, powers |

Each definition that models code is in the `map` of `PROJECT.json` with its
lines.  A definition whose comment begins with "A mutant" is a plausible mistake
in the definition after it; no specification uses it.

### Transact

A step runs from one remote call, lock operation or sleep to the next, which
is where another thread can be noticed.  The labels of `pc` follow the method:

| label | code |
|---|---|
| `new` -> `init` | `transact_async` is called; the first count of the account is fetched (`:647-650`) |
| `estimate` | gas estimation, gas strategy (`:657-670`) |
| `await`, `borrow` | a replacement waits for its target and takes over its nonce, price and last hash (`:674-690`), in two steps because the target's thread may send in between |
| `top` | one turn of the loop: nonce used, replaced, or a price (`:692-740`) |
| `receipts` | one of the ten tries to find a receipt (`:699-718`) |
| `lock` | `transaction_lock` is taken and the nonce computed (`:744-759`) |
| `trap` | the flag is looked at again under the lock (`:762`) |
| `send` | `_func`, the appended hash, the exception handler (`:766-780`) |
| `done` | `_track_status` has set FINISHED |

`SharedLoop` says whether the transactions are tasks of one event loop
(`synchronize` of several futures) or threads that each call `transact`.  In a
shared loop a task keeps the loop (`running`) until it awaits.  A hash is a
record of what is hashed: the sender's object, the nonce and the price.
`origin` is a history variable: which object computed the nonce that this one
has.  Prices come from the constant `Strategy`, any of them at any time.

One try of `receipts` covers the calls for all known hashes.  They are not
separated, as the order in which two receipts of one nonce are asked for makes
no difference: at most one of them is mined.

### EthNode

`chain` holds the account's mined entries, so its length is the count.  A count
of `pending` covers a prefix of the pool; at a hosted endpoint
(`RequiresSerialNonce`) it may miss what other nodes of the endpoint know,
which is why the code counts by itself there.  At an own node it is the next
nonce without a pending transaction.  Superseded bids stay in the pool, since a
miner may not have heard of the higher one.  Faults are `reject` (a send is
refused for no reason the client can see), `lost` (accepted, but the answer is
lost), `drop` (evicted), `foreign` (another program uses the account) and `rpc`
(any other call raises); `MaxFaults` bounds their number.

### Recovery

The initial pool holds leftovers of a previous process.  `GetPending` creates an
object for each that is `Listed`: on Parity all of them (at a hosted endpoint
some), elsewhere none, because the code consumes its filter with `list(items)`
before it maps it (`__init__.py:437-441`).  So the properties and theorems of
recovery are about Parity; `PendingAreListed` fails on other nodes (section 3).
`Cancel`, `Bid` and `Check` are the three parts of `cancel_async`; a receipt that
cannot be fetched ends it with an exception.  They interleave with all of
`Transact`.

### AsyncCallback and Lifecycle

`thread[c]` is the attribute that `trigger` writes twice and `wait` reads twice;
`bodies[c]` counts the invocations that run.  `at[c]` is the thread that
invokes callback `c`: the block watch, a timer, or an event's loop
(`rest`, `clear`, `check`, `trigger`, `start`, `join`).  `main` is `__exit__`.
The flags are read one after another in the code; as they only rise, the reads
can be taken as one step.  Block filters are reduced to what comes of a block:
it is handled, ignored, or an exception ends the thread.  A thread that has
ended loses its `_args` shortly before it counts as dead: `unwinding`, `dead`.
All threads but the main one are daemons (a thread inherits this from the one
that creates it), so nothing happens after `over`.

### The clients

In each of these modules a step of the client is one call of the node, or one
access of a file, since that is where something else can come between.  What
comes between is modelled as the code expects it of the contracts, relayers
and other programs; these definitions are marked external in the map.  Getters
that are read together in the code are read together in the model: `ilk` of Vat
returns five fields in one call, but `debt` and `line` are calls of their own
(`FrobGetters`, in the order of `dss.py:323-344`).

`FixedPoint`.  The operators multiply and divide with Decimal's default context
- 28 significant digits, half to even - and then quantize with the context of
the module, which rounds down (`numeric.py:24, 95-114`).  Nine digits of the
code are one digit of the model: a Wad has 2 places, a Ray 3, a Rad 5, and
`PREC` is 4.  So, as in the code, a Ray of one is the smallest number that uses
all the digits that are kept, and a Rad of one has two places (18 in the code)
more; every effect of the limited precision shows with small numbers.

`GasPrices` is asked by the loop of `transact_async` and bids as it does: only
with more than 12.5% above the last price that was sent.  Prices are whole Wei,
rounded up.  `GeometricBidsAreSent` is for prices from eight Wei on: of smaller
ones an eighth is less than a Wei, and a first price of 1 stays at 2 for
intervals on end.

`ReloadableConfig`.  A content is named by the number of its edit, which is the
modification time too.  Two stores of the cache are apart because reading the
times of imports may raise between them.

`EventLog` and `PastEvents` have a chain that grows and whose head may be
replaced between two requests.  `OfKinds` is spelled out as a recursive function
of how many events have been looked at, which the provers can follow.

`Oasis`.  The list of MatchingMarket, with the pointer that an order keeps when
it leaves (`stale`).  `listing` is the enumeration in progress: by ids, by walk,
or in pages of the support contract.  The contract compares prices by products
(`AtLeast`), the client by quotients of two Wads (`Ratio`, `OrderRatio`), which
are rounded: two different prices may have one quotient.  A property speaks of
prices, in units of a Wad (`LowerBy`).

`OffChain`.  A hash is the fields that are hashed.  `ledger` is the contract's
filled and cancelled amount of each hash; EtherDelta and the relayers see
orders through `relayed`.  Amounts that the client derives are computed in
FixedPoint.  `publisher` is the thread of `publish_order`.

`Auctions`.  One module for the four houses; chain and client agree on the clock.
An auction is read from the node in one step (`ReadAuction`, `auctions.py:160`)
and judged by the clock in a later one (`JudgeAuction`, `:162`).  `watched` is a
history of what stood while `active_auctions` ran, and of what was `renewed`
between these two steps.
`OweOf` is the tail of `validate_take`: what is owed, and whether the assertion
on what would be left of the debt lets the call get that far.

`Allowances`.  Between reading an allowance and approving, other threads approve
and tokens are spent; the approval may be mined and its receipt missed.

## 3. Runs

Passing runs and what they show:

| run | instance | properties |
|---|---|---|
| `serial_nonces` | 3 threads, one replacement, SERIAL, one fault of any kind, late receipts | `TypeInv`, `ReceiptIsSound`, `NoNonceClash`, `ReplacedStaysSilent`, `ReservesNonces` |
| `tx_count` | 3 threads, PARITY_NEXTNONCE, account unknown, refusals, lost answers and RPC errors, default price, late receipts | `NoNonceClash` |
| `shared_loop` | 3 tasks of a loop, SERIAL, account unknown, a refusal | `NoNonceClash`, `SufficientBid` |
| `results` | a thread and its replacement, TX_COUNT, a refusal or a foreign sender, two tries, fairness | `FailureIsFinal`, `WatchedBidsGrow`, `Ends` |
| `recovery` | two leftovers on Parity, two cancellations, one new transaction, a lost answer or a call that fails, fairness | `CancelledNeverHappens`, `NewTransactionsSpared`, `CancelBidsApart`, `CancelEnds` |
| `keeper` | block, timer and event; thread starts and remote calls may fail | `LifecycleTypeInv`, `OneMoreAtMost`, `AwaitedBeforeShutdown` |
| `keeper_progress` | block and event; remote calls may fail but thread starts do not; fairness | `NoLostEvent`, `EventServed`, `Stops` |
| `clients` | the eleven clients, one at a time | those of the next table |

The properties of `clients`:

| property | question |
|---|---|
| `ErrorIsBounded` | when is a product the exact one, cut towards zero, and how far is it off otherwise? |
| `QuotesRise`, `GeometricBidsAreSent` | do prices only rise, and rise enough for the engine to bid within two intervals? |
| `ConfigIsFresh` | can `get_config` return something older than its call? |
| `FrobIsJudged`, `BiteIsJudged`, `TakeIsJudged` | does the client's verdict agree with the contract's, but for what is rounded off? |
| `WipeAllIsClose` | how far is the amount that wipes a debt from the debt? |
| `ScanIsComplete` | do chunks return all events and only them, in an order that can be replayed? |
| `PollsMissNothing` | does an event fall between two windows of a keeper that polls? |
| `StandingAreListed` | does `active_auctions` find what stands all the while, but for what is renewed while it is judged? |
| `StandingFound`, `PositionRight` | does an enumeration of a moving book find what stands all the while, and is the position the right one, to within three units of a Wad? |
| `RemainingIsSane`, `RemainingShrinks` | what remains of an order under fills, cancellation and expiration in any order? |
| `PublishedOrTried` | does the publisher use its attempts, and tell the truth? |
| `BalanceIsClose`, `DaiOfNeverExceeds` | how far is a balance put together from several calls from the real one? |
| `ApprovedCanSpend` | can a spender spend when the approval function is back? |

Runs in which TLC finds that the code does not do what its comments say; each
is a finding in `PROJECT.json`:

| run | what happens |
|---|---|
| `init_race` | the first count of an account is stored outside the lock; a late store sets `next_nonce` back and a nonce is given twice |
| `lost_success` | an earlier bid of the original is mined; original and replacement both return None |
| `dead_filter` | a block watch that dies before the first block is never noticed |
| `wipe_all` | the debt is rounded to 28 digits, downwards in this case, before it is rounded up to a Wad: `get_wipe_all_dart` returns less than the debt. In the units of the code: art = 384812651867202415279513303 and rate = 1031256650280808834817012967 are one Wad unit short |

`shared_loop` and `init_race` belong together: the property holds when the
transactions share an event loop and fails when they are threads.

Other limits of the code that the modules show.  They are no runs of their own;
the formulas are in the modules, and these constants lead to a counterexample
(those not named are as in `LostSuccess.cfg`, with one try):

| formula | constants | what happens |
|---|---|---|
| `NoNonceClash` | `OneReplacement`, three transactions, `Bidding`, TX_COUNT, one `reject` | a replacement of a transaction whose send was refused borrows a nonce that another one has got since |
| `PriceDecided` | `Replacement`, `DefaultThenFixed` | a replacement of a transaction with the default price raises TypeError at `None * 1.125` |
| `SufficientBid` | `Replacement`, `BidUp`, threads | a replacement reads price and hashes just before the original's hash is appended, and bids without comparing |
| `ReceiptIsOwn` | `Replacement`, `BidUp` | the replacement returns the original's receipt, as it is meant to |
| `NoNonceClash` | `TxCount.cfg` with `OneReplacement` | a count of the node is a transaction's nonce until it sends: one that is replaced before its first send gives the nonce to its replacement, and an independent one gets the same count |
| `QuietShutdown` | as `Keeper.cfg` | a callback begins during the shutdown function |
| `WaitReturns` | as `QuietShutdown` | waiting for a callback whose thread is created and not started raises RuntimeError (`util.py:161`), and the shutdown function is skipped |
| `PendingAreListed` | `Recovery.cfg` with `IsParity = FALSE` | `get_pending_transactions` returns nothing, whatever is pending, although it "retrieves a list of pending transactions from the mempool" (`__init__.py:420`): the filter is consumed by `list(items)` before it is mapped (`__init__.py:438-441`) |
| `NoLostEvent`, `EventServed` | `KeeperProgress.cfg` with `StartMayFail = TRUE` | the thread of an event's callback cannot be started; `trigger` answers True (`util.py:150`), the event is cleared, and nothing is called until the minimum frequency or the next event |
| `ProductAsCommented` | `Clients.cfg` | the product of two Wads is cut; the comment above it (`numeric.py:94`) quotes the contracts' formula, which rounds half up. The model's 50 times 1 is 0, where the formula gives 1. So `ErrorIsBounded` speaks of the exact product, from which the contracts' differs by half a unit at most |
| `PositionExact` | `Clients.cfg` | two prices have one quotient, and the new order is placed behind one that is worse: in the units of the code, 1 for 3, and 0.333333333333333333 for 1. So `PositionRight` has margins |
| `RadPreventsLoss` | `Clients.cfg` | a Ray with many digits loses some when it becomes a Rad (`numeric.py:294`) |

And limits of the clients that their properties exclude:

- `ConfigIsFresh` is for imports that are not edited while they are read: the
  time of an import is read after its content (`reloadable_config.py:116`), so
  that such an edit is never noticed.
- `FrobIsJudged`: `validate_frob` is strict at the system's debt ceiling
  (`dss.py:344`), where the contract is not.
- `BiteIsJudged`: the contract refuses a collateral without a price (a spot of
  zero), which `can_bite` takes for worthless: the property is for a price.
  `live` of Cat is not modelled, and `can_bite` does not look at it; with a chop
  of zero it raises.  An auction that `can_bite` calls one is one for Cat if
  seven more units of the last digit kept of the debt, and three of the
  collateral, are granted; an auction that it calls null would take a dart of
  one at most, or hardly any collateral.
- `WipeAllIsClose` is for a rate of one at least, which `get_wipe_all_dart` asserts
  (`dss.py:302`); a collateral that was never initialised makes it raise.
- `StandingAreListed`: an auction that is bid on after the node has answered is
  judged by its old times; if these run out before the clock is read it is left
  out although it stands (`auctions.py:160-163`).
- `StandingFound`: with the support contract the next page begins with the order
  after the last one of a page; if that order left meanwhile the page is empty
  and the enumeration ends (`oasis.py:609-616`).
- `PositionRight`: without the support contract the orders of the book are not
  normalized, but the new one is: the position is wrong for tokens with less
  than 18 decimals (`oasis.py:714`).  A price of 10^9 or more has so many digits
  that its quotient has fewer decimal places than a Wad, or just as many; the
  property is for lower ones.
- `PublishedOrTried`: a tool that hangs raises TimeoutExpired, which nobody
  catches: the remaining attempts are not made (`etherdelta.py:628`).
- Two orders with the same amounts within a millisecond have one hash, and are
  one order to the contract (`zrxv2.py:601`).
- `BalanceIsClose`: a join between the three calls of `get_balance` gives neither
  the old nor the new balance (`dsr.py:64-72`).
- `RemainingIsSane`: EtherDelta's `remaining_sell_amount` subtracts a rounded
  share from the whole without a floor (`etherdelta.py:92`).  With amounts of 28
  digits, ten billion tokens, the result can be below zero; the property claims
  it from 27 digits down.
- `FrobIsJudged`: `validate_frob` looks at the sign of the debt but not at that of
  the collateral (`dss.py:309-361`).  With a spot price below a billionth (WAD, of
  a Ray), a frob that takes out a little more collateral than there is may seem
  safe, because the worth of what it lacks rounds to nothing; the contract
  rejects it.  The property asks for such a price at least, or for a frob of
  collateral that there is.
- `WipeAllIsClose`, `BalanceIsClose` and `DaiOfNeverExceeds` are for shares, debts
  and rates that have no more digits than are kept: 28, which is a normalized
  debt of ten billion Dai and a rate below ten.  Above that each factor is
  rounded before the product is.
- `get_orders_by_maker` of the first 0x relayer client reads one page of 100
  orders (`zrx.py:572`).

Bounds.  Two actors make every race of the engine; the third is there because
a clash needs a transaction that is independent of a replacement and its
target.  Prices 8, 9, 10, 12 lie on and above the 12.5% boundary: 9 is exactly
12.5% above 8 and does not pass, 10 passes, 12 passes over 10.  `MaxAttempts`
is 10 in the code; one or two tries show the first, a repeated and the last one
(`lost_success` runs with 10).  One fault at a time makes the cases.  Nothing
else is bounded: nonces and blocks are limited by the number of transactions.
For the keeper, one callback of each kind has every kind of thread, and two
kinds suffice for an event that is to be served while another callback runs; the
flags and the counters of `late` are finite by themselves.

The bounds of `clients` are in `Clients.cfg`, the instances in `MCClients`.
Numbers lie around the places where a digit is lost (49, 50, 99 to 101, 9996,
10005) and on both sides of zero.  Strategies raise by 12.5%, by less than two
such raises and by more, with and without a maximum, for five seconds.  Three
edits of each file allow one before, one while and one after a call.  Three
orders with pages of two make two pages; an order that leaves between them is
the case of interest.  Two off-chain orders can be confused, and two attempts
have a first and a last one.  The states of a vault are combined from values on
both sides of each condition (safe or not, dusty or not, under the ceilings or
not), and one transaction of others falls between any two reads.  Four blocks in
chunks of two have two boundaries, and a head is replaced once.  Two auctions
that last three ticks, a bid two, in five ticks: an auction is won, runs out, is
bid on, or is bid on again at the moment when the last bid would have won it.
A sale of two units has a price with more digits than are kept.  To take one
would leave less debt than `chost`, so that less is owed, which the balance
covers, though it covers neither the price of the unit nor the whole debt.  Two
approvers, an allowance of zero, one that is not enough, and an unlimited one.

Deadlock is not checked: the executions end, and so does the keeper; a client
stops when what it was asked has been answered.

Fairness is assumed in `results`, `recovery`, `keeper_progress` and
`dead_filter`.  Threads are weakly fair: the operating system runs them.
(`FairLoop` is the same for tasks of one loop, with strong fairness, because
the loop is first in first out and a task that is ready again and again gets
its turn.)  A pending transaction with the
next nonce is mined some day and its receipt is served; no other fairness is
asked of the node, and none of a gas strategy.  The keeper's fairness is that
of its threads, of callbacks that return, and of timers that expire;
`FairClock` adds that 300 seconds pass.

`Ends` is checked for TX_COUNT.  Under SERIAL a refused send leaves a gap in the
nonces and what is sent afterwards is never mined: a hazard, not a property.
`FailureIsFinal` is checked without `lost` and without late receipts: in these
cases the code cannot know better.

## 4. Proofs

The engine's theorems, and those of recovery, are for any number of
transactions, any replacements, prices and faults, but for the hypotheses that a
theorem names; the keeper's are for any number of callbacks; those of the
clients for any edits, amounts, blocks, auctions and orders.  A hypothesis is
there because the property fails without it, in the model and in the code; where
a run shows that, it is named.  The clients are checked in one run that lets one
of them act (`MCClients`) and proved one by one, each for the specification of
its own module.

`TransactProofs`:

- `TypeCorrect`: `Spec => []TypeInv`.  `TypeOK` alone is not inductive: that
  `next_nonce + 1` is a number needs an entry for the account, which depends on
  where the transactions are; `WellFormed` adds that.  Assumptions:
  `NodeAssumption` and `TransactAssumption`.
- `Silence`: `Spec => []SilenceInv`.  Why a replaced transaction is silent: the
  lock is held from the check of the flag to the end of the send (`LockHeld`);
  a target is marked before its replacement can take the lock (`TargetMarked`);
  so while a transaction sends no replacement of it is on the network
  (`NoRival`).
- `ReplacedIsSilent`: `Spec => ReplacedStaysSilent`, from that invariant.

`TransactProofs`, further, for endpoints that require a serial nonce and an account
that is in `next_nonce` from the start (`init_race` is the counterexample
without the second):

- `Serial`: the inductive invariant `SerialInv`: each nonce is below
  `next_nonce`, equal nonces have one origin, and what was sent has the nonce
  its transaction still has.
- `SerialNoncesDoNotClash`: `NoNonceClash` from it.
- `TransactImplementsLedger`: `Spec => Ledger!LedgerSpec`, with the ledger
  read off `origin` and `nonce`: computing a nonce under the lock is `Reserve`,
  an accepted send is `Use`, all else stutters.

`LifecycleProofs`, from `CallbackAssumption` and `LifecycleAssumption`:

- `Keeper`: `LifecycleSpec => []KeeperInv`, the inductive invariant.  That a
  callback does not run twice needs that a created thread is about to be started
  by its creator, and that nothing runs before (`CreatedIsStarting`).  That at
  most one invocation begins late needs that it has left the stretch between
  the flags and the start for good (`LateIsPast`), as the flags only rise.  That
  shutdown waits needs that whatever the main thread has passed runs late
  (`PassedRunLate`).  There is one lemma for each action.
- `KeeperTypes`, `AtMostOneMore`, `ShutdownAwaits`, `EventsAreKept`:
  `LifecycleTypeInv`, `OneMoreAtMost`, `AwaitedBeforeShutdown` and `NoLostEvent`
  from it; the last one if threads can be started (section 3 has the
  counterexample).

`HelperProofs`, from `ConfigAssumption`:

- `Config`: `ConfigSpec => []ConfigInv`, and from it `ConfigStaysFresh`:
  `ConfigIsFresh`, for any number of edits.  The property alone is not inductive:
  the time recorded for an import may be newer than the import that was
  evaluated, if it was edited in between, and a reload that raises leaves that
  cache behind.  `CacheIsKnown` says that such a cache is either marked as
  disturbed or `Outdated`, which the next call notices because edits have ever
  higher numbers; `LoadIsRecent` says the same of a load in progress.

`HelperProofs`, from `EventLogAssumption`:

- `ScansAreComplete`: `EventLogSpec => []ScanIsComplete`, for any chain, any events
  of its blocks and any chunk size.  Events have ever higher numbers, within a
  block and from block to block, also when a head was replaced before the scan
  began (`ChainInv`).  The inductive part is `GatheredInv`: the scan has the
  wanted events of the blocks up to the one where the next chunk starts; an
  event is there twice only if it is in a block where two earlier chunks met;
  and for the auctions the last event has the highest number, and a step back
  stays in one block.  What a chunk adds overlaps with that in the block where
  it starts and nowhere else (`MeetingBlock`).  Selecting and joining are
  recursive; `RecursionExists` says that a function built up from its first
  value exists, `OfKindsIs` and `FlattenedIs` what comes out.

`HelperProofs`, from `AllowancesAssumption`:

- `AllowancesHold`: `AllowancesSpec => []AllowancesInv`, and from it
  `ApprovalIsEnough`: `ApprovedCanSpend`, for any number of threads, any
  thresholds with `ENOUGH < UNLIMITED`, any amounts and transfers.  What another
  thread approves is no less than ENOUGH, and what is spent of a grant is no more
  than what each approval function has seen of it since it began
  (`SpendingKeeps`).

`TransactProofs`, on what is reported and what is bid:

- `WatchedIsKin`, without hypotheses: `Spec => []KinInv`.  Each hash that a
  transaction looks for has its nonce, and its sender has that nonce from the
  same origin.  A replacement borrows nonce, price and hash in two steps between
  which its target may send; `BorrowsWhole` says that the target then keeps its
  nonce.  From it `ReceiptsAreSound`: `ReceiptIsSound`.
- `BidsGrow`, without hypotheses: `WatchedBidsGrow`, with `PricesBeaten` as the
  strengthening: while a price waits to be sent it beats all that is watched.
- `FailuresAreFinal`: `FailureIsFinal`, when receipts come with the new count and
  neither an answer nor a call other than a send fails.  `FailureInv` has the
  reason: what was sent is watched (`SentAreWatched`), so when the nonce is used
  the ten tries have seen every hash that could have succeeded.
- `OneTaskRuns`: the inductive invariant `LoopInv` of tasks of one event loop, and
  `BidsSuffice`: `SufficientBid` from it.  Whoever has the loop is the only one
  past its last await (`OthersAwait`), so that a replacement which has read its
  target's price and hashes sends before the target can add one.  Hypotheses: a
  shared loop (with threads the property fails, see section 3) and no lost
  answer (an accepted bid nobody knows of cannot be beaten knowingly).
- `CountedNoncesDoNotClash`: `NoNonceClash` for an own node that counts what is
  pending, when it forgets nothing and no transaction replaces another.  Between
  the count and the send no other transaction can send, because of the lock
  (`FreshUnderLock`).  With replacements it is false (section 3).

`RecoveryProofs`, for `RecoverySpec`, which has all of `Transact` beside the
cancellations; the objects it is about are those that Parity lists, as elsewhere
there are none (section 3).  The model gives no price to a transaction of
another program that appears while the keeper runs, so `foreign` is left out;
the leftovers may well be another program's.

- `Recovered`: the inductive invariant `RecoveryInv`: an object is made of a
  transaction that the network has, its bids have that one's nonce and are above
  its price, and what is reported as cancelled has a bid of its own in the
  chain.
- `BidsAreApart`, `CancelIsFinal`: `CancelBidsApart` and `CancelledNeverHappens`
  from it.  The second also needs that the chain holds one transaction of each
  nonce, in order (`ChainKept` of `TransactProofs`).
- `NewOnesAreSpared`: `NewTransactionsSpared`, if new nonces are counted by a node
  of one's own that forgets nothing: all leftovers have lower nonces than all new
  transactions (`NoncesApart`).  A node that drops a leftover gives its nonce to
  a new transaction.

`ClientProofs`, without hypotheses beyond the assumptions on the constants:

- `PollsAreComplete`: `PollsMissNothing`.  While the window of a call is fixed,
  blocks are mined and heads replaced; `PollsInv` says that each block between
  the first poll and the last that is not about to be read is known.
- `StandingIsFound`: `StandingFound`.  An enumeration holds the identity of an
  order, which may leave the book; its pointer then still leads to where it was,
  and through any number of such pointers to an order that is in the book.
  `Ranked(r)` is a function that says where every order, live or gone, leads to,
  and `WalkIsAhead` and `PagesAreAhead` say that what stands and is unfound is
  not behind the enumeration by rank.  Such a function exists after each step
  (`InsertedRank`, `RemovedRank`), although how long a chain of pointers is has
  no bound.  The invariant was model-checked before it was proved.
- `AttemptsAreMade`: `PublishedOrTried`, for any number of threads.

`NumberProofs`.  These values are defined by recursion: a price is multiplied
once for each interval, a number loses digits until it has few enough.  The
provers cannot use an induction theorem that has a formula as its parameter, but
its consequences for sets can be proved (`LeastOf`, `SetInduction` and
`StrongInduction` of `Arithmetic`, from the library's well-founded order of the
natural numbers), and so can it be proved that a recursive function is what its
definition says: functions that follow the definition up to any number exist and
agree (`PowersExist`, `ExcessIs`).

- `PricesNeverFall`, `GeometricBidsFollow`: `QuotesRise` and
  `GeometricBidsAreSent`, for any parameters that the constructors accept.
  `GasInv` says that what was quoted and what was sent are the strategy's prices
  of their moments, and that nothing quoted since the last bid exceeds it by
  more than an eighth.  Prices of later intervals are no lower, as the higher of
  two numbers has the faster rising powers (`PowersRise`); two increases by an
  eighth, rounded up, are more than one of an eighth from eight Wei on
  (`TwoIncreases`).
- `ErrorsAreBounded`: `ErrorIsBounded`, in any base from ten on, with any number
  of digits from four on (a Ray of one can be kept, `FixedPointAssumption`).  Rounding half
  to even is within half of the last digit (`HalfEvenIs`), the number of digits
  is the one that fits (`ExcessBounds`), what is short enough is kept
  (`KeptShifted`), and a quotient is off by less than one (`QuotientIs`).
- `DaiOfIsNoMore`, `BalancesAreClose`: `DaiOfNeverExceeds` and `BalanceIsClose`.
  `SavingsInv` says what the call in progress has read and whether it is still
  so; the Pot has what the shares are worth, and chi rises.  A larger number
  loses no fewer digits (`LostRises`), so that the bound also holds for what the
  shares are worth later.  `RoundingsAddUp` adds the roundings of a portion, a
  product and a conversion.
- `WipesAreClose`: `WipeAllIsClose`.  What is left of the product of a Wad and a
  Ray has as few digits as are kept (`KeptTimes`), so nothing more is lost when
  it is rounded up to a Wad (`RoundedUpWadIs`).

`VerdictProofs`.  A verdict compares rounded values with each other, so that it
can be trusted as far as the roundings leave the comparison alone.  The proofs
add up how far each value is from the exact one, and show that beyond the margin
that the property states both sides compare the same way.

- `RemainsAreSane`, `RemainsShrink`: `RemainingIsSane` and `RemainingShrinks`.
  The contract books of an order no more than there is, and with a cancellation
  all that is left (`LedgerOK`); what the client derives for the side that is
  bought is exact (`WhatRemains`).  The side that is sold is a share, rounded
  after the product and after the quotient; each rounding keeps the order of
  numbers (`KeptRises`, `QuotientsRise`), so less to buy is never more to sell,
  and the share of the whole is the whole when its digits are kept.
- `TakesAreJudged`: `TakeIsJudged`, for any sale, price, amount and balance.  The
  slice, the price and their product may each lose half of a last digit, which
  is together at most two units of the last digit of what is owed
  (`OffTheEdge`); off that edge `validate_take` and the contract fall into the
  same case of the three (all of the slice, the whole debt, or down to `chost`),
  and in each of them the balance suffices for both or for neither.
- `FrobsAreJudged`: `FrobIsJudged`, for any state of the Vat that others may leave.
  A product of a Wad and a Ray is off by no more than the digits above those
  kept (`RadIsClose`), the urn's debt and the worth of its collateral by that
  and what a Ray rounds off (`DebtsAreClose`, `WorthIsClose`).  The conditions -
  below the ceilings, safe, not dusty - then agree outside `RoundingMargin`
  (`ConditionsAgree`).  A frob of more debt or collateral than there is has a
  negative tab or a negative worth after rounding too (`NoNegativeDebt`,
  `NoNegativeWorth`): this is where the bounds
  on rate and price in the property are needed.
- `BitesAreJudged`: `BiteIsJudged`.  The amount of debt that a bite takes goes
  through a division by the rate and one by the penalty, with divisors that are
  rounded themselves, and the collateral through a product and a division.  Each
  of these may add one or two units of the last digit kept: errors that follow
  each other add up, and one more unit covers their products (`ErrorsGrow`), so
  that the debt is at most seven units more than Cat's (`DartIsAtMost`) and the
  collateral three (`BiteTakesNoMore`).  In the other direction the debt is at
  most one less (`DartIsNear`), and a collateral that is rounded to nothing was
  hardly any (`BiteTakesSome`).
- `ActiveIsComplete`: `StandingAreListed`.  What has stood since the enumeration
  began is found, renewed or not yet passed (`FoundSoFar`); an auction that was
  not renewed is still as it was read, and what the clock finds active was
  active before (`ActiveEarlier`, `ReadIsJudged`).
- `PositionIsRight`: `PositionRight`, for any orders and amounts.  Half a unit is
  lost by the product and one by the quotient (`RatioIsNear`), so that of two
  prices that are three units apart the higher one has the higher quotient
  (`LowerTells`).  Of the orders whose quotient is no lower than that of the new
  one, the code takes the lowest and of those the oldest: that order exists
  however many there are (`FirstExists`).  `PositionInv` says that what stands has
  not changed while nothing has happened (`StandingIsLive`), so that by
  `StandingFound` no order was left out of the choice; and an order of which a
  part is taken keeps its price (`PricesCompare`).

Numbers are decimal, or of any larger base: a margin of a last digit must be
small against the number (`FixedPointAssumption`).

All invariants and all action properties of the runs are stated by a theorem.
Only model-checked are `Ends`, `CancelEnds`, `EventServed` and `Stops`: liveness is
out of the prover's reach, as is ENABLED.  Only found by TLC are the
counterexamples of the four runs that expect a violation, and those of section 3.

## 5. Not modelled

Gas limits and `gas_estimate_for_bad_txs` (a failed estimation either ends the
execution or goes on); the ValueError for unknown keyword arguments; decoding
of receipts and `result_function`; chain reorganisations (the code takes a
receipt as final); several accounts (each has an entry of its own in
`next_nonce` and its own nonces; they share only the lock).  Of `Lifecycle`,
what happens before the main loop is one step.

Of the clients: floats (`gas.py` multiplies a price by 1.125 in floating point;
the model's ratio is exact), the fields of events and filters by them,
comparison and formatting of numbers, several token pairs and several types of
collateral, pages of relayers, and the contracts beyond what a client sees of
them.  A transaction of a client is one step that succeeds or is refused; how it
gets there is `Transact`.

`Sai`, governance, global settlement, proxies, the vault manager, tokens, joins
and oracles are getters and constructors of `Transact` objects: nothing in the
client evolves, and what the calls do is in contracts that are not part of the
repository.  Keys, signatures and encodings delegate to libraries; deployment is
for tests.

## 6. Plan

Done: all modules above.  What remains:

1. An abstract `AsyncCallback` (at most one invocation) and its refinement.
2. `NoNonceClash` for a count of the node with replacements that start after
   their target has sent.

And to compose `Lifecycle` with `Transact`: callbacks that execute transactions,
and a shutdown that waits for them.
