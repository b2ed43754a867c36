# TollGate: TLA+ models, checks and proofs

TollGate sells network access (and, in an experiment, metered deliveries such as
EV charging) for Cashu tokens. This directory holds TLA+ models of the parts of
the Rust workspace whose correctness depends on order, failure or time, the TLC
runs that check them on small instances, and TLAPS proofs for all instances.
`PROJECT.json` maps every definition to the lines it models and lists runs,
mutants, findings, hazards and theorems.

    tlc -workers 2 -config Session.cfg MCSession     # one run
    tlapm SessionProofs.tla                          # one module's proofs

## 1. The system

| Part | State it keeps | Operations | What is hard about it |
|---|---|---|---|
| `tollgate-core` session (`session.rs`, `pricing.rs`, `metering.rs`) | per peer: phase, balance, counters, baseline, drift streak | `Session::handle(event)` returns actions | results of verifications arrive late; reports and samples in any order; saturation and truncation |
| `tollgate-net` `Driver` (`driver.rs`, `server.rs`) | session under a lock, `peer_ip`, `last_seen`, `metered` | HTTP exchange, metering loop, idle reaper | effects are executed after the lock is released, by several tokio tasks |
| enforcement (`adapter.rs`) | nftables sets and counters | allow, deny, read | a failed read looks like a zero counter |
| consumer (`client.rs`, `Driver::spawn_upstreams`) | paid total, acknowledged count, meter baseline | pay, poll, top up | it estimates what a provider it does not see has left of its money; answers get lost |
| `BootstrapWallet` (`wallet.rs`) | spent proofs in memory and in a file | `verify` | check and insert are separate critical sections around a mint round-trip; restarts |
| `DeliveryEngine` (`delivery.rs`) | phase, grant, last journalled reading | grant, progress, terminal, revoke, tick | readings go backwards, terminals never come, a deposit must be split exactly once |
| `ChargerDriver` (`tollgate-charger-host/driver.rs`, `sim.rs`) | engine, `acked_at`, pending stop, journal | MQTT messages, tick, revoke, resume | lost and redelivered messages, host crashes, a device with its own timer |
| `ExternalDriver` (`external.rs`) | engine, provider session, journal | open, tick, stop, resume | the meter belongs to a third party and keeps running |
| v1 Lightning quotes (`v1_compat/ln_quotes.rs`) | quote records in memory | monitor, janitor | the monitor writes back a copy it read before several awaits |
| v1 mint health (`mint_health.rs`) | reachable, consecutive successes | initial probe, periodic checks, advertisement | two tasks mark the same mints, lock by lock |
| v1 provider (`handlers.rs`, `merchant.rs`, `adapter.rs`, `mac_resolver.rs`) | the peer's session and outbox in the `Driver` | pay, usage, balance | requests of one customer share an outbox; a client may close its connection at any await |
| v1 wallet (`v1_compat/wallet.rs`, `recovery.rs`) | balance in memory, recovery file | mint, create, melt, recover | calls that fail after they took effect |
| v1 client (`crowsnest.rs`, `session_manager.rs`, `usage_tracker.rs`, `client.rs`, `http_client.rs`) | session map, clients, trackers, renewal channel | scan, connect, renew, disconnect; a loop of its own in `v1-consume` | three kinds of task pay from one wallet; answers get lost |
| OpenWrt network monitor (`openwrt/network_monitor.rs`) | subscription, throttle table, channel | translate netlink messages into events | the kernel goes on while a message is handled; the socket is lost; the channel is full |
| OpenWrt WiFi (`wifi_connector.rs`, `wifi_scanner.rs`, `uci_ops.rs`, `ubus_client.rs`) | UCI configuration (staged and saved), ubus session | scan, connect, switch with fallback, disconnect, clean up | every command may fail; the staging area is shared; a session expires |

HTTP handlers call the `Driver`, which feeds events to the `Session`, executes the
returned actions on the adapter, and hands tokens to the wallet. The charger and
external drivers own a `DeliveryEngine` each. A gateway that buys upstream runs
the consumer against another gateway's `Driver`. The v1 handlers translate Go v1
requests into calls of the same `Driver`. In v1 client mode the Crowsnest calls
the `SessionManager`, whose usage trackers send renewal requests through a
channel to its own loop.

## 2. Modules

| Module | Models | Instance / proofs |
|---|---|---|
| `SessionCore` | `Session::handle` as operators on one `PeerSession`; price, saturation, reconcile | used by `Session`, `Driver`, `Consumer` |
| `Session` | the session with effects carried out event by event, peers, traffic, wall clock | `MCSession`; `SessionProofs` |
| `Driver` | the same transitions, but tasks execute one action at a time and interleave | `MCDriver`; `DriverProofs` |
| `Consumer` | `run_consume` against a provider of `SessionCore`, with lost exchanges and refusals | `MCPayment`, `MCConsumer`; `PaymentProofs` |
| `Wallet` | `BootstrapWallet::verify` by concurrent tasks, the spent file, the mint, restarts | `MCPayment`, `MCWallet`; `PaymentProofs` |
| `Settlement` | abstract: a deposit is locked once and split once, below a ceiling | |
| `DeliveryCore` | budget guard, engine transitions, settlement | used by the next three |
| `Delivery` | the engine under every order of events; implements `Settlement` | `MCPayment`; `DeliveryProofs` |
| `Charger` | driver, journal, MQTT wire with faults, mock device, crashes; implements `Settlement` | `MCCharger`; `ChargerProofs` |
| `External` | driver, provider meter, crashes; implements `Settlement` | `MCCharger`; `ChargerProofs` |
| `Quotes` | one Lightning quote, monitor, janitor, clock | `MCV1`; `V1Proofs` |
| `MintHealth` | the marks of two probing tasks, the advertisement | `MCV1`; `V1Proofs` |
| `V1Provider` | payments and questions of v1 customers as handlers with awaits; price selection of the client | `MCV1`; `V1Proofs` |
| `CdkWallet` | minting, sagas, tokens, melting, recovery, restarts | `MCV1`; `V1Proofs` |
| `Upstream` | `v1-auto`: Crowsnest, session manager loop, trackers, gateways with prices; `v1-consume`: one client | `MCUpstream`; `UpstreamProofs` |
| `NetMonitor` | the monitor task, the kernel it watches, its consumer | `MCOpenWrt`; `OpenWrtProofs` |
| `Uci` | UCI operations by shell and by ubus, and what they do to the configuration | used by `Wifi` |
| `WifiScan` | the scanner's parsing and selection, as operators | used by `Wifi` |
| `Wifi` | the calls of the connector and scanner, command by command, by two callers | `MCOpenWrt`; `OpenWrtProofs` |

`MCPayment`, `MCCharger`, `MCV1` and `MCOpenWrt` join components that share no state: the
variable `part` says which of them a behaviour exercises, so the state spaces
add up and do not multiply.

Conventions. One action per event, handler or await-free section of a task.
Variables and record fields keep the names of the code (`billed_units`,
`acked_at`, `last_counters`). History variables (`ledger`, `books`, `money`,
`grants`, `samples`, `excuse`, `raced`, `streak`, `muddled`, `misreads`,
`overclaimed`, `crossed`, `client.misled`, `minting.before`) only record what happened; no
guard reads them except to keep an instance finite. An operator under a comment
`Mutant:` is a plausible bug: it is used by nothing and stands next to the
definition it could replace (`PROJECT.json` names the pairs); with it, the
property named there fails.

### What each model abstracts

- **Session.** Tokens are amounts, messages are events. `Session` executes the
  effects of an event at once, which is how the code reads; `Driver` does not.
  Stored price sheets and `Accept` messages, which no transition reads, are left
  out. u64 arithmetic saturates at the constant `U64Max`; `cost_scaled`
  truncates to thousandths as the code does.
- **Driver.** One peer, no price on time, no outgoing messages. Every lock is a
  step: `handle` is atomic under the session lock, its actions are steps of
  their own, a request inserts the address and touches the timestamp in two
  steps, and the reaper lists, looks, disconnects and forgets in four. A counter
  reading may fail and reads as zero. Traffic of an established connection
  passes a deny, as the nftables rules let it. `Reaps` says whether a peer may
  stay silent past the idle timeout.
- **Consumer.** The provider handles an exchange at once, no price is negative,
  and polls come more often than the provider's reaper sweeps. A failed exchange
  is lost on the way there or on the way back. Time is priced.
- **Wallet.** A token is a set of proofs, the mint a set of spent ones. With
  `Swaps` the mint swaps the proofs (cdk wallet), without it is only asked
  (NUT-07). The append to the file may fail, or there may be no file: the error
  is swallowed and the credit given all the same.
- **Delivery.** `Unbounded` stands for a missing cap. `LateProgress` says whether
  the host feeds readings to an engine that is done; both hosts in the
  repository do not.
- **Charger, External.** The host executes settle and refund in the step that
  closes the engine; a crash resumes only sessions that are not settled.
  Redelivered messages are those towards the host; the mock device refuses a
  second start. The provider of `External` is third-party code, known from the
  trait it implements.
- **Quotes.** `QuoteProcessor` has no implementation in the repository (monitor
  and janitor are started only by tests): its calls may fail at will, a failed
  `mint_tokens` may have issued the tokens, a failed `grant_access` grants
  nothing. `MaxPass` bounds how far the clock runs during one pass.
- **MintHealth.** Probes take one step; a probe of a mint that is up may time out.
- **V1Provider.** Of the outbox only the acks are kept, of an answer only its
  status. A token is its amount and whether the mint vouches for it; what
  clients pay follows from the price selection, the budget and the steps of
  `pricing.rs` and `client.rs`. A client that leaves ends its handler at an
  await, as axum does. The reaper lists, looks at the phase, disconnects and
  drops the outbox in separate steps.
- **CdkWallet.** One quote at a time, tokens of one sat. A call of cdk may fail,
  and may have taken effect although it failed; an entry of the recovery file
  may be written in part, and the node may go down between the entry and the
  report. `recover_failed_token`, `mint_test_tokens` and `try_mints` have no
  caller; the model calls them where they would be called.
- **Upstream.** Amounts are counted in payments, time in ticks of five seconds.
  `Scenarios` says what the gateways are like: their prices, and whether they
  answer `/usage` as "used/allotment" (the Go implementation) or otherwise (this
  repository's own gateway answers JSON). A gateway may be out of reach, answer
  unreadably, refuse a payment, or take a token or an invoice after the client
  has stopped waiting. An advertisement is its kind, its signature and its tags.
  A wallet that fails although it has funds counts as a call that goes wrong.
- **NetMonitor.** Taking a message, querying the kernel on its behalf and sending
  the events are separate steps. A scan may fail or leave links out, and the
  kernel's buffer may overrun. MAC addresses are left out.
- **Uci, WifiScan, Wifi.** A configuration is its WiFi sections, the interfaces
  added and one firewall list, staged and saved. The output of `iwinfo` is a
  signal and the words the parser looks for. A radio associates if encryption
  and key fit the network.

## 3. Runs

| Run | Checks | Instance |
|---|---|---|
| `Session` | `MeteredUsageIsBilled`, `ChargeIsFair`, `AccessFollowsPhase`, `NoCreditLost`, `NeverChargedWhileBlocked` | 700 ms ticks at 2 per second, so every interval is truncated; reports above and below the counters; two verifications in flight; u64 ends at 9 and credit reaches 10; failed reads; the clock is set back |
| `Driver_tasks` | `TokensAreCredited`, `ChargedForTraffic`, `IdleIsForgotten` | two requests, the metering loop and the reaper; payments, reports and disconnects; two units of traffic, one failed reading |
| `Payment` | wallet: `NoDoubleCredit`, `RefusedIsSpent`; consumer: `ExposureIsBounded`, `ServedAgain`; engine: `CapsAreEnforced`, `SplitsOnce`, `LeaseEndsGrant`, `JournalStands` | two tasks, four overlapping tokens of three proofs, one of a foreign mint, two restarts; a consumer without a meter at a price on time and traffic, and one with a meter, one failed exchange, one refused token; one grant per kind of cap and a zero lease, readings below, at and above every cap |
| `Charger` | `PaidTimeWasServed`, `NoDeliveryAfterSettlement`, `FrozenAfterStop`, `PaysTheMeter`, `BothSplitOnce`, `BothSettle` | charger: half-second steps, a two-second window, one crash, one redelivery, losses; external: two crashes, a lease longer than the window |
| `V1` | quotes: `GrantedOnce`, `PaidIsGranted`, `QuoteIsForgotten`; mint health: `RecoveryIsEarned`, `AdvertisementSettles`; provider: `AcceptedIsPaid`, `OwnTokenIsAnswered`; wallet: `OkIsMinted` | invoices without expiry, with one before and one after the monitor's lifetime; two mints, two probing tasks; two requests, one of which may be abandoned; two mintings, a token, two failing calls, one restart |
| `Upstream_auto` | `OnePayer`, `OneTracker`, `ConnectPaysWhenEmpty`, `ServiceComesBack` | `v1-auto` with two gateways or `v1-consume` with either; gateways within the budget, too expensive, of another mint, or with unreadable usage; two payments in the wallet, an invoice, one outage, one call that goes wrong, a channel of one |
| `OpenWrt` | monitor: `PictureIsExplained`, `StopEnds`; WiFi: `NothingLeftStaged`, `SwitchFallsBack`, `CallsReturn` | a loopback and a link, three changes, one lost socket, a channel of one; two radios, two networks, two callers with eight calls, one command that fails |
| `Wallet_race` | `NoDoubleCredit` is violated | two tasks with the NUT-07 check only |
| `Driver_inversion` | `ActiveIsServed` is violated | one request against the metering loop |
| `Consumer_steady` | `SteadySessionNeverDrops` is violated | one unit per poll and sample, prompt top-ups, no faults |
| `Upstream_budget` | `ZeroIsNoLimit` is violated | one gateway with the lowest price, a limit of 0, no faults |
| `OpenWrt_carrier` | `DownIsReported` is violated | the monitor of `OpenWrt` |

What the properties leave out, where the code does something else:
`ExposureIsBounded` adds a unit per sample that bills time, since the provider
truncates each sample and the consumer its whole estimate. `ChargedForTraffic`
allows one more charge per failed reading, and is about peers that claim no
more than they were sent. `IdleIsForgotten` leaves out a session whose request
crossed the reaper (`crossed`). `OwnTokenIsAnswered` leaves out requests that
met another one of their peer and those whose ack the reaper dropped
(`muddled`). `OkIsMinted` speaks of a wallet that could not cover the amount
before. `ConnectPaysWhenEmpty` leaves out a gateway whose answer could not be
read and one that got a payment nobody waited for (`misled`);
`ServiceComesBack` one whose price the budget refuses. `PictureIsExplained`
names its excuses. In each case the excluded behaviour is in the model, and is
described below.

Why the bounds are enough to be interesting. `Session::handle` reads and writes
one peer's record, so one peer shows all of it; two pending verifications are
what it takes for a result to overtake another. In `Wallet`, races need two
tasks and overlap needs a shared proof. The charger's faults are independent of
each other in the code (each is handled by another branch), so one of each is
combined with everything else. `Consumer` needs two cycles of paying and running
out, which three units at a price of two per payment give; the consumer with a
meter has its clock stopped, since its meter does not depend on it. `Upstream_auto`
disconnects after two failures instead of three, throttles requests for one tick
instead of two, and has a channel of one instead of 64; its three scenarios pair
the kinds of gateway, since gateways meet only in the wallet and the tasks, not
in each other; the wallet polls a quote twice instead of sixty times; a mint
recovers after three probes as in the code.
Each limit is reached within its instance. Deadlock is not checked where a
bounded instance or a settled session may stop.

### Fairness

- `Delivery`, `Charger`, `External`: the host's timer fires and time passes. No
  fairness is assumed of the device, the broker, the provider or the buyer.
- `Driver`: the reaper's interval fires and tokio runs its task.
- `Consumer`: the metering ticker and the polling interval keep firing.
- `Quotes`: both tasks keep running, and a call of the processor that is made
  again and again succeeds at some point (strong fairness on the three calls).
  Nothing relates the speed of the tasks to the clock.
- `MintHealth`: passes start and the tasks run.
- `Upstream`: the Crowsnest, the loops and the trackers run, and time passes.
  Nothing is assumed of the gateways: `ServiceComesBack` speaks only of one that
  stays within reach, and the number of mishaps is bounded.
- `NetMonitor`: tokio runs the task; a consumer that has not dropped its end of
  the channel goes on reading. Nothing is assumed of the kernel.
- `Wifi`: a call goes on where its wait has a timeout (`iw`, `iwinfo`, the polls,
  HTTP to ubus) or needs none. `execute_shell`, which runs `uci`, `wifi reload`
  and `ifup`, awaits its command without one (`uci_ops.rs:325`): that step is not
  fair, and `CallsReturn` says that it is the only one a call can stay in. Nothing
  is assumed of the radios.

### Findings

- **Double credit** (`Wallet_race`). `verify` looks the proofs up under a read
  lock and records them under a write lock after the mint's answer. When the
  mint is only asked, two verifications of one token both succeed.
- **Blocked although Active** (`Driver_inversion`). The actions of two `handle`
  calls are executed by different tasks: a deny computed earlier can be executed
  after an allow computed later.
- **Proactive top-ups** (`Consumer_steady`). Every `BootstrapToken` restarts the
  provider's metering, but the consumer resets its accounting only after a
  cut-off. After a proactive top-up it overestimates what is left and
  acknowledges a count that is billed once more, so a steady session drops,
  which `tollgate-bootstrap.md` says it never does.

- **A limit of zero** (`Upstream_budget`). `client.rs:73` says "0 = no limit";
  `validate_budget` refuses every price above the limit, so with 0, which
  `v1-auto` and `v1-consume` both pass, nothing is ever bought.
- **Carrier lost** (`OpenWrt_carrier`). `InterfaceDown` is documented as "carrier
  lost or admin down", but is made only for a deleted link; a `NewLink` message
  without carrier makes no event.

### Gaps met while modelling, not covered by a run

Most were seen as counterexamples to stronger properties than the ones kept.

Session and driver
- A failed `nft` read yields zero; the session takes it for a restarted counter
  and charges the whole total again at the next good reading (`ChargedForTraffic`
  bounds this). A lower acknowledgement of the peer lowers `billed_units`.
- A `Reject` during a top-up rolls the phase back to `New` and leaves the
  firewall open (`session.rs:224` revokes only when `Active`); a refused top-up
  closes the firewall on a peer with credit, and the reaper then drops the credit.
- The reaper disconnects a peer that became `Active` after it read the phase, or
  whose token is at the mint (`TokensAreCredited` books both as `reaped`).
- A request that comes in while the reaper forgets the peer leaves a session
  without a timestamp, which no later sweep lists (`crossed`).
- The nftables rules accept established connections whatever the deny. A failed
  `nft add` is logged and the peer counts as allowed.
- A peer that announces from a second address leaves the first one allowed and
  unmetered (`driver.rs:311`).

Consumer
- A refused top-up after a cut-off is never tried again: the `Reject` is gone and
  without reports the cost is zero. A cut for drift carries no `BalanceExhausted`
  and is never noticed. `ServedAgain` excludes both.
- A `Reject` drained by `pay()` is ignored; a polling interval above the reaper's
  idle time would lose it. Every failed exchange costs a new first payment.
- `persist_yvalues` swallows a failed append, and does not `fsync`: after a
  restart the spent record lacks proofs it had credited, and only the mint
  refuses them.
- A consumer with a meter may pay for what it received before its baseline;
  `ExposureIsBounded` is about consumers without one. A consumer without one echoes an
  older count of the provider, which the default drift policy may cut.

Delivery hosts
- A reading fed to a settled `DeliveryEngine` reopens it (`delivery.rs:288`).
- `ChargerDriver::resume` forgets a pending stop and takes an unacknowledged
  grant for an acknowledged one; a redelivered ack restarts the accrual and
  lowers the journal. `PaidTimeWasServed` and `FrozenAfterStop` are therefore
  stated up to the first crash, while `BothSplitOnce`, `BothSettle` and
  `NoDeliveryAfterSettlement` hold through crashes.
- `ExternalDriver` never stops the provider when the lease or a cap ends the
  session (`translate` drops `StopDelivery`).

v1
- A renewal request that waited in the channel is paid although an earlier one
  has renewed meanwhile, once `MIN_PAYMENT_INTERVAL` is over; a token whose
  payment fails is lost, since `recover_failed_token` has no caller, and that
  function only verifies: it reports `AutoRecovered` for a token the wallet does
  not hold.
- Any answer to `/usage` that is not "used/allotment" is read as "no session"
  (`http_client.rs:241`), and the client buys from a gateway that still serves
  it. This repository's own gateway answers JSON, so its clients buy again
  whenever they poll.
- An invoice paid after the client gave up, and a token credited after its
  30-second timeout, are service the client does not know of until it asks
  again; a purchase under way is then a second payment.
- `v1-consume` gives the address of the gateway its scheme twice (`main.rs:586`,
  `http_client.rs:70`). A failed connect ends `v1-consume`, and after a failed
  poll it connects.
- Payments of one customer may take each other's acks; an abandoned request
  leaves its ack to the next one, or loses a swapped token. A credited token whose
  ack the reaper drops with the outbox is answered 402. Without trusted proxy
  headers `POST /` always answers 400. The allotment is priced by the first
  accepted mint, and is zero for a purchase below `min_steps` although the token
  is credited.
- Nobody mints or grants for a quote of `/ln-invoice`, and its answer lacks the
  `state` the client of this repository requires. `mint_test_tokens` may return
  Ok because of an earlier balance or saga. A write of the recovery file that
  fails in part, or a crash before the report, leaves a token in neither.
- Marks of two tasks may cross and bring a mint back early, or leave it out until
  the next pass.

OpenWrt
- A lost carrier makes no `InterfaceDown`; the throttle may swallow the last
  change; a link deleted while the socket is down is never reported, nor one
  that a dump or an overrun left out; "stopping
  monitor" on a closed channel does not stop it. The gateway heuristic may name
  the router itself.
- `fallback_to` writes neither encryption nor key; a failed `iw dev` skips the
  fallback; `find_sta_interface` ignores the radio; `wait_for_sta_ip` accepts an
  old address. `disconnect` never removes the named sections `connect` adds, and
  the clean-up for an SSID lists anonymous sections twice and may delete the
  access point.
- `login` sends user and password as the only parameters (`ubus_client.rs:159`),
  without the object and method a real rpcd expects of a call; the model's login
  may succeed, as the code takes it to. Over ubus, `add` drops the name of the
  section, `add_list` replaces the list,
  shell operations are skipped and reported as done, and an expired session is
  not renewed.

## 4. Proofs

All theorems hold for every value of the constants that satisfies the named
assumptions (`PriceAssumption` and the like: prices are integers, limits are
natural numbers, peers and links form finite sets, a menu of calls names calls
that exist). Each safety property is proved by an inductive invariant; below is what
it adds to the property, and why the code keeps it.

**`SessionProofs`** (any number of peers and pending verifications, any price,
policy, width of the integers, failed reads and clock corrections included).
- `TypeCorrect`: from lemmas on what every operator of `SessionCore` returns.
- `AccessCorrect`: `AccessFollowsPhase` says nothing of `New` and
  `BootstrapPending`, where a peer may or may not be let through, and is
  inductive together with `TypeOK`. The step lemma `AccessStep` shows it action
  by action, from lemmas on the fields and the effects each operator sets.
- `ChargedOnlyWhenServed`: an action property from `AccessFollowsPhase`: only a
  sample of an `Active` peer lowers the balance, and such a peer is let through.
- `CreditKept`: `NoCreditLost`, strengthened to all peers, known or not, since a
  forgotten peer starts again with empty books.
- `UsageBilled`: `MeteredUsageIsBilled` relates charged units to counters, while
  the code relates both to `billed_units`. The strengthening `BooksBalance` adds
  that: the units charged are at least `billed_units`, and `billed_units` is at
  least what the counters saw since the baseline.
- `ChargeFair`: `ChargeIsFair` at non-negative prices and while the costs since
  the baseline add up to less than `i64::MAX`, which is the range the property
  is meant for. The lemma `CostIsFair` says what one truncation loses and that
  only the clamp loses more; since no cost is negative, a sum below `i64::MAX`
  means that no sample was clamped (`Fair`).

**`DriverProofs`** (any requests, addresses, prices and token values, every
interleaving of the tasks).
- `DriverInvariant`: `IInv` keeps types, that an unknown peer has no credit, and
  the credit. It does not mention the work a task has left: whatever a task does
  next keeps the books right.
- `CreditIsExact`: `TokensAreCredited` until the mint has vouched for more than a
  u64 holds, where `saturating_add` loses the rest.
- `TrafficIsChargedOnce`: `ChargedForTraffic`, with reports, failed readings and
  sessions after one another. `Metered` says that what was charged is covered by
  the reading the metering loop is about to feed, and by what the session has
  billed since its baseline, each failed reading allowing one more pass over the
  counter. A negative price charges nothing, which the theorem states separately.

**`PaymentProofs`**
- Wallet (any proofs, tokens, tasks and restarts, failed appends): `TypeCorrect`;
  `SwapCreditsOnce`: with the swap, `NoDoubleCredit` follows from `SwapInv`: what
  is credited or vouched for is spent at the mint, each proof by one task only;
  `RefusesOnlySpent`, from the same.
- Consumer (any prices of time and traffic, payment, watermark and width):
  `ExposureBounded`, from `Exposed`. The loop's estimate of what is left may be
  stale but is too low by no more than what truncation of the samples dropped:
  since the loop began, the balance is at most what it paid less what the session
  has billed, and less what any report still in the outbox says (`Accounted`). So
  it tops up only when less than the watermark is left. A failed exchange makes
  the loop forget what it paid, at most a cycle.

**`DeliveryProofs`** (any set of bounded grants and readings).
- `TypeCorrect`, in particular that no refund is negative (`SettleType`).
- `JournalKept`, `CapsEnforced`.
- `ImplementsSettlement`: the initial state maps to an initial state of
  `Settlement`, every step to a step or a stutter. It needs
  `BooksOpenUntilDone` (nothing is booked before the engine is done) and that
  the host feeds no readings to a settled engine.

**`ChargerProofs`** (any grant, price, lease and clock step, any number of
crashes, losses and redeliveries).
- Charger: `IInv` has five parts: types with the one grant, nothing booked before
  the end (`Unsplit`), an ordered stop is pending until a crash
  (`StopIsPending`), what the wires may hold given the state of the device
  (`DeviceInv`), and that what is journalled or booked was served (`ServedInv`).
  From it `PaidTimeServed`, `NoneDeliveredAfterSettlement` and the action property
  `FrozenOnceStopped`.
- External: `ExtInv` says that an open delivery has its provider session and that
  no reading is ahead of the meter. From it `MeterIsPaid`.
- `BothSplit`: both drivers implement `Settlement`, step by step.

**`V1Proofs`**
- `QuotesGrantOnce` (any lifetime and failing calls): the grant is the monitor's
  last step, and it gets there only when the mint has issued (`GrantIsLast`).
- `MintedIsIssued` (any amount, polls, attempts, sagas, payments and restarts):
  `OkIsMinted`. Until the mint issues the quote, the wallet has, and can recover
  from sagas, no more than it could at the call (`NothingCameIn`).
- `RecoveryEarned` (any mints and threshold): an action property. For a mint the
  two tasks never marked at once, the count of successes is covered by the
  streak (`CountIsCovered`), which needs `OneMarks`.
- `AcceptedPaid` (any requests, peers and clients that leave): acceptances in
  answers, in the outbox and about to be queued never outnumber the credited
  tokens (`AcksAreCovered`, a statement on cardinalities of finite sets).
- `OwnTokenAnswered`: a request that met no other has the outbox to itself
  (`Undisturbed`), because an outbox that is not empty belongs to somebody
  (`OutboxIsOwned`), and the reaper's four steps either find it empty or mark the
  request.

**`UpstreamProofs`** (any gateways, prices, answers, order of probing, purse,
budget, capacity and interval): `TypeCorrect`, `OnePayerAtATime`, `OneTrackerPerSession`,
`ConnectPaysOnlyWhenEmpty`. The invariant `TasksApart` says that the manager pays
only for gateways in the session map and the Crowsnest only for gateways that
are not; `TrackerPerSession` counts the tracker that is started just before its
session is inserted. From both follows that nobody credits a gateway while
`connect()` buys from it, except by a late payment, so what `fetch_usage` read
stays true; `CallStep` says what one step of a call may change.

**`OpenWrtProofs`**
- `StagedIsCommitted` (any callers, radios, networks and menus): the operations a
  call has left are closed, every change being followed by a commit of its
  configuration, and what is staged is still to be committed by somebody
  (`WifiInv`), not necessarily by the caller that staged it.
- `PictureHolds` (any links, filter, throttle and channel, any loss of the
  socket, overruns and partial scans): `MonitorInv` says that a queued deletion is
  followed by the news that
  the link is up again if it is, and the other way round (`InOrder`), and that
  every difference between kernel and consumer is in the queue, in the hands of
  the task, in the channel, or excused (`Explained`).

Model-checked only. Liveness and whatever needs fairness (`LeaseEndsGrant`,
`BothSettle`, `IdleIsForgotten`, `ServedAgain`, `PaidIsGranted`,
`QuoteIsForgotten`, `AdvertisementSettles`, `ServiceComesBack`, `StopEnds`,
`CallsReturn`), which this prover does not handle. `SwitchFallsBack`: it depends on
what the operations a switch builds by folding over the sections do to the
configuration, which is induction over data. The type invariants are proved and not
part of the runs.

## 5. Plan

1. *Done*: session, driver, wallet, delivery engine, charger, external driver,
   Lightning quotes, v1 client; proofs for session, delivery and wallet.
2. *Done*: consumer, v1 provider, mint health and wallet, network monitor, WiFi
   connector and scanner, `v1-consume`.
3. *Done*: proofs of every safety property of the runs except `SwitchFallsBack`,
   and of the refinement of `Settlement` by the engine and both hosts.
4. Proofs: `SwitchFallsBack`, as far as it does not rest on the folds over the
   sections.
5. `Consumer` composed with `Driver` in place of the atomic provider.

## 6. Not modelled

Byte-level CBOR and Nostr encodings, configuration parsing, status pages, the
control socket, certificates, the start-up of the gateway, the Spilman channel
experiment (outside of the default build), packaging and test scripts: none of
them keeps state the others depend on. Of the modelled parts: read-only
endpoints, `/ln-invoice` (one call of the wallet), and the shutdown of the v1
client, which has no caller. `PROJECT.json` lists each with its reason.
