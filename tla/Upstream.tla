------------------------------ MODULE Upstream ------------------------------
(***************************************************************************)
(* v1 client mode.  `v1-auto`: the Crowsnest probes the gateways of one    *)
(* interface in turn and opens a session with each that is a TollGate; a   *)
(* usage tracker per session asks for renewals; the SessionManager's loop  *)
(* pays for them.  All of them are tasks of one process.  Every await is a *)
(* step boundary.  The manager holds the write lock of the session map for *)
(* the whole of a renewal, payment included; the Crowsnest holds it only   *)
(* while it looks into or changes the map.  `v1-consume`: one V1Client     *)
(* polls and pays one gateway, in a loop of its own.                       *)
(*                                                                         *)
(* The gateways are known from how the client uses them: they may be out   *)
(* of reach, ask too much, answer in a form the client cannot read, refuse *)
(* a payment, or take it when the client has given up waiting.  Amounts    *)
(* are counted in payments; time in ticks of 5 seconds.                    *)
(***************************************************************************)
EXTENDS Integers, Sequences, FiniteSets

CONSTANTS
    Gateway,        \* gateway addresses
    Order,          \* config.gateway_ips: the order they are probed in
    Purchase,       \* allotment one payment buys
    ThresholdPct,   \* renewal_threshold, per cent of the allotment
    DisconnectAfter,\* DISCONNECT_AFTER_CONSECUTIVE_FAILURES
    RenewalTicks,   \* MIN_RENEWAL_INTERVAL
    PaymentTicks,   \* MIN_PAYMENT_INTERVAL
    VerifySignature,\* config.verify_signature of the Crowsnest
    ChannelCap,     \* capacity of the renewal channel
    MaxPrice,       \* config.max_price_per_ms, max_price_per_byte
    Scenarios       \* bound: what the gateways may be like, and the purse

(* How a gateway answers /usage, as "used/allotment" or not, and the prices*)
(* of its options in our mint and unit.                                    *)
Router == [plain : BOOLEAN, offers : SUBSET (Nat \ {0})]

(* Payments the wallet can make, Lightning invoices the user pays, outages *)
(* of a gateway, and calls that go wrong although it is within reach.      *)
Purse == [funds : Nat, invoices : Nat, outages : Nat, mishaps : Nat]

ASSUME UpstreamAssumption ==
    /\ Order \in Seq(Gateway) /\ Order # <<>>   \* without any, the scan only sleeps
    /\ VerifySignature \in BOOLEAN
    /\ Scenarios \subseteq [routers : [Gateway -> Router], purse : Purse]
    /\ {Purchase, DisconnectAfter, ChannelCap} \subseteq Nat \ {0}
    /\ {ThresholdPct, RenewalTicks, PaymentTicks, MaxPrice} \subseteq Nat

Actor == {"nest", "manager", "client"}

VARIABLES
    sessions,       \* keys of SessionManager.sessions
    client,         \* V1Client: [attached, payment_age], and history: [misled], what it
                    \* last read of the usage is not what the gateway owes
    trackers,       \* usage trackers that run for each gateway
    request_age,    \* ticks since the tracker's last request
    queue,          \* the renewal channel
    failures,       \* consecutive probe failures
    job,            \* what each task is doing: [pc, g]
    turn,           \* the gateway the Crowsnest is at: index into Order
    up,             \* gateways within reach
    remote,         \* the gateway: what it has for us, [allotment, used]; payments it may
                    \* get that nobody waits for, [tokens, invoices]; its Router
    purse           \* what is left of the Purse

vars == <<sessions, client, trackers, request_age, queue, failures, job, turn, up,
          remote, purse>>

Idle == [pc |-> "idle", g |-> Order[1]]

Off == [Idle EXCEPT !.pc = "off"]

(* The two commands: v1-auto, and v1-consume, which connects first.        *)
AutoJobs == [a \in Actor |-> IF a = "client" THEN Off ELSE Idle]
ConsumeJobs(g) ==
    [a \in Actor |-> IF a = "client" THEN [pc |-> "usage", g |-> g] ELSE Off]

NewClient == [attached |-> FALSE, payment_age |-> PaymentTicks, misled |-> FALSE]

NewRemote(router) ==
    [allotment |-> 0, used |-> 0, tokens |-> 0, invoices |-> 0,
     plain |-> router.plain, offers |-> router.offers]

Init ==
    /\ sessions = {}
    /\ client = [g \in Gateway |-> NewClient]
    /\ trackers = [g \in Gateway |-> 0]
    /\ request_age = [g \in Gateway |-> RenewalTicks]
    /\ queue = <<>>
    /\ failures = [g \in Gateway |-> 0]
    /\ job \in {AutoJobs} \cup {ConsumeJobs(g) : g \in Gateway}
    /\ turn = 1
    /\ up = Gateway
    /\ \E scenario \in Scenarios :
         /\ remote = [g \in Gateway |-> NewRemote(scenario.routers[g])]
         /\ purse = scenario.purse

-----------------------------------------------------------------------------
At(a, pc) == job[a].pc = pc

Unlocked == At("manager", "idle")

(* A call to g goes wrong: g is out of reach, or answers badly.            *)
Mishap(g) ==
    IF g \notin up THEN UNCHANGED purse
    ELSE purse.mishaps > 0 /\ purse' = [purse EXCEPT !.mishaps = @ - 1]

GoTo(a, pc) == job' = [job EXCEPT ![a].pc = pc]

(* connect() or renew() is over: the manager unlocks the map, the client   *)
(* of v1-consume sleeps until the next poll.                               *)
Done(a) ==
    IF a = "manager" THEN job' = [job EXCEPT !["manager"] = Idle] ELSE GoTo(a, "sleep")

(* The Crowsnest is done with a gateway: the next one, or sleep.           *)
NextGateway ==
    IF turn < Len(Order)
    THEN /\ turn' = turn + 1
         /\ job' = [job EXCEPT !["nest"] = [pc |-> "probe", g |-> Order[turn + 1]]]
    ELSE turn' = 1 /\ job' = [job EXCEPT !["nest"] = Idle]

-----------------------------------------------------------------------------
(* What the probe of a gateway finds.  An answer is a status and a body: a *)
(* Nostr event of some kind, with or without a good signature and the tags *)
(* that are read from it, or no event at all.                              *)
Tags == {"metric", "step_size", "price_per_step"}
Body == [kind : {"advertisement", "other", "none"}, signed : BOOLEAN, tags : SUBSET Tags]

FromJson(body) == body.kind = "advertisement"

ParseAdvertisement(body) ==
    IF ~FromJson(body) THEN "InvalidAdvertisement"
    ELSE IF VerifySignature /\ ~body.signed THEN "InvalidSignature"
    ELSE IF body.tags # Tags THEN "InvalidAdvertisement"
    ELSE "Ok"

ProbeUrl(status, body) ==
    CASE status = "Timeout" -> "Err"
      [] status = "NotFound" -> "None"
      [] ParseAdvertisement(body) = "Ok" -> "Some"
      [] ParseAdvertisement(body) = "InvalidAdvertisement" -> "None"
      [] OTHER -> "Err"

Results(statuses) ==
    {ProbeUrl(answer[1], answer[2]) : answer \in statuses \X Body}

AnyResult == Results({"Ok", "NotFound", "Timeout"})
NoAnswer == Results({"Timeout"})

ProbeResults(g) == IF g \in up THEN AnyResult ELSE NoAnswer

-----------------------------------------------------------------------------
(* Crowsnest::run.                                                         *)
Scan ==
    /\ At("nest", "idle")
    /\ job' = [job EXCEPT !["nest"] = [pc |-> "probe", g |-> Order[1]]]
    /\ UNCHANGED <<sessions, client, trackers, request_age, queue, failures, turn, up,
                   remote, purse>>

ProbeFinds ==
    LET g == job["nest"].g
    IN  /\ At("nest", "probe") /\ "Some" \in ProbeResults(g)
        /\ failures' = [failures EXCEPT ![g] = 0]
        /\ GoTo("nest", "check")
        /\ UNCHANGED <<sessions, client, trackers, request_age, queue, turn, up, remote,
                       purse>>

(* The gateway answers, but not with a usable advertisement.               *)
ProbeFindsNone ==
    LET g == job["nest"].g
    IN  /\ At("nest", "probe") /\ "None" \in ProbeResults(g)
        /\ Mishap(g)
        /\ failures' = [failures EXCEPT ![g] = 0]
        /\ NextGateway
        /\ UNCHANGED <<sessions, client, trackers, request_age, queue, up, remote>>

(* No answer in time, or one whose signature is wrong.                     *)
ProbeFails ==
    LET g == job["nest"].g
    IN  /\ At("nest", "probe") /\ "Err" \in ProbeResults(g)
        /\ Mishap(g)
        /\ IF failures[g] + 1 < DisconnectAfter
           THEN failures' = [failures EXCEPT ![g] = @ + 1] /\ NextGateway
           ELSE /\ failures' = [failures EXCEPT ![g] = 0]
                /\ GoTo("nest", "disconnect") /\ UNCHANGED turn
        /\ UNCHANGED <<sessions, client, trackers, request_age, queue, up, remote>>

(* Mutant: the trackers are not aborted.                                   *)
DisconnectLeavesTrackers ==
    /\ At("nest", "disconnect") /\ Unlocked
    /\ sessions' = {}
    /\ client' = [g \in Gateway |-> NewClient]
    /\ NextGateway
    /\ UNCHANGED <<trackers, request_age, queue, failures, up, remote, purse>>

(* Mutant: the sessions are ended but stay in the map.                     *)
DisconnectKeepsSessions ==
    /\ At("nest", "disconnect") /\ Unlocked
    /\ trackers' = [g \in Gateway |-> 0]
    /\ NextGateway
    /\ UNCHANGED <<sessions, client, request_age, queue, failures, up, remote, purse>>

(* handle_disconnect: every session of the interface, not only the one of  *)
(* the gateway that failed.                                                *)
Disconnect ==
    /\ At("nest", "disconnect") /\ Unlocked
    /\ sessions' = {}
    /\ trackers' = [g \in Gateway |-> trackers[g] - (IF g \in sessions THEN 1 ELSE 0)]
    /\ client' = [g \in Gateway |-> NewClient]
    /\ request_age' = [g \in Gateway |-> RenewalTicks]
    /\ NextGateway
    /\ UNCHANGED <<queue, failures, up, remote, purse>>

(* Mutant: the map is not looked up.                                       *)
CheckNothing ==
    LET g == job["nest"].g
    IN  /\ At("nest", "check") /\ Unlocked
        /\ client' = [client EXCEPT ![g] = NewClient]
        /\ GoTo("nest", "usage")
        /\ UNCHANGED <<sessions, trackers, request_age, queue, failures, turn, up, remote,
                       purse>>

(* handle_gateway_connected, the look-up.                                  *)
CheckSession ==
    LET g == job["nest"].g
    IN  /\ At("nest", "check") /\ Unlocked
        /\ IF g \in sessions THEN NextGateway /\ UNCHANGED client
           ELSE /\ client' = [client EXCEPT ![g] = NewClient]
                /\ GoTo("nest", "usage") /\ UNCHANGED turn
        /\ UNCHANGED <<sessions, trackers, request_age, queue, failures, up, remote, purse>>

(* handle_gateway_connected, after connect: start the tracker, then insert.*)
SpawnTracker ==
    LET g == job["nest"].g
    IN  /\ At("nest", "spawn")
        /\ trackers' = [trackers EXCEPT ![g] = @ + 1]
        /\ request_age' = [request_age EXCEPT ![g] = RenewalTicks]
        /\ GoTo("nest", "insert")
        /\ UNCHANGED <<sessions, client, queue, failures, turn, up, remote, purse>>

InsertSession ==
    /\ At("nest", "insert") /\ Unlocked
    /\ sessions' = sessions \cup {job["nest"].g}
    /\ NextGateway
    /\ UNCHANGED <<client, trackers, request_age, queue, failures, up, remote, purse>>

-----------------------------------------------------------------------------
(* V1Client::connect and V1Client::renew, by either task.                  *)

(* The call returns Err: the Crowsnest moves on, the manager unlocks.  A   *)
(* failed connect ends v1-consume, a failed renewal does not.              *)
Failed(a) ==
    IF a = "nest" THEN NextGateway
    ELSE /\ IF a = "client" /\ ~At(a, "retoken") /\ ~At(a, "resend")
            THEN GoTo(a, "ended") ELSE Done(a)
         /\ UNCHANGED turn

Connected(a) ==
    /\ client' = [client EXCEPT ![job[a].g].attached = TRUE]
    /\ IF a = "nest" THEN GoTo(a, "spawn") ELSE Done(a)
    /\ UNCHANGED turn

(* parse_usage_response: whatever is not "used/allotment" is no session.   *)
Reading(g, readable) == IF readable /\ remote[g].plain THEN remote[g].allotment ELSE 0

(* Mutant: connect pays without asking for an existing session.            *)
FetchUsageIgnored(a) ==
    LET g == job[a].g
    IN  /\ At(a, "usage") /\ g \in up
        /\ client' = [client EXCEPT ![g].misled = FALSE]
        /\ GoTo(a, "ad")
        /\ UNCHANGED <<sessions, trackers, request_age, queue, failures, turn, up, remote,
                       purse>>

(* An existing session is attached to, otherwise one is bought.            *)
FetchUsage(a) ==
    LET g == job[a].g
    IN  /\ At(a, "usage") /\ g \in up
        /\ \E readable \in BOOLEAN :
             /\ IF readable THEN UNCHANGED purse ELSE Mishap(g)
             /\ client' = [client EXCEPT ![g].misled =
                              (Reading(g, readable) # remote[g].allotment)]
             /\ GoTo(a, IF Reading(g, readable) > 0 THEN "attach" ELSE "ad")
        /\ UNCHANGED <<sessions, trackers, request_age, queue, failures, turn, up, remote>>

UsageFails(a) ==
    /\ At(a, "usage") /\ Mishap(job[a].g)
    /\ Failed(a)
    /\ UNCHANGED <<sessions, client, trackers, request_age, queue, failures, up, remote>>

(* The advertisement, three times tried: for the metadata of a session to  *)
(* attach to, or to select the cheapest price and check it.                *)
Compatible(g) == remote[g].offers # {}
WithinBudget(g) == \E price \in remote[g].offers : price <= MaxPrice

Attach(a) ==
    /\ At(a, "attach") /\ job[a].g \in up
    /\ Compatible(job[a].g)
    /\ Connected(a)
    /\ UNCHANGED <<sessions, trackers, request_age, queue, failures, up, remote, purse>>

FetchAd(a) ==
    /\ At(a, "ad") /\ job[a].g \in up
    /\ Compatible(job[a].g) /\ WithinBudget(job[a].g)
    /\ GoTo(a, "balance")
    /\ UNCHANGED <<sessions, client, trackers, request_age, queue, failures, turn, up,
                   remote, purse>>

AdvertisementFails(a) ==
    /\ At(a, "attach") \/ At(a, "ad")
    /\ Mishap(job[a].g)
    /\ Failed(a)
    /\ UNCHANGED <<sessions, client, trackers, request_age, queue, failures, up, remote>>

PriceRefused(a) ==
    LET g == job[a].g
    IN  /\ At(a, "attach") \/ At(a, "ad")
        /\ g \in up
        /\ ~Compatible(g) \/ (At(a, "ad") /\ ~WithinBudget(g))
        /\ Failed(a)
        /\ UNCHANGED <<sessions, client, trackers, request_age, queue, failures, up, remote,
                       purse>>

(* The wallet's balance decides between a token and an invoice; the token  *)
(* is made after another await, and the wallet is shared.                  *)
ReadBalance(a) ==
    /\ At(a, "balance")
    /\ GoTo(a, IF purse.funds > 0 THEN "token" ELSE "invoice")
    /\ UNCHANGED <<sessions, client, trackers, request_age, queue, failures, turn, up,
                   remote, purse>>

CreateToken(a) ==
    /\ At(a, "token") \/ At(a, "retoken")
    /\ IF purse.funds > 0
       THEN /\ purse' = [purse EXCEPT !.funds = @ - 1]
            /\ GoTo(a, IF At(a, "token") THEN "send" ELSE "resend")
            /\ UNCHANGED turn
       ELSE Failed(a) /\ UNCHANGED purse
    /\ UNCHANGED <<sessions, client, trackers, request_age, queue, failures, up, remote>>

Credited(g) == remote' = [remote EXCEPT ![g].allotment = @ + Purchase]

(* The gateway takes the token, and its answer arrives.                    *)
PaymentAccepted(a) ==
    /\ At(a, "send") /\ job[a].g \in up
    /\ Credited(job[a].g)
    /\ Connected(a)
    /\ UNCHANGED <<sessions, trackers, request_age, queue, failures, up, purse>>

RenewalAccepted(a) ==
    /\ At(a, "resend") /\ job[a].g \in up
    /\ Credited(job[a].g)
    /\ Done(a)
    /\ UNCHANGED <<sessions, client, trackers, request_age, queue, failures, turn, up,
                   purse>>

(* No answer within 30 seconds, or a refusal.  The token is not put back   *)
(* into the wallet; the gateway may have it, or get it yet.                *)
PaymentFails(a) ==
    /\ At(a, "send") \/ At(a, "resend")
    /\ Mishap(job[a].g)
    /\ Failed(a)
    /\ remote' \in {remote, [remote EXCEPT ![job[a].g].tokens = @ + 1]}
    /\ UNCHANGED <<sessions, client, trackers, request_age, queue, failures, up>>

(* request_ln_invoice: the gateway makes an invoice, or fails to.          *)
RequestInvoice(a) ==
    /\ At(a, "invoice") /\ job[a].g \in up
    /\ GoTo(a, "await")
    /\ UNCHANGED <<sessions, client, trackers, request_age, queue, failures, turn, up,
                   remote, purse>>

InvoiceRefused(a) ==
    /\ At(a, "invoice") /\ Mishap(job[a].g)
    /\ Failed(a)
    /\ UNCHANGED <<sessions, client, trackers, request_age, queue, failures, up, remote>>

(* connect_via_lightning: the user pays, and the client learns of it.      *)
InvoiceSettled(a) ==
    /\ At(a, "await") /\ job[a].g \in up
    /\ purse.invoices > 0
    /\ purse' = [purse EXCEPT !.invoices = @ - 1]
    /\ Credited(job[a].g)
    /\ Connected(a)
    /\ UNCHANGED <<sessions, trackers, request_age, queue, failures, up>>

(* The client stops waiting, and the invoice can still be paid (those      *)
(* beyond what the user pays are not counted).                             *)
LeavesInvoice(g) ==
    remote' = [remote EXCEPT ![g].invoices = IF @ < purse.invoices THEN @ + 1 ELSE @]

(* Nobody pays within five minutes.                                        *)
InvoiceTimesOut(a) ==
    /\ At(a, "await")
    /\ LeavesInvoice(job[a].g)
    /\ Failed(a)
    /\ UNCHANGED <<sessions, client, trackers, request_age, queue, failures, up, purse>>

(* check_ln_invoice_status fails: one failed poll ends the wait.           *)
StatusCheckFails(a) ==
    /\ At(a, "await") /\ Mishap(job[a].g)
    /\ LeavesInvoice(job[a].g)
    /\ Failed(a)
    /\ UNCHANGED <<sessions, client, trackers, request_age, queue, failures, up>>

(* A token arrives, or an invoice is paid, that nobody waits for any more. *)
LateCredit(g) ==
    /\ \/ /\ remote[g].tokens > 0
          /\ remote' = [remote EXCEPT ![g].tokens = @ - 1, ![g].allotment = @ + Purchase]
          /\ UNCHANGED purse
       \/ /\ remote[g].invoices > 0 /\ purse.invoices > 0
          /\ remote' = [remote EXCEPT ![g].invoices = @ - 1, ![g].allotment = @ + Purchase]
          /\ purse' = [purse EXCEPT !.invoices = @ - 1]
    /\ client' = [client EXCEPT ![g].misled = TRUE]
    /\ UNCHANGED <<sessions, trackers, request_age, queue, failures, job, turn, up>>

-----------------------------------------------------------------------------
(* SessionManager::run and process_renewal.                                *)

Receive ==
    /\ At("manager", "idle") /\ queue # <<>>
    /\ queue' = Tail(queue)
    /\ IF Head(queue).g \in sessions
       THEN job' = [job EXCEPT !["manager"] =
                      [pc |-> IF Head(queue).empty THEN "usage" ELSE "renew",
                       g |-> Head(queue).g]]
       ELSE UNCHANGED job
    /\ UNCHANGED <<sessions, client, trackers, request_age, failures, turn, up, remote,
                   purse>>

(* renew(): throttled, without a session, or a token is made.              *)
Renew(a) ==
    LET g == job[a].g
        throttled == client[g].payment_age < PaymentTicks
    IN  /\ At(a, "renew")
        /\ client' = IF throttled THEN client ELSE [client EXCEPT ![g].payment_age = 0]
        /\ IF ~throttled /\ client[g].attached THEN GoTo(a, "retoken") ELSE Done(a)
        /\ UNCHANGED <<sessions, trackers, request_age, queue, failures, turn, up, remote,
                       purse>>

-----------------------------------------------------------------------------
(* The threshold, of run_tracker and of poll_usage.                        *)
NeedsRequest(g, allotment) ==
    allotment = 0 \/ remote[g].used * 100 >= ThresholdPct * allotment

(* V1Client::run, the loop of v1-consume.                                  *)

(* poll_usage.  A failed poll looks like a session that is over.           *)
Polled(g, answered) ==
    LET allotment == Reading(g, answered)
    IN  IF allotment = 0 THEN "usage"
        ELSE IF NeedsRequest(g, allotment) THEN "renew" ELSE "sleep"

RunPolls ==
    LET g == job["client"].g
    IN  /\ At("client", "sleep")
        /\ \/ g \in up /\ GoTo("client", Polled(g, TRUE)) /\ UNCHANGED purse
           \/ Mishap(g) /\ GoTo("client", Polled(g, FALSE))
        /\ UNCHANGED <<sessions, client, trackers, request_age, queue, failures, turn, up,
                       remote>>

CtrlC ==
    /\ At("client", "sleep")
    /\ GoTo("client", "ended")
    /\ UNCHANGED <<sessions, client, trackers, request_age, queue, failures, turn, up,
                   remote, purse>>

-----------------------------------------------------------------------------
(* run_tracker: one poll that leads to a request.  A poll that fails, or   *)
(* is throttled, changes nothing; a full channel makes the tracker wait.   *)

TrackerPolls(g, readable) ==
    LET allotment == Reading(g, readable)
    IN  /\ trackers[g] > 0 /\ g \in up
        /\ NeedsRequest(g, allotment)
        /\ request_age[g] >= RenewalTicks
        /\ Len(queue) < ChannelCap
        /\ queue' = Append(queue, [g |-> g, empty |-> allotment = 0])
        /\ request_age' = [request_age EXCEPT ![g] = 0]
        /\ UNCHANGED <<sessions, client, trackers, failures, job, turn, up, remote>>

TrackerRequests(g) == TrackerPolls(g, TRUE) /\ UNCHANGED purse

(* One answer cannot be read.                                              *)
TrackerMisreads(g) == TrackerPolls(g, FALSE) /\ Mishap(g)

-----------------------------------------------------------------------------
(* Time, traffic and outages.                                              *)

Older(age, limit) == IF age < limit THEN age + 1 ELSE age

Tick ==
    /\ request_age' = [g \in Gateway |-> Older(request_age[g], RenewalTicks)]
    /\ client' = [g \in Gateway |->
                    [client[g] EXCEPT !.payment_age = Older(@, PaymentTicks)]]
    /\ UNCHANGED <<sessions, trackers, queue, failures, job, turn, up, remote, purse>>

(* A used-up allotment ends the gateway's session: "-1/-1".                *)
Use(g) ==
    /\ remote[g].allotment > 0
    /\ IF remote[g].used + 1 < remote[g].allotment
       THEN remote' = [remote EXCEPT ![g].used = @ + 1]
       ELSE remote' = [remote EXCEPT ![g].allotment = 0, ![g].used = 0]
    /\ UNCHANGED <<sessions, client, trackers, request_age, queue, failures, job, turn, up,
                   purse>>

GoesDown(g) ==
    /\ g \in up /\ purse.outages > 0
    /\ up' = up \ {g}
    /\ purse' = [purse EXCEPT !.outages = @ - 1]
    /\ UNCHANGED <<sessions, client, trackers, request_age, queue, failures, job, turn,
                   remote>>

ComesUp(g) ==
    /\ g \notin up
    /\ up' = up \cup {g}
    /\ UNCHANGED <<sessions, client, trackers, request_age, queue, failures, job, turn,
                   remote, purse>>

Crowsnest ==
    \/ Scan \/ ProbeFinds \/ ProbeFindsNone \/ ProbeFails \/ Disconnect
    \/ CheckSession \/ SpawnTracker \/ InsertSession

Connect(a) ==
    \/ FetchUsage(a) \/ UsageFails(a) \/ Attach(a) \/ FetchAd(a) \/ AdvertisementFails(a)
    \/ PriceRefused(a) \/ ReadBalance(a) \/ CreateToken(a)
    \/ PaymentAccepted(a) \/ PaymentFails(a)
    \/ RequestInvoice(a) \/ InvoiceRefused(a) \/ StatusCheckFails(a)
    \/ InvoiceSettled(a) \/ InvoiceTimesOut(a)

Manager == Receive \/ Renew("manager") \/ RenewalAccepted("manager") \/ Connect("manager")

Run == RunPolls \/ Renew("client") \/ RenewalAccepted("client") \/ Connect("client")

Next ==
    \/ Crowsnest \/ Connect("nest") \/ Manager \/ Run \/ CtrlC \/ Tick
    \/ \E g \in Gateway : \/ TrackerRequests(g) \/ TrackerMisreads(g) \/ LateCredit(g)
                          \/ Use(g) \/ GoesDown(g) \/ ComesUp(g)

Spec == Init /\ [][Next]_vars

(* The tasks run (of the manager and the client of v1-consume there is one *)
(* only) and time passes; nothing is assumed of the gateways.              *)
FairSpec ==
    /\ Spec
    /\ WF_vars(Crowsnest \/ Connect("nest")) /\ WF_vars(Manager \/ Run) /\ WF_vars(Tick)
    /\ \A g \in Gateway : WF_vars(TrackerRequests(g))

-----------------------------------------------------------------------------
(* Inside connect(), after the look at the usage; inside a payment.        *)
Buying == {"ad", "balance", "token", "send", "invoice", "await"}
Paying == Buying \cup {"usage", "attach", "renew", "retoken", "resend"}

(* The Crowsnest and the renewal loop never pay the same gateway at the    *)
(* same time, although connect() runs without the lock of the map.         *)
OnePayer ==
    \A g \in Gateway :
        Cardinality({a \in Actor : job[a].pc \in Paying /\ job[a].g = g}) <= 1

(* Every session has exactly one usage tracker, and no tracker outlives    *)
(* its session, whatever is disconnected and found again.                  *)
OneTracker ==
    \A g \in Gateway :
        trackers[g] = Cardinality({s \in sessions : s = g})
                        + (IF job["nest"] = [pc |-> "insert", g |-> g] THEN 1 ELSE 0)

(* connect() re-attaches to what is left of an allotment: it never buys    *)
(* from a gateway that still owes us service, not after a lost answer or a *)
(* disconnect either.  Left out is the gateway whose answer to /usage it   *)
(* could not read, which it takes for "no session", and one that got a     *)
(* payment since that nobody waited for.                                   *)
ConnectPaysWhenEmpty ==
    \A a \in Actor :
        LET g == job[a].g
        IN  job[a].pc \in Buying /\ ~client[g].misled => remote[g].allotment = 0

(* From some time on g is within reach, the wallet has funds, and somebody *)
(* is there to pay it: v1-auto for each gateway, v1-consume for its own    *)
(* until it ends.                                                          *)
Payable(g) ==
    /\ g \in up /\ purse.funds > 0
    /\ At("client", "off") \/ (job["client"].g = g /\ ~At("client", "ended"))

(* A gateway whose price is within the budget is paid again whenever its   *)
(* allotment is used up, whatever went wrong before.                       *)
ServiceComesBack ==
    \A g \in Gateway :
        <>[](Payable(g) /\ WithinBudget(g)) => []<>(remote[g].allotment > 0)

(* client.rs: "Maximum price per millisecond we'll accept (0 = no limit)": *)
(* with 0, which both commands pass, no price keeps service from coming.   *)
ZeroIsNoLimit ==
    \A g \in Gateway :
        <>[](Payable(g) /\ Compatible(g) /\ MaxPrice = 0) => []<>(remote[g].allotment > 0)

=============================================================================
