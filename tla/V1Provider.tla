----------------------------- MODULE V1Provider -----------------------------
(***************************************************************************)
(* The v1 HTTP provider (v1_compat: handlers.rs, adapter.rs, merchant.rs,  *)
(* mac_resolver.rs) on top of the Driver, and the price selection of the   *)
(* clients it serves (pricing.rs, client.rs).                              *)
(*                                                                         *)
(* A payment is a handler with awaits: connect the peer, verify the token, *)
(* credit it, queue the ack, drain the peer's outbox and take the first    *)
(* ack found there for the answer.  Requests of one peer share the outbox. *)
(* A client that closes its connection ends its handler at an await.       *)
(*                                                                         *)
(* Of the outbox only the acks are kept: nothing else in it is read.  A v1 *)
(* peer has the identity derived from its MAC, so peers stand for both.    *)
(* The allotment an answer names is left out: nothing else depends on it.  *)
(***************************************************************************)
EXTENDS MintHealth, FiniteSets, FiniteSetsExt

CONSTANTS
    StepSize,           \* step_size of the advertisement, in the metric
    Metric,             \* metric of the advertisement
    OurMints,           \* the client's mints
    OurUnit,            \* and unit
    MaxPrice,           \* its budget: a metric's highest price of 1000 units
    PreferredAllotment, \* what it would like to buy
    Purses,             \* balances a client may have
    Leases,             \* /tmp/dhcp.leases: address -> peer
    Addresses,          \* addresses, also ones without a lease
    TrustProxyHeaders,  \* trust_proxy_headers
    Requests,           \* bound: the requests made, positive numbers
    MaxDrops            \* bound: requests whose client goes away

ASSUME ProviderAssumption ==
    /\ {StepSize, PreferredAllotment, MaxDrops} \subseteq Nat
    /\ Purses \subseteq Nat
    /\ DOMAIN Leases \subseteq Addresses
    /\ Requests \subseteq Nat \ {0}
    /\ TrustProxyHeaders \in BOOLEAN

VARIABLES
    request,    \* the handlers: [pc, address, token, ok, status]
    account,    \* the peers' sessions: phase and balance
    outbox,     \* the acks queued for each peer
    reaping,    \* where the reaper is with each peer
    spent,      \* tokens the mint has swapped
    drops,      \* clients that may still go away
    credited,   \* history: requests whose token was credited
    muddled     \* history: requests that met another one of their peer,
                \* or whose ack the reaper threw away

providerVars == <<request, account, outbox, reaping, spent, drops, credited, muddled>>

Peers == {Leases[a] : a \in DOMAIN Leases}

NoToken == [id |-> 0, amount |-> 0, good |-> FALSE]
Fresh == [pc |-> "idle", address |-> "", token |-> NoToken, ok |-> FALSE, status |-> 0]
Unknown == [phase |-> "unknown", balance |-> 0]

ProviderInit ==
    /\ request = [r \in Requests |-> Fresh]
    /\ account = [p \in Peers |-> Unknown]
    /\ outbox = [p \in Peers |-> <<>>]
    /\ reaping = [p \in Peers |-> "idle"]
    /\ spent = {}
    /\ drops = MaxDrops
    /\ credited = {}
    /\ muddled = {}

-----------------------------------------------------------------------------
(* The client: V1Client::connect up to the token.                          *)

(* select_cheapest_compatible: the first of the cheapest, if any.          *)
SelectCheapestCompatible(options) ==
    LET fits == {i \in DOMAIN options : options[i].url \in OurMints /\ options[i].unit = OurUnit}
        cheapest == {i \in fits : \A j \in fits : options[i].price_per_step <= options[j].price_per_step}
    IN  IF fits = {} THEN {} ELSE {options[Min(cheapest)]}

WithinBudget(option) ==
    Metric \in DOMAIN MaxPrice /\ option.price_per_step * 1000 <= MaxPrice[Metric] * StepSize

Larger(a, b) == IF a > b THEN a ELSE b
Smaller(a, b) == IF a < b THEN a ELSE b

(* How many steps are bought.  A poor client buys less than the minimum.   *)
StepsToBuy(option, purse) ==
    LET preferred == IF StepSize = 0 THEN 1 ELSE PreferredAllotment \div StepSize
        affordable == IF option.price_per_step = 0 THEN 0 ELSE purse \div option.price_per_step
    IN  Larger(Smaller(Larger(preferred, option.min_steps), affordable), 1)

(* The amounts a client pays with: without an affordable step it turns to  *)
(* Lightning instead.                                                      *)
PaymentAmounts ==
    {StepsToBuy(o, purse) * o.price_per_step :
        o \in {c \in SelectCheapestCompatible(Advertisement.price_per_step) : WithinBudget(c)},
        purse \in {b \in Purses : \A c \in SelectCheapestCompatible(Advertisement.price_per_step) :
                                    c.price_per_step > 0 /\ b \div c.price_per_step > 0}}

-----------------------------------------------------------------------------
(* handle_post_payment.                                                    *)

PeerOf(r) == Leases[request[r].address]
UnderWay(r) == request[r].pc \notin {"idle", "done", "gone"}

(* Requests are numbered in the order of their arrival.                    *)
Arrives(r) == request[r].pc = "idle" /\ \A q \in Requests : q < r => request[q].pc # "idle"

(* extract_ip sees the forwarded address if headers are trusted, and never *)
(* the connection's; DhcpLeasesResolver maps it to a MAC.                  *)
Resolves(address) == TrustProxyHeaders /\ address \in DOMAIN Leases

(* extract_ip_full falls back to the connection's own address.             *)
ResolvesFull(address) == address \in DOMAIN Leases

Answer(r, status) == request' = [request EXCEPT ![r].pc = "done", ![r].status = status]

(* A client posts a token of its own making or somebody else's, a token it *)
(* has sent before, or something that is no token (extract_payment_token). *)
Bodies(r) ==
    {NoToken} \cup {request[q].token : q \in Requests} \cup
    {[id |-> r, amount |-> a, good |-> g] : a \in PaymentAmounts, g \in BOOLEAN}

Posted(r) ==
    /\ Arrives(r)
    /\ \E a \in Addresses, body \in Bodies(r) :
         /\ request' = [request EXCEPT ![r] =
              IF body = NoToken \/ ~Resolves(a)
              THEN [@ EXCEPT !.pc = "done", !.status = 400]
              ELSE [@ EXCEPT !.pc = "connect", !.address = a, !.token = body]]
         /\ LET crowd == {q \in Requests : UnderWay(q) /\ Leases[a] = PeerOf(q)}
                gone == {q \in Requests : request[q].pc = "gone" /\ Leases[a] = PeerOf(q)}
            IN  muddled' = IF body = NoToken \/ ~Resolves(a) \/ crowd \cup gone = {} THEN muddled
                           ELSE muddled \cup crowd \cup {r}
    /\ UNCHANGED <<account, outbox, reaping, spent, drops, credited>>

(* peer_connected: a known peer keeps its session.                         *)
Connects(r) ==
    LET p == PeerOf(r)
    IN  /\ request[r].pc = "connect"
        /\ account' = IF account[p] # Unknown THEN account
                      ELSE [account EXCEPT ![p] = [phase |-> "New", balance |-> 0]]
        /\ request' = [request EXCEPT ![r].pc = "message"]
        /\ UNCHANGED <<outbox, reaping, spent, drops, credited, muddled>>

(* message_received: a peer that is not known gets no answer.              *)
ReceivesToken(r) ==
    LET p == PeerOf(r)
    IN  /\ request[r].pc = "message"
        /\ IF account[p] = Unknown
           THEN request' = [request EXCEPT ![r].pc = "drain"] /\ UNCHANGED account
           ELSE /\ request' = [request EXCEPT ![r].pc = "verify"]
                /\ account' = [account EXCEPT ![p].phase = "BootstrapPending"]
        /\ UNCHANGED <<outbox, reaping, spent, drops, credited, muddled>>

(* verify_token: the wallet swaps the token at the mint.                   *)
Verifies(r) ==
    LET token == request[r].token
        ok == token.good /\ token.id \notin spent
    IN  /\ request[r].pc = "verify"
        /\ request' = [request EXCEPT ![r].pc = "credit", ![r].ok = ok]
        /\ spent' = IF ok THEN spent \cup {token.id} ELSE spent
        /\ UNCHANGED <<account, outbox, reaping, drops, credited, muddled>>

(* Session::handle of BootstrapVerified, if the peer is still known.       *)
Credits(r) ==
    LET p == PeerOf(r)
        ok == request[r].ok
    IN  /\ request[r].pc = "credit"
        /\ IF account[p] = Unknown
           THEN /\ request' = [request EXCEPT ![r].pc = "drain"]
                /\ UNCHANGED <<account, credited>>
           ELSE /\ request' = [request EXCEPT ![r].pc = "ack"]
                /\ account' = [account EXCEPT ![p].phase = IF ok THEN "Active" ELSE "New",
                                              ![p].balance = IF ok THEN @ + request[r].token.amount ELSE @]
                /\ credited' = IF ok THEN credited \cup {r} ELSE credited
        /\ UNCHANGED <<outbox, reaping, spent, drops, muddled>>

(* The ack is queued.                                                      *)
Acks(r) ==
    /\ request[r].pc = "ack"
    /\ outbox' = [outbox EXCEPT ![PeerOf(r)] = Append(@, request[r].ok)]
    /\ request' = [request EXCEPT ![r].pc = "drain"]
    /\ UNCHANGED <<account, reaping, spent, drops, credited, muddled>>

(* build_session_event (200) or build_notice_event (402).                  *)
AnswerOf(r, acks) ==
    Answer(r, IF acks # <<>> /\ Head(acks) THEN 200 ELSE 402)

(* Mutant: the answer is looked up, the outbox is not drained.             *)
DrainsPeeking(r) ==
    /\ request[r].pc = "drain"
    /\ AnswerOf(r, outbox[PeerOf(r)])
    /\ UNCHANGED <<account, outbox, reaping, spent, drops, credited, muddled>>

(* Mutant: no ack counts as an acceptance.                                 *)
DrainsHopefully(r) ==
    /\ request[r].pc = "drain"
    /\ AnswerOf(r, Append(outbox[PeerOf(r)], TRUE))
    /\ outbox' = [outbox EXCEPT ![PeerOf(r)] = <<>>]
    /\ UNCHANGED <<account, reaping, spent, drops, credited, muddled>>

(* drain_outbox and the first ack in it.                                   *)
Drains(r) ==
    /\ request[r].pc = "drain"
    /\ AnswerOf(r, outbox[PeerOf(r)])
    /\ outbox' = [outbox EXCEPT ![PeerOf(r)] = <<>>]
    /\ UNCHANGED <<account, reaping, spent, drops, credited, muddled>>

(* The client goes away; the handler ends where it is.  An await inside    *)
(* verify_token may end after the swap.                                    *)
ClientLeaves(r) ==
    /\ UnderWay(r) /\ drops > 0
    /\ drops' = drops - 1
    /\ request' = [request EXCEPT ![r].pc = "gone"]
    /\ UNCHANGED <<account, outbox, reaping, spent, credited, muddled>>

-----------------------------------------------------------------------------
(* handle_usage and handle_balance, for a peer that has a session.         *)
Asked(r) ==
    /\ Arrives(r)
    /\ \E a \in Addresses :
         request' = [request EXCEPT ![r] =
           IF ~ResolvesFull(a) THEN [@ EXCEPT !.pc = "done", !.status = 400]
           ELSE IF account[Leases[a]] = Unknown THEN [@ EXCEPT !.pc = "done", !.status = 404]
           ELSE [@ EXCEPT !.pc = "done", !.status = 200]]
    /\ UNCHANGED <<account, outbox, reaping, spent, drops, credited, muddled>>

(* The metering loop suspends a peer whose balance is used up.             *)
Exhausts(p) ==
    /\ account[p].phase = "Active"
    /\ account' = [account EXCEPT ![p] = [phase |-> "Suspended", balance |-> 0]]
    /\ UNCHANGED <<request, outbox, reaping, spent, drops, credited, muddled>>

(* reap_idle lists the peers that have been idle: no request but one that  *)
(* waits for the mint can last that long.  The list is out of date by the  *)
(* time a peer of it is looked at, and so is the look: each of the next    *)
(* steps takes a lock of its own.                                          *)
ListsIdle(p) ==
    /\ reaping[p] = "idle"
    /\ \A r \in Requests : UnderWay(r) /\ PeerOf(r) = p => request[r].pc \in {"verify", "credit"}
    /\ reaping' = [reaping EXCEPT ![p] = "listed"]
    /\ UNCHANGED <<request, account, outbox, spent, drops, credited, muddled>>

(* An Active peer is kept.                                                 *)
LooksAtPhase(p) ==
    /\ reaping[p] = "listed"
    /\ reaping' = [reaping EXCEPT ![p] = IF account[p].phase = "Active" THEN "idle" ELSE "disconnect"]
    /\ UNCHANGED <<request, account, outbox, spent, drops, credited, muddled>>

(* peer_disconnected: the session, whatever its phase is by now, and       *)
Disconnects(p) ==
    /\ reaping[p] = "disconnect"
    /\ reaping' = [reaping EXCEPT ![p] = "forget"]
    /\ account' = [account EXCEPT ![p] = Unknown]
    /\ UNCHANGED <<request, outbox, spent, drops, credited, muddled>>

(* later the outbox, with the acks requests are about to read.             *)
Forgets(p) ==
    /\ reaping[p] = "forget"
    /\ reaping' = [reaping EXCEPT ![p] = "idle"]
    /\ outbox' = [outbox EXCEPT ![p] = <<>>]
    /\ muddled' = IF outbox[p] = <<>> THEN muddled
                  ELSE muddled \cup {r \in Requests : request[r].pc = "drain" /\ PeerOf(r) = p}
    /\ UNCHANGED <<request, account, spent, drops, credited>>

Reaps(p) == ListsIdle(p) \/ LooksAtPhase(p) \/ Disconnects(p) \/ Forgets(p)

Handler(r) ==
    Connects(r) \/ ReceivesToken(r) \/ Verifies(r) \/ Credits(r) \/ Acks(r) \/ Drains(r)

ProviderNext ==
    \/ \E r \in Requests : Posted(r) \/ Asked(r) \/ Handler(r) \/ ClientLeaves(r)
    \/ \E p \in Peers : Exhausts(p) \/ Reaps(p)

ProviderSpec == ProviderInit /\ [][ProviderNext]_providerVars

-----------------------------------------------------------------------------
PaymentsOf(p) ==
    {r \in Requests : request[r].token # NoToken /\ PeerOf(r) = p}

(* A peer is never told more often that it has paid than tokens of it were *)
(* credited, although requests of one peer take each other's acks and the  *)
(* acks of clients that left wait in the outbox.                           *)
AcceptedIsPaid ==
    \A p \in Peers : Cardinality({r \in PaymentsOf(p) : request[r].status = 200})
                       <= Cardinality({r \in credited : PeerOf(r) = p})

(* A payment that met no other request of its peer, present or abandoned,  *)
(* and whose ack the reaper did not throw away on a list or a look out of  *)
(* date, is answered for its own token: accepted if and only if it was     *)
(* credited (handle_post_payment, admit_peer_with_token, reap_idle).       *)
OwnTokenIsAnswered ==
    \A p \in Peers : \A r \in PaymentsOf(p) \ muddled :
        request[r].pc = "done" => (request[r].status = 200 <=> r \in credited)

=============================================================================
