--------------------------- MODULE UpstreamProofs ---------------------------
(***************************************************************************)
(* Machine-checked proofs about module Upstream, for every set of gateways *)
(* and order of probing, every capacity, interval, price, budget and purse:*)
(* the tasks of the v1 client never pay one gateway at the same time, keep *)
(* one tracker per session, and buy nothing from a gateway that still has  *)
(* an allotment for us, unless its answer was not understood or it got a   *)
(* payment late.                                                           *)
(***************************************************************************)
EXTENDS Upstream, FiniteSetTheorems, TLAPS

-----------------------------------------------------------------------------
(* Types.  Connecting is what each task does inside connect() and renew(); *)
(* beyond that each has program points of its own.                         *)
Connecting == Buying \cup {"usage", "attach"}

Points(a) ==
    IF a = "nest" THEN Connecting \cup {"off", "idle", "probe", "disconnect", "check",
                                        "spawn", "insert"}
    ELSE IF a = "manager" THEN Paying \cup {"off", "idle"}
    ELSE Paying \cup {"off", "sleep", "ended"}

AnyPoint == Paying \cup {"off", "idle", "probe", "disconnect", "check", "spawn", "insert",
                         "sleep", "ended"}

Task == [pc : AnyPoint, g : Gateway]
Request == [g : Gateway, empty : BOOLEAN]
Client == [attached : BOOLEAN, payment_age : Nat, misled : BOOLEAN]
Account == [allotment : Nat, used : Nat, tokens : Nat, invoices : Nat,
            plain : BOOLEAN, offers : SUBSET (Nat \ {0})]

TypeOK ==
    /\ sessions \subseteq Gateway
    /\ client \in [Gateway -> Client]
    /\ trackers \in [Gateway -> Int]
    /\ request_age \in [Gateway -> Nat]
    /\ queue \in Seq(Request)
    /\ failures \in [Gateway -> Nat]
    /\ job \in [Actor -> Task]
    /\ \A a \in Actor : job[a].pc \in Points(a)
    /\ turn \in Nat \ {0}
    /\ up \subseteq Gateway
    /\ remote \in [Gateway -> Account]
    /\ purse \in Purse

LEMMA FirstGateway == Order[1] \in Gateway
  BY UpstreamAssumption

LEMMA Constants ==
  /\ Purchase \in Nat \ {0} /\ DisconnectAfter \in Nat \ {0}
  /\ RenewalTicks \in Nat /\ PaymentTicks \in Nat
  BY UpstreamAssumption

LEMMA InitType == Init => TypeOK
  <1> SUFFICES ASSUME Init PROVE TypeOK
    OBVIOUS
  <1> USE UpstreamAssumption, FirstGateway
  <1>1. /\ job \in [Actor -> Task]
        /\ \A a \in Actor : job[a].pc \in Points(a)
    <2>1. CASE job = AutoJobs
      BY <2>1 DEF AutoJobs, Idle, Off, AnyPoint, Points, Task, Actor
    <2>2. ASSUME NEW g \in Gateway, job = ConsumeJobs(g)
          PROVE  <1>1!:
      BY <2>2 DEF ConsumeJobs, Idle, Off, AnyPoint, Points, Task, Actor, Paying
    <2> QED
      BY <2>1, <2>2 DEF Init
  <1>2. remote \in [Gateway -> Account] /\ purse \in Purse
    <2>1. PICK scenario \in Scenarios :
            /\ remote = [g \in Gateway |-> NewRemote(scenario.routers[g])]
            /\ purse = scenario.purse
      BY DEF Init
    <2>2. scenario.routers \in [Gateway -> Router] /\ scenario.purse \in Purse
      <3>1. scenario \in [routers : [Gateway -> Router], purse : Purse]
        OBVIOUS
      <3> QED
        BY ONLY <3>1
    <2>3. \A g \in Gateway : NewRemote(scenario.routers[g]) \in Account
      BY <2>2 DEF NewRemote, Router, Account
    <2> QED
      BY <2>1, <2>2, <2>3
  <1>3. NewClient \in Client
    BY DEF NewClient, Client
  <1> QED
    BY <1>1, <1>2, <1>3 DEF Init, TypeOK

(* What the helpers on tasks do: one task moves, the others stay.          *)
Moves(a, t) == job' = [job EXCEPT ![a] = t]

LEMMA GoToMoves ==
  ASSUME TypeOK, NEW a \in Actor, NEW p, GoTo(a, p)
  PROVE  Moves(a, [pc |-> p, g |-> job[a].g])
  <1>1. job \in [Actor -> Task]
    BY DEF TypeOK
  <1>2. [job[a] EXCEPT !.pc = p] = [pc |-> p, g |-> job[a].g]
    BY <1>1 DEF Task
  <1> QED
    BY <1>1, <1>2 DEF GoTo, Moves

LEMMA NextGatewayMoves ==
  ASSUME TypeOK, NextGateway
  PROVE  /\ turn' \in Nat \ {0}
         /\ \E p \in {"probe", "idle"}, g \in Gateway : Moves("nest", [pc |-> p, g |-> g])
  <1>1. turn \in Nat \ {0}
    BY DEF TypeOK
  <1>2. CASE turn < Len(Order)
    <2>1. Order[turn + 1] \in Gateway
      BY <1>1, <1>2, UpstreamAssumption
    <2> QED
      BY <1>1, <1>2, <2>1 DEF NextGateway, Moves
  <1>3. CASE ~(turn < Len(Order))
    BY <1>3, FirstGateway DEF NextGateway, Moves, Idle
  <1> QED
    BY <1>2, <1>3

LEMMA DoneMoves ==
  ASSUME TypeOK, NEW a \in {"manager", "client"}, Done(a)
  PROVE  \E g \in Gateway :
           Moves(a, [pc |-> IF a = "manager" THEN "idle" ELSE "sleep", g |-> g])
  <1>1. CASE a = "manager"
    BY <1>1, FirstGateway DEF Done, Moves, Idle
  <1>2. CASE a = "client"
    BY <1>2, GoToMoves DEF Done, TypeOK, Actor, Task
  <1> QED
    BY <1>1, <1>2

(* Where a call that ends badly, or a connect that succeeds, leaves a task.*)
Ends(a) ==
    IF a = "nest" THEN {"probe", "idle"}
    ELSE IF a = "manager" THEN {"idle"} ELSE {"sleep", "ended"}

LEMMA FailedMoves ==
  ASSUME TypeOK, NEW a \in Actor, Failed(a)
  PROVE  /\ turn' \in Nat \ {0}
         /\ \E p \in Ends(a), g \in Gateway : Moves(a, [pc |-> p, g |-> g])
  <1>1. CASE a = "nest"
    BY <1>1, NextGatewayMoves DEF Failed, Ends
  <1>2. CASE a = "manager"
    BY <1>2, DoneMoves DEF Failed, Ends, TypeOK
  <1>3. CASE a = "client"
    BY <1>3, DoneMoves, GoToMoves DEF Failed, Ends, TypeOK, Actor, Task
  <1> QED
    BY <1>1, <1>2, <1>3 DEF Actor

LEMMA ConnectedMoves ==
  ASSUME TypeOK, NEW a \in Actor, Connected(a)
  PROVE  /\ turn' = turn
         /\ client' \in [Gateway -> Client]
         /\ \A h \in Gateway \ {job[a].g} : client'[h] = client[h]
         /\ \/ a = "nest" /\ Moves(a, [pc |-> "spawn", g |-> job[a].g])
            \/ a # "nest" /\ \E p \in Ends(a), g \in Gateway : Moves(a, [pc |-> p, g |-> g])
  <1>1. /\ turn' = turn /\ client' \in [Gateway -> Client]
        /\ \A h \in Gateway \ {job[a].g} : client'[h] = client[h]
    <2>1. client \in [Gateway -> Client] /\ job[a].g \in Gateway
      BY DEF TypeOK, Task
    <2>2. [client[job[a].g] EXCEPT !.attached = TRUE] \in Client
      BY <2>1 DEF Client
    <2> QED
      BY <2>1, <2>2 DEF Connected
  <1>2. CASE a = "nest"
    BY <1>1, <1>2, GoToMoves DEF Connected
  <1>3. CASE a # "nest"
    <2>1. a \in {"manager", "client"} /\ Done(a)
      BY <1>3 DEF Connected, Actor
    <2> QED
      BY <1>1, <1>3, <2>1, DoneMoves DEF Ends
  <1> QED
    BY <1>1, <1>2, <1>3

LEMMA MishapType ==
  ASSUME TypeOK, NEW g \in Gateway, Mishap(g)
  PROVE  purse' \in Purse
  <1>1. purse \in Purse
    BY DEF TypeOK
  <1> QED
    BY <1>1 DEF Mishap, Purse

LEMMA CreditedType ==
  ASSUME TypeOK, NEW g \in Gateway, Credited(g)
  PROVE  /\ remote' \in [Gateway -> Account]
         /\ \A h \in Gateway \ {g} : remote'[h] = remote[h]
  <1>1. remote \in [Gateway -> Account]
    BY DEF TypeOK
  <1>2. [remote[g] EXCEPT !.allotment = @ + Purchase] \in Account
    BY <1>1, Constants DEF Account
  <1> QED
    BY <1>1, <1>2 DEF Credited, Account

-----------------------------------------------------------------------------
(* One step of a call to a gateway, connect() or renew(): it moves one     *)
(* task, which stays with its gateway while it pays, and credits no other  *)
(* gateway.  A task starts to buy, in connect(), only from a gateway that  *)
(* has no allotment or whose answer it did not understand.                 *)
BuysEmpty(a, p) ==
    p \in Buying =>
        /\ UNCHANGED remote
        /\ \/ job[a].pc \in Buying /\ UNCHANGED client
           \/ remote[job[a].g].allotment = 0
           \/ client'[job[a].g].misled

CallMoves(a, t) ==
    /\ Moves(a, t)
    /\ t.pc \in Points(a) \ {"off", "insert"}
    /\ t.pc \in Paying \cup {"spawn"} => t.g = job[a].g
    /\ BuysEmpty(a, t.pc)

CallStep(a) ==
    /\ job[a].pc \in Paying
    /\ UNCHANGED <<sessions, trackers, request_age, queue, failures, up>>
    /\ turn' \in Nat \ {0}
    /\ client' \in [Gateway -> Client]
    /\ purse' \in Purse
    /\ remote' \in [Gateway -> Account]
    /\ \A h \in Gateway \ {job[a].g} : remote'[h] = remote[h] /\ client'[h] = client[h]
    /\ \E t \in Task : CallMoves(a, t)

LEMMA FailedCall ==
  ASSUME TypeOK, NEW a \in Actor, Failed(a)
  PROVE  turn' \in Nat \ {0} /\ \E t \in Task : CallMoves(a, t)
  <1>1. PICK p \in Ends(a), g \in Gateway : Moves(a, [pc |-> p, g |-> g])
    BY FailedMoves
  <1>2. /\ p \in Points(a) \ {"off", "insert"} /\ p \in AnyPoint
        /\ p \notin Paying \cup {"spawn"} /\ p \notin Buying
    BY DEF Ends, Points, AnyPoint, Paying, Buying, Actor
  <1>3. CallMoves(a, [pc |-> p, g |-> g]) /\ [pc |-> p, g |-> g] \in Task
    BY <1>1, <1>2 DEF CallMoves, BuysEmpty, Task
  <1> QED
    BY <1>3, FailedMoves

LEMMA ConnectedCall ==
  ASSUME TypeOK, NEW a \in Actor, Connected(a)
  PROVE  /\ turn' = turn /\ client' \in [Gateway -> Client]
         /\ \A h \in Gateway \ {job[a].g} : client'[h] = client[h]
         /\ \E t \in Task : CallMoves(a, t)
  <1>1. job[a].g \in Gateway
    BY DEF TypeOK, Task
  <1>2. CASE a = "nest" /\ Moves(a, [pc |-> "spawn", g |-> job[a].g])
    <2>1. /\ [pc |-> "spawn", g |-> job[a].g] \in Task
          /\ CallMoves(a, [pc |-> "spawn", g |-> job[a].g])
      BY <1>1, <1>2 DEF CallMoves, BuysEmpty, Buying, Task, AnyPoint, Points
    <2> QED
      BY <2>1, ConnectedMoves
  <1>3. ASSUME a # "nest", NEW p \in Ends(a), NEW g \in Gateway,
               Moves(a, [pc |-> p, g |-> g])
        PROVE  \E t \in Task : CallMoves(a, t)
    <2>1. /\ p \in Points(a) \ {"off", "insert"} /\ p \in AnyPoint
          /\ p \notin Paying \cup {"spawn"} /\ p \notin Buying
      BY <1>3 DEF Ends, Points, AnyPoint, Paying, Buying, Actor
    <2>2. CallMoves(a, [pc |-> p, g |-> g]) /\ [pc |-> p, g |-> g] \in Task
      BY <1>3, <2>1 DEF CallMoves, BuysEmpty, Task
    <2> QED
      BY <2>2
  <1> QED
    BY <1>2, <1>3, ConnectedMoves

LEMMA DoneCall ==
  ASSUME TypeOK, NEW a \in {"manager", "client"}, Done(a)
  PROVE  \E t \in Task : CallMoves(a, t)
  <1>1. PICK g \in Gateway :
          Moves(a, [pc |-> IF a = "manager" THEN "idle" ELSE "sleep", g |-> g])
    BY DoneMoves
  <1> DEFINE t == [pc |-> IF a = "manager" THEN "idle" ELSE "sleep", g |-> g]
  <1>2. t \in Task /\ t.pc \in Points(a) \ {"off", "insert"}
        /\ t.pc \notin Paying \cup {"spawn"} /\ t.pc \notin Buying
    BY DEF Points, AnyPoint, Paying, Buying, Task
  <1> QED
    BY <1>1, <1>2 DEF CallMoves, BuysEmpty

(* A step within the call, to a point p.                                   *)
LEMMA GoToCall ==
  ASSUME TypeOK, NEW a \in Actor, NEW p \in Points(a) \ {"off", "insert"}, GoTo(a, p),
         BuysEmpty(a, p)
  PROVE  \E t \in Task : CallMoves(a, t)
  <1>1. Moves(a, [pc |-> p, g |-> job[a].g]) /\ job[a].g \in Gateway
    BY GoToMoves DEF TypeOK, Task
  <1>2. [pc |-> p, g |-> job[a].g] \in Task
    BY <1>1 DEF Task, Points, AnyPoint, Paying, Connecting
  <1>3. \A t : t = [pc |-> p, g |-> job[a].g] => CallMoves(a, t)
    BY <1>1 DEF CallMoves
  <1> QED
    BY <1>2, <1>3

(* The steps of a call are steps of that kind.                             *)
LEMMA CallIsStep ==
  ASSUME TypeOK, NEW a \in Actor,
         \/ Connect(a)
         \/ a # "nest" /\ (Renew(a) \/ RenewalAccepted(a))
  PROVE  CallStep(a)
  <1> DEFINE g == job[a].g
  <1>1. /\ g \in Gateway /\ turn \in Nat \ {0} /\ client \in [Gateway -> Client]
        /\ purse \in Purse /\ remote \in [Gateway -> Account]
    BY DEF TypeOK, Task
  <1>2. /\ Buying \cup {"attach"} \subseteq Points(a) \ {"off", "insert"}
        /\ a # "nest" => {"retoken", "resend"} \subseteq Points(a) \ {"off", "insert"}
    BY DEF Points, Paying, Buying, Connecting, Actor
  <1>3. \A p \in Paying : At(a, p) => job[a].pc \in Paying
    BY DEF At
  <1>4. /\ {"usage", "attach", "renew", "retoken", "resend", "ad", "balance", "token",
            "send", "invoice", "await"} = Paying
        /\ {"ad", "balance", "token", "send", "invoice", "await"} = Buying
    BY DEF Paying, Buying
  <1> USE <1>1
  (* A step that fails: only the purse, the turn and the task change, or   *)
  (* also what the gateway may still get.                                  *)
  <1>5. ASSUME Failed(a), job[a].pc \in Paying, purse' \in Purse,
               remote' \in [Gateway -> Account],
               \A h \in Gateway \ {g} : remote'[h] = remote[h],
               UNCHANGED <<sessions, client, trackers, request_age, queue, failures, up>>
        PROVE  CallStep(a)
    BY <1>5, FailedCall DEF CallStep
  (* A step that only moves on within the purchase.                        *)
  <1>6. ASSUME NEW p \in Buying, GoTo(a, p), job[a].pc \in Buying,
               UNCHANGED <<client, remote>>
        PROVE  \E t \in Task : CallMoves(a, t)
    <2>1. BuysEmpty(a, p)
      BY <1>6 DEF BuysEmpty
    <2> QED
      BY <1>2, <1>6, <2>1, GoToCall
  <1>7. CASE FetchUsage(a)
    <2>1. PICK readable \in BOOLEAN :
            /\ IF readable THEN UNCHANGED purse ELSE Mishap(g)
            /\ client' = [client EXCEPT ![g].misled =
                             (Reading(g, readable) # remote[g].allotment)]
            /\ GoTo(a, IF Reading(g, readable) > 0 THEN "attach" ELSE "ad")
      BY <1>7, Zenon DEF FetchUsage
    <2> DEFINE found == Reading(g, readable)
    <2>2. found \in Nat /\ remote[g].allotment \in Nat
      BY DEF Reading, Account
    <2> HIDE DEF found
    <2>3. purse' \in Purse
      BY <2>1, MishapType
    <2>4. /\ client' \in [Gateway -> Client]
          /\ \A h \in Gateway \ {g} : client'[h] = client[h]
          /\ found # remote[g].allotment => client'[g].misled
      <3>1. client' = [client EXCEPT ![g].misled = (found # remote[g].allotment)]
        BY <2>1 DEF found
      <3>2. [client[g] EXCEPT !.misled = (found # remote[g].allotment)] \in Client
        BY DEF Client
      <3> QED
        BY <3>1, <3>2 DEF Client
    <2>5. \E t \in Task : CallMoves(a, t)
      <3>1. CASE found > 0
        <4>1. GoTo(a, "attach") /\ BuysEmpty(a, "attach")
          BY <2>1, <3>1 DEF BuysEmpty, Buying, found
        <4> QED
          BY <1>2, <4>1, GoToCall
      <3>2. CASE ~(found > 0)
        <4>1. GoTo(a, "ad") /\ UNCHANGED remote
          BY <1>7, <2>1, <3>2 DEF FetchUsage, found
        <4>2. remote[g].allotment = 0 \/ client'[g].misled
          BY <2>2, <2>4, <3>2
        <4>3. BuysEmpty(a, "ad")
          BY <4>1, <4>2 DEF BuysEmpty
        <4> QED
          BY <1>2, <1>4, <4>1, <4>3, GoToCall
      <3> QED
        BY <3>1, <3>2
    <2> QED
      BY <1>3, <1>4, <1>7, <2>3, <2>4, <2>5 DEF FetchUsage, CallStep
  <1>8. CASE UsageFails(a)
    BY <1>3, <1>4, <1>5, <1>8, MishapType DEF UsageFails
  <1>9. CASE Attach(a)
    BY <1>3, <1>4, <1>9, ConnectedCall DEF Attach, CallStep
  <1>10. CASE FetchAd(a)
    BY <1>3, <1>4, <1>6, <1>10 DEF FetchAd, CallStep, At
  <1>11. CASE AdvertisementFails(a)
    BY <1>3, <1>4, <1>5, <1>11, MishapType DEF AdvertisementFails
  <1>12. CASE PriceRefused(a)
    BY <1>3, <1>4, <1>5, <1>12 DEF PriceRefused
  <1>13. CASE ReadBalance(a)
    BY <1>3, <1>4, <1>6, <1>13 DEF ReadBalance, CallStep, At
  <1>14. CASE CreateToken(a)
    <2>1. job[a].pc \in Paying
      BY <1>4, <1>14 DEF CreateToken, At
    <2>2. CASE purse.funds > 0
      <3>1. purse' \in Purse
        BY <1>14, <2>2 DEF CreateToken, Purse
      <3>2. \E t \in Task : CallMoves(a, t)
        <4>1. CASE At(a, "token")
          BY <1>4, <1>6, <1>14, <2>2, <4>1 DEF CreateToken, At
        <4>2. CASE At(a, "retoken")
          <5>1. GoTo(a, "resend") /\ BuysEmpty(a, "resend")
            BY <1>14, <2>2, <4>2 DEF CreateToken, At, BuysEmpty, Buying
          <5>2. a # "nest"
            BY <4>2 DEF At, TypeOK, Points, Connecting, Buying
          <5> QED
            BY <1>2, <5>1, <5>2, GoToCall
        <4> QED
          BY <1>14, <4>1, <4>2 DEF CreateToken
      <3> QED
        BY <1>14, <2>1, <2>2, <3>1, <3>2 DEF CreateToken, CallStep
    <2>3. CASE ~(purse.funds > 0)
      BY <1>5, <1>14, <2>1, <2>3 DEF CreateToken
    <2> QED
      BY <2>2, <2>3
  <1>15. CASE PaymentAccepted(a)
    BY <1>3, <1>4, <1>15, ConnectedCall, CreditedType DEF PaymentAccepted, CallStep
  <1>16. CASE PaymentFails(a)
    <2>1. /\ remote' \in [Gateway -> Account]
          /\ \A h \in Gateway \ {g} : remote'[h] = remote[h]
      <3>1. [remote[g] EXCEPT !.tokens = @ + 1] \in Account
        BY DEF Account
      <3> QED
        BY <1>16, <3>1 DEF PaymentFails
    <2> QED
      BY <1>3, <1>4, <1>5, <1>16, <2>1, MishapType DEF PaymentFails
  <1>17. CASE RequestInvoice(a)
    BY <1>3, <1>4, <1>6, <1>17 DEF RequestInvoice, CallStep, At
  <1>18. CASE InvoiceRefused(a)
    BY <1>3, <1>4, <1>5, <1>18, MishapType DEF InvoiceRefused
  <1>19. ASSUME LeavesInvoice(g)
         PROVE  /\ remote' \in [Gateway -> Account]
                /\ \A h \in Gateway \ {g} : remote'[h] = remote[h]
    <2>1. [remote[g] EXCEPT !.invoices = IF @ < purse.invoices THEN @ + 1 ELSE @] \in Account
      BY DEF Account
    <2> QED
      BY <1>19, <2>1 DEF LeavesInvoice
  <1>20. CASE StatusCheckFails(a)
    BY <1>3, <1>4, <1>5, <1>19, <1>20, MishapType DEF StatusCheckFails
  <1>21. CASE InvoiceSettled(a)
    <2>1. purse' \in Purse
      BY <1>21 DEF InvoiceSettled, Purse
    <2> QED
      BY <1>3, <1>4, <1>21, <2>1, ConnectedCall, CreditedType DEF InvoiceSettled, CallStep
  <1>22. CASE InvoiceTimesOut(a)
    BY <1>3, <1>4, <1>5, <1>19, <1>22 DEF InvoiceTimesOut
  <1>23. CASE a # "nest" /\ Renew(a)
    <2>1. /\ client' \in [Gateway -> Client]
          /\ \A h \in Gateway \ {g} : client'[h] = client[h]
      <3>1. [client[g] EXCEPT !.payment_age = 0] \in Client
        BY DEF Client
      <3> QED
        BY <1>23, <3>1 DEF Renew
    <2>2. \E t \in Task : CallMoves(a, t)
      <3>1. a \in {"manager", "client"} /\ (GoTo(a, "retoken") \/ Done(a))
        BY <1>23 DEF Renew, Actor
      <3>2. BuysEmpty(a, "retoken")
        BY DEF BuysEmpty, Buying
      <3> QED
        BY <1>2, <1>23, <3>1, <3>2, GoToCall, DoneCall
    <2> QED
      BY <1>3, <1>4, <1>23, <2>1, <2>2 DEF Renew, CallStep
  <1>24. CASE a # "nest" /\ RenewalAccepted(a)
    <2>1. a \in {"manager", "client"}
      BY <1>24 DEF Actor
    <2> QED
      BY <1>3, <1>4, <1>24, <2>1, DoneCall, CreditedType DEF RenewalAccepted, CallStep
  <1> QED
    BY <1>7, <1>8, <1>9, <1>10, <1>11, <1>12, <1>13, <1>14, <1>15, <1>16, <1>17, <1>18,
       <1>20, <1>21, <1>22, <1>23, <1>24 DEF Connect

-----------------------------------------------------------------------------
(* The inductive invariant.                                                *)

(* One command runs.  The manager pays only for a gateway that is in the   *)
(* session map, whose lock it holds; the Crowsnest only for one that is    *)
(* not, and that no one else puts there.                                   *)
TasksApart ==
    /\ At("client", "off") \/ (At("nest", "off") /\ At("manager", "off"))
    /\ job["manager"].pc \in Paying => job["manager"].g \in sessions
    /\ job["nest"].pc \in Paying \cup {"spawn", "insert"} => job["nest"].g \notin sessions

(* OneTracker without the cardinality of a set with one element or none.   *)
TrackerPerSession ==
    \A g \in Gateway :
        trackers[g] = (IF g \in sessions THEN 1 ELSE 0)
                        + (IF job["nest"] = [pc |-> "insert", g |-> g] THEN 1 ELSE 0)

IInv == TypeOK /\ TasksApart /\ TrackerPerSession /\ ConnectPaysWhenEmpty

LEMMA MoveType ==
  ASSUME TypeOK, NEW a \in Actor, NEW t \in Task, t.pc \in Points(a), Moves(a, t)
  PROVE  /\ job' \in [Actor -> Task] /\ \A b \in Actor : job'[b].pc \in Points(b)
         /\ job'[a] = t /\ \A b \in Actor \ {a} : job'[b] = job[b]
  <1>1. job \in [Actor -> Task] /\ \A b \in Actor : job[b].pc \in Points(b)
    BY DEF TypeOK
  <1> QED
    BY <1>1 DEF Moves

(* A task that moves and leaves the session map and the trackers alone     *)
(* keeps the tasks apart, as long as it starts to pay for the right ones.  *)
LEMMA KeptByMove ==
  ASSUME IInv, NEW a \in Actor, NEW t \in Task, Moves(a, t),
         t.pc \in Points(a) \ {"off", "insert"}, job[a].pc \notin {"off", "insert"},
         a = "manager" /\ t.pc \in Paying => t.g \in sessions,
         a = "nest" /\ t.pc \in Paying \cup {"spawn"} => t.g \notin sessions,
         UNCHANGED <<sessions, trackers>>
  PROVE  TasksApart' /\ TrackerPerSession'
  <1>1. job'[a] = t /\ \A b \in Actor \ {a} : job'[b] = job[b]
    BY MoveType DEF IInv
  <1>2. a = "nest" \/ a = "manager" \/ a = "client"
    BY DEF Actor
  <1>3. TasksApart /\ TrackerPerSession
    BY DEF IInv
  <1>4. TasksApart'
    <2>1. CASE a = "nest"
      BY <1>1, <1>3, <2>1 DEF TasksApart, At, Actor
    <2>2. CASE a = "manager"
      BY <1>1, <1>3, <2>2 DEF TasksApart, At, Actor
    <2>3. CASE a = "client"
      BY <1>1, <1>3, <2>3 DEF TasksApart, At, Actor
    <2> QED
      BY <1>2, <2>1, <2>2, <2>3
  <1>5. TrackerPerSession'
    <2>1. CASE a = "nest"
      <3>1. \A g \in Gateway : job["nest"] # [pc |-> "insert", g |-> g]
                               /\ job'["nest"] # [pc |-> "insert", g |-> g]
        BY <1>1, <2>1
      <3> QED
        BY <1>3, <3>1 DEF TrackerPerSession
    <2>2. CASE a # "nest"
      <3>1. job'["nest"] = job["nest"]
        BY <1>1, <2>2 DEF Actor
      <3> QED
        BY <1>3, <3>1 DEF TrackerPerSession
    <2> QED
      BY <2>1, <2>2
  <1> QED
    BY <1>4, <1>5

(* A step that changes no account and no client of a task that buys, after *)
(* which no task but those that did before is buying.                      *)
LEMMA KeptEmpty ==
  ASSUME IInv, NEW a \in Actor, NEW t \in Task, Moves(a, t), t.pc \in Points(a),
         t.pc \notin Buying, UNCHANGED remote,
         \A b \in Actor \ {a} :
            job[b].pc \in Buying => client'[job[b].g] = client[job[b].g]
  PROVE  ConnectPaysWhenEmpty'
  <1>1. job'[a] = t /\ \A b \in Actor \ {a} : job'[b] = job[b]
    BY MoveType DEF IInv
  <1> QED
    BY <1>1 DEF IInv, ConnectPaysWhenEmpty

(* Two tasks that pay do not pay the same gateway.                         *)
LEMMA PayersDiffer ==
  ASSUME TypeOK, TasksApart, NEW a \in Actor, NEW b \in Actor, a # b,
         job[a].pc \in Paying, job[b].pc \in Paying
  PROVE  job[a].g # job[b].g
  <1>1. "off" \notin Paying
    BY DEF Paying, Buying
  <1> QED
    BY <1>1 DEF TasksApart, At, Actor

LEMMA CallKeeps ==
  ASSUME IInv, NEW a \in Actor, CallStep(a)
  PROVE  IInv'
  <1>1. PICK t \in Task : CallMoves(a, t)
    BY DEF CallStep
  <1>2. /\ Moves(a, t) /\ t.pc \in Points(a) \ {"off", "insert"}
        /\ t.pc \in Paying \cup {"spawn"} => t.g = job[a].g
        /\ BuysEmpty(a, t.pc)
    BY <1>1 DEF CallMoves
  <1>3. /\ job' \in [Actor -> Task] /\ \A b \in Actor : job'[b].pc \in Points(b)
        /\ job'[a] = t /\ \A b \in Actor \ {a} : job'[b] = job[b]
    BY <1>2, MoveType DEF IInv
  <1>4. TypeOK'
    BY <1>3 DEF CallStep, IInv, TypeOK
  <1>5. TasksApart' /\ TrackerPerSession'
    <2>1. job[a].pc \in Paying /\ UNCHANGED <<sessions, trackers>>
      BY DEF CallStep
    <2>2. job[a].pc \notin {"off", "insert"}
      BY <2>1 DEF Paying, Buying
    <2>3. /\ a = "manager" /\ t.pc \in Paying => t.g \in sessions
          /\ a = "nest" /\ t.pc \in Paying \cup {"spawn"} => t.g \notin sessions
      BY <1>2, <2>1 DEF IInv, TasksApart
    <2> QED
      BY <1>2, <2>1, <2>2, <2>3, KeptByMove
  <1>6. ConnectPaysWhenEmpty'
    <2> SUFFICES ASSUME NEW b \in Actor, job'[b].pc \in Buying,
                        ~client'[job'[b].g].misled
                 PROVE  remote'[job'[b].g].allotment = 0
      BY DEF ConnectPaysWhenEmpty
    <2>1. CASE b = a
      <3>1. t.g = job[a].g /\ t.pc \in Buying /\ job'[b].g = t.g
        BY <1>2, <1>3, <2>1 DEF Paying
      <3>2. /\ remote' = remote
            /\ (job[a].pc \in Buying /\ client' = client) \/ remote[job[a].g].allotment = 0
        BY <1>2, <3>1 DEF BuysEmpty
      <3> QED
        BY <3>1, <3>2 DEF IInv, ConnectPaysWhenEmpty
    <2>2. CASE b # a
      <3>1. job'[b] = job[b] /\ job[b].pc \in Paying /\ job[b].g \in Gateway
        BY <1>3, <2>2 DEF Paying, IInv, TypeOK, Task
      <3>2. job[b].g # job[a].g
        BY <2>2, <3>1, PayersDiffer DEF IInv, CallStep
      <3>3. remote'[job[b].g] = remote[job[b].g] /\ client'[job[b].g] = client[job[b].g]
        BY <3>1, <3>2 DEF CallStep
      <3> QED
        BY <3>1, <3>3 DEF IInv, ConnectPaysWhenEmpty
    <2> QED
      BY <2>1, <2>2
  <1> QED
    BY <1>4, <1>5, <1>6 DEF IInv

(* The Crowsnest's own steps.                                              *)
LEMMA CrowsnestKeeps ==
  ASSUME IInv, Crowsnest
  PROVE  IInv'
  <1> DEFINE g == job["nest"].g
  <1>1. /\ TypeOK /\ TasksApart /\ TrackerPerSession /\ ConnectPaysWhenEmpty
        /\ g \in Gateway /\ "nest" \in Actor
    BY DEF IInv, TypeOK, Task, Actor
  <1>2. ASSUME job["nest"].pc # "off", client' = client \/ Unlocked
        PROVE  \A b \in Actor \ {"nest"} :
                 job[b].pc \in Buying => client'[job[b].g] = client[job[b].g]
    <2>1. "off" \notin Buying /\ "idle" \notin Buying
      BY DEF Buying
    <2> QED
      BY <1>1, <1>2, <2>1 DEF TasksApart, At, Unlocked, Actor
  <1>3. ASSUME NEW p \in {"probe", "idle", "check", "disconnect", "usage"}, NEW h \in Gateway,
               Moves("nest", [pc |-> p, g |-> h]),
               job["nest"].pc \notin {"off", "insert"},
               p = "usage" => h \notin sessions,
               UNCHANGED <<sessions, trackers, remote>>,
               client' = client \/ Unlocked
        PROVE  /\ job' \in [Actor -> Task] /\ \A b \in Actor : job'[b].pc \in Points(b)
               /\ TasksApart' /\ TrackerPerSession' /\ ConnectPaysWhenEmpty'
    <2>1. [pc |-> p, g |-> h] \in Task /\ p \in Points("nest") \ {"off", "insert"}
      BY DEF Task, AnyPoint, Points, Paying, Connecting
    <2>2. (p \in Paying \cup {"spawn"} => p = "usage") /\ p \notin Buying
      BY DEF Paying, Buying
    <2>3. TasksApart' /\ TrackerPerSession'
      BY <1>1, <1>3, <2>1, <2>2, KeptByMove
    <2>4. ConnectPaysWhenEmpty'
      BY <1>1, <1>2, <1>3, <2>1, <2>2, KeptEmpty
    <2> QED
      BY <1>1, <1>3, <2>1, <2>3, <2>4, MoveType
  <1>12. \A p \in {"idle", "probe", "check", "disconnect", "spawn"} :
          At("nest", p) => job["nest"].pc \notin {"off", "insert"}
    BY DEF At
  <1>4. CASE Scan
    BY <1>1, <1>3, <1>12, <1>4, FirstGateway DEF Scan, Moves, IInv, TypeOK
  <1>5. CASE ProbeFinds
    BY <1>1, <1>3, <1>12, <1>5, GoToMoves DEF ProbeFinds, IInv, TypeOK
  <1>6. CASE ProbeFindsNone
    BY <1>1, <1>3, <1>12, <1>6, NextGatewayMoves, MishapType DEF ProbeFindsNone, IInv, TypeOK
  <1>7. CASE ProbeFails
    <2>1. failures' \in [Gateway -> Nat]
      <3>1. failures \in [Gateway -> Nat]
        BY DEF IInv, TypeOK
      <3>2. \E f : \/ failures' = [failures EXCEPT ![f] = @ + 1]
                   \/ failures' = [failures EXCEPT ![f] = 0]
        BY <1>7, Zenon DEF ProbeFails
      <3> QED
        BY <3>1, <3>2
    <2>2. CASE NextGateway
      BY <1>1, <1>3, <1>12, <1>7, <2>1, <2>2, NextGatewayMoves, MishapType
         DEF ProbeFails, IInv, TypeOK
    <2>3. CASE GoTo("nest", "disconnect") /\ UNCHANGED turn
      BY <1>1, <1>3, <1>12, <1>7, <2>1, <2>3, GoToMoves, MishapType
         DEF ProbeFails, IInv, TypeOK
    <2> QED
      BY <1>7, <2>2, <2>3 DEF ProbeFails
  <1>8. CASE CheckSession
    <2>1. CASE g \in sessions
      BY <1>1, <1>3, <1>12, <1>8, <2>1, NextGatewayMoves DEF CheckSession, IInv, TypeOK
    <2>2. CASE g \notin sessions
      <3>1. client' \in [Gateway -> Client]
        <4>1. client \in [Gateway -> Client] /\ NewClient \in Client
          BY <1>1, Constants DEF TypeOK, NewClient, Client
        <4> QED
          BY <1>8, <2>2, <4>1 DEF CheckSession
      <3> QED
        BY <1>1, <1>3, <1>12, <1>8, <2>2, <3>1, GoToMoves DEF CheckSession, IInv, TypeOK
    <2> QED
      BY <2>1, <2>2
  <1>9. CASE Disconnect
    <2>1. PICK p \in {"probe", "idle"}, h \in Gateway : Moves("nest", [pc |-> p, g |-> h])
      BY <1>1, <1>9, NextGatewayMoves DEF Disconnect
    <2>2. [pc |-> p, g |-> h] \in Task /\ p \in Points("nest")
          /\ p \notin Paying \cup {"spawn", "insert", "off"} \cup Buying
      BY DEF Task, AnyPoint, Points, Paying, Buying
    <2>3. /\ job' \in [Actor -> Task] /\ \A b \in Actor : job'[b].pc \in Points(b)
          /\ job'["nest"] = [pc |-> p, g |-> h]
          /\ \A b \in Actor \ {"nest"} : job'[b] = job[b]
      BY <1>1, <2>1, <2>2, MoveType
    <2>4. TypeOK'
      <3>1. client' \in [Gateway -> Client] /\ request_age' \in [Gateway -> Nat]
        BY <1>9, Constants DEF Disconnect, NewClient, Client
      <3>2. trackers' \in [Gateway -> Int]
        BY <1>1, <1>9 DEF Disconnect, TypeOK
      <3>3. sessions' \subseteq Gateway /\ turn' \in Nat \ {0}
        BY <1>1, <1>9, NextGatewayMoves DEF Disconnect
      <3> QED
        BY <1>1, <1>9, <2>3, <3>1, <3>2, <3>3 DEF Disconnect, TypeOK
    <2>5. TasksApart'
      <3>1. job'["manager"] = job["manager"] /\ job'["client"] = job["client"]
            /\ job["manager"].pc = "idle" /\ job["nest"].pc = "disconnect"
        BY <1>9, <2>3 DEF Disconnect, Unlocked, At, Actor
      <3>2. "idle" \notin Paying
        BY DEF Paying, Buying
      <3> QED
        BY <1>1, <2>2, <2>3, <3>1, <3>2 DEF TasksApart, At
    <2>6. TrackerPerSession'
      <3> SUFFICES ASSUME NEW i \in Gateway PROVE trackers'[i] = 0
        BY <1>9, <2>2, <2>3 DEF TrackerPerSession, Disconnect
      <3>1. trackers[i] = IF i \in sessions THEN 1 ELSE 0
        <4>1. job["nest"] # [pc |-> "insert", g |-> i]
          BY <1>9 DEF Disconnect, At
        <4> QED
          BY <1>1, <4>1 DEF TrackerPerSession
      <3> QED
        BY <1>9, <3>1 DEF Disconnect
    <2>7. ConnectPaysWhenEmpty'
      BY <1>1, <1>2, <1>9, <2>1, <2>2, KeptEmpty DEF Disconnect, At
    <2> QED
      BY <2>4, <2>5, <2>6, <2>7 DEF IInv
  <1>10. CASE SpawnTracker
    <2>1. Moves("nest", [pc |-> "insert", g |-> g]) /\ job["nest"].pc = "spawn"
      BY <1>1, <1>10, GoToMoves DEF SpawnTracker, At
    <2>2. [pc |-> "insert", g |-> g] \in Task /\ "insert" \in Points("nest")
          /\ "insert" \notin Paying \cup {"off"} \cup Buying
      BY <1>1 DEF Task, AnyPoint, Points, Paying, Buying
    <2>3. /\ job' \in [Actor -> Task] /\ \A b \in Actor : job'[b].pc \in Points(b)
          /\ job'["nest"] = [pc |-> "insert", g |-> g]
          /\ \A b \in Actor \ {"nest"} : job'[b] = job[b]
      BY <1>1, <2>1, <2>2, MoveType
    <2>4. TypeOK'
      <3>1. request_age' \in [Gateway -> Nat] /\ trackers' \in [Gateway -> Int]
        BY <1>1, <1>10, Constants DEF SpawnTracker, TypeOK
      <3> QED
        BY <1>1, <1>10, <2>3, <3>1 DEF SpawnTracker, TypeOK
    <2>5. TasksApart'
      <3>1. job'["manager"] = job["manager"] /\ job'["client"] = job["client"]
        BY <2>3 DEF Actor
      <3> QED
        BY <1>1, <1>10, <2>1, <2>3, <3>1 DEF TasksApart, At, SpawnTracker
    <2>6. TrackerPerSession'
      <3> SUFFICES ASSUME NEW i \in Gateway
                   PROVE  trackers'[i] = (IF i \in sessions THEN 1 ELSE 0)
                                           + (IF i = g THEN 1 ELSE 0)
        BY <1>10, <2>3 DEF TrackerPerSession, SpawnTracker
      <3>1. trackers[i] = IF i \in sessions THEN 1 ELSE 0
        <4>1. job["nest"] # [pc |-> "insert", g |-> i]
          BY <2>1
        <4> QED
          BY <1>1, <4>1 DEF TrackerPerSession
      <3>2. trackers'[i] = IF i = g THEN trackers[i] + 1 ELSE trackers[i]
        BY <1>1, <1>10 DEF SpawnTracker, TypeOK
      <3> QED
        BY <3>1, <3>2
    <2>7. ConnectPaysWhenEmpty'
      BY <1>1, <1>2, <1>10, <2>1, <2>2, KeptEmpty DEF SpawnTracker, At
    <2> QED
      BY <2>4, <2>5, <2>6, <2>7 DEF IInv
  <1>11. CASE InsertSession
    <2>1. PICK p \in {"probe", "idle"}, h \in Gateway : Moves("nest", [pc |-> p, g |-> h])
      BY <1>1, <1>11, NextGatewayMoves DEF InsertSession
    <2>2. [pc |-> p, g |-> h] \in Task /\ p \in Points("nest")
          /\ p \notin Paying \cup {"spawn", "insert", "off"} \cup Buying
      BY DEF Task, AnyPoint, Points, Paying, Buying
    <2>3. /\ job' \in [Actor -> Task] /\ \A b \in Actor : job'[b].pc \in Points(b)
          /\ job'["nest"] = [pc |-> p, g |-> h]
          /\ \A b \in Actor \ {"nest"} : job'[b] = job[b]
      BY <1>1, <2>1, <2>2, MoveType
    <2>4. TypeOK'
      <3>1. sessions' \subseteq Gateway /\ turn' \in Nat \ {0}
        BY <1>1, <1>11, NextGatewayMoves DEF InsertSession, TypeOK
      <3> QED
        BY <1>1, <1>11, <2>3, <3>1 DEF InsertSession, TypeOK
    <2>5. job["nest"] = [pc |-> "insert", g |-> g] /\ g \notin sessions
      BY <1>1, <1>11 DEF InsertSession, At, TasksApart, TypeOK, Task
    <2>6. TasksApart'
      <3>1. job'["manager"] = job["manager"] /\ job'["client"] = job["client"]
            /\ job["nest"].pc = "insert"
        BY <1>11, <2>3 DEF InsertSession, At, Actor
      <3> QED
        BY <1>1, <1>11, <2>2, <2>3, <3>1 DEF InsertSession, TasksApart, At
    <2>7. TrackerPerSession'
      <3> SUFFICES ASSUME NEW i \in Gateway
                   PROVE  trackers[i] = IF i \in sessions \cup {g} THEN 1 ELSE 0
        BY <1>11, <2>2, <2>3 DEF TrackerPerSession, InsertSession
      <3> QED
        <4>1. job["nest"] = [pc |-> "insert", g |-> i] <=> i = g
          BY <2>5
        <4>2. trackers[i] = (IF i \in sessions THEN 1 ELSE 0) + (IF i = g THEN 1 ELSE 0)
          BY <1>1, <4>1 DEF TrackerPerSession
        <4> QED
          BY <2>5, <4>2
    <2>8. ConnectPaysWhenEmpty'
      BY <1>1, <1>2, <1>11, <2>1, <2>2, KeptEmpty DEF InsertSession, At
    <2> QED
      BY <2>4, <2>6, <2>7, <2>8 DEF IInv
  <1> QED
    BY <1>4, <1>5, <1>6, <1>7, <1>8, <1>9, <1>10, <1>11 DEF Crowsnest

(* The manager takes a request for a gateway whose session it finds in the *)
(* map, and keeps the map locked from here on.                             *)
LEMMA ReceiveKeeps ==
  ASSUME IInv, Receive
  PROVE  IInv'
  <1>1. /\ TypeOK /\ TasksApart /\ TrackerPerSession /\ ConnectPaysWhenEmpty
        /\ "manager" \in Actor /\ job["manager"].pc = "idle"
    BY DEF IInv, Actor, Receive, At
  <1>2. queue' \in Seq(Request)
        /\ Head(queue) \in Request
    <2>1. queue \in Seq(Request)
      BY <1>1 DEF TypeOK
    <2>2. queue # <<>> /\ queue' = Tail(queue)
      BY DEF Receive
    <2> QED
      BY <2>1, <2>2
  <1>3. CASE Head(queue).g \in sessions
    <2> DEFINE p == IF Head(queue).empty THEN "usage" ELSE "renew"
               t == [pc |-> p, g |-> Head(queue).g]
    <2>1. /\ p \in Points("manager") \ {"off", "insert"} /\ p \notin Buying
          /\ p \in AnyPoint
      BY DEF Points, Paying, Buying, AnyPoint
    <2>2. t \in Task /\ t.pc = p /\ t.g = Head(queue).g
      BY <1>2, <2>1 DEF Task, Request
    <2> HIDE DEF p
    <2>3. Moves("manager", t)
      BY <1>3 DEF Receive, Moves, p
    <2> HIDE DEF t
    <2>4. UNCHANGED <<sessions, client, trackers, remote>>
      BY DEF Receive
    <2>5. TasksApart' /\ TrackerPerSession'
      BY <1>1, <1>3, <2>1, <2>2, <2>3, <2>4, KeptByMove
    <2>6. ConnectPaysWhenEmpty'
      BY <1>1, <2>1, <2>2, <2>3, <2>4, KeptEmpty
    <2>7. job' \in [Actor -> Task] /\ \A b \in Actor : job'[b].pc \in Points(b)
      BY <1>1, <2>1, <2>2, <2>3, MoveType
    <2>8. TypeOK'
      BY <1>1, <1>2, <2>7 DEF Receive, TypeOK
    <2> QED
      BY <2>5, <2>6, <2>8 DEF IInv
  <1>4. CASE Head(queue).g \notin sessions
    <2>1. UNCHANGED <<sessions, client, trackers, request_age, failures, turn, up, remote,
                      purse, job>>
      BY <1>4 DEF Receive
    <2> QED
      BY <1>1, <1>2, <2>1
         DEF IInv, TypeOK, TasksApart, TrackerPerSession, ConnectPaysWhenEmpty, At
  <1> QED
    BY <1>3, <1>4

(* The loop of v1-consume between two calls.                               *)
LEMMA RunKeeps ==
  ASSUME IInv, RunPolls \/ CtrlC
  PROVE  IInv'
  <1> DEFINE g == job["client"].g
  <1>1. /\ TypeOK /\ TasksApart /\ TrackerPerSession /\ ConnectPaysWhenEmpty
        /\ "client" \in Actor /\ job["client"].pc = "sleep" /\ g \in Gateway
    BY DEF IInv, Actor, RunPolls, CtrlC, At, TypeOK, Task
  <1>2. PICK p \in {"usage", "renew", "sleep", "ended"} :
          Moves("client", [pc |-> p, g |-> g])
    BY <1>1, GoToMoves DEF RunPolls, CtrlC, Polled
  <1>3. /\ [pc |-> p, g |-> g] \in Task /\ p \in Points("client") \ {"off", "insert"}
        /\ p \notin Buying
    BY <1>1 DEF Points, Paying, Buying, AnyPoint, Task
  <1>4. UNCHANGED <<sessions, client, trackers, request_age, queue, failures, turn, up,
                    remote>>
    BY DEF RunPolls, CtrlC
  <1>5. TasksApart' /\ TrackerPerSession'
    BY <1>1, <1>2, <1>3, <1>4, KeptByMove
  <1>6. ConnectPaysWhenEmpty'
    BY <1>1, <1>2, <1>3, <1>4, KeptEmpty
  <1>7. job' \in [Actor -> Task] /\ \A b \in Actor : job'[b].pc \in Points(b)
    BY <1>1, <1>2, <1>3, MoveType
  <1>8. purse' \in Purse
    BY <1>1, MishapType DEF RunPolls, CtrlC, TypeOK
  <1>9. TypeOK'
    BY <1>1, <1>4, <1>7, <1>8 DEF TypeOK
  <1> QED
    BY <1>5, <1>6, <1>9 DEF IInv

(* Trackers, time, traffic and outages move no task.                       *)
LEMMA OthersKeep ==
  ASSUME IInv,
         \/ Tick
         \/ \E g \in Gateway :
              \/ TrackerRequests(g) \/ TrackerMisreads(g) \/ LateCredit(g)
              \/ Use(g) \/ GoesDown(g) \/ ComesUp(g)
  PROVE  IInv'
  <1>1. TypeOK /\ TasksApart /\ TrackerPerSession /\ ConnectPaysWhenEmpty
    BY DEF IInv
  <1>2. ASSUME UNCHANGED <<sessions, trackers, job>>
        PROVE  TasksApart' /\ TrackerPerSession'
    BY <1>1, <1>2 DEF TasksApart, TrackerPerSession, At
  <1>3. ASSUME UNCHANGED <<job, remote>>,
               \A h \in Gateway : client[h].misled => client'[h].misled
        PROVE  ConnectPaysWhenEmpty'
    BY <1>1, <1>3 DEF ConnectPaysWhenEmpty, TypeOK, Task
  <1>4. CASE Tick
    <2>1. /\ client' \in [Gateway -> Client] /\ request_age' \in [Gateway -> Nat]
          /\ \A h \in Gateway : client[h].misled => client'[h].misled
      <3>1. client \in [Gateway -> Client] /\ request_age \in [Gateway -> Nat]
        BY <1>1 DEF TypeOK
      <3>2. \A g \in Gateway :
              [client[g] EXCEPT !.payment_age = Older(@, PaymentTicks)] \in Client
        BY <3>1, Constants DEF Client, Older
      <3> QED
        <4>1. request_age' \in [Gateway -> Nat]
          BY <1>4, <3>1, Constants DEF Tick, Older
        <4>2. client' \in [Gateway -> Client]
          BY <1>4, <3>2 DEF Tick
        <4>3. ASSUME NEW h \in Gateway, client[h].misled PROVE client'[h].misled
          <5>1. client'[h] = [client[h] EXCEPT !.payment_age = Older(@, PaymentTicks)]
            BY <1>4 DEF Tick
          <5>2. client[h] \in Client
            BY <3>1
          <5> QED
            BY <4>3, <5>1, <5>2 DEF Client
        <4> QED
          BY <4>1, <4>2, <4>3
    <2>2. TypeOK'
      BY <1>1, <1>4, <2>1 DEF Tick, TypeOK
    <2> QED
      BY <1>2, <1>3, <1>4, <2>1, <2>2 DEF Tick, IInv
  <1>5. ASSUME NEW g \in Gateway, TrackerRequests(g) \/ TrackerMisreads(g) PROVE IInv'
    <2> PICK readable \in BOOLEAN : TrackerPolls(g, readable)
      BY <1>5 DEF TrackerRequests, TrackerMisreads
    <2>3. purse' \in Purse
      BY <1>1, <1>5, MishapType DEF TrackerRequests, TrackerMisreads, TypeOK
    <2>1. /\ request_age' \in [Gateway -> Nat]
          /\ queue' \in Seq(Request)
      <3>1. queue \in Seq(Request) /\ request_age \in [Gateway -> Nat]
        BY <1>1 DEF TypeOK
      <3>2. [g |-> g, empty |-> Reading(g, readable) = 0] \in Request
        BY DEF Request
      <3> QED
        BY <3>1, <3>2 DEF TrackerPolls
    <2>2. TypeOK'
      BY <1>1, <2>1, <2>3 DEF TrackerPolls, TypeOK
    <2> QED
      BY <1>2, <1>3, <2>2 DEF TrackerPolls, IInv
  <1>6. ASSUME NEW g \in Gateway, Use(g) PROVE IInv'
    <2>1. remote \in [Gateway -> Account] /\ remote[g].allotment > 0
      BY <1>1, <1>6 DEF TypeOK, Use
    <2>2. remote' \in [Gateway -> Account] /\ \A h \in Gateway \ {g} : remote'[h] = remote[h]
      <3>1. CASE remote[g].used + 1 < remote[g].allotment
        <4>1. remote' = [remote EXCEPT ![g].used = @ + 1]
          BY <1>6, <3>1 DEF Use
        <4>2. [remote[g] EXCEPT !.used = @ + 1] \in Account
          BY <2>1 DEF Account
        <4> QED
          BY <2>1, <4>1, <4>2
      <3>2. CASE ~(remote[g].used + 1 < remote[g].allotment)
        <4>1. remote' = [remote EXCEPT ![g].allotment = 0, ![g].used = 0]
          BY <1>6, <3>2 DEF Use
        <4>2. [remote[g] EXCEPT !.allotment = 0, !.used = 0] \in Account
          BY <2>1 DEF Account
        <4> QED
          BY <2>1, <4>1, <4>2
      <3> QED
        BY <3>1, <3>2
    <2>4. TypeOK'
      BY <1>1, <1>6, <2>2 DEF Use, TypeOK
    <2>5. ConnectPaysWhenEmpty'
      <3> SUFFICES ASSUME NEW a \in Actor, job[a].pc \in Buying, ~client[job[a].g].misled
                   PROVE  remote'[job[a].g].allotment = 0
        BY <1>6 DEF ConnectPaysWhenEmpty, Use
      <3>1. remote[job[a].g].allotment = 0 /\ job[a].g \in Gateway
        BY <1>1 DEF ConnectPaysWhenEmpty, TypeOK, Task
      <3>2. job[a].g # g
        BY <2>1, <3>1
      <3> QED
        BY <2>2, <3>1, <3>2
    <2> QED
      BY <1>2, <1>6, <2>4, <2>5 DEF Use, IInv
  <1>7. ASSUME NEW g \in Gateway, GoesDown(g) PROVE IInv'
    <2>1. purse' \in Purse /\ up' \subseteq Gateway
      <3>1. purse \in Purse /\ up \subseteq Gateway
        BY <1>1 DEF TypeOK
      <3> QED
        BY <1>7, <3>1 DEF GoesDown, Purse
    <2>2. TypeOK'
      BY <1>1, <1>7, <2>1 DEF GoesDown, TypeOK
    <2> QED
      BY <1>2, <1>3, <1>7, <2>2 DEF GoesDown, IInv
  <1>8. ASSUME NEW g \in Gateway, ComesUp(g) PROVE IInv'
    <2>1. TypeOK'
      BY <1>1, <1>8 DEF ComesUp, TypeOK
    <2> QED
      BY <1>2, <1>3, <1>8, <2>1 DEF ComesUp, IInv
  <1>9. ASSUME NEW g \in Gateway, LateCredit(g) PROVE IInv'
    <2>1. remote \in [Gateway -> Account] /\ purse \in Purse /\ client \in [Gateway -> Client]
      BY <1>1 DEF TypeOK
    <2>2. /\ remote' \in [Gateway -> Account] /\ purse' \in Purse
          /\ \A h \in Gateway \ {g} : remote'[h] = remote[h]
      <3>1. CASE /\ remote[g].tokens > 0 /\ UNCHANGED purse
                 /\ remote' = [remote EXCEPT ![g].tokens = @ - 1,
                                            ![g].allotment = @ + Purchase]
        <4>1. [remote[g] EXCEPT !.tokens = @ - 1, !.allotment = @ + Purchase] \in Account
          BY <2>1, <3>1, Constants DEF Account
        <4> QED
          BY <2>1, <3>1, <4>1
      <3>2. CASE /\ remote[g].invoices > 0 /\ purse.invoices > 0
                 /\ remote' = [remote EXCEPT ![g].invoices = @ - 1,
                                            ![g].allotment = @ + Purchase]
                 /\ purse' = [purse EXCEPT !.invoices = @ - 1]
        <4>1. [remote[g] EXCEPT !.invoices = @ - 1, !.allotment = @ + Purchase] \in Account
          BY <2>1, <3>2, Constants DEF Account
        <4>2. purse' \in Purse
          BY <2>1, <3>2 DEF Purse
        <4> QED
          BY <2>1, <3>2, <4>1, <4>2
      <3> QED
        BY <1>9, <3>1, <3>2 DEF LateCredit
    <2>3. /\ client' \in [Gateway -> Client] /\ client'[g].misled
          /\ \A h \in Gateway \ {g} : client'[h] = client[h]
      <3>1. [client[g] EXCEPT !.misled = TRUE] \in Client
        BY <2>1 DEF Client
      <3> QED
        BY <1>9, <2>1, <3>1 DEF LateCredit, Client
    <2>4. TypeOK'
      BY <1>1, <1>9, <2>2, <2>3 DEF LateCredit, TypeOK
    <2>5. ConnectPaysWhenEmpty'
      <3> SUFFICES ASSUME NEW a \in Actor, job[a].pc \in Buying, ~client'[job[a].g].misled
                   PROVE  remote'[job[a].g].allotment = 0
        BY <1>9 DEF ConnectPaysWhenEmpty, LateCredit
      <3>1. job[a].g \in Gateway \ {g}
        BY <1>1, <2>3 DEF TypeOK, Task
      <3> QED
        BY <1>1, <2>2, <2>3, <3>1 DEF ConnectPaysWhenEmpty
    <2> QED
      BY <1>2, <1>9, <2>4, <2>5 DEF LateCredit, IInv
  <1> QED
    BY <1>4, <1>5, <1>6, <1>7, <1>8, <1>9

-----------------------------------------------------------------------------
(* Every step of every task keeps the invariant.                           *)
LEMMA Invariance == Spec => []IInv
  <1>1. Init => IInv
    <2> SUFFICES ASSUME Init PROVE IInv
      OBVIOUS
    <2>1. \A a \in Actor : job[a].pc \in {"off", "idle", "usage"}
      BY DEF Init, AutoJobs, ConsumeJobs, Off, Idle
    <2>2. TasksApart
      BY DEF Init, AutoJobs, ConsumeJobs, Off, Idle, TasksApart, At, Actor, Paying, Buying
    <2>3. TrackerPerSession
      <3>1. \A g \in Gateway : job["nest"] # [pc |-> "insert", g |-> g]
        BY <2>1 DEF Actor
      <3> QED
        <4>1. sessions = {} /\ \A g \in Gateway : trackers[g] = 0
          BY DEF Init
        <4> QED
          <5> SUFFICES ASSUME NEW g \in Gateway
                       PROVE  trackers[g] = (IF g \in sessions THEN 1 ELSE 0)
                              + (IF job["nest"] = [pc |-> "insert", g |-> g] THEN 1 ELSE 0)
            BY DEF TrackerPerSession
          <5> QED
            BY <3>1, <4>1
    <2>4. ConnectPaysWhenEmpty
      BY <2>1 DEF ConnectPaysWhenEmpty, Buying
    <2> QED
      BY <2>2, <2>3, <2>4, InitType DEF IInv
  <1>2. IInv /\ [Next]_vars => IInv'
    <2> SUFFICES ASSUME IInv, [Next]_vars PROVE IInv'
      OBVIOUS
    <2>1. TypeOK /\ {"nest", "manager", "client"} = Actor
      BY DEF IInv, Actor
    <2>2. CASE Crowsnest
      BY <2>2, CrowsnestKeeps
    <2>3. CASE Connect("nest")
      BY <2>1, <2>3, CallIsStep, CallKeeps
    <2>4. CASE Manager
      BY <2>1, <2>4, CallIsStep, CallKeeps, ReceiveKeeps DEF Manager
    <2>5. CASE Run
      BY <2>1, <2>5, CallIsStep, CallKeeps, RunKeeps DEF Run
    <2>6. CASE CtrlC
      BY <2>6, RunKeeps
    <2>7. CASE Tick \/ \E g \in Gateway :
                         \/ TrackerRequests(g) \/ TrackerMisreads(g) \/ LateCredit(g)
                         \/ Use(g) \/ GoesDown(g) \/ ComesUp(g)
      BY <2>7, OthersKeep
    <2>8. CASE UNCHANGED vars
      BY <2>8 DEF vars, IInv, TypeOK, TasksApart, TrackerPerSession, ConnectPaysWhenEmpty, At
    <2> QED
      BY <2>2, <2>3, <2>4, <2>5, <2>6, <2>7, <2>8 DEF Next
  <1> QED
    BY <1>1, <1>2, PTL DEF Spec

(* Tasks, accounts, trackers and the renewal channel keep their types; in  *)
(* particular each task stays within its own program points.               *)
THEOREM TypeCorrect == Spec => []TypeOK
  BY Invariance, PTL DEF IInv

(* The Crowsnest, the renewal loop of the SessionManager and the loop of   *)
(* V1Client never pay the same gateway at once, for any number of gateways *)
(* and any order of probing: the manager pays with the session map locked, *)
(* and only for gateways in it; connect(), which runs without the lock,    *)
(* only for gateways that are not.                                         *)
THEOREM OnePayerAtATime == Spec => []OnePayer
  <1>1. TypeOK /\ TasksApart => OnePayer
    <2> SUFFICES ASSUME TypeOK, TasksApart, NEW g \in Gateway
                 PROVE  Cardinality({a \in Actor : job[a].pc \in Paying /\ job[a].g = g}) <= 1
      BY DEF OnePayer
    <2> DEFINE payers == {a \in Actor : job[a].pc \in Paying /\ job[a].g = g}
    <2>1. CASE payers = {}
      BY <2>1, FS_EmptySet
    <2>2. CASE payers # {}
      <3>1. PICK a \in payers : TRUE
        BY <2>2
      <3>2. payers = {a}
        BY <3>1, PayersDiffer
      <3>3. Cardinality({a}) = 1
        BY FS_Singleton
      <3> QED
        BY <3>2, <3>3
    <2> QED
      BY <2>1, <2>2
  <1> QED
    BY <1>1, Invariance, PTL DEF IInv

(* Every session has exactly one usage tracker and no tracker outlives its *)
(* session, through any sequence of disconnects and rediscoveries: the     *)
(* tracker is started before the session is inserted, and disconnecting    *)
(* takes away one tracker per session in the map.                          *)
THEOREM OneTrackerPerSession == Spec => []OneTracker
  <1>1. TrackerPerSession => OneTracker
    <2> SUFFICES ASSUME TrackerPerSession, NEW g \in Gateway
                 PROVE  Cardinality({s \in sessions : s = g})
                          = IF g \in sessions THEN 1 ELSE 0
      BY DEF OneTracker, TrackerPerSession
    <2>1. CASE g \in sessions
      <3>1. {s \in sessions : s = g} = {g}
        BY <2>1
      <3> QED
        BY <2>1, <3>1, FS_Singleton
    <2>2. CASE g \notin sessions
      <3>1. {s \in sessions : s = g} = {}
        BY <2>2
      <3> QED
        BY <2>2, <3>1, FS_EmptySet
    <2> QED
      BY <2>1, <2>2
  <1> QED
    BY <1>1, Invariance, PTL DEF IInv

(* connect() takes a token out of the wallet, or asks for an invoice, only *)
(* while the gateway has no allotment for us: after fetch_usage found none,*)
(* nobody else can pay that gateway until connect() is over.  Not so when  *)
(* the answer could not be read, or a payment given up earlier reaches the *)
(* gateway in between; the statement names both.                           *)
THEOREM ConnectPaysOnlyWhenEmpty == Spec => []ConnectPaysWhenEmpty
  BY Invariance, PTL DEF IInv

=============================================================================
