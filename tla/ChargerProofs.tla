--------------------------- MODULE ChargerProofs ----------------------------
(***************************************************************************)
(* Machine-checked proofs about module Charger, for every grant, price,    *)
(* clock step and bound: the driver is type correct, implements            *)
(* Settlement, charges only for time the device ran, freezes its journal   *)
(* once it has ordered a stop, and leaves no device running unattended.    *)
(***************************************************************************)
EXTENDS MCCharger, TLAPS

-----------------------------------------------------------------------------
(* The inductive invariant.                                                *)

Times == Nat \cup {None}
Journals == [last : Progress, at : Nat]
Orders == Seq({"start", "stop"})
Reports == Seq({"ack", "done", "aborted"})
Wires == [device : Orders, host : Reports]
Faults == [crashes : Nat, redeliveries : Nat]

TypeInv ==
    /\ engine \in Engine /\ engine.phase # "Idle" /\ engine.grant = TheGrant
    /\ last \in Progress /\ last_at \in Nat /\ journal \in Journals
    /\ {acked_at, started_at, window} \subseteq Times /\ now \in Nat
    /\ pending_stop \in BOOLEAN /\ stopped \in BOOLEAN
    /\ wire \in Wires
    /\ faults \in Faults
    /\ books \in Books

(* Nothing is booked before the end; a stop that was ordered is pending    *)
(* until a crash forgets it.                                               *)
Unsplit == engine.phase # "Done" => books = EmptyBooks
StopIsPending == stopped /\ engine.phase # "Done" /\ faults.crashes = 0 => pending_stop

(* The order to start comes first, and once.                               *)
OrdersInLine ==
    /\ started_at = None <=> wire.device # <<>> /\ wire.device[1] = "start"
    /\ \A i \in 2..Len(wire.device) : wire.device[i] = "stop"

StopComes == \E i \in 1..Len(wire.device) : wire.device[i] = "stop"

(* The device ran and will not run again.                                  *)
Ended == window = None /\ started_at # None

DeviceInv ==
    /\ OrdersInLine
    /\ window # None => window = WindowEnd /\ started_at # None
    /\ \A i \in 1..Len(wire.host) : /\ started_at # None
                                    /\ wire.host[i] # "ack" => Ended
    /\ pending_stop /\ engine.phase # "Done" => StopComes \/ Ended
    /\ engine.phase = "Done" => StopComes \/ Ended \/ now >= ExpiresAt

(* What was journalled or booked was served.                               *)
Served == IF started_at = None THEN 0 ELSE now - started_at
Covered(cost) == cost * 1000 <= PerSecondMillis * Served

ServedInv ==
    /\ started_at # None => started_at <= now
    /\ faults.crashes = 0 =>
         /\ acked_at # None => started_at # None /\ started_at <= acked_at /\ acked_at <= now
         /\ Covered(last.cost) /\ Covered(engine.last.cost) /\ Covered(books.burned)

-----------------------------------------------------------------------------
(* What the operators return.                                              *)

LEMMA GrantType == TheGrant \in Grant /\ TheGrant.expires_at = ExpiresAt
  BY ChargerAssumption DEF TheGrant, Grant, Unbounded

LEMMA CeilingType ==
  ASSUME NEW g \in Grant
  PROVE  Ceiling(g) \in Nat /\ Ceiling(g) <= g.deposit /\ g.deposit \in Nat
  BY DEF Ceiling, Smaller, Grant, Unbounded

(* A settlement burns no more than the ceiling and than the cost.          *)
LEMMA SettleType ==
  ASSUME NEW e \in Engine, NEW cost \in Nat, NEW b \in Books
  PROVE  /\ SettleAmount(e, cost) \in 0..Ceiling(e.grant) /\ SettleAmount(e, cost) <= cost
         /\ Settled(b, e, cost) \in Books
         /\ Settled(b, e, cost).burned = b.burned + SettleAmount(e, cost)
         /\ Settled(b, e, cost).refunded = b.refunded + (e.grant.deposit - SettleAmount(e, cost))
  <1>1. e.grant \in Grant
    BY DEF Engine
  <1>2. SettleAmount(e, cost) \in 0..Ceiling(e.grant) /\ SettleAmount(e, cost) <= cost
    BY <1>1, CeilingType DEF SettleAmount, Smaller
  <1>3. b.burned \in Nat /\ b.refunded \in Nat
    BY DEF Books
  <1>4. /\ b.burned + SettleAmount(e, cost) \in Nat
        /\ b.refunded + (e.grant.deposit - SettleAmount(e, cost)) \in Nat
    BY <1>1, <1>2, <1>3, CeilingType
  <1>5. Settled(b, e, cost) \in Books
    BY <1>4, Zenon DEF Settled, Books
  <1> QED
    BY <1>2, <1>5 DEF Settled

LEMMA EngineType ==
  ASSUME NEW e \in Engine, NEW q \in Progress
  PROVE  /\ Closed(e) \in Engine /\ Closed(e).phase = "Done"
         /\ Closed(e).grant = e.grant /\ Closed(e).last = e.last
         /\ Progressed(e, q) \in Engine /\ Progressed(e, q).grant = e.grant
         /\ Progressed(e, q).last \in {e.last, q}
         /\ e.phase \notin {"Idle", "Done"} =>
               Progressed(e, q).phase \in {"Granted", "Delivering"}
  <1>1. /\ Closed(e) \in Engine /\ Closed(e).phase = "Done"
        /\ Closed(e).grant = e.grant /\ Closed(e).last = e.last
    BY DEF Closed, Engine, DeliveryPhases
  <1>2. CASE Accepts(e, q)
    <2>1. Progressed(e, q) = [e EXCEPT !.phase = "Delivering", !.last = q]
      BY <1>2 DEF Progressed
    <2> QED
      BY <1>1, <2>1 DEF Engine, DeliveryPhases
  <1>3. CASE ~Accepts(e, q)
    <2>1. Progressed(e, q) = e
      BY <1>3 DEF Progressed
    <2> QED
      BY <1>1, <2>1 DEF Engine, DeliveryPhases
  <1> QED
    BY <1>2, <1>3

LEMMA ResumeType ==
  ASSUME NEW q \in Progress
  PROVE  /\ Resume(TheGrant, q) \in Engine /\ Resume(TheGrant, q).grant = TheGrant
         /\ Resume(TheGrant, q).phase \in {"Granted", "Delivering"}
  BY GrantType DEF Resume, Engine, DeliveryPhases

LEMMA ProductType ==
  ASSUME NEW a \in Nat, NEW b \in Nat
  PROVE  a * b \in Nat
  OBVIOUS

LEMMA ProductGrows ==
  ASSUME NEW a \in Nat, NEW b \in Nat, NEW c \in Nat, a <= b
  PROVE  c * a <= c * b
  <1>1. PICK d \in Nat : b = a + d
    <2>1. b - a \in Nat /\ b = a + (b - a)
      OBVIOUS
    <2> QED
      BY <2>1
  <1>2. c * b = c * a + c * d /\ c * d \in Nat /\ c * a \in Nat
    BY <1>1
  <1> QED
    BY <1>2

LEMMA WholeSeconds ==
  ASSUME NEW ms \in Nat
  PROVE  ms \div 1000 \in Nat /\ (ms \div 1000) * 1000 <= ms
  OBVIOUS

(* The seconds are whole ones since the ack, and each is priced.           *)
LEMMA SynthesizeType ==
  ASSUME acked_at \in Times, NEW at \in Nat
  PROVE  /\ Synthesize(at) \in Progress
         /\ Synthesize(at).cost = Synthesize(at).seconds * PerSecondMillis
         /\ acked_at = None => Synthesize(at).cost = 0
         /\ acked_at # None /\ acked_at <= at => Synthesize(at).seconds * 1000 <= at - acked_at
  <1> DEFINE seconds == IF acked_at = None THEN 0 ELSE Elapsed(acked_at, at) \div 1000
  <1>1. PerSecondMillis \in Nat
    BY ChargerAssumption
  <1>2. acked_at # None => Elapsed(acked_at, at) \in Nat
    BY DEF Elapsed, Times
  <1>3. acked_at # None /\ acked_at <= at => Elapsed(acked_at, at) = at - acked_at
    BY DEF Elapsed, Times
  <1>4. seconds \in Nat
    BY <1>2, WholeSeconds
  <1>5. acked_at # None /\ acked_at <= at => seconds * 1000 <= at - acked_at
    BY <1>2, <1>3, WholeSeconds
  <1>6. acked_at = None => seconds = 0
    OBVIOUS
  <1>7. Synthesize(at) = [units |-> 0, seconds |-> seconds, cost |-> seconds * PerSecondMillis]
    BY DEF Synthesize
  <1> HIDE DEF seconds
  <1>8. seconds * PerSecondMillis \in Nat /\ (seconds = 0 => seconds * PerSecondMillis = 0)
    BY <1>1, <1>4, ProductType
  <1>9. Synthesize(at) \in Progress
    BY <1>4, <1>7, <1>8 DEF Progress
  <1> QED
    BY <1>5, <1>6, <1>7, <1>8, <1>9

-----------------------------------------------------------------------------
(* The messages in flight.                                                 *)

LEMMA TailElements ==
  ASSUME NEW S, NEW s \in Seq(S), s # <<>>
  PROVE  /\ Tail(s) \in Seq(S) /\ Len(s) \in Nat \ {0} /\ Len(Tail(s)) = Len(s) - 1
         /\ \A i \in 1..Len(Tail(s)) : i + 1 \in 1..Len(s) /\ Tail(s)[i] = s[i + 1]
         /\ Head(s) = s[1] /\ 1 \in 1..Len(s)
  OBVIOUS

LEMMA AppendElements ==
  ASSUME NEW S, NEW s \in Seq(S), NEW e \in S
  PROVE  /\ Append(s, e) \in Seq(S) /\ Len(Append(s, e)) = Len(s) + 1 /\ Len(s) \in Nat
         /\ \A i \in 1..Len(s) : Append(s, e)[i] = s[i]
         /\ Append(s, e)[Len(s) + 1] = e /\ Append(s, e) # <<>>
  OBVIOUS

LEMMA ConsumedWire ==
  ASSUME wire \in Wires, faults \in Faults, wire.host # <<>>, Consumed
  PROVE  /\ wire' \in Wires /\ faults' \in Faults /\ faults'.crashes = faults.crashes
         /\ wire'.device = wire.device /\ wire'.host \in {wire.host, Tail(wire.host)}
  <1>1. Tail(wire.host) \in Reports
    BY TailElements DEF Wires, Reports
  <1>2. CASE wire' = [wire EXCEPT !.host = Tail(@)] /\ UNCHANGED faults
    BY <1>1, <1>2 DEF Wires
  <1>3. CASE faults' = [faults EXCEPT !.redeliveries = @ + 1] /\ UNCHANGED wire
    BY <1>3 DEF Faults
  <1> QED
    BY <1>2, <1>3 DEF Consumed

LEMMA PublishedWire ==
  ASSUME wire \in Wires, Publish("stop")
  PROVE  /\ wire' \in Wires /\ wire'.host = wire.host
         /\ wire'.device = Append(wire.device, "stop")
  <1>1. Append(wire.device, "stop") \in Orders
    BY DEF Wires, Orders
  <1> QED
    BY <1>1 DEF Publish, Wires

LEMMA DeviceWire ==
  ASSUME wire \in Wires, DeviceStart \/ DeviceStop \/ DeviceEnds
  PROVE  /\ wire' \in Wires
         /\ DeviceStart \/ DeviceStop => wire.device # <<>> /\ wire'.device = Tail(wire.device)
         /\ DeviceStart =>
               wire'.host = IF window = None THEN Append(wire.host, "ack") ELSE wire.host
         /\ DeviceStop => wire'.host = wire.host
         /\ DeviceEnds =>
               /\ wire'.device = wire.device
               /\ \E m \in {"done", "aborted"} : wire'.host = Append(wire.host, m)
  <1>1. /\ wire.device \in Orders /\ wire.host \in Reports
        /\ wire.device # <<>> => Tail(wire.device) \in Orders
        /\ \A m \in {"ack", "done", "aborted"} : Append(wire.host, m) \in Reports
    BY TailElements, AppendElements DEF Wires, Orders, Reports
  <1>2. CASE DeviceStart
    <2>1. wire.device # <<>>
      BY <1>2 DEF DeviceStart
    <2>2. CASE window = None
      <3>1. wire' = [device |-> Tail(wire.device), host |-> Append(wire.host, "ack")]
        BY <1>2, <2>2 DEF DeviceStart
      <3>2. ~DeviceStop /\ ~DeviceEnds
        BY <1>2, <2>2 DEF DeviceStart, DeviceStop, DeviceEnds
      <3> QED
        BY <1>1, <2>1, <2>2, <3>1, <3>2 DEF Wires
    <2>3. CASE window # None
      <3>1. wire' = [wire EXCEPT !.device = Tail(@)]
        BY <1>2, <2>3 DEF DeviceStart
      <3>2. ~DeviceStop /\ ~DeviceEnds
        BY <1>2, <2>3 DEF DeviceStart, DeviceStop, DeviceEnds
      <3> QED
        BY <1>1, <2>1, <2>3, <3>1, <3>2 DEF Wires
    <2> QED
      BY <2>2, <2>3
  <1>3. CASE DeviceStop
    BY <1>1, <1>3 DEF DeviceStop, DeviceStart, DeviceEnds, Wires
  <1>4. CASE DeviceEnds
    BY <1>1, <1>4 DEF DeviceEnds, DeviceStart, DeviceStop, Wires
  <1> QED
    BY <1>2, <1>3, <1>4

-----------------------------------------------------------------------------
(* Types.                                                                  *)

LEMMA TerminalType ==
  ASSUME engine \in Engine, books \in Books, engine.phase # "Idle",
         NEW cost \in Nat, Terminal(cost)
  PROVE  /\ engine' \in Engine /\ engine'.grant = engine.grant /\ engine'.last = engine.last
         /\ engine'.phase = "Done" /\ books' \in Books
         /\ engine.phase = "Done" => books' = books
         /\ engine.phase # "Done" => books' = Settled(books, engine, cost)
  <1>1. engine.last \in Progress /\ engine.phase \in DeliveryPhases
    BY DEF Engine
  <1>2. CASE IsOpen(engine)
    <2>1. engine' = Closed(engine) /\ books' = Settled(books, engine, cost)
      BY <1>2 DEF Terminal
    <2> QED
      BY <1>1, <1>2, <2>1, EngineType, SettleType DEF IsOpen
  <1>3. CASE ~IsOpen(engine)
    <2>1. UNCHANGED <<engine, books>>
      BY <1>3 DEF Terminal
    <2> QED
      BY <1>1, <1>3, <2>1 DEF IsOpen, DeliveryPhases
  <1> QED
    BY <1>2, <1>3

(* tick() with no stop pending, as one of its three outcomes.              *)
LEMMA TickProgressType ==
  ASSUME TypeInv, TickProgress
  PROVE  /\ last' = Synthesize(now) /\ last' \in Progress
         /\ engine' \in Engine /\ engine'.grant = engine.grant /\ books' \in Books
         /\ engine'.last \in {engine.last, last'}
         /\ \/ engine'.phase \in {"Granted", "Delivering"} /\ UNCHANGED books
            \/ /\ engine'.phase = "Done" /\ now >= ExpiresAt
               /\ \E e \in Engine : /\ e.grant = engine.grant /\ e.last = engine'.last
                                    /\ books' = Settled(books, e, e.last.cost)
  <1> DEFINE observed == Progressed(engine, Synthesize(now))
  <1>1. /\ engine \in Engine /\ books \in Books /\ engine.grant = TheGrant
        /\ engine.phase \notin {"Idle", "Done"}
        /\ Synthesize(now) \in Progress /\ last' = Synthesize(now)
    BY SynthesizeType DEF TypeInv, TickProgress
  <1>2. /\ observed \in Engine /\ observed.grant = engine.grant
        /\ observed.phase \in {"Granted", "Delivering"}
        /\ observed.last \in {engine.last, last'}
    BY <1>1, EngineType
  <1>3. IF Lapsed(observed, now)
        THEN /\ engine' = Closed(observed)
             /\ books' = Settled(books, observed, observed.last.cost)
        ELSE engine' = observed /\ UNCHANGED books
    BY DEF TickProgress
  <1> HIDE DEF observed
  <1>4. observed.last \in Progress /\ observed.last.cost \in Nat
    BY <1>2 DEF Engine, Progress
  <1>5. CASE Lapsed(observed, now)
    <2>1. now >= ExpiresAt
      BY <1>1, <1>2, <1>5, GrantType DEF Lapsed
    <2>2. /\ engine' \in Engine /\ engine'.phase = "Done" /\ engine'.grant = observed.grant
          /\ engine'.last = observed.last
      BY <1>2, <1>3, <1>4, <1>5, EngineType
    <2>3. books' = Settled(books, observed, observed.last.cost) /\ books' \in Books
      BY <1>1, <1>2, <1>3, <1>4, <1>5, SettleType
    <2> QED
      BY <1>1, <1>2, <2>1, <2>2, <2>3
  <1>6. CASE ~Lapsed(observed, now)
    BY <1>1, <1>2, <1>3, <1>6
  <1> QED
    BY <1>5, <1>6

LEMMA TypeStep ==
  ASSUME TypeInv, [Next]_vars
  PROVE  TypeInv'
  <1>0. /\ engine \in Engine /\ engine.phase # "Idle" /\ engine.grant = TheGrant
        /\ last \in Progress /\ last_at \in Nat /\ journal \in Journals
        /\ acked_at \in Times /\ started_at \in Times /\ window \in Times /\ now \in Nat
        /\ pending_stop \in BOOLEAN /\ stopped \in BOOLEAN
        /\ wire \in Wires /\ faults \in Faults /\ books \in Books /\ now \in Times
    BY DEF TypeInv, Times
  <1>1. CASE GrantAck
    BY <1>0, <1>1, ConsumedWire DEF GrantAck, TypeInv
  <1>2. CASE DeviceTerminal
    <2>1. /\ wire' \in Wires /\ faults' \in Faults
      BY <1>0, <1>2, ConsumedWire DEF DeviceTerminal
    <2>2. last' \in Progress /\ last_at' \in Nat
      BY <1>0, <1>2, SynthesizeType DEF DeviceTerminal
    <2>3. last'.cost \in Nat
      BY <2>2 DEF Progress
    <2>4. /\ engine' \in Engine /\ engine'.grant = engine.grant /\ engine'.phase = "Done"
          /\ books' \in Books
      BY <1>0, <1>2, <2>3, TerminalType DEF DeviceTerminal
    <2> QED
      BY <1>0, <1>2, <2>1, <2>2, <2>4 DEF DeviceTerminal, TypeInv
  <1>3. CASE TickSettles
    <2>1. last.cost \in Nat
      BY <1>0 DEF Progress
    <2>2. /\ engine' \in Engine /\ engine'.grant = engine.grant /\ engine'.phase = "Done"
          /\ books' \in Books
      BY <1>0, <1>3, <2>1, TerminalType DEF TickSettles
    <2> QED
      BY <1>0, <1>3, <2>2 DEF TickSettles, TypeInv
  <1>4. CASE TickProgress
    <2>1. /\ last' \in Progress /\ engine' \in Engine /\ engine'.grant = TheGrant
          /\ engine'.phase # "Idle" /\ books' \in Books
      BY <1>0, <1>4, TickProgressType
    <2>2. pending_stop' \in BOOLEAN /\ stopped' \in BOOLEAN
      BY <1>0, <1>4 DEF TickProgress, ProgressStops
    <2>3. wire' \in Wires
      BY <1>0, <1>4, PublishedWire DEF TickProgress
    <2> QED
      BY <1>0, <1>4, <2>1, <2>2, <2>3 DEF TickProgress, TypeInv
  <1>5. CASE Revoke
    <2>1. wire' \in Wires /\ stopped' \in BOOLEAN
      BY <1>0, <1>5, PublishedWire DEF Revoke
    <2> QED
      BY <1>0, <1>5, <2>1 DEF Revoke, TypeInv
  <1>6. CASE Persist
    <2>1. journal' \in Journals
      BY <1>0, <1>6 DEF Persist, Journals
    <2> QED
      BY <1>0, <1>6, <2>1 DEF Persist, TypeInv, driver
  <1>7. CASE CrashAndResume
    <2>1. journal.last \in Progress /\ journal.at \in Nat /\ journal.last.seconds \in Nat
      BY <1>0 DEF Journals, Progress
    <2>2. acked_at' \in Times
      BY <1>7, <2>1 DEF CrashAndResume, Elapsed, Times
    <2>3. /\ engine' \in Engine /\ engine'.grant = TheGrant /\ engine'.phase # "Idle"
      BY <1>7, <2>1, ResumeType DEF CrashAndResume
    <2>4. faults' \in Faults
      BY <1>0, <1>7 DEF CrashAndResume, Faults
    <2>5. wire' \in Wires
      <3>1. <<>> \in Reports
        BY DEF Reports
      <3> QED
        BY <1>0, <1>7, <3>1 DEF CrashAndResume, Wires
    <2>6. /\ last' = journal.last /\ last_at' = journal.at /\ pending_stop' \in BOOLEAN
          /\ UNCHANGED <<journal, now, window, started_at, stopped, books>>
      BY <1>7 DEF CrashAndResume
    <2> QED
      BY <1>0, <2>1, <2>2, <2>3, <2>4, <2>5, <2>6 DEF TypeInv
  <1>8. CASE ClockAdvances
    <2>1. now' \in Nat
      BY <1>0, <1>8, ChargerAssumption DEF ClockAdvances
    <2> QED
      BY <1>0, <1>8, <2>1 DEF ClockAdvances, TypeInv, driver
  <1>9. CASE DeviceStart \/ DeviceStop \/ DeviceEnds
    <2>1. wire' \in Wires
      BY <1>0, <1>9, DeviceWire
    <2>2. WindowEnd \in Times /\ None \in Times
      <3>1. ExpiresAt \in Nat
        BY ChargerAssumption
      <3> QED
        BY <3>1, WholeSeconds DEF WindowEnd, Times
    <2>3. window' \in Times /\ started_at' \in Times
      BY <1>0, <1>9, <2>2 DEF DeviceStart, DeviceStop, DeviceEnds
    <2> QED
      BY <1>0, <1>9, <2>1, <2>3 DEF DeviceStart, DeviceStop, DeviceEnds, TypeInv, driver
  <1>10. CASE UNCHANGED vars
    BY <1>0, <1>10 DEF vars, driver, TypeInv
  <1> QED
    BY <1>1, <1>2, <1>3, <1>4, <1>5, <1>6, <1>7, <1>8, <1>9, <1>10 DEF Next, Tick

-----------------------------------------------------------------------------
(* The books.                                                              *)

(* A step leaves the books and the end alone, or makes the one settlement. *)
LEMMA BookingStep ==
  ASSUME TypeInv, [Next]_vars
  PROVE  \/ UNCHANGED books /\ (engine'.phase = "Done" <=> engine.phase = "Done")
         \/ /\ engine.phase # "Done" /\ engine'.phase = "Done"
            /\ \E e \in Engine : \E cost \in {last'.cost, engine'.last.cost} :
                  /\ e.grant = TheGrant /\ cost \in Nat /\ books' = Settled(books, e, cost)
  <1>0. /\ engine \in Engine /\ engine.phase # "Idle" /\ engine.grant = TheGrant
        /\ books \in Books /\ last' \in Progress /\ last'.cost \in Nat
    BY TypeStep DEF TypeInv, Progress
  <1>1. CASE DeviceTerminal \/ TickSettles
    <2>1. Terminal(last'.cost)
      BY <1>1 DEF DeviceTerminal, TickSettles
    <2>2. /\ engine'.phase = "Done" /\ (engine.phase = "Done" => books' = books)
          /\ engine.phase # "Done" => books' = Settled(books, engine, last'.cost)
      BY <1>0, <2>1, TerminalType
    <2> QED
      BY <1>0, <2>2
  <1>2. CASE TickProgress
    <2>1. engine.phase # "Done"
      BY <1>2 DEF TickProgress
    <2>2. CASE engine'.phase = "Done"
      <3>1. PICK e \in Engine : /\ e.grant = engine.grant /\ e.last = engine'.last
                                /\ books' = Settled(books, e, e.last.cost)
        BY <1>2, <2>2, TickProgressType
      <3>2. e.last.cost \in Nat
        BY DEF Engine, Progress
      <3> QED
        BY <1>0, <2>1, <2>2, <3>1, <3>2
    <2>3. CASE engine'.phase # "Done"
      BY <1>2, <2>1, <2>3, TickProgressType
    <2> QED
      BY <2>2, <2>3
  <1>3. CASE CrashAndResume
    <2>1. journal.last \in Progress
      BY DEF TypeInv, Journals
    <2> QED
      BY <1>3, <2>1, ResumeType DEF CrashAndResume
  <1>4. CASE \/ GrantAck \/ Revoke \/ Persist \/ ClockAdvances
             \/ DeviceStart \/ DeviceStop \/ DeviceEnds \/ UNCHANGED vars
    <2>1. UNCHANGED <<engine, books>>
      BY <1>4 DEF GrantAck, Revoke, Persist, ClockAdvances, DeviceStart, DeviceStop,
                  DeviceEnds, vars, driver
    <2> QED
      BY <2>1
  <1> QED
    BY <1>1, <1>2, <1>3, <1>4 DEF Next, Tick

LEMMA UnsplitStep ==
  ASSUME TypeInv, Unsplit, [Next]_vars
  PROVE  Unsplit'
  BY BookingStep DEF Unsplit

LEMMA CrashesGrow ==
  ASSUME TypeInv, [Next]_vars
  PROVE  /\ faults.crashes \in Nat /\ faults'.crashes \in Nat
         /\ \/ faults'.crashes = faults.crashes
            \/ CrashAndResume /\ faults'.crashes = faults.crashes + 1
  <1>1. /\ faults \in Faults /\ wire \in Wires /\ faults.crashes \in Nat
    BY DEF TypeInv, Faults
  <1>2. CASE GrantAck \/ DeviceTerminal
    BY <1>1, <1>2, ConsumedWire DEF GrantAck, DeviceTerminal
  <1>3. CASE CrashAndResume
    BY <1>1, <1>3 DEF CrashAndResume, Faults
  <1>4. CASE \/ Tick \/ Revoke \/ Persist \/ ClockAdvances
             \/ DeviceStart \/ DeviceStop \/ DeviceEnds \/ UNCHANGED vars
    <2>1. UNCHANGED faults
      BY <1>4 DEF Tick, TickSettles, TickProgress, Revoke, Persist, ClockAdvances,
                  DeviceStart, DeviceStop, DeviceEnds, vars
    <2> QED
      BY <1>1, <2>1
  <1> QED
    BY <1>2, <1>3, <1>4 DEF Next

LEMMA StopIsPendingStep ==
  ASSUME TypeInv, StopIsPending, [Next]_vars
  PROVE  StopIsPending'
  <1> SUFFICES ASSUME stopped', engine'.phase # "Done", faults'.crashes = 0
               PROVE  pending_stop'
    BY DEF StopIsPending
  <1>1. faults.crashes = 0 /\ ~CrashAndResume
    <2>1. ~(CrashAndResume /\ faults'.crashes = faults.crashes + 1)
      BY CrashesGrow
    <2>2. CrashAndResume => faults'.crashes = faults.crashes + 1
      BY DEF CrashAndResume, TypeInv, Faults
    <2> QED
      BY <2>1, <2>2, CrashesGrow
  <1>2. engine.phase # "Done"
    BY BookingStep
  <1>3. CASE TickProgress
    <2>1. stopped => pending_stop
      BY <1>1, <1>2 DEF StopIsPending
    <2> QED
      BY <1>3, <2>1 DEF TickProgress
  <1>4. CASE TickSettles
    <2>1. last.cost \in Nat
      BY DEF TypeInv, Progress
    <2>2. engine'.phase = "Done"
      BY <1>4, <2>1, TerminalType DEF TickSettles, TypeInv
    <2> QED
      BY <2>2
  <1>5. CASE Revoke
    BY <1>5 DEF Revoke
  <1>6. CASE \/ GrantAck \/ DeviceTerminal \/ Persist \/ ClockAdvances
             \/ DeviceStart \/ DeviceStop \/ DeviceEnds \/ UNCHANGED vars
    <2>1. UNCHANGED <<stopped, pending_stop>>
      BY <1>6 DEF GrantAck, DeviceTerminal, Persist, ClockAdvances, DeviceStart, DeviceStop,
                  DeviceEnds, vars, driver
    <2> QED
      BY <1>1, <1>2, <2>1 DEF StopIsPending
  <1> QED
    BY <1>1, <1>3, <1>4, <1>5, <1>6 DEF Next, Tick

-----------------------------------------------------------------------------
(* The device: one start, and a stop or an end before the settlement.      *)

LEMMA StopPublished ==
  ASSUME TypeInv, OrdersInLine, Publish("stop"), UNCHANGED started_at
  PROVE  OrdersInLine' /\ StopComes' /\ wire'.host = wire.host
  <1>1. /\ wire.device \in Seq({"start", "stop"})
        /\ wire'.device = Append(wire.device, "stop") /\ wire'.host = wire.host
    BY PublishedWire DEF TypeInv, Wires, Orders
  <1>2. /\ Len(wire'.device) = Len(wire.device) + 1 /\ Len(wire.device) \in Nat
        /\ \A i \in 1..Len(wire.device) : wire'.device[i] = wire.device[i]
        /\ wire'.device[Len(wire.device) + 1] = "stop" /\ wire'.device # <<>>
    BY <1>1, AppendElements
  <1>3. StopComes'
    BY <1>2 DEF StopComes
  <1>4. \A i \in 2..Len(wire'.device) : wire'.device[i] = "stop"
    BY <1>2 DEF OrdersInLine
  <1>5. wire'.device[1] = "start" <=> wire.device # <<>> /\ wire.device[1] = "start"
    <2>1. CASE wire.device = <<>>
      BY <1>1, <1>2, <2>1
    <2>2. CASE wire.device # <<>>
      BY <1>1, <1>2, <2>2
    <2> QED
      BY <2>1, <2>2
  <1> QED
    BY <1>1, <1>2, <1>3, <1>4, <1>5 DEF OrdersInLine

(* A step of the driver alone: it takes reports, and may order a stop.     *)
LEMMA DriverStep ==
  ASSUME TypeInv, DeviceInv, UNCHANGED <<window, started_at>>, now' \in Nat, now <= now',
         \/ Publish("stop")
         \/ /\ wire'.device = wire.device
            /\ \/ wire'.host \in {wire.host, <<>>}
               \/ wire.host # <<>> /\ wire'.host = Tail(wire.host),
         pending_stop' /\ engine'.phase # "Done" =>
            Publish("stop") \/ (pending_stop /\ engine.phase # "Done"),
         engine'.phase = "Done" =>
            \/ engine.phase = "Done" \/ pending_stop \/ Ended \/ now >= ExpiresAt
  PROVE  DeviceInv'
  <1>0. ExpiresAt \in Nat /\ now \in Nat /\ wire.host \in Seq({"ack", "done", "aborted"})
    BY ChargerAssumption DEF TypeInv, Wires, Reports
  <1>1. Ended' <=> Ended
    BY DEF Ended
  <1>2. CASE Publish("stop")
    <2>1. OrdersInLine' /\ StopComes' /\ wire'.host = wire.host
      BY <1>2, StopPublished DEF DeviceInv
    <2> QED
      BY <1>1, <2>1 DEF DeviceInv, WindowEnd
  <1>3. CASE ~Publish("stop")
    <2>1. wire'.device = wire.device
      BY <1>3
    <2>2. OrdersInLine' /\ (StopComes' <=> StopComes)
      BY <2>1 DEF DeviceInv, OrdersInLine, StopComes
    <2>3. \A i \in 1..Len(wire'.host) : \E j \in 1..Len(wire.host) : wire'.host[i] = wire.host[j]
      <3>1. CASE wire'.host = wire.host
        BY <3>1
      <3>2. CASE wire'.host = <<>>
        BY <3>2
      <3>3. CASE wire.host # <<>> /\ wire'.host = Tail(wire.host)
        BY <1>0, <3>3, TailElements
      <3> QED
        BY <1>3, <3>1, <3>2, <3>3
    <2>4. \A i \in 1..Len(wire'.host) : /\ started_at' # None
                                        /\ wire'.host[i] # "ack" => Ended'
      BY <1>1, <2>3 DEF DeviceInv
    <2>5. pending_stop' /\ engine'.phase # "Done" => StopComes' \/ Ended'
      BY <1>1, <1>3, <2>2 DEF DeviceInv
    <2>6. engine'.phase = "Done" => StopComes' \/ Ended' \/ now' >= ExpiresAt
      <3>1. engine'.phase = "Done" => StopComes \/ Ended \/ now >= ExpiresAt
        BY DEF DeviceInv
      <3> QED
        BY <1>0, <1>1, <2>2, <3>1
    <2>7. window' # None => window' = WindowEnd /\ started_at' # None
      BY DEF DeviceInv
    <2> QED
      BY <2>2, <2>4, <2>5, <2>6, <2>7 DEF DeviceInv, WindowEnd
  <1> QED
    BY <1>2, <1>3

LEMMA DeviceStep ==
  ASSUME TypeInv, DeviceInv, DeviceStart \/ DeviceStop \/ DeviceEnds
  PROVE  DeviceInv'
  <1>0. /\ wire \in Wires /\ wire.device \in Seq({"start", "stop"})
        /\ wire.host \in Seq({"ack", "done", "aborted"}) /\ now \in Nat
        /\ OrdersInLine
    BY DEF TypeInv, DeviceInv, Wires, Orders, Reports
  <1>1. UNCHANGED <<engine, pending_stop, now>>
    BY DEF DeviceStart, DeviceStop, DeviceEnds, driver
  <1>2. ASSUME wire.device # <<>>, wire'.device = Tail(wire.device), started_at' # None
        PROVE  /\ OrdersInLine'
               /\ StopComes /\ wire.device[1] # "stop" => StopComes'
    <2>1. /\ Len(wire.device) \in Nat \ {0} /\ Len(wire'.device) = Len(wire.device) - 1
          /\ \A i \in 1..Len(wire'.device) : wire'.device[i] = wire.device[i + 1]
      BY <1>0, <1>2, TailElements
    <2>2. \A i \in 1..Len(wire'.device) : wire'.device[i] = "stop"
      BY <1>0, <2>1 DEF OrdersInLine
    <2>3. wire'.device # <<>> => 1 \in 1..Len(wire'.device)
      BY <1>0, <1>2
    <2>4. OrdersInLine'
      BY <1>2, <2>2, <2>3 DEF OrdersInLine
    <2>5. ASSUME StopComes, wire.device[1] # "stop" PROVE StopComes'
      <3>1. PICK i \in 2..Len(wire.device) : wire.device[i] = "stop"
        BY <2>1, <2>5 DEF StopComes
      <3>2. i - 1 \in 1..Len(wire'.device)
        BY <2>1
      <3> QED
        BY <2>2, <3>2 DEF StopComes
    <2> QED
      BY <2>4, <2>5
  <1>3. ASSUME NEW m, m = "ack" \/ Ended', m \in {"ack", "done", "aborted"},
               wire'.host = Append(wire.host, m), started_at' # None,
               \A i \in 1..Len(wire.host) : wire.host[i] # "ack" => Ended'
        PROVE  \A i \in 1..Len(wire'.host) : /\ started_at' # None
                                             /\ wire'.host[i] # "ack" => Ended'
    <2>1. /\ Len(wire'.host) = Len(wire.host) + 1 /\ Len(wire.host) \in Nat
          /\ \A i \in 1..Len(wire.host) : wire'.host[i] = wire.host[i]
          /\ wire'.host[Len(wire.host) + 1] = m
      BY <1>0, <1>3, AppendElements
    <2> QED
      BY <1>3, <2>1
  <1>4. CASE DeviceStart
    <2>1. /\ wire.device # <<>> /\ wire.device[1] = "start" /\ started_at = None /\ window = None
      <3>1. wire.device # <<>> /\ Head(wire.device) = "start"
        BY <1>4 DEF DeviceStart
      <3>2. wire.device[1] = "start" /\ started_at = None
        BY <1>0, <3>1, TailElements DEF OrdersInLine
      <3> QED
        BY <3>1, <3>2 DEF DeviceInv
    <2>2. window' = WindowEnd /\ started_at' = now /\ now # None
      BY <1>0, <1>4, <2>1 DEF DeviceStart, None
    <2>3. wire'.device = Tail(wire.device) /\ wire'.host = Append(wire.host, "ack")
      BY <1>0, <1>4, <2>1, DeviceWire
    <2>4. OrdersInLine' /\ (StopComes => StopComes')
      BY <1>2, <2>1, <2>2, <2>3
    <2>5. \A i \in 1..Len(wire'.host) : /\ started_at' # None
                                        /\ wire'.host[i] # "ack" => Ended'
      <3>1. \A i \in 1..Len(wire.host) : FALSE
        BY <2>1 DEF DeviceInv
      <3> QED
        BY <1>3, <2>2, <2>3, <3>1
    <2>6. ~Ended
      BY <2>1 DEF Ended
    <2> QED
      BY <1>1, <2>2, <2>4, <2>5, <2>6 DEF DeviceInv, WindowEnd
  <1>5. CASE DeviceStop
    <2>1. wire.device # <<>> /\ wire'.device = Tail(wire.device) /\ wire'.host = wire.host
      BY <1>0, <1>5, DeviceWire
    <2>2. wire.device[1] = "stop"
      BY <1>0, <1>5, <2>1, TailElements DEF DeviceStop
    <2>3. started_at # None /\ started_at' # None /\ window' = None
      BY <1>0, <1>5, <2>2 DEF OrdersInLine, DeviceStop
    <2>4. OrdersInLine'
      BY <1>2, <2>1, <2>3
    <2>5. Ended'
      BY <2>3 DEF Ended
    <2> QED
      BY <2>3, <2>4, <2>5 DEF DeviceInv
  <1>6. CASE DeviceEnds
    <2>1. window # None /\ window' = None /\ UNCHANGED started_at
      BY <1>6 DEF DeviceEnds
    <2>2. started_at' # None
      BY <2>1 DEF DeviceInv
    <2>3. Ended'
      BY <2>1, <2>2 DEF Ended
    <2>4. wire'.device = wire.device
      BY <1>0, <1>6, DeviceWire
    <2>5. PICK m \in {"done", "aborted"} : wire'.host = Append(wire.host, m)
      BY <1>0, <1>6, DeviceWire
    <2>6. OrdersInLine'
      BY <1>0, <2>1, <2>4 DEF OrdersInLine
    <2>7. \A i \in 1..Len(wire'.host) : /\ started_at' # None
                                        /\ wire'.host[i] # "ack" => Ended'
      BY <1>3, <2>2, <2>3, <2>5
    <2> QED
      BY <2>1, <2>3, <2>6, <2>7 DEF DeviceInv
  <1> QED
    BY <1>4, <1>5, <1>6

LEMMA DeviceInvStep ==
  ASSUME TypeInv, DeviceInv, [Next]_vars
  PROVE  DeviceInv'
  <1>0. /\ wire \in Wires /\ faults \in Faults /\ now \in Nat /\ now <= now
        /\ engine \in Engine /\ engine.phase # "Idle" /\ books \in Books
        /\ wire.host \in Seq({"ack", "done", "aborted"}) /\ pending_stop \in BOOLEAN
    BY DEF TypeInv, Wires, Reports
  <1>1. CASE GrantAck
    <2>1. /\ wire.host # <<>> /\ Consumed
          /\ UNCHANGED <<engine, pending_stop, now, window, started_at>>
      BY <1>1 DEF GrantAck
    <2> QED
      BY <1>0, <2>1, ConsumedWire, DriverStep
  <1>2. CASE DeviceTerminal
    <2>1. /\ wire.host # <<>> /\ Consumed /\ Head(wire.host) \in {"done", "aborted"}
          /\ UNCHANGED <<pending_stop, now, window, started_at>> /\ Terminal(last'.cost)
      BY <1>2 DEF DeviceTerminal
    <2>2. 1 \in 1..Len(wire.host) /\ wire.host[1] = Head(wire.host)
      BY <1>0, <2>1, TailElements
    <2>3. Ended
      BY <2>1, <2>2 DEF DeviceInv
    <2>4. last'.cost \in Nat
      BY TypeStep DEF TypeInv, Progress
    <2>5. engine'.phase = "Done"
      BY <1>0, <2>1, <2>4, TerminalType
    <2> QED
      BY <1>0, <2>1, <2>3, <2>5, ConsumedWire, DriverStep
  <1>3. CASE TickSettles
    <2>1. /\ pending_stop /\ ~pending_stop' /\ UNCHANGED <<now, wire, window, started_at>>
      BY <1>3 DEF TickSettles
    <2> QED
      BY <1>0, <2>1, DriverStep
  <1>4. CASE TickProgress
    <2>1. /\ UNCHANGED <<now, window, started_at>>
          /\ IF pending_stop' THEN Publish("stop") ELSE UNCHANGED wire
      BY <1>4 DEF TickProgress
    <2>2. engine'.phase = "Done" => now >= ExpiresAt
      BY <1>4, TickProgressType
    <2> QED
      BY <1>0, <2>1, <2>2, DriverStep
  <1>5. CASE Revoke
    <2>1. /\ UNCHANGED <<engine, now, window, started_at>>
          /\ IF IsOpen(engine) THEN Publish("stop") ELSE UNCHANGED wire
      BY <1>5 DEF Revoke
    <2>2. ~IsOpen(engine) => engine.phase = "Done"
      BY <1>0 DEF IsOpen, Engine, DeliveryPhases
    <2> QED
      BY <1>0, <2>1, <2>2, DriverStep
  <1>6. CASE Persist \/ ClockAdvances \/ UNCHANGED vars
    <2>1. /\ UNCHANGED <<engine, pending_stop, wire, window, started_at>>
          /\ now' \in Nat /\ now <= now'
      BY <1>0, <1>6, ChargerAssumption DEF Persist, ClockAdvances, vars, driver
    <2> QED
      BY <1>0, <2>1, DriverStep
  <1>7. CASE CrashAndResume
    <2>1. /\ ~pending_stop' /\ wire' \in {wire, [wire EXCEPT !.host = <<>>]}
          /\ UNCHANGED <<now, window, started_at>> /\ engine' = Resume(TheGrant, journal.last)
      BY <1>7 DEF CrashAndResume
    <2>2. wire'.device = wire.device /\ wire'.host \in {wire.host, <<>>}
      BY <1>0, <2>1 DEF Wires
    <2>3. engine'.phase # "Done"
      BY <2>1, ResumeType DEF TypeInv, Journals
    <2> QED
      BY <1>0, <2>1, <2>2, <2>3, DriverStep
  <1>8. CASE DeviceStart \/ DeviceStop \/ DeviceEnds
    BY <1>8, DeviceStep
  <1> QED
    BY <1>1, <1>2, <1>3, <1>4, <1>5, <1>6, <1>7, <1>8 DEF Next, Tick

-----------------------------------------------------------------------------
(* What was served.                                                        *)

(* Time goes on, and the start is not forgotten.                           *)
LEMMA ServedGrows ==
  ASSUME TypeInv, DeviceInv, started_at # None => started_at <= now, [Next]_vars
  PROVE  /\ Served \in Nat /\ Served' \in Nat /\ Served <= Served'
         /\ started_at' # None => started_at' <= now'
         /\ started_at # None => started_at' = started_at
         /\ now \in Nat /\ now' \in Nat /\ now <= now'
  <1>0. /\ started_at \in Times /\ now \in Nat /\ OrdersInLine
        /\ wire.device \in Seq({"start", "stop"})
    BY DEF TypeInv, DeviceInv, Wires, Orders
  <1>1. now' \in Nat /\ now <= now'
    <2>1. CASE ClockAdvances
      BY <1>0, <2>1, ChargerAssumption DEF ClockAdvances
    <2>2. CASE ~ClockAdvances
      <3>1. UNCHANGED now
        BY <2>2 DEF Next, GrantAck, DeviceTerminal, Tick, TickSettles, TickProgress, Revoke,
                    Persist, CrashAndResume, DeviceStart, DeviceStop, DeviceEnds, vars
      <3> QED
        BY <1>0, <3>1
    <2> QED
      BY <2>1, <2>2
  <1>2. started_at' = started_at \/ (started_at = None /\ started_at' = now /\ now' = now)
    <2>1. CASE DeviceStart
      <3>1. wire.device # <<>> /\ Head(wire.device) = "start"
        BY <2>1 DEF DeviceStart
      <3>2. wire.device[1] = "start" /\ started_at = None
        BY <1>0, <3>1, TailElements DEF OrdersInLine
      <3> QED
        BY <2>1, <3>2 DEF DeviceStart
    <2>2. CASE ~DeviceStart
      BY <2>2 DEF Next, GrantAck, DeviceTerminal, Tick, TickSettles, TickProgress, Revoke,
                  Persist, CrashAndResume, ClockAdvances, DeviceStop, DeviceEnds, vars
    <2> QED
      BY <2>1, <2>2
  <1> QED
    BY <1>0, <1>1, <1>2 DEF Served, Times, None

LEMMA CoveredKept ==
  ASSUME Served \in Nat, Served' \in Nat, Served <= Served', NEW cost \in Nat, Covered(cost),
         NEW less \in Nat, less <= cost
  PROVE  less * 1000 <= PerSecondMillis * Served'
  <1>1. PerSecondMillis \in Nat
    BY ChargerAssumption
  <1>2. PerSecondMillis * Served <= PerSecondMillis * Served'
    BY <1>1, ProductGrows
  <1>3. PerSecondMillis * Served \in Nat /\ PerSecondMillis * Served' \in Nat
    BY <1>1, ProductType
  <1>4. cost * 1000 <= PerSecondMillis * Served
    BY DEF Covered
  <1> QED
    BY <1>2, <1>3, <1>4

LEMMA SynthesizedIsCovered ==
  ASSUME TypeInv, Served \in Nat,
         acked_at # None => started_at # None /\ started_at <= acked_at /\ acked_at <= now
  PROVE  Covered(Synthesize(now).cost)
  <1> DEFINE seconds == Synthesize(now).seconds
  <1>0. /\ PerSecondMillis \in Nat /\ now \in Nat /\ acked_at \in Times
        /\ started_at \in Times
    BY ChargerAssumption DEF TypeInv
  <1>1. /\ Synthesize(now).cost = seconds * PerSecondMillis
        /\ acked_at = None => Synthesize(now).cost = 0
        /\ acked_at # None => seconds * 1000 <= now - acked_at
        /\ seconds \in Nat
    BY <1>0, SynthesizeType DEF Progress
  <1> HIDE DEF seconds
  <1>2. CASE acked_at = None
    <2>1. PerSecondMillis * Served \in Nat
      BY <1>0, ProductType
    <2> QED
      BY <1>1, <1>2, <2>1 DEF Covered
  <1>3. CASE acked_at # None
    <2>1. seconds * 1000 <= Served /\ seconds * 1000 \in Nat
      BY <1>0, <1>1, <1>3 DEF Served, Times, None
    <2>2. PerSecondMillis * (seconds * 1000) <= PerSecondMillis * Served
      BY <1>0, <2>1, ProductGrows
    <2>3. (seconds * PerSecondMillis) * 1000 = PerSecondMillis * (seconds * 1000)
      BY <1>0, <1>1
    <2> QED
      BY <1>1, <2>2, <2>3 DEF Covered
  <1> QED
    BY <1>2, <1>3

LEMMA ServedStep ==
  ASSUME TypeInv, Unsplit, DeviceInv, ServedInv, [Next]_vars
  PROVE  ServedInv'
  <1>1. /\ Served \in Nat /\ Served' \in Nat /\ Served <= Served'
        /\ started_at' # None => started_at' <= now'
        /\ started_at # None => started_at' = started_at
        /\ now \in Nat /\ now' \in Nat /\ now <= now'
    BY ServedGrows DEF ServedInv
  <1> SUFFICES ASSUME faults'.crashes = 0
               PROVE  /\ acked_at' # None => /\ started_at' # None /\ started_at' <= acked_at'
                                             /\ acked_at' <= now'
                      /\ Covered(last.cost)' /\ Covered(engine.last.cost)'
                      /\ Covered(books.burned)'
    BY <1>1 DEF ServedInv
  <1>2. ~CrashAndResume /\ faults.crashes = 0
    <2>1. CrashAndResume => faults'.crashes = faults.crashes + 1
      BY DEF CrashAndResume, TypeInv, Faults
    <2> QED
      BY <2>1, CrashesGrow
  <1>3. /\ acked_at # None => started_at # None /\ started_at <= acked_at /\ acked_at <= now
        /\ Covered(last.cost) /\ Covered(engine.last.cost) /\ Covered(books.burned)
        /\ acked_at \in Times /\ started_at \in Times
        /\ started_at # None => started_at <= now
    BY <1>2 DEF ServedInv, TypeInv
  <1>4. /\ last.cost \in Nat /\ engine.last.cost \in Nat /\ books.burned \in Nat
        /\ last'.cost \in Nat /\ engine'.last.cost \in Nat /\ books'.burned \in Nat
    BY TypeStep DEF TypeInv, Progress, Engine, Books
  <1>5. acked_at' # None => /\ started_at' # None /\ started_at' <= acked_at'
                            /\ acked_at' <= now'
    <2>1. CASE GrantAck
      <3>1. wire.host # <<>> /\ acked_at' = now /\ UNCHANGED <<started_at, now>>
        BY <2>1 DEF GrantAck
      <3>2. 1 \in 1..Len(wire.host)
        BY <3>1, TailElements DEF TypeInv, Wires, Reports
      <3>3. started_at # None
        BY <3>2 DEF DeviceInv
      <3> QED
        BY <1>1, <1>3, <3>1, <3>3
    <2>2. CASE ~GrantAck
      <3>1. UNCHANGED acked_at
        BY <1>2, <2>2 DEF Next, DeviceTerminal, Tick, TickSettles, TickProgress, Revoke,
                          Persist, ClockAdvances, DeviceStart, DeviceStop, DeviceEnds, vars, driver
      <3>2. ASSUME acked_at # None
            PROVE  /\ acked_at \in Nat /\ started_at # None /\ started_at <= acked_at
                   /\ acked_at <= now /\ started_at' = started_at
        BY <1>1, <1>3, <3>2 DEF Times
      <3>3. acked_at # None => acked_at <= now'
        BY <1>1, <3>2
      <3> QED
        BY <3>1, <3>2, <3>3
    <2> QED
      BY <2>1, <2>2
  <1>6. Covered(last.cost)'
    <2>1. last' = last \/ last' = Synthesize(now)
      BY <1>2 DEF Next, GrantAck, DeviceTerminal, Tick, TickSettles, TickProgress, Revoke,
                  Persist, ClockAdvances, DeviceStart, DeviceStop, DeviceEnds, vars, driver
    <2>2. Covered(last'.cost)
      BY <1>1, <1>3, <2>1, SynthesizedIsCovered
    <2>3. last'.cost * 1000 <= PerSecondMillis * Served'
      BY <1>1, <1>4, <2>2, CoveredKept
    <2> QED
      BY <2>3 DEF Covered
  <1>7. Covered(engine.last.cost)'
    <2>1. engine'.last \in {engine.last, last'}
      <3>1. CASE TickProgress
        BY <3>1, TickProgressType
      <3>2. CASE DeviceTerminal \/ TickSettles
        <4>1. Terminal(last'.cost)
          BY <3>2 DEF DeviceTerminal, TickSettles
        <4> QED
          BY <1>4, <4>1, TerminalType DEF TypeInv
      <3>3. CASE ~TickProgress /\ ~DeviceTerminal /\ ~TickSettles
        BY <1>2, <3>3 DEF Next, GrantAck, Tick, Revoke, Persist, ClockAdvances,
                          DeviceStart, DeviceStop, DeviceEnds, vars, driver
      <3> QED
        BY <3>1, <3>2, <3>3
    <2>2. CASE engine'.last = engine.last
      <3>1. engine'.last.cost * 1000 <= PerSecondMillis * Served'
        BY <1>1, <1>3, <1>4, <2>2, CoveredKept
      <3> QED
        BY <3>1 DEF Covered
    <2>3. CASE engine'.last = last'
      BY <1>6, <2>3 DEF Covered
    <2> QED
      BY <2>1, <2>2, <2>3
  <1>8. Covered(books.burned)'
    <2>1. CASE UNCHANGED books
      <3>1. books'.burned * 1000 <= PerSecondMillis * Served'
        BY <1>1, <1>3, <1>4, <2>1, CoveredKept
      <3> QED
        BY <3>1 DEF Covered
    <2>2. CASE ~UNCHANGED books
      <3>1. PICK e \in Engine : \E cost \in {last'.cost, engine'.last.cost} :
                engine.phase # "Done" /\ cost \in Nat /\ books' = Settled(books, e, cost)
        BY <2>2, BookingStep
      <3>2. PICK cost \in {last'.cost, engine'.last.cost} :
                engine.phase # "Done" /\ cost \in Nat /\ books' = Settled(books, e, cost)
        BY <3>1
      <3>3. books \in Books /\ books.burned = 0
        BY <3>2 DEF Unsplit, EmptyBooks, TypeInv
      <3>4. books'.burned <= cost
        BY <3>2, <3>3, SettleType
      <3>5. cost * 1000 <= PerSecondMillis * Served'
        BY <1>6, <1>7, <3>2 DEF Covered
      <3>6. books'.burned * 1000 <= cost * 1000
        BY <1>4, <3>2, <3>4
      <3>7. PerSecondMillis * Served' \in Nat
        BY <1>1, ProductType, ChargerAssumption
      <3>8. books'.burned * 1000 <= PerSecondMillis * Served'
        BY <1>4, <3>2, <3>5, <3>6, <3>7
      <3> QED
        BY <3>8 DEF Covered
    <2> QED
      BY <2>1, <2>2
  <1> QED
    BY <1>5, <1>6, <1>7, <1>8

-----------------------------------------------------------------------------
(* The theorems.                                                           *)

IInv == TypeInv /\ Unsplit /\ StopIsPending /\ DeviceInv /\ ServedInv

LEMMA InitInv == Init => IInv
  <1> SUFFICES ASSUME Init PROVE IInv
    OBVIOUS
  <1>1. ZeroProgress \in Progress /\ ZeroProgress.cost = 0 /\ EmptyBooks \in Books
    BY DEF ZeroProgress, Progress, EmptyBooks, Books
  <1>2. engine = [phase |-> "Granted", grant |-> TheGrant, last |-> ZeroProgress]
    BY DEF Init, Granted, NewEngine
  <1>3. engine \in Engine /\ engine.phase = "Granted" /\ engine.grant = TheGrant
        /\ engine.last = ZeroProgress
    BY <1>1, <1>2, GrantType DEF Engine, DeliveryPhases
  <1>4. wire \in Wires /\ wire.device = <<"start">> /\ wire.host = <<>>
    <2>1. <<"start">> \in Orders /\ <<>> \in Reports
      BY DEF Orders, Reports
    <2> QED
      BY <2>1 DEF Init, Wires
  <1>5. TypeInv
    <2>1. None \in Times /\ 0 \in Nat
      BY DEF Times
    <2>2. faults \in Faults /\ journal \in Journals
      BY <1>1 DEF Init, Faults, Journals
    <2>3. pending_stop \in BOOLEAN /\ stopped \in BOOLEAN
      BY DEF Init
    <2> QED
      BY <1>1, <1>3, <1>4, <2>1, <2>2, <2>3 DEF Init, TypeInv
  <1>6. Unsplit /\ StopIsPending
    BY DEF Init, Unsplit, StopIsPending
  <1>7. DeviceInv
    <2>1. started_at = None /\ window = None /\ ~pending_stop /\ engine.phase # "Done"
      BY <1>3 DEF Init
    <2>2. OrdersInLine
      BY <1>4, <2>1 DEF OrdersInLine
    <2>3. Len(wire.host) = 0
      BY <1>4
    <2> QED
      BY <2>1, <2>2, <2>3 DEF DeviceInv
  <1>8. ServedInv
    <2>1. /\ started_at = None /\ acked_at = None /\ last.cost = 0 /\ engine.last.cost = 0
          /\ books.burned = 0
      BY <1>1, <1>3 DEF Init, EmptyBooks
    <2>2. Covered(0)
      BY <2>1, ChargerAssumption DEF Covered, Served
    <2> QED
      BY <2>1, <2>2 DEF ServedInv
  <1> QED
    BY <1>5, <1>6, <1>7, <1>8 DEF IInv

LEMMA NextInv == IInv /\ [Next]_vars => IInv'
  BY TypeStep, UnsplitStep, StopIsPendingStep, DeviceInvStep, ServedStep DEF IInv

LEMMA Invariance == Spec => []IInv
  BY InitInv, NextInv, PTL DEF Spec

(* The driver's state, the device's and the messages between them keep     *)
(* their types, and the engine keeps the one grant it was opened with, for *)
(* every grant, price and pattern of crashes and redeliveries.             *)
THEOREM TypeCorrect == Spec => []TypeInv
  <1>1. IInv => TypeInv
    BY DEF IInv
  <1> QED
    BY <1>1, Invariance, PTL

(* Until the first crash, the buyer pays for no more than the time from    *)
(* the device's start to the settlement, whatever is redelivered: the      *)
(* accrual starts at an ack, and an ack is never older than the start.     *)
THEOREM PaidTimeServed == Spec => []PaidTimeWasServed
  <1>1. IInv => PaidTimeWasServed
    BY DEF IInv, ServedInv, Covered, Served, PaidTimeWasServed
  <1> QED
    BY <1>1, Invariance, PTL

(* Once the deposit is split the device does not go on delivering inside   *)
(* its window, unless the order to stop it is on its way: the deposit is   *)
(* split by the device's own end, after an order to stop, or once the      *)
(* lease, and with it the window, is over.                                 *)
THEOREM NoneDeliveredAfterSettlement == Spec => []NoDeliveryAfterSettlement
  <1>1. IInv => NoDeliveryAfterSettlement
    <2> SUFFICES ASSUME IInv, engine.phase = "Done", window # None, now < window
                 PROVE  StopComes
      BY DEF NoDeliveryAfterSettlement, StopComes
    <2>1. ExpiresAt \in Nat /\ now \in Nat
      BY ChargerAssumption DEF IInv, TypeInv
    <2>2. WindowEnd <= ExpiresAt /\ WindowEnd \in Nat
      BY <2>1, WholeSeconds DEF WindowEnd
    <2>3. window = WindowEnd /\ ~Ended
      BY DEF IInv, DeviceInv, Ended
    <2>4. StopComes \/ Ended \/ now >= ExpiresAt
      BY DEF IInv, DeviceInv
    <2> QED
      BY <2>1, <2>2, <2>3, <2>4
  <1> QED
    BY <1>1, Invariance, PTL

(* After an order to stop nothing accrues any more, until a crash forgets  *)
(* the order: the stop stays pending until the settlement, and tick() and  *)
(* the device's reports settle at the journal while it is.                 *)
THEOREM FrozenOnceStopped == Spec => FrozenAfterStop
  <1>1. IInv /\ [Next]_vars =>
          [stopped /\ engine.phase # "Done" /\ faults'.crashes = 0 => last'.cost = last.cost]_vars
    <2> SUFFICES ASSUME IInv, Next, stopped, engine.phase # "Done", faults'.crashes = 0
                 PROVE  last'.cost = last.cost
      OBVIOUS
    <2>1. ~CrashAndResume /\ faults.crashes = 0
      <3>1. CrashAndResume => faults'.crashes = faults.crashes + 1
        BY DEF CrashAndResume, IInv, TypeInv, Faults
      <3> QED
        BY <3>1, CrashesGrow DEF IInv
    <2>2. pending_stop
      BY <2>1 DEF IInv, StopIsPending
    <2>3. UNCHANGED last
      BY <2>1, <2>2 DEF Next, GrantAck, DeviceTerminal, Tick, TickSettles, TickProgress, Revoke,
                        Persist, ClockAdvances, DeviceStart, DeviceStop, DeviceEnds, driver
    <2> QED
      BY <2>3
  <1> QED
    BY <1>1, Invariance, PTL DEF Spec, FrozenAfterStop

(* The driver implements Settlement: through crashes, redelivered and lost *)
(* messages, the deposit of its grant is split once, the seller gets no    *)
(* more than the money cap, and the buyer gets the rest.                   *)
THEOREM ChargerSplitsOnce == Spec => SplitsOnce
  <1>1. IInv /\ [Next]_vars => [Promise!Next]_(Promise!svars)
    <2> SUFFICES ASSUME IInv, [Next]_vars PROVE [Promise!Next]_(Promise!svars)
      OBVIOUS
    <2> DEFINE stage == IF engine.phase = "Done" THEN "split" ELSE "locked"
               ceiling == Ceiling(TheGrant)
    <2>1. CASE UNCHANGED books /\ (engine'.phase = "Done" <=> engine.phase = "Done")
      BY <2>1 DEF Promise!svars, Ceiling, TheGrant, Smaller
    <2>2. CASE ~(UNCHANGED books /\ (engine'.phase = "Done" <=> engine.phase = "Done"))
      <3>1. PICK e \in Engine : \E cost \in {last'.cost, engine'.last.cost} :
               /\ engine.phase # "Done" /\ engine'.phase = "Done"
               /\ e.grant = TheGrant /\ cost \in Nat /\ books' = Settled(books, e, cost)
        BY <2>2, BookingStep DEF IInv
      <3>2. PICK cost \in Nat :
               /\ engine.phase # "Done" /\ engine'.phase = "Done"
               /\ e.grant = TheGrant /\ books' = Settled(books, e, cost)
        BY <3>1
      <3>3. books \in Books /\ books.burned = 0 /\ books.refunded = 0
        BY <3>2 DEF IInv, TypeInv, Unsplit, EmptyBooks
      <3>4. /\ SettleAmount(e, cost) \in 0..ceiling
            /\ books'.burned = books.burned + SettleAmount(e, cost)
            /\ books'.refunded = books.refunded + (TheGrant.deposit - SettleAmount(e, cost))
        BY <3>2, <3>3, SettleType
      <3>5. TheGrant.deposit = Deposit /\ Deposit \in Nat /\ ceiling \in Nat
        BY ChargerAssumption, GrantType, CeilingType DEF TheGrant
      <3>6. books'.burned \in 0..ceiling /\ books'.refunded = Deposit - books'.burned
        BY <3>3, <3>4, <3>5
      <3> QED
        BY <3>2, <3>6 DEF Promise!Next, Promise!Split
    <2> QED
      BY <2>1, <2>2
  <1> QED
    BY <1>1, Invariance, PTL DEF Spec, SplitsOnce

-----------------------------------------------------------------------------
(* The external driver (module External), which uses the same engine.      *)

LEMMA SharedCore ==
  /\ E!NewEngine = NewEngine /\ E!ZeroProgress = ZeroProgress /\ E!EmptyBooks = EmptyBooks
  /\ E!Unbounded = Unbounded
  /\ \A e, q : E!Progressed(e, q) = Progressed(e, q)
  /\ \A e, q : E!Granted(e, q) = Granted(e, q)
  /\ \A e, q : E!Resume(e, q) = Resume(e, q)
  /\ \A e : E!Closed(e) = Closed(e)
  /\ \A e : E!IsOpen(e) <=> IsOpen(e)
  /\ \A e, t : E!Lapsed(e, t) <=> Lapsed(e, t)
  /\ \A b, e, c : E!Settled(b, e, c) = Settled(b, e, c)
  /\ \A g : E!Ceiling(g) = Ceiling(g)
  <1>1. /\ E!ZeroProgress = ZeroProgress /\ E!EmptyBooks = EmptyBooks /\ E!NewEngine = NewEngine
        /\ E!Unbounded = Unbounded
    BY DEF E!ZeroProgress, ZeroProgress, E!EmptyBooks, EmptyBooks, E!NewEngine, NewEngine,
           E!NoGrant, NoGrant, E!Unbounded, Unbounded
  <1>2. /\ \A e : E!Closed(e) = Closed(e)
        /\ \A e : E!IsOpen(e) <=> IsOpen(e)
        /\ \A e, t : E!Lapsed(e, t) <=> Lapsed(e, t)
    BY DEF E!Closed, Closed, E!IsOpen, IsOpen, E!Lapsed, Lapsed
  <1>3. /\ \A e, q : E!Progressed(e, q) = Progressed(e, q)
        /\ \A e, q : E!Granted(e, q) = Granted(e, q)
    BY <1>1 DEF E!Progressed, Progressed, E!Accepts, Accepts, E!Monotonic, Monotonic,
                E!Granted, Granted
  <1>4. \A e, q : E!Resume(e, q) = Resume(e, q)
    BY <1>1 DEF E!Resume, Resume, E!CapReached, CapReached, E!Reached, Reached
  <1>5. \A g : E!Ceiling(g) = Ceiling(g)
    BY <1>1 DEF E!Ceiling, Ceiling, E!Smaller, Smaller
  <1>6. \A b, e, c : E!Settled(b, e, c) = Settled(b, e, c)
    BY <1>5 DEF E!Settled, Settled, E!SettleAmount, SettleAmount, E!Smaller, Smaller
  <1> QED
    BY <1>1, <1>2, <1>3, <1>4, <1>5, <1>6

Meters == [running : BOOLEAN, seconds : Nat]

ExtType ==
    /\ ext_engine \in Engine /\ ext_last \in Progress /\ ext_journal \in Progress
    /\ ext_session \in BOOLEAN /\ ext_now \in Nat /\ provider \in Meters
    /\ ext_books \in Books

(* An open delivery has a provider session; one that was stopped has not,  *)
(* and the provider's meter stands still.                                  *)
ExtPhases ==
    /\ ext_engine.phase = "Idle" => ext_engine = NewEngine
    /\ ext_engine.phase # "Idle" =>
         ext_engine.grant.deposit = E!Quote /\ Ceiling(ext_engine.grant) = E!Quote
    /\ ext_engine.phase # "Done" => ext_books = EmptyBooks
    /\ IsOpen(ext_engine) => ext_session
    /\ ext_engine.phase = "Done" /\ ~ext_session => ~provider.running

(* No reading is ahead of the meter it was taken from.                     *)
Metered(q) == q.cost <= E!Meter.cost
ExtMetered == Metered(ext_last) /\ Metered(ext_journal) /\ Metered(ext_engine.last)

ExtInv == ExtType /\ ExtPhases /\ ExtMetered /\ PaysTheMeter

LEMMA MeterType ==
  ASSUME provider \in Meters
  PROVE  /\ E!Meter \in Progress /\ E!Meter.cost = Rate * provider.seconds
         /\ E!Meter.cost \in Nat /\ provider.seconds \in Nat /\ Rate \in Nat
  <1>1. provider.seconds \in Nat /\ Rate \in Nat
    BY ExternalAssumption DEF Meters
  <1>2. provider.seconds * Rate \in Nat /\ provider.seconds * Rate = Rate * provider.seconds
    BY <1>1
  <1> QED
    BY <1>1, <1>2 DEF E!Meter, Progress

LEMMA QuoteType == E!Quote \in Nat /\ Rate \in Nat /\ MaxSeconds \in Nat
  BY ExternalAssumption, ChargerAssumption, ProductType DEF E!Quote

(* The meter never runs backwards, and stands still unless it runs.        *)
LEMMA MeterGrows ==
  ASSUME ExtType, [E!Next]_externalVars
  PROVE  /\ provider' \in Meters /\ E!Meter.cost \in Nat /\ E!Meter'.cost \in Nat
         /\ E!Meter.cost <= E!Meter'.cost
         /\ provider.running = FALSE /\ ~E!Open => provider' = provider
         /\ ~E!ClockAdvances => E!Meter'.cost = E!Meter.cost
  <1>1. provider \in Meters
    BY DEF ExtType
  <1>2. /\ provider' \in Meters /\ provider.seconds <= provider'.seconds
        /\ provider.running = FALSE /\ ~E!Open => provider' = provider
        /\ ~E!ClockAdvances => provider'.seconds = provider.seconds
    <2>1. CASE E!Open
      <3>1. provider' = [provider EXCEPT !.running = TRUE]
        BY <2>1 DEF E!Open
      <3>2. /\ provider' \in Meters /\ provider'.seconds = provider.seconds
            /\ provider.seconds \in Nat
        BY <1>1, <3>1 DEF Meters
      <3>3. provider.seconds <= provider'.seconds
        BY <3>2
      <3> QED
        BY <2>1, <3>2, <3>3
    <2>2. CASE E!ClockAdvances
      <3>1. provider' = [provider EXCEPT !.seconds = @ + (IF provider.running THEN 1 ELSE 0)]
        BY <2>2 DEF E!ClockAdvances
      <3>2. CASE provider.running
        BY <1>1, <2>2, <3>1, <3>2 DEF Meters
      <3>3. CASE ~provider.running
        <4>1. provider' = [provider EXCEPT !.seconds = provider.seconds + 0]
          BY <3>1, <3>3
        <4>2. provider' = provider
          BY <1>1, <4>1 DEF Meters
        <4> QED
          BY <1>1, <2>2, <4>2 DEF Meters
      <3> QED
        BY <3>2, <3>3
    <2>3. CASE E!Stop
      <3>1. PICK b \in BOOLEAN : /\ provider' = [provider EXCEPT !.running = b]
                                 /\ provider.running = FALSE => b = FALSE
        <4>1. provider' = [provider EXCEPT !.running = provider.running /\ ~ext_session]
          BY <2>3 DEF E!Stop, E!StopProvider
        <4> QED
          BY <4>1
      <3>2. /\ provider' \in Meters /\ provider'.seconds = provider.seconds
            /\ provider'.running = b
        BY <1>1, <3>1 DEF Meters
      <3>3. provider.running = FALSE => provider' = provider
        BY <1>1, <3>1, <3>2 DEF Meters
      <3> QED
        BY <1>1, <3>2, <3>3 DEF Meters
    <2>4. CASE ~E!Open /\ ~E!ClockAdvances /\ ~E!Stop
      <3>1. provider' = provider
        BY <2>4 DEF E!Next, E!Tick, E!Persist, E!CrashAndResume, externalVars
      <3> QED
        BY <1>1, <3>1 DEF Meters
    <2> QED
      BY <2>1, <2>2, <2>3, <2>4
  <1>3. /\ E!Meter.cost = Rate * provider.seconds /\ provider.seconds \in Nat /\ Rate \in Nat
        /\ E!Meter.cost \in Nat
    BY <1>1, MeterType
  <1>4. E!Meter'.cost = Rate * provider'.seconds /\ provider'.seconds \in Nat
        /\ E!Meter'.cost \in Nat
    <2>1. provider'.seconds \in Nat
      BY <1>2 DEF Meters
    <2>2. provider'.seconds * Rate \in Nat /\ provider'.seconds * Rate = Rate * provider'.seconds
      BY <1>3, <2>1
    <2>3. E!Meter'.cost = provider'.seconds * Rate
      BY DEF E!Meter
    <2> QED
      BY <2>1, <2>2, <2>3
  <1>5. Rate * provider.seconds <= Rate * provider'.seconds
    BY <1>2, <1>3, <1>4, ProductGrows
  <1> QED
    BY <1>2, <1>3, <1>4, <1>5

(* A step of the external driver leaves the split alone, or makes it.      *)
ExtKeeps ==
    /\ UNCHANGED ext_books /\ ext_engine'.grant = ext_engine.grant
    /\ IsOpen(ext_engine') <=> IsOpen(ext_engine)
    /\ ext_engine'.phase = "Idle" <=> ext_engine.phase = "Idle"

ExtLocks ==
    /\ UNCHANGED ext_books /\ ext_engine.phase = "Idle" /\ ext_engine'.phase = "Granted"
    /\ ext_engine'.grant.deposit = E!Quote /\ Ceiling(ext_engine'.grant) = E!Quote

ExtSplits ==
    /\ IsOpen(ext_engine) /\ ext_engine'.phase = "Done" /\ ext_engine'.grant = ext_engine.grant
    /\ ext_books'.burned \in 0..E!Quote /\ ext_books'.refunded = E!Quote - ext_books'.burned

LEMMA ExtStep ==
  ASSUME ExtInv, [E!Next]_externalVars
  PROVE  ExtInv' /\ (ExtKeeps \/ ExtLocks \/ ExtSplits)
  <1>0. /\ ext_engine \in Engine /\ ext_last \in Progress /\ ext_journal \in Progress
        /\ ext_session \in BOOLEAN /\ ext_now \in Nat /\ provider \in Meters
        /\ ext_books \in Books /\ ext_engine.last \in Progress
        /\ ext_engine.phase \in DeliveryPhases /\ ext_engine.grant \in Grant
        /\ E!Meter \in Progress
    BY MeterType DEF ExtInv, ExtType, Engine
  <1>1. /\ provider' \in Meters /\ E!Meter.cost \in Nat /\ E!Meter'.cost \in Nat
        /\ E!Meter.cost <= E!Meter'.cost
        /\ provider.running = FALSE /\ ~E!Open => provider' = provider
        /\ ~E!ClockAdvances => E!Meter'.cost = E!Meter.cost
    BY MeterGrows DEF ExtInv
  <1>2. /\ ExtPhases /\ Metered(ext_last) /\ Metered(ext_journal) /\ Metered(ext_engine.last)
        /\ PaysTheMeter
    BY DEF ExtInv, ExtMetered
  <1>3. ASSUME NEW q \in Progress, Metered(q) PROVE q.cost <= E!Meter'.cost
    BY <1>1, <1>3 DEF Metered, Progress
  <1>4. CASE E!Open
    <2> DEFINE grant == [deposit |-> E!Quote, max_units |-> Unbounded,
                         max_seconds |-> MaxSeconds, max_cost |-> Unbounded,
                         expires_at |-> ext_now + LeaseMs]
    <2>1. /\ ext_engine.phase = "Idle" /\ ext_session' = TRUE
          /\ ext_engine' = Granted(ext_engine, grant)
          /\ UNCHANGED <<ext_last, ext_journal, ext_now, ext_books>>
      BY <1>4, SharedCore DEF E!Open
    <2>2. grant \in Grant /\ Ceiling(grant) = E!Quote /\ grant.deposit = E!Quote
      <3>1. E!Quote \in Nat /\ MaxSeconds \in Nat /\ ext_now + LeaseMs \in Nat
        BY <1>0, QuoteType, ExternalAssumption
      <3> QED
        BY <3>1 DEF Grant, Ceiling
    <2> HIDE DEF grant
    <2>3. ext_engine' = [phase |-> "Granted", grant |-> grant, last |-> ZeroProgress]
      BY <2>1 DEF Granted
    <2>4. ZeroProgress \in Progress /\ ZeroProgress.cost = 0
      BY DEF ZeroProgress, Progress
    <2>5. /\ ext_engine' \in Engine /\ ext_engine'.phase = "Granted" /\ ext_engine'.grant = grant
          /\ ext_engine'.last = ZeroProgress
      BY <2>2, <2>3, <2>4 DEF Engine, DeliveryPhases
    <2>6. ext_books = EmptyBooks
      BY <1>2, <2>1 DEF ExtPhases
    <2>7. ExtType'
      BY <1>0, <1>1, <2>1, <2>5 DEF ExtType
    <2>8. ExtPhases'
      BY <2>1, <2>2, <2>5, <2>6 DEF ExtPhases, IsOpen, E!Quote
    <2>9. ExtMetered'
      BY <1>0, <1>1, <1>2, <1>3, <2>1, <2>4, <2>5 DEF ExtMetered, Metered
    <2>10. PaysTheMeter'
      BY <2>5 DEF PaysTheMeter, E!PaysTheMeter
    <2>11. ExtLocks
      BY <2>1, <2>2, <2>5 DEF ExtLocks
    <2> QED
      BY <2>7, <2>8, <2>9, <2>10, <2>11 DEF ExtInv
  <1>5. CASE E!Tick
    <2> DEFINE observed == Progressed(ext_engine, E!Meter)
    <2>1. IsOpen(ext_engine) /\ ext_session
      BY <1>2, <1>5, SharedCore DEF E!Tick, ExtPhases
    <2>2. /\ ext_last' = E!Meter /\ UNCHANGED <<ext_session, ext_journal, ext_now, provider>>
          /\ IF Lapsed(observed, ext_now)
             THEN /\ ext_engine' = Closed(observed)
                  /\ ext_books' = Settled(ext_books, observed, observed.last.cost)
             ELSE ext_engine' = observed /\ UNCHANGED ext_books
      BY <1>5, <2>1, SharedCore DEF E!Tick
    <2>3. /\ observed \in Engine /\ observed.grant = ext_engine.grant /\ IsOpen(observed)
          /\ observed.last \in {ext_engine.last, E!Meter}
      BY <1>0, <2>1, EngineType DEF IsOpen
    <2> HIDE DEF observed
    <2>4. Metered(observed.last) /\ observed.last \in Progress /\ observed.last.cost \in Nat
      BY <1>0, <1>1, <1>2, <2>3 DEF Metered, Progress
    <2>5. /\ ext_engine.grant.deposit = E!Quote /\ Ceiling(ext_engine.grant) = E!Quote
          /\ ext_books = EmptyBooks /\ E!Quote \in Nat
      BY <1>2, <2>1, QuoteType DEF ExtPhases, IsOpen
    <2>6. /\ ext_engine' \in Engine /\ ext_engine'.grant = ext_engine.grant
          /\ ext_engine'.last = observed.last /\ ext_books' \in Books
          /\ \/ IsOpen(ext_engine') /\ UNCHANGED ext_books
             \/ /\ ext_engine'.phase = "Done" /\ ext_books'.burned <= observed.last.cost
                /\ ext_books'.burned \in 0..E!Quote
                /\ ext_books'.refunded = E!Quote - ext_books'.burned
      <3>1. CASE Lapsed(observed, ext_now)
        <4>1. /\ ext_engine' \in Engine /\ ext_engine'.grant = ext_engine.grant
              /\ ext_engine'.last = observed.last /\ ext_engine'.phase = "Done"
          BY <2>2, <2>3, <2>4, <3>1, EngineType
        <4>2. ext_books' = Settled(ext_books, observed, observed.last.cost)
          BY <2>2, <3>1
        <4>3. ext_books.burned = 0 /\ ext_books.refunded = 0
          BY <2>5 DEF EmptyBooks
        <4>4. /\ SettleAmount(observed, observed.last.cost) \in 0..E!Quote
              /\ SettleAmount(observed, observed.last.cost) <= observed.last.cost
              /\ ext_books' \in Books
              /\ ext_books'.burned = 0 + SettleAmount(observed, observed.last.cost)
              /\ ext_books'.refunded = 0 + (E!Quote - SettleAmount(observed, observed.last.cost))
          BY <1>0, <2>3, <2>4, <2>5, <4>2, <4>3, SettleType
        <4> QED
          BY <2>4, <2>5, <4>1, <4>4
      <3>2. CASE ~Lapsed(observed, ext_now)
        BY <1>0, <2>2, <2>3, <3>2
      <3> QED
        BY <3>1, <3>2
    <2>7. ExtType'
      BY <1>0, <1>1, <2>2, <2>6 DEF ExtType
    <2>8. ExtPhases'
      BY <2>1, <2>2, <2>5, <2>6 DEF ExtPhases, IsOpen, E!Quote
    <2>9. ExtMetered'
      BY <1>0, <1>1, <1>2, <1>3, <2>2, <2>4, <2>6 DEF ExtMetered, Metered
    <2>10. PaysTheMeter'
      <3>1. ext_engine'.phase = "Done" => ext_books'.burned <= E!Meter'.cost
        <4>1. observed.last.cost <= E!Meter'.cost
          BY <1>3, <2>4
        <4> QED
          BY <1>1, <2>4, <2>6, <4>1, QuoteType DEF IsOpen
      <3>2. ext_session'
        BY <2>1, <2>2
      <3> QED
        BY <3>1, <3>2 DEF PaysTheMeter, E!PaysTheMeter
    <2>11. ExtKeeps \/ ExtSplits
      BY <2>1, <2>6 DEF ExtKeeps, ExtSplits, IsOpen
    <2> QED
      BY <2>7, <2>8, <2>9, <2>10, <2>11 DEF ExtInv
  <1>6. CASE E!Stop
    <2>1. IsOpen(ext_engine) /\ ext_session
      BY <1>2, <1>6, SharedCore DEF E!Stop, ExtPhases
    <2>2. /\ ext_session' = FALSE /\ ext_engine' = Closed(ext_engine)
          /\ ext_books' = Settled(ext_books, ext_engine, E!Meter.cost)
          /\ UNCHANGED <<ext_last, ext_journal, ext_now>>
      BY <1>6, <2>1, SharedCore DEF E!Stop, E!StopProvider, E!Attested
    <2>3. ~provider'.running
      <3>1. provider' = [provider EXCEPT !.running = provider.running /\ ~ext_session]
        BY <1>6 DEF E!Stop, E!StopProvider
      <3>2. provider' = [provider EXCEPT !.running = FALSE]
        BY <2>1, <3>1
      <3> QED
        BY <1>0, <3>2 DEF Meters
    <2>4. /\ ext_engine' \in Engine /\ ext_engine'.phase = "Done"
          /\ ext_engine'.grant = ext_engine.grant /\ ext_engine'.last = ext_engine.last
      BY <1>0, <2>2, EngineType
    <2>5. /\ ext_engine.grant.deposit = E!Quote /\ Ceiling(ext_engine.grant) = E!Quote
          /\ ext_books = EmptyBooks /\ E!Quote \in Nat
      BY <1>2, <2>1, QuoteType DEF ExtPhases, IsOpen
    <2>6. /\ ext_books' \in Books /\ ext_books'.burned = SettleAmount(ext_engine, E!Meter.cost)
          /\ ext_books'.refunded = E!Quote - ext_books'.burned
          /\ ext_books'.burned \in 0..E!Quote /\ ext_books'.burned <= E!Meter.cost
      <3>1. ext_books.burned = 0 /\ ext_books.refunded = 0
        BY <2>5 DEF EmptyBooks
      <3>2. /\ SettleAmount(ext_engine, E!Meter.cost) \in 0..E!Quote
            /\ SettleAmount(ext_engine, E!Meter.cost) <= E!Meter.cost
            /\ ext_books' \in Books
            /\ ext_books'.burned = 0 + SettleAmount(ext_engine, E!Meter.cost)
            /\ ext_books'.refunded = 0 + (E!Quote - SettleAmount(ext_engine, E!Meter.cost))
        BY <1>0, <1>1, <2>2, <2>5, <3>1, SettleType
      <3> QED
        BY <2>5, <3>2
    <2>7. ~E!ClockAdvances
      BY <2>1, <2>2 DEF E!ClockAdvances
    <2>8. ExtType'
      BY <1>0, <1>1, <2>2, <2>4, <2>6 DEF ExtType
    <2>9. ExtPhases'
      BY <2>2, <2>3, <2>4, <2>5 DEF ExtPhases, IsOpen, E!Quote
    <2>10. ExtMetered'
      BY <1>0, <1>1, <1>2, <1>3, <2>2, <2>4 DEF ExtMetered, Metered
    <2>11. PaysTheMeter'
      <3>1. ext_books'.burned = E!Smaller(E!Meter'.cost, E!Quote)
        BY <1>1, <2>5, <2>6, <2>7 DEF SettleAmount, Smaller, E!Smaller
      <3> QED
        BY <1>1, <2>6, <2>7, <3>1 DEF PaysTheMeter, E!PaysTheMeter, E!Smaller, E!Quote
    <2>12. ExtSplits
      BY <2>1, <2>4, <2>6 DEF ExtSplits
    <2> QED
      BY <2>8, <2>9, <2>10, <2>11, <2>12 DEF ExtInv
  <1>7. CASE E!CrashAndResume
    <2>1. IsOpen(ext_engine) /\ ext_session
      BY <1>2, <1>7, SharedCore DEF E!CrashAndResume, ExtPhases
    <2>2. /\ ext_engine' = Resume(ext_engine.grant, ext_journal) /\ ext_session' = TRUE
          /\ ext_last' = ext_journal /\ UNCHANGED <<ext_journal, ext_now, provider, ext_books>>
      BY <1>7, SharedCore DEF E!CrashAndResume
    <2>3. /\ ext_engine' \in Engine /\ IsOpen(ext_engine')
          /\ ext_engine'.grant = ext_engine.grant /\ ext_engine'.last = ext_journal
      BY <1>0, <2>2 DEF Resume, Engine, DeliveryPhases, IsOpen
    <2>4. ExtType'
      BY <1>0, <1>1, <2>2, <2>3 DEF ExtType
    <2>5. ExtPhases'
      BY <1>2, <2>1, <2>2, <2>3 DEF ExtPhases, IsOpen, E!Quote
    <2>6. ExtMetered'
      BY <1>0, <1>1, <1>2, <1>3, <2>2, <2>3 DEF ExtMetered, Metered
    <2>7. PaysTheMeter'
      BY <2>3 DEF PaysTheMeter, E!PaysTheMeter, IsOpen
    <2>8. ExtKeeps
      BY <2>1, <2>2, <2>3 DEF ExtKeeps, IsOpen
    <2> QED
      BY <2>4, <2>5, <2>6, <2>7, <2>8 DEF ExtInv
  <1>8. CASE E!Persist \/ E!ClockAdvances \/ UNCHANGED externalVars
    <2>1. /\ UNCHANGED <<ext_engine, ext_session, ext_last, ext_books>>
          /\ ext_journal' \in {ext_journal, ext_last} /\ ext_now' \in Nat
      <3>1. ExtStepMs \in Nat
        BY ExternalAssumption
      <3> QED
        BY <1>0, <1>8, <3>1 DEF E!Persist, E!ClockAdvances, externalVars
    <2>2. ext_engine.phase = "Done" /\ ~ext_session => provider' = provider
      <3>1. ext_engine.phase = "Done" => ~E!Open
        BY DEF E!Open
      <3>2. provider.running \in BOOLEAN
        BY <1>0 DEF Meters
      <3> QED
        BY <1>1, <1>2, <3>1, <3>2 DEF ExtPhases
    <2>3. ExtType'
      BY <1>0, <1>1, <2>1 DEF ExtType
    <2>4. ExtPhases'
      BY <1>2, <2>1, <2>2 DEF ExtPhases, IsOpen, E!Quote
    <2>5. ExtMetered'
      BY <1>0, <1>1, <1>2, <1>3, <2>1 DEF ExtMetered, Metered
    <2>6. PaysTheMeter'
      <3>1. ext_engine.phase = "Done" /\ ~ext_session => E!Meter' = E!Meter
        BY <2>2 DEF E!Meter
      <3>2. ext_engine.phase = "Done" => ext_books.burned <= E!Meter'.cost
        <4>1. ext_books.burned \in Nat
          BY <1>0 DEF Books
        <4>2. ext_engine.phase = "Done" => ext_books.burned <= E!Meter.cost
          BY <1>2 DEF PaysTheMeter, E!PaysTheMeter
        <4> QED
          BY <1>1, <4>1, <4>2
      <3> QED
        BY <1>2, <2>1, <3>1, <3>2 DEF PaysTheMeter, E!PaysTheMeter, E!Smaller, E!Quote
    <2>7. ExtKeeps
      BY <2>1 DEF ExtKeeps
    <2> QED
      BY <2>3, <2>4, <2>5, <2>6, <2>7 DEF ExtInv
  <1> QED
    BY <1>4, <1>5, <1>6, <1>7, <1>8 DEF E!Next

LEMMA ExtInitInv == E!Init => ExtInv
  <1> SUFFICES ASSUME E!Init PROVE ExtInv
    OBVIOUS
  <1>1. /\ ext_engine = NewEngine /\ ~ext_session /\ ext_session \in BOOLEAN
        /\ ext_last = ZeroProgress /\ ext_journal = ZeroProgress /\ ext_now = 0
        /\ provider = [running |-> FALSE, seconds |-> 0] /\ ext_books = EmptyBooks
    BY SharedCore DEF E!Init
  <1>2. NoGrant \in Grant
    BY DEF NoGrant, Grant, Unbounded
  <1>3. /\ ZeroProgress \in Progress /\ ZeroProgress.cost = 0 /\ EmptyBooks \in Books
    BY DEF ZeroProgress, Progress, EmptyBooks, Books
  <1>4. /\ ext_engine \in Engine /\ ext_engine.phase = "Idle"
        /\ ext_engine.last = ZeroProgress
    BY <1>1, <1>2, <1>3 DEF NewEngine, Engine, DeliveryPhases
  <1>5. provider \in Meters
    BY <1>1 DEF Meters
  <1>6. E!Meter.cost \in Nat
    BY <1>5, MeterType
  <1>7. ExtType
    BY <1>1, <1>3, <1>4, <1>5 DEF ExtType
  <1>8. ExtPhases
    BY <1>1, <1>4 DEF ExtPhases, IsOpen
  <1>9. ExtMetered
    BY <1>1, <1>3, <1>4, <1>6 DEF ExtMetered, Metered
  <1>10. PaysTheMeter
    BY <1>4 DEF PaysTheMeter, E!PaysTheMeter
  <1> QED
    BY <1>7, <1>8, <1>9, <1>10 DEF ExtInv

LEMMA ExtInvariance == MCSpec => []ExtInv
  <1>1. MCInit => ExtInv
    BY ExtInitInv DEF MCInit
  <1>2. ExtInv /\ [MCNext]_<<vars, externalVars, part>> => ExtInv'
    <2> SUFFICES ASSUME ExtInv, [MCNext]_<<vars, externalVars, part>>
                 PROVE  [E!Next]_externalVars
      BY ExtStep
    <2> QED
      BY DEF MCNext
  <1> QED
    BY <1>1, <1>2, PTL DEF MCSpec

(* The external driver's buyer never pays more than the provider metered,  *)
(* whatever is lost in crashes, and pays the meter, up to the quote, when  *)
(* the session was stopped: an open delivery always has its provider       *)
(* session, so stop() settles from the receipt.                            *)
THEOREM MeterIsPaid == MCSpec => []PaysTheMeter
  <1>1. ExtInv => PaysTheMeter
    BY DEF ExtInv
  <1> QED
    BY <1>1, ExtInvariance, PTL

(* Both drivers implement Settlement, for every grant, quote, price, lease *)
(* and clock: the deposit is locked once and split once, whatever crashes, *)
(* is lost or is delivered twice.                                          *)
THEOREM BothSplit == MCSpec => BothSplitOnce
  <1>1. MCSpec => Spec
    <2>1. MCInit => Init
      BY DEF MCInit
    <2>2. [MCNext]_<<vars, externalVars, part>> => [Next]_vars
      BY DEF MCNext
    <2> QED
      BY <2>1, <2>2, PTL DEF MCSpec, Spec
  <1>2. MCInit => E!Promise!Init
    <2> SUFFICES ASSUME E!Init PROVE E!Promise!Init
      BY DEF MCInit
    <2>1. ext_engine.phase = "Idle" /\ ext_engine.grant = NoGrant /\ ext_books = EmptyBooks
      BY SharedCore DEF E!Init, NewEngine
    <2>2. NoGrant.deposit = 0 /\ Ceiling(NoGrant) = 0
      BY DEF NoGrant, Ceiling
    <2>3. ext_books.burned = 0 /\ ext_books.refunded = 0
      BY <2>1 DEF EmptyBooks
    <2> QED
      BY <2>1, <2>2, <2>3, SharedCore DEF E!Promise!Init
  <1>3. ExtInv /\ [MCNext]_<<vars, externalVars, part>> => [E!Promise!Next]_(E!Promise!svars)
    <2> SUFFICES ASSUME ExtInv, [MCNext]_<<vars, externalVars, part>>
                 PROVE  [E!Promise!Next]_(E!Promise!svars)
      OBVIOUS
    <2>1. [E!Next]_externalVars
      BY DEF MCNext
    <2>2. ExtKeeps \/ ExtLocks \/ ExtSplits
      BY <2>1, ExtStep
    <2>3. /\ ext_engine.phase \in DeliveryPhases /\ ext_engine'.phase \in DeliveryPhases
          /\ \A g : E!Ceiling(g) = Ceiling(g)
          /\ ext_engine.phase # "Idle" =>
               ext_engine.grant.deposit = E!Quote /\ Ceiling(ext_engine.grant) = E!Quote
      BY <2>1, ExtStep, SharedCore DEF ExtInv, ExtType, Engine, ExtPhases
    <2>4. CASE ExtKeeps
      BY <2>3, <2>4 DEF ExtKeeps, IsOpen, DeliveryPhases, E!Promise!svars
    <2>5. CASE ExtLocks
      BY <2>3, <2>5 DEF ExtLocks, E!Promise!Next, E!Promise!Lock
    <2>6. CASE ExtSplits
      BY <2>3, <2>6 DEF ExtSplits, IsOpen, E!Promise!Next, E!Promise!Split
    <2> QED
      BY <2>2, <2>4, <2>5, <2>6
  <1>4. MCSpec => E!SplitsOnce
    BY <1>2, <1>3, ExtInvariance, PTL DEF MCSpec, E!SplitsOnce, E!Promise!Spec
  <1> QED
    BY <1>1, <1>4, ChargerSplitsOnce, PTL DEF BothSplitOnce

=============================================================================
