--------------------------- MODULE DeliveryProofs ---------------------------
(***************************************************************************)
(* Machine-checked proofs about module Delivery, for every set of grants   *)
(* and readings: the engine is type correct, its journal never goes back,  *)
(* its caps are enforced, and - fed by a host that stops reporting once it *)
(* is Done - it implements Settlement.                                     *)
(***************************************************************************)
EXTENDS Delivery, TLAPS

-----------------------------------------------------------------------------
(* What the operators return.                                              *)

LEMMA CeilingType ==
    ASSUME NEW g \in Grant
    PROVE  Ceiling(g) \in Nat /\ Ceiling(g) <= g.deposit
  BY DEF Ceiling, Smaller, Grant, Unbounded

(* A settlement burns at most the ceiling and leaves a natural refund.     *)
LEMMA SettleType ==
    ASSUME NEW e \in Engine, NEW cost \in Nat
    PROVE  /\ SettleAmount(e, cost) \in 0..Ceiling(e.grant)
           /\ e.grant.deposit - SettleAmount(e, cost) \in Nat
  <1>1. e.grant \in Grant
    BY DEF Engine
  <1>2. e.grant.deposit \in Nat
    BY <1>1 DEF Grant
  <1> QED
    BY <1>1, <1>2, CeilingType DEF SettleAmount, Smaller

LEMMA ZeroType == ZeroProgress \in Progress
  BY DEF ZeroProgress, Progress

LEMMA GrantedType ==
    ASSUME NEW e \in Engine, NEW g \in Grant
    PROVE  Granted(e, g) \in Engine
  BY ZeroType DEF Granted, Engine, DeliveryPhases

LEMMA ProgressedType ==
    ASSUME NEW e \in Engine, NEW q \in Progress
    PROVE  Progressed(e, q) \in Engine
  BY Zenon DEF Progressed, Engine, DeliveryPhases

LEMMA ClosedType ==
    ASSUME NEW e \in Engine
    PROVE  Closed(e) \in Engine
  BY DEF Closed, Engine, DeliveryPhases

LEMMA SettledType ==
    ASSUME NEW b \in Books, NEW e \in Engine, NEW cost \in Nat
    PROVE  Settled(b, e, cost) \in Books
  <1>1. e.grant \in Grant
    BY DEF Engine
  <1>2. Ceiling(e.grant) \in Nat
    BY <1>1, CeilingType
  <1>3. SettleAmount(e, cost) \in Nat /\ e.grant.deposit - SettleAmount(e, cost) \in Nat
    BY <1>2, SettleType
  <1>4. b.burned \in Nat /\ b.refunded \in Nat
    BY DEF Books
  <1>5. /\ b.burned + SettleAmount(e, cost) \in Nat
        /\ b.refunded + (e.grant.deposit - SettleAmount(e, cost)) \in Nat
    BY <1>3, <1>4
  <1> QED
    BY <1>5, Zenon DEF Settled, Books

-----------------------------------------------------------------------------
(* The engine's record, the clock and the books keep their types.          *)
THEOREM TypeCorrect == Spec => []TypeOK
  <1>1. Init => TypeOK
    <2>1. NoGrant \in Grant
      BY DEF NoGrant, Grant, Unbounded
    <2>2. NewEngine \in Engine
      BY <2>1, ZeroType, Zenon DEF NewEngine, Engine, DeliveryPhases
    <2>3. EmptyBooks \in Books
      BY DEF EmptyBooks, Books
    <2>4. 0 \in Nat
      OBVIOUS
    <2> QED
      BY <2>2, <2>3, <2>4, Zenon DEF Init, TypeOK
  <1>2. TypeOK /\ [Next]_vars => TypeOK'
    <2> SUFFICES ASSUME TypeOK, [Next]_vars PROVE TypeOK'
      OBVIOUS
    <2> USE DEF TypeOK
    <2>1. ASSUME NEW g \in Grants, GrantIssued(g) PROVE TypeOK'
      <3>1. g \in Grant
        BY GrantsAssumption
      <3>2. Granted(engine, g) \in Engine
        BY <3>1, GrantedType
      <3> QED
        BY <2>1, <3>2 DEF GrantIssued
    <2>2. ASSUME NEW q \in Readings, ProgressObserved(q) PROVE TypeOK'
      <3>1. Progressed(engine, q) \in Engine
        BY ReadingsAssumption, ProgressedType
      <3> QED
        BY <2>2, <3>1 DEF ProgressObserved, ProgressStops, Accepts
    <2>3. ASSUME NEW cost \in Nat, Settle(cost) PROVE TypeOK'
      <3>1. Closed(engine) \in Engine
        BY ClosedType
      <3>2. Settled(books, engine, cost) \in Books
        BY SettledType
      <3> QED
        BY <2>3, <3>1, <3>2 DEF Settle
    <2>4. ASSUME NEW q \in Readings, TerminalObserved(q.cost) PROVE TypeOK'
      <3>1. q.cost \in Nat
        BY ReadingsAssumption DEF Progress
      <3> QED
        BY <2>3, <2>4, <3>1 DEF TerminalObserved
    <2>5. CASE RevokeRequested
      BY <2>5 DEF RevokeRequested
    <2>6. CASE Tick
      <3>1. engine.last.cost \in Nat
        BY DEF Engine, Progress
      <3> QED
        BY <2>3, <2>6, <3>1 DEF Tick
    <2>7. CASE ClockAdvances
      BY <2>7 DEF ClockAdvances
    <2>8. CASE UNCHANGED vars
      BY <2>8 DEF vars
    <2> QED
      BY <2>1, <2>2, <2>4, <2>5, <2>6, <2>7, <2>8 DEF Next
  <1> QED
    BY <1>1, <1>2, PTL DEF Spec

-----------------------------------------------------------------------------
(* The journal.                                                            *)

LEMMA MonotonicReflexive ==
    ASSUME NEW q \in Progress
    PROVE  Monotonic(q, q)
  BY DEF Monotonic, Progress

(* Once a grant is issued it is never replaced, and its journal never goes *)
(* backwards in units, seconds or cost - not even after the end.           *)
THEOREM JournalKept == Spec => JournalStands
  <1>1. TypeOK /\ [Next]_vars
          => [engine.phase # "Idle"
                => /\ engine'.grant = engine.grant
                   /\ Monotonic(engine'.last, engine.last)]_vars
    <2> SUFFICES ASSUME TypeOK, [Next]_vars, engine.phase # "Idle"
                 PROVE  /\ engine'.grant = engine.grant
                        /\ Monotonic(engine'.last, engine.last)
      OBVIOUS
    <2>0. engine \in Engine /\ engine.last \in Progress
      BY DEF TypeOK, Engine
    <2>1. Monotonic(engine.last, engine.last)
      BY <2>0, MonotonicReflexive
    <2>2. ASSUME NEW g \in Grants, GrantIssued(g) PROVE engine' = engine
      BY <2>2 DEF GrantIssued, Granted
    <2>3. ASSUME NEW q \in Readings, ProgressObserved(q)
          PROVE  /\ engine'.grant = engine.grant
                 /\ Monotonic(engine'.last, engine.last)
      <3>1. CASE Accepts(engine, q)
        <4>1. engine' = [engine EXCEPT !.phase = "Delivering", !.last = q]
          BY <2>3, <3>1 DEF ProgressObserved, Progressed
        <4>2. engine'.grant = engine.grant /\ engine'.last = q
          BY <2>0, <4>1, Zenon DEF Engine
        <4> QED
          BY <3>1, <4>2 DEF Accepts
      <3>2. CASE ~Accepts(engine, q)
        BY <2>1, <2>3, <3>2 DEF ProgressObserved, Progressed
      <3> QED
        BY <3>1, <3>2
    <2>4. ASSUME NEW cost, Settle(cost)
          PROVE  engine'.grant = engine.grant /\ engine'.last = engine.last
      BY <2>0, <2>4 DEF Settle, Closed, Engine
    <2>5. CASE RevokeRequested \/ ClockAdvances \/ UNCHANGED vars
      BY <2>1, <2>5 DEF RevokeRequested, ClockAdvances, vars
    <2> QED
      BY <2>1, <2>2, <2>3, <2>4, <2>5 DEF Next, TerminalObserved, Tick
  <1> QED
    BY <1>1, TypeCorrect, PTL DEF Spec, JournalStands

(* A journalled reading at or over a cap has been followed by the order to *)
(* stop in the same step.                                                  *)
THEOREM CapsEnforced == Spec => []CapsAreEnforced
  <1>1. Init => CapsAreEnforced
    BY DEF Init, CapsAreEnforced, NewEngine
  <1>2. TypeOK /\ CapsAreEnforced /\ [Next]_vars => CapsAreEnforced'
    <2> SUFFICES ASSUME TypeOK, CapsAreEnforced, [Next]_vars PROVE CapsAreEnforced'
      OBVIOUS
    <2>0. engine \in Engine /\ stopped \in BOOLEAN
      BY DEF TypeOK
    <2>1. ASSUME NEW g \in Grants, GrantIssued(g) PROVE CapsAreEnforced'
      <3>1. CASE engine.phase = "Idle"
        <4>1. engine'.last = ZeroProgress
          BY <2>1, <3>1 DEF GrantIssued, Granted
        <4> QED
          BY <4>1 DEF CapsAreEnforced
      <3>2. CASE engine.phase # "Idle"
        BY <2>1, <3>2 DEF GrantIssued, Granted, CapsAreEnforced
      <3> QED
        BY <3>1, <3>2
    <2>2. ASSUME NEW q \in Readings, ProgressObserved(q) PROVE CapsAreEnforced'
      <3>1. CASE Accepts(engine, q)
        <4>1. engine' = [engine EXCEPT !.phase = "Delivering", !.last = q]
          BY <2>2, <3>1 DEF ProgressObserved, Progressed
        <4>2. engine'.grant = engine.grant /\ engine'.last = q
          BY <2>0, <4>1, Zenon DEF Engine
        <4>3. stopped' = (stopped \/ CapReached(engine.grant, q))
          BY <2>2, <3>1 DEF ProgressObserved, ProgressStops
        <4> QED
          BY <4>2, <4>3, Zenon DEF CapsAreEnforced
      <3>2. CASE ~Accepts(engine, q)
        <4>1. engine' = engine /\ stopped' = (stopped \/ FALSE)
          BY <2>2, <3>2 DEF ProgressObserved, Progressed, ProgressStops
        <4> QED
          BY <2>0, <4>1, Zenon DEF CapsAreEnforced
      <3> QED
        BY <3>1, <3>2
    <2>3. ASSUME NEW cost, IsOpen(engine), Settle(cost) PROVE CapsAreEnforced'
      <3>1. /\ engine'.grant = engine.grant /\ engine'.last = engine.last
            /\ engine.phase # "Idle" /\ stopped' = stopped
        BY <2>0, <2>3 DEF Settle, Closed, Engine, IsOpen
      <3> QED
        BY <3>1 DEF CapsAreEnforced
    <2>4. CASE RevokeRequested
      BY <2>4 DEF RevokeRequested, CapsAreEnforced
    <2>5. CASE ClockAdvances \/ UNCHANGED vars
      BY <2>5 DEF ClockAdvances, vars, CapsAreEnforced
    <2> QED
      BY <2>1, <2>2, <2>3, <2>4, <2>5 DEF Next, TerminalObserved, Tick, Lapsed
  <1> QED
    BY <1>1, <1>2, TypeCorrect, PTL DEF Spec

-----------------------------------------------------------------------------
(* The engine implements Settlement.                                       *)

(* Nothing is emitted before the end.                                      *)
BooksOpenUntilDone == engine.phase # "Done" => books = EmptyBooks

LEMMA BooksStep ==
    ASSUME TypeOK, BooksOpenUntilDone, [Next]_vars, LateProgress = FALSE
    PROVE  BooksOpenUntilDone'
  <1>0. engine \in Engine
    BY DEF TypeOK
  <1>1. ASSUME NEW g \in Grants, GrantIssued(g) PROVE BooksOpenUntilDone'
    BY <1>1 DEF GrantIssued, Granted, BooksOpenUntilDone
  <1>2. ASSUME NEW q \in Readings, ProgressObserved(q) PROVE BooksOpenUntilDone'
    BY <1>2 DEF ProgressObserved, BooksOpenUntilDone
  <1>3. ASSUME NEW cost, Settle(cost) PROVE BooksOpenUntilDone'
    <2>1. engine'.phase = "Done"
      BY <1>0, <1>3 DEF Settle, Closed, Engine
    <2> QED
      BY <2>1 DEF BooksOpenUntilDone
  <1>4. CASE RevokeRequested \/ ClockAdvances \/ UNCHANGED vars
    BY <1>4 DEF RevokeRequested, ClockAdvances, vars, BooksOpenUntilDone
  <1> QED
    BY <1>1, <1>2, <1>3, <1>4 DEF Next, TerminalObserved, Tick

LEMMA PromiseStep ==
    ASSUME TypeOK, BooksOpenUntilDone, [Next]_vars, LateProgress = FALSE
    PROVE  [Promise!Next]_(Promise!svars)
  <1>0. engine \in Engine /\ engine.grant \in Grant
    BY DEF TypeOK, Engine
  <1>1. ASSUME NEW g \in Grants, GrantIssued(g) PROVE [Promise!Next]_(Promise!svars)
    <2>1. CASE engine.phase = "Idle"
      <3>1. engine'.phase = "Granted" /\ engine'.grant = g /\ books' = books
        BY <1>1, <2>1 DEF GrantIssued, Granted
      <3> QED
        BY <2>1, <3>1 DEF Promise!Next, Promise!Lock, Offer
    <2>2. CASE engine.phase # "Idle"
      BY <1>1, <2>2 DEF GrantIssued, Granted, Promise!svars, Offer
    <2> QED
      BY <2>1, <2>2
  <1>2. ASSUME NEW q \in Readings, ProgressObserved(q)
        PROVE  UNCHANGED Promise!svars
    <2>1. CASE Accepts(engine, q)
      <3>1. engine' = [engine EXCEPT !.phase = "Delivering", !.last = q]
        BY <1>2, <2>1 DEF ProgressObserved, Progressed
      <3>2. engine'.grant = engine.grant /\ engine'.phase = "Delivering"
        BY <1>0, <3>1, Zenon DEF Engine
      <3>3. engine.phase # "Idle" /\ engine.phase # "Done" /\ books' = books
        BY <1>2, <2>1 DEF ProgressObserved, Accepts
      <3> QED
        BY <3>2, <3>3 DEF Promise!svars, Offer
    <2>2. CASE ~Accepts(engine, q)
      BY <1>2, <2>2 DEF ProgressObserved, Progressed, Promise!svars, Offer
    <2> QED
      BY <2>1, <2>2
  <1>3. ASSUME NEW cost \in Nat, IsOpen(engine), Settle(cost) PROVE Promise!Split
    <2>1. engine'.phase = "Done" /\ engine'.grant = engine.grant
      BY <1>0, <1>3 DEF Settle, Closed, Engine
    <2>2. engine.phase # "Idle" /\ engine.phase # "Done"
      BY <1>3 DEF IsOpen
    <2>3. books = EmptyBooks
      BY <2>2 DEF BooksOpenUntilDone
    <2>4. /\ SettleAmount(engine, cost) \in 0..Ceiling(engine.grant)
          /\ engine.grant.deposit - SettleAmount(engine, cost) \in Nat
      BY <1>0, SettleType
    <2>5. Ceiling(engine.grant) \in Nat /\ engine.grant.deposit \in Nat
      BY <1>0, CeilingType DEF Grant
    <2>6. /\ books'.burned = SettleAmount(engine, cost)
          /\ books'.refunded = engine.grant.deposit - SettleAmount(engine, cost)
      BY <1>3, <2>3, <2>4, <2>5 DEF Settle, Settled, EmptyBooks
    <2> QED
      BY <2>1, <2>2, <2>4, <2>6 DEF Promise!Split, Offer
  <1>4. ASSUME NEW q \in Readings, TerminalObserved(q.cost) PROVE Promise!Split
    <2>1. q.cost \in Nat
      BY ReadingsAssumption DEF Progress
    <2> QED
      BY <1>3, <1>4, <2>1 DEF TerminalObserved
  <1>5. CASE Tick
    <2>1. engine.last.cost \in Nat
      BY <1>0 DEF Engine, Progress
    <2> QED
      BY <1>3, <1>5, <2>1 DEF Tick, Lapsed, Promise!Next
  <1>6. CASE RevokeRequested \/ ClockAdvances \/ UNCHANGED vars
    BY <1>6 DEF RevokeRequested, ClockAdvances, vars, Promise!svars, Offer
  <1> QED
    BY <1>1, <1>2, <1>4, <1>5, <1>6 DEF Next, Promise!Next

(* Fed by a host that reports no progress to an engine that is Done, the   *)
(* engine implements Settlement: for every grant and every order of        *)
(* readings, reports, revocations and ticks the deposit is split once,     *)
(* within the ceiling.                                                     *)
THEOREM ImplementsSettlement ==
    ASSUME LateProgress = FALSE
    PROVE  Spec => SplitsOnce
  <1>1. Init => Promise!Init /\ BooksOpenUntilDone
    <2> SUFFICES ASSUME Init PROVE Promise!Init /\ BooksOpenUntilDone
      OBVIOUS
    <2>1. /\ engine.phase = "Idle" /\ engine.grant.deposit = 0
          /\ engine.grant.max_cost = Unbounded
          /\ books.burned = 0 /\ books.refunded = 0 /\ books = EmptyBooks
      BY DEF Init, NewEngine, NoGrant, EmptyBooks
    <2> QED
      BY <2>1 DEF Promise!Init, Offer, Ceiling, BooksOpenUntilDone
  <1>2. TypeOK /\ BooksOpenUntilDone /\ [Next]_vars => BooksOpenUntilDone'
    BY BooksStep
  <1>3. TypeOK /\ BooksOpenUntilDone /\ [Next]_vars => [Promise!Next]_(Promise!svars)
    BY PromiseStep
  <1> QED
    BY <1>1, <1>2, <1>3, TypeCorrect, PTL DEF Spec, SplitsOnce, Promise!Spec
=============================================================================
