--------------------------- MODULE SessionProofs ---------------------------
(***************************************************************************)
(* Machine-checked proofs about module Session, for every set of peers,    *)
(* every price, policy and width, and every bound.                         *)
(***************************************************************************)
EXTENDS Session, TLAPS

-----------------------------------------------------------------------------
(* What the operators of SessionCore return.                               *)

(* Saturating subtraction stays a natural number not above its first       *)
(* argument, saturating addition stays within u64.                         *)
LEMMA SatTypes ==
    ASSUME NEW a \in Nat, NEW b \in Nat
    PROVE  /\ SatSub(a, b) \in Nat
           /\ SatSub(a, b) <= a
           /\ SatSub(a, b) >= a - b
           /\ SatAdd(a, b) \in 0..U64Max
  BY WidthAssumption DEF SatSub, SatAdd

(* The signed cost is an integer.                                          *)
LEMMA CostType ==
    ASSUME NEW elapsed \in Nat, NEW units \in Nat
    PROVE  CostScaled(elapsed, units) \in Int
  <1>1. I64Max \in Int
    BY WidthAssumption DEF I64Max
  <1>2. elapsed * PerSecond \in Int /\ units * PerUnit \in Int
    BY PriceAssumption
  <1>3. TruncThousandth(elapsed * PerSecond) \in Int
    BY <1>2 DEF TruncThousandth
  <1> QED
    BY <1>1, <1>2, <1>3 DEF CostScaled

(* The quantities a sample computes.                                       *)
LEMMA SampleTypes ==
    ASSUME NEW s \in PeerSession, NEW c \in Nat, NEW now \in Nat
    PROVE  /\ OurDelivered(s, c) \in Nat
           /\ Billable(s, c) \in Nat
           /\ Billable(s, c) >= OurDelivered(s, c)
           /\ NewUnits(s, c) \in Nat
           /\ NewUnits(s, c) >= Billable(s, c) - s.billed_units
           /\ SampleCost(s, c, now) \in Int
           /\ Charge(s, c, now) \in Nat
           /\ NextStreak(s, c) \in 0..255
  <1>1. /\ s.metering_baseline \in Nat /\ s.last_meter_at \in Nat
        /\ s.billed_units \in Nat /\ s.peer_report \in Nat \cup {None}
        /\ s.over_tolerance_streak \in 0..255
    BY DEF PeerSession
  <1>2. OurDelivered(s, c) \in Nat
    BY <1>1, SatTypes DEF OurDelivered
  <1>3. Billable(s, c) \in Nat /\ Billable(s, c) >= OurDelivered(s, c)
    BY <1>1, <1>2 DEF Billable, Reconcile, None
  <1>4. NewUnits(s, c) \in Nat /\ NewUnits(s, c) >= Billable(s, c) - s.billed_units
    BY <1>1, <1>3, SatTypes DEF NewUnits
  <1>5. SampleCost(s, c, now) \in Int
    BY <1>1, <1>4, SatTypes, CostType DEF SampleCost
  <1>6. Charge(s, c, now) \in Nat
    BY <1>5 DEF Charge
  <1>7. NextStreak(s, c) \in 0..255
    BY <1>1 DEF NextStreak
  <1> QED
    BY <1>2, <1>3, <1>4, <1>5, <1>6, <1>7

(* handle() keeps a PeerSession a PeerSession.                             *)
LEMMA NewSessionType == NewSession \in PeerSession
  BY WidthAssumption DEF NewSession, PeerSession, Phases, None

LEMMA MessageTypes ==
    ASSUME NEW s \in PeerSession, NEW n \in Nat
    PROVE  /\ TokenReceived(s) \in PeerSession
           /\ RejectReceived(s) \in PeerSession
           /\ TokenRefused(s) \in PeerSession
           /\ ReportReceived(s, n) \in PeerSession
  BY DEF TokenReceived, RejectReceived, TokenRefused, ReportReceived,
         PeerSession, Phases

LEMMA TokenAcceptedType ==
    ASSUME NEW s \in PeerSession, NEW amount \in Nat, NEW now \in Nat
    PROVE  TokenAccepted(s, amount, now) \in PeerSession
  <1> DEFINE paid == [s EXCEPT !.balance = SatAdd(s.balance, amount),
                               !.phase = "Active"]
  <1>1. s.balance \in Nat
    BY WidthAssumption DEF PeerSession
  <1>2. SatAdd(s.balance, amount) \in 0..U64Max
    BY <1>1, SatTypes
  <1>3. paid \in PeerSession
    BY <1>2, Zenon DEF PeerSession, Phases
  <1>4. [paid EXCEPT !.last_counters = None, !.last_meter_at = now]
          \in PeerSession
    <2> HIDE DEF paid
    <2> QED
      BY <1>3, Zenon DEF PeerSession
  <1> QED
    BY <1>3, <1>4, Zenon DEF TokenAccepted

LEMMA SampledType ==
    ASSUME NEW s \in PeerSession, NEW c \in Nat, NEW now \in Nat
    PROVE  Sampled(s, c, now) \in PeerSession
  <1>1. s.balance \in 0..U64Max /\ s.balance \in Nat
    BY WidthAssumption DEF PeerSession
  <1>2. SatSub(s.balance, Charge(s, c, now)) \in 0..U64Max
    <2>1. Charge(s, c, now) \in Nat
      BY SampleTypes
    <2>2. SatSub(s.balance, Charge(s, c, now)) \in Nat
          /\ SatSub(s.balance, Charge(s, c, now)) <= s.balance
      BY <1>1, <2>1, SatTypes
    <2> QED
      BY <1>1, <2>2, WidthAssumption
  <1>3. ResetMetering(s, c, now) \in PeerSession
    <2>1. 0 \in Nat /\ 0 \in 0..255
      OBVIOUS
    <2> QED
      BY <2>1, Zenon DEF ResetMetering, PeerSession
  <1>4. BilledSample(s, c, now) \in PeerSession
    <2>1. Billable(s, c) \in Nat /\ NextStreak(s, c) \in 0..255
      BY SampleTypes
    <2>2. (IF CutOff(s, c, now) THEN "Suspended" ELSE "Active") \in Phases
      BY Zenon DEF Phases
    <2> QED
      BY <1>2, <2>1, <2>2, ZenonT(60) DEF BilledSample, PeerSession
  <1> QED
    BY <1>3, <1>4, Zenon DEF Sampled

LEMMA LedgerType ==
    ASSUME NEW l \in Ledger, NEW s \in PeerSession, NEW c \in Nat, clock \in Nat
    PROVE  LedgerAfterSample(l, s, c) \in Ledger
  <1>1. Rebased(l) \in Ledger
    <2>1. 0 \in Nat /\ 0 \in Int
      OBVIOUS
    <2> QED
      BY <2>1, Zenon DEF Rebased, Ledger
  <1>2. Billed(l, s, c) \in Ledger
    <2>1. /\ l.cost \in Nat /\ l.units \in Nat /\ l.due \in Int
          /\ l.elapsed \in Nat /\ l.samples \in Nat /\ l.peak \in Nat
      BY DEF Ledger
    <2>2. /\ Charge(s, c, clock) \in Nat /\ NewUnits(s, c) \in Nat
          /\ SampleCost(s, c, clock) \in Int /\ Billable(s, c) \in Nat
      BY SampleTypes
    <2>3. /\ l.cost + Charge(s, c, clock) \in Nat
          /\ l.units + NewUnits(s, c) \in Nat
          /\ l.due + SampleCost(s, c, clock) \in Int
      BY <2>1, <2>2
    <2>4. l.samples + (IF clock > s.last_meter_at THEN 1 ELSE 0) \in Nat
      BY <2>1
    <2>5. Reconcile(l.peak, Billable(s, c)) \in Nat
      BY <2>1, <2>2 DEF Reconcile
    <2>6. l.elapsed + SatSub(clock, s.last_meter_at) \in Nat
      BY <2>1 DEF SatSub, PeerSession
    <2> QED
      BY <2>3, <2>4, <2>5, <2>6, Zenon DEF Billed, Ledger
  <1> QED
    BY <1>1, <1>2, Zenon DEF LedgerAfterSample

-----------------------------------------------------------------------------
(* Type correctness.                                                       *)

(* The effects handle() can ask for, and what carrying one out does.       *)
LEMMA EffectTypes ==
    ASSUME NEW s, NEW c, NEW now,
           NEW e \in {NoEffect, Revoke, ConnectedEffect, TokenAcceptedEffect,
                      TokenRefusedEffect, RejectEffect(s), SampledEffect(s, c, now)}
    PROVE  e.access \in AccessLevels \cup {"Keep"}
  BY DEF NoEffect, Revoke, ConnectedEffect, TokenAcceptedEffect,
         TokenRefusedEffect, RejectEffect, SampledEffect, Effect, AccessLevels

LEMMA ExecuteTypes ==
    ASSUME NEW p \in Peer, NEW e, e.access \in AccessLevels \cup {"Keep"},
           access \in [Peer -> AccessLevels], metered \subseteq Peer,
           Execute(p, e)
    PROVE  access' \in [Peer -> AccessLevels] /\ metered' \subseteq Peer
  <1>1. access' \in [Peer -> AccessLevels]
    BY DEF Execute
  <1>2. metered' \subseteq Peer
    BY DEF Execute
  <1> QED
    BY <1>1, <1>2

(* Every variable keeps its type, the balance its u64 width and the drift  *)
(* streak its u8, for every price (negative ones included) and policy.     *)
THEOREM TypeCorrect == Spec => []TypeOK
  <1>1. Init => TypeOK
    BY NewSessionType DEF Init, TypeOK, AccessLevels, NewLedger, Ledger
  <1>2. TypeOK /\ [Next]_vars => TypeOK'
    <2> SUFFICES ASSUME TypeOK, [Next]_vars PROVE TypeOK'
      OBVIOUS
    <2> USE DEF TypeOK
    <2>1. ASSUME NEW p \in Peer, PeerConnected(p) PROVE TypeOK'
      <3>1. NewLedger \in Ledger
        BY DEF NewLedger, Ledger
      <3>2. access' \in [Peer -> AccessLevels] /\ metered' \subseteq Peer
        BY <2>1, EffectTypes, ExecuteTypes DEF PeerConnected
      <3> QED
        BY <2>1, <3>1, <3>2, NewSessionType DEF PeerConnected
    <2>2. ASSUME NEW p \in Peer, BootstrapToken(p) PROVE TypeOK'
      <3>1. TokenReceived(session[p]) \in PeerSession
        BY MessageTypes
      <3> QED
        BY <2>2, <3>1 DEF BootstrapToken
    <2>3. ASSUME NEW p \in Peer, NEW a \in Amounts, BootstrapVerified(p, a)
          PROVE  TypeOK'
      <3>1. a \in Nat
        BY EnvAssumption
      <3>2. TokenAccepted(session[p], a, clock) \in PeerSession
        BY <3>1, TokenAcceptedType
      <3>3. [ledger EXCEPT ![p].credited = @ + a] \in [Peer -> Ledger]
        BY <3>1 DEF Ledger
      <3>4. access' \in [Peer -> AccessLevels] /\ metered' \subseteq Peer
        BY <2>3, EffectTypes, ExecuteTypes DEF BootstrapVerified
      <3>5. session' \in [Peer -> PeerSession] /\ ledger' \in [Peer -> Ledger]
        BY <2>3, <3>2, <3>3 DEF BootstrapVerified
      <3>6. pending' \in [Peer -> Nat]
        BY <2>3 DEF BootstrapVerified
      <3> QED
        BY <2>3, <3>4, <3>5, <3>6 DEF BootstrapVerified
    <2>4. ASSUME NEW p \in Peer, BootstrapRefused(p) PROVE TypeOK'
      <3>1. TokenRefused(session[p]) \in PeerSession
        BY MessageTypes
      <3>2. access' \in [Peer -> AccessLevels] /\ metered' \subseteq Peer
        BY <2>4, EffectTypes, ExecuteTypes DEF BootstrapRefused
      <3>3. session' \in [Peer -> PeerSession] /\ pending' \in [Peer -> Nat]
        BY <2>4, <3>1 DEF BootstrapRefused
      <3> QED
        BY <2>4, <3>2, <3>3 DEF BootstrapRefused
    <2>5. ASSUME NEW p \in Peer, RejectMessage(p) PROVE TypeOK'
      <3>1. RejectReceived(session[p]) \in PeerSession
        BY MessageTypes
      <3>2. access' \in [Peer -> AccessLevels] /\ metered' \subseteq Peer
        BY <2>5, EffectTypes, ExecuteTypes DEF RejectMessage
      <3> QED
        BY <2>5, <3>1, <3>2 DEF RejectMessage
    <2>6. ASSUME NEW p \in Peer, NEW r \in Reports, MeteringReport(p, r)
          PROVE  TypeOK'
      <3>1. ReportReceived(session[p], r) \in PeerSession
        BY EnvAssumption, MessageTypes
      <3> QED
        BY <2>6, <3>1 DEF MeteringReport
    <2>7. ASSUME NEW p \in Peer, PeerDisconnected(p) PROVE TypeOK'
      <3>1. NewLedger \in Ledger
        BY DEF NewLedger, Ledger
      <3>2. access' \in [Peer -> AccessLevels] /\ metered' \subseteq Peer
        BY <2>7, EffectTypes, ExecuteTypes DEF PeerDisconnected
      <3> QED
        BY <2>7, <3>1, <3>2, NewSessionType DEF PeerDisconnected
    <2>8. ASSUME NEW p \in Peer, NEW n \in Readings(p), MeterSample(p, n)
          PROVE  TypeOK'
      <3>1. n \in Nat
        BY DEF Readings
      <3>2. /\ Sampled(session[p], n, clock) \in PeerSession
            /\ LedgerAfterSample(ledger[p], session[p], n) \in Ledger
        BY <3>1, SampledType, LedgerType
      <3>3. access' \in [Peer -> AccessLevels] /\ metered' \subseteq Peer
        BY <2>8, EffectTypes, ExecuteTypes DEF MeterSample
      <3> QED
        BY <2>8, <3>2, <3>3 DEF MeterSample
    <2>9. ASSUME NEW p \in Peer, Deliver(p) PROVE TypeOK'
      BY <2>9 DEF Deliver
    <2>10. CASE ClockAdvances
      BY <2>10, EnvAssumption DEF ClockAdvances
    <2>11. CASE ClockSetBack
      BY <2>11, EnvAssumption DEF ClockSetBack
    <2>12. CASE UNCHANGED vars
      BY <2>12 DEF vars
    <2> QED
      BY <2>1, <2>2, <2>3, <2>4, <2>5, <2>6, <2>7, <2>8, <2>9, <2>10, <2>11,
         <2>12 DEF Next
  <1> QED
    BY <1>1, <1>2, PTL DEF Spec

-----------------------------------------------------------------------------
(* The fields each event changes.                                          *)

(* A message, a refusal or an acceptance: what it does to phase, balance   *)
(* and the billing fields.                                                 *)
LEMMA MessageFields ==
    ASSUME NEW s \in PeerSession, NEW r \in Nat,
           NEW t \in {TokenReceived(s), RejectReceived(s), TokenRefused(s),
                      ReportReceived(s, r)}
    PROVE  /\ t.balance = s.balance
           /\ t.last_counters = s.last_counters
           /\ t.metering_baseline = s.metering_baseline
           /\ t.billed_units = s.billed_units
  BY DEF TokenReceived, RejectReceived, TokenRefused, ReportReceived, PeerSession

LEMMA MessagePhases ==
    ASSUME NEW s \in PeerSession, NEW r \in Nat
    PROVE  /\ TokenReceived(s).phase = "BootstrapPending"
           /\ RejectReceived(s).phase = "New"
           /\ TokenRefused(s).phase = "New"
           /\ ReportReceived(s, r).phase = s.phase
  BY DEF TokenReceived, RejectReceived, TokenRefused, ReportReceived, PeerSession

LEMMA AcceptedFields ==
    ASSUME NEW s \in PeerSession, NEW a \in Nat, NEW now \in Nat
    PROVE  LET t == TokenAccepted(s, a, now) IN
           /\ t.phase = "Active"
           /\ t.balance = SatAdd(s.balance, a)
           /\ t.last_counters \in {s.last_counters, None}
           /\ t.metering_baseline = s.metering_baseline
           /\ t.billed_units = s.billed_units
  BY Zenon DEF TokenAccepted, PeerSession

(* A sample leaves alone a peer that is not Active, starts the meter of an *)
(* Active peer without a baseline, and charges the others.                 *)
LEMMA SampledFields ==
    ASSUME NEW s \in PeerSession, NEW c \in Nat, NEW now \in Nat
    PROVE  LET t == Sampled(s, c, now) IN
           /\ s.phase # "Active" => t = s
           /\ s.phase = "Active" /\ s.last_counters = None =>
                 /\ t.phase = "Active"
                 /\ t.balance = s.balance
                 /\ t.last_counters = c
                 /\ t.metering_baseline = c
                 /\ t.billed_units = 0
           /\ s.phase = "Active" /\ s.last_counters # None =>
                 /\ t.phase \in {"Active", "Suspended"}
                 /\ t.balance = SatSub(s.balance, Charge(s, c, now))
                 /\ t.last_counters = c
                 /\ t.metering_baseline = s.metering_baseline
                 /\ t.billed_units = Billable(s, c)
  <1>1. ResetMetering(s, c, now).phase = s.phase
        /\ ResetMetering(s, c, now).balance = s.balance
        /\ ResetMetering(s, c, now).last_counters = c
        /\ ResetMetering(s, c, now).metering_baseline = c
        /\ ResetMetering(s, c, now).billed_units = 0
    BY Zenon DEF ResetMetering, PeerSession
  <1>2. /\ BilledSample(s, c, now).phase \in {"Active", "Suspended"}
        /\ BilledSample(s, c, now).balance = SatSub(s.balance, Charge(s, c, now))
        /\ BilledSample(s, c, now).last_counters = c
        /\ BilledSample(s, c, now).metering_baseline = s.metering_baseline
        /\ BilledSample(s, c, now).billed_units = Billable(s, c)
    BY Zenon DEF BilledSample, PeerSession
  <1> QED
    BY <1>1, <1>2, Zenon DEF Sampled

(* The host is told to close a peer exactly when a sample suspends it.     *)
LEMMA SampledEffects ==
    ASSUME NEW s \in PeerSession, NEW c \in Nat, NEW now \in Nat
    PROVE  LET t == Sampled(s, c, now)
               e == SampledEffect(s, c, now)
           IN  \/ t.phase = s.phase /\ e.access = "Keep" /\ e.meter = "Keep"
               \/ t.phase = "Suspended" /\ e.access = "Suspended" /\ e.meter = "Stop"
  <1>1. CASE s.phase # "Active" \/ s.last_counters = None
    BY <1>1, SampledFields, ZenonT(60) DEF SampledEffect, NoEffect, Effect
  <1>2. CASE s.phase = "Active" /\ s.last_counters # None
    <2>1. BilledSample(s, c, now).phase
            = IF CutOff(s, c, now) THEN "Suspended" ELSE "Active"
      BY Zenon DEF BilledSample, PeerSession
    <2> QED
      BY <1>2, <2>1, Zenon DEF Sampled, SampledEffect, Effect
  <1> QED
    BY <1>1, <1>2

(* What carrying out an effect does to the host's view of each peer.       *)
LEMMA Executed ==
    ASSUME NEW p \in Peer, NEW e, NEW q \in Peer,
           access \in [Peer -> AccessLevels], Execute(p, e)
    PROVE  /\ q # p => access'[q] = access[q] /\ (q \in metered' <=> q \in metered)
           /\ e.access = "Keep" => access'[p] = access[p]
           /\ e.access # "Keep" => access'[p] = e.access
           /\ e.meter = "Start" => p \in metered'
           /\ e.meter = "Stop" => p \notin metered'
           /\ e.meter = "Keep" => (p \in metered' <=> p \in metered)
  BY DEF Execute

-----------------------------------------------------------------------------
(* The host enforces the lifecycle.                                        *)

LEMMA AccessStep ==
    ASSUME TypeOK, AccessFollowsPhase, [Next]_vars
    PROVE  AccessFollowsPhase'
  <1> USE DEF AccessFollowsPhase, AllowsDelivery
  <1>t. /\ session \in [Peer -> PeerSession]
        /\ access \in [Peer -> AccessLevels] /\ peers \subseteq Peer
        /\ clock \in Nat /\ delivered \in [Peer -> Nat]
    BY DEF TypeOK
  <1>1. ASSUME NEW p \in Peer, PeerConnected(p) PROVE AccessFollowsPhase'
    <2>1. CASE p \in peers
      BY <1>1, <2>1, <1>t DEF PeerConnected, Execute, NoEffect, Effect
    <2>2. CASE p \notin peers
      <3>1. session' = [session EXCEPT ![p] = NewSession]
            /\ peers' = peers \cup {p}
            /\ Execute(p, ConnectedEffect)
        BY <1>1, <2>2 DEF PeerConnected
      <3>2. ConnectedEffect.access = "None" /\ ConnectedEffect.meter = "Keep"
            /\ NewSession.phase = "New"
        BY DEF ConnectedEffect, Effect, NewSession
      <3> QED
        BY <2>2, <3>1, <3>2, <1>t, Executed
    <2> QED
      BY <2>1, <2>2
  <1>2. ASSUME NEW p \in Peer, BootstrapToken(p) PROVE AccessFollowsPhase'
    <2>1. TokenReceived(session[p]).phase = "BootstrapPending"
      BY <1>t, MessagePhases
    <2> QED
      BY <1>2, <2>1, <1>t DEF BootstrapToken
  <1>3. ASSUME NEW p \in Peer, NEW a \in Amounts, BootstrapVerified(p, a)
        PROVE  AccessFollowsPhase'
    <2>1. CASE p \in peers
      <3>1. session' = [session EXCEPT ![p] = TokenAccepted(session[p], a, clock)]
            /\ peers' = peers
            /\ Execute(p, TokenAcceptedEffect)
        BY <1>3, <2>1 DEF BootstrapVerified
      <3>2. TokenAcceptedEffect.access = "Active" /\ TokenAcceptedEffect.meter = "Start"
        BY DEF TokenAcceptedEffect, Effect
      <3>3. TokenAccepted(session[p], a, clock).phase = "Active"
        BY <1>t, EnvAssumption, AcceptedFields
      <3> QED
        BY <2>1, <3>1, <3>2, <3>3, <1>t, Executed
    <2>2. CASE p \notin peers
      BY <1>3, <2>2, <1>t DEF BootstrapVerified, Execute, NoEffect, Effect
    <2> QED
      BY <2>1, <2>2
  <1>4. ASSUME NEW p \in Peer, BootstrapRefused(p) PROVE AccessFollowsPhase'
    <2>1. CASE p \in peers
      <3>1. session' = [session EXCEPT ![p] = TokenRefused(session[p])]
            /\ peers' = peers
            /\ Execute(p, TokenRefusedEffect)
        BY <1>4, <2>1 DEF BootstrapRefused
      <3>2. TokenRefused(session[p]).phase = "New"
        BY <1>t, MessagePhases
      <3> QED
        BY <2>1, <3>1, <3>2, <1>t, Executed
    <2>2. CASE p \notin peers
      BY <1>4, <2>2, <1>t DEF BootstrapRefused, Execute, NoEffect, Effect
    <2> QED
      BY <2>1, <2>2
  <1>5. ASSUME NEW p \in Peer, RejectMessage(p) PROVE AccessFollowsPhase'
    <2>1. session' = [session EXCEPT ![p] = RejectReceived(session[p])]
          /\ peers' = peers /\ p \in peers
          /\ Execute(p, RejectEffect(session[p]))
      BY <1>5 DEF RejectMessage
    <2>2. RejectReceived(session[p]).phase = "New"
      BY <1>t, MessagePhases
    <2> QED
      BY <2>1, <2>2, <1>t, Executed
  <1>6. ASSUME NEW p \in Peer, NEW r \in Reports, MeteringReport(p, r)
        PROVE  AccessFollowsPhase'
    <2>1. ReportReceived(session[p], r).phase = session[p].phase
      BY <1>t, EnvAssumption, MessagePhases
    <2> QED
      BY <1>6, <2>1, <1>t DEF MeteringReport
  <1>7. ASSUME NEW p \in Peer, PeerDisconnected(p) PROVE AccessFollowsPhase'
    <2>1. session' = [session EXCEPT ![p] = NewSession]
          /\ peers' = peers \ {p}
          /\ Execute(p, Revoke)
      BY <1>7 DEF PeerDisconnected
    <2>2. Revoke.access = "None" /\ Revoke.meter = "Stop"
      BY DEF Revoke, Effect
    <2> QED
      BY <2>1, <2>2, <1>t, Executed
  <1>8. ASSUME NEW p \in Peer, NEW n \in Readings(p), MeterSample(p, n)
        PROVE  AccessFollowsPhase'
    <2>1. CASE p \in peers
      <3> DEFINE t == Sampled(session[p], n, clock)
                 e == SampledEffect(session[p], n, clock)
      <3>1. session' = [session EXCEPT ![p] = t] /\ peers' = peers
            /\ Execute(p, e)
        BY <1>8, <2>1 DEF MeterSample
      <3>2. n \in Nat
        BY <1>t DEF Readings
      <3>3. \/ t.phase = session[p].phase /\ e.access = "Keep" /\ e.meter = "Keep"
            \/ t.phase = "Suspended" /\ e.access = "Suspended" /\ e.meter = "Stop"
        BY <3>2, <1>t, SampledEffects
      <3> HIDE DEF t, e
      <3>4. ASSUME NEW q \in Peer, q # p
            PROVE  session'[q] = session[q] /\ access'[q] = access[q]
                   /\ (q \in metered' <=> q \in metered)
        BY <3>1, <3>4, <1>t, Executed
      <3>5. session'[p] = t
        BY <3>1, <1>t
      <3>6. CASE t.phase = session[p].phase /\ e.access = "Keep" /\ e.meter = "Keep"
        <4>1. access'[p] = access[p] /\ (p \in metered' <=> p \in metered)
          BY <3>1, <3>6, <1>t, Executed
        <4> QED
          BY <3>1, <3>4, <3>5, <3>6, <4>1
      <3>7. CASE t.phase = "Suspended" /\ e.access = "Suspended" /\ e.meter = "Stop"
        <4>1. access'[p] = "Suspended" /\ p \notin metered'
          BY <3>1, <3>7, <1>t, Executed
        <4> QED
          BY <2>1, <3>1, <3>4, <3>5, <3>7, <4>1
      <3> QED
        BY <3>3, <3>6, <3>7
    <2>2. CASE p \notin peers
      BY <1>8, <2>2, <1>t DEF MeterSample, Execute, NoEffect, Effect
    <2> QED
      BY <2>1, <2>2
  <1>9. ASSUME NEW p \in Peer, Deliver(p) PROVE AccessFollowsPhase'
    BY <1>9 DEF Deliver
  <1>10. CASE ClockAdvances
    BY <1>10 DEF ClockAdvances
  <1>11. CASE ClockSetBack
    BY <1>11 DEF ClockSetBack
  <1>12. CASE UNCHANGED vars
    BY <1>12 DEF vars
  <1> QED
    BY <1>1, <1>2, <1>3, <1>4, <1>5, <1>6, <1>7, <1>8, <1>9, <1>10, <1>11,
       <1>12 DEF Next

(* An Active peer is let through and metered, a Suspended or unknown one   *)
(* is neither, in every interleaving of messages, verifications, samples   *)
(* and disconnects, failed counter reads and clock corrections included.   *)
THEOREM AccessCorrect == Spec => []AccessFollowsPhase
  <1>1. Init => AccessFollowsPhase
    BY DEF Init, AccessFollowsPhase, AllowsDelivery
  <1>2. TypeOK /\ AccessFollowsPhase /\ [Next]_vars => AccessFollowsPhase'
    BY AccessStep
  <1> QED
    BY <1>1, <1>2, TypeCorrect, PTL DEF Spec

(* No step takes balance from a peer the firewall blocks: a charge is made *)
(* by a sample of an Active peer, and those are let through and metered.   *)
THEOREM ChargedOnlyWhenServed == Spec => NeverChargedWhileBlocked
  <1>1. TypeOK /\ AccessFollowsPhase /\ [Next]_vars
        => [\A p \in Peer :
              p \in peers \cap peers' /\ session'[p].balance < session[p].balance
                => AllowsDelivery(access[p]) /\ p \in metered]_vars
    <2> SUFFICES ASSUME TypeOK, AccessFollowsPhase, [Next]_vars,
                        NEW q \in Peer, q \in peers, q \in peers',
                        session'[q].balance < session[q].balance
                 PROVE  AllowsDelivery(access[q]) /\ q \in metered
      OBVIOUS
    <2>t. /\ session \in [Peer -> PeerSession] /\ clock \in Nat
          /\ delivered \in [Peer -> Nat]
          /\ session[q].balance \in Nat
      BY WidthAssumption DEF TypeOK, PeerSession
    <2>0. session'[q] # session[q]
      BY <2>t
    <2>1. ASSUME NEW p \in Peer, PeerConnected(p) PROVE FALSE
      BY <2>0, <2>1, <2>t DEF PeerConnected
    <2>2. ASSUME NEW p \in Peer, BootstrapToken(p) PROVE FALSE
      <3>1. TokenReceived(session[p]).balance = session[p].balance
        BY <2>t, MessageFields
      <3> QED
        BY <2>0, <2>2, <3>1, <2>t DEF BootstrapToken
    <2>3. ASSUME NEW p \in Peer, NEW a \in Amounts, BootstrapVerified(p, a) PROVE FALSE
      <3>1. a \in Nat
        BY EnvAssumption
      <3>2. TokenAccepted(session[q], a, clock).balance = SatAdd(session[q].balance, a)
        BY <3>1, <2>t, AcceptedFields
      <3>b. session[q].balance \in 0..U64Max
        BY <2>t DEF PeerSession
      <3>3. SatAdd(session[q].balance, a) >= session[q].balance
        BY <3>1, <3>b, WidthAssumption DEF SatAdd
      <3>4. SatAdd(session[q].balance, a) \in Nat
        BY <3>1, <3>b, WidthAssumption DEF SatAdd
      <3>5. session'[q] = TokenAccepted(session[q], a, clock)
        BY <2>0, <2>3, <2>t DEF BootstrapVerified
      <3> QED
        BY <3>2, <3>3, <3>4, <3>5, <2>t
    <2>4. ASSUME NEW p \in Peer, BootstrapRefused(p) PROVE FALSE
      <3>1. TokenRefused(session[p]).balance = session[p].balance
        BY <2>t, MessageFields
      <3> QED
        BY <2>0, <2>4, <3>1, <2>t DEF BootstrapRefused
    <2>5. ASSUME NEW p \in Peer, RejectMessage(p) PROVE FALSE
      <3>1. RejectReceived(session[p]).balance = session[p].balance
        BY <2>t, MessageFields
      <3> QED
        BY <2>0, <2>5, <3>1, <2>t DEF RejectMessage
    <2>6. ASSUME NEW p \in Peer, NEW r \in Reports, MeteringReport(p, r) PROVE FALSE
      <3>1. ReportReceived(session[p], r).balance = session[p].balance
        BY <2>t, EnvAssumption, MessageFields
      <3> QED
        BY <2>0, <2>6, <3>1, <2>t DEF MeteringReport
    <2>7. ASSUME NEW p \in Peer, PeerDisconnected(p) PROVE FALSE
      BY <2>0, <2>7, <2>t DEF PeerDisconnected
    <2>8. ASSUME NEW p \in Peer, NEW n \in Readings(p), MeterSample(p, n)
          PROVE  AllowsDelivery(access[q]) /\ q \in metered
      <3>1. p = q
        BY <2>0, <2>8, <2>t DEF MeterSample
      <3>2. n \in Nat
        BY <2>t DEF Readings
      <3>3. session'[q] = Sampled(session[q], n, clock)
        BY <2>8, <3>1, <2>t DEF MeterSample
      <3>4. session[q].phase = "Active"
        BY <2>0, <3>2, <3>3, <2>t, SampledFields
      <3> QED
        BY <3>4 DEF AccessFollowsPhase
    <2>9. ASSUME NEW p \in Peer, Deliver(p) PROVE FALSE
      BY <2>0, <2>9 DEF Deliver
    <2>10. CASE ClockAdvances
      BY <2>0, <2>10 DEF ClockAdvances
    <2>11. CASE ClockSetBack
      BY <2>0, <2>11 DEF ClockSetBack
    <2>12. CASE UNCHANGED vars
      BY <2>0, <2>12 DEF vars
    <2> QED
      BY <2>1, <2>2, <2>3, <2>4, <2>5, <2>6, <2>7, <2>8, <2>9, <2>10, <2>11,
         <2>12 DEF Next
  <1> QED
    BY <1>1, TypeCorrect, AccessCorrect, PTL DEF Spec, NeverChargedWhileBlocked

-----------------------------------------------------------------------------
(* Credit is kept.                                                         *)

(* One peer's books: NoCreditLost for the record s and the history l.      *)
Kept(s, l) == l.credited <= U64Max => l.credited <= s.balance + l.cost

LEMMA KeptByAccept ==
    ASSUME NEW s \in PeerSession, NEW l \in Ledger, NEW a \in Nat, NEW now \in Nat,
           Kept(s, l)
    PROVE  Kept(TokenAccepted(s, a, now), [l EXCEPT !.credited = @ + a])
  <1>1. s.balance \in Nat /\ l.credited \in Nat /\ l.cost \in Nat
    BY WidthAssumption DEF PeerSession, Ledger
  <1>2. TokenAccepted(s, a, now).balance = SatAdd(s.balance, a)
    BY AcceptedFields
  <1>3. /\ [l EXCEPT !.credited = @ + a].credited = l.credited + a
        /\ [l EXCEPT !.credited = @ + a].cost = l.cost
    BY DEF Ledger
  <1>4. l.credited + a <= U64Max => l.credited + a <= SatAdd(s.balance, a) + l.cost
    BY <1>1, WidthAssumption DEF Kept, SatAdd
  <1> QED
    BY <1>2, <1>3, <1>4 DEF Kept

LEMMA KeptBySample ==
    ASSUME NEW s \in PeerSession, NEW l \in Ledger, NEW c \in Nat, clock \in Nat,
           Kept(s, l)
    PROVE  Kept(Sampled(s, c, clock), LedgerAfterSample(l, s, c))
  <1>0. s.balance \in Nat /\ l.credited \in Nat /\ l.cost \in Nat
    BY WidthAssumption DEF PeerSession, Ledger
  <1>1. CASE s.phase # "Active"
    BY <1>1, SampledFields DEF LedgerAfterSample
  <1>2. CASE s.phase = "Active" /\ s.last_counters = None
    <2>1. LedgerAfterSample(l, s, c) = Rebased(l)
      BY <1>2 DEF LedgerAfterSample
    <2>2. Rebased(l).credited = l.credited /\ Rebased(l).cost = l.cost
      BY Zenon DEF Rebased, Ledger
    <2>3. Sampled(s, c, clock).balance = s.balance
      BY <1>2, SampledFields
    <2> QED
      BY <2>1, <2>2, <2>3 DEF Kept
  <1>3. CASE s.phase = "Active" /\ s.last_counters # None
    <2>1. LedgerAfterSample(l, s, c) = Billed(l, s, c)
      BY <1>3 DEF LedgerAfterSample
    <2>2. Billed(l, s, c).credited = l.credited
          /\ Billed(l, s, c).cost = l.cost + Charge(s, c, clock)
      BY Zenon DEF Billed, Ledger
    <2>3. Sampled(s, c, clock).balance = SatSub(s.balance, Charge(s, c, clock))
      BY <1>3, SampledFields
    <2>4. Charge(s, c, clock) \in Nat
      BY SampleTypes
    <2>5. SatSub(s.balance, Charge(s, c, clock)) \in Nat
          /\ SatSub(s.balance, Charge(s, c, clock)) >= s.balance - Charge(s, c, clock)
      BY <1>0, <2>4, SatTypes
    <2>6. l.credited <= U64Max
            => l.credited <= SatSub(s.balance, Charge(s, c, clock))
                               + (l.cost + Charge(s, c, clock))
      BY <1>0, <2>4, <2>5 DEF Kept
    <2> QED
      BY <2>1, <2>2, <2>3, <2>6 DEF Kept
  <1> QED
    BY <1>1, <1>2, <1>3

(* Everything a peer was credited is in its balance or was used up, for    *)
(* every sequence of top-ups, refusals, suspensions, re-admissions and     *)
(* samples, as long as the total fits u64.                                 *)
THEOREM CreditKept == Spec => []NoCreditLost
  <1> DEFINE Inv == \A p \in Peer : Kept(session[p], ledger[p])
  <1>1. Init => Inv
    BY WidthAssumption DEF Init, Kept, NewLedger, NewSession
  <1>2. TypeOK /\ Inv /\ [Next]_vars => Inv'
    <2> SUFFICES ASSUME TypeOK, Inv, [Next]_vars PROVE Inv'
      OBVIOUS
    <2>t. /\ session \in [Peer -> PeerSession] /\ ledger \in [Peer -> Ledger]
          /\ delivered \in [Peer -> Nat] /\ clock \in Nat
      BY DEF TypeOK
    <2>n. Kept(NewSession, NewLedger)
      BY WidthAssumption DEF Kept, NewLedger, NewSession
    <2>1. ASSUME NEW p \in Peer, PeerConnected(p) PROVE Inv'
      BY <2>1, <2>n, <2>t DEF PeerConnected
    <2>2. ASSUME NEW p \in Peer, BootstrapToken(p) PROVE Inv'
      <3>1. Kept(TokenReceived(session[p]), ledger[p])
        BY <2>t, MessageFields DEF Kept
      <3> QED
        BY <2>2, <3>1, <2>t DEF BootstrapToken
    <2>3. ASSUME NEW p \in Peer, NEW a \in Amounts, BootstrapVerified(p, a) PROVE Inv'
      <3>1. Kept(TokenAccepted(session[p], a, clock),
                 [ledger[p] EXCEPT !.credited = @ + a])
        BY <2>t, EnvAssumption, KeptByAccept
      <3> QED
        BY <2>3, <3>1, <2>t DEF BootstrapVerified
    <2>4. ASSUME NEW p \in Peer, BootstrapRefused(p) PROVE Inv'
      <3>1. Kept(TokenRefused(session[p]), ledger[p])
        BY <2>t, MessageFields DEF Kept
      <3> QED
        BY <2>4, <3>1, <2>t DEF BootstrapRefused
    <2>5. ASSUME NEW p \in Peer, RejectMessage(p) PROVE Inv'
      <3>1. Kept(RejectReceived(session[p]), ledger[p])
        BY <2>t, MessageFields DEF Kept
      <3> QED
        BY <2>5, <3>1, <2>t DEF RejectMessage
    <2>6. ASSUME NEW p \in Peer, NEW r \in Reports, MeteringReport(p, r) PROVE Inv'
      <3>1. Kept(ReportReceived(session[p], r), ledger[p])
        BY <2>t, EnvAssumption, MessageFields DEF Kept
      <3> QED
        BY <2>6, <3>1, <2>t DEF MeteringReport
    <2>7. ASSUME NEW p \in Peer, PeerDisconnected(p) PROVE Inv'
      BY <2>7, <2>n, <2>t DEF PeerDisconnected
    <2>8. ASSUME NEW p \in Peer, NEW n \in Readings(p), MeterSample(p, n) PROVE Inv'
      <3>1. n \in Nat
        BY <2>t DEF Readings
      <3>2. Kept(Sampled(session[p], n, clock),
                 LedgerAfterSample(ledger[p], session[p], n))
        BY <3>1, <2>t, KeptBySample
      <3> QED
        BY <2>8, <3>2, <2>t DEF MeterSample
    <2>9. ASSUME NEW p \in Peer, Deliver(p) PROVE Inv'
      BY <2>9 DEF Deliver
    <2>10. CASE ClockAdvances
      BY <2>10 DEF ClockAdvances
    <2>11. CASE ClockSetBack
      BY <2>11 DEF ClockSetBack
    <2>12. CASE UNCHANGED vars
      BY <2>12 DEF vars
    <2> QED
      BY <2>1, <2>2, <2>3, <2>4, <2>5, <2>6, <2>7, <2>8, <2>9, <2>10, <2>11,
         <2>12 DEF Next
  <1>3. TypeOK /\ Inv => NoCreditLost
    BY DEF TypeOK, NoCreditLost, Kept
  <1> QED
    BY <1>1, <1>2, <1>3, TypeCorrect, PTL DEF Spec

-----------------------------------------------------------------------------
(* Metered usage is billed.                                                *)

(* The strengthening.  MeteredUsageIsBilled relates the units charged to   *)
(* the counters; the code relates both to billed_units, the running total  *)
(* it charges increments of.  A later, smaller report (or a failed read)   *)
(* lowers billed_units, never the units already charged.                   *)
BooksBalance(s, l) ==
    s.last_counters # None =>
        /\ l.units >= s.billed_units
        /\ l.units >= l.peak
        /\ s.billed_units >= SatSub(s.last_counters, s.metering_baseline)

LEMMA BilledBySample ==
    ASSUME NEW s \in PeerSession, NEW l \in Ledger, NEW c \in Nat, clock \in Nat,
           BooksBalance(s, l)
    PROVE  BooksBalance(Sampled(s, c, clock), LedgerAfterSample(l, s, c))
  <1>0. /\ l.units \in Nat /\ l.peak \in Nat /\ s.billed_units \in Nat
        /\ s.metering_baseline \in Nat
    BY DEF PeerSession, Ledger
  <1>1. CASE s.phase # "Active"
    BY <1>1, SampledFields DEF LedgerAfterSample
  <1>2. CASE s.phase = "Active" /\ s.last_counters = None
    <2>1. LedgerAfterSample(l, s, c) = Rebased(l)
      BY <1>2 DEF LedgerAfterSample
    <2>2. Rebased(l).units = 0 /\ Rebased(l).peak = 0
      BY Zenon DEF Rebased, Ledger
    <2>3. /\ Sampled(s, c, clock).last_counters = c
          /\ Sampled(s, c, clock).metering_baseline = c
          /\ Sampled(s, c, clock).billed_units = 0
      BY <1>2, SampledFields
    <2>4. SatSub(c, c) = 0
      BY DEF SatSub
    <2> QED
      BY <2>1, <2>2, <2>3, <2>4 DEF BooksBalance
  <1>3. CASE s.phase = "Active" /\ s.last_counters # None
    <2>1. LedgerAfterSample(l, s, c) = Billed(l, s, c)
      BY <1>3 DEF LedgerAfterSample
    <2>2. /\ Billed(l, s, c).units = l.units + NewUnits(s, c)
          /\ Billed(l, s, c).peak = Reconcile(l.peak, Billable(s, c))
      BY Zenon DEF Billed, Ledger
    <2>3. /\ Sampled(s, c, clock).last_counters = c
          /\ Sampled(s, c, clock).metering_baseline = s.metering_baseline
          /\ Sampled(s, c, clock).billed_units = Billable(s, c)
      BY <1>3, SampledFields
    <2>4. /\ Billable(s, c) \in Nat
          /\ Billable(s, c) >= SatSub(c, s.metering_baseline)
          /\ NewUnits(s, c) \in Nat
          /\ NewUnits(s, c) >= Billable(s, c) - s.billed_units
      BY SampleTypes DEF OurDelivered
    <2>5. /\ l.units + NewUnits(s, c) >= Billable(s, c)
          /\ l.units + NewUnits(s, c) >= l.peak
      BY <1>0, <1>3, <2>4 DEF BooksBalance
    <2>6. l.units + NewUnits(s, c) >= Reconcile(l.peak, Billable(s, c))
      BY <2>5 DEF Reconcile
    <2> QED
      BY <2>1, <2>2, <2>3, <2>4, <2>5, <2>6 DEF BooksBalance
  <1> QED
    BY <1>1, <1>2, <1>3

(* By every sample, each unit our counters saw and each unit the peer      *)
(* admitted to since the baseline has been charged, whatever the peer      *)
(* reports next and even when reading the counters fails.                  *)
THEOREM UsageBilled == Spec => []MeteredUsageIsBilled
  <1> DEFINE Inv == \A p \in Peer : BooksBalance(session[p], ledger[p])
  <1>1. Init => Inv
    BY DEF Init, BooksBalance, NewSession
  <1>2. TypeOK /\ Inv /\ [Next]_vars => Inv'
    <2> SUFFICES ASSUME TypeOK, Inv, [Next]_vars PROVE Inv'
      OBVIOUS
    <2>t. /\ session \in [Peer -> PeerSession] /\ ledger \in [Peer -> Ledger]
          /\ delivered \in [Peer -> Nat] /\ clock \in Nat
      BY DEF TypeOK
    <2>n. BooksBalance(NewSession, NewLedger)
      BY DEF BooksBalance, NewSession
    <2>1. ASSUME NEW p \in Peer, PeerConnected(p) PROVE Inv'
      BY <2>1, <2>n, <2>t DEF PeerConnected
    <2>2. ASSUME NEW p \in Peer, BootstrapToken(p) PROVE Inv'
      <3>1. BooksBalance(TokenReceived(session[p]), ledger[p])
        BY <2>t, MessageFields DEF BooksBalance
      <3> QED
        BY <2>2, <3>1, <2>t DEF BootstrapToken
    <2>3. ASSUME NEW p \in Peer, NEW a \in Amounts, BootstrapVerified(p, a) PROVE Inv'
      <3> DEFINE l == [ledger[p] EXCEPT !.credited = @ + a]
      <3>1. l.units = ledger[p].units /\ l.peak = ledger[p].peak
        BY <2>t DEF Ledger
      <3>2. BooksBalance(TokenAccepted(session[p], a, clock), l)
        <4> HIDE DEF l
        <4> QED
          BY <3>1, <2>t, EnvAssumption, AcceptedFields DEF BooksBalance
      <3> QED
        BY <2>3, <3>2, <2>t DEF BootstrapVerified
    <2>4. ASSUME NEW p \in Peer, BootstrapRefused(p) PROVE Inv'
      <3>1. BooksBalance(TokenRefused(session[p]), ledger[p])
        BY <2>t, MessageFields DEF BooksBalance
      <3> QED
        BY <2>4, <3>1, <2>t DEF BootstrapRefused
    <2>5. ASSUME NEW p \in Peer, RejectMessage(p) PROVE Inv'
      <3>1. BooksBalance(RejectReceived(session[p]), ledger[p])
        BY <2>t, MessageFields DEF BooksBalance
      <3> QED
        BY <2>5, <3>1, <2>t DEF RejectMessage
    <2>6. ASSUME NEW p \in Peer, NEW r \in Reports, MeteringReport(p, r) PROVE Inv'
      <3>1. BooksBalance(ReportReceived(session[p], r), ledger[p])
        BY <2>t, EnvAssumption, MessageFields DEF BooksBalance
      <3> QED
        BY <2>6, <3>1, <2>t DEF MeteringReport
    <2>7. ASSUME NEW p \in Peer, PeerDisconnected(p) PROVE Inv'
      BY <2>7, <2>n, <2>t DEF PeerDisconnected
    <2>8. ASSUME NEW p \in Peer, NEW n \in Readings(p), MeterSample(p, n) PROVE Inv'
      <3>1. n \in Nat
        BY <2>t DEF Readings
      <3>2. BooksBalance(Sampled(session[p], n, clock),
                         LedgerAfterSample(ledger[p], session[p], n))
        BY <3>1, <2>t, BilledBySample
      <3> QED
        BY <2>8, <3>2, <2>t DEF MeterSample
    <2>9. ASSUME NEW p \in Peer, Deliver(p) PROVE Inv'
      BY <2>9 DEF Deliver
    <2>10. CASE ClockAdvances
      BY <2>10 DEF ClockAdvances
    <2>11. CASE ClockSetBack
      BY <2>11 DEF ClockSetBack
    <2>12. CASE UNCHANGED vars
      BY <2>12 DEF vars
    <2> QED
      BY <2>1, <2>2, <2>3, <2>4, <2>5, <2>6, <2>7, <2>8, <2>9, <2>10, <2>11,
         <2>12 DEF Next
  <1>3. TypeOK /\ Inv => MeteredUsageIsBilled
    <2> SUFFICES ASSUME TypeOK, Inv, NEW p \in peers,
                        session[p].last_counters # None
                 PROVE  /\ ledger[p].units >= SatSub(session[p].last_counters,
                                                     session[p].metering_baseline)
                        /\ ledger[p].units >= ledger[p].peak
      BY DEF MeteredUsageIsBilled
    <2>1. p \in Peer
      BY DEF TypeOK
    <2>2. /\ session[p].last_counters \in Nat /\ session[p].metering_baseline \in Nat
          /\ session[p].billed_units \in Nat /\ ledger[p].units \in Nat
      BY <2>1 DEF TypeOK, PeerSession, Ledger
    <2>3. SatSub(session[p].last_counters, session[p].metering_baseline) \in Nat
      BY <2>2, SatTypes
    <2> QED
      BY <2>1, <2>2, <2>3 DEF BooksBalance
  <1> QED
    BY <1>1, <1>2, <1>3, TypeCorrect, PTL DEF Spec
-----------------------------------------------------------------------------
(* The sum of the costs is the price.                                      *)

(* One sample: cost_scaled drops less than a scaled unit of the price of   *)
(* the time, nothing if no time passed, and clamps only at i64::MAX.       *)
PriceOf(elapsed, units) == PerSecond * elapsed + 1000 * PerUnit * units

FairCost(cost, price, elapsed) ==
    /\ cost \in Nat /\ price \in Nat /\ 1000 * cost <= price
    /\ cost < I64Max => price - 1000 * cost <= IF elapsed > 0 THEN 999 ELSE 0

LEMMA CostIsFair ==
    ASSUME NEW elapsed \in Nat, NEW units \in Nat, PerSecond >= 0, PerUnit >= 0
    PROVE  FairCost(CostScaled(elapsed, units), PriceOf(elapsed, units), elapsed)
  <1> DEFINE time == elapsed * PerSecond
             use == units * PerUnit
             trunc == TruncThousandth(time)
             cost == CostScaled(elapsed, units)
  <1>1. /\ I64Max \in Nat /\ time \in Nat /\ use \in Nat
        /\ PerSecond * elapsed = time /\ 1000 * PerUnit * units = 1000 * use
        /\ elapsed = 0 => time = 0
    BY PriceAssumption, WidthAssumption DEF I64Max
  <1>2. cost = IF trunc + use > I64Max THEN I64Max
               ELSE IF trunc + use < -I64Max - 1 THEN -I64Max - 1 ELSE trunc + use
    BY DEF CostScaled
  <1> HIDE DEF time, use
  <1>3. /\ trunc \in Nat /\ 1000 * trunc <= time /\ time - 1000 * trunc <= 999
        /\ time = 0 => trunc = 0
    BY <1>1 DEF TruncThousandth
  <1>4. PriceOf(elapsed, units) = time + 1000 * use
    BY <1>1 DEF PriceOf
  <1> HIDE DEF trunc, cost
  <1>5. cost = IF trunc + use > I64Max THEN I64Max ELSE trunc + use
    BY <1>1, <1>2, <1>3
  <1>6. FairCost(cost, time + 1000 * use, elapsed)
    BY <1>1, <1>3, <1>5 DEF FairCost
  <1> QED
    BY <1>4, <1>6 DEF cost

(* The strengthening.  No cost is negative, so as long as the sum is below *)
(* i64::MAX no sample since the baseline was clamped.                      *)
Exact(l) == PriceOf(l.elapsed, l.units)

Fair(s, l) ==
    s.last_counters # None =>
        /\ l.due >= 0 /\ 1000 * l.due <= Exact(l)
        /\ l.due < I64Max => Exact(l) - 1000 * l.due <= 999 * l.samples

LEMMA FairAfterSample ==
    ASSUME NEW s \in PeerSession, NEW l \in Ledger, NEW c \in Nat, clock \in Nat,
           Fair(s, l), PerSecond >= 0, PerUnit >= 0
    PROVE  Fair(Sampled(s, c, clock), LedgerAfterSample(l, s, c))
  <1>0. /\ l.units \in Nat /\ l.elapsed \in Nat /\ l.samples \in Nat /\ l.due \in Int
        /\ s.last_meter_at \in Nat
    BY DEF PeerSession, Ledger
  <1>1. CASE s.phase # "Active"
    BY <1>1, SampledFields DEF LedgerAfterSample
  <1>2. CASE s.phase = "Active" /\ s.last_counters = None
    <2>1. LedgerAfterSample(l, s, c) = Rebased(l)
      BY <1>2 DEF LedgerAfterSample
    <2>2. /\ Rebased(l).units = 0 /\ Rebased(l).elapsed = 0
          /\ Rebased(l).due = 0 /\ Rebased(l).samples = 0
      BY Zenon DEF Rebased, Ledger
    <2>3. Exact(Rebased(l)) = 0
      BY <2>2, PriceAssumption DEF Exact, PriceOf
    <2> QED
      BY <2>1, <2>2, <2>3 DEF Fair
  <1>3. CASE s.phase = "Active" /\ s.last_counters # None
    <2> DEFINE t == Billed(l, s, c)
               e == SatSub(clock, s.last_meter_at)
               u == NewUnits(s, c)
               cost == CostScaled(e, u)
               more == PriceOf(e, u)
    <2>1. LedgerAfterSample(l, s, c) = t
      BY <1>3 DEF LedgerAfterSample
    <2>2. /\ t.units = l.units + u /\ t.elapsed = l.elapsed + e
          /\ t.due = l.due + SampleCost(s, c, clock)
          /\ t.samples = l.samples + (IF clock > s.last_meter_at THEN 1 ELSE 0)
      BY Zenon DEF Billed, Ledger
    <2>3. SampleCost(s, c, clock) = cost
      BY DEF SampleCost
    <2>4. e \in Nat /\ u \in Nat /\ (clock > s.last_meter_at <=> e > 0)
      <3>1. u \in Nat
        BY SampleTypes
      <3>2. e \in Nat /\ (clock > s.last_meter_at <=> e > 0)
        BY <1>0 DEF SatSub
      <3> QED
        BY <3>1, <3>2
    <2> HIDE DEF t, e, u
    <2>5. FairCost(cost, more, e)
      BY <2>4, CostIsFair, Zenon
    <2>6. Exact(t) = Exact(l) + more /\ Exact(l) \in Int
      <3>1. /\ PerSecond * (l.elapsed + e) = PerSecond * l.elapsed + PerSecond * e
            /\ 1000 * PerUnit * (l.units + u) = 1000 * PerUnit * l.units + 1000 * PerUnit * u
        BY <1>0, <2>4, PriceAssumption
      <3>2. /\ PerSecond * l.elapsed \in Int /\ PerSecond * e \in Int
            /\ 1000 * PerUnit * l.units \in Int /\ 1000 * PerUnit * u \in Int
        BY <1>0, <2>4, PriceAssumption
      <3> QED
        BY <2>2, <3>1, <3>2 DEF Exact, PriceOf
    <2> HIDE DEF cost, more
    <2>7. I64Max \in Int
      BY WidthAssumption DEF I64Max
    <2>8. /\ l.due >= 0 /\ 1000 * l.due <= Exact(l)
          /\ l.due < I64Max => Exact(l) - 1000 * l.due <= 999 * l.samples
      BY <1>3 DEF Fair
    <2>9. /\ t.due >= 0 /\ 1000 * t.due <= Exact(t)
          /\ t.due < I64Max => Exact(t) - 1000 * t.due <= 999 * t.samples
      BY <1>0, <2>2, <2>3, <2>4, <2>5, <2>6, <2>7, <2>8 DEF FairCost
    <2> QED
      BY <2>1, <2>9 DEF Fair
  <1> QED
    BY <1>1, <1>2, <1>3

(* At prices that are not negative, and as long as the costs since the     *)
(* baseline add up to less than i64::MAX: what a peer was asked for since  *)
(* the baseline is the price of the time and the units, short by less than *)
(* a scaled unit per sample and never over, however the clock is set and   *)
(* whatever the peer reports.                                              *)
THEOREM ChargeFair ==
    ASSUME PerSecond >= 0, PerUnit >= 0
    PROVE  Spec => []((\A p \in peers : ledger[p].due < I64Max) => ChargeIsFair)
  <1> DEFINE Inv == \A p \in Peer : Fair(session[p], ledger[p])
  <1>1. Init => Inv
    BY DEF Init, Fair, NewSession
  <1>2. TypeOK /\ Inv /\ [Next]_vars => Inv'
    <2> SUFFICES ASSUME TypeOK, Inv, [Next]_vars PROVE Inv'
      OBVIOUS
    <2>t. /\ session \in [Peer -> PeerSession] /\ ledger \in [Peer -> Ledger]
          /\ delivered \in [Peer -> Nat] /\ clock \in Nat
      BY DEF TypeOK
    <2>n. Fair(NewSession, NewLedger)
      BY DEF Fair, NewSession
    <2>1. ASSUME NEW p \in Peer, PeerConnected(p) PROVE Inv'
      BY <2>1, <2>n, <2>t DEF PeerConnected
    <2>2. ASSUME NEW p \in Peer, BootstrapToken(p) PROVE Inv'
      <3>1. Fair(TokenReceived(session[p]), ledger[p])
        BY <2>t, MessageFields DEF Fair
      <3> QED
        BY <2>2, <3>1, <2>t DEF BootstrapToken
    <2>3. ASSUME NEW p \in Peer, NEW a \in Amounts, BootstrapVerified(p, a) PROVE Inv'
      <3> DEFINE l == [ledger[p] EXCEPT !.credited = @ + a]
      <3>1. /\ l.units = ledger[p].units /\ l.elapsed = ledger[p].elapsed
            /\ l.due = ledger[p].due /\ l.samples = ledger[p].samples
        BY <2>t DEF Ledger
      <3>2. Fair(TokenAccepted(session[p], a, clock), l)
        <4> HIDE DEF l
        <4>1. Exact(l) = Exact(ledger[p])
          BY <3>1 DEF Exact
        <4>2. TokenAccepted(session[p], a, clock).last_counters # None =>
                session[p].last_counters # None
          BY <2>t, EnvAssumption, AcceptedFields
        <4> QED
          BY <3>1, <4>1, <4>2 DEF Fair
      <3> QED
        BY <2>3, <3>2, <2>t DEF BootstrapVerified
    <2>4. ASSUME NEW p \in Peer, BootstrapRefused(p) PROVE Inv'
      <3>1. Fair(TokenRefused(session[p]), ledger[p])
        BY <2>t, MessageFields DEF Fair
      <3> QED
        BY <2>4, <3>1, <2>t DEF BootstrapRefused
    <2>5. ASSUME NEW p \in Peer, RejectMessage(p) PROVE Inv'
      <3>1. Fair(RejectReceived(session[p]), ledger[p])
        BY <2>t, MessageFields DEF Fair
      <3> QED
        BY <2>5, <3>1, <2>t DEF RejectMessage
    <2>6. ASSUME NEW p \in Peer, NEW r \in Reports, MeteringReport(p, r) PROVE Inv'
      <3>1. Fair(ReportReceived(session[p], r), ledger[p])
        <4>1. ReportReceived(session[p], r).last_counters = session[p].last_counters
          BY <2>t, EnvAssumption, MessageFields
        <4> QED
          BY <4>1 DEF Fair
      <3> QED
        BY <2>6, <3>1, <2>t DEF MeteringReport
    <2>7. ASSUME NEW p \in Peer, PeerDisconnected(p) PROVE Inv'
      BY <2>7, <2>n, <2>t DEF PeerDisconnected
    <2>8. ASSUME NEW p \in Peer, NEW n \in Readings(p), MeterSample(p, n) PROVE Inv'
      <3>1. n \in Nat
        BY <2>t DEF Readings
      <3>2. Fair(Sampled(session[p], n, clock),
                         LedgerAfterSample(ledger[p], session[p], n))
        BY <3>1, <2>t, FairAfterSample
      <3> QED
        BY <2>8, <3>2, <2>t DEF MeterSample
    <2>9. ASSUME NEW p \in Peer, Deliver(p) PROVE Inv'
      BY <2>9 DEF Deliver
    <2>10. CASE ClockAdvances
      BY <2>10 DEF ClockAdvances
    <2>11. CASE ClockSetBack
      BY <2>11 DEF ClockSetBack
    <2>12. CASE UNCHANGED vars
      BY <2>12 DEF vars
    <2> QED
      BY <2>1, <2>2, <2>3, <2>4, <2>5, <2>6, <2>7, <2>8, <2>9, <2>10, <2>11,
         <2>12 DEF Next
  <1>3. TypeOK /\ Inv => ((\A p \in peers : ledger[p].due < I64Max) => ChargeIsFair)
    <2> SUFFICES ASSUME TypeOK, Inv, \A p \in peers : ledger[p].due < I64Max,
                        NEW p \in peers, session[p].last_counters # None
                 PROVE  LET exact == PerSecond * ledger[p].elapsed
                                     + 1000 * PerUnit * ledger[p].units
                            due == 1000 * ledger[p].due
                        IN  due <= exact /\ exact - due <= 999 * ledger[p].samples
      BY DEF ChargeIsFair
    <2>1. p \in Peer
      BY DEF TypeOK
    <2> QED
      BY <2>1 DEF Fair, Exact, PriceOf
  <1> QED
    BY <1>1, <1>2, <1>3, TypeCorrect, PTL DEF Spec
=============================================================================
