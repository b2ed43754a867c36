---------------------------- MODULE DriverProofs ----------------------------
(***************************************************************************)
(* Machine-checked proofs about module Driver, for every set of requests,  *)
(* every set of addresses, every price, token value, policy and bound, and *)
(* every interleaving of the tasks.                                        *)
(*                                                                         *)
(* Neither result looks at what the tasks have left to do: the session and *)
(* the books stay right whatever a task does next, and that is what makes  *)
(* the executor's interleavings harmless to them.                          *)
(***************************************************************************)
EXTENDS Driver, TLAPS

-----------------------------------------------------------------------------
(* The inductive invariant.                                                *)

Money == [vouched : Nat, charged : Nat, forfeited : Nat, reaped : Nat]

(* What the host keeps beside the session.                                 *)
HostInv ==
    /\ peer_ip \in IP \cup {NoIp} /\ target \in IP \cup {NoIp}
    /\ counter \in [IP -> Nat]
    /\ reading \in Nat \cup {None}
    /\ misreads \in Nat

TypeInv ==
    /\ known \in BOOLEAN
    /\ left \in BOOLEAN
    /\ session \in PeerSession
    /\ money \in Money
    /\ HostInv

(* A peer that is not known has no credit, and one that is known has not   *)
(* left: that decides where a token the mint vouches for late is booked.   *)
Apart ==
    /\ ~known => session.balance = 0
    /\ known => ~left

(* The session adds with saturation: credit is exact up to the largest u64 *)
Credit == money.vouched <= U64Max => TokensAreCredited

(* A price below zero charges nothing (the session pays nothing back).     *)
Rate == IF PerUnit > 0 THEN PerUnit ELSE 0

(* The price of n units, and of all that was counted for each of the m     *)
(* failed readings.                                                        *)
Worth(m, c, n) == Rate * (m * c + n)
Price(n) == Rate * n

(* What was charged is covered by what the firewall counted, and more      *)
(* closely: by the reading the metering loop is about to feed, since one   *)
(* task reads and feeds and readings only fall when they fail; and, in a   *)
(* session that has a baseline, by what that session has billed, which is  *)
(* where it goes on charging from.                                         *)
Metered(ip) ==
    /\ money.charged <= Worth(misreads, counter[ip], counter[ip])
    /\ reading # None => /\ reading <= counter[ip]
                         /\ money.charged <= Worth(misreads, counter[ip], reading)
    /\ session.last_counters # None =>
         /\ session.metering_baseline + session.billed_units <= counter[ip]
         /\ money.charged <= Worth(misreads, counter[ip],
                                   session.metering_baseline + session.billed_units)
         /\ session.peer_report # None =>
              session.metering_baseline + session.peer_report <= counter[ip]

MeteredInv == \A ip \in IP : IP = {ip} /\ ~overclaimed => Metered(ip)

IInv == TypeInv /\ Apart /\ Credit

-----------------------------------------------------------------------------
(* What the operators of SessionCore return when time is not priced.       *)

LEMMA SatTypes ==
    ASSUME NEW a \in Nat, NEW b \in Nat
    PROVE  /\ SatSub(a, b) \in Nat /\ SatSub(a, b) <= a /\ SatSub(a, b) >= a - b
           /\ a >= b => SatSub(a, b) = a - b
           /\ SatAdd(a, b) \in 0..U64Max
           /\ a + b <= U64Max => SatAdd(a, b) = a + b
  BY WidthAssumption DEF SatSub, SatAdd

LEMMA SampleTypes ==
    ASSUME NEW s \in PeerSession, NEW c \in Nat
    PROVE  /\ Billable(s, c) \in Nat /\ Billable(s, c) >= SatSub(c, s.metering_baseline)
           /\ \/ Billable(s, c) = SatSub(c, s.metering_baseline)
              \/ s.peer_report # None /\ Billable(s, c) = s.peer_report
           /\ NewUnits(s, c) = SatSub(Billable(s, c), s.billed_units)
           /\ NewUnits(s, c) \in Nat
           /\ Charge(s, c, 0) \in Nat
           /\ Charge(s, c, 0) <= Rate * NewUnits(s, c)
           /\ NextStreak(s, c) \in 0..255
  <1>1. /\ s.metering_baseline \in Nat /\ s.last_meter_at \in Nat
        /\ s.billed_units \in Nat /\ s.over_tolerance_streak \in 0..255
        /\ s.peer_report \in Nat \cup {None}
    BY DEF PeerSession
  <1>2. /\ Billable(s, c) \in Nat /\ Billable(s, c) >= SatSub(c, s.metering_baseline)
        /\ \/ Billable(s, c) = SatSub(c, s.metering_baseline)
           \/ s.peer_report # None /\ Billable(s, c) = s.peer_report
    <2> DEFINE ours == SatSub(c, s.metering_baseline)
    <2>1. ours \in Nat
      BY <1>1, SatTypes
    <2>2. Billable(s, c) = IF s.peer_report = None THEN ours
                           ELSE IF ours > s.peer_report THEN ours ELSE s.peer_report
      BY DEF Billable, OurDelivered, Reconcile
    <2> HIDE DEF ours
    <2>3. /\ Billable(s, c) \in Nat /\ Billable(s, c) >= ours
          /\ Billable(s, c) = ours \/ (s.peer_report # None /\ Billable(s, c) = s.peer_report)
      BY <1>1, <2>1, <2>2 DEF None
    <2> QED
      BY <2>3 DEF ours
  <1>3. /\ NewUnits(s, c) = SatSub(Billable(s, c), s.billed_units)
        /\ NewUnits(s, c) \in Nat
    BY <1>1, <1>2, SatTypes DEF NewUnits
  <1>4. SampleCost(s, c, 0) = CostScaled(SatSub(0, s.last_meter_at), NewUnits(s, c))
    BY DEF SampleCost
  <1>5. SatSub(0, s.last_meter_at) \in Nat
    BY <1>1, SatTypes
  <1> DEFINE total == NewUnits(s, c) * PerUnit
  <1>6. total \in Int
    BY <1>3, PriceAssumption
  <1>7. total <= Rate * NewUnits(s, c) /\ Rate * NewUnits(s, c) \in Nat
    BY <1>3, PriceAssumption DEF Rate
  <1>8. TruncThousandth(SatSub(0, s.last_meter_at) * PerSecond) = 0
    <2>1. SatSub(0, s.last_meter_at) * PerSecond = 0
      BY <1>5, DriverAssumption
    <2> QED
      BY <2>1 DEF TruncThousandth
  <1>9. I64Max \in Nat
    BY WidthAssumption DEF I64Max
  <1>10. /\ SampleCost(s, c, 0) \in Int
         /\ SampleCost(s, c, 0) <= total \/ SampleCost(s, c, 0) <= 0
    <2>1. SampleCost(s, c, 0) = IF total > I64Max THEN I64Max
                                ELSE IF total < -I64Max - 1 THEN -I64Max - 1 ELSE total
      <3>1. 0 + total = total
        BY <1>6
      <3> QED
        BY <1>4, <1>8, <3>1 DEF CostScaled
    <2> QED
      BY <2>1, <1>6, <1>9
  <1>11. /\ Charge(s, c, 0) \in Nat
         /\ Charge(s, c, 0) <= Rate * NewUnits(s, c)
    BY <1>6, <1>7, <1>10 DEF Charge
  <1>12. NextStreak(s, c) \in 0..255
    BY <1>1 DEF NextStreak, None
  <1> QED
    BY <1>2, <1>3, <1>11, <1>12

LEMMA NewSessionType ==
    /\ NewSession \in PeerSession
    /\ NewSession.balance = 0 /\ NewSession.last_counters = None
    /\ NewSession.peer_report = None
  BY WidthAssumption DEF NewSession, PeerSession, Phases, None

(* Two records with the same account: credit, and where billing stands.    *)
SameAccount(s, t) ==
    /\ t.balance = s.balance
    /\ t.peer_report = s.peer_report
    /\ t.last_counters = s.last_counters
    /\ t.metering_baseline = s.metering_baseline
    /\ t.billed_units = s.billed_units

(* A message moves the phase and nothing else of the session.              *)
LEMMA MessageTypes ==
    ASSUME NEW s \in PeerSession
    PROVE  /\ TokenReceived(s) \in PeerSession /\ SameAccount(s, TokenReceived(s))
           /\ RejectReceived(s) \in PeerSession /\ SameAccount(s, RejectReceived(s))
           /\ TokenRefused(s) \in PeerSession /\ SameAccount(s, TokenRefused(s))
  <1>1. /\ TokenReceived(s) \in PeerSession
        /\ RejectReceived(s) \in PeerSession
        /\ TokenRefused(s) \in PeerSession
    BY DEF TokenReceived, RejectReceived, TokenRefused, PeerSession, Phases
  <1>2. \A ph : SameAccount(s, [s EXCEPT !.phase = ph])
    BY DEF SameAccount, PeerSession
  <1> QED
    BY <1>1, <1>2 DEF TokenReceived, RejectReceived, TokenRefused

(* A report changes nothing but the report.                                *)
LEMMA ReportType ==
    ASSUME NEW s \in PeerSession, NEW received \in Nat
    PROVE  /\ ReportReceived(s, received) \in PeerSession
           /\ ReportReceived(s, received).peer_report = received
           /\ ReportReceived(s, received).balance = s.balance
           /\ ReportReceived(s, received).last_counters = s.last_counters
           /\ ReportReceived(s, received).metering_baseline = s.metering_baseline
           /\ ReportReceived(s, received).billed_units = s.billed_units
  <1>1. ReportReceived(s, received) \in PeerSession
    BY ZenonT(60) DEF ReportReceived, PeerSession
  <1> QED
    BY <1>1 DEF ReportReceived, PeerSession

(* An accepted token adds to the balance; a session it makes Active has no *)
(* baseline any more.                                                      *)
LEMMA TokenAcceptedType ==
    ASSUME NEW s \in PeerSession, NEW amount \in Nat
    PROVE  /\ TokenAccepted(s, amount, 0) \in PeerSession
           /\ TokenAccepted(s, amount, 0).balance = SatAdd(s.balance, amount)
           /\ TokenAccepted(s, amount, 0).peer_report = s.peer_report
           /\ TokenAccepted(s, amount, 0).metering_baseline = s.metering_baseline
           /\ TokenAccepted(s, amount, 0).billed_units = s.billed_units
           /\ TokenAccepted(s, amount, 0).last_counters \in {s.last_counters, None}
  <1> DEFINE paid == [s EXCEPT !.balance = SatAdd(s.balance, amount), !.phase = "Active"]
             begun == [paid EXCEPT !.last_counters = None, !.last_meter_at = 0]
  <1>1. s.balance \in Nat
    BY WidthAssumption DEF PeerSession
  <1>2. SatAdd(s.balance, amount) \in 0..U64Max
    BY <1>1, SatTypes
  <1>3. paid \in PeerSession
    BY <1>2, Zenon DEF PeerSession, Phases
  <1>4. /\ paid.balance = SatAdd(s.balance, amount)
        /\ paid.peer_report = s.peer_report
        /\ paid.metering_baseline = s.metering_baseline
        /\ paid.billed_units = s.billed_units
        /\ paid.last_counters = s.last_counters
    BY DEF PeerSession
  <1>5. TokenAccepted(s, amount, 0) = IF s.phase = "Active" THEN paid ELSE begun
    BY Zenon DEF TokenAccepted
  <1>6. /\ begun \in PeerSession
        /\ begun.balance = paid.balance
        /\ begun.peer_report = paid.peer_report
        /\ begun.metering_baseline = paid.metering_baseline
        /\ begun.billed_units = paid.billed_units
        /\ begun.last_counters = None
    <2> HIDE DEF paid
    <2> QED
      BY <1>3, ZenonT(60) DEF PeerSession
  <1> HIDE DEF paid, begun
  <1>7. CASE s.phase = "Active"
    BY <1>3, <1>4, <1>5, <1>7
  <1>8. CASE s.phase # "Active"
    BY <1>4, <1>5, <1>6, <1>8
  <1> QED
    BY <1>7, <1>8

(* A sample leaves the session alone, takes a baseline, or bills.          *)
LEMMA SampledType ==
    ASSUME NEW s \in PeerSession, NEW c \in Nat
    PROVE  /\ Sampled(s, c, 0) \in PeerSession
           /\ \/ Sampled(s, c, 0) = s
              \/ /\ Sampled(s, c, 0).balance = s.balance
                 /\ Sampled(s, c, 0).peer_report = None
                 /\ Sampled(s, c, 0).metering_baseline = c
                 /\ Sampled(s, c, 0).billed_units = 0
              \/ /\ s.last_counters # None
                 /\ Sampled(s, c, 0).peer_report = s.peer_report
                 /\ Sampled(s, c, 0).balance = SatSub(s.balance, Charge(s, c, 0))
                 /\ Sampled(s, c, 0).metering_baseline = s.metering_baseline
                 /\ Sampled(s, c, 0).billed_units = Billable(s, c)
  <1> DEFINE fresh == ResetMetering(s, c, 0)
             billed == BilledSample(s, c, 0)
  <1>1. s.balance \in 0..U64Max /\ s.balance \in Nat
    BY WidthAssumption DEF PeerSession
  <1>2. SatSub(s.balance, Charge(s, c, 0)) \in 0..U64Max
    <2>1. Charge(s, c, 0) \in Nat
      BY SampleTypes
    <2>2. SatSub(s.balance, Charge(s, c, 0)) \in Nat
          /\ SatSub(s.balance, Charge(s, c, 0)) <= s.balance
      BY <1>1, <2>1, SatTypes
    <2> QED
      BY <1>1, <2>2, WidthAssumption
  <1>3. /\ fresh \in PeerSession
        /\ fresh.peer_report = None /\ fresh.balance = s.balance
        /\ fresh.metering_baseline = c /\ fresh.billed_units = 0
    <2>1. 0 \in Nat /\ 0 \in 0..255
      OBVIOUS
    <2>2. ResetMetering(s, c, 0) \in PeerSession
      <3>1. ASSUME NEW now \in Nat, NEW units \in Nat, NEW streak \in 0..255, NEW report,
                   report = None
            PROVE  [s EXCEPT !.last_counters = c, !.last_meter_at = now,
                             !.metering_baseline = c, !.metering_start = now,
                             !.peer_report = report, !.billed_units = units,
                             !.over_tolerance_streak = streak] \in PeerSession
        BY <3>1, ZenonT(60) DEF PeerSession
      <3> QED
        BY <2>1, <3>1, Zenon DEF ResetMetering
    <2>3. /\ fresh.peer_report = None /\ fresh.balance = s.balance
          /\ fresh.metering_baseline = c /\ fresh.billed_units = 0
      BY DEF ResetMetering, PeerSession
    <2> QED
      BY <2>2, <2>3
  <1>4. billed \in PeerSession
    <2>1. Billable(s, c) \in Nat /\ NextStreak(s, c) \in 0..255
      BY SampleTypes
    <2>2. (IF CutOff(s, c, 0) THEN "Suspended" ELSE "Active") \in Phases
      BY Zenon DEF Phases
    <2>3. ASSUME NEW now \in Nat, NEW units \in Nat, NEW credit \in 0..U64Max,
                 NEW streak \in 0..255, NEW ph \in Phases
          PROVE  [s EXCEPT !.billed_units = units, !.last_counters = c, !.last_meter_at = now,
                           !.balance = credit, !.over_tolerance_streak = streak,
                           !.phase = ph] \in PeerSession
      BY <2>3, ZenonT(60) DEF PeerSession
    <2>4. 0 \in Nat
      OBVIOUS
    <2> QED
      BY <1>2, <2>1, <2>2, <2>3, <2>4, Zenon DEF BilledSample
  <1>5. /\ billed.peer_report = s.peer_report
        /\ billed.balance = SatSub(s.balance, Charge(s, c, 0))
        /\ billed.metering_baseline = s.metering_baseline
        /\ billed.billed_units = Billable(s, c)
    BY DEF BilledSample, PeerSession
  <1>6. Sampled(s, c, 0) = IF s.phase # "Active" THEN s
                           ELSE IF s.last_counters = None THEN fresh ELSE billed
    BY Zenon DEF Sampled
  <1> HIDE DEF fresh, billed
  <1>7. CASE s.phase # "Active"
    BY <1>6, <1>7
  <1>8. CASE s.phase = "Active" /\ s.last_counters = None
    BY <1>3, <1>6, <1>8
  <1>9. CASE s.phase = "Active" /\ s.last_counters # None
    BY <1>4, <1>5, <1>6, <1>9
  <1> QED
    BY <1>7, <1>8, <1>9

-----------------------------------------------------------------------------
(* Credit is exact.                                                        *)

LEMMA InitIInv == Init => IInv
  <1> SUFFICES ASSUME Init PROVE IInv
    OBVIOUS
  <1>1. session = NewSession /\ known = FALSE /\ left = FALSE /\ peer_ip = NoIp
        /\ counter = [ip \in IP |-> 0] /\ reading = None /\ target = NoIp /\ misreads = 0
        /\ money = [vouched |-> 0, charged |-> 0, forfeited |-> 0, reaped |-> 0]
    BY DEF Init
  <1>2. TypeInv
    <2>1. HostInv /\ money \in Money
      BY <1>1 DEF Money, HostInv
    <2> QED
      BY <1>1, <2>1, NewSessionType DEF TypeInv
  <1>3. Apart
    BY <1>1, NewSessionType DEF Apart
  <1>4. Credit
    BY <1>1 DEF Credit, TokensAreCredited
  <1> QED
    BY <1>2, <1>3, <1>4 DEF IInv

(* The books of the invariant as numbers.                                  *)
LEMMA Books ==
    ASSUME IInv
    PROVE  /\ known \in BOOLEAN /\ left \in BOOLEAN
           /\ session \in PeerSession
           /\ session.balance \in Nat
           /\ money \in Money
           /\ money.vouched \in Nat /\ money.charged \in Nat
           /\ money.forfeited \in Nat /\ money.reaped \in Nat
           /\ ~known => session.balance = 0
           /\ known => ~left
           /\ money.vouched <= U64Max =>
                money.vouched = session.balance + money.charged + money.forfeited + money.reaped
  <1>1. /\ known \in BOOLEAN /\ left \in BOOLEAN
        /\ session \in PeerSession
        /\ money \in Money
        /\ ~known => session.balance = 0
        /\ known => ~left
    BY DEF IInv, TypeInv, Apart
  <1>2. session.balance \in Nat
    BY <1>1, WidthAssumption DEF PeerSession
  <1>3. /\ money.vouched \in Nat /\ money.charged \in Nat
        /\ money.forfeited \in Nat /\ money.reaped \in Nat
    BY <1>1 DEF Money
  <1>4. (IF known THEN session.balance ELSE 0) = session.balance
    BY <1>1
  <1>5. money.vouched <= U64Max =>
          money.vouched = session.balance + money.charged + money.forfeited + money.reaped
    BY <1>4 DEF IInv, Credit, TokensAreCredited
  <1> QED
    BY <1>1, <1>2, <1>3, <1>5

(* Back from the numbers to the invariant of the next state.               *)
LEMMA BooksKept ==
    ASSUME known' \in BOOLEAN, left' \in BOOLEAN,
           session' \in PeerSession, money' \in Money,
           ~known' => session'.balance = 0,
           known' => ~left',
           money'.vouched <= U64Max =>
             money'.vouched = session'.balance + money'.charged + money'.forfeited + money'.reaped,
           HostInv'
    PROVE  IInv'
  <1>1. (IF known' THEN session'.balance ELSE 0) = session'.balance
    OBVIOUS
  <1>2. Credit'
    BY <1>1 DEF Credit, TokensAreCredited
  <1>3. TypeInv'
    BY DEF TypeInv
  <1>4. Apart'
    BY DEF Apart
  <1> QED
    BY <1>2, <1>3, <1>4 DEF IInv

(* The steps that leave the session and the books alone.                   *)
LEMMA OthersKeep ==
    ASSUME IInv, UNCHANGED <<known, session, left, money>>, HostInv'
    PROVE  IInv'
  BY Books, BooksKept

LEMMA HostTypes ==
    ASSUME IInv
    PROVE  /\ peer_ip \in IP \cup {NoIp} /\ target \in IP \cup {NoIp}
           /\ counter \in [IP -> Nat] /\ reading \in Nat \cup {None} /\ misreads \in Nat
  BY DEF IInv, TypeInv, HostInv

LEMMA HostKept ==
    ASSUME IInv, UNCHANGED <<counter, misreads, target>>, reading' \in {reading, None},
           peer_ip' \in IP \cup {NoIp}
    PROVE  HostInv'
  BY HostTypes DEF HostInv

(* A sample never raises the balance.                                      *)
LEMMA SampledFalls ==
    ASSUME IInv, reading # None
    PROVE  /\ Sampled(session, reading, 0) \in PeerSession
           /\ Sampled(session, reading, 0).balance \in Nat
           /\ Sampled(session, reading, 0).balance <= session.balance
           /\ session.balance - Sampled(session, reading, 0).balance <= Charge(session, reading, 0)
  <1>1. session \in PeerSession /\ session.balance \in Nat /\ reading \in Nat
    BY Books, HostTypes
  <1>2. Charge(session, reading, 0) \in Nat
    BY <1>1, SampleTypes
  <1>3. /\ SatSub(session.balance, Charge(session, reading, 0)) \in Nat
        /\ SatSub(session.balance, Charge(session, reading, 0)) <= session.balance
        /\ SatSub(session.balance, Charge(session, reading, 0))
              >= session.balance - Charge(session, reading, 0)
    BY <1>1, <1>2, SatTypes
  <1> DEFINE s == Sampled(session, reading, 0)
  <1>4. s \in PeerSession
    BY <1>1, SampledType
  <1>5. s.balance \in {session.balance, SatSub(session.balance, Charge(session, reading, 0))}
    BY <1>1, SampledType
  <1> HIDE DEF s
  <1>6. /\ s.balance \in Nat /\ s.balance <= session.balance
        /\ session.balance - s.balance <= Charge(session, reading, 0)
    BY <1>1, <1>2, <1>3, <1>5
  <1> QED
    BY <1>4, <1>6 DEF s

(* A step of a task keeps the invariant.                                   *)
LEMMA TaskStepKeepsIInv ==
    ASSUME IInv, NEW t \in Thread, TaskStep(t)
    PROVE  IInv'
  <1>0. peer_ip \in IP \cup {NoIp}
    BY HostTypes
  <1>1. CASE Connect(t)
    <2>1. /\ known' = TRUE /\ left' = FALSE /\ UNCHANGED <<peer_ip, counter, metering, money>>
          /\ session' = session \/ (~known /\ session' = NewSession)
      BY <1>1 DEF Connect, firewall
    <2>2. HostInv'
      BY <1>0, <2>1, HostKept DEF metering
    <2> QED
      BY <2>1, <2>2, Books, NewSessionType, BooksKept
  <1>2. CASE Token(t) \/ RejectMsg(t) \/ ReportMsg(t) \/ Refused(t)
    <2>1. /\ UNCHANGED <<known, left, peer_ip, counter, metering, money>>
          /\ \/ session' \in {session, TokenReceived(session), RejectReceived(session),
                              TokenRefused(session)}
             \/ \E received \in Nat : session' = ReportReceived(session, received)
      BY <1>2, DriverAssumption DEF Token, RejectMsg, ReportMsg, Refused, firewall
    <2>2. session' \in PeerSession /\ session'.balance = session.balance
      <3>1. CASE \E received \in Nat : session' = ReportReceived(session, received)
        <4>1. PICK received \in Nat : session' = ReportReceived(session, received)
          BY <3>1
        <4>2. session \in PeerSession
          BY Books
        <4>3. /\ ReportReceived(session, received) \in PeerSession
              /\ ReportReceived(session, received).balance = session.balance
          BY <4>2, ReportType
        <4> QED
          BY <4>1, <4>3
      <3>2. CASE session' \in {session, TokenReceived(session), RejectReceived(session),
                               TokenRefused(session)}
        BY <3>2, Books, MessageTypes DEF SameAccount
      <3> QED
        BY <2>1, <3>1, <3>2
    <2>3. HostInv'
      BY <1>0, <2>1, HostKept DEF metering
    <2> QED
      BY <2>1, <2>2, <2>3, Books, BooksKept
  <1>3. CASE DisconnectMsg(t)
    <2>1. /\ known' = FALSE /\ left' = (left \/ known) /\ session' = NewSession
          /\ UNCHANGED <<peer_ip, counter, metering>>
          /\ money' = [money EXCEPT !.forfeited = @ + session.balance]
      BY <1>3 DEF DisconnectMsg, firewall
    <2>2. /\ money' \in Money
          /\ money'.vouched = money.vouched /\ money'.charged = money.charged
          /\ money'.reaped = money.reaped
          /\ money'.forfeited = money.forfeited + session.balance
      BY <2>1, Books DEF Money
    <2>3. session' \in PeerSession /\ session'.balance = 0 /\ HostInv'
      BY <1>0, <2>1, NewSessionType, HostKept DEF metering
    <2>4. money'.vouched <= U64Max =>
            money'.vouched = session'.balance + money'.charged + money'.forfeited + money'.reaped
      BY <2>2, <2>3, Books
    <2> QED
      BY <2>1, <2>2, <2>3, <2>4, Books, BooksKept
  <1>4. CASE Verified(t)
    <2>1. /\ UNCHANGED <<known, left, peer_ip, counter, metering>>
          /\ money' = [money EXCEPT !.vouched = @ + Amount,
                                    !.forfeited = IF left THEN @ + Amount ELSE @,
                                    !.reaped = IF known \/ left THEN @ ELSE @ + Amount]
          /\ session' = IF known THEN TokenAccepted(session, Amount, 0) ELSE session
      BY <1>4 DEF Verified, firewall
    <2>0. HostInv'
      BY <1>0, <2>1, HostKept DEF metering
    <2>2. Amount \in Nat
      BY DriverAssumption
    <2>3. /\ money'.vouched = money.vouched + Amount
          /\ money'.charged = money.charged
          /\ money'.forfeited = IF left THEN money.forfeited + Amount ELSE money.forfeited
          /\ money'.reaped = IF known \/ left THEN money.reaped ELSE money.reaped + Amount
      BY <2>1, Books DEF Money
    <2>4. money' \in Money
      <3>1. /\ money.vouched + Amount \in Nat
            /\ (IF left THEN money.forfeited + Amount ELSE money.forfeited) \in Nat
            /\ (IF known \/ left THEN money.reaped ELSE money.reaped + Amount) \in Nat
        BY <2>2, Books
      <3> QED
        BY <2>1, <3>1, Books DEF Money
    <2>5. CASE known
      <3>1. /\ session' \in PeerSession
            /\ session'.balance = SatAdd(session.balance, Amount)
        BY <2>1, <2>2, <2>5, Books, TokenAcceptedType
      <3>2. money'.vouched <= U64Max => /\ money.vouched <= U64Max
                                        /\ session.balance + Amount <= U64Max
        BY <2>2, <2>3, Books, WidthAssumption
      <3>3. money'.vouched <= U64Max => session'.balance = session.balance + Amount
        BY <2>2, <3>1, <3>2, Books, SatTypes
      <3>4. money'.vouched <= U64Max =>
              money'.vouched = session'.balance + money'.charged + money'.forfeited + money'.reaped
        BY <2>2, <2>3, <2>5, <3>2, <3>3, Books
      <3> QED
        BY <2>0, <2>1, <2>4, <2>5, <3>1, <3>4, Books, BooksKept
    <2>6. CASE ~known
      <3>1. money'.vouched <= U64Max => money.vouched <= U64Max
        BY <2>2, <2>3, Books, WidthAssumption
      <3>2. money'.vouched <= U64Max =>
              money'.vouched = session.balance + money'.charged + money'.forfeited + money'.reaped
        BY <2>2, <2>3, <2>6, <3>1, Books
      <3> QED
        BY <2>0, <2>1, <2>4, <2>6, <3>2, Books, BooksKept
    <2> QED
      BY <2>5, <2>6
  <1>5. CASE MeterSample(t)
    <2>1. /\ UNCHANGED <<known, left, peer_ip, counter, target, misreads>>
          /\ reading # None /\ reading' = None
          /\ \/ UNCHANGED <<session, money>>
             \/ /\ known
                /\ session' = Sampled(session, reading, 0)
                /\ money' = [money EXCEPT !.charged =
                               @ + (session.balance - Sampled(session, reading, 0).balance)]
      BY <1>5 DEF MeterSample, firewall
    <2>0. HostInv'
      BY <1>0, <2>1, HostKept
    <2>2. CASE UNCHANGED <<session, money>>
      BY <2>0, <2>1, <2>2, OthersKeep
    <2>3. CASE /\ known
               /\ session' = Sampled(session, reading, 0)
               /\ money' = [money EXCEPT !.charged =
                              @ + (session.balance - Sampled(session, reading, 0).balance)]
      <3>1. /\ session' \in PeerSession
            /\ session'.balance \in Nat /\ session'.balance <= session.balance
        BY <2>1, <2>3, SampledFalls
      <3>2. money.charged + (session.balance - session'.balance) \in Nat
        BY <3>1, Books
      <3>3. /\ money' \in Money
            /\ money'.vouched = money.vouched /\ money'.reaped = money.reaped
            /\ money'.forfeited = money.forfeited
            /\ money'.charged = money.charged + (session.balance - session'.balance)
        BY <2>3, <3>2, Books DEF Money
      <3>4. money'.vouched <= U64Max =>
              money'.vouched = session'.balance + money'.charged + money'.forfeited + money'.reaped
        BY <3>1, <3>3, Books
      <3> QED
        BY <2>0, <2>1, <2>3, <3>1, <3>3, <3>4, Books, BooksKept
    <2> QED
      BY <2>1, <2>2, <2>3
  <1>6. CASE PeerDisconnected(t)
    <2>1. /\ known' = FALSE /\ UNCHANGED left /\ session' = NewSession
          /\ UNCHANGED <<peer_ip, counter, metering>>
          /\ money' = [money EXCEPT !.reaped = @ + session.balance]
      BY <1>6 DEF PeerDisconnected, firewall
    <2>2. /\ money' \in Money
          /\ money'.vouched = money.vouched /\ money'.charged = money.charged
          /\ money'.forfeited = money.forfeited
          /\ money'.reaped = money.reaped + session.balance
      BY <2>1, Books DEF Money
    <2>3. session' \in PeerSession /\ session'.balance = 0 /\ HostInv'
      BY <1>0, <2>1, NewSessionType, HostKept DEF metering
    <2>4. money'.vouched <= U64Max =>
            money'.vouched = session'.balance + money'.charged + money'.forfeited + money'.reaped
      BY <2>2, <2>3, Books
    <2> QED
      BY <2>1, <2>2, <2>3, <2>4, Books, BooksKept
  <1>7. CASE Touch(t) \/ SetAccess(t) \/ SetMetering(t) \/ LookAtPhase(t) \/ Forget(t)
    <2>1. /\ UNCHANGED <<known, session, left, money, counter, metering>>
          /\ peer_ip' \in {peer_ip, NoIp}
      BY <1>7 DEF Touch, SetAccess, SetMetering, LookAtPhase, Forget, firewall
    <2>2. HostInv'
      BY <1>0, <2>1, HostKept DEF metering
    <2> QED
      BY <2>1, <2>2, OthersKeep
  <1> QED
    BY <1>1, <1>2, <1>3, <1>4, <1>5, <1>6, <1>7 DEF TaskStep

LEMMA NextKeepsIInv == IInv /\ [Next]_vars => IInv'
  <1> SUFFICES ASSUME IInv, [Next]_vars PROVE IInv'
    OBVIOUS
  <1>1. ASSUME NEW t \in Http, NEW ip \in IP, NEW message \in Messages, Request(t, ip, message)
        PROVE  IInv'
    <2>1. UNCHANGED <<known, session, left, money, counter, metering>> /\ peer_ip' = ip
      BY <1>1 DEF Request, firewall
    <2>2. HostInv'
      BY <2>1, HostKept DEF metering
    <2> QED
      BY <2>1, <2>2, OthersKeep
  <1>2. ASSUME NEW t \in Thread, TaskStep(t)
        PROVE  IInv'
    BY <1>2, TaskStepKeepsIInv
  <1>3. CASE PickTarget \/ ReadCounters
    <2>1. /\ UNCHANGED <<known, session, left, money, counter, peer_ip>>
          /\ \/ target' = peer_ip /\ UNCHANGED <<reading, misreads>>
             \/ /\ target # NoIp /\ target' = NoIp
                /\ \/ reading' = counter[target] /\ UNCHANGED misreads
                   \/ reading' = 0 /\ misreads' = misreads + 1
      BY <1>3 DEF PickTarget, ReadCounters, firewall
    <2>2. HostInv'
      BY <2>1, HostTypes DEF HostInv
    <2> QED
      BY <2>1, <2>2, OthersKeep
  <1>4. CASE Sweep \/ GoesIdle \/ UNCHANGED vars
    <2>1. UNCHANGED <<known, session, left, money, counter, peer_ip, metering>>
      BY <1>4 DEF Sweep, GoesIdle, vars, firewall, metering
    <2>2. HostInv'
      BY <2>1, HostTypes, HostKept DEF metering
    <2> QED
      BY <2>1, <2>2, OthersKeep
  <1>5. ASSUME NEW ip \in IP, Deliver(ip)
        PROVE  IInv'
    <2>1. /\ UNCHANGED <<known, session, left, money, peer_ip, metering>>
          /\ counter' = [counter EXCEPT ![ip] = @ + 1]
      BY <1>5 DEF Deliver
    <2>2. HostInv'
      BY <2>1, HostTypes DEF HostInv, metering
    <2> QED
      BY <2>1, <2>2, OthersKeep
  <1> QED
    BY <1>1, <1>2, <1>3, <1>4, <1>5 DEF Next

(* The invariant holds in every behaviour.                                 *)
THEOREM DriverInvariant == Spec => []IInv
  BY InitIInv, NextKeepsIInv, PTL DEF Spec

(* For every number of concurrent requests and every interleaving of their *)
(* actions with the metering loop and the reaper: as long as the mint has  *)
(* not vouched for more than a u64 holds (saturating_add loses the rest),  *)
(* every scaled unit is in the balance, charged, given up or reaped.       *)
THEOREM CreditIsExact == Spec => [](money.vouched <= U64Max => TokensAreCredited)
  <1>1. IInv => (money.vouched <= U64Max => TokensAreCredited)
    BY DEF IInv, Credit
  <1> QED
    BY <1>1, DriverInvariant, PTL

-----------------------------------------------------------------------------
(* Traffic is charged once, and once more for every failed reading.        *)

LEMMA RateType == Rate \in Nat
  BY PriceAssumption DEF Rate

LEMMA Products ==
    ASSUME NEW p \in Nat, NEW a \in Nat, NEW b \in Nat, a <= b
    PROVE  /\ p * a \in Nat /\ p * b \in Nat /\ p * a <= p * b
           /\ p * (b - a) \in Nat /\ p * b = p * a + p * (b - a)
  OBVIOUS

(* More units, counted or to be paid, are worth more; and one more failed  *)
(* reading is worth all that was counted.                                  *)
LEMMA WorthGrows ==
    ASSUME NEW m \in Nat, NEW c \in Nat, NEW n \in Nat, NEW o \in Nat, n <= o
    PROVE  /\ Worth(m, c, n) \in Nat /\ Worth(m, c, o) \in Nat
           /\ Worth(m, c, n) <= Worth(m, c, o)
           /\ Rate * (o - n) \in Nat
           /\ Worth(m, c, o) = Worth(m, c, n) + Rate * (o - n)
  <1> DEFINE a == m * c + n
             b == m * c + o
  <1>1. m * c \in Nat
    OBVIOUS
  <1>2. a \in Nat /\ b \in Nat /\ a <= b /\ b - a = o - n
    BY <1>1
  <1>3. Worth(m, c, n) = Rate * a /\ Worth(m, c, o) = Rate * b
    BY DEF Worth
  <1> HIDE DEF a, b
  <1>4. /\ Rate * a \in Nat /\ Rate * b \in Nat /\ Rate * a <= Rate * b
        /\ Rate * (b - a) \in Nat /\ Rate * b = Rate * a + Rate * (b - a)
    <2> HIDE DEF Rate
    <2> QED
      BY <1>2, RateType, Products
  <1> QED
    BY <1>2, <1>3, <1>4

LEMMA WorthAdds ==
    ASSUME NEW m \in Nat, NEW c \in Nat, NEW n \in Nat, NEW o \in Nat, NEW k \in Nat, o = n + k
    PROVE  /\ Worth(m, c, n) \in Nat /\ Price(k) \in Nat
           /\ Worth(m, c, o) = Worth(m, c, n) + Price(k)
  <1>1. n <= o /\ o - n = k
    OBVIOUS
  <1> QED
    BY <1>1, WorthGrows DEF Price

LEMMA WorthType ==
    ASSUME NEW m \in Nat, NEW c \in Nat, NEW n \in Nat
    PROVE  Worth(m, c, n) \in Nat
  <1>1. n <= n
    OBVIOUS
  <1> QED
    BY <1>1, WorthGrows

LEMMA WorthOfMore ==
    ASSUME NEW m \in Nat, NEW c \in Nat, NEW n \in Nat
    PROVE  Worth(m, c, n) <= Worth(m, c + 1, n) /\ Worth(m, c + 1, n) \in Nat
  <1> DEFINE a == m * c + n
             b == m * (c + 1) + n
  <1>1. m * c \in Nat /\ m * (c + 1) \in Nat /\ m * (c + 1) = m * c + m
    OBVIOUS
  <1>2. a \in Nat /\ b \in Nat /\ a <= b
    BY <1>1
  <1>3. Worth(m, c, n) = Rate * a /\ Worth(m, c + 1, n) = Rate * b
    BY DEF Worth
  <1> HIDE DEF a, b
  <1>4. Rate * a <= Rate * b /\ Rate * b \in Nat
    <2> HIDE DEF Rate
    <2> QED
      BY <1>2, RateType, Products
  <1> QED
    BY <1>3, <1>4

LEMMA WorthOfMisread ==
    ASSUME NEW m \in Nat, NEW c \in Nat
    PROVE  Worth(m + 1, c, 0) = Worth(m, c, c)
  <1>1. (m + 1) * c + 0 = m * c + c
    OBVIOUS
  <1> QED
    BY <1>1 DEF Worth

(* What Metered speaks of, as numbers.                                     *)
LEMMA Figures ==
    ASSUME IInv, NEW ip \in IP
    PROVE  /\ misreads \in Nat /\ counter[ip] \in Nat /\ reading \in Nat \cup {None}
           /\ money.charged \in Nat
           /\ session.metering_baseline \in Nat /\ session.billed_units \in Nat
           /\ session.metering_baseline + session.billed_units \in Nat
           /\ session.peer_report \in Nat \cup {None}
  <1>1. session.metering_baseline \in Nat /\ session.billed_units \in Nat
        /\ session.peer_report \in Nat \cup {None}
    BY Books DEF PeerSession
  <1> QED
    BY <1>1, Books, HostTypes

(* Steps that charge nothing and set no baseline.                          *)
LEMMA NothingCharged ==
    ASSUME IInv, NEW ip \in IP, Metered(ip),
           money'.charged = money.charged, misreads' = misreads, reading' \in {reading, None},
           counter'[ip] \in {counter[ip], counter[ip] + 1},
           \/ session'.last_counters = None
           \/ /\ session'.last_counters = session.last_counters
              /\ session'.metering_baseline = session.metering_baseline
              /\ session'.billed_units = session.billed_units
              /\ \/ session'.peer_report \in {session.peer_report, None}
                 \/ /\ session'.peer_report \in Nat
                    /\ session.metering_baseline + session'.peer_report <= counter[ip]
    PROVE  Metered(ip)'
  <1> DEFINE m == misreads
             c == counter[ip]
             mark == session.metering_baseline + session.billed_units
  <1>1. m \in Nat /\ c \in Nat /\ money.charged \in Nat /\ mark \in Nat
        /\ reading \in Nat \cup {None}
        /\ session.metering_baseline \in Nat /\ session.peer_report \in Nat \cup {None}
    BY Figures
  <1>2. ASSUME NEW n \in Nat, money.charged <= Worth(m, c, n)
        PROVE  money.charged <= Worth(m, c + 1, n)
    <2> HIDE DEF m, c
    <2>1. Worth(m, c, n) <= Worth(m, c + 1, n) /\ Worth(m, c + 1, n) \in Nat
      BY <1>1, WorthOfMore
    <2>2. Worth(m, c, n) \in Nat
      BY <1>1, WorthType
    <2> QED
      BY <1>1, <1>2, <2>1, <2>2
  <1>3. ASSUME NEW n \in Nat, money.charged <= Worth(m, c, n)
        PROVE  money.charged <= Worth(m, counter'[ip], n)
    BY <1>2, <1>3
  <1>4. money.charged <= Worth(m, counter'[ip], counter'[ip])
    <2>1. money.charged <= Worth(m, c, c)
      BY DEF Metered
    <2>2. CASE counter'[ip] = c
      BY <2>1, <2>2
    <2>3. CASE counter'[ip] = c + 1
      <3>1. money.charged <= Worth(m, c + 1, c)
        BY <1>1, <1>2, <2>1
      <3>2. c <= c + 1 /\ c + 1 \in Nat
        BY <1>1
      <3>3. Worth(m, c + 1, c) <= Worth(m, c + 1, c + 1) /\ Worth(m, c + 1, c) \in Nat
            /\ Worth(m, c + 1, c + 1) \in Nat
        <4> DEFINE d == c + 1
        <4>1. d \in Nat /\ c <= d
          BY <3>2
        <4> HIDE DEF d, c, m
        <4>2. Worth(m, d, c) <= Worth(m, d, d) /\ Worth(m, d, c) \in Nat /\ Worth(m, d, d) \in Nat
          BY <1>1, <4>1, WorthGrows
        <4> QED
          BY <4>2 DEF d
      <3> HIDE DEF c, m
      <3> QED
        BY <1>1, <2>3, <3>1, <3>3
    <2> QED
      BY <2>2, <2>3
  <1>5. c <= counter'[ip] /\ counter'[ip] \in Nat
    BY <1>1
  <1>6. reading' # None => /\ reading' <= counter'[ip]
                           /\ money.charged <= Worth(m, counter'[ip], reading')
    <2> SUFFICES ASSUME reading' # None
                 PROVE  reading' <= counter'[ip] /\ money.charged <= Worth(m, counter'[ip], reading')
      OBVIOUS
    <2>1. reading' = reading /\ reading \in Nat /\ reading <= c /\ money.charged <= Worth(m, c, reading)
      BY <1>1 DEF Metered
    <2>2. money.charged <= Worth(m, counter'[ip], reading)
      BY <1>3, <2>1
    <2> HIDE DEF m, c
    <2> QED
      BY <1>1, <1>5, <2>1, <2>2
  <1>7. ASSUME session'.last_counters # None
        PROVE  /\ session'.metering_baseline + session'.billed_units <= counter'[ip]
               /\ money.charged <= Worth(m, counter'[ip],
                                         session'.metering_baseline + session'.billed_units)
               /\ session'.peer_report # None =>
                    session'.metering_baseline + session'.peer_report <= counter'[ip]
    <2>1. /\ session.last_counters # None
          /\ session'.metering_baseline = session.metering_baseline
          /\ session'.metering_baseline + session'.billed_units = mark
          /\ \/ session'.peer_report \in {session.peer_report, None}
             \/ /\ session'.peer_report \in Nat
                /\ session.metering_baseline + session'.peer_report <= c
      BY <1>7
    <2>2. /\ mark <= c /\ money.charged <= Worth(m, c, mark)
          /\ session.peer_report # None => session.metering_baseline + session.peer_report <= c
      BY <2>1 DEF Metered
    <2>3. money.charged <= Worth(m, counter'[ip], mark)
      BY <1>1, <1>3, <2>2
    <2>4. mark <= counter'[ip]
      <3> HIDE DEF mark, c
      <3> QED
        BY <1>1, <1>5, <2>2
    <2>5. session'.peer_report # None => session.metering_baseline + session'.peer_report <= counter'[ip]
      <3>1. session'.peer_report # None => session.metering_baseline + session'.peer_report <= c
        BY <2>1, <2>2
      <3>2. session'.peer_report \in Nat \cup {None}
        BY <1>1, <2>1
      <3> HIDE DEF c
      <3> QED
        BY <1>1, <1>5, <3>1, <3>2
    <2> QED
      BY <2>1, <2>3, <2>4, <2>5
  <1> QED
    BY <1>4, <1>6, <1>7 DEF Metered

(* A sample goes on charging from where its session stands; if that falls  *)
(* back, it falls back to what was read.                                   *)
LEMMA SampleChargesOnce ==
    ASSUME IInv, NEW ip \in IP, Metered(ip), reading # None, reading' = None,
           UNCHANGED <<counter, misreads>>,
           session' = Sampled(session, reading, 0),
           money'.charged = money.charged + (session.balance - session'.balance)
    PROVE  Metered(ip)'
  <1> DEFINE m == misreads
             c == counter[ip]
             base == session.metering_baseline
             mark == base + session.billed_units
             bill == Billable(session, reading)
  <1>1. /\ m \in Nat /\ c \in Nat /\ reading \in Nat /\ money.charged \in Nat
        /\ session \in PeerSession /\ session.balance \in Nat
        /\ base \in Nat /\ session.billed_units \in Nat /\ mark \in Nat
    BY Books, Figures
  <1>2. reading <= c /\ money.charged <= Worth(m, c, c) /\ money.charged <= Worth(m, c, reading)
    BY DEF Metered
  <1>3. CASE session' = session
    <2>1. money'.charged = money.charged
      BY <1>1, <1>3
    <2> QED
      BY <1>3, <2>1, NothingCharged
  <1>4. CASE /\ session'.balance = session.balance
             /\ session'.peer_report = None
             /\ session'.metering_baseline = reading
             /\ session'.billed_units = 0
    <2>1. money'.charged = money.charged /\ reading + 0 = reading
      BY <1>1, <1>4
    <2>2. session'.metering_baseline + session'.billed_units = reading
      BY <1>4, <2>1
    <2> QED
      BY <1>2, <1>4, <2>1, <2>2 DEF Metered
  <1>5. CASE /\ session.last_counters # None
             /\ session'.peer_report = session.peer_report
             /\ session'.balance = SatSub(session.balance, Charge(session, reading, 0))
             /\ session'.metering_baseline = base
             /\ session'.billed_units = bill
    <2>1. /\ mark <= c /\ money.charged <= Worth(m, c, mark)
          /\ session.peer_report # None => base + session.peer_report <= c
      BY <1>5 DEF Metered
    <2>2. /\ bill \in Nat /\ bill >= SatSub(reading, base)
          /\ bill = SatSub(reading, base) \/ (session.peer_report # None /\ bill = session.peer_report)
          /\ NewUnits(session, reading) = SatSub(bill, session.billed_units)
          /\ NewUnits(session, reading) \in Nat
          /\ Charge(session, reading, 0) \in Nat
          /\ Charge(session, reading, 0) <= Rate * NewUnits(session, reading)
      BY <1>1, SampleTypes
    <2>3. base + SatSub(reading, base) <= c /\ reading <= base + SatSub(reading, base)
      <3>1. base <= c
        BY <1>1, <2>1
      <3> QED
        BY <1>1, <1>2, <3>1 DEF SatSub
    <2>4. base + bill \in Nat /\ base + bill <= c /\ reading <= base + bill
      <3>1. SatSub(reading, base) \in Nat
        BY <1>1, SatTypes
      <3> HIDE DEF bill, base, c
      <3> QED
        BY <1>1, <2>1, <2>2, <2>3, <3>1
    <2>5. session'.metering_baseline + session'.billed_units = base + bill
      BY <1>5
    <2>6. /\ session'.balance \in Nat /\ session'.balance <= session.balance
          /\ session.balance - session'.balance <= Charge(session, reading, 0)
      BY SampledFalls
    <2>7. money'.charged <= Worth(m, c, base + bill) /\ money'.charged \in Nat
      <3>1. CASE mark <= base + bill
        <4> DEFINE more == (base + bill) - mark
        <4>1. /\ Worth(m, c, base + bill) = Worth(m, c, mark) + Rate * more
              /\ Worth(m, c, mark) \in Nat /\ Rate * more \in Nat
          <5> DEFINE top == base + bill
          <5>1. top \in Nat /\ more \in Nat /\ top = mark + more
            <6> HIDE DEF mark, bill, base
            <6> QED
              BY <1>1, <2>4, <3>1
          <5> HIDE DEF top, more, mark, m, c, bill, base
          <5>3. m \in Nat /\ c \in Nat /\ mark \in Nat
            BY <1>1
          <5>4. Price(more) \in Nat
            BY ONLY <5>3, <5>1, WorthAdds
          <5>5. Worth(m, c, mark) \in Nat
            BY ONLY <5>3, <5>1, WorthAdds
          <5>6. Worth(m, c, top) = Worth(m, c, mark) + Price(more)
            BY ONLY <5>3, <5>1, WorthAdds
          <5>2. /\ Worth(m, c, mark) \in Nat /\ Price(more) \in Nat
                /\ Worth(m, c, top) = Worth(m, c, mark) + Price(more)
            BY <5>4, <5>5, <5>6
          <5> QED
            BY <5>2 DEF top, Price
        <4>2. NewUnits(session, reading) = more
          <5>1. bill >= session.billed_units /\ more = bill - session.billed_units
            <6> HIDE DEF bill, base
            <6> QED
              BY <1>1, <2>2, <3>1
          <5> HIDE DEF more
          <5> QED
            BY <1>1, <2>2, <5>1, SatTypes
        <4> HIDE DEF more, mark, m, c, base, bill
        <4>3. session.balance - session'.balance <= Rate * more
          BY <1>1, <2>2, <2>6, <4>1, <4>2
        <4> QED
          BY <1>1, <2>1, <2>6, <4>1, <4>3
      <3>2. CASE ~(mark <= base + bill)
        <4>1. NewUnits(session, reading) = 0
          <5>1. ~(bill > session.billed_units)
            <6> HIDE DEF bill, base
            <6> QED
              BY <1>1, <2>2, <3>2
          <5> QED
            BY <2>2, <5>1 DEF SatSub
        <4>2. Rate * 0 = 0
          <5> HIDE DEF Rate
          <5> QED
            BY RateType
        <4>3. session'.balance = session.balance
          <5> HIDE DEF Rate
          <5>1. Charge(session, reading, 0) <= 0
            BY <2>2, <4>1, <4>2
          <5> QED
            BY <1>1, <2>2, <2>6, <5>1
        <4>4. money'.charged = money.charged
          BY <1>1, <4>3
        <4>5. Worth(m, c, reading) <= Worth(m, c, base + bill) /\ Worth(m, c, reading) \in Nat
              /\ Worth(m, c, base + bill) \in Nat
          <5> DEFINE top == base + bill
          <5>1. top \in Nat /\ reading <= top
            BY <2>4
          <5> HIDE DEF top, m, c
          <5>2. Worth(m, c, reading) <= Worth(m, c, top) /\ Worth(m, c, reading) \in Nat
                /\ Worth(m, c, top) \in Nat
            BY ZenonT(60), <1>1, <5>1, WorthGrows
          <5> QED
            BY <5>2 DEF top
        <4> HIDE DEF m, c, base, bill
        <4> QED
          BY <1>1, <1>2, <4>4, <4>5
      <3> QED
        BY <3>1, <3>2
    <2>8. money'.charged <= Worth(m, c, c)
      <3> DEFINE top == base + bill
      <3>1. top \in Nat /\ top <= c /\ money'.charged <= Worth(m, c, top)
        BY <2>4, <2>7
      <3> HIDE DEF top, m, c
      <3>2. Worth(m, c, top) <= Worth(m, c, c) /\ Worth(m, c, top) \in Nat /\ Worth(m, c, c) \in Nat
        BY <1>1, <3>1, WorthGrows
      <3> QED
        BY <2>7, <3>1, <3>2
    <2> QED
      BY <1>5, <2>1, <2>4, <2>5, <2>7, <2>8 DEF Metered
  <1> QED
    BY <1>1, <1>3, <1>4, <1>5, SampledType

LEMMA ReadingIsCovered ==
    ASSUME IInv, NEW ip \in IP, IP = {ip}, Metered(ip), ReadCounters
    PROVE  Metered(ip)'
  <1> DEFINE m == misreads
             c == counter[ip]
             mark == session.metering_baseline + session.billed_units
  <1>1. /\ UNCHANGED <<session, money, counter>> /\ target # NoIp
        /\ \/ reading' = counter[target] /\ UNCHANGED misreads
           \/ reading' = 0 /\ misreads' = misreads + 1
    BY DEF ReadCounters, firewall
  <1>2. target = ip
    BY <1>1, HostTypes
  <1>3. /\ m \in Nat /\ c \in Nat /\ money.charged \in Nat /\ mark \in Nat
        /\ money.charged <= Worth(m, c, c)
    BY Figures DEF Metered
  <1>4. CASE reading' = counter[target] /\ UNCHANGED misreads
    BY <1>1, <1>2, <1>3, <1>4 DEF Metered
  <1>5. CASE reading' = 0 /\ misreads' = misreads + 1
    <2>1. Worth(m + 1, c, 0) = Worth(m, c, c)
      BY <1>3, WorthOfMisread
    <2>2. ASSUME NEW n \in Nat PROVE money.charged <= Worth(m + 1, c, n)
      <3>1. m + 1 \in Nat /\ 0 <= n /\ 0 \in Nat
        BY <1>3
      <3>2. Worth(m + 1, c, 0) <= Worth(m + 1, c, n) /\ Worth(m + 1, c, 0) \in Nat
            /\ Worth(m + 1, c, n) \in Nat
        <4> DEFINE k == m + 1
        <4>1. k \in Nat
          BY <3>1
        <4> HIDE DEF k, c
        <4>2. Worth(k, c, 0) <= Worth(k, c, n) /\ Worth(k, c, 0) \in Nat /\ Worth(k, c, n) \in Nat
          BY <1>3, <3>1, <4>1, WorthGrows
        <4> QED
          BY <4>2 DEF k
      <3> HIDE DEF m, c
      <3> QED
        BY <1>3, <2>1, <3>2
    <2>3. 0 <= c
      BY <1>3
    <2>4. /\ money.charged <= Worth(m + 1, c, c) /\ money.charged <= Worth(m + 1, c, 0)
          /\ money.charged <= Worth(m + 1, c, mark)
      BY <1>3, <2>2
    <2> QED
      BY <1>1, <1>5, <2>3, <2>4 DEF Metered
  <1> QED
    BY <1>1, <1>4, <1>5

LEMMA NextKeepsMetered == IInv /\ MeteredInv /\ [Next]_vars => MeteredInv'
  <1> SUFFICES ASSUME IInv, MeteredInv, [Next]_vars, NEW ip \in IP, IP = {ip}, ~overclaimed'
               PROVE  Metered(ip)'
    BY DEF MeteredInv
  <1>0. ~overclaimed
    BY DEF Next, Request, TaskStep, Touch, Connect, Token, RejectMsg, ReportMsg, DisconnectMsg,
           Verified, Refused, SetAccess, SetMetering, MeterSample, LookAtPhase, PeerDisconnected,
           Forget, PickTarget, ReadCounters, Sweep, GoesIdle, Deliver, vars, marks
  <1>1. Metered(ip)
    BY <1>0 DEF MeteredInv
  <1>2. CASE UNCHANGED <<session, money, counter, reading, misreads>>
    BY <1>1, <1>2, NothingCharged
  <1>3. ASSUME NEW t \in Thread, TaskStep(t)
        PROVE  Metered(ip)'
    <2>1. CASE Connect(t) \/ DisconnectMsg(t) \/ PeerDisconnected(t)
      <3>1. /\ UNCHANGED <<counter, reading, misreads>>
            /\ session' \in {session, NewSession}
        BY <2>1 DEF Connect, DisconnectMsg, PeerDisconnected, firewall, metering
      <3>2. money'.charged = money.charged
        BY <2>1, Books DEF Connect, DisconnectMsg, PeerDisconnected, Money
      <3> QED
        BY <1>1, <3>1, <3>2, NewSessionType, NothingCharged
    <2>2. CASE Token(t) \/ RejectMsg(t) \/ Refused(t)
      <3>1. /\ UNCHANGED <<counter, reading, misreads, money>>
            /\ session' \in {session, TokenReceived(session), RejectReceived(session),
                             TokenRefused(session)}
        BY <2>2 DEF Token, RejectMsg, Refused, firewall, metering
      <3>2. SameAccount(session, session')
        BY <3>1, Books, MessageTypes DEF SameAccount
      <3> QED
        BY <1>1, <3>1, <3>2, NothingCharged DEF SameAccount
    <2>3. CASE Verified(t)
      <3>1. /\ UNCHANGED <<counter, reading, misreads>>
            /\ session' \in {session, TokenAccepted(session, Amount, 0)}
        BY <2>3 DEF Verified, firewall, metering
      <3>2. money'.charged = money.charged
        BY <2>3, Books DEF Verified, Money
      <3>3. /\ session'.last_counters \in {session.last_counters, None}
            /\ session'.metering_baseline = session.metering_baseline
            /\ session'.billed_units = session.billed_units
            /\ session'.peer_report = session.peer_report
        <4>1. session \in PeerSession /\ Amount \in Nat
          BY Books, DriverAssumption
        <4>2. CASE session' = session
          BY <4>2
        <4>3. CASE session' = TokenAccepted(session, Amount, 0)
          BY <4>1, <4>3, TokenAcceptedType
        <4> QED
          BY <3>1, <4>2, <4>3
      <3> QED
        BY <1>1, <3>1, <3>2, <3>3, NothingCharged
    <2>4. CASE MeterSample(t)
      <3>1. /\ UNCHANGED <<counter, misreads>> /\ reading # None /\ reading' = None
            /\ \/ UNCHANGED <<session, money>>
               \/ /\ session' = Sampled(session, reading, 0)
                  /\ money' = [money EXCEPT !.charged =
                                 @ + (session.balance - Sampled(session, reading, 0).balance)]
        BY <2>4 DEF MeterSample, firewall
      <3>2. CASE UNCHANGED <<session, money>>
        BY <1>1, <3>1, <3>2, NothingCharged
      <3>3. CASE /\ session' = Sampled(session, reading, 0)
                 /\ money' = [money EXCEPT !.charged =
                                @ + (session.balance - Sampled(session, reading, 0).balance)]
        <4>1. money'.charged = money.charged + (session.balance - session'.balance)
          BY <3>3, Books DEF Money
        <4> QED
          BY <1>1, <3>1, <3>3, <4>1, SampleChargesOnce
      <3> QED
        BY <3>1, <3>2, <3>3
    <2>5. CASE ReportMsg(t)
      <3>1. UNCHANGED <<known, counter, reading, misreads, money>>
        BY <2>5 DEF ReportMsg, firewall, metering
      <3>2. PICK received \in 0 .. MaxUnits + 1 :
              /\ session' = IF known THEN ReportReceived(session, received) ELSE session
              /\ overclaimed' = (overclaimed \/
                   (known /\ session.last_counters # None
                    /\ \E i \in IP : session.metering_baseline + received > counter[i]))
        BY <2>5, Zenon DEF ReportMsg
      <3>5. received \in Nat
        BY <3>2, DriverAssumption
      <3>6. known /\ session.last_counters # None =>
              ~(session.metering_baseline + received > counter[ip])
        BY <3>2
      <3>3. CASE ~known
        BY <1>2, <3>1, <3>2, <3>3
      <3>4. CASE known
        <4>1. /\ session'.peer_report = received
              /\ session'.last_counters = session.last_counters
              /\ session'.metering_baseline = session.metering_baseline
              /\ session'.billed_units = session.billed_units
          BY <3>2, <3>4, <3>5, Books, ReportType
        <4>2. session.last_counters # None => session.metering_baseline + received <= counter[ip]
          BY <3>4, <3>5, <3>6, Figures
        <4>3. \/ session'.last_counters = None
              \/ /\ session'.peer_report \in Nat
                 /\ session.metering_baseline + session'.peer_report <= counter[ip]
          BY <3>5, <4>1, <4>2
        <4> QED
          BY <1>1, <3>1, <4>1, <4>3, NothingCharged
      <3> QED
        BY <3>3, <3>4
    <2>6. CASE Touch(t) \/ SetAccess(t) \/ SetMetering(t) \/ LookAtPhase(t) \/ Forget(t)
      BY <1>2, <2>6 DEF Touch, SetAccess, SetMetering, LookAtPhase, Forget, firewall, metering
    <2> QED
      BY <1>3, <2>1, <2>2, <2>3, <2>4, <2>5, <2>6 DEF TaskStep
  <1>4. CASE PickTarget
    BY <1>2, <1>4 DEF PickTarget, firewall
  <1>5. CASE ReadCounters
    BY <1>1, <1>5, ReadingIsCovered
  <1>6. ASSUME NEW i \in IP, Deliver(i)
        PROVE  Metered(ip)'
    <2>1. UNCHANGED <<session, money, reading, misreads>> /\ counter' = [counter EXCEPT ![ip] = @ + 1]
      BY <1>6 DEF Deliver, metering
    <2>2. counter'[ip] = counter[ip] + 1
      BY <2>1, HostTypes
    <2> QED
      BY <1>1, <2>1, <2>2, NothingCharged
  <1>7. CASE Sweep \/ GoesIdle \/ UNCHANGED vars
    BY <1>2, <1>7 DEF Sweep, GoesIdle, vars, firewall, metering
  <1>8. ASSUME NEW t \in Http, NEW i \in IP, NEW message \in Messages, Request(t, i, message)
        PROVE  Metered(ip)'
    BY <1>2, <1>8 DEF Request, firewall, metering
  <1> QED
    BY <1>3, <1>4, <1>5, <1>6, <1>7, <1>8 DEF Next

(* For every interleaving, and any number of sessions of one address after *)
(* one another: a peer that does not claim more than it was sent pays for  *)
(* every unit once, and once more for every failed reading, at any price   *)
(* that is not negative (a negative one charges nothing).                  *)
THEOREM TrafficIsChargedOnce ==
    Spec => [](IF PerUnit >= 0 THEN ChargedForTraffic
               ELSE \A ip \in IP : IP = {ip} /\ ~overclaimed => money.charged = 0)
  <1>1. Init => MeteredInv
    <2> SUFFICES ASSUME Init, NEW ip \in IP PROVE Metered(ip)
      BY DEF MeteredInv
    <2>1. /\ money.charged = 0 /\ reading = None /\ session.last_counters = None
          /\ misreads \in Nat /\ counter[ip] \in Nat
      BY NewSessionType DEF Init
    <2>2. Worth(misreads, counter[ip], counter[ip]) \in Nat
      BY <2>1, WorthType
    <2> QED
      BY <2>1, <2>2 DEF Metered
  <1>2. IInv /\ MeteredInv =>
          IF PerUnit >= 0 THEN ChargedForTraffic
          ELSE \A ip \in IP : IP = {ip} /\ ~overclaimed => money.charged = 0
    <2> SUFFICES ASSUME IInv, NEW ip \in IP, Metered(ip)
                 PROVE  /\ PerUnit >= 0 => money.charged <= PerUnit * ((1 + misreads) * counter[ip])
                        /\ ~(PerUnit >= 0) => money.charged = 0
      BY DEF MeteredInv, ChargedForTraffic
    <2> DEFINE all == (1 + misreads) * counter[ip]
    <2>1. money.charged \in Nat /\ misreads \in Nat /\ counter[ip] \in Nat
      BY Figures
    <2>2. misreads * counter[ip] + counter[ip] = all /\ all \in Nat
      BY <2>1
    <2>3. money.charged <= Rate * all
      BY <2>2 DEF Metered, Worth
    <2> HIDE DEF all
    <2>4. CASE PerUnit >= 0
      <3>1. Rate * all = PerUnit * all
        BY <2>2, <2>4, PriceAssumption DEF Rate
      <3> QED
        BY <2>3, <2>4, <3>1 DEF all
    <2>5. CASE ~(PerUnit >= 0)
      <3>1. Rate * all = 0
        BY <2>2, <2>5, PriceAssumption DEF Rate
      <3> QED
        BY <2>1, <2>3, <2>5, <3>1
    <2> QED
      BY <2>4, <2>5
  <1> QED
    BY <1>1, <1>2, DriverInvariant, NextKeepsMetered, PTL DEF Spec

=============================================================================
