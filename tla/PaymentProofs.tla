--------------------------- MODULE PaymentProofs ---------------------------
(***************************************************************************)
(* Machine-checked proofs about the two ends of a payment.                 *)
(*                                                                         *)
(* Module Wallet, for every set of proofs, tokens and concurrent           *)
(* verifications: a wallet that swaps never credits a proof twice.         *)
(*                                                                         *)
(* Module Consumer, for every price of units and time, payment, watermark  *)
(* and width of the integers: a consumer never has much with its provider. *)
(***************************************************************************)
EXTENDS Wallet, Consumer, TLAPS

-----------------------------------------------------------------------------
(* The wallet.                                                             *)

LEMMA IdleType == \A t \in Token \cup {Idle} : t \subseteq Proof
  BY TokenAssumption DEF Idle

(* Tasks, records and credits keep their types.                            *)
THEOREM TypeCorrect == WalletSpec => []WalletTypeOK
  <1>1. WalletInit => WalletTypeOK
    BY DEF WalletInit, WalletTypeOK
  <1>2. WalletTypeOK /\ [WalletNext]_walletVars => WalletTypeOK'
    <2> SUFFICES ASSUME WalletTypeOK, [WalletNext]_walletVars PROVE WalletTypeOK'
      OBVIOUS
    <2> USE DEF WalletTypeOK
    <2>1. ASSUME NEW t \in Task, NEW token \in Token, LookUp(t, token) PROVE WalletTypeOK'
      BY <2>1 DEF LookUp
    <2>2. ASSUME NEW t \in Task, MintVouches(t) PROVE WalletTypeOK'
      BY <2>2, IdleType DEF MintVouches
    <2>3. ASSUME NEW t \in Task, MintRefuses(t) PROVE WalletTypeOK'
      BY <2>3 DEF MintRefuses
    <2>4. ASSUME NEW t \in Task, Record(t) PROVE WalletTypeOK'
      <3>1. task[t] \subseteq Proof
        BY IdleType
      <3>2. credited' \in [Proof -> Nat]
        BY <2>4 DEF Record, Insert
      <3> QED
        BY <2>4, <3>1, <3>2 DEF Record, Insert
    <2>5. CASE Restart
      <3>1. file' \subseteq Proof
        <4>1. PICK written \in
                SUBSET (UNION {task[t] : t \in {u \in Task : stage[u] = "vouched"}}) :
                  file' = file \cup written
          BY <2>5 DEF Restart
        <4>2. written \subseteq Proof
          BY <4>1, IdleType
        <4> QED
          BY <4>1, <4>2
      <3> QED
        BY <2>5, <3>1 DEF Restart
    <2>6. ASSUME NEW token \in Token, SpentElsewhere(token) PROVE WalletTypeOK'
      BY <2>6, TokenAssumption DEF SpentElsewhere
    <2>7. CASE UNCHANGED walletVars
      BY <2>7 DEF walletVars
    <2> QED
      BY <2>1, <2>2, <2>3, <2>4, <2>5, <2>6, <2>7 DEF WalletNext
  <1> QED
    BY <1>1, <1>2, PTL DEF WalletSpec

-----------------------------------------------------------------------------
(* The strengthening: a proof that was credited, or that a verification    *)
(* the mint vouched for holds, is spent at the mint, and a vouched proof   *)
(* has one holder and no credit yet.                                       *)
Holds(t, p) == stage[t] = "vouched" /\ p \in task[t]

SwapInv ==
    /\ \A p \in Proof : credited[p] > 0 => p \in mint
    /\ \A t \in Task, p \in Proof : Holds(t, p) => p \in mint /\ credited[p] = 0
    /\ \A t, u \in Task, p \in Proof : Holds(t, p) /\ Holds(u, p) => t = u

LEMMA SwapStep ==
    ASSUME WalletTypeOK, SwapInv, NoDoubleCredit, [WalletNext]_walletVars, Swaps = TRUE
    PROVE  SwapInv' /\ NoDoubleCredit'
  <1> USE DEF SwapInv, NoDoubleCredit, Holds
  <1>t. /\ task \in [Task -> Token \cup {Idle}]
        /\ stage \in [Task -> {"looked", "vouched"}]
        /\ credited \in [Proof -> Nat]
    BY DEF WalletTypeOK
  <1>1. ASSUME NEW t \in Task, NEW token \in Token, LookUp(t, token)
        PROVE  SwapInv' /\ NoDoubleCredit'
    BY <1>1, <1>t DEF LookUp
  <1>2. ASSUME NEW t \in Task, MintVouches(t) PROVE SwapInv' /\ NoDoubleCredit'
    <2>1. /\ mint' = mint \cup task[t] /\ task[t] \cap mint = {}
          /\ stage' = [stage EXCEPT ![t] = "vouched"]
          /\ task' = task /\ credited' = credited
      BY <1>2 DEF MintVouches
    <2>2. ASSUME NEW u \in Task, NEW p \in Proof, Holds(u, p)'
          PROVE  /\ u # t => Holds(u, p) /\ p \notin task[t]
                 /\ u = t => p \in task[t]
      BY <2>1, <2>2, <1>t
    <2>3. ASSUME NEW p \in Proof, p \in task[t] PROVE credited[p] = 0
      BY <2>1, <2>3, <1>t
    <2> QED
      BY <2>1, <2>2, <2>3
  <1>3. ASSUME NEW t \in Task, MintRefuses(t) PROVE SwapInv' /\ NoDoubleCredit'
    BY <1>3, <1>t DEF MintRefuses, Idle
  <1>4. ASSUME NEW t \in Task, Record(t) PROVE SwapInv' /\ NoDoubleCredit'
    <2>1. /\ task' = [task EXCEPT ![t] = Idle] /\ stage' = stage /\ mint' = mint
          /\ credited' = [p \in Proof |-> credited[p] + (IF p \in task[t] THEN 1 ELSE 0)]
          /\ stage[t] = "vouched"
      BY <1>4 DEF Record, Insert
    <2>2. ASSUME NEW p \in Proof
          PROVE  /\ p \in task[t] => credited'[p] = 1 /\ p \in mint
                 /\ p \notin task[t] => credited'[p] = credited[p]
      BY <2>1, <1>t
    <2>3. ASSUME NEW u \in Task, NEW p \in Proof, Holds(u, p)'
          PROVE  Holds(u, p) /\ p \notin task[t]
      BY <2>1, <2>3, <1>t DEF Idle
    <2> QED
      BY <2>1, <2>2, <2>3
  <1>5. CASE Restart
    BY <1>5, <1>t DEF Restart, Idle
  <1>6. ASSUME NEW token \in Token, SpentElsewhere(token)
        PROVE  SwapInv' /\ NoDoubleCredit'
    BY <1>6 DEF SpentElsewhere
  <1>7. CASE UNCHANGED walletVars
    BY <1>7 DEF walletVars
  <1> QED
    BY <1>1, <1>2, <1>3, <1>4, <1>5, <1>6, <1>7 DEF WalletNext

(* A wallet that receives tokens by swapping them credits every proof at   *)
(* most once: under any number of concurrent verifications of the same or  *)
(* overlapping tokens, and across restarts at any point.                   *)
THEOREM SwapCreditsOnce ==
    ASSUME Swaps = TRUE
    PROVE  WalletSpec => []NoDoubleCredit
  <1>1. WalletInit => SwapInv /\ NoDoubleCredit
    BY DEF WalletInit, SwapInv, NoDoubleCredit, Holds, Idle
  <1>2. WalletTypeOK /\ SwapInv /\ NoDoubleCredit /\ [WalletNext]_walletVars => SwapInv' /\ NoDoubleCredit'
    BY SwapStep
  <1> QED
    BY <1>1, <1>2, TypeCorrect, PTL DEF WalletSpec

(* Such a wallet never refuses a proof that is still good: whatever the    *)
(* record in memory or in the file holds is spent at the mint, whichever   *)
(* appends fail and wherever the node goes down.                           *)
THEOREM RefusesOnlySpent == WalletSpec => []RefusedIsSpent
  <1>1. WalletInit => SwapInv /\ NoDoubleCredit /\ RefusedIsSpent
    BY DEF WalletInit, SwapInv, NoDoubleCredit, Holds, Idle, RefusedIsSpent
  <1>2. ASSUME WalletTypeOK, SwapInv, RefusedIsSpent, [WalletNext]_walletVars, Swaps = TRUE
        PROVE  RefusedIsSpent'
    <2>t. /\ task \in [Task -> Token \cup {Idle}]
          /\ \A t \in Task : task[t] \subseteq Proof
          /\ spent \subseteq mint /\ file \subseteq mint
      BY <1>2, IdleType DEF WalletTypeOK, RefusedIsSpent
    <2>h. \A t \in Task : stage[t] = "vouched" => task[t] \subseteq mint
      BY <1>2, <2>t DEF SwapInv, Holds
    <2>1. ASSUME NEW t \in Task, NEW token \in Token, LookUp(t, token)
          PROVE  RefusedIsSpent'
      BY <2>1, <2>t DEF LookUp, RefusedIsSpent
    <2>2. ASSUME NEW t \in Task, MintVouches(t) PROVE RefusedIsSpent'
      BY <1>2, <2>2, <2>t DEF MintVouches, RefusedIsSpent
    <2>3. ASSUME NEW t \in Task, MintRefuses(t) PROVE RefusedIsSpent'
      BY <2>3, <2>t DEF MintRefuses, RefusedIsSpent
    <2>4. ASSUME NEW t \in Task, Record(t) PROVE RefusedIsSpent'
      <3>1. task[t] \subseteq mint /\ mint' = mint /\ spent' = spent \cup task[t]
        BY <2>4, <2>h DEF Record, Insert
      <3>2. PICK written \in SUBSET task[t] : file' = file \cup written
        BY <2>4 DEF Record, Insert
      <3> QED
        BY <2>t, <3>1, <3>2 DEF RefusedIsSpent
    <2>5. CASE Restart
      <3>1. PICK written \in
              SUBSET (UNION {task[t] : t \in {u \in Task : stage[u] = "vouched"}}) :
                file' = file \cup written
        BY <2>5 DEF Restart
      <3>2. written \subseteq mint
        BY <2>h, <3>1
      <3> QED
        BY <2>5, <2>t, <3>1, <3>2 DEF Restart, RefusedIsSpent
    <2>6. ASSUME NEW token \in Token, SpentElsewhere(token) PROVE RefusedIsSpent'
      BY <2>6, <2>t DEF SpentElsewhere, RefusedIsSpent
    <2>7. CASE UNCHANGED walletVars
      BY <2>7, <2>t DEF walletVars, RefusedIsSpent
    <2> QED
      BY <1>2, <2>1, <2>2, <2>3, <2>4, <2>5, <2>6, <2>7 DEF WalletNext
  <1> DEFINE Inv == RefusedIsSpent /\ (Swaps = TRUE => SwapInv /\ NoDoubleCredit)
  <1>3. WalletTypeOK /\ Inv /\ [WalletNext]_walletVars => Inv'
    <2>1. CASE Swaps = TRUE
      BY <1>2, <2>1, SwapStep
    <2>2. CASE Swaps # TRUE
      BY <2>2, TokenAssumption DEF RefusedIsSpent
    <2> QED
      BY <2>1, <2>2, Zenon
  <1> QED
    BY <1>1, <1>3, TypeCorrect, PTL DEF WalletSpec

-----------------------------------------------------------------------------
(* The consumer: what a sample takes, and what an estimate is worth.       *)

(* The price of a stretch of time and so many units, as the provider takes *)
(* it sample by sample and the consumer estimates it at once.              *)
Due(elapsed, units) == CostScaled(elapsed, units)

TimeDue(elapsed) == TruncThousandth(elapsed * PerSecond)

LEMMA Times ==
    ASSUME NEW x \in Nat, NEW y \in Nat, NEW z \in Nat
    PROVE  /\ x * z \in Nat
           /\ (x + y) * z = x * z + y * z
  OBVIOUS

LEMMA Width == I64Max \in Nat
  BY WidthAssumption DEF I64Max

LEMMA DueIs ==
    ASSUME NEW e \in Nat, NEW u \in Nat
    PROVE  /\ TimeDue(e) \in Nat /\ u * PerUnit \in Nat /\ Due(e, u) \in Nat
           /\ Due(e, u) = IF TimeDue(e) + u * PerUnit > I64Max THEN I64Max
                          ELSE TimeDue(e) + u * PerUnit
  <1>1. u * PerUnit \in Nat /\ e * PerSecond \in Nat
    BY ConsumerAssumption, Times
  <1> DEFINE x == e * PerSecond
             y == u * PerUnit
  <1>2. TimeDue(e) = TruncThousandth(x)
    BY DEF TimeDue
  <1>3. Due(e, u) = IF TimeDue(e) + y > I64Max THEN I64Max
                    ELSE IF TimeDue(e) + y < -I64Max - 1 THEN -I64Max - 1
                    ELSE TimeDue(e) + y
    BY DEF Due, TimeDue, CostScaled
  <1>4. x \in Nat /\ y \in Nat
    BY <1>1
  <1> HIDE DEF x, y
  <1>5. TimeDue(e) \in Nat
    BY <1>2, <1>4 DEF TruncThousandth
  <1>6. Due(e, u) = IF TimeDue(e) + y > I64Max THEN I64Max ELSE TimeDue(e) + y
    BY <1>3, <1>4, <1>5, Width
  <1> QED
    BY <1>4, <1>5, <1>6, Width DEF y

LEMMA TimeGrows ==
    ASSUME NEW e \in Nat, NEW d \in Nat
    PROVE  /\ TimeDue(e) <= TimeDue(e + d)
           /\ TimeDue(e + d) <= TimeDue(e) + TimeDue(d) + 1
           /\ TimeDue(0) = 0
  <1> DEFINE x == e * PerSecond
             y == d * PerSecond
  <1>1. x \in Nat /\ y \in Nat /\ (e + d) * PerSecond = x + y
    BY ConsumerAssumption, Times
  <1>2. /\ TimeDue(e) = TruncThousandth(x) /\ TimeDue(d) = TruncThousandth(y)
        /\ TimeDue(e + d) = TruncThousandth(x + y)
    BY <1>1 DEF TimeDue
  <1>3. TimeDue(0) = 0
    <2>1. 0 * PerSecond = 0
      BY ConsumerAssumption
    <2> QED
      BY <2>1 DEF TimeDue, TruncThousandth
  <1> HIDE DEF x, y
  <1> QED
    BY <1>1, <1>2, <1>3 DEF TruncThousandth

(* More is never cheaper, and the parts cost no less than the whole, but   *)
(* for what is dropped below one scaled unit of time.                      *)
LEMMA DueGrows ==
    ASSUME NEW e \in Nat, NEW d \in Nat, NEW x \in Nat, NEW y \in Nat, x <= y
    PROVE  /\ Due(e, x) <= Due(e + d, y)
           /\ Due(e + d, y) <= Due(e, x) + Due(d, y - x) + 1
           /\ Due(e, y) <= Due(e, x) + Due(0, y - x)
           /\ Due(0, 0) = 0
  <1> DEFINE n == y - x
             p == x * PerUnit
             q == n * PerUnit
  <1>1. n \in Nat /\ x + n = y /\ e + d \in Nat
    OBVIOUS
  <1>2. p \in Nat /\ q \in Nat /\ y * PerUnit = p + q
    BY <1>1, Times, ConsumerAssumption
  <1>3. 0 * PerUnit = 0
    BY ConsumerAssumption
  <1> HIDE DEF n
  <1>4. /\ Due(e, x) = IF TimeDue(e) + p > I64Max THEN I64Max ELSE TimeDue(e) + p
        /\ Due(d, n) = IF TimeDue(d) + q > I64Max THEN I64Max ELSE TimeDue(d) + q
        /\ Due(0, n) = IF TimeDue(0) + q > I64Max THEN I64Max ELSE TimeDue(0) + q
    BY <1>1, DueIs
  <1>5. /\ Due(e + d, y) = IF TimeDue(e + d) + (p + q) > I64Max THEN I64Max
                           ELSE TimeDue(e + d) + (p + q)
        /\ Due(e, y) = IF TimeDue(e) + (p + q) > I64Max THEN I64Max
                       ELSE TimeDue(e) + (p + q)
    <2> DEFINE r == y * PerUnit
    <2>1. /\ Due(e + d, y) = IF TimeDue(e + d) + r > I64Max THEN I64Max
                             ELSE TimeDue(e + d) + r
          /\ Due(e, y) = IF TimeDue(e) + r > I64Max THEN I64Max ELSE TimeDue(e) + r
      BY <1>1, DueIs, Zenon
    <2>2. r = p + q
      BY <1>2
    <2> QED
      BY <2>1, <2>2, Zenon
  <1>6. Due(0, 0) = IF TimeDue(0) + 0 > I64Max THEN I64Max ELSE TimeDue(0) + 0
    BY <1>3, DueIs
  <1>7. TimeDue(e) \in Nat /\ TimeDue(d) \in Nat /\ TimeDue(e + d) \in Nat
    BY <1>1, DueIs, Zenon
  <1>t. /\ TimeDue(e) <= TimeDue(e + d)
        /\ TimeDue(e + d) <= TimeDue(e) + TimeDue(d) + 1
        /\ TimeDue(0) = 0
    BY TimeGrows
  <1> HIDE DEF p, q
  <1>8. /\ Due(e, x) <= Due(e + d, y)
        /\ Due(e + d, y) <= Due(e, x) + Due(d, n) + 1
        /\ Due(e, y) <= Due(e, x) + Due(0, n)
        /\ Due(0, 0) = 0
    BY <1>2, <1>4, <1>5, <1>6, <1>7, <1>t, Width
  <1> QED
    BY <1>8 DEF n

LEMMA DueNothing == Due(0, 0) = 0
  <1>1. 0 \in Nat /\ 0 <= 0
    OBVIOUS
  <1> QED
    BY <1>1, DueGrows, Zenon

(* What is left of a total after so much, unless all of it is gone.        *)
Spent(balance, total, elapsed, units) ==
    balance = 0 \/ balance + Due(elapsed, units) <= total

LEMMA SpentLess ==
    ASSUME NEW b \in Nat, NEW c0 \in Nat, NEW total \in Nat, NEW more \in Nat,
           NEW e \in Nat, NEW u \in Nat, NEW v \in Nat,
           c0 <= b, v <= u, total <= more, Spent(b, total, e, u)
    PROVE  Spent(c0, more, e, v)
  <1>1. Due(e, v) <= Due(e + 0, u) /\ e + 0 = e
    BY DueGrows
  <1>2. Due(e, v) \in Nat /\ Due(e, u) \in Nat
    BY DueIs
  <1> QED
    BY <1>1, <1>2 DEF Spent

(* What a sample computes; it costs what its time and new units are due.   *)
LEMMA SampleTypes ==
    ASSUME NEW s \in PeerSession, NEW n \in Nat, NEW at \in Nat
    PROVE  /\ OurDelivered(s, n) \in Nat /\ Billable(s, n) \in Nat
           /\ OurDelivered(s, n) <= Billable(s, n)
           /\ NewUnits(s, n) = IF Billable(s, n) > s.billed_units
                               THEN Billable(s, n) - s.billed_units ELSE 0
           /\ NewUnits(s, n) \in Nat /\ SatSub(at, s.last_meter_at) \in Nat
           /\ Charge(s, n, at) = Due(SatSub(at, s.last_meter_at), NewUnits(s, n))
           /\ Charge(s, n, at) \in Nat
           /\ NextStreak(s, n) \in 0..255
  <1>1. /\ s.metering_baseline \in Nat /\ s.billed_units \in Nat
        /\ s.peer_report \in Nat \cup {None} /\ s.last_meter_at \in Nat
        /\ s.over_tolerance_streak \in 0..255
    BY DEF PeerSession
  <1>2. OurDelivered(s, n) \in Nat
    BY <1>1 DEF OurDelivered, SatSub
  <1>3. Billable(s, n) \in Nat /\ OurDelivered(s, n) <= Billable(s, n)
    BY <1>1, <1>2 DEF Billable, Reconcile, None
  <1>4. NewUnits(s, n) = IF Billable(s, n) > s.billed_units
                         THEN Billable(s, n) - s.billed_units ELSE 0
    BY DEF NewUnits, SatSub
  <1>5. NewUnits(s, n) \in Nat
    BY <1>1, <1>3, <1>4
  <1>6. SatSub(at, s.last_meter_at) \in Nat
    BY <1>1 DEF SatSub
  <1> DEFINE due == Due(SatSub(at, s.last_meter_at), NewUnits(s, n))
  <1>7. SampleCost(s, n, at) = due /\ due \in Nat
    BY <1>5, <1>6, DueIs DEF SampleCost, Due
  <1> HIDE DEF due
  <1>8. Charge(s, n, at) = due
    BY <1>7 DEF Charge
  <1>9. NextStreak(s, n) \in 0..255
    BY <1>1 DEF NextStreak
  <1> QED
    BY <1>2, <1>3, <1>4, <1>5, <1>6, <1>7, <1>8, <1>9 DEF due

(* A sample takes from the total what it bills, but for what it drops.     *)
LEMMA SampleTakes ==
    ASSUME NEW s \in PeerSession, NEW n \in Nat, NEW at \in Nat, NEW total \in Nat,
           NEW more \in Nat,
           s.metering_start <= s.last_meter_at, s.last_meter_at <= at,
           total <= more, s.last_meter_at # at => total + 1 <= more,
           Spent(s.balance, total, s.last_meter_at - s.metering_start, s.billed_units)
    PROVE  /\ SatSub(s.balance, Charge(s, n, at)) \in 0..s.balance
           /\ Spent(SatSub(s.balance, Charge(s, n, at)), more, at - s.metering_start,
                    Billable(s, n))
           /\ Spent(SatSub(s.balance, Charge(s, n, at)), more, at - s.metering_start,
                    OurDelivered(s, n))
  <1> DEFINE bill == Billable(s, n)
             ours == OurDelivered(s, n)
             new == NewUnits(s, n)
             d == at - s.last_meter_at
             e == s.last_meter_at - s.metering_start
             billed == s.billed_units
             rest == SatSub(s.balance, Charge(s, n, at))
  <1>1. billed \in Nat /\ s.balance \in Nat /\ s.last_meter_at \in Nat /\ s.metering_start \in Nat
    BY WidthAssumption DEF PeerSession
  <1>2. d \in Nat /\ e \in Nat /\ at - s.metering_start = e + d /\ SatSub(at, s.last_meter_at) = d
    BY <1>1 DEF SatSub
  <1>3. /\ ours \in Nat /\ bill \in Nat /\ ours <= bill /\ new \in Nat
        /\ new = IF bill > billed THEN bill - billed ELSE 0
        /\ Charge(s, n, at) = Due(SatSub(at, s.last_meter_at), new)
    BY SampleTypes, Zenon
  <1>4. d = 0 \/ total + 1 <= more
    BY <1>1
  <1>5. Spent(s.balance, total, e, billed)
    OBVIOUS
  <1>c. Charge(s, n, at) = Due(d, new)
    BY <1>2, <1>3
  <1> HIDE DEF bill, ours, new, d, e, billed
  <1>6. Due(d, new) \in Nat
    BY <1>2, <1>3, DueIs
  <1>7. rest = IF s.balance > Due(d, new) THEN s.balance - Due(d, new) ELSE 0
    BY <1>c DEF SatSub
  <1> HIDE DEF rest
  <1>8. rest \in 0..s.balance
    BY <1>1, <1>6, <1>7
  <1> DEFINE top == IF bill > billed THEN bill ELSE billed
  <1>9. top \in Nat /\ billed <= top /\ bill <= top /\ new = top - billed
    BY <1>1, <1>3
  <1> HIDE DEF top
  <1>10. Spent(rest, more, e + d, top)
    <2>0. e + d \in Nat
      BY <1>2
    <2>1. Due(e, billed) \in Nat /\ Due(e + d, top) \in Nat
      BY <1>1, <1>2, <1>9, <2>0, DueIs, Zenon
    <2>2. /\ Due(e + d, top) <= Due(e, billed) + Due(d, new) + 1
          /\ Due(e, top) <= Due(e, billed) + Due(0, new)
      BY <1>1, <1>2, <1>9, DueGrows
    <2>3. d = 0 => Due(e + d, top) <= Due(e, billed) + Due(d, new)
      BY <1>2, <2>2
    <2> QED
      BY <1>1, <1>4, <1>5, <1>6, <1>7, <2>1, <2>2, <2>3 DEF Spent
  <1>11. Spent(rest, more, e + d, bill) /\ Spent(rest, more, e + d, ours)
    <2>1. e + d \in Nat /\ ours <= top /\ rest \in Nat /\ rest <= rest /\ more <= more
      BY <1>2, <1>1, <1>3, <1>8, <1>9
    <2> QED
      BY <1>3, <1>9, <1>10, <2>1, SpentLess
  <1> QED
    BY <1>2, <1>8, <1>11 DEF bill, ours, rest

LEMMA SampledType ==
    ASSUME NEW s \in PeerSession, NEW n \in Nat, NEW at \in Nat
    PROVE  Sampled(s, n, at) \in PeerSession
  <1>1. s.balance \in 0..U64Max
    BY DEF PeerSession
  <1>2. SatSub(s.balance, Charge(s, n, at)) \in 0..U64Max
    <2>1. Charge(s, n, at) \in Nat
      BY SampleTypes
    <2> QED
      BY <1>1, <2>1, WidthAssumption DEF SatSub
  <1>3. 0 \in Nat /\ 0 \in 0..255
    OBVIOUS
  <1>4. ResetMetering(s, n, at) \in PeerSession
    BY <1>3, Zenon DEF ResetMetering, PeerSession
  <1>5. BilledSample(s, n, at) \in PeerSession
    <2>1. Billable(s, n) \in Nat /\ NextStreak(s, n) \in 0..255
      BY SampleTypes
    <2>2. (IF CutOff(s, n, at) THEN "Suspended" ELSE "Active") \in Phases
      BY Zenon DEF Phases
    <2> QED
      BY <1>2, <1>3, <2>1, <2>2, ZenonT(60) DEF BilledSample, PeerSession
  <1> QED
    BY <1>4, <1>5, Zenon DEF Sampled

-----------------------------------------------------------------------------
(* The inductive invariant of the consumer.                                *)

Reports == [elapsed : Nat, delivered : Nat] \cup {NoReport}

Loops == [at : {"pay", "poll", "topup"}, paid : Nat, acked : Nat, baseline : Nat,
          cut_off : BOOLEAN]

ConsumerTypes ==
    /\ session \in PeerSession
    /\ outbox \in [report : Reports, exhausted : BOOLEAN]
    /\ time \in Nat
    /\ counter \in [delivered : Nat, received : Nat]
    /\ loop \in Loops
    /\ faults \in [failures : Nat, refusals : Nat]
    /\ samples \in [this : Nat, most : Nat]

(* The clocks of a session are in order.                                   *)
Clocked ==
    /\ session.metering_start <= session.last_meter_at
    /\ session.last_meter_at <= time
    /\ samples.this <= samples.most

(* What failed exchanges may have left with the provider.                  *)
Lost == faults.failures * Cycle

(* What the loop has paid since it began, and what was lost before.        *)
Total == loop.paid + Lost

(* Between its first payment and its last the loop knows the total, and    *)
(* both what the session has billed and what a report in the outbox says   *)
(* is gone from it, but for what the samples dropped.                      *)
Accounted ==
    /\ session.balance <= Total
    /\ loop.cut_off => session.balance = 0
    /\ IF session.last_counters = None THEN outbox.report = NoReport
       ELSE Spent(session.balance, Total + samples.this,
                  session.last_meter_at - session.metering_start, session.billed_units)
    /\ outbox.report # NoReport =>
         Spent(session.balance, Total + samples.this, outbox.report.elapsed,
               outbox.report.delivered)

Exposed ==
    /\ session.balance <= Lost + Cycle
    /\ outbox.exhausted => session.balance = 0
    /\ loop.at = "pay" => session.balance <= Lost
    /\ loop.at = "topup" => session.balance <= Lost + Topup + samples.most
    /\ loop.at # "pay" => Accounted

ConsumerInv == ConsumerTypes /\ Clocked /\ (~metered => Exposed)

-----------------------------------------------------------------------------
(* What the actions do to the fields the invariant looks at.               *)

LEMMA CycleIs ==
    ASSUME samples.most \in Nat
    PROVE  /\ Cycle \in Nat /\ Topup \in Nat /\ Amount \in Nat
           /\ Amount + samples.most <= Cycle /\ 2 * Topup + samples.most <= Cycle
  BY ConsumerAssumption DEF Cycle

LEMMA LostIs ==
    ASSUME NEW n \in Nat, NEW x \in Nat, NEW y \in Nat, x <= y
    PROVE  /\ n * x \in Nat /\ (n + 1) * x = n * x + x /\ (1 + n) * x = n * x + x
           /\ n * x <= n * y
  <1>1. n * x \in Nat /\ (n + 1) * x = n * x + x /\ (1 + n) * x = n * x + x
    OBVIOUS
  <1>2. y - x \in Nat /\ n * (y - x) \in Nat /\ n * y = n * x + n * (y - x)
    OBVIOUS
  <1> QED
    BY <1>1, <1>2

LEMMA CreditedFields ==
    ASSUME session \in PeerSession, time \in Nat, NEW amount \in Nat
    PROVE  /\ Credited(amount) \in PeerSession
           /\ Credited(amount).balance <= session.balance + amount
           /\ Credited(amount).last_counters = None
           /\ Credited(amount).last_meter_at = time
           /\ Credited(amount).metering_start = session.metering_start
  <1> DEFINE s == TokenReceived(session)
             sum == SatAdd(session.balance, amount)
             paid == [s EXCEPT !.balance = sum, !.phase = "Active"]
  <1>1. /\ s \in PeerSession /\ s.phase = "BootstrapPending" /\ s.balance = session.balance
        /\ s.metering_start = session.metering_start
    BY DEF TokenReceived, PeerSession, Phases
  <1>2. sum \in 0..U64Max /\ sum <= session.balance + amount
    BY WidthAssumption DEF SatAdd, PeerSession
  <1> HIDE DEF s, sum
  <1>3. paid \in PeerSession /\ paid.balance = sum /\ paid.metering_start = session.metering_start
    BY <1>1, <1>2, ZenonT(60) DEF PeerSession, Phases
  <1>4. Credited(amount) = [paid EXCEPT !.last_counters = None, !.last_meter_at = time]
    BY <1>1 DEF Credited, TokenAccepted, s, sum
  <1> HIDE DEF paid
  <1>5. None \in Nat \cup {None}
    OBVIOUS
  <1>6. /\ Credited(amount) \in PeerSession
        /\ Credited(amount).balance = paid.balance
        /\ Credited(amount).last_counters = None
        /\ Credited(amount).last_meter_at = time
        /\ Credited(amount).metering_start = paid.metering_start
    BY <1>3, <1>4, <1>5, ZenonT(60) DEF PeerSession
  <1> QED
    BY <1>2, <1>3, <1>6

LEMMA RefusedFields ==
    ASSUME session \in PeerSession
    PROVE  /\ Refused \in PeerSession
           /\ Refused.balance = session.balance
           /\ Refused.last_counters = session.last_counters
           /\ Refused.billed_units = session.billed_units
           /\ Refused.last_meter_at = session.last_meter_at
           /\ Refused.metering_start = session.metering_start
  BY ZenonT(60) DEF Refused, TokenReceived, TokenRefused, PeerSession, Phases

LEMMA AcknowledgedFields ==
    ASSUME session \in PeerSession, loop.acked \in Nat
    PROVE  /\ Acknowledged \in PeerSession
           /\ Acknowledged.balance = session.balance
           /\ Acknowledged.last_counters = session.last_counters
           /\ Acknowledged.billed_units = session.billed_units
           /\ Acknowledged.last_meter_at = session.last_meter_at
           /\ Acknowledged.metering_start = session.metering_start
  BY DEF Acknowledged, ReportReceived, PeerSession

(* Only a sample that takes the last of the balance says so.               *)
LEMMA SendsOf ==
    ASSUME NEW s, NEW n, NEW at,
           "BalanceExhausted" \in {SampledSends(s, n, at)[i] : i \in DOMAIN SampledSends(s, n, at)}
    PROVE  Exhausted(s, n, at)
  <1> SUFFICES ASSUME ~Exhausted(s, n, at) PROVE FALSE
    OBVIOUS
  <1>1. \/ SampledSends(s, n, at) = <<"TransitLoss", "Report">>
        \/ SampledSends(s, n, at) = <<"Report">>
    BY DEF SampledSends
  <1> QED
    BY <1>1

(* A turn of the metering loop: the first sets the baseline, the others    *)
(* charge.                                                                 *)
LEMMA SampledFields ==
    ASSUME session \in PeerSession, NEW n \in Nat, NEW at \in Nat, session.phase = "Active"
    PROVE  /\ session.last_counters = None =>
                /\ Sampled(session, n, at).balance = session.balance
                /\ Sampled(session, n, at).billed_units = 0
                /\ Sampled(session, n, at).metering_start = at
           /\ session.last_counters # None =>
                /\ Sampled(session, n, at).balance
                     = SatSub(session.balance, Charge(session, n, at))
                /\ Sampled(session, n, at).billed_units = Billable(session, n)
                /\ Sampled(session, n, at).metering_start = session.metering_start
           /\ Sampled(session, n, at).last_meter_at = at
           /\ Sampled(session, n, at).last_counters = n
  <1>2. CASE session.last_counters = None
    BY <1>2, ZenonT(60) DEF Sampled, ResetMetering, PeerSession
  <1>3. CASE session.last_counters # None
    BY <1>3, ZenonT(60) DEF Sampled, BilledSample, PeerSession
  <1> QED
    BY <1>2, <1>3, Zenon

-----------------------------------------------------------------------------
(* Every step keeps the types.                                             *)

LEMMA TypesStep ==
    ASSUME ConsumerTypes, [ConsumerNext]_consumerVars
    PROVE  ConsumerTypes'
  <1>t. /\ session \in PeerSession
        /\ outbox \in [report : Reports, exhausted : BOOLEAN]
        /\ counter \in [delivered : Nat, received : Nat]
        /\ loop \in Loops /\ time \in Nat
        /\ faults \in [failures : Nat, refusals : Nat]
        /\ samples \in [this : Nat, most : Nat]
    BY DEF ConsumerTypes
  <1>a. /\ loop.acked \in Nat /\ counter.delivered \in Nat /\ counter.received \in Nat
        /\ samples.most \in Nat /\ samples.this \in Nat
        /\ outbox.report \in Reports /\ outbox.exhausted \in BOOLEAN
    BY <1>t DEF Loops
  <1>e. EmptyOutbox \in [report : Reports, exhausted : BOOLEAN]
    BY DEF EmptyOutbox, Reports
  <1>n. NotStarted \in Loops
    BY DEF NotStarted, Loops
  <1>c. Credited(Amount) \in PeerSession /\ Credited(Topup) \in PeerSession
    BY <1>t, <1>a, CreditedFields, CycleIs
  <1>r. Refused \in PeerSession /\ Acknowledged \in PeerSession
    BY <1>t, <1>a, RefusedFields, AcknowledgedFields
  <1>w. \A raw \in RawReceived : raw \in Nat
    BY <1>a DEF RawReceived
  <1>1. ASSUME NEW lost \in BOOLEAN, Deliver(lost) PROVE ConsumerTypes'
    <2>1. counter' \in [delivered : Nat, received : Nat]
      BY <1>1, <1>a DEF Deliver
    <2> QED
      BY <1>1, <1>t, <2>1, Zenon DEF Deliver, ConsumerTypes
  <1>2. CASE Sample
    <2>1. session' \in PeerSession
      BY <1>2, <1>t, <1>a, SampledType DEF Sample
    <2> DEFINE report == [elapsed |-> SatSub(time, session.metering_start),
                          delivered |-> OurDelivered(session, counter.delivered)]
    <2>2. report \in Reports
      <3>1. OurDelivered(session, counter.delivered) \in Nat
        BY <1>t, <1>a, SampleTypes
      <3>2. SatSub(time, session.metering_start) \in Nat
        BY <1>t DEF SatSub, PeerSession
      <3> QED
        BY <3>1, <3>2 DEF Reports
    <2>3. \E r \in Reports, x \in BOOLEAN : outbox' = [report |-> r, exhausted |-> x]
      <3> HIDE DEF report
      <3>1. outbox'= [report |-> IF "Report" \in {SampledEffect(session, counter.delivered, time).send[i] :
                                     i \in DOMAIN SampledEffect(session, counter.delivered, time).send}
                                 THEN report ELSE outbox.report,
                      exhausted |-> outbox.exhausted \/ "BalanceExhausted" \in
                                    {SampledEffect(session, counter.delivered, time).send[i] :
                                     i \in DOMAIN SampledEffect(session, counter.delivered, time).send}]
        BY <1>2, Zenon DEF Sample, Enqueue, report
      <3> QED
        BY <1>a, <2>2, <3>1, Zenon
    <2>4. outbox' \in [report : Reports, exhausted : BOOLEAN]
      BY <2>3
    <2>5. samples' \in [this : Nat, most : Nat]
      BY <1>2, <1>t DEF Sample, Reconcile
    <2> QED
      BY <1>2, <1>t, <2>1, <2>4, <2>5, Zenon DEF Sample, ConsumerTypes
  <1>10. CASE TimePasses
    BY <1>10, <1>t, ConsumerAssumption DEF TimePasses, ConsumerTypes
  <1>3. ASSUME NEW raw \in RawReceived, Pay(raw) PROVE ConsumerTypes'
    <2>1. loop' \in Loops
      BY <1>3, <1>a, <1>w, CycleIs DEF Pay, NotStarted, Loops
    <2> QED
      BY <1>3, <1>t, <1>c, <1>e, <2>1, Zenon DEF Pay, ConsumerTypes
  <1>4. ASSUME NEW base \in RawReceived, NEW raw \in RawReceived, Poll(base, raw)
        PROVE  ConsumerTypes'
    <2> DEFINE measured == SatSub(raw, Baseline(base))
    <2>1. Baseline(base) \in Nat /\ measured \in Nat
      BY <1>t, <1>w DEF Baseline, SatSub, Loops
    <2>2. NextAcked(measured) \in Nat
      <3>1. outbox.report # NoReport => outbox.report.delivered \in Nat
        BY <1>a DEF Reports
      <3> QED
        BY <1>a, <2>1, <3>1 DEF NextAcked, Answer
    <2>3. Answer.exhausted \in BOOLEAN
      BY <1>t DEF Answer
    <2>4. (IF MustTopUp(measured) THEN "topup" ELSE "poll") \in {"pay", "poll", "topup"}
      OBVIOUS
    <2>5. loop' = [loop EXCEPT !.at = IF MustTopUp(measured) THEN "topup" ELSE "poll",
                               !.acked = NextAcked(measured),
                               !.baseline = Baseline(base),
                               !.cut_off = Answer.exhausted]
      BY <1>4 DEF Poll
    <2> HIDE DEF measured
    <2>6. loop' \in Loops
      BY <1>t, <2>1, <2>2, <2>3, <2>4, <2>5, Zenon DEF Loops
    <2> QED
      BY <1>4, <1>t, <1>r, <1>e, <2>6, Zenon DEF Poll, ConsumerTypes
  <1>5. CASE TopUp
    <2>1. loop' \in Loops
      <3>1. loop.paid \in Nat
        BY <1>t DEF Loops
      <3>2. (IF loop.cut_off THEN Topup ELSE loop.paid + Topup) \in Nat
        BY <1>a, <3>1, CycleIs
      <3>3. loop' = [loop EXCEPT !.at = "poll", !.cut_off = FALSE,
                       !.paid = IF loop.cut_off THEN Topup ELSE loop.paid + Topup]
        BY <1>5, <1>t DEF TopUp, Loops
      <3> QED
        BY <1>t, <3>2, <3>3, Zenon DEF Loops
    <2> QED
      BY <1>5, <1>t, <1>c, <1>e, <2>1, Zenon DEF TopUp, ConsumerTypes
  <1>6. CASE PayRefused
    <2>1. faults' \in [failures : Nat, refusals : Nat]
      BY <1>6, <1>t DEF PayRefused
    <2> QED
      BY <1>6, <1>t, <1>r, <1>e, <2>1, Zenon DEF PayRefused, ConsumerTypes
  <1>7. CASE TopUpRefused
    <2>1. faults' \in [failures : Nat, refusals : Nat]
      BY <1>7, <1>t DEF TopUpRefused
    <2>2. loop' \in Loops
      BY <1>7, <1>t, Zenon DEF TopUpRefused, Loops
    <2> QED
      BY <1>7, <1>t, <1>r, <1>e, <2>1, <2>2, Zenon DEF TopUpRefused, ConsumerTypes
  <1>8. CASE ExchangeFails
    <2>1. faults' \in [failures : Nat, refusals : Nat]
      BY <1>8, <1>t DEF ExchangeFails
    <2>2. loop.at \in {"pay", "poll", "topup"}
      BY <1>t DEF Loops
    <2>3. Handled \in PeerSession
      BY <1>c, <1>r, <2>2 DEF Handled
    <2>4. /\ session' \in PeerSession
          /\ outbox' \in [report : Reports, exhausted : BOOLEAN]
      BY <1>8, <1>t, <1>e, <2>3, Zenon DEF ExchangeFails
    <2> QED
      BY <1>8, <1>t, <1>n, <2>1, <2>4, Zenon DEF ExchangeFails, ConsumerTypes
  <1>9. CASE UNCHANGED consumerVars
    BY <1>9, <1>t, Zenon DEF consumerVars, ConsumerTypes
  <1> QED
    BY <1>1, <1>2, <1>3, <1>4, <1>5, <1>6, <1>7, <1>8, <1>9, <1>10
    DEF ConsumerNext, Consume

LEMMA ClockedStep ==
    ASSUME ConsumerTypes, Clocked, [ConsumerNext]_consumerVars
    PROVE  Clocked'
  <1>t. /\ session \in PeerSession /\ time \in Nat /\ counter.delivered \in Nat
        /\ session.metering_start \in Nat /\ session.last_meter_at \in Nat
        /\ loop.acked \in Nat /\ samples \in [this : Nat, most : Nat]
        /\ samples.most \in Nat /\ loop.at \in {"pay", "poll", "topup"}
    BY DEF ConsumerTypes, PeerSession, Loops
  <1>c. \A amount \in {Amount, Topup} :
          /\ Credited(amount).last_meter_at = time
          /\ Credited(amount).metering_start = session.metering_start
    BY <1>t, CreditedFields, CycleIs
  <1>r. /\ Refused.last_meter_at = session.last_meter_at
        /\ Refused.metering_start = session.metering_start
        /\ Acknowledged.last_meter_at = session.last_meter_at
        /\ Acknowledged.metering_start = session.metering_start
    BY <1>t, RefusedFields, AcknowledgedFields
  <1>s. session.metering_start <= time
    BY <1>t DEF Clocked
  <1>1. CASE Sample
    <2>1. session' = Sampled(session, counter.delivered, time) /\ session.phase = "Active"
      BY <1>1 DEF Sample
    <2>2. session'.last_meter_at = time /\ session'.metering_start \in {time, session.metering_start}
      BY <1>t, <2>1, SampledFields
    <2>3. samples'.this <= samples'.most
      BY <1>1, <1>t DEF Sample, Reconcile, Clocked
    <2>4. time' = time
      BY <1>1 DEF Sample
    <2> QED
      BY <1>t, <1>s, <2>2, <2>3, <2>4 DEF Clocked
  <1>2. CASE TimePasses
    BY <1>2, <1>t, ConsumerAssumption DEF TimePasses, Clocked
  <1>3. ASSUME time' = time, samples' = samples,
               session' \in {session, Credited(Amount), Credited(Topup), Refused, Acknowledged}
        PROVE  Clocked'
    BY <1>3, <1>t, <1>c, <1>r, <1>s DEF Clocked
  <1>4. ASSUME NEW lost \in BOOLEAN, Deliver(lost) PROVE Clocked'
    BY <1>3, <1>4 DEF Deliver
  <1>5. CASE Consume
    <2>1. ASSUME NEW raw \in RawReceived, Pay(raw) PROVE Clocked'
      BY <1>3, <2>1, Zenon DEF Pay
    <2>2. ASSUME NEW base \in RawReceived, NEW raw \in RawReceived, Poll(base, raw)
          PROVE  Clocked'
      BY <1>3, <2>2, Zenon DEF Poll
    <2>3. CASE TopUp
      BY <1>3, <2>3, Zenon DEF TopUp
    <2> QED
      BY <1>5, <2>1, <2>2, <2>3 DEF Consume
  <1>6. CASE PayRefused \/ TopUpRefused
    BY <1>3, <1>6 DEF PayRefused, TopUpRefused
  <1>7. CASE ExchangeFails
    <2>1. Handled \in {Credited(Amount), Credited(Topup), Acknowledged}
      BY <1>t DEF Handled
    <2> QED
      BY <1>3, <1>7, <2>1 DEF ExchangeFails
  <1>8. CASE UNCHANGED consumerVars
    BY <1>3, <1>8 DEF consumerVars
  <1> QED
    BY <1>1, <1>2, <1>4, <1>5, <1>6, <1>7, <1>8 DEF ConsumerNext

-----------------------------------------------------------------------------
(* Every step keeps the exposure.                                          *)

LEMMA ExposedStep ==
    ASSUME ConsumerTypes, ConsumerTypes', Clocked, ~metered, Exposed,
           [ConsumerNext]_consumerVars
    PROVE  Exposed'
  <1>t. /\ session \in PeerSession /\ session.balance \in Nat
        /\ session.billed_units \in Nat /\ time \in Nat
        /\ outbox.report \in Reports
        /\ counter.delivered \in Nat
        /\ loop \in Loops
        /\ loop.at \in {"pay", "poll", "topup"} /\ loop.paid \in Nat /\ loop.acked \in Nat
        /\ faults \in [failures : Nat, refusals : Nat] /\ faults.failures \in Nat
        /\ samples \in [this : Nat, most : Nat] /\ samples.this \in Nat /\ samples.most \in Nat
    BY WidthAssumption DEF ConsumerTypes, PeerSession, Loops
  <1>u. session'.balance \in Nat
    BY WidthAssumption DEF ConsumerTypes, PeerSession
  <1>k. /\ Cycle \in Nat /\ Topup \in Nat /\ Amount \in Nat
        /\ Amount + samples.most <= Cycle /\ 2 * Topup + samples.most <= Cycle
    BY <1>t, CycleIs
  <1>l. Lost \in Nat /\ Total \in Nat
    <2>1. faults.failures * Cycle \in Nat
      BY <1>t, <1>k, LostIs
    <2> QED
      BY <1>t, <2>1 DEF Lost, Total
  <1>x. /\ session.balance <= Lost + Cycle
        /\ outbox.exhausted => session.balance = 0
        /\ loop.at = "pay" => session.balance <= Lost
        /\ loop.at = "topup" => session.balance <= Lost + Topup + samples.most
        /\ loop.at # "pay" => Accounted
    BY DEF Exposed
  <1>m. samples.this <= samples.most
    BY DEF Clocked
  <1>e. EmptyOutbox.report = NoReport /\ EmptyOutbox.exhausted = FALSE
    BY DEF EmptyOutbox
  <1>c. /\ Credited(Amount).balance <= session.balance + Amount
        /\ Credited(Amount).last_counters = None
        /\ Credited(Topup).balance <= session.balance + Topup
        /\ Credited(Topup).last_counters = None
    BY <1>t, <1>k, CreditedFields
  <1>s. samples' = samples => Cycle' = Cycle
    BY DEF Cycle
  <1>1. ASSUME NEW lost \in BOOLEAN, Deliver(lost) PROVE Exposed'
    BY <1>1, <1>x, Zenon DEF Deliver, Exposed, Accounted, Lost, Total, Cycle
  <1>10. CASE TimePasses
    BY <1>10, <1>x, Zenon DEF TimePasses, Exposed, Accounted, Lost, Total, Cycle
  <1>2. CASE Sample
    <2> DEFINE n == counter.delivered
               elapsed == SatSub(time, session.metering_start)
    <2>1. /\ session.phase = "Active" /\ session' = Sampled(session, n, time)
          /\ loop' = loop /\ faults' = faults
      BY <1>2 DEF Sample
    <2>2. outbox' = [report |-> IF "Report" \in {SampledEffect(session, n, time).send[i] :
                                        i \in DOMAIN SampledEffect(session, n, time).send}
                                THEN [elapsed |-> elapsed, delivered |-> OurDelivered(session, n)]
                                ELSE outbox.report,
                     exhausted |-> outbox.exhausted \/ "BalanceExhausted" \in
                                       {SampledEffect(session, n, time).send[i] :
                                        i \in DOMAIN SampledEffect(session, n, time).send}]
      BY <1>2, Zenon DEF Sample, Enqueue
    <2>3. /\ samples'.most \in Nat /\ samples'.this \in Nat /\ samples.most <= samples'.most
          /\ session.last_counters = None => samples'.this = 0
          /\ session.last_counters # None =>
               /\ samples.this <= samples'.this
               /\ session.last_meter_at # time => samples.this + 1 <= samples'.this
      BY <1>2, <1>t DEF Sample, Reconcile
    <2>4. Cycle' \in Nat /\ Cycle <= Cycle'
      BY <1>t, <2>3, ConsumerAssumption DEF Cycle
    <2>5. Lost' \in Nat /\ Lost <= Lost' /\ Total' \in Nat /\ Total <= Total'
      <3>1. /\ faults.failures * Cycle <= faults.failures * Cycle'
            /\ faults.failures * Cycle' \in Nat
        BY <1>t, <1>k, <2>4, LostIs
      <3>2. /\ Lost' = faults.failures * Cycle' /\ Lost = faults.failures * Cycle
            /\ Total' = loop.paid + Lost' /\ Total = loop.paid + Lost
        BY <2>1 DEF Lost, Total
      <3> QED
        BY <1>t, <1>l, <3>1, <3>2
    <2>6. session'.balance <= session.balance
      <3>1. CASE session.last_counters = None
        BY <1>t, <2>1, <3>1, SampledFields
      <3>2. CASE session.last_counters # None
        <4>1. Charge(session, n, time) \in Nat
          BY <1>t, SampleTypes
        <4>2. session'.balance = SatSub(session.balance, Charge(session, n, time))
          BY <1>t, <2>1, <3>2, SampledFields
        <4> QED
          BY <1>t, <4>1, <4>2 DEF SatSub
      <3> QED
        BY <3>1, <3>2
    <2> HIDE DEF n, elapsed
    <2>7. /\ session'.balance <= Lost' + Cycle'
          /\ loop'.at = "pay" => session'.balance <= Lost'
          /\ loop'.at = "topup" => session'.balance <= Lost' + Topup + samples'.most
      BY <1>t, <1>u, <1>l, <1>k, <1>x, <2>1, <2>3, <2>4, <2>5, <2>6
    <2>8. /\ outbox'.exhausted => session'.balance = 0
          /\ loop.at # "pay" => Accounted'
      <3>1. CASE session.last_counters = None
        <4>1. SampledEffect(session, n, time).send = <<>>
          BY <3>1 DEF SampledEffect, NoEffect, Effect
        <4>2. {SampledEffect(session, n, time).send[i] :
                 i \in DOMAIN SampledEffect(session, n, time).send} = {}
          BY <4>1
        <4>3. outbox'.report = outbox.report /\ (outbox'.exhausted => outbox.exhausted)
          BY <2>2, <4>2
        <4>4. /\ session'.balance = session.balance /\ session'.billed_units = 0
              /\ session'.metering_start = time /\ session'.last_meter_at = time
          BY <1>t, <2>1, <3>1, SampledFields DEF n
        <4>5. ASSUME loop.at # "pay" PROVE Accounted'
          <5>1. /\ session.balance <= Total /\ (loop.cut_off => session.balance = 0)
                /\ outbox'.report = NoReport
            BY <1>x, <3>1, <4>3, <4>5 DEF Accounted
          <5>2. time - time = 0 /\ Due(0, 0) = 0
            BY <1>t, DueNothing
          <5>3. Spent(session'.balance, Total' + samples'.this, time - time, 0)
            BY <1>t, <1>l, <2>3, <2>5, <4>4, <5>1, <5>2 DEF Spent
          <5> QED
            BY <1>t, <1>l, <2>1, <2>5, <4>4, <5>1, <5>3 DEF Accounted
        <4> QED
          BY <1>x, <4>3, <4>4, <4>5
      <3>2. CASE session.last_counters # None
        <4>1. SampledEffect(session, n, time).send = SampledSends(session, n, time)
          BY <2>1, <3>2 DEF SampledEffect, Effect
        <4>2. outbox'.report \in {outbox.report,
                                  [elapsed |-> elapsed, delivered |-> OurDelivered(session, n)]}
          BY <2>2, Zenon
        <4>3. outbox'.exhausted => outbox.exhausted \/ Exhausted(session, n, time)
          BY <2>2, <4>1, SendsOf
        <4>4. /\ session'.balance = SatSub(session.balance, Charge(session, n, time))
              /\ session'.billed_units = Billable(session, n)
              /\ session'.metering_start = session.metering_start
              /\ session'.last_meter_at = time /\ session'.last_counters = n
          BY <1>t, <2>1, <3>2, SampledFields DEF n
        <4>5. outbox'.exhausted => session'.balance = 0
          BY <1>t, <1>u, <1>x, <2>6, <4>3, <4>4 DEF Exhausted
        <4>6. ASSUME loop.at # "pay" PROVE Accounted'
          <5>1. /\ session.balance <= Total /\ (loop.cut_off => session.balance = 0)
                /\ Spent(session.balance, Total + samples.this,
                         session.last_meter_at - session.metering_start, session.billed_units)
                /\ outbox.report # NoReport =>
                     Spent(session.balance, Total + samples.this, outbox.report.elapsed,
                           outbox.report.delivered)
            BY <1>x, <3>2, <4>6 DEF Accounted
          <5>2. /\ Total + samples.this \in Nat /\ Total' + samples'.this \in Nat
                /\ Total + samples.this <= Total' + samples'.this
                /\ session.last_meter_at # time =>
                     Total + samples.this + 1 <= Total' + samples'.this
            BY <1>t, <1>l, <2>3, <2>5, <3>2
          <5>3. /\ session.metering_start <= session.last_meter_at
                /\ session.last_meter_at <= time /\ session.metering_start \in Nat
                /\ session.last_meter_at \in Nat
            BY <1>t DEF Clocked, PeerSession
          <5>4. /\ Spent(session'.balance, Total' + samples'.this, time - session.metering_start,
                         Billable(session, n))
                /\ Spent(session'.balance, Total' + samples'.this, time - session.metering_start,
                         OurDelivered(session, n))
            <6> DEFINE total == Total + samples.this
                       more == Total' + samples'.this
            <6>1. /\ total \in Nat /\ more \in Nat /\ total <= more
                  /\ session.last_meter_at # time => total + 1 <= more
                  /\ Spent(session.balance, total,
                           session.last_meter_at - session.metering_start,
                           session.billed_units)
              BY <5>1, <5>2
            <6>2. n \in Nat
              BY <1>t DEF n
            <6> HIDE DEF total, more
            <6>3. /\ Spent(SatSub(session.balance, Charge(session, n, time)), more,
                           time - session.metering_start, Billable(session, n))
                  /\ Spent(SatSub(session.balance, Charge(session, n, time)), more,
                           time - session.metering_start, OurDelivered(session, n))
              BY <1>t, <5>3, <6>1, <6>2, SampleTakes, Zenon
            <6> QED
              BY <4>4, <6>3, Zenon DEF more
          <5>5. elapsed = time - session.metering_start
            BY <1>t, <5>3 DEF elapsed, SatSub
          <5>6. ASSUME outbox.report # NoReport
                PROVE  Spent(session'.balance, Total' + samples'.this, outbox.report.elapsed,
                             outbox.report.delivered)
            <6>1. /\ outbox.report.elapsed \in Nat /\ outbox.report.delivered \in Nat
                  /\ outbox.report.delivered <= outbox.report.delivered
              BY <1>t, <5>6 DEF Reports
            <6>2. Spent(session.balance, Total + samples.this, outbox.report.elapsed,
                        outbox.report.delivered)
              BY <5>1, <5>6
            <6> QED
              BY <1>t, <1>u, <2>6, <5>2, <6>1, <6>2, SpentLess
          <5>7. outbox'.report # NoReport =>
                  Spent(session'.balance, Total' + samples'.this, outbox'.report.elapsed,
                        outbox'.report.delivered)
            <6>1. CASE outbox'.report = outbox.report
              BY <5>6, <6>1
            <6>2. CASE outbox'.report = [elapsed |-> elapsed, delivered |-> OurDelivered(session, n)]
              BY <5>4, <5>5, <6>2
            <6> QED
              BY <4>2, <6>1, <6>2
          <5>8. n # None
            BY <1>t DEF n, None
          <5>9. session'.balance <= Total' /\ (loop'.cut_off => session'.balance = 0)
            BY <1>t, <1>u, <1>l, <2>1, <2>5, <2>6, <5>1
          <5> QED
            BY <4>4, <5>4, <5>7, <5>8, <5>9 DEF Accounted
        <4> QED
          BY <4>5, <4>6
      <3> QED
        BY <3>1, <3>2
    <2> QED
      BY <2>1, <2>7, <2>8 DEF Exposed
  <1>3. ASSUME NEW raw \in RawReceived, Pay(raw) PROVE Exposed'
    <2>1. /\ loop.at = "pay" /\ session' = Credited(Amount) /\ outbox' = EmptyOutbox
          /\ Lost' = Lost /\ samples' = samples /\ Cycle' = Cycle
      BY <1>3, <1>s DEF Pay, Lost
    <2>2. loop'.at = "poll" /\ loop'.paid = Amount /\ loop'.cut_off = FALSE
      BY <1>3 DEF Pay, NotStarted
    <2>3. Total' = Amount + Lost
      BY <2>1, <2>2 DEF Total
    <2> QED
      BY <1>t, <1>u, <1>l, <1>k, <1>x, <1>e, <1>c, <2>1, <2>2, <2>3 DEF Exposed, Accounted
  <1>4. ASSUME NEW base \in RawReceived, NEW raw \in RawReceived, Poll(base, raw)
        PROVE  Exposed'
    <2> DEFINE measured == SatSub(raw, Baseline(base))
    <2>1. /\ loop.at = "poll" /\ session' = Acknowledged /\ outbox' = EmptyOutbox
          /\ Lost' = Lost /\ samples' = samples /\ Cycle' = Cycle
      BY <1>4, <1>s DEF Poll, Lost
    <2>2. /\ loop'.at = IF MustTopUp(measured) THEN "topup" ELSE "poll"
          /\ loop'.paid = loop.paid /\ loop'.cut_off = outbox.exhausted
      BY <1>4, <1>t, Zenon DEF Poll, Answer, Loops
    <2>3. Total' = Total
      BY <2>1, <2>2 DEF Total
    <2>4. /\ session'.balance = session.balance
          /\ session'.last_counters = session.last_counters
          /\ session'.billed_units = session.billed_units
          /\ session'.last_meter_at = session.last_meter_at
          /\ session'.metering_start = session.metering_start
      BY <1>t, <2>1, AcknowledgedFields
    <2>5. Accounted
      BY <1>x, <2>1
    <2>6. MustTopUp(measured) => session.balance <= Lost + Topup + samples.most
      <3>1. CASE outbox.exhausted
        BY <1>t, <1>x, <1>l, <1>k, <3>1
      <3>2. CASE outbox.report = NoReport
        <4>1. Cost(measured) = 0
          BY <3>2 DEF Cost, Answer
        <4> QED
          BY <1>t, <1>x, <1>l, <1>k, <2>5, <4>1 DEF MustTopUp, Answer, Accounted, Total
      <3>3. CASE outbox.report # NoReport
        <4> DEFINE due == Due(outbox.report.elapsed, outbox.report.delivered)
        <4>1. Cost(measured) = due
          BY <3>3 DEF Cost, Answer, Due
        <4>2. due \in Nat
          BY <1>t, <3>3, DueIs DEF Reports
        <4>3. session.balance = 0 \/ session.balance + due <= loop.paid + Lost + samples.this
          BY <2>5, <3>3 DEF Accounted, Total, Spent
        <4>4. MustTopUp(measured) => outbox.exhausted \/ loop.paid - due < Topup
          BY <4>1 DEF MustTopUp, Answer
        <4> HIDE DEF due
        <4> QED
          BY <1>t, <1>x, <1>l, <1>k, <1>m, <4>2, <4>3, <4>4
      <3> QED
        BY <3>1, <3>2, <3>3
    <2> HIDE DEF measured
    <2> QED
      BY <1>t, <1>x, <1>e, <2>1, <2>2, <2>3, <2>4, <2>5, <2>6 DEF Exposed, Accounted
  <1>5. CASE TopUp
    <2>1. /\ loop.at = "topup" /\ session' = Credited(Topup) /\ outbox' = EmptyOutbox
          /\ Lost' = Lost /\ samples' = samples /\ Cycle' = Cycle
      BY <1>5, <1>s DEF TopUp, Lost
    <2>2. /\ loop'.at = "poll" /\ loop'.cut_off = FALSE
          /\ loop'.paid = IF loop.cut_off THEN Topup ELSE loop.paid + Topup
      BY <1>5, <1>t DEF TopUp, Loops
    <2>3. session.balance <= loop.paid + Lost /\ (loop.cut_off => session.balance = 0)
      BY <1>x, <2>1 DEF Accounted, Total
    <2>4. session'.balance <= loop'.paid + Lost /\ Total' = loop'.paid + Lost
      BY <1>t, <1>u, <1>l, <1>k, <1>c, <2>1, <2>2, <2>3 DEF Total
    <2>5. session'.balance <= Lost + Cycle
      BY <1>t, <1>u, <1>l, <1>k, <1>c, <1>x, <2>1
    <2> QED
      BY <1>c, <1>e, <2>1, <2>2, <2>4, <2>5 DEF Exposed, Accounted
  <1>6. CASE PayRefused
    <2>1. /\ loop.at = "pay" /\ session' = Refused /\ outbox' = EmptyOutbox
          /\ loop' = loop /\ samples' = samples /\ Cycle' = Cycle
      BY <1>6, <1>s DEF PayRefused
    <2>2. Lost' = Lost
      BY <1>6, <1>t, <2>1 DEF PayRefused, Lost
    <2>3. session'.balance = session.balance
      BY <1>t, <2>1, RefusedFields
    <2> QED
      BY <1>x, <1>e, <2>1, <2>2, <2>3 DEF Exposed
  <1>7. CASE TopUpRefused
    <2>1. /\ loop.at = "topup" /\ session' = Refused /\ outbox' = EmptyOutbox
          /\ loop'.at = "poll" /\ loop'.cut_off = FALSE /\ loop'.paid = loop.paid
          /\ samples' = samples /\ Cycle' = Cycle
      BY <1>7, <1>s, <1>t DEF TopUpRefused, Loops
    <2>2. Lost' = Lost
      BY <1>7, <1>t, <2>1 DEF TopUpRefused, Lost
    <2>3. Total' = Total
      BY <2>1, <2>2 DEF Total
    <2>4. /\ session'.balance = session.balance
          /\ session'.last_counters = session.last_counters
          /\ session'.billed_units = session.billed_units
          /\ session'.last_meter_at = session.last_meter_at
          /\ session'.metering_start = session.metering_start
      BY <1>t, <2>1, RefusedFields
    <2> QED
      BY <1>x, <1>e, <2>1, <2>2, <2>3, <2>4 DEF Exposed, Accounted
  <1>8. CASE ExchangeFails
    <2>1. loop'.at = "pay"
      BY <1>8 DEF ExchangeFails, NotStarted
    <2>2. faults'.failures = faults.failures + 1
      BY <1>8, <1>t DEF ExchangeFails
    <2>s. samples' = samples /\ Cycle' = Cycle
      BY <1>8, <1>s DEF ExchangeFails
    <2>3. Lost' = Lost + Cycle /\ Lost' \in Nat
      <3>1. Lost' = (faults.failures + 1) * Cycle
        BY <2>2, <2>s DEF Lost
      <3>2. (faults.failures + 1) * Cycle = faults.failures * Cycle + Cycle
        BY <1>t, <1>k, LostIs
      <3> QED
        BY <1>l, <1>k, <3>1, <3>2 DEF Lost
    <2>4. CASE session' = session /\ outbox' = outbox
      BY <1>t, <1>l, <1>k, <1>x, <2>1, <2>3, <2>s, <2>4 DEF Exposed
    <2>5. CASE session' = Handled /\ outbox' = EmptyOutbox
      <3>1. Acknowledged.balance = session.balance
        BY <1>t, AcknowledgedFields
      <3>2. session'.balance <= Lost + Cycle
        BY <1>t, <1>u, <1>l, <1>k, <1>c, <1>x, <2>5, <3>1 DEF Handled
      <3> QED
        BY <1>u, <1>l, <1>k, <1>e, <2>1, <2>3, <2>s, <2>5, <3>2 DEF Exposed
    <2> QED
      BY <1>8, <2>4, <2>5 DEF ExchangeFails
  <1>9. CASE UNCHANGED consumerVars
    BY <1>9, <1>x, Zenon DEF consumerVars, Exposed, Accounted, Lost, Total, Cycle
  <1> QED
    BY <1>1, <1>2, <1>3, <1>4, <1>5, <1>6, <1>7, <1>8, <1>9, <1>10
    DEF ConsumerNext, Consume

(* However stale the consumer's estimates are, and whatever is lost or     *)
(* refused: what a consumer without a meter has with the provider stays    *)
(* within one cycle of the watermark, plus one for every failed exchange,  *)
(* at every price of units and of time.                                    *)
THEOREM ExposureBounded == ConsumerSpec => []ExposureIsBounded
  <1>1. ConsumerInit => ConsumerInv
    <2> SUFFICES ASSUME ConsumerInit PROVE ConsumerInv
      OBVIOUS
    <2>1. session \in PeerSession /\ session.balance = 0
      BY WidthAssumption DEF ConsumerInit, NewSession, PeerSession, Phases, None
    <2>2. ConsumerTypes
      BY <2>1 DEF ConsumerInit, ConsumerTypes, EmptyOutbox, NotStarted, Loops, Reports
    <2>3. /\ loop.at = "pay" /\ outbox.exhausted = FALSE /\ faults.failures = 0
      BY DEF ConsumerInit, EmptyOutbox, NotStarted
    <2>4. Lost = 0 /\ Cycle \in Nat
      <3>1. samples.most \in Nat
        BY DEF ConsumerInit
      <3>2. Cycle \in Nat
        BY <3>1, CycleIs
      <3> QED
        BY <2>3, <3>2 DEF Lost
    <2>5. Exposed
      BY <2>1, <2>3, <2>4 DEF Exposed
    <2>6. Clocked
      BY DEF ConsumerInit, NewSession, Clocked
    <2> QED
      BY <2>2, <2>5, <2>6 DEF ConsumerInv
  <1>2. ConsumerInv /\ [ConsumerNext]_consumerVars => ConsumerInv'
    <2> SUFFICES ASSUME ConsumerInv, [ConsumerNext]_consumerVars PROVE ConsumerInv'
      OBVIOUS
    <2>1. ConsumerTypes' /\ Clocked'
      BY TypesStep, ClockedStep DEF ConsumerInv
    <2>2. metered' = metered
      BY Zenon DEF ConsumerNext, Consume, consumerVars, Deliver, TimePasses, Sample, Pay, Poll, TopUp,
             PayRefused, TopUpRefused, ExchangeFails
    <2> QED
      BY <2>1, <2>2, ExposedStep DEF ConsumerInv
  <1>3. ConsumerInv => ExposureIsBounded
    <2> SUFFICES ASSUME ConsumerInv, ~metered
                 PROVE  session.balance <= (1 + faults.failures) * Cycle
      BY DEF ExposureIsBounded
    <2>1. faults.failures \in Nat /\ samples.most \in Nat
      BY DEF ConsumerInv, ConsumerTypes
    <2>2. (1 + faults.failures) * Cycle = Lost + Cycle
      BY <2>1, CycleIs, LostIs DEF Lost
    <2> QED
      BY <2>2 DEF ConsumerInv, Exposed
  <1> QED
    BY <1>1, <1>2, <1>3, PTL DEF ConsumerSpec
=============================================================================
